-------------------------------- MODULE LRU --------------------------------
(***************************************************************************)
(* The eviction order of github.com/hashicorp/golang-lru/v2, the bounded   *)
(* map behind both the idempotency cache and the rate limiter.  The        *)
(* library is external: it is modelled from how those two packages use it  *)
(* (lru.New, Get, Add, Remove).                                            *)
(*                                                                         *)
(* A recency list is a sequence of distinct keys, least recently used      *)
(* first.  The values are kept by the module that uses the list, in a      *)
(* function whose domain is the set of listed keys.                        *)
(***************************************************************************)
EXTENDS Naturals, Sequences, SequencesExt

(* The recency lists over a set of keys that hold at most cap of them. *)
RecencyLists(keys, cap) ==
  {s \in Seq(keys) : IsInjective(s) /\ Len(s) <= cap}

(* Remove(k): the list without k. *)
Without(s, k) ==
  IF k \in Range(s) THEN RemoveAt(s, CHOOSE i \in DOMAIN s : s[i] = k) ELSE s

(* Get(k): a hit moves k to the most recently used end, a miss changes nothing. *)
Touch(s, k) ==
  IF k \in Range(s) THEN Append(Without(s, k), k) ELSE s

(* Add(k) on a map of capacity cap: k becomes the most recently used key, and *)
(* a new key that exceeds the capacity pushes the oldest one out.             *)
Insert(s, k, cap) ==
  LET t == Append(Without(s, k), k)
  IN  IF Len(t) > cap THEN Tail(t) ELSE t

(* The part of the contents that survives when only the keys in ks stay listed. *)
Keep(contents, ks) == [k \in DOMAIN contents \cap ks |-> contents[k]]
=============================================================================
