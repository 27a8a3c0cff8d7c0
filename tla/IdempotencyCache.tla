-------------------------- MODULE IdempotencyCache --------------------------
(***************************************************************************)
(* The per-endpoint idempotency cache of core/idempotency/cache.go: a      *)
(* bounded LRU map from Idempotency-Key to the complete answer, with a     *)
(* lifetime, and the set of keys whose request is still being processed.   *)
(* Every method holds the cache's mutex from its first line to its last,   *)
(* so each is one action; an action is named after the method and, where a *)
(* method has several results, after the result.                           *)
(*                                                                         *)
(* Next lets any caller do what the methods' comments permit it: look up,  *)
(* try to claim, and release with Store or Abandon a key that is claimed.  *)
(* Which request holds which claim is the business of module Gateway.      *)
(***************************************************************************)
EXTENDS LRU, FiniteSets

CONSTANTS
  Keys,      \* the Idempotency-Key values that ValidateKey accepts
  Answers,   \* the recorded responses
  Capacity,  \* idempotency_cache_size
  TTL,       \* the lifetime of an entry, in ticks
  MaxTime    \* bound on the clock

ASSUME CacheAssumption ==
  /\ Capacity \in Nat \ {0}
  /\ TTL \in Nat \ {0}
  /\ MaxTime \in Nat

VARIABLES
  recency,   \* the LRU list of the cached keys, least recently used first
  entry,     \* the cached entry of each listed key
  inflight,  \* the keys that are claimed
  now        \* the clock, c.now()

cacheVars == <<recency, entry, inflight>>
vars == <<recency, entry, inflight, now>>

Entry == [answer : Answers, expires : Nat]

TypeOK ==
  /\ recency \in RecencyLists(Keys, Capacity)
  /\ entry \in [Range(recency) -> Entry]
  /\ inflight \subseteq Keys
  /\ now \in Nat

Init ==
  /\ recency = <<>>
  /\ entry = [k \in {} |-> 0]
  /\ inflight = {}
  /\ now = 0

Cached(k) == k \in Range(recency)

(* The entry of k is there and its lifetime has not run out. *)
Valid(k) == Cached(k) /\ now < entry[k].expires
-----------------------------------------------------------------------------
(* Mutant of LookupCached: a hit found with Peek, which keeps the eviction order. *)
LookupPeeks(k) ==
  /\ k \notin inflight
  /\ Valid(k)
  /\ UNCHANGED cacheVars

(* Lookup returns the answer, which the caller finds in entry[k].answer. *)
LookupCached(k) ==
  /\ k \notin inflight
  /\ Valid(k)
  /\ recency' = Touch(recency, k)
  /\ UNCHANGED <<entry, inflight>>

(* Lookup reports the key in flight, before it looks at the LRU map. *)
LookupInFlight(k) ==
  /\ k \in inflight
  /\ UNCHANGED cacheVars

(* Lookup finds nothing, or an expired entry that it removes. *)
LookupMiss(k) ==
  /\ k \notin inflight
  /\ ~Valid(k)
  /\ recency' = Without(recency, k)
  /\ entry' = Keep(entry, Range(recency'))
  /\ UNCHANGED inflight

(* Mutant of ClaimInFlight: it trusts the Lookup before it for the cached answer. *)
ClaimUnchecked(k) ==
  /\ k \notin inflight
  /\ inflight' = inflight \cup {k}
  /\ recency' = Touch(recency, k)
  /\ UNCHANGED entry

(* ClaimInFlight succeeds.  An expired entry stays, but the Get that found it *)
(* has made it the most recently used one.                                    *)
ClaimInFlight(k) ==
  /\ k \notin inflight
  /\ ~Valid(k)
  /\ inflight' = inflight \cup {k}
  /\ recency' = Touch(recency, k)
  /\ UNCHANGED entry

(* ClaimInFlight returns false: the key is in flight, or its answer is cached. *)
ClaimRefused(k) ==
  /\ \/ k \in inflight /\ UNCHANGED recency
     \/ k \notin inflight /\ Valid(k) /\ recency' = Touch(recency, k)
  /\ UNCHANGED <<entry, inflight>>

(* Mutant of Store: the capacity off by one. *)
StoreOneMore(k, a) ==
  /\ recency' = Insert(recency, k, Capacity + 1)
  /\ entry' = [x \in Range(recency') |->
                 IF x = k THEN [answer |-> a, expires |-> now + TTL] ELSE entry[x]]
  /\ inflight' = inflight \ {k}

(* Store records the answer for TTL from now and releases the claim. *)
Store(k, a) ==
  /\ recency' = Insert(recency, k, Capacity)
  /\ entry' = [x \in Range(recency') |->
                 IF x = k THEN [answer |-> a, expires |-> now + TTL] ELSE entry[x]]
  /\ inflight' = inflight \ {k}

(* Abandon releases the claim and records nothing. *)
Abandon(k) ==
  /\ inflight' = inflight \ {k}
  /\ UNCHANGED <<recency, entry>>

Tick ==
  /\ now < MaxTime
  /\ now' = now + 1
  /\ UNCHANGED cacheVars
-----------------------------------------------------------------------------
(* Store and Abandon are called by the holder of the claim only: that is the *)
(* contract in ClaimInFlight's comment.                                      *)
Release(k) ==
  /\ k \in inflight
  /\ Abandon(k) \/ \E a \in Answers : Store(k, a)

Operation(k) ==
  /\ \/ LookupCached(k)
     \/ LookupInFlight(k)
     \/ LookupMiss(k)
     \/ ClaimInFlight(k)
     \/ ClaimRefused(k)
     \/ Release(k)
  /\ UNCHANGED now

Next == Tick \/ \E k \in Keys : Operation(k)

Spec == Init /\ [][Next]_vars
-----------------------------------------------------------------------------
(* A key in flight has no live answer: were both there, Lookup would report  *)
(* the key in flight (409) and hide an answer it ought to replay, since it   *)
(* tests c.inflight first (cache.go:100).                                    *)
InFlightHasNoAnswer == \A k \in inflight : ~Valid(k)

(* A live answer is final: no step replaces it by another answer.  Only      *)
(* expiry or eviction ends it, so two replays of one key within a lifetime   *)
(* cannot differ (Store overwrites whatever is there, cache.go:151).         *)
LiveAnswerIsFinal ==
  [][\A k \in Keys : Valid(k) /\ Cached(k)' => entry'[k] = entry[k]]_vars
=============================================================================
