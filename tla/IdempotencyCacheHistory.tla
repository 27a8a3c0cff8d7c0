----------------------- MODULE IdempotencyCacheHistory -----------------------
(***************************************************************************)
(* IdempotencyCache with a history of which other keys were used since     *)
(* each key was last used, and what the eviction order promises in terms   *)
(* of that history.                                                        *)
(***************************************************************************)
EXTENDS IdempotencyCache

VARIABLE since  \* since[k]: the other keys the LRU map served since it last served k

histVars == <<recency, entry, inflight, now, since>>

HistInit == Init /\ since = [k \in Keys |-> {}]

(* The methods that reach the LRU map with a Get that hits or an Add. *)
Uses(k) ==
  \/ LookupCached(k)
  \/ ClaimInFlight(k) /\ Cached(k)
  \/ ClaimRefused(k) /\ k \notin inflight
  \/ k \in inflight /\ \E a \in Answers : Store(k, a)

Note(k) == since' = [x \in Keys |-> IF x = k THEN {} ELSE since[x] \cup {k}]

HistNext ==
  \/ Tick /\ UNCHANGED since
  \/ \E k \in Keys : Operation(k) /\ IF Uses(k) THEN Note(k) ELSE UNCHANGED since

HistSpec == HistInit /\ [][HistNext]_histVars

(* An answer that is still live leaves the cache only when Capacity other    *)
(* keys were used after its last use: a key being polled by its clients      *)
(* cannot be pushed out by a few others (Lookup's lru.Get, cache.go:103).    *)
EvictsOnlyIdleAnswers ==
  [][\A k \in Keys : Valid(k) /\ ~Cached(k)' => Cardinality(since'[k]) >= Capacity]_histVars
=============================================================================
