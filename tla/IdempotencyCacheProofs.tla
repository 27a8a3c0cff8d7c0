----------------------- MODULE IdempotencyCacheProofs -----------------------
(***************************************************************************)
(* What the idempotency cache guarantees for every set of keys and         *)
(* answers, every capacity and every lifetime, to callers that release     *)
(* only what they have claimed.                                            *)
(***************************************************************************)
EXTENDS IdempotencyCacheHistory, LRUProofs

(* Types of an empty cache: what New returns. *)
LEMMA InitTypeOK == Init => TypeOK
<1> SUFFICES ASSUME Init PROVE TypeOK
  OBVIOUS
<1>1. recency \in RecencyLists(Keys, Capacity) /\ Range(recency) = {}
  BY CacheAssumption DEF Init, RecencyLists, IsInjective, Range
<1>2. QED
  BY <1>1 DEF Init, TypeOK

(* Each method of the cache keeps the LRU list and the map of entries in    *)
(* step: the list has distinct keys, at most Capacity, and every listed key *)
(* has an entry.  The answers recorded must be of the right type.           *)
LEMMA OperationTypeOK ==
  ASSUME TypeOK, NEW k \in Keys,
         \/ LookupCached(k) \/ LookupInFlight(k) \/ LookupMiss(k)
         \/ ClaimInFlight(k) \/ ClaimRefused(k) \/ Abandon(k)
         \/ \E a \in Answers : Store(k, a)
  PROVE  /\ recency' \in RecencyLists(Keys, Capacity)
         /\ entry' \in [Range(recency') -> Entry]
         /\ inflight' \subseteq Keys
<1> USE CacheAssumption
<1> DEFINE t == Touch(recency, k)
<1>1. /\ recency \in RecencyLists(Keys, Capacity)
      /\ recency \in Seq(Keys) /\ IsInjective(recency) /\ Len(recency) <= Capacity
      /\ entry \in [Range(recency) -> Entry]
      /\ inflight \subseteq Keys
      /\ now \in Nat
  BY DEF TypeOK, RecencyLists
<1>2. t \in RecencyLists(Keys, Capacity) /\ Range(t) = Range(recency)
  BY <1>1, TouchLemma
<1> HIDE DEF t
<1>3. CASE LookupCached(k)
  BY <1>1, <1>2, <1>3 DEF LookupCached, t
<1>4. CASE LookupInFlight(k)
  BY <1>1, <1>4 DEF LookupInFlight, cacheVars
<1>5. CASE LookupMiss(k)
  <2> DEFINE w == Without(recency, k)
  <2>1. /\ w \in Seq(Keys) /\ IsInjective(w)
        /\ Range(w) = Range(recency) \ {k}
        /\ Len(w) = IF k \in Range(recency) THEN Len(recency) - 1 ELSE Len(recency)
    BY <1>1, WithoutLemma
  <2> HIDE DEF w
  <2>2. w \in RecencyLists(Keys, Capacity)
    BY <1>1, <2>1 DEF RecencyLists
  <2>3. Keep(entry, Range(w)) \in [Range(w) -> Entry]
    BY <1>1, <2>1 DEF Keep
  <2>4. QED
    BY <1>1, <1>5, <2>2, <2>3 DEF LookupMiss, w
<1>6. CASE ClaimInFlight(k)
  BY <1>1, <1>2, <1>6 DEF ClaimInFlight, t
<1>7. CASE ClaimRefused(k)
  BY <1>1, <1>2, <1>7 DEF ClaimRefused, t
<1>8. CASE Abandon(k)
  BY <1>1, <1>8 DEF Abandon
<1>9. ASSUME NEW a \in Answers, Store(k, a)
      PROVE  /\ recency' \in RecencyLists(Keys, Capacity)
             /\ entry' \in [Range(recency') -> Entry]
             /\ inflight' \subseteq Keys
  <2> DEFINE s == Insert(recency, k, Capacity)
  <2>1. /\ s \in RecencyLists(Keys, Capacity)
        /\ Range(s) \subseteq Range(recency) \cup {k}
    BY <1>1, InsertLemma
  <2>2. recency' = s
    BY <1>9 DEF Store
  <2> HIDE DEF s
  <2>3. [answer |-> a, expires |-> now + TTL] \in Entry
    BY <1>1 DEF Entry
  <2>4. \A x \in Range(recency') : x # k => entry[x] \in Entry
    BY <1>1, <2>1, <2>2
  <2>5. entry' \in [Range(recency') -> Entry]
    BY <1>9, <2>3, <2>4 DEF Store
  <2>6. inflight' \subseteq Keys
    BY <1>1, <1>9 DEF Store
  <2>7. QED
    BY <2>1, <2>2, <2>5, <2>6
<1>10. QED
  BY <1>3, <1>4, <1>5, <1>6, <1>7, <1>8, <1>9

(* What Store leaves in the map: the answer under k, for TTL from now, and of *)
(* the other keys only entries that were there, unchanged.                   *)
LEMMA StoreEffect ==
  ASSUME TypeOK, NEW k \in Keys, NEW a \in Answers, Store(k, a)
  PROVE  /\ Cached(k)' /\ entry'[k] = [answer |-> a, expires |-> now + TTL]
         /\ \A x \in Range(recency') : x # k => Cached(x) /\ entry'[x] = entry[x]
<1>1. k \in Range(recency') /\ Range(recency') \subseteq Range(recency) \cup {k}
  BY InsertLemma, CacheAssumption DEF TypeOK, Store
<1>2. QED
  BY <1>1 DEF Store, Cached

(* The other methods add and change no entry: at most they remove one. *)
LEMMA OthersAddNothing ==
  ASSUME TypeOK, NEW k \in Keys,
         \/ LookupCached(k) \/ LookupInFlight(k) \/ LookupMiss(k)
         \/ ClaimInFlight(k) \/ ClaimRefused(k) \/ Abandon(k)
  PROVE  \A x \in Range(recency') : Cached(x) /\ entry'[x] = entry[x]
<1>1. /\ recency \in RecencyLists(Keys, Capacity)
      /\ recency \in Seq(Keys) /\ IsInjective(recency)
      /\ entry \in [Range(recency) -> Entry]
  BY DEF TypeOK, RecencyLists
<1>2. Range(Touch(recency, k)) = Range(recency)
  BY <1>1, TouchLemma, CacheAssumption
<1>3. CASE \/ LookupCached(k) \/ LookupInFlight(k) \/ ClaimInFlight(k)
           \/ ClaimRefused(k) \/ Abandon(k)
  BY <1>2, <1>3
  DEF LookupCached, LookupInFlight, ClaimInFlight, ClaimRefused, Abandon, cacheVars, Cached
<1>4. CASE LookupMiss(k)
  <2>1. Range(recency') \subseteq Range(recency)
    BY <1>1, <1>4, WithoutLemma DEF LookupMiss
  <2>2. QED
    BY <1>1, <1>4, <2>1 DEF LookupMiss, Keep, Cached
<1>5. QED
  BY <1>3, <1>4

(* While the cache has room for every key in use, only a dead entry leaves. *)
LEMMA LiveEntriesStay ==
  ASSUME TypeOK, NEW k \in Keys,
         \/ LookupCached(k) \/ LookupInFlight(k) \/ LookupMiss(k)
         \/ ClaimInFlight(k) \/ ClaimRefused(k) \/ Abandon(k)
         \/ \E a \in Answers : Store(k, a),
         NEW S, IsFiniteSet(S), Cardinality(S) <= Capacity, Range(recency) \cup {k} \subseteq S,
         NEW x, Valid(x)
  PROVE  Cached(x)'
<1>1. /\ recency \in RecencyLists(Keys, Capacity)
      /\ recency \in Seq(Keys) /\ IsInjective(recency)
  BY DEF TypeOK, RecencyLists
<1>2. Range(Touch(recency, k)) = Range(recency)
  BY <1>1, TouchLemma, CacheAssumption
<1>3. CASE \/ LookupCached(k) \/ LookupInFlight(k) \/ ClaimInFlight(k)
           \/ ClaimRefused(k) \/ Abandon(k)
  BY <1>2, <1>3
  DEF LookupCached, LookupInFlight, ClaimInFlight, ClaimRefused, Abandon, cacheVars, Cached, Valid
<1>4. CASE LookupMiss(k)
  <2>1. Range(recency') = Range(recency) \ {k} /\ ~Valid(k)
    BY <1>1, <1>4, WithoutLemma DEF LookupMiss
  <2>2. QED
    BY <2>1 DEF Valid, Cached
<1>5. ASSUME NEW a \in Answers, Store(k, a) PROVE Cached(x)'
  <2>1. Range(recency') = Range(recency) \cup {k}
    BY <1>1, <1>5, RoomLemma, CacheAssumption DEF Store
  <2>2. QED
    BY <2>1 DEF Valid, Cached
<1>6. QED
  BY <1>3, <1>4, <1>5

(* The cache is well formed in every reachable state. *)
THEOREM TypeCorrect == Spec => []TypeOK
<1>1. TypeOK /\ [Next]_vars => TypeOK'
  <2> SUFFICES ASSUME TypeOK, [Next]_vars PROVE TypeOK'
    OBVIOUS
  <2>1. CASE Tick
    BY <2>1, CacheAssumption DEF TypeOK, Tick, cacheVars
  <2>2. ASSUME NEW k \in Keys, Operation(k) PROVE TypeOK'
    <3>1. /\ recency' \in RecencyLists(Keys, Capacity)
          /\ entry' \in [Range(recency') -> Entry]
          /\ inflight' \subseteq Keys
      BY <2>2, OperationTypeOK DEF Operation, Release
    <3>2. now' \in Nat
      BY <2>2 DEF Operation, TypeOK
    <3>3. QED
      BY <3>1, <3>2 DEF TypeOK
  <2>3. CASE UNCHANGED vars
    BY <2>3 DEF TypeOK, vars
  <2>4. QED
    BY <2>1, <2>2, <2>3 DEF Next
<1>2. QED
  BY InitTypeOK, <1>1, PTL DEF Spec

(* The keys one operation makes live: Store's alone, and it releases the     *)
(* key.  An operation on k claims no key but k, and claims it only when its  *)
(* answer is not live.                                                       *)
LEMMA OperationKeepsSeparation ==
  ASSUME TypeOK, InFlightHasNoAnswer, NEW k \in Keys, Operation(k)
  PROVE  InFlightHasNoAnswer'
<1> SUFFICES ASSUME NEW x \in inflight', Valid(x)' PROVE FALSE
  BY DEF InFlightHasNoAnswer
<1> USE CacheAssumption
<1>1. /\ recency \in RecencyLists(Keys, Capacity)
      /\ recency \in Seq(Keys) /\ IsInjective(recency)
      /\ entry \in [Range(recency) -> Entry]
  BY DEF TypeOK, RecencyLists
<1>2. Range(Touch(recency, k)) = Range(recency)
  BY <1>1, TouchLemma
<1>3. now' = now /\ x \in Range(recency') /\ now < entry'[x].expires
  BY DEF Operation, Valid, Cached
<1>4. CASE LookupCached(k) \/ LookupInFlight(k) \/ ClaimRefused(k)
  BY <1>2, <1>3, <1>4
  DEF LookupCached, LookupInFlight, ClaimRefused, cacheVars, InFlightHasNoAnswer, Valid, Cached
<1>5. CASE LookupMiss(k)
  <2>1. Range(recency') \subseteq Range(recency)
    BY <1>1, <1>5, WithoutLemma DEF LookupMiss
  <2>2. entry'[x] = entry[x]
    BY <1>1, <1>3, <1>5, <2>1 DEF LookupMiss, Keep
  <2>3. QED
    BY <1>3, <1>5, <2>1, <2>2 DEF LookupMiss, InFlightHasNoAnswer, Valid, Cached
<1>6. CASE ClaimInFlight(k)
  BY <1>2, <1>3, <1>6 DEF ClaimInFlight, InFlightHasNoAnswer, Valid, Cached
<1>7. CASE Abandon(k)
  BY <1>3, <1>7 DEF Abandon, InFlightHasNoAnswer, Valid, Cached
<1>8. ASSUME NEW a \in Answers, Store(k, a) PROVE FALSE
  <2>1. x \in inflight /\ x # k
    BY <1>8 DEF Store
  <2>2. Range(recency') \subseteq Range(recency) \cup {k}
    BY <1>1, <1>8, InsertLemma DEF Store
  <2>3. entry'[x] = entry[x] /\ x \in Range(recency)
    BY <1>3, <1>8, <2>1, <2>2 DEF Store
  <2>4. QED
    BY <1>3, <2>1, <2>3 DEF InFlightHasNoAnswer, Valid, Cached
<1>9. QED
  BY <1>4, <1>5, <1>6, <1>7, <1>8 DEF Operation, Release

(* The same for the clock and the empty cache. *)
LEMMA SeparationIsInductive ==
  /\ Init => InFlightHasNoAnswer
  /\ TypeOK /\ InFlightHasNoAnswer /\ [Next]_vars => InFlightHasNoAnswer'
<1>1. Init => InFlightHasNoAnswer
  BY DEF Init, InFlightHasNoAnswer
<1>2. TypeOK /\ InFlightHasNoAnswer /\ [Next]_vars => InFlightHasNoAnswer'
  <2> SUFFICES ASSUME TypeOK, InFlightHasNoAnswer, [Next]_vars
               PROVE  InFlightHasNoAnswer'
    OBVIOUS
  <2>1. CASE Tick
    <3> SUFFICES ASSUME NEW x \in inflight, x \in Range(recency), now + 1 < entry[x].expires
                 PROVE  FALSE
      BY <2>1 DEF Tick, cacheVars, InFlightHasNoAnswer, Valid, Cached
    <3>1. entry[x].expires \in Nat /\ now \in Nat
      BY DEF TypeOK, Entry
    <3>2. now < entry[x].expires
      BY <3>1
    <3>3. QED
      BY <3>2 DEF InFlightHasNoAnswer, Valid, Cached
  <2>2. ASSUME NEW k \in Keys, Operation(k) PROVE InFlightHasNoAnswer'
    BY <2>2, OperationKeepsSeparation
  <2>3. CASE UNCHANGED vars
    BY <2>3 DEF vars, InFlightHasNoAnswer, Valid, Cached
  <2>4. QED
    BY <2>1, <2>2, <2>3 DEF Next
<1>3. QED
  BY <1>1, <1>2

(* A key in flight never has a live answer, so a 409 of Lookup never hides   *)
(* an answer it ought to replay.                                             *)
THEOREM Separation == Spec => []InFlightHasNoAnswer
  BY TypeCorrect, SeparationIsInductive, PTL DEF Spec

(* A live answer is never replaced: replays within one lifetime agree.       *)
THEOREM LiveAnswersAreFinal == Spec => LiveAnswerIsFinal
<1> DEFINE Final == \A k \in Keys : Valid(k) /\ Cached(k)' => entry'[k] = entry[k]
<1>1. TypeOK /\ InFlightHasNoAnswer /\ [Next]_vars => [Final]_vars
  <2> SUFFICES ASSUME TypeOK, InFlightHasNoAnswer, Next,
                      NEW k \in Keys, Valid(k), Cached(k)'
               PROVE  entry'[k] = entry[k]
    OBVIOUS
  <2>1. CASE Tick
    BY <2>1 DEF Tick, cacheVars
  <2>2. ASSUME NEW x \in Keys, Operation(x) PROVE entry'[k] = entry[k]
    <3>1. CASE \/ LookupCached(x) \/ LookupInFlight(x) \/ ClaimInFlight(x)
               \/ ClaimRefused(x) \/ Abandon(x)
      BY <3>1 DEF LookupCached, LookupInFlight, ClaimInFlight, ClaimRefused, Abandon, cacheVars
    <3>2. CASE LookupMiss(x)
      BY <3>2 DEF LookupMiss, Keep, TypeOK, Valid, Cached
    <3>3. ASSUME NEW a \in Answers, x \in inflight, Store(x, a) PROVE entry'[k] = entry[k]
      <4>1. k # x
        BY <3>3 DEF InFlightHasNoAnswer
      <4>2. QED
        BY <3>3, <4>1 DEF Store, Cached
    <3>4. QED
      BY <2>2, <3>1, <3>2, <3>3 DEF Operation, Release
  <2>3. QED
    BY <2>1, <2>2 DEF Next
<1>2. QED
  BY TypeCorrect, Separation, <1>1, PTL DEF Spec, LiveAnswerIsFinal

-----------------------------------------------------------------------------
(* The history says at least what the eviction order says: the keys listed   *)
(* after a key were used since its last use.                                 *)
SinceInv ==
  /\ since \in [Keys -> SUBSET Keys]
  /\ \A k \in Keys : IsFiniteSet(since[k])
  /\ \A k \in Range(recency) : After(recency, k) \subseteq since[k]

(* What an operation does to the list: a use moves its key to the recent end, *)
(* anything else leaves the list alone or removes a dead key from it.         *)
LEMMA ListStep ==
  ASSUME NEW k \in Keys, Operation(k)
  PROVE  \/ /\ Uses(k)
            /\ \/ recency' = Touch(recency, k) /\ k \in Range(recency)
               \/ recency' = Insert(recency, k, Capacity)
         \/ /\ ~Uses(k)
            /\ recency' = recency \/ (recency' = Without(recency, k) /\ ~Valid(k))
<1>1. CASE Uses(k)
  BY <1>1 DEF Uses, LookupCached, ClaimInFlight, ClaimRefused, Store, Valid, Cached
<1>2. CASE ~Uses(k)
  BY <1>2 DEF Operation, Release, Uses, LookupCached, LookupInFlight, LookupMiss, ClaimInFlight,
              ClaimRefused, Abandon, Store, Cached, Touch, cacheVars
<1>3. QED
  BY <1>1, <1>2

LEMMA OperationKeepsSince ==
  ASSUME TypeOK, SinceInv, NEW k \in Keys, Operation(k),
         IF Uses(k) THEN Note(k) ELSE UNCHANGED since
  PROVE  SinceInv'
<1>t. /\ recency \in RecencyLists(Keys, Capacity) /\ recency \in Seq(Keys)
      /\ IsInjective(recency) /\ Capacity \in Nat \ {0}
      /\ Range(recency) \subseteq Keys
  BY CacheAssumption DEF TypeOK, RecencyLists, Range
<1>1. CASE ~Uses(k)
  <2>1. since' = since /\ (recency' = recency \/ recency' = Without(recency, k))
    BY <1>1, ListStep
  <2>2. /\ Range(recency') \subseteq Range(recency)
        /\ \A y : After(recency', y) \subseteq After(recency, y)
    BY <1>t, <2>1, WithoutLemma, WithoutOrder
  <2>3. QED
    BY <2>1, <2>2 DEF SinceInv
<1>2. CASE Uses(k)
  <2>1. since' = [x \in Keys |-> IF x = k THEN {} ELSE since[x] \cup {k}]
    BY <1>2 DEF Note
  <2>2. \/ recency' = Touch(recency, k) /\ k \in Range(recency)
        \/ recency' = Insert(recency, k, Capacity)
    BY <1>2, ListStep
  <2>3. Range(recency') \subseteq Range(recency) \cup {k}
    BY <1>t, <2>2, TouchLemma, InsertLemma
  <2>4. /\ After(recency', k) = {}
        /\ \A y : y # k => After(recency', y) \subseteq After(recency, y) \cup {k}
    BY <1>t, <2>2, UseOrder
  <2>5. since' \in [Keys -> SUBSET Keys]
    BY <2>1 DEF SinceInv
  <2>6. \A x \in Keys : IsFiniteSet(since'[x])
    BY <2>1, FS_EmptySet, FS_AddElement DEF SinceInv
  <2>7. \A x \in Range(recency') : After(recency', x) \subseteq since'[x]
    BY <1>t, <2>1, <2>3, <2>4 DEF SinceInv
  <2>8. QED
    BY <2>5, <2>6, <2>7 DEF SinceInv
<1>3. QED
  BY <1>1, <1>2

LEMMA SinceIsInductive ==
  /\ HistInit => SinceInv
  /\ TypeOK /\ SinceInv /\ [HistNext]_histVars => SinceInv'
<1>1. HistInit => SinceInv
  BY FS_EmptySet DEF HistInit, Init, SinceInv, Range
<1>2. ASSUME SinceInv, UNCHANGED <<recency, since>> PROVE SinceInv'
  BY <1>2 DEF SinceInv
<1>3. QED
  BY <1>1, <1>2, OperationKeepsSince DEF HistNext, histVars, Tick, cacheVars

(* What holds of the cache holds of it with its history. *)
LEMMA HistoryIsCache == HistSpec => Spec
<1>1. HistInit => Init
  BY DEF HistInit
<1>2. [HistNext]_histVars => [Next]_vars
  BY DEF HistNext, histVars, Next, vars
<1>3. QED
  BY <1>1, <1>2, PTL DEF HistSpec, Spec

(* A live answer leaves the cache only after Capacity other keys were used   *)
(* since its own last use: the cache evicts in that order, and an operation  *)
(* never removes a live answer on purpose.                                   *)
THEOREM IdleAnswersEvicted == HistSpec => EvictsOnlyIdleAnswers
<1> DEFINE Idle == \A k \in Keys : Valid(k) /\ ~Cached(k)' => Cardinality(since'[k]) >= Capacity
<1>1. TypeOK /\ SinceInv /\ SinceInv' /\ [HistNext]_histVars => [Idle]_histVars
  <2> SUFFICES ASSUME TypeOK, SinceInv, SinceInv', HistNext,
                      NEW x \in Keys, Valid(x), ~Cached(x)'
               PROVE  Cardinality(since'[x]) >= Capacity
    OBVIOUS
  <2>t. /\ recency \in RecencyLists(Keys, Capacity) /\ recency \in Seq(Keys)
        /\ IsInjective(recency) /\ Capacity \in Nat \ {0}
        /\ x \in Range(recency) /\ x \notin Range(recency')
    BY CacheAssumption DEF TypeOK, RecencyLists, Valid, Cached
  <2>1. PICK k \in Keys : Operation(k) /\ IF Uses(k) THEN Note(k) ELSE UNCHANGED since
    BY <2>t DEF HistNext, Tick, cacheVars
  <2>2. recency' = Insert(recency, k, Capacity) /\ Note(k)
    <3>1. recency' # recency
      BY <2>t
    <3>2. ~(recency' = Without(recency, k) /\ ~Valid(k))
      BY <2>t, WithoutLemma
    <3>3. ~(recency' = Touch(recency, k))
      BY <2>t, TouchLemma
    <3>4. QED
      BY <2>1, <3>1, <3>2, <3>3, ListStep
  <2>3. /\ x # k /\ Len(recency') = Capacity
        /\ Range(recency') \subseteq After(recency, x) \cup {k}
    BY <2>t, <2>2, EvictLemma
  <2>4. Range(recency') \subseteq since'[x] /\ IsFiniteSet(since'[x])
    BY <2>t, <2>2, <2>3 DEF SinceInv, Note
  <2>5. recency' \in Seq(Keys) /\ IsInjective(recency')
    BY <2>t, <2>2, InsertLemma DEF RecencyLists
  <2>6. Len(recency') <= Cardinality(since'[x])
    BY <2>4, <2>5, LengthLemma
  <2>7. QED
    BY <2>3, <2>4, <2>6, FS_CardinalityType, <2>t
<1>2. QED
  BY TypeCorrect, HistoryIsCache, SinceIsInductive, <1>1, PTL DEF HistSpec, EvictsOnlyIdleAnswers
=============================================================================
