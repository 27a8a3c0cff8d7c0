---------------------------- MODULE GatewayProofs ----------------------------
(***************************************************************************)
(* The claims of modules Gateway and Scrape, for any number of requests,   *)
(* keys and clients, any capacity, lifetime and rate, and every            *)
(* configuration.                                                          *)
(*                                                                         *)
(* The argument is in layers, each an inductive invariant that the later   *)
(* ones assume:                                                            *)
(*   ControlInv  pc, key and inflight alone: who owns which claim.  From   *)
(*               it every step is one that the cache's contract allows;    *)
(*   GatewayInv  adds the types, of the cache and the limiter too;         *)
(*   AnswersInv  adds what has been answered, cached and delivered;        *)
(*   BalanceInv  adds the counters, as sums over the requests' stages;     *)
(*   PageInv     a page under construction is bounded by those counters;   *)
(*   RationInv   what a client's requests spent and its bucket gave out;   *)
(*   LifeInv     the kept answers of one key and its entry in the cache.   *)
(* Last, the contracts of cache and limiter inside the endpoint, and that  *)
(* every step of a request goes forward.                                   *)
(***************************************************************************)
EXTENDS Scrape, FiniteSetTheorems, TLAPS

CacheThm == INSTANCE IdempotencyCacheProofs WITH Answers <- Answer, since <- <<>>
LimiterThm == INSTANCE RateLimitProofs WITH Callers <- Requests, granted <- <<>>

(* A request has a key when it looks one up, and none before it is read. *)
KeyedStages ==
  \A r \in Requests :
    /\ pc[r] \in {"lookup", "claim", "final"} => key[r] \in Keys
    /\ pc[r] = "new" => key[r] = NoKey

ControlInv ==
  /\ pc \in [Requests -> Stages]
  /\ key \in [Requests -> Keys \cup {NoKey}]
  /\ inflight \subseteq Keys
  /\ KeyedStages
  /\ ClaimOwnership

-----------------------------------------------------------------------------
(* A step that neither enters nor leaves the region between the claim and  *)
(* its release.                                                            *)
LEMMA StayInside ==
  ASSUME ControlInv, NEW r \in Requests, NEW s \in Stages,
         pc' = [pc EXCEPT ![r] = s], UNCHANGED <<key, inflight>>,
         s # "new", s \in {"lookup", "claim", "final"} => key[r] \in Keys,
         key[r] = NoKey \/ (pc[r] \in Claimed <=> s \in Claimed)
  PROVE  ControlInv'
<1>1. pc' \in [Requests -> Stages]
  BY DEF ControlInv
<1>2. KeyedStages'
  BY DEF ControlInv, KeyedStages
<1>3. \A q \in Requests : Owner(q)' <=> Owner(q)
  BY DEF ControlInv, Owner
<1>4. ClaimOwnership'
  BY <1>3 DEF ControlInv, ClaimOwnership
<1>5. QED
  BY <1>1, <1>2, <1>4 DEF ControlInv

(* ClaimInFlight succeeds: the request becomes the owner of its key. *)
LEMMA TakeClaim ==
  ASSUME ControlInv, NEW r \in Requests, NEW s \in Claimed \ {"final"},
         pc[r] = "claim", key[r] \notin inflight,
         pc' = [pc EXCEPT ![r] = s], key' = key, inflight' = inflight \cup {key[r]}
  PROVE  ControlInv'
<1>1. pc' \in [Requests -> Stages]
  BY DEF ControlInv, Claimed, Stages
<1>2. key[r] \in Keys /\ key[r] # NoKey
  BY GatewayAssumption DEF ControlInv, KeyedStages
<1>3. KeyedStages'
  BY DEF ControlInv, KeyedStages, Claimed
<1>4. \A q \in Requests : Owner(q)' <=> Owner(q) \/ q = r
  BY <1>2 DEF ControlInv, Owner
<1>5. \A q \in Requests : Owner(q) => key[q] # key[r]
  BY <1>2 DEF ControlInv, ClaimOwnership
<1>6. ClaimOwnership'
  BY <1>2, <1>4, <1>5 DEF ControlInv, ClaimOwnership
<1>7. QED
  BY <1>1, <1>2, <1>3, <1>6 DEF ControlInv

(* finalizeIdempotent: the owner releases its key and is one no more. *)
LEMMA DropClaim ==
  ASSUME ControlInv, NEW r \in Requests, pc[r] = "final",
         pc' = [pc EXCEPT ![r] = "done"], key' = key, inflight' = inflight \ {key[r]}
  PROVE  ControlInv'
<1>1. pc' \in [Requests -> Stages]
  BY DEF ControlInv, Stages
<1>2. KeyedStages'
  BY DEF ControlInv, KeyedStages
<1>3. Owner(r) /\ key[r] \in Keys
  BY GatewayAssumption DEF ControlInv, KeyedStages, Owner, Claimed
<1>4. \A q \in Requests : Owner(q)' <=> Owner(q) /\ q # r
  BY DEF ControlInv, Owner, Claimed
<1>5. \A q \in Requests : Owner(q) /\ key[q] = key[r] => q = r
  BY <1>3 DEF ControlInv, ClaimOwnership
<1>6. ClaimOwnership'
  BY <1>3, <1>4, <1>5 DEF ControlInv, ClaimOwnership
<1>7. QED
  BY <1>1, <1>2, <1>6 DEF ControlInv

(* Reading the header of a new request: it has a key, and no claim yet. *)
LEMMA ReadKey ==
  ASSUME ControlInv, NEW r \in Requests, NEW k \in Keys, pc[r] = "new",
         pc' = [pc EXCEPT ![r] = "lookup"], key' = [key EXCEPT ![r] = k],
         inflight' = inflight
  PROVE  ControlInv'
<1>1. pc' \in [Requests -> Stages] /\ key' \in [Requests -> Keys \cup {NoKey}]
  BY DEF ControlInv, Stages
<1>2. KeyedStages'
  BY DEF ControlInv, KeyedStages
<1>3. \A q \in Requests : (Owner(q)' <=> Owner(q)) /\ (Owner(q) => key'[q] = key[q])
  BY DEF ControlInv, Owner, Claimed
<1>4. ClaimOwnership'
  BY <1>3 DEF ControlInv, ClaimOwnership
<1>5. QED
  BY <1>1, <1>2, <1>4 DEF ControlInv
-----------------------------------------------------------------------------
(* Whatever a request does, the keys in flight stay the keys of its owners. *)
LEMMA RequestKeepsControl ==
  ASSUME ControlInv, NEW r \in Requests, Enter(r) \/ Serve(r)
  PROVE  ControlInv'
<1> USE DEF At, Goto, KeepRequest, RequestOnly, cacheVars, limiterVars
<1>k. /\ pc[r] \in {"lookup", "claim", "final"} => key[r] \in Keys /\ key[r] # NoKey
      /\ pc[r] = "new" => key[r] = NoKey
  BY GatewayAssumption DEF ControlInv, KeyedStages
<1>p. PastClaim \in Claimed \ {"final"} /\ PastClaim \in Stages
  BY DEF PastClaim, Claimed, Stages
<1>1. CASE RefuseEntry(r)
  <2>1. pc' = [pc EXCEPT ![r] = "done"] /\ UNCHANGED <<key, inflight>> /\ key[r] = NoKey
    BY <1>1, <1>k DEF RefuseEntry, Refuse
  <2>2. QED
    BY <2>1, StayInside DEF Stages
<1>2. CASE EnterWithKey(r)
  BY <1>2, ReadKey DEF EnterWithKey
<1>3. CASE EnterWithoutKey(r)
  <2>1. pc' = [pc EXCEPT ![r] = PastClaim] /\ UNCHANGED <<key, inflight>> /\ key[r] = NoKey
    BY <1>3, <1>k DEF EnterWithoutKey
  <2>2. QED
    BY <1>p, <2>1, StayInside DEF Claimed
<1>4. CASE Replay(r) \/ LookupConflict(r) \/ ClaimConflict(r)
  <2>1. /\ pc' = [pc EXCEPT ![r] = "done"] /\ UNCHANGED <<key, inflight>>
        /\ pc[r] \in {"lookup", "claim"}
    BY <1>4 DEF Replay, LookupConflict, ClaimConflict, Refuse,
                Cache!LookupCached, Cache!LookupInFlight, Cache!ClaimRefused, Cache!cacheVars
  <2>2. QED
    BY <2>1, StayInside DEF Stages, Claimed
<1>5. CASE LookupMiss(r)
  <2>1. /\ pc' = [pc EXCEPT ![r] = "claim"] /\ UNCHANGED <<key, inflight>>
        /\ pc[r] = "lookup"
    BY <1>5 DEF LookupMiss, Cache!LookupMiss
  <2>2. QED
    BY <1>k, <2>1, StayInside DEF Stages, Claimed
<1>6. CASE Claim(r)
  <2>1. /\ pc' = [pc EXCEPT ![r] = PastClaim] /\ key' = key /\ pc[r] = "claim"
        /\ key[r] \notin inflight /\ inflight' = inflight \cup {key[r]}
    BY <1>6 DEF Claim, Cache!ClaimInFlight
  <2>2. QED
    BY <1>p, <2>1, TakeClaim
<1>7. CASE ReadClock(r) \/ Admit(r) \/ Receive(r) \/ StartSend(r) \/ BackoffOver(r)
  <2>1. /\ UNCHANGED <<key, inflight>> /\ pc[r] \in Claimed
        /\ \E s \in Claimed \ {"final"} : pc' = [pc EXCEPT ![r] = s]
    BY <1>7 DEF ReadClock, Admit, Receive, StartSend, BackoffOver, Claimed
  <2>2. PICK s \in Claimed \ {"final"} : pc' = [pc EXCEPT ![r] = s]
    BY <2>1
  <2>3. QED
    BY <2>1, <2>2, StayInside DEF Stages, Claimed
<1>8. CASE \/ Deny(r) \/ RejectBody(r) \/ CatchHoneypot(r) \/ Invalid(r) \/ StopAtRender(r)
           \/ FirstSend(r) \/ BackoffCut(r) \/ SecondSend(r) \/ Panic(r) \/ Observe(r)
  <2> DEFINE end == IF key[r] = NoKey THEN "done" ELSE "final"
  <2>1. UNCHANGED <<key, inflight>> /\ pc[r] \in Claimed \ {"final"}
    BY <1>8 DEF Deny, RejectBody, CatchHoneypot, Invalid, StopAtRender,
                FirstSend, BackoffCut, SecondSend, Panic, Observe, Claimed
  <2>2. \/ pc' = [pc EXCEPT ![r] = end]
        \/ pc' = [pc EXCEPT ![r] = "backoff"] \/ pc' = [pc EXCEPT ![r] = "observe"]
    BY <1>8 DEF Deny, RejectBody, CatchHoneypot, Invalid, StopAtRender,
                FirstSend, BackoffCut, SecondSend, Panic, Observe, Respond, Sent, Failed
  <2>3. key[r] = NoKey \/ key[r] \in Keys
    BY DEF ControlInv
  <2>4. QED
    BY <2>1, <2>2, <2>3, StayInside DEF Stages, Claimed
<1>9. CASE Finalize(r)
  <2>1. /\ pc' = [pc EXCEPT ![r] = "done"] /\ key' = key /\ pc[r] = "final"
        /\ inflight' = inflight \ {key[r]}
    BY <1>9 DEF Finalize, Cache!Store, Cache!Abandon
  <2>2. QED
    BY <2>1, DropClaim
<1>10. QED
  BY <1>1, <1>2, <1>3, <1>4, <1>5, <1>6, <1>7, <1>8, <1>9 DEF Enter, Serve, Step

(* ControlInv holds at the start and survives every step, the clock included. *)
LEMMA ControlIsInductive ==
  /\ Init => ControlInv
  /\ ControlInv /\ [Next]_vars => ControlInv'
<1>1. Init => ControlInv
  BY GatewayAssumption
  DEF Init, Cache!Init, ControlInv, Stages, KeyedStages, ClaimOwnership, Owner
<1>2. ASSUME ControlInv, Tick \/ UNCHANGED vars PROVE ControlInv'
  BY <1>2 DEF Tick, vars, requestVars, cacheVars, ControlInv, KeyedStages, ClaimOwnership, Owner
<1>3. QED
  BY <1>1, <1>2, RequestKeepsControl DEF Next

(* No two requests ever process one Idempotency-Key at a time, and no path   *)
(* out of ServeHTTP leaves a key in flight with nobody working on it.        *)
THEOREM Ownership == Spec => []ClaimOwnership
<1>1. ControlInv => ClaimOwnership
  BY DEF ControlInv
<1>2. QED
  BY ControlIsInductive, <1>1, PTL DEF Spec
-----------------------------------------------------------------------------
(* The cache and the limiter as Gateway instantiates them are those that     *)
(* their own proofs are about.                                               *)
LEMMA SameMethods ==
  ASSUME NEW k \in Keys
  PROVE  /\ Cache!LookupCached(k) <=> CacheThm!LookupCached(k)
         /\ Cache!LookupInFlight(k) <=> CacheThm!LookupInFlight(k)
         /\ Cache!LookupMiss(k) <=> CacheThm!LookupMiss(k)
         /\ Cache!ClaimInFlight(k) <=> CacheThm!ClaimInFlight(k)
         /\ Cache!ClaimRefused(k) <=> CacheThm!ClaimRefused(k)
         /\ Cache!Abandon(k) <=> CacheThm!Abandon(k)
         /\ \A a \in Answer : Cache!Store(k, a) <=> CacheThm!Store(k, a)
<1> USE DEF Cache!Range, CacheThm!Range,
            Cache!Without, CacheThm!Without, Cache!RemoveAt, CacheThm!RemoveAt,
            Cache!Touch, CacheThm!Touch, Cache!Insert, CacheThm!Insert,
            Cache!Keep, CacheThm!Keep, Cache!Valid, CacheThm!Valid,
            Cache!Cached, CacheThm!Cached, Cache!cacheVars, CacheThm!cacheVars
<1>1. /\ Cache!LookupCached(k) <=> CacheThm!LookupCached(k)
      /\ Cache!LookupInFlight(k) <=> CacheThm!LookupInFlight(k)
      /\ Cache!LookupMiss(k) <=> CacheThm!LookupMiss(k)
  BY DEF Cache!LookupCached, CacheThm!LookupCached, Cache!LookupInFlight,
         CacheThm!LookupInFlight, Cache!LookupMiss, CacheThm!LookupMiss
<1>2. /\ Cache!ClaimInFlight(k) <=> CacheThm!ClaimInFlight(k)
      /\ Cache!ClaimRefused(k) <=> CacheThm!ClaimRefused(k)
  BY DEF Cache!ClaimInFlight, CacheThm!ClaimInFlight, Cache!ClaimRefused, CacheThm!ClaimRefused
<1>3. \A a \in Answer : Cache!Store(k, a) <=> CacheThm!Store(k, a)
  BY DEF Cache!Store, CacheThm!Store
<1>4. Cache!Abandon(k) <=> CacheThm!Abandon(k)
  BY DEF Cache!Abandon, CacheThm!Abandon
<1>5. QED
  BY <1>1, <1>2, <1>3, <1>4

LEMMA SameCache ==
  /\ Cache!TypeOK <=> CacheThm!TypeOK
  /\ Cache!Init <=> CacheThm!Init
  /\ \A k \in Keys : Cache!Operation(k) <=> CacheThm!Operation(k)
<1>1. Cache!TypeOK <=> CacheThm!TypeOK
  BY DEF Cache!TypeOK, CacheThm!TypeOK, Cache!RecencyLists, CacheThm!RecencyLists,
         Cache!IsInjective, CacheThm!IsInjective, Cache!Range, CacheThm!Range,
         Cache!Entry, CacheThm!Entry
<1>2. Cache!Init <=> CacheThm!Init
  BY DEF Cache!Init, CacheThm!Init
<1>3. ASSUME NEW k \in Keys PROVE Cache!Operation(k) <=> CacheThm!Operation(k)
  <2>1. Cache!Release(k) <=> CacheThm!Release(k)
    BY SameMethods DEF Cache!Release, CacheThm!Release
  <2>2. QED
    BY <2>1, SameMethods, Zenon DEF Cache!Operation, CacheThm!Operation
<1>4. QED
  BY <1>1, <1>2, <1>3

(* Each step of a request is one operation that the cache's contract allows, *)
(* on the request's own key, or does not touch the cache: the request that   *)
(* calls Store or Abandon in finalizeIdempotent holds the claim.             *)
LEMMA RequestKeepsContract ==
  ASSUME ControlInv, RequestsTypeOK, NEW r \in Requests, Enter(r) \/ Serve(r)
  PROVE  (\E k \in Keys : Cache!Operation(k)) \/ UNCHANGED Cache!vars
<1> USE DEF Cache!vars, cacheVars, RequestOnly, At
<1>1. pc[r] \in {"lookup", "claim", "final"} => key[r] \in Keys
  BY DEF ControlInv, KeyedStages
<1>2. CASE Replay(r) \/ LookupConflict(r) \/ LookupMiss(r) \/ Claim(r) \/ ClaimConflict(r)
  <2>1. key[r] \in Keys /\ now' = now
    BY <1>1, <1>2 DEF Replay, LookupConflict, LookupMiss, Claim, ClaimConflict
  <2>2. \/ Cache!LookupCached(key[r]) \/ Cache!LookupInFlight(key[r]) \/ Cache!LookupMiss(key[r])
        \/ Cache!ClaimInFlight(key[r]) \/ Cache!ClaimRefused(key[r])
    BY <1>2 DEF Replay, LookupConflict, LookupMiss, Claim, ClaimConflict
  <2>3. Cache!Operation(key[r])
    BY <2>1, <2>2 DEF Cache!Operation
  <2>4. QED
    BY <2>1, <2>3
<1>3. CASE Finalize(r)
  <2>1. key[r] \in Keys /\ Owner(r) /\ now' = now
    BY <1>1, <1>3, GatewayAssumption DEF Finalize, Owner, Claimed
  <2>2. key[r] \in inflight
    BY <2>1 DEF ControlInv, ClaimOwnership
  <2>3. answer[r] \in Answer
    BY DEF RequestsTypeOK
  <2>4. Cache!Store(key[r], answer[r]) \/ Cache!Abandon(key[r])
    BY <1>3 DEF Finalize
  <2>5. Cache!Operation(key[r])
    BY <2>1, <2>2, <2>3, <2>4 DEF Cache!Operation, Cache!Release
  <2>6. QED
    BY <2>1, <2>5
<1>4. CASE Enter(r) \/ ReadClock(r) \/ Admit(r) \/ Deny(r)
  BY <1>4 DEF Enter, RefuseEntry, EnterWithKey, EnterWithoutKey, ReadClock, Admit, Deny
<1>5. CASE \/ RejectBody(r) \/ CatchHoneypot(r) \/ Invalid(r) \/ Receive(r)
           \/ StopAtRender(r) \/ StartSend(r)
           \/ FirstSend(r) \/ BackoffCut(r) \/ BackoffOver(r) \/ SecondSend(r) \/ Panic(r)
           \/ Observe(r)
  BY <1>5 DEF RejectBody, CatchHoneypot, Invalid, Receive, StopAtRender, StartSend,
              FirstSend, BackoffCut, BackoffOver, SecondSend, Panic, Observe
<1>6. QED
  BY <1>2, <1>3, <1>4, <1>5 DEF Serve, Step
-----------------------------------------------------------------------------
(* The types of the requests are inductive with a bound on the deliveries by *)
(* stage, and with the cache's type invariant: a replay copies its answer.   *)
Attempted(s, d) ==
  /\ s \in {"new", "lookup", "claim", "limit", "allow", "parse", "render", "send"} => d = 0
  /\ s \in {"backoff", "resend"} => d <= 1

Attempts == \A r \in Requests : Attempted(pc[r], delivered[r])

GatewayInv ==
  /\ ControlInv
  /\ TypeOK
  /\ Attempts

(* A step of one request to the stage s. *)
LEMMA StepTyped ==
  ASSUME RequestsTypeOK, Attempts, NEW r \in Requests, NEW s \in Stages,
         pc' = [pc EXCEPT ![r] = s], key' \in [Requests -> Keys \cup {NoKey}],
         UNCHANGED client, answer' \in [Requests -> Answer],
         metric' \in [Metrics -> Nat], storedAt' \in [Requests -> Nat],
         NEW d \in 0..2, delivered' = [delivered EXCEPT ![r] = d], Attempted(s, d)
  PROVE  RequestsTypeOK' /\ Attempts'
<1>1. RequestsTypeOK'
  BY DEF RequestsTypeOK
<1>2. ASSUME NEW q \in Requests PROVE Attempted(pc'[q], delivered'[q])
  <2>1. CASE q = r
    BY <2>1 DEF RequestsTypeOK
  <2>2. CASE q # r
    BY <2>2 DEF RequestsTypeOK, Attempts
  <2>3. QED
    BY <2>1, <2>2
<1>3. QED
  BY <1>1, <1>2 DEF Attempts

(* The same for a step without a delivery. *)
LEMMA QuietStepTyped ==
  ASSUME RequestsTypeOK, Attempts, NEW r \in Requests, NEW s \in Stages,
         pc' = [pc EXCEPT ![r] = s], key' \in [Requests -> Keys \cup {NoKey}],
         UNCHANGED client, answer' \in [Requests -> Answer],
         metric' \in [Metrics -> Nat], storedAt' \in [Requests -> Nat],
         UNCHANGED delivered, Attempted(s, delivered[r])
  PROVE  RequestsTypeOK' /\ Attempts'
<1>1. delivered[r] \in 0..2 /\ delivered' = [delivered EXCEPT ![r] = delivered[r]]
  BY DEF RequestsTypeOK
<1>2. QED
  BY <1>1, StepTyped

(* What a step writes and counts is typed. *)
LEMMA WriteTyped ==
  ASSUME RequestsTypeOK, NEW r \in Requests
  PROVE  /\ \A c \in Statuses, b \in Bodies : Write(r, c, b) => answer' \in [Requests -> Answer]
         /\ \A m \in Metrics : CountOne(m) => metric' \in [Metrics -> Nat]
<1>1. ASSUME NEW c \in Statuses, NEW b \in Bodies, Write(r, c, b)
      PROVE  answer' \in [Requests -> Answer]
  <2>1. [status |-> c, body |-> b, by |-> r] \in Answer
    BY DEF Answer
  <2>2. QED
    BY <1>1, <2>1 DEF RequestsTypeOK, Write
<1>2. ASSUME NEW m \in Metrics, CountOne(m) PROVE metric' \in [Metrics -> Nat]
  <2>1. metric[m] + 1 \in Nat
    BY DEF RequestsTypeOK
  <2>2. QED
    BY <1>2, <2>1 DEF RequestsTypeOK, CountOne
<1>3. QED
  BY <1>1, <1>2

(* Every action of ServeHTTP keeps both. *)
LEMMA RequestStepTyped ==
  ASSUME ControlInv, RequestsTypeOK, Attempts, Cache!TypeOK,
         NEW r \in Requests, Enter(r) \/ Serve(r)
  PROVE  RequestsTypeOK' /\ Attempts'
<1> USE DEF At, Goto, KeepRequest, RequestOnly
<1> DEFINE next == IF key[r] = NoKey THEN "done" ELSE "final"
<1>t. /\ key \in [Requests -> Keys \cup {NoKey}] /\ answer \in [Requests -> Answer]
      /\ metric \in [Metrics -> Nat] /\ storedAt \in [Requests -> Nat]
      /\ delivered[r] \in 0..2 /\ Attempted(pc[r], delivered[r])
  BY DEF RequestsTypeOK, Attempts
<1>n. next \in {"done", "final"} /\ {"done", "final"} \subseteq Stages
  BY DEF Stages
<1>p. PastClaim \in {"limit", "parse"}
  BY DEF PastClaim
<1>1. CASE RefuseEntry(r)
  <2>1. /\ pc' = [pc EXCEPT ![r] = "done"] /\ UNCHANGED <<key, client, delivered, storedAt>>
        /\ \E c \in Statuses, b \in Bodies : Write(r, c, b)
        /\ UNCHANGED metric \/ \E m \in Metrics : CountOne(m)
    BY <1>1 DEF RefuseEntry, Refuse, Statuses, Bodies, Metrics
  <2>2. answer' \in [Requests -> Answer] /\ metric' \in [Metrics -> Nat]
    BY <1>t, <2>1, WriteTyped
  <2>3. QED
    BY <1>t, <2>1, <2>2, QuietStepTyped DEF Stages, Attempted
<1>2. CASE EnterWithKey(r)
  <2>1. /\ pc[r] = "new" /\ pc' = [pc EXCEPT ![r] = "lookup"]
        /\ UNCHANGED <<client, delivered, storedAt, answer, metric>>
        /\ key' \in [Requests -> Keys \cup {NoKey}]
    BY <1>2, <1>t DEF EnterWithKey
  <2>2. QED
    BY <1>t, <2>1, QuietStepTyped DEF Stages, Attempted
<1>3. CASE \/ EnterWithoutKey(r) \/ LookupMiss(r) \/ Claim(r) \/ ReadClock(r) \/ Admit(r)
           \/ StartSend(r)
  <2>1. PICK s \in {"claim", "limit", "allow", "parse", "send"} :
          /\ pc[r] \in {"new", "lookup", "claim", "limit", "allow", "render"}
          /\ pc' = [pc EXCEPT ![r] = s]
          /\ UNCHANGED <<key, client, delivered, storedAt, answer, metric>>
    BY <1>3, <1>p DEF EnterWithoutKey, LookupMiss, Claim, ReadClock, Admit, StartSend
  <2>2. s \in Stages /\ Attempted(s, delivered[r])
    BY <1>t, <2>1 DEF Attempted, Stages
  <2>3. QED
    BY <1>t, <2>1, <2>2, QuietStepTyped
<1>4. CASE Replay(r)
  <2>1. /\ pc' = [pc EXCEPT ![r] = "done"] /\ UNCHANGED <<key, client, delivered, storedAt>>
        /\ key[r] \in Range(recency) /\ CountOne("replay")
        /\ answer' = [answer EXCEPT ![r] = entry[key[r]].answer]
    BY <1>4 DEF Replay, Cache!LookupCached, Cache!Valid, Cache!Cached, Cache!Range, Range
  <2>2. entry[key[r]].answer \in Answer
    BY <2>1 DEF Cache!TypeOK, Cache!Entry, Cache!Range, Range
  <2>3. metric' \in [Metrics -> Nat]
    BY <2>1, WriteTyped DEF Metrics
  <2>4. QED
    BY <1>t, <2>1, <2>2, <2>3, QuietStepTyped DEF Stages, Attempted
<1>5. CASE LookupConflict(r) \/ ClaimConflict(r)
  <2>1. /\ pc' = [pc EXCEPT ![r] = "done"]
        /\ UNCHANGED <<key, client, delivered, storedAt, metric>>
        /\ Write(r, 409, "conflict")
    BY <1>5 DEF LookupConflict, ClaimConflict, Refuse
  <2>2. answer' \in [Requests -> Answer]
    BY <2>1, WriteTyped DEF Statuses, Bodies
  <2>3. QED
    BY <1>t, <2>1, <2>2, QuietStepTyped DEF Stages, Attempted
<1>6. CASE \/ Deny(r) \/ RejectBody(r) \/ CatchHoneypot(r) \/ Invalid(r) \/ StopAtRender(r)
           \/ BackoffCut(r) \/ Observe(r)
  <2>1. /\ pc' = [pc EXCEPT ![r] = next] /\ UNCHANGED <<key, client, delivered, storedAt>>
        /\ \E c \in Statuses, b \in Bodies : Write(r, c, b)
        /\ UNCHANGED metric \/ \E m \in Metrics : CountOne(m)
    BY <1>6 DEF Deny, RejectBody, CatchHoneypot, Invalid, StopAtRender, BackoffCut, Failed,
                Observe, Respond, Statuses, Bodies, Metrics
  <2>2. answer' \in [Requests -> Answer] /\ metric' \in [Metrics -> Nat]
    BY <1>t, <2>1, WriteTyped
  <2>3. QED
    BY <1>t, <1>n, <2>1, <2>2, QuietStepTyped DEF Attempted
<1>7. CASE Receive(r)
  <2>1. /\ pc[r] = "parse" /\ pc' = [pc EXCEPT ![r] = "render"]
        /\ UNCHANGED <<key, client, delivered, storedAt, answer>> /\ CountOne("received")
    BY <1>7 DEF Receive
  <2>2. metric' \in [Metrics -> Nat]
    BY <2>1, WriteTyped DEF Metrics
  <2>3. QED
    BY <1>t, <2>1, <2>2, QuietStepTyped DEF Stages, Attempted
<1>8. CASE BackoffOver(r)
  <2>1. /\ pc[r] = "backoff" /\ pc' = [pc EXCEPT ![r] = "resend"]
        /\ UNCHANGED <<key, client, delivered, storedAt, answer, metric>>
    BY <1>8 DEF BackoffOver
  <2>2. QED
    BY <1>t, <2>1, QuietStepTyped DEF Stages, Attempted
<1>9. CASE Panic(r)
  <2>1. /\ pc' = [pc EXCEPT ![r] = next]
        /\ UNCHANGED <<key, client, delivered, storedAt, answer, metric>>
    BY <1>9 DEF Panic
  <2>2. QED
    BY <1>t, <1>n, <2>1, QuietStepTyped DEF Attempted
<1>10. CASE FirstSend(r) \/ SecondSend(r)
  <2>1. PICK s \in {"done", "final", "backoff", "observe"}, d \in 0..2 :
          /\ pc' = [pc EXCEPT ![r] = s] /\ UNCHANGED <<key, client, storedAt>>
          /\ delivered' = [delivered EXCEPT ![r] = d] /\ Attempted(s, d)
          /\ UNCHANGED answer \/ \E c \in Statuses, b \in Bodies : Write(r, c, b)
          /\ UNCHANGED metric \/ \E m \in Metrics : CountOne(m)
    <3>1. PICK o \in Outcomes :
            /\ Deliver(r, o)
            /\ UNCHANGED <<key, client, storedAt>>
            /\ \/ pc' = [pc EXCEPT ![r] = next]
               \/ pc[r] = "send" /\ pc' = [pc EXCEPT ![r] = "backoff"]
               \/ pc' = [pc EXCEPT ![r] = "observe"]
            /\ pc[r] \in {"send", "resend"}
            /\ UNCHANGED answer \/ \E c \in Statuses, b \in Bodies : Write(r, c, b)
            /\ UNCHANGED metric \/ \E m \in Metrics : CountOne(m)
      <4>1. CASE FirstSend(r)
        BY <4>1 DEF FirstSend, Sent, Failed, Respond, Statuses, Bodies, Metrics
      <4>2. CASE SecondSend(r)
        BY <4>2 DEF SecondSend, Sent, Failed, Respond, Statuses, Bodies, Metrics
      <4>3. QED
        BY <1>10, <4>1, <4>2
    <3> DEFINE d == IF o \in {"accepted", "lost"} THEN delivered[r] + 1 ELSE delivered[r]
    <3>2. delivered' = [delivered EXCEPT ![r] = d]
      BY <3>1 DEF Deliver
    <3>3. d \in 0..2 /\ (pc[r] = "send" => d <= 1)
      BY <1>t, <3>1 DEF Attempted
    <3>4. CASE pc' = [pc EXCEPT ![r] = next]
      BY <1>n, <3>1, <3>2, <3>3, <3>4 DEF Attempted
    <3>5. CASE pc[r] = "send" /\ pc' = [pc EXCEPT ![r] = "backoff"]
      BY <3>1, <3>2, <3>3, <3>5 DEF Attempted
    <3>6. CASE pc' = [pc EXCEPT ![r] = "observe"]
      BY <3>1, <3>2, <3>3, <3>6 DEF Attempted
    <3>7. QED
      BY <3>1, <3>4, <3>5, <3>6
  <2>2. answer' \in [Requests -> Answer] /\ metric' \in [Metrics -> Nat]
    BY <1>t, <2>1, WriteTyped
  <2>3. QED
    BY <2>1, <2>2, <1>t, StepTyped DEF Stages
<1>11. CASE Finalize(r)
  <2>1. /\ pc' = [pc EXCEPT ![r] = "done"]
        /\ UNCHANGED <<key, client, delivered, answer, metric>>
        /\ storedAt' = storedAt \/ storedAt' = [storedAt EXCEPT ![r] = now]
    BY <1>11 DEF Finalize
  <2>2. storedAt' \in [Requests -> Nat]
    BY <1>t, <2>1 DEF Cache!TypeOK
  <2>3. QED
    BY <1>t, <2>1, <2>2, QuietStepTyped DEF Stages, Attempted
<1>12. QED
  BY <1>1, <1>2, <1>3, <1>4, <1>5, <1>6, <1>7, <1>8, <1>9, <1>10, <1>11 DEF Enter, Serve, Step

(* The same correspondence for the limiter. *)
LEMMA SameLimiter ==
  /\ Limiter!TypeOK <=> LimiterThm!TypeOK
  /\ Limiter!Init <=> LimiterThm!Init
  /\ \A r \in Requests : Limiter!ReadClock(r) <=> LimiterThm!ReadClock(r)
  /\ \A r \in Requests, c \in Clients :
       /\ Limiter!Admit(r, c) <=> LimiterThm!Admit(r, c)
       /\ Limiter!Deny(r, c) <=> LimiterThm!Deny(r, c)
<1> USE DEF Limiter!RecencyLists, LimiterThm!RecencyLists, Limiter!IsInjective, LimiterThm!IsInjective,
            Limiter!Range, LimiterThm!Range, Limiter!Bucket, LimiterThm!Bucket,
            Limiter!Full, LimiterThm!Full
<1>1. Limiter!TypeOK <=> LimiterThm!TypeOK
  BY DEF Limiter!TypeOK, LimiterThm!TypeOK
<1>2. Limiter!Init <=> LimiterThm!Init
  BY DEF Limiter!Init, LimiterThm!Init
<1>3. \A r \in Requests : Limiter!ReadClock(r) <=> LimiterThm!ReadClock(r)
  BY DEF Limiter!ReadClock, LimiterThm!ReadClock
<1>4. ASSUME NEW r \in Requests, NEW c \in Clients
      PROVE  /\ Limiter!Admit(r, c) <=> LimiterThm!Admit(r, c)
             /\ Limiter!Deny(r, c) <=> LimiterThm!Deny(r, c)
  BY DEF Limiter!Admit, LimiterThm!Admit, Limiter!Deny, LimiterThm!Deny,
         Limiter!BucketAt, LimiterThm!BucketAt, Limiter!Refill, LimiterThm!Refill,
         Limiter!PutBucket, LimiterThm!PutBucket, Limiter!Insert, LimiterThm!Insert,
         Limiter!Without, LimiterThm!Without, Limiter!RemoveAt, LimiterThm!RemoveAt,
         Limiter!Touch, LimiterThm!Touch, Limiter!Keep, LimiterThm!Keep
<1>5. QED
  BY <1>1, <1>2, <1>3, <1>4

(* The cache's type survives any operation, and the clock.                   *)
LEMMA CacheStepTyped ==
  ASSUME Cache!TypeOK, (\E k \in Keys : Cache!Operation(k)) \/ Cache!Tick \/ UNCHANGED Cache!vars
  PROVE  Cache!TypeOK'
<1>1. CASE Cache!Tick \/ UNCHANGED Cache!vars
  BY <1>1, GatewayAssumption DEF Cache!TypeOK, Cache!Tick, Cache!vars, Cache!cacheVars
<1>2. ASSUME NEW k \in Keys, Cache!Operation(k) PROVE Cache!TypeOK'
  <2>1. CacheThm!TypeOK /\ CacheThm!Operation(k) /\ now' = now /\ now \in Nat
    BY <1>2, SameCache DEF Cache!Operation, Cache!TypeOK
  <2>2. /\ recency' \in CacheThm!RecencyLists(Keys, Capacity)
        /\ entry' \in [CacheThm!Range(recency') -> CacheThm!Entry]
        /\ inflight' \subseteq Keys
    BY <2>1, CacheThm!OperationTypeOK, GatewayAssumption
    DEF CacheThm!Operation, CacheThm!Release, CacheThm!CacheAssumption
  <2>3. QED
    BY <2>1, <2>2 DEF Cache!TypeOK, Cache!RecencyLists, CacheThm!RecencyLists,
          Cache!IsInjective, CacheThm!IsInjective, Cache!Range, CacheThm!Range,
          Cache!Entry, CacheThm!Entry
<1>3. QED
  BY <1>1, <1>2

(* Only Allow's two steps touch the limiter. *)
LEMMA LimiterFrame ==
  ASSUME NEW r \in Requests, Enter(r) \/ Serve(r), ~ReadClock(r), ~Admit(r), ~Deny(r)
  PROVE  UNCHANGED <<recent, bucket, stamp>>
<1> USE DEF limiterVars, RequestOnly
<1>1. CASE \/ Enter(r)
           \/ Replay(r) \/ LookupConflict(r) \/ LookupMiss(r) \/ Claim(r) \/ ClaimConflict(r)
           \/ Finalize(r)
  BY <1>1 DEF Enter, RefuseEntry, EnterWithKey, EnterWithoutKey,
              Replay, LookupConflict, LookupMiss, Claim, ClaimConflict, Finalize
<1>2. CASE \/ RejectBody(r) \/ CatchHoneypot(r) \/ Invalid(r) \/ Receive(r)
           \/ StopAtRender(r) \/ StartSend(r)
           \/ FirstSend(r) \/ BackoffCut(r) \/ BackoffOver(r) \/ SecondSend(r) \/ Panic(r)
           \/ Observe(r)
  BY <1>2 DEF RejectBody, CatchHoneypot, Invalid, Receive, StopAtRender, StartSend,
              FirstSend, BackoffCut, BackoffOver, SecondSend, Panic, Observe
<1>3. QED
  BY <1>1, <1>2 DEF Serve, Step

(* The limiter's type survives a request's steps. *)
LEMMA LimiterStepTyped ==
  ASSUME RequestsTypeOK, Limiter!TypeOK, NEW r \in Requests, Enter(r) \/ Serve(r), now' = now
  PROVE  Limiter!TypeOK'
<1>1. CASE ReadClock(r)
  <2>1. Limiter!ReadClock(r)
    BY <1>1 DEF ReadClock
  <2>2. QED
    BY <2>1 DEF Limiter!TypeOK, Limiter!ReadClock, Limiter!RecencyLists, Limiter!IsInjective,
                Limiter!Range, Limiter!Bucket, Limiter!Full
<1>2. CASE Admit(r) \/ Deny(r)
  <2>1. client[r] \in Clients
    BY DEF RequestsTypeOK
  <2>2. Limiter!Admit(r, client[r]) \/ Limiter!Deny(r, client[r])
    BY <1>2 DEF Admit, Deny
  <2>3. LimiterThm!TypeOK /\ (LimiterThm!Admit(r, client[r]) \/ LimiterThm!Deny(r, client[r]))
    BY <2>1, <2>2, SameLimiter
  <2>4. LimiterThm!TypeOK'
    BY <2>1, <2>3, LimiterThm!DecisionTypeOK, GatewayAssumption DEF LimiterThm!LimiterAssumption
  <2>5. QED
    BY <2>4 DEF Limiter!TypeOK, LimiterThm!TypeOK,
         Limiter!RecencyLists, LimiterThm!RecencyLists, Limiter!IsInjective, LimiterThm!IsInjective,
         Limiter!Range, LimiterThm!Range, Limiter!Bucket, LimiterThm!Bucket,
         Limiter!Full, LimiterThm!Full
<1>3. CASE ~ReadClock(r) /\ ~Admit(r) /\ ~Deny(r)
  <2>1. UNCHANGED <<recent, bucket, stamp>>
    BY <1>3, LimiterFrame
  <2>2. QED
    BY <2>1 DEF Limiter!TypeOK, Limiter!RecencyLists, Limiter!IsInjective,
                Limiter!Range, Limiter!Bucket, Limiter!Full
<1>4. QED
  BY <1>1, <1>2, <1>3

(* Only Tick moves the clock. *)
LEMMA RequestKeepsClock ==
  ASSUME NEW r \in Requests, Enter(r) \/ Serve(r)
  PROVE  now' = now
<1> USE DEF RequestOnly
<1>1. CASE \/ Enter(r)
           \/ Replay(r) \/ LookupConflict(r) \/ LookupMiss(r) \/ Claim(r) \/ ClaimConflict(r)
           \/ Finalize(r) \/ ReadClock(r) \/ Admit(r) \/ Deny(r)
  BY <1>1 DEF Enter, RefuseEntry, EnterWithKey, EnterWithoutKey, Replay, LookupConflict,
              LookupMiss, Claim, ClaimConflict, Finalize, ReadClock, Admit, Deny
<1>2. CASE \/ RejectBody(r) \/ CatchHoneypot(r) \/ Invalid(r) \/ Receive(r)
           \/ StopAtRender(r) \/ StartSend(r)
           \/ FirstSend(r) \/ BackoffCut(r) \/ BackoffOver(r) \/ SecondSend(r) \/ Panic(r)
           \/ Observe(r)
  BY <1>2 DEF RejectBody, CatchHoneypot, Invalid, Receive, StopAtRender, StartSend,
              FirstSend, BackoffCut, BackoffOver, SecondSend, Panic, Observe
<1>3. QED
  BY <1>1, <1>2 DEF Serve, Step

(* The whole invariant is inductive. *)
LEMMA GatewayInvIsInductive ==
  /\ Init => GatewayInv
  /\ GatewayInv /\ [Next]_vars => GatewayInv'
<1>1. ASSUME Init PROVE GatewayInv
  <2>1. ControlInv
    BY <1>1, ControlIsInductive
  <2>2. RequestsTypeOK /\ Attempts
    BY <1>1 DEF Init, RequestsTypeOK, Attempts, Attempted, Stages, Answer, Statuses, Bodies
  <2>3. Cache!TypeOK
    BY <1>1, SameCache, CacheThm!InitTypeOK, GatewayAssumption
    DEF Init, CacheThm!CacheAssumption
  <2>4. Limiter!TypeOK
    BY <1>1, SameLimiter, LimiterThm!InitTypeOK, GatewayAssumption
    DEF Init, LimiterThm!LimiterAssumption
  <2>5. cfg \in Settings
    BY <1>1 DEF Init
  <2>6. QED
    BY <2>1, <2>2, <2>3, <2>4, <2>5 DEF GatewayInv, TypeOK
<1>2. ASSUME GatewayInv, NEW r \in Requests, Enter(r) \/ Serve(r) PROVE GatewayInv'
  <2>1. ControlInv /\ RequestsTypeOK /\ Attempts /\ Cache!TypeOK /\ Limiter!TypeOK
    BY <1>2 DEF GatewayInv, TypeOK
  <2>2. ControlInv'
    BY <1>2, <2>1, RequestKeepsControl
  <2>3. RequestsTypeOK' /\ Attempts'
    BY <1>2, <2>1, RequestStepTyped
  <2>4. Cache!TypeOK'
    BY <1>2, <2>1, RequestKeepsContract, CacheStepTyped
  <2>5. Limiter!TypeOK'
    BY <1>2, <2>1, RequestKeepsClock, LimiterStepTyped
  <2>6. cfg' \in Settings
    BY <1>2 DEF GatewayInv, TypeOK, Enter, Serve
  <2>7. QED
    BY <2>2, <2>3, <2>4, <2>5, <2>6 DEF GatewayInv, TypeOK
<1>3. ASSUME GatewayInv, Tick \/ UNCHANGED vars PROVE GatewayInv'
  <2>1. /\ UNCHANGED <<pc, key, client, answer, delivered, storedAt, metric>>
        /\ UNCHANGED <<recency, entry, inflight>> /\ UNCHANGED <<recent, bucket, stamp>>
        /\ now' \in Nat
    BY <1>3, GatewayAssumption
    DEF GatewayInv, TypeOK, Cache!TypeOK, Tick, vars, requestVars, cacheVars, limiterVars
  <2>2. ControlInv /\ RequestsTypeOK /\ Attempts /\ Cache!TypeOK /\ Limiter!TypeOK
    BY <1>3 DEF GatewayInv, TypeOK
  <2>3. ControlInv'
    BY <1>3, <2>2, ControlIsInductive DEF Next
  <2>4. RequestsTypeOK' /\ Attempts'
    BY <2>1, <2>2 DEF RequestsTypeOK, Attempts
  <2>5. Cache!TypeOK'
    BY <2>1, <2>2 DEF Cache!TypeOK, Cache!RecencyLists, Cache!IsInjective, Cache!Range, Cache!Entry
  <2>6. Limiter!TypeOK'
    BY <2>1, <2>2 DEF Limiter!TypeOK, Limiter!RecencyLists, Limiter!IsInjective,
                      Limiter!Range, Limiter!Bucket, Limiter!Full
  <2>7. cfg' \in Settings
    BY <1>3 DEF GatewayInv, TypeOK, Tick, vars
  <2>8. QED
    BY <2>3, <2>4, <2>5, <2>6, <2>7 DEF GatewayInv, TypeOK
<1>4. QED
  BY <1>1, <1>2, <1>3 DEF Next

(* Every request, the cache and the limiter stay well typed; in particular no *)
(* request is delivered more than twice (sendWithRetry's single retry).       *)
THEOREM TypeCorrect == Spec => []TypeOK
<1>1. GatewayInv => TypeOK
  BY DEF GatewayInv
<1>2. QED
  BY GatewayInvIsInductive, <1>1, PTL DEF Spec

(* ServeHTTP keeps the contract in ClaimInFlight's comment: the endpoint is an *)
(* implementation of the cache used by holders of claims, so that what is      *)
(* proved of that cache holds in the endpoint.                                 *)
THEOREM CacheContract == Spec => KeepsCacheContract
<1>1. Init => Cache!Init
  BY DEF Init
<1>2. ASSUME GatewayInv, [Next]_vars PROVE [Cache!Next]_(Cache!vars)
  <2>1. CASE UNCHANGED vars
    BY <2>1 DEF vars, cacheVars, Cache!vars
  <2>2. CASE Tick
    BY <2>2 DEF Tick, cacheVars, Cache!Tick, Cache!cacheVars, Cache!Next
  <2>3. ASSUME NEW r \in Requests, Enter(r) \/ Serve(r)
        PROVE  [Cache!Next]_(Cache!vars)
    BY <1>2, <2>3, RequestKeepsContract DEF GatewayInv, TypeOK, Cache!Next
  <2>4. QED
    BY <1>2, <2>1, <2>2, <2>3 DEF Next
<1>3. QED
  BY <1>1, <1>2, GatewayInvIsInductive, PTL DEF Spec, KeepsCacheContract, Cache!Spec
-----------------------------------------------------------------------------
(* A step of ServeHTTP belongs to one request, which is not finished, and    *)
(* touches the record of no other.                                           *)
LEMMA OthersUntouched ==
  ASSUME RequestsTypeOK, NEW r \in Requests, Enter(r) \/ Serve(r)
  PROVE  /\ pc[r] # "done" /\ client' = client
         /\ \A q \in Requests \ {r} :
              /\ pc'[q] = pc[q] /\ key'[q] = key[q] /\ answer'[q] = answer[q]
              /\ delivered'[q] = delivered[q] /\ storedAt'[q] = storedAt[q]
<1> USE DEF RequestsTypeOK, At, Goto, KeepRequest, RequestOnly
<1>1. CASE Enter(r)
  BY <1>1 DEF Enter, RefuseEntry, EnterWithKey, EnterWithoutKey, Refuse, Write
<1>2. CASE \/ Replay(r) \/ LookupConflict(r) \/ LookupMiss(r) \/ Claim(r) \/ ClaimConflict(r)
           \/ ReadClock(r) \/ Admit(r) \/ Deny(r) \/ Finalize(r)
  BY <1>2 DEF Replay, LookupConflict, LookupMiss, Claim, ClaimConflict, Finalize,
              ReadClock, Admit, Deny, Refuse, Respond, Write
<1>3. CASE \/ RejectBody(r) \/ CatchHoneypot(r) \/ Invalid(r) \/ Receive(r)
           \/ StopAtRender(r) \/ StartSend(r)
  BY <1>3 DEF RejectBody, CatchHoneypot, Invalid, Receive, StopAtRender, StartSend,
              Respond, Write
<1>4. CASE FirstSend(r) \/ SecondSend(r)
  BY <1>4 DEF FirstSend, SecondSend, Deliver, Sent, Failed, Respond, Write
<1>5. CASE BackoffCut(r) \/ BackoffOver(r) \/ Panic(r) \/ Observe(r)
  BY <1>5 DEF BackoffCut, BackoffOver, Panic, Observe, Failed, Respond, Write
<1>6. QED
  BY <1>1, <1>2, <1>3, <1>4, <1>5 DEF Serve, Step

(* Where the answers in the cache come from: an entry was there before, or   *)
(* finalizeIdempotent has just stored the request's own 200 or 422.          *)
LEMMA CacheGains ==
  ASSUME ControlInv, RequestsTypeOK, Cache!TypeOK, NEW r \in Requests, Enter(r) \/ Serve(r),
         NEW k \in Range(recency')
  PROVE  \/ k \in Range(recency) /\ entry'[k] = entry[k]
         \/ /\ Finalize(r) /\ Cacheable(answer[r]) /\ k = key[r] /\ k \in Keys
            /\ entry'[k] = [answer |-> answer[r], expires |-> now + TTL]
            /\ storedAt' = [storedAt EXCEPT ![r] = now]
<1> USE DEF cacheVars, RequestOnly, At
<1>k. pc[r] \in {"lookup", "claim", "final"} => key[r] \in Keys
  BY DEF ControlInv, KeyedStages
<1>t. CacheThm!TypeOK /\ CacheThm!CacheAssumption
  BY SameCache, GatewayAssumption DEF CacheThm!CacheAssumption
<1>r. Range(recency) = CacheThm!Range(recency) /\ Range(recency') = CacheThm!Range(recency')
  BY DEF Range, CacheThm!Range
<1>1. CASE Replay(r) \/ LookupConflict(r) \/ LookupMiss(r) \/ Claim(r) \/ ClaimConflict(r)
  <2>1. key[r] \in Keys
    BY <1>1, <1>k DEF Replay, LookupConflict, LookupMiss, Claim, ClaimConflict
  <2>2. \/ Cache!LookupCached(key[r]) \/ Cache!LookupInFlight(key[r]) \/ Cache!LookupMiss(key[r])
        \/ Cache!ClaimInFlight(key[r]) \/ Cache!ClaimRefused(key[r])
    BY <1>1 DEF Replay, LookupConflict, LookupMiss, Claim, ClaimConflict
  <2>3. \/ CacheThm!LookupCached(key[r]) \/ CacheThm!LookupInFlight(key[r])
        \/ CacheThm!LookupMiss(key[r])
        \/ CacheThm!ClaimInFlight(key[r]) \/ CacheThm!ClaimRefused(key[r])
    BY <2>1, <2>2, SameMethods
  <2>4. QED
    BY <1>t, <1>r, <2>1, <2>3, CacheThm!OthersAddNothing DEF CacheThm!Cached
<1>2. CASE Finalize(r)
  <2>1. key[r] \in Keys /\ answer[r] \in Answer
    BY <1>2, <1>k DEF Finalize, RequestsTypeOK
  <2>2. CASE Cache!Abandon(key[r])
    BY <1>t, <1>r, <2>1, <2>2, SameMethods, CacheThm!OthersAddNothing DEF CacheThm!Cached
  <2>3. CASE /\ Cacheable(answer[r]) /\ Cache!Store(key[r], answer[r])
             /\ storedAt' = [storedAt EXCEPT ![r] = now]
    <3>1. CacheThm!Store(key[r], answer[r])
      BY <2>1, <2>3, SameMethods
    <3>2. /\ entry'[key[r]] = [answer |-> answer[r], expires |-> now + TTL]
          /\ k # key[r] => CacheThm!Cached(k) /\ entry'[k] = entry[k]
      BY <1>t, <1>r, <2>1, <3>1, CacheThm!StoreEffect
    <3>3. QED
      BY <1>2, <1>r, <2>1, <2>3, <3>2 DEF CacheThm!Cached
  <2>4. QED
    BY <1>2, <2>2, <2>3 DEF Finalize
<1>3. CASE Enter(r) \/ ReadClock(r) \/ Admit(r) \/ Deny(r)
  BY <1>3 DEF Enter, RefuseEntry, EnterWithKey, EnterWithoutKey, ReadClock, Admit, Deny
<1>4. CASE \/ RejectBody(r) \/ CatchHoneypot(r) \/ Invalid(r) \/ Receive(r)
           \/ StopAtRender(r) \/ StartSend(r)
           \/ FirstSend(r) \/ BackoffCut(r) \/ BackoffOver(r) \/ SecondSend(r) \/ Panic(r)
           \/ Observe(r)
  BY <1>4 DEF RejectBody, CatchHoneypot, Invalid, Receive, StopAtRender, StartSend,
              FirstSend, BackoffCut, BackoffOver, SecondSend, Panic, Observe
<1>5. QED
  BY <1>1, <1>2, <1>3, <1>4 DEF Serve, Step

(* What a request's own step does to its answer, when it is not a replay. *)
LEMMA OwnAnswerStep ==
  ASSUME RequestsTypeOK, Attempts, NEW r \in Requests, Enter(r) \/ Serve(r), ~Replay(r),
         answer[r].by = r, pc[r] = "observe" => delivered[r] >= 1
  PROVE  /\ answer'[r].by = r
         /\ delivered'[r] >= delivered[r]
         /\ pc'[r] = "observe" => delivered'[r] >= 1
         /\ answer'[r].body = "ok" =>
              answer[r].body = "ok" \/ ~ApiMode \/ (pc[r] = "observe" /\ delivered[r] >= 1)
<1> USE DEF RequestsTypeOK, At, Goto, KeepRequest, RequestOnly
<1>d. delivered[r] \in 0..2
  OBVIOUS
<1>p. PastClaim # "observe"
  BY DEF PastClaim
<1>1. CASE Enter(r)
  BY <1>1, <1>p, <1>d DEF Enter, RefuseEntry, EnterWithKey, EnterWithoutKey, Refuse, Write
<1>2. CASE \/ LookupConflict(r) \/ LookupMiss(r) \/ Claim(r) \/ ClaimConflict(r)
           \/ ReadClock(r) \/ Admit(r) \/ Deny(r) \/ Finalize(r)
  BY <1>2, <1>p, <1>d
  DEF LookupConflict, LookupMiss, Claim, ClaimConflict, Finalize,
              ReadClock, Admit, Deny, Refuse, Respond, Write
<1>3. CASE \/ RejectBody(r) \/ CatchHoneypot(r) \/ Invalid(r) \/ Receive(r)
           \/ StopAtRender(r) \/ StartSend(r)
  BY <1>3, <1>d DEF RejectBody, CatchHoneypot, Invalid, Receive, StopAtRender, StartSend,
              Respond, Write
<1>4. CASE FirstSend(r) \/ SecondSend(r)
  <2>1. PICK o \in Outcomes :
          /\ Deliver(r, o)
          /\ \/ o = "accepted" /\ Sent(r)
             \/ Failed(r)
             \/ Goto(r, "backoff") /\ UNCHANGED answer
    BY <1>4 DEF FirstSend, SecondSend
  <2>2. delivered'[r] = IF o \in {"accepted", "lost"} THEN delivered[r] + 1 ELSE delivered[r]
    BY <2>1 DEF Deliver
  <2>3. QED
    BY <1>d, <2>1, <2>2 DEF Sent, Failed, Respond, Write
<1>5. CASE BackoffCut(r) \/ BackoffOver(r) \/ Panic(r) \/ Observe(r)
  BY <1>5, <1>d DEF BackoffCut, BackoffOver, Panic, Observe, Failed, Respond, Write
<1>6. QED
  BY <1>1, <1>2, <1>3, <1>4, <1>5 DEF Serve, Step

(* Until it is finished a request bears its own answer, and between the two  *)
(* halves of Recorder.Sent its message has been accepted.  With these the    *)
(* claims about answers are inductive.                                       *)
OwnAnswers ==
  \A r \in Requests :
    /\ pc[r] # "done" => answer[r].by = r
    /\ pc[r] = "observe" => delivered[r] >= 1

AnswersInv ==
  /\ OwnAnswers
  /\ CacheHoldsFinalAnswers
  /\ ReplayIsOriginal
  /\ OkMeansDelivered

(* What the cache held and still holds, and what a finishing request puts    *)
(* into it, is the final answer of a finished request.                       *)
LEMMA CacheStaysFinal ==
  ASSUME GatewayInv, GatewayInv', AnswersInv, NEW r \in Requests, Enter(r) \/ Serve(r)
  PROVE  CacheHoldsFinalAnswers'
<1> USE DEF At
<1>t. ControlInv /\ RequestsTypeOK /\ Cache!TypeOK
  BY DEF GatewayInv, TypeOK
<1> SUFFICES ASSUME NEW k \in Range(recency')
             PROVE  LET o == entry'[k].answer.by
                    IN  /\ pc'[o] = "done" /\ key'[o] = k
                        /\ answer'[o] = entry'[k].answer
                        /\ answer'[o].status \in {200, 422}
                        /\ entry'[k].expires = storedAt'[o] + TTL
  BY Zenon DEF CacheHoldsFinalAnswers
<1>1. CASE k \in Range(recency) /\ entry'[k] = entry[k]
  <2> DEFINE o == entry[k].answer.by
  <2>1. /\ pc[o] = "done" /\ key[o] = k /\ answer[o] = entry[k].answer
        /\ answer[o].status \in {200, 422} /\ entry[k].expires = storedAt[o] + TTL
    BY <1>1 DEF AnswersInv, CacheHoldsFinalAnswers
  <2>2. o \in Requests
    <3>1. entry[k] \in Cache!Entry
      BY <1>1, <1>t DEF Cache!TypeOK, Cache!Range, Range
    <3>2. QED
      BY <3>1 DEF Cache!Entry, Answer
  <2>3. o # r
    BY <1>t, <2>1, OthersUntouched
  <2>4. pc'[o] = pc[o] /\ key'[o] = key[o] /\ answer'[o] = answer[o] /\ storedAt'[o] = storedAt[o]
    BY <1>t, <2>2, <2>3, OthersUntouched
  <2>5. QED
    BY <1>1, <2>1, <2>4
<1>2. CASE /\ Finalize(r) /\ Cacheable(answer[r]) /\ k = key[r]
           /\ entry'[k] = [answer |-> answer[r], expires |-> now + TTL]
           /\ storedAt' = [storedAt EXCEPT ![r] = now]
  <2>1. /\ pc' = [pc EXCEPT ![r] = "done"] /\ UNCHANGED <<key, answer>> /\ pc[r] = "final"
    BY <1>2 DEF Finalize, Goto, KeepRequest
  <2>2. answer[r].by = r
    BY <2>1 DEF AnswersInv, OwnAnswers
  <2>3. entry'[k].answer = answer[r] /\ entry'[k].expires = now + TTL
    BY <1>2
  <2>4. pc'[r] = "done" /\ storedAt'[r] = now
    BY <1>2, <1>t, <2>1 DEF RequestsTypeOK
  <2>5. QED
    BY <1>2, <2>1, <2>2, <2>3, <2>4 DEF Cacheable
<1>3. QED
  BY <1>t, <1>1, <1>2, CacheGains

(* A replay takes the answer the cache holds under the request's own key. *)
LEMMA ReplayTakesOriginal ==
  ASSUME GatewayInv, AnswersInv, NEW r \in Requests, Replay(r)
  PROVE  LET o == answer'[r].by
         IN  /\ o \in Requests \ {r} /\ pc[o] = "done" /\ key[o] = key[r] /\ key[r] # NoKey
             /\ answer'[r] = answer[o] /\ pc'[r] = "done" /\ key' = key /\ delivered' = delivered
<1> DEFINE o == entry[key[r]].answer.by
<1>1. /\ pc[r] = "lookup" /\ key[r] \in Range(recency) /\ key' = key /\ delivered' = delivered
      /\ answer' = [answer EXCEPT ![r] = entry[key[r]].answer]
      /\ pc' = [pc EXCEPT ![r] = "done"]
  BY DEF Replay, At, Goto, KeepRequest, Cache!LookupCached, Cache!Valid, Cache!Cached,
         Cache!Range, Range
<1>2. pc[o] = "done" /\ key[o] = key[r] /\ answer[o] = entry[key[r]].answer
  BY <1>1 DEF AnswersInv, CacheHoldsFinalAnswers, At
<1>3. o \in Requests
  <2>1. entry[key[r]] \in Cache!Entry
    BY <1>1 DEF GatewayInv, TypeOK, Cache!TypeOK, Cache!Range, Range
  <2>2. QED
    BY <2>1 DEF Cache!Entry, Answer
<1>4. answer'[r] = entry[key[r]].answer /\ pc'[r] = "done"
  BY <1>1 DEF GatewayInv, TypeOK, RequestsTypeOK
<1>5. key[r] # NoKey
  BY <1>1, GatewayAssumption DEF GatewayInv, ControlInv, KeyedStages
<1>6. QED
  BY <1>1, <1>2, <1>3, <1>4, <1>5

(* The claims about answers survive every step of a request. *)
LEMMA RequestKeepsAnswers ==
  ASSUME GatewayInv, GatewayInv', AnswersInv, NEW r \in Requests, Enter(r) \/ Serve(r)
  PROVE  AnswersInv'
<1> USE DEF At
<1>t. ControlInv /\ RequestsTypeOK /\ Attempts /\ Cache!TypeOK /\ cfg' = cfg
  BY DEF GatewayInv, TypeOK, Enter, Serve
<1>u. /\ pc[r] # "done"
      /\ \A q \in Requests \ {r} :
           /\ pc'[q] = pc[q] /\ key'[q] = key[q] /\ answer'[q] = answer[q]
           /\ delivered'[q] = delivered[q]
  BY <1>t, OthersUntouched
<1>o. answer[r].by = r /\ (pc[r] = "observe" => delivered[r] >= 1)
  BY <1>u DEF AnswersInv, OwnAnswers
<1>1. OwnAnswers'
  <2>1. CASE Replay(r)
    BY <1>u, <2>1, ReplayTakesOriginal DEF AnswersInv, OwnAnswers
  <2>2. CASE ~Replay(r)
    BY <1>t, <1>o, <1>u, <2>2, OwnAnswerStep DEF AnswersInv, OwnAnswers
  <2>3. QED
    BY <2>1, <2>2
<1>2. CacheHoldsFinalAnswers'
  BY CacheStaysFinal
<1>3. ASSUME NEW q \in Requests, answer'[q].by # q
      PROVE  LET o == answer'[q].by
             IN  /\ key'[o] = key'[q] /\ key'[q] # NoKey /\ answer'[o] = answer'[q]
                 /\ pc'[o] = "done"
  <2> DEFINE o == answer'[q].by
  <2>1. o \in Requests
    BY DEF GatewayInv, TypeOK, RequestsTypeOK, Answer
  <2>2. CASE q = r
    <3>1. Replay(r)
      BY <1>t, <1>o, <1>3, <2>2, OwnAnswerStep
    <3>2. QED
      BY <1>u, <2>2, <3>1, ReplayTakesOriginal
  <2>3. CASE q # r
    <3>1. answer'[q] = answer[q] /\ key'[q] = key[q]
      BY <1>u, <2>3
    <3>2. key[o] = key[q] /\ key[q] # NoKey /\ answer[o] = answer[q] /\ pc[o] = "done"
      BY <1>3, <3>1 DEF AnswersInv, ReplayIsOriginal
    <3>3. QED
      BY <1>u, <2>1, <3>1, <3>2
  <2>4. QED
    BY <2>2, <2>3
<1>4. ReplayIsOriginal'
  BY <1>3, Zenon DEF ReplayIsOriginal
<1>5. ASSUME ApiMode', NEW q \in Requests, answer'[q].body = "ok"
      PROVE  delivered'[answer'[q].by] >= 1
  <2>a. ApiMode
    BY <1>t, <1>5 DEF ApiMode
  <2>m. \A x \in Requests : delivered[x] >= 1 => delivered'[x] >= 1
    <3>1. CASE Replay(r)
      BY <3>1, ReplayTakesOriginal
    <3>2. CASE ~Replay(r)
      <4>1. delivered'[r] >= delivered[r]
        BY <1>t, <1>o, <3>2, OwnAnswerStep
      <4>2. delivered[r] \in Int /\ delivered'[r] \in Int
        BY DEF GatewayInv, TypeOK, RequestsTypeOK
      <4>3. QED
        BY <1>u, <4>1, <4>2
    <3>3. QED
      BY <3>1, <3>2
  <2>1. CASE q = r /\ Replay(r)
    <3> DEFINE o == answer'[r].by
    <3>1. o \in Requests /\ answer[o] = answer'[r]
      BY <2>1, ReplayTakesOriginal
    <3>2. delivered[answer[o].by] >= 1
      BY <1>5, <2>1, <2>a, <3>1 DEF AnswersInv, OkMeansDelivered
    <3>3. QED
      BY <2>1, <2>m, <3>1, <3>2
  <2>2. CASE q = r /\ ~Replay(r)
    <3>1. answer'[r].by = r
      BY <1>t, <1>o, <2>2, OwnAnswerStep
    <3>2. CASE answer[r].body = "ok"
      <4>1. delivered[r] >= 1
        BY <1>o, <2>a, <3>2 DEF AnswersInv, OkMeansDelivered
      <4>2. QED
        BY <2>2, <2>m, <3>1, <4>1
    <3>3. CASE pc[r] = "observe" /\ delivered[r] >= 1
      BY <2>2, <2>m, <3>1, <3>3
    <3>4. QED
      BY <1>t, <1>o, <1>5, <2>2, <2>a, <3>2, <3>3, OwnAnswerStep
  <2>3. CASE q # r
    <3>1. answer'[q] = answer[q] /\ answer[q].by \in Requests
      BY <1>t, <1>u, <2>3 DEF RequestsTypeOK, Answer
    <3>2. delivered[answer[q].by] >= 1
      BY <1>5, <2>a, <3>1 DEF AnswersInv, OkMeansDelivered
    <3>3. QED
      BY <2>m, <3>1, <3>2
  <2>4. QED
    BY <2>1, <2>2, <2>3
<1>6. OkMeansDelivered'
  BY <1>5, Zenon DEF OkMeansDelivered
<1>7. QED
  BY <1>1, <1>2, <1>4, <1>6 DEF AnswersInv

LEMMA AnswersInvIsInductive ==
  /\ Init => AnswersInv
  /\ GatewayInv /\ GatewayInv' /\ AnswersInv /\ [Next]_vars => AnswersInv'
<1>1. ASSUME Init PROVE AnswersInv
  <2>1. Range(recency) = {}
    BY <1>1 DEF Init, Cache!Init, Range
  <2>2. QED
    BY <1>1, <2>1 DEF Init, AnswersInv, OwnAnswers, CacheHoldsFinalAnswers, ReplayIsOriginal,
                      OkMeansDelivered
<1>2. ASSUME AnswersInv, Tick \/ UNCHANGED vars PROVE AnswersInv'
  BY <1>2 DEF Tick, vars, requestVars, cacheVars, AnswersInv, OwnAnswers,
              CacheHoldsFinalAnswers, ReplayIsOriginal, OkMeansDelivered, At, ApiMode
<1>3. QED
  BY <1>1, <1>2, RequestKeepsAnswers DEF Next

(* The cache holds final 200s and 422s of finished requests and nothing else. *)
THEOREM OnlyFinalAnswersCached == Spec => []CacheHoldsFinalAnswers
<1>1. AnswersInv => CacheHoldsFinalAnswers
  BY DEF AnswersInv
<1>2. QED
  BY GatewayInvIsInductive, AnswersInvIsInductive, <1>1, PTL DEF Spec

(* A replay is the whole answer of a finished request with the same key. *)
THEOREM ReplaysAreOriginals == Spec => []ReplayIsOriginal
<1>1. AnswersInv => ReplayIsOriginal
  BY DEF AnswersInv
<1>2. QED
  BY GatewayInvIsInductive, AnswersInvIsInductive, <1>1, PTL DEF Spec

(* In api mode "ok" is never said of a message that no provider accepted,    *)
(* neither by the request that sent it nor in a replay.                      *)
THEOREM OkIsTrue == Spec => []OkMeansDelivered
<1>1. AnswersInv => OkMeansDelivered
  BY DEF AnswersInv
<1>2. QED
  BY GatewayInvIsInductive, AnswersInvIsInductive, <1>1, PTL DEF Spec

-----------------------------------------------------------------------------
(* The balance of the counters.  A submission is open from the moment it is  *)
(* received until Sent or Failed counts it; the ones that stop at rendering, *)
(* at their to_override, in dry-run or in a panic stay open for good.        *)
Open(r) ==
  \/ answer[r].body \in {"render_failed", "bad_override", "dry_run"} /\ answer[r].by = r
  \/ pc[r] \in {"final", "done"} /\ answer[r].body = "none"
  \/ pc[r] \in {"render", "send", "backoff", "resend"}

OpenRequests == {r \in Requests : Open(r)}
Observing == {r \in Requests : pc[r] = "observe"}

(* Nothing is written to a request before it ends, and an answer that says   *)
(* nothing has no status either, so that it is never cached.                 *)
Unanswered ==
  \A r \in Requests :
    /\ pc[r] \notin {"final", "done"} => answer[r].body = "none"
    /\ answer[r].body = "none" => answer[r].status = 0

(* Sent is counted in two calls: the counter leads the histogram by the      *)
(* requests that are between them.                                           *)
BalanceInv ==
  /\ Unanswered
  /\ IsFiniteSet(OpenRequests) /\ IsFiniteSet(Observing)
  /\ metric["received"] = metric["sent"] + metric["failed"] + Cardinality(OpenRequests)
  /\ metric["sent"] = metric["latency"] + Cardinality(Observing)

(* No counter of the balance changes. *)
SameCounts == \A m \in {"received", "sent", "failed", "latency"} : metric'[m] = metric[m]

(* The counter m alone of the balance grows, by one. *)
OneMore(m) ==
  /\ metric'[m] = metric[m] + 1
  /\ \A n \in {"received", "sent", "failed", "latency"} \ {m} : metric'[n] = metric[n]

(* Five things a step of a request can be to the balance. *)
LEMMA BalanceStep ==
  ASSUME GatewayInv, AnswersInv, Unanswered, NEW r \in Requests, Enter(r) \/ Serve(r)
  PROVE  /\ pc'[r] \notin {"final", "done"} => answer'[r].body = "none"
         /\ answer'[r].body = "none" => answer'[r].status = 0
         /\ \/ SameCounts /\ (Open(r)' <=> Open(r)) /\ (pc'[r] = "observe" <=> pc[r] = "observe")
            \/ OneMore("received") /\ ~Open(r) /\ Open(r)' /\ pc[r] # "observe" /\ pc'[r] # "observe"
            \/ OneMore("sent") /\ Open(r) /\ ~Open(r)' /\ pc[r] # "observe" /\ pc'[r] = "observe"
            \/ OneMore("failed") /\ Open(r) /\ ~Open(r)' /\ pc[r] # "observe" /\ pc'[r] # "observe"
            \/ OneMore("latency") /\ ~Open(r) /\ ~Open(r)' /\ pc[r] = "observe" /\ pc'[r] # "observe"
<1> USE DEF At, Goto, KeepRequest, RequestOnly
<1>t. /\ pc \in [Requests -> Stages] /\ key \in [Requests -> Keys \cup {NoKey}]
      /\ answer \in [Requests -> Answer] /\ metric \in [Metrics -> Nat]
  BY DEF GatewayInv, TypeOK, RequestsTypeOK
<1>u. /\ pc[r] \notin {"final", "done"} => answer[r].body = "none" /\ answer[r].by = r
      /\ answer[r].body = "none" => answer[r].status = 0
  BY DEF Unanswered, AnswersInv, OwnAnswers
<1>c. /\ \A m \in Metrics : CountOne(m) =>
           metric'[m] = metric[m] + 1 /\ \A n \in Metrics \ {m} : metric'[n] = metric[n]
      /\ {"received", "sent", "failed", "latency"} \subseteq Metrics
  BY <1>t DEF CountOne, Metrics
<1>w. \A s \in Statuses, b \in Bodies :
        Write(r, s, b) => answer'[r].status = s /\ answer'[r].body = b /\ answer'[r].by = r
  BY <1>t DEF Write
<1>p. PastClaim \in {"limit", "parse"}
  BY DEF PastClaim
<1>1. CASE \/ EnterWithKey(r) \/ EnterWithoutKey(r) \/ LookupMiss(r) \/ Claim(r)
           \/ ReadClock(r) \/ Admit(r)
  <2>1. /\ pc[r] \in {"new", "lookup", "claim", "limit", "allow"}
        /\ pc'[r] \in {"lookup", "claim", "limit", "allow", "parse"}
        /\ UNCHANGED <<answer, metric>>
    BY <1>1, <1>p, <1>t DEF EnterWithKey, EnterWithoutKey, LookupMiss, Claim, ReadClock, Admit
  <2>2. QED
    BY <1>u, <2>1 DEF Open, SameCounts
<1>2. CASE RefuseEntry(r) \/ LookupConflict(r) \/ ClaimConflict(r) \/ Deny(r)
           \/ RejectBody(r) \/ CatchHoneypot(r) \/ Invalid(r)
  <2>1. /\ pc[r] \in {"new", "lookup", "claim", "allow", "parse"}
        /\ pc'[r] \in {"done", "final"}
        /\ \E s \in Statuses, b \in Bodies \ {"none", "render_failed", "bad_override", "dry_run"} :
              Write(r, s, b)
        /\ \/ UNCHANGED metric
           \/ \E m \in Metrics \ {"received", "sent", "failed", "latency"} : CountOne(m)
    <3>1. CASE RefuseEntry(r) \/ LookupConflict(r) \/ ClaimConflict(r)
      BY <1>t, <3>1 DEF RefuseEntry, LookupConflict, ClaimConflict, Refuse, Statuses, Bodies, Metrics
    <3>2. CASE Deny(r) \/ RejectBody(r) \/ CatchHoneypot(r) \/ Invalid(r)
      BY <1>t, <3>2 DEF Deny, RejectBody, CatchHoneypot, Invalid, Respond, Statuses, Bodies, Metrics
    <3>3. QED
      BY <1>2, <3>1, <3>2
  <2>2. /\ answer'[r].body \notin {"none", "render_failed", "bad_override", "dry_run"}
        /\ SameCounts
    BY <1>c, <1>w, <2>1 DEF SameCounts
  <2>3. QED
    BY <1>u, <2>1, <2>2 DEF Open
<1>3. CASE Replay(r)
  <2> DEFINE o == answer'[r].by
  <2>1. /\ pc[r] = "lookup" /\ pc'[r] = "done" /\ o \in Requests \ {r}
        /\ CountOne("replay") /\ answer'[r] = entry[key[r]].answer /\ key[r] \in Range(recency)
    BY <1>3, <1>t, ReplayTakesOriginal
    DEF Replay, Cache!LookupCached, Cache!Valid, Cache!Cached, Cache!Range, Range
  <2>2. entry[key[r]].answer = answer[entry[key[r]].answer.by]
        /\ answer[entry[key[r]].answer.by].status \in {200, 422}
    BY <2>1 DEF AnswersInv, CacheHoldsFinalAnswers
  <2>3. answer'[r].body # "none"
    BY <2>1, <2>2 DEF Unanswered
  <2>4. SameCounts
    BY <1>c, <2>1 DEF SameCounts, Metrics
  <2>5. QED
    BY <1>u, <2>1, <2>3, <2>4 DEF Open
<1>4. CASE Receive(r)
  <2>1. pc[r] = "parse" /\ pc'[r] = "render" /\ answer' = answer /\ OneMore("received")
    BY <1>4, <1>t, <1>c DEF Receive, OneMore
  <2>2. QED
    BY <1>u, <2>1 DEF Open
<1>5. CASE StartSend(r) \/ BackoffOver(r) \/ Panic(r)
  <2>1. /\ pc[r] \in {"render", "backoff", "send", "resend"}
        /\ pc'[r] \in {"send", "resend", "done", "final"}
        /\ UNCHANGED <<answer, metric>>
    BY <1>5, <1>t DEF StartSend, BackoffOver, Panic
  <2>2. QED
    BY <1>u, <2>1 DEF Open, SameCounts
<1>6. CASE StopAtRender(r)
  <2>1. /\ pc[r] = "render" /\ pc'[r] \in {"done", "final"} /\ metric' = metric
        /\ \E s \in Statuses, b \in {"render_failed", "bad_override", "dry_run"} : Write(r, s, b)
    BY <1>6, <1>t DEF StopAtRender, Respond, Statuses
  <2>2. /\ answer'[r].body \in {"render_failed", "bad_override", "dry_run"} /\ answer'[r].by = r
    BY <1>w, <2>1 DEF Bodies
  <2>3. QED
    BY <1>u, <2>1, <2>2 DEF Open, SameCounts
<1>7. CASE FirstSend(r) \/ SecondSend(r) \/ BackoffCut(r)
  <2>1. /\ pc[r] \in {"send", "resend", "backoff"}
        /\ Sent(r) \/ Failed(r) \/ (Goto(r, "backoff") /\ UNCHANGED <<answer, metric>>)
    BY <1>7 DEF FirstSend, SecondSend, BackoffCut
  <2>2. CASE Sent(r)
    <3>1. pc'[r] = "observe" /\ answer' = answer /\ OneMore("sent")
      BY <1>t, <1>c, <2>2 DEF Sent, OneMore
    <3>2. QED
      BY <1>u, <2>1, <3>1 DEF Open
  <2>3. CASE Failed(r)
    <3>1. pc'[r] \in {"done", "final"} /\ Write(r, 502, "undelivered") /\ OneMore("failed")
      BY <1>t, <1>c, <2>3 DEF Failed, Respond, OneMore
    <3>2. answer'[r].body = "undelivered"
      BY <1>w, <3>1 DEF Statuses, Bodies
    <3>3. QED
      BY <1>u, <2>1, <3>1, <3>2 DEF Open
  <2>4. CASE Goto(r, "backoff") /\ UNCHANGED <<answer, metric>>
    <3>1. pc'[r] = "backoff"
      BY <1>t, <2>4
    <3>2. QED
      BY <1>u, <2>1, <2>4, <3>1 DEF Open, SameCounts
  <2>5. QED
    BY <2>1, <2>2, <2>3, <2>4
<1>8. CASE Observe(r)
  <2>1. /\ pc[r] = "observe" /\ pc'[r] \in {"done", "final"}
        /\ Write(r, 200, "ok") /\ OneMore("latency")
    BY <1>8, <1>t, <1>c DEF Observe, Respond, OneMore
  <2>2. answer'[r].body = "ok"
    BY <1>w, <2>1 DEF Statuses, Bodies
  <2>3. QED
    BY <1>u, <2>1, <2>2 DEF Open
<1>9. CASE Finalize(r)
  <2>1. pc[r] = "final" /\ pc'[r] = "done" /\ UNCHANGED <<answer, metric>>
    BY <1>9, <1>t DEF Finalize
  <2>2. QED
    BY <1>u, <2>1 DEF Open, SameCounts
<1>10. QED
  BY <1>1, <1>2, <1>3, <1>4, <1>5, <1>6, <1>7, <1>8, <1>9 DEF Enter, Serve, Step

(* One request joins or leaves a set, the others stay where they are. *)
LEMMA CountingStep ==
  ASSUME NEW S, NEW T, NEW r, IsFiniteSet(S), \A q : q # r => (q \in T <=> q \in S)
  PROVE  /\ IsFiniteSet(T)
         /\ Cardinality(S) \in Nat
         /\ (r \in T <=> r \in S) => Cardinality(T) = Cardinality(S)
         /\ r \notin S /\ r \in T => Cardinality(T) = Cardinality(S) + 1
         /\ r \in S /\ r \notin T => Cardinality(S) = Cardinality(T) + 1
<1>0. Cardinality(S) \in Nat
  BY FS_CardinalityType
<1>1. CASE r \in T <=> r \in S
  <2>1. T = S
    BY <1>1
  <2>2. QED
    BY <1>0, <2>1
<1>2. CASE r \notin S /\ r \in T
  <2>1. T = S \cup {r}
    BY <1>2
  <2>2. QED
    BY <1>0, <1>2, <2>1, FS_AddElement
<1>3. CASE r \in S /\ r \notin T
  <2>1. T = S \ {r}
    BY <1>3
  <2>2. IsFiniteSet(T) /\ Cardinality(T) = Cardinality(S) - 1
    BY <1>3, <2>1, FS_RemoveElement
  <2>3. QED
    BY <1>0, <1>3, <2>2
<1>4. QED
  BY <1>1, <1>2, <1>3

LEMMA RequestKeepsBalance ==
  ASSUME GatewayInv, GatewayInv', AnswersInv, BalanceInv, NEW r \in Requests, Enter(r) \/ Serve(r)
  PROVE  BalanceInv'
<1>t. /\ \A m \in {"received", "sent", "failed", "latency"} : metric[m] \in Nat
      /\ Unanswered /\ IsFiniteSet(OpenRequests) /\ IsFiniteSet(Observing)
  BY DEF GatewayInv, TypeOK, RequestsTypeOK, Metrics, BalanceInv
<1>u. \A q \in Requests \ {r} : pc'[q] = pc[q] /\ answer'[q] = answer[q]
  BY OthersUntouched DEF GatewayInv, TypeOK
<1>1. Unanswered'
  BY <1>t, <1>u, BalanceStep DEF Unanswered
<1>2. \A q : q # r => (q \in OpenRequests' <=> q \in OpenRequests)
  BY <1>u DEF OpenRequests, Open
<1>3. \A q : q # r => (q \in Observing' <=> q \in Observing)
  BY <1>u DEF Observing
<1>4. /\ r \in OpenRequests <=> Open(r)
      /\ r \in OpenRequests' <=> Open(r)'
      /\ r \in Observing <=> pc[r] = "observe"
      /\ r \in Observing' <=> pc'[r] = "observe"
  BY DEF OpenRequests, Observing
<1> DEFINE open == Cardinality(OpenRequests)
           openp == Cardinality(OpenRequests')
           obs == Cardinality(Observing)
           obsp == Cardinality(Observing')
<1>5. /\ IsFiniteSet(OpenRequests') /\ open \in Nat
      /\ (Open(r)' <=> Open(r)) => openp = open
      /\ ~Open(r) /\ Open(r)' => openp = open + 1
      /\ Open(r) /\ ~Open(r)' => open = openp + 1
  <2> HIDE DEF OpenRequests
  <2>1. QED
    BY <1>t, <1>2, <1>4, CountingStep
<1>6. /\ IsFiniteSet(Observing') /\ obs \in Nat
      /\ (pc'[r] = "observe" <=> pc[r] = "observe") => obsp = obs
      /\ pc[r] # "observe" /\ pc'[r] = "observe" => obsp = obs + 1
      /\ pc[r] = "observe" /\ pc'[r] # "observe" => obs = obsp + 1
  <2> HIDE DEF Observing
  <2>1. QED
    BY <1>t, <1>3, <1>4, CountingStep
<1>7. openp \in Nat /\ obsp \in Nat
  BY <1>5, <1>6, FS_CardinalityType
<1>8. /\ metric["received"] = metric["sent"] + metric["failed"] + open
      /\ metric["sent"] = metric["latency"] + obs
  BY DEF BalanceInv
<1> HIDE DEF open, openp, obs, obsp
<1>9. /\ metric'["received"] = metric'["sent"] + metric'["failed"] + openp
      /\ metric'["sent"] = metric'["latency"] + obsp
  <2>1. \/ SameCounts /\ openp = open /\ obsp = obs
        \/ OneMore("received") /\ openp = open + 1 /\ obsp = obs
        \/ OneMore("sent") /\ open = openp + 1 /\ obsp = obs + 1
        \/ OneMore("failed") /\ open = openp + 1 /\ obsp = obs
        \/ OneMore("latency") /\ openp = open /\ obs = obsp + 1
    BY <1>t, <1>5, <1>6, BalanceStep
  <2>2. QED
    BY <1>t, <1>5, <1>6, <1>7, <1>8, <2>1 DEF SameCounts, OneMore
<1>10. QED
  BY <1>1, <1>5, <1>6, <1>9 DEF BalanceInv, openp, obsp

LEMMA BalanceInvIsInductive ==
  /\ Init => BalanceInv
  /\ GatewayInv /\ GatewayInv' /\ AnswersInv /\ BalanceInv /\ [Next]_vars => BalanceInv'
<1>1. ASSUME Init PROVE BalanceInv
  <2>1. OpenRequests = {} /\ Observing = {}
    BY <1>1 DEF Init, OpenRequests, Open, Observing
  <2>2. \A m \in {"received", "sent", "failed", "latency"} : metric[m] = 0
    BY <1>1 DEF Init, Metrics
  <2>3. Unanswered
    BY <1>1 DEF Init, Unanswered
  <2>4. QED
    BY <2>1, <2>2, <2>3, FS_EmptySet DEF BalanceInv
<1>2. ASSUME BalanceInv, Tick \/ UNCHANGED vars PROVE BalanceInv'
  BY <1>2 DEF Tick, vars, requestVars, BalanceInv, Unanswered, OpenRequests, Open, Observing
<1>3. QED
  BY <1>1, <1>2, RequestKeepsBalance DEF Next

(* Every submission counted as received is counted once as sent or failed,   *)
(* or is still being worked on, or stopped where nothing counts it.          *)
THEOREM CountersBalance == Spec => []SubmissionsBalance
<1>1. BalanceInv => SubmissionsBalance
  <2>1. OpenRequests = Ended({"render_failed", "bad_override", "dry_run"})
                       \cup {r \in Within({"final", "done"}) : answer[r].body = "none"}
                       \cup Within({"render", "send", "backoff", "resend"})
    BY DEF OpenRequests, Open, Ended, Within
  <2>2. QED
    BY <2>1 DEF BalanceInv, SubmissionsBalance
<1>2. QED
  BY GatewayInvIsInductive, AnswersInvIsInductive, BalanceInvIsInductive, <1>1, PTL DEF Spec

-----------------------------------------------------------------------------
(* What a page shows is what the counters were when each family was written, *)
(* and the counters only grow.  The part of a pair is written before its     *)
(* whole (Emit's order of names), so it is bounded by the whole at its own   *)
(* time, and so by the whole as it stands when that one is written.          *)
Written(i) == {Families[j] : j \in 1..i}

PageInv ==
  /\ unread # <<>> =>
       \E i \in 1..9 : unread = SubSeq(Families, i, 9) /\ DOMAIN page = Written(i - 1)
  /\ \A p \in {<<"latency", "sent">>, <<"failed", "received">>} :
       /\ p[1] \in DOMAIN page => page[p[1]] \in Nat /\ page[p[1]] <= metric[p[2]]
       /\ p[2] \in DOMAIN page => p[1] \in DOMAIN page /\ page[p[1]] <= page[p[2]]

(* At any time the parts are bounded by their wholes, and no step of the     *)
(* endpoint takes anything off a counter.                                    *)
LEMMA PartsWithinWholes ==
  ASSUME GatewayInv, BalanceInv
  PROVE  /\ \A m \in {"received", "sent", "failed", "latency"} : metric[m] \in Nat
         /\ metric["latency"] <= metric["sent"] /\ metric["failed"] <= metric["received"]
<1>1. \A m \in {"received", "sent", "failed", "latency"} : metric[m] \in Nat
  BY DEF GatewayInv, TypeOK, RequestsTypeOK, Metrics
<1>2. Cardinality(OpenRequests) \in Nat /\ Cardinality(Observing) \in Nat
  BY FS_CardinalityType DEF BalanceInv
<1>3. QED
  BY <1>1, <1>2 DEF BalanceInv

LEMMA CountersOnlyGrow ==
  ASSUME GatewayInv, AnswersInv, BalanceInv, [Next]_vars
  PROVE  metric["sent"] <= metric'["sent"] /\ metric["received"] <= metric'["received"]
<1>1. metric["sent"] \in Nat /\ metric["received"] \in Nat
  BY PartsWithinWholes
<1>2. CASE Tick \/ UNCHANGED vars
  BY <1>1, <1>2 DEF Tick, vars, requestVars
<1>3. ASSUME NEW r \in Requests, Enter(r) \/ Serve(r)
      PROVE  metric["sent"] <= metric'["sent"] /\ metric["received"] <= metric'["received"]
  <2>1. SameCounts \/ \E m \in {"received", "sent", "failed", "latency"} : OneMore(m)
    BY <1>3, BalanceStep DEF BalanceInv
  <2>2. QED
    BY <1>1, <2>1 DEF SameCounts, OneMore
<1>4. QED
  BY <1>2, <1>3 DEF Next

(* Emit writes one family. *)
LEMMA EmitKeepsPage ==
  ASSUME GatewayInv, BalanceInv, PageInv, EmitFamily
  PROVE  PageInv'
<1>1. PICK i \in 1..9 : unread = SubSeq(Families, i, 9) /\ DOMAIN page = Written(i - 1)
  BY DEF EmitFamily, PageInv
<1>2. Head(unread) = Families[i] /\ unread' = SubSeq(Families, i + 1, 9)
  BY <1>1 DEF EmitFamily, Families
<1>3. /\ DOMAIN page' = Written(i)
      /\ \A m \in DOMAIN page' : page'[m] = IF m \in DOMAIN page THEN page[m] ELSE metric[m]
  <2>1. DOMAIN page \cup {Families[i]} = Written(i)
    BY <1>1 DEF Written
  <2>2. QED
    BY <1>2, <2>1 DEF EmitFamily
<1>4. unread' # <<>> =>
        \E j \in 1..9 : unread' = SubSeq(Families, j, 9) /\ DOMAIN page' = Written(j - 1)
  <2>1. CASE i = 9
    BY <1>2, <2>1 DEF Families
  <2>2. CASE i # 9
    <3>1. i + 1 \in 1..9 /\ (i + 1) - 1 = i
      BY <2>2
    <3>2. QED
      BY <1>2, <1>3, <3>1
  <2>3. QED
    BY <2>1, <2>2
<1>5. metric' = metric
  BY DEF EmitFamily, vars, requestVars
<1>6. /\ "sent" \in DOMAIN page' => "latency" \in DOMAIN page
      /\ "received" \in DOMAIN page' => "failed" \in DOMAIN page
  <2>1. /\ \A j \in 1..9 : Families[j] = "sent" <=> j = 8
        /\ \A j \in 1..9 : Families[j] = "received" <=> j = 7
        /\ Families[4] = "latency" /\ Families[6] = "failed"
    BY DEF Families
  <2>2. "sent" \in Written(i) => 4 \in 1..(i - 1)
    BY <2>1 DEF Written
  <2>3. "received" \in Written(i) => 6 \in 1..(i - 1)
    BY <2>1 DEF Written
  <2>4. 4 \in 1..(i - 1) => "latency" \in Written(i - 1)
    BY <2>1 DEF Written
  <2>5. 6 \in 1..(i - 1) => "failed" \in Written(i - 1)
    BY <2>1 DEF Written
  <2>6. QED
    BY <1>1, <1>3, <2>2, <2>3, <2>4, <2>5
<1>7. ASSUME NEW p \in {<<"latency", "sent">>, <<"failed", "received">>}
      PROVE  /\ p[1] \in DOMAIN page' => page'[p[1]] \in Nat /\ page'[p[1]] <= metric[p[2]]
             /\ p[2] \in DOMAIN page' => p[1] \in DOMAIN page' /\ page'[p[1]] <= page'[p[2]]
  <2>1. /\ p[1] \in DOMAIN page => page[p[1]] \in Nat /\ page[p[1]] <= metric[p[2]]
        /\ p[2] \in DOMAIN page => p[1] \in DOMAIN page /\ page[p[1]] <= page[p[2]]
    BY DEF PageInv
  <2>2. metric[p[1]] \in Nat /\ metric[p[1]] <= metric[p[2]]
    BY PartsWithinWholes
  <2>3. p[2] \in DOMAIN page' => p[1] \in DOMAIN page
    BY <1>6
  <2>4. DOMAIN page \subseteq DOMAIN page'
    BY <1>1, <1>3 DEF Written
  <2>5. QED
    BY <1>3, <2>1, <2>2, <2>3, <2>4
<1>8. QED
  BY <1>4, <1>5, <1>7 DEF PageInv

LEMMA PageInvIsInductive ==
  /\ ScrapeInit => PageInv
  /\ /\ GatewayInv /\ AnswersInv /\ BalanceInv /\ PageInv
     /\ [ScrapeNext]_<<vars, scrapeVars>>
     => PageInv'
<1>1. ScrapeInit => PageInv
  BY DEF ScrapeInit, PageInv
<1>2. ASSUME GatewayInv, AnswersInv, BalanceInv, PageInv, UNCHANGED scrapeVars, [Next]_vars
      PROVE  PageInv'
  <2>1. /\ metric["sent"] <= metric'["sent"] /\ metric["received"] <= metric'["received"]
        /\ unread' = unread /\ page' = page
    BY <1>2, CountersOnlyGrow DEF scrapeVars
  <2>2. /\ \A m \in {"sent", "received"} : metric[m] \in Nat
        /\ \A m \in {"sent", "received"} : metric'[m] \in Nat
    <3>1. GatewayInv'
      BY <1>2, GatewayInvIsInductive
    <3>2. QED
      BY <1>2, <3>1 DEF GatewayInv, TypeOK, RequestsTypeOK, Metrics
  <2>3. ASSUME NEW p \in {<<"latency", "sent">>, <<"failed", "received">>}
        PROVE  /\ p[1] \in DOMAIN page => page[p[1]] \in Nat /\ page[p[1]] <= metric'[p[2]]
               /\ p[2] \in DOMAIN page => p[1] \in DOMAIN page /\ page[p[1]] <= page[p[2]]
    BY <1>2, <2>1, <2>2 DEF PageInv
  <2>4. QED
    BY <1>2, <2>1, <2>3 DEF PageInv
<1>3. ASSUME BeginScrape, PageInv PROVE PageInv'
  <2>1. /\ unread' = Families /\ page' = page /\ DOMAIN page = {}
    BY <1>3 DEF BeginScrape
  <2>2. Families = SubSeq(Families, 1, 9) /\ Written(0) = {}
    BY DEF Families, Written
  <2>3. QED
    BY <2>1, <2>2 DEF PageInv
<1>4. QED
  BY <1>1, <1>2, <1>3, EmitKeepsPage DEF ScrapeNext

(* A page of /metrics shows no latency of a send it does not count and no    *)
(* failure of a submission it has not received, whatever ran while Emit went *)
(* from family to family.                                                    *)
THEOREM PagesAgree == ScrapeSpec => []PageAgrees
<1>1. PageInv => PageAgrees
  BY DEF PageInv, PageAgrees
<1>2. ScrapeInit => Init
  BY DEF ScrapeInit
<1>3. [ScrapeNext]_<<vars, scrapeVars>> => [Next]_vars
  BY DEF ScrapeNext, BeginScrape, EmitFamily
<1>4. QED
  BY GatewayInvIsInductive, AnswersInvIsInductive, BalanceInvIsInductive, PageInvIsInductive,
     <1>1, <1>2, <1>3, PTL DEF ScrapeSpec

-----------------------------------------------------------------------------
(* The ration of a client.  A request counts against it from its admission   *)
(* on, for good once a provider has accepted its message; all of them are    *)
(* paid by what the client's one bucket has given out.                       *)
Paying(r) ==
  \/ pc[r] \in {"parse", "render", "send", "backoff", "resend", "observe"}
  \/ delivered[r] > 0

Payers(c) == {r \in Requests : client[r] = c /\ Paying(r)}

UsedClients == {client[r] : r \in Requests}

GivenTo(c) == IF c \in Range(recent) THEN LimiterThm!GivenOut(bucket[c]) ELSE 0

(* The clock is never behind a stamp or a bucket. *)
ClockLeads ==
  /\ \A r \in Requests : stamp[r] # NoStamp => stamp[r] <= now
  /\ \A c \in Range(recent) : bucket[c].last <= now

RationInv ==
  /\ ClockLeads
  /\ Range(recent) \subseteq UsedClients
  /\ Limited /\ AtMost(UsedClients, MaxIPs) =>
       \A c \in Clients : /\ IsFiniteSet(Payers(c))
                          /\ Cardinality(Payers(c)) * Interval <= GivenTo(c)

(* On a limited endpoint admission is the only way to count. *)
LEMMA PayingStep ==
  ASSUME GatewayInv, Limited, NEW r \in Requests, Enter(r) \/ Serve(r)
  PROVE  /\ Paying(r)' => Paying(r) \/ Admit(r)
         /\ Admit(r) => ~Paying(r) /\ Paying(r)'
<1> USE DEF At, Goto, KeepRequest, RequestOnly
<1>t. /\ pc \in [Requests -> Stages] /\ delivered \in [Requests -> 0..2]
      /\ Attempted(pc[r], delivered[r])
  BY DEF GatewayInv, TypeOK, RequestsTypeOK, Attempts
<1>p. PastClaim = "limit"
  BY DEF PastClaim
<1>1. CASE Enter(r) \/ Replay(r) \/ LookupConflict(r) \/ LookupMiss(r) \/ Claim(r) \/ ClaimConflict(r)
           \/ ReadClock(r) \/ Deny(r)
  <2>1. /\ pc[r] \in {"new", "lookup", "claim", "limit", "allow"} /\ delivered' = delivered
        /\ pc'[r] \in {"lookup", "claim", "limit", "allow", "final", "done"}
    <3>1. CASE Enter(r)
      BY <1>t, <1>p, <3>1 DEF Enter, RefuseEntry, EnterWithKey, EnterWithoutKey, Refuse
    <3>2. CASE \/ Replay(r) \/ LookupConflict(r) \/ LookupMiss(r) \/ Claim(r) \/ ClaimConflict(r)
               \/ ReadClock(r) \/ Deny(r)
      BY <1>t, <1>p, <3>2
      DEF Replay, LookupConflict, LookupMiss, Claim, ClaimConflict, ReadClock, Deny, Refuse, Respond
    <3>3. QED
      BY <1>1, <3>1, <3>2
  <2>2. delivered[r] = 0
    BY <1>t, <2>1 DEF Attempted
  <2>3. ~Paying(r)'
    BY <2>1, <2>2 DEF Paying
  <2>4. ~Admit(r)
    <3>1. Admit(r) => pc'[r] = "parse"
      BY <1>t DEF Admit
    <3>2. QED
      BY <2>1, <3>1
  <2>5. QED
    BY <2>3, <2>4
<1>2. CASE Admit(r)
  <2>1. pc[r] = "allow" /\ pc'[r] = "parse" /\ delivered[r] = 0
    BY <1>t, <1>2 DEF Admit, Attempted
  <2>2. QED
    BY <1>2, <2>1 DEF Paying
<1>3. CASE Finalize(r)
  <2>1. pc[r] = "final" /\ pc'[r] = "done" /\ delivered' = delivered
    BY <1>3, <1>t DEF Finalize
  <2>2. Paying(r)' => Paying(r)
    BY <2>1 DEF Paying
  <2>3. ~Admit(r)
    BY <2>1 DEF Admit
  <2>4. QED
    BY <2>2, <2>3
<1>4. CASE \/ RejectBody(r) \/ CatchHoneypot(r) \/ Invalid(r) \/ Receive(r)
           \/ StopAtRender(r) \/ StartSend(r)
           \/ FirstSend(r) \/ BackoffCut(r) \/ BackoffOver(r) \/ SecondSend(r) \/ Panic(r)
           \/ Observe(r)
  <2>1. pc[r] \in {"parse", "render", "send", "backoff", "resend", "observe"}
    BY <1>4 DEF RejectBody, CatchHoneypot, Invalid, Receive, StopAtRender, StartSend,
                FirstSend, BackoffCut, BackoffOver, SecondSend, Panic, Observe
  <2>2. QED
    BY <2>1 DEF Paying, Admit
<1>5. QED
  BY <1>1, <1>2, <1>3, <1>4 DEF Serve, Step

(* What a step of a request does to the clients' buckets. *)
LEMMA LimiterGives ==
  ASSUME GatewayInv, RationInv, NEW r \in Requests, Enter(r) \/ Serve(r)
  PROVE  /\ ClockLeads' /\ Range(recent') \subseteq UsedClients
         /\ AtMost(UsedClients, MaxIPs) =>
              \A c \in Clients :
                /\ GivenTo(c) \in Int
                /\ GivenTo(c)' >= GivenTo(c)
                /\ Admit(r) /\ c = client[r] => GivenTo(c)' >= GivenTo(c) + Interval
<1> DEFINE d == client[r]
<1>t. /\ now' = now /\ now \in Nat /\ d \in Clients /\ d \in UsedClients /\ client' = client
      /\ LimiterThm!TypeOK /\ stamp \in [Requests -> Nat \cup {NoStamp}]
      /\ LimiterThm!LimiterAssumption
  BY SameLimiter, RequestKeepsClock, OthersUntouched, GatewayAssumption
  DEF GatewayInv, TypeOK, RequestsTypeOK, UsedClients, Cache!TypeOK, Limiter!TypeOK,
      LimiterThm!LimiterAssumption
<1>r. Range(recent) = LimiterThm!Range(recent) /\ Range(recent') = LimiterThm!Range(recent')
  BY DEF Range, LimiterThm!Range
<1>g. \A c \in Clients : GivenTo(c) \in Int
  <2>1. ASSUME NEW c \in Clients, c \in Range(recent) PROVE LimiterThm!GivenOut(bucket[c]) \in Int
    <3>1. bucket[c] \in LimiterThm!Bucket
      BY <1>t, <1>r, <2>1 DEF LimiterThm!TypeOK
    <3>2. QED
      BY <1>t, <3>1, LimiterThm!RefillGives
  <2>2. QED
    BY <2>1 DEF GivenTo
<1>1. CASE ~ReadClock(r) /\ ~Admit(r) /\ ~Deny(r)
  <2>1. UNCHANGED <<recent, bucket, stamp>>
    BY <1>1, LimiterFrame
  <2>2. ClockLeads' /\ Range(recent') \subseteq UsedClients
    BY <1>t, <2>1 DEF RationInv, ClockLeads
  <2>3. \A c \in Clients : GivenTo(c)' = GivenTo(c)
    BY <2>1 DEF GivenTo
  <2>4. QED
    BY <1>1, <1>g, <2>2, <2>3
<1>2. CASE ReadClock(r)
  <2>1. /\ UNCHANGED <<recent, bucket>> /\ stamp' = [stamp EXCEPT ![r] = now] /\ pc[r] = "limit"
    BY <1>2 DEF ReadClock, Limiter!ReadClock, At
  <2>2. ClockLeads' /\ Range(recent') \subseteq UsedClients
    BY <1>t, <2>1 DEF RationInv, ClockLeads
  <2>3. \A c \in Clients : GivenTo(c)' = GivenTo(c)
    BY <2>1 DEF GivenTo
  <2>4. ~Admit(r)
    BY <2>1 DEF Admit, At
  <2>5. QED
    BY <1>g, <2>2, <2>3, <2>4
<1>3. CASE Admit(r) \/ Deny(r)
  <2>1. LimiterThm!Admit(r, d) \/ LimiterThm!Deny(r, d)
    BY <1>3, <1>t, SameLimiter DEF Admit, Deny
  <2>2. Admit(r) => LimiterThm!Admit(r, d)
    BY <1>t, SameLimiter DEF Admit
  <2>3. stamp[r] # NoStamp /\ stamp' = [stamp EXCEPT ![r] = NoStamp]
    BY <2>1 DEF LimiterThm!Admit, LimiterThm!Deny
  <2> DEFINE before == IF d \in Range(recent) THEN LimiterThm!GivenOut(bucket[d]) ELSE 0
  <2>4. /\ d \in Range(recent')
        /\ LimiterThm!Admit(r, d) => LimiterThm!GivenOut(bucket'[d]) >= before + Interval
        /\ LimiterThm!Deny(r, d) => LimiterThm!GivenOut(bucket'[d]) >= before
        /\ \/ bucket'[d].last = stamp[r]
           \/ d \in Range(recent) /\ bucket'[d].last = bucket[d].last
        /\ \A x \in Range(recent') : x # d => x \in Range(recent) /\ bucket'[x] = bucket[x]
    BY <1>t, <1>r, <2>1, LimiterThm!DecisionGives
  <2>5. ClockLeads' /\ Range(recent') \subseteq UsedClients
    <3>1. \A c \in Range(recent') : bucket'[c].last <= now
      BY <1>t, <2>3, <2>4 DEF RationInv, ClockLeads
    <3>2. \A q \in Requests : stamp'[q] # NoStamp => stamp'[q] <= now
      BY <1>t, <2>3 DEF RationInv, ClockLeads
    <3>3. QED
      BY <1>t, <2>4, <3>1, <3>2 DEF RationInv, ClockLeads
  <2>6. ASSUME AtMost(UsedClients, MaxIPs), NEW c \in Clients
        PROVE  /\ GivenTo(c)' >= GivenTo(c)
               /\ Admit(r) /\ c = d => GivenTo(c)' >= GivenTo(c) + Interval
    <3>1. Range(recent') = Range(recent) \cup {d}
      <4>1. /\ LimiterThm!IsFiniteSet(UsedClients)
            /\ LimiterThm!Cardinality(UsedClients) <= MaxIPs
        BY <2>6 DEF AtMost, IsFiniteSet, LimiterThm!IsFiniteSet, Cardinality, LimiterThm!Cardinality
      <4>2. LimiterThm!Range(recent) \cup {d} \subseteq UsedClients
        BY <1>t, <1>r DEF RationInv
      <4>3. LimiterThm!Range(recent') = LimiterThm!Range(recent) \cup {d}
        BY <1>t, <2>1, <4>1, <4>2, LimiterThm!DecisionKeepsAll
      <4>4. QED
        BY <1>r, <4>3
    <3>2. CASE c = d
      <4>1. GivenTo(c)' = LimiterThm!GivenOut(bucket'[d]) /\ GivenTo(c) = before
        BY <2>4, <3>2 DEF GivenTo, LimiterThm!GivenOut, LimiterThm!Full
      <4>2. before \in Int /\ Interval \in Nat
        BY <1>g, <3>2, <4>1, GatewayAssumption
      <4>3. GivenTo(c)' >= before
        <5>1. CASE LimiterThm!Admit(r, d)
          <6>1. LimiterThm!GivenOut(bucket'[d]) \in Int
            <7>1. bucket'[d] \in LimiterThm!Bucket
              BY <1>t, <1>r, <2>1, LimiterThm!DecisionGives
            <7>2. QED
              BY <1>t, <7>1, LimiterThm!RefillGives
          <6>2. QED
            BY <2>4, <4>1, <4>2, <5>1, <6>1
        <5>2. CASE LimiterThm!Deny(r, d)
          BY <2>4, <4>1, <5>2
        <5>3. QED
          BY <2>1, <5>1, <5>2
      <4>4. QED
        BY <2>2, <2>4, <4>1, <4>3
    <3>3. CASE c # d
      <4>1. GivenTo(c)' = GivenTo(c)
        BY <2>4, <3>1, <3>3 DEF GivenTo, LimiterThm!GivenOut, LimiterThm!Full
      <4>2. QED
        BY <1>g, <3>3, <4>1
    <3>4. QED
      BY <3>2, <3>3
  <2>7. QED
    BY <1>g, <2>5, <2>6
<1>4. QED
  BY <1>1, <1>2, <1>3

LEMMA RequestKeepsRation ==
  ASSUME GatewayInv, GatewayInv', RationInv, NEW r \in Requests, Enter(r) \/ Serve(r)
  PROVE  RationInv'
<1>t. /\ client' = client /\ cfg' = cfg
      /\ \A q \in Requests \ {r} : pc'[q] = pc[q] /\ delivered'[q] = delivered[q]
  BY OthersUntouched DEF GatewayInv, TypeOK, Enter, Serve
<1>1. ClockLeads' /\ (Range(recent) \subseteq UsedClients)'
  BY <1>t, LimiterGives DEF UsedClients
<1>2. ASSUME Limited', AtMost(UsedClients, MaxIPs)', NEW c \in Clients
      PROVE  /\ IsFiniteSet(Payers(c)')
             /\ Cardinality(Payers(c)') * Interval <= GivenTo(c)'
  <2>1. Limited /\ AtMost(UsedClients, MaxIPs)
    BY <1>t, <1>2 DEF Limited, AtMost, UsedClients
  <2>2. /\ IsFiniteSet(Payers(c)) /\ Cardinality(Payers(c)) * Interval <= GivenTo(c)
        /\ GivenTo(c) \in Int /\ GivenTo(c)' >= GivenTo(c)
        /\ Admit(r) /\ c = client[r] => GivenTo(c)' >= GivenTo(c) + Interval
    BY <2>1, LimiterGives DEF RationInv
  <2>3. /\ \A q : q # r => (q \in Payers(c)' <=> q \in Payers(c))
        /\ r \in Payers(c)' => r \in Payers(c) \/ (Admit(r) /\ c = client[r])
        /\ r \in Payers(c) => ~Admit(r)
    BY <1>t, <2>1, PayingStep DEF Payers, Paying
  <2> DEFINE n == Cardinality(Payers(c))
             np == Cardinality(Payers(c)')
  <2>4. /\ IsFiniteSet(Payers(c)') /\ n \in Nat
        /\ (r \in Payers(c)' <=> r \in Payers(c)) => np = n
        /\ r \notin Payers(c) /\ r \in Payers(c)' => np = n + 1
        /\ r \in Payers(c) /\ r \notin Payers(c)' => n = np + 1
    <3> HIDE DEF Payers
    <3>1. QED
      BY <2>2, <2>3, CountingStep
  <2>5. np \in Nat /\ Interval \in Nat
    BY <2>4, FS_CardinalityType, GatewayAssumption
  <2>6. GivenTo(c)' \in Int
    <3>1. GivenTo(c)' = IF c \in Range(recent') THEN LimiterThm!GivenOut(bucket'[c]) ELSE 0
      BY DEF GivenTo, LimiterThm!GivenOut, LimiterThm!Full
    <3>2. ASSUME c \in Range(recent') PROVE LimiterThm!GivenOut(bucket'[c]) \in Int
      <4>1. /\ bucket' \in [Limiter!Range(recent') -> Limiter!Bucket]
        BY DEF GatewayInv, TypeOK, Limiter!TypeOK, Limiter!Range, Limiter!Bucket, Limiter!Full
      <4>2. bucket'[c] \in LimiterThm!Bucket
        BY <3>2, <4>1 DEF Limiter!Range, Range, Limiter!Bucket, Limiter!Full,
                          LimiterThm!Bucket, LimiterThm!Full
      <4>3. QED
        BY <4>2, LimiterThm!RefillGives, GatewayAssumption DEF LimiterThm!LimiterAssumption
    <3>3. QED
      BY <3>1, <3>2
  <2> DEFINE cost == n * Interval
             costp == np * Interval
             given == GivenTo(c)
             givenp == GivenTo(c)'
  <2>7. /\ cost \in Int /\ costp \in Int
        /\ np = n => costp = cost
        /\ n = np + 1 => cost = costp + Interval
        /\ np = n + 1 => costp = cost + Interval
    <3>1. \A x, y \in Int : (x + 1) * y = x * y + y /\ x * y \in Int
      OBVIOUS
    <3>2. QED
      BY <2>4, <2>5, <3>1
  <2>8. cost <= given /\ given \in Int /\ givenp \in Int /\ givenp >= given
    BY <2>2, <2>6
  <2> HIDE DEF n, np, cost, costp, given, givenp
  <2>9. costp <= givenp
    <3>1. CASE np = n \/ n = np + 1
      BY <2>5, <2>7, <2>8, <3>1
    <3>2. CASE r \notin Payers(c) /\ r \in Payers(c)'
      <4>1. np = n + 1 /\ Admit(r) /\ c = client[r]
        BY <2>3, <2>4, <3>2
      <4>2. givenp >= given + Interval
        BY <2>2, <4>1 DEF given, givenp
      <4>3. QED
        BY <2>5, <2>7, <2>8, <4>1, <4>2
    <3>3. QED
      BY <2>4, <3>1, <3>2
  <2>10. QED
    BY <2>4, <2>9 DEF np, costp, givenp
<1>3. QED
  BY <1>1, <1>2, Zenon DEF RationInv

LEMMA RationInvIsInductive ==
  /\ Init => RationInv
  /\ GatewayInv /\ GatewayInv' /\ RationInv /\ [Next]_vars => RationInv'
<1>1. ASSUME Init PROVE RationInv
  <2>1. Range(recent) = {} /\ \A r \in Requests : stamp[r] = NoStamp
    BY <1>1 DEF Init, Limiter!Init, Range
  <2>2. \A c \in Clients : Payers(c) = {} /\ GivenTo(c) = 0
    BY <1>1, <2>1 DEF Init, Payers, Paying, GivenTo
  <2>3. ClockLeads
    BY <2>1 DEF ClockLeads
  <2>4. ASSUME NEW c \in Clients PROVE Cardinality(Payers(c)) * Interval <= GivenTo(c)
    <3>1. Cardinality(Payers(c)) = 0 /\ GivenTo(c) = 0
      BY <2>2, FS_EmptySet
    <3>2. 0 * Interval = 0
      BY GatewayAssumption
    <3>3. QED
      BY <3>1, <3>2
  <2>5. QED
    BY <2>1, <2>2, <2>3, <2>4, FS_EmptySet DEF RationInv
<1>2. ASSUME GatewayInv, RationInv, Tick \/ UNCHANGED vars PROVE RationInv'
  <2>1. /\ UNCHANGED <<cfg, pc, client, delivered, recent, bucket, stamp>> /\ now <= now'
        /\ now \in Nat /\ now' \in Nat
    BY <1>2
    DEF Tick, vars, requestVars, limiterVars, GatewayInv, TypeOK, Cache!TypeOK
  <2>2. ClockLeads'
    <3>1. \A r \in Requests : stamp[r] # NoStamp => stamp[r] \in Nat
      BY <1>2 DEF GatewayInv, TypeOK, Limiter!TypeOK
    <3>2. ASSUME NEW c \in Range(recent) PROVE bucket[c].last \in Nat
      <4>1. bucket[c] \in Limiter!Bucket
        BY <1>2 DEF GatewayInv, TypeOK, Limiter!TypeOK, Limiter!Range, Range
      <4>2. QED
        BY <4>1 DEF Limiter!Bucket
    <3>3. QED
      BY <1>2, <2>1, <3>1, <3>2 DEF RationInv, ClockLeads
  <2>3. /\ UsedClients' = UsedClients /\ Limited' = Limited
        /\ \A c \in Clients : Payers(c)' = Payers(c) /\ GivenTo(c)' = GivenTo(c)
    BY <2>1 DEF UsedClients, Limited, Payers, Paying, GivenTo
  <2>4. QED
    BY <1>2, <2>1, <2>2, <2>3 DEF RationInv, AtMost
<1>3. QED
  BY <1>1, <1>2, RequestKeepsRation DEF Next

(* A bucket cannot have given out more than the time since the start allows. *)
LEMMA RationInvIsRation == GatewayInv /\ RationInv => SendsAreRationed
<1> SUFFICES ASSUME GatewayInv, RationInv, Limited, AtMost(UsedClients, MaxIPs), NEW c \in Clients
             PROVE  Cardinality({r \in Requests : client[r] = c /\ delivered[r] > 0}) * Interval
                      <= Limiter!Full + now * Count
  BY DEF SendsAreRationed, UsedClients
<1> DEFINE D == {r \in Requests : client[r] = c /\ delivered[r] > 0}
           n == Cardinality(D)
           m == Cardinality(Payers(c))
<1>1. IsFiniteSet(Payers(c)) /\ m * Interval <= GivenTo(c)
  BY DEF RationInv
<1>2. n \in Nat /\ m \in Nat /\ n <= m
  <2>1. D \subseteq Payers(c)
    BY DEF Payers, Paying
  <2>2. QED
    BY <1>1, <2>1, FS_Subset, FS_CardinalityType
<1> HIDE DEF n, m
<1>3. Interval \in Nat /\ Count \in Nat /\ now \in Nat /\ Limiter!Full \in Nat
  <2>1. \A x, y \in Nat : x * y \in Nat
    OBVIOUS
  <2>2. QED
    BY <2>1, GatewayAssumption DEF GatewayInv, TypeOK, Cache!TypeOK, Limiter!Full
<1>4. n * Interval <= m * Interval /\ n * Interval \in Nat /\ m * Interval \in Nat
  <2>1. \A x, y, z \in Nat : x <= y => x * z <= y * z /\ x * z \in Nat /\ y * z \in Nat
    OBVIOUS
  <2>2. QED
    BY <1>2, <1>3, <2>1
<1>5. GivenTo(c) \in Int /\ GivenTo(c) <= Limiter!Full + now * Count
  <2>1. CASE c \in Range(recent)
    <3>1. bucket[c] \in Limiter!Bucket /\ bucket[c].last <= now
      BY <2>1 DEF GatewayInv, TypeOK, Limiter!TypeOK, Limiter!Range, Range, RationInv, ClockLeads
    <3>2. bucket[c].tokens \in Nat /\ bucket[c].last \in Nat
      BY <1>3, <3>1 DEF Limiter!Bucket
    <3>3. GivenTo(c) = Limiter!Full + bucket[c].last * Count - bucket[c].tokens
      BY <2>1 DEF GivenTo, LimiterThm!GivenOut, LimiterThm!Full, Limiter!Full
    <3>4. bucket[c].last * Count <= now * Count /\ bucket[c].last * Count \in Nat /\ now * Count \in Nat
      <4>1. \A x, y, z \in Nat : x <= y => x * z <= y * z /\ x * z \in Nat /\ y * z \in Nat
        OBVIOUS
      <4>2. QED
        BY <1>3, <3>1, <3>2, <4>1
    <3>5. QED
      BY <1>3, <3>2, <3>3, <3>4
  <2>2. CASE c \notin Range(recent)
    <3>1. now * Count \in Nat
      BY <1>3
    <3>2. QED
      BY <1>3, <2>2, <3>1 DEF GivenTo
  <2>3. QED
    BY <2>1, <2>2
<1>6. now * Count \in Int
  BY <1>3
<1>7. n * Interval <= Limiter!Full + now * Count
  BY <1>1, <1>3, <1>4, <1>5, <1>6
<1>8. QED
  BY <1>7 DEF n

(* Unless its bucket is evicted, a client's accepted messages are paid by one *)
(* burst and the refills since the start: nothing in ServeHTTP goes round the *)
(* limiter to the transport.                                                  *)
THEOREM RationIsKept == Spec => []SendsAreRationed
  BY GatewayInvIsInductive, RationInvIsInductive, RationInvIsRation, PTL DEF Spec

-----------------------------------------------------------------------------
(* The answers that requests of one key produce and keep, under any          *)
(* interleaving.  Kept(r): r ended with a 200 or 422 of its own under a key. *)
(* While the cache has room for every key in use, such an answer is in the   *)
(* cache for as long as it lives, so a later owner of the key, who can have  *)
(* no live answer beside its claim, stores only when the earlier one is      *)
(* dead.                                                                     *)
Kept(r) ==
  pc[r] = "done" /\ answer[r].by = r /\ answer[r].status \in {200, 422} /\ key[r] # NoKey

UsedKeys == {key[r] : r \in Requests} \ {NoKey}

LiveAnswersCached ==
  \A r \in Requests :
    Kept(r) /\ now < storedAt[r] + TTL =>
      key[r] \in Range(recency) /\ entry[key[r]].answer.by = r

KeptApart ==
  \A q, r \in Requests :
    Kept(q) /\ Kept(r) /\ q # r /\ key[q] = key[r] =>
      storedAt[q] + TTL <= storedAt[r] \/ storedAt[r] + TTL <= storedAt[q]

LifeInv ==
  /\ CacheThm!InFlightHasNoAnswer
  /\ \A r \in Requests : Kept(r) => storedAt[r] <= now
  /\ AtMost(UsedKeys, Capacity) => LiveAnswersCached /\ KeptApart

(* No step takes a key out of use, so room after it is room before it. *)
LEMMA RoomBefore ==
  ASSUME GatewayInv, NEW r \in Requests, Enter(r) \/ Serve(r), AtMost(UsedKeys, Capacity)'
  PROVE  AtMost(UsedKeys, Capacity)
<1>t. RequestsTypeOK /\ KeyedStages
  BY DEF GatewayInv, TypeOK, ControlInv
<1>1. key'[r] = key[r] \/ key[r] = NoKey
  <2> USE DEF KeepRequest, RequestOnly
  <2>1. CASE Enter(r)
    BY <2>1, <1>t DEF Enter, RefuseEntry, EnterWithKey, EnterWithoutKey, KeyedStages, At
  <2>2. CASE \/ Replay(r) \/ LookupConflict(r) \/ LookupMiss(r) \/ Claim(r) \/ ClaimConflict(r)
             \/ ReadClock(r) \/ Admit(r) \/ Deny(r) \/ Finalize(r)
    BY <2>2 DEF Replay, LookupConflict, LookupMiss, Claim, ClaimConflict, Finalize,
                ReadClock, Admit, Deny
  <2>3. CASE \/ RejectBody(r) \/ CatchHoneypot(r) \/ Invalid(r) \/ Receive(r)
             \/ StopAtRender(r) \/ StartSend(r)
             \/ FirstSend(r) \/ BackoffCut(r) \/ BackoffOver(r) \/ SecondSend(r) \/ Panic(r)
             \/ Observe(r)
    BY <2>3 DEF RejectBody, CatchHoneypot, Invalid, Receive, StopAtRender, StartSend,
                FirstSend, BackoffCut, BackoffOver, SecondSend, Panic, Observe
  <2>4. QED
    BY <2>1, <2>2, <2>3 DEF Serve, Step
<1>2. UsedKeys \subseteq UsedKeys'
  BY <1>t, <1>1, OthersUntouched DEF UsedKeys
<1>3. IsFiniteSet(UsedKeys') /\ Cardinality(UsedKeys') <= Capacity
  BY DEF AtMost
<1> HIDE DEF UsedKeys
<1>4. IsFiniteSet(UsedKeys) /\ Cardinality(UsedKeys) <= Cardinality(UsedKeys')
  BY <1>2, <1>3, FS_Subset
<1>5. Cardinality(UsedKeys) \in Nat /\ Cardinality(UsedKeys') \in Nat /\ Capacity \in Nat
  BY <1>3, <1>4, FS_CardinalityType, GatewayAssumption
<1>6. QED
  BY <1>3, <1>4, <1>5 DEF AtMost

(* With that room a step of a request removes no live entry from the cache. *)
LEMMA LiveEntriesRemain ==
  ASSUME GatewayInv, AnswersInv, AtMost(UsedKeys, Capacity),
         NEW r \in Requests, Enter(r) \/ Serve(r),
         NEW x \in Range(recency), now < entry[x].expires
  PROVE  x \in Range(recency')
<1> USE DEF cacheVars, RequestOnly, At
<1>k. pc[r] \in {"lookup", "claim", "final"} => key[r] \in Keys
  BY DEF GatewayInv, ControlInv, KeyedStages
<1>t. CacheThm!TypeOK /\ CacheThm!CacheAssumption /\ RequestsTypeOK
  BY SameCache, GatewayAssumption DEF CacheThm!CacheAssumption, GatewayInv, TypeOK
<1>r. Range(recency) = CacheThm!Range(recency) /\ Range(recency') = CacheThm!Range(recency')
  BY DEF Range, CacheThm!Range
<1>v. CacheThm!Valid(x)
  BY <1>r DEF CacheThm!Valid, CacheThm!Cached
<1>s. CacheThm!IsFiniteSet(UsedKeys) /\ CacheThm!Cardinality(UsedKeys) <= Capacity
  BY DEF AtMost, IsFiniteSet, CacheThm!IsFiniteSet, Cardinality, CacheThm!Cardinality
<1>u. CacheThm!Range(recency) \subseteq UsedKeys
  <2> SUFFICES ASSUME NEW k \in Range(recency) PROVE k \in UsedKeys
    BY <1>r
  <2>1. k \in Keys /\ entry[k].answer.by \in Requests
    BY <1>t, <1>r DEF CacheThm!TypeOK, CacheThm!RecencyLists, CacheThm!Range, CacheThm!Entry, Answer
  <2>2. key[entry[k].answer.by] = k
    BY DEF AnswersInv, CacheHoldsFinalAnswers
  <2>3. QED
    BY <2>1, <2>2, GatewayAssumption DEF UsedKeys
<1>o. key[r] \in Keys => key[r] \in UsedKeys
  BY GatewayAssumption DEF UsedKeys
<1> HIDE DEF UsedKeys
<1>1. CASE \/ Replay(r) \/ LookupConflict(r) \/ LookupMiss(r) \/ Claim(r) \/ ClaimConflict(r)
           \/ Finalize(r)
  <2>1. key[r] \in Keys /\ key[r] \in UsedKeys /\ answer[r] \in Answer
    BY <1>1, <1>k, <1>o, <1>t
    DEF Replay, LookupConflict, LookupMiss, Claim, ClaimConflict, Finalize, RequestsTypeOK
  <2>2. \/ Cache!LookupCached(key[r]) \/ Cache!LookupInFlight(key[r]) \/ Cache!LookupMiss(key[r])
        \/ Cache!ClaimInFlight(key[r]) \/ Cache!ClaimRefused(key[r])
        \/ Cache!Abandon(key[r]) \/ Cache!Store(key[r], answer[r])
    BY <1>1 DEF Replay, LookupConflict, LookupMiss, Claim, ClaimConflict, Finalize
  <2>3. \/ CacheThm!LookupCached(key[r]) \/ CacheThm!LookupInFlight(key[r])
        \/ CacheThm!LookupMiss(key[r])
        \/ CacheThm!ClaimInFlight(key[r]) \/ CacheThm!ClaimRefused(key[r])
        \/ CacheThm!Abandon(key[r]) \/ \E a \in Answer : CacheThm!Store(key[r], a)
    BY <2>1, <2>2, SameMethods
  <2>4. CacheThm!Cached(x)'
    BY <1>t, <1>v, <1>s, <1>u, <2>1, <2>3, CacheThm!LiveEntriesStay
  <2>5. QED
    BY <1>r, <2>4 DEF CacheThm!Cached
<1>2. CASE Enter(r) \/ ReadClock(r) \/ Admit(r) \/ Deny(r)
  BY <1>2 DEF Enter, RefuseEntry, EnterWithKey, EnterWithoutKey, ReadClock, Admit, Deny
<1>3. CASE \/ RejectBody(r) \/ CatchHoneypot(r) \/ Invalid(r) \/ Receive(r)
           \/ StopAtRender(r) \/ StartSend(r)
           \/ FirstSend(r) \/ BackoffCut(r) \/ BackoffOver(r) \/ SecondSend(r) \/ Panic(r)
           \/ Observe(r)
  BY <1>3 DEF RejectBody, CatchHoneypot, Invalid, Receive, StopAtRender, StartSend,
              FirstSend, BackoffCut, BackoffOver, SecondSend, Panic, Observe
<1>4. QED
  BY <1>1, <1>2, <1>3 DEF Serve, Step

(* A request ends with an answer that is kept in finalizeIdempotent only, *)
(* which stores it at that moment, under a key the request holds.         *)
LEMMA KeptStep ==
  ASSUME GatewayInv, AnswersInv, NEW r \in Requests, Enter(r) \/ Serve(r), Kept(r)'
  PROVE  /\ Finalize(r) /\ Cacheable(answer[r])
         /\ key[r] \in Keys /\ key[r] \in inflight /\ key'[r] = key[r]
         /\ storedAt'[r] = now
         /\ key[r] \in Range(recency') /\ entry'[key[r]].answer.by = r
<1>t. RequestsTypeOK /\ ControlInv /\ CacheThm!TypeOK /\ CacheThm!CacheAssumption
  BY SameCache, GatewayAssumption DEF CacheThm!CacheAssumption, GatewayInv, TypeOK
<1>a. /\ pc'[r] = "done" /\ answer'[r].by = r /\ answer'[r].status \in {200, 422}
      /\ key'[r] # NoKey
  BY DEF Kept
<1> USE DEF At, Goto
<1>1. Finalize(r)
  <2>1. ~Replay(r)
    BY <1>a, ReplayTakesOriginal
  <2>2. ~Enter(r)
    BY <1>a, <1>t DEF Enter, RefuseEntry, EnterWithKey, EnterWithoutKey, PastClaim,
                      RequestsTypeOK, ControlInv, KeyedStages
  <2>3. ~LookupConflict(r) /\ ~ClaimConflict(r)
    BY <1>a, <1>t DEF LookupConflict, ClaimConflict, Refuse, Write, RequestsTypeOK
  <2>4. ~LookupMiss(r) /\ ~Claim(r) /\ ~ReadClock(r) /\ ~Admit(r)
    BY <1>a, <1>t DEF LookupMiss, Claim, PastClaim, ReadClock, Admit, RequestsTypeOK
  <2>5. ~Deny(r) /\ ~RejectBody(r) /\ ~CatchHoneypot(r) /\ ~Invalid(r) /\ ~StopAtRender(r)
    BY <1>a, <1>t DEF Deny, RejectBody, CatchHoneypot, Invalid, StopAtRender, Respond,
                      KeepRequest, RequestsTypeOK
  <2>6. ~Receive(r) /\ ~StartSend(r) /\ ~BackoffOver(r)
    BY <1>a, <1>t DEF Receive, StartSend, BackoffOver, RequestsTypeOK
  <2>7. ~FirstSend(r) /\ ~SecondSend(r)
    BY <1>a, <1>t DEF FirstSend, SecondSend, Sent, Failed, Respond, RequestsTypeOK
  <2>8. ~BackoffCut(r) /\ ~Panic(r) /\ ~Observe(r)
    BY <1>a, <1>t DEF BackoffCut, Panic, Observe, Failed, Respond, KeepRequest, RequestsTypeOK
  <2>9. QED
    BY <2>1, <2>2, <2>3, <2>4, <2>5, <2>6, <2>7, <2>8 DEF Serve, Step
<1>2. key[r] \in Keys /\ Owner(r)
  BY <1>1, <1>t, GatewayAssumption DEF Finalize, ControlInv, KeyedStages, Owner, Claimed
<1>3. key[r] \in inflight
  BY <1>2, <1>t DEF ControlInv, ClaimOwnership
<1>4. answer' = answer /\ key' = key
  BY <1>1 DEF Finalize, KeepRequest
<1>5. Cacheable(answer[r]) /\ Cache!Store(key[r], answer[r]) /\ storedAt'[r] = now
  BY <1>1, <1>4, <1>a, <1>t DEF Finalize, Cacheable, RequestsTypeOK
<1>6. answer[r] \in Answer
  BY <1>t DEF RequestsTypeOK
<1>7. /\ key[r] \in CacheThm!Range(recency')
      /\ entry'[key[r]] = [answer |-> answer[r], expires |-> now + TTL]
  <2>1. CacheThm!Store(key[r], answer[r])
    BY <1>2, <1>5, <1>6, SameMethods
  <2>2. QED
    BY <1>2, <1>4, <1>6, <1>t, <2>1, CacheThm!StoreEffect DEF CacheThm!Cached
<1>8. key[r] \in Range(recency')
  BY <1>7, <1>4 DEF CacheThm!Range, Range
<1>9. QED
  BY <1>a, <1>1, <1>2, <1>3, <1>4, <1>5, <1>7, <1>8


(* A later answer of a key is stored by the holder of its claim, beside which *)
(* no earlier answer is live; and no other step kills a live answer.          *)
LEMMA RequestKeepsLife ==
  ASSUME GatewayInv, GatewayInv', AnswersInv, LifeInv, NEW r \in Requests, Enter(r) \/ Serve(r)
  PROVE  LifeInv'
<1>t. /\ ControlInv /\ RequestsTypeOK /\ Cache!TypeOK /\ CacheThm!TypeOK
      /\ CacheThm!CacheAssumption /\ now' = now /\ now \in Nat /\ TTL \in Nat \ {0}
  BY SameCache, RequestKeepsClock, GatewayAssumption
  DEF GatewayInv, TypeOK, CacheThm!CacheAssumption, Cache!TypeOK
<1>o. /\ ~Kept(r)
      /\ \A q \in Requests \ {r} :
           /\ Kept(q)' <=> Kept(q)
           /\ key'[q] = key[q] /\ storedAt'[q] = storedAt[q]
  BY <1>t, OthersUntouched DEF Kept
<1>s. \A q \in Requests : storedAt[q] \in Nat
  BY <1>t DEF RequestsTypeOK
<1>1. CacheThm!InFlightHasNoAnswer'
  <2>1. (\E k \in Keys : CacheThm!Operation(k)) \/ UNCHANGED Cache!vars
    BY <1>t, RequestKeepsContract, SameCache
  <2>2. CASE UNCHANGED Cache!vars
    BY <2>2 DEF LifeInv, Cache!vars, CacheThm!InFlightHasNoAnswer, CacheThm!Valid,
                CacheThm!Cached, CacheThm!Range
  <2>3. ASSUME NEW k \in Keys, CacheThm!Operation(k) PROVE CacheThm!InFlightHasNoAnswer'
    BY <1>t, <2>3, CacheThm!OperationKeepsSeparation DEF LifeInv
  <2>4. QED
    BY <2>1, <2>2, <2>3
<1>2. \A q \in Requests : Kept(q)' => storedAt'[q] <= now'
  <2>1. Kept(r)' => storedAt'[r] <= now
    BY <1>t, KeptStep
  <2>2. QED
    BY <1>t, <1>o, <2>1 DEF LifeInv
<1>3. ASSUME AtMost(UsedKeys, Capacity)' PROVE LiveAnswersCached' /\ KeptApart'
  <2>1. LiveAnswersCached /\ KeptApart /\ AtMost(UsedKeys, Capacity)
    BY <1>3, RoomBefore DEF LifeInv
  (* A live answer is in the cache, so its key is not in flight. *)
  <2>2. ASSUME NEW q \in Requests, Kept(q), now < storedAt[q] + TTL
        PROVE  /\ key[q] \in Range(recency) /\ entry[key[q]].answer.by = q
               /\ now < entry[key[q]].expires /\ key[q] \notin inflight
    <3>1. key[q] \in Range(recency) /\ entry[key[q]].answer.by = q
      BY <2>1, <2>2 DEF LiveAnswersCached
    <3>2. now < entry[key[q]].expires
      BY <2>2, <3>1 DEF AnswersInv, CacheHoldsFinalAnswers
    <3>3. CacheThm!Valid(key[q])
      BY <3>1, <3>2 DEF CacheThm!Valid, CacheThm!Cached, CacheThm!Range, Range
    <3>4. QED
      BY <3>1, <3>2, <3>3 DEF LifeInv, CacheThm!InFlightHasNoAnswer
  <2>3. LiveAnswersCached'
    <3> SUFFICES ASSUME NEW q \in Requests, Kept(q)', now < storedAt'[q] + TTL
                 PROVE  key'[q] \in Range(recency') /\ entry'[key'[q]].answer.by = q
      BY <1>t DEF LiveAnswersCached
    <3>1. CASE q = r
      BY <3>1, KeptStep
    <3>2. CASE q # r
      <4>1. Kept(q) /\ now < storedAt[q] + TTL /\ key'[q] = key[q]
        BY <1>o, <3>2
      <4>2. /\ key[q] \in Range(recency) /\ entry[key[q]].answer.by = q
            /\ now < entry[key[q]].expires /\ key[q] \notin inflight
        BY <2>2, <4>1
      <4>3. key[q] \in Range(recency')
        BY <2>1, <4>2, LiveEntriesRemain
      <4>4. \/ entry'[key[q]] = entry[key[q]]
            \/ Finalize(r) /\ key[q] = key[r]
        BY <1>t, <4>3, CacheGains
      <4>5. Finalize(r) => key[r] \in inflight
        <5>1. Finalize(r) => key[r] \in Keys /\ Owner(r)
          BY <1>t, GatewayAssumption DEF Finalize, At, ControlInv, KeyedStages, Owner, Claimed
        <5>2. QED
          BY <1>t, <5>1 DEF ControlInv, ClaimOwnership
      <4>6. QED
        BY <4>1, <4>2, <4>3, <4>4, <4>5
    <3>3. QED
      BY <3>1, <3>2
  <2>4. KeptApart'
    (* The new answer against an earlier one of its key. *)
    <3>1. ASSUME NEW q \in Requests \ {r}, Kept(q), Kept(r)', key[q] = key'[r]
          PROVE  storedAt[q] + TTL <= storedAt'[r]
      <4>1. key[q] \in inflight /\ storedAt'[r] = now
        BY <3>1, KeptStep
      <4>2. ~(now < storedAt[q] + TTL)
        BY <2>2, <3>1, <4>1
      <4>3. QED
        BY <1>t, <1>s, <4>1, <4>2
    <3>2. ASSUME NEW p \in Requests, NEW q \in Requests, Kept(p)', Kept(q)', p # q, key'[p] = key'[q]
          PROVE  storedAt'[p] + TTL <= storedAt'[q] \/ storedAt'[q] + TTL <= storedAt'[p]
      <4>1. CASE p # r /\ q # r
        BY <1>o, <2>1, <3>2, <4>1 DEF KeptApart
      <4>2. CASE p = r
        BY <1>o, <3>1, <3>2, <4>2
      <4>3. CASE q = r
        BY <1>o, <3>1, <3>2, <4>3
      <4>4. QED
        BY <4>1, <4>2, <4>3
    <3>3. QED
      BY <3>2 DEF KeptApart
  <2>5. QED
    BY <2>3, <2>4
<1>4. QED
  BY <1>1, <1>2, <1>3 DEF LifeInv

LEMMA LifeInvIsInductive ==
  /\ Init => LifeInv
  /\ GatewayInv /\ GatewayInv' /\ AnswersInv /\ LifeInv /\ [Next]_vars => LifeInv'
<1>1. ASSUME Init PROVE LifeInv
  <2>1. \A r \in Requests : ~Kept(r)
    BY <1>1 DEF Init, Kept
  <2>2. CacheThm!InFlightHasNoAnswer
    BY <1>1 DEF Init, Cache!Init, CacheThm!InFlightHasNoAnswer
  <2>3. QED
    BY <2>1, <2>2 DEF LifeInv, LiveAnswersCached, KeptApart
<1>2. ASSUME GatewayInv, GatewayInv', AnswersInv, LifeInv, Tick \/ UNCHANGED vars PROVE LifeInv'
  <2>1. /\ UNCHANGED <<pc, key, answer, storedAt, recency, entry, inflight>>
        /\ now' = now \/ now' = now + 1
    BY <1>2 DEF Tick, vars, requestVars, cacheVars
  <2>2. /\ now \in Nat /\ TTL \in Nat
        /\ \A r \in Requests : storedAt[r] \in Nat /\ (Kept(r)' <=> Kept(r))
        /\ UsedKeys' = UsedKeys
    BY <1>2, <2>1, GatewayAssumption DEF GatewayInv, TypeOK, RequestsTypeOK, Cache!TypeOK, Kept, UsedKeys
  <2>3. CacheThm!InFlightHasNoAnswer'
    <3>1. CacheThm!TypeOK /\ CacheThm!InFlightHasNoAnswer /\ CacheThm!CacheAssumption
      BY <1>2, SameCache, GatewayAssumption
      DEF GatewayInv, TypeOK, LifeInv, CacheThm!CacheAssumption
    <3>2. CacheThm!Tick \/ UNCHANGED CacheThm!vars
      BY <1>2 DEF Tick, vars, requestVars, cacheVars, CacheThm!Tick, CacheThm!vars, CacheThm!cacheVars
    <3>3. QED
      BY <3>1, <3>2, CacheThm!SeparationIsInductive DEF CacheThm!Next
  <2>4. \A r \in Requests : Kept(r)' => storedAt'[r] <= now'
    BY <1>2, <2>1, <2>2 DEF LifeInv
  <2>5. ASSUME AtMost(UsedKeys, Capacity)' PROVE LiveAnswersCached' /\ KeptApart'
    <3>1. LiveAnswersCached /\ KeptApart
      BY <1>2, <2>2, <2>5 DEF LifeInv, AtMost
    <3>2. \A r \in Requests : now' < storedAt[r] + TTL => now < storedAt[r] + TTL
      BY <2>1, <2>2
    <3>3. LiveAnswersCached'
      BY <2>1, <2>2, <3>1, <3>2 DEF LiveAnswersCached
    <3>4. KeptApart'
      BY <2>1, <2>2, <3>1 DEF KeptApart
    <3>5. QED
      BY <3>3, <3>4
  <2>6. QED
    BY <2>3, <2>4, <2>5 DEF LifeInv
<1>3. QED
  BY <1>1, <1>2, RequestKeepsLife DEF Next

(* Within TTL of an answer that a request of a key produced and kept, no      *)
(* other request of that key produces one, however their lookups, claims and  *)
(* finalizeIdempotent interleave, as long as the cache has room for the keys. *)
THEOREM OneOriginal == Spec => []OneOriginalPerLifetime
<1>1. LifeInv => OneOriginalPerLifetime
  <2> SUFFICES ASSUME LifeInv, AtMost(UsedKeys, Capacity),
                      NEW q \in Requests, NEW r \in Requests,
                      q # r, key[q] = key[r], key[q] # NoKey,
                      \A o \in {q, r} : At(o, "done") /\ answer[o].by = o
                                          /\ answer[o].status \in {200, 422}
               PROVE  storedAt[q] + TTL <= storedAt[r] \/ storedAt[r] + TTL <= storedAt[q]
    BY DEF OneOriginalPerLifetime, UsedKeys
  <2>1. Kept(q) /\ Kept(r)
    BY DEF Kept, At
  <2>2. QED
    BY <2>1 DEF LifeInv, KeptApart
<1>2. QED
  BY GatewayInvIsInductive, AnswersInvIsInductive, LifeInvIsInductive, <1>1, PTL DEF Spec

-----------------------------------------------------------------------------
(* What is proved of the cache alone holds of it inside the endpoint: a 409   *)
(* of Lookup hides no live answer, and a live answer is never replaced.       *)
THEOREM CacheKeepsItsWord == Spec => []Cache!InFlightHasNoAnswer /\ Cache!LiveAnswerIsFinal
<1>t. CacheThm!CacheAssumption
  BY GatewayAssumption DEF CacheThm!CacheAssumption
<1>1. CacheThm!Spec => []CacheThm!InFlightHasNoAnswer /\ CacheThm!LiveAnswerIsFinal
  BY <1>t, CacheThm!Separation, CacheThm!LiveAnswersAreFinal, PTL
<1>2. Cache!Spec => CacheThm!Spec
  <2>1. Cache!Next => CacheThm!Next
    BY SameCache DEF Cache!Next, CacheThm!Next, Cache!Tick, CacheThm!Tick,
                     Cache!cacheVars, CacheThm!cacheVars
  <2>2. Cache!vars = CacheThm!vars
    BY DEF Cache!vars, CacheThm!vars
  <2>3. [Cache!Next]_(Cache!vars) => [CacheThm!Next]_(CacheThm!vars)
    BY <2>1 DEF Cache!vars, CacheThm!vars
  <2>4. QED
    BY <2>3, SameCache, PTL DEF Cache!Spec, CacheThm!Spec
<1>3. CacheThm!InFlightHasNoAnswer => Cache!InFlightHasNoAnswer
  BY DEF CacheThm!InFlightHasNoAnswer, Cache!InFlightHasNoAnswer, CacheThm!Valid, Cache!Valid,
         CacheThm!Cached, Cache!Cached, CacheThm!Range, Cache!Range
<1>4. CacheThm!LiveAnswerIsFinal => Cache!LiveAnswerIsFinal
  <2> DEFINE F == \A k \in Keys : CacheThm!Valid(k) /\ CacheThm!Cached(k)' => entry'[k] = entry[k]
             G == \A k \in Keys : Cache!Valid(k) /\ Cache!Cached(k)' => entry'[k] = entry[k]
  <2>1. [F]_(CacheThm!vars) => [G]_(Cache!vars)
    BY DEF CacheThm!vars, Cache!vars, CacheThm!Valid, Cache!Valid,
           CacheThm!Cached, Cache!Cached, CacheThm!Range, Cache!Range
  <2>2. QED
    BY <2>1, PTL DEF CacheThm!LiveAnswerIsFinal, Cache!LiveAnswerIsFinal
<1>5. QED
  BY <1>1, <1>2, <1>3, <1>4, CacheContract, PTL DEF KeepsCacheContract

(* ServeHTTP uses the limiter as its own model lets goroutines use it: each   *)
(* request calls Allow with its own client, and nothing else touches it.      *)
THEOREM LimiterContract == Spec => Limiter!Spec
<1>1. Init => Limiter!Init
  BY DEF Init
<1>2. ASSUME GatewayInv, [Next]_vars PROVE [Limiter!Next]_(Limiter!vars)
  <2>1. CASE UNCHANGED vars
    BY <2>1 DEF vars, limiterVars, Limiter!vars
  <2>2. CASE Tick
    BY <2>2 DEF Tick, limiterVars, Limiter!Tick, Limiter!limiterVars, Limiter!Next
  <2>3. ASSUME NEW r \in Requests, Enter(r) \/ Serve(r) PROVE [Limiter!Next]_(Limiter!vars)
    <3>1. now' = now /\ client[r] \in Clients
      BY <1>2, <2>3, RequestKeepsClock DEF GatewayInv, TypeOK, RequestsTypeOK
    <3>2. CASE ReadClock(r) \/ Admit(r) \/ Deny(r)
      BY <3>1, <3>2 DEF ReadClock, Admit, Deny, Limiter!Next
    <3>3. CASE ~ReadClock(r) /\ ~Admit(r) /\ ~Deny(r)
      BY <2>3, <3>1, <3>3, LimiterFrame DEF Limiter!vars
    <3>4. QED
      BY <3>2, <3>3
  <2>4. QED
    BY <1>2, <2>1, <2>2, <2>3 DEF Next
<1>3. QED
  BY <1>1, <1>2, GatewayInvIsInductive, PTL DEF Spec, Limiter!Spec
-----------------------------------------------------------------------------
(* The stages in the order of the code, and one before another. *)
Pipeline == <<"new", "lookup", "claim", "limit", "allow", "parse", "render",
              "send", "backoff", "resend", "observe", "final", "done">>

Before(s, t) == \E i, j \in DOMAIN Pipeline : i < j /\ Pipeline[i] = s /\ Pipeline[j] = t

Forward(r) == Before(pc[r], pc'[r])

LEMMA StepsGoForward ==
  ASSUME RequestsTypeOK, NEW r \in Requests, Enter(r) \/ Serve(r)
  PROVE  Forward(r)
<1> USE DEF RequestsTypeOK, At, Goto
<1>b. /\ \A s \in {"lookup", "parse", "limit", "done"} : Before("new", s)
      /\ \A s \in {"claim", "done"} : Before("lookup", s)
      /\ \A s \in {"parse", "limit", "done"} : Before("claim", s)
      /\ Before("limit", "allow")
      /\ \A s \in {"parse", "final", "done"} : Before("allow", s)
      /\ \A s \in {"render", "final", "done"} : Before("parse", s)
      /\ \A s \in {"send", "final", "done"} : Before("render", s)
      /\ \A s \in {"backoff", "observe", "final", "done"} : Before("send", s)
      /\ \A s \in {"resend", "final", "done"} : Before("backoff", s)
      /\ \A s \in {"observe", "final", "done"} : Before("resend", s)
      /\ \A s \in {"final", "done"} : Before("observe", s)
      /\ Before("final", "done")
  BY DEF Before, Pipeline
<1>1. CASE Enter(r)
  BY <1>1, <1>b DEF Forward, Enter, RefuseEntry, EnterWithKey, EnterWithoutKey, Refuse, PastClaim
<1>2. CASE \/ Replay(r) \/ LookupConflict(r) \/ LookupMiss(r) \/ Claim(r) \/ ClaimConflict(r)
           \/ ReadClock(r) \/ Admit(r) \/ Deny(r) \/ Finalize(r)
  BY <1>2, <1>b DEF Forward, Replay, LookupConflict, LookupMiss, Claim, ClaimConflict, Finalize,
              ReadClock, Admit, Deny, Refuse, Respond, PastClaim, KeepRequest
<1>3. CASE \/ RejectBody(r) \/ CatchHoneypot(r) \/ Invalid(r) \/ Receive(r)
           \/ StopAtRender(r) \/ StartSend(r)
  BY <1>3, <1>b DEF Forward, RejectBody, CatchHoneypot, Invalid, Receive, StopAtRender, StartSend,
              Respond
<1>4. CASE FirstSend(r) \/ SecondSend(r)
  BY <1>4, <1>b DEF Forward, FirstSend, SecondSend, Sent, Failed, Respond
<1>5. CASE BackoffCut(r) \/ BackoffOver(r) \/ Panic(r) \/ Observe(r)
  BY <1>5, <1>b DEF Forward, BackoffCut, BackoffOver, Panic, Observe, Failed, Respond
<1>6. QED
  BY <1>1, <1>2, <1>3, <1>4, <1>5 DEF Serve, Step

(* A goroutine goes through the stages of ServeHTTP in one direction, and     *)
(* every step it takes brings it further: no retry and no error path loops,   *)
(* so that a request ends after twelve steps of its own at most.  It is what  *)
(* RequestsEnd needs beside the fairness of the scheduler.                    *)
THEOREM StagesInOrder ==
  Spec => [][\A r \in Requests : /\ Enter(r) \/ Serve(r) => Forward(r)
                                 /\ pc'[r] # pc[r] => Forward(r)]_vars
<1>1. ASSUME GatewayInv, [Next]_vars
      PROVE  [\A r \in Requests : /\ Enter(r) \/ Serve(r) => Forward(r)
                                  /\ pc'[r] # pc[r] => Forward(r)]_vars
  <2> SUFFICES ASSUME Next, NEW r \in Requests
               PROVE  /\ Enter(r) \/ Serve(r) => Forward(r)
                      /\ pc'[r] # pc[r] => Forward(r)
    BY <1>1
  <2>1. RequestsTypeOK
    BY <1>1 DEF GatewayInv, TypeOK
  <2>2. Enter(r) \/ Serve(r) => Forward(r)
    BY <2>1, StepsGoForward
  <2>3. ASSUME pc'[r] # pc[r] PROVE Enter(r) \/ Serve(r)
    <3>1. ~Tick
      BY <2>3 DEF Tick, requestVars
    <3>2. PICK q \in Requests : Enter(q) \/ Serve(q)
      BY <3>1 DEF Next
    <3>3. q = r
      BY <2>1, <2>3, <3>2, OthersUntouched
    <3>4. QED
      BY <3>2, <3>3
  <2>4. QED
    BY <2>2, <2>3
<1>2. QED
  BY <1>1, GatewayInvIsInductive, PTL DEF Spec
=============================================================================
