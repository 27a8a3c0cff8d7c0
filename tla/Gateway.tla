------------------------------- MODULE Gateway -------------------------------
(***************************************************************************)
(* One HTTP endpoint: Handler.ServeHTTP of core/gateway/handler.go run by  *)
(* a goroutine per request, over the endpoint's idempotency cache, its     *)
(* rate limiter and its transport.                                         *)
(*                                                                         *)
(* A request is served once; a client that retries is another request with *)
(* the same Idempotency-Key.  What a request contains is met at the check  *)
(* that reads it: each check has an action for passing and one for each    *)
(* way to fail.  Checks with nothing shared between them are one stage.    *)
(*                                                                         *)
(*   new -> lookup -> claim -> limit -> allow -> parse -> render           *)
(*       -> send -> backoff -> resend -> observe -> final -> done          *)
(***************************************************************************)
EXTENDS Integers, FiniteSets, SequencesExt

CONSTANTS
  Requests,   \* the requests the endpoint ever receives
  Keys,       \* the Idempotency-Key values they carry
  NoKey,      \* no Idempotency-Key header, or a form endpoint
  Clients,    \* the rate-limit bucket keys: matched API key, or client IP
  Settings,   \* the configurations the endpoint may have
  Capacity, TTL,                      \* of the idempotency cache
  Count, Interval, MaxIPs, NoStamp,   \* of the limiter
  MaxTime     \* bound on the clock

ASSUME GatewayAssumption ==
  /\ NoKey \notin Keys
  /\ Capacity \in Nat \ {0} /\ TTL \in Nat \ {0}
  /\ Count \in Nat \ {0} /\ Interval \in Nat \ {0} /\ MaxIPs \in Nat \ {0}
  /\ NoStamp \notin Nat
  /\ MaxTime \in Nat
  /\ Settings \subseteq [api : BOOLEAN, dryRun : BOOLEAN, limited : BOOLEAN]

VARIABLES
  cfg,        \* the endpoint's configuration, fixed when it is built
  pc,         \* where in ServeHTTP each request is
  key,        \* its Idempotency-Key
  client,     \* its bucket key
  answer,     \* what has been written to it
  delivered,  \* how often the provider accepted its message
  storedAt,   \* when its answer was cached
  metric,     \* the counters of the metrics.Recorder
  recency, entry, inflight,   \* of the idempotency cache
  recent, bucket, stamp,      \* of the limiter
  now                         \* the clock

cacheVars == <<recency, entry, inflight>>
limiterVars == <<recent, bucket, stamp>>
requestVars == <<pc, key, client, answer, delivered, storedAt, metric>>
vars == <<cfg, requestVars, cacheVars, limiterVars, now>>

ApiMode == cfg.api          \* auth = "api-key"
DryRun == cfg.dryRun
Limited == cfg.limited      \* rate_limit is configured

(* The body identifies what a response says; by is the request whose         *)
(* submission_id it carries, which a replay does not change.                 *)
Bodies == {"none", "refused", "conflict", "rate_limited", "bad_body", "ok", "forbidden",
           "invalid", "bad_override", "dry_run", "render_failed", "undelivered"}
Statuses == {0, 200, 400, 401, 403, 405, 409, 413, 415, 422, 429, 500, 502}
Answer == [status : Statuses, body : Bodies, by : Requests]

Cache == INSTANCE IdempotencyCache WITH Answers <- Answer
Limiter == INSTANCE RateLimit WITH Callers <- Requests

Stages == {"new", "lookup", "claim", "limit", "allow", "parse", "render",
           "send", "backoff", "resend", "observe", "final", "done"}
Metrics == {"received", "sent", "latency", "failed", "spam_blocked", "rate_limited",
            "auth_failed", "validation_failed", "replay"}

RequestsTypeOK ==
  /\ pc \in [Requests -> Stages]
  /\ key \in [Requests -> Keys \cup {NoKey}]
  /\ client \in [Requests -> Clients]
  /\ answer \in [Requests -> Answer]
  /\ delivered \in [Requests -> 0..2]
  /\ storedAt \in [Requests -> Nat]
  /\ metric \in [Metrics -> Nat]

TypeOK ==
  /\ cfg \in Settings
  /\ RequestsTypeOK
  /\ Cache!TypeOK
  /\ Limiter!TypeOK

Init ==
  /\ cfg \in Settings
  /\ pc = [r \in Requests |-> "new"]
  /\ key = [r \in Requests |-> NoKey]
  /\ client \in [Requests -> Clients]
  /\ answer = [r \in Requests |-> [status |-> 0, body |-> "none", by |-> r]]
  /\ delivered = [r \in Requests |-> 0]
  /\ storedAt = [r \in Requests |-> 0]
  /\ metric = [m \in Metrics |-> 0]
  /\ Cache!Init
  /\ Limiter!Init
-----------------------------------------------------------------------------
At(r, stage) == pc[r] = stage

Goto(r, stage) == pc' = [pc EXCEPT ![r] = stage]

CountOne(m) == metric' = [metric EXCEPT ![m] = @ + 1]

Write(r, status, body) ==
  answer' = [answer EXCEPT ![r] = [status |-> status, body |-> body, by |-> r]]

(* An answer before the claim: ServeHTTP returns and nothing is deferred. *)
Refuse(r, status, body) == Write(r, status, body) /\ Goto(r, "done")

(* An answer after it: a request with a key still has finalizeIdempotent to run. *)
Respond(r, status, body) ==
  /\ Write(r, status, body)
  /\ Goto(r, IF key[r] = NoKey THEN "done" ELSE "final")

(* What a step of the request itself leaves alone. *)
RequestOnly == UNCHANGED <<cacheVars, limiterVars, now, storedAt>>

(* The stage after the checks that precede the limiter. *)
PastClaim == IF Limited THEN "limit" ELSE "parse"
-----------------------------------------------------------------------------
(* Entry: the method, and in api mode the bearer token and the shape of the  *)
(* Idempotency-Key, in form mode the content type and the origin.            *)

RefuseEntry(r) ==
  /\ At(r, "new")
  /\ \/ Refuse(r, 405, "refused") /\ UNCHANGED metric
     \/ ApiMode /\ Refuse(r, 401, "refused") /\ CountOne("auth_failed")
     \/ Refuse(r, 400, "refused") /\ UNCHANGED metric
     \/ ~ApiMode /\ Refuse(r, 403, "forbidden") /\ CountOne("spam_blocked")
  /\ RequestOnly /\ UNCHANGED <<key, client, delivered>>

EnterWithKey(r) ==
  /\ At(r, "new")
  /\ ApiMode
  /\ \E k \in Keys : key' = [key EXCEPT ![r] = k]
  /\ Goto(r, "lookup")
  /\ RequestOnly /\ UNCHANGED <<client, answer, delivered, metric>>

(* Mutant of EnterWithoutKey: the limiter is consulted with the key only. *)
EnterUnlimited(r) ==
  /\ At(r, "new")
  /\ Goto(r, "parse")
  /\ RequestOnly /\ UNCHANGED <<key, client, answer, delivered, metric>>

EnterWithoutKey(r) ==
  /\ At(r, "new")
  /\ Goto(r, PastClaim)
  /\ RequestOnly /\ UNCHANGED <<key, client, answer, delivered, metric>>
-----------------------------------------------------------------------------
(* The idempotency check: two calls, and the cache can change between them. *)

(* What the idempotency and limiter steps leave alone. *)
KeepRequest == UNCHANGED <<key, client, delivered>>

(* Mutant of Replay: the recorded status is not written, so it is 200. *)
ReplayAsOk(r) ==
  /\ At(r, "lookup")
  /\ Cache!LookupCached(key[r])
  /\ answer' = [answer EXCEPT ![r] = [entry[key[r]].answer EXCEPT !.status = 200]]
  /\ Goto(r, "done")
  /\ CountOne("replay")
  /\ KeepRequest /\ UNCHANGED <<limiterVars, now, storedAt>>

Replay(r) ==
  /\ At(r, "lookup")
  /\ Cache!LookupCached(key[r])
  /\ answer' = [answer EXCEPT ![r] = entry[key[r]].answer]
  /\ Goto(r, "done")
  /\ CountOne("replay")
  /\ KeepRequest /\ UNCHANGED <<limiterVars, now, storedAt>>

LookupConflict(r) ==
  /\ At(r, "lookup")
  /\ Cache!LookupInFlight(key[r])
  /\ Refuse(r, 409, "conflict")
  /\ KeepRequest /\ UNCHANGED <<limiterVars, now, storedAt, metric>>

LookupMiss(r) ==
  /\ At(r, "lookup")
  /\ Cache!LookupMiss(key[r])
  /\ Goto(r, "claim")
  /\ KeepRequest /\ UNCHANGED <<limiterVars, now, storedAt, metric, answer>>

(* Mutant of Claim: the result of ClaimInFlight is not looked at. *)
ClaimRegardless(r) ==
  /\ At(r, "claim")
  /\ Cache!ClaimInFlight(key[r]) \/ Cache!ClaimRefused(key[r])
  /\ Goto(r, PastClaim)
  /\ KeepRequest /\ UNCHANGED <<limiterVars, now, storedAt, metric, answer>>

Claim(r) ==
  /\ At(r, "claim")
  /\ Cache!ClaimInFlight(key[r])
  /\ Goto(r, PastClaim)
  /\ KeepRequest /\ UNCHANGED <<limiterVars, now, storedAt, metric, answer>>

ClaimConflict(r) ==
  /\ At(r, "claim")
  /\ Cache!ClaimRefused(key[r])
  /\ Refuse(r, 409, "conflict")
  /\ KeepRequest /\ UNCHANGED <<limiterVars, now, storedAt, metric>>
-----------------------------------------------------------------------------
(* The rate limit: Allow reads the clock, then decides under the lock. *)

ReadClock(r) ==
  /\ At(r, "limit")
  /\ Limiter!ReadClock(r)
  /\ Goto(r, "allow")
  /\ KeepRequest /\ UNCHANGED <<cacheVars, now, storedAt, metric, answer>>

Admit(r) ==
  /\ At(r, "allow")
  /\ Limiter!Admit(r, client[r])
  /\ Goto(r, "parse")
  /\ KeepRequest /\ UNCHANGED <<cacheVars, now, storedAt, metric, answer>>

Deny(r) ==
  /\ At(r, "allow")
  /\ Limiter!Deny(r, client[r])
  /\ Respond(r, 429, "rate_limited")
  /\ CountOne("rate_limited")
  /\ KeepRequest /\ UNCHANGED <<cacheVars, now, storedAt>>
-----------------------------------------------------------------------------
(* The body: content type (api), size and syntax, honeypot and CSRF token   *)
(* (form), required fields and email syntax.                                *)

RejectBody(r) ==
  /\ At(r, "parse")
  /\ \/ ApiMode /\ Respond(r, 415, "bad_body")
     \/ \E s \in {413, 400} : Respond(r, s, "bad_body")
     \/ ~ApiMode /\ Respond(r, 403, "forbidden")
  /\ RequestOnly /\ KeepRequest /\ UNCHANGED metric

(* A bot gets the answer of a success, and nothing is sent. *)
CatchHoneypot(r) ==
  /\ At(r, "parse")
  /\ ~ApiMode
  /\ Respond(r, 200, "ok")
  /\ CountOne("spam_blocked")
  /\ RequestOnly /\ KeepRequest

Invalid(r) ==
  /\ At(r, "parse")
  /\ Respond(r, 422, "invalid")
  /\ CountOne("validation_failed")
  /\ RequestOnly /\ KeepRequest

Receive(r) ==
  /\ At(r, "parse")
  /\ Goto(r, "render")
  /\ CountOne("received")
  /\ RequestOnly /\ KeepRequest /\ UNCHANGED answer

(* Rendering, the per-request recipients of api mode, and dry-run. *)

StopAtRender(r) ==
  /\ At(r, "render")
  /\ \/ Respond(r, 500, "render_failed")
     \/ ApiMode /\ Respond(r, 422, "bad_override")
     \/ DryRun /\ Respond(r, 200, "dry_run")
  /\ RequestOnly /\ KeepRequest /\ UNCHANGED metric

StartSend(r) ==
  /\ At(r, "render")
  /\ ~DryRun
  /\ Goto(r, "send")
  /\ RequestOnly /\ KeepRequest /\ UNCHANGED <<answer, metric>>
-----------------------------------------------------------------------------
(* sendWithRetry.  A provider may accept a message and its answer be lost:  *)
(* Send then reports a transient failure like any network error.            *)

Outcomes == {"accepted", "lost", "transient", "rate_limited", "terminal", "unclassified"}
Retryable == {"lost", "transient", "rate_limited"}

Deliver(r, o) ==
  delivered' = [delivered EXCEPT ![r] = IF o \in {"accepted", "lost"} THEN @ + 1 ELSE @]

(* Recorder.Sent is two calls: the counter, then the latency histogram. *)
Sent(r) == Goto(r, "observe") /\ CountOne("sent") /\ UNCHANGED answer

Failed(r) == Respond(r, 502, "undelivered") /\ CountOne("failed")

FirstSend(r) ==
  /\ At(r, "send")
  /\ \E o \in Outcomes :
       /\ Deliver(r, o)
       /\ \/ o = "accepted" /\ Sent(r)
          \/ o \in Retryable /\ Goto(r, "backoff") /\ UNCHANGED <<answer, metric>>
          \/ o \notin Retryable \cup {"accepted"} /\ Failed(r)
  /\ RequestOnly /\ UNCHANGED <<key, client>>

(* Mutant of BackoffCut: the early return forgets the counter. *)
BackoffCutUncounted(r) ==
  /\ At(r, "backoff")
  /\ Respond(r, 502, "undelivered")
  /\ RequestOnly /\ KeepRequest /\ UNCHANGED metric

(* Mutant of BackoffOver: back to the first attempt, with its own retry. *)
BackoffRestarts(r) ==
  /\ At(r, "backoff")
  /\ Goto(r, "send")
  /\ RequestOnly /\ KeepRequest /\ UNCHANGED <<answer, metric>>

(* The request's context ends first: the hard timeout, or the client is gone. *)
BackoffCut(r) ==
  /\ At(r, "backoff")
  /\ Failed(r)
  /\ RequestOnly /\ KeepRequest

BackoffOver(r) ==
  /\ At(r, "backoff")
  /\ Goto(r, "resend")
  /\ RequestOnly /\ KeepRequest /\ UNCHANGED <<answer, metric>>

(* Mutants of SecondSend: its error is shadowed by the first result; it is *)
(* repeated for as long as the provider answers 429.                       *)
SecondSendIgnoresError(r) ==
  /\ At(r, "resend")
  /\ \E o \in Outcomes : Deliver(r, o)
  /\ Sent(r)
  /\ RequestOnly /\ UNCHANGED <<key, client>>

SecondSendRepeats(r) ==
  /\ At(r, "resend")
  /\ \E o \in Outcomes :
       /\ Deliver(r, o)
       /\ \/ o = "accepted" /\ Sent(r)
          \/ o = "rate_limited" /\ Goto(r, "backoff") /\ UNCHANGED <<answer, metric>>
          \/ o \notin {"accepted", "rate_limited"} /\ Failed(r)
  /\ RequestOnly /\ UNCHANGED <<key, client>>

SecondSend(r) ==
  /\ At(r, "resend")
  /\ \E o \in Outcomes :
       /\ Deliver(r, o)
       /\ IF o = "accepted" THEN Sent(r) ELSE Failed(r)
  /\ RequestOnly /\ UNCHANGED <<key, client>>

Observe(r) ==
  /\ At(r, "observe")
  /\ CountOne("latency")
  /\ Respond(r, 200, "ok")
  /\ RequestOnly /\ KeepRequest

(* net/http recovers a panic of the handler; the deferred call still runs. *)
Panic(r) ==
  /\ \E s \in {"render", "send", "resend"} : At(r, s)
  /\ Goto(r, IF key[r] = NoKey THEN "done" ELSE "final")
  /\ RequestOnly /\ KeepRequest /\ UNCHANGED <<answer, metric>>
-----------------------------------------------------------------------------
(* Mutant of Cacheable: every 4xx is taken for deterministic. *)
CacheableBelow500(a) == a.status \in 200..499

(* finalizeIdempotent: 200 and 422 are kept for replay, the rest abandoned. *)
Cacheable(a) == a.status \in {200, 422}

(* Mutant of Finalize: a failed request returns without Abandon. *)
FinalizeLeaks(r) ==
  /\ At(r, "final")
  /\ \/ /\ Cacheable(answer[r])
        /\ Cache!Store(key[r], answer[r])
        /\ storedAt' = [storedAt EXCEPT ![r] = now]
     \/ ~Cacheable(answer[r]) /\ UNCHANGED <<cacheVars, storedAt>>
  /\ Goto(r, "done")
  /\ KeepRequest /\ UNCHANGED <<limiterVars, now, metric, answer>>

Finalize(r) ==
  /\ At(r, "final")
  /\ \/ /\ Cacheable(answer[r])
        /\ Cache!Store(key[r], answer[r])
        /\ storedAt' = [storedAt EXCEPT ![r] = now]
     \/ /\ ~Cacheable(answer[r])
        /\ Cache!Abandon(key[r])
        /\ UNCHANGED storedAt
  /\ Goto(r, "done")
  /\ KeepRequest /\ UNCHANGED <<limiterVars, now, metric, answer>>

Tick ==
  /\ now < MaxTime
  /\ now' = now + 1
  /\ UNCHANGED <<cfg, requestVars, cacheVars, limiterVars>>

Enter(r) ==
  /\ RefuseEntry(r) \/ EnterWithKey(r) \/ EnterWithoutKey(r)
  /\ UNCHANGED cfg

Step(r) ==
  \/ Replay(r) \/ LookupConflict(r) \/ LookupMiss(r) \/ Claim(r) \/ ClaimConflict(r)
  \/ ReadClock(r) \/ Admit(r) \/ Deny(r)
  \/ RejectBody(r) \/ CatchHoneypot(r) \/ Invalid(r) \/ Receive(r)
  \/ StopAtRender(r) \/ StartSend(r)
  \/ FirstSend(r) \/ BackoffCut(r) \/ BackoffOver(r) \/ SecondSend(r) \/ Panic(r)
  \/ Observe(r) \/ Finalize(r)

Serve(r) == Step(r) /\ UNCHANGED cfg

Next == Tick \/ \E r \in Requests : Enter(r) \/ Serve(r)

Spec == Init /\ [][Next]_vars

(* A goroutine that has started keeps running and every call to a provider   *)
(* returns; no client is obliged to come.                                    *)
FairSpec == Spec /\ \A r \in Requests : WF_vars(Serve(r))
-----------------------------------------------------------------------------
(* The requests between a successful ClaimInFlight and the end of the *)
(* deferred finalizeIdempotent.                                       *)
Claimed == {"limit", "allow", "parse", "render", "send", "backoff", "resend",
            "observe", "final"}
Owner(r) == key[r] # NoKey /\ pc[r] \in Claimed

(* A key is in flight exactly while one request works on it: no two requests *)
(* process one key at a time, and no path out of ServeHTTP (429, 4xx, 5xx,   *)
(* dry-run, a panic) leaves a claim behind that would answer 409 for ever.   *)
ClaimOwnership ==
  /\ \A q, r \in Requests : Owner(q) /\ Owner(r) /\ key[q] = key[r] => q = r
  /\ \A k \in Keys : k \in inflight <=> \E r \in Requests : Owner(r) /\ key[r] = k

(* What the cache holds is the final 200 or 422 of a finished request with   *)
(* that key, for TTL from the moment it finished: never a 429, a 5xx or the  *)
(* answer of a request that is still running (finalizeIdempotent's policy).  *)
CacheHoldsFinalAnswers ==
  \A k \in Range(recency) :
    LET o == entry[k].answer.by
    IN  /\ At(o, "done") /\ key[o] = k
        /\ answer[o] = entry[k].answer
        /\ answer[o].status \in {200, 422}
        /\ entry[k].expires = storedAt[o] + TTL

(* A request answered with another one's submission_id carried the same key  *)
(* and got that request's answer, whole (NFR20): replayCachedResponse.       *)
ReplayIsOriginal ==
  \A r \in Requests :
    LET o == answer[r].by
    IN  o # r => key[o] = key[r] /\ key[r] # NoKey /\ answer[o] = answer[r] /\ At(o, "done")

(* An api caller that reads "ok", first hand or in a replay, can rely on the *)
(* provider having accepted the message of the request it names.             *)
OkMeansDelivered ==
  ApiMode => \A r \in Requests : answer[r].body = "ok" => delivered[answer[r].by] >= 1

AtMost(S, n) == IsFiniteSet(S) /\ Cardinality(S) <= n

(* While nothing is evicted, the answers that requests of one key produce    *)
(* and keep are at least a lifetime apart: within TTL of an answer every     *)
(* duplicate is a replay or a conflict, however its lookup, its claim and    *)
(* the first request's finalizeIdempotent interleave.                        *)
OneOriginalPerLifetime ==
  AtMost({key[r] : r \in Requests} \ {NoKey}, Capacity) =>
    \A q, r \in Requests :
      /\ q # r /\ key[q] = key[r] /\ key[q] # NoKey
      /\ \A o \in {q, r} : At(o, "done") /\ answer[o].by = o /\ answer[o].status \in {200, 422}
      => storedAt[q] + TTL <= storedAt[r] \/ storedAt[r] + TTL <= storedAt[q]

(* The requests in a stage, and those that ended with a body of their own. *)
Within(stages) == {r \in Requests : pc[r] \in stages}
Ended(bodies) == {r \in Requests : answer[r].body \in bodies /\ answer[r].by = r}

(* Every submission that was counted as received is being sent, or is        *)
(* counted once as sent or failed, or stopped at rendering, at its           *)
(* to_override, in dry-run or in a panic: no retry path counts twice and no  *)
(* failure path (the backoff cut short, say) forgets to count.               *)
SubmissionsBalance ==
  LET stopped == Ended({"render_failed", "bad_override", "dry_run"})
      panicked == {r \in Within({"final", "done"}) : answer[r].body = "none"}
      working == Within({"render", "send", "backoff", "resend"})
  IN  metric["received"] = metric["sent"] + metric["failed"]
                           + Cardinality(stopped \cup panicked \cup working)

(* While no bucket is evicted, the requests of one client whose message a    *)
(* provider accepted are paid by one burst and the refills since the start:  *)
(* no way through ServeHTTP reaches the transport round the limiter.         *)
SendsAreRationed ==
  Limited /\ AtMost({client[r] : r \in Requests}, MaxIPs) =>
    \A c \in Clients :
      Cardinality({r \in Requests : client[r] = c /\ delivered[r] > 0}) * Interval
        <= Limiter!Full + now * Count

(* A claim does not outlive its request, and every request is answered. *)
ClaimsAreReleased == \A k \in Keys : (k \in inflight) ~> (k \notin inflight)
RequestsEnd == \A r \in Requests : (pc[r] # "new") ~> At(r, "done")

(* ServeHTTP is a client that keeps the cache's contract, Store and Abandon  *)
(* by the holder of a claim only: every step is one of its steps or none.    *)
KeepsCacheContract == Cache!Spec
=============================================================================
