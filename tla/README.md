# Posthorn in TLA+

Models, model checks and proofs for the Go program in `src/core` (Posthorn, a
self-hosted mail gateway: HTTP forms, a JSON api and an SMTP listener in front of
transactional mail providers). Line numbers below are those of `src/core`.

- [1. The system](#1-the-system)
- [2. Modules](#2-modules)
- [3. Runs](#3-runs)
- [4. Fairness](#4-fairness)
- [5. Proofs](#5-proofs)
- [6. Where code and documents disagree](#6-where-code-and-documents-disagree)
- [7. What is left out](#7-what-is-left-out)
- [8. Plan](#8-plan)

## 1. The system

| Component | State | Operations | What makes it correct |
|---|---|---|---|
| Gateway handler (`gateway/handler.go`) | per request: where `ServeHTTP` is, the response written; shared: cache, limiter, counters | `ServeHTTP`, `sendWithRetry`, `finalizeIdempotent` | every claim released once, only final answers cached, replays whole, every submission counted once, one retry, nobody sends without a token |
| Idempotency cache (`idempotency/cache.go`) | LRU map key → (answer, expiry), set of keys in flight | `Lookup`, `ClaimInFlight`, `Store`, `Abandon` | no live answer hidden, replaced or evicted while it is in use |
| Rate limiter (`ratelimit/ratelimit.go`) | LRU map client → (tokens, last) | `Allow`, `ClientIP` | at most a burst and the refill over any window; no denial to a client with budget |
| SMTP session (`smtp/session.go`, `config.go`, `parse.go`) | TLS, identity, transaction, recipients | one handler per command | mail only for identified clients on the channel they identified on, within the operator's lists and cap |
| SMTP listener, process (`smtp/listener.go`, `ingress`, `cmd/posthorn/main.go`) | the goroutines of `Start`, a WaitGroup, signals, one deadline | `Start`, `Stop`, `runIngressesUntilSignal` | a clean exit has drained; a shutdown ends |
| Transports (`transport/*.go`) | none, or one outbound SMTP dialogue | `Send` | results say what the provider did; copies go to all recipients; `require_tls` holds; sending ends |
| Metrics (`metrics/*.go`) | counters and histograms, a lock each | `Recorder`, `Registry.Emit` | counts consistent with what happened; a page consistent with itself |
| Configuration (`config/config.go`) | none after start | `Validate`, the defaults of `New` | what is accepted is applied |
| Form defences (`spam`, `csrf`, `validate`) | none | `CheckOrigin`, `CheckHoneypot`, `Verify`, `RequiredFields`, `Email` | the unwanted is stopped, a sincere visitor never |
| Templates and responses (`template`, `response`) | none | `RenderBody`, `extraFields`, `Negotiate` | nothing said is lost; the honeypot's answer is that of a success |
| Request signing, logging | none | pure functions | not modelled |

**How they interact.** `runServe` builds one `Handler` per endpoint, each with its
own transport, limiter and cache, and runs the HTTP server and, if configured, the
SMTP listener, each in a goroutine. A request goroutine passes through its
endpoint's cache (two critical sections, `handler.go:284` and `303`), limiter (a clock
read, then a critical section), body checks, transport (twice at most, with a timed
wait between) and, deferred, the cache again. Requests share nothing else, apart
from the counters, which a scrape of `/metrics` reads family by family while they move. A
request's data, the endpoint's configuration and the proxies it came by decide each check. An SMTP session has a goroutine of its own and calls a transport
directly, without retry, cache or limiter. `main` stops the ingresses one after
the other under one 15 s deadline.

**What is hard in it.** The cache may change between `Lookup` and
`ClaimInFlight`, and between the claim and its release lie some twenty exits and a
panic. Goroutines reach a bucket with clock readings out of order. An answer of a
provider can be lost after it accepted the mail. STARTTLS and AUTH may arrive in
the middle of a transaction, and RCPT and DATA check the transaction only. Connections,
signals, drains and the deadline race at shutdown. Form fields may be repeated, absent or in the
query, and each check reads them by a rule of its own; two modes share one pipeline, and a setting
of one must not be ignored in the other. Nothing is persisted, so there is no
crash recovery to get wrong: a restart is a new start. `PROJECT.json` lists each such
place with its line under `hazards`.

## 2. Modules

| Module | What it is | Code |
|---|---|---|
| `LRU` | recency lists of the LRU library both maps use: external, modelled from its use | `lru.New/Get/Add/Remove` |
| `IdempotencyCache` | the cache as a state machine, one action per result of each method; `Spec` is its contract: only the holder of a claim releases it | `idempotency/cache.go` |
| `RateLimit` | token buckets; `Allow` is two actions, the clock read and the locked decision | `ratelimit/ratelimit.go` |
| `RateLimitHistory` | `RateLimit` with the history of each bucket's admissions, for the two bounds | |
| `Gateway` | `ServeHTTP` with a goroutine per request; composes the cache and the limiter (`INSTANCE`) with the requests, the transport's outcomes and the counters | `gateway/handler.go`, `metrics/recorder.go` |
| `IdempotencyCacheHistory` | `IdempotencyCache` with, for each key, the keys used since its last use | |
| `Scrape` | `Gateway` with a scrape of `/metrics` between its steps | `metrics/metrics.go`, `handlers.go` |
| `Configuration` | one `[[endpoints]]` block: what is accepted and what `New` resolves | `config/config.go`, `gateway/handler.go`, `template/template.go` |
| `ClientAddress` | a path of proxies, and `ClientIP` at its end | `ratelimit/ratelimit.go` |
| `Submission` | one submission with its data, from the configuration to the answer; implements `Gateway` | `gateway/handler.go`, `spam`, `csrf`, `validate`, `template`, `response` |
| `MailSubmission` | abstract: what a connection may submit, without the dialogue | |
| `SmtpSession` | the dialogue, one action per command and outcome; implements `MailSubmission` | `smtp/session.go`, `config.go`, `parse.go` |
| `Delivery` | abstract: what sending one message promises its caller | |
| `Dispatch` | `sendWithRetry` over the HTTP transports and the outbound SMTP dialogue, one action per command and outcome; implements `Delivery` | `gateway/handler.go`, `transport/*.go` |
| `Lifecycle` | main, signals, both ingresses, the deadline, the connections | `cmd/posthorn/main.go`, `ingress/http.go`, `smtp/listener.go` |
| `MC...` | instances and history variables for TLC | |
| `...Proofs` | theorems, section 5 | |

**Reading `Gateway`.** `pc[r]` is the place of request `r` in `ServeHTTP`:
`new → lookup → claim → limit → allow → parse → render → send → backoff → resend → observe → final → done`.
`cfg` is the endpoint's configuration (api mode, dry-run, limiter), one of `Settings` and never
changed: one run covers the endpoints that differ in it. `observe` lies between the two calls of
`Recorder.Sent`, where a scrape can fall.
A stage ends where another goroutine, the clock or the provider can have an effect that
matters; checks with nothing shared between them are one stage with one action for each
way to fail (`RejectBody`, `Invalid`, ...) and one for passing (`Receive`). What a request
contains is chosen at the check that reads it. `final` is the deferred
`finalizeIdempotent`; only requests with a key pass it, after every exit behind the
claim, the panic included. `answer[r].by` is the request whose `submission_id` the
response carries, so a replay is recognised by `by # r`. `delivered[r]` counts what the
provider accepted, whether or not its answer arrived (`lost`).

**Reading `Submission`.** `Gateway` has many requests and leaves open which way each check
goes; `Submission` has one request with its content and decides. `endpoint` and `request` are
drawn from sets; `Load` is `Validate`, `New` and `buildMux`; `Travel` is a hop over a proxy. A form
maps each field to its values; a value is blank, text, an address or an issued token, which is all
that the checks tell apart. A multipart body is not read by `ParseForm` (section 6), so its
fields are not in `form`. `message.shown` are the fields a template names, `message.extras` those
of the "Additional fields:" block. `answer.status` is the status meant, `answer.page` what the client gets
for it. `Handler` maps the pipeline to `Gateway` with one request and no key, and
`ServesAsGateway` says that it is one of Gateway's behaviours: the verdicts that Gateway leaves open
include the code's, in the code's order, with the code's counters.

**Reading `ClientAddress`.** `outsider` is the last address on the way that is not in
`trusted_proxies`, kept by the model and not known to the code. A trusted proxy appends its peer's
address to `X-Forwarded-For`; everyone else sends any header. A network is the set of its addresses.

**Reading `SmtpSession`.** The session waits in `phase` for a command, credentials, the
message, or the transport. All commands may come at any time. A configuration is one
record, fixed for the connection; an allowlist is the set of addresses it matches. The
recorder's counters are left out: the binary gives the listener none (`main.go:187`).
`Identity` and `OpenEnvelope` map the session to `MailSubmission`: an envelope is handed
over when `Send` is called.

**Reading `Dispatch`.** One message, one transport (`cfg`), at most two attempts. `phase` is
the command whose answer `Send` waits for, or the wait between the attempts. The HTTP
transports differ in the statuses they take for success (Postmark: 200 and 202; the others:
200). A provider is assumed to have accepted a message exactly when it says so with such a
status, or perhaps when it answers 5xx or not at all; a relay when it answers the final dot
with 250, or perhaps when the connection breaks there. `net/smtp` and its `PlainAuth` are
external: no password to a relay that is neither encrypted nor local. Credentials are always
there, since `validateSMTPOutSettings` requires them. `Gateway` meets the same attempts as
`Outcomes`; the classes are those that `Dispatch` derives.

**Reading `Lifecycle`.** `main` follows `runIngressesUntilSignal`; `taken` counts the
signals received by main (the first) and by the watcher (the second). `Accept` and
`Serve` are two steps because `wg.Add` comes after `Accept` returns. The SMTP listener
is taken to be configured; without it the last two stages are empty.

**Abstractions.** Tokens are integers: one token is `Interval` credits and a tick refills
`Count`, so the refill is as fractional as the code's but exact, without float64's
rounding. Time is a counter bounded by `MaxTime`. A 303 redirect answer counts as the
200 it stands for in `Gateway`; `Submission` tells them apart. Bodies and messages are names. The outbound `From` of an
SMTP message is any address (the header's, or MAIL's if there is none).

## 3. Runs

| Run | Module, bounds | Shows |
|---|---|---|
| `idempotency_cache` | 3 keys, 2 answers, capacity 2, TTL 2, time ≤ 4 | separation of claims and live answers, finality of an answer, and eviction of idle answers only |
| `rate_limit_history` | 2 goroutines, 2 clients, map of 1, 2 tokens per 3 ticks, time ≤ 5 | both rate bounds with stale stamps, fractional refill and eviction |
| `gateway` | 3 requests, 2 keys, capacity 1, TTL 1, 2 clients, 1 token per 2 ticks, time ≤ 2; an api endpoint without limiter and a form endpoint with one | ownership of claims, cached and replayed answers, "ok" means delivered, duplicates a lifetime apart, balanced counters, no path round the limiter, the cache's contract |
| `gateway_live` | `Scrape`: 2 requests, 1 key, limiter on, sending or dry-run, one scrape, time ≤ 2 | a page agrees with itself, claims are released, requests end |
| `submission` | 5 fields, 4 addresses of which up to 2 are proxies', ≤ 2 hops, 5 forged headers, slices of configurations and requests | defences hold, visitors are served, nothing said is lost, recipients, the trap, the bucket, refinement of `Gateway` |
| `smtp_session` | TLS demanded or not, 3 auth modes, allowlist or none, cap 0 or 1; 1 account, 2 senders, 2 recipients | authorised transactions, envelopes within policy, refinement of `MailSubmission` |
| `dispatch` | Postmark, another HTTP api, relays local or not with TLS required or not; 2 recipients, 2 attempts | honest results, whole copies, `require_tls`, refinement of `Delivery`, sending ends |
| `lifecycle` | 2 requests, 2 sessions, ≤ 2 signals | a clean exit has drained, a shutdown ends |
| `smtp_recipients`, `dispatch_stall`, `lifecycle_cut`, `multipart` | as small as the disagreement needs | counterexamples, section 6 |

**Why the bounds are enough.** Two requests with one key are the race between `Lookup`,
`ClaimInFlight` and `Store`; the third finds what the race left behind. Two keys and a
capacity of one bring eviction, a lifetime of one and two ticks bring expiry before and
after every step of another request. In the limiter two goroutines are enough for a
stamp to be overtaken, and a map of one client with two clients for eviction and return;
2 tokens in 3 ticks make each tick's refill a fraction of a token. Caps 0 and 1 with
`DefaultMaxRecipients` = 2 and `MaxListed` = 3 reach both caps and pass both by one. Two recipients
are enough for a copy that reaches some of them only. Two sessions are one that is counted
and one that is held by the accept loop. One scrape can begin before any step, and a second
would only see what another first one sees. `MCSubmission` takes a full form endpoint and a full api
endpoint and varies the settings that interact, each mode with the other's settings
included, against a visitor's and a caller's request varied in what one group of checks reads: lists of up to two
values, a token's age from the future to past the lifetime, a size at the cap and past it, and every Accept,
Origin and Referer. Two hops reach a trusted proxy before an untrusted one and the reverse, and the proofs cover
the paths that are longer and the combinations left out. Requests,
clients and keys are interchangeable where `SYMMETRY` is given, and no run with symmetry
checks liveness. Time bounds only the length of a run; each is above the longest
lifetime or refill that matters. Deadlock is not checked where the system really may
stop: all requests served, the connection closed, the process gone.

Each property of a passing run has a mutant, a plausible bug in one of the mapped
definitions, under which TLC finds it violated (`mutants` in `PROJECT.json`; the
definitions are next to the originals, under "Mutant of").

## 4. Fairness

`Gateway!FairSpec`: weak fairness of `Serve(r)` for each request. A started goroutine is
run by the Go scheduler, locks are held for bounded work, the backoff is a timer, and the
calls to HTTP providers end (http.Client's and the context's timeout); over SMTP a call ends
under the assumption on the relay that `Dispatch!FairSpec` makes. No client must come:
`Enter` is not fair. `Scrape!FairScrapeSpec` adds weak fairness of `EmitFamily`, the scrape's goroutine.

`Dispatch!FairSpec`: weak fairness of `Local` (the program's own steps, http.Client's timeout,
the dial's deadline, the retry timer), of the context's timer, and of `Relay`: a relay that was
reached answers or the connection breaks. Nothing in the code enforces the last, and
`dispatch_stall` checks `LocalSpec`, without it.

`Lifecycle!FairSpec`: weak fairness of the main goroutine, of the watcher, of the 15 s
timer and of the goroutine in `wg.Wait`. None of a client, an HTTP handler or a session.

The other specifications are checked for safety only.

## 5. Proofs

The proof modules are checked with TLAPS; the theorems hold for all values of the
constants that satisfy the modules' assumptions (`CacheAssumption`, `LimiterAssumption`,
`GatewayAssumption`, `SessionAssumption`, `DispatchAssumption`, `LifecycleAssumption`,
`ConfigurationAssumption`, `AddressAssumption`, `SubmissionAssumption`: positive
capacities and rates, model values outside the sets they stand apart from, at least one
recipient, finitely many sessions).
TLC evaluates each of those assumptions on its runs.

- **`LRUProofs`**: what `Without`, `Touch`, `Insert` and `Keep` do to a list without
  duplicates, to the set of its keys and to their order (`After(s, k)`: what was used after
  `k`; `UseOrder`, `EvictLemma`: what a use adds to it, and that the key evicted has a full list
  after it). The map modules cite these lemmas.
- **`IdempotencyCacheProofs`**: `TypeCorrect`; `Separation` (no key in flight has a live
  answer), inductive with the types because `Store` ends the claim in the step in which it
  starts the entry; `LiveAnswersAreFinal`, which follows, since `Store` requires a claim;
  `IdleAnswersEvicted`, by `SinceInv`: the keys after `k` in the eviction order are among those
  used since `k` was, so an evicted key has seen as many as the cache holds.
- **`RateLimitProofs`**: `TypeCorrect`; `NoTokensMinted` and `DenialsAreEarned`, the two bounds
  of a bucket. The invariant `HistInv` says that each suffix of a bucket's admissions, with
  the tokens left, is at most a full bucket and the refill up to `last` (`Paid`), and that of one
  suffix it is at least that, or the bucket is full (`Spent`). `RefillStaysPaid` needs that
  `last` never goes back; `Spent` survives a refill because what overflows leaves the bucket full.
- **`GatewayProofs`**, in layers, each invariant assuming those before it:
  - `Ownership`. `ControlInv` adds to `ClaimOwnership` that a request has
    a key where it looks one up, and none before it has read it. The steps are of four
    kinds: inside a region, into the claim, out of it, reading the key. `CacheContract`: the
    endpoint implements `IdempotencyCache!Spec`, since the owner of a key is the only one to
    call `Store` or `Abandon`; what is proved of the cache thus holds in the endpoint
    (`CacheKeepsItsWord`). `LimiterContract`: the same of `RateLimit!Spec`.
  - `TypeCorrect`, jointly with the cache's and the limiter's types (a replay copies its answer
    from the cache) and a bound on deliveries by stage (`GatewayInv`).
  - `OnlyFinalAnswersCached`, `ReplaysAreOriginals`, `OkIsTrue`. None is inductive alone: `AnswersInv`
    adds `OwnAnswers`, that a request bears its own answer until it is finished and that behind a
    successful `Send` its message was accepted; a replay then inherits the claim through the cache.
  - `CountersBalance`. `BalanceInv` counts the requests between `Received` and their last counter, and
    those between the two calls of `Recorder.Sent`. Both sets stay finite because one request at a time enters
    them, so `Requests` may be infinite. `PagesAgree` rests on it: `PageInv` says which families a page
    under construction has, and that a part is read before its whole, which can only have grown since.
  - `RationIsKept`. `RationInv` counts, for each client, the requests that have spent a token against what its
    bucket gave out, which `GivenTo` reads off the bucket: a full bucket and the refill up to `last`, less the tokens left. Where more clients than the map
    holds are in use, eviction hands out new buckets and nothing is claimed; that is in the property
    (`AtMost(UsedClients, MaxIPs)`).
  - `OneOriginal`. `LifeInv`: with room for the keys in use, an answer that was kept and is not
    yet a lifetime old is still the cache's answer for its key. It needs `Separation`, and that a key in use
    never goes out of use (`RoomBefore`).
  - `StagesInOrder`. Every step a request takes leads to a later stage, so that at most twelve end it. This is the
    half of `RequestsEnd` that does not speak of fairness: no retry and no error path loops.
- **`SubmissionProofs`**: all the invariants of `Submission`, for every set of configurations,
  requests, proxies and headers, in one inductive invariant `IInv`. `Established` is what each stage has
  checked by then, which is what makes `Defended`, `Chosen` and `Kept` hold of a message when
  it is prepared; `LastOutsider` says where in `X-Forwarded-For` the last outsider stands, for a path of any
  length (`BucketOfTheVisitor`). `VisitorServed` goes through the ways to be refused one by one: a sincere visitor's
  parsed form is what was filled in (`SincereForm`), so none of them applies. `Implements`: `Submission` implements
  `Gateway` with one request and no key (`ServesAsGateway`). `HandlerStage` names the stage of a submission; each action
  maps to the Gateway action of its exit (`BodyOfHandler`, `RenderOfHandler`, `SendOfHandler`), loading and travelling
  to none; `CountOfHandler` and `EntryOfHandler` carry the counters and the bucket.
- **`SmtpSessionProofs`**: `TypeCorrect`, `Authorized`, `WithinPolicy`, `Implements`.
  `TransactionIsAuthorized` is inductive only with the facts that credentials are asked for
  only where AUTH is allowed, and that an identity of a kind the mode does not offer
  never appears. `Implements` maps each step to a step of `MailSubmission` or to none.
- **`DispatchProofs`**: `TypeCorrect`, `Honest`, `WholeCopies`, `Encrypted`, `Implements`, `SendGoesForward`. An
  attempt accepts nothing before its final dot or answer (`IInv`), so the copies number at most
  the attempts; the envelope is complete where DATA may be sent; behind the upgrade TLS is on. `SendGoesForward` is
  the half of `SendEnds` without fairness: a later command, one more recipient or the second attempt.
- **`LifecycleProofs`**: `TypeCorrect`, `CleanExit`. The invariant says that the accept loop holds
  at most one connection, that after the wait only that one can still be counted, and that
  an HTTP drain that did not fail left no request.

Every invariant, action property and refinement that a passing run checks is stated by a
theorem; TLC finds the slips of a formula on a small instance, the theorem covers the rest. Cardinalities
are compared with `AtMost` (a finite set of at most so many elements) where a set may be infinite.

**Only model-checked**: the four liveness properties, `ClaimsAreReleased`, `RequestsEnd`, `SendEnds` and
`ShutdownEnds`: fairness, as ENABLED, is out of TLAPS' reach. The counterexamples of section 6 are TLC's.

## 6. Where code and documents disagree

Four disagreements are runs that TLC answers with a counterexample; `findings` in
`PROJECT.json` quotes the sentence.

1. `smtp_recipients`: `max_recipients_per_session` is a cap per transaction.
2. `dispatch_stall`: the 10 s of a request, and `smtpRequestTimeout`, bound the dial of the
   outbound SMTP transport and nothing after it: a relay that falls silent holds the request.
   `SendEnds` is what holds instead.
3. `lifecycle_cut`: `Stop` may return while a session it accepted goes on (`wg.Add` after
   `wg.Wait` began), and a clean exit cuts its message. `CleanExitDrains` is what holds instead.
4. `multipart`: a `multipart/form-data` form passes the content-type check and is parsed to no fields
   (`ParseForm` does not read such a body, `gateway/handler.go:386`), although `http-api.mdx:65` and FR1 say that both
   kinds of form are handled. With required fields it is answered 422, without any an empty message is sent.

Seen on the way, in the model as the code has it, without a run of their own:

- a 409 does not always mean that the first request is still worked on
  (`response-codes.mdx:186`): it is also given when that request's answer was cached between
  the second one's `Lookup` and `ClaimInFlight` (`gateway/handler.go:303`);
- the binary's SMTP listener has no recorder, so what it sends is in no counter
  (`main.go:187`, against `smtp-ingress.mdx:119`);
- with a stable key a message may still be sent more than once, when the provider's
  answer is lost, within a request (retry) and after its 502 (the key is abandoned);
- `max_recipients_per_session` applies with `allowed_recipients` too (`smtp/config.go:185`);
- the SMTP listener accepts connections while HTTP requests drain (`main.go:236`);
- `Negotiate` redirects when an Accept header has both JSON and HTML, whereas its comment speaks of a
  bias toward JSON and of q-values (`response/response.go:118-123`, `135`);
- a honeypot that is also a required field is accepted, and then every submission is answered by the trap or
  by 422;
- in api mode `csrf_token_ttl` and `trusted_proxies` are accepted and not used (`config/config.go:395`,
  `gateway/handler.go:342`); they defend nothing by themselves;
- in dry-run the honeypot's "ok" differs from the answer of a submission that passed (`gateway/handler.go:413`, `537`);
- a multipart body is not held against `max_body_size`, since nobody reads it;
- `validate` builds the endpoints only: a listener's settings, and an endpoint at `/healthz` or `/metrics`, on
  which `serve` panics, pass it (`cmd/posthorn/main.go:262`, `313`);
- one idle SMTP client turns a shutdown on a single signal into exit code 1 (`smtp/listener.go:152`).

## 7. What is left out

- Transports: their registry, settings and payloads. AWS request signing: a chain of hashes.
- Pure functions on text: URL and address syntax, size parsing (its overflow is a hazard without a property),
  the token's signature, allowlist matching of the SMTP listener. The models have their verdicts.
- The text of messages, answers, log lines and the exposition format; `strip_client_ip`; labels of counters.
- Loading: TOML, environment variables, duplicate paths, the SMTP listener's settings.
- Durations: the 10 s bound of a request and the 1 s and 5 s retry delays are two events that
  may come in either order (`Gateway`, `Dispatch`).
- The bytes of an SMTP DATA command: after a timeout in DATA the session reads on, and
  `SmtpSession` lets any command follow.
- Signals that arrive before `signal.Notify`.

## 8. Plan

Done, in this order: `LRU`, `IdempotencyCache`, `RateLimit`, `Gateway` (the request path is
the product), then `SmtpSession` with `MailSubmission`, `Lifecycle`, and `Dispatch` with
`Delivery`; then `Scrape`, `Configuration`, `ClientAddress` and `Submission`, which decides what `Gateway` leaves open.
Each has its proofs; those of `Scrape` are in `GatewayProofs`.

Next, the proofs: `Lifecycle` as `Dispatch` (main goes forward, and a clean exit has taken one signal and passed
both stops), and the two attempts of `Gateway` as an instance of `Delivery`, so that the endpoint's `delivered` is
bounded by what is proved of a transport.

Then, if the model is to grow: the bytes of DATA after a timeout, and the SMTP listener's configuration.
