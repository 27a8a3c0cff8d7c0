----------------------------- MODULE Submission ------------------------------
(***************************************************************************)
(* One submission through the pipeline of Handler.ServeHTTP, with what it  *)
(* contains: the endpoint's configuration is loaded, a request travels to  *)
(* the endpoint, and every check decides from the configuration and the    *)
(* request.  Gateway has the same pipeline with many requests at a time    *)
(* and leaves these decisions open; ServesAsGateway relates the two.       *)
(*                                                                         *)
(* The idempotency cache, the limiter and the retry are Gateway's: this    *)
(* submission carries no key, has budget, and is sent once.                *)
(*                                                                         *)
(*     load -> travel -> parse -> screen -> render -> send -> sent -> done *)
(***************************************************************************)
EXTENDS ClientAddress

CONSTANTS
  Endpoints,     \* the configurations considered
  Requests,      \* the requests considered
  Absent,        \* a field that a form does not have
  APIKey,        \* a bucket key: the API key that matched
  NoBucket       \* no bucket key has been determined

(* What a field's value is to the checks that read it.  A token is what     *)
(* csrf.Issue returns; its age, negative when the clock of the page's host  *)
(* is ahead, is part of the request.                                        *)
Values == {"blank", "text", "address", "token"}
Form == [Fields -> Seq(Values) \cup {Absent}]

Request ==
  [post : BOOLEAN,
   bearer : {"none", "key", "other"},
   type : {"urlencoded", "multipart", "json", "other"},
   origin : {"none", "listed", "other"},
   referer : {"none", "listed", "other"},
   accept : SUBSET {"json", "html"},
   wellFormed : BOOLEAN,
   size : Nat,
   body : Form,
   query : Form,
   tokenAge : Int]

ASSUME SubmissionAssumption ==
  /\ Endpoints \subseteq Endpoint
  /\ Requests \subseteq Request
  /\ Absent \notin Seq(Values)
  /\ NoBucket \notin Addresses \cup {APIKey}
  /\ Addresses # {} /\ <<>> \in Headers

VARIABLES
  endpoint,    \* the configuration
  request,     \* the request
  stage,
  bucketKey,   \* rateLimitKey
  form,        \* r.Form
  message,     \* the transport.Message prepared
  answer,      \* what was written, see Answer
  metric,      \* the counters of the Recorder
  logged       \* the form in the submission_failed log line

pipelineVars == <<stage, bucketKey, form, message, answer, metric, logged>>
vars == <<endpoint, request, pathVars, pipelineVars>>

NoForm == [f \in Fields |-> Absent]
Present(f) == {name \in Fields : f[name] # Absent}

(* to is <<"operator">> for the configured recipients; replyTo "blank": none. *)
Message == [to : Seq(Values \cup {"operator"}), replyTo : Values,
            shown : SUBSET Fields, extras : SUBSET Fields]
NoMessage == [to |-> <<>>, replyTo |-> "blank", shown |-> {}, extras |-> {}]

(* status is the one the handler means; a redirect shows 303 in its place. *)
Answer == [status : {0, 200, 400, 401, 403, 405, 413, 415, 422, 500, 502},
           body : {"none", "refused", "forbidden", "bad_body", "ok", "invalid",
                   "bad_override", "dry_run", "render_failed", "undelivered"},
           page : {"none", "text", "json", "success_page", "error_page"}]

Metrics == {"received", "sent", "latency", "failed", "spam_blocked", "rate_limited",
            "auth_failed", "validation_failed", "replay"}

TypeOK ==
  /\ endpoint \in Endpoints
  /\ request \in Requests
  /\ PathTypeOK
  /\ stage \in {"load", "refused", "travel", "parse", "screen", "render", "send", "sent", "done"}
  /\ bucketKey \in Addresses \cup {APIKey, NoBucket}
  /\ form \in Form
  /\ message \in Message
  /\ answer \in Answer
  /\ metric \in [Metrics -> Nat]
  /\ logged \in Form

Init ==
  /\ endpoint \in Endpoints
  /\ request \in Requests
  /\ PathInit(endpoint.trustedProxies)
  /\ endpoint.rateLimit = "absent" => xff = <<>>   \* nothing reads the address
  /\ stage = "load"
  /\ bucketKey = NoBucket
  /\ form = NoForm
  /\ message = NoMessage
  /\ answer = [status |-> 0, body |-> "none", page |-> "none"]
  /\ metric = [m \in Metrics |-> 0]
  /\ logged = NoForm
-----------------------------------------------------------------------------
At(s) == stage = s
Goto(s) == stage' = s
CountOne(m) == metric' = [metric EXCEPT ![m] = @ + 1]

(* Negotiate: JSON only for a client that asks for it and not for HTML. *)
PrefersRedirect == ~("json" \in request.accept /\ "html" \notin request.accept)

Write(status, body, page) ==
  /\ answer' = [status |-> status, body |-> body, page |-> page]
  /\ Goto("done")

WriteText(status, body) == Write(status, body, "text")

(* writeErrorResponse and writeValidationErrorResponse; writeSuccessResponse. *)
WriteError(status, body, page) ==
  Write(status, body, IF endpoint.redirectError /\ PrefersRedirect THEN "error_page" ELSE page)

WriteSuccess ==
  Write(200, "ok", IF endpoint.redirectSuccess /\ PrefersRedirect THEN "success_page" ELSE "json")

(* What most steps leave alone. *)
Keep == UNCHANGED <<endpoint, request, pathVars, bucketKey, logged>>
-----------------------------------------------------------------------------
(* runServe: the endpoint is loaded, built and registered, or Posthorn ends. *)
Load ==
  /\ At("load")
  /\ Goto(IF Starts(endpoint) THEN "travel" ELSE "refused")
  /\ Keep /\ UNCHANGED <<form, message, answer, metric>>

(* The way to the endpoint matters to a form endpoint with a limiter. *)
Travel(p) ==
  /\ At("travel")
  /\ endpoint.rateLimit = "valid" /\ ~ApiMode(endpoint)
  /\ Forward(p, endpoint.trustedProxies)
  /\ UNCHANGED <<endpoint, request, pipelineVars>>
-----------------------------------------------------------------------------
(* CheckOrigin: Origin if it is listed, else Referer. *)
OriginAllowed ==
  endpoint.allowedOrigins = "absent" \/ "listed" \in {request.origin, request.referer}

FormType == request.type \in {"urlencoded", "multipart"}

RefuseEntry ==
  /\ At("travel")
  /\ \/ ~request.post /\ WriteText(405, "refused") /\ UNCHANGED metric
     \/ /\ request.post /\ ApiMode(endpoint) /\ request.bearer # "key"
        /\ WriteText(401, "refused") /\ CountOne("auth_failed")
     \/ /\ request.post /\ ~ApiMode(endpoint) /\ ~FormType
        /\ WriteText(400, "refused") /\ UNCHANGED metric
     \/ /\ request.post /\ ~ApiMode(endpoint) /\ FormType /\ ~OriginAllowed
        /\ WriteError(403, "forbidden", "text") /\ CountOne("spam_blocked")
  /\ Keep /\ UNCHANGED <<form, message>>

Enter ==
  /\ At("travel")
  /\ request.post
  /\ \/ ApiMode(endpoint) /\ request.bearer = "key" /\ bucketKey' = APIKey
     \/ /\ ~ApiMode(endpoint) /\ FormType /\ OriginAllowed
        /\ bucketKey' = ClientIP(remote, xff, endpoint.trustedProxies)
  /\ Goto("parse")
  /\ UNCHANGED <<endpoint, request, pathVars, form, message, answer, metric, logged>>
-----------------------------------------------------------------------------
Entries(f, name) == IF f[name] = Absent THEN <<>> ELSE f[name]

(* url.Values.Get: the first value, or the empty string. *)
Get(f, name) == IF Entries(f, name) = <<>> THEN "blank" ELSE f[name][1]

HasText(values) == \E i \in DOMAIN values : values[i] # "blank"

Merged(b, q) ==
  [name \in Fields |-> IF name \in Present(b) \cup Present(q)
                       THEN Entries(b, name) \o Entries(q, name) ELSE Absent]

(* ParseForm does not read a multipart body: ParseMultipartForm would.  The *)
(* object of a JSON body is taken without the query.                        *)
Parsed ==
  CASE request.type = "json" -> request.body
    [] request.type = "urlencoded" -> Merged(request.body, request.query)
    [] OTHER -> request.query

BodyIsRead == request.type # "multipart"
TooLarge == BodyIsRead /\ endpoint.maxBody > 0 /\ request.size > endpoint.maxBody
Malformed == BodyIsRead /\ ~request.wellFormed

RejectBody ==
  /\ At("parse")
  /\ LET wrongType == ApiMode(endpoint) /\ request.type # "json"
     IN  \/ wrongType /\ WriteText(415, "bad_body")
         \/ ~wrongType /\ TooLarge /\ WriteError(413, "bad_body", "text")
         \/ /\ ~wrongType /\ Malformed /\ (TooLarge => ApiMode(endpoint))
            /\ WriteText(400, "bad_body")
  /\ Keep /\ UNCHANGED <<form, message, metric>>

ParseBody ==
  /\ At("parse")
  /\ ApiMode(endpoint) => request.type = "json"
  /\ ~TooLarge /\ ~Malformed
  /\ form' = Parsed
  /\ Goto("screen")
  /\ Keep /\ UNCHANGED <<message, answer, metric>>
-----------------------------------------------------------------------------
(* CheckHoneypot: any of the field's values. *)
Trapped ==
  /\ ~ApiMode(endpoint) /\ endpoint.honeypot # NoField
  /\ HasText(Entries(form, endpoint.honeypot))

(* Mutant of TokenFails: a token is refused at the very end of its life. *)
TokenFailsEarly ==
  /\ ~ApiMode(endpoint) /\ endpoint.csrfSecret # "absent"
  /\ Get(form, TokenField) # "token" \/ request.tokenAge >= TokenTTL(endpoint)

(* csrf.Verify: unsigned, or older than the lifetime; one of the future is not. *)
TokenFails ==
  /\ ~ApiMode(endpoint) /\ endpoint.csrfSecret # "absent"
  /\ Get(form, TokenField) # "token" \/ request.tokenAge > TokenTTL(endpoint)

(* RequiredFields, and the syntax of the first value of the email field. *)
IsInvalid ==
  \/ \E f \in endpoint.required : ~HasText(Entries(form, f))
  \/ Get(form, EmailField(endpoint)) \notin {"blank", "address"}

(* Mutant of CatchHoneypot: the answer of a script, whoever asks. *)
CatchHoneypotAsJSON ==
  /\ At("screen") /\ Trapped
  /\ Write(200, "ok", "json") /\ CountOne("spam_blocked")
  /\ Keep /\ UNCHANGED <<form, message>>

CatchHoneypot ==
  /\ At("screen") /\ Trapped
  /\ WriteSuccess /\ CountOne("spam_blocked")
  /\ Keep /\ UNCHANGED <<form, message>>

RejectToken ==
  /\ At("screen") /\ ~Trapped /\ TokenFails
  /\ WriteError(403, "forbidden", "text")
  /\ Keep /\ UNCHANGED <<form, message, metric>>

(* Mutant of Invalid: Submitted is called before the validation. *)
InvalidIsReceived ==
  /\ At("screen") /\ ~Trapped /\ ~TokenFails /\ IsInvalid
  /\ WriteError(422, "invalid", "json")
  /\ metric' = [metric EXCEPT !["received"] = @ + 1, !["validation_failed"] = @ + 1]
  /\ Keep /\ UNCHANGED <<form, message>>

Invalid ==
  /\ At("screen") /\ ~Trapped /\ ~TokenFails /\ IsInvalid
  /\ WriteError(422, "invalid", "json") /\ CountOne("validation_failed")
  /\ Keep /\ UNCHANGED <<form, message>>

Receive ==
  /\ At("screen") /\ ~Trapped /\ ~TokenFails /\ ~IsInvalid
  /\ Goto("render") /\ CountOne("received")
  /\ Keep /\ UNCHANGED <<form, message, answer>>
-----------------------------------------------------------------------------
Overridden == ApiMode(endpoint) /\ OverrideField \in Present(form)
Override == Entries(form, OverrideField)
AllAddresses(values) == \A i \in DOMAIN values : values[i] = "address"

(* Mutant of OverrideFails: one valid address is enough. *)
OverrideFailsWhole ==
  Overridden /\ \A i \in DOMAIN Override : Override[i] # "address"

OverrideFails == Overridden /\ (Override = <<>> \/ ~AllAddresses(Override))

(* A template that fails on the data: its error is logged, not the form. *)
RenderFails ==
  /\ At("render")
  /\ WriteText(500, "render_failed")
  /\ Keep /\ UNCHANGED <<form, message, metric>>

BadOverride ==
  /\ At("render") /\ OverrideFails
  /\ Write(422, "bad_override", "json")
  /\ Keep /\ UNCHANGED <<form, message, metric>>

(* extraFields drops what is named and what joins to nothing but space. *)
Extras == {f \in Present(form) \ NamedFields(endpoint) : Len(form[f]) > 1 \/ Get(form, f) # "blank"}

Prepared ==
  [to |-> IF Overridden THEN Override ELSE <<"operator">>,
   replyTo |-> LET v == Get(form, ReplyToField(endpoint))
               IN  IF v = "address" THEN v ELSE "blank",
   shown |-> {f \in endpoint.mentions : Entries(form, f) # <<>>},
   extras |-> Extras]

Prepare ==
  /\ At("render") /\ ~OverrideFails
  /\ message' = Prepared
  /\ \/ endpoint.dryRun /\ Write(200, "dry_run", "json")
     \/ ~endpoint.dryRun /\ Goto("send") /\ UNCHANGED answer
  /\ Keep /\ UNCHANGED <<form, metric>>
-----------------------------------------------------------------------------
(* redactedForm hides the honeypot; without a field name it hides nothing. *)
Redacted == [f \in Fields |-> IF f = endpoint.honeypot THEN Absent ELSE form[f]]

SendFails ==
  /\ At("send")
  /\ WriteText(502, "undelivered") /\ CountOne("failed")
  /\ logged' = IF endpoint.logFailedSubmissions THEN Redacted ELSE NoForm
  /\ UNCHANGED <<endpoint, request, pathVars, bucketKey, form, message>>

Send ==
  /\ At("send")
  /\ Goto("sent") /\ CountOne("sent")
  /\ Keep /\ UNCHANGED <<form, message, answer>>

Observe ==
  /\ At("sent")
  /\ CountOne("latency")
  /\ WriteSuccess
  /\ Keep /\ UNCHANGED <<form, message>>

Next ==
  \/ Load \/ (\E p \in Addresses : Travel(p)) \/ RefuseEntry \/ Enter
  \/ RejectBody \/ ParseBody
  \/ CatchHoneypot \/ RejectToken \/ Invalid \/ Receive
  \/ RenderFails \/ BadOverride \/ Prepare
  \/ SendFails \/ Send \/ Observe

Spec == Init /\ [][Next]_vars
-----------------------------------------------------------------------------
TokenIsLive(e, q) == q.tokenAge <= IF e.csrfTokenTTL = 0 THEN DefaultTTL ELSE e.csrfTokenTTL

(* What is sent has passed every defence the operator wrote down, in either  *)
(* mode: none is accepted by the configuration and then ignored (ADR-10),    *)
(* and none is passed by a field given twice, in the query, or too late.  A  *)
(* multipart body is not read, so its size is not held against the cap.      *)
DefencesHold ==
  message # NoMessage =>
    LET e == endpoint
        q == request
    IN  /\ e.honeypot # NoField => ~HasText(Entries(form, e.honeypot))
        /\ e.allowedOrigins # "absent" => "listed" \in {q.origin, q.referer}
        /\ e.csrfSecret # "absent" => Get(form, TokenField) = "token" /\ TokenIsLive(e, q)
        /\ e.apiKeys # "none" => q.bearer = "key"
        /\ e.maxBody > 0 /\ q.type # "multipart" => q.size <= e.maxBody
        /\ \A f \in e.required : HasText(Entries(form, f))

(* The submission of a visitor who used the form as it was served: from the  *)
(* operator's page, within the token's lifetime and the size cap, with the   *)
(* trap left alone and the required fields filled in.                        *)
Sincere(e, q) ==
  /\ q.post /\ q.type = "urlencoded" /\ q.wellFormed
  /\ e.allowedOrigins = "listed" =>
       q.origin = "listed" \/ (q.origin = "none" /\ q.referer = "listed")
  /\ e.maxBody = 0 \/ q.size <= e.maxBody
  /\ e.honeypot # NoField =>
       Get(q.body, e.honeypot) = "blank" /\ Len(Entries(q.body, e.honeypot)) <= 1
  /\ e.csrfSecret # "absent" =>
       Entries(q.body, TokenField) = <<"token">> /\ TokenIsLive(e, q)
  /\ \A f \in e.required : HasText(Entries(q.body, f))
  /\ Get(q.body, EmailField(e)) = "address"
  /\ q.query = NoForm

(* A visitor is never turned away by a defence: the endpoint delivers, or    *)
(* says that it could not; "ok" is not the answer of the trap.               *)
VisitorIsServed ==
  At("done") /\ ~ApiMode(endpoint) /\ Sincere(endpoint, request) =>
    /\ answer.body \in {"ok", "dry_run", "undelivered", "render_failed"}
    /\ answer.body = "ok" => message # NoMessage /\ metric["sent"] = 1

(* Everything a submission said is in the mail: shown by a template, listed  *)
(* under "Additional fields:", or left out because the configuration names   *)
(* it; never the token or the override, which are no content.  When it could *)
(* not be delivered it is in the log, the trap's value only being hidden     *)
(* (FR13, FR16).                                                             *)
SubmissionIsKept ==
  LET structure == {TokenField : x \in {endpoint.csrfSecret} \ {"absent"}}
                     \cup {OverrideField : x \in {endpoint.auth} \cap {"api-key"}}
      named == endpoint.required \cup {EmailField(endpoint), endpoint.honeypot} \cup structure
      said == {f \in Fields : HasText(Entries(form, f))}
  IN  /\ message # NoMessage =>
           /\ said \subseteq message.shown \cup message.extras \cup named
           /\ message.extras \cap structure = {}
      /\ answer.body = "undelivered" /\ endpoint.logFailedSubmissions =>
           \A f \in said : logged[f] = form[f]

(* The recipients are the operator's or, to an api caller that names some,   *)
(* all of those and nobody else: none is dropped for being malformed, and a  *)
(* form cannot name any (FR46, ADR-11).                                      *)
RecipientsAreChosen ==
  message # NoMessage =>
    \/ message.to = <<"operator">> /\ (ApiMode(endpoint) => OverrideField \notin Present(form))
    \/ /\ ApiMode(endpoint) /\ message.to = request.body[OverrideField]
       /\ message.to # <<>> /\ \A i \in DOMAIN message.to : message.to[i] = "address"

(* A bot that fell into the trap sees what a delivered submission shows to   *)
(* the same client: the answer says "ok" in the form its Accept asks for,    *)
(* the success page included (NFR5).                                         *)
TrapIsInvisible ==
  answer.body = "ok" =>
    /\ answer.status = 200
    /\ answer.page = IF endpoint.redirectSuccess /\ (request.accept = {} \/ "html" \in request.accept)
                     THEN "success_page" ELSE "json"

(* However many proxies are on the way and whatever the header said before   *)
(* them, the bucket of a form submission is that of the last address that is *)
(* not the operator's: a visitor cannot choose it, and two visitors behind   *)
(* one trusted proxy do not share it (FR9).                                  *)
BucketIsTheVisitors ==
  bucketKey # NoBucket => bucketKey = IF ApiMode(endpoint) THEN APIKey ELSE outsider

(* http-api.mdx: "Both forms are handled by r.ParseForm() and produce the    *)
(* same internal representation."                                            *)
BothFormsAreParsed ==
  At("screen") /\ ~ApiMode(endpoint) /\ request.wellFormed =>
    form = Merged(request.body, request.query)
-----------------------------------------------------------------------------
(* The pipeline as Gateway has it, for one request with no key.              *)
HandlerStage(s) ==
  CASE s \in {"load", "refused", "travel"} -> "new"
    [] s \in {"parse", "screen"} -> "parse"
    [] s = "sent" -> "observe"
    [] OTHER -> s

Handler == INSTANCE Gateway WITH
  Requests <- {"r"}, Keys <- {}, NoKey <- "no key", Clients <- {"c"},
  Settings <- [api : BOOLEAN, dryRun : BOOLEAN, limited : {FALSE}],
  Capacity <- 1, TTL <- 1, Count <- 1, Interval <- 1, MaxIPs <- 1, NoStamp <- -1, MaxTime <- 0,
  cfg <- [api |-> ApiMode(endpoint), dryRun |-> endpoint.dryRun, limited |-> FALSE],
  pc <- [r \in {"r"} |-> HandlerStage(stage)],
  key <- [r \in {"r"} |-> "no key"], client <- [r \in {"r"} |-> "c"],
  answer <- [r \in {"r"} |-> [status |-> answer.status, body |-> answer.body, by |-> "r"]],
  delivered <- [r \in {"r"} |-> metric["sent"]], storedAt <- [r \in {"r"} |-> 0],
  recency <- <<>>, entry <- [k \in {} |-> 0], inflight <- {},
  recent <- <<>>, bucket <- [c \in {} |-> 0], stamp <- [r \in {"r"} |-> -1], now <- 0

(* Deciding each check from the data only narrows what Gateway leaves open:  *)
(* every answer, counter and order of checks here is one of Gateway's.       *)
ServesAsGateway == Handler!Spec
=============================================================================
