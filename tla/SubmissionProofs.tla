-------------------------- MODULE SubmissionProofs ---------------------------
(***************************************************************************)
(* What one submission is guaranteed for every set of configurations,      *)
(* requests, proxies and headers.  The inductive invariant adds to the     *)
(* properties what each stage of the pipeline has already established, and *)
(* where on the path the last address outside the trusted networks is.     *)
(* The last part is the refinement: one action of Gateway for each stage.  *)
(***************************************************************************)
EXTENDS Submission, TLAPS

trusted == endpoint.trustedProxies

(* The last outsider is the peer itself, or the rightmost entry outside the  *)
(* trusted networks, all later entries being trusted proxies or blank.       *)
LastOutsider ==
  /\ outsider \in Addresses \ trusted
  /\ remote \notin trusted => remote = outsider
  /\ remote \in trusted =>
       \E i \in Outside(xff, trusted) :
         xff[i] = outsider /\ \A j \in Outside(xff, trusted) : j <= i

(* Until Enter there is no bucket key, until Prepare no message. *)
NotYet ==
  /\ stage \in {"load", "refused", "travel"} => bucketKey = NoBucket
  /\ stage \in {"load", "refused", "travel", "parse", "screen", "render"} => message = NoMessage

Entered == {"parse", "screen", "render", "send", "sent"}
Read == {"screen", "render", "send", "sent"}
Screened == {"render", "send", "sent"}

(* What the stages passed have established. *)
Established ==
  /\ stage \in {"travel"} \cup Entered => Starts(endpoint)
  /\ stage \in Entered =>
       IF ApiMode(endpoint) THEN request.bearer = "key" ELSE OriginAllowed
  /\ stage \in Read =>
       form = Parsed /\ ~TooLarge /\ (ApiMode(endpoint) => request.type = "json")
  /\ stage \in Screened => ~Trapped /\ ~TokenFails /\ ~IsInvalid

(* Until the end there is no answer, and sent counts the one delivery. *)
Underway ==
  /\ stage # "done" => answer.body = "none"
  /\ stage \in {"send", "sent"} => message # NoMessage
  /\ stage = "sent" => metric["sent"] = 1
  /\ stage \notin {"sent", "done"} => metric["sent"] = 0

IInv ==
  /\ TypeOK
  /\ LastOutsider
  /\ NotYet
  /\ Established
  /\ Underway
  /\ BucketIsTheVisitors
  /\ DefencesHold
  /\ RecipientsAreChosen
  /\ TrapIsInvisible
  /\ VisitorIsServed
  /\ SubmissionIsKept
-----------------------------------------------------------------------------
(* Lemmas about the helpers. *)

(* The rightmost entry outside is what ClientIP takes. *)
LEMMA ClientIsOutsider ==
  ASSUME TypeOK, LastOutsider
  PROVE  ClientIP(remote, xff, trusted) = outsider
<1>1. CASE remote \notin trusted
  BY <1>1 DEF LastOutsider, ClientIP
<1>2. CASE remote \in trusted
  <2>1. PICK i \in Outside(xff, trusted) :
          xff[i] = outsider /\ \A j \in Outside(xff, trusted) : j <= i
    BY <1>2 DEF LastOutsider
  <2>2. Outside(xff, trusted) \subseteq 1..Len(xff) /\ xff \in Seq(Addresses \cup {Blank})
    BY DEF Outside, TypeOK, PathTypeOK
  <2>3. xff # <<>>
    BY <2>1, <2>2
  <2>4. Max(Outside(xff, trusted)) = i
    BY <2>1, <2>2 DEF Max
  <2>. QED
    BY <1>2, <2>1, <2>3, <2>4 DEF ClientIP
<1>. QED
  BY <1>1, <1>2

(* A field's values, the merged form and the parsed form keep their types. *)
LEMMA EntriesType ==
  ASSUME NEW f \in Form, NEW name \in Fields
  PROVE  Entries(f, name) \in Seq(Values) /\ Get(f, name) \in Values
<1>1. f[name] \in Seq(Values) \cup {Absent}
  BY DEF Form
<1>2. Entries(f, name) \in Seq(Values)
  BY <1>1 DEF Entries
<1>3. CASE Entries(f, name) = <<>>
  BY <1>2, <1>3 DEF Get, Values
<1>4. CASE Entries(f, name) # <<>>
  <2>1. Entries(f, name) = f[name]
    BY <1>4 DEF Entries
  <2>2. f[name] \in Seq(Values) /\ f[name] # <<>>
    BY <1>2, <1>4, <2>1
  <2>3. f[name][1] \in Values
    BY <2>2
  <2>. QED
    BY <1>2, <1>4, <2>3 DEF Get
<1>. QED
  BY <1>3, <1>4

LEMMA ParsedType ==
  ASSUME request \in Request
  PROVE  Parsed \in Form
<1>1. request.body \in Form /\ request.query \in Form
  BY DEF Request
<1>2. Merged(request.body, request.query) \in Form
  <2>1. ASSUME NEW name \in Fields
        PROVE  Entries(request.body, name) \o Entries(request.query, name) \in Seq(Values)
    BY <1>1, EntriesType
  <2>. QED
    BY <2>1 DEF Merged, Form
<1>. QED
  BY <1>1, <1>2 DEF Parsed

LEMMA OverrideType ==
  ASSUME TypeOK
  PROVE  Override \in Seq(Values)
BY ConfigurationAssumption, EntriesType DEF Override, TypeOK

LEMMA PreparedType ==
  ASSUME TypeOK
  PROVE  Prepared \in Message
<1>1. Override \in Seq(Values \cup {"operator"}) /\ <<"operator">> \in Seq(Values \cup {"operator"})
  BY OverrideType
<1>2. (LET v == Get(form, ReplyToField(endpoint)) IN IF v = "address" THEN v ELSE "blank") \in Values
  BY DEF Values
<1>3. endpoint \in Endpoint
  BY SubmissionAssumption DEF TypeOK
<1>4. {f \in endpoint.mentions : Entries(form, f) # <<>>} \subseteq Fields
  BY <1>3 DEF Endpoint
<1>5. Extras \subseteq Fields
  BY DEF Extras, Present
<1>. QED
  BY <1>1, <1>2, <1>4, <1>5 DEF Prepared, Message

(* A counter more is still a family of counters. *)
LEMMA CountType ==
  ASSUME metric \in [Metrics -> Nat], NEW m \in Metrics, CountOne(m)
  PROVE  metric' \in [Metrics -> Nat]
BY DEF CountOne

(* Everything that a step writes is an answer. *)
LEMMA WriteType ==
  ASSUME NEW status \in {200, 400, 401, 403, 405, 413, 415, 422, 500, 502},
         NEW body \in {"refused", "forbidden", "bad_body", "ok", "invalid",
                       "bad_override", "dry_run", "render_failed", "undelivered"},
         NEW page \in {"text", "json", "success_page", "error_page"},
         Write(status, body, page)
  PROVE  answer' \in Answer /\ stage' = "done"
BY DEF Write, Answer, Goto

(* What the actions that answer have in common. *)
Answering ==
  RefuseEntry \/ RejectBody \/ CatchHoneypot \/ RejectToken \/ Invalid
    \/ RenderFails \/ BadOverride \/ SendFails \/ Observe

Answers ==
  /\ answer' \in Answer /\ stage' = "done"
  /\ UNCHANGED <<endpoint, request, pathVars, bucketKey, form, message>>
  /\ metric \in [Metrics -> Nat] => metric' \in [Metrics -> Nat]
  /\ logged' = logged \/ logged' = NoForm \/ logged' = Redacted

LEMMA AnsweringAnswers ==
  ASSUME Answering
  PROVE  Answers
<1>1. ASSUME NEW m \in Metrics, CountOne(m)
      PROVE  metric \in [Metrics -> Nat] => metric' \in [Metrics -> Nat]
  BY <1>1, CountType
<1>2. {"auth_failed", "spam_blocked", "validation_failed", "failed", "latency"} \subseteq Metrics
  BY DEF Metrics
<1>3. CASE RefuseEntry
  <2>1. answer' \in Answer /\ stage' = "done"
    BY <1>3, WriteType DEF RefuseEntry, WriteText, WriteError
  <2>2. metric \in [Metrics -> Nat] => metric' \in [Metrics -> Nat]
    BY <1>1, <1>2, <1>3 DEF RefuseEntry
  <2>. QED
    BY <1>3, <2>1, <2>2 DEF RefuseEntry, Keep, Answers
<1>4. CASE RejectBody
  <2>1. answer' \in Answer /\ stage' = "done"
    BY <1>4, WriteType DEF RejectBody, WriteText, WriteError
  <2>. QED
    BY <1>4, <2>1 DEF RejectBody, Keep, Answers
<1>5. CASE CatchHoneypot
  <2>1. answer' \in Answer /\ stage' = "done"
    BY <1>5, WriteType DEF CatchHoneypot, WriteSuccess
  <2>. QED
    BY <1>1, <1>2, <1>5, <2>1 DEF CatchHoneypot, Keep, Answers
<1>6. CASE RejectToken
  <2>1. answer' \in Answer /\ stage' = "done"
    BY <1>6, WriteType DEF RejectToken, WriteError
  <2>. QED
    BY <1>6, <2>1 DEF RejectToken, Keep, Answers
<1>7. CASE Invalid
  <2>1. answer' \in Answer /\ stage' = "done"
    BY <1>7, WriteType DEF Invalid, WriteError
  <2>. QED
    BY <1>1, <1>2, <1>7, <2>1 DEF Invalid, Keep, Answers
<1>8. CASE RenderFails
  <2>1. answer' \in Answer /\ stage' = "done"
    BY <1>8, WriteType DEF RenderFails, WriteText
  <2>. QED
    BY <1>8, <2>1 DEF RenderFails, Keep, Answers
<1>9. CASE BadOverride
  <2>1. answer' \in Answer /\ stage' = "done"
    BY <1>9, WriteType DEF BadOverride
  <2>. QED
    BY <1>9, <2>1 DEF BadOverride, Keep, Answers
<1>10. CASE SendFails
  <2>1. answer' \in Answer /\ stage' = "done"
    BY <1>10, WriteType DEF SendFails, WriteText
  <2>. QED
    BY <1>1, <1>2, <1>10, <2>1 DEF SendFails, Answers
<1>11. CASE Observe
  <2>1. answer' \in Answer /\ stage' = "done"
    BY <1>11, WriteType DEF Observe, WriteSuccess
  <2>. QED
    BY <1>1, <1>2, <1>11, <2>1 DEF Observe, Keep, Answers
<1>. QED
  BY <1>3, <1>4, <1>5, <1>6, <1>7, <1>8, <1>9, <1>10, <1>11 DEF Answering
-----------------------------------------------------------------------------
(* The types. *)

LEMMA NoFormType == NoForm \in Form
BY DEF NoForm, Form

LEMMA InitType ==
  ASSUME Init
  PROVE  TypeOK
<1>1. PathTypeOK
  BY AddressAssumption DEF Init, PathInit, PathTypeOK
<1>2. message \in Message
  BY DEF Init, NoMessage, Message, Values
<1>3. answer \in Answer
  BY DEF Init, Answer
<1>4. metric \in [Metrics -> Nat]
  BY DEF Init
<1>. QED
  BY <1>1, <1>2, <1>3, <1>4, NoFormType DEF Init, TypeOK

LEMMA TypeStep ==
  ASSUME TypeOK, LastOutsider, [Next]_vars
  PROVE  TypeOK'
<1>. USE DEF TypeOK
<1>1. CASE Load
  BY <1>1 DEF Load, Keep, Goto, pathVars, PathTypeOK
<1>2. ASSUME NEW p \in Addresses, Travel(p)
      PROVE  TypeOK'
  <2>1. xff' \in Seq(Addresses \cup {Blank}) /\ outsider' \in Addresses
    BY <1>2, AddressAssumption DEF Travel, Forward, PathTypeOK
  <2>2. hops' \in 0..MaxHops
    BY <1>2, AddressAssumption DEF Travel, Forward, PathTypeOK
  <2>3. PathTypeOK'
    BY <1>2, <2>1, <2>2 DEF Travel, Forward, PathTypeOK
  <2>. QED
    BY <1>2, <2>3 DEF Travel, pipelineVars
<1>3. CASE Enter
  <2>1. PathTypeOK'
    BY <1>3 DEF Enter, pathVars, PathTypeOK
  <2>2. ClientIP(remote, xff, trusted) \in Addresses
    BY ClientIsOutsider DEF LastOutsider
  <2>3. bucketKey' \in Addresses \cup {APIKey, NoBucket}
    BY <1>3, <2>2 DEF Enter, trusted
  <2>. QED
    BY <1>3, <2>1, <2>3 DEF Enter, Goto
<1>4. CASE ParseBody
  BY <1>4, ParsedType, SubmissionAssumption DEF ParseBody, Keep, Goto, pathVars, PathTypeOK
<1>5. CASE Receive
  <2>1. metric' \in [Metrics -> Nat]
    BY <1>5, CountType DEF Receive, Metrics
  <2>. QED
    BY <1>5, <2>1 DEF Receive, Keep, Goto, pathVars, PathTypeOK
<1>6. CASE Prepare
  <2>1. answer' \in Answer /\ stage' \in {"done", "send"}
    BY <1>6, WriteType DEF Prepare, Goto
  <2>. QED
    BY <1>6, <2>1, PreparedType DEF Prepare, Keep, pathVars, PathTypeOK
<1>7. CASE Send
  <2>1. metric' \in [Metrics -> Nat]
    BY <1>7, CountType DEF Send, Metrics
  <2>. QED
    BY <1>7, <2>1 DEF Send, Keep, Goto, pathVars, PathTypeOK
<1>8. CASE Answering
  <2>1. Answers
    BY <1>8, AnsweringAnswers
  <2>2. Redacted \in Form
    BY DEF Redacted, Form
  <2>. QED
    BY <2>1, <2>2, NoFormType DEF Answers, pathVars, PathTypeOK
<1>9. CASE UNCHANGED vars
  BY <1>9 DEF vars, pathVars, pipelineVars, PathTypeOK
<1>. QED
  BY <1>1, <1>2, <1>3, <1>4, <1>5, <1>6, <1>7, <1>8, <1>9 DEF Next, Answering
-----------------------------------------------------------------------------
(* Where the last outsider is: what every trusted proxy has appended. *)

LEMMA InitOutsider ==
  ASSUME Init
  PROVE  LastOutsider
BY DEF Init, PathInit, LastOutsider, trusted

LEMMA OutsiderStep ==
  ASSUME TypeOK, LastOutsider, [Next]_vars
  PROVE  LastOutsider'
<1>1. ASSUME NEW p \in Addresses, Travel(p)
      PROVE  LastOutsider'
  <2>1. trusted' = trusted /\ remote' = p /\ Forward(p, trusted)
    BY <1>1 DEF Travel, Forward, trusted
  <2>2. CASE p \notin trusted
    <3>1. outsider' = p
      BY <2>1, <2>2 DEF Forward
    <3>. QED
      BY <2>1, <2>2, <3>1 DEF LastOutsider
  <2>3. CASE p \in trusted
    <3>1. xff' = Append(xff, remote) /\ outsider' = outsider
      BY <2>1, <2>3 DEF Forward
    <3>2. xff \in Seq(Addresses \cup {Blank}) /\ remote \in Addresses
      BY DEF TypeOK, PathTypeOK
    <3>3. /\ DOMAIN xff' = 1..(Len(xff) + 1)
          /\ xff'[Len(xff) + 1] = remote
          /\ \A j \in 1..Len(xff) : xff'[j] = xff[j]
      BY <3>1, <3>2
    <3>4. DOMAIN xff = 1..Len(xff) /\ Len(xff) \in Nat
      BY <3>2
    <3>5. \E i \in Outside(xff', trusted) :
            xff'[i] = outsider /\ \A j \in Outside(xff', trusted) : j <= i
      <4>1. CASE remote \notin trusted
        <5>1. remote = outsider /\ remote # Blank
          BY <3>2, <4>1, AddressAssumption DEF LastOutsider
        <5>2. Len(xff) + 1 \in Outside(xff', trusted)
          BY <3>3, <3>4, <4>1, <5>1 DEF Outside
        <5>3. \A j \in Outside(xff', trusted) : j <= Len(xff) + 1
          BY <3>3, <3>4 DEF Outside
        <5>. QED
          BY <3>3, <5>1, <5>2, <5>3
      <4>2. CASE remote \in trusted
        <5>1. PICK i \in Outside(xff, trusted) :
                xff[i] = outsider /\ \A j \in Outside(xff, trusted) : j <= i
          BY <4>2 DEF LastOutsider
        <5>2. Outside(xff', trusted) = Outside(xff, trusted)
          BY <3>3, <3>4, <4>2 DEF Outside
        <5>3. xff'[i] = outsider
          BY <3>3, <3>4, <5>1 DEF Outside
        <5>. QED
          BY <5>1, <5>2, <5>3
      <4>. QED
        BY <4>1, <4>2
    <3>. QED
      BY <2>1, <2>3, <3>1, <3>5 DEF LastOutsider
  <2>. QED
    BY <2>2, <2>3
<1>2. ASSUME UNCHANGED <<endpoint, pathVars>>
      PROVE  LastOutsider'
  BY <1>2 DEF LastOutsider, trusted, pathVars, Outside
<1>3. CASE Answering
  BY <1>2, <1>3, AnsweringAnswers DEF Answers
<1>4. CASE Load \/ ParseBody \/ Receive \/ Prepare \/ Send
  BY <1>2, <1>4 DEF Load, ParseBody, Receive, Prepare, Send, Keep
<1>5. CASE Enter \/ UNCHANGED vars
  BY <1>2, <1>5 DEF Enter, vars
<1>. QED
  BY <1>1, <1>3, <1>4, <1>5 DEF Next, Answering
-----------------------------------------------------------------------------
(* What the stages establish. *)

(* After an answer nothing is claimed of a stage any more. *)
LEMMA AnsweringStage ==
  ASSUME Answering, NotYet
  PROVE  NotYet' /\ Established'
<1>1. stage' = "done"
  BY AnsweringAnswers DEF Answers
<1>2. Established'
  BY <1>1 DEF Established, Entered, Read, Screened
<1>3. NotYet'
  BY <1>1 DEF NotYet
<1>. QED
  BY <1>2, <1>3

(* The checks read the configuration, the request and the form only. *)
LEMMA SameInput ==
  ASSUME UNCHANGED <<endpoint, request>>
  PROVE  /\ Starts(endpoint)' = Starts(endpoint)
         /\ ApiMode(endpoint)' = ApiMode(endpoint)
         /\ OriginAllowed' = OriginAllowed
         /\ Parsed' = Parsed
         /\ TooLarge' = TooLarge
         /\ form' = form => Trapped' = Trapped /\ TokenFails' = TokenFails /\ IsInvalid' = IsInvalid
<1>1. Starts(endpoint)' = Starts(endpoint) /\ ApiMode(endpoint)' = ApiMode(endpoint)
  OBVIOUS
<1>2. OriginAllowed' = OriginAllowed
  BY DEF OriginAllowed
<1>3. Parsed' = Parsed
  BY DEF Parsed
<1>4. TooLarge' = TooLarge
  BY DEF TooLarge, BodyIsRead
<1>5. form' = form => Trapped' = Trapped
  BY DEF Trapped
<1>6. form' = form => TokenFails' = TokenFails
  BY DEF TokenFails
<1>7. form' = form => IsInvalid' = IsInvalid
  BY DEF IsInvalid
<1>. QED
  BY <1>1, <1>2, <1>3, <1>4, <1>5, <1>6, <1>7

LEMMA InitStage ==
  ASSUME Init
  PROVE  NotYet /\ Established
<1>1. stage = "load" /\ bucketKey = NoBucket /\ message = NoMessage
  BY DEF Init
<1>2. NotYet
  BY <1>1 DEF NotYet
<1>3. Established
  BY <1>1 DEF Established, Entered, Read, Screened
<1>. QED
  BY <1>2, <1>3

LEMMA StageStep ==
  ASSUME NotYet, Established, [Next]_vars
  PROVE  NotYet' /\ Established'
<1>. USE DEF Entered, Read, Screened
<1>1. CASE Load
  <2>1. NotYet'
    BY <1>1 DEF Load, Keep, Goto, At, NotYet
  <2>2. Established'
    BY <1>1, SameInput DEF Load, Keep, Goto, At, Established
  <2>. QED
    BY <2>1, <2>2
<1>2. ASSUME NEW p \in Addresses, Travel(p)
      PROVE  NotYet' /\ Established'
  <2>1. NotYet'
    BY <1>2 DEF Travel, pipelineVars, NotYet
  <2>2. Established'
    BY <1>2, SameInput DEF Travel, pipelineVars, Established, At
  <2>. QED
    BY <2>1, <2>2
<1>3. CASE Enter
  <2>1. NotYet'
    BY <1>3 DEF Enter, Goto, At, NotYet
  <2>2. Established'
    BY <1>3, SameInput DEF Enter, Goto, At, Established
  <2>. QED
    BY <2>1, <2>2
<1>4. CASE ParseBody
  <2>1. NotYet'
    BY <1>4 DEF ParseBody, Keep, Goto, At, NotYet
  <2>2. Established'
    BY <1>4, SameInput DEF ParseBody, Keep, Goto, At, Established
  <2>. QED
    BY <2>1, <2>2
<1>5. CASE Receive
  <2>1. NotYet'
    BY <1>5 DEF Receive, Keep, Goto, At, NotYet
  <2>2. Established'
    BY <1>5, SameInput DEF Receive, Keep, Goto, At, Established
  <2>. QED
    BY <2>1, <2>2
<1>6. CASE Prepare
  <2>1. stage' \in {"done", "send"}
    BY <1>6 DEF Prepare, Write, Goto
  <2>2. NotYet'
    BY <2>1 DEF NotYet
  <2>3. Established'
    BY <1>6, <2>1, SameInput DEF Prepare, Keep, At, Established
  <2>. QED
    BY <2>2, <2>3
<1>7. CASE Send
  <2>1. NotYet'
    BY <1>7 DEF Send, Goto, NotYet
  <2>2. Established'
    BY <1>7, SameInput DEF Send, Keep, Goto, At, Established
  <2>. QED
    BY <2>1, <2>2
<1>8. CASE Answering
  BY <1>8, AnsweringStage
<1>9. CASE UNCHANGED vars
  <2>1. NotYet'
    BY <1>9 DEF vars, pipelineVars, NotYet
  <2>2. Established'
    BY <1>9, SameInput DEF vars, pipelineVars, Established
  <2>. QED
    BY <2>1, <2>2
<1>. QED
  BY <1>1, <1>2, <1>3, <1>4, <1>5, <1>6, <1>7, <1>8, <1>9 DEF Next, Answering
-----------------------------------------------------------------------------
(* The properties. *)

LEMMA BucketStep ==
  ASSUME TypeOK, LastOutsider, NotYet, BucketIsTheVisitors, [Next]_vars
  PROVE  BucketIsTheVisitors'
<1>1. CASE Enter
  <2>1. bucketKey' = IF ApiMode(endpoint) THEN APIKey ELSE outsider
    BY <1>1, ClientIsOutsider DEF Enter, trusted
  <2>. QED
    BY <1>1, <2>1 DEF Enter, pathVars, BucketIsTheVisitors
<1>2. ASSUME NEW p \in Addresses, Travel(p)
      PROVE  BucketIsTheVisitors'
  <2>1. bucketKey' = NoBucket
    BY <1>2 DEF Travel, At, pipelineVars, NotYet
  <2>. QED
    BY <2>1 DEF BucketIsTheVisitors
<1>3. ASSUME UNCHANGED <<endpoint, pathVars, bucketKey>>
      PROVE  BucketIsTheVisitors'
  BY <1>3 DEF pathVars, BucketIsTheVisitors
<1>4. CASE Load \/ ParseBody \/ Receive \/ Prepare \/ Send
  BY <1>3, <1>4 DEF Load, ParseBody, Receive, Prepare, Send, Keep
<1>5. CASE Answering
  BY <1>3, <1>5, AnsweringAnswers DEF Answers
<1>6. CASE UNCHANGED vars
  BY <1>3, <1>6 DEF vars, pipelineVars
<1>. QED
  BY <1>1, <1>2, <1>4, <1>5, <1>6 DEF Next, Answering

(* Only Prepare makes a message, and the form is final before it does. *)
LEMMA MessageIsPrepared ==
  ASSUME NotYet, [Next]_vars, ~Prepare
  PROVE  /\ UNCHANGED <<endpoint, request, message>>
         /\ UNCHANGED form \/ message = NoMessage
<1>1. CASE Load \/ Receive \/ Send
  BY <1>1 DEF Load, Receive, Send, Keep
<1>2. CASE \E p \in Addresses : Travel(p)
  BY <1>2 DEF Travel, pipelineVars
<1>3. CASE Enter
  BY <1>3 DEF Enter
<1>4. CASE ParseBody
  BY <1>4 DEF ParseBody, Keep, At, NotYet
<1>5. CASE Answering
  BY <1>5, AnsweringAnswers DEF Answers
<1>6. CASE UNCHANGED vars
  BY <1>6 DEF vars, pipelineVars
<1>. QED
  BY <1>1, <1>2, <1>3, <1>4, <1>5, <1>6 DEF Next, Answering

LEMMA DefencesStep ==
  ASSUME TypeOK, NotYet, Established, DefencesHold, [Next]_vars
  PROVE  DefencesHold'
<1>1. CASE Prepare
  <2>1. UNCHANGED <<endpoint, request, form>>
    BY <1>1 DEF Prepare, Keep
  <2>2. /\ Starts(endpoint)
        /\ IF ApiMode(endpoint) THEN request.bearer = "key" ELSE OriginAllowed
        /\ ~TooLarge /\ (ApiMode(endpoint) => request.type = "json")
        /\ ~Trapped /\ ~TokenFails /\ ~IsInvalid
    BY <1>1 DEF Prepare, At, Established, Entered, Read, Screened
  <2>3. /\ ApiMode(endpoint) => FormDefencesUnset(endpoint)
        /\ ~ApiMode(endpoint) => endpoint.apiKeys = "none"
    BY <2>2 DEF Starts, Accepted
  <2>4. endpoint.honeypot # NoField => ~HasText(Entries(form, endpoint.honeypot))
    BY <2>2, <2>3 DEF FormDefencesUnset, Trapped
  <2>5. endpoint.allowedOrigins # "absent" => "listed" \in {request.origin, request.referer}
    BY <2>2, <2>3 DEF FormDefencesUnset, OriginAllowed
  <2>6. endpoint.csrfSecret # "absent" =>
          Get(form, TokenField) = "token" /\ TokenIsLive(endpoint, request)
    <3>1. endpoint \in Endpoint /\ request \in Request
      BY SubmissionAssumption DEF TypeOK
    <3>2. endpoint.csrfTokenTTL \in Int
      BY <3>1 DEF Endpoint
    <3>3. request.tokenAge \in Int
      BY <3>1 DEF Request
    <3>4. TokenTTL(endpoint) \in Int
      BY <3>2, ConfigurationAssumption DEF TokenTTL
    <3>5. ~(request.tokenAge > TokenTTL(endpoint)) => TokenIsLive(endpoint, request)
      BY <3>3, <3>4 DEF TokenIsLive, TokenTTL
    <3>. QED
      BY <2>2, <2>3, <3>5 DEF FormDefencesUnset, TokenFails
  <2>7. endpoint.apiKeys # "none" => request.bearer = "key"
    BY <2>2, <2>3
  <2>8. endpoint.maxBody > 0 /\ request.type # "multipart" => request.size <= endpoint.maxBody
    <3>1. endpoint \in Endpoint /\ request \in Request
      BY SubmissionAssumption DEF TypeOK
    <3>2. endpoint.maxBody \in Nat /\ request.size \in Nat
      BY <3>1 DEF Endpoint, Request
    <3>. QED
      BY <2>2, <3>2 DEF TooLarge, BodyIsRead
  <2>9. \A f \in endpoint.required : HasText(Entries(form, f))
    BY <2>2 DEF IsInvalid
  <2>. QED
    BY <2>1, <2>4, <2>5, <2>6, <2>7, <2>8, <2>9 DEF DefencesHold, TokenIsLive
<1>2. CASE ~Prepare
  BY <1>2, MessageIsPrepared DEF DefencesHold, TokenIsLive, NoMessage
<1>. QED
  BY <1>1, <1>2

LEMMA RecipientsStep ==
  ASSUME TypeOK, NotYet, Established, RecipientsAreChosen, [Next]_vars
  PROVE  RecipientsAreChosen'
<1>1. CASE Prepare
  <2>1. UNCHANGED <<endpoint, request, form>> /\ ~OverrideFails
    BY <1>1 DEF Prepare, Keep
  <2>2. message'.to = IF Overridden THEN Override ELSE <<"operator">>
    BY <1>1 DEF Prepare, Prepared
  <2>3. CASE Overridden
    <3>1. ApiMode(endpoint) /\ OverrideField \in Present(form)
      BY <2>3 DEF Overridden
    <3>2. form = Parsed /\ request.type = "json"
      BY <1>1, <3>1 DEF Prepare, At, Established, Read, Screened
    <3>3. Parsed = request.body
      BY <3>2, Zenon DEF Parsed
    <3>4. Override = request.body[OverrideField]
      BY <3>1, <3>2, <3>3 DEF Override, Entries, Present
    <3>5. Override # <<>> /\ \A i \in DOMAIN Override : Override[i] = "address"
      BY <2>1, <2>3 DEF OverrideFails, AllAddresses
    <3>. QED
      BY <2>1, <2>2, <2>3, <3>1, <3>4, <3>5 DEF RecipientsAreChosen
  <2>4. CASE ~Overridden
    BY <2>1, <2>2, <2>4 DEF RecipientsAreChosen, Overridden, Present
  <2>. QED
    BY <2>3, <2>4
<1>2. CASE ~Prepare
  BY <1>2, MessageIsPrepared DEF RecipientsAreChosen, NoMessage, Present
<1>. QED
  BY <1>1, <1>2

LEMMA TrapStep ==
  ASSUME TypeOK, TrapIsInvisible, [Next]_vars
  PROVE  TrapIsInvisible'
<1>1. UNCHANGED <<endpoint, request>>
  <2>1. CASE \E p \in Addresses : Travel(p)
    BY <2>1 DEF Travel
  <2>2. CASE Answering
    BY <2>2, AnsweringAnswers DEF Answers
  <2>3. CASE Load \/ ParseBody \/ Receive \/ Prepare \/ Send \/ Enter \/ UNCHANGED vars
    BY <2>3 DEF Load, ParseBody, Receive, Prepare, Send, Enter, Keep, vars
  <2>. QED
    BY <2>1, <2>2, <2>3 DEF Next, Answering
<1>2. CASE UNCHANGED answer
  BY <1>1, <1>2 DEF TrapIsInvisible
<1>3. CASE answer'.body # "ok"
  BY <1>3 DEF TrapIsInvisible
<1>4. CASE CatchHoneypot \/ Observe
  <2>1. WriteSuccess
    BY <1>4 DEF CatchHoneypot, Observe
  <2>2. request.accept \subseteq {"json", "html"}
    BY SubmissionAssumption DEF TypeOK, Request
  <2>3. PrefersRedirect <=> (request.accept = {} \/ "html" \in request.accept)
    BY <2>2 DEF PrefersRedirect
  <2>. QED
    BY <1>1, <2>1, <2>3 DEF WriteSuccess, Write, TrapIsInvisible
<1>5. CASE RefuseEntry \/ RejectBody \/ RejectToken \/ Invalid \/ RenderFails \/ BadOverride \/ SendFails
  <2>1. answer'.body # "ok"
    BY <1>5 DEF RefuseEntry, RejectBody, RejectToken, Invalid, RenderFails, BadOverride,
                SendFails, WriteText, WriteError, Write
  <2>. QED
    BY <1>3, <2>1
<1>6. CASE Prepare
  <2>1. UNCHANGED answer \/ answer'.body = "dry_run"
    BY <1>6 DEF Prepare, Write
  <2>. QED
    BY <1>2, <1>3, <2>1
<1>7. CASE (\E p \in Addresses : Travel(p)) \/ UNCHANGED vars
  BY <1>2, <1>7 DEF Travel, pipelineVars, vars
<1>8. CASE Load \/ Enter \/ ParseBody \/ Receive \/ Send
  BY <1>2, <1>8 DEF Load, Enter, ParseBody, Receive, Send
<1>. QED
  BY <1>4, <1>5, <1>6, <1>7, <1>8 DEF Next

(* A message has a recipient, which tells it from none. *)
LEMMA PreparedIsMessage ==
  ASSUME ~OverrideFails
  PROVE  Prepared # NoMessage
<1>1. Prepared.to = IF Overridden THEN Override ELSE <<"operator">>
  BY DEF Prepared
<1>2. Prepared.to # <<>>
  BY <1>1 DEF OverrideFails
<1>. QED
  BY <1>2 DEF NoMessage

LEMMA UnderwayStep ==
  ASSUME TypeOK, Underway, [Next]_vars
  PROVE  Underway'
<1>1. CASE Answering
  BY <1>1, AnsweringAnswers DEF Answers, Underway
<1>2. CASE Load \/ Enter \/ ParseBody
  BY <1>2 DEF Load, Enter, ParseBody, Keep, Goto, At, Underway
<1>3. CASE Receive
  <2>1. metric'["sent"] = metric["sent"]
    BY <1>3 DEF Receive, CountOne, TypeOK, Metrics
  <2>. QED
    BY <1>3, <2>1 DEF Receive, Keep, Goto, At, Underway
<1>4. CASE Prepare
  <2>1. message' # NoMessage /\ metric' = metric
    BY <1>4, PreparedIsMessage DEF Prepare, Keep
  <2>2. stage' = "done" \/ (stage' = "send" /\ answer' = answer)
    BY <1>4 DEF Prepare, Write, Goto
  <2>. QED
    BY <1>4, <2>1, <2>2 DEF Prepare, At, Underway
<1>5. CASE Send
  <2>1. metric'["sent"] = metric["sent"] + 1
    BY <1>5 DEF Send, CountOne, TypeOK, Metrics
  <2>. QED
    BY <1>5, <2>1 DEF Send, Keep, Goto, At, Underway
<1>6. CASE (\E p \in Addresses : Travel(p)) \/ UNCHANGED vars
  BY <1>6 DEF Travel, vars, pipelineVars, Underway
<1>. QED
  BY <1>1, <1>2, <1>3, <1>4, <1>5, <1>6 DEF Next, Answering

(* A field that says something says it in the mail or the log. *)
Structure ==
  {TokenField : x \in {endpoint.csrfSecret} \ {"absent"}}
    \cup {OverrideField : x \in {endpoint.auth} \cap {"api-key"}}

Said == {f \in Fields : HasText(Entries(form, f))}

KeptInMail ==
  /\ Said \subseteq message.shown \cup message.extras
                    \cup endpoint.required \cup {EmailField(endpoint), endpoint.honeypot} \cup Structure
  /\ message.extras \cap Structure = {}

KeptInLog == \A f \in Said : logged[f] = form[f]

LEMMA KeptByParts ==
  SubmissionIsKept <=>
    /\ message # NoMessage => KeptInMail
    /\ answer.body = "undelivered" /\ endpoint.logFailedSubmissions => KeptInLog
BY DEF SubmissionIsKept, KeptInMail, KeptInLog, Said, Structure

LEMMA SaidIsPresent ==
  ASSUME TypeOK, NEW f \in Said
  PROVE  f \in Present(form) /\ (Len(form[f]) > 1 \/ Get(form, f) # "blank")
<1>1. f \in Fields /\ HasText(Entries(form, f))
  BY DEF Said
<1>2. form[f] # Absent /\ Entries(form, f) = form[f]
  BY <1>1 DEF HasText, Entries
<1>3. form[f] \in Seq(Values)
  BY <1>1, <1>2 DEF TypeOK, Form
<1>4. PICK i \in 1..Len(form[f]) : form[f][i] # "blank"
  BY <1>1, <1>2, <1>3 DEF HasText
<1>5. CASE Len(form[f]) > 1
  BY <1>1, <1>2, <1>5 DEF Present
<1>6. CASE ~(Len(form[f]) > 1)
  <2>1. i = 1 /\ form[f] # <<>>
    BY <1>3, <1>4, <1>6
  <2>2. Get(form, f) # "blank"
    BY <1>2, <1>4, <2>1 DEF Get
  <2>. QED
    BY <1>1, <1>2, <2>2 DEF Present
<1>. QED
  BY <1>5, <1>6

LEMMA KeptStep ==
  ASSUME TypeOK, NotYet, Established, Underway, SubmissionIsKept, [Next]_vars
  PROVE  SubmissionIsKept'
<1>1. CASE Prepare
  <2>1. UNCHANGED <<endpoint, request, form, logged>> /\ message' = Prepared
    BY <1>1 DEF Prepare, Keep
  <2>2. answer'.body # "undelivered"
    BY <1>1 DEF Prepare, Write, Underway, At
  <2>3. message'.extras = Extras
    BY <2>1 DEF Prepared
  <2>4. message'.shown = {f \in endpoint.mentions : Entries(form, f) # <<>>}
    BY <2>1 DEF Prepared
  <2>5. Structure \subseteq NamedFields(endpoint) /\ UNCHANGED <<Structure, Said>>
    BY <2>1 DEF Structure, Said, NamedFields, ApiMode, TokenField, OverrideField
  <2>6. ASSUME NEW f \in Said
        PROVE  f \in message'.shown \cup message'.extras \cup endpoint.required
                       \cup {EmailField(endpoint), endpoint.honeypot} \cup Structure
    <3>1. f \in Present(form) /\ (Len(form[f]) > 1 \/ Get(form, f) # "blank")
      BY SaidIsPresent
    <3>2. CASE f \notin NamedFields(endpoint)
      BY <2>3, <3>1, <3>2 DEF Extras
    <3>3. CASE f \in endpoint.mentions
      <4>1. Entries(form, f) # <<>>
        BY DEF Said, HasText
      <4>. QED
        BY <2>4, <3>3, <4>1
    <3>4. CASE f \in NamedFields(endpoint) \ endpoint.mentions
      BY <3>4 DEF NamedFields, Structure, ApiMode
    <3>. QED
      BY <3>2, <3>3, <3>4
  <2>7. message'.extras \cap Structure = {}
    BY <2>3, <2>5 DEF Extras
  <2>8. KeptInMail'
    BY <2>1, <2>5, <2>6, <2>7 DEF KeptInMail
  <2>. QED
    BY <2>2, <2>8, KeptByParts DEF SubmissionIsKept, KeptInMail, Said, Structure
<1>2. CASE SendFails
  <2>1. UNCHANGED <<endpoint, form, message>>
    BY <1>2 DEF SendFails
  <2>2. Starts(endpoint) /\ ~Trapped
    BY <1>2 DEF SendFails, At, Established, Entered, Screened
  <2>3. endpoint.honeypot \notin Said
    <3>1. ApiMode(endpoint) => endpoint.honeypot = NoField
      BY <2>2 DEF Starts, Accepted, FormDefencesUnset
    <3>. QED
      BY <2>2, <3>1, ConfigurationAssumption DEF Trapped, Said
  <2>4. endpoint.logFailedSubmissions => \A f \in Said : logged'[f] = form[f]
    BY <1>2, <2>3 DEF SendFails, Redacted, Said
  <2>. QED
    BY <2>1, <2>4 DEF SubmissionIsKept, Said
<1>3. CASE ~Prepare /\ ~SendFails
  <2>1. UNCHANGED <<endpoint, request, message>> /\ (UNCHANGED form \/ message = NoMessage)
    BY <1>3, MessageIsPrepared
  <2>2. answer'.body # "undelivered" \/ UNCHANGED <<answer, form, logged>>
    <3>1. CASE Load \/ Enter \/ ParseBody \/ Receive \/ Send
      BY <3>1 DEF Load, Enter, ParseBody, Receive, Send, At, Underway
    <3>2. CASE (\E p \in Addresses : Travel(p)) \/ UNCHANGED vars
      BY <3>2 DEF Travel, vars, pipelineVars
    <3>3. CASE Answering
      BY <1>3, <3>3 DEF Answering, RefuseEntry, RejectBody, CatchHoneypot, RejectToken, Invalid,
           RenderFails, BadOverride, Observe, WriteText, WriteError, WriteSuccess, Write
    <3>. QED
      BY <1>3, <3>1, <3>2, <3>3 DEF Next, Answering
  <2>. QED
    BY <2>1, <2>2 DEF SubmissionIsKept
<1>. QED
  BY <1>1, <1>2, <1>3

(* A sincere visitor's form is what was filled in, and no defence is against it. *)
LEMMA SincereForm ==
  ASSUME TypeOK, Sincere(endpoint, request), form = Parsed, NEW f \in Fields
  PROVE  /\ Entries(form, f) = Entries(request.body, f)
         /\ Get(form, f) = Get(request.body, f)
<1>1. request.type = "urlencoded" /\ request.query = NoForm /\ request.body \in Form
  BY SubmissionAssumption DEF Sincere, TypeOK, Request
<1>2. form = Merged(request.body, NoForm)
  BY <1>1, Zenon DEF Parsed
<1>3. Present(NoForm) = {} /\ Entries(NoForm, f) = <<>>
  BY DEF Present, NoForm, Entries
<1>4. CASE request.body[f] = Absent
  <2>1. form[f] = Absent
    BY <1>2, <1>3, <1>4 DEF Merged, Present
  <2>. QED
    BY <1>4, <2>1 DEF Entries, Get
<1>5. CASE request.body[f] # Absent
  <2>1. request.body[f] \in Seq(Values)
    BY <1>1, <1>5 DEF Form
  <2>2. form[f] = Entries(request.body, f) \o Entries(NoForm, f)
    BY <1>2, <1>5 DEF Merged, Present
  <2>3. form[f] = request.body[f]
    <3>1. Entries(request.body, f) = request.body[f]
      BY <1>5 DEF Entries
    <3>2. form[f] = request.body[f] \o << >>
      BY <1>3, <2>2, <3>1
    <3>. QED
      BY <2>1, <3>2
  <2>. QED
    BY <2>3 DEF Entries, Get
<1>. QED
  BY <1>4, <1>5

LEMMA SincereIsNotTrapped ==
  ASSUME TypeOK, Sincere(endpoint, request), form = Parsed
  PROVE  ~Trapped
<1>1. SUFFICES ASSUME endpoint.honeypot # NoField, HasText(Entries(form, endpoint.honeypot))
               PROVE  FALSE
  BY DEF Trapped
<1>. DEFINE h == endpoint.honeypot
            values == Entries(request.body, h)
<1>2. h \in Fields
  BY <1>1, SubmissionAssumption DEF TypeOK, Endpoint
<1>3. values \in Seq(Values) /\ Entries(form, h) = values
  BY <1>2, EntriesType, SincereForm, SubmissionAssumption DEF TypeOK, Request
<1>4. Get(request.body, h) = "blank" /\ Len(values) <= 1
  BY <1>1 DEF Sincere
<1>5. PICK i \in 1..Len(values) : values[i] # "blank"
  BY <1>1, <1>3 DEF HasText
<1>6. values[1] # "blank" /\ values # <<>>
  BY <1>3, <1>4, <1>5
<1>7. values = request.body[h]
  BY <1>6 DEF Entries
<1>. QED
  BY <1>4, <1>6, <1>7 DEF Get

LEMMA SincereHasToken ==
  ASSUME TypeOK, Sincere(endpoint, request), form = Parsed
  PROVE  ~TokenFails
<1>1. SUFFICES ASSUME endpoint.csrfSecret # "absent"
               PROVE  Get(form, TokenField) = "token" /\ ~(request.tokenAge > TokenTTL(endpoint))
  BY DEF TokenFails
<1>2. Entries(request.body, TokenField) = <<"token">>
  BY <1>1 DEF Sincere
<1>3. request.body[TokenField] = <<"token">>
  BY <1>2 DEF Entries
<1>4. Get(request.body, TokenField) = "token"
  BY <1>2, <1>3 DEF Get
<1>5. Get(form, TokenField) = "token"
  BY <1>4, SincereForm, ConfigurationAssumption
<1>6. endpoint \in Endpoint /\ request \in Request
  BY SubmissionAssumption DEF TypeOK
<1>7. endpoint.csrfTokenTTL \in Int
  BY <1>6 DEF Endpoint
<1>8. request.tokenAge \in Int
  BY <1>6 DEF Request
<1>9. TokenTTL(endpoint) \in Int
  BY <1>7, ConfigurationAssumption DEF TokenTTL
<1>10. request.tokenAge <= TokenTTL(endpoint)
  BY <1>1 DEF Sincere, TokenIsLive, TokenTTL
<1>. QED
  BY <1>5, <1>8, <1>9, <1>10

LEMMA SincereIsValid ==
  ASSUME TypeOK, Sincere(endpoint, request), form = Parsed
  PROVE  ~IsInvalid
<1>1. endpoint \in Endpoint
  BY SubmissionAssumption DEF TypeOK
<1>2. EmailField(endpoint) \in Fields /\ endpoint.required \subseteq Fields
  BY <1>1, ConfigurationAssumption DEF EmailField, Or, Endpoint
<1>3. Get(form, EmailField(endpoint)) = "address"
  BY <1>2, SincereForm DEF Sincere
<1>4. \A f \in endpoint.required : HasText(Entries(form, f))
  BY <1>2, SincereForm DEF Sincere
<1>. QED
  BY <1>3, <1>4 DEF IsInvalid

LEMMA VisitorStep ==
  ASSUME TypeOK, Established, Underway, VisitorIsServed, [Next]_vars
  PROVE  VisitorIsServed'
<1>. DEFINE Served == /\ answer.body \in {"ok", "dry_run", "undelivered", "render_failed"}
                      /\ answer.body = "ok" => message # NoMessage /\ metric["sent"] = 1
<1>1. SUFFICES ASSUME stage' = "done", ~ApiMode(endpoint)', Sincere(endpoint, request)',
                      ~UNCHANGED vars
               PROVE  Served'
  BY DEF VisitorIsServed, At, vars, pipelineVars, pathVars
<1>2. Answering \/ Prepare
  BY <1>1 DEF Next, Answering, Load, Travel, At, pipelineVars, Enter, ParseBody, Receive, Send, Goto
<1>3. UNCHANGED <<endpoint, request>>
  BY <1>2, AnsweringAnswers DEF Answers, Prepare, Keep
<1>4. ~ApiMode(endpoint) /\ Sincere(endpoint, request)
  BY <1>1, <1>3 DEF Sincere, TokenIsLive
<1>5. ~RefuseEntry
  <2>1. SUFFICES ASSUME At("travel") PROVE request.post /\ FormType /\ OriginAllowed
    BY <1>4 DEF RefuseEntry
  <2>2. endpoint.allowedOrigins \in {"absent", "listed"}
    <3>1. endpoint \in Endpoint /\ Starts(endpoint)
      BY <2>1, SubmissionAssumption DEF At, Established, TypeOK
    <3>. QED
      BY <3>1 DEF Endpoint, Starts, Accepted
  <2>3. endpoint.allowedOrigins = "listed" => "listed" \in {request.origin, request.referer}
    BY <1>4 DEF Sincere
  <2>4. OriginAllowed
    BY <2>2, <2>3 DEF OriginAllowed
  <2>. QED
    BY <1>4, <2>4 DEF Sincere, FormType
<1>6. ~RejectBody
  <2>1. ~TooLarge
    <3>1. endpoint.maxBody \in Nat /\ request.size \in Nat
      BY SubmissionAssumption DEF TypeOK, Endpoint, Request
    <3>. QED
      BY <1>4, <3>1 DEF Sincere, TooLarge
  <2>2. ~Malformed
    BY <1>4 DEF Sincere, Malformed
  <2>. QED
    BY <1>4, <2>1, <2>2 DEF RejectBody
<1>7. ~CatchHoneypot /\ ~RejectToken /\ ~Invalid
  <2>1. SUFFICES ASSUME At("screen") PROVE ~Trapped /\ ~TokenFails /\ ~IsInvalid
    BY DEF CatchHoneypot, RejectToken, Invalid
  <2>2. form = Parsed
    BY <2>1 DEF At, Established, Read
  <2>. QED
    BY <1>4, <2>2, SincereIsNotTrapped, SincereHasToken, SincereIsValid
<1>8. ~BadOverride
  BY <1>4 DEF BadOverride, OverrideFails, Overridden
<1>9. CASE RenderFails \/ SendFails
  BY <1>9 DEF RenderFails, SendFails, WriteText, Write
<1>10. CASE Observe
  <2>1. message' = message /\ message # NoMessage /\ metric["sent"] = 1
    BY <1>10 DEF Observe, At, Underway
  <2>2. metric'["sent"] = 1
    BY <1>10, <2>1 DEF Observe, CountOne, TypeOK, Metrics
  <2>3. answer'.body = "ok"
    BY <1>10 DEF Observe, WriteSuccess, Write
  <2>. QED
    BY <2>1, <2>2, <2>3
<1>11. CASE Prepare
  <2>1. answer'.body = "dry_run"
    BY <1>1, <1>11 DEF Prepare, Write, Goto
  <2>. QED
    BY <2>1
<1>. QED
  BY <1>2, <1>5, <1>6, <1>7, <1>8, <1>9, <1>10, <1>11 DEF Answering
-----------------------------------------------------------------------------
(* The theorems. *)

LEMMA InitInvariant == Init => IInv
<1>. SUFFICES ASSUME Init PROVE IInv
  OBVIOUS
<1>1. /\ stage = "load" /\ bucketKey = NoBucket /\ message = NoMessage
      /\ answer = [status |-> 0, body |-> "none", page |-> "none"]
      /\ metric = [m \in Metrics |-> 0]
  BY DEF Init
<1>2. Underway
  BY <1>1 DEF Underway, Metrics
<1>3. BucketIsTheVisitors /\ DefencesHold /\ RecipientsAreChosen
  BY <1>1 DEF BucketIsTheVisitors, DefencesHold, RecipientsAreChosen
<1>4. TrapIsInvisible /\ VisitorIsServed /\ SubmissionIsKept
  BY <1>1 DEF TrapIsInvisible, VisitorIsServed, SubmissionIsKept, At
<1>. QED
  BY <1>2, <1>3, <1>4, InitType, InitOutsider, InitStage DEF IInv

LEMMA StepInvariant == IInv /\ [Next]_vars => IInv'
BY TypeStep, OutsiderStep, StageStep, UnderwayStep, BucketStep, DefencesStep, RecipientsStep,
   TrapStep, VisitorStep, KeptStep DEF IInv

LEMMA Invariance == Spec => []IInv
BY InitInvariant, StepInvariant, PTL DEF Spec

(* Every submission keeps its types, its bucket included. *)
THEOREM TypeCorrect == Spec => []TypeOK
<1>1. IInv => TypeOK
  BY DEF IInv
<1>. QED
  BY <1>1, Invariance, PTL

(* ClientIP walks X-Forwarded-For to the last address that is not trusted,   *)
(* whatever the proxies on the way and the header the visitor began with.    *)
THEOREM BucketOfTheVisitor == Spec => []BucketIsTheVisitors
<1>1. IInv => BucketIsTheVisitors
  BY DEF IInv
<1>. QED
  BY <1>1, Invariance, PTL

(* No accepted configuration has a defence that ServeHTTP does not apply. *)
THEOREM Defended == Spec => []DefencesHold
<1>1. IInv => DefencesHold
  BY DEF IInv
<1>. QED
  BY <1>1, Invariance, PTL

(* to_override sends to all the addresses named, and only in api mode. *)
THEOREM Chosen == Spec => []RecipientsAreChosen
<1>1. IInv => RecipientsAreChosen
  BY DEF IInv
<1>. QED
  BY <1>1, Invariance, PTL

(* writeSuccessResponse answers the trapped and the delivered alike. *)
THEOREM Invisible == Spec => []TrapIsInvisible
<1>1. IInv => TrapIsInvisible
  BY DEF IInv
<1>. QED
  BY <1>1, Invariance, PTL

(* No check of ServeHTTP turns away a visitor who used the form as served. *)
THEOREM VisitorServed == Spec => []VisitorIsServed
<1>1. IInv => VisitorIsServed
  BY DEF IInv
<1>. QED
  BY <1>1, Invariance, PTL

(* extraFields and redactedForm lose nothing that a submission said. *)
THEOREM Kept == Spec => []SubmissionIsKept
<1>1. IInv => SubmissionIsKept
  BY DEF IInv
<1>. QED
  BY <1>1, Invariance, PTL

-----------------------------------------------------------------------------
(* The refinement: what this submission does, Gateway lets one request do.   *)

LEMMA StageOfHandler ==
  /\ \A s \in {"load", "refused", "travel"} : HandlerStage(s) = "new"
  /\ \A s \in {"parse", "screen"} : HandlerStage(s) = "parse"
  /\ HandlerStage("sent") = "observe"
  /\ \A s \in {"render", "send", "done"} : HandlerStage(s) = s
<1>1. ASSUME NEW s \in {"load", "refused", "travel"} PROVE HandlerStage(s) = "new"
  BY Zenon DEF HandlerStage
<1>2. ASSUME NEW s \in {"parse", "screen"} PROVE HandlerStage(s) = "parse"
  BY Zenon DEF HandlerStage
<1>3. HandlerStage("sent") = "observe"
  BY Zenon DEF HandlerStage
<1>4. ASSUME NEW s \in {"render", "send", "done"} PROVE HandlerStage(s) = s
  BY Zenon DEF HandlerStage
<1>. QED
  BY <1>1, <1>2, <1>3, <1>4

LEMMA InitOfHandler ==
  ASSUME Init
  PROVE  Handler!Init
<1>1. Handler!Cache!Init /\ Handler!Limiter!Init
  BY DEF Handler!Cache!Init, Handler!Limiter!Init
<1>2. ApiMode(endpoint) \in BOOLEAN /\ endpoint.dryRun \in BOOLEAN
  <2>1. endpoint \in Endpoint
    BY SubmissionAssumption DEF Init
  <2>2. endpoint.dryRun \in BOOLEAN
    BY <2>1 DEF Endpoint
  <2>. QED
    BY <2>2 DEF ApiMode
<1>3. metric["sent"] = 0 /\ metric = [m \in Handler!Metrics |-> 0]
  BY DEF Init, Metrics, Handler!Metrics
<1>4. /\ HandlerStage(stage) = "new"
      /\ answer.status = 0 /\ answer.body = "none"
  BY StageOfHandler DEF Init
<1>. QED
  BY <1>1, <1>2, <1>3, <1>4 DEF Handler!Init

(* What a step that keeps the configuration leaves alone in any case: the    *)
(* cache, the limiter, the clock and the key are not in this model.          *)
LEMMA HandlerKeeps ==
  ASSUME endpoint' = endpoint, metric \in [Metrics -> Nat],
         metric' = metric \/ \E m \in Metrics \ {"sent"} : CountOne(m)
  PROVE  Handler!RequestOnly /\ Handler!KeepRequest
<1>1. metric'["sent"] = metric["sent"]
  BY DEF CountOne, Metrics
<1>. QED
  BY <1>1 DEF Handler!RequestOnly, Handler!KeepRequest, Handler!cacheVars, Handler!limiterVars

LEMMA WritesOfHandler ==
  ASSUME NEW status, NEW body, NEW page, Write(status, body, page)
  PROVE  Handler!Refuse("r", status, body) /\ Handler!Respond("r", status, body)
<1>1. HandlerStage(stage') = "done"
  BY StageOfHandler DEF Write, Goto
<1>2. answer'.status = status /\ answer'.body = body
  BY DEF Write
<1>3. Handler!Write("r", status, body)
  BY <1>2 DEF Handler!Write
<1>. QED
  BY <1>1, <1>3 DEF Handler!Refuse, Handler!Respond, Handler!Goto

LEMMA CountOfHandler ==
  ASSUME NEW m, CountOne(m)
  PROVE  Handler!CountOne(m)
BY DEF CountOne, Handler!CountOne

(* The checks before the body, with no key and no limiter behind them. *)
LEMMA EntryOfHandler ==
  ASSUME TypeOK, RefuseEntry \/ Enter
  PROVE  Handler!Enter("r")
<1>t. endpoint' = endpoint /\ metric \in [Metrics -> Nat] /\ stage = "travel"
  BY DEF TypeOK, RefuseEntry, Enter, Keep, At
<1>s. Handler!At("r", "new")
  BY <1>t, StageOfHandler DEF Handler!At
<1>1. CASE RefuseEntry
  <2>1. metric' = metric \/ \E m \in Metrics \ {"sent"} : CountOne(m)
    BY <1>1 DEF RefuseEntry, Metrics
  <2>2. Handler!RequestOnly /\ Handler!KeepRequest
    BY <1>t, <2>1, HandlerKeeps
  <2>3. \/ Handler!Refuse("r", 405, "refused") /\ UNCHANGED metric
        \/ ApiMode(endpoint) /\ Handler!Refuse("r", 401, "refused") /\ Handler!CountOne("auth_failed")
        \/ Handler!Refuse("r", 400, "refused") /\ UNCHANGED metric
        \/ ~ApiMode(endpoint) /\ Handler!Refuse("r", 403, "forbidden") /\ Handler!CountOne("spam_blocked")
    BY <1>1, WritesOfHandler, CountOfHandler DEF RefuseEntry, WriteText, WriteError
  <2>4. Handler!RefuseEntry("r")
    BY <1>s, <2>2, <2>3 DEF Handler!RefuseEntry, Handler!ApiMode, Handler!KeepRequest
  <2>. QED
    BY <1>t, <2>4 DEF Handler!Enter
<1>2. CASE Enter
  <2>1. Handler!RequestOnly /\ Handler!KeepRequest
    BY <1>2, <1>t, HandlerKeeps DEF Enter
  <2>2. HandlerStage(stage') = "parse" /\ Handler!PastClaim = "parse"
    BY <1>2, StageOfHandler DEF Enter, Goto, Handler!PastClaim, Handler!Limited
  <2>3. Handler!EnterWithoutKey("r")
    BY <1>2, <1>s, <2>1, <2>2 DEF Enter, Handler!EnterWithoutKey, Handler!Goto, Handler!KeepRequest
  <2>. QED
    BY <1>t, <2>3 DEF Handler!Enter
<1>. QED
  BY <1>1, <1>2

(* The checks of the body: Gateway leaves open which of them fails. *)
LEMMA BodyOfHandler ==
  ASSUME TypeOK, RejectBody \/ CatchHoneypot \/ RejectToken \/ Invalid \/ Receive
  PROVE  Handler!Serve("r")
<1>t. endpoint' = endpoint /\ metric \in [Metrics -> Nat] /\ stage \in {"parse", "screen"}
  BY DEF TypeOK, RejectBody, CatchHoneypot, RejectToken, Invalid, Receive, Keep, At
<1>s. Handler!At("r", "parse")
  BY <1>t, StageOfHandler DEF Handler!At
<1>k. Handler!RequestOnly /\ Handler!KeepRequest
  <2>1. metric' = metric \/ \E m \in Metrics \ {"sent"} : CountOne(m)
    BY DEF RejectBody, CatchHoneypot, RejectToken, Invalid, Receive, Metrics
  <2>. QED
    BY <1>t, <2>1, HandlerKeeps
<1>1. CASE RejectBody
  <2>1. \/ ApiMode(endpoint) /\ Handler!Respond("r", 415, "bad_body")
        \/ \E s \in {413, 400} : Handler!Respond("r", s, "bad_body")
    BY <1>1, WritesOfHandler DEF RejectBody, WriteText, WriteError
  <2>2. Handler!RejectBody("r")
    BY <1>1, <1>s, <1>k, <2>1 DEF RejectBody, Handler!RejectBody, Handler!ApiMode
  <2>. QED
    BY <1>t, <2>2 DEF Handler!Serve, Handler!Step
<1>2. CASE CatchHoneypot
  <2>1. Handler!Respond("r", 200, "ok") /\ Handler!CountOne("spam_blocked")
    BY <1>2, WritesOfHandler, CountOfHandler DEF CatchHoneypot, WriteSuccess
  <2>2. Handler!CatchHoneypot("r")
    BY <1>2, <1>s, <1>k, <2>1 DEF CatchHoneypot, Trapped, Handler!CatchHoneypot, Handler!ApiMode
  <2>. QED
    BY <1>t, <2>2 DEF Handler!Serve, Handler!Step
<1>3. CASE RejectToken
  <2>1. Handler!Respond("r", 403, "forbidden")
    BY <1>3, WritesOfHandler DEF RejectToken, WriteError
  <2>2. Handler!RejectBody("r")
    BY <1>3, <1>s, <1>k, <2>1 DEF RejectToken, TokenFails, Handler!RejectBody, Handler!ApiMode
  <2>. QED
    BY <1>t, <2>2 DEF Handler!Serve, Handler!Step
<1>4. CASE Invalid
  <2>1. Handler!Respond("r", 422, "invalid") /\ Handler!CountOne("validation_failed")
    BY <1>4, WritesOfHandler, CountOfHandler DEF Invalid, WriteError
  <2>2. Handler!Invalid("r")
    BY <1>s, <1>k, <2>1 DEF Handler!Invalid
  <2>. QED
    BY <1>t, <2>2 DEF Handler!Serve, Handler!Step
<1>5. CASE Receive
  <2>1. HandlerStage(stage') = "render" /\ answer' = answer /\ Handler!CountOne("received")
    BY <1>5, StageOfHandler, CountOfHandler DEF Receive, Goto
  <2>2. Handler!Receive("r")
    BY <1>s, <1>k, <2>1 DEF Handler!Receive, Handler!Goto
  <2>. QED
    BY <1>t, <2>2 DEF Handler!Serve, Handler!Step
<1>. QED
  BY <1>1, <1>2, <1>3, <1>4, <1>5

(* Rendering, the recipients of api mode, and dry-run. *)
LEMMA RenderOfHandler ==
  ASSUME TypeOK, RenderFails \/ BadOverride \/ Prepare
  PROVE  Handler!Serve("r")
<1>t. /\ endpoint' = endpoint /\ metric \in [Metrics -> Nat] /\ stage = "render"
      /\ metric' = metric
  BY DEF TypeOK, RenderFails, BadOverride, Prepare, Keep, At
<1>s. Handler!At("r", "render")
  BY <1>t, StageOfHandler DEF Handler!At
<1>k. Handler!RequestOnly /\ Handler!KeepRequest
  BY <1>t, HandlerKeeps
<1>1. CASE stage' = "done"
  <2>1. \/ Handler!Respond("r", 500, "render_failed")
        \/ ApiMode(endpoint) /\ Handler!Respond("r", 422, "bad_override")
        \/ endpoint.dryRun /\ Handler!Respond("r", 200, "dry_run")
    <3>1. RenderFails => Handler!Respond("r", 500, "render_failed")
      BY WritesOfHandler DEF RenderFails, WriteText
    <3>2. BadOverride => ApiMode(endpoint) /\ Handler!Respond("r", 422, "bad_override")
      BY WritesOfHandler DEF BadOverride, OverrideFails, Overridden
    <3>3. Prepare => endpoint.dryRun /\ Handler!Respond("r", 200, "dry_run")
      BY <1>1, WritesOfHandler DEF Prepare, Goto
    <3>. QED
      BY <3>1, <3>2, <3>3
  <2>2. Handler!StopAtRender("r")
    BY <1>t, <1>s, <1>k, <2>1 DEF Handler!StopAtRender, Handler!ApiMode, Handler!DryRun
  <2>. QED
    BY <1>t, <2>2 DEF Handler!Serve, Handler!Step
<1>2. CASE stage' # "done"
  <2>1. ~endpoint.dryRun /\ stage' = "send" /\ answer' = answer
    BY <1>2 DEF RenderFails, BadOverride, Prepare, WriteText, Write, Goto
  <2>2. Handler!StartSend("r")
    BY <1>t, <1>s, <1>k, <2>1, StageOfHandler DEF Handler!StartSend, Handler!Goto, Handler!DryRun
  <2>. QED
    BY <1>t, <2>2 DEF Handler!Serve, Handler!Step
<1>. QED
  BY <1>1, <1>2

(* The one Send: accepted, or failed for good; and the latency after it. *)
LEMMA SendOfHandler ==
  ASSUME TypeOK, Send \/ SendFails \/ Observe
  PROVE  Handler!Serve("r")
<1>t. endpoint' = endpoint /\ metric \in [Metrics -> Nat]
  BY DEF TypeOK, Send, SendFails, Observe, Keep
<1>n. {"sent", "failed", "latency"} \subseteq Metrics
  BY DEF Metrics
<1>1. CASE Send
  <2>1. Handler!At("r", "send") /\ HandlerStage(stage') = "observe" /\ answer' = answer
    BY <1>1, StageOfHandler DEF Send, At, Goto, Handler!At
  <2>2. Handler!CountOne("sent") /\ metric'["sent"] = metric["sent"] + 1
    BY <1>1, <1>t, <1>n, CountOfHandler DEF Send, CountOne
  <2>3. Handler!Deliver("r", "accepted") /\ Handler!Sent("r")
    BY <2>1, <2>2 DEF Handler!Deliver, Handler!Sent, Handler!Goto
  <2>4. Handler!FirstSend("r")
    BY <2>1, <2>3 DEF Handler!FirstSend, Handler!Outcomes, Handler!RequestOnly,
                      Handler!cacheVars, Handler!limiterVars
  <2>. QED
    BY <1>t, <2>4 DEF Handler!Serve, Handler!Step
<1>2. CASE SendFails
  <2>1. Handler!At("r", "send")
    BY <1>2, StageOfHandler DEF SendFails, At, Handler!At
  <2>2. metric'["sent"] = metric["sent"]
    BY <1>2, <1>t, <1>n DEF SendFails, CountOne
  <2>3. Handler!Deliver("r", "terminal") /\ Handler!Failed("r")
    BY <1>2, <2>2, WritesOfHandler, CountOfHandler
    DEF SendFails, WriteText, Handler!Deliver, Handler!Failed
  <2>4. Handler!FirstSend("r")
    BY <2>1, <2>3 DEF Handler!FirstSend, Handler!Outcomes, Handler!Retryable, Handler!RequestOnly,
                      Handler!cacheVars, Handler!limiterVars
  <2>. QED
    BY <1>t, <2>4 DEF Handler!Serve, Handler!Step
<1>3. CASE Observe
  <2>1. Handler!At("r", "observe")
    BY <1>3, StageOfHandler DEF Observe, At, Handler!At
  <2>2. Handler!RequestOnly /\ Handler!KeepRequest
    BY <1>3, <1>t, <1>n, HandlerKeeps DEF Observe
  <2>3. Handler!CountOne("latency") /\ Handler!Respond("r", 200, "ok")
    BY <1>3, WritesOfHandler, CountOfHandler DEF Observe, WriteSuccess
  <2>4. Handler!Observe("r")
    BY <2>1, <2>2, <2>3 DEF Handler!Observe
  <2>. QED
    BY <1>t, <2>4 DEF Handler!Serve, Handler!Step
<1>. QED
  BY <1>1, <1>2, <1>3

(* Before the request is there, and between the body and what reads it,      *)
(* Gateway does not move.                                                    *)
LEMMA StutterOfHandler ==
  ASSUME Load \/ (\E p \in Addresses : Travel(p)) \/ ParseBody \/ UNCHANGED vars
  PROVE  UNCHANGED Handler!vars
<1>1. UNCHANGED <<endpoint, answer, metric>>
  BY DEF Load, Travel, ParseBody, Keep, vars, pipelineVars
<1>2. HandlerStage(stage') = HandlerStage(stage)
  BY StageOfHandler DEF Load, Travel, ParseBody, At, Goto, vars, pipelineVars
<1>. QED
  BY <1>1, <1>2 DEF Handler!vars, Handler!requestVars, Handler!cacheVars, Handler!limiterVars

(* The pipeline with its data implements the pipeline without: every check   *)
(* that decides from the configuration and the request is one of the         *)
(* outcomes that Gateway leaves open, in the same order, with the same       *)
(* answer and the same counters.                                             *)
THEOREM Implements == Spec => ServesAsGateway
<1>1. ASSUME TypeOK, [Next]_vars PROVE [Handler!Next]_(Handler!vars)
  <2>1. CASE RefuseEntry \/ Enter
    BY <1>1, <2>1, EntryOfHandler DEF Handler!Next
  <2>2. CASE RejectBody \/ CatchHoneypot \/ RejectToken \/ Invalid \/ Receive
    BY <1>1, <2>2, BodyOfHandler DEF Handler!Next
  <2>3. CASE RenderFails \/ BadOverride \/ Prepare
    BY <1>1, <2>3, RenderOfHandler DEF Handler!Next
  <2>4. CASE Send \/ SendFails \/ Observe
    BY <1>1, <2>4, SendOfHandler DEF Handler!Next
  <2>5. CASE Load \/ (\E p \in Addresses : Travel(p)) \/ ParseBody \/ UNCHANGED vars
    BY <2>5, StutterOfHandler
  <2>. QED
    BY <1>1, <2>1, <2>2, <2>3, <2>4, <2>5 DEF Next
<1>. QED
  BY <1>1, InitOfHandler, TypeCorrect, PTL DEF Spec, ServesAsGateway, Handler!Spec
=============================================================================
