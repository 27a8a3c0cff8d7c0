--------------------------- MODULE DispatchProofs ---------------------------
(***************************************************************************)
(* Sending one message, for every set of recipients and of transports: its *)
(* types, that outcomes are honest and copies whole, that require_tls      *)
(* holds, that it implements Delivery, and that its steps go forward.      *)
(***************************************************************************)
EXTENDS Dispatch, TLAPS

(* The stages behind the upgrade. *)
Upgraded == {"auth", "mail", "rcpt", "data", "dot", "quit"}

(* The invariant.  An attempt has accepted nothing before its final dot or   *)
(* answer, which bounds the copies by the attempts; the envelope is complete *)
(* where DATA may be sent; TLS is on behind the upgrade.                     *)
IInv ==
  /\ TypeOK
  /\ phase \in Stages \cup {"dial"} => cfg.kind = "smtp"
  /\ phase = "http" => cfg.kind = "http"
  /\ copies <= attempt
  /\ ~copied => copies < attempt
  /\ copied => copies > 0 /\ phase \in {"quit", "backoff", "returned"}
  /\ phase = "quit" => copied
  /\ phase = "backoff" => attempt = 1
  /\ phase \in {"data", "dot"} => envelope = To
  /\ phase \in Upgraded /\ cfg.RequireTLS => secure
  /\ OutcomeIsHonest
  /\ CopiesAreWhole
  /\ RequireTLSHolds

(* The first attempt begins with nothing sent. *)
LEMMA InitIInv == Init => IInv
<1> SUFFICES ASSUME Init PROVE IInv
  OBVIOUS
<1>1. TypeOK
  <2>1. cfg \in Config
    BY DispatchAssumption DEF Init
  <2>2. attempt \in {1, 2} /\ copies \in 0..2
    BY DEF Init
  <2>3. phase \in Phases
    BY DEF Init, Phases
  <2>4. outcome \in Classes \cup {"none", "ok"}
    BY DEF Init
  <2>5. expired \in BOOLEAN /\ secure \in BOOLEAN /\ copied \in BOOLEAN
    BY DEF Init
  <2>6. /\ envelope \subseteq To /\ reached \subseteq To
        /\ exposed \subseteq {"credentials", "envelope", "message"}
    BY DEF Init
  <2>7. QED
    BY <2>1, <2>2, <2>3, <2>4, <2>5, <2>6 DEF TypeOK
<1>2. phase = "start" /\ copies = 0 /\ ~copied /\ attempt = 1 /\ exposed = {}
  BY DEF Init
<1>3. OutcomeIsHonest /\ CopiesAreWhole /\ RequireTLSHolds
  BY <1>2 DEF OutcomeIsHonest, CopiesAreWhole, RequireTLSHolds
<1>4. QED
  BY <1>1, <1>2, <1>3 DEF IInv, Stages, Upgraded

(* The end of an attempt leaves sendWithRetry waiting once, or done. *)
LEMMA EndFacts ==
  ASSUME NEW class, EndAttempt(class)
  PROVE  /\ outcome' = class
         /\ phase' \in {"backoff", "returned"}
         /\ phase' = "backoff" => attempt = 1
  BY DEF EndAttempt

(* A refusal is transient or terminal. *)
LEMMA RefusedFacts ==
  ASSUME Refused
  PROVE  /\ outcome' \in {"transient", "terminal"}
         /\ phase' \in {"backoff", "returned"}
         /\ phase' = "backoff" => attempt = 1
<1>1. PICK code \in Refusals : EndAttempt(ReplyClass(code))
  BY DEF Refused
<1>2. ReplyClass(code) \in {"transient", "terminal"}
  BY DEF ReplyClass
<1>3. QED
  BY <1>1, <1>2, EndFacts

(* Under TLS nothing is added to what is exposed. *)
LEMMA ExposeFacts ==
  ASSUME TypeOK, Expose
  PROVE  /\ exposed' \subseteq {"credentials", "envelope", "message"}
         /\ secure => exposed' = exposed
<1>1. Carries \subseteq {"credentials", "envelope", "message"}
  BY DEF Carries
<1>2. QED
  BY <1>1 DEF TypeOK, Expose

(* Steps that begin an attempt, or wait between two. *)
LEMMA PacingKeepsIInv ==
  ASSUME IInv, Begin \/ Reject \/ DialFails \/ Connects \/ BackoffOver \/ BackoffCut \/ Expire
  PROVE  IInv'
<1>0. cfg \in Config /\ cfg.kind \in {"http", "smtp"}
  BY DEF IInv, TypeOK, Config
<1>1. CASE Begin
  BY <1>0, <1>1
  DEF Begin, At, Goto, dialogueVars, providerVars, IInv, TypeOK, Phases, Stages, Classes,
      OutcomeIsHonest, CopiesAreWhole, RequireTLSHolds, Upgraded
<1>2. CASE Reject
  BY <1>2, EndFacts
  DEF Reject, At, dialogueVars, providerVars, IInv, TypeOK, Phases, Stages, Classes,
      OutcomeIsHonest, CopiesAreWhole, RequireTLSHolds, Upgraded
<1>3. CASE DialFails
  BY <1>3, EndFacts
  DEF DialFails, At, dialogueVars, providerVars, IInv, TypeOK, Phases, Stages, Classes,
      OutcomeIsHonest, CopiesAreWhole, RequireTLSHolds, Upgraded
<1>4. CASE Connects
  BY <1>4
  DEF Connects, At, Goto, dialogueVars, providerVars, IInv, TypeOK, Phases, Stages, Classes,
      OutcomeIsHonest, CopiesAreWhole, RequireTLSHolds, Upgraded
<1>5. CASE BackoffOver
  <2>1. /\ phase = "backoff" /\ phase' = "start" /\ outcome' = outcome /\ attempt' = 2
        /\ secure' = FALSE /\ envelope' = {} /\ copied' = FALSE
        /\ UNCHANGED <<cfg, expired, copies, reached, exposed>>
    BY <1>5 DEF BackoffOver, At, Goto
  <2>2. copies <= 1 /\ copies \in Nat
    BY <2>1 DEF IInv, TypeOK
  <2>3. TypeOK'
    BY <2>1 DEF IInv, TypeOK, Phases
  <2>4. QED
    BY <2>1, <2>2, <2>3
    DEF IInv, Stages, OutcomeIsHonest, CopiesAreWhole, RequireTLSHolds, Upgraded
<1>6. CASE BackoffCut
  BY <1>6
  DEF BackoffCut, At, Goto, dialogueVars, providerVars, IInv, TypeOK, Phases, Stages, Classes,
      OutcomeIsHonest, CopiesAreWhole, RequireTLSHolds, Upgraded
<1>7. CASE Expire
  BY <1>7
  DEF Expire, At, dialogueVars, providerVars, IInv, TypeOK, Phases, Stages, Classes,
      OutcomeIsHonest, CopiesAreWhole, RequireTLSHolds, Upgraded
<1>8. QED
  BY <1>1, <1>2, <1>3, <1>4, <1>5, <1>6, <1>7

(* An HTTP attempt that ends with a class that agrees with what the provider *)
(* did.                                                                      *)
LEMMA HttpEndKeepsIInv ==
  ASSUME IInv, phase = "http",
         NEW class \in Classes \cup {"ok"}, NEW yes \in BOOLEAN,
         EndAttempt(class), Accept(yes, To),
         class = "ok" => yes, class \in {"terminal", "rate_limited"} => ~yes,
         UNCHANGED <<cfg, attempt, expired, secure, envelope, exposed>>
  PROVE  IInv'
<1>1. /\ copied' = yes
      /\ copies' = IF yes THEN copies + 1 ELSE copies
      /\ reached' = IF yes THEN To ELSE reached
  BY DEF Accept
<1>2. /\ outcome' = class
      /\ phase' \in {"backoff", "returned"}
      /\ phase' = "backoff" => attempt = 1
  BY EndFacts
<1>3. ~copied /\ copies < attempt /\ attempt \in {1, 2} /\ copies \in 0..2
  BY DEF IInv, TypeOK
<1>4. copies' \in 0..2 /\ copies' <= attempt' /\ (~copied' => copies' < attempt')
  BY <1>1, <1>3
<1>5. TypeOK'
  BY <1>1, <1>2, <1>4 DEF IInv, TypeOK, Phases
<1>6. OutcomeIsHonest'
  BY <1>1, <1>2 DEF OutcomeIsHonest
<1>7. CopiesAreWhole'
  BY <1>1, <1>3 DEF IInv, CopiesAreWhole
<1>8. copied' => copies' > 0
  BY <1>1, <1>3
<1>9. QED
  BY <1>1, <1>2, <1>4, <1>5, <1>6, <1>7, <1>8
  DEF IInv, Stages, RequireTLSHolds, Upgraded

(* The provider's answer, or none. *)
LEMMA HttpKeepsIInv ==
  ASSUME IInv, HttpAnswers \/ HttpFails
  PROVE  IInv'
<1>1. phase = "http" /\ UNCHANGED <<cfg, attempt, expired, secure, envelope, exposed>>
  BY DEF HttpAnswers, HttpFails, At, dialogueVars
<1>2. CASE HttpFails
  <2>1. PICK yes \in BOOLEAN : Accept(yes, To)
    BY <1>2 DEF HttpFails
  <2>2. EndAttempt("transient")
    BY <1>2 DEF HttpFails
  <2>3. QED
    BY <1>1, <2>1, <2>2, HttpEndKeepsIInv DEF Classes
<1>3. CASE HttpAnswers
  <2>1. PICK s \in Statuses : \E yes \in ProviderAccepts(s) :
          Accept(yes, To) /\ EndAttempt(StatusClass(s))
    BY <1>3 DEF HttpAnswers
  <2>2. PICK yes \in ProviderAccepts(s) : Accept(yes, To) /\ EndAttempt(StatusClass(s))
    BY <2>1
  <2>3. s \in Nat
    BY DEF Statuses
  <2>4. yes \in BOOLEAN
    BY <2>3 DEF ProviderAccepts
  <2>5. StatusClass(s) \in Classes \cup {"ok"}
    BY <2>3 DEF StatusClass, Classes
  <2>6. StatusClass(s) = "ok" => yes
    <3>1. CASE s \in cfg.Success
      BY <2>4, <3>1 DEF ProviderAccepts
    <3>2. CASE s \notin cfg.Success
      BY <3>2 DEF StatusClass
    <3>3. QED
      BY <3>1, <3>2
  <2>7. StatusClass(s) \in {"terminal", "rate_limited"} => ~yes
    <3>1. CASE s \in cfg.Success
      BY <3>1 DEF StatusClass
    <3>2. CASE s \notin cfg.Success /\ s >= 500
      <4>1. s # 429
        BY <2>3, <3>2
      <4>2. QED
        BY <3>2, <4>1 DEF StatusClass
    <3>3. CASE s \notin cfg.Success /\ ~(s >= 500)
      BY <2>4, <3>3 DEF ProviderAccepts
    <3>4. QED
      BY <3>1, <3>2, <3>3
  <2>8. QED
    BY <1>1, <2>2, <2>4, <2>5, <2>6, <2>7, HttpEndKeepsIInv
<1>4. QED
  BY <1>2, <1>3

(* The dialogue up to the credentials. *)
LEMMA OpeningKeepsIInv ==
  ASSUME IInv, Greeting \/ Hello \/ StartTLS
  PROVE  IInv'
<1>1. CASE Greeting
  BY <1>1, EndFacts
  DEF Greeting, At, Goto, dialogueVars, providerVars, IInv, TypeOK, Phases, Stages, Classes,
      OutcomeIsHonest, CopiesAreWhole, RequireTLSHolds, Upgraded
<1>2. CASE Hello
  BY <1>2, EndFacts, RefusedFacts
  DEF Hello, At, Goto, dialogueVars, providerVars, IInv, TypeOK, Phases, Stages, Classes,
      OutcomeIsHonest, CopiesAreWhole, RequireTLSHolds, Upgraded
<1>3. CASE StartTLS
  <2>1. /\ phase = "starttls"
        /\ UNCHANGED <<cfg, attempt, expired, envelope, copied, copies, reached, exposed>>
    BY <1>3 DEF StartTLS, At, providerVars
  <2>2. \/ phase' = "auth" /\ secure' = TRUE /\ outcome' = outcome
        \/ /\ outcome' \in {"transient", "terminal"}
           /\ phase' \in {"backoff", "returned"} /\ (phase' = "backoff" => attempt = 1)
           /\ secure' = secure
    BY <1>3, EndFacts, RefusedFacts DEF StartTLS, Goto
  <2>3. ~copied /\ secure' \in BOOLEAN
    BY <2>1, <2>2 DEF IInv, TypeOK
  <2>4. TypeOK'
    BY <2>1, <2>2, <2>3 DEF IInv, TypeOK, Phases, Stages, Classes
  <2>5. QED
    BY <2>1, <2>2, <2>3, <2>4
    DEF IInv, TypeOK, Stages, OutcomeIsHonest, CopiesAreWhole, RequireTLSHolds, Upgraded
<1>4. QED
  BY <1>1, <1>2, <1>3

(* What is known of an attempt that has been broken off before its final     *)
(* answer: nothing was accepted in it.                                       *)
LEMMA BrokenOffKeepsIInv ==
  ASSUME IInv, phase \in Stages \ {"quit"},
         outcome' \in Classes, phase' \in {"backoff", "returned"},
         phase' = "backoff" => attempt = 1,
         UNCHANGED <<cfg, attempt, expired, secure, copied, copies, reached>>,
         envelope' \subseteq To, Expose \/ exposed' = exposed
  PROVE  IInv'
<1>1. /\ exposed' \subseteq {"credentials", "envelope", "message"}
      /\ secure => exposed' = exposed
  BY ExposeFacts DEF IInv, TypeOK
<1>2. ~copied
  BY DEF IInv, Stages
<1>3. TypeOK'
  BY <1>1 DEF IInv, TypeOK, Phases
<1>4. RequireTLSHolds'
  <2>1. CASE exposed' = exposed
    BY <2>1 DEF IInv, RequireTLSHolds
  <2>2. CASE Expose /\ phase \in Upgraded
    BY <1>1, <2>2 DEF IInv, RequireTLSHolds
  <2>3. CASE Expose /\ phase \notin Upgraded
    BY <2>3 DEF Expose, Carries, Upgraded, IInv, TypeOK, At, RequireTLSHolds
  <2>4. QED
    BY <2>1, <2>2, <2>3
<1>5. OutcomeIsHonest' /\ CopiesAreWhole'
  BY <1>2 DEF IInv, OutcomeIsHonest, CopiesAreWhole, Classes
<1>6. phase' \notin Stages \cup {"dial", "http"} \cup Upgraded
  BY DEF Stages, Upgraded
<1>7. QED
  BY <1>2, <1>3, <1>4, <1>5, <1>6 DEF IInv, Stages

(* The dialogue from the credentials to DATA. *)
LEMMA EnvelopeKeepsIInv ==
  ASSUME IInv, Auth \/ Mail \/ Rcpt \/ Data \/ BadAddress
  PROVE  IInv'
<1>1. /\ phase \in {"auth", "mail", "rcpt", "data"}
      /\ UNCHANGED <<cfg, attempt, expired, secure, copied, copies, reached>>
      /\ Expose \/ exposed' = exposed
  BY DEF Auth, Mail, Rcpt, Data, BadAddress, At, NothingAccepted, dialogueVars, providerVars
<1>2. /\ envelope' \subseteq To
      /\ phase' = "data" => envelope' = To
      /\ phase = "data" => envelope' = envelope
      /\ \/ outcome' = outcome /\ phase' \in {"mail", "rcpt", "data", "dot"}
         \/ /\ outcome' \in {"transient", "terminal"}
            /\ phase' \in {"backoff", "returned"} /\ (phase' = "backoff" => attempt = 1)
      /\ phase' = "dot" => phase = "data"
  <2>1. CASE Auth
    BY <2>1, EndFacts, RefusedFacts DEF Auth, At, Goto, dialogueVars, IInv, TypeOK
  <2>2. CASE Mail
    BY <2>2, RefusedFacts DEF Mail, At, Goto, dialogueVars, IInv, TypeOK
  <2>3. CASE Rcpt
    <3>1. CASE Refused /\ UNCHANGED envelope
      BY <2>3, <3>1, RefusedFacts DEF Rcpt, At, IInv, TypeOK
    <3>2. CASE /\ \E t \in To \ envelope : envelope' = envelope \cup {t}
               /\ Goto(IF envelope' = To THEN "data" ELSE "rcpt")
      BY <2>3, <3>2 DEF Rcpt, At, Goto, IInv, TypeOK
    <3>3. QED
      BY <2>3, <3>1, <3>2 DEF Rcpt
  <2>4. CASE Data
    BY <2>4, RefusedFacts DEF Data, At, Goto, dialogueVars, IInv, TypeOK
  <2>5. CASE BadAddress
    BY <2>5, EndFacts DEF BadAddress, At, dialogueVars, IInv, TypeOK
  <2>6. QED
    BY <2>1, <2>2, <2>3, <2>4, <2>5
<1>3. CASE phase' \in {"backoff", "returned"}
  BY <1>1, <1>2, <1>3, BrokenOffKeepsIInv DEF Stages, Classes
<1>4. CASE phase' \in {"mail", "rcpt", "data", "dot"}
  <2>1. outcome' = outcome
    BY <1>2, <1>4
  <2>2. /\ exposed' \subseteq {"credentials", "envelope", "message"}
        /\ secure => exposed' = exposed
    BY <1>1, ExposeFacts DEF IInv, TypeOK
  <2>3. TypeOK'
    BY <1>1, <1>2, <1>4, <2>1, <2>2 DEF IInv, TypeOK, Phases, Stages
  <2>4. RequireTLSHolds'
    BY <1>1, <2>2 DEF IInv, RequireTLSHolds, Upgraded
  <2>5. ~copied /\ cfg.kind = "smtp"
    BY <1>1 DEF IInv, Stages
  <2>6. phase' \in {"data", "dot"} => envelope' = To
    BY <1>2 DEF IInv
  <2>7. QED
    BY <1>1, <1>4, <2>1, <2>3, <2>4, <2>5, <2>6
    DEF IInv, OutcomeIsHonest, CopiesAreWhole, Upgraded, Stages
<1>5. QED
  BY <1>2, <1>3, <1>4

(* The end of the dialogue, and a broken connection. *)
LEMMA ClosingKeepsIInv ==
  ASSUME IInv, Dot \/ Quit \/ LinkBreaks
  PROVE  IInv'
<1>1. CASE Quit
  BY <1>1, EndFacts
  DEF Quit, At, dialogueVars, providerVars, IInv, TypeOK, Phases, Stages, Classes,
      OutcomeIsHonest, CopiesAreWhole, RequireTLSHolds, Upgraded
<1>2. CASE phase = "dot" /\ Accept(TRUE, envelope) /\ (Dot \/ LinkBreaks)
  <2>1. /\ UNCHANGED <<cfg, attempt, expired, secure, envelope>>
        /\ copied' /\ copied' \in BOOLEAN /\ copies' = copies + 1 /\ reached' = envelope
        /\ Expose
    BY <1>2 DEF Dot, LinkBreaks, Accept, dialogueVars
  <2>2. /\ exposed' \subseteq {"credentials", "envelope", "message"}
        /\ secure => exposed' = exposed
    BY <2>1, ExposeFacts DEF IInv, TypeOK
  <2>3. \/ phase' = "quit" /\ outcome' = outcome
        \/ outcome' = "transient" /\ phase' \in {"backoff", "returned"}
           /\ (phase' = "backoff" => attempt = 1)
    <3>1. CASE LinkBreaks
      BY <3>1, EndFacts DEF LinkBreaks
    <3>2. CASE Dot
      <4>1. ~Accept(FALSE, envelope)
        BY <2>1 DEF Accept
      <4>2. QED
        BY <3>2, <4>1 DEF Dot, Goto
    <3>3. QED
      BY <1>2, <3>1, <3>2
  <2>4. /\ copies' \in 0..2 /\ copies' <= attempt' /\ copies' > 0
        /\ envelope = To /\ cfg.kind = "smtp"
    BY <1>2, <2>1 DEF IInv, TypeOK, Stages
  <2>5. TypeOK'
    BY <2>1, <2>2, <2>3, <2>4 DEF IInv, TypeOK, Phases, Stages, Classes
  <2>6. CopiesAreWhole' /\ OutcomeIsHonest'
    BY <2>1, <2>3, <2>4 DEF CopiesAreWhole, OutcomeIsHonest
  <2>7. RequireTLSHolds' /\ (cfg.RequireTLS => secure)
    BY <1>2, <2>1, <2>2 DEF IInv, RequireTLSHolds, Upgraded
  <2>8. QED
    BY <2>1, <2>3, <2>4, <2>5, <2>6, <2>7 DEF IInv, Stages, Upgraded
<1>3. CASE Dot /\ ~Accept(TRUE, envelope)
  <2>1. phase = "dot" /\ Accept(FALSE, envelope) /\ Refused /\ Expose
    BY <1>3 DEF Dot, At
  <2>2. UNCHANGED <<cfg, attempt, expired, secure, envelope>>
    BY <1>3 DEF Dot, dialogueVars
  <2>3. UNCHANGED <<copied, copies, reached>>
    BY <2>1 DEF Accept, IInv, TypeOK
  <2>4. QED
    BY <2>1, <2>2, <2>3, RefusedFacts, BrokenOffKeepsIInv DEF Stages, Classes, IInv, TypeOK
<1>4. CASE LinkBreaks /\ NothingAccepted
  <2>1. /\ phase \in Stages \ {"quit"} /\ Expose /\ EndAttempt("transient")
        /\ UNCHANGED <<cfg, attempt, expired, secure, envelope, copied, copies, reached>>
    BY <1>4 DEF LinkBreaks, NothingAccepted, dialogueVars
  <2>2. QED
    BY <2>1, EndFacts, BrokenOffKeepsIInv DEF Classes, IInv, TypeOK
<1>5. QED
  BY <1>1, <1>2, <1>3, <1>4 DEF Dot, LinkBreaks, At

(* The invariant is inductive. *)
LEMMA NextIInv == IInv /\ [Next]_vars => IInv'
<1> SUFFICES ASSUME IInv, [Next]_vars PROVE IInv'
  OBVIOUS
<1>1. CASE UNCHANGED vars
  <2>1. UNCHANGED <<cfg, attempt, phase, expired, outcome, secure, envelope, copied, copies,
                    reached, exposed>>
    BY <1>1 DEF vars, dialogueVars, providerVars
  <2>2. QED
    BY <2>1
    DEF IInv, TypeOK, Phases, Stages, Classes, OutcomeIsHonest, CopiesAreWhole,
        RequireTLSHolds, Upgraded
<1>2. CASE Local \/ Connects \/ Expire
  BY <1>2, PacingKeepsIInv, HttpKeepsIInv DEF Local
<1>3. CASE Relay
  BY <1>3, OpeningKeepsIInv, EnvelopeKeepsIInv, ClosingKeepsIInv DEF Relay
<1>4. CASE HttpAnswers \/ BadAddress
  BY <1>4, HttpKeepsIInv, EnvelopeKeepsIInv
<1>5. QED
  BY <1>1, <1>2, <1>3, <1>4 DEF Next

LEMMA Inductive == Spec => []IInv
  BY InitIInv, NextIInv, PTL DEF Spec

(* The variables keep their types; in particular no attempt, and no retry,   *)
(* makes a third copy.                                                       *)
THEOREM TypeCorrect == Spec => []TypeOK
<1>1. IInv => TypeOK
  BY DEF IInv
<1>2. QED
  BY <1>1, Inductive, PTL

(* What Send reports of an attempt agrees with what the provider did, over   *)
(* every transport (smtpout.go:120-225 and the HTTP transports' Send).       *)
THEOREM Honest == Spec => []OutcomeIsHonest
<1>1. IInv => OutcomeIsHonest
  BY DEF IInv
<1>2. QED
  BY <1>1, Inductive, PTL

(* However many recipients a message has, a copy reached all of them.        *)
THEOREM WholeCopies == Spec => []CopiesAreWhole
<1>1. IInv => CopiesAreWhole
  BY DEF IInv
<1>2. QED
  BY <1>1, Inductive, PTL

(* require_tls keeps everything off the plaintext channel.                   *)
THEOREM Encrypted == Spec => []RequireTLSHolds
<1>1. IInv => RequireTLSHolds
  BY DEF IInv
<1>2. QED
  BY <1>1, Inductive, PTL

(* The report is made by the step that returns, and no step follows it. *)
LEMMA StepIsProgress ==
  ASSUME IInv, IInv', [Next]_vars
  PROVE  [Promise!Progress]_Promise!vars
<1>1. CASE UNCHANGED vars
  BY <1>1 DEF vars, providerVars, Promise!vars, Report, At
<1>2. CASE Next
  <2>1. phase # "returned"
    BY <1>2
    DEF Next, Local, Relay, Begin, Reject, HttpFails, DialFails, BackoffOver, BackoffCut,
        Greeting, Hello, StartTLS, Auth, Mail, Rcpt, Data, Dot, Quit, LinkBreaks,
        HttpAnswers, Connects, BadAddress, Expire, At, Stages
  <2>2. copies' \in {copies, copies + 1}
    BY <1>2
    DEF Next, Local, Relay, Begin, Reject, HttpFails, DialFails, BackoffOver, BackoffCut,
        Greeting, Hello, StartTLS, Auth, Mail, Rcpt, Data, Dot, Quit, LinkBreaks,
        HttpAnswers, Connects, BadAddress, Expire, Accept, NothingAccepted, providerVars
  <2>3. copies' <= 2
    BY DEF IInv, TypeOK
  <2>4. Report = "none"
    BY <2>1 DEF Report, At
  <2>5. Report' \in {"none", "ok", "failed"}
    BY DEF Report
  <2>6. Report' = "ok" => copies' > 0
    BY DEF Report, At, IInv, OutcomeIsHonest
  <2>7. QED
    BY <2>2, <2>3, <2>4, <2>5, <2>6 DEF Promise!Progress
<1>3. QED
  BY <1>1, <1>2

(* sendWithRetry over any of the transports implements Delivery: at most two *)
(* copies, "ok" only with one, and silence after the report.                 *)
THEOREM Implements == Spec => KeepsDeliveryPromise
<1>1. Init => Promise!Init
  BY DEF Init, Promise!Init, Report, At
<1>2. QED
  BY <1>1, Inductive, StepIsProgress, PTL DEF Spec, KeepsDeliveryPromise, Promise!Spec

-----------------------------------------------------------------------------
(* The commands of the dialogue in the order of the code, and one before     *)
(* another.                                                                  *)
Dialogue == <<"start", "http", "dial", "greeting", "hello", "starttls", "auth", "mail",
              "rcpt", "data", "dot", "quit", "backoff", "returned">>

Before(s, t) == \E i, j \in DOMAIN Dialogue : i < j /\ Dialogue[i] = s /\ Dialogue[j] = t

(* The second attempt begins, the attempt comes to a later command, or one   *)
(* more recipient is granted.                                                *)
Advances ==
  \/ attempt = 1 /\ attempt' = 2
  \/ attempt' = attempt /\ Before(phase, phase')
  \/ attempt' = attempt /\ phase' = phase /\ \E t \in To \ envelope : envelope' = envelope \cup {t}

LEMMA BeforeFacts ==
  /\ \A s \in Phases \ {"backoff", "returned"} : \A t \in {"backoff", "returned"} : Before(s, t)
  /\ Before("backoff", "returned")
  /\ Before("start", "http") /\ Before("start", "dial") /\ Before("dial", "greeting")
  /\ Before("greeting", "hello") /\ Before("hello", "starttls") /\ Before("hello", "auth")
  /\ Before("starttls", "auth") /\ Before("auth", "mail") /\ Before("mail", "rcpt")
  /\ Before("rcpt", "data") /\ Before("data", "dot") /\ Before("dot", "quit")
<1>1. DOMAIN Dialogue = 1..14
  BY DEF Dialogue
<1>2. \A i \in 1..12 : \A j \in {13, 14} : Before(Dialogue[i], Dialogue[j])
  BY <1>1 DEF Before
<1>3. \A s \in Phases \ {"backoff", "returned"} : \E i \in 1..12 : Dialogue[i] = s
  BY DEF Phases, Stages, Dialogue
<1>4. Dialogue[13] = "backoff" /\ Dialogue[14] = "returned"
  BY DEF Dialogue
<1>5. \A s \in Phases \ {"backoff", "returned"} : \A t \in {"backoff", "returned"} : Before(s, t)
  BY <1>2, <1>3, <1>4
<1>6. QED
  BY <1>1, <1>5 DEF Before, Dialogue

(* An attempt that ends comes to the backoff or returns, wherever it was. *)
LEMMA EndAdvances ==
  ASSUME NEW class, EndAttempt(class), phase \in Phases \ {"backoff", "returned"},
         attempt' = attempt
  PROVE  Advances
<1>1. phase' \in {"backoff", "returned"}
  BY DEF EndAttempt
<1>2. QED
  BY <1>1, BeforeFacts DEF Advances

LEMMA RefusalAdvances ==
  ASSUME Refused, phase \in Phases \ {"backoff", "returned"}, attempt' = attempt
  PROVE  Advances
  BY EndAdvances DEF Refused

LEMMA StepAdvances ==
  ASSUME IInv, Next, ~Expire
  PROVE  Advances
<1> USE DEF At, Goto
<1>1. CASE Begin \/ Reject \/ HttpFails \/ HttpAnswers \/ DialFails \/ Connects
  BY <1>1, EndAdvances, BeforeFacts
  DEF Begin, Reject, HttpFails, HttpAnswers, DialFails, Connects, Phases, Advances
<1>2. CASE BackoffOver \/ BackoffCut
  BY <1>2, BeforeFacts DEF BackoffOver, BackoffCut, Advances, IInv
<1>3. CASE Greeting \/ Hello \/ StartTLS
  BY <1>3, EndAdvances, RefusalAdvances, BeforeFacts
  DEF Greeting, Hello, StartTLS, Phases, Stages, Advances
<1>4. CASE Auth \/ BadAddress \/ Mail
  BY <1>4, EndAdvances, RefusalAdvances, BeforeFacts
  DEF Auth, BadAddress, Mail, Phases, Stages, Advances
<1>5. CASE Rcpt
  BY <1>5, RefusalAdvances, BeforeFacts DEF Rcpt, Phases, Stages, Advances
<1>6. CASE Data \/ Dot \/ Quit
  BY <1>6, EndAdvances, RefusalAdvances, BeforeFacts
  DEF Data, Dot, Quit, Phases, Stages, Advances
<1>7. CASE LinkBreaks
  BY <1>7, EndAdvances DEF LinkBreaks, Phases, Stages
<1>8. QED
  BY <1>1, <1>2, <1>3, <1>4, <1>5, <1>6, <1>7 DEF Next, Local, Relay

(* No command is sent twice in an attempt, no recipient is named twice, and   *)
(* no attempt follows the second: whatever the relay answers, every step but  *)
(* the end of the context brings sendWithRetry nearer to its return.  It is   *)
(* what SendEnds needs beside fairness.                                       *)
THEOREM SendGoesForward == Spec => [][Advances \/ Expire]_vars
<1>1. IInv /\ [Next]_vars => [Advances \/ Expire]_vars
  BY StepAdvances
<1>2. QED
  BY <1>1, Inductive, PTL DEF Spec
=============================================================================
