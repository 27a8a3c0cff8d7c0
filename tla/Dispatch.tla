------------------------------ MODULE Dispatch ------------------------------
(***************************************************************************)
(* Sending one message: sendWithRetry of core/gateway/handler.go over a    *)
(* transport of core/transport, down to what the provider gets to see.     *)
(*                                                                         *)
(*   start -> http                                          -> returned    *)
(*   start -> dial -> greeting -> hello -> starttls -> auth                *)
(*         -> mail -> rcpt -> data -> dot -> quit           -> returned    *)
(*   ... -> backoff -> start: the one retry, of the whole attempt          *)
(*                                                                         *)
(* From greeting to quit Send writes its command and waits for the relay,  *)
(* which acts on the command before it answers; the connection may break   *)
(* before the answer or on its way.                                        *)
(***************************************************************************)
EXTENDS Naturals, FiniteSets

CONSTANTS
  To,        \* the recipients of the message (msg.To)
  Configs    \* the transports it may be sent with

(* A transport: an HTTP api with the statuses it takes for success, or an    *)
(* SMTP relay, which may be on the local host.                               *)
Statuses == {200, 202, 304, 400, 429, 500}
Config ==
  [kind : {"http"}, Success : SUBSET {200, 202}]
    \cup [kind : {"smtp"}, RequireTLS : BOOLEAN, Local : BOOLEAN]

ASSUME DispatchAssumption == To # {} /\ Configs \subseteq Config

VARIABLES
  cfg,       \* the transport
  attempt,   \* 1, or 2 for the retry
  phase,     \* where in sendWithRetry and Send the message is
  expired,   \* the context has ended: FR22's 10 s, or the client is gone
  outcome,   \* of the last attempt that ended: a class, or "ok"
  secure,    \* TLS is on
  envelope,  \* the recipients the relay has granted in this dialogue
  copied,    \* the provider accepted the message in this attempt
  copies,    \* how often it did
  reached,   \* the recipients of the last copy
  exposed    \* what crossed the network in plaintext

dialogueVars == <<secure, envelope>>
providerVars == <<copied, copies, reached, exposed>>
vars == <<cfg, attempt, phase, expired, outcome, dialogueVars, providerVars>>

Stages == {"greeting", "hello", "starttls", "auth", "mail", "rcpt", "data", "dot", "quit"}
Phases == {"start", "http", "dial", "backoff", "returned"} \cup Stages
Classes == {"transient", "rate_limited", "terminal"}

TypeOK ==
  /\ cfg \in Config
  /\ attempt \in {1, 2}
  /\ phase \in Phases
  /\ outcome \in Classes \cup {"none", "ok"}
  /\ expired \in BOOLEAN /\ secure \in BOOLEAN /\ copied \in BOOLEAN
  /\ envelope \subseteq To /\ reached \subseteq To
  /\ copies \in 0..2
  /\ exposed \subseteq {"credentials", "envelope", "message"}

Init ==
  /\ cfg \in Configs
  /\ attempt = 1
  /\ phase = "start"
  /\ expired = FALSE
  /\ outcome = "none"
  /\ secure = FALSE
  /\ envelope = {}
  /\ copied = FALSE
  /\ copies = 0
  /\ reached = {}
  /\ exposed = {}
-----------------------------------------------------------------------------
At(p) == phase = p
Goto(p) == phase' = p /\ UNCHANGED outcome

Retryable == {"transient", "rate_limited"}

(* Mutants of EndAttempt: a retryable class is given another attempt each   *)
(* time; the same for the answer 429 only.                                  *)
EndAttemptUncounted(class) ==
  /\ outcome' = class
  /\ phase' = IF class \in Retryable THEN "backoff" ELSE "returned"

EndAttemptOn429(class) ==
  /\ outcome' = class
  /\ phase' = IF class = "rate_limited" \/ (class \in Retryable /\ attempt = 1)
              THEN "backoff" ELSE "returned"

(* Send returns: a retryable class is given a second attempt, once. *)
EndAttempt(class) ==
  /\ outcome' = class
  /\ phase' = IF class \in Retryable /\ attempt = 1 THEN "backoff" ELSE "returned"

(* Whether the provider accepted the message for the recipients in whom. *)
Accept(yes, whom) ==
  /\ copied' = yes
  /\ copies' = IF yes THEN copies + 1 ELSE copies
  /\ reached' = IF yes THEN whom ELSE reached

(* What the command of this stage carries, and with it what a stranger on   *)
(* the network can read if TLS is off.  PlainAuth gives the password to an   *)
(* encrypted or a local relay only.                                          *)
Carries ==
  CASE At("auth") /\ (secure \/ cfg.Local) -> {"credentials"}
    [] phase \in {"mail", "rcpt"}          -> {"envelope"}
    [] At("dot")                           -> {"message"}
    [] OTHER                               -> {}
Expose == exposed' = IF secure THEN exposed ELSE exposed \cup Carries

NothingAccepted == UNCHANGED <<copied, copies, reached>>
-----------------------------------------------------------------------------
(* The start of Send.  A message that cannot be encoded, or has CR or LF in  *)
(* a header (validateNoHeaderCRLF), ends it.                                 *)

Begin ==
  /\ At("start")
  /\ Goto(IF cfg.kind = "http" THEN "http" ELSE "dial")
  /\ UNCHANGED <<cfg, attempt, expired, dialogueVars, providerVars>>

Reject ==
  /\ At("start")
  /\ EndAttempt("terminal")
  /\ UNCHANGED <<cfg, attempt, expired, dialogueVars, providerVars>>
-----------------------------------------------------------------------------
(* The HTTP transports.  A provider accepts with one of its success          *)
(* statuses, and may have accepted behind a 5xx; a 429 or 4xx refuses.       *)

StatusClass(s) ==
  IF s \in cfg.Success THEN "ok"
  ELSE IF s = 429 THEN "rate_limited"
  ELSE IF s >= 500 THEN "transient" ELSE "terminal"

ProviderAccepts(s) == IF s \in cfg.Success THEN {TRUE}
                      ELSE IF s >= 500 THEN BOOLEAN ELSE {FALSE}

HttpAnswers ==
  /\ At("http")
  /\ \E s \in Statuses : \E yes \in ProviderAccepts(s) :
       Accept(yes, To) /\ EndAttempt(StatusClass(s))
  /\ UNCHANGED <<cfg, attempt, expired, dialogueVars, exposed>>

(* No answer: the network, http.Client's 5 s, or the context. *)
HttpFails ==
  /\ At("http")
  /\ \E yes \in BOOLEAN : Accept(yes, To)
  /\ EndAttempt("transient")
  /\ UNCHANGED <<cfg, attempt, expired, dialogueVars, exposed>>
-----------------------------------------------------------------------------
(* The SMTP transport.  The context, and with it smtpRequestTimeout, bounds  *)
(* the dial; after it nothing does.                                          *)

DialFails ==
  /\ At("dial")
  /\ EndAttempt("transient")
  /\ UNCHANGED <<cfg, attempt, expired, dialogueVars, providerVars>>

Connects ==
  /\ At("dial")
  /\ ~expired
  /\ Goto("greeting")
  /\ UNCHANGED <<cfg, attempt, expired, dialogueVars, providerVars>>

(* classifySMTPError: a 5xx is terminal, any other unexpected answer is not. *)
Refusals == {"temporary", "permanent"}
ReplyClass(code) == IF code = "permanent" THEN "terminal" ELSE "transient"
Refused == \E code \in Refusals : EndAttempt(ReplyClass(code))

(* smtp.NewClient reads the greeting inside the dial, so every failure of it *)
(* is one of the dial.                                                       *)
Greeting ==
  /\ At("greeting")
  /\ Goto("hello") \/ EndAttempt("transient")
  /\ UNCHANGED <<cfg, attempt, expired, dialogueVars, providerVars>>

(* Mutant of Hello: an upgrade that is not offered is not made. *)
HelloOpportunistic ==
  /\ At("hello")
  /\ Goto("auth") \/ (cfg.RequireTLS /\ Goto("starttls")) \/ Refused
  /\ UNCHANGED <<cfg, attempt, expired, dialogueVars, providerVars>>

(* The answer to EHLO, which offers STARTTLS or does not.  It is used when   *)
(* require_tls is set, and only then.                                        *)
Hello ==
  /\ At("hello")
  /\ \/ ~cfg.RequireTLS /\ Goto("auth")
     \/ cfg.RequireTLS /\ Goto("starttls")
     \/ cfg.RequireTLS /\ EndAttempt("terminal")
     \/ Refused
  /\ UNCHANGED <<cfg, attempt, expired, dialogueVars, providerVars>>

StartTLS ==
  /\ At("starttls")
  /\ \/ Goto("auth") /\ secure' = TRUE
     \/ Refused /\ UNCHANGED secure
     \/ EndAttempt("transient") /\ UNCHANGED secure   \* the handshake fails
  /\ UNCHANGED <<cfg, attempt, expired, envelope, providerVars>>

(* PlainAuth's own refusal is no SMTP reply, hence transient. *)
Auth ==
  /\ At("auth")
  /\ \/ Carries # {} /\ (Goto("mail") \/ Refused)
     \/ Carries = {} /\ EndAttempt("transient")
  /\ Expose
  /\ NothingAccepted
  /\ UNCHANGED <<cfg, attempt, expired, dialogueVars>>

(* envelopeAddress fails before MAIL, or before the RCPT of one recipient. *)
BadAddress ==
  /\ At("mail") \/ At("rcpt")
  /\ EndAttempt("terminal")
  /\ UNCHANGED <<cfg, attempt, expired, dialogueVars, providerVars>>

Mail ==
  /\ At("mail")
  /\ Goto("rcpt") \/ Refused
  /\ Expose
  /\ NothingAccepted
  /\ UNCHANGED <<cfg, attempt, expired, dialogueVars>>

(* Mutant of Rcpt: the message goes to those the relay grants. *)
RcptSkips ==
  /\ At("rcpt")
  /\ \E granted \in SUBSET To : envelope' = granted
  /\ Goto("data")
  /\ Expose
  /\ NothingAccepted
  /\ UNCHANGED <<cfg, attempt, expired, secure>>

Rcpt ==
  /\ At("rcpt")
  /\ \/ /\ \E t \in To \ envelope : envelope' = envelope \cup {t}
        /\ Goto(IF envelope' = To THEN "data" ELSE "rcpt")
     \/ Refused /\ UNCHANGED envelope
  /\ Expose
  /\ NothingAccepted
  /\ UNCHANGED <<cfg, attempt, expired, secure>>

Data ==
  /\ At("data")
  /\ Goto("dot") \/ Refused
  /\ UNCHANGED <<cfg, attempt, expired, dialogueVars, providerVars>>

(* The answer to the final dot decides. *)
Dot ==
  /\ At("dot")
  /\ \/ Accept(TRUE, envelope) /\ Goto("quit")
     \/ Accept(FALSE, envelope) /\ Refused
  /\ Expose
  /\ UNCHANGED <<cfg, attempt, expired, dialogueVars>>

(* Mutant of Quit: its error is returned like that of any command. *)
QuitReported ==
  /\ At("quit")
  /\ EndAttempt("ok") \/ Refused
  /\ UNCHANGED <<cfg, attempt, expired, dialogueVars, providerVars>>

(* QUIT is awaited and its answer ignored. *)
Quit ==
  /\ At("quit")
  /\ EndAttempt("ok")
  /\ UNCHANGED <<cfg, attempt, expired, dialogueVars, providerVars>>

(* The connection breaks.  The relay may have acted on the last command; it *)
(* may have accepted the message behind the final dot.                      *)
LinkBreaks ==
  /\ phase \in Stages \ {"quit"}
  /\ EndAttempt("transient")
  /\ (At("dot") /\ Accept(TRUE, envelope)) \/ NothingAccepted
  /\ Expose
  /\ UNCHANGED <<cfg, attempt, expired, dialogueVars>>
-----------------------------------------------------------------------------
(* Between the attempts: 1 s, or 5 s after a 429, or the context. *)

BackoffOver ==
  /\ At("backoff")
  /\ attempt' = 2
  /\ Goto("start")
  /\ secure' = FALSE /\ envelope' = {} /\ copied' = FALSE
  /\ UNCHANGED <<cfg, expired, copies, reached, exposed>>

BackoffCut ==
  /\ At("backoff")
  /\ expired
  /\ Goto("returned")
  /\ UNCHANGED <<cfg, attempt, expired, dialogueVars, providerVars>>

Expire ==
  /\ ~expired
  /\ ~At("returned")
  /\ expired' = TRUE
  /\ UNCHANGED <<cfg, attempt, phase, outcome, dialogueVars, providerVars>>

(* Steps that Send and sendWithRetry reach without the provider, and steps  *)
(* that wait for the relay.                                                 *)
Local == Begin \/ Reject \/ HttpFails \/ DialFails \/ BackoffOver \/ BackoffCut
Relay == Greeting \/ Hello \/ StartTLS \/ Auth \/ Mail \/ Rcpt \/ Data \/ Dot \/ Quit
           \/ LinkBreaks

Next == Local \/ Relay \/ HttpAnswers \/ Connects \/ BadAddress \/ Expire

Spec == Init /\ [][Next]_vars

(* The program runs and its timers fire. *)
LocalSpec == Spec /\ WF_vars(Local) /\ WF_vars(Expire)

(* A relay that was reached goes on with the dialogue or breaks it off; an   *)
(* HTTP provider need never answer.                                          *)
FairSpec == LocalSpec /\ WF_vars(Relay)
-----------------------------------------------------------------------------
(* What Send says of an attempt is what the provider did: "ok" is a copy it  *)
(* has, and a terminal or rate-limited class, which no retry or only a late  *)
(* one follows, never hides one: a failed QUIT comes after the copy and is   *)
(* ignored, and no later step of an attempt is classified (smtpout.go:218).  *)
OutcomeIsHonest ==
  phase \in {"backoff", "returned"} =>
    /\ outcome = "ok" => copied
    /\ outcome \in {"terminal", "rate_limited"} => ~copied

(* A copy goes to all recipients of the message or does not exist: one       *)
(* refused RCPT ends the dialogue before DATA (smtpout.go:191-199).          *)
CopiesAreWhole == copies > 0 => reached = To

(* With require_tls nothing of the message or the credentials crosses the    *)
(* network in plaintext, whatever the relay offers or refuses, in the first  *)
(* attempt or the second (smtpout.go:155-170).                               *)
RequireTLSHolds == cfg.kind = "smtp" /\ cfg.RequireTLS => exposed = {}

(* sendWithRetry over any of the transports keeps the promise of Delivery.   *)
Report == IF ~At("returned") THEN "none" ELSE IF outcome = "ok" THEN "ok" ELSE "failed"
Promise == INSTANCE Delivery WITH report <- Report
KeepsDeliveryPromise == Promise!Spec

(* Sending ends: over HTTP whatever the provider does, over SMTP as long as  *)
(* the relay goes on or breaks off.                                          *)
SendEnds == <>At("returned")

(* FR22: "The gateway must enforce a hard 10-second timeout on the entire    *)
(* request, including any retry attempts."  After the dial the outbound SMTP *)
(* dialogue has no deadline, and a silent relay holds it (smtpout.go:139).   *)
TimeoutEndsSend == expired ~> At("returned")
=============================================================================
