----------------------------- MODULE SmtpSession -----------------------------
(***************************************************************************)
(* One connection to the SMTP listener: the loop of session.run in         *)
(* core/smtp/session.go and its handlers.  A command that the code         *)
(* handles without waiting is one action; AUTH waits for its credentials,  *)
(* DATA for the message and then for the outbound transport.               *)
(*                                                                         *)
(* Addresses are model values and an allowlist is the set of addresses it  *)
(* matches.  The client may send any command at any time.                  *)
(***************************************************************************)
EXTENDS Naturals, Sequences, FiniteSets

CONSTANTS
  Configs,      \* the listener configurations considered
  Users,        \* the accounts of smtp_users
  Senders,      \* the addresses a client may name in MAIL and in From:
  Recipients,   \* the addresses it may name in RCPT
  NoUser,       \* authedUser = ""
  NoAddress,    \* mailFrom = ""
  NoMessage,    \* Send has not been called yet
  Nobody, Certified,      \* identities without an account, see MailSubmission
  DefaultMaxRecipients,   \* 10 in EffectiveMaxRecipients
  MaxListed     \* bound on the recipients where the configuration has none

(* A configuration after Validate.  AllowedRecipients = {}: not configured. *)
Config == [RequireTLS : BOOLEAN,
           AuthRequired : {"smtp-auth", "client-cert", "either"},
           AllowedSenders : SUBSET Senders \ {{}},
           AllowedRecipients : SUBSET Recipients,
           MaxRecipientsPerSession : Nat]

ASSUME SessionAssumption ==
  /\ Configs \subseteq Config
  /\ NoUser \notin Users
  /\ NoAddress \notin Senders
  /\ Nobody \notin Users \cup {Certified}
  /\ NoMessage \notin [from : Senders, to : Seq(Recipients)]
  /\ DefaultMaxRecipients \in Nat \ {0}
  /\ MaxListed \in Nat \ {0}

VARIABLES
  cfg,             \* the listener's configuration
  phase,           \* what the session waits for
  tlsActive,
  authedUser,
  authedViaCert,
  transaction,
  mailFrom,
  rcptTo,
  reply,           \* the code of the last reply
  message          \* the last message given to transport.Send

authVars == <<authedUser, authedViaCert>>
trxVars == <<transaction, mailFrom, rcptTo>>
vars == <<cfg, phase, tlsActive, authVars, trxVars, reply, message>>

Phases == {"command", "credentials", "message", "send", "closed"}
Replies == {220, 221, 235, 250, 334, 354, 451, 452, 500, 501, 502, 503, 504, 530, 535, 550, 552}

TypeOK ==
  /\ cfg \in Configs
  /\ phase \in Phases
  /\ tlsActive \in BOOLEAN
  /\ authedUser \in Users \cup {NoUser}
  /\ authedViaCert \in BOOLEAN
  /\ transaction \in BOOLEAN
  /\ mailFrom \in Senders \cup {NoAddress}
  /\ rcptTo \in Seq(Recipients)
  /\ reply \in Replies
  /\ message \in [from : Senders, to : Seq(Recipients)] \cup {NoMessage}

Init ==
  /\ cfg \in Configs
  /\ phase = "command"
  /\ tlsActive = FALSE
  /\ authedUser = NoUser
  /\ authedViaCert = FALSE
  /\ transaction = FALSE
  /\ mailFrom = NoAddress
  /\ rcptTo = <<>>
  /\ reply = 220
  /\ message = NoMessage
-----------------------------------------------------------------------------
CertMode == cfg.AuthRequired \in {"client-cert", "either"}

(* buildTLSConfig returns a configuration: STARTTLS is offered. *)
TLSConfigured == cfg.RequireTLS \/ CertMode

CanAdvertiseAuth == cfg.AuthRequired \in {"smtp-auth", "either"}

AuthRequiredAndMissing ==
  CASE cfg.AuthRequired = "smtp-auth"   -> authedUser = NoUser
    [] cfg.AuthRequired = "client-cert" -> ~authedViaCert
    [] cfg.AuthRequired = "either"      -> authedUser = NoUser /\ ~authedViaCert

NeedsTLS == cfg.RequireTLS /\ ~tlsActive

(* The cap on rcptTo, and the addresses it admits; unlimited is MaxListed. *)
EffectiveMaxRecipients ==
  IF cfg.MaxRecipientsPerSession > 0 THEN cfg.MaxRecipientsPerSession
  ELSE IF cfg.AllowedRecipients = {} THEN DefaultMaxRecipients ELSE 0

Acceptable == IF cfg.AllowedRecipients = {} THEN Recipients ELSE cfg.AllowedRecipients

ResetTransaction ==
  /\ transaction' = FALSE
  /\ mailFrom' = NoAddress
  /\ rcptTo' = <<>>

(* A command is read and answered, and nothing else of the session changes. *)
Reading == phase = "command"
Say(code) == reply' = code
Only(code) == /\ Say(code)
              /\ UNCHANGED <<cfg, phase, tlsActive, authVars, trxVars, message>>
-----------------------------------------------------------------------------
(* EHLO, HELO and NOOP; a command that is not known. *)
Hello == Reading /\ \E code \in {250, 500} : Only(code)

Rset ==
  /\ Reading
  /\ ResetTransaction
  /\ Say(250)
  /\ UNCHANGED <<cfg, phase, tlsActive, authVars, message>>

Quit ==
  /\ Reading
  /\ phase' = "closed"
  /\ Say(221)
  /\ UNCHANGED <<cfg, tlsActive, authVars, trxVars, message>>

(* Every wait for the client ends when it closes the connection or stays     *)
(* silent for idle_timeout.  In DATA that is answered, and not the end.      *)
Hangup ==
  /\ phase \in {"command", "credentials"}
  /\ phase' = IF phase = "command" THEN "closed" ELSE "command"
  /\ UNCHANGED <<cfg, tlsActive, authVars, trxVars, reply, message>>

StartTLSRefused ==
  /\ Reading
  /\ \/ ~TLSConfigured /\ Only(502)
     \/ TLSConfigured /\ tlsActive /\ Only(503)

(* 220 is sent and the handshake fails: the session goes on as it was. *)
HandshakeFails == Reading /\ TLSConfigured /\ ~tlsActive /\ Only(220)

(* Mutants of StartTLS: the transaction, or the user, is not reset. *)
StartTLSKeepsTransaction ==
  /\ Reading
  /\ TLSConfigured
  /\ ~tlsActive
  /\ tlsActive' = TRUE
  /\ authedUser' = NoUser
  /\ \/ CertMode /\ authedViaCert' = TRUE
     \/ UNCHANGED authedViaCert
  /\ Say(220)
  /\ UNCHANGED <<cfg, phase, trxVars, message>>

StartTLSKeepsUser ==
  /\ Reading
  /\ TLSConfigured
  /\ ~tlsActive
  /\ tlsActive' = TRUE
  /\ ResetTransaction
  /\ \/ CertMode /\ authedViaCert' = TRUE
     \/ UNCHANGED authedViaCert
  /\ Say(220)
  /\ UNCHANGED <<cfg, phase, authedUser, message>>

(* The handshake succeeds: with a certificate of a configured CA, or without. *)
StartTLS ==
  /\ Reading
  /\ TLSConfigured
  /\ ~tlsActive
  /\ tlsActive' = TRUE
  /\ ResetTransaction
  /\ authedUser' = NoUser
  /\ \/ CertMode /\ authedViaCert' = TRUE
     \/ UNCHANGED authedViaCert
  /\ Say(220)
  /\ UNCHANGED <<cfg, phase, message>>

AuthRefused ==
  /\ Reading
  /\ \/ NeedsTLS /\ Only(530)
     \/ ~NeedsTLS /\ ~CanAdvertiseAuth /\ Only(502)
     \/ ~NeedsTLS /\ CanAdvertiseAuth /\ Only(504)

(* AUTH PLAIN without an initial response. *)
AskCredentials ==
  /\ Reading
  /\ ~NeedsTLS /\ CanAdvertiseAuth
  /\ phase' = "credentials"
  /\ Say(334)
  /\ UNCHANGED <<cfg, tlsActive, authVars, trxVars, message>>

(* The credentials, with the command or after it.  A failure leaves the *)
(* identity of an earlier success in place.                             *)
CheckCredentials ==
  /\ \/ Reading /\ ~NeedsTLS /\ CanAdvertiseAuth
     \/ phase = "credentials"
  /\ \/ \E u \in Users : authedUser' = u /\ Say(235)
     \/ UNCHANGED authedUser /\ Say(535)
  /\ phase' = "command"
  /\ UNCHANGED <<cfg, tlsActive, authedViaCert, trxVars, message>>
-----------------------------------------------------------------------------
MailRefused ==
  /\ Reading
  /\ \/ (NeedsTLS \/ AuthRequiredAndMissing) /\ Only(530)
     \/ ~NeedsTLS /\ ~AuthRequiredAndMissing /\ Only(501)
     \/ /\ ~NeedsTLS /\ ~AuthRequiredAndMissing
        /\ Senders \ cfg.AllowedSenders # {}
        /\ Only(550)

Mail ==
  /\ Reading
  /\ ~NeedsTLS /\ ~AuthRequiredAndMissing
  /\ \E f \in cfg.AllowedSenders : mailFrom' = f
  /\ rcptTo' = <<>>
  /\ transaction' = TRUE
  /\ Say(250)
  /\ UNCHANGED <<cfg, phase, tlsActive, authVars, message>>

(* Mutant of CapReached: the cap off by one. *)
CapPassed == EffectiveMaxRecipients > 0 /\ Len(rcptTo) > EffectiveMaxRecipients

CapReached == EffectiveMaxRecipients > 0 /\ Len(rcptTo) >= EffectiveMaxRecipients

RcptRefused ==
  /\ Reading
  /\ \/ ~transaction /\ Only(503)
     \/ transaction /\ Only(501)
     \/ transaction /\ CapReached /\ Only(452)
     \/ transaction /\ ~CapReached /\ Recipients \ Acceptable # {} /\ Only(550)

(* Mutant of Rcpt: an argument that does not parse is taken for an address. *)
RcptUnparsed ==
  /\ Reading
  /\ transaction /\ ~CapReached
  /\ Len(rcptTo) < MaxListed
  /\ \E t \in Acceptable \cup {NoAddress} : rcptTo' = Append(rcptTo, t)
  /\ Say(250)
  /\ UNCHANGED <<cfg, phase, tlsActive, authVars, transaction, mailFrom, message>>

Rcpt ==
  /\ Reading
  /\ transaction /\ ~CapReached
  /\ Len(rcptTo) < MaxListed
  /\ \E t \in Acceptable : rcptTo' = Append(rcptTo, t)
  /\ Say(250)
  /\ UNCHANGED <<cfg, phase, tlsActive, authVars, transaction, mailFrom, message>>
-----------------------------------------------------------------------------
DataRefused == Reading /\ (~transaction \/ rcptTo = <<>>) /\ Only(503)

Data ==
  /\ Reading
  /\ transaction
  /\ rcptTo # <<>>
  /\ phase' = "message"
  /\ Say(354)
  /\ UNCHANGED <<cfg, tlsActive, authVars, trxVars, message>>

(* A read error or the deadline, a message over the cap, or one that does *)
(* not parse: the transaction is over, the session is not.                *)
RejectMessage ==
  /\ phase = "message"
  /\ ResetTransaction
  /\ \E code \in {451, 552, 550} : Say(code)
  /\ phase' = "command"
  /\ UNCHANGED <<cfg, tlsActive, authVars, message>>

(* parseMIMEToMessage: From: of the header if it has one, or else MAIL's; *)
(* the recipients of the envelope.  Send is called, once.                 *)
Submit ==
  /\ phase = "message"
  /\ \E f \in Senders : message' = [from |-> f, to |-> rcptTo]
  /\ phase' = "send"
  /\ UNCHANGED <<cfg, tlsActive, authVars, trxVars, reply>>

SendReturns ==
  /\ phase = "send"
  /\ \E code \in {250, 451} : Say(code)
  /\ ResetTransaction
  /\ phase' = "command"
  /\ UNCHANGED <<cfg, tlsActive, authVars, message>>

Command ==
  \/ Hello \/ Rset \/ Quit
  \/ StartTLSRefused \/ HandshakeFails \/ StartTLS
  \/ AuthRefused \/ AskCredentials \/ CheckCredentials
  \/ MailRefused \/ Mail \/ RcptRefused \/ Rcpt \/ DataRefused \/ Data

Next == Command \/ Hangup \/ RejectMessage \/ Submit \/ SendReturns

Spec == Init /\ [][Next]_vars
-----------------------------------------------------------------------------
(* An open transaction belongs to a client that has met what the listener    *)
(* demands before MAIL, on the channel it uses now.  RCPT and DATA test      *)
(* s.transaction only: they rely on STARTTLS resetting the transaction with  *)
(* the identity, whatever AUTH, failed AUTH and STARTTLS came in between.    *)
TransactionIsAuthorized ==
  transaction => ~NeedsTLS /\ ~AuthRequiredAndMissing

(* What handleMAIL and handleRCPT let through stays within the operator's    *)
(* lists and cap, and DATA is under way for a complete envelope only, over   *)
(* any sequence of commands, failed deliveries and resets.                   *)
EnvelopeWithinPolicy ==
  /\ mailFrom \in cfg.AllowedSenders <=> transaction
  /\ ~transaction => rcptTo = <<>>
  /\ \A i \in DOMAIN rcptTo : rcptTo[i] \in Acceptable
  /\ EffectiveMaxRecipients > 0 => Len(rcptTo) <= EffectiveMaxRecipients
  /\ phase \in {"message", "send"} => transaction /\ rcptTo # <<>>

(* The session as MailSubmission sees it.  The envelope is handed over when  *)
(* Send is called; it is still in the session until Send returns.            *)
Policy ==
  [tls |-> cfg.RequireTLS,
   senders |-> cfg.AllowedSenders,
   recipients |-> Acceptable,
   most |-> IF EffectiveMaxRecipients = 0 THEN MaxListed ELSE EffectiveMaxRecipients]

Identity ==
  IF authedViaCert THEN Certified ELSE IF authedUser = NoUser THEN Nobody ELSE authedUser

OpenEnvelope ==
  IF transaction /\ phase # "send" THEN [from |-> mailFrom, to |-> rcptTo] ELSE NoMessage

Submission == INSTANCE MailSubmission WITH
  Nothing <- NoMessage, policy <- Policy, secure <- tlsActive, who <- Identity,
  envelope <- OpenEnvelope, outbox <- message

(* Every step of the dialogue is a step of that promise or none: identities  *)
(* shown in plaintext end with STARTTLS, a message goes to the recipients of *)
(* one transaction, all of them and no others (FR68: parseMIMEToMessage).    *)
KeepsSubmissionPromise == Submission!Spec
=============================================================================
