-------------------------- MODULE SmtpSessionProofs --------------------------
(***************************************************************************)
(* The SMTP session for every set of accounts, addresses and               *)
(* configurations: its types, who owns an open transaction, and that it    *)
(* implements MailSubmission.                                              *)
(***************************************************************************)
EXTENDS SmtpSession, TLAPS

(* The invariant of the dialogue.  Beyond the two properties it says that    *)
(* the client is only asked for credentials where AUTH is allowed, and that  *)
(* a session of a mode without one kind of identity never has it.            *)
IInv ==
  /\ TypeOK
  /\ TransactionIsAuthorized
  /\ EnvelopeWithinPolicy
  /\ phase = "credentials" => ~NeedsTLS /\ CanAdvertiseAuth
  /\ ~CertMode => ~authedViaCert
  /\ ~CanAdvertiseAuth => authedUser = NoUser
  /\ Len(rcptTo) <= MaxListed

(* What Validate guarantees of a listener configuration. *)
LEMMA ConfigFacts ==
  ASSUME TypeOK
  PROVE  /\ cfg.AllowedSenders \subseteq Senders
         /\ cfg.RequireTLS \in BOOLEAN
         /\ cfg.AuthRequired \in {"smtp-auth", "client-cert", "either"}
         /\ Acceptable \subseteq Recipients
         /\ EffectiveMaxRecipients \in Nat
         /\ NoAddress \notin cfg.AllowedSenders
  BY SessionAssumption DEF TypeOK, Config, Acceptable, EffectiveMaxRecipients

(* A new session has no identity and no transaction. *)
LEMMA InitIInv == Init => IInv
<1> SUFFICES ASSUME Init PROVE IInv
  OBVIOUS
<1>1. TypeOK
  <2>1. rcptTo \in Seq(Recipients) /\ Len(rcptTo) = 0
    BY DEF Init
  <2>2. phase \in Phases /\ reply \in Replies
    BY DEF Init, Phases, Replies
  <2>3. QED
    BY <2>1, <2>2, Zenon DEF Init, TypeOK
<1>2. QED
  BY <1>1, ConfigFacts, SessionAssumption
  DEF Init, IInv, TransactionIsAuthorized, EnvelopeWithinPolicy

(* A refused or empty command changes the last reply only. *)
LEMMA AnswerKeepsIInv ==
  ASSUME IInv, Hello \/ StartTLSRefused \/ HandshakeFails \/ AuthRefused
               \/ MailRefused \/ RcptRefused \/ DataRefused
  PROVE  IInv'
<1>1. PICK code \in Replies : Only(code)
  BY DEF Hello, StartTLSRefused, HandshakeFails, AuthRefused, MailRefused, RcptRefused,
         DataRefused, Replies
<1>2. reply' \in Replies /\ UNCHANGED <<cfg, phase, tlsActive, authVars, trxVars, message>>
  BY <1>1 DEF Only, Say
<1>3. UNCHANGED <<cfg, phase, tlsActive, authedUser, authedViaCert, transaction, mailFrom,
                  rcptTo, message>>
  BY <1>2 DEF authVars, trxVars
<1>4. TypeOK'
  BY <1>2, <1>3 DEF IInv, TypeOK
<1>5. QED
  BY <1>3, <1>4
  DEF IInv, TransactionIsAuthorized, EnvelopeWithinPolicy, NeedsTLS, CanAdvertiseAuth, CertMode,
      AuthRequiredAndMissing, EffectiveMaxRecipients, Acceptable

(* The steps that wait for something else, or end the session. *)
LEMMA WaitKeepsIInv ==
  ASSUME IInv, Quit \/ Hangup \/ AskCredentials \/ Data \/ Submit
  PROVE  IInv'
<1>1. /\ UNCHANGED <<cfg, tlsActive, authedUser, authedViaCert, transaction, mailFrom, rcptTo>>
      /\ phase' \in Phases /\ reply' \in Replies
  BY DEF Quit, Hangup, AskCredentials, Data, Submit, Say, authVars, trxVars, Phases, Replies,
         IInv, TypeOK
<1>2. message' \in [from : Senders, to : Seq(Recipients)] \cup {NoMessage}
  <2>1. CASE Submit
    BY <2>1 DEF Submit, IInv, TypeOK
  <2>2. CASE Quit \/ Hangup \/ AskCredentials \/ Data
    BY <2>2 DEF Quit, Hangup, AskCredentials, Data, IInv, TypeOK
  <2>3. QED
    BY <2>1, <2>2
<1>3. /\ phase' = "credentials" => ~NeedsTLS /\ CanAdvertiseAuth
      /\ phase' \in {"message", "send"} => transaction /\ rcptTo # <<>>
  BY DEF Quit, Hangup, AskCredentials, Data, Submit, IInv, EnvelopeWithinPolicy
<1>4. TypeOK'
  BY <1>1, <1>2 DEF IInv, TypeOK
<1>5. QED
  BY <1>1, <1>3, <1>4
  DEF IInv, TransactionIsAuthorized, EnvelopeWithinPolicy, NeedsTLS, CanAdvertiseAuth, CertMode,
      AuthRequiredAndMissing, EffectiveMaxRecipients, Acceptable

(* The steps that end a transaction leave none that would need an owner. *)
LEMMA ResetKeepsIInv ==
  ASSUME IInv, Rset \/ RejectMessage \/ SendReturns \/ StartTLS
  PROVE  IInv'
<1>1. /\ transaction' = FALSE /\ mailFrom' = NoAddress /\ rcptTo' = <<>>
      /\ cfg' = cfg /\ phase' = "command" /\ message' = message
  BY DEF Rset, RejectMessage, SendReturns, StartTLS, ResetTransaction, Reading
<1>2. reply' \in Replies
  <2>1. CASE SendReturns
    BY <2>1 DEF SendReturns, Say, Replies
  <2>2. CASE Rset \/ RejectMessage \/ StartTLS
    BY <2>2 DEF Rset, RejectMessage, StartTLS, Say, Replies, IInv, TypeOK
  <2>3. QED
    BY <2>1, <2>2
<1>3. /\ tlsActive' \in BOOLEAN
      /\ authedUser' \in {authedUser, NoUser}
      /\ authedViaCert' \in BOOLEAN
      /\ ~CertMode => authedViaCert' = authedViaCert
  BY DEF Rset, RejectMessage, SendReturns, StartTLS, authVars, IInv, TypeOK
<1>4. TypeOK'
  <2>1. rcptTo' \in Seq(Recipients)
    BY <1>1
  <2>2. phase' \in Phases
    BY <1>1 DEF Phases
  <2>3. QED
    BY <1>1, <1>2, <1>3, <2>1, <2>2 DEF IInv, TypeOK
<1>5. TransactionIsAuthorized'
  BY <1>1 DEF TransactionIsAuthorized
<1>6. EnvelopeWithinPolicy'
  <2>1. NoAddress \notin cfg.AllowedSenders
    BY ConfigFacts DEF IInv
  <2>2. DOMAIN rcptTo' = {} /\ Len(rcptTo') = 0
    BY <1>1
  <2>3. EffectiveMaxRecipients' = EffectiveMaxRecipients /\ EffectiveMaxRecipients \in Nat
    BY <1>1, ConfigFacts DEF IInv, EffectiveMaxRecipients
  <2>4. QED
    BY <1>1, <2>1, <2>2, <2>3 DEF EnvelopeWithinPolicy
<1>7. QED
  BY <1>1, <1>3, <1>4, <1>5, <1>6, SessionAssumption
  DEF IInv, CanAdvertiseAuth, CertMode

(* AUTH changes the identity, and never to none. *)
LEMMA AuthKeepsIInv ==
  ASSUME IInv, CheckCredentials
  PROVE  IInv'
<1>1. /\ ~NeedsTLS /\ CanAdvertiseAuth
      /\ authedUser' \in Users \/ authedUser' = authedUser
      /\ phase' = "command" /\ reply' \in Replies
      /\ UNCHANGED <<cfg, tlsActive, authedViaCert, transaction, mailFrom, rcptTo, message>>
  BY DEF CheckCredentials, Say, Replies, trxVars, IInv
<1>2. TypeOK'
  BY <1>1 DEF IInv, TypeOK, Phases
<1>3. TransactionIsAuthorized'
  <2>1. NeedsTLS' = NeedsTLS
    BY <1>1 DEF NeedsTLS
  <2>2. authedUser' = NoUser => authedUser = NoUser
    BY <1>1, SessionAssumption
  <2>3. AuthRequiredAndMissing' => AuthRequiredAndMissing
    BY <1>1, <2>2, ConfigFacts DEF AuthRequiredAndMissing, IInv
  <2>4. QED
    BY <1>1, <2>1, <2>3 DEF IInv, TransactionIsAuthorized
<1>4. QED
  BY <1>1, <1>2, <1>3
  DEF IInv, EnvelopeWithinPolicy, CanAdvertiseAuth, CertMode, EffectiveMaxRecipients, Acceptable

(* MAIL opens a transaction of an allowed sender for a client it has checked. *)
LEMMA MailKeepsIInv ==
  ASSUME IInv, Mail
  PROVE  IInv'
<1>1. /\ ~NeedsTLS /\ ~AuthRequiredAndMissing
      /\ mailFrom' \in cfg.AllowedSenders /\ rcptTo' = <<>> /\ transaction' = TRUE
      /\ phase' = "command" /\ reply' = 250
      /\ UNCHANGED <<cfg, tlsActive, authedUser, authedViaCert, message>>
  BY DEF Mail, Reading, Say, authVars
<1>2. mailFrom' \in Senders
  BY <1>1, ConfigFacts DEF IInv
<1>3. TypeOK'
  <2>1. rcptTo' \in Seq(Recipients) /\ Len(rcptTo') = 0
    BY <1>1
  <2>2. phase' \in Phases /\ reply' \in Replies
    BY <1>1 DEF Phases, Replies
  <2>3. QED
    BY <1>1, <1>2, <2>1, <2>2 DEF IInv, TypeOK
<1>4. TransactionIsAuthorized'
  BY <1>1 DEF TransactionIsAuthorized, NeedsTLS, AuthRequiredAndMissing
<1>5. EnvelopeWithinPolicy'
  <2>1. DOMAIN rcptTo' = {} /\ Len(rcptTo') = 0
    BY <1>1
  <2>2. EffectiveMaxRecipients' = EffectiveMaxRecipients /\ EffectiveMaxRecipients \in Nat
    BY <1>1, ConfigFacts DEF IInv, EffectiveMaxRecipients
  <2>3. QED
    BY <1>1, <2>1, <2>2 DEF EnvelopeWithinPolicy
<1>6. QED
  BY <1>1, <1>3, <1>4, <1>5, SessionAssumption DEF IInv, CanAdvertiseAuth, CertMode

(* RCPT adds one acceptable recipient below the cap. *)
LEMMA RcptKeepsIInv ==
  ASSUME IInv, Rcpt
  PROVE  IInv'
<1>1. PICK t \in Acceptable : rcptTo' = Append(rcptTo, t)
  BY DEF Rcpt
<1>2. /\ transaction /\ ~CapReached /\ Len(rcptTo) < MaxListed
      /\ phase' = "command" /\ reply' = 250
      /\ UNCHANGED <<cfg, tlsActive, authedUser, authedViaCert, transaction, mailFrom, message>>
  BY DEF Rcpt, Reading, Say, authVars
<1>3. rcptTo \in Seq(Recipients) /\ t \in Recipients
  BY ConfigFacts DEF IInv, TypeOK
<1>4. /\ rcptTo' \in Seq(Recipients) /\ Len(rcptTo') = Len(rcptTo) + 1
      /\ \A i \in DOMAIN rcptTo' : rcptTo'[i] = IF i \in DOMAIN rcptTo THEN rcptTo[i] ELSE t
  BY <1>1, <1>3
<1>5. TypeOK'
  <2>1. phase' \in Phases /\ reply' \in Replies
    BY <1>2 DEF Phases, Replies
  <2>2. QED
    BY <1>2, <1>4, <2>1 DEF IInv, TypeOK
<1>6. TransactionIsAuthorized'
  BY <1>2 DEF IInv, TransactionIsAuthorized, NeedsTLS, AuthRequiredAndMissing
<1>7. EnvelopeWithinPolicy'
  <2>1. EffectiveMaxRecipients' = EffectiveMaxRecipients /\ Acceptable' = Acceptable
    BY <1>2 DEF EffectiveMaxRecipients, Acceptable
  <2>2. EffectiveMaxRecipients > 0 => Len(rcptTo') <= EffectiveMaxRecipients
    BY <1>2, <1>3, <1>4, ConfigFacts DEF CapReached, IInv
  <2>3. \A i \in DOMAIN rcptTo' : rcptTo'[i] \in Acceptable
    BY <1>4 DEF IInv, EnvelopeWithinPolicy
  <2>4. QED
    BY <1>2, <2>1, <2>2, <2>3 DEF IInv, EnvelopeWithinPolicy
<1>8. Len(rcptTo') <= MaxListed
  BY <1>2, <1>3, <1>4, SessionAssumption
<1>9. QED
  BY <1>2, <1>5, <1>6, <1>7, <1>8 DEF IInv, CanAdvertiseAuth, CertMode

(* Every command, wait and answer of session.run keeps the invariant. *)
LEMMA IInvIsInductive == IInv /\ [Next]_vars => IInv'
<1> SUFFICES ASSUME IInv, [Next]_vars PROVE IInv'
  OBVIOUS
<1>1. CASE UNCHANGED vars
  BY <1>1
  DEF vars, authVars, trxVars, IInv, TypeOK, TransactionIsAuthorized,
      EnvelopeWithinPolicy, NeedsTLS, CanAdvertiseAuth, CertMode, AuthRequiredAndMissing,
      EffectiveMaxRecipients, Acceptable
<1>2. QED
  BY <1>1, AnswerKeepsIInv, WaitKeepsIInv, ResetKeepsIInv, AuthKeepsIInv, MailKeepsIInv,
     RcptKeepsIInv
  DEF Next, Command

(* The invariant holds in every reachable state of a session. *)
THEOREM Invariance == Spec => []IInv
BY InitIInv, IInvIsInductive, PTL DEF Spec

(* The session's variables stay what session.go declares them to be. *)
THEOREM TypeCorrect == Spec => []TypeOK
<1>1. IInv => TypeOK
  BY DEF IInv
<1>2. QED
  BY Invariance, <1>1, PTL

(* handleRCPT and handleDATA may rely on s.transaction alone: an open        *)
(* transaction always belongs to a client that meets the listener's terms.   *)
THEOREM Authorized == Spec => []TransactionIsAuthorized
<1>1. IInv => TransactionIsAuthorized
  BY DEF IInv
<1>2. QED
  BY Invariance, <1>1, PTL

(* No dialogue takes an envelope past the operator's lists and cap. *)
THEOREM WithinPolicy == Spec => []EnvelopeWithinPolicy
<1>1. IInv => EnvelopeWithinPolicy
  BY DEF IInv
<1>2. QED
  BY Invariance, <1>1, PTL
-----------------------------------------------------------------------------
(* What the promise calls a trusted client is one that MAIL accepts. *)
LEMMA AuthorizedIsTrusted ==
  ASSUME IInv, ~NeedsTLS, ~AuthRequiredAndMissing
  PROVE  Submission!Trusted
<1>1. authedUser # NoUser \/ authedViaCert
  BY ConfigFacts DEF IInv, AuthRequiredAndMissing
<1>2. Identity # Nobody
  BY <1>1, SessionAssumption DEF Identity, IInv, TypeOK
<1>3. Policy.tls => tlsActive
  BY DEF Policy, NeedsTLS
<1>4. QED
  BY <1>2, <1>3 DEF Submission!Trusted, Submission!Private

(* The steps that the promise does not see. *)
LEMMA SilentSteps ==
  ASSUME IInv,
         \/ Hello \/ StartTLSRefused \/ HandshakeFails \/ AuthRefused \/ MailRefused
         \/ RcptRefused \/ DataRefused
         \/ Quit \/ Hangup \/ AskCredentials \/ Data \/ SendReturns
  PROVE  UNCHANGED Submission!vars
<1>1. UNCHANGED <<cfg, tlsActive, authedUser, authedViaCert, message>>
  BY DEF Hello, StartTLSRefused, HandshakeFails, AuthRefused, MailRefused, RcptRefused,
         DataRefused, Only, Quit, Hangup, AskCredentials, Data, SendReturns, authVars
<1>2. OpenEnvelope' = OpenEnvelope
  <2>1. CASE SendReturns
    BY <2>1 DEF SendReturns, ResetTransaction, OpenEnvelope
  <2>2. CASE Quit \/ Hangup \/ AskCredentials \/ Data
    BY <2>2 DEF Quit, Hangup, AskCredentials, Data, Reading, OpenEnvelope, trxVars
  <2>3. CASE \/ Hello \/ StartTLSRefused \/ HandshakeFails \/ AuthRefused \/ MailRefused
             \/ RcptRefused \/ DataRefused
    BY <2>3 DEF Hello, StartTLSRefused, HandshakeFails, AuthRefused, MailRefused, RcptRefused,
                DataRefused, Only, OpenEnvelope, trxVars
  <2>4. QED
    BY <2>1, <2>2, <2>3
<1>3. Policy' = Policy /\ Identity' = Identity
  BY <1>1 DEF Policy, Identity, Acceptable, EffectiveMaxRecipients
<1>4. QED
  BY <1>1, <1>2, <1>3 DEF Submission!vars

(* The policy is a function of the configuration. *)
LEMMA SamePolicy == ASSUME cfg' = cfg PROVE Policy' = Policy
BY DEF Policy, Acceptable, EffectiveMaxRecipients

(* The steps that it sees: each is one of its actions. *)
LEMMA VisibleSteps ==
  ASSUME IInv,
         \/ Rset \/ RejectMessage \/ StartTLS \/ CheckCredentials \/ Mail \/ Rcpt \/ Submit
  PROVE  [Submission!Next]_(Submission!vars)
<1>1. cfg' = cfg /\ Policy' = Policy
  BY SamePolicy DEF Rset, RejectMessage, StartTLS, CheckCredentials, Mail, Rcpt, Submit
<1>2. CASE Rset \/ RejectMessage
  <2>1. /\ UNCHANGED <<tlsActive, authedUser, authedViaCert, message>>
        /\ transaction' = FALSE
    BY <1>2 DEF Rset, RejectMessage, ResetTransaction, authVars
  <2>2. OpenEnvelope' = NoMessage /\ Identity' = Identity
    BY <2>1 DEF OpenEnvelope, Identity
  <2>3. QED
    BY <1>1, <2>1, <2>2 DEF Submission!Next, Submission!Drop
<1>3. CASE StartTLS
  <2>1. OpenEnvelope' = NoMessage /\ ~tlsActive /\ tlsActive' = TRUE /\ message' = message
    BY <1>3 DEF StartTLS, ResetTransaction, OpenEnvelope
  <2>2. Identity' \in {Nobody, Certified}
    BY <1>3 DEF StartTLS, Identity
  <2>3. QED
    BY <1>1, <2>1, <2>2 DEF Submission!Next, Submission!Secure
<1>4. CASE CheckCredentials
  <2>1. /\ UNCHANGED <<tlsActive, authedViaCert, transaction, mailFrom, rcptTo, message>>
        /\ phase # "send" /\ phase' # "send" /\ ~NeedsTLS
        /\ authedUser' \in Users \/ authedUser' = authedUser
    BY <1>4 DEF CheckCredentials, Reading, trxVars, IInv
  <2>2. OpenEnvelope' = OpenEnvelope
    BY <2>1 DEF OpenEnvelope
  <2>3. Identity' = Identity \/ Identity' \in Users
    BY <2>1, SessionAssumption DEF Identity
  <2>4. Submission!Private
    BY <2>1 DEF Submission!Private, Policy, NeedsTLS
  <2>5. CASE Identity' = Identity
    BY <1>1, <2>1, <2>2, <2>5 DEF Submission!vars
  <2>6. CASE Identity' \in Users
    BY <1>1, <2>1, <2>2, <2>4, <2>6 DEF Submission!Next, Submission!Authenticate
  <2>7. QED
    BY <2>3, <2>5, <2>6
<1>5. CASE Mail
  <2>1. /\ UNCHANGED <<tlsActive, authedUser, authedViaCert, message>>
        /\ mailFrom' \in cfg.AllowedSenders /\ rcptTo' = <<>> /\ transaction' = TRUE
        /\ phase' = "command"
        /\ Submission!Trusted
    BY <1>5, AuthorizedIsTrusted DEF Mail, Reading, authVars
  <2>2. OpenEnvelope' = [from |-> mailFrom', to |-> <<>>] /\ Identity' = Identity
    BY <2>1 DEF OpenEnvelope, Identity
  <2>3. mailFrom' \in Policy.senders
    BY <2>1 DEF Policy
  <2>4. QED
    BY <1>1, <2>1, <2>2, <2>3 DEF Submission!Next, Submission!Open
<1>6. CASE Rcpt
  <2>1. PICK t \in Acceptable : rcptTo' = Append(rcptTo, t)
    BY <1>6 DEF Rcpt
  <2>2. /\ UNCHANGED <<tlsActive, authedUser, authedViaCert, message, mailFrom, transaction>>
        /\ transaction /\ phase = "command" /\ phase' = "command"
        /\ ~CapReached /\ Len(rcptTo) < MaxListed
    BY <1>6 DEF Rcpt, Reading, authVars
  <2>3. Submission!Trusted
    BY <2>2, AuthorizedIsTrusted DEF IInv, TransactionIsAuthorized
  <2>4. OpenEnvelope = [from |-> mailFrom, to |-> rcptTo] /\ OpenEnvelope # NoMessage
    <3>1. [from |-> mailFrom, to |-> rcptTo] \in [from : Senders, to : Seq(Recipients)]
      BY <2>2, ConfigFacts DEF IInv, TypeOK, EnvelopeWithinPolicy
    <3>2. QED
      BY <2>2, <3>1, SessionAssumption DEF OpenEnvelope
  <2>5. OpenEnvelope' = [OpenEnvelope EXCEPT !.to = Append(@, t)]
    BY <2>1, <2>2, <2>4 DEF OpenEnvelope
  <2>6. Len(OpenEnvelope.to) < Policy.most
    <3>1. Len(rcptTo) \in Nat /\ EffectiveMaxRecipients \in Nat
      BY ConfigFacts DEF IInv, TypeOK
    <3>2. QED
      BY <2>2, <2>4, <3>1 DEF Policy, CapReached
  <2>7. t \in Policy.recipients /\ Identity' = Identity
    BY <2>2 DEF Policy, Identity
  <2>8. QED
    BY <1>1, <2>2, <2>3, <2>4, <2>5, <2>6, <2>7 DEF Submission!Next, Submission!AddRecipient
<1>7. CASE Submit
  <2>1. PICK f \in Senders : message' = [from |-> f, to |-> rcptTo]
    BY <1>7 DEF Submit
  <2>2. /\ UNCHANGED <<tlsActive, authedUser, authedViaCert, mailFrom, transaction, rcptTo>>
        /\ phase = "message" /\ phase' = "send" /\ transaction /\ rcptTo # <<>>
    BY <1>7 DEF Submit, authVars, trxVars, IInv, EnvelopeWithinPolicy
  <2>3. Submission!Trusted
    BY <2>2, AuthorizedIsTrusted DEF IInv, TransactionIsAuthorized
  <2>4. OpenEnvelope = [from |-> mailFrom, to |-> rcptTo] /\ OpenEnvelope # NoMessage
    <3>1. [from |-> mailFrom, to |-> rcptTo] \in [from : Senders, to : Seq(Recipients)]
      BY <2>2, ConfigFacts DEF IInv, TypeOK, EnvelopeWithinPolicy
    <3>2. QED
      BY <2>2, <3>1, SessionAssumption DEF OpenEnvelope
  <2>5. OpenEnvelope' = NoMessage /\ Identity' = Identity
    BY <2>2 DEF OpenEnvelope, Identity
  <2>6. QED
    BY <1>1, <2>1, <2>2, <2>3, <2>4, <2>5 DEF Submission!Next, Submission!HandOver
<1>8. QED
  BY <1>2, <1>3, <1>4, <1>5, <1>6, <1>7

(* The dialogue of session.go implements MailSubmission: identities end with *)
(* the channel they were shown on, and every message handed to the outbound  *)
(* transport goes to the recipients of one envelope, within the policy.      *)
THEOREM Implements == Spec => KeepsSubmissionPromise
<1>1. Init => Submission!Init
  BY DEF Init, Submission!Init, Identity, OpenEnvelope
<1>2. IInv /\ [Next]_vars => [Submission!Next]_(Submission!vars)
  <2> SUFFICES ASSUME IInv, [Next]_vars PROVE [Submission!Next]_(Submission!vars)
    OBVIOUS
  <2>1. CASE UNCHANGED vars
    BY <2>1 DEF vars, authVars, trxVars, Submission!vars, Policy, Identity,
                OpenEnvelope, Acceptable, EffectiveMaxRecipients
  <2>2. QED
    BY <2>1, SilentSteps, VisibleSteps DEF Next, Command
<1>3. QED
  BY Invariance, <1>1, <1>2, PTL DEF Spec, KeepsSubmissionPromise, Submission!Spec
=============================================================================
