--------------------------- MODULE MailSubmission ---------------------------
(***************************************************************************)
(* What one connection to the SMTP listener may do, without the dialogue:  *)
(* an identity belongs to the channel it was shown on, an envelope to an   *)
(* identified client, and what is handed to the outbound transport goes to *)
(* the recipients of one envelope, all of them, within the policy.         *)
(***************************************************************************)
EXTENDS Naturals, Sequences

CONSTANTS
  Users,       \* the accounts of smtp_users
  Senders,     \* all sender addresses
  Nobody,      \* the identity of a client that has not shown one
  Certified,   \* the identity of a client with a verified certificate
  Nothing      \* no envelope is open, or nothing was handed over

VARIABLES
  policy,      \* the operator's rules: [tls, senders, recipients, most]
  secure,      \* the channel is encrypted
  who,         \* the identity of the client on this channel
  envelope,    \* the open envelope, [from, to]
  outbox       \* the message handed to the transport last, [from, to]

vars == <<policy, secure, who, envelope, outbox>>

Init ==
  /\ secure = FALSE
  /\ who = Nobody
  /\ envelope = Nothing
  /\ outbox = Nothing

(* The channel is as private as the policy asks, and the client is known. *)
Private == policy.tls => secure
Trusted == Private /\ who # Nobody

(* A new channel: what was said on the old one is forgotten. *)
Secure ==
  /\ ~secure
  /\ secure' = TRUE
  /\ who' \in {Nobody, Certified}
  /\ envelope' = Nothing
  /\ UNCHANGED <<policy, outbox>>

Authenticate ==
  /\ Private
  /\ who' \in Users
  /\ UNCHANGED <<policy, secure, envelope, outbox>>

Open ==
  /\ Trusted
  /\ \E f \in policy.senders : envelope' = [from |-> f, to |-> <<>>]
  /\ UNCHANGED <<policy, secure, who, outbox>>

AddRecipient ==
  /\ Trusted
  /\ envelope # Nothing
  /\ Len(envelope.to) < policy.most
  /\ \E t \in policy.recipients :
       envelope' = [envelope EXCEPT !.to = Append(@, t)]
  /\ UNCHANGED <<policy, secure, who, outbox>>

Drop ==
  /\ envelope' = Nothing
  /\ UNCHANGED <<policy, secure, who, outbox>>

(* The message keeps the From of its header; its recipients are the envelope's. *)
HandOver ==
  /\ Trusted
  /\ envelope # Nothing
  /\ envelope.to # <<>>
  /\ \E f \in Senders : outbox' = [from |-> f, to |-> envelope.to]
  /\ envelope' = Nothing
  /\ UNCHANGED <<policy, secure, who>>

Next == Secure \/ Authenticate \/ Open \/ AddRecipient \/ Drop \/ HandOver

Spec == Init /\ [][Next]_vars
=============================================================================
