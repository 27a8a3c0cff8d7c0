----------------------------- MODULE MCDispatch -----------------------------
(***************************************************************************)
(* Dispatch over the five transports of core/transport.                    *)
(***************************************************************************)
EXTENDS Dispatch

Postmark == [kind |-> "http", Success |-> {200, 202}]
OtherApis == [kind |-> "http", Success |-> {200}]   \* Resend, Mailgun, SES
Relays == [kind : {"smtp"}, RequireTLS : BOOLEAN, Local : BOOLEAN]

AllConfigs == {Postmark, OtherApis} \cup Relays
=============================================================================
