------------------------------ MODULE Delivery ------------------------------
(***************************************************************************)
(* What sending one message promises its caller, whatever the transport:   *)
(* the provider gets at most two copies, "ok" is reported only when it has *)
(* one, there is one report, and after it nothing more is sent.            *)
(***************************************************************************)
EXTENDS Naturals

VARIABLES
  copies,   \* how often the provider accepted the message
  report    \* what the caller was told: "none" yet, "ok" or "failed"

vars == <<copies, report>>

Init == copies = 0 /\ report = "none"

(* Something is accepted, or reported, or both in one step. *)
Progress ==
  /\ report = "none"
  /\ copies' \in {copies, copies + 1}
  /\ copies' <= 2
  /\ report' \in {"none", "ok", "failed"}
  /\ report' = "ok" => copies' > 0

Spec == Init /\ [][Progress]_vars
=============================================================================
