------------------------------ MODULE MCGateway ------------------------------
(***************************************************************************)
(* Gateway on small instances.  Requests, keys and clients are model       *)
(* values that the specification only compares, so permuting them is       *)
(* sound for the invariants and step properties checked under it.          *)
(***************************************************************************)
EXTENDS Gateway, TLC

Symmetry == Permutations(Requests) \cup Permutations(Keys) \cup Permutations(Clients)

(* An api endpoint without a limiter, and a form endpoint with one. *)
BothModes ==
  {[api |-> TRUE, dryRun |-> FALSE, limited |-> FALSE],
   [api |-> FALSE, dryRun |-> FALSE, limited |-> TRUE]}
=============================================================================
