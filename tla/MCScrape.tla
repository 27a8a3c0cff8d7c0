------------------------------ MODULE MCScrape -------------------------------
(* Scrape on a small instance: a limited api endpoint, sending or dry-run. *)
EXTENDS Scrape

SendingOrDry == {[api |-> TRUE, dryRun |-> d, limited |-> TRUE] : d \in BOOLEAN}
=============================================================================
