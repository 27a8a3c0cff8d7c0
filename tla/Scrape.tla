------------------------------- MODULE Scrape --------------------------------
(***************************************************************************)
(* A scrape of /metrics while the endpoint serves requests: Registry.Emit  *)
(* of core/metrics/metrics.go over the counters of Gateway.                *)
(*                                                                         *)
(* Emit holds the registry's lock, which only Register takes for writing,  *)
(* and never two metrics' locks at once: it copies one family after the    *)
(* other, in the order of their names, and requests count in between.      *)
(***************************************************************************)
EXTENDS Gateway

VARIABLES
  unread,     \* the families Emit has still to write, in its order
  page        \* what it has written: family -> value

scrapeVars == <<unread, page>>

(* Mutant of Families: unsorted, as NewRecorder registers them. *)
FamiliesAsRegistered == <<"received", "sent", "failed", "rate_limited", "auth_failed",
                          "spam_blocked", "validation_failed", "replay", "latency">>

(* posthorn_auth_failed_total, posthorn_idempotent_replay_total, ... sorted. *)
Families == <<"auth_failed", "replay", "rate_limited", "latency", "spam_blocked",
              "failed", "received", "sent", "validation_failed">>

ScrapeInit ==
  /\ Init
  /\ unread = <<>>
  /\ page = [m \in {} |-> 0]
-----------------------------------------------------------------------------
(* GET /metrics; one scrape is enough to meet every state of the counters. *)
BeginScrape ==
  /\ DOMAIN page = {} /\ unread = <<>>
  /\ unread' = Families
  /\ UNCHANGED <<page, vars>>

(* Counter.Emit and Histogram.Emit copy their values under their own lock. *)
EmitFamily ==
  /\ unread # <<>>
  /\ page' = [m \in DOMAIN page \cup {Head(unread)} |->
                IF m \in DOMAIN page THEN page[m] ELSE metric[m]]
  /\ unread' = Tail(unread)
  /\ UNCHANGED vars

ScrapeNext == BeginScrape \/ EmitFamily \/ (Next /\ UNCHANGED scrapeVars)

ScrapeSpec == ScrapeInit /\ [][ScrapeNext]_<<vars, scrapeVars>>

(* The scrape is served by a goroutine like the requests; see FairSpec. *)
FairScrapeSpec ==
  /\ ScrapeSpec
  /\ WF_scrapeVars(EmitFamily)
  /\ \A r \in Requests : WF_vars(Serve(r))
-----------------------------------------------------------------------------
(* A page never shows a part that exceeds its whole, whichever requests ran  *)
(* while Emit went from family to family: no latency is observed of a send   *)
(* the page does not count, and no failure of a submission it has not        *)
(* received.  (More may be sent than received: posthorn_submissions_sent is  *)
(* read after posthorn_submissions_received.)                                *)
PageAgrees ==
  {"latency", "failed", "received", "sent"} \subseteq DOMAIN page =>
    page["latency"] <= page["sent"] /\ page["failed"] <= page["received"]
=============================================================================
