-------------------------- MODULE RateLimitHistory --------------------------
(***************************************************************************)
(* RateLimit with a history of what each bucket has admitted since it was  *)
(* created, and what the limiter promises in terms of that history.        *)
(***************************************************************************)
EXTENDS RateLimit

VARIABLE granted  \* granted[c]: bucket[c].last at each admission by c's present bucket

histVars == <<recent, bucket, stamp, now, granted>>

(* A client that enters the map starts a new bucket and a new history. *)
Granted(c) == IF c \in Range(recent) THEN granted[c] ELSE <<>>

HistInit == Init /\ granted = [c \in Clients |-> <<>>]

HistTick == Tick /\ UNCHANGED granted

HistReadClock(g) == ReadClock(g) /\ UNCHANGED <<now, granted>>

HistAdmit(g, c) ==
  /\ Admit(g, c)
  /\ granted' = [granted EXCEPT ![c] = Append(Granted(c), bucket'[c].last)]
  /\ UNCHANGED now

HistDeny(g, c) ==
  /\ Deny(g, c)
  /\ granted' = [granted EXCEPT ![c] = Granted(c)]
  /\ UNCHANGED now

HistNext ==
  \/ HistTick
  \/ \E g \in Callers :
       \/ HistReadClock(g)
       \/ \E c \in Clients : HistAdmit(g, c) \/ HistDeny(g, c)

HistSpec == HistInit /\ [][HistNext]_histVars

(* The admissions that one bucket makes from its i-th on, in credits, are    *)
(* paid by one full bucket and the refills since: no order in which stamped  *)
(* goroutines reach the lock mints tokens (allowAt's elapsed > 0 test, its   *)
(* cap and the update of b.last, ratelimit.go:107-111).                      *)
WindowBound ==
  \A c \in Range(recent) : \A i \in DOMAIN granted[c] :
    (Len(granted[c]) - i + 1) * Interval + bucket[c].tokens
      <= Full + (bucket[c].last - granted[c][i]) * Count

(* The other half: a bucket without a token to give is explained by its own  *)
(* admissions.  From some admission on it has spent a full bucket and all    *)
(* refills since, short of one token; so a request is denied (429) only to a *)
(* client that used up its budget, also when stale stamps skip a refill.     *)
DenialIsEarned ==
  \A c \in Range(recent) : bucket[c].tokens < Interval =>
    \E i \in DOMAIN granted[c] :
      (Len(granted[c]) - i + 2) * Interval
        > Full + (bucket[c].last - granted[c][i]) * Count
=============================================================================
