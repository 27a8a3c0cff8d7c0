------------------------------ MODULE Lifecycle ------------------------------
(***************************************************************************)
(* The life of the process, from runServe's runIngressesUntilSignal to its *)
(* exit: the main goroutine, the goroutine that forces the exit at a       *)
(* second signal, the HTTP ingress and the SMTP listener with a goroutine  *)
(* per connection.  http.Server is external: Shutdown closes its listener  *)
(* and returns when no request is active, or at the deadline.              *)
(***************************************************************************)
EXTENDS Naturals, FiniteSets

CONSTANTS
  Requests,   \* the HTTP requests that may arrive
  Sessions,   \* the SMTP connections that may arrive
  MaxSignals  \* bound on the signals

ASSUME LifecycleAssumption == IsFiniteSet(Sessions) /\ MaxSignals \in Nat

VARIABLES
  main,        \* where the main goroutine is
  exit,        \* the exit code
  failed,      \* a Stop has returned an error: firstErr
  signals,     \* the signals sent, and those main or the watcher has taken
  taken,
  expired,     \* the 15 s of shutdownCtx are over
  http,        \* the goroutine in HTTPIngress.Start
  shutdown,    \* http.Server.Shutdown was called
  request,     \* each HTTP request
  smtp,        \* the goroutine in Listener.Start
  open,        \* l.listener is there and not closed
  stopped,     \* the channel l.stopped is closed
  session,     \* each SMTP connection
  wg,          \* the counter of l.wg
  waited       \* l.wg.Wait() has returned: the channel done is closed

mainVars == <<main, exit, failed, signals, taken, expired>>
httpVars == <<http, shutdown, request>>
smtpVars == <<smtp, open, stopped, session, wg, waited>>
vars == <<mainVars, httpVars, smtpVars>>

TypeOK ==
  /\ main \in {"select", "http_stop", "http_drain", "smtp_stop", "smtp_drain", "exited"}
  /\ exit \in {"none", "0", "1"}
  /\ signals \in 0..MaxSignals /\ taken \in 0..signals
  /\ {failed, expired, shutdown, open, stopped, waited} \subseteq BOOLEAN
  /\ http \in {"new", "serving", "returned", "failed"}
  /\ request \in [Requests -> {"outside", "active", "done"}]
  /\ smtp \in {"new", "accepting", "accepted", "returned", "failed"}
  /\ session \in [Sessions -> {"outside", "accepted", "idle", "busy", "closed"}]
  /\ wg \in 0..Cardinality(Sessions)

Init ==
  /\ main = "select" /\ exit = "none"
  /\ signals = 0 /\ taken = 0
  /\ failed = FALSE /\ expired = FALSE
  /\ shutdown = FALSE /\ open = FALSE /\ stopped = FALSE /\ waited = FALSE
  /\ http = "new" /\ request = [r \in Requests |-> "outside"]
  /\ smtp = "new" /\ session = [s \in Sessions |-> "outside"] /\ wg = 0

Running == main # "exited"
Stopping == main \notin {"select", "exited"}
-----------------------------------------------------------------------------
(* HTTPIngress.Start: ListenAndServe binds, or fails, or was shut down first; *)
(* once it serves it returns at Shutdown.                                     *)
HttpStart ==
  /\ Running
  /\ \/ http = "new" /\ http' \in IF shutdown THEN {"returned"} ELSE {"serving", "failed"}
     \/ http = "serving" /\ shutdown /\ http' = "returned"
  /\ UNCHANGED <<mainVars, shutdown, request, smtpVars>>

(* A request arrives, or is answered. *)
Http(r) ==
  /\ Running
  /\ \/ http = "serving" /\ ~shutdown /\ request[r] = "outside"
        /\ request' = [request EXCEPT ![r] = "active"]
     \/ request[r] = "active" /\ request' = [request EXCEPT ![r] = "done"]
  /\ UNCHANGED <<mainVars, http, shutdown, smtpVars>>
-----------------------------------------------------------------------------
(* Listener.Start: net.Listen, then the accept loop.  Nothing orders it      *)
(* before Stop: a listener that Stop did not see stays open.                 *)
SmtpStart ==
  /\ Running
  /\ smtp = "new"
  /\ \/ smtp' = "accepting" /\ open' = TRUE
     \/ smtp' = "failed" /\ UNCHANGED open
  /\ UNCHANGED <<mainVars, httpVars, stopped, session, wg, waited>>

Accept(s) ==
  /\ Running
  /\ smtp = "accepting" /\ open /\ session[s] = "outside"
  /\ session' = [session EXCEPT ![s] = "accepted"]
  /\ smtp' = "accepted"
  /\ UNCHANGED <<mainVars, httpVars, open, stopped, wg, waited>>

(* Accept fails, after Stop or for want of a file descriptor, say; an error  *)
(* after Stop is a graceful end.                                             *)
AcceptFails ==
  /\ Running
  /\ smtp = "accepting"
  /\ smtp' = IF stopped \/ ~open THEN "returned" ELSE "failed"
  /\ UNCHANGED <<mainVars, httpVars, open, stopped, session, wg, waited>>

(* Mutant of Serve: the new goroutine is not counted. *)
ServeUncounted(s) ==
  /\ Running
  /\ session[s] = "accepted"
  /\ session' = [session EXCEPT ![s] = "idle"]
  /\ smtp' = "accepting"
  /\ UNCHANGED <<mainVars, httpVars, open, stopped, wg, waited>>

(* l.wg.Add(1), after Accept has returned, and the session's goroutine. *)
Serve(s) ==
  /\ Running
  /\ session[s] = "accepted"
  /\ session' = [session EXCEPT ![s] = "idle"]
  /\ wg' = wg + 1
  /\ smtp' = "accepting"
  /\ UNCHANGED <<mainVars, httpVars, open, stopped, waited>>

(* The client sends a message, and the session answers it. *)
Message(s) ==
  /\ Running
  /\ session[s] \in {"idle", "busy"}
  /\ session' = [session EXCEPT ![s] = IF @ = "idle" THEN "busy" ELSE "idle"]
  /\ UNCHANGED <<mainVars, httpVars, smtp, open, stopped, wg, waited>>

(* The client quits, is gone, or was silent for idle_timeout. *)
SessionEnds(s) ==
  /\ Running
  /\ session[s] \in {"idle", "busy"}
  /\ session' = [session EXCEPT ![s] = "closed"]
  /\ wg' = wg - 1
  /\ UNCHANGED <<mainVars, httpVars, smtp, open, stopped, waited>>
-----------------------------------------------------------------------------
Signal ==
  /\ Running /\ signals < MaxSignals
  /\ signals' = signals + 1
  /\ UNCHANGED <<main, exit, failed, taken, expired, httpVars, smtpVars>>

Exit(code) == main' = "exited" /\ exit' = code

(* Before a signal only a failure ends a Start: the process ends without a Stop. *)
IngressFails ==
  /\ main = "select"
  /\ http = "failed" \/ smtp = "failed"
  /\ Exit("1")
  /\ UNCHANGED <<failed, signals, taken, expired, httpVars, smtpVars>>

(* The first signal is main's, the second the watcher's. *)
TakeSignal ==
  /\ main = "select" /\ taken < signals
  /\ taken' = taken + 1
  /\ main' = "http_stop"
  /\ UNCHANGED <<exit, failed, signals, expired, httpVars, smtpVars>>

ForceExit ==
  /\ Stopping /\ taken < signals
  /\ taken' = taken + 1
  /\ Exit("1")
  /\ UNCHANGED <<failed, signals, expired, httpVars, smtpVars>>

(* shutdownCtx, which both Stop calls share. *)
Deadline ==
  /\ Stopping /\ ~expired
  /\ expired' = TRUE
  /\ UNCHANGED <<main, exit, failed, signals, taken, httpVars, smtpVars>>

HttpStop ==
  /\ main = "http_stop"
  /\ shutdown' = TRUE
  /\ main' = "http_drain"
  /\ UNCHANGED <<exit, failed, signals, taken, expired, http, request, smtpVars>>

Idle == \A r \in Requests : request[r] # "active"

(* Mutant of HttpDrained: an expired deadline is not an error. *)
HttpDrainedOrLate ==
  /\ main = "http_drain"
  /\ Idle \/ expired
  /\ main' = "smtp_stop"
  /\ UNCHANGED <<exit, failed, signals, taken, expired, httpVars, smtpVars>>

HttpDrained ==
  /\ main = "http_drain"
  /\ \/ Idle /\ UNCHANGED failed
     \/ expired /\ failed' = TRUE
  /\ main' = "smtp_stop"
  /\ UNCHANGED <<exit, signals, taken, expired, httpVars, smtpVars>>

(* Listener.Stop up to the wait, under l.mu. *)
SmtpStop ==
  /\ main = "smtp_stop"
  /\ open' = FALSE /\ stopped' = TRUE
  /\ main' = "smtp_drain"
  /\ UNCHANGED <<exit, failed, signals, taken, expired, httpVars, smtp, session, wg, waited>>

WaitReturns ==
  /\ Running
  /\ stopped /\ ~waited /\ wg = 0
  /\ waited' = TRUE
  /\ UNCHANGED <<mainVars, httpVars, smtp, open, stopped, session, wg>>

(* Mutant of SmtpDrained: the wait is not bounded by the context. *)
SmtpDrainedUnbounded ==
  /\ main = "smtp_drain"
  /\ waited /\ Exit(IF failed THEN "1" ELSE "0")
  /\ UNCHANGED <<failed, signals, taken, expired, httpVars, smtpVars>>

SmtpDrained ==
  /\ main = "smtp_drain"
  /\ \/ waited /\ Exit(IF failed THEN "1" ELSE "0") /\ UNCHANGED failed
     \/ expired /\ Exit("1") /\ failed' = TRUE
  /\ UNCHANGED <<signals, taken, expired, httpVars, smtpVars>>

Main == IngressFails \/ TakeSignal \/ HttpStop \/ HttpDrained \/ SmtpStop \/ SmtpDrained

Next ==
  \/ Main \/ ForceExit \/ Deadline \/ WaitReturns \/ Signal
  \/ HttpStart \/ \E r \in Requests : Http(r)
  \/ SmtpStart \/ AcceptFails
  \/ \E s \in Sessions : Accept(s) \/ Serve(s) \/ Message(s) \/ SessionEnds(s)

Spec == Init /\ [][Next]_vars

(* The runtime runs every goroutine that can go on, and the timer fires.  No *)
(* client ever has to do anything.                                           *)
FairSpec ==
  /\ Spec
  /\ WF_vars(Main) /\ WF_vars(ForceExit) /\ WF_vars(Deadline) /\ WF_vars(WaitReturns)
-----------------------------------------------------------------------------
(* The sessions that l.wg counts. *)
Counted == {s \in Sessions : session[s] \in {"idle", "busy"}}

(* An exit with code 0 means that every HTTP request was answered and that,  *)
(* unless the listener opened after its own Stop, at most one SMTP session   *)
(* is cut off: the one the accept loop held between Accept and wg.Add        *)
(* (main.go:236, listener.go:112-127, 134-156).                              *)
CleanExitDrains ==
  exit = "0" => /\ Idle
                /\ open \/ Cardinality(Counted) <= 1

(* A shutdown ends whatever the clients do: a request that never completes   *)
(* or a session that stays open delays it to the deadline at most.           *)
ShutdownEnds == (taken > 0) ~> (main = "exited")

(* listener.go:132 says that Stop "waits for in-flight sessions to complete  *)
(* (bounded by ctx)".  A connection that Accept has returned when Stop       *)
(* begins, and that is counted after the wait, is cut off in a message while *)
(* Stop returns nil (listener.go:124, 145).                                  *)
CleanExitCutsNoMessage ==
  exit = "0" => \A s \in Sessions : session[s] # "busy"
=============================================================================
