--------------------------- MODULE LifecycleProofs ---------------------------
(***************************************************************************)
(* What a clean exit means, for any number of requests, connections and    *)
(* signals.                                                                *)
(***************************************************************************)
EXTENDS Lifecycle, FiniteSetTheorems, TLAPS

(* The connections that are counted or about to be. *)
Live == {s \in Sessions : session[s] \in {"accepted", "idle", "busy"}}

(* The accept loop holds at most one connection that is not counted. *)
OneHeld ==
  /\ \A s \in Sessions : session[s] = "accepted" => smtp = "accepted"
  /\ \A s, t \in Sessions : session[s] = "accepted" /\ session[t] = "accepted" => s = t

(* The wait began after Stop had closed the listener, so that nothing but    *)
(* the held connection can follow it.                                        *)
AfterWait ==
  /\ waited => stopped
  /\ stopped => main \in {"smtp_drain", "exited"}
  /\ waited /\ ~open => \A s, t \in Live : s = t

(* An HTTP drain that did not fail left no request, and none can follow. *)
AfterDrain ==
  /\ main \in {"http_drain", "smtp_stop", "smtp_drain"} => shutdown
  /\ main \in {"smtp_stop", "smtp_drain"} /\ ~failed => Idle
  /\ exit = "0" => waited /\ Idle /\ main = "exited"

IInv ==
  /\ TypeOK
  /\ wg = Cardinality(Counted)
  /\ OneHeld
  /\ AfterWait
  /\ AfterDrain
-----------------------------------------------------------------------------
(* The sessions counted are finitely many, and counted one by one. *)
LEMMA CountFacts ==
  /\ IsFiniteSet(Counted)
  /\ Cardinality(Counted) \in 0..Cardinality(Sessions)
  /\ Cardinality(Sessions) \in Nat
BY LifecycleAssumption, FS_Subset, FS_CardinalityType DEF Counted

(* The process starts with nothing accepted and nothing counted. *)
LEMMA InitIInv == Init => IInv
<1> SUFFICES ASSUME Init PROVE IInv
  OBVIOUS
<1>1. Counted = {} /\ Live = {}
  BY DEF Init, Counted, Live
<1>2. wg = Cardinality(Counted)
  BY <1>1, FS_EmptySet DEF Init
<1>3. 0 \in 0..MaxSignals /\ 0 \in 0..0 /\ wg \in 0..Cardinality(Sessions)
  BY <1>2, CountFacts, LifecycleAssumption
<1>4. TypeOK
  BY <1>3 DEF Init, TypeOK
<1>5. QED
  BY <1>1, <1>2, <1>4 DEF Init, IInv, OneHeld, AfterWait, AfterDrain

(* The HTTP side: requests come only before Shutdown. *)
LEMMA HttpKeepsIInv ==
  ASSUME IInv, HttpStart \/ (\E r \in Requests : Http(r)) PROVE IInv'
<1>1. UNCHANGED <<mainVars, shutdown, smtpVars>> /\ Running
  BY DEF HttpStart, Http
<1>2. UNCHANGED <<main, exit, failed, signals, taken, expired, shutdown,
                  smtp, open, stopped, session, wg, waited>>
  BY <1>1 DEF mainVars, smtpVars
<1>3. TypeOK'
  BY <1>2 DEF IInv, TypeOK, HttpStart, Http
<1>4. Idle /\ shutdown => Idle'
  BY DEF HttpStart, Http, Idle, IInv, TypeOK
<1>5. Counted' = Counted /\ Live' = Live
  BY <1>2 DEF Counted, Live
<1>6. AfterDrain'
  BY <1>1, <1>2, <1>4 DEF IInv, AfterDrain, Running
<1>7. QED
  BY <1>2, <1>3, <1>5, <1>6 DEF IInv, OneHeld, AfterWait

(* The accept loop up to wg.Add. *)
LEMMA AcceptKeepsIInv ==
  ASSUME IInv, SmtpStart \/ AcceptFails \/ (\E s \in Sessions : Accept(s)) PROVE IInv'
<1>1. UNCHANGED <<mainVars, httpVars, stopped, wg, waited>>
  BY DEF SmtpStart, AcceptFails, Accept
<1>2. UNCHANGED <<main, exit, failed, signals, taken, expired, http, shutdown, request,
                  stopped, wg, waited>>
  BY <1>1 DEF mainVars, httpVars
<1>3. TypeOK'
  BY <1>2 DEF IInv, TypeOK, SmtpStart, AcceptFails, Accept
<1>4. Counted' = Counted
  BY DEF SmtpStart, AcceptFails, Accept, Counted, IInv, TypeOK
<1>5. OneHeld'
  BY DEF SmtpStart, AcceptFails, Accept, OneHeld, IInv, TypeOK
<1>6. ~open' => ~open /\ Live' = Live
  BY DEF SmtpStart, AcceptFails, Accept, Live
<1>7. AfterWait'
  BY <1>2, <1>6 DEF IInv, AfterWait
<1>8. QED
  BY <1>2, <1>3, <1>4, <1>5, <1>7 DEF IInv, AfterDrain, Idle

(* A session's life from wg.Add to wg.Done. *)
LEMMA SessionKeepsIInv ==
  ASSUME IInv, NEW s \in Sessions, Serve(s) \/ Message(s) \/ SessionEnds(s) PROVE IInv'
<1>1. UNCHANGED <<main, exit, failed, signals, taken, expired, http, shutdown, request,
                  open, stopped, waited>>
  BY DEF Serve, Message, SessionEnds, mainVars, httpVars
<1>2. /\ session \in [Sessions -> {"outside", "accepted", "idle", "busy", "closed"}]
      /\ session' \in [Sessions -> {"outside", "accepted", "idle", "busy", "closed"}]
      /\ smtp' \in {"new", "accepting", "accepted", "returned", "failed"}
  BY DEF IInv, TypeOK, Serve, Message, SessionEnds
<1>3. wg' = Cardinality(Counted')
  <2>1. CASE Serve(s)
    <3>1. s \notin Counted /\ Counted' = Counted \cup {s}
      BY <1>2, <2>1 DEF Serve, Counted
    <3>2. QED
      BY <2>1, <3>1, CountFacts, FS_AddElement DEF Serve, IInv
  <2>2. CASE Message(s)
    <3>1. Counted' = Counted
      BY <1>2, <2>2 DEF Message, Counted
    <3>2. QED
      BY <2>2, <3>1 DEF Message, IInv
  <2>3. CASE SessionEnds(s)
    <3>1. s \in Counted /\ Counted' = Counted \ {s}
      BY <1>2, <2>3 DEF SessionEnds, Counted
    <3>2. QED
      BY <2>3, <3>1, CountFacts, FS_RemoveElement DEF SessionEnds, IInv
  <2>4. QED
    BY <2>1, <2>2, <2>3
<1>4. Cardinality(Counted') \in 0..Cardinality(Sessions)
  BY LifecycleAssumption, FS_Subset, FS_CardinalityType DEF Counted
<1>5. TypeOK'
  BY <1>1, <1>2, <1>3, <1>4 DEF IInv, TypeOK
<1>6. OneHeld'
  BY <1>2 DEF IInv, OneHeld, Serve, Message, SessionEnds
<1>7. Live' \subseteq Live
  BY <1>2 DEF Live, Serve, Message, SessionEnds
<1>8. QED
  BY <1>1, <1>3, <1>5, <1>6, <1>7 DEF IInv, AfterWait, AfterDrain, Idle

(* Signals, the watcher, the deadline and the main goroutine's Stop calls. *)
LEMMA MainKeepsIInv ==
  ASSUME IInv, Main \/ ForceExit \/ Deadline \/ Signal PROVE IInv'
<1> USE DEF Exit, smtpVars, httpVars
<1>1. UNCHANGED <<http, request, smtp, session, wg, waited>>
  BY DEF Main, IngressFails, TakeSignal, HttpStop, HttpDrained, SmtpStop, SmtpDrained,
         ForceExit, Deadline, Signal
<1>2. TypeOK'
  <2>1. /\ main \in {"select", "http_stop", "http_drain", "smtp_stop", "smtp_drain", "exited"}
        /\ signals \in 0..MaxSignals /\ taken \in 0..signals
        /\ failed \in BOOLEAN /\ expired \in BOOLEAN /\ shutdown \in BOOLEAN
        /\ open \in BOOLEAN /\ stopped \in BOOLEAN
    BY DEF IInv, TypeOK
  <2>2. /\ main' \in {"select", "http_stop", "http_drain", "smtp_stop", "smtp_drain", "exited"}
        /\ exit' \in {exit, "0", "1"}
        /\ failed' \in BOOLEAN /\ expired' \in BOOLEAN /\ shutdown' \in BOOLEAN
        /\ open' \in BOOLEAN /\ stopped' \in BOOLEAN
    BY <2>1 DEF Main, IngressFails, TakeSignal, HttpStop, HttpDrained, SmtpStop, SmtpDrained,
                ForceExit, Deadline, Signal
  <2>3. signals' \in 0..MaxSignals /\ taken' \in 0..signals'
    BY <2>1, LifecycleAssumption
    DEF Main, IngressFails, TakeSignal, HttpStop, HttpDrained, SmtpStop, SmtpDrained,
        ForceExit, Deadline, Signal
  <2>4. QED
    BY <1>1, <2>2, <2>3 DEF IInv, TypeOK
<1>3. Counted' = Counted /\ Live' = Live /\ (Idle' <=> Idle) /\ (OneHeld => OneHeld')
  BY <1>1 DEF Counted, Live, Idle, OneHeld
<1>4. AfterWait'
  BY <1>1, <1>3
  DEF IInv, AfterWait, Main, IngressFails, TakeSignal, HttpStop, HttpDrained, SmtpStop,
      SmtpDrained, ForceExit, Deadline, Signal, Stopping
<1>5. AfterDrain'
  BY <1>1, <1>3
  DEF IInv, TypeOK, AfterDrain, Main, IngressFails, TakeSignal, HttpStop, HttpDrained, SmtpStop,
      SmtpDrained, ForceExit, Deadline, Signal, Stopping, Running
<1>6. QED
  BY <1>1, <1>2, <1>3, <1>4, <1>5 DEF IInv

(* When the wait returns, only the held connection is left. *)
LEMMA WaitKeepsIInv ==
  ASSUME IInv, WaitReturns PROVE IInv'
<1>1. /\ UNCHANGED <<main, exit, failed, signals, taken, expired, http, shutdown, request,
                     smtp, open, stopped, session, wg>>
      /\ waited' = TRUE /\ stopped
  BY DEF WaitReturns, mainVars, httpVars
<1>2. Counted = {}
  BY CountFacts, FS_EmptySet DEF WaitReturns, IInv
<1>3. \A s, t \in Live : s = t
  BY <1>2 DEF IInv, OneHeld, Live, Counted
<1>4. Counted' = Counted /\ Live' = Live /\ TypeOK' /\ OneHeld'
  BY <1>1 DEF Counted, Live, IInv, TypeOK, OneHeld
<1>5. QED
  BY <1>1, <1>3, <1>4 DEF IInv, AfterWait, AfterDrain, Idle

(* The invariant survives every step. *)
LEMMA IInvIsInductive == IInv /\ [Next]_vars => IInv'
<1>1. ASSUME IInv, UNCHANGED vars PROVE IInv'
  BY <1>1 DEF vars, mainVars, httpVars, smtpVars, IInv, TypeOK, OneHeld, AfterWait, AfterDrain,
              Idle, Counted, Live
<1>2. QED
  BY <1>1, HttpKeepsIInv, AcceptKeepsIInv, SessionKeepsIInv, MainKeepsIInv, WaitKeepsIInv
  DEF Next

(* The life cycle's variables keep their types: l.wg in particular is never  *)
(* negative, which sync.WaitGroup would answer with a panic.                 *)
THEOREM TypeCorrect == Spec => []TypeOK
<1>1. IInv => TypeOK
  BY DEF IInv
<1>2. QED
  BY InitIInv, IInvIsInductive, <1>1, PTL DEF Spec

(* An exit with code 0 has answered every HTTP request and cuts off at most  *)
(* one SMTP session, unless the listener opened after its own Stop.          *)
THEOREM CleanExit == Spec => []CleanExitDrains
<1>1. IInv => CleanExitDrains
  <2> SUFFICES ASSUME IInv, exit = "0", ~open PROVE Idle /\ Cardinality(Counted) <= 1
    BY DEF CleanExitDrains, IInv, AfterDrain
  <2>1. Idle /\ \A s, t \in Counted : s = t
    BY DEF IInv, AfterDrain, AfterWait, Counted, Live
  <2>2. CASE Counted = {}
    <3>1. Cardinality(Counted) = 0
      BY <2>2, FS_EmptySet
    <3>2. QED
      BY <2>1, <3>1
  <2>3. CASE Counted # {}
    <3>1. PICK s \in Counted : Counted = {s}
      BY <2>1, <2>3
    <3>2. Cardinality({s}) = 1
      BY FS_Singleton
    <3>3. Cardinality(Counted) <= 1
      BY <3>1, <3>2
    <3>4. QED
      BY <2>1, <3>3
  <2>4. QED
    BY <2>2, <2>3
<1>2. QED
  BY InitIInv, IInvIsInductive, <1>1, PTL DEF Spec
=============================================================================
