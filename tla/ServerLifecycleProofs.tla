----------------------- MODULE ServerLifecycleProofs ------------------------
(***************************************************************************)
(* Safety of ServerLifecycle for every setting of the two periods, every   *)
(* positive default and any number of requests at once.                    *)
(***************************************************************************)
EXTENDS ServerLifecycle, TLAPS

(* A period that is not positive was set so: the default is not.  *)
LEMMA PeriodIsSet ==
  ASSUME ReconcileEvery <= 0
  PROVE  every.kind = "number" /\ every.n <= 0
BY LifecycleAssumption DEF ReconcileEvery, getEnvDuration

-----------------------------------------------------------------------------
(* Type correctness. *)

LEMMA TypeInit == Init => TypeOK
<1> SUFFICES ASSUME Init PROVE TypeOK
  OBVIOUS
<1>1. 0 \in 0..MaxRequests
  BY LifecycleAssumption
<1>2. {signalled, expired, errCh, firstDone, busy} \subseteq BOOLEAN
  BY Zenon DEF Init
<1> QED BY <1>1, <1>2 DEF Init, TypeOK, Alive

(* An exit, whatever its code, keeps the type. *)
LEMMA ExitType ==
  ASSUME TypeOK, NEW code \in {"ok", "error", "panic", "signal"}, Exit(code)
  PROVE  TypeOK'
BY DEF TypeOK, Exit, Alive, environment, http, loops

LEMMA TypeStep == TypeOK /\ [Next]_vars => TypeOK'
<1> SUFFICES ASSUME TypeOK, [Next]_vars PROVE TypeOK'
  OBVIOUS
<1> USE LifecycleAssumption DEF environment, http, loops
<1>1. CASE NewFails
  BY <1>1, ExitType DEF NewFails
<1>2. CASE Run
  BY <1>2 DEF Run, TypeOK, Alive
<1>3. CASE Signal
  BY <1>3, ExitType DEF Signal, TypeOK, Alive
<1>4. CASE BeginShutdown
  BY <1>4 DEF BeginShutdown, TypeOK, Alive
<1>5. CASE ListenerError \/ Drained \/ ShutdownFails
  BY <1>5, ExitType DEF ListenerError, Drained, ShutdownFails
<1>6. CASE NotDrained \/ PollAgain \/ WindowExpires
  BY <1>6 DEF NotDrained, PollAgain, WindowExpires, TypeOK, Alive
<1>7. CASE Listen \/ ListenerFails
  BY <1>7 DEF Listen, ListenerFails, TypeOK, Alive
<1>8. CASE Accept
  BY <1>8 DEF Accept, TypeOK, Alive
<1>9. CASE Respond
  BY <1>9 DEF Respond, TypeOK, Alive
<1>10. CASE FirstPassEnds \/ ManagerReturns \/ Publication \/ PipelineReturns
  BY <1>10 DEF FirstPassEnds, ManagerReturns, Publication, PipelineReturns, TypeOK,
               Alive
<1>11. CASE ManagerTicker
  BY <1>11, ExitType DEF ManagerTicker, TypeOK, Alive
<1>12. CASE PipelineTicker
  BY <1>12, ExitType DEF PipelineTicker, TypeOK, Alive
<1>13. CASE Ended \/ UNCHANGED vars
  BY <1>13 DEF Ended, vars, TypeOK, Alive
<1> QED
  BY <1>1, <1>2, <1>3, <1>4, <1>5, <1>6, <1>7, <1>8, <1>9, <1>10, <1>11, <1>12,
     <1>13
  DEF Next, Main

(* Every variable keeps its type; the process has ended exactly when its    *)
(* main goroutine has, and nothing is served that no listener accepted.     *)
THEOREM TypeCorrect == Spec => []TypeOK
<1>1. Init => TypeOK
  BY TypeInit
<1>2. TypeOK /\ [Next]_vars => TypeOK'
  BY TypeStep
<1> QED BY <1>1, <1>2, PTL DEF Spec

-----------------------------------------------------------------------------
(***************************************************************************)
(* How the process ends.  The three invariants speak of the state after    *)
(* the exit.  What makes them inductive is what the main goroutine knows   *)
(* where it stands, before: it polls because it was signalled, it sleeps   *)
(* because it saw a request, and until Run there are no loops.             *)
(***************************************************************************)
Position ==
  /\ main = "new" => manager = "new"
  /\ main \in {"poll", "sleep"} => signalled
  /\ main = "sleep" => busy

Inv == TypeOK /\ Position /\ CleanExit /\ ErrorsHaveACause /\ PanicMeansPeriod

LEMMA InvInit == Init => Inv
BY TypeInit DEF Init, Inv, Position, CleanExit, ErrorsHaveACause, PanicMeansPeriod

(* The process is over: no goroutine takes another step. *)
LEMMA DeadIsStill ==
  ASSUME TypeOK, ~ Alive, [Next]_vars
  PROVE  UNCHANGED vars
<1>1. main = "exited"
  BY DEF TypeOK
<1>2. ~ \/ NewFails \/ Run \/ Signal \/ Main \/ WindowExpires
  BY <1>1 DEF NewFails, Run, Signal, Main, WindowExpires, BeginShutdown, ListenerError,
              Drained, NotDrained, PollAgain, ShutdownFails
<1>3. ~ \/ Listen \/ ListenerFails \/ Accept \/ Respond
        \/ FirstPassEnds \/ ManagerTicker \/ ManagerReturns
        \/ PipelineTicker \/ Publication \/ PipelineReturns
  BY DEF Listen, ListenerFails, Accept, Respond, FirstPassEnds, ManagerTicker,
         ManagerReturns, PipelineTicker, Publication, PipelineReturns
<1> QED BY <1>2, <1>3 DEF Next, Ended

(* A step of a live process that does not end it leaves the three alone,    *)
(* since the process has not ended then either.                            *)
LEMMA LivesOn ==
  ASSUME exit' = "no"
  PROVE  CleanExit' /\ ErrorsHaveACause' /\ PanicMeansPeriod'
BY DEF CleanExit, ErrorsHaveACause, PanicMeansPeriod

LEMMA InvStep == Inv /\ [Next]_vars => Inv'
<1> SUFFICES ASSUME Inv, [Next]_vars PROVE Inv'
  OBVIOUS
<1>1. TypeOK' /\ TypeOK
  BY TypeStep DEF Inv
<1>2. CASE UNCHANGED vars
  BY <1>1, <1>2 DEF vars, environment, http, loops, Inv, Position, CleanExit,
                    ErrorsHaveACause, PanicMeansPeriod
<1>3. CASE Alive /\ Next
  <2> USE <1>1, <1>3 DEF Inv, Position, Alive, environment, http, loops
  <2>1. CASE NewFails
    BY <2>1 DEF NewFails, Exit, CleanExit, ErrorsHaveACause, PanicMeansPeriod
  <2>2. CASE Signal
    <3>1. CASE main = "new" /\ Exit("signal")
      BY <3>1 DEF Exit, CleanExit, ErrorsHaveACause, PanicMeansPeriod
    <3>2. CASE main # "new" /\ ~ Exit("signal")
      BY <2>2, <3>2, LivesOn DEF Signal
    <3> QED BY <2>2, <3>1, <3>2, LivesOn DEF Signal
  <2>3. CASE Run \/ BeginShutdown \/ NotDrained \/ PollAgain \/ WindowExpires
    BY <2>3, LivesOn DEF Run, BeginShutdown, NotDrained, PollAgain, WindowExpires
  <2>4. CASE ListenerError
    BY <2>4 DEF ListenerError, Exit, CleanExit, ErrorsHaveACause, PanicMeansPeriod
  <2>5. CASE Drained
    BY <2>5 DEF Drained, Exit, CleanExit, ErrorsHaveACause, PanicMeansPeriod
  <2>6. CASE ShutdownFails
    BY <2>6 DEF ShutdownFails, Exit, CleanExit, ErrorsHaveACause, PanicMeansPeriod
  <2>7. CASE Listen \/ ListenerFails \/ Accept \/ Respond
    BY <2>7, LivesOn DEF Listen, ListenerFails, Accept, Respond
  <2>8. ASSUME ReconcileEvery <= 0, Exit("panic") PROVE Inv'
    BY <2>8, PeriodIsSet DEF Exit, CleanExit, ErrorsHaveACause, PanicMeansPeriod
  <2>9. CASE ManagerTicker
    <3>1. CASE ReconcileEvery > 0 /\ manager' = "loop"
      BY <2>9, <3>1, LivesOn DEF ManagerTicker, Exit
    <3> QED BY <2>8, <2>9, <3>1 DEF ManagerTicker
  <2>10. CASE PipelineTicker
    <3>1. CASE ReconcileEvery > 0 /\ pipeline' = "publish"
      BY <2>10, <3>1, LivesOn DEF PipelineTicker, Exit
    <3> QED BY <2>8, <2>10, <3>1 DEF PipelineTicker
  <2>11. CASE FirstPassEnds \/ ManagerReturns \/ Publication \/ PipelineReturns
    BY <2>11, LivesOn DEF FirstPassEnds, ManagerReturns, Publication, PipelineReturns
  <2>12. CASE Ended
    BY <2>12 DEF Ended
  <2> QED
    BY <2>1, <2>2, <2>3, <2>4, <2>5, <2>6, <2>7, <2>9, <2>10, <2>11, <2>12, <1>3
    DEF Next, Main
<1> QED BY <1>1, <1>2, <1>3, DeadIsStill

LEMMA Invariant == Spec => []Inv
<1> QED BY InvInit, InvStep, PTL DEF Spec

(* Success means: signalled, and no request cut off. *)
THEOREM CleanExits == Spec => []CleanExit
<1>1. Inv => CleanExit
  BY DEF Inv
<1> QED BY <1>1, Invariant, PTL

(* An error at the end has one of the three causes, for every window: an    *)
(* idle server does not fail even when the window is zero or negative.      *)
THEOREM ErrorsAreCaused == Spec => []ErrorsHaveACause
<1>1. Inv => ErrorsHaveACause
  BY DEF Inv
<1> QED BY <1>1, Invariant, PTL

(* Only a period that was set to zero or less makes the process panic: not  *)
(* one that is unset or does not parse, and never the shutdown window.      *)
THEOREM PanicsAreSet == Spec => []PanicMeansPeriod
<1>1. Inv => PanicMeansPeriod
  BY DEF Inv
<1> QED BY <1>1, Invariant, PTL

=============================================================================
