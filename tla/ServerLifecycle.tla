-------------------------- MODULE ServerLifecycle ---------------------------
(***************************************************************************)
(* cmd/helm-watch/main.go and Server.Run of internal/server/server.go: how *)
(* the process starts, serves and ends.  The main goroutine waits for a    *)
(* signal or for the listener to fail; the discovery loop and the pipeline *)
(* run beside it, and nobody waits for them.  An exit or a panic ends all. *)
(***************************************************************************)
EXTENDS Config

CONSTANTS
  EveryValues,   \* HELM_WATCH_RECONCILE_EVERY
  WindowValues,  \* HELM_WATCH_SHUTDOWN_TIMEOUT
  Default,       \* their default, in time units
  MaxRequests    \* bound: requests served at once

ASSUME LifecycleAssumption == Default \in Nat \ {0} /\ MaxRequests \in Nat

VARIABLES
  every, window,  \* the environment
  main,           \* new, select, poll (Shutdown looks), sleep (it waits), exited
  exit,           \* how the process ended: ok, error, panic, signal, or not
  signalled,      \* the context of NotifyContext is done
  expired,        \* the context of Shutdown is done
  listener,       \* opening, serving, closed (connections are kept), none
  errCh,          \* the channel of capacity one holds the listener's error
  requests,       \* requests being served; a new connection counts as one
  manager,        \* Manager.Run: new, pass, loop, or off
  firstDone,      \* firstReconcileDone is closed
  pipeline,       \* runMetricsPipeline: new, wait, publish, loop, or off
  busy            \* history: Shutdown has seen a request under way

environment == <<every, window>>
loops == <<manager, firstDone, pipeline>>
http == <<listener, errCh, requests>>
vars == <<environment, main, exit, signalled, expired, http, loops, busy>>

ReconcileEvery == getEnvDuration(every, Default)

ShutdownWindow == getEnvDuration(window, Default)

Alive == exit = "no"

TypeOK ==
  /\ every \in EveryValues /\ window \in WindowValues
  /\ main \in {"new", "select", "poll", "sleep", "exited"}
  /\ exit \in {"no", "ok", "error", "panic", "signal"}
  /\ listener \in {"opening", "serving", "closed", "none"}
  /\ requests \in 0..MaxRequests
  /\ manager \in {"new", "pass", "loop", "off"}
  /\ pipeline \in {"new", "wait", "publish", "loop", "off"}
  /\ {signalled, expired, errCh, firstDone, busy} \subseteq BOOLEAN
  /\ main = "exited" <=> ~ Alive
  /\ requests > 0 => listener \in {"serving", "closed"}

Init ==
  /\ every \in EveryValues /\ window \in WindowValues
  /\ main = "new" /\ exit = "no"
  /\ signalled = FALSE /\ expired = FALSE /\ busy = FALSE
  /\ listener = "opening" /\ errCh = FALSE /\ requests = 0
  /\ manager = "new" /\ firstDone = FALSE /\ pipeline = "new"

Exit(code) ==
  /\ main' = "exited" /\ exit' = code
  /\ UNCHANGED <<environment, signalled, expired, http, loops, busy>>

-----------------------------------------------------------------------------
(* The main goroutine. *)

(* server.New fails: no Kubernetes client. *)
NewFails == main = "new" /\ Exit("error")

(* Run starts the goroutines. *)
Run ==
  /\ main = "new"
  /\ main' = "select"
  /\ manager' = "pass" /\ pipeline' = "wait"
  /\ UNCHANGED <<environment, exit, signalled, expired, http, firstDone, busy>>

(* SIGINT or SIGTERM; before NotifyContext it kills, afterwards the first   *)
(* one ends the context and the others do nothing.                         *)
Signal ==
  \/ main = "new" /\ Exit("signal")
  \/ /\ Alive /\ main # "new" /\ ~ signalled
     /\ signalled' = TRUE
     /\ UNCHANGED <<environment, main, exit, expired, http, loops, busy>>

(* case <-ctx.Done(): Shutdown closes the listener, or keeps it from opening. *)
BeginShutdown ==
  /\ main = "select" /\ signalled
  /\ main' = "poll"
  /\ listener' = CASE listener = "serving" -> "closed"
                   [] listener = "opening" -> "none"
                   [] OTHER -> listener
  /\ UNCHANGED <<environment, exit, signalled, expired, errCh, requests, loops, busy>>

(* Mutant of ListenerError: only the context is waited for. *)
ListenerErrorUnread == FALSE

(* case err := <-errCh, also if the context is done as well. *)
ListenerError == main = "select" /\ errCh /\ Exit("error")

(* Mutant of Drained: Close instead of Shutdown. *)
DrainedAtOnce == main = "poll" /\ Exit("ok")

(* Shutdown finds no request under way. *)
Drained == main = "poll" /\ requests = 0 /\ Exit("ok")

(* It finds one, and waits a moment; *)
NotDrained ==
  /\ main = "poll" /\ requests > 0
  /\ main' = "sleep" /\ busy' = TRUE
  /\ UNCHANGED <<environment, exit, signalled, expired, http, loops>>

(* then it looks again, *)
PollAgain ==
  /\ main = "sleep"
  /\ main' = "poll"
  /\ UNCHANGED <<environment, exit, signalled, expired, http, loops, busy>>

(* Mutant of WindowExpires: Shutdown with a context that never ends. *)
WindowNeverExpires == FALSE

(* the window is over, which it is at once if it is not positive, *)
WindowExpires ==
  /\ main \in {"poll", "sleep"} /\ ~ expired
  /\ expired' = TRUE
  /\ UNCHANGED <<environment, main, exit, signalled, http, loops, busy>>

(* Mutant of ShutdownFails: the error is looked at before the requests. *)
ShutdownFailsEarly == main \in {"poll", "sleep"} /\ expired /\ Exit("error")

(* and it gives up.  With a window of zero or less it never waits in vain.  *)
ShutdownFails ==
  /\ main = "sleep" /\ (expired \/ ShutdownWindow <= 0)
  /\ Exit("error")

-----------------------------------------------------------------------------
(* The HTTP server. *)

Listen ==
  /\ Alive /\ main # "new" /\ listener = "opening"
  /\ listener' = "serving"
  /\ UNCHANGED <<environment, main, exit, signalled, expired, errCh, requests, loops, busy>>

(* ListenAndServe returns an error other than ErrServerClosed. *)
ListenerFails ==
  /\ Alive /\ main # "new" /\ listener \in {"opening", "serving"}
  /\ listener' = IF listener = "serving" THEN "closed" ELSE "none"
  /\ errCh' = TRUE
  /\ UNCHANGED <<environment, main, exit, signalled, expired, requests, loops, busy>>

(* Mutant of Accept: requests that nobody listens for. *)
AcceptUnopened ==
  /\ Alive /\ requests < MaxRequests
  /\ requests' = requests + 1
  /\ UNCHANGED <<environment, main, exit, signalled, expired, listener, errCh, loops, busy>>

(* A request arrives, over a new connection or over one that is kept: also *)
(* in the shutdown, until Shutdown has closed that connection.             *)
Accept ==
  /\ Alive /\ listener \in {"serving", "closed"} /\ requests < MaxRequests
  /\ requests' = requests + 1
  /\ UNCHANGED <<environment, main, exit, signalled, expired, listener, errCh, loops, busy>>

Respond ==
  /\ Alive /\ requests > 0
  /\ requests' = requests - 1
  /\ UNCHANGED <<environment, main, exit, signalled, expired, listener, errCh, loops, busy>>

-----------------------------------------------------------------------------
(* The loops.  time.NewTicker panics if its period is not positive.         *)

(* The first pass ends, if it does. *)
FirstPassEnds ==
  /\ Alive /\ manager = "pass" /\ ~ firstDone
  /\ firstDone' = TRUE
  /\ UNCHANGED <<environment, main, exit, signalled, expired, http, manager, pipeline, busy>>

ManagerTicker ==
  /\ Alive /\ manager = "pass" /\ firstDone
  /\ \/ ReconcileEvery <= 0 /\ Exit("panic")
     \/ /\ ReconcileEvery > 0
        /\ manager' = "loop"
        /\ UNCHANGED <<environment, main, exit, signalled, expired, http, firstDone,
                       pipeline, busy>>

ManagerReturns ==
  /\ Alive /\ manager = "loop" /\ signalled
  /\ manager' = "off"
  /\ UNCHANGED <<environment, main, exit, signalled, expired, http, firstDone,
                 pipeline, busy>>

(* After the first pass, or when the context is done, the pipeline begins   *)
(* to publish.                                                             *)
PipelineTicker ==
  /\ Alive /\ pipeline = "wait" /\ (firstDone \/ signalled)
  /\ \/ ReconcileEvery <= 0 /\ Exit("panic")
     \/ /\ ReconcileEvery > 0
        /\ pipeline' = "publish"
        /\ UNCHANGED <<environment, main, exit, signalled, expired, http, manager,
                       firstDone, busy>>

(* A publication ends, if it does, or a tick starts the next one. *)
Publication ==
  /\ Alive /\ pipeline \in {"publish", "loop"}
  /\ pipeline' = IF pipeline = "publish" THEN "loop" ELSE "publish"
  /\ UNCHANGED <<environment, main, exit, signalled, expired, http, manager,
                 firstDone, busy>>

PipelineReturns ==
  /\ Alive /\ pipeline = "loop" /\ signalled
  /\ pipeline' = "off"
  /\ UNCHANGED <<environment, main, exit, signalled, expired, http, manager,
                 firstDone, busy>>

-----------------------------------------------------------------------------
(* What the main goroutine does once it can. *)
Main ==
  \/ BeginShutdown \/ ListenerError
  \/ Drained \/ NotDrained \/ PollAgain \/ ShutdownFails

Ended == ~ Alive /\ UNCHANGED vars

Next ==
  \/ NewFails \/ Run \/ Signal \/ Main \/ WindowExpires
  \/ Listen \/ ListenerFails \/ Accept \/ Respond
  \/ FirstPassEnds \/ ManagerTicker \/ ManagerReturns
  \/ PipelineTicker \/ Publication \/ PipelineReturns
  \/ Ended

(* The main goroutine is scheduled, and time passes; where both end of the  *)
(* window and the poll are ready for ever, select picks each in the end.    *)
(* Requests, passes and publications may never end.                        *)
Spec ==
  /\ Init /\ [][Next]_vars
  /\ WF_vars(Main) /\ WF_vars(WindowExpires) /\ SF_vars(ShutdownFails)
  /\ WF_vars(ManagerTicker) /\ WF_vars(PipelineTicker)

-----------------------------------------------------------------------------
(* Properties. *)

(* The process ends with success only after a signal, and then it has cut   *)
(* off no request: what Shutdown (server.go:96) waits for.                 *)
CleanExit == exit = "ok" => signalled /\ requests = 0

(* It ends with an error only because there are no clients (Run was never   *)
(* called), the listener failed, or a request was under way when Shutdown   *)
(* looked: an idle server does not fail, however short the window.         *)
ErrorsHaveACause == exit = "error" => manager = "new" \/ errCh \/ busy

(* No setting but a period of zero or less makes the process panic, and     *)
(* none that does not parse does: the loops' tickers, config.go:70.        *)
PanicMeansPeriod == exit = "panic" => every.kind = "number" /\ every.n <= 0

(* After a signal the process ends, also when a request, a pass or a        *)
(* publication hangs for ever, and whatever the window (server.go:92-99).  *)
SignalEnds == signalled ~> ~ Alive

(* A listener that fails does not leave behind a process that nobody can    *)
(* scrape, also when it fails as the shutdown begins (server.go:87-101).   *)
ListenerFailureEnds == errCh ~> ~ Alive

=============================================================================
