--------------------------- MODULE ReconcileLoops ---------------------------
(***************************************************************************)
(* The two loops that server.Run starts: the discovery loop                *)
(* (discovery.Manager.Run over discovery.Composite) and the metrics        *)
(* pipeline (runMetricsPipeline).  How the process ends is the subject of  *)
(* ServerLifecycle; here an exit is a behaviour that stops.                *)
(*                                                                         *)
(* Each loop has its own ticker.  They share m.records under a lock and    *)
(* the channel firstReconcileDone.  The cluster changes while a pass lists *)
(* it and while workloads are enriched, and every request may fail.        *)
(*                                                                         *)
(* A workload is a pair <<source, app>>; sources are numbered in the order *)
(* Composite lists them, which is also the order of sourceTypePriority.    *)
(* What Build finds out about a workload is only known or unknown.         *)
(***************************************************************************)
EXTENDS Naturals, FiniteSets

CONSTANTS
  NumSources,   \* discoverers of the Composite: Argo CD first, then Helm
  Apps,         \* applications: a namespace and a name
  Unresolvable, \* workloads that no version can be told of (see below)
  MaxChanges,   \* bound: changes of the cluster
  MaxFaults     \* bound: requests that fail while the context is live

Sources == 1..NumSources

Workloads == Sources \X Apps

(***************************************************************************)
(* The workloads in Unresolvable are unknown whenever they are looked at,  *)
(* without any request failing: their chart comes from Git or from no      *)
(* repository at all, or their version is no semantic version.             *)
(***************************************************************************)
ASSUME LoopsAssumption ==
  /\ NumSources \in Nat \ {0}
  /\ Unresolvable \subseteq Workloads
  /\ MaxChanges \in Nat
  /\ MaxFaults \in Nat

VARIABLES
  cluster,      \* workloads present in the cluster
  changes,      \* changes of the cluster so far
  faults,       \* requests that failed so far
  ctxDone,      \* the context of signal.NotifyContext is cancelled
  manager,      \* Manager.Run
  next,         \* the source Composite.Discover lists next
  found,        \* Composite.Discover: out
  failed,       \* sources that failed in this pass; failures is its size
  records,      \* Manager.records
  firstDone,    \* firstReconcileDone is closed
  managerTick,  \* a tick waits in the channel of Manager.Run's ticker
  pipeline,     \* runMetricsPipeline
  pipelineTick, \* a tick waits in the channel of the pipeline's ticker
  snapshot,     \* publishMetrics: workloads
  built,        \* Build: records filled in so far, <<workload, known>>
  published,    \* what the gauges show
  steady,       \* history: workloads present all along since the pass began
  seen          \* history: workloads present at some time since then

environment == <<cluster, changes>>
discovery == <<manager, next, found, failed, records, firstDone>>
history == <<steady, seen>>
metrics == <<pipeline, snapshot, built, published>>
ticks == <<managerTick, pipelineTick>>

vars == <<environment, faults, ctxDone, discovery, history, metrics, ticks>>

TypeOK ==
  /\ cluster \subseteq Workloads
  /\ changes \in 0..MaxChanges
  /\ faults \in 0..MaxFaults
  /\ ctxDone \in BOOLEAN /\ firstDone \in BOOLEAN
  /\ managerTick \in BOOLEAN /\ pipelineTick \in BOOLEAN
  /\ manager \in {"listing", "waiting", "stopped"}
  /\ next \in 1..(NumSources + 1)
  /\ found \subseteq Workloads
  /\ failed \subseteq Sources
  /\ records \subseteq Workloads
  /\ pipeline \in {"blocked", "starting", "building", "waiting", "stopped"}
  /\ snapshot \subseteq Workloads
  /\ built \subseteq Workloads \X BOOLEAN
  /\ published \subseteq Workloads \X BOOLEAN
  /\ steady \subseteq seen
  /\ seen \subseteq Workloads

(* Mutant of DeduplicateByApp: it is not called. *)
DeduplicateNothing(out) == out

(* deduplicateByApp: of the records of one app the one whose source has the *)
(* highest priority stays.                                                 *)
DeduplicateByApp(out) ==
  {rec \in out : \A other \in out : other[2] = rec[2] => rec[1] <= other[1]}

Init ==
  /\ cluster \in SUBSET Workloads
  /\ changes = 0
  /\ faults = 0
  /\ ctxDone = FALSE
  /\ manager = "listing"
  /\ next = 1
  /\ found = {} /\ failed = {} /\ records = {}
  /\ firstDone = FALSE
  /\ managerTick = FALSE /\ pipelineTick = FALSE
  /\ pipeline = "blocked"
  /\ snapshot = {} /\ built = {} /\ published = {}
  /\ steady = cluster
  /\ seen = cluster

(* A request may fail; one that is cut off by the context surely may. *)
Fault ==
  \/ ctxDone /\ UNCHANGED faults
  \/ ~ ctxDone /\ faults < MaxFaults /\ faults' = faults + 1

-----------------------------------------------------------------------------
(* Manager.Run, reconcileOnce and Composite.Discover. *)

(* A tick starts a pass.  Like the first pass it begins with nothing found. *)
Reconcile ==
  /\ manager = "waiting" /\ managerTick
  /\ managerTick' = FALSE
  /\ manager' = "listing"
  /\ next' = 1 /\ found' = {} /\ failed' = {}
  /\ steady' = cluster /\ seen' = cluster
  /\ UNCHANGED <<environment, faults, ctxDone, records, firstDone,
                 metrics, pipelineTick>>

(* Mutant of ListSource: one index too many. *)
ListPastEnd ==
  /\ manager = "listing" /\ next <= NumSources + 1
  /\ found' = found \cup {w \in cluster : w[1] = next}
  /\ next' = next + 1
  /\ UNCHANGED <<environment, faults, ctxDone, manager, failed, records, firstDone,
                 history, metrics, ticks>>

ListSource ==
  /\ manager = "listing" /\ next <= NumSources
  /\ found' = found \cup {w \in cluster : w[1] = next}
  /\ next' = next + 1
  /\ UNCHANGED <<environment, faults, ctxDone, manager, failed, records, firstDone,
                 history, metrics, ticks>>

(* Mutant of SourceFails: the first failure ends the pass. *)
SourceFailsPass ==
  /\ manager = "listing" /\ next <= NumSources
  /\ Fault
  /\ failed' = failed \cup {next}
  /\ next' = NumSources + 1
  /\ UNCHANGED <<environment, ctxDone, manager, found, records, firstDone,
                 history, metrics, ticks>>

(* A source that fails is skipped; the pass goes on with the next one. *)
SourceFails ==
  /\ manager = "listing" /\ next <= NumSources
  /\ Fault
  /\ failed' = failed \cup {next}
  /\ next' = next + 1
  /\ UNCHANGED <<environment, ctxDone, manager, found, records, firstDone,
                 history, metrics, ticks>>

(* Mutant of EndPass: the new records are added to the old ones. *)
EndPassOnTop ==
  /\ manager = "listing" /\ next > NumSources
  /\ \/ failed = Sources /\ UNCHANGED records
     \/ /\ failed # Sources
        /\ records' = DeduplicateByApp(records \cup found)
  /\ firstDone' = TRUE
  /\ manager' = "waiting"
  /\ found' = {} /\ failed' = {} /\ steady' = {} /\ seen' = {}
  /\ UNCHANGED <<environment, faults, ctxDone, next, metrics, ticks>>

(* The pass ends: its records replace the old ones unless every source      *)
(* failed, and firstReconcileDone is closed in either case.                *)
EndPass ==
  /\ manager = "listing" /\ next > NumSources
  /\ \/ failed = Sources /\ UNCHANGED records
     \/ /\ failed # Sources
        /\ records' = DeduplicateByApp(found)
  /\ firstDone' = TRUE
  /\ manager' = "waiting"
  /\ found' = {} /\ failed' = {} /\ steady' = {} /\ seen' = {}
  /\ UNCHANGED <<environment, faults, ctxDone, next, metrics, ticks>>

(* Mutant of ManagerStops: the loop waits for its ticker only. *)
ManagerNeverStops == FALSE

ManagerStops ==
  /\ manager = "waiting" /\ ctxDone
  /\ manager' = "stopped"
  /\ UNCHANGED <<environment, faults, ctxDone, next, found, failed, records,
                 firstDone, history, metrics, ticks>>

(* The ticker exists once the first pass is over.  Its channel holds one    *)
(* tick; further ones are dropped.                                         *)
ManagerTicks ==
  /\ firstDone /\ manager # "stopped" /\ ~ managerTick
  /\ managerTick' = TRUE
  /\ UNCHANGED <<environment, faults, ctxDone, discovery, history, metrics,
                 pipelineTick>>

-----------------------------------------------------------------------------
(* runMetricsPipeline and publishMetrics. *)

(* Mutant of Unblock: the pipeline does not wait. *)
UnblockAtOnce ==
  /\ pipeline = "blocked"
  /\ pipeline' = "starting"
  /\ UNCHANGED <<environment, faults, ctxDone, discovery, history, snapshot,
                 built, published, ticks>>

(* WaitFirstReconcile returns. *)
Unblock ==
  /\ pipeline = "blocked"
  /\ firstDone \/ ctxDone
  /\ pipeline' = "starting"
  /\ UNCHANGED <<environment, faults, ctxDone, discovery, history, snapshot,
                 built, published, ticks>>

WakeUp ==
  /\ pipeline = "waiting" /\ pipelineTick
  /\ pipelineTick' = FALSE
  /\ pipeline' = "starting"
  /\ UNCHANGED <<environment, faults, ctxDone, discovery, history, snapshot,
                 built, published, managerTick>>

TakeSnapshot ==
  /\ pipeline = "starting"
  /\ snapshot' = records
  /\ built' = {}
  /\ pipeline' = "building"
  /\ UNCHANGED <<environment, faults, ctxDone, discovery, history, published, ticks>>

Pending == {w \in snapshot : \A known \in BOOLEAN : <<w, known>> \notin built}

(* A worker of Build enriches one workload: it fetches the object that      *)
(* discovery saw and asks upstream for the latest version.                 *)
BuildKnown(w) ==
  /\ w \in cluster \ Unresolvable
  /\ built' = built \cup {<<w, TRUE>>}
  /\ UNCHANGED faults

(* It is gone, nothing can be told of it, or a request failed. *)
BuildUnknown(w) ==
  /\ \/ w \notin cluster \ Unresolvable /\ UNCHANGED faults
     \/ w \in cluster /\ Fault
  /\ built' = built \cup {<<w, FALSE>>}

BuildOne ==
  /\ pipeline = "building"
  /\ \E w \in Pending : BuildKnown(w) \/ BuildUnknown(w)
  /\ UNCHANGED <<environment, ctxDone, discovery, history, pipeline, snapshot,
                 published, ticks>>

(* Mutant of Publish: the gauges are not reset first. *)
PublishOnTop ==
  /\ pipeline = "building" /\ Pending = {}
  /\ published' = published \cup built
  /\ snapshot' = {} /\ built' = {}
  /\ pipeline' = "waiting"
  /\ UNCHANGED <<environment, faults, ctxDone, discovery, history, ticks>>

Publish ==
  /\ pipeline = "building" /\ Pending = {}
  /\ published' = built
  /\ snapshot' = {} /\ built' = {}
  /\ pipeline' = "waiting"
  /\ UNCHANGED <<environment, faults, ctxDone, discovery, history, ticks>>

PipelineStops ==
  /\ pipeline = "waiting" /\ ctxDone
  /\ pipeline' = "stopped"
  /\ UNCHANGED <<environment, faults, ctxDone, discovery, history, snapshot,
                 built, published, ticks>>

PipelineTicks ==
  /\ pipeline \notin {"blocked", "stopped"} /\ ~ pipelineTick
  /\ pipelineTick' = TRUE
  /\ UNCHANGED <<environment, faults, ctxDone, discovery, history, metrics,
                 managerTick>>

-----------------------------------------------------------------------------
(* The environment. *)

(* SIGINT or SIGTERM. *)
Cancel ==
  /\ ~ ctxDone
  /\ ctxDone' = TRUE
  /\ UNCHANGED <<environment, faults, discovery, history, metrics, ticks>>

(* A workload appears in the cluster or goes away. *)
ClusterChanges ==
  /\ changes < MaxChanges
  /\ changes' = changes + 1
  /\ \E w \in Workloads :
       \/ /\ w \notin cluster
          /\ cluster' = cluster \cup {w}
          /\ seen' = IF manager = "listing" THEN seen \cup {w} ELSE seen
          /\ UNCHANGED steady
       \/ /\ w \in cluster
          /\ cluster' = cluster \ {w}
          /\ steady' = steady \ {w}
          /\ UNCHANGED seen
  /\ UNCHANGED <<faults, ctxDone, discovery, metrics, ticks>>

ManagerStep == Reconcile \/ ListSource \/ SourceFails \/ EndPass

PipelineStep == Unblock \/ WakeUp \/ TakeSnapshot \/ BuildOne \/ Publish

(* Both loops have returned. *)
Stopped ==
  /\ manager = "stopped" /\ pipeline = "stopped"
  /\ UNCHANGED vars

Next ==
  \/ ManagerStep \/ ManagerStops \/ ManagerTicks
  \/ PipelineStep \/ PipelineStops \/ PipelineTicks
  \/ Cancel \/ ClusterChanges \/ Stopped

(* Requests to the API server and, from BuildOne, to upstream. *)
ListRequest == ListSource \/ SourceFails

(* The goroutines are scheduled, and the tickers go on ticking.  A request  *)
(* ends once its context is cancelled; the clients for Kubernetes have no   *)
(* timeout (kube/client.go:20), so before that it may take for ever.  A     *)
(* select with a tick and a cancelled context both ready picks one at      *)
(* random, so it does not pass over the context for ever.  Nothing is      *)
(* assumed of the signal or of the cluster.                                *)
Fairness ==
  /\ WF_vars(Reconcile \/ EndPass) /\ WF_vars(ctxDone /\ ListRequest)
  /\ WF_vars(ManagerTicks) /\ SF_vars(ManagerStops)
  /\ WF_vars(Unblock \/ WakeUp \/ TakeSnapshot \/ Publish)
  /\ WF_vars(ctxDone /\ BuildOne)
  /\ WF_vars(PipelineTicks) /\ SF_vars(PipelineStops)

Spec == Init /\ [][Next]_vars /\ Fairness

-----------------------------------------------------------------------------
(* Properties. *)

PassEnds == manager = "listing" /\ manager' = "waiting"

Publishes == pipeline = "building" /\ pipeline' = "waiting"

(* Composite.Discover does not read the cluster at one instant.  Still, an  *)
(* app that a source which did not fail held all through the pass is among *)
(* the records, under that source or one of higher priority.               *)
NothingSteadyIsMissed ==
  [][PassEnds =>
       \A w \in steady : w[1] \notin failed =>
         \E rec \in records' : rec[2] = w[2] /\ rec[1] <= w[1]]_vars

(* And new records hold only workloads that existed during the pass, each   *)
(* app once.                                                               *)
NothingInvented ==
  [][PassEnds /\ failed # Sources =>
       /\ records' \subseteq seen
       /\ \A rec, other \in records' : rec[2] = other[2] => rec = other]_vars

(* WaitFirstReconcile: nothing is published before the first pass has ended *)
(* one way or the other, unless the process is being stopped.              *)
PublishAfterFirstPass ==
  [][Publishes => firstDone \/ ctxDone]_vars

(* The gauges never show an app twice, under two sources or as known and    *)
(* unknown: the labels of three of the four do not tell these apart         *)
(* (charts.go:107), so that one record would overwrite the other.          *)
AppsPublishedOnce ==
  \A p, q \in published : p[1][2] = q[1][2] => p = q

(* Every request gets an answer or an error, also before the signal. *)
RequestsEnd == WF_vars(ListRequest) /\ WF_vars(BuildOne)

(* Once the cluster is quiet and requests end and no longer fail, the       *)
(* gauges come to show exactly the workloads of the cluster, unknown only   *)
(* those of which no version can be told, and stay so, although the two    *)
(* loops tick independently and drop ticks.                                *)
Converges ==
  RequestsEnd =>
    <>[](ctxDone \/ published =
           {<<w, w \notin Unresolvable>> : w \in DeduplicateByApp(cluster)})

(* After a signal both loops return, wherever they were, also from a request *)
(* that would never have ended.                                            *)
LoopsStop == ctxDone ~> manager = "stopped" /\ pipeline = "stopped"

=============================================================================
