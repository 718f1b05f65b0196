------------------------ MODULE ReconcileLoopsProofs ------------------------
(***************************************************************************)
(* Safety of ReconcileLoops for any number of sources and apps, however    *)
(* often the cluster changes and requests fail.                            *)
(***************************************************************************)
EXTENDS ReconcileLoops, WellFoundedInduction, TLAPS

-----------------------------------------------------------------------------
(* deduplicateByApp. *)

LEMMA HasMin ==
  ASSUME NEW S \in SUBSET Nat, S # {}
  PROVE  \E x \in S : \A y \in S : x <= y
<1>1. PICK x \in S : \A y \in S : ~ (<<y, x>> \in OpToRel(<, Nat))
  BY NatLessThanWellFounded, WFMin
<1>2. \A y \in S : ~ (y < x)
  BY <1>1 DEF OpToRel
<1> QED BY <1>2

(* No app is lost: a record gives way only to one of its own app from a     *)
(* source of higher priority, and that one stays, or a still higher one.   *)
LEMMA DeduplicateKeeps ==
  ASSUME NEW S \in SUBSET Workloads, NEW w \in S
  PROVE  \E rec \in DeduplicateByApp(S) : rec[2] = w[2] /\ rec[1] <= w[1]
<1> DEFINE same     == {other \in S : other[2] = w[2]}
           priority == {other[1] : other \in same}
<1>1. priority \in SUBSET Nat /\ w[1] \in priority
  BY DEF Workloads, Sources
<1>2. PICK p \in priority : \A q \in priority : p <= q
  BY <1>1, HasMin
<1>3. PICK rec \in same : rec[1] = p
  BY <1>2
<1>4. \A other \in same : rec[1] <= other[1]
  BY <1>2, <1>3
<1>5. rec \in DeduplicateByApp(S)
  BY <1>3, <1>4 DEF DeduplicateByApp
<1> QED BY <1>3, <1>4, <1>5

(* No app is there twice, and nothing is added. *)
LEMMA DeduplicateIsUnique ==
  ASSUME NEW S \in SUBSET Workloads
  PROVE  /\ DeduplicateByApp(S) \subseteq S
         /\ \A rec, other \in DeduplicateByApp(S) : rec[2] = other[2] => rec = other
<1>1. DeduplicateByApp(S) \subseteq S
  BY DEF DeduplicateByApp
<1>2. ASSUME NEW rec \in DeduplicateByApp(S), NEW other \in DeduplicateByApp(S),
             rec[2] = other[2]
      PROVE  rec = other
  <2>1. rec[1] <= other[1] /\ other[1] <= rec[1]
    BY <1>2 DEF DeduplicateByApp
  <2>2. rec \in Workloads /\ other \in Workloads
    BY <1>1
  <2>3. rec[1] \in Nat /\ other[1] \in Nat
    BY <2>2 DEF Workloads, Sources
  <2>4. rec[1] = other[1]
    BY <2>1, <2>3
  <2> QED BY <1>2, <2>2, <2>4 DEF Workloads
<1> QED BY <1>1, <1>2

-----------------------------------------------------------------------------
(***************************************************************************)
(* The inductive invariant.  The properties are about the step that ends a *)
(* pass or a publication; Inv says what has been found by then, at every   *)
(* point of the pass, and why the pipeline runs.                           *)
(***************************************************************************)

(* While a pass lists: what has been there all along is there now, what is  *)
(* there now has been seen, and so has all that was found; and of the       *)
(* sources already listed nothing that stayed is missing.                  *)
Listing ==
  manager = "listing" =>
    /\ steady \subseteq cluster
    /\ cluster \cup found \subseteq seen
    /\ \A w \in steady : w[1] < next /\ w[1] \notin failed => w \in found

(* One source per app: of the records, of the snapshot that the pipeline    *)
(* takes of them, and of what it builds and publishes from that.            *)
OneSource(S) == \A rec, other \in S : rec[2] = other[2] => rec = other

OncePerApp ==
  /\ OneSource(records) /\ OneSource(snapshot) /\ AppsPublishedOnce
  /\ \A p \in built : p[1] \in snapshot
  /\ \A p, q \in built : p[1] = q[1] => p = q

Unblocked == pipeline # "blocked" => firstDone \/ ctxDone

Inv == TypeOK /\ Listing /\ OncePerApp /\ Unblocked

(* There is at least one source. *)
LEMMA OneIsNext == 1 \in 1..(NumSources + 1)
BY LoopsAssumption

LEMMA InvInit == Init => Inv
<1> SUFFICES ASSUME Init PROVE Inv
  OBVIOUS
<1>1. TypeOK
  <2>1. 0 \in 0..MaxChanges /\ 0 \in 0..MaxFaults
    BY LoopsAssumption
  <2>2. /\ ctxDone \in BOOLEAN /\ firstDone \in BOOLEAN
        /\ managerTick \in BOOLEAN /\ pipelineTick \in BOOLEAN
    BY Zenon DEF Init
  <2> QED BY <2>1, <2>2, OneIsNext DEF Init, TypeOK
<1>2. Listing
  <2>1. \A w \in Workloads : ~ (w[1] < 1)
    BY DEF Workloads, Sources
  <2> QED BY <2>1 DEF Init, Listing
<1>3. OncePerApp
  BY DEF Init, OncePerApp, OneSource, AppsPublishedOnce
<1> QED BY <1>1, <1>2, <1>3 DEF Init, Inv, Unblocked

(* What the records and the gauges show does not change before a pass, or a *)
(* publication, ends.                                                      *)
LEMMA OnceFrame ==
  ASSUME OncePerApp, UNCHANGED <<records, snapshot, built, published>>
  PROVE  OncePerApp'
BY DEF OncePerApp, OneSource, AppsPublishedOnce

(* The steps of the manager. *)

LEMMA ReconcileStep == Inv /\ Reconcile => Inv'
<1> SUFFICES ASSUME Inv, Reconcile PROVE Inv'
  OBVIOUS
<1>1. TypeOK'
  BY OneIsNext DEF Inv, TypeOK, Reconcile, environment, metrics
<1>2. \A w \in cluster : ~ (w[1] < 1)
  BY DEF Inv, TypeOK, Workloads, Sources
<1>3. Listing'
  BY <1>2 DEF Reconcile, Listing, environment
<1>4. Unblocked' /\ OncePerApp'
  BY OnceFrame DEF Inv, Unblocked, Reconcile, metrics
<1> QED BY <1>1, <1>3, <1>4 DEF Inv

LEMMA FaultIs == TypeOK /\ Fault => faults' \in 0..MaxFaults
BY LoopsAssumption DEF TypeOK, Fault

LEMMA ListSourceStep == Inv /\ ListSource => Inv'
<1> SUFFICES ASSUME Inv, ListSource PROVE Inv'
  OBVIOUS
<1> USE DEF Inv, ListSource, environment, history, metrics, ticks
<1>1. TypeOK'
  BY LoopsAssumption DEF TypeOK
<1>2. Listing'
  <2>1. ASSUME NEW w \in steady, w[1] < next + 1, w[1] \notin failed PROVE w \in found'
    <3>1. w \in cluster /\ w[1] \in Nat /\ next \in Nat
      BY DEF Listing, TypeOK, Workloads, Sources
    <3>2. CASE w[1] = next
      BY <3>1, <3>2
    <3>3. CASE w[1] < next
      BY <2>1, <3>3 DEF Listing
    <3> QED BY <2>1, <3>1, <3>2, <3>3
  <2> QED BY <2>1 DEF Listing
<1>3. Unblocked' /\ OncePerApp'
  BY OnceFrame DEF Unblocked
<1> QED BY <1>1, <1>2, <1>3

LEMMA SourceFailsStep == Inv /\ SourceFails => Inv'
<1> SUFFICES ASSUME Inv, SourceFails PROVE Inv'
  OBVIOUS
<1> USE DEF Inv, SourceFails, environment, history, metrics, ticks
<1>1. TypeOK'
  <2>1. next \in Sources /\ next + 1 \in 1..(NumSources + 1)
    BY LoopsAssumption DEF TypeOK, Sources
  <2> QED BY <2>1, FaultIs DEF TypeOK
<1>2. Listing'
  <2>1. ASSUME NEW w \in steady, w[1] < next + 1, w[1] \notin failed \cup {next}
        PROVE  w \in found
    <3>1. w[1] < next
      BY <2>1 DEF TypeOK, Workloads, Sources
    <3> QED BY <2>1, <3>1 DEF Listing
  <2> QED BY <2>1 DEF Listing
<1>3. Unblocked' /\ OncePerApp'
  BY OnceFrame DEF Unblocked
<1> QED BY <1>1, <1>2, <1>3

LEMMA EndPassStep == Inv /\ EndPass => Inv'
<1> SUFFICES ASSUME Inv, EndPass PROVE Inv'
  OBVIOUS
<1>1. DeduplicateByApp(found) \subseteq Workloads
  BY DeduplicateIsUnique DEF Inv, TypeOK
<1>2. TypeOK'
  BY <1>1 DEF Inv, TypeOK, EndPass, environment, metrics, ticks
<1>3. OneSource(records)'
  BY DeduplicateIsUnique DEF Inv, TypeOK, OncePerApp, OneSource, EndPass
<1>4. OncePerApp'
  BY <1>3 DEF Inv, OncePerApp, OneSource, AppsPublishedOnce, EndPass, metrics
<1> QED BY <1>2, <1>4 DEF Inv, Listing, Unblocked, EndPass

(* The cluster changes under a pass. *)
LEMMA ClusterStep == Inv /\ ClusterChanges => Inv'
<1> SUFFICES ASSUME Inv, ClusterChanges PROVE Inv'
  OBVIOUS
<1> USE DEF Inv, ClusterChanges, discovery, metrics, ticks
<1>1. TypeOK'
  BY LoopsAssumption DEF TypeOK
<1>2. Listing'
  BY DEF Listing
<1>3. Unblocked' /\ OncePerApp'
  BY OnceFrame DEF Unblocked
<1> QED BY <1>1, <1>2, <1>3

(* The other steps leave the pass alone. *)
LEMMA PipelineTypes ==
  ASSUME TypeOK, PipelineStep \/ PipelineStops \/ PipelineTicks
  PROVE  TypeOK'
<1> USE DEF TypeOK, environment, discovery, history, ticks, metrics
<1>1. CASE Unblock \/ WakeUp \/ PipelineStops \/ PipelineTicks
  BY <1>1 DEF Unblock, WakeUp, PipelineStops, PipelineTicks
<1>2. CASE TakeSnapshot
  BY <1>2 DEF TakeSnapshot
<1>3. CASE BuildOne
  <2>1. PICK w \in Pending : BuildKnown(w) \/ BuildUnknown(w)
    BY <1>3 DEF BuildOne
  <2>2. w \in Workloads
    BY DEF Pending
  <2>3. built' \subseteq Workloads \X BOOLEAN
    <3>1. <<w, TRUE>> \in Workloads \X BOOLEAN /\ <<w, FALSE>> \in Workloads \X BOOLEAN
      BY <2>2
    <3>2. built' = built \cup {<<w, TRUE>>} \/ built' = built \cup {<<w, FALSE>>}
      BY <2>1 DEF BuildKnown, BuildUnknown
    <3> QED BY <3>1, <3>2
  <2>4. faults' \in 0..MaxFaults
    BY <2>1, FaultIs DEF BuildKnown, BuildUnknown
  <2> QED BY <1>3, <2>3, <2>4 DEF BuildOne
<1>4. CASE Publish
  BY <1>4 DEF Publish
<1> QED BY <1>1, <1>2, <1>3, <1>4 DEF PipelineStep

LEMMA PipelineOnce ==
  ASSUME Inv, PipelineStep \/ PipelineStops \/ PipelineTicks
  PROVE  OncePerApp'
<1> USE DEF Inv, OncePerApp, OneSource, discovery, metrics
<1>1. CASE Unblock \/ WakeUp \/ PipelineStops \/ PipelineTicks
  BY <1>1, OnceFrame DEF Unblock, WakeUp, PipelineStops, PipelineTicks
<1>2. CASE TakeSnapshot
  BY <1>2 DEF TakeSnapshot, AppsPublishedOnce
<1>3. CASE BuildOne
  <2>1. PICK w \in Pending, known \in BOOLEAN : built' = built \cup {<<w, known>>}
    BY <1>3 DEF BuildOne, BuildKnown, BuildUnknown
  <2>2. w \in snapshot /\ \A p \in built : p[1] # w
    BY DEF Pending, TypeOK
  <2>3. UNCHANGED <<records, snapshot, published>>
    BY <1>3 DEF BuildOne
  <2> QED BY <2>1, <2>2, <2>3 DEF AppsPublishedOnce
<1>4. CASE Publish
  <2>1. \A p, q \in built : p[1][2] = q[1][2] => p = q
    OBVIOUS
  <2> QED BY <1>4, <2>1 DEF Publish, AppsPublishedOnce
<1> QED BY <1>1, <1>2, <1>3, <1>4 DEF PipelineStep

LEMMA PipelineStepKeeps ==
  ASSUME Inv, PipelineStep \/ PipelineStops \/ PipelineTicks
  PROVE  Inv'
<1>1. TypeOK'
  BY PipelineTypes DEF Inv
<1>2. UNCHANGED <<environment, ctxDone, discovery, history>>
  BY DEF PipelineStep, Unblock, WakeUp, TakeSnapshot, BuildOne, Publish, PipelineStops,
         PipelineTicks
<1>3. pipeline' # "blocked" => pipeline # "blocked" \/ firstDone \/ ctxDone
  BY DEF PipelineStep, Unblock, WakeUp, TakeSnapshot, BuildOne, Publish, PipelineStops,
         PipelineTicks, metrics
<1>4. Listing' /\ Unblocked'
  BY <1>2, <1>3 DEF Inv, Listing, Unblocked, environment, discovery, history
<1> QED BY <1>1, <1>4, PipelineOnce DEF Inv

LEMMA QuietStep ==
  ASSUME Inv, ManagerStops \/ ManagerTicks \/ Cancel \/ UNCHANGED vars
  PROVE  Inv'
<1> USE DEF ManagerStops, ManagerTicks, Cancel, vars, environment, discovery, history,
            metrics, ticks
<1>1. TypeOK'
  BY DEF Inv, TypeOK
<1>2. Listing'
  BY DEF Inv, Listing
<1>3. Unblocked' /\ OncePerApp'
  BY OnceFrame DEF Inv, Unblocked
<1> QED BY <1>1, <1>2, <1>3 DEF Inv

LEMMA InvStep == Inv /\ [Next]_vars => Inv'
<1> SUFFICES ASSUME Inv, [Next]_vars PROVE Inv'
  OBVIOUS
<1>1. CASE ManagerStep
  BY <1>1, ReconcileStep, ListSourceStep, SourceFailsStep, EndPassStep DEF ManagerStep
<1>2. CASE PipelineStep \/ PipelineStops \/ PipelineTicks
  BY <1>2, PipelineStepKeeps
<1>3. CASE ManagerStops \/ ManagerTicks \/ Cancel \/ Stopped \/ UNCHANGED vars
  BY <1>3, QuietStep DEF Stopped
<1>4. CASE ClusterChanges
  BY <1>4, ClusterStep
<1> QED BY <1>1, <1>2, <1>3, <1>4 DEF Next

LEMMA Invariant == Spec => []Inv
<1> QED BY InvInit, InvStep, PTL DEF Spec

-----------------------------------------------------------------------------
(* The theorems. *)

(* Every variable keeps its type: a pass lists no source that is not there, *)
(* and what the loops hand on are workloads.                               *)
THEOREM TypeCorrect == Spec => []TypeOK
<1>1. Inv => TypeOK
  BY DEF Inv
<1> QED BY <1>1, Invariant, PTL

(* A pass ends by EndPass only. *)
LEMMA PassEndsIs ==
  ASSUME [Next]_vars, PassEnds
  PROVE  EndPass
BY DEF Next, PassEnds, ManagerStep, PipelineStep, Stopped, Reconcile, ListSource, SourceFails,
       ManagerStops, ManagerTicks, PipelineStops, PipelineTicks, Unblock, WakeUp,
       TakeSnapshot, BuildOne, Publish, Cancel, ClusterChanges, vars, discovery

(* However the cluster changes under a pass and whichever sources fail, the *)
(* records have every app that a source that did not fail held throughout. *)
THEOREM NothingMissed == Spec => NothingSteadyIsMissed
<1>1. ASSUME Inv, [Next]_vars, PassEnds, NEW w \in steady, w[1] \notin failed
      PROVE  \E rec \in records' : rec[2] = w[2] /\ rec[1] <= w[1]
  <2>1. EndPass
    BY <1>1, PassEndsIs
  <2>2. w[1] \in Sources /\ w \in Workloads
    BY <1>1 DEF Inv, TypeOK, Workloads
  <2>3. records' = DeduplicateByApp(found)
    BY <1>1, <2>1, <2>2 DEF EndPass
  <2>4. w[1] < next
    <3>1. next > NumSources /\ next \in Nat
      BY <1>1, <2>1, LoopsAssumption DEF EndPass, Inv, TypeOK
    <3>2. w[1] \in 1..NumSources
      BY <2>2 DEF Sources
    <3> QED BY <3>1, <3>2, LoopsAssumption
  <2>5. w \in found
    BY <1>1, <2>1, <2>4 DEF EndPass, Inv, Listing
  <2>6. found \in SUBSET Workloads
    BY <1>1 DEF Inv, TypeOK
  <2> QED BY <2>3, <2>5, <2>6, DeduplicateKeeps
<1>2. Inv /\ [Next]_vars =>
        [PassEnds =>
           \A w \in steady : w[1] \notin failed =>
             \E rec \in records' : rec[2] = w[2] /\ rec[1] <= w[1]]_vars
  BY <1>1
<1> QED BY <1>2, Invariant, PTL DEF Spec, NothingSteadyIsMissed

(* And they have nothing that was not in the cluster at some time of the    *)
(* pass, and no app twice.                                                 *)
THEOREM NothingAdded == Spec => NothingInvented
<1>1. ASSUME Inv, [Next]_vars, PassEnds, failed # Sources
      PROVE  /\ records' \subseteq seen
             /\ \A rec, other \in records' : rec[2] = other[2] => rec = other
  <2>1. EndPass
    BY <1>1, PassEndsIs
  <2>2. records' = DeduplicateByApp(found)
    BY <1>1, <2>1 DEF EndPass
  <2>3. found \subseteq seen /\ found \in SUBSET Workloads
    BY <1>1, <2>1 DEF EndPass, Inv, Listing, TypeOK
  <2> QED BY <2>2, <2>3, DeduplicateIsUnique
<1>2. Inv /\ [Next]_vars =>
        [PassEnds /\ failed # Sources =>
           /\ records' \subseteq seen
           /\ \A rec, other \in records' : rec[2] = other[2] => rec = other]_vars
  BY <1>1
<1> QED BY <1>2, Invariant, PTL DEF Spec, NothingInvented

(* No app is shown twice, whatever passes end while the pipeline builds:    *)
(* what a publication shows comes of one snapshot of the records.           *)
THEOREM ShownOnce == Spec => []AppsPublishedOnce
<1>1. Inv => AppsPublishedOnce
  BY DEF Inv, OncePerApp
<1> QED BY <1>1, Invariant, PTL

(* Nothing is published before the first pass, unless the process stops.    *)
THEOREM FirstPassFirst == Spec => PublishAfterFirstPass
<1>1. Inv /\ [Next]_vars => [Publishes => firstDone \/ ctxDone]_vars
  BY DEF Inv, Unblocked, Publishes
<1> QED BY <1>1, Invariant, PTL DEF Spec, PublishAfterFirstPass

=============================================================================
