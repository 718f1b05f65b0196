---------------------------- MODULE ChartMetrics ----------------------------
(***************************************************************************)
(* internal/metrics/charts.go: Publish rewrites four gauge vectors while   *)
(* /metrics may be scraped.  The vectors have a lock each; nothing makes   *)
(* the rewriting of all four one step, so a scrape, which reads them one   *)
(* after the other, may see some before and some after.                    *)
(*                                                                         *)
(* A publication is a batch: the status that Engine.Compare gives each     *)
(* app.  Discovery leaves one record per app, so an app is one label set   *)
(* of the narrow gauges; the apps are numbered in the order of the records.*)
(***************************************************************************)
EXTENDS Naturals, Sequences, FiniteSetsExt

CONSTANTS
  NumApps,
  Watched      \* the vectors whose part of a scrape is looked at

ASSUME MetricsAssumption ==
  /\ NumApps \in Nat
  /\ Watched \subseteq {"info", "outdated", "lag", "unknown"}

Apps == 1..NumApps

Status == {"up_to_date", "outdated", "unknown"}

(* The vectors, in the order Publish goes through them. *)
Families == <<"info", "outdated", "lag", "unknown">>

Family == {Families[i] : i \in 1..4}

(* A time series: helm_chart_info carries the status among its labels. *)
Sample == [app: Apps, label: Status \cup {"none"}, value: {0, 1}]

Label(family, status) == IF family = "info" THEN status ELSE "none"

(* Mutant of Value: a version that cannot be compared counts as outdated. *)
ValueUnknownOutdated(family, status) ==
  CASE family = "info" -> 1
    [] family \in {"outdated", "lag"} -> IF status # "up_to_date" THEN 1 ELSE 0
    [] family = "unknown" -> IF status = "unknown" THEN 1 ELSE 0

(* Any lag above 0 is 1 here: it is above 0 exactly when outdated. *)
Value(family, status) ==
  CASE family = "info" -> 1
    [] family \in {"outdated", "lag"} -> IF status = "outdated" THEN 1 ELSE 0
    [] family = "unknown" -> IF status = "unknown" THEN 1 ELSE 0

VARIABLES
  batch,      \* status of each app in the publication under way, or the last
  pc,         \* Publish: idle, reset, with (WithLabelValues) or set (Set)
  at,         \* Publish: index of the vector it is at
  todo,       \* Publish: apps whose record is not finished
  gauge,      \* the time series of each vector
  read,       \* the scrape: watched families gathered so far
  view,       \* the scrape: what it saw of each of them
  previous,   \* history: the batch before, while Publish resets its series
  disturbed,  \* history: a publication overlaps the scrape
  seen        \* history: apps that are 1 in a batch of the scrape's time

vars == <<batch, pc, at, todo, gauge, read, view, previous, disturbed, seen>>

publisher == <<batch, pc, at, todo, gauge, previous>>
scraper == <<read, view, disturbed, seen>>

Batches == UNION {[S -> Status] : S \in SUBSET Apps}

TypeOK ==
  /\ batch \in Batches
  /\ pc \in {"idle", "reset", "with", "set"}
  /\ at \in 1..4
  /\ todo \subseteq Apps
  /\ gauge \in [Family -> SUBSET Sample]
  /\ read \subseteq Watched
  /\ view \in [Watched -> SUBSET Sample]
  /\ previous \in Batches
  /\ disturbed \in BOOLEAN
  /\ seen \in [Watched -> SUBSET Apps]

Nothing(families) == [f \in families |-> {}]

NoApps == [a \in {} |-> "unknown"]

(* The apps with value 1 in a batch. *)
Ones(b) == [f \in Watched |-> {a \in DOMAIN b : Value(f, b[a]) = 1}]

Init ==
  /\ batch = NoApps /\ previous = NoApps
  /\ pc = "idle" /\ at = 1 /\ todo = {}
  /\ gauge = Nothing(Family)
  /\ read = Watched /\ view = Nothing(Watched)
  /\ disturbed = FALSE /\ seen = Nothing(Watched)

-----------------------------------------------------------------------------
(* Publish. *)

Publish(b) ==
  /\ pc = "idle"
  /\ batch' = b /\ previous' = batch
  /\ pc' = "reset" /\ at' = 1
  /\ disturbed' = TRUE
  /\ seen' = [f \in Watched |-> seen[f] \cup Ones(b)[f]]
  /\ UNCHANGED <<todo, gauge, read, view>>

(* Mutant of Reset: the last vector is not reset. *)
ResetThree ==
  /\ pc = "reset"
  /\ gauge' = [gauge EXCEPT ![Families[at]] = {}]
  /\ IF at < 3
     THEN at' = at + 1 /\ UNCHANGED <<pc, todo, previous>>
     ELSE /\ at' = 1 /\ previous' = NoApps
          /\ todo' = DOMAIN batch
          /\ pc' = IF DOMAIN batch = {} THEN "idle" ELSE "with"
  /\ UNCHANGED <<batch, scraper>>

(* Mutant of Reset: one vector too many. *)
ResetPastEnd ==
  /\ pc = "reset"
  /\ gauge' = [gauge EXCEPT ![Families[at]] = {}]
  /\ IF at <= 4
     THEN at' = at + 1 /\ UNCHANGED <<pc, todo, previous>>
     ELSE /\ at' = 1 /\ previous' = NoApps
          /\ todo' = DOMAIN batch
          /\ pc' = IF DOMAIN batch = {} THEN "idle" ELSE "with"
  /\ UNCHANGED <<batch, scraper>>

Reset ==
  /\ pc = "reset"
  /\ gauge' = [gauge EXCEPT ![Families[at]] = {}]
  /\ IF at < 4
     THEN at' = at + 1 /\ UNCHANGED <<pc, todo, previous>>
     ELSE /\ at' = 1 /\ previous' = NoApps
          /\ todo' = DOMAIN batch
          /\ pc' = IF DOMAIN batch = {} THEN "idle" ELSE "with"
  /\ UNCHANGED <<batch, scraper>>

Current == Min(todo)

(* WithLabelValues creates the series, with value 0. *)
With ==
  /\ pc = "with"
  /\ LET f == Families[at]
     IN  gauge' = [gauge EXCEPT ![f] = @ \cup
                     {[app |-> Current, label |-> Label(f, batch[Current]), value |-> 0]}]
  /\ pc' = "set"
  /\ UNCHANGED <<batch, at, todo, previous, scraper>>

Set ==
  /\ pc = "set"
  /\ LET f == Families[at]
         label == Label(f, batch[Current])
     IN  gauge' = [gauge EXCEPT ![f] =
                     {s \in @ : s.app # Current \/ s.label # label} \cup
                     {[app |-> Current, label |-> label,
                       value |-> Value(f, batch[Current])]}]
  /\ IF at < 4
     THEN at' = at + 1 /\ pc' = "with" /\ UNCHANGED todo
     ELSE /\ at' = 1
          /\ todo' = todo \ {Current}
          /\ pc' = IF todo' = {} THEN "idle" ELSE "with"
  /\ UNCHANGED <<batch, previous, scraper>>

-----------------------------------------------------------------------------
(* A scrape: the registry gathers the vectors in no particular order, each  *)
(* under that vector's lock.  Gathering one that is not watched changes     *)
(* nothing.                                                                *)

BeginScrape ==
  /\ read = Watched
  /\ read' = {} /\ view' = Nothing(Watched)
  /\ disturbed' = (pc # "idle")
  /\ seen' = [f \in Watched |-> Ones(batch)[f] \cup Ones(previous)[f]]
  /\ UNCHANGED publisher

Gather(f) ==
  /\ f \notin read
  /\ read' = read \cup {f}
  /\ view' = [view EXCEPT ![f] = gauge[f]]
  /\ UNCHANGED <<publisher, disturbed, seen>>

-----------------------------------------------------------------------------
Next ==
  \/ \E b \in Batches : Publish(b)
  \/ Reset \/ With \/ Set
  \/ BeginScrape
  \/ \E f \in Watched : Gather(f)

Spec == Init /\ [][Next]_vars

-----------------------------------------------------------------------------
(* Properties. *)

(* The series that a batch stands for. *)
Published(b) ==
  LET info == {[app |-> a, label |-> b[a], value |-> 1] : a \in DOMAIN b}
      narrow(status) ==
        {[app |-> a, label |-> "none", value |-> IF b[a] = status THEN 1 ELSE 0] :
           a \in DOMAIN b}
  IN  [f \in Family |-> CASE f = "info" -> info
                         [] f = "unknown" -> narrow("unknown")
                         [] f \in {"outdated", "lag"} -> narrow("outdated")]

On(series, a) == \E s \in series : s.app = a /\ s.value = 1

(* Between publications the four vectors show the last batch and nothing    *)
(* else: no series of an app, a status or a value of an earlier one.       *)
GaugesShowLastBatch == pc = "idle" => gauge = Published(batch)

(* charts_test.go:478 at every instant, also in the middle of Publish:      *)
(* no app is outdated and unknown at once, nor listed under two statuses.  *)
NeverBoth ==
  /\ \A a \in Apps : ~ (On(gauge["outdated"], a) /\ On(gauge["unknown"], a))
  /\ \A s, t \in gauge["info"] : s.app = t.app => s = t

(* A scrape that publications overlap shows no app as outdated or unknown   *)
(* that was neither in any batch published before it ended and replaced    *)
(* after it began, and one that none overlaps shows exactly the last batch. *)
(* (charts.go:69-113, against the collectors of the scrape.)               *)
ScrapeIsOfItsTime ==
  read = Watched =>
    \A f \in Watched :
      /\ {s.app : s \in {t \in view[f] : t.value = 1}} \subseteq seen[f]
      /\ ~ disturbed => view[f] = Published(batch)[f]

=============================================================================
