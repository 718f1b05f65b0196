----------------------------- MODULE Discovery ------------------------------
(***************************************************************************)
(* internal/discovery: one call of Composite.Discover over the Argo CD and *)
(* the Helm discoverer, request by request.  Between two of its lists the  *)
(* cluster may change, and each list may fail.                             *)
(*                                                                         *)
(* An object is an Argo CD Application or a Helm storage object (Secret or *)
(* ConfigMap with owner=helm).  It is active when it counts: an            *)
(* Application with a Helm source, a storage object with status=deployed;  *)
(* otherwise it is inactive, or absent.  Its app stands for the pair of    *)
(* destination namespace and name that records are compared by.            *)
(***************************************************************************)
EXTENDS Integers, Sequences, FiniteSets, Functions

CONSTANTS
  Objects,     \* [id, source, app, rev]: every object that may exist
  MaxChanges   \* bound: changes of the cluster during a pass

SourceTypes == {"argo", "secret", "configmap"}

(* id is the place of WorkloadRecord.ID among all IDs; rev is the Helm      *)
(* revision, -1 where parseRevision finds none.                            *)
ASSUME DiscoveryAssumption ==
  /\ IsFiniteSet(Objects)
  /\ \A o \in Objects : /\ o.id \in Nat
                        /\ o.source \in SourceTypes
                        /\ o.rev \in Nat \cup {-1}
  /\ \A o, p \in Objects : o.id = p.id => o = p
  /\ MaxChanges \in Nat

VARIABLES
  state,      \* what each object is in the cluster now
  changes,    \* changes of the cluster in this pass
  pc,         \* the next request of Discover, or merge, or done
  selector,   \* HelmReleaseDiscoverer: deployed, or owner in the fallback
  seenRelease, \* discoverWithSelector: the candidate of each release
  out,        \* Composite.Discover: records of the sources that answered
  failures,   \* Composite.Discover: number of sources that failed
  answered,   \* history: the sources that did not fail: argo, helm
  result,     \* what Discover returned: a sequence of records
  failed,     \* it returned an error
  quiet,      \* history: the cluster has not changed in this pass
  flawless,   \* history: no request has failed in this pass
  steady      \* history: objects active all along since the pass began

cluster == <<state, changes, quiet, steady>>
vars == <<cluster, pc, selector, seenRelease, out, failures, answered, result,
          failed, flawless>>

Active == {o \in Objects : state[o] = "active"}

NoRelease == [a \in {} |-> 0]

(* The objects of a set in the order of their IDs. *)
Place(o, S) == Cardinality({p \in S : p.id <= o.id})

ById(S) == [i \in 1..Cardinality(S) |-> CHOOSE o \in S : Place(o, S) = i]

TypeOK ==
  /\ state \in [Objects -> {"absent", "inactive", "active"}]
  /\ changes \in 0..MaxChanges
  /\ pc \in {"argo", "secrets", "configmaps", "merge", "done"}
  /\ selector \in {"deployed", "owner"}
  /\ Range(seenRelease) \subseteq Objects
  /\ out \subseteq Objects
  /\ failures \in 0..2
  /\ answered \subseteq {"argo", "helm"}
  /\ Range(result) \subseteq Objects
  /\ {failed, quiet, flawless} \subseteq BOOLEAN
  /\ steady \subseteq Objects

Init ==
  /\ state \in [Objects -> {"absent", "inactive", "active"}]
  /\ changes = 0 /\ quiet = TRUE /\ flawless = TRUE
  /\ steady = Active
  /\ pc = "argo" /\ selector = "deployed"
  /\ seenRelease = NoRelease
  /\ out = {} /\ failures = 0 /\ answered = {} /\ result = <<>> /\ failed = FALSE

-----------------------------------------------------------------------------
(* ArgoCDApplicationDiscoverer.Discover: one list. *)

ListApplications ==
  /\ pc = "argo"
  /\ out' = {o \in Active : o.source = "argo"}
  /\ answered' = answered \cup {"argo"}
  /\ pc' = "secrets"
  /\ UNCHANGED <<cluster, selector, seenRelease, failures, result, failed, flawless>>

ApplicationsFail ==
  /\ pc = "argo"
  /\ failures' = failures + 1
  /\ flawless' = FALSE
  /\ pc' = "secrets"
  /\ UNCHANGED <<cluster, selector, seenRelease, out, answered, result, failed>>

-----------------------------------------------------------------------------
(* HelmReleaseDiscoverer.Discover: the storage objects labelled deployed,   *)
(* and if that fails or finds none, all of them.                           *)

Selected(source) ==
  {o \in Objects :
     /\ o.source = source
     /\ state[o] = "active" \/ (selector = "owner" /\ state[o] = "inactive")}

(* Mutant of KeepBest: of equals the last one stays. *)
KeepBestLast(store, rec, key) ==
  IF rec.app \in DOMAIN store /\ key[rec] < key[store[rec.app]]
  THEN store
  ELSE [a \in DOMAIN store \cup {rec.app} |-> IF a = rec.app THEN rec ELSE store[a]]

(* Both de-duplications keep one record of each app: a later one replaces   *)
(* it only if it is better.                                                *)
KeepBest(store, rec, key) ==
  IF rec.app \in DOMAIN store /\ key[rec] <= key[store[rec.app]]
  THEN store
  ELSE [a \in DOMAIN store \cup {rec.app} |-> IF a = rec.app THEN rec ELSE store[a]]

Best(items, store, key) ==
  LET kept[n \in 0..Len(items)] ==
        IF n = 0 THEN store ELSE KeepBest(kept[n - 1], items[n], key)
  IN  kept[Len(items)]

Revision == [o \in Objects |-> o.rev]

considerLatest(store, items) == Best(items, store, Revision)

Consider(source) == considerLatest(seenRelease, ById(Selected(source)))

ListSecrets ==
  /\ pc = "secrets"
  /\ seenRelease' = Consider("secret")
  /\ pc' = "configmaps"
  /\ UNCHANGED <<cluster, selector, out, failures, answered, result, failed,
                 flawless>>

(* The deployed releases are returned if there is one; the fallback returns *)
(* what it finds.                                                          *)
ListConfigMaps ==
  /\ pc = "configmaps"
  /\ LET releases == Consider("configmap")
     IN  IF selector = "owner" \/ DOMAIN releases # {}
         THEN /\ out' = out \cup Range(releases)
              /\ answered' = answered \cup {"helm"}
              /\ pc' = "merge"
              /\ UNCHANGED selector
         ELSE /\ selector' = "owner"
              /\ pc' = "secrets"
              /\ UNCHANGED <<out, answered>>
  /\ seenRelease' = NoRelease
  /\ UNCHANGED <<cluster, failures, result, failed, flawless>>

(* Mutant of ReleasesFail: both attempts count as failed sources. *)
ReleasesFailTwice ==
  /\ pc \in {"secrets", "configmaps"}
  /\ failures' = failures + 1
  /\ IF selector = "deployed"
     THEN selector' = "owner" /\ pc' = "secrets"
     ELSE pc' = "merge" /\ UNCHANGED selector
  /\ seenRelease' = NoRelease
  /\ flawless' = FALSE
  /\ UNCHANGED <<cluster, out, answered, result, failed>>

(* Mutant of ReleasesFail: the records of the other source go with it. *)
ReleasesFailDropping ==
  /\ pc \in {"secrets", "configmaps"}
  /\ IF selector = "deployed"
     THEN selector' = "owner" /\ pc' = "secrets" /\ UNCHANGED <<failures, out>>
     ELSE failures' = failures + 1 /\ out' = {} /\ pc' = "merge" /\ UNCHANGED selector
  /\ seenRelease' = NoRelease
  /\ flawless' = FALSE
  /\ UNCHANGED <<cluster, answered, result, failed>>

(* Either list failing fails the attempt, whatever the other one brought.  *)
ReleasesFail ==
  /\ pc \in {"secrets", "configmaps"}
  /\ IF selector = "deployed"
     THEN selector' = "owner" /\ pc' = "secrets" /\ UNCHANGED failures
     ELSE failures' = failures + 1 /\ pc' = "merge" /\ UNCHANGED selector
  /\ seenRelease' = NoRelease
  /\ flawless' = FALSE
  /\ UNCHANGED <<cluster, out, answered, result, failed>>

-----------------------------------------------------------------------------
(* The end of Composite.Discover. *)

sourceTypePriority(source) ==
  CASE source = "argo" -> 0
    [] source = "secret" -> 1
    [] source = "configmap" -> 2

(* Mutant of deduplicateByApp: records are compared by ID only. *)
deduplicateByID(in) == ById(Range(in))

Priority == [o \in Objects |-> - sourceTypePriority(o.source)]

(* deduplicate is left out: the IDs of different objects differ. *)
deduplicateByApp(in) == ById(Range(Best(in, NoRelease, Priority)))

Merge ==
  /\ pc = "merge"
  /\ IF failures = 2
     THEN failed' = TRUE /\ UNCHANGED result
     ELSE result' = deduplicateByApp(ById(out)) /\ UNCHANGED failed
  /\ pc' = "done"
  /\ UNCHANGED <<cluster, selector, seenRelease, out, failures, answered, flawless>>

(* Discover has returned; the next call starts from nothing again. *)
Finished == pc = "done" /\ UNCHANGED vars

(* An object appears, goes away, or changes its status. *)
Change ==
  /\ pc # "done" /\ changes < MaxChanges
  /\ changes' = changes + 1
  /\ \E o \in Objects, s \in {"absent", "inactive", "active"} :
       /\ s # state[o]
       /\ state' = [state EXCEPT ![o] = s]
       /\ steady' = steady \ {o}
  /\ quiet' = FALSE
  /\ UNCHANGED <<pc, selector, seenRelease, out, failures, answered, result, failed,
                 flawless>>

Next ==
  \/ ListApplications \/ ApplicationsFail
  \/ ListSecrets \/ ListConfigMaps \/ ReleasesFail
  \/ Merge \/ Finished \/ Change

Spec == Init /\ [][Next]_vars

-----------------------------------------------------------------------------
(* Properties. *)

Returned == pc = "done" /\ ~ failed

Records == Range(result)

(* The records of a pass are ordered by ID, one for each app, so that each  *)
(* pair of namespace and app has one chart record: the narrow gauges, which *)
(* know nothing else of a workload, cannot collide.                        *)
OneRecordPerApp ==
  \A i, j \in 1..Len(result) :
    i < j => result[i].id < result[j].id /\ result[i].app # result[j].app

(* What Discover should return for a cluster: of each app the Application   *)
(* with the smallest ID; without one, the storage object with the highest   *)
(* revision among the deployed ones, or among all where none is deployed,   *)
(* a Secret before a ConfigMap.                                            *)
HelmObjects == {o \in Objects : o.source # "argo" /\ state[o] # "absent"}

Candidates ==
  LET deployed == HelmObjects \cap Active
  IN  IF deployed # {} THEN deployed ELSE HelmObjects

Preferred(o, p) ==
  IF o.source = "argo" \/ p.source = "argo"
  THEN o.source = "argo" /\ (p.source # "argo" \/ o.id <= p.id)
  ELSE \/ o.rev > p.rev
       \/ /\ o.rev = p.rev
          /\ \/ o.source = "secret" /\ p.source = "configmap"
             \/ o.source = p.source /\ o.id <= p.id

Expected ==
  LET all == {o \in Active : o.source = "argo"} \cup Candidates
  IN  {o \in all : \A p \in all : p.app = o.app => Preferred(o, p)}

QuietPassIsExact == Returned /\ quiet /\ flawless => Records = Expected

SourceOf(o) == IF o.source = "argo" THEN "argo" ELSE "helm"

(* Whatever changes during a pass and whatever fails, the other source      *)
(* included: an object that is active all along, of a source that answered  *)
(* in the end, has its app among the records, an Application before a       *)
(* release, and the release not in an older revision.                       *)
SteadyObjectsAreFound ==
  Returned =>
    \A o \in steady : SourceOf(o) \in answered =>
      \E rec \in Records :
        /\ rec.app = o.app
        /\ o.source = "argo" => rec.source = "argo"
        /\ rec.source # "argo" => rec.rev >= o.rev

=============================================================================
