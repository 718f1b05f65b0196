------------------------ MODULE CatalogBuilderProofs ------------------------
(***************************************************************************)
(* Safety of CatalogBuilder for every snapshot, every number of workers,   *)
(* and every object, override and answer of a resolver.                    *)
(***************************************************************************)
EXTENDS CatalogBuilder, WellFoundedInduction, TLAPS

-----------------------------------------------------------------------------
(* Numbers: a set of them that is not empty has a least one. *)
LEMMA MinIs ==
  ASSUME NEW S \in SUBSET Nat, S # {}
  PROVE  Min(S) \in S
<1>1. PICK x \in S : \A y \in S : ~ (<<y, x>> \in OpToRel(<, Nat))
  BY NatLessThanWellFounded, WFMin
<1>2. \A y \in S : ~ (y < x)
  BY <1>1 DEF OpToRel
<1>3. \E z \in S : \A y \in S : z =< y
  BY <1>2
<1> QED BY <1>3 DEF Min

-----------------------------------------------------------------------------
(* The constants. *)

LEMMA PoolType == Pool \subseteq Nat /\ Pool # {}
<1>1. Configured \in Int
  BY BuilderAssumption
<1>2. (IF Configured < 1 THEN 1 ELSE Configured) \in Nat \ {0}
  BY <1>1
<1>3. 1 \in Pool /\ Pool \subseteq Nat
  BY <1>2 DEF Pool
<1> QED BY <1>3

LEMMA JobsType == /\ Len(Workloads) \in Nat /\ Jobs \subseteq Nat /\ 0 \notin Jobs
                  /\ \A i \in Jobs : Workloads[i] \in Workload
<1>1. Workloads \in Seq(Workload)
  BY BuilderAssumption
<1> QED BY <1>1 DEF Jobs

LEMMA NoneIsNoRecord ==
  ASSUME NEW rec \in Record
  PROVE  rec # None
<1>1. rec.kind # "none"
  BY DEF Record
<1> QED BY <1>1 DEF None

-----------------------------------------------------------------------------
(* buildSingle's helpers: what each does to a record, and what it leaves.   *)

LEMMA KindType ==
  ASSUME NEW repo
  PROVE  classifySourceKind(repo) \in {"unknown", "git", "helm_repo", "oci_registry"}
BY DEF classifySourceKind

LEMMA UnknownType ==
  ASSUME NEW i \in Jobs
  PROVE  /\ Unknown(i) \in Record
         /\ Unknown(i).current = "unknown" /\ Unknown(i).latest = "unknown"
         /\ Unknown(i).repo = "unknown" /\ ~ Unknown(i).error
<1>1. Workloads[i].app \in Names
  BY JobsType DEF Workload
<1> QED BY <1>1, BuilderAssumption DEF Unknown, Record

LEMMA FailedIs ==
  ASSUME NEW rec \in Record
  PROVE  /\ Failed(rec) \in Record
         /\ Failed(rec).error
         /\ Failed(rec) = [rec EXCEPT !.error = TRUE]
BY DEF Failed, Record

LEMMA WithRepoIs ==
  ASSUME NEW rec \in Record, NEW repo \in DOMAIN URL
  PROVE  /\ WithRepo(rec, repo) \in Record
         /\ WithRepo(rec, repo).repo = repo
         /\ WithRepo(rec, repo).chart = rec.chart
         /\ WithRepo(rec, repo).current = rec.current
         /\ WithRepo(rec, repo).latest = rec.latest
         /\ WithRepo(rec, repo).error = rec.error
<1>1. classifySourceKind(repo) \in {"unknown", "git", "helm_repo", "oci_registry"}
  BY KindType
<1> QED BY <1>1 DEF WithRepo, Record

(* A name that is not "" replaces the one there is. *)
LEMMA NamedType ==
  ASSUME NEW rec \in Record, NEW chart \in ChartText, NEW version \in VersionText
  PROVE  LET named == [rec EXCEPT !.chart = Or(chart, @), !.current = Or(version, @)]
         IN  named \in Record /\ named.latest = rec.latest
BY DEF Or, ChartText, VersionText, Record

(* The source that is read is one of the Application's, or nothing. *)
LEMMA SourceType ==
  ASSUME NEW sources \in Seq(ArgoSource)
  PROVE  LET s == extractArgoChartSource(sources)
         IN  s.chart \in ChartText /\ s.repo \in RepoText /\ s.version \in VersionText
<1> DEFINE usable == {k \in DOMAIN sources : Usable(sources[k])}
           first  == sources[Min(usable)]
           s      == extractArgoChartSource(sources)
<1> SUFFICES s.chart \in ChartText /\ s.repo \in RepoText /\ s.version \in VersionText
  OBVIOUS
<1>1. CASE usable = {}
  <2>1. s = [chart |-> "", repo |-> "", version |-> ""]
    BY <1>1 DEF extractArgoChartSource
  <2> HIDE DEF s
  <2> QED BY <2>1 DEF ChartText, RepoText, VersionText
<1>2. CASE usable # {}
  <2>1. Min(usable) \in usable
    <3>1. usable \in SUBSET Nat
      OBVIOUS
    <3> QED BY <1>2, <3>1, MinIs
  <2>2. first \in ArgoSource
    BY <2>1
  <2>3. s = [chart   |-> IF Blank(first.chart) THEN "" ELSE first.chart,
             repo    |-> first.repo,
             version |-> first.version]
    BY <1>2 DEF extractArgoChartSource
  <2> HIDE DEF first, s
  <2> QED BY <2>2, <2>3 DEF ArgoSource, ChartText
<1> QED BY <1>1, <1>2

(* Whatever the object, what it makes of the record is one, without a       *)
(* latest version; and its repository is unknown unless the object has one. *)
LEMMA PopulatedType ==
  ASSUME NEW i \in Jobs, NEW obj \in Contents[i]
  PROVE  Populated(i, obj) \in Record /\ Populated(i, obj).latest = "unknown"
<1> DEFINE rec == Unknown(i)
<1>0. rec \in Record /\ rec.latest = "unknown"
  BY UnknownType
<1> HIDE DEF rec
<1>1. CASE Workloads[i].source = "argo"
  <2>1. obj \in Application
    BY <1>1, ContentsAssumption
  <2> DEFINE s     == extractArgoChartSource(obj.sources)
             named == [rec EXCEPT !.chart = Or(s.chart, @), !.current = Or(s.version, @)]
  <2>2. s.chart \in ChartText /\ s.repo \in RepoText /\ s.version \in VersionText
    BY <2>1, SourceType DEF Application
  <2>3. named \in Record /\ named.latest = "unknown"
    <3> HIDE DEF s
    <3> QED BY <1>0, <2>2, NamedType
  <2>4. populateFromArgoCD(rec, obj) = CASE ~ obj.spec -> Failed(rec)
                                         [] obj.spec /\ s.repo = "" -> named
                                         [] obj.spec /\ s.repo # "" -> WithRepo(named, s.repo)
    BY DEF populateFromArgoCD
  <2> HIDE DEF s, named
  <2>5. Populated(i, obj) = populateFromArgoCD(rec, obj)
    BY <1>1 DEF Populated, rec
  <2>6. CASE ~ obj.spec
    <3>1. Populated(i, obj) = Failed(rec)
      BY <2>4, <2>5, <2>6
    <3> QED BY <1>0, <3>1, FailedIs DEF Record
  <2>7. CASE obj.spec /\ s.repo = ""
    <3>1. Populated(i, obj) = named
      BY <2>4, <2>5, <2>7
    <3> QED BY <2>3, <3>1
  <2>8. CASE obj.spec /\ s.repo # ""
    <3>1. s.repo \in DOMAIN URL
      BY <2>2, <2>8 DEF RepoText
    <3>2. Populated(i, obj) = WithRepo(named, s.repo)
      BY <2>4, <2>5, <2>8
    <3> QED BY <2>3, <3>1, <3>2, WithRepoIs
  <2> QED BY <2>6, <2>7, <2>8
<1>2. CASE Workloads[i].source # "argo"
  <2>1. obj \in HelmRelease
    BY <1>2, ContentsAssumption
  <2> DEFINE lab == applyHelmLabels(rec, obj.labels)
             pay == obj.payload
  <2>2. lab \in Record /\ lab.latest = "unknown"
    BY <1>0, <2>1 DEF applyHelmLabels, HelmRelease, HelmLabels, Or, ChartText, VersionText, Record
  <2>3. pay \in HelmPayload
    BY <2>1 DEF HelmRelease
  <2>4. Populated(i, obj) = applyHelmReleasePayload(lab, pay)
    BY <1>2 DEF Populated, rec
  <2> HIDE DEF lab, pay
  <2> DEFINE named == [lab EXCEPT !.chart = Or(pay.chart, @), !.current = Or(pay.version, @)]
  <2>5. named \in Record /\ named.latest = "unknown"
    <3>1. pay.chart \in ChartText /\ pay.version \in VersionText
      BY <2>3 DEF HelmPayload
    <3> QED BY <2>2, <3>1, NamedType
  <2>6. applyHelmReleasePayload(lab, pay) =
          CASE pay.kind = "none" -> lab
            [] pay.kind = "broken" -> Failed(lab)
            [] pay.kind = "release" ->
                 IF Blank(pay.repo) \/ lab.repo # "unknown"
                 THEN named ELSE WithRepo(named, pay.repo)
    BY DEF applyHelmReleasePayload
  <2> HIDE DEF named
  <2>7. pay.kind \in {"none", "broken", "release"} /\ pay.repo \in RepoText
    BY <2>3 DEF HelmPayload
  <2>8. CASE pay.kind = "none"
    BY <2>2, <2>4, <2>6, <2>8
  <2>9. CASE pay.kind = "broken"
    BY <2>2, <2>4, <2>6, <2>9, FailedIs DEF Record
  <2>10. CASE pay.kind = "release" /\ ~ Blank(pay.repo)
    <3>1. pay.repo \in DOMAIN URL
      BY <2>7, <2>10 DEF Blank, RepoText
    <3> QED BY <2>4, <2>5, <2>6, <2>10, <3>1, WithRepoIs
  <2>11. CASE pay.kind = "release" /\ Blank(pay.repo)
    BY <2>4, <2>5, <2>6, <2>11
  <2> QED BY <2>7, <2>8, <2>9, <2>10, <2>11
<1> QED BY <1>1, <1>2

(* The override changes the repository and its kind, or nothing. *)
LEMMA OverrideIs ==
  ASSUME NEW rec \in Record
  PROVE  LET new == applyRepoOverride(rec) IN
         /\ new \in Record
         /\ new.chart = rec.chart /\ new.current = rec.current
         /\ new.latest = rec.latest /\ new.error = rec.error
         /\ IF /\ Blank(rec.repo) \/ rec.repo = "unknown" \/ rec.kind = "git"
               /\ rec.chart \in DOMAIN Overrides
            THEN new.repo = Overrides[rec.chart]
            ELSE new = rec
<1>1. CASE /\ Blank(rec.repo) \/ rec.repo = "unknown" \/ rec.kind = "git"
           /\ rec.chart \in DOMAIN Overrides
  <2>1. Overrides[rec.chart] \in DOMAIN URL
    BY <1>1, BuilderAssumption DEF Range
  <2>2. applyRepoOverride(rec) = WithRepo(rec, Overrides[rec.chart])
    BY <1>1 DEF applyRepoOverride
  <2> QED BY <1>1, <2>1, <2>2, WithRepoIs
<1>2. CASE ~ /\ Blank(rec.repo) \/ rec.repo = "unknown" \/ rec.kind = "git"
             /\ rec.chart \in DOMAIN Overrides
  BY <1>2 DEF applyRepoOverride
<1> QED BY <1>1, <1>2

(* The latest version is the resolver's or unknown, and only an answer that *)
(* is an error is one.                                                     *)
LEMMA SettledIs ==
  ASSUME NEW rec \in Record, rec.latest = "unknown", NEW answer \in Latest \cup NoVersion
  PROVE  LET new == Settled(rec, answer) IN
         /\ new \in Record
         /\ new.chart = rec.chart /\ new.current = rec.current
         /\ new.repo = rec.repo /\ new.kind = rec.kind
         /\ new.latest = IF answer \in Latest THEN answer ELSE "unknown"
         /\ answer = "error" => new.error
         /\ answer # "error" => new.error = rec.error
<1> USE BuilderAssumption DEF NoVersion
<1>1. CASE answer \in Latest
  <2>1. Settled(rec, answer) = [rec EXCEPT !.latest = answer]
    BY <1>1 DEF Settled
  <2> QED BY <1>1, <2>1 DEF Record
<1>2. CASE answer \in {"unsupported", "not_found"}
  <2>1. Settled(rec, answer) = [rec EXCEPT !.latest = "unknown"]
    BY <1>2 DEF Settled
  <2> QED BY <1>2, <2>1 DEF Record
<1>3. CASE answer = "error"
  <2>1. Settled(rec, answer) = Failed(rec)
    BY <1>3 DEF Settled
  <2>2. Failed(rec) \in Record /\ Failed(rec).error
    BY FailedIs
  <2>3. /\ Failed(rec).chart = rec.chart /\ Failed(rec).current = rec.current
        /\ Failed(rec).repo = rec.repo /\ Failed(rec).kind = rec.kind
        /\ Failed(rec).latest = "unknown"
    BY DEF Failed, Record
  <2>4. answer \notin Latest
    BY <1>3
  <2> QED BY <1>3, <2>1, <2>2, <2>3, <2>4
<1> QED BY <1>1, <1>2, <1>3

(* The status is the only thing the end of buildSingle adds, and no version *)
(* that is unknown has one.                                                *)
LEMMA WithStatusIs ==
  ASSUME NEW rec \in Record
  PROVE  LET new == WithStatus(rec) IN
         /\ new \in Record
         /\ new.chart = rec.chart /\ new.current = rec.current
         /\ new.repo = rec.repo /\ new.kind = rec.kind
         /\ new.latest = rec.latest /\ new.error = rec.error
         /\ rec.current = "unknown" => new.status = "unknown"
<1> DEFINE status == Engine!Compare(Parsed[rec.current], Parsed[rec.latest]).status
<1>1. status \in {"unknown", "outdated", "up_to_date"}
  BY DEF Engine!Compare, Engine!Result
<1>2. rec.current = "unknown" => status = "unknown"
  BY BuilderAssumption DEF Engine!Compare, Engine!Result
<1>3. WithStatus(rec) = [rec EXCEPT !.status = status]
  BY DEF WithStatus
<1> HIDE DEF status
<1> QED BY <1>1, <1>2, <1>3 DEF Record

-----------------------------------------------------------------------------
(***************************************************************************)
(* The inductive invariant.  Every property speaks of records that are     *)
(* written; what they say is decided before, in the workers' hands.        *)
(***************************************************************************)

(* The workloads below next are written, or a single worker has them; those *)
(* from next on nobody has touched, and no worker has left before the last. *)
Handed ==
  /\ \A w \in Pool : job[w] = 0 <=> pc[w] \in {"receive", "exited"}
  /\ \A w \in Pool : job[w] # 0 => job[w] < next /\ ~ Written(job[w])
  /\ \A v, w \in Pool : job[v] = job[w] /\ job[v] # 0 => v = w
  /\ \A i \in Jobs : i < next => Written(i) \/ \E w \in Pool : job[w] = i
  /\ \A i \in Jobs : i >= next => ~ Written(i) /\ object[i] = None /\ reply[i] = None
  /\ \A w \in Pool : pc[w] = "exited" => next \notin Jobs
  /\ returned => \A w \in Pool : pc[w] = "exited"

(* An answer to the Get of workload i: its object, or a failure. *)
IsAnswer(i, o) ==
  \/ o.kind = "failed"
  \/ o.kind = "object" /\ o.object \in Contents[i]

(* What the answer makes of the record, before a resolver is asked. *)
FromAnswer(i, o) ==
  applyRepoOverride(IF o.kind = "object" THEN Populated(i, o.object) ELSE Failed(Unknown(i)))

Base(i) == FromAnswer(i, object[i])

(* The record of worker w is that of its workload, as far as it has come. *)
AtWork(w) ==
  /\ pc[w] = "get" => record[w] = Unknown(job[w]) /\ object[job[w]] = None
  /\ pc[w] = "resolve" =>
       /\ IsAnswer(job[w], object[job[w]])
       /\ record[w] = Base(job[w]) /\ canResolve(record[w])
  /\ pc[w] \in {"get", "resolve"} => reply[job[w]] = None

Query(rec, answer) ==
  [kind |-> rec.kind, repo |-> rec.repo, chart |-> rec.chart, answer |-> answer]

(* The record of workload i came of its own object, and if it names what    *)
(* can be resolved, of one answer to the query for that.                   *)
Outcome(i) ==
  /\ IsAnswer(i, object[i])
  /\ \/ /\ ~ canResolve(Base(i)) /\ reply[i] = None
        /\ records[i] = WithStatus(Base(i))
     \/ /\ canResolve(Base(i))
        /\ \E answer \in Latest \cup NoVersion :
             /\ reply[i] = Query(Base(i), answer)
             /\ records[i] = WithStatus(Settled(Base(i), answer))

(* The histories have an entry of every workload. *)
Shape == DOMAIN object = Jobs /\ DOMAIN reply = Jobs

Inv ==
  /\ TypeOK /\ Shape /\ Handed
  /\ \A w \in Pool : AtWork(w)
  /\ \A i \in Jobs : Written(i) => Outcome(i)

-----------------------------------------------------------------------------
(* Steps. *)

LEMMA FromAnswerType ==
  ASSUME NEW i \in Jobs, NEW o, IsAnswer(i, o)
  PROVE  FromAnswer(i, o) \in Record /\ FromAnswer(i, o).latest = "unknown"
<1> DEFINE rec == IF o.kind = "object" THEN Populated(i, o.object) ELSE Failed(Unknown(i))
<1>1. CASE o.kind = "object"
  <2>1. rec \in Record /\ rec.latest = "unknown"
    BY <1>1, PopulatedType DEF IsAnswer
  <2> QED BY <2>1, OverrideIs DEF FromAnswer
<1>2. CASE o.kind = "failed"
  <2>1. rec = Failed(Unknown(i))
    BY <1>2
  <2>2. Unknown(i) \in Record /\ Unknown(i).latest = "unknown"
    BY UnknownType
  <2>3. Failed(Unknown(i)) \in Record /\ Failed(Unknown(i)).latest = "unknown"
    BY <2>2, FailedIs DEF Failed, Record
  <2>4. rec \in Record /\ rec.latest = "unknown"
    BY <2>1, <2>3
  <2> QED BY <2>4, OverrideIs DEF FromAnswer
<1> QED BY <1>1, <1>2 DEF IsAnswer

(* Where a worker stands tells what it has: a workload of its own. *)
LEMMA AtJob ==
  ASSUME Inv, NEW w \in Pool, pc[w] \in {"get", "resolve"}
  PROVE  /\ job[w] \in Jobs /\ job[w] < next /\ ~ Written(job[w])
         /\ \A v \in Pool \ {w} : job[v] # job[w]
<1>1. job[w] # 0 /\ job[w] \in Jobs
  BY DEF Inv, TypeOK, Handed
<1> QED BY <1>1 DEF Inv, Handed

(* What one worker does to its own workload leaves the others as they are.  *)
LEMMA Others ==
  ASSUME Inv, NEW w \in Pool,
         \A v \in Pool \ {w} :
           pc'[v] = pc[v] /\ job'[v] = job[v] /\ record'[v] = record[v],
         \A i \in Jobs \ {job[w]} :
           object'[i] = object[i] /\ reply'[i] = reply[i] /\ records'[i] = records[i]
  PROVE  /\ \A v \in Pool \ {w} : AtWork(v)'
         /\ \A i \in Jobs \ {job[w]} : Written(i)' => Outcome(i)'
<1>1. ASSUME NEW v \in Pool \ {w} PROVE AtWork(v)'
  <2>1. CASE pc[v] \in {"get", "resolve"}
    <3>1. job[v] \in Jobs \ {job[w]}
      BY <2>1, AtJob
    <3>2. AtWork(v)
      BY DEF Inv
    <3> QED BY <3>1, <3>2 DEF AtWork, Base
  <2>2. CASE pc[v] \notin {"get", "resolve"}
    BY <2>2 DEF AtWork
  <2> QED BY <2>1, <2>2
<1>2. ASSUME NEW i \in Jobs \ {job[w]}, Written(i)' PROVE Outcome(i)'
  <2>1. Written(i)
    BY <1>2 DEF Written
  <2>2. Outcome(i)
    BY <2>1 DEF Inv
  <2> QED BY <2>2 DEF Outcome, Base
<1> QED BY <1>1, <1>2

(* A worker that finishes its workload gives it back written. *)
LEMMA FinishKeeps ==
  ASSUME Inv, NEW w \in Pool, pc[w] \in {"get", "resolve"},
         NEW rec \in Record, Finish(w, rec),
         UNCHANGED <<next, returned, cancelled, silent>>,
         \A i \in Jobs \ {job[w]} : object'[i] = object[i] /\ reply'[i] = reply[i]
  PROVE  /\ TypeOK' /\ Handed' /\ AtWork(w)'
         /\ records'[job[w]] = WithStatus(rec)
         /\ \A i \in Jobs \ {job[w]} : records'[i] = records[i]
         /\ \A v \in Pool \ {w} :
              pc'[v] = pc[v] /\ job'[v] = job[v] /\ record'[v] = record[v]
<1> DEFINE j == job[w]
<1>1. j \in Jobs /\ j < next
  BY AtJob
<1>2. WithStatus(rec) \in Record
  BY WithStatusIs
<1>3. /\ pc' = [pc EXCEPT ![w] = "receive"] /\ job' = [job EXCEPT ![w] = 0]
      /\ record' = [record EXCEPT ![w] = None]
      /\ records' = [records EXCEPT ![j] = WithStatus(rec)]
  BY DEF Finish
<1>4. TypeOK'
  BY <1>1, <1>2, <1>3 DEF Inv, TypeOK
<1>5. /\ records'[j] = WithStatus(rec)
      /\ \A i \in Jobs \ {j} : records'[i] = records[i]
  BY <1>1, <1>3 DEF Inv, TypeOK
<1>6. /\ pc'[w] = "receive" /\ job'[w] = 0
      /\ \A v \in Pool \ {w} :
           pc'[v] = pc[v] /\ job'[v] = job[v] /\ record'[v] = record[v]
  BY <1>3 DEF Inv, TypeOK
<1>7. records'[j] # None
  BY <1>2, <1>5, NoneIsNoRecord
<1>8. Handed'
  <2> USE <1>6 DEF Inv
  <2>1. \A v \in Pool : (job[v] = 0 <=> pc[v] \in {"receive", "exited"})'
    BY DEF Handed
  <2>2. \A v \in Pool : (job[v] # 0 => job[v] < next /\ ~ Written(job[v]))'
    <3> SUFFICES ASSUME NEW v \in Pool, job'[v] # 0
                 PROVE  job'[v] < next' /\ records'[job'[v]] = None
      BY DEF Written
    <3>1. v # w /\ job'[v] = job[v]
      OBVIOUS
    <3>2. job[v] \in Jobs /\ job[v] # j
      BY <3>1, AtJob DEF TypeOK
    <3> QED BY <1>5, <3>1, <3>2 DEF Handed, Written
  <2>3. \A u, v \in Pool : (job[u] = job[v] /\ job[u] # 0)' => u = v
    BY DEF Handed
  <2>4. \A i \in Jobs : (i < next)' => Written(i)' \/ \E v \in Pool : (job[v] = i)'
    <3> SUFFICES ASSUME NEW i \in Jobs, i < next, i # j
                 PROVE  records'[i] # None \/ \E v \in Pool : job'[v] = i
      BY <1>7 DEF Written
    <3>1. CASE records[i] # None
      BY <1>5, <3>1
    <3>2. ASSUME NEW v \in Pool, job[v] = i PROVE job'[v] = i
      BY <3>2
    <3> QED BY <3>1, <3>2 DEF Handed, Written
  <2>5. \A i \in Jobs : (i >= next)' => (~ Written(i) /\ object[i] = None /\ reply[i] = None)'
    <3> SUFFICES ASSUME NEW i \in Jobs, i >= next
                 PROVE  records'[i] = None /\ object'[i] = None /\ reply'[i] = None
      BY DEF Written
    <3>1. i # j
      BY <1>1, JobsType DEF TypeOK
    <3> QED BY <1>5, <3>1 DEF Handed, Written
  <2>6. \A v \in Pool : (pc[v] = "exited" => next \notin Jobs)'
    BY DEF Handed
  <2>7. (returned => \A v \in Pool : pc[v] = "exited")'
    BY DEF Handed
  <2> QED BY <2>1, <2>2, <2>3, <2>4, <2>5, <2>6, <2>7 DEF Handed
<1>9. AtWork(w)'
  BY <1>6 DEF AtWork
<1> QED BY <1>4, <1>5, <1>6, <1>8, <1>9

LEMMA ReceiveStep ==
  ASSUME Inv, NEW w \in Pool, Receive(w)
  PROVE  Inv'
<1>1. /\ next \in Jobs /\ next \in Nat /\ pc[w] = "receive" /\ job[w] = 0
      /\ ~ Written(next) /\ object[next] = None /\ reply[next] = None
  BY JobsType DEF Inv, Receive, Handed
<1>2. /\ pc'[w] = "get" /\ job'[w] = next /\ record'[w] = Unknown(next) /\ next' = next + 1
      /\ \A v \in Pool \ {w} :
           pc'[v] = pc[v] /\ job'[v] = job[v] /\ record'[v] = record[v]
      /\ UNCHANGED <<records, returned, cancelled, silent, object, reply>>
  BY DEF Inv, TypeOK, Receive
<1>3. TypeOK'
  <2>1. Unknown(next) \in Record
    BY <1>1, UnknownType
  <2>2. next + 1 \in 1..Len(Workloads) + 1
    BY <1>1, JobsType DEF Jobs
  <2> QED BY <1>1, <2>1, <2>2 DEF Inv, TypeOK, Receive
<1>4. Handed'
  <2> USE <1>1, <1>2 DEF Inv
  <2>1. \A v \in Pool : (job[v] = 0 <=> pc[v] \in {"receive", "exited"})'
    BY JobsType DEF Handed
  <2>2. \A v \in Pool : (job[v] # 0 => job[v] < next /\ ~ Written(job[v]))'
    <3> SUFFICES ASSUME NEW v \in Pool, job'[v] # 0
                 PROVE  job'[v] < next + 1 /\ records[job'[v]] = None
      BY DEF Written
    <3>1. CASE v = w
      BY <3>1, JobsType DEF Written
    <3>2. CASE v # w
      <4>1. job'[v] = job[v] /\ job[v] \in Jobs
        BY <3>2 DEF TypeOK
      <4>2. job[v] < next /\ records[job[v]] = None
        BY <3>2, <4>1 DEF Handed, Written
      <4>3. job[v] \in Nat
        BY <4>1, JobsType
      <4>4. job[v] < next + 1
        BY <4>2, <4>3
      <4> QED BY <4>1, <4>2, <4>4
    <3> QED BY <3>1, <3>2
  <2>3. \A u, v \in Pool : (job[u] = job[v] /\ job[u] # 0)' => u = v
    BY JobsType DEF Handed, TypeOK
  <2>4. \A i \in Jobs : (i < next)' => Written(i)' \/ \E v \in Pool : (job[v] = i)'
    <3> SUFFICES ASSUME NEW i \in Jobs, i < next, ~ Written(i)
                 PROVE  \E v \in Pool : job'[v] = i
      BY JobsType DEF Written
    <3>1. PICK v \in Pool : job[v] = i
      BY DEF Handed
    <3>2. v # w
      BY <3>1, JobsType
    <3> QED BY <3>1, <3>2
  <2>5. \A i \in Jobs : (i >= next)' => (~ Written(i) /\ object[i] = None /\ reply[i] = None)'
    BY JobsType DEF Handed, Written
  <2>6. \A v \in Pool : (pc[v] = "exited" => next \notin Jobs)'
    BY DEF Handed
  <2>7. (returned => \A v \in Pool : pc[v] = "exited")'
    BY DEF Handed
  <2> QED BY <2>1, <2>2, <2>3, <2>4, <2>5, <2>6, <2>7 DEF Handed
<1>5. AtWork(w)'
  BY <1>1, <1>2 DEF AtWork
<1>6. /\ \A v \in Pool \ {w} : AtWork(v)'
      /\ \A i \in Jobs \ {job[w]} : Written(i)' => Outcome(i)'
  BY <1>2, Others
<1>7. job[w] \notin Jobs
  BY <1>1, JobsType
<1> QED BY <1>2, <1>3, <1>4, <1>5, <1>6, <1>7 DEF Inv, Shape

(* The worker has an answer o to its Get, and rec is what it makes of it:   *)
(* buildSingle from the Get on, up to the resolver or to the end.          *)
LEMMA AnswerStep ==
  ASSUME Inv, NEW w \in Pool, pc[w] = "get",
         NEW o, IsAnswer(job[w], o),
         NEW rec, rec = FromAnswer(job[w], o),
         object' = [object EXCEPT ![job[w]] = o],
         Go(w, rec),
         UNCHANGED <<next, returned, cancelled, silent, reply>>
  PROVE  Inv'
<1>1. PICK j \in Jobs : /\ j = job[w] /\ j < next /\ ~ Written(j)
                        /\ \A v \in Pool \ {w} : job[v] # j
  BY AtJob
<1>2. rec \in Record /\ rec.latest = "unknown"
  BY <1>1, FromAnswerType
<1>3. object'[j] = o /\ \A i \in Jobs \ {j} : object'[i] = object[i]
  BY <1>1 DEF Inv, Shape
<1>4. reply[j] = None
  BY <1>1 DEF Inv, AtWork
<1>5. Base(j)' = rec /\ IsAnswer(j, object'[j])
  BY <1>1, <1>3 DEF Base
<1>6. Shape'
  BY DEF Inv, Shape
<1>7. CASE canResolve(rec)
  <2>1. /\ record' = [record EXCEPT ![w] = rec]
        /\ pc' = [pc EXCEPT ![w] = "resolve"]
        /\ UNCHANGED <<job, records>>
    BY <1>7 DEF Go
  <2>2. TypeOK'
    BY <1>1, <1>2, <2>1 DEF Inv, TypeOK
  <2>3. /\ pc'[w] = "resolve" /\ record'[w] = rec
        /\ \A v \in Pool \ {w} : pc'[v] = pc[v] /\ record'[v] = record[v]
    BY <2>1 DEF Inv, TypeOK
  <2>4. Handed'
    <3>1. \A i \in Jobs : i >= next => i # j
      BY <1>1, JobsType DEF Inv, TypeOK
    <3> QED BY <1>3, <2>1, <2>3, <3>1 DEF Inv, Handed, Written
  <2>5. AtWork(w)'
    BY <1>1, <1>4, <1>5, <1>7, <2>1, <2>3 DEF AtWork
  <2>6. /\ \A v \in Pool \ {w} : AtWork(v)'
        /\ \A i \in Jobs \ {j} : Written(i)' => Outcome(i)'
    BY <1>1, <1>3, <2>1, <2>3, Others
  <2>7. ~ Written(j)'
    BY <1>1, <2>1 DEF Written
  <2> QED BY <1>1, <1>6, <2>2, <2>4, <2>5, <2>6, <2>7 DEF Inv
<1>8. CASE ~ canResolve(rec)
  <2>0. Finish(w, rec)
    BY <1>8 DEF Go
  <2>1. /\ TypeOK' /\ Handed' /\ AtWork(w)'
        /\ records'[j] = WithStatus(rec)
        /\ \A i \in Jobs \ {j} : records'[i] = records[i]
        /\ \A v \in Pool \ {w} :
             pc'[v] = pc[v] /\ job'[v] = job[v] /\ record'[v] = record[v]
    BY <1>1, <1>2, <1>3, <2>0, FinishKeeps
  <2>2. Outcome(j)'
    BY <1>1, <1>4, <1>5, <1>8, <2>1 DEF Outcome
  <2>3. /\ \A v \in Pool \ {w} : AtWork(v)'
        /\ \A i \in Jobs \ {j} : Written(i)' => Outcome(i)'
    BY <1>1, <1>3, <2>1, Others
  <2> QED BY <1>6, <2>1, <2>2, <2>3 DEF Inv
<1> QED BY <1>7, <1>8

LEMMA GetStep ==
  ASSUME Inv, NEW w \in Pool, NEW obj, Get(w, obj)
  PROVE  Inv'
<1> DEFINE o == [kind |-> "object", object |-> obj]
<1>1. o.kind = "object" /\ o.object = obj
  OBVIOUS
<1>2. IsAnswer(job[w], o)
  BY <1>1 DEF Get, IsAnswer
<1>3. FromAnswer(job[w], o) = applyRepoOverride(Populated(job[w], obj))
  BY <1>1 DEF FromAnswer
<1>4. /\ pc[w] = "get" /\ object' = [object EXCEPT ![job[w]] = o]
      /\ Go(w, applyRepoOverride(Populated(job[w], obj)))
      /\ UNCHANGED <<next, returned, cancelled, silent, reply>>
  BY DEF Get
<1> HIDE DEF o
<1> QED BY <1>2, <1>3, <1>4, AnswerStep

LEMMA GetFailsStep ==
  ASSUME Inv, NEW w \in Pool, GetFails(w)
  PROVE  Inv'
<1> DEFINE o == [kind |-> "failed"]
<1>1. o.kind = "failed"
  OBVIOUS
<1>2. IsAnswer(job[w], o)
  BY <1>1 DEF IsAnswer
<1>3. record[w] = Unknown(job[w])
  BY DEF GetFails, Inv, AtWork
<1>4. FromAnswer(job[w], o) = applyRepoOverride(Failed(record[w]))
  BY <1>1, <1>3 DEF FromAnswer
<1>5. /\ pc[w] = "get" /\ object' = [object EXCEPT ![job[w]] = o]
      /\ Go(w, applyRepoOverride(Failed(record[w])))
      /\ UNCHANGED <<next, returned, cancelled, silent, reply>>
  BY DEF GetFails
<1> HIDE DEF o
<1> QED BY <1>2, <1>4, <1>5, AnswerStep

LEMMA ResolveStep ==
  ASSUME Inv, NEW w \in Pool, NEW answer \in Latest \cup NoVersion, Resolve(w, answer)
  PROVE  Inv'
<1> DEFINE rec == Settled(record[w], answer)
<1>1. pc[w] = "resolve" /\ Finish(w, rec)
      /\ UNCHANGED <<next, returned, cancelled, silent, object>>
  BY DEF Resolve
<1>2. PICK j \in Jobs : j = job[w]
  BY <1>1, AtJob
<1>3. /\ IsAnswer(j, object[j]) /\ record[w] = Base(j) /\ canResolve(record[w])
  BY <1>1, <1>2 DEF Inv, AtWork
<1>4. record[w] \in Record /\ record[w].latest = "unknown"
  BY <1>2, <1>3, FromAnswerType DEF Base
<1>5. rec \in Record
  BY <1>4, SettledIs
<1>6. reply'[j] = Query(record[w], answer) /\ \A i \in Jobs \ {j} : reply'[i] = reply[i]
  BY <1>2 DEF Resolve, Inv, Shape, Query
<1>7. Shape'
  BY DEF Resolve, Inv, Shape
<1> HIDE DEF rec
<1>8. /\ TypeOK' /\ Handed' /\ AtWork(w)'
      /\ records'[j] = WithStatus(rec)
      /\ \A i \in Jobs \ {j} : records'[i] = records[i]
      /\ \A v \in Pool \ {w} :
           pc'[v] = pc[v] /\ job'[v] = job[v] /\ record'[v] = record[v]
  BY <1>1, <1>2, <1>5, <1>6, FinishKeeps
<1>9. Outcome(j)'
  <2>1. Base(j)' = Base(j) /\ object'[j] = object[j]
    BY <1>1 DEF Base
  <2>2. /\ reply'[j] = Query(Base(j), answer)
        /\ records'[j] = WithStatus(Settled(Base(j), answer))
    BY <1>2, <1>3, <1>6, <1>8 DEF rec
  <2> QED BY <1>2, <1>3, <2>1, <2>2 DEF Outcome
<1>10. /\ \A v \in Pool \ {w} : AtWork(v)'
       /\ \A i \in Jobs \ {j} : Written(i)' => Outcome(i)'
  BY <1>1, <1>2, <1>6, <1>8, Others
<1> QED BY <1>7, <1>8, <1>9, <1>10 DEF Inv

(* The steps that touch no workload. *)
LEMMA ExitStep ==
  ASSUME Inv, NEW w \in Pool, Exit(w)
  PROVE  Inv'
<1>1. /\ pc[w] = "receive" /\ next \notin Jobs /\ pc' = [pc EXCEPT ![w] = "exited"]
      /\ UNCHANGED <<next, job, record, records, returned, cancelled, silent, object, reply>>
  BY DEF Exit
<1>2. TypeOK' /\ Shape'
  BY <1>1 DEF Inv, TypeOK, Shape
<1>3. pc'[w] = "exited" /\ \A v \in Pool \ {w} : pc'[v] = pc[v]
  BY <1>1 DEF Inv, TypeOK
<1>4. Handed'
  BY <1>1, <1>3 DEF Inv, Handed, Written
<1>5. AtWork(w)'
  BY <1>3 DEF AtWork
<1>6. job[w] \notin Jobs
  BY <1>1, JobsType DEF Inv, Handed
<1>7. /\ \A v \in Pool \ {w} : AtWork(v)'
      /\ \A i \in Jobs \ {job[w]} : Written(i)' => Outcome(i)'
  BY <1>1, <1>3, Others
<1> QED BY <1>2, <1>4, <1>5, <1>6, <1>7 DEF Inv

LEMMA BuildStep ==
  ASSUME Inv, Return \/ Cancel \/ UNCHANGED vars
  PROVE  Inv'
<1>1. /\ UNCHANGED <<next, pc, job, record, records, silent, object, reply>>
      /\ TypeOK'
  BY DEF Inv, TypeOK, Return, Cancel, vars
<1>2. returned' => returned \/ \A w \in Pool : pc[w] = "exited"
  BY DEF Return, Cancel, vars
<1>3. Handed' /\ Shape'
  BY <1>1, <1>2 DEF Inv, Handed, Shape, Written
<1>4. \A w \in Pool : AtWork(w)'
  BY <1>1 DEF Inv, AtWork, Base
<1>5. \A i \in Jobs : Written(i)' => Outcome(i)'
  BY <1>1 DEF Inv, Written, Outcome, Base
<1> QED BY <1>1, <1>3, <1>4, <1>5 DEF Inv

LEMMA InvInit == Init => Inv
<1> SUFFICES ASSUME Init PROVE Inv
  OBVIOUS
<1>1. TypeOK
  <2>1. 1 \in 1..Len(Workloads) + 1
    BY JobsType
  <2>2. silent \subseteq Jobs
    BY BuilderAssumption DEF Init
  <2> QED BY <2>1, <2>2 DEF Init, TypeOK
<1>2. Handed
  BY JobsType DEF Init, Handed, Written
<1> QED BY <1>1, <1>2 DEF Init, Inv, Shape, AtWork, Written

LEMMA InvStep == Inv /\ [Next]_vars => Inv'
<1> SUFFICES ASSUME Inv, [Next]_vars PROVE Inv'
  OBVIOUS
<1>1. ASSUME NEW w \in Pool, Step(w) PROVE Inv'
  BY <1>1, ReceiveStep, GetStep, GetFailsStep, ResolveStep, ExitStep DEF Step
<1>2. Return \/ Cancel \/ Returned \/ UNCHANGED vars => Inv'
  BY BuildStep DEF Returned
<1> QED BY <1>1, <1>2 DEF Next

LEMMA Invariant == Spec => []Inv
<1> QED BY InvInit, InvStep, PTL DEF Spec

-----------------------------------------------------------------------------
(* What the invariant says of the records. *)

(* Before the resolver, the record has the chart and the version of the     *)
(* object, an error if one failed, and its repository unless overridden.   *)
LEMMA BaseIs ==
  ASSUME NEW i \in Jobs, IsAnswer(i, object[i])
  PROVE  /\ Discovered(i) \in Record /\ Base(i) \in Record
         /\ Base(i).latest = "unknown"
         /\ Base(i).chart = Discovered(i).chart /\ Base(i).current = Discovered(i).current
         /\ Base(i).error <=> object[i].kind = "failed" \/ Discovered(i).error
         /\ object[i].kind = "failed" => Base(i).current = "unknown"
         /\ IF /\ \/ Blank(Discovered(i).repo) \/ Discovered(i).repo = "unknown"
                  \/ Discovered(i).kind = "git"
               /\ Discovered(i).chart \in DOMAIN Overrides
            THEN Base(i).repo = Overrides[Discovered(i).chart]
            ELSE Base(i).repo = Discovered(i).repo
<1> DEFINE found == Discovered(i)
           rec   == IF object[i].kind = "object" THEN Populated(i, object[i].object)
                                                 ELSE Failed(Unknown(i))
<1>1. Base(i) = applyRepoOverride(rec)
  BY DEF Base, FromAnswer
<1>2. Base(i) \in Record /\ Base(i).latest = "unknown"
  BY FromAnswerType DEF Base
<1>3. /\ found \in Record /\ rec \in Record
      /\ rec.chart = found.chart /\ rec.current = found.current
      /\ rec.repo = found.repo /\ rec.kind = found.kind
      /\ rec.error <=> object[i].kind = "failed" \/ found.error
      /\ object[i].kind = "failed" => rec.current = "unknown"
  <2>1. CASE object[i].kind = "object"
    <3>1. rec = found
      BY <2>1 DEF Discovered
    <3>2. found \in Record
      BY <2>1, PopulatedType DEF IsAnswer, Discovered
    <3> HIDE DEF found, rec
    <3> QED BY <2>1, <3>1, <3>2
  <2>2. CASE object[i].kind = "failed"
    <3>1. found = Unknown(i) /\ rec = Failed(Unknown(i))
      BY <2>2 DEF Discovered
    <3>2. Unknown(i) \in Record /\ Unknown(i).current = "unknown"
      BY UnknownType
    <3>3. rec \in Record /\ rec.error
      BY <3>1, <3>2, FailedIs
    <3>4. rec = [found EXCEPT !.error = TRUE]
      BY <3>1 DEF Failed
    <3> HIDE DEF found, rec
    <3>5. /\ rec.chart = found.chart /\ rec.current = found.current
          /\ rec.repo = found.repo /\ rec.kind = found.kind
      BY <3>1, <3>2, <3>4 DEF Record
    <3> QED BY <2>2, <3>1, <3>2, <3>3, <3>5
  <2> QED BY <2>1, <2>2 DEF IsAnswer
<1> HIDE DEF rec
<1>4. /\ Base(i).chart = rec.chart /\ Base(i).current = rec.current
      /\ Base(i).error = rec.error
      /\ IF /\ Blank(rec.repo) \/ rec.repo = "unknown" \/ rec.kind = "git"
            /\ rec.chart \in DOMAIN Overrides
         THEN Base(i).repo = Overrides[rec.chart]
         ELSE Base(i) = rec
  BY <1>1, <1>3, OverrideIs
<1>5. Base(i).error <=> object[i].kind = "failed" \/ found.error
  BY <1>3, <1>4
<1> HIDE DEF found
<1> QED BY <1>2, <1>3, <1>4, <1>5 DEF found

(* After it: the latest version is its answer to the record's own query,    *)
(* and there is an error if there was one or it answered one.              *)
LEMMA FinalIs ==
  ASSUME Inv, NEW i \in Jobs, Written(i)
  PROVE  /\ IsAnswer(i, object[i])
         /\ records[i].chart = Base(i).chart /\ records[i].current = Base(i).current
         /\ records[i].repo = Base(i).repo /\ records[i].kind = Base(i).kind
         /\ Base(i).current = "unknown" => records[i].status = "unknown"
         /\ records[i].latest # "unknown" => reply[i] = Query(Base(i), records[i].latest)
         /\ records[i].error <=>
              Base(i).error \/ (reply[i] # None /\ reply[i].answer = "error")
<1>1. Outcome(i) /\ IsAnswer(i, object[i])
  BY DEF Inv, Outcome
<1>2. Base(i) \in Record /\ Base(i).latest = "unknown"
  BY <1>1, BaseIs
<1>3. CASE /\ ~ canResolve(Base(i)) /\ reply[i] = None
           /\ records[i] = WithStatus(Base(i))
  BY <1>1, <1>2, <1>3, WithStatusIs
<1>4. ASSUME NEW answer \in Latest \cup NoVersion,
             reply[i] = Query(Base(i), answer),
             records[i] = WithStatus(Settled(Base(i), answer))
      PROVE  /\ records[i].chart = Base(i).chart /\ records[i].current = Base(i).current
             /\ records[i].repo = Base(i).repo /\ records[i].kind = Base(i).kind
             /\ Base(i).current = "unknown" => records[i].status = "unknown"
             /\ records[i].latest # "unknown" =>
                  reply[i] = Query(Base(i), records[i].latest)
             /\ records[i].error <=>
                  Base(i).error \/ (reply[i] # None /\ reply[i].answer = "error")
  <2> DEFINE rec == Settled(Base(i), answer)
  <2>1. /\ rec \in Record
        /\ rec.chart = Base(i).chart /\ rec.current = Base(i).current
        /\ rec.repo = Base(i).repo /\ rec.kind = Base(i).kind
        /\ rec.latest = IF answer \in Latest THEN answer ELSE "unknown"
        /\ answer = "error" => rec.error
        /\ answer # "error" => rec.error = Base(i).error
    BY <1>2, SettledIs
  <2>2. records[i] = WithStatus(rec)
    BY <1>4
  <2> HIDE DEF rec
  <2>3. /\ records[i].chart = rec.chart /\ records[i].current = rec.current
        /\ records[i].repo = rec.repo /\ records[i].kind = rec.kind
        /\ records[i].latest = rec.latest /\ records[i].error = rec.error
        /\ rec.current = "unknown" => records[i].status = "unknown"
    BY <2>1, <2>2, WithStatusIs
  <2>4. records[i].latest # "unknown" => reply[i] = Query(Base(i), records[i].latest)
    BY <1>4, <2>1, <2>3
  <2>5. reply[i].answer = answer /\ reply[i] # None
    <3>1. Base(i).kind # "none"
      BY <1>2 DEF Record
    <3>2. reply[i].kind = Base(i).kind /\ reply[i].answer = answer
      BY <1>4 DEF Query
    <3> QED BY <3>1, <3>2 DEF None
  <2>6. records[i].error <=>
          Base(i).error \/ (reply[i] # None /\ reply[i].answer = "error")
    BY <2>1, <2>3, <2>5
  <2> QED BY <2>1, <2>3, <2>4, <2>6
<1> QED BY <1>1, <1>3, <1>4 DEF Outcome

-----------------------------------------------------------------------------
(* The theorems. *)

(* Every variable keeps its type: no worker leaves the slots of the         *)
(* snapshot, and what it writes is a record.                               *)
THEOREM TypeCorrect == Spec => []TypeOK
<1>1. Inv => TypeOK
  BY DEF Inv
<1> QED BY <1>1, Invariant, PTL

(* Build hands back a record of every workload, for every number of them    *)
(* and of workers, also if the context is cancelled at any time.           *)
THEOREM Complete == Spec => []ReturnsAll
<1>1. ASSUME Inv, returned, NEW i \in Jobs PROVE Written(i)
  <2>1. PICK w \in Pool : TRUE
    BY PoolType
  <2>2. next \notin Jobs /\ \A v \in Pool : job[v] = 0
    BY <1>1, <2>1 DEF Inv, Handed
  <2>3. i < next
    BY <1>1, <2>2, JobsType DEF Inv, TypeOK, Jobs
  <2> QED BY <1>1, <2>2, <2>3, JobsType DEF Inv, Handed
<1>2. Inv => ReturnsAll
  BY <1>1 DEF ReturnsAll
<1> QED BY <1>2, Invariant, PTL

(* However the workers interleave, a record says of its own workload what   *)
(* its own object and the answer to its own query say.                     *)
THEOREM OwnRecords == Spec => []RecordsAreTheirOwn
<1>1. ASSUME Inv, NEW i \in Jobs, Written(i)
      PROVE  LET r == records[i] IN
             /\ r.chart = Discovered(i).chart /\ r.current = Discovered(i).current
             /\ r.latest # "unknown" =>
                  reply[i] = [kind |-> r.kind, repo |-> r.repo, chart |-> r.chart,
                              answer |-> r.latest]
             /\ object[i].kind = "failed" => r.status = "unknown"
  <2>1. IsAnswer(i, object[i])
    BY <1>1, FinalIs
  <2>2. records[i].chart = Discovered(i).chart /\ records[i].current = Discovered(i).current
    BY <1>1, <2>1, FinalIs, BaseIs
  <2>3. records[i].latest # "unknown" =>
          reply[i] = [kind |-> records[i].kind, repo |-> records[i].repo,
                      chart |-> records[i].chart, answer |-> records[i].latest]
    BY <1>1, FinalIs DEF Query
  <2>4. object[i].kind = "failed" => records[i].status = "unknown"
    BY <1>1, <2>1, FinalIs, BaseIs
  <2> QED BY <2>2, <2>3, <2>4
<1>2. Inv => RecordsAreTheirOwn
  BY <1>1 DEF RecordsAreTheirOwn
<1> QED BY <1>2, Invariant, PTL

(* Overrides repair what they should and leave alone what can be resolved.  *)
THEOREM Repaired == Spec => []OverridesRepair
<1>1. ASSUME Inv, NEW i \in Jobs, Written(i)
      PROVE  LET found == Discovered(i) IN
             IF \/ canResolve(found)
                \/ found.chart \notin DOMAIN Overrides
             THEN records[i].repo = found.repo
             ELSE found.repo = "unknown" \/ Blank(found.repo) \/ found.kind = "git" =>
                    records[i].repo = Overrides[found.chart]
  <2>1. IsAnswer(i, object[i]) /\ records[i].repo = Base(i).repo
    BY <1>1, FinalIs
  <2> QED BY <2>1, BaseIs DEF canResolve
<1>2. Inv => OverridesRepair
  BY <1>1 DEF OverridesRepair
<1> QED BY <1>2, Invariant, PTL

(* A record has an error exactly when something failed. *)
THEOREM ErrorsExact == Spec => []ErrorsAreFailures
<1>1. ASSUME Inv, NEW i \in Jobs, Written(i)
      PROVE  records[i].error <=>
               \/ object[i].kind = "failed"
               \/ Discovered(i).error
               \/ reply[i] # None /\ reply[i].answer = "error"
  <2>1. IsAnswer(i, object[i])
    BY <1>1, FinalIs
  <2> QED BY <1>1, <2>1, FinalIs, BaseIs
<1>2. Inv => ErrorsAreFailures
  BY <1>1 DEF ErrorsAreFailures
<1> QED BY <1>2, Invariant, PTL

(* The pool is no more than a faster loop: a record is what buildSingle     *)
(* makes of the answers to its own two calls, whatever the others do.      *)
THEOREM PoolIsALoop == Spec => [](\A i \in Jobs : Written(i) => Outcome(i))
<1>1. Inv => \A i \in Jobs : Written(i) => Outcome(i)
  BY DEF Inv
<1> QED BY <1>1, Invariant, PTL

(* A slot is written once: no two workers ever have the same workload.      *)
THEOREM WritesOnce == Spec => WrittenOnce
<1>1. ASSUME Inv, NEW w \in Pool, NEW rec, pc[w] \in {"get", "resolve"}, Finish(w, rec),
             NEW i \in Jobs, Written(i)
      PROVE  records'[i] = records[i]
  <2>1. i # job[w]
    BY <1>1, AtJob
  <2> QED BY <1>1, <2>1 DEF Finish, Inv, TypeOK
<1>2. ASSUME Inv, NEW w \in Pool, Step(w), NEW i \in Jobs, Written(i)
      PROVE  records'[i] = records[i]
  <2>1. CASE Receive(w) \/ Exit(w)
    BY <2>1 DEF Receive, Exit
  <2>2. ASSUME NEW rec, pc[w] = "get", Go(w, rec) PROVE records'[i] = records[i]
    BY <1>1, <1>2, <2>2 DEF Go
  <2>3. ASSUME NEW answer, Resolve(w, answer) PROVE records'[i] = records[i]
    BY <1>1, <1>2, <2>3 DEF Resolve
  <2> QED BY <1>2, <2>1, <2>2, <2>3 DEF Step, Get, GetFails
<1>3. Inv /\ [Next]_vars => [\A i \in Jobs : Written(i) => records'[i] = records[i]]_vars
  BY <1>2 DEF Next, Return, Cancel, Returned, vars
<1> QED BY <1>3, Invariant, PTL DEF Spec, WrittenOnce

=============================================================================
