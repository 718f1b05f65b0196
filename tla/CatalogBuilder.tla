--------------------------- MODULE CatalogBuilder ---------------------------
(***************************************************************************)
(* internal/catalog/builder.go: one call of Build.  The calling goroutine  *)
(* hands the workloads to a pool of workers over an unbuffered channel;    *)
(* each worker fetches the object of its workload, reads chart, repository *)
(* and version off it, asks a resolver for the latest version and writes   *)
(* the record into the workload's slot.                                    *)
(*                                                                         *)
(* Texts are those that the code tells apart: "" and " " (blank), the word *)
(* unknown, and names.  A repository URL is a name whose parts are URL[..].*)
(***************************************************************************)
EXTENDS Integers, Sequences, SequencesExt

CONSTANTS
  Configured,  \* the number of workers NewBuilder is given
  Names,       \* what apps and charts may be called
  Workloads,   \* the snapshot: a sequence of [app, source]
  Contents,    \* Contents[i]: what the object of workload i may be
  URL,         \* URL[repo]: the parts of a repository's URL
  Overrides,   \* Builder.repoOverrides, by chart
  Parsed,      \* Parsed[version]: what the version engine makes of it
  Latest,      \* versions a resolver may answer
  MaySilent,   \* workloads whose object the API server may never answer for
  WordSize     \* of the version engine

Engine == INSTANCE VersionEngine

(* NewBuilder has at least one worker. *)
Pool == 1..(IF Configured < 1 THEN 1 ELSE Configured)

Jobs == 1..Len(Workloads)

Workload == [app: Names, source: {"argo", "secret", "configmap"}]

(* A resolver that has no version answers one of these. *)
NoVersion == {"unsupported", "not_found", "error"}

ASSUME BuilderAssumption ==
  /\ Configured \in Int
  /\ Workloads \in Seq(Workload)
  /\ Range(Overrides) \subseteq DOMAIN URL \ {"", " "}
  /\ Latest \subseteq DOMAIN Parsed \ NoVersion
  /\ "unknown" \in DOMAIN Parsed /\ Parsed["unknown"].kind = "unknown"
  /\ MaySilent \subseteq Jobs

(* What buildSingle reads of an object: a field may be missing ("").  What  *)
(* matters of a version or a repository is what Parsed and URL say of it.  *)
ChartText == Names \cup {""}

VersionText == DOMAIN Parsed \cup {""}

RepoText == DOMAIN URL \cup {""}

ArgoSource == [chart: ChartText, repo: RepoText, version: VersionText, helm: BOOLEAN]

Application == [spec: BOOLEAN, sources: Seq(ArgoSource)]

HelmLabels == [chart: ChartText, version: VersionText]

HelmPayload ==
  [kind: {"none", "broken", "release"}, chart: ChartText, version: VersionText,
   repo: RepoText]

HelmRelease == [labels: HelmLabels, payload: HelmPayload]

ASSUME ContentsAssumption ==
  \A i \in Jobs :
    Contents[i] \subseteq IF Workloads[i].source = "argo" THEN Application ELSE HelmRelease

VARIABLES
  next,       \* Build: the workload offered on the channel
  pc,         \* workers: receive, get, resolve, or exited
  job,        \* workers: index of the workload at hand
  record,     \* workers: buildSingle's record
  records,    \* Build: the slots
  returned,   \* Build has returned
  cancelled,  \* the context is cancelled
  silent,     \* those it does not answer for
  object,     \* history: what Get answered for each workload
  reply       \* history: the query for each workload, and its answer

vars == <<next, pc, job, record, records, returned, cancelled, silent, object, reply>>

-----------------------------------------------------------------------------
(* buildSingle's helpers. *)

Blank(text) == text \in {"", " "}

Or(text, default) == IF text = "" THEN default ELSE text

(* Mutant of classifySourceKind: anything else has no kind. *)
classifySourceKindEmpty(repo) ==
  LET u        == URL[repo]
      registry == u.oci \/ u.registry
      web      == ~ registry /\ u.host
  IN  CASE registry -> "oci_registry"
        [] web /\ u.git -> "git"
        [] web /\ ~ u.git /\ (u.http \/ u.charts) -> "helm_repo"
        [] OTHER -> ""

classifySourceKind(repo) ==
  LET u        == URL[repo]
      registry == u.oci \/ u.registry
      web      == ~ registry /\ u.host
  IN  CASE registry -> "oci_registry"
        [] web /\ u.git -> "git"
        [] web /\ ~ u.git /\ (u.http \/ u.charts) -> "helm_repo"
        [] OTHER -> "unknown"

WithRepo(rec, repo) == [rec EXCEPT !.repo = repo, !.kind = classifySourceKind(repo)]

(* The record buildSingle starts from. *)
Unknown(i) ==
  [chart |-> Workloads[i].app, repo |-> "unknown", kind |-> "unknown",
   current |-> "unknown", latest |-> "unknown", status |-> "unknown", error |-> FALSE]

Failed(rec) == [rec EXCEPT !.error = TRUE]

(* parseArgoSource: a chart, or a helm block with a repository. *)
Usable(s) == ~ Blank(s.chart) \/ (s.helm /\ ~ Blank(s.repo))

(* Of spec.source and then spec.sources, the first that can be used. *)
extractArgoChartSource(sources) ==
  LET usable == {k \in DOMAIN sources : Usable(sources[k])}
      first  == sources[Min(usable)]
  IN  IF usable = {}
      THEN [chart |-> "", repo |-> "", version |-> ""]
      ELSE [chart   |-> IF Blank(first.chart) THEN "" ELSE first.chart,
            repo    |-> first.repo,
            version |-> first.version]

populateFromArgoCD(rec, app) ==
  LET s     == extractArgoChartSource(app.sources)
      named == [rec EXCEPT !.chart = Or(s.chart, @), !.current = Or(s.version, @)]
  IN  CASE ~ app.spec -> Failed(rec)
        [] app.spec /\ s.repo = "" -> named
        [] app.spec /\ s.repo # "" -> WithRepo(named, s.repo)

applyHelmLabels(rec, labels) ==
  [rec EXCEPT !.chart = Or(labels.chart, @),
              !.current = IF @ = "unknown" THEN Or(labels.version, @) ELSE @]

(* The payload is missing, cannot be decoded, or overrides the labels. *)
applyHelmReleasePayload(rec, payload) ==
  LET named == [rec EXCEPT !.chart = Or(payload.chart, @),
                           !.current = Or(payload.version, @)]
  IN  CASE payload.kind = "none" -> rec
        [] payload.kind = "broken" -> Failed(rec)
        [] payload.kind = "release" ->
             IF Blank(payload.repo) \/ rec.repo # "unknown"
             THEN named ELSE WithRepo(named, payload.repo)

(* What the object that Get answered makes of the record. *)
Populated(i, obj) ==
  IF Workloads[i].source = "argo"
  THEN populateFromArgoCD(Unknown(i), obj)
  ELSE applyHelmReleasePayload(applyHelmLabels(Unknown(i), obj.labels), obj.payload)

(* Mutant of applyRepoOverride: a repository on Git is left alone. *)
applyRepoOverrideIfMissing(rec) ==
  IF (Blank(rec.repo) \/ rec.repo = "unknown") /\ rec.chart \in DOMAIN Overrides
  THEN WithRepo(rec, Overrides[rec.chart])
  ELSE rec

applyRepoOverride(rec) ==
  IF /\ Blank(rec.repo) \/ rec.repo = "unknown" \/ rec.kind = "git"
     /\ rec.chart \in DOMAIN Overrides
  THEN WithRepo(rec, Overrides[rec.chart])
  ELSE rec

canResolve(rec) ==
  /\ ~ Blank(rec.chart) /\ ~ Blank(rec.repo) /\ rec.repo # "unknown"
  /\ rec.kind \in {"helm_repo", "oci_registry"}

(* The end of buildSingle. *)
WithStatus(rec) ==
  [rec EXCEPT !.status = Engine!Compare(Parsed[rec.current], Parsed[rec.latest]).status]

-----------------------------------------------------------------------------
Record ==
  [chart: Names, repo: DOMAIN URL \cup {"unknown"},
   kind: {"unknown", "git", "helm_repo", "oci_registry"},
   current: DOMAIN Parsed, latest: Latest \cup {"unknown"},
   status: {"unknown", "outdated", "up_to_date"}, error: BOOLEAN]

None == [kind |-> "none"]

Written(i) == records[i] # None

TypeOK ==
  /\ next \in 1..Len(Workloads) + 1
  /\ pc \in [Pool -> {"receive", "get", "resolve", "exited"}]
  /\ job \in [Pool -> Jobs \cup {0}]
  /\ record \in [Pool -> Record \cup {None}]
  /\ records \in [Jobs -> Record \cup {None}]
  /\ {returned, cancelled} \subseteq BOOLEAN
  /\ silent \subseteq Jobs

Init ==
  /\ next = 1
  /\ pc = [w \in Pool |-> "receive"]
  /\ job = [w \in Pool |-> 0]
  /\ record = [w \in Pool |-> None]
  /\ records = [i \in Jobs |-> None]
  /\ returned = FALSE /\ cancelled = FALSE
  /\ silent \in SUBSET MaySilent
  /\ object = [i \in Jobs |-> None]
  /\ reply = [i \in Jobs |-> None]

-----------------------------------------------------------------------------
(* Mutant of Receive: the next job is offered before this one is taken. *)
ReceiveTwice(w) ==
  /\ pc[w] = "receive" /\ next \in Jobs
  /\ job' = [job EXCEPT ![w] = next]
  /\ record' = [record EXCEPT ![w] = Unknown(next)]
  /\ pc' = [pc EXCEPT ![w] = "get"]
  /\ next' = IF \E v \in Pool : job[v] = next THEN next + 1 ELSE next
  /\ UNCHANGED <<records, returned, cancelled, silent, object, reply>>

(* jobs <- job: Build and a worker that ranges over jobs meet. *)
Receive(w) ==
  /\ pc[w] = "receive" /\ next \in Jobs
  /\ job' = [job EXCEPT ![w] = next]
  /\ record' = [record EXCEPT ![w] = Unknown(next)]
  /\ pc' = [pc EXCEPT ![w] = "get"]
  /\ next' = next + 1
  /\ UNCHANGED <<records, returned, cancelled, silent, object, reply>>

(* Mutant of Finish: the slot of the workload offered last. *)
FinishLatest(w, rec) ==
  /\ records' = [records EXCEPT ![next - 1] = WithStatus(rec)]
  /\ record' = [record EXCEPT ![w] = None]
  /\ job' = [job EXCEPT ![w] = 0]
  /\ pc' = [pc EXCEPT ![w] = "receive"]

(* records[j.index] = ... *)
Finish(w, rec) ==
  /\ records' = [records EXCEPT ![job[w]] = WithStatus(rec)]
  /\ record' = [record EXCEPT ![w] = None]
  /\ job' = [job EXCEPT ![w] = 0]
  /\ pc' = [pc EXCEPT ![w] = "receive"]

(* On to the resolver, or to the end. *)
Go(w, rec) ==
  \/ /\ canResolve(rec)
     /\ record' = [record EXCEPT ![w] = rec]
     /\ pc' = [pc EXCEPT ![w] = "resolve"]
     /\ UNCHANGED <<job, records>>
  \/ ~ canResolve(rec) /\ Finish(w, rec)

(* The API server answers the Get of the workload's object. *)
Get(w, obj) ==
  /\ pc[w] = "get" /\ job[w] \notin silent
  /\ obj \in Contents[job[w]]
  /\ object' = [object EXCEPT ![job[w]] = [kind |-> "object", object |-> obj]]
  /\ Go(w, applyRepoOverride(Populated(job[w], obj)))
  /\ UNCHANGED <<next, returned, cancelled, silent, reply>>

(* Mutant of GetFails: the request does not carry the context. *)
GetFailsOnAnswer(w) ==
  /\ pc[w] = "get" /\ job[w] \notin silent
  /\ object' = [object EXCEPT ![job[w]] = [kind |-> "failed"]]
  /\ Go(w, applyRepoOverride(Failed(record[w])))
  /\ UNCHANGED <<next, returned, cancelled, silent, reply>>

(* It answers with an error, or the context ends the request.  The client   *)
(* has no timeout: without either, the worker waits.                       *)
GetFails(w) ==
  /\ pc[w] = "get" /\ (job[w] \notin silent \/ cancelled)
  /\ object' = [object EXCEPT ![job[w]] = [kind |-> "failed"]]
  /\ Go(w, applyRepoOverride(Failed(record[w])))
  /\ UNCHANGED <<next, returned, cancelled, silent, reply>>

(* Mutant of Settled: only unsupported repositories are no error. *)
SettledUnlessMissing(rec, answer) ==
  CASE answer \in Latest -> [rec EXCEPT !.latest = answer]
    [] answer = "unsupported" -> [rec EXCEPT !.latest = "unknown"]
    [] answer \in {"not_found", "error"} -> Failed(rec)

(* What the resolver's answer makes of the record. *)
Settled(rec, answer) ==
  CASE answer \in Latest -> [rec EXCEPT !.latest = answer]
    [] answer \in {"unsupported", "not_found"} -> [rec EXCEPT !.latest = "unknown"]
    [] answer = "error" -> Failed(rec)

(* The OCI or the index resolver, as the kind of the source has it, answers. *)
Resolve(w, answer) ==
  /\ pc[w] = "resolve"
  /\ reply' = [reply EXCEPT ![job[w]] =
                 [kind |-> record[w].kind, repo |-> record[w].repo,
                  chart |-> record[w].chart, answer |-> answer]]
  /\ Finish(w, Settled(record[w], answer))
  /\ UNCHANGED <<next, returned, cancelled, silent, object>>

(* close(jobs) ends the worker's loop. *)
Exit(w) ==
  /\ pc[w] = "receive" /\ next \notin Jobs
  /\ pc' = [pc EXCEPT ![w] = "exited"]
  /\ UNCHANGED <<next, job, record, records, returned, cancelled, silent, object, reply>>

(* Mutant of Return: Build does not wait for its workers. *)
ReturnAtOnce ==
  /\ ~ returned /\ next \notin Jobs
  /\ returned' = TRUE
  /\ UNCHANGED <<next, pc, job, record, records, cancelled, silent, object, reply>>

(* wg.Wait() *)
Return ==
  /\ ~ returned
  /\ \A w \in Pool : pc[w] = "exited"
  /\ returned' = TRUE
  /\ UNCHANGED <<next, pc, job, record, records, cancelled, silent, object, reply>>

Cancel ==
  /\ ~ cancelled /\ ~ returned
  /\ cancelled' = TRUE
  /\ UNCHANGED <<next, pc, job, record, records, returned, silent, object, reply>>

Returned == returned /\ UNCHANGED vars

Step(w) ==
  \/ Receive(w) \/ GetFails(w) \/ Exit(w)
  \/ \E obj \in UNION Range(Contents) : Get(w, obj)
  \/ \E answer \in Latest \cup NoVersion : Resolve(w, answer)

Next == (\E w \in Pool : Step(w)) \/ Return \/ Cancel \/ Returned

(* Goroutines are scheduled; a request for an object that is not silent is  *)
(* answered, and a resolver returns (CallsReturn, FetchReturns).           *)
Spec == Init /\ [][Next]_vars /\ WF_vars(Return) /\ \A w \in Pool : WF_vars(Step(w))

-----------------------------------------------------------------------------
(* Properties. *)

(* What the object of a workload says of it; nothing if it was not read. *)
Discovered(i) ==
  IF object[i].kind = "object" THEN Populated(i, object[i].object) ELSE Unknown(i)

(* builder.go:81: however the workers interleave, a record shows the chart  *)
(* and version of its own workload's object, and the latest version in it  *)
(* was answered for the chart and the repository that it names, by the     *)
(* resolver of its kind.  A workload whose object was not read is unknown,  *)
(* never up to date.                                                       *)
RecordsAreTheirOwn ==
  \A i \in Jobs : Written(i) =>
    LET r == records[i] IN
    /\ r.chart = Discovered(i).chart /\ r.current = Discovered(i).current
    /\ r.latest # "unknown" =>
         reply[i] = [kind |-> r.kind, repo |-> r.repo, chart |-> r.chart,
                     answer |-> r.latest]
    /\ object[i].kind = "failed" => r.status = "unknown"

(* builder.go:428: an override repairs a missing repository and one on Git, *)
(* and it leaves alone what can be resolved.                               *)
OverridesRepair ==
  \A i \in Jobs : Written(i) =>
    LET found == Discovered(i) IN
    IF \/ canResolve(found)
       \/ found.chart \notin DOMAIN Overrides
    THEN records[i].repo = found.repo
    ELSE found.repo = "unknown" \/ Blank(found.repo) \/ found.kind = "git" =>
           records[i].repo = Overrides[found.chart]

(* A record has an error exactly when something failed: its object, the     *)
(* payload, or a resolver whose answer is not that there is no version.    *)
ErrorsAreFailures ==
  \A i \in Jobs : Written(i) =>
    (records[i].error <=>
       \/ object[i].kind = "failed"
       \/ Discovered(i).error
       \/ reply[i] # None /\ reply[i].answer = "error")

(* Build hands back a record of every workload. *)
ReturnsAll == returned => \A i \in Jobs : Written(i)

(* A slot is written once. *)
WrittenOnce == [][\A i \in Jobs : Written(i) => records'[i] = records[i]]_vars

(* Build returns when all objects are answered for, and also when some are  *)
(* not, once the context is cancelled.                                     *)
BuildReturns == (silent = {} \/ cancelled) ~> returned

(* README.md:141: "Overrides take precedence over `git` sources", and       *)
(* builder.go:428: they repair charts whose repository is "unresolvable".  *)
UnresolvableIsRepaired ==
  \A i \in Jobs : Written(i) =>
    LET found == Discovered(i) IN
    found.chart \in DOMAIN Overrides /\ ~ canResolve(found) =>
      records[i].repo = Overrides[found.chart]

=============================================================================
