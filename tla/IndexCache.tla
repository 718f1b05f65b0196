----------------------------- MODULE IndexCache -----------------------------
(***************************************************************************)
(* What the index cache of internal/resolver/repository_resolver.go        *)
(* promises its callers, without requests, locks, entries or expiries: a   *)
(* call ends in one step, with an answer read off an index that was        *)
(* fetched from its repository.                                            *)
(*                                                                         *)
(* RepositoryResolver is shown to implement this specification.            *)
(***************************************************************************)
EXTENDS Naturals

CONSTANTS
  Workers, Repos, UnsupportedRepos, Charts,
  Listed,   \* Listed[g]: charts with a version in generation g
  TTL       \* how old an answer may be when no refresh has failed

VARIABLES
  clock,
  upstream,  \* generation of the index each repository serves now
  calling,   \* workers with a call under way
  call,      \* arguments of each worker's latest call, its time and the
             \* generation then served
  answer,    \* its answer
  fetched    \* indexes fetched of each repository, with their times

vars == <<clock, upstream, calling, call, answer, fetched>>

Without(kind) == [kind |-> kind, gen |-> 0, fetchedAt |-> 0, fallback |-> FALSE]

From(index, chart, fallback) ==
  [kind      |-> IF chart \in Listed[index.gen] THEN "version" ELSE "not_found",
   gen       |-> index.gen,
   fetchedAt |-> index.fetchedAt,
   fallback  |-> fallback]

Init ==
  /\ clock = 0
  /\ upstream = [r \in Repos |-> 1]
  /\ calling = {}
  /\ \E r \in Repos, c \in Charts :
       call = [w \in Workers |-> [repo |-> r, chart |-> c, at |-> 0, served |-> 1]]
  /\ answer = [w \in Workers |-> Without("none")]
  /\ fetched = [r \in Repos |-> {}]

(* ResolveLatest is entered; an oci:// URL is turned away at once. *)
Begin(w, repo, chart) ==
  /\ w \notin calling
  /\ call' = [call EXCEPT ![w] = [repo |-> repo, chart |-> chart, at |-> clock,
                                  served |-> upstream[repo]]]
  /\ \/ /\ repo \in UnsupportedRepos
        /\ answer' = [answer EXCEPT ![w] = Without("unsupported")]
        /\ UNCHANGED calling
     \/ /\ repo \notin UnsupportedRepos
        /\ answer' = [answer EXCEPT ![w] = Without("none")]
        /\ calling' = calling \cup {w}
  /\ UNCHANGED <<clock, upstream, fetched>>

End(w, result) ==
  /\ w \in calling
  /\ calling' = calling \ {w}
  /\ answer' = [answer EXCEPT ![w] = result]
  /\ UNCHANGED <<clock, upstream, call>>

(* From an index fetched before: not older than the time to live when the   *)
(* call began, or of any age when a refresh has just failed.               *)
AnswerKept(w) ==
  \E index \in fetched[call[w].repo], fallback \in BOOLEAN :
    /\ ~ fallback => index.fetchedAt + TTL >= call[w].at
    /\ End(w, From(index, call[w].chart, fallback))
    /\ UNCHANGED fetched

(* From an index fetched during the call, which upstream served in it. *)
AnswerFetched(w) ==
  LET repo == call[w].repo IN
  \E gen \in call[w].served..upstream[repo], time \in call[w].at..clock :
    LET index == [gen |-> gen, fetchedAt |-> time] IN
    /\ End(w, From(index, call[w].chart, FALSE))
    /\ fetched' = [fetched EXCEPT ![repo] = @ \cup {index}]

(* An upstream error is answered only while nothing was ever fetched. *)
Fail(w) ==
  /\ fetched[call[w].repo] = {}
  /\ End(w, Without("error"))
  /\ UNCHANGED fetched

Tick ==
  /\ clock' = clock + 1
  /\ UNCHANGED <<upstream, calling, call, answer, fetched>>

PublishIndex(r) ==
  /\ upstream' = [upstream EXCEPT ![r] = @ + 1]
  /\ UNCHANGED <<clock, calling, call, answer, fetched>>

Next ==
  \/ \E w \in Workers :
       \/ \E r \in Repos, c \in Charts : Begin(w, r, c)
       \/ AnswerKept(w) \/ AnswerFetched(w) \/ Fail(w)
  \/ Tick
  \/ \E r \in Repos : PublishIndex(r)

Spec == Init /\ [][Next]_vars

=============================================================================
