------------------------- MODULE RepositoryResolver -------------------------
(***************************************************************************)
(* internal/resolver/repository_resolver.go: the Helm index cache that all *)
(* worker goroutines of catalog.Builder share.                             *)
(*                                                                         *)
(* A call of ResolveLatest runs in several steps.  The resolver's lock is  *)
(* held only inside getFresh, getStale and the two writes of the map, so   *)
(* each of these is one action; everything between them interleaves with   *)
(* the calls of the other workers, with upstream publishing a new index    *)
(* and with time.                                                          *)
(*                                                                         *)
(* An index.yaml is represented by its generation, 1, 2, ...; the charts a *)
(* generation lists with at least one version are Listed[generation], and  *)
(* "the version answered" is the first one of that generation's list.      *)
(***************************************************************************)
EXTENDS Naturals

CONSTANTS
  Workers,          \* goroutines that call ResolveLatest
  Repos,            \* repository URLs, the keys of the cache
  UnsupportedRepos, \* those with the prefix oci://
  InvalidRepos,     \* those indexURLForRepo refuses: no scheme or no host
  Charts,           \* chart names asked for
  Listed,           \* Listed[g]: charts with a version in generation g
  TTL,              \* RepositoryResolver.ttl, in clock units
  MaxGen,           \* bound: generations upstream publishes
  MaxTime           \* bound: the clock stops here

ASSUME ResolverAssumption ==
  /\ UnsupportedRepos \subseteq Repos
  /\ InvalidRepos \subseteq Repos \ UnsupportedRepos
  /\ TTL \in Nat \ {0}
  /\ MaxGen \in Nat \ {0}
  /\ MaxTime \in Nat
  /\ Listed \in [1..MaxGen -> SUBSET Charts]

VARIABLES
  clock,     \* time.Now()
  upstream,  \* generation of index.yaml each repository serves now
  cache,     \* RepositoryResolver.cache
  pc,        \* where each worker stands in ResolveLatest
  call,      \* arguments of each worker's latest call, when it began, and
             \* (history) whether the repository had an entry then and which
             \* generation it served
  held,      \* the entry in the worker's local variable
  answer,    \* what the worker's latest finished call returned
  stored     \* history: entries a successful refresh wrote, per repository

vars == <<clock, upstream, cache, pc, call, held, answer, stored>>

(***************************************************************************)
(* model.RepoCacheEntry.  A lookup of an absent key yields the zero entry; *)
(* its generation is 0, which no real index has.                           *)
(***************************************************************************)
Entry == [gen: 0..MaxGen, fetchedAt: Nat, expiresAt: Nat, lastError: BOOLEAN]

NewEntry(gen, fetched, expires) ==
  [gen |-> gen, fetchedAt |-> fetched, expiresAt |-> expires, lastError |-> FALSE]

NoEntry == NewEntry(0, 0, 0)

Present(e) == e.gen # 0

Mark(e) == [e EXCEPT !.lastError = TRUE]

Unmark(e) == [e EXCEPT !.lastError = FALSE]

Answer == [kind: {"none", "version", "not_found", "unsupported", "error"},
           gen: 0..MaxGen, fetchedAt: Nat, fallback: BOOLEAN]

Failure(kind) == [kind |-> kind, gen |-> 0, fetchedAt |-> 0, fallback |-> FALSE]

(* ResolveLatest after getOrRefresh: the first version, or ErrChartNotFound. *)
Lookup(e, chart, fallback) ==
  [kind      |-> IF chart \in Listed[e.gen] THEN "version" ELSE "not_found",
   gen       |-> e.gen,
   fetchedAt |-> e.fetchedAt,
   fallback  |-> fallback]

TypeOK ==
  /\ clock \in 0..MaxTime
  /\ upstream \in [Repos -> 1..MaxGen]
  /\ cache \in [Repos -> Entry]
  /\ pc \in [Workers -> {"idle", "lookup", "refresh", "received", "stamped",
                         "failed", "stale"}]
  /\ call \in [Workers -> [repo: Repos, chart: Charts, at: Nat, cached: BOOLEAN,
                         served: 1..MaxGen]]
  /\ held \in [Workers -> Entry]
  /\ answer \in [Workers -> Answer]
  /\ stored \in [Repos -> SUBSET Entry]

Init ==
  /\ clock = 0
  /\ upstream = [r \in Repos |-> 1]
  /\ cache = [r \in Repos |-> NoEntry]
  /\ pc = [w \in Workers |-> "idle"]
  /\ \E r \in Repos, c \in Charts :
       call = [w \in Workers |->
                 [repo |-> r, chart |-> c, at |-> 0, cached |-> FALSE,
                  served |-> 1]]
  /\ held = [w \in Workers |-> NoEntry]
  /\ answer = [w \in Workers |-> Failure("none")]
  /\ stored = [r \in Repos |-> {}]

-----------------------------------------------------------------------------
(* Steps of a worker.  A call that returns leaves nothing in its local      *)
(* variables; its arguments and its answer stay for the properties.        *)

Goto(w, label) == pc' = [pc EXCEPT ![w] = label]

Return(w, result) ==
  /\ Goto(w, "idle")
  /\ held' = [held EXCEPT ![w] = NoEntry]
  /\ answer' = [answer EXCEPT ![w] = result]

(* ResolveLatest is entered.  An oci:// URL is turned away at once. *)
Call(w, repo, chart) ==
  /\ pc[w] = "idle"
  /\ call' = [call EXCEPT ![w] = [repo |-> repo, chart |-> chart, at |-> clock,
                                  cached |-> Present(cache[repo]),
                                  served |-> upstream[repo]]]
  /\ \/ /\ repo \in UnsupportedRepos
        /\ Return(w, Failure("unsupported"))
     \/ /\ repo \notin UnsupportedRepos
        /\ Goto(w, "lookup")
        /\ answer' = [answer EXCEPT ![w] = Failure("none")]
        /\ UNCHANGED held
  /\ UNCHANGED <<clock, upstream, cache, stored>>

(* Mutant of Fresh: the expiry is not looked at. *)
FreshForever(e) == Present(e)

Fresh(e) == Present(e) /\ clock <= e.expiresAt

(* getFresh finds an entry that has not expired, and the call returns. *)
Hit(w) ==
  /\ pc[w] = "lookup"
  /\ LET e == cache[call[w].repo]
     IN  /\ Fresh(e)
         /\ Return(w, Lookup(e, call[w].chart, FALSE))
  /\ UNCHANGED <<clock, upstream, cache, call, stored>>

(* getFresh finds nothing usable.  A missing scheme or host fails the      *)
(* refresh before any request is made.                                     *)
Miss(w) ==
  /\ pc[w] = "lookup"
  /\ ~ Fresh(cache[call[w].repo])
  /\ Goto(w, IF call[w].repo \in InvalidRepos THEN "failed" ELSE "refresh")
  /\ UNCHANGED <<clock, upstream, cache, call, held, answer, stored>>

(* Upstream renders its current index and the body is read and parsed. *)
Respond(w) ==
  /\ pc[w] = "refresh"
  /\ held' = [held EXCEPT ![w] = NewEntry(upstream[call[w].repo], 0, 0)]
  /\ Goto(w, "received")
  /\ UNCHANGED <<clock, upstream, cache, call, answer, stored>>

(* Transport error, status other than 200, unreadable or unparsable body,  *)
(* cancelled context.                                                      *)
Refuse(w) ==
  /\ pc[w] = "refresh"
  /\ Goto(w, "failed")
  /\ UNCHANGED <<clock, upstream, cache, call, held, answer, stored>>

(* Mutant of TimeOut: a client without a timeout. *)
TimeOutNever(w) == FALSE

(* No answer: the http.Client gives up after its Timeout. *)
TimeOut(w) ==
  /\ pc[w] = "refresh"
  /\ Goto(w, "failed")
  /\ UNCHANGED <<clock, upstream, cache, call, held, answer, stored>>

(* Mutant of Stamp: the time to live is subtracted. *)
StampBackwards(w) ==
  /\ pc[w] = "received"
  /\ held' = [held EXCEPT ![w] = NewEntry(@.gen, clock, clock - TTL)]
  /\ Goto(w, "stamped")
  /\ UNCHANGED <<clock, upstream, cache, call, answer, stored>>

(* now := time.Now(), taken before the lock is requested. *)
Stamp(w) ==
  /\ pc[w] = "received"
  /\ held' = [held EXCEPT ![w] = NewEntry(@.gen, clock, clock + TTL)]
  /\ Goto(w, "stamped")
  /\ UNCHANGED <<clock, upstream, cache, call, answer, stored>>

(* The refreshed entry is written under the lock, and the call returns. *)
Store(w) ==
  LET r == call[w].repo IN
  /\ pc[w] = "stamped"
  /\ cache' = [cache EXCEPT ![r] = held[w]]
  /\ stored' = [stored EXCEPT ![r] = @ \cup {held[w]}]
  /\ Return(w, Lookup(held[w], call[w].chart, FALSE))
  /\ UNCHANGED <<clock, upstream, call>>

(* The refresh failed and getStale finds an entry, whatever its age. *)
TakeStale(w) ==
  LET e == cache[call[w].repo] IN
  /\ pc[w] = "failed"
  /\ Present(e)
  /\ held' = [held EXCEPT ![w] = Mark(e)]
  /\ Goto(w, "stale")
  /\ UNCHANGED <<clock, upstream, cache, call, answer, stored>>

(* Mutant of GiveUp: an expired entry is not fallen back on. *)
GiveUpOnExpired(w) ==
  /\ pc[w] = "failed"
  /\ ~ Fresh(cache[call[w].repo])
  /\ Return(w, Failure("error"))
  /\ UNCHANGED <<clock, upstream, cache, call, stored>>

(* The refresh failed and there is nothing to fall back on. *)
GiveUp(w) ==
  /\ pc[w] = "failed"
  /\ ~ Present(cache[call[w].repo])
  /\ Return(w, Failure("error"))
  /\ UNCHANGED <<clock, upstream, cache, call, stored>>

(* Mutant of KeepStale: the entry written back gets a new time to live. *)
KeepStaleRenewed(w) ==
  /\ pc[w] = "stale"
  /\ cache' = [cache EXCEPT ![call[w].repo] =
                 [held[w] EXCEPT !.expiresAt = clock + TTL]]
  /\ Return(w, Lookup(held[w], call[w].chart, TRUE))
  /\ UNCHANGED <<clock, upstream, call, stored>>

(* Mutant of KeepStale: what has expired is answered as if it were fresh. *)
KeepStaleAsFresh(w) ==
  /\ pc[w] = "stale"
  /\ cache' = [cache EXCEPT ![call[w].repo] = held[w]]
  /\ Return(w, Lookup(held[w], call[w].chart, FALSE))
  /\ UNCHANGED <<clock, upstream, call, stored>>

(* The stale entry, marked with the error, is written back and answered. *)
KeepStale(w) ==
  /\ pc[w] = "stale"
  /\ cache' = [cache EXCEPT ![call[w].repo] = held[w]]
  /\ Return(w, Lookup(held[w], call[w].chart, TRUE))
  /\ UNCHANGED <<clock, upstream, call, stored>>

-----------------------------------------------------------------------------
(* Environment. *)

Tick ==
  /\ clock < MaxTime
  /\ clock' = clock + 1
  /\ UNCHANGED <<upstream, cache, pc, call, held, answer, stored>>

(* What a repository serves that no refresh can ask does not matter. *)
PublishIndex(r) ==
  /\ r \notin UnsupportedRepos \cup InvalidRepos
  /\ upstream[r] < MaxGen
  /\ upstream' = [upstream EXCEPT ![r] = @ + 1]
  /\ UNCHANGED <<clock, cache, pc, call, held, answer, stored>>

-----------------------------------------------------------------------------
(* What a worker does by itself, given the processor: everything but the   *)
(* start of a call and the behaviour of upstream.                          *)
Local(w) ==
  \/ Hit(w) \/ Miss(w) \/ TimeOut(w) \/ Stamp(w) \/ Store(w)
  \/ TakeStale(w) \/ GiveUp(w) \/ KeepStale(w)

Next ==
  \/ \E w \in Workers :
       \/ \E r \in Repos, c \in Charts : Call(w, r, c)
       \/ Respond(w)
       \/ Refuse(w)
       \/ Local(w)
  \/ Tick
  \/ \E r \in Repos : PublishIndex(r)

(* Goroutines are scheduled, and a request without an answer times out.    *)
(* Nothing is assumed of upstream, of the callers or of the clock.         *)
Fairness == \A w \in Workers : WF_vars(Local(w))

Spec == Init /\ [][Next]_vars /\ Fairness

-----------------------------------------------------------------------------
(* Properties. *)

(* Every entry of the cache, also one that a failed refresh wrote back, is *)
(* what a successful refresh of that very repository stored: same index,   *)
(* same time of fetching, same expiry.  A failure never invents an index,  *)
(* moves one to another repository or renews its time to live.             *)
EntriesWereFetched ==
  \A r \in Repos : Present(cache[r]) => Unmark(cache[r]) \in stored[r]

(* Stale-on-error (getOrRefresh): once a repository has an entry, no call  *)
(* that begins later returns an upstream error, however the calls, the     *)
(* failures and the expiry interleave.                                     *)
StaleOnError ==
  \A w \in Workers :
    pc[w] = "idle" /\ call[w].cached => answer[w].kind # "error"

(* The time to live (getFresh): an answer given without a failed refresh   *)
(* comes from an index fetched at most TTL before the call began.          *)
FreshUnlessUpstreamFailed ==
  \A w \in Workers :
    /\ pc[w] = "idle"
    /\ answer[w].kind \in {"version", "not_found"}
    /\ ~ answer[w].fallback
    => answer[w].fetchedAt + TTL >= call[w].at

(* Every call returns, also against an upstream that never answers. *)
CallsReturn ==
  \A w \in Workers : pc[w] # "idle" ~> pc[w] = "idle"

(* How the state appears to IndexCache. *)
Calling == {w \in Workers : pc[w] # "idle"}

Asked(c) == [repo |-> c.repo, chart |-> c.chart, at |-> c.at, served |-> c.served]

Index(e) == [gen |-> e.gen, fetchedAt |-> e.fetchedAt]

Abstract == INSTANCE IndexCache WITH
  calling <- Calling,
  call    <- [w \in Workers |-> Asked(call[w])],
  fetched <- [r \in Repos |-> {Index(e) : e \in stored[r]}]

(* The calls together are what IndexCache says: atomic answers, each from   *)
(* an index fetched of that repository, within the time to live or after a *)
(* failure, new ones as upstream served them during the call, and errors   *)
(* only before the first fetch.                                            *)
ImplementsIndexCache == Abstract!Spec

=============================================================================
