---------------------- MODULE RepositoryResolverProofs ----------------------
(***************************************************************************)
(* Safety of RepositoryResolver for every number of workers, repositories, *)
(* charts and generations and every time to live.                          *)
(***************************************************************************)
EXTENDS RepositoryResolver, TLAPS

(* The operators that build entries and answers stay within their types. *)
LEMMA NewEntryType ==
  ASSUME NEW g \in 0..MaxGen, NEW f \in Nat, NEW x \in Nat
  PROVE  NewEntry(g, f, x) \in Entry
BY DEF NewEntry, Entry

LEMMA NoEntryType == NoEntry \in Entry
BY ResolverAssumption, NewEntryType DEF NoEntry

LEMMA MarkType ==
  ASSUME NEW e \in Entry
  PROVE  /\ Mark(e) \in Entry
         /\ Mark(e).gen = e.gen
         /\ Mark(e).fetchedAt = e.fetchedAt
         /\ Mark(e).expiresAt = e.expiresAt
BY DEF Entry, Mark

(* Marking an entry and writing it back loses nothing of it. *)
LEMMA UnmarkMark ==
  ASSUME NEW e \in Entry
  PROVE  /\ Unmark(Mark(e)) = Unmark(e)
         /\ ~ e.lastError => Unmark(e) = e
BY DEF Entry, Mark, Unmark

LEMMA FailureType ==
  ASSUME NEW kind \in {"none", "unsupported", "error"}
  PROVE  Failure(kind) \in Answer
BY ResolverAssumption DEF Failure, Answer

LEMMA LookupType ==
  ASSUME NEW e \in Entry, NEW chart, NEW fallback \in BOOLEAN
  PROVE  /\ Lookup(e, chart, fallback) \in Answer
         /\ Lookup(e, chart, fallback).kind \in {"version", "not_found"}
         /\ Lookup(e, chart, fallback).fetchedAt = e.fetchedAt
         /\ Lookup(e, chart, fallback).fallback = fallback
<1>1. e.gen \in 0..MaxGen /\ e.fetchedAt \in Nat
  BY DEF Entry
<1>2. (IF chart \in Listed[e.gen] THEN "version" ELSE "not_found")
         \in {"version", "not_found"}
  OBVIOUS
<1> QED BY <1>1, <1>2 DEF Lookup, Answer

-----------------------------------------------------------------------------
(* Type correctness. *)

LEMMA TypeInit == Init => TypeOK
BY ResolverAssumption, NoEntryType, FailureType DEF Init, TypeOK

LEMMA TypeStep == TypeOK /\ [Next]_vars => TypeOK'
<1> SUFFICES ASSUME TypeOK, [Next]_vars PROVE TypeOK'
  OBVIOUS
<1> USE ResolverAssumption DEF TypeOK
<1>1. ASSUME NEW w \in Workers, NEW r \in Repos, NEW c \in Charts, Call(w, r, c)
      PROVE  TypeOK'
  <2> DEFINE args == [repo |-> r, chart |-> c, at |-> clock,
                      cached |-> Present(cache[r]), served |-> upstream[r]]
  <2>1. args \in [repo: Repos, chart: Charts, at: Nat, cached: BOOLEAN,
                 served: 1..MaxGen]
    BY DEF Present
  <2>2. call' = [call EXCEPT ![w] = args]
    BY <1>1 DEF Call
  <2>3. call' \in [Workers -> [repo: Repos, chart: Charts, at: Nat, cached: BOOLEAN,
                               served: 1..MaxGen]]
    <3> HIDE DEF args
    <3> QED BY <2>1, <2>2
  <2>4. pc' \in [Workers -> {"idle", "lookup", "refresh", "received", "stamped",
                             "failed", "stale"}]
    BY <1>1 DEF Call, Return, Goto
  <2>5. held' \in [Workers -> Entry]
    BY <1>1, NoEntryType DEF Call, Return
  <2>6. answer' \in [Workers -> Answer]
    BY <1>1, FailureType DEF Call, Return
  <2> QED BY <1>1, <2>3, <2>4, <2>5, <2>6 DEF Call
<1>2. ASSUME NEW w \in Workers, Hit(w) PROVE TypeOK'
  BY <1>2, NoEntryType, LookupType DEF Hit, Return, Goto
<1>3. ASSUME NEW w \in Workers, Miss(w) PROVE TypeOK'
  BY <1>3 DEF Miss, Goto
<1>4. ASSUME NEW w \in Workers, Respond(w) PROVE TypeOK'
  <2>1. NewEntry(upstream[call[w].repo], 0, 0) \in Entry
    BY NewEntryType
  <2> QED BY <1>4, <2>1 DEF Respond, Goto
<1>5. ASSUME NEW w \in Workers, Refuse(w) \/ TimeOut(w) PROVE TypeOK'
  BY <1>5 DEF Refuse, TimeOut, Goto
<1>6. ASSUME NEW w \in Workers, Stamp(w) PROVE TypeOK'
  <2>1. held[w].gen \in 0..MaxGen
    BY DEF Entry
  <2>2. NewEntry(held[w].gen, clock, clock + TTL) \in Entry
    BY <2>1, NewEntryType
  <2> QED BY <1>6, <2>2 DEF Stamp, Goto
<1>7. ASSUME NEW w \in Workers, Store(w) PROVE TypeOK'
  <2>1. held[w] \in Entry /\ call[w].repo \in Repos
    OBVIOUS
  <2>2. Lookup(held[w], call[w].chart, FALSE) \in Answer
    BY <2>1, LookupType
  <2>3. /\ cache' \in [Repos -> Entry]
        /\ stored' \in [Repos -> SUBSET Entry]
    BY <1>7, <2>1 DEF Store
  <2> QED BY <1>7, <2>2, <2>3, NoEntryType DEF Store, Return, Goto
<1>8. ASSUME NEW w \in Workers, TakeStale(w) PROVE TypeOK'
  <2>1. Mark(cache[call[w].repo]) \in Entry
    BY MarkType
  <2> QED BY <1>8, <2>1 DEF TakeStale, Goto
<1>9. ASSUME NEW w \in Workers, GiveUp(w) PROVE TypeOK'
  BY <1>9, NoEntryType, FailureType DEF GiveUp, Return, Goto
<1>10. ASSUME NEW w \in Workers, KeepStale(w) PROVE TypeOK'
  <2>1. held[w] \in Entry /\ call[w].repo \in Repos
    OBVIOUS
  <2>2. Lookup(held[w], call[w].chart, TRUE) \in Answer
    BY <2>1, LookupType
  <2> QED BY <1>10, <2>1, <2>2, NoEntryType DEF KeepStale, Return, Goto
<1>11. CASE Tick
  BY <1>11 DEF Tick
<1>12. ASSUME NEW r \in Repos, PublishIndex(r) PROVE TypeOK'
  <2>1. upstream[r] + 1 \in 1..MaxGen
    BY <1>12 DEF PublishIndex
  <2> QED BY <1>12, <2>1 DEF PublishIndex
<1>13. CASE UNCHANGED vars
  BY <1>13 DEF vars
<1> QED
  BY <1>1, <1>2, <1>3, <1>4, <1>5, <1>6, <1>7, <1>8, <1>9, <1>10, <1>11, <1>12,
     <1>13
  DEF Next, Local

(* Every variable of the resolver keeps its type, whatever the calls do.    *)
THEOREM TypeCorrect == Spec => []TypeOK
<1>1. Init => TypeOK
  BY TypeInit
<1>2. TypeOK /\ [Next]_vars => TypeOK'
  BY TypeStep
<1> QED BY <1>1, <1>2, PTL DEF Spec

-----------------------------------------------------------------------------
(***************************************************************************)
(* Safety.  The three invariants speak of the cache and of answers already *)
(* given; none is inductive, because what a worker is about to write or to *)
(* answer sits in its local variables.  Inv adds what those must be.       *)
(***************************************************************************)

(* An entry as one of the refreshes S wrote it, perhaps marked since. *)
Genuine(S, e) ==
  /\ Present(e)
  /\ e.expiresAt = e.fetchedAt + TTL
  /\ Unmark(e) \in S

(* The cache has an entry of exactly the repositories that were fetched. *)
CacheInv ==
  \A r \in Repos : /\ Present(cache[r]) => Genuine(stored[r], cache[r])
                   /\ stored[r] # {} => Present(cache[r])

(* A call in progress began in the past; once it began with an entry, one   *)
(* stays; what the worker holds was received, stamped or read; and an       *)
(* answer is as StaleOnError and FreshUnlessUpstreamFailed demand.         *)
WorkerInv(w) ==
  /\ call[w].at <= clock
  /\ call[w].served <= upstream[call[w].repo]
  /\ pc[w] \in {"received", "stamped"} =>
       held[w].gen \in call[w].served..upstream[call[w].repo]
  /\ call[w].cached => Present(cache[call[w].repo])
  /\ pc[w] \in {"received", "stamped"} => Present(held[w])
  /\ pc[w] = "stamped" =>
       /\ held[w].expiresAt = held[w].fetchedAt + TTL
       /\ held[w].fetchedAt \in call[w].at..clock
       /\ ~ held[w].lastError
  /\ pc[w] = "stale" => Genuine(stored[call[w].repo], held[w])
  /\ pc[w] = "idle" /\ call[w].cached => answer[w].kind # "error"
  /\ (/\ pc[w] = "idle"
      /\ answer[w].kind \in {"version", "not_found"}
      /\ ~ answer[w].fallback)
       => answer[w].fetchedAt + TTL >= call[w].at

Inv == TypeOK /\ CacheInv /\ \A w \in Workers : WorkerInv(w)

LEMMA InvInit == Init => Inv
<1> SUFFICES ASSUME Init PROVE Inv
  OBVIOUS
<1>1. TypeOK
  BY TypeInit
<1>2. CacheInv
  BY DEF Init, CacheInv, Present, NoEntry, NewEntry
<1>3. ASSUME NEW w \in Workers PROVE WorkerInv(w)
  BY <1>1 DEF Init, WorkerInv, Failure, TypeOK
<1> QED BY <1>1, <1>2, <1>3 DEF Inv

(* What a step of one worker does to the others: nothing.                   *)
SameWorker(v) ==
  pc'[v] = pc[v] /\ call'[v] = call[v] /\ held'[v] = held[v] /\ answer'[v] = answer[v]

(* No entry is taken away, no refresh forgotten, and neither time nor       *)
(* upstream goes back.                                                     *)
Monotone ==
  /\ clock' >= clock
  /\ \A r \in Repos : /\ upstream'[r] >= upstream[r]
                      /\ Present(cache[r]) => Present(cache'[r])
                      /\ stored[r] \subseteq stored'[r]

(* A worker that a monotone step leaves alone keeps its invariant. *)
LEMMA Bystander ==
  ASSUME TypeOK, TypeOK', NEW v \in Workers, WorkerInv(v), SameWorker(v), Monotone
  PROVE  WorkerInv(v)'
<1>1. call[v].repo \in Repos /\ call[v].at \in Nat /\ clock \in Nat /\ clock' \in Nat
  BY DEF TypeOK
<1>2. Genuine(stored[call[v].repo], held[v]) => Genuine(stored'[call[v].repo], held[v])
  BY <1>1 DEF Genuine, Monotone
<1>3. /\ Present(cache[call[v].repo]) => Present(cache'[call[v].repo])
      /\ call[v].at <= clock => call[v].at <= clock'
  BY <1>1 DEF Monotone
<1>4. PICK old, new \in 1..MaxGen :
        old = upstream[call[v].repo] /\ new = upstream'[call[v].repo]
  BY <1>1 DEF TypeOK
<1>5. old <= new /\ MaxGen \in Nat
  BY <1>1, <1>4, ResolverAssumption DEF Monotone
<1>6. held[v].gen \in 0..MaxGen /\ held[v].fetchedAt \in Nat /\ call[v].served \in 1..MaxGen
  BY DEF TypeOK, Entry
<1>7. /\ call[v].served <= old => call[v].served <= new
      /\ held[v].gen \in call[v].served..old => held[v].gen \in call[v].served..new
  BY <1>5, <1>6
<1>8. held[v].fetchedAt \in call[v].at..clock => held[v].fetchedAt \in call[v].at..clock'
  BY <1>1, <1>6 DEF Monotone
<1> QED BY <1>1, <1>2, <1>3, <1>4, <1>7, <1>8 DEF WorkerInv, SameWorker

(* So a step of worker w is correct when it is correct for w. *)
LEMMA OneWorker ==
  ASSUME Inv, TypeOK', CacheInv', Monotone, NEW w \in Workers, WorkerInv(w)',
         \A v \in Workers \ {w} : SameWorker(v)
  PROVE  Inv'
<1>1. ASSUME NEW v \in Workers PROVE WorkerInv(v)'
  BY Bystander DEF Inv
<1> QED BY <1>1 DEF Inv

(* A step that leaves the cache, its history and the environment alone. *)
LEMMA CacheUntouched ==
  ASSUME Inv, UNCHANGED <<clock, upstream, cache, stored>>
  PROVE  CacheInv' /\ Monotone
<1>1. clock \in Nat /\ \A r \in Repos : upstream[r] \in Nat
  BY ResolverAssumption DEF Inv, TypeOK
<1> QED BY <1>1 DEF Inv, CacheInv, Monotone

(* A write of one genuine entry, with the history it may add to, keeps the  *)
(* cache genuine and takes no entry away.                                  *)
LEMMA CacheWrite ==
  ASSUME Inv, NEW r \in Repos, NEW e,
         cache' = [cache EXCEPT ![r] = e],
         UNCHANGED <<clock, upstream>>,
         \A s \in Repos : stored[s] \subseteq stored'[s],
         \A s \in Repos \ {r} : stored'[s] = stored[s],
         Genuine(stored'[r], e)
  PROVE  CacheInv' /\ Monotone
<1>1. \A s \in Repos : cache'[s] = IF s = r THEN e ELSE cache[s]
  BY DEF Inv, TypeOK
<1>2. ASSUME NEW s \in Repos, Genuine(stored[s], cache[s])
      PROVE  Genuine(stored'[s], cache[s])
  BY <1>2 DEF Genuine
<1>3. ASSUME NEW s \in Repos
      PROVE  /\ Present(cache'[s]) => Genuine(stored'[s], cache'[s])
             /\ stored'[s] # {} => Present(cache'[s])
  BY <1>1, <1>2 DEF Inv, CacheInv, Genuine
<1>4. ASSUME NEW s \in Repos, Present(cache[s]) PROVE Present(cache'[s])
  BY <1>1, <1>4 DEF Genuine
<1>5. clock' >= clock /\ \A s \in Repos : upstream'[s] >= upstream[s]
  BY DEF Inv, TypeOK
<1> QED BY <1>3, <1>4, <1>5 DEF CacheInv, Monotone

(* An answer from a genuine entry is one that WorkerInv allows, if the      *)
(* entry is young enough or the answer is a fallback.                      *)
LEMMA Answered ==
  ASSUME TypeOK, NEW w \in Workers, WorkerInv(w), Monotone,
         NEW e \in Entry, NEW fallback \in BOOLEAN,
         fallback \/ e.fetchedAt + TTL >= call[w].at,
         UNCHANGED <<clock, upstream, call>>,
         Return(w, Lookup(e, call[w].chart, fallback))
  PROVE  WorkerInv(w)'
<1>1. call[w].repo \in Repos /\ pc'[w] = "idle"
  BY DEF TypeOK, Return, Goto
<1>2. answer'[w] = Lookup(e, call[w].chart, fallback)
  BY DEF TypeOK, Return
<1>3. Present(cache[call[w].repo]) => Present(cache'[call[w].repo])
  BY <1>1 DEF Monotone
<1>4. /\ answer'[w].kind # "error"
      /\ answer'[w].fallback = fallback /\ answer'[w].fetchedAt = e.fetchedAt
  BY <1>2, LookupType
<1> QED BY <1>1, <1>3, <1>4 DEF WorkerInv

LEMMA InvStep == Inv /\ [Next]_vars => Inv'
<1> SUFFICES ASSUME Inv, [Next]_vars PROVE Inv'
  OBVIOUS
<1>1. TypeOK /\ CacheInv /\ \A w \in Workers : WorkerInv(w)
  BY DEF Inv
<1>2. TypeOK'
  BY <1>1, TypeStep
<1> USE ResolverAssumption
<1>3. ASSUME NEW w \in Workers, NEW r \in Repos, NEW c \in Charts, Call(w, r, c)
      PROVE  Inv'
  <2>1. CacheInv' /\ Monotone
    BY <1>3, CacheUntouched DEF Call
  <2>2. /\ call'[w].at = clock
        /\ call'[w].repo = r
        /\ call'[w].cached = Present(cache[r])
        /\ pc'[w] \in {"idle", "lookup"}
        /\ answer'[w].kind \in {"none", "unsupported"}
        /\ call'[w].served = upstream[r] /\ upstream[r] \in Nat
        /\ UNCHANGED <<clock, upstream, cache>> /\ clock \in Nat
    BY <1>1, <1>3 DEF Call, Return, Goto, Failure, TypeOK
  <2>3. WorkerInv(w)'
    BY <2>2 DEF WorkerInv
  <2>4. \A v \in Workers \ {w} : SameWorker(v)
    BY <1>1, <1>3 DEF Call, Return, Goto, TypeOK, SameWorker
  <2> QED BY <1>2, <2>1, <2>3, <2>4, OneWorker
<1>4. ASSUME NEW w \in Workers, Hit(w) PROVE Inv'
  <2>1. CacheInv' /\ Monotone
    BY <1>4, CacheUntouched DEF Hit
  <2>2. PICK e \in Entry : e = cache[call[w].repo]
    BY <1>1 DEF TypeOK
  <2>3. /\ Genuine(stored[call[w].repo], e)
        /\ clock <= e.expiresAt
        /\ Return(w, Lookup(e, call[w].chart, FALSE))
    <3>1. call[w].repo \in Repos
      BY <1>1 DEF TypeOK
    <3>2. /\ Present(e) /\ clock <= e.expiresAt
          /\ Return(w, Lookup(e, call[w].chart, FALSE))
      BY <1>4, <2>2 DEF Hit, Fresh
    <3> QED BY <1>1, <2>2, <3>1, <3>2 DEF CacheInv
  <2>4. e.fetchedAt + TTL >= call[w].at
    BY <1>1, <2>3 DEF WorkerInv, TypeOK, Genuine, Entry
  <2>5. WorkerInv(w)'
    BY <1>1, <1>4, <2>1, <2>3, <2>4, Answered DEF Hit
  <2>6. \A v \in Workers \ {w} : SameWorker(v)
    BY <1>1, <1>4, <2>3 DEF Hit, Return, Goto, TypeOK, SameWorker
  <2> QED BY <1>2, <2>1, <2>5, <2>6, OneWorker
<1>5. ASSUME NEW w \in Workers, Miss(w) \/ Refuse(w) \/ TimeOut(w) PROVE Inv'
  <2>1. CacheInv' /\ Monotone
    BY <1>5, CacheUntouched DEF Miss, Refuse, TimeOut
  <2>2. /\ pc'[w] \in {"failed", "refresh"}
        /\ UNCHANGED <<clock, upstream, cache, call>>
    BY <1>1, <1>5 DEF Miss, Refuse, TimeOut, Goto, TypeOK
  <2>3. WorkerInv(w)'
    BY <1>1, <2>2 DEF WorkerInv
  <2>4. \A v \in Workers \ {w} : SameWorker(v)
    BY <1>1, <1>5 DEF Miss, Refuse, TimeOut, Goto, TypeOK, SameWorker
  <2> QED BY <1>2, <2>1, <2>3, <2>4, OneWorker
<1>6. ASSUME NEW w \in Workers, Respond(w) PROVE Inv'
  <2>1. CacheInv' /\ Monotone
    BY <1>6, CacheUntouched DEF Respond
  <2>2. PICK r \in Repos : r = call[w].repo
    BY <1>1 DEF TypeOK
  <2>3. /\ held'[w].gen = upstream[r]
        /\ upstream[r] \in 1..MaxGen /\ call[w].served \in 1..MaxGen
    BY <1>1, <1>6, <2>2 DEF Respond, NewEntry, TypeOK
  <2>4. /\ Present(held'[w])
        /\ held'[w].gen \in call[w].served..upstream[r]
    BY <1>1, <2>2, <2>3 DEF WorkerInv, Present
  <2>5. pc'[w] = "received" /\ UNCHANGED <<clock, upstream, cache, call>>
    BY <1>1, <1>6 DEF Respond, Goto, TypeOK
  <2>6. WorkerInv(w)'
    BY <1>1, <2>2, <2>4, <2>5 DEF WorkerInv
  <2>7. \A v \in Workers \ {w} : SameWorker(v)
    BY <1>1, <1>6 DEF Respond, Goto, TypeOK, SameWorker
  <2> QED BY <1>2, <2>1, <2>6, <2>7, OneWorker
<1>7. ASSUME NEW w \in Workers, Stamp(w) PROVE Inv'
  <2>1. CacheInv' /\ Monotone
    BY <1>7, CacheUntouched DEF Stamp
  <2>2. held'[w] = NewEntry(held[w].gen, clock, clock + TTL)
    BY <1>1, <1>7 DEF Stamp, TypeOK
  <2>3. /\ Present(held[w]) /\ call[w].at <= clock
        /\ held[w].gen \in call[w].served..upstream[call[w].repo]
    BY <1>1, <1>7 DEF Stamp, WorkerInv
  <2>4. /\ Present(held'[w]) /\ ~ held'[w].lastError
        /\ held'[w].gen = held[w].gen /\ held'[w].fetchedAt = clock
        /\ held'[w].expiresAt = held'[w].fetchedAt + TTL
    BY <2>2, <2>3 DEF Present, NewEntry
  <2>5. pc'[w] = "stamped" /\ UNCHANGED <<clock, upstream, cache, call>>
    BY <1>1, <1>7 DEF Stamp, Goto, TypeOK
  <2>6. clock \in call[w].at..clock
    BY <1>1, <2>3 DEF TypeOK
  <2>7. WorkerInv(w)'
    <3>1. WorkerInv(w)
      BY <1>1
    <3> QED BY <2>3, <2>4, <2>5, <2>6, <3>1 DEF WorkerInv
  <2>8. \A v \in Workers \ {w} : SameWorker(v)
    BY <1>1, <1>7 DEF Stamp, Goto, TypeOK, SameWorker
  <2> QED BY <1>2, <2>1, <2>7, <2>8, OneWorker
<1>8. ASSUME NEW w \in Workers, Store(w) PROVE Inv'
  <2>1. PICK r \in Repos, e \in Entry : r = call[w].repo /\ e = held[w]
    BY <1>1 DEF TypeOK
  <2>2. /\ Present(e) /\ ~ e.lastError
        /\ e.expiresAt = e.fetchedAt + TTL
        /\ e.fetchedAt >= call[w].at
    BY <1>1, <1>8, <2>1 DEF Store, WorkerInv, Entry, TypeOK
  <2>3. /\ cache' = [cache EXCEPT ![r] = e]
        /\ stored' = [stored EXCEPT ![r] = @ \cup {e}]
        /\ Return(w, Lookup(e, call[w].chart, FALSE))
        /\ UNCHANGED <<clock, upstream, call>>
    BY <1>8, <2>1 DEF Store
  <2>4. /\ e \in stored'[r]
        /\ \A s \in Repos : stored[s] \subseteq stored'[s]
        /\ \A s \in Repos \ {r} : stored'[s] = stored[s]
    BY <1>1, <2>3 DEF TypeOK
  <2>5. Genuine(stored'[r], e)
    BY <2>2, <2>4, UnmarkMark DEF Genuine
  <2>6. CacheInv' /\ Monotone
    BY <2>3, <2>4, <2>5, CacheWrite
  <2>7. e.fetchedAt + TTL >= call[w].at
    <3>1. e.fetchedAt \in Nat /\ call[w].at \in Nat
      BY <1>1 DEF Entry, TypeOK
    <3> QED BY <2>2, <3>1
  <2>8. WorkerInv(w)'
    BY <1>1, <2>3, <2>6, <2>7, Answered
  <2>9. \A v \in Workers \ {w} : SameWorker(v)
    BY <1>1, <2>3 DEF Return, Goto, TypeOK, SameWorker
  <2> QED BY <1>2, <2>6, <2>8, <2>9, OneWorker
<1>9. ASSUME NEW w \in Workers, TakeStale(w) PROVE Inv'
  <2>1. CacheInv' /\ Monotone
    BY <1>9, CacheUntouched DEF TakeStale
  <2>2. PICK r \in Repos, e \in Entry : r = call[w].repo /\ e = cache[r]
    BY <1>1 DEF TypeOK
  <2>3. Genuine(stored[r], e) /\ held'[w] = Mark(e)
    BY <1>1, <1>9, <2>2 DEF TakeStale, CacheInv, TypeOK
  <2>4. Genuine(stored[r], Mark(e))
    BY <2>3, MarkType, UnmarkMark DEF Genuine, Present
  <2>5. pc'[w] = "stale" /\ UNCHANGED <<clock, upstream, cache, call, stored>>
    BY <1>1, <1>9 DEF TakeStale, Goto, TypeOK
  <2>6. WorkerInv(w)'
    BY <1>1, <2>2, <2>3, <2>4, <2>5 DEF WorkerInv
  <2>7. \A v \in Workers \ {w} : SameWorker(v)
    BY <1>1, <1>9 DEF TakeStale, Goto, TypeOK, SameWorker
  <2> QED BY <1>2, <2>1, <2>6, <2>7, OneWorker
<1>10. ASSUME NEW w \in Workers, GiveUp(w) PROVE Inv'
  <2>1. CacheInv' /\ Monotone
    BY <1>10, CacheUntouched DEF GiveUp
  <2>2. ~ call[w].cached
    BY <1>1, <1>10 DEF GiveUp, WorkerInv
  <2>3. /\ pc'[w] = "idle" /\ answer'[w].kind = "error"
        /\ UNCHANGED <<clock, upstream, cache, call>>
    BY <1>1, <1>10 DEF GiveUp, Return, Goto, Failure, TypeOK
  <2>4. WorkerInv(w)'
    BY <1>1, <2>2, <2>3 DEF WorkerInv
  <2>5. \A v \in Workers \ {w} : SameWorker(v)
    BY <1>1, <1>10 DEF GiveUp, Return, Goto, TypeOK, SameWorker
  <2> QED BY <1>2, <2>1, <2>4, <2>5, OneWorker
<1>11. ASSUME NEW w \in Workers, KeepStale(w) PROVE Inv'
  <2>1. PICK r \in Repos, e \in Entry : r = call[w].repo /\ e = held[w]
    BY <1>1 DEF TypeOK
  <2>2. Genuine(stored[r], e)
    BY <1>1, <1>11, <2>1 DEF KeepStale, WorkerInv
  <2>3. /\ cache' = [cache EXCEPT ![r] = e]
        /\ Return(w, Lookup(e, call[w].chart, TRUE))
        /\ UNCHANGED <<clock, upstream, call, stored>>
    BY <1>11, <2>1 DEF KeepStale
  <2>4. CacheInv' /\ Monotone
    BY <2>2, <2>3, CacheWrite
  <2>5. WorkerInv(w)'
    BY <1>1, <2>3, <2>4, Answered
  <2>6. \A v \in Workers \ {w} : SameWorker(v)
    BY <1>1, <2>3 DEF Return, Goto, TypeOK, SameWorker
  <2> QED BY <1>2, <2>4, <2>5, <2>6, OneWorker
<1>12. CASE \/ Tick \/ (\E r \in Repos : PublishIndex(r)) \/ UNCHANGED vars
  <2>1. /\ UNCHANGED <<cache, pc, call, held, answer, stored>>
        /\ clock' >= clock /\ \A r \in Repos : upstream'[r] >= upstream[r]
    <3>1. clock \in Nat /\ upstream \in [Repos -> 1..MaxGen]
      BY <1>1 DEF TypeOK
    <3>2. CASE Tick \/ UNCHANGED vars
      BY <3>1, <3>2 DEF Tick, vars
    <3>3. ASSUME NEW r \in Repos, PublishIndex(r)
          PROVE  \A s \in Repos : upstream'[s] >= upstream[s]
      BY <3>1, <3>3 DEF PublishIndex
    <3> QED BY <1>12, <3>1, <3>2, <3>3 DEF PublishIndex
  <2>2. CacheInv' /\ Monotone
    BY <1>1, <2>1 DEF CacheInv, Monotone
  <2>3. ASSUME NEW v \in Workers PROVE WorkerInv(v)'
    BY <1>1, <1>2, <2>1, <2>2, Bystander DEF SameWorker
  <2> QED BY <1>2, <2>2, <2>3 DEF Inv
<1> QED
  BY <1>3, <1>4, <1>5, <1>6, <1>7, <1>8, <1>9, <1>10, <1>11, <1>12
  DEF Next, Local

LEMMA InvCorrect == Spec => []Inv
<1>1. Init => Inv
  BY InvInit
<1>2. Inv /\ [Next]_vars => Inv'
  BY InvStep
<1> QED BY <1>1, <1>2, PTL DEF Spec

(* getOrRefresh, RefreshRepoIndex: whatever the cache holds for a           *)
(* repository was fetched from it, at the time and with the expiry that the *)
(* refresh gave it; writing back a stale entry renews nothing.             *)
THEOREM CacheHoldsOnlyFetched == Spec => []EntriesWereFetched
<1>1. Inv => EntriesWereFetched
  BY DEF Inv, CacheInv, Genuine, EntriesWereFetched
<1> QED BY <1>1, InvCorrect, PTL

(* getOrRefresh: a call that begins when its repository has an entry does   *)
(* not return the upstream's error.                                        *)
THEOREM StaleBeatsError == Spec => []StaleOnError
<1>1. Inv => StaleOnError
  BY DEF Inv, WorkerInv, StaleOnError
<1> QED BY <1>1, InvCorrect, PTL

(* getFresh: unless a refresh failed, an answer is at most the time to live *)
(* older than the call.                                                    *)
THEOREM AnswersAreFresh == Spec => []FreshUnlessUpstreamFailed
<1>1. Inv => FreshUnlessUpstreamFailed
  BY DEF Inv, WorkerInv, FreshUnlessUpstreamFailed
<1> QED BY <1>1, InvCorrect, PTL

-----------------------------------------------------------------------------
(* RepositoryResolver implements IndexCache for every value of the          *)
(* constants: each step of a worker is a step of the abstract cache or      *)
(* changes nothing that its callers can see.                                *)

Fetched == [r \in Repos |-> {Index(e) : e \in stored[r]}]

Calls == [w \in Workers |-> Asked(call[w])]

(* The answers of both levels are the same records. *)
LEMMA SameAnswers ==
  /\ \A kind : Abstract!Without(kind) = Failure(kind)
  /\ \A e, chart, fallback :
       Abstract!From(Index(e), chart, fallback) = Lookup(e, chart, fallback)
BY DEF Abstract!Without, Failure, Abstract!From, Index, Lookup

(* The index of a genuine entry is one that was fetched. *)
LEMMA GenuineIsFetched ==
  ASSUME NEW r \in Repos, NEW e \in Entry, Genuine(stored[r], e)
  PROVE  Index(e) \in Fetched[r]
<1>1. Unmark(e) \in stored[r] /\ Index(Unmark(e)) = Index(e)
  BY DEF Genuine, Unmark, Index, Entry
<1> QED BY <1>1 DEF Fetched

(* A step inside a call, which its caller does not see. *)
LEMMA Inside ==
  ASSUME TypeOK, NEW w \in Workers, NEW label,
         pc[w] # "idle", label # "idle", Goto(w, label),
         UNCHANGED <<clock, upstream, call, answer, stored>>
  PROVE  UNCHANGED Abstract!vars
<1>1. Calling' = Calling
  BY DEF Calling, Goto, TypeOK
<1> QED BY <1>1 DEF Abstract!vars

(* The step that returns from a call ends it. *)
LEMMA Outside ==
  ASSUME TypeOK, NEW w \in Workers, NEW result,
         pc[w] # "idle", Return(w, result), UNCHANGED <<clock, upstream, call>>
  PROVE  Abstract!End(w, result)
<1>1. w \in Calling /\ Calling' = Calling \ {w}
  BY DEF Calling, Return, Goto, TypeOK
<1> QED BY <1>1 DEF Abstract!End, Return

LEMMA InitRefines == Init => Abstract!Init
<1> SUFFICES ASSUME Init PROVE Abstract!Init
  OBVIOUS
<1>1. Calling = {} /\ Fetched = [r \in Repos |-> {}]
  BY DEF Init, Calling, Fetched
<1>2. PICK r \in Repos, c \in Charts :
        call = [w \in Workers |-> [repo |-> r, chart |-> c, at |-> 0,
                                   cached |-> FALSE, served |-> 1]]
  BY DEF Init
<1>3. Calls = [w \in Workers |-> [repo |-> r, chart |-> c, at |-> 0, served |-> 1]]
  BY <1>2 DEF Calls, Asked
<1> QED BY <1>1, <1>3, SameAnswers DEF Init, Abstract!Init, Calls, Fetched

LEMMA StepRefines == Inv /\ [Next]_vars => [Abstract!Next]_(Abstract!vars)
<1> SUFFICES ASSUME Inv, [Next]_vars
             PROVE  Abstract!Next \/ UNCHANGED Abstract!vars
  OBVIOUS
<1>1. TypeOK /\ CacheInv /\ \A w \in Workers : WorkerInv(w)
  BY DEF Inv
<1> USE ResolverAssumption
<1>2. ASSUME NEW w \in Workers, NEW r \in Repos, NEW c \in Charts, Call(w, r, c)
      PROVE  Abstract!Begin(w, r, c)
  <2> DEFINE args == [repo |-> r, chart |-> c, at |-> clock, served |-> upstream[r]]
  <2>1. Calls' = [Calls EXCEPT ![w] = args]
    <3>1. \A v \in Workers : Asked(call'[v]) = IF v = w THEN args ELSE Asked(call[v])
      BY <1>1, <1>2 DEF Call, Asked, TypeOK
    <3> QED BY <3>1 DEF Calls
  <2>2. w \notin Calling
    BY <1>2 DEF Call, Calling
  <2>3. CASE r \in UnsupportedRepos
    <3>1. Calling' = Calling
      BY <1>1, <1>2, <2>3 DEF Call, Return, Goto, Calling, TypeOK
    <3> QED
      BY <1>2, <2>1, <2>2, <2>3, <3>1, SameAnswers
      DEF Call, Return, Abstract!Begin, Calls
  <2>4. CASE r \notin UnsupportedRepos
    <3>1. Calling' = Calling \cup {w}
      BY <1>1, <1>2, <2>4 DEF Call, Goto, Calling, TypeOK
    <3> QED
      BY <1>2, <2>1, <2>2, <2>4, <3>1, SameAnswers DEF Call, Abstract!Begin, Calls
  <2> QED BY <2>3, <2>4
<1>3. ASSUME NEW w \in Workers,
             Miss(w) \/ Respond(w) \/ Refuse(w) \/ TimeOut(w) \/ Stamp(w) \/ TakeStale(w)
      PROVE  UNCHANGED Abstract!vars
  BY <1>1, <1>3, Inside DEF Miss, Respond, Refuse, TimeOut, Stamp, TakeStale
<1>4. ASSUME NEW w \in Workers, NEW e \in Entry, NEW fallback \in BOOLEAN,
             pc[w] # "idle", Genuine(stored[call[w].repo], e),
             fallback \/ e.fetchedAt + TTL >= call[w].at,
             Return(w, Lookup(e, call[w].chart, fallback)),
             UNCHANGED <<clock, upstream, call, stored>>
      PROVE  Abstract!AnswerKept(w)
  <2>1. call[w].repo \in Repos
    BY <1>1 DEF TypeOK
  <2>2. Index(e) \in Fetched[call[w].repo] /\ Index(e).fetchedAt = e.fetchedAt
    BY <1>4, <2>1, GenuineIsFetched DEF Index
  <2>3. Abstract!End(w, Abstract!From(Index(e), call[w].chart, fallback))
    BY <1>1, <1>4, Outside, SameAnswers
  <2>4. /\ Calls[w].repo = call[w].repo /\ Calls[w].chart = call[w].chart
        /\ Calls[w].at = call[w].at
    BY DEF Calls, Asked
  <2> QED BY <1>4, <2>2, <2>3, <2>4 DEF Abstract!AnswerKept, Calls, Fetched
<1>5. ASSUME NEW w \in Workers, Hit(w) PROVE Abstract!AnswerKept(w)
  <2>1. PICK e \in Entry : e = cache[call[w].repo]
    BY <1>1 DEF TypeOK
  <2>2. /\ Genuine(stored[call[w].repo], e)
        /\ clock <= e.expiresAt
        /\ Return(w, Lookup(e, call[w].chart, FALSE))
    <3>1. call[w].repo \in Repos
      BY <1>1 DEF TypeOK
    <3>2. /\ Present(e) /\ clock <= e.expiresAt
          /\ Return(w, Lookup(e, call[w].chart, FALSE))
      BY <1>5, <2>1 DEF Hit, Fresh
    <3> QED BY <1>1, <2>1, <3>1, <3>2 DEF CacheInv
  <2>3. e.fetchedAt + TTL >= call[w].at
    BY <1>1, <2>2 DEF WorkerInv, TypeOK, Genuine, Entry
  <2> QED BY <1>4, <1>5, <2>2, <2>3 DEF Hit
<1>6. ASSUME NEW w \in Workers, KeepStale(w) PROVE Abstract!AnswerKept(w)
  <2>1. PICK e \in Entry : e = held[w]
    BY <1>1 DEF TypeOK
  <2>2. Genuine(stored[call[w].repo], e)
    BY <1>1, <1>6, <2>1 DEF KeepStale, WorkerInv
  <2> QED BY <1>4, <1>6, <2>1, <2>2 DEF KeepStale
<1>7. ASSUME NEW w \in Workers, Store(w) PROVE Abstract!AnswerFetched(w)
  <2>1. PICK r \in Repos, e \in Entry : r = call[w].repo /\ e = held[w]
    BY <1>1 DEF TypeOK
  <2>2. /\ e.gen \in call[w].served..upstream[r]
        /\ e.fetchedAt \in call[w].at..clock
    BY <1>1, <1>7, <2>1 DEF Store, WorkerInv
  <2>3. /\ stored' = [stored EXCEPT ![r] = @ \cup {e}]
        /\ Return(w, Lookup(e, call[w].chart, FALSE))
        /\ UNCHANGED <<clock, upstream, call>>
    BY <1>7, <2>1 DEF Store
  <2>4. Abstract!End(w, Abstract!From(Index(e), call[w].chart, FALSE))
    BY <1>1, <1>7, <2>3, Outside, SameAnswers DEF Store
  <2>5. Fetched' = [Fetched EXCEPT ![r] = @ \cup {Index(e)}]
    <3>1. \A s \in Repos : {Index(x) : x \in stored'[s]}
            = IF s = r THEN Fetched[s] \cup {Index(e)} ELSE Fetched[s]
      BY <1>1, <2>3 DEF TypeOK, Fetched
    <3> QED BY <3>1 DEF Fetched
  <2>6. /\ Calls[w].repo = r /\ Calls[w].chart = call[w].chart
        /\ Calls[w].at = call[w].at /\ Calls[w].served = call[w].served
    BY <2>1 DEF Calls, Asked
  <2>7. \E gen \in Calls[w].served..upstream[Calls[w].repo], time \in Calls[w].at..clock :
          /\ Abstract!End(w, Abstract!From([gen |-> gen, fetchedAt |-> time],
                                          Calls[w].chart, FALSE))
          /\ Fetched' = [Fetched EXCEPT ![Calls[w].repo] =
                            @ \cup {[gen |-> gen, fetchedAt |-> time]}]
    <3>1. Index(e) = [gen |-> e.gen, fetchedAt |-> e.fetchedAt]
      BY DEF Index
    <3> QED BY <2>2, <2>4, <2>5, <2>6, <3>1, Zenon
  <2> QED BY <2>7 DEF Abstract!AnswerFetched, Calls, Fetched
<1>8. ASSUME NEW w \in Workers, GiveUp(w) PROVE Abstract!Fail(w)
  <2>1. call[w].repo \in Repos /\ stored[call[w].repo] = {}
    BY <1>1, <1>8 DEF GiveUp, CacheInv, TypeOK
  <2>2. Fetched[call[w].repo] = {} /\ UNCHANGED Fetched
    BY <1>8, <2>1 DEF GiveUp, Fetched
  <2>3. Abstract!End(w, Abstract!Without("error"))
    BY <1>1, <1>8, Outside, SameAnswers DEF GiveUp
  <2> QED BY <2>2, <2>3 DEF Abstract!Fail, Calls, Fetched, Asked
<1>9. CASE Tick
  BY <1>9 DEF Tick, Abstract!Next, Abstract!Tick, Calling
<1>10. ASSUME NEW r \in Repos, PublishIndex(r) PROVE Abstract!PublishIndex(r)
  BY <1>10 DEF PublishIndex, Abstract!PublishIndex, Calling
<1>11. CASE UNCHANGED vars
  BY <1>11 DEF vars, Abstract!vars, Calling
<1> QED
  BY <1>2, <1>3, <1>5, <1>6, <1>7, <1>8, <1>9, <1>10, <1>11
  DEF Next, Local, Abstract!Next

(* Whatever the interleaving of lookups, refreshes and write-backs, callers *)
(* of ResolveLatest cannot tell the resolver from an atomic cache of        *)
(* fetched indexes that falls back on an old one only after a failure.     *)
THEOREM ResolverImplementsIndexCache == Spec => ImplementsIndexCache
<1>1. Init => Abstract!Init
  BY InitRefines
<1>2. Inv /\ [Next]_vars => [Abstract!Next]_(Abstract!vars)
  BY StepRefines
<1> QED BY <1>1, <1>2, InvCorrect, PTL DEF Spec, ImplementsIndexCache, Abstract!Spec

=============================================================================
