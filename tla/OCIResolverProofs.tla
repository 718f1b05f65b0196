------------------------- MODULE OCIResolverProofs -------------------------
(***************************************************************************)
(* Safety of OCIResolver for any number of workers, any list of tags with  *)
(* any precedence, and every page size, cap and time to live.              *)
(***************************************************************************)
EXTENDS OCIResolver, FiniteSetTheorems, WellFoundedInduction, TLAPS

-----------------------------------------------------------------------------
(* Sets of numbers. *)

LEMMA Least ==
  ASSUME NEW S \in SUBSET Nat, S # {}
  PROVE  \E x \in S : \A y \in S : x <= y
<1>1. PICK x \in S : \A y \in S : ~ (<<y, x>> \in OpToRel(<, Nat))
  BY NatLessThanWellFounded, WFMin
<1>2. \A y \in S : ~ (y < x)
  BY <1>1 DEF OpToRel
<1> QED BY <1>2

(* A bounded set has a greatest element: its least upper bound. *)
LEMMA MaxIs ==
  ASSUME NEW S \in SUBSET Nat, S # {}, NEW n \in Nat, \A y \in S : y <= n
  PROVE  Max(S) \in S /\ \A y \in S : y <= Max(S)
<1> DEFINE Bounds == {u \in Nat : \A y \in S : y <= u}
<1>1. PICK u \in Bounds : \A v \in Bounds : u <= v
  <2>1. n \in Bounds
    OBVIOUS
  <2> QED BY <2>1, Least
<1>2. u \in S
  <2> SUFFICES ASSUME u \notin S PROVE FALSE
    OBVIOUS
  <2>1. \A y \in S : y < u
    BY <1>1
  <2>2. u > 0
    <3>1. PICK y \in S : y \in Nat
      OBVIOUS
    <3> QED BY <2>1, <3>1
  <2>3. u - 1 \in Bounds
    BY <2>1, <2>2
  <2> QED BY <1>1, <2>3
<1>3. \E x \in S : \A y \in S : x >= y
  BY <1>1, <1>2
<1> QED BY <1>3 DEF Max

(* The ranks of a list have a bound.  A shortest initial part without one   *)
(* would have its last rank, or the bound of what precedes it, as one.     *)
LEMMA RanksAreBounded ==
  \E n \in Nat : \A t \in Positions : Rank[t] <= n
<1> DEFINE Bounded(k) == \E n \in Nat : \A t \in 1..k : Rank[t] <= n
           Bad == {k \in 0..Len(Rank) : ~ Bounded(k)}
<1>0. Len(Rank) \in Nat /\ \A t \in 1..Len(Rank) : Rank[t] \in Nat
  BY OCIAssumption
<1>1. SUFFICES Bad = {}
  <2>1. Len(Rank) \in 0..Len(Rank)
    BY <1>0
  <2>2. ASSUME Bad = {} PROVE Bounded(Len(Rank))
    BY <2>1, <2>2
  <2> HIDE DEF Bad
  <2> QED BY <2>2 DEF Positions
<1>2. SUFFICES ASSUME Bad # {} PROVE FALSE
  OBVIOUS
<1>3. PICK k \in Bad : \A j \in Bad : k <= j
  <2>1. Bad \in SUBSET Nat
    OBVIOUS
  <2> HIDE DEF Bad
  <2> QED BY <1>2, <2>1, Least
<1>4. k \in 0..Len(Rank) /\ ~ Bounded(k)
  OBVIOUS
<1>5. k # 0
  <2>1. Bounded(0)
    <3>1. \A t \in 1..0 : Rank[t] <= 0
      OBVIOUS
    <3> QED BY <3>1
  <2> QED BY <1>4, <2>1
<1>6. k - 1 \in 0..Len(Rank) /\ k \in 1..Len(Rank)
  BY <1>0, <1>4, <1>5
<1>7. k - 1 \notin Bad
  <2>1. ~ (k <= k - 1)
    BY <1>4
  <2> HIDE DEF Bad
  <2> QED BY <1>3, <2>1
<1>8. PICK n \in Nat : \A t \in 1..(k - 1) : Rank[t] <= n
  BY <1>6, <1>7
<1>9. \A t \in 1..k : t = k \/ t \in 1..(k - 1)
  BY <1>6
<1>10. CASE Rank[k] <= n
  <2>1. \A t \in 1..k : Rank[t] <= n
    BY <1>8, <1>9, <1>10
  <2> QED BY <1>4, <2>1
<1>11. CASE ~ (Rank[k] <= n)
  <2>1. Rank[k] \in Nat /\ \A t \in 1..k : Rank[t] <= Rank[k]
    <3> HIDE DEF Bad, Bounded
    <3>1. PICK m \in Nat : m = Rank[k]
      BY <1>0, <1>6
    <3>2. n <= m
      BY <1>11, <3>1
    <3>3. ASSUME NEW t \in 1..k PROVE Rank[t] <= m
      <4>1. t \in 1..Len(Rank)
        BY <1>0, <1>4
      <4>2. Rank[t] \in Nat
        BY <1>0, <4>1
      <4> QED BY <1>8, <1>9, <3>1, <3>2, <4>2
    <3> QED BY <3>1, <3>3
  <2> QED BY <1>4, <2>1
<1> QED BY <1>10, <1>11

LEMMA HighestIs ==
  ASSUME NEW S \in SUBSET Positions
  PROVE  /\ Highest(S) \in Nat
         /\ Highest(S) \in Ranks(S) \cup {0}
         /\ \A t \in S : Rank[t] <= Highest(S)
<1> DEFINE R == Ranks(S) \cup {0}
<1>1. R \in SUBSET Nat /\ R # {}
  BY OCIAssumption DEF Ranks, Positions
<1>2. PICK n \in Nat : \A t \in Positions : Rank[t] <= n
  BY RanksAreBounded
<1>3. \A y \in R : y <= n
  BY <1>2 DEF Ranks
<1>4. Max(R) \in R /\ \A y \in R : y <= Max(R)
  <2> HIDE DEF R
  <2> QED BY <1>1, <1>3, MaxIs
<1>5. \A t \in S : Rank[t] \in R
  BY DEF Ranks
<1> QED BY <1>1, <1>4, <1>5 DEF Highest

(* More tags have no lower highest one. *)
LEMMA HighestGrows ==
  ASSUME NEW S \in SUBSET Positions, NEW T \in SUBSET Positions, S \subseteq T
  PROVE  Highest(S) <= Highest(T)
<1>1. Highest(S) = 0 \/ \E t \in S : Highest(S) = Rank[t]
  BY HighestIs DEF Ranks
<1> QED BY <1>1, HighestIs

-----------------------------------------------------------------------------
(* The registry's pages. *)

LEMMA PositionsAre ==
  /\ Len(Rank) \in Nat
  /\ \A t \in Positions : t \in Nat /\ 1 <= t /\ t <= Len(Rank)
  /\ \A T \in SUBSET Positions : IsFiniteSet(T)
<1>1. Len(Rank) \in Nat
  BY OCIAssumption
<1>2. IsFiniteSet(Positions)
  BY <1>1, FS_Interval DEF Positions
<1>3. \A T \in SUBSET Positions : IsFiniteSet(T)
  BY <1>2, FS_Subset
<1>4. \A t \in Positions : t \in Nat /\ 1 <= t /\ t <= Len(Rank)
  BY <1>1 DEF Positions
<1> QED BY <1>1, <1>3, <1>4

LEMMA ShownType ==
  ASSUME tags \subseteq Positions, NEW after \in 0..Len(Rank)
  PROVE  Shown(after) \subseteq tags /\ Left(after) \subseteq tags
BY DEF Shown, Left

(* A page skips no tag: what comes before a tag it shows, it shows too. *)
LEMMA ShownIsClosed ==
  ASSUME tags \subseteq Positions, NEW after \in 0..Len(Rank),
         NEW t \in tags, NEW u \in Shown(after), after < t, t <= u
  PROVE  t \in Shown(after)
<1> DEFINE UpTo(x) == {v \in tags : after < v /\ v <= x}
<1>1. u \in tags /\ Cardinality(UpTo(u)) <= PageSize
  BY DEF Shown
<1>2. UpTo(t) \subseteq UpTo(u)
  BY <1>1, PositionsAre
<1>3. IsFiniteSet(UpTo(u))
  BY PositionsAre
<1>4. Cardinality(UpTo(t)) <= Cardinality(UpTo(u)) /\ IsFiniteSet(UpTo(t))
  <2> HIDE DEF UpTo
  <2> QED BY <1>2, <1>3, FS_Subset
<1>5. Cardinality(UpTo(t)) \in Nat /\ Cardinality(UpTo(u)) \in Nat
  <2> HIDE DEF UpTo
  <2> QED BY <1>3, <1>4, FS_CardinalityType
<1>6. Cardinality(UpTo(t)) <= PageSize
  <2> HIDE DEF UpTo
  <2> QED BY <1>1, <1>4, <1>5, OCIAssumption
<1> QED BY <1>6 DEF Shown

(* A page shows something if there is something to show. *)
LEMMA ShownIsNonempty ==
  ASSUME tags \subseteq Positions, NEW after \in 0..Len(Rank), Left(after) # {}
  PROVE  Shown(after) # {}
<1> DEFINE Rest == {t \in tags : t > after}
<1>1. Rest # {} /\ Rest \in SUBSET Nat
  BY PositionsAre DEF Left
<1>2. PICK t \in Rest : \A u \in Rest : t <= u
  <2> HIDE DEF Rest
  <2> QED BY <1>1, Least
<1>3. {u \in tags : after < u /\ u <= t} = {t}
  BY <1>2, PositionsAre
<1>4. Cardinality({t}) <= PageSize
  <2>1. Cardinality({t}) = 1
    BY FS_Singleton
  <2> QED BY <2>1, OCIAssumption
<1>5. t \in Shown(after)
  BY <1>3, <1>4 DEF Shown
<1> QED BY <1>5

(* Where a link leads: to the first page, or after the last tag shown. *)
LEMMA LinksAre ==
  ASSUME tags \subseteq Positions, NEW after \in 0..Len(Rank), NEW next \in Links(after)
  PROVE  /\ next \in 0..Len(Rank)
         /\ \A t \in tags : t <= next => t <= after \/ t \in Shown(after)
<1>1. CASE Left(after) # {}
  <2>1. next = Max(Shown(after))
    BY <1>1 DEF Links
  <2>2. Shown(after) # {} /\ Shown(after) \in SUBSET Nat /\ \A y \in Shown(after) : y <= Len(Rank)
    BY <1>1, ShownIsNonempty, ShownType, PositionsAre
  <2>3. next \in Shown(after)
    BY <2>1, <2>2, MaxIs, PositionsAre
  <2>4. next \in Positions
    BY <2>3, ShownType
  <2>5. \A t \in tags : t <= next /\ ~ (t <= after) => t \in Shown(after)
    <3>1. ASSUME NEW t \in tags, t <= next, ~ (t <= after) PROVE after < t
      BY <3>1, PositionsAre
    <3> QED BY <2>3, <3>1, ShownIsClosed
  <2> QED BY <2>4, <2>5, PositionsAre
<1>2. CASE Left(after) = {}
  <2>1. next = 0
    BY <1>2 DEF Links
  <2> QED BY <2>1, PositionsAre
<1> QED BY <1>1, <1>2

(* Without a link there is nothing after this page. *)
LEMMA NoLinks ==
  ASSUME tags \subseteq Positions, NEW after \in 0..Len(Rank), Links(after) = {}
  PROVE  \A t \in tags : t <= after \/ t \in Shown(after)
<1>1. Left(after) = {}
  BY DEF Links
<1>2. \A t \in tags : t > after => t \in Shown(after)
  BY <1>1 DEF Left
<1> QED BY <1>2, PositionsAre


-----------------------------------------------------------------------------
(***************************************************************************)
(* The inductive invariant.                                                *)
(***************************************************************************)

Results ==
  [kind: {"none", "version", "not_found", "error"}, rank: Nat, best: Nat, cut: BOOLEAN]

(* No steady tag up to the position reached is missing. *)
Gapless(f) == \A t \in f.steady : t <= f.after => t \in f.all

(* What a result or a cache entry says, unless it is cut. *)
Honest(rank, best, cut) == ~ cut => best <= rank

(* No page has been asked for twice, or once, without authentication. *)
Authorised(f) == f.attempt <= 1 /\ (f.auth = "none" => f.attempt = 0)

Fetching(w) ==
  /\ pc[w] \in {"request", "token"} =>
       fetch[w].page < MaxPages /\ fetch[w].steady \subseteq tags /\ Gapless(fetch[w])
  /\ pc[w] = "token" => fetch[w].auth = "none"
  /\ pc[w] = "store" /\ ~ fetch[w].cut => fetch[w].steady \subseteq fetch[w].all
  /\ Authorised(fetch[w])

Cached == Honest(Highest(cache.tags), cache.best, cache.cut)

Answered(w) == Honest(answer[w].rank, answer[w].best, answer[w].cut)

Inv ==
  /\ TypeOK
  /\ Cached
  /\ \A w \in Workers : Fetching(w) /\ Answered(w)

-----------------------------------------------------------------------------
(* The records that the actions build. *)

LEMMA BoundsAre ==
  /\ PageSize \in Nat \ {0} /\ MaxPages \in Nat \ {0}
  /\ MaxAttempts \in Nat \ {0} /\ TTL \in Nat \ {0}
BY OCIAssumption

LEMMA NewFetchType ==
  ASSUME NEW S \in SUBSET Positions
  PROVE  /\ NewFetch(S) \in Fetch
         /\ Gapless(NewFetch(S)) /\ Authorised(NewFetch(S))
         /\ NewFetch(S).page = 0 /\ NewFetch(S).steady = S /\ NewFetch(S).auth = "none"
<1>1. 0 \in 0..MaxAttempts /\ 0 \in 0..MaxPages /\ 0 \in 0..Len(Rank)
  BY BoundsAre, PositionsAre
<1>2. NewFetch(S) \in Fetch
  BY <1>1 DEF NewFetch, Fetch
<1>3. \A t \in S : ~ (t <= 0)
  BY PositionsAre
<1> QED BY <1>2, <1>3 DEF NewFetch, Gapless, Authorised

LEMMA EntryType ==
  ASSUME TypeOK, NEW f \in Fetch
  PROVE  /\ EntryOf(f) \in Entry
         /\ EntryOf(f).tags = f.all /\ EntryOf(f).cut = f.cut
         /\ EntryOf(f).best = Highest(f.steady)
<1>1. Highest(f.steady) \in Nat
  BY HighestIs DEF Fetch
<1>2. clock + TTL \in Int
  BY BoundsAre DEF TypeOK
<1> QED BY <1>1, <1>2 DEF EntryOf, Entry, Fetch

(* A list that lacks no steady tag gives an honest entry. *)
LEMMA EntryHonest ==
  ASSUME TypeOK, NEW f \in Fetch, ~ f.cut => f.steady \subseteq f.all
  PROVE  Honest(Highest(EntryOf(f).tags), EntryOf(f).best, EntryOf(f).cut)
<1>1. f.steady \in SUBSET Positions /\ f.all \in SUBSET Positions
  BY DEF Fetch
<1> QED BY <1>1, EntryType, HighestGrows DEF Honest

LEMMA FromType ==
  ASSUME NEW e \in Entry
  PROVE  /\ From(e) \in Results
         /\ From(e).rank = Highest(e.tags) /\ From(e).best = e.best /\ From(e).cut = e.cut
<1>1. Highest(e.tags) \in Nat
  BY HighestIs DEF Entry
<1> QED BY <1>1 DEF From, Entry, Results

LEMMA WithoutType ==
  ASSUME NEW kind \in {"none", "error", "not_found"}
  PROVE  Without(kind) \in Results /\ Without(kind).cut = TRUE
BY DEF Without, Results

LEMMA InvInit == Init => Inv
<1> SUFFICES ASSUME Init PROVE Inv
  OBVIOUS
<1>1. /\ clock \in 0..MaxTime /\ changes \in 0..MaxChanges
  BY OCIAssumption DEF Init
<1>2. circular \in BOOLEAN /\ hostAuth \in BOOLEAN
  BY Zenon DEF Init
<1>3. cache \in Entry /\ Cached
  <2>1. -1 \in Int
    OBVIOUS
  <2>2. cache \in Entry /\ cache.best = 0 /\ cache.tags = {}
    BY <2>1 DEF Init, NoEntry, Entry
  <2>3. Highest({}) \in Nat
    BY HighestIs
  <2> QED BY <2>2, <2>3 DEF Cached, Honest
<1>4. NewFetch({}) \in Fetch /\ Authorised(NewFetch({})) /\ Without("none") \in Results
  BY NewFetchType, WithoutType
<1>5. TypeOK
  <2>1. fetch \in [Workers -> Fetch] /\ answer \in [Workers -> Results]
    BY <1>4 DEF Init
  <2>2. pc \in [Workers -> {"idle", "request", "token", "store"}]
    BY DEF Init
  <2>3. tags \subseteq Positions
    BY OCIAssumption DEF Init
  <2> QED BY <1>1, <1>2, <1>3, <2>1, <2>2, <2>3 DEF TypeOK, Results
<1>6. ASSUME NEW w \in Workers PROVE Fetching(w) /\ Answered(w)
  <2>1. pc[w] = "idle" /\ fetch[w] = NewFetch({}) /\ answer[w] = Without("none")
    BY DEF Init
  <2>2. answer[w].cut = TRUE
    BY <2>1, WithoutType
  <2> QED BY <1>4, <2>1, <2>2 DEF Fetching, Answered, Honest
<1> QED BY <1>3, <1>5, <1>6 DEF Inv

-----------------------------------------------------------------------------
(* What the workers' actions have in common. *)

(* A worker moves, without an answer. *)
LEMMA MoveStep ==
  ASSUME Inv, NEW w \in Workers, NEW f \in Fetch,
         NEW p \in {"idle", "request", "token", "store"},
         pc' = [pc EXCEPT ![w] = p], fetch' = [fetch EXCEPT ![w] = f],
         UNCHANGED <<registry, cache, answer>>,
         p \in {"request", "token"} =>
           f.page < MaxPages /\ f.steady \subseteq tags /\ Gapless(f),
         p = "token" => f.auth = "none",
         p = "store" /\ ~ f.cut => f.steady \subseteq f.all,
         Authorised(f)
  PROVE  Inv'
<1>1. TypeOK'
  <2>1. fetch' \in [Workers -> Fetch] /\ pc' \in [Workers -> {"idle", "request", "token", "store"}]
    BY DEF Inv, TypeOK
  <2> QED BY <2>1 DEF Inv, TypeOK, registry
<1>2. ASSUME NEW v \in Workers PROVE Fetching(v)'
  <2>1. CASE v = w
    <3>1. fetch'[v] = f /\ pc'[v] = p /\ tags' = tags
      BY <2>1 DEF Inv, TypeOK, registry
    <3> QED BY <3>1 DEF Fetching
  <2>2. CASE v # w
    <3>1. fetch'[v] = fetch[v] /\ pc'[v] = pc[v] /\ tags' = tags
      BY <2>2 DEF Inv, TypeOK, registry
    <3> QED BY <3>1 DEF Inv, Fetching
  <2> QED BY <2>1, <2>2
<1>3. Cached' /\ \A v \in Workers : Answered(v)'
  BY DEF Inv, Cached, Answered
<1> QED BY <1>1, <1>2, <1>3 DEF Inv

(* A worker answers. *)
LEMMA ReturnStep ==
  ASSUME Inv, NEW w \in Workers, NEW result \in Results, Return(w, result),
         Honest(result.rank, result.best, result.cut),
         UNCHANGED registry, cache' \in Entry, Cached'
  PROVE  Inv'
<1>1. NewFetch({}) \in Fetch /\ Authorised(NewFetch({}))
  BY NewFetchType
<1>2. TypeOK'
  <2>1. fetch' \in [Workers -> Fetch]
    BY <1>1 DEF Inv, TypeOK, Return
  <2>2. pc' \in [Workers -> {"idle", "request", "token", "store"}]
    BY DEF Inv, TypeOK, Return
  <2>3. answer' \in [Workers -> Results]
    BY DEF Inv, TypeOK, Return, Results
  <2> QED BY <2>1, <2>2, <2>3 DEF Inv, TypeOK, registry, Results
<1>3. ASSUME NEW v \in Workers PROVE Fetching(v)' /\ Answered(v)'
  <2>1. CASE v = w
    <3>1. fetch'[v] = NewFetch({}) /\ pc'[v] = "idle" /\ answer'[v] = result
      BY <2>1 DEF Inv, TypeOK, Return
    <3> QED BY <1>1, <3>1 DEF Fetching, Answered
  <2>2. CASE v # w
    <3>1. fetch'[v] = fetch[v] /\ pc'[v] = pc[v] /\ answer'[v] = answer[v] /\ tags' = tags
      BY <2>2 DEF Inv, TypeOK, Return, registry
    <3> QED BY <3>1 DEF Inv, Fetching, Answered
  <2> QED BY <2>1, <2>2
<1> QED BY <1>2, <1>3 DEF Inv

LEMMA FailStep ==
  ASSUME Inv, NEW w \in Workers, NEW kind \in {"error", "not_found"}, Fail(w, kind)
  PROVE  Inv'
<1>1. Without(kind) \in Results /\ Without(kind).cut = TRUE
  BY WithoutType
<1>2. Return(w, Without(kind)) /\ UNCHANGED <<registry, cache>>
  BY DEF Fail
<1>3. cache' \in Entry /\ Cached' /\ Honest(Without(kind).rank, Without(kind).best, Without(kind).cut)
  BY <1>1, <1>2 DEF Inv, TypeOK, Cached, Honest
<1> QED BY <1>1, <1>2, <1>3, ReturnStep


-----------------------------------------------------------------------------
(* The parts of fetchTags. *)

LEMMA FetchIs ==
  ASSUME Inv, NEW w \in Workers
  PROVE  /\ fetch[w] \in Fetch /\ Fetching(w)
         /\ fetch[w].all \in SUBSET Positions /\ fetch[w].steady \in SUBSET Positions
         /\ fetch[w].after \in 0..Len(Rank) /\ fetch[w].page \in 0..MaxPages
         /\ fetch[w].attempt \in 0..MaxAttempts /\ tags \in SUBSET Positions
         /\ fetch[w].auth \in {"none", "bearer", "basic"} /\ fetch[w].cut \in BOOLEAN
<1>1. fetch[w] \in Fetch /\ tags \in SUBSET Positions
  BY DEF Inv, TypeOK
<1>2. fetch[w].auth \in {"none", "bearer", "basic"} /\ fetch[w].cut \in BOOLEAN
  BY <1>1 DEF Fetch
<1> QED BY <1>1, <1>2 DEF Inv, Fetch

(* The first attempt of a page may be followed by one more, with a token or *)
(* with credentials.                                                       *)
LEMMA RetryStep ==
  ASSUME Inv, NEW w \in Workers, NEW auth \in {"bearer", "basic"},
         pc[w] \in {"request", "token"}, fetch[w].auth = "none", Retry(w, auth)
  PROVE  Inv'
<1> DEFINE f == [fetch[w] EXCEPT !.auth = auth, !.attempt = @ + 1]
<1>1. fetch[w] \in Fetch /\ Fetching(w) /\ fetch[w].attempt = 0
  BY FetchIs DEF Fetching, Authorised
<1>2. CASE fetch[w].attempt + 1 < MaxAttempts
  <2>1. /\ fetch' = [fetch EXCEPT ![w] = f]
        /\ pc' = [pc EXCEPT ![w] = "request"]
        /\ UNCHANGED <<registry, cache, answer>>
    <3>1. ~ (fetch[w].attempt + 1 >= MaxAttempts)
      BY <1>1, <1>2, BoundsAre
    <3>2. /\ fetch' = [fetch EXCEPT ![w].auth = auth, ![w].attempt = @ + 1]
          /\ pc' = [pc EXCEPT ![w] = "request"]
          /\ UNCHANGED <<registry, cache, answer>>
      BY <3>1 DEF Retry
    <3>3. fetch' = [fetch EXCEPT ![w] = f]
      BY <3>2
    <3> HIDE DEF f
    <3> QED BY <3>2, <3>3
  <2>2. f \in Fetch
    <3>1. fetch[w].attempt + 1 \in 0..MaxAttempts
      BY <1>1, <1>2, BoundsAre
    <3> QED BY <1>1, <3>1 DEF Fetch
  <2>3. /\ f.page = fetch[w].page /\ f.steady = fetch[w].steady
        /\ f.after = fetch[w].after /\ f.all = fetch[w].all
        /\ f.auth = auth /\ f.attempt = 1
    BY <1>1 DEF Fetch
  <2>4. f.page < MaxPages /\ f.steady \subseteq tags /\ Gapless(f)
    BY <1>1, <2>3 DEF Fetching, Gapless
  <2>5. Authorised(f)
    BY <2>3 DEF Authorised
  <2> HIDE DEF f
  <2> QED BY <2>1, <2>2, <2>4, <2>5, MoveStep
<1>3. CASE ~ (fetch[w].attempt + 1 < MaxAttempts)
  <2>1. Fail(w, "error")
    BY <1>3 DEF Retry
  <2> QED BY <2>1, FailStep
<1> QED BY <1>2, <1>3

LEMMA BasicStep ==
  ASSUME Inv, NEW w \in Workers,
         pc[w] \in {"request", "token"}, fetch[w].auth = "none", BasicOrFail(w)
  PROVE  Inv'
BY RetryStep, FailStep DEF BasicOrFail

LEMMA UnauthorizedStep ==
  ASSUME Inv, NEW w \in Workers, NEW challenge \in BOOLEAN, Unauthorized(w, challenge)
  PROVE  Inv'
<1>1. pc[w] = "request" /\ fetch[w] \in Fetch /\ Fetching(w)
  BY FetchIs DEF Unauthorized
<1>2. CASE fetch[w].auth = "none" /\ challenge
  <2>1. CASE Fail(w, "error")
    BY <2>1, FailStep
  <2>2. CASE /\ pc' = [pc EXCEPT ![w] = "token"]
             /\ UNCHANGED <<registry, cache, fetch, answer>>
    <3>1. fetch' = [fetch EXCEPT ![w] = fetch[w]]
      BY <2>2 DEF Inv, TypeOK
    <3> QED BY <1>1, <1>2, <2>2, <3>1, MoveStep DEF Fetching
  <2> QED BY <1>2, <2>1, <2>2 DEF Unauthorized
<1>3. CASE fetch[w].auth = "none" /\ ~ challenge
  BY <1>1, <1>3, BasicStep, FailStep DEF Unauthorized
<1>4. CASE fetch[w].auth # "none"
  BY <1>4, FailStep DEF Unauthorized
<1> QED BY <1>2, <1>3, <1>4

LEMMA TokenStep ==
  ASSUME Inv, NEW w \in Workers, TokenGranted(w) \/ TokenRefused(w)
  PROVE  Inv'
<1>1. pc[w] = "token" /\ fetch[w].auth = "none"
  BY FetchIs DEF TokenGranted, TokenRefused, Fetching
<1> QED BY <1>1, RetryStep, BasicStep DEF TokenGranted, TokenRefused

(* Unless it is cut, a list that ends has all the tags that were steady. *)
LEMMA EndListStep ==
  ASSUME Inv, NEW w \in Workers, NEW f \in Fetch, EndList(w, f),
         ~ f.cut => f.steady \subseteq f.all, Authorised(f)
  PROVE  Inv'
<1>1. CASE f.all # {}
  <2>1. /\ pc' = [pc EXCEPT ![w] = "store"] /\ fetch' = [fetch EXCEPT ![w] = f]
        /\ UNCHANGED <<registry, cache, answer>>
    BY <1>1 DEF EndList
  <2> QED BY <2>1, MoveStep
<1>2. CASE f.all = {}
  <2> DEFINE result == [From(EntryOf(f)) EXCEPT !.kind = "not_found"]
  <2>1. Return(w, result) /\ UNCHANGED <<registry, cache>>
    BY <1>2 DEF EndList
  <2>2. EntryOf(f) \in Entry
    BY EntryType DEF Inv
  <2>3. From(EntryOf(f)) \in Results /\ Honest(From(EntryOf(f)).rank, From(EntryOf(f)).best, From(EntryOf(f)).cut)
    BY <2>2, FromType, EntryHonest DEF Inv
  <2>4. result \in Results /\ Honest(result.rank, result.best, result.cut)
    BY <2>3 DEF Results
  <2>5. cache' \in Entry /\ Cached'
    BY <2>1 DEF Inv, TypeOK, Cached
  <2> HIDE DEF result
  <2> QED BY <2>1, <2>4, <2>5, ReturnStep
<1> QED BY <1>1, <1>2

LEMMA NotFoundStep ==
  ASSUME Inv, NEW w \in Workers, NotFound(w)
  PROVE  Inv'
<1> DEFINE f == [fetch[w] EXCEPT !.cut = TRUE]
<1>1. fetch[w] \in Fetch /\ Authorised(fetch[w])
  BY FetchIs DEF Fetching
<1>2. f \in Fetch /\ f.cut = TRUE /\ f.attempt = fetch[w].attempt /\ f.auth = fetch[w].auth
  BY <1>1 DEF Fetch
<1>3. EndList(w, f)
  BY DEF NotFound
<1>4. Authorised(f)
  BY <1>1, <1>2 DEF Authorised
<1> HIDE DEF f
<1> QED BY <1>2, <1>3, <1>4, EndListStep

(* A page adds what it shows and moves on. *)
LEMMA NextPageIs ==
  ASSUME Inv, NEW w \in Workers, pc[w] = "request", NEW after \in 0..Len(Rank)
  PROVE  LET f == NextPage(fetch[w], after) IN
         /\ f \in Fetch /\ Authorised(f)
         /\ f.all = fetch[w].all \cup Shown(fetch[w].after) /\ f.after = after
         /\ f.steady = fetch[w].steady /\ f.cut = fetch[w].cut
<1> DEFINE f == NextPage(fetch[w], after)
<1>1. /\ fetch[w] \in Fetch /\ Authorised(fetch[w])
      /\ Shown(fetch[w].after) \in SUBSET Positions /\ fetch[w].all \in SUBSET Positions
  BY FetchIs, ShownType DEF Fetching
<1>2. fetch[w].page + 1 \in 0..MaxPages /\ 0 \in 0..MaxAttempts
  BY FetchIs, BoundsAre DEF Fetching
<1>3. /\ f.all = fetch[w].all \cup Shown(fetch[w].after) /\ f.after = after
      /\ f.attempt = 0 /\ f.page = fetch[w].page + 1 /\ f.auth = fetch[w].auth
      /\ f.steady = fetch[w].steady /\ f.cut = fetch[w].cut
  BY <1>1 DEF NextPage, Fetch
<1>4. f \in Fetch
  BY <1>1, <1>2 DEF NextPage, Fetch
<1>5. Authorised(f)
  BY <1>3 DEF Authorised
<1> QED BY <1>3, <1>4, <1>5

LEMMA PageStep ==
  ASSUME Inv, NEW w \in Workers, Page(w)
  PROVE  Inv'
<1>1. PICK after \in Links(fetch[w].after) :
        LET f == NextPage(fetch[w], after) IN
        \/ /\ f.page < MaxPages
           /\ fetch' = [fetch EXCEPT ![w] = f]
           /\ UNCHANGED <<registry, cache, pc, answer>>
        \/ /\ f.page >= MaxPages
           /\ EndList(w, [f EXCEPT !.cut = TRUE])
  BY DEF Page
<1>2. pc[w] = "request" /\ Fetching(w) /\ tags \in SUBSET Positions
  BY FetchIs DEF Page
<1>3. /\ after \in 0..Len(Rank)
      /\ \A t \in tags : t <= after => t <= fetch[w].after \/ t \in Shown(fetch[w].after)
  BY FetchIs, LinksAre
<1> DEFINE f == NextPage(fetch[w], after)
<1>4. /\ f \in Fetch /\ Authorised(f)
      /\ f.all = fetch[w].all \cup Shown(fetch[w].after) /\ f.after = after
      /\ f.steady = fetch[w].steady /\ f.cut = fetch[w].cut
  BY <1>2, <1>3, NextPageIs
<1>5. f.steady \subseteq tags /\ Gapless(f)
  <2>1. fetch[w].steady \subseteq tags /\ Gapless(fetch[w])
    BY <1>2 DEF Fetching
  <2> HIDE DEF f
  <2> QED BY <1>3, <1>4, <2>1 DEF Gapless
<1>6. CASE /\ f.page < MaxPages
           /\ fetch' = [fetch EXCEPT ![w] = f]
           /\ UNCHANGED <<registry, cache, pc, answer>>
  <2>1. pc' = [pc EXCEPT ![w] = "request"]
    BY <1>2, <1>6 DEF Inv, TypeOK
  <2> HIDE DEF f
  <2> QED BY <1>4, <1>5, <1>6, <2>1, MoveStep
<1>7. CASE EndList(w, [f EXCEPT !.cut = TRUE])
  <2> HIDE DEF f
  <2> DEFINE g == [f EXCEPT !.cut = TRUE]
  <2>1. g \in Fetch /\ g.cut = TRUE /\ g.attempt = f.attempt /\ g.auth = f.auth
    BY <1>4 DEF Fetch
  <2>2. Authorised(g)
    BY <1>4, <2>1 DEF Authorised
  <2>3. EndList(w, g)
    BY <1>7
  <2> HIDE DEF g
  <2> QED BY <2>1, <2>2, <2>3, EndListStep
<1> QED BY <1>1, <1>6, <1>7

LEMMA LastPageStep ==
  ASSUME Inv, NEW w \in Workers, LastPage(w)
  PROVE  Inv'
<1>1. /\ pc[w] = "request" /\ Links(fetch[w].after) = {}
      /\ EndList(w, NextPage(fetch[w], 0))
  BY DEF LastPage
<1>2. /\ Fetching(w) /\ tags \in SUBSET Positions
      /\ \A t \in tags : t <= fetch[w].after \/ t \in Shown(fetch[w].after)
  BY <1>1, FetchIs, NoLinks
<1>3. 0 \in 0..Len(Rank)
  BY PositionsAre
<1> DEFINE f == NextPage(fetch[w], 0)
<1>4. /\ f \in Fetch /\ Authorised(f)
      /\ f.all = fetch[w].all \cup Shown(fetch[w].after)
      /\ f.steady = fetch[w].steady
  BY <1>1, <1>3, NextPageIs
<1>5. fetch[w].steady \subseteq tags /\ Gapless(fetch[w])
  BY <1>1, <1>2 DEF Fetching
<1> HIDE DEF f
<1>6. f.steady \subseteq f.all
  BY <1>2, <1>4, <1>5 DEF Gapless
<1>7. EndList(w, f)
  BY <1>1 DEF f
<1> QED BY <1>4, <1>6, <1>7, EndListStep

-----------------------------------------------------------------------------
(* ResolveLatest and the environment. *)

LEMMA HitStep ==
  ASSUME Inv, NEW w \in Workers, Hit(w)
  PROVE  Inv'
<1>1. /\ From(cache) \in Results
      /\ Honest(From(cache).rank, From(cache).best, From(cache).cut)
  BY FromType DEF Inv, TypeOK, Cached
<1>2. Return(w, From(cache)) /\ UNCHANGED <<registry, cache>>
  BY DEF Hit
<1>3. cache' \in Entry /\ Cached'
  BY <1>2 DEF Inv, TypeOK, Cached
<1> QED BY <1>1, <1>2, <1>3, ReturnStep

(* The tags that are there when a fetch begins are the steady ones so far. *)
LEMMA MissStep ==
  ASSUME Inv, NEW w \in Workers, Miss(w)
  PROVE  Inv'
<1>1. tags \in SUBSET Positions
  BY DEF Inv, TypeOK
<1>2. /\ NewFetch(tags) \in Fetch /\ Gapless(NewFetch(tags)) /\ Authorised(NewFetch(tags))
      /\ NewFetch(tags).page < MaxPages /\ NewFetch(tags).steady \subseteq tags
  BY <1>1, NewFetchType, BoundsAre
<1>3. Without("none") \in Results /\ Without("none").cut = TRUE
  BY WithoutType
<1>4. TypeOK'
  <2>1. fetch' \in [Workers -> Fetch]
    BY <1>2 DEF Inv, TypeOK, Miss
  <2>2. pc' \in [Workers -> {"idle", "request", "token", "store"}]
    BY DEF Inv, TypeOK, Miss
  <2>3. answer' \in [Workers -> Results]
    BY <1>3 DEF Inv, TypeOK, Miss, Results
  <2> QED BY <2>1, <2>2, <2>3 DEF Inv, TypeOK, Miss, registry, Results
<1>5. ASSUME NEW v \in Workers PROVE Fetching(v)' /\ Answered(v)'
  <2>1. CASE v = w
    <3>1. /\ fetch'[v] = NewFetch(tags) /\ pc'[v] = "request"
          /\ answer'[v] = Without("none") /\ tags' = tags
      BY <2>1 DEF Inv, TypeOK, Miss, registry
    <3> QED BY <1>2, <1>3, <3>1 DEF Fetching, Answered, Honest
  <2>2. CASE v # w
    <3>1. fetch'[v] = fetch[v] /\ pc'[v] = pc[v] /\ answer'[v] = answer[v] /\ tags' = tags
      BY <2>2 DEF Inv, TypeOK, Miss, registry
    <3> QED BY <3>1 DEF Inv, Fetching, Answered
  <2> QED BY <2>1, <2>2
<1>6. Cached'
  BY DEF Inv, Cached, Miss
<1> QED BY <1>4, <1>5, <1>6 DEF Inv

LEMMA StoreStep ==
  ASSUME Inv, NEW w \in Workers, Store(w)
  PROVE  Inv'
<1>1. /\ pc[w] = "store" /\ cache' = EntryOf(fetch[w])
      /\ Return(w, From(cache')) /\ UNCHANGED registry
  BY DEF Store
<1>2. fetch[w] \in Fetch /\ (~ fetch[w].cut => fetch[w].steady \subseteq fetch[w].all)
  BY <1>1, FetchIs DEF Fetching
<1>3. cache' \in Entry /\ Cached'
  BY <1>1, <1>2, EntryType, EntryHonest DEF Inv, Cached
<1>4. From(cache') \in Results /\ Honest(From(cache').rank, From(cache').best, From(cache').cut)
  BY <1>3, FromType DEF Cached
<1> QED BY <1>1, <1>3, <1>4, ReturnStep

(* A tag that changes is no longer steady, for any fetch under way. *)
LEMMA ChangeStep ==
  ASSUME Inv, NEW t \in Positions, Change(t)
  PROVE  Inv'
<1>1. ASSUME NEW w \in Workers
      PROVE  LET f == [fetch[w] EXCEPT !.steady = @ \ {t}] IN
             /\ f \in Fetch /\ f.steady = fetch[w].steady \ {t}
             /\ f.all = fetch[w].all /\ f.after = fetch[w].after /\ f.page = fetch[w].page
             /\ f.attempt = fetch[w].attempt /\ f.auth = fetch[w].auth /\ f.cut = fetch[w].cut
  <2>1. fetch[w] \in Fetch
    BY DEF Inv, TypeOK
  <2> QED BY <2>1 DEF Fetch
<1>2. fetch' = [w \in Workers |-> [fetch[w] EXCEPT !.steady = @ \ {t}]]
  BY DEF Change
<1>3. TypeOK'
  <2>1. fetch' \in [Workers -> Fetch]
    BY <1>1, <1>2
  <2>2. changes' \in 0..MaxChanges
    BY OCIAssumption DEF Inv, TypeOK, Change
  <2> QED BY <2>1, <2>2 DEF Inv, TypeOK, Change
<1>4. ASSUME NEW w \in Workers PROVE Fetching(w)'
  <2> DEFINE f == [fetch[w] EXCEPT !.steady = @ \ {t}]
  <2>1. fetch'[w] = f /\ pc'[w] = pc[w]
    BY <1>2 DEF Change
  <2>2. /\ f.steady = fetch[w].steady \ {t}
        /\ f.all = fetch[w].all /\ f.after = fetch[w].after /\ f.page = fetch[w].page
        /\ f.attempt = fetch[w].attempt /\ f.auth = fetch[w].auth /\ f.cut = fetch[w].cut
    BY <1>1
  <2> HIDE DEF f
  <2>3. Fetching(w)
    BY DEF Inv
  <2>4. tags \ {t} \subseteq tags'
    BY DEF Change
  <2> QED BY <2>1, <2>2, <2>3, <2>4 DEF Fetching, Gapless, Authorised
<1>5. Cached' /\ \A w \in Workers : Answered(w)'
  BY DEF Inv, Cached, Answered, Change
<1> QED BY <1>3, <1>4, <1>5 DEF Inv

LEMMA TickStep ==
  ASSUME Inv, Tick
  PROVE  Inv'
<1>1. clock' \in 0..MaxTime
  BY OCIAssumption DEF Inv, TypeOK, Tick
<1>2. TypeOK'
  BY <1>1 DEF Inv, TypeOK, Tick
<1> QED BY <1>2 DEF Inv, Tick, Cached, Fetching, Answered

LEMMA InvStep == Inv /\ [Next]_vars => Inv'
<1> SUFFICES ASSUME Inv, [Next]_vars PROVE Inv'
  OBVIOUS
<1>1. ASSUME NEW w \in Workers, Hit(w) PROVE Inv'
  BY <1>1, HitStep
<1>2. ASSUME NEW w \in Workers, Miss(w) PROVE Inv'
  BY <1>2, MissStep
<1>3. ASSUME NEW w \in Workers, Malformed(w) PROVE Inv'
  BY <1>3, FailStep DEF Malformed
<1>4. ASSUME NEW w \in Workers, Progress(w) PROVE Inv'
  <2>1. ASSUME NEW challenge \in BOOLEAN, Unauthorized(w, challenge) PROVE Inv'
    BY <2>1, UnauthorizedStep
  <2>2. CASE TokenGranted(w) \/ TokenRefused(w)
    BY <2>2, TokenStep
  <2>3. CASE NotFound(w)
    BY <2>3, NotFoundStep
  <2>4. CASE Refuse(w)
    BY <2>4, FailStep DEF Refuse
  <2>5. CASE Page(w)
    BY <2>5, PageStep
  <2>6. CASE LastPage(w)
    BY <2>6, LastPageStep
  <2>7. CASE Store(w)
    BY <2>7, StoreStep
  <2> QED BY <1>4, <2>1, <2>2, <2>3, <2>4, <2>5, <2>6, <2>7 DEF Progress
<1>5. CASE Tick
  BY <1>5, TickStep
<1>6. ASSUME NEW t \in Positions, Change(t) PROVE Inv'
  BY <1>6, ChangeStep
<1>7. CASE UNCHANGED vars
  BY <1>7 DEF vars, Inv, TypeOK, Cached, Fetching, Answered
<1> QED BY <1>1, <1>2, <1>3, <1>4, <1>5, <1>6, <1>7 DEF Next

THEOREM Invariant == Spec => []Inv
BY InvInit, InvStep, PTL DEF Spec

-----------------------------------------------------------------------------
(* What follows for the properties that the runs check. *)

(* The variables keep their types: also, a fetch reads at most MaxPages     *)
(* pages and makes at most MaxAttempts requests for one.                   *)
THEOREM TypeCorrect == Spec => []TypeOK
<1>1. Inv => TypeOK
  BY DEF Inv
<1> QED BY <1>1, Invariant, PTL

(* Whatever 401s a registry answers, no page is asked for more than twice.  *)
THEOREM TwoAttempts == Spec => []RetriesAreEnough
<1>1. Inv => RetriesAreEnough
  BY DEF Inv, Fetching, Authorised, RetriesAreEnough
<1> QED BY <1>1, Invariant, PTL

(* Whatever is pushed and removed meanwhile, and however many pages the     *)
(* list has: an answer that is not cut is no lower than any tag that was    *)
(* there all through the fetch it comes from.                              *)
THEOREM HighestAnswered == Spec => []HighestUnlessCut
<1>1. ASSUME Inv, NEW w \in Workers, ~ answer[w].cut PROVE answer[w].rank >= answer[w].best
  <2>1. answer[w].rank \in Nat /\ answer[w].best \in Nat
    BY <1>1 DEF Inv, TypeOK
  <2> QED BY <1>1, <2>1 DEF Inv, Answered, Honest
<1>2. Inv => HighestUnlessCut
  BY <1>1 DEF HighestUnlessCut
<1> QED BY <1>2, Invariant, PTL

=============================================================================
