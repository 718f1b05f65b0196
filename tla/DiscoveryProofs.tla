--------------------------- MODULE DiscoveryProofs ---------------------------
(***************************************************************************)
(* Safety of one pass of Discover for every set of objects and any number  *)
(* of changes of the cluster.                                              *)
(***************************************************************************)
EXTENDS Discovery, FiniteSetTheorems, WellFoundedInduction, TLAPS

(* Induction over an interval, with a set for the statement. *)
LEMMA UpTo ==
  ASSUME NEW N \in Nat, NEW S, 0 \in S,
         \A n \in 1..N : n - 1 \in S => n \in S
  PROVE  0..N \subseteq S
<1> DEFINE Less == {ss \in Nat \X Nat : ss[1] < ss[2]}
           T == (0..N) \ S
<1> SUFFICES ASSUME T # {} PROVE FALSE
  OBVIOUS
<1>1. IsWellFoundedOn(Less, Nat)
  BY NatLessThanWellFounded DEF OpToRel
<1>2. T \subseteq Nat
  OBVIOUS
<1> HIDE DEF Less, T
<1>3. PICK n \in T : \A m \in T : <<m, n>> \notin Less
  BY <1>1, <1>2, WFMin
<1>4. n \in 1..N /\ n - 1 \in 0..N
  BY <1>3 DEF T
<1>5. <<n - 1, n>> \in Less
  BY <1>4 DEF Less
<1>6. n - 1 \in S
  BY <1>3, <1>4, <1>5 DEF T
<1> QED BY <1>3, <1>4, <1>6 DEF T

-----------------------------------------------------------------------------
(* Sets in the order of their IDs. *)

(* The place of an object among others grows with its ID. *)
LEMMA Places ==
  ASSUME NEW S \in SUBSET Objects
  PROVE  /\ IsFiniteSet(S) /\ Cardinality(S) \in Nat
         /\ \A o \in S : Place(o, S) \in 1..Cardinality(S)
         /\ \A o, p \in S : o.id < p.id => Place(o, S) < Place(p, S)
<1> DEFINE Upto(o) == {p \in S : p.id <= o.id}
<1>1. IsFiniteSet(S) /\ Cardinality(S) \in Nat
  BY FS_Subset, FS_CardinalityType, DiscoveryAssumption DEF DiscoveryAssumption
<1>2. \A o \in S : /\ IsFiniteSet(Upto(o)) /\ Cardinality(Upto(o)) \in Nat
                   /\ Cardinality(Upto(o)) <= Cardinality(S)
  BY <1>1, FS_Subset, FS_CardinalityType
<1>3. \A o \in S : o \in Upto(o)
  BY DiscoveryAssumption DEF DiscoveryAssumption
<1>4. \A o \in S : Place(o, S) \in 1..Cardinality(S)
  <2> TAKE o \in S
  <2>1. Cardinality(Upto(o)) # 0
    BY <1>2, <1>3, FS_EmptySet
  <2> QED BY <1>1, <1>2, <2>1 DEF Place
<1>5. ASSUME NEW o \in S, NEW p \in S, o.id < p.id
      PROVE  Place(o, S) < Place(p, S)
  <2>1. Upto(o) \subseteq Upto(p) /\ p \notin Upto(o)
    BY <1>5, DiscoveryAssumption DEF DiscoveryAssumption
  <2>2. Cardinality(Upto(o)) <= Cardinality(Upto(p))
        /\ Cardinality(Upto(o)) # Cardinality(Upto(p))
    BY <1>2, <1>3, <2>1, FS_Subset
  <2>3. Place(o, S) = Cardinality(Upto(o)) /\ Place(p, S) = Cardinality(Upto(p))
    BY DEF Place
  <2> HIDE DEF Upto
  <2> QED BY <1>2, <2>2, <2>3
<1> QED BY <1>1, <1>4, <1>5

(* Each place is taken, by one object. *)
LEMMA EachPlace ==
  ASSUME NEW S \in SUBSET Objects, NEW i \in 1..Cardinality(S)
  PROVE  \E o \in S : /\ Place(o, S) = i
                      /\ \A p \in S : Place(p, S) = i => p = o
<1> DEFINE n == Cardinality(S)
           f == [o \in S |-> Place(o, S)]
           T == {f[o] : o \in S}
<1>1. IsFiniteSet(S) /\ n \in Nat /\ f \in [S -> 1..n]
  BY Places
<1>2. \A o, p \in S : f[o] = f[p] => o = p
  <2> SUFFICES ASSUME NEW o \in S, NEW p \in S, Place(o, S) = Place(p, S) PROVE o = p
    OBVIOUS
  <2>1. ~ o.id < p.id /\ ~ p.id < o.id
    BY <1>1, Places
  <2> QED BY <2>1, DiscoveryAssumption DEF DiscoveryAssumption
<1>3. IsFiniteSet(1..n) /\ Cardinality(1..n) = n
  BY <1>1, FS_Interval
<1>4. f \in Injection(S, 1..n)
  BY <1>1, <1>2 DEF Injection, IsInjective
<1>5. f \in Surjection(S, 1..n)
  BY <1>3, <1>4, <1>1, FS_Injection
<1>6. PICK o \in S : f[o] = i
  BY <1>5 DEF Surjection
<1> QED BY <1>2, <1>6

(* ById(S) is the sequence of the elements of S, each once, by ID. *)
LEMMA Sorted ==
  ASSUME NEW S \in SUBSET Objects
  PROVE  /\ ById(S) \in Seq(S) /\ Len(ById(S)) = Cardinality(S)
         /\ \A i \in 1..Len(ById(S)) : ById(S)[i] \in S
         /\ \A o \in S : \E i \in 1..Len(ById(S)) : ById(S)[i] = o
         /\ \A i, j \in 1..Len(ById(S)) : i < j => ById(S)[i].id < ById(S)[j].id
<1> DEFINE n == Cardinality(S)
           s == ById(S)
<1>1. n \in Nat
  BY Places
<1>2. \A i \in 1..n : s[i] \in S /\ Place(s[i], S) = i
  BY EachPlace DEF ById
<1>3. s \in [1..n -> S]
  BY <1>2 DEF ById
<1>4. s \in Seq(S) /\ Len(s) = n
  BY <1>1, <1>3
<1>5. \A o \in S : \E i \in 1..n : s[i] = o
  <2> TAKE o \in S
  <2>1. Place(o, S) \in 1..n
    BY Places
  <2>2. s[Place(o, S)] = o
    BY <1>2, <2>1, EachPlace
  <2> QED BY <2>1, <2>2
<1>6. ASSUME NEW i \in 1..n, NEW j \in 1..n, i < j
      PROVE  s[i].id < s[j].id
  <2>1. ~ s[j].id < s[i].id
    BY <1>1, <1>2, <1>6, Places
  <2>2. s[i].id # s[j].id
    BY <1>2, <1>6, DiscoveryAssumption DEF DiscoveryAssumption
  <2> QED BY <1>2, <2>1, <2>2, DiscoveryAssumption DEF DiscoveryAssumption
<1> QED BY <1>2, <1>4, <1>5, <1>6

(* Sorting neither loses nor adds. *)
LEMMA SortedRange ==
  ASSUME NEW S \in SUBSET Objects
  PROVE  Range(ById(S)) = S
<1>1. ById(S) \in Seq(S) /\ DOMAIN ById(S) = 1..Len(ById(S))
  BY Sorted
<1>2. Range(ById(S)) = {ById(S)[i] : i \in 1..Len(ById(S))}
  BY <1>1 DEF Range
<1> QED BY <1>2, Sorted

-----------------------------------------------------------------------------
(* What a de-duplication keeps. *)

(* A map from each of some apps to an object of that app. *)
Keyed(store) ==
  /\ store \in [DOMAIN store -> Objects]
  /\ \A a \in DOMAIN store : store[a].app = a

Keys == [Objects -> Int]

(* The recursion of Best is well-founded: there is the sequence of stores   *)
(* that the loop goes through, and Best is the last of them.               *)
LEMMA Stores ==
  ASSUME NEW items \in Seq(Objects), NEW store, NEW key
  PROVE  \E kept : /\ kept[0] = store
                   /\ \A n \in 1..Len(items) :
                        kept[n] = KeepBest(kept[n - 1], items[n], key)
                   /\ Best(items, store, key) = kept[Len(items)]
<1> DEFINE N == Len(items)
           Rest(g, n) == IF n = 0 THEN store ELSE KeepBest(g[n - 1], items[n], key)
           Prefix(g, n) == g = [i \in 0..n |-> Rest(g, i)]
           S == {n \in 0..N : \E g : Prefix(g, n)}
           loop == CHOOSE g : Prefix(g, N)
<1>1. N \in Nat
  OBVIOUS
<1>2. 0 \in S
  <2> DEFINE g == [i \in 0..0 |-> store]
  <2>1. Prefix(g, 0)
    OBVIOUS
  <2> HIDE DEF g, Prefix
  <2> QED BY <1>1, <2>1
<1>3. ASSUME NEW n \in 1..N, n - 1 \in S PROVE n \in S
  <2>1. PICK g : Prefix(g, n - 1)
    BY <1>3
  <2> DEFINE h == [i \in 0..n |-> IF i = n THEN Rest(g, n) ELSE g[i]]
  <2>2. \A i \in 0..n : h[i] = Rest(h, i)
    <3> TAKE i \in 0..n
    <3> DEFINE Keep(st) == KeepBest(st, items[i], key)
    <3>1. i # 0 => h[i - 1] = g[i - 1]
      OBVIOUS
    <3>2. i # n => h[i] = g[i] /\ g[i] = Rest(g, i)
      BY <2>1
    <3>3. h[i] = Rest(g, i)
      BY <3>2
    <3> QED BY <3>1, <3>3
  <2>3. Prefix(h, n)
    <3>1. h = [i \in 0..n |-> h[i]]
      OBVIOUS
    <3> QED BY <2>2, <3>1
  <2> HIDE DEF h, Prefix
  <2> QED BY <1>1, <2>3
<1>4. \E g : Prefix(g, N)
  <2> HIDE DEF S
  <2>1. 0..N \subseteq S
    BY <1>1, <1>2, <1>3, UpTo
  <2>2. N \in S
    BY <1>1, <2>1
  <2> QED BY <2>2 DEF S
<1>5. Prefix(loop, N)
  BY <1>4
<1>6. Best(items, store, key) = loop[N]
  BY DEF Best
<1>7. \A n \in 0..N : loop[n] = Rest(loop, n)
  BY <1>5
<1>8. loop[0] = store /\ \A n \in 1..N : loop[n] = KeepBest(loop[n - 1], items[n], key)
  BY <1>1, <1>7
<1> HIDE DEF loop
<1> QED BY <1>6, <1>8

(* One step of the loop: the record takes the place of its app, or it is    *)
(* no better than the record that keeps it.                                *)
LEMMA KeepBestKeeps ==
  ASSUME NEW store, Keyed(store), NEW rec \in Objects, NEW key \in Keys
  PROVE  LET next == KeepBest(store, rec, key)
         IN  /\ Keyed(next)
             /\ DOMAIN next = DOMAIN store \cup {rec.app}
             /\ \A a \in DOMAIN store : a # rec.app => next[a] = store[a]
             /\ \/ /\ rec.app \in DOMAIN store
                   /\ next[rec.app] = store[rec.app]
                   /\ key[rec] <= key[store[rec.app]]
                \/ /\ next[rec.app] = rec
                   /\ rec.app \in DOMAIN store => key[store[rec.app]] < key[rec]
<1>1. rec.app \in DOMAIN store => key[store[rec.app]] \in Int
  BY DEF Keyed, Keys
<1>2. key[rec] \in Int
  BY DEF Keys
<1>3. CASE rec.app \in DOMAIN store /\ key[rec] <= key[store[rec.app]]
  BY <1>3 DEF KeepBest, Keyed
<1>4. CASE ~ (rec.app \in DOMAIN store /\ key[rec] <= key[store[rec.app]])
  <2> DEFINE D == DOMAIN store \cup {rec.app}
             next == [a \in D |-> IF a = rec.app THEN rec ELSE store[a]]
  <2>1. KeepBest(store, rec, key) = next
    BY <1>4 DEF KeepBest
  <2>2. Keyed(next) /\ DOMAIN next = D
    BY DEF Keyed
  <2>3. rec.app \in DOMAIN store => key[store[rec.app]] < key[rec]
    BY <1>1, <1>2, <1>4
  <2> QED BY <2>1, <2>2, <2>3
<1> QED BY <1>3, <1>4

(* The record of an app after the first n items: the one of the store, if   *)
(* none of the items is better, or the first of the best items.            *)
StaysIn(kept, items, n, store, key, a) ==
  /\ a \in DOMAIN store /\ kept[a] = store[a]
  /\ \A i \in 1..n : items[i].app = a => key[items[i]] <= key[kept[a]]

FirstBest(kept, items, n, store, key, a) ==
  \E i \in 1..n :
    /\ kept[a] = items[i]
    /\ a \in DOMAIN store => key[store[a]] < key[kept[a]]
    /\ \A j \in 1..n : items[j].app = a =>
         key[items[j]] < key[kept[a]] \/ (key[items[j]] = key[kept[a]] /\ i <= j)

IsBest(kept, items, n, store, key) ==
  /\ Keyed(kept)
  /\ DOMAIN kept = DOMAIN store \cup {items[i].app : i \in 1..n}
  /\ \A a \in DOMAIN kept : \/ StaysIn(kept, items, n, store, key, a)
                           \/ FirstBest(kept, items, n, store, key, a)

LEMMA BestStep ==
  ASSUME NEW items \in Seq(Objects), NEW n \in 1..Len(items), NEW key \in Keys,
         NEW store, Keyed(store), NEW kept, IsBest(kept, items, n - 1, store, key)
  PROVE  IsBest(KeepBest(kept, items[n], key), items, n, store, key)
<1> DEFINE next == KeepBest(kept, items[n], key)
           rec == items[n]
<1>0. /\ n \in Nat /\ 1..n = (1..(n - 1)) \cup {n}
      /\ \A i \in 1..n : items[i] \in Objects /\ key[items[i]] \in Int
  BY DEF Keys
<1>1. Keyed(kept) /\ DOMAIN kept = DOMAIN store \cup {items[i].app : i \in 1..(n - 1)}
  BY DEF IsBest
<1>2. /\ Keyed(next)
      /\ DOMAIN next = DOMAIN kept \cup {rec.app}
      /\ \A a \in DOMAIN kept : a # rec.app => next[a] = kept[a]
      /\ \/ /\ rec.app \in DOMAIN kept
            /\ next[rec.app] = kept[rec.app]
            /\ key[rec] <= key[kept[rec.app]]
         \/ /\ next[rec.app] = rec
            /\ rec.app \in DOMAIN kept => key[kept[rec.app]] < key[rec]
  BY <1>0, <1>1, KeepBestKeeps
<1> HIDE DEF next
<1>3. DOMAIN next = DOMAIN store \cup {items[i].app : i \in 1..n}
  BY <1>0, <1>1, <1>2
<1>4. \A a \in DOMAIN kept : key[kept[a]] \in Int
  BY <1>1 DEF Keyed, Keys
<1>5. \A a \in DOMAIN store : key[store[a]] \in Int
  BY DEF Keyed, Keys
<1>6. ASSUME NEW a \in DOMAIN next
      PROVE  \/ StaysIn(next, items, n, store, key, a)
             \/ FirstBest(next, items, n, store, key, a)
  <2>1. CASE a # rec.app
    <3>1. a \in DOMAIN kept /\ next[a] = kept[a]
      BY <1>2, <2>1
    <3>2. CASE StaysIn(kept, items, n - 1, store, key, a)
      BY <1>0, <2>1, <3>1, <3>2 DEF StaysIn
    <3>3. CASE FirstBest(kept, items, n - 1, store, key, a)
      BY <1>0, <2>1, <3>1, <3>3 DEF FirstBest
    <3> QED BY <3>1, <3>2, <3>3 DEF IsBest
  <2>2. CASE a = rec.app /\ a \in DOMAIN kept /\ next[a] = kept[a] /\ key[rec] <= key[kept[a]]
    <3>1. CASE StaysIn(kept, items, n - 1, store, key, a)
      BY <1>0, <2>2, <3>1 DEF StaysIn
    <3>2. CASE FirstBest(kept, items, n - 1, store, key, a)
      <4>1. PICK i \in 1..(n - 1) :
              /\ kept[a] = items[i]
              /\ a \in DOMAIN store => key[store[a]] < key[kept[a]]
              /\ \A j \in 1..(n - 1) : items[j].app = a =>
                   key[items[j]] < key[kept[a]] \/ (key[items[j]] = key[kept[a]] /\ i <= j)
        BY <3>2 DEF FirstBest
      <4>2. \A j \in 1..n : items[j].app = a =>
              key[items[j]] < key[kept[a]] \/ (key[items[j]] = key[kept[a]] /\ i <= j)
        BY <1>0, <1>4, <2>2, <4>1
      <4> QED BY <1>0, <2>2, <4>1, <4>2 DEF FirstBest
    <3> QED BY <2>2, <3>1, <3>2 DEF IsBest
  <2>3. CASE a = rec.app /\ next[a] = rec /\ (a \in DOMAIN kept => key[kept[a]] < key[rec])
    <3>1. \A j \in 1..(n - 1) : items[j].app = a => a \in DOMAIN kept
      BY <1>1
    <3>2. a \in DOMAIN kept => \A j \in 1..(n - 1) : items[j].app = a => key[items[j]] <= key[kept[a]]
      <4> SUFFICES ASSUME a \in DOMAIN kept, NEW j \in 1..(n - 1), items[j].app = a
                   PROVE  key[items[j]] <= key[kept[a]]
        OBVIOUS
      <4>1. CASE StaysIn(kept, items, n - 1, store, key, a)
        BY <4>1 DEF StaysIn
      <4>2. CASE FirstBest(kept, items, n - 1, store, key, a)
        BY <1>0, <1>4, <4>2 DEF FirstBest
      <4> QED BY <4>1, <4>2 DEF IsBest
    <3>3. \A j \in 1..n : items[j].app = a =>
            key[items[j]] < key[rec] \/ (key[items[j]] = key[rec] /\ n <= j)
      BY <1>0, <1>4, <2>3, <3>1, <3>2
    <3>4. a \in DOMAIN store => a \in DOMAIN kept /\ key[store[a]] <= key[kept[a]]
      <4> SUFFICES ASSUME a \in DOMAIN store
                   PROVE  a \in DOMAIN kept /\ key[store[a]] <= key[kept[a]]
        OBVIOUS
      <4>1. a \in DOMAIN kept
        BY <1>1
      <4>2. CASE StaysIn(kept, items, n - 1, store, key, a)
        BY <1>4, <4>1, <4>2 DEF StaysIn
      <4>3. CASE FirstBest(kept, items, n - 1, store, key, a)
        BY <1>4, <1>5, <4>1, <4>3 DEF FirstBest
      <4> QED BY <4>1, <4>2, <4>3 DEF IsBest
    <3>5. a \in DOMAIN store => key[store[a]] < key[rec]
      BY <1>0, <1>4, <1>5, <2>3, <3>4
    <3> QED BY <1>0, <2>3, <3>3, <3>5 DEF FirstBest
  <2> QED BY <1>2, <2>1, <2>2, <2>3
<1>7. IsBest(next, items, n, store, key)
  BY <1>2, <1>3, <1>6 DEF IsBest
<1> QED BY <1>7 DEF next

(* What the loop of a de-duplication leaves, for every list.                *)
LEMMA BestOfSequence ==
  ASSUME NEW items \in Seq(Objects), NEW key \in Keys, NEW store, Keyed(store)
  PROVE  IsBest(Best(items, store, key), items, Len(items), store, key)
<1>1. PICK kept : /\ kept[0] = store
                  /\ \A n \in 1..Len(items) :
                       kept[n] = KeepBest(kept[n - 1], items[n], key)
                  /\ Best(items, store, key) = kept[Len(items)]
  BY Stores
<1> DEFINE S == {n \in 0..Len(items) : IsBest(kept[n], items, n, store, key)}
<1>2. Len(items) \in Nat
  OBVIOUS
<1>3. 0 \in S
  <2>1. 1..0 = {} /\ {items[i].app : i \in 1..0} = {}
    OBVIOUS
  <2>2. \A a \in DOMAIN store : StaysIn(store, items, 0, store, key, a)
    BY <2>1 DEF StaysIn
  <2>3. IsBest(store, items, 0, store, key)
    BY <2>1, <2>2 DEF IsBest
  <2> QED BY <1>1, <1>2, <2>3
<1>4. ASSUME NEW n \in 1..Len(items), n - 1 \in S PROVE n \in S
  BY <1>1, <1>2, <1>4, BestStep
<1>5. 0..Len(items) \subseteq S
  <2> HIDE DEF S
  <2> QED BY <1>2, <1>3, <1>4, UpTo
<1>6. Len(items) \in S
  BY <1>2, <1>5
<1> QED BY <1>1, <1>6

(* The same of a set in the order of its IDs: the first of the best is the  *)
(* one with the smallest ID.                                               *)
BestOf(kept, S, store, key) ==
  /\ Keyed(kept)
  /\ DOMAIN kept = DOMAIN store \cup {o.app : o \in S}
  /\ \A a \in DOMAIN kept :
       \/ /\ a \in DOMAIN store /\ kept[a] = store[a]
          /\ \A o \in S : o.app = a => key[o] <= key[kept[a]]
       \/ /\ kept[a] \in S
          /\ a \in DOMAIN store => key[store[a]] < key[kept[a]]
          /\ \A o \in S : o.app = a =>
               key[o] < key[kept[a]] \/ (key[o] = key[kept[a]] /\ kept[a].id <= o.id)

LEMMA BestOfSet ==
  ASSUME NEW S \in SUBSET Objects, NEW key \in Keys, NEW store, Keyed(store)
  PROVE  BestOf(Best(ById(S), store, key), S, store, key)
<1> DEFINE items == ById(S)
           N == Len(items)
           kept == Best(items, store, key)
<1>1. /\ items \in Seq(Objects) /\ N \in Nat
      /\ \A i \in 1..N : items[i] \in S
      /\ \A o \in S : \E i \in 1..N : items[i] = o
      /\ \A i, j \in 1..N : i < j => items[i].id < items[j].id
  <2>1. items \in Seq(S)
    BY Sorted
  <2>2. items \in Seq(Objects) /\ N \in Nat
    BY <2>1
  <2>3. /\ \A i \in 1..N : items[i] \in S
        /\ \A o \in S : \E i \in 1..N : items[i] = o
        /\ \A i, j \in 1..N : i < j => items[i].id < items[j].id
    BY Sorted
  <2> HIDE DEF items, N
  <2> QED BY <2>2, <2>3
<1>2. IsBest(kept, items, N, store, key)
  BY <1>1, BestOfSequence
<1> HIDE DEF items, kept, N
<1>3. {items[i].app : i \in 1..N} = {o.app : o \in S}
  BY <1>1
<1>4. ASSUME NEW a \in DOMAIN kept, StaysIn(kept, items, N, store, key, a)
      PROVE  /\ a \in DOMAIN store /\ kept[a] = store[a]
             /\ \A o \in S : o.app = a => key[o] <= key[kept[a]]
  BY <1>1, <1>4 DEF StaysIn
<1>5. ASSUME NEW a \in DOMAIN kept, FirstBest(kept, items, N, store, key, a)
      PROVE  /\ kept[a] \in S
             /\ a \in DOMAIN store => key[store[a]] < key[kept[a]]
             /\ \A o \in S : o.app = a =>
                  key[o] < key[kept[a]] \/ (key[o] = key[kept[a]] /\ kept[a].id <= o.id)
  <2>1. PICK i \in 1..N :
          /\ kept[a] = items[i]
          /\ a \in DOMAIN store => key[store[a]] < key[kept[a]]
          /\ \A j \in 1..N : items[j].app = a =>
               key[items[j]] < key[kept[a]] \/ (key[items[j]] = key[kept[a]] /\ i <= j)
    BY <1>5 DEF FirstBest
  <2>2. \A o \in S : o.id \in Nat
    BY DiscoveryAssumption DEF DiscoveryAssumption
  <2>3. \A j \in 1..N : i <= j => items[i].id <= items[j].id
    BY <1>1, <2>2
  <2>4. ASSUME NEW o \in S, o.app = a
        PROVE  key[o] < key[kept[a]] \/ (key[o] = key[kept[a]] /\ kept[a].id <= o.id)
    <3>1. PICK j \in 1..N : items[j] = o
      BY <1>1
    <3> QED BY <2>1, <2>3, <2>4, <3>1
  <2> QED BY <1>1, <2>1, <2>4
<1>6. BestOf(kept, S, store, key)
  BY <1>2, <1>3, <1>4, <1>5 DEF IsBest, BestOf
<1> QED BY <1>6 DEF kept, items

LEMMA KeyTypes ==
  /\ Revision \in Keys /\ Priority \in Keys
  /\ Keyed(NoRelease) /\ DOMAIN NoRelease = {}
  /\ \A o \in Objects : /\ o.source = "argo" => Priority[o] = 0
                        /\ o.source = "secret" => Priority[o] = -1
                        /\ o.source = "configmap" => Priority[o] = -2
<1>1. Revision \in Keys
  BY DiscoveryAssumption DEF DiscoveryAssumption, Revision, Keys
<1>2. \A o \in Objects : /\ o.source = "argo" => Priority[o] = 0
                         /\ o.source = "secret" => Priority[o] = -1
                         /\ o.source = "configmap" => Priority[o] = -2
  <2>1. /\ sourceTypePriority("argo") = 0
        /\ sourceTypePriority("secret") = 1
        /\ sourceTypePriority("configmap") = 2
    BY DEF sourceTypePriority
  <2>2. \A o \in Objects : Priority[o] = - sourceTypePriority(o.source)
    BY DEF Priority
  <2> QED BY <2>1, <2>2
<1>3. Priority \in Keys
  <2>1. \A o \in Objects : o.source \in {"argo", "secret", "configmap"}
    BY DiscoveryAssumption DEF DiscoveryAssumption, SourceTypes
  <2>2. ASSUME NEW o \in Objects PROVE Priority[o] \in Int
    <3>1. Priority[o] \in {0, -1, -2}
      BY <1>2, <2>1
    <3> QED BY <3>1
  <2>3. Priority = [o \in Objects |-> Priority[o]]
    BY DEF Priority
  <2> QED BY <2>2, <2>3 DEF Keys
<1>4. Keyed(NoRelease) /\ DOMAIN NoRelease = {}
  BY DEF Keyed, NoRelease
<1> QED BY <1>1, <1>2, <1>3, <1>4

(* What Discover keeps of the records of its sources: of each app one of    *)
(* the best source, the first by ID, and the kept ones in the order of IDs. *)
Kept(rec, S) ==
  /\ rec \in S
  /\ \A o \in S : o.app = rec.app =>
       Priority[o] < Priority[rec] \/ (Priority[o] = Priority[rec] /\ rec.id <= o.id)

LEMMA Deduplicated ==
  ASSUME NEW S \in SUBSET Objects
  PROVE  LET records == deduplicateByApp(ById(S))
         IN  /\ Range(records) \subseteq S
             /\ \A o \in S : \E rec \in Range(records) : rec.app = o.app
             /\ \A rec \in Range(records) : Kept(rec, S)
             /\ \A i, j \in 1..Len(records) :
                  i < j => records[i].id < records[j].id /\ records[i].app # records[j].app
<1> DEFINE best == Best(ById(S), NoRelease, Priority)
           records == ById(Range(best))
<1>1. BestOf(best, S, NoRelease, Priority)
  BY BestOfSet, KeyTypes
<1> HIDE DEF best
<1>2. /\ Keyed(best) /\ DOMAIN best = {o.app : o \in S}
      /\ \A a \in DOMAIN best : best[a].app = a /\ Kept(best[a], S)
  BY <1>1, KeyTypes DEF BestOf, Kept, Keyed
<1>3. Range(best) \in SUBSET Objects
  BY <1>2 DEF Keyed, Range
<1>4. Range(records) = Range(best)
  BY <1>3, SortedRange
<1>5. ASSUME NEW i \in 1..Len(records), NEW j \in 1..Len(records), i < j
      PROVE  records[i].id < records[j].id /\ records[i].app # records[j].app
  <2>1. /\ records[i] \in Range(best) /\ records[j] \in Range(best)
        /\ records[i].id < records[j].id
    BY <1>3, <1>5, Sorted
  <2>2. records[i] # records[j]
    BY <1>3, <2>1, DiscoveryAssumption DEF DiscoveryAssumption
  <2> QED BY <1>2, <2>1, <2>2 DEF Range
<1>6. \A rec \in Range(best) : rec \in S /\ Kept(rec, S)
  BY <1>2 DEF Range, Kept
<1>7. \A o \in S : \E rec \in Range(best) : rec.app = o.app
  BY <1>2 DEF Range
<1>8. deduplicateByApp(ById(S)) = records
  BY DEF deduplicateByApp, best
<1> HIDE DEF records
<1> QED BY <1>4, <1>5, <1>6, <1>7, <1>8

-----------------------------------------------------------------------------
(* The inductive invariant. *)

(* A source fails at most once, and nothing is collected before its list:   *)
(* records of releases come with the end of the Helm source, one per app.  *)
Collected ==
  /\ pc = "argo" => failures = 0
  /\ pc \in {"secrets", "configmaps"} => failures <= 1
  /\ "helm" \in answered => pc \in {"merge", "done"}
  /\ Keyed(seenRelease)
  /\ pc \in {"argo", "secrets"} => seenRelease = NoRelease
  /\ \A a \in DOMAIN seenRelease : seenRelease[a].source # "argo"
  /\ pc \in {"argo", "secrets", "configmaps"} => \A o \in out : o.source = "argo"
  /\ \A o, p \in out :
       o.source # "argo" /\ p.source # "argo" /\ o.app = p.app => o = p

(* A steady object that has been listed is on its way to the result, and no *)
(* failure of the other source takes it away.                              *)
SteadyKept ==
  /\ steady \subseteq Active
  /\ "argo" \in answered =>
       \A o \in steady : o.source = "argo" => o \in out
  /\ pc = "configmaps" =>
       \A o \in steady : o.source = "secret" =>
         /\ o.app \in DOMAIN seenRelease
         /\ o.rev <= seenRelease[o.app].rev
  /\ "helm" \in answered =>
       \A o \in steady : o.source # "argo" =>
         \E rec \in out : rec.source # "argo" /\ rec.app = o.app /\ o.rev <= rec.rev

Applications == {o \in Active : o.source = "argo"}

PreferredOf(S) == {o \in S : \A p \in S : p.app = o.app => Preferred(o, p)}

(* While nothing changes and nothing fails, what has been collected is      *)
(* exactly what is there.                                                  *)
QuietSoFar ==
  quiet /\ flawless =>
    /\ failures = 0
    /\ pc = "argo" => out = {} /\ selector = "deployed"
    /\ pc \in {"secrets", "configmaps"} =>
         /\ out = Applications
         /\ selector = "owner" => HelmObjects \cap Active = {}
    /\ pc = "configmaps" =>
         BestOf(seenRelease, Selected("secret"), NoRelease, Revision)
    /\ pc = "merge" => out = Applications \cup PreferredOf(Candidates)

Inv ==
  /\ TypeOK
  /\ Collected
  /\ OneRecordPerApp
  /\ SteadyKept
  /\ SteadyObjectsAreFound
  /\ QuietSoFar
  /\ QuietPassIsExact

-----------------------------------------------------------------------------
(* Each part of the invariant holds at first and is kept by every step. *)

LEMMA InitInv == Init => Inv
<1> SUFFICES ASSUME Init PROVE Inv
  OBVIOUS
<1>1. Active \subseteq Objects /\ Len(<<>>) = 0 /\ Range(<<>>) = {}
  BY DEF Active, Range
<1>2. Keyed(NoRelease) /\ DOMAIN NoRelease = {}
  BY KeyTypes
<1>3. TypeOK
  <2>1. {failed, quiet, flawless} \subseteq BOOLEAN
    BY Zenon DEF Init
  <2>2. changes \in 0..MaxChanges /\ failures \in 0..2
    BY DiscoveryAssumption DEF Init, DiscoveryAssumption
  <2>3. Range(seenRelease) \subseteq Objects /\ Range(result) \subseteq Objects
    BY <1>1, <1>2 DEF Init, Range
  <2> QED BY <1>1, <2>1, <2>2, <2>3 DEF Init, TypeOK
<1>4. Collected
  BY <1>2 DEF Init, Collected
<1>5. OneRecordPerApp
  BY <1>1 DEF Init, OneRecordPerApp
<1>6. SteadyKept
  BY DEF Init, SteadyKept
<1>7. SteadyObjectsAreFound /\ QuietSoFar /\ QuietPassIsExact
  BY DEF Init, SteadyObjectsAreFound, QuietSoFar, QuietPassIsExact, Returned
<1> QED BY <1>3, <1>4, <1>5, <1>6, <1>7 DEF Inv

(* What a list of releases adds to the candidates. *)
LEMMA Considered ==
  ASSUME Keyed(seenRelease), NEW source
  PROVE  /\ Selected(source) \subseteq Objects
         /\ BestOf(Consider(source), Selected(source), seenRelease, Revision)
<1>1. Selected(source) \in SUBSET Objects
  BY DEF Selected
<1> QED BY <1>1, BestOfSet, KeyTypes DEF Consider, considerLatest

LEMMA KeyedRange ==
  ASSUME NEW store, Keyed(store)
  PROVE  /\ Range(store) \subseteq Objects
         /\ \A o, p \in Range(store) : o.app = p.app => o = p
BY DEF Keyed, Range

(* The candidates are storage objects of the lists taken so far. *)
LEMMA ConsideredSource ==
  ASSUME Collected, NEW source \in {"secret", "configmap"}
  PROVE  \A a \in DOMAIN Consider(source) : Consider(source)[a].source # "argo"
<1>1. BestOf(Consider(source), Selected(source), seenRelease, Revision)
  BY Considered DEF Collected
<1>2. \A o \in Selected(source) : o.source # "argo"
  BY DEF Selected
<1> HIDE DEF Consider
<1> QED BY <1>1, <1>2 DEF BestOf, Collected

LEMMA TypeStep ==
  ASSUME TypeOK, Collected, [Next]_vars
  PROVE  TypeOK'
<1> USE DEF TypeOK
<1>1. CASE ListApplications
  BY <1>1 DEF ListApplications, cluster, Active
<1>2. CASE ApplicationsFail
  <2>1. {failed', quiet', flawless'} \subseteq BOOLEAN
    BY <1>2, Zenon DEF ApplicationsFail, cluster
  <2>2. failures' \in 0..2
    BY <1>2 DEF ApplicationsFail, Collected
  <2> QED BY <1>2, <2>1, <2>2 DEF ApplicationsFail, cluster
<1>3. CASE ListSecrets
  <2>1. Keyed(Consider("secret"))
    BY Considered DEF BestOf, Collected
  <2>2. Range(Consider("secret")) \subseteq Objects
    BY <2>1, KeyedRange
  <2> HIDE DEF Consider
  <2> QED BY <1>3, <2>2 DEF ListSecrets, cluster
<1>4. CASE ListConfigMaps
  <2>1. Keyed(Consider("configmap"))
    BY Considered DEF BestOf, Collected
  <2>2. Range(Consider("configmap")) \subseteq Objects /\ Range(NoRelease) \subseteq Objects
    BY <2>1, KeyedRange, KeyTypes
  <2> HIDE DEF Consider
  <2> QED BY <1>4, <2>2 DEF ListConfigMaps, cluster
<1>5. CASE ReleasesFail
  <2>1. Range(NoRelease) \subseteq Objects
    BY KeyedRange, KeyTypes
  <2>2. {failed', quiet', flawless'} \subseteq BOOLEAN
    BY <1>5, Zenon DEF ReleasesFail, cluster
  <2>3. failures' \in 0..2
    BY <1>5 DEF ReleasesFail, Collected
  <2> QED BY <1>5, <2>1, <2>2, <2>3 DEF ReleasesFail, cluster
<1>6. CASE Merge
  <2>1. Range(deduplicateByApp(ById(out))) \subseteq Objects
    BY Deduplicated
  <2> HIDE DEF deduplicateByApp
  <2> QED BY <1>6, <2>1 DEF Merge, cluster
<1>7. CASE Change
  <2>1. {failed', quiet', flawless'} \subseteq BOOLEAN
    BY <1>7, Zenon DEF Change
  <2>2. changes' \in 0..MaxChanges
    BY <1>7, DiscoveryAssumption DEF Change, DiscoveryAssumption
  <2>3. state' \in [Objects -> {"absent", "inactive", "active"}] /\ steady' \subseteq Objects
    BY <1>7 DEF Change
  <2> QED BY <1>7, <2>1, <2>2, <2>3 DEF Change
<1>8. CASE Finished \/ UNCHANGED vars
  BY <1>8 DEF Finished, vars, cluster
<1> QED BY <1>1, <1>2, <1>3, <1>4, <1>5, <1>6, <1>7, <1>8 DEF Next

LEMMA CollectedStep ==
  ASSUME TypeOK, Collected, [Next]_vars
  PROVE  Collected'
<1> USE DEF TypeOK, Collected
<1>1. CASE ListApplications
  BY <1>1 DEF ListApplications
<1>2. CASE ApplicationsFail
  BY <1>2 DEF ApplicationsFail
<1>3. CASE ListSecrets
  <2>1. Keyed(Consider("secret"))
    BY Considered DEF BestOf
  <2>2. \A a \in DOMAIN Consider("secret") : Consider("secret")[a].source # "argo"
    BY ConsideredSource
  <2> HIDE DEF Consider
  <2> QED BY <1>3, <2>1, <2>2 DEF ListSecrets
<1>4. CASE ListConfigMaps
  <2> DEFINE releases == Consider("configmap")
  <2>1. \A o, p \in Range(releases) : o.app = p.app => o = p
    BY Considered, KeyedRange DEF BestOf
  <2>2. \A o \in Range(releases) : o.source # "argo"
    BY ConsideredSource DEF Range
  <2>3. /\ seenRelease' = NoRelease /\ failures' = failures
        /\ \/ pc' = "merge" /\ out' = out \cup Range(releases)
           \/ pc' = "secrets" /\ out' = out
    BY <1>4 DEF ListConfigMaps
  <2> HIDE DEF releases
  <2> QED BY <1>4, <2>1, <2>2, <2>3, KeyTypes DEF ListConfigMaps
<1>5. CASE ReleasesFail
  BY <1>5, KeyTypes DEF ReleasesFail
<1>6. CASE Merge
  BY <1>6 DEF Merge
<1>7. CASE Change
  BY <1>7 DEF Change
<1>8. CASE Finished \/ UNCHANGED vars
  BY <1>8 DEF Finished, vars
<1> QED BY <1>1, <1>2, <1>3, <1>4, <1>5, <1>6, <1>7, <1>8 DEF Next

(* The result is made by one step, of whatever has been collected. *)
LEMMA OneRecordStep ==
  ASSUME TypeOK, OneRecordPerApp, [Next]_vars
  PROVE  OneRecordPerApp'
<1>1. CASE result' = result
  BY <1>1 DEF OneRecordPerApp
<1>2. CASE Merge /\ result' = deduplicateByApp(ById(out))
  <2>1. \A i, j \in 1..Len(deduplicateByApp(ById(out))) :
          i < j => /\ deduplicateByApp(ById(out))[i].id < deduplicateByApp(ById(out))[j].id
                   /\ deduplicateByApp(ById(out))[i].app # deduplicateByApp(ById(out))[j].app
    BY Deduplicated DEF TypeOK
  <2> HIDE DEF deduplicateByApp
  <2> QED BY <1>2, <2>1 DEF OneRecordPerApp
<1> QED BY <1>1, <1>2 DEF Next, ListApplications, ApplicationsFail, ListSecrets,
           ListConfigMaps, ReleasesFail, Merge, Finished, Change, vars

(* A steady object is on every list of its kind, and its app then has a     *)
(* candidate that is not older.                                            *)
LEMMA SteadyListed ==
  ASSUME TypeOK, Collected, SteadyKept, NEW source \in {"secret", "configmap"}
  PROVE  LET releases == Consider(source)
         IN  /\ \A o \in steady : o.source = source =>
                  o.app \in DOMAIN releases /\ o.rev <= releases[o.app].rev
             /\ \A a \in DOMAIN seenRelease :
                  a \in DOMAIN releases /\ seenRelease[a].rev <= releases[a].rev
<1> DEFINE releases == Consider(source)
<1>1. BestOf(releases, Selected(source), seenRelease, Revision)
  BY Considered DEF Collected
<1> HIDE DEF releases
<1>2. Keyed(releases) /\ Keyed(seenRelease)
  BY <1>1 DEF BestOf, Collected
<1>3. \A o \in Objects : Revision[o] = o.rev /\ o.rev \in Int
  BY DiscoveryAssumption DEF DiscoveryAssumption, Revision
<1>4. \A o \in steady : o.source = source => o \in Selected(source)
  BY DEF Selected, SteadyKept, Active
<1>5. \A o \in Selected(source) : o \in Objects
  BY DEF Selected
<1>6. \A a \in DOMAIN releases : releases[a] \in Objects
  BY <1>2 DEF Keyed
<1>7. \A a \in DOMAIN seenRelease : seenRelease[a] \in Objects
  BY <1>2 DEF Keyed
<1>8. \A o \in Selected(source) : o.app \in DOMAIN releases /\ o.rev <= releases[o.app].rev
  BY <1>1, <1>3, <1>5, <1>6 DEF BestOf
<1>9. \A a \in DOMAIN seenRelease : a \in DOMAIN releases /\ seenRelease[a].rev <= releases[a].rev
  BY <1>1, <1>3, <1>6, <1>7 DEF BestOf
<1> QED BY <1>4, <1>8, <1>9 DEF releases

LEMMA SteadyStep ==
  ASSUME TypeOK, Collected, SteadyKept, [Next]_vars
  PROVE  SteadyKept'
<1> USE DEF SteadyKept
<1>1. CASE ListApplications
  <2>1. "helm" \notin answered'
    BY <1>1 DEF ListApplications, Collected
  <2> QED BY <1>1, <2>1 DEF ListApplications, cluster, Active
<1>2. CASE ApplicationsFail
  BY <1>2 DEF ApplicationsFail, cluster, Active
<1>3. CASE ListSecrets
  <2> DEFINE releases == Consider("secret")
  <2>1. \A o \in steady : o.source = "secret" =>
          o.app \in DOMAIN releases /\ o.rev <= releases[o.app].rev
    BY SteadyListed
  <2>2. seenRelease' = releases /\ pc' = "configmaps"
    BY <1>3 DEF ListSecrets
  <2> HIDE DEF releases
  <2>3. UNCHANGED <<steady, state, out, answered>>
    BY <1>3 DEF ListSecrets, cluster
  <2> QED BY <2>1, <2>2, <2>3 DEF Active
<1>4. CASE ListConfigMaps
  <2> DEFINE releases == Consider("configmap")
  <2>1. \A o \in steady : o.source = "configmap" =>
          o.app \in DOMAIN releases /\ o.rev <= releases[o.app].rev
    BY SteadyListed
  <2>2. \A a \in DOMAIN seenRelease :
          a \in DOMAIN releases /\ seenRelease[a].rev <= releases[a].rev
    BY SteadyListed
  <2>3. /\ pc = "configmaps" /\ "helm" \notin answered
        /\ UNCHANGED <<steady, state>>
        /\ \/ /\ pc' = "merge" /\ out' = out \cup Range(releases)
              /\ answered' = answered \cup {"helm"}
           \/ /\ pc' = "secrets" /\ UNCHANGED <<out, answered>>
    BY <1>4 DEF ListConfigMaps, cluster, Collected
  <2>4. Keyed(releases) /\ \A a \in DOMAIN releases : releases[a].source # "argo"
    BY Considered, ConsideredSource DEF BestOf, Collected
  <2> HIDE DEF releases
  <2>5. ASSUME NEW o \in steady, o.source # "argo"
        PROVE  o.app \in DOMAIN releases /\ o.rev <= releases[o.app].rev
    <3>1. o \in Objects /\ o.source \in {"secret", "configmap"} /\ o.rev \in Int
      BY <2>5, DiscoveryAssumption DEF TypeOK, DiscoveryAssumption, SourceTypes
    <3>2. CASE o.source = "configmap"
      BY <2>1, <3>2
    <3>3. CASE o.source = "secret"
      <4>1. o.app \in DOMAIN seenRelease /\ o.rev <= seenRelease[o.app].rev
        BY <2>3, <3>3
      <4>2. seenRelease[o.app] \in Objects /\ releases[o.app] \in Objects
        BY <2>2, <2>4, <4>1 DEF Keyed, Collected
      <4>3. seenRelease[o.app].rev \in Int /\ releases[o.app].rev \in Int
        BY <4>2, DiscoveryAssumption DEF DiscoveryAssumption
      <4> QED BY <2>2, <3>1, <4>1, <4>3
    <3> QED BY <3>1, <3>2, <3>3
  <2>6. ASSUME pc' = "merge", NEW o \in steady, o.source # "argo"
        PROVE  \E rec \in out' : rec.source # "argo" /\ rec.app = o.app /\ o.rev <= rec.rev
    <3>1. releases[o.app] \in Range(releases) /\ releases[o.app].app = o.app
      BY <2>4, <2>5, <2>6 DEF Range, Keyed
    <3> QED BY <2>3, <2>4, <2>5, <2>6, <3>1
  <2> QED BY <2>3, <2>6 DEF Active
<1>5. CASE ReleasesFail
  BY <1>5 DEF ReleasesFail, cluster, Active
<1>6. CASE Merge
  BY <1>6 DEF Merge, cluster, Active
<1>7. CASE Change
  BY <1>7 DEF Change, Active, TypeOK
<1>8. CASE Finished \/ UNCHANGED vars
  BY <1>8 DEF Finished, vars, cluster, Active
<1> QED BY <1>1, <1>2, <1>3, <1>4, <1>5, <1>6, <1>7, <1>8 DEF Next

(* The merge keeps a record of every app, an Application if there is one,   *)
(* and the release otherwise, of which there is one only.                  *)
LEMMA SteadyFoundStep ==
  ASSUME TypeOK, Collected, SteadyKept, SteadyObjectsAreFound, [Next]_vars
  PROVE  SteadyObjectsAreFound'
<1>1. CASE Merge
  <2> DEFINE records == deduplicateByApp(ById(out))
  <2>1. /\ Range(records) \subseteq out
        /\ \A o \in out : \E rec \in Range(records) : rec.app = o.app
        /\ \A rec \in Range(records) : Kept(rec, out)
    BY Deduplicated DEF TypeOK
  <2> HIDE DEF records
  <2>2. SUFFICES ASSUME Returned', NEW o \in steady, SourceOf(o) \in answered
                 PROVE  \E rec \in Records' :
                          /\ rec.app = o.app
                          /\ o.source = "argo" => rec.source = "argo"
                          /\ rec.source # "argo" => rec.rev >= o.rev
    BY <1>1 DEF SteadyObjectsAreFound, Merge, cluster
  <2>3. result' = records
    BY <1>1, <2>2 DEF Merge, Returned, records
  <2>4. /\ Records' = Range(records)
        /\ \A rec \in Range(records) : rec \in Objects /\ rec \in out
    BY <2>1, <2>3 DEF Records, TypeOK
  <2>5. \A p \in Objects : p.source \in SourceTypes /\ p.rev \in Int
    BY DiscoveryAssumption DEF DiscoveryAssumption
  <2>6. \A p, q \in Objects :
          p.source = "argo" /\ q.source # "argo" => Priority[q] < Priority[p]
    BY <2>5, KeyTypes DEF SourceTypes
  <2>7. \A p \in Objects : Priority[p] \in Int
    BY KeyTypes DEF Keys
  <2>8. CASE o.source = "argo"
    <3>1. o \in out /\ o \in Objects
      BY <2>2, <2>8 DEF SteadyKept, SourceOf, TypeOK
    <3>2. PICK rec \in Range(records) : rec.app = o.app
      BY <2>1, <3>1
    <3>3. rec.source = "argo"
      BY <2>1, <2>4, <2>6, <2>7, <2>8, <3>1, <3>2 DEF Kept
    <3> QED BY <2>4, <3>2, <3>3
  <2>9. CASE o.source # "argo"
    <3>1. PICK p \in out : p.source # "argo" /\ p.app = o.app /\ o.rev <= p.rev
      BY <2>2, <2>9 DEF SteadyKept, SourceOf
    <3>2. PICK rec \in Range(records) : rec.app = o.app
      BY <2>1, <3>1
    <3>3. rec.source # "argo" => rec = p
      BY <2>4, <3>1, <3>2 DEF Collected
    <3>4. o \in Objects /\ p \in Objects
      BY <3>1 DEF TypeOK
    <3> QED BY <2>4, <2>5, <2>9, <3>1, <3>2, <3>3, <3>4
  <2> QED BY <2>8, <2>9
<1>2. CASE pc' # "done"
  BY <1>2 DEF SteadyObjectsAreFound, Returned
<1>3. CASE Finished \/ UNCHANGED vars
  BY <1>3 DEF Finished, vars, cluster, SteadyObjectsAreFound, Returned, Records
<1>4. Change => pc' # "done"
  BY DEF Change
<1> QED BY <1>1, <1>2, <1>3, <1>4 DEF Next, ListApplications, ApplicationsFail,
           ListSecrets, ListConfigMaps, ReleasesFail

(* The two lists of releases, taken one after the other, leave the          *)
(* preferred one of each app.                                              *)
LEMMA BothLists ==
  ASSUME NEW S \in SUBSET {o \in Objects : o.source = "secret"},
         NEW C \in SUBSET {o \in Objects : o.source = "configmap"},
         NEW seen, BestOf(seen, S, NoRelease, Revision),
         NEW both, BestOf(both, C, seen, Revision)
  PROVE  Range(both) = PreferredOf(S \cup C)
<1>1. DOMAIN NoRelease = {} /\ Keyed(seen) /\ Keyed(both)
  BY KeyTypes DEF BestOf
<1>2. \A o \in S \cup C : /\ o \in Objects /\ Revision[o] = o.rev
                         /\ o.rev \in Int /\ o.id \in Nat
  BY DiscoveryAssumption DEF DiscoveryAssumption, Revision
<1>3. \A a \in DOMAIN seen :
        /\ seen[a] \in S /\ seen[a].app = a
        /\ \A o \in S : o.app = a =>
             o.rev < seen[a].rev \/ (o.rev = seen[a].rev /\ seen[a].id <= o.id)
  BY <1>1, <1>2 DEF BestOf, Keyed
<1>4. DOMAIN seen = {o.app : o \in S}
  BY <1>1 DEF BestOf
<1>5. DOMAIN both = {o.app : o \in S \cup C}
  <2>1. DOMAIN both = DOMAIN seen \cup {o.app : o \in C}
    BY DEF BestOf
  <2> QED BY <1>4, <2>1
<1>6. ASSUME NEW a \in DOMAIN both
      PROVE  both[a] \in PreferredOf(S \cup C) /\ both[a].app = a
  <2>1. both[a].app = a
    BY <1>1 DEF Keyed
  <2>2. CASE a \in DOMAIN seen /\ both[a] = seen[a]
             /\ \A o \in C : o.app = a => Revision[o] <= Revision[both[a]]
    <3>1. both[a] \in S /\ both[a].source = "secret"
      BY <1>3, <2>2
    <3>2. ASSUME NEW p \in S, p.app = a PROVE Preferred(both[a], p)
      BY <1>2, <1>3, <2>2, <3>1, <3>2 DEF Preferred
    <3>3. ASSUME NEW p \in C, p.app = a PROVE Preferred(both[a], p)
      BY <1>2, <2>2, <3>1, <3>3 DEF Preferred
    <3> QED BY <2>1, <3>1, <3>2, <3>3 DEF PreferredOf
  <2>3. CASE /\ both[a] \in C
             /\ a \in DOMAIN seen => Revision[seen[a]] < Revision[both[a]]
             /\ \A o \in C : o.app = a =>
                  \/ Revision[o] < Revision[both[a]]
                  \/ Revision[o] = Revision[both[a]] /\ both[a].id <= o.id
    <3>1. both[a].source = "configmap"
      BY <2>3
    <3>2. ASSUME NEW p \in C, p.app = a PROVE Preferred(both[a], p)
      BY <1>2, <2>3, <3>1, <3>2 DEF Preferred
    <3>3. ASSUME NEW p \in S, p.app = a PROVE Preferred(both[a], p)
      <4>1. a \in DOMAIN seen
        BY <1>4, <3>3
      <4>2. seen[a] \in S /\ p.rev <= seen[a].rev
        BY <1>2, <1>3, <3>3, <4>1
      <4>3. p.rev < both[a].rev
        BY <1>2, <2>3, <4>1, <4>2
      <4> QED BY <1>2, <2>3, <3>1, <3>3, <4>3 DEF Preferred
    <3> QED BY <2>1, <2>3, <3>2, <3>3 DEF PreferredOf
  <2> QED BY <2>1, <2>2, <2>3 DEF BestOf
<1>7. ASSUME NEW o \in PreferredOf(S \cup C) PROVE o \in Range(both)
  <2>1. o \in S \cup C /\ o.app \in DOMAIN both
    BY <1>5 DEF PreferredOf
  <2> DEFINE p == both[o.app]
  <2>2. p \in S \cup C /\ p.app = o.app /\ Preferred(p, o)
    BY <1>6, <2>1 DEF PreferredOf
  <2>3. Preferred(o, p)
    BY <2>2 DEF PreferredOf
  <2>4. o.id = p.id
    BY <1>2, <2>1, <2>2, <2>3 DEF Preferred
  <2>5. o = p
    BY <1>2, <2>1, <2>2, <2>4, DiscoveryAssumption DEF DiscoveryAssumption
  <2> QED BY <2>1, <2>5 DEF Range
<1>8. Range(both) \subseteq PreferredOf(S \cup C)
  BY <1>6 DEF Range
<1> QED BY <1>7, <1>8

LEMMA QuietStep ==
  ASSUME TypeOK, Collected, QuietSoFar, [Next]_vars
  PROVE  QuietSoFar'
<1> SUFFICES ASSUME quiet', flawless' PROVE QuietSoFar'
  BY DEF QuietSoFar
<1>1. CASE ListApplications
  BY <1>1 DEF ListApplications, cluster, QuietSoFar, Applications, HelmObjects, Active
<1>2. CASE ListSecrets
  <2> DEFINE releases == Consider("secret")
  <2>1. BestOf(releases, Selected("secret"), NoRelease, Revision)
    BY <1>2, Considered DEF ListSecrets, Collected
  <2>2. seenRelease' = releases
    BY <1>2 DEF ListSecrets
  <2>3. Selected("secret")' = Selected("secret") /\ HelmObjects' = HelmObjects
        /\ Active' = Active /\ Applications' = Applications
    BY <1>2 DEF ListSecrets, cluster, Selected, HelmObjects, Active, Applications
  <2>4. BestOf(seenRelease', Selected("secret")', NoRelease, Revision)
    BY <2>1, <2>2, <2>3
  <2> HIDE DEF releases
  <2> QED BY <1>2, <2>3, <2>4 DEF ListSecrets, cluster, QuietSoFar
<1>3. CASE ListConfigMaps
  <2> DEFINE releases == Consider("configmap")
             S == Selected("secret")
             C == Selected("configmap")
  <2>1. quiet /\ flawless
    BY <1>3 DEF ListConfigMaps, cluster
  <2>2. BestOf(seenRelease, S, NoRelease, Revision)
    BY <1>3, <2>1 DEF ListConfigMaps, QuietSoFar
  <2>3. BestOf(releases, C, seenRelease, Revision)
    BY Considered DEF Collected
  <2>4. /\ S \in SUBSET {o \in Objects : o.source = "secret"}
        /\ C \in SUBSET {o \in Objects : o.source = "configmap"}
    BY DEF Selected
  <2>5. Range(releases) = PreferredOf(S \cup C)
    BY <2>2, <2>3, <2>4, BothLists
  <2>6. DOMAIN releases = {o.app : o \in S \cup C}
    <3> HIDE DEF releases, S, C
    <3>1. DOMAIN seenRelease = {o.app : o \in S}
      BY <2>2, KeyTypes DEF BestOf
    <3>2. DOMAIN releases = DOMAIN seenRelease \cup {o.app : o \in C}
      BY <2>3 DEF BestOf
    <3> QED BY <3>1, <3>2
  <2>7. HelmObjects' = HelmObjects /\ Active' = Active /\ Applications' = Applications
        /\ Candidates' = Candidates
    BY <1>3 DEF ListConfigMaps, cluster, HelmObjects, Active, Applications, Candidates
  <2>8. PreferredOf(Candidates)' = PreferredOf(Candidates)
    BY <2>7 DEF PreferredOf, Preferred
  <2>9. \A o \in Objects : o.source \in {"argo", "secret", "configmap"}
    BY DiscoveryAssumption DEF DiscoveryAssumption, SourceTypes
  <2>10. selector = "owner" => S \cup C = HelmObjects
    BY <2>9 DEF Selected, HelmObjects, TypeOK
  <2>11. selector = "deployed" => S \cup C = HelmObjects \cap Active
    BY <2>9 DEF Selected, HelmObjects, Active, TypeOK
  <2> HIDE DEF releases, S, C
  <2>12. CASE selector = "owner" \/ DOMAIN releases # {}
    <3>1. S \cup C = Candidates
      <4>1. CASE selector = "owner"
        BY <1>3, <2>1, <2>10, <4>1 DEF ListConfigMaps, QuietSoFar, Candidates
      <4>2. CASE selector = "deployed"
        BY <2>6, <2>11, <2>12, <4>2 DEF Candidates
      <4> QED BY <4>1, <4>2 DEF TypeOK
    <3>2. out' = Applications \cup PreferredOf(Candidates)
      BY <1>3, <2>1, <2>5, <2>12, <3>1 DEF ListConfigMaps, QuietSoFar, releases
    <3> QED BY <1>3, <2>1, <2>7, <2>8, <2>12, <3>2 DEF ListConfigMaps, QuietSoFar, releases
  <2>13. CASE ~ (selector = "owner" \/ DOMAIN releases # {})
    <3>1. HelmObjects \cap Active = {}
      BY <2>6, <2>11, <2>13 DEF TypeOK
    <3>2. pc' = "secrets" /\ selector' = "owner" /\ out' = out /\ failures' = failures
      BY <1>3, <2>13 DEF ListConfigMaps, releases
    <3>3. failures = 0 /\ out = Applications
      BY <1>3, <2>1 DEF ListConfigMaps, QuietSoFar
    <3> QED BY <2>7, <3>1, <3>2, <3>3 DEF QuietSoFar
  <2> QED BY <2>12, <2>13
<1>4. CASE Merge
  BY <1>4 DEF Merge, cluster, QuietSoFar
<1>5. CASE ApplicationsFail \/ ReleasesFail \/ Change
  BY <1>5 DEF ApplicationsFail, ReleasesFail, Change
<1>6. CASE Finished \/ UNCHANGED vars
  <2>1. UNCHANGED vars
    BY <1>6 DEF Finished
  <2>2. /\ HelmObjects' = HelmObjects /\ Active' = Active /\ Applications' = Applications
        /\ Candidates' = Candidates /\ Selected("secret")' = Selected("secret")
    BY <2>1 DEF vars, cluster, HelmObjects, Active, Applications, Candidates, Selected
  <2>3. PreferredOf(Candidates)' = PreferredOf(Candidates)
    BY <2>2 DEF PreferredOf, Preferred
  <2>4. BestOf(seenRelease, Selected("secret"), NoRelease, Revision)
        => BestOf(seenRelease', Selected("secret")', NoRelease, Revision)
    BY <2>1, <2>2 DEF vars
  <2> QED BY <2>1, <2>2, <2>3, <2>4 DEF vars, cluster, QuietSoFar
<1> QED BY <1>1, <1>2, <1>3, <1>4, <1>5, <1>6 DEF Next

(* Of what has been collected in a quiet pass the merge keeps what it       *)
(* should: an Application before a release, and the preferred of each.     *)
LEMMA MergeIsExact ==
  ASSUME out = Applications \cup PreferredOf(Candidates)
  PROVE  Range(deduplicateByApp(ById(out))) = Expected
<1> DEFINE records == deduplicateByApp(ById(out))
           all == Applications \cup Candidates
<1>1. Expected = PreferredOf(all)
  BY DEF Expected, PreferredOf, Applications
<1>2. /\ all \subseteq Objects
      /\ \A o \in Applications : o.source = "argo"
      /\ \A o \in Candidates : o.source # "argo"
  BY DEF Applications, Active, Candidates, HelmObjects
<1>3. PreferredOf(Candidates) \subseteq Candidates
  BY DEF PreferredOf
<1>4. out \subseteq all /\ out \subseteq Objects
  BY <1>2, <1>3
<1>5. /\ Range(records) \subseteq out
      /\ \A o \in out : \E rec \in Range(records) : rec.app = o.app
      /\ \A rec \in Range(records) : Kept(rec, out)
  BY <1>4, Deduplicated
<1> HIDE DEF records, all
<1>6. \A o \in Objects : /\ Priority[o] \in Int /\ o.id \in Nat /\ o.rev \in Int
                        /\ o.source \in {"argo", "secret", "configmap"}
  BY KeyTypes, DiscoveryAssumption DEF Keys, DiscoveryAssumption, SourceTypes
<1>7. \A p, q \in Objects :
        /\ p.source = "argo" /\ q.source = "argo" => Priority[p] = Priority[q]
        /\ p.source = "argo" /\ q.source # "argo" => Priority[q] < Priority[p]
  BY <1>6, KeyTypes
<1>8. ASSUME NEW rec \in Range(records) PROVE rec \in PreferredOf(all)
  <2>1. rec \in out /\ rec \in all /\ rec \in Objects /\ Kept(rec, out)
    BY <1>4, <1>5
  <2>2. ASSUME NEW p \in all, p.app = rec.app PROVE Preferred(rec, p)
    <3>1. p \in Objects /\ (p.source = "argo" => p \in out)
      BY <1>2 DEF all
    <3>2. CASE rec.source = "argo" /\ p.source # "argo"
      BY <3>2 DEF Preferred
    <3>3. CASE rec.source = "argo" /\ p.source = "argo"
      <4>1. rec.id <= p.id
        BY <1>6, <1>7, <2>1, <2>2, <3>1, <3>3 DEF Kept
      <4> QED BY <3>3, <4>1 DEF Preferred
    <3>4. CASE rec.source # "argo" /\ p.source = "argo"
      <4>1. Priority[rec] < Priority[p]
        BY <1>7, <2>1, <3>1, <3>4
      <4>2. Priority[p] <= Priority[rec]
        BY <1>6, <2>1, <2>2, <3>1, <3>4 DEF Kept
      <4> QED BY <1>6, <2>1, <3>1, <4>1, <4>2
    <3>5. CASE rec.source # "argo" /\ p.source # "argo"
      <4>1. rec \in PreferredOf(Candidates) /\ p \in Candidates
        BY <1>2, <2>1, <3>5 DEF all
      <4> QED BY <2>2, <4>1 DEF PreferredOf
    <3> QED BY <3>2, <3>3, <3>4, <3>5
  <2> QED BY <2>1, <2>2 DEF PreferredOf
<1>9. ASSUME NEW o \in PreferredOf(all) PROVE o \in Range(records)
  <2>1. o \in all /\ o \in Objects
    BY <1>2 DEF PreferredOf, all
  <2>2. o \in out
    BY DEF PreferredOf, all
  <2>3. PICK rec \in Range(records) : rec.app = o.app
    BY <1>5, <2>2
  <2>4. rec \in PreferredOf(all) /\ rec \in all /\ rec \in Objects
    BY <1>8, <1>4, <1>5, <2>3
  <2>5. Preferred(o, rec) /\ Preferred(rec, o)
    BY <2>1, <2>3, <2>4 DEF PreferredOf
  <2>6. o.id = rec.id
    BY <1>6, <2>1, <2>4, <2>5 DEF Preferred
  <2>7. o = rec
    BY <2>1, <2>4, <2>6, DiscoveryAssumption DEF DiscoveryAssumption
  <2> QED BY <2>7
<1> QED BY <1>1, <1>8, <1>9 DEF records

LEMMA ExactStep ==
  ASSUME TypeOK, QuietSoFar, QuietPassIsExact, [Next]_vars
  PROVE  QuietPassIsExact'
<1>1. CASE Merge
  <2> SUFFICES ASSUME Returned', quiet, flawless PROVE Records' = Expected'
    BY <1>1 DEF QuietPassIsExact, Merge, cluster
  <2>1. out = Applications \cup PreferredOf(Candidates) /\ failures = 0
    BY <1>1 DEF Merge, QuietSoFar
  <2>2. result' = deduplicateByApp(ById(out))
    BY <1>1, <2>1 DEF Merge
  <2>3. Expected' = Expected
    BY <1>1 DEF Merge, cluster, Expected, Candidates, HelmObjects, Active, Preferred
  <2>4. Range(deduplicateByApp(ById(out))) = Expected
    BY <2>1, MergeIsExact
  <2> HIDE DEF Expected
  <2> QED BY <2>2, <2>3, <2>4 DEF Records
<1>2. CASE pc' # "done"
  BY <1>2 DEF QuietPassIsExact, Returned
<1>3. CASE Finished \/ UNCHANGED vars
  <2>1. UNCHANGED vars
    BY <1>3 DEF Finished
  <2>2. Expected' = Expected /\ Records' = Records
    BY <2>1 DEF vars, cluster, Expected, Candidates, HelmObjects, Active, Preferred, Records
  <2> QED BY <2>1, <2>2 DEF vars, cluster, QuietPassIsExact, Returned
<1>4. Change => pc' # "done"
  BY DEF Change
<1> QED BY <1>1, <1>2, <1>3, <1>4 DEF Next, ListApplications, ApplicationsFail,
           ListSecrets, ListConfigMaps, ReleasesFail

THEOREM InvCorrect == Spec => []Inv
<1>1. Inv /\ [Next]_vars => Inv'
  BY TypeStep, CollectedStep, OneRecordStep, SteadyStep, SteadyFoundStep, QuietStep, ExactStep
     DEF Inv
<1> QED BY <1>1, InitInv, PTL DEF Spec

-----------------------------------------------------------------------------
(* Every variable keeps its type: Discover merges objects only, and counts  *)
(* each of its two sources as failed at most once.                         *)
THEOREM TypeCorrect == Spec => []TypeOK
BY InvCorrect, PTL DEF Inv

(* The records that Discover returns are ordered by ID, and no two of them  *)
(* are of one app: the gauges of two workloads cannot collide.             *)
THEOREM AppsAreApart == Spec => []OneRecordPerApp
BY InvCorrect, PTL DEF Inv

(* An object that is there all through a pass, of a source that answered in *)
(* the end, also where the other source failed, has its app among the       *)
(* records, an Application before a release, and the release not in an      *)
(* older revision.                                                         *)
THEOREM SteadyIsFound == Spec => []SteadyObjectsAreFound
BY InvCorrect, PTL DEF Inv

(* A pass in which nothing changes and no request fails returns of each app *)
(* the Application with the smallest ID or else the preferred release, and  *)
(* nothing else.                                                           *)
THEOREM QuietIsExact == Spec => []QuietPassIsExact
BY InvCorrect, PTL DEF Inv

=============================================================================
