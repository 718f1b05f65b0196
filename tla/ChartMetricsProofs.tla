------------------------- MODULE ChartMetricsProofs -------------------------
(***************************************************************************)
(* Safety of ChartMetrics for any number of apps, any sequence of batches  *)
(* and every choice of the vectors a scrape is watched at.                 *)
(***************************************************************************)
EXTENDS ChartMetrics, WellFoundedInduction, TLAPS

-----------------------------------------------------------------------------
(* The operators of the model. *)

LEMMA MinIs ==
  ASSUME NEW S \in SUBSET Nat, S # {}
  PROVE  Min(S) \in S
<1>1. PICK x \in S : \A y \in S : ~ (<<y, x>> \in OpToRel(<, Nat))
  BY NatLessThanWellFounded, WFMin
<1>2. \A y \in S : ~ (y < x)
  BY <1>1 DEF OpToRel
<1>3. \E z \in S : \A y \in S : z =< y
  BY <1>2
<1> QED BY <1>3 DEF Min

(* The four vectors are different ones. *)
LEMMA FamiliesAre ==
  /\ Families[1] = "info" /\ Families[2] = "outdated"
  /\ Families[3] = "lag" /\ Families[4] = "unknown"
  /\ \A i \in 1..4 : Families[i] \in Family
  /\ \A i, j \in 1..4 : Families[i] = Families[j] => i = j
  /\ \A f \in Family : \E i \in 1..4 : f = Families[i]
<1>1. /\ Families[1] = "info" /\ Families[2] = "outdated"
      /\ Families[3] = "lag" /\ Families[4] = "unknown"
  BY DEF Families
<1>2. \A i \in 1..4 : i = 1 \/ i = 2 \/ i = 3 \/ i = 4
  OBVIOUS
<1>3. \A i, j \in 1..4 : Families[i] = Families[j] => i = j
  BY <1>1, <1>2
<1> QED BY <1>1, <1>3 DEF Family

LEMMA BatchType ==
  ASSUME NEW b \in Batches
  PROVE  DOMAIN b \subseteq Apps /\ \A a \in DOMAIN b : b[a] \in Status
BY DEF Batches

LEMMA NoAppsType == NoApps \in Batches /\ DOMAIN NoApps = {}
<1>1. NoApps \in [{} -> Status]
  BY DEF NoApps
<1> QED BY <1>1 DEF Batches, NoApps

LEMMA ValueType ==
  ASSUME NEW f \in Family, NEW status \in Status
  PROVE  /\ Value(f, status) \in {0, 1} /\ Label(f, status) \in Status \cup {"none"}
         /\ f = "info" => Value(f, status) = 1 /\ Label(f, status) = status
         /\ f # "info" => Label(f, status) = "none"
         /\ f \in {"outdated", "lag"} => (Value(f, status) = 1 <=> status = "outdated")
         /\ f = "unknown" => (Value(f, status) = 1 <=> status = "unknown")
<1>1. f \in {"info", "outdated", "lag", "unknown"}
  <2>1. PICK i \in 1..4 : f = Families[i]
    BY FamiliesAre
  <2>2. i = 1 \/ i = 2 \/ i = 3 \/ i = 4
    OBVIOUS
  <2> QED BY <2>1, <2>2, FamiliesAre
<1> QED BY <1>1 DEF Value, Label

(* The series of one vector, for the apps S of a batch. *)
Of(b, f, a) == [app |-> a, label |-> Label(f, b[a]), value |-> Value(f, b[a])]

Series(b, f, S) == {Of(b, f, a) : a \in S}

LEMMA OfType ==
  ASSUME NEW b \in Batches, NEW f \in Family, NEW a \in DOMAIN b
  PROVE  Of(b, f, a) \in Sample
<1>1. a \in Apps /\ b[a] \in Status
  BY BatchType
<1>2. Value(f, b[a]) \in {0, 1} /\ Label(f, b[a]) \in Status \cup {"none"}
  BY <1>1, ValueType
<1> QED BY <1>1, <1>2 DEF Of, Sample

(* Published is what remains once every app has its series. *)
LEMMA PublishedIs ==
  ASSUME NEW b \in Batches, NEW f \in Family
  PROVE  Published(b)[f] = Series(b, f, DOMAIN b)
<1>1. f \in {"info", "outdated", "lag", "unknown"}
  <2>1. PICK i \in 1..4 : f = Families[i]
    BY FamiliesAre
  <2>2. i = 1 \/ i = 2 \/ i = 3 \/ i = 4
    OBVIOUS
  <2> QED BY <2>1, <2>2, FamiliesAre
<1> DEFINE info == {[app |-> a, label |-> b[a], value |-> 1] : a \in DOMAIN b}
           narrow(status) ==
             {[app |-> a, label |-> "none", value |-> IF b[a] = status THEN 1 ELSE 0] :
                a \in DOMAIN b}
<1>2. Published(b)[f] = CASE f = "info" -> info
                          [] f = "unknown" -> narrow("unknown")
                          [] f \in {"outdated", "lag"} -> narrow("outdated")
  BY DEF Published
<1>3. CASE f = "info"
  <2>1. \A a \in DOMAIN b : Of(b, f, a) = [app |-> a, label |-> b[a], value |-> 1]
    BY <1>3 DEF Of, Label, Value
  <2>2. Series(b, f, DOMAIN b) = info
    BY <2>1 DEF Series
  <2> QED BY <1>2, <1>3, <2>2
<1>4. CASE f = "unknown"
  <2>1. \A a \in DOMAIN b :
          Of(b, f, a) = [app |-> a, label |-> "none",
                         value |-> IF b[a] = "unknown" THEN 1 ELSE 0]
    BY <1>4 DEF Of, Label, Value
  <2>2. Series(b, f, DOMAIN b) = narrow("unknown")
    BY <2>1 DEF Series
  <2> QED BY <1>2, <1>4, <2>2
<1>5. CASE f \in {"outdated", "lag"}
  <2>1. \A a \in DOMAIN b :
          Of(b, f, a) = [app |-> a, label |-> "none",
                         value |-> IF b[a] = "outdated" THEN 1 ELSE 0]
    BY <1>5 DEF Of, Label, Value
  <2>2. Series(b, f, DOMAIN b) = narrow("outdated")
    BY <2>1 DEF Series
  <2> QED BY <1>2, <1>5, <2>2
<1> QED BY <1>1, <1>3, <1>4, <1>5

-----------------------------------------------------------------------------
(***************************************************************************)
(* The inductive invariant: what each vector holds at each point of        *)
(* Publish, and what that means for the scrape under way.                  *)
(***************************************************************************)

(* WithLabelValues has created the series of the app at hand, not yet set. *)
Created(i) ==
  IF pc = "set" /\ i = at
  THEN {[app |-> Current, label |-> Label(Families[i], batch[Current]), value |-> 0]}
  ELSE {}

(* The apps whose series is set in the i-th vector. *)
Finished(i) == DOMAIN batch \ (IF i < at THEN todo \ {Current} ELSE todo)

Idle ==
  /\ todo = {}
  /\ \A i \in 1..4 : gauge[Families[i]] = Series(batch, Families[i], DOMAIN batch)

Resetting ==
  /\ todo = {}
  /\ \A i \in 1..4 :
       gauge[Families[i]] = IF i < at THEN {}
                            ELSE Series(previous, Families[i], DOMAIN previous)

Setting ==
  /\ todo # {} /\ todo \subseteq DOMAIN batch
  /\ \A i \in 1..4 :
       gauge[Families[i]] = Series(batch, Families[i], Finished(i)) \cup Created(i)

Stage ==
  /\ pc = "idle" => Idle
  /\ pc = "reset" => Resetting
  /\ pc \in {"with", "set"} => Setting
  /\ pc # "reset" => previous = NoApps

(* The apps that a set of series shows as 1. *)
Raised(series) == {s.app : s \in {t \in series : t.value = 1}}

Scrape ==
  /\ \A f \in Watched : Ones(batch)[f] \cup Ones(previous)[f] \subseteq seen[f]
  /\ \A f \in read : Raised(view[f]) \subseteq seen[f]
  /\ ~ disturbed => pc = "idle" /\ \A f \in read : view[f] = Published(batch)[f]

Inv == TypeOK /\ Stage /\ Scrape

-----------------------------------------------------------------------------
(* Publish. *)

LEMMA CurrentIs ==
  ASSUME TypeOK, todo # {}
  PROVE  Current \in todo /\ Current \in Apps
<1>1. todo \in SUBSET Nat
  BY DEF TypeOK, Apps
<1>2. Current \in todo
  BY <1>1, MinIs DEF Current
<1> QED BY <1>2 DEF TypeOK

LEMMA OnesAre ==
  ASSUME NEW f \in Watched
  PROVE  /\ \A b : Ones(b)[f] = {a \in DOMAIN b : Value(f, b[a]) = 1}
         /\ Ones(NoApps)[f] = {}
BY NoAppsType DEF Ones

LEMMA InvInit == Init => Inv
<1> SUFFICES ASSUME Init PROVE Inv
  OBVIOUS
<1>1. TypeOK
  <2>1. /\ gauge \in [Family -> SUBSET Sample] /\ view \in [Watched -> SUBSET Sample]
        /\ seen \in [Watched -> SUBSET Apps]
    BY DEF Init, Nothing
  <2>2. disturbed \in BOOLEAN
    BY Zenon DEF Init
  <2> QED BY <2>1, <2>2, NoAppsType DEF Init, TypeOK
<1>2. Stage
  <2>1. \A i \in 1..4 : gauge[Families[i]] = {}
    BY FamiliesAre DEF Init, Nothing
  <2>2. \A f : Series(batch, f, DOMAIN batch) = {}
    BY NoAppsType DEF Init, Series
  <2> QED BY <2>1, <2>2 DEF Init, Stage, Idle
<1>3. Scrape
  <2>1. \A f \in Watched : view[f] = {} /\ seen[f] = {}
    BY DEF Init, Nothing
  <2>2. \A f \in Watched : Published(batch)[f] = {}
    <3>1. ASSUME NEW f \in Watched PROVE f \in Family
      BY MetricsAssumption, FamiliesAre, 1 \in 1..4, 2 \in 1..4, 3 \in 1..4, 4 \in 1..4
    <3>2. \A f : Series(batch, f, DOMAIN batch) = {}
      BY NoAppsType DEF Init, Series
    <3>3. batch \in Batches
      BY NoAppsType DEF Init
    <3> QED BY <3>1, <3>2, <3>3, PublishedIs
  <2>3. \A f \in Watched : Raised(view[f]) = {}
    BY <2>1 DEF Raised
  <2> QED BY <2>1, <2>2, <2>3, OnesAre DEF Init, Scrape
<1> QED BY <1>1, <1>2, <1>3 DEF Inv

(* A publication that is under way disturbs the scrape: what it does next   *)
(* does not change what the scrape has read, nor what it may have read.     *)
LEMMA ScrapeFrame ==
  ASSUME Scrape, pc # "idle", UNCHANGED <<batch, scraper>>,
         previous' = previous \/ previous' = NoApps, read \subseteq Watched
  PROVE  Scrape'
<1>1. disturbed /\ disturbed'
  BY DEF Scrape, scraper
<1>2. \A f \in Watched : Ones(batch')[f] \cup Ones(previous')[f] \subseteq seen'[f]
  BY OnesAre DEF Scrape, scraper
<1>3. \A f \in read' : Raised(view'[f]) \subseteq seen'[f]
  BY DEF Scrape, scraper
<1> QED BY <1>1, <1>2, <1>3 DEF Scrape

LEMMA PublishStep ==
  ASSUME Inv, NEW b \in Batches, Publish(b)
  PROVE  Inv'
<1>1. TypeOK'
  <2>1. ASSUME NEW f \in Watched PROVE seen'[f] \subseteq Apps
    <3>1. Ones(b)[f] \subseteq Apps
      BY OnesAre, BatchType
    <3> QED BY <3>1 DEF Inv, TypeOK, Publish
  <2>2. seen' \in [Watched -> SUBSET Apps]
    BY <2>1 DEF Publish
  <2> QED BY <2>2 DEF Inv, TypeOK, Publish
<1>2. Stage'
  <2>1. \A i \in 1..4 : ~ (i < 1)
    OBVIOUS
  <2> QED BY <2>1 DEF Inv, Stage, Idle, Resetting, Publish
<1>3. Scrape'
  <2>1. ASSUME NEW f \in Watched
        PROVE  /\ Ones(batch')[f] \cup Ones(previous')[f] \subseteq seen'[f]
               /\ seen[f] \subseteq seen'[f]
    BY DEF Inv, Scrape, Publish
  <2>2. \A f \in read' : Raised(view'[f]) \subseteq seen'[f]
    BY <2>1 DEF Inv, TypeOK, Scrape, Publish
  <2> QED BY <2>1, <2>2 DEF Scrape, Publish
<1> QED BY <1>1, <1>2, <1>3 DEF Inv

LEMMA ResetStep ==
  ASSUME Inv, Reset
  PROVE  Inv'
<1>1. pc = "reset" /\ Resetting /\ at \in 1..4
  BY DEF Inv, TypeOK, Stage, Reset
<1>2. /\ Families[at] \in Family /\ gauge'[Families[at]] = {}
      /\ \A i \in 1..4 : i # at => gauge'[Families[i]] = gauge[Families[i]]
  BY <1>1, FamiliesAre DEF Inv, TypeOK, Reset
<1>3. batch' = batch /\ (previous' = previous \/ previous' = NoApps)
  BY DEF Reset
<1>4. Scrape'
  BY <1>1, <1>3, ScrapeFrame DEF Inv, TypeOK, Reset
<1>5. gauge' \in [Family -> SUBSET Sample]
  BY DEF Inv, TypeOK, Reset
<1>6. CASE at < 4
  <2>1. at' = at + 1 /\ UNCHANGED <<pc, todo, previous>>
    BY <1>6 DEF Reset
  <2>2. TypeOK'
    BY <1>1, <1>5, <1>6, <2>1 DEF Inv, TypeOK, Reset, scraper
  <2>3. Resetting'
    <3>1. ASSUME NEW i \in 1..4
          PROVE  gauge'[Families[i]] = IF i < at + 1 THEN {}
                                       ELSE Series(previous, Families[i], DOMAIN previous)
      <4>1. CASE i = at
        BY <1>1, <1>2, <4>1
      <4>2. CASE i # at
        <5>1. i < at + 1 <=> i < at
          BY <1>1, <4>2
        <5> QED BY <1>1, <1>2, <4>2, <5>1 DEF Resetting
      <4> QED BY <4>1, <4>2
    <3> QED BY <1>1, <2>1, <3>1 DEF Resetting
  <2>4. Stage'
    BY <1>1, <2>1, <2>3 DEF Stage
  <2> QED BY <1>4, <2>2, <2>4 DEF Inv
<1>7. CASE ~ (at < 4)
  <2>1. /\ at' = 1 /\ previous' = NoApps /\ todo' = DOMAIN batch
        /\ pc' = IF DOMAIN batch = {} THEN "idle" ELSE "with"
    BY <1>7 DEF Reset
  <2>2. TypeOK'
    BY <1>3, <1>5, <2>1, NoAppsType, BatchType DEF Inv, TypeOK, Reset, scraper
  <2>3. ASSUME NEW i \in 1..4 PROVE gauge'[Families[i]] = {}
    <3>1. i = at \/ i < at
      BY <1>1, <1>7
    <3> QED BY <1>1, <1>2, <3>1 DEF Resetting
  <2>4. \A f : Series(batch, f, {}) = {}
    BY DEF Series
  <2>5. CASE DOMAIN batch = {}
    BY <1>3, <1>4, <2>1, <2>2, <2>3, <2>4, <2>5 DEF Inv, Stage, Idle
  <2>6. CASE DOMAIN batch # {}
    <3>1. \A i \in 1..4 : Finished(i)' = {} /\ Created(i)' = {}
      BY <1>3, <2>1, <2>6 DEF Finished, Created
    <3>2. Setting'
      BY <1>3, <2>1, <2>3, <2>4, <2>6, <3>1 DEF Setting
    <3> QED BY <2>1, <2>6, <3>2, <2>2, <1>4 DEF Inv, Stage
  <2> QED BY <1>4, <2>1, <2>2, <2>5, <2>6 DEF Inv
<1> QED BY <1>6, <1>7

LEMMA WithStep ==
  ASSUME Inv, With
  PROVE  Inv'
<1>1. /\ pc = "with" /\ Setting /\ at \in 1..4 /\ todo # {}
      /\ pc' = "set" /\ UNCHANGED <<batch, at, todo, previous, scraper>>
  BY DEF Inv, TypeOK, Stage, Setting, With
<1>2. Current \in todo /\ Current \in Apps /\ Current \in DOMAIN batch
  BY <1>1, CurrentIs DEF Inv, Setting
<1> DEFINE zero == [app |-> Current, label |-> Label(Families[at], batch[Current]), value |-> 0]
<1>3. zero \in Sample
  <2>1. Families[at] \in Family /\ batch[Current] \in Status
    BY <1>1, <1>2, FamiliesAre, BatchType DEF Inv, TypeOK
  <2>2. Label(Families[at], batch[Current]) \in Status \cup {"none"}
    BY <2>1, ValueType
  <2> QED BY <1>2, <2>2 DEF Sample
<1>4. gauge' = [gauge EXCEPT ![Families[at]] = @ \cup {zero}]
  BY DEF With
<1>5. Families[at] \in Family /\ gauge'[Families[at]] = gauge[Families[at]] \cup {zero}
  BY <1>1, <1>4, FamiliesAre DEF Inv, TypeOK
<1>6. \A i \in 1..4 : i # at => gauge'[Families[i]] = gauge[Families[i]]
  BY <1>1, <1>4, FamiliesAre DEF Inv, TypeOK
<1>7. TypeOK'
  <2> HIDE DEF zero
  <2>1. gauge' \in [Family -> SUBSET Sample]
    BY <1>3, <1>4 DEF Inv, TypeOK
  <2> QED BY <1>1, <2>1 DEF Inv, TypeOK, scraper
<1>8. Setting'
  <2>1. \A i \in 1..4 : Created(i) = {} /\ Finished(i)' = Finished(i)
    BY <1>1 DEF Created, Finished, Current
  <2>2. \A i \in 1..4 : Created(i)' = IF i = at THEN {zero} ELSE {}
    BY <1>1 DEF Created, Current
  <2> HIDE DEF zero
  <2>3. ASSUME NEW i \in 1..4
        PROVE  gauge'[Families[i]] =
                 Series(batch, Families[i], Finished(i)') \cup Created(i)'
    <3>1. gauge[Families[i]] = Series(batch, Families[i], Finished(i)) \cup Created(i)
      BY <1>1 DEF Setting
    <3> QED BY <1>5, <1>6, <2>1, <2>2, <3>1
  <2> QED BY <1>1, <2>3 DEF Setting
<1>9. Scrape'
  BY <1>1, ScrapeFrame DEF Inv, TypeOK
<1> QED BY <1>1, <1>7, <1>8, <1>9 DEF Inv, Stage

(* Set takes the series that With created, and no other, and gives it its   *)
(* value: that vector is finished for the app at hand.                     *)
LEMMA SetFinishes ==
  ASSUME Inv, Set
  PROVE  /\ Families[at] \in Family
         /\ gauge'[Families[at]] =
              Series(batch, Families[at], (DOMAIN batch \ todo) \cup {Current})
         /\ \A i \in 1..4 : i # at => gauge'[Families[i]] = gauge[Families[i]]
         /\ gauge' \in [Family -> SUBSET Sample]
<1>1. pc = "set" /\ Setting /\ at \in 1..4 /\ todo # {}
  BY DEF Inv, TypeOK, Stage, Setting, Set
<1>2. Current \in todo /\ Current \in DOMAIN batch
  BY <1>1, CurrentIs DEF Inv, Setting
<1>3. PICK f \in Family : f = Families[at]
  BY <1>1, FamiliesAre
<1> DEFINE label == Label(f, batch[Current])
           zero  == [app |-> Current, label |-> label, value |-> 0]
           new   == Of(batch, f, Current)
           done  == DOMAIN batch \ todo
<1>4. gauge' = [gauge EXCEPT ![f] = {s \in @ : s.app # Current \/ s.label # label} \cup {new}]
  BY <1>3 DEF Set, Of
<1>5. gauge[f] = Series(batch, f, done) \cup {zero}
  <2>1. Finished(at) = done /\ Created(at) = {zero}
    BY <1>1, <1>3 DEF Finished, Created
  <2> QED BY <1>1, <1>3, <2>1 DEF Setting
<1>6. /\ gauge'[f] = {s \in gauge[f] : s.app # Current \/ s.label # label} \cup {new}
      /\ \A i \in 1..4 : i # at => gauge'[Families[i]] = gauge[Families[i]]
  BY <1>1, <1>3, <1>4, FamiliesAre DEF Inv, TypeOK
<1>7. new \in Sample
  BY <1>2, OfType DEF Inv, TypeOK
<1>8. gauge' \in [Family -> SUBSET Sample]
  <2> HIDE DEF new
  <2> QED BY <1>4, <1>7 DEF Inv, TypeOK
<1>9. {s \in gauge[f] : s.app # Current \/ s.label # label} = Series(batch, f, done)
  <2>1. \A s \in Series(batch, f, done) : s.app # Current
    BY <1>2 DEF Series, Of
  <2>2. zero.app = Current /\ zero.label = label
    OBVIOUS
  <2> HIDE DEF zero, label
  <2> QED BY <1>5, <2>1, <2>2
<1>10. gauge'[f] = Series(batch, f, done \cup {Current})
  BY <1>6, <1>9 DEF Series
<1> QED BY <1>3, <1>6, <1>8, <1>10

LEMMA SetStep ==
  ASSUME Inv, Set
  PROVE  Inv'
<1>1. /\ pc = "set" /\ Setting /\ at \in 1..4 /\ todo # {}
      /\ UNCHANGED <<batch, previous, scraper>>
  BY DEF Inv, TypeOK, Stage, Setting, Set
<1>2. Current \in todo /\ Current \in DOMAIN batch
  BY <1>1, CurrentIs DEF Inv, Setting
<1>3. Scrape'
  BY <1>1, ScrapeFrame DEF Inv, TypeOK
(* Every vector, by now, of the apps that are done or have been here. *)
<1>4. ASSUME NEW i \in 1..4
      PROVE  gauge'[Families[i]] =
               Series(batch, Families[i],
                      IF i <= at THEN (DOMAIN batch \ todo) \cup {Current}
                                 ELSE DOMAIN batch \ todo)
  <2>1. CASE i = at
    BY <1>1, <2>1, SetFinishes
  <2>2. CASE i # at
    <3>1. Created(i) = {} /\ (i <= at <=> i < at)
      BY <1>1, <2>2 DEF Created
    <3>2. DOMAIN batch \ (todo \ {Current}) = (DOMAIN batch \ todo) \cup {Current}
      BY <1>2
    <3>3. gauge'[Families[i]] = Series(batch, Families[i], Finished(i))
      BY <1>1, <2>2, <3>1, SetFinishes DEF Setting
    <3> QED BY <3>1, <3>2, <3>3 DEF Finished
  <2> QED BY <2>1, <2>2
<1>5. CASE at < 4
  <2>1. at' = at + 1 /\ pc' = "with" /\ UNCHANGED todo
    BY <1>5 DEF Set
  <2>2. TypeOK'
    BY <1>1, <1>5, <2>1, SetFinishes DEF Inv, TypeOK, scraper
  <2>3. Setting'
    <3>1. ASSUME NEW i \in 1..4
          PROVE  gauge'[Families[i]] =
                   Series(batch, Families[i], Finished(i)') \cup Created(i)'
      <4>1. Created(i)' = {} /\ (i <= at <=> i < at')
        BY <1>1, <2>1 DEF Created
      <4>2. DOMAIN batch \ (todo \ {Current}) = (DOMAIN batch \ todo) \cup {Current}
        BY <1>2
      <4>3. Finished(i)' = IF i <= at THEN (DOMAIN batch \ todo) \cup {Current}
                                      ELSE DOMAIN batch \ todo
        BY <1>1, <2>1, <4>1, <4>2 DEF Finished, Current
      <4> QED BY <1>4, <4>1, <4>3
    <3> QED BY <1>1, <2>1, <3>1 DEF Setting
  <2> QED BY <1>1, <1>3, <2>1, <2>2, <2>3 DEF Inv, Stage
<1>6. CASE ~ (at < 4)
  <2>1. /\ at' = 1 /\ todo' = todo \ {Current}
        /\ pc' = IF todo' = {} THEN "idle" ELSE "with"
    BY <1>6 DEF Set
  <2>2. TypeOK'
    BY <1>1, <2>1, SetFinishes DEF Inv, TypeOK, scraper
  <2>3. DOMAIN batch \ todo' = (DOMAIN batch \ todo) \cup {Current}
    BY <1>2, <2>1
  <2>4. \A i \in 1..4 : gauge'[Families[i]] = Series(batch, Families[i], DOMAIN batch \ todo')
    <3>1. \A i \in 1..4 : i <= at
      BY <1>1, <1>6
    <3> QED BY <1>4, <2>3, <3>1
  <2>5. CASE todo' = {}
    <3>1. DOMAIN batch \ todo' = DOMAIN batch
      BY <2>5
    <3> QED BY <1>1, <1>3, <2>1, <2>2, <2>4, <2>5, <3>1 DEF Inv, Stage, Idle
  <2>6. CASE todo' # {}
    <3>1. \A i \in 1..4 : Finished(i)' = DOMAIN batch \ todo' /\ Created(i)' = {}
      BY <1>1, <2>1, <2>6 DEF Finished, Created
    <3>2. Setting'
      BY <1>1, <2>1, <2>4, <2>6, <3>1 DEF Setting
    <3> QED BY <1>1, <1>3, <2>1, <2>2, <2>6, <3>2 DEF Inv, Stage
  <2> QED BY <2>5, <2>6
<1> QED BY <1>5, <1>6


-----------------------------------------------------------------------------
(***************************************************************************)
(* All four vectors show parts of one and the same batch, and at most one  *)
(* series, of an app not yet among these, that has no value yet.           *)
(***************************************************************************)
Zeros(Z, S) ==
  /\ \A z \in Z : z.value = 0 /\ z.app \notin S
  /\ \A y, z \in Z : y = z

PartOf(series, b, f) ==
  \E S \in SUBSET DOMAIN b, Z \in SUBSET Sample :
    series = Series(b, f, S) \cup Z /\ Zeros(Z, S)

LEMMA WholeIsPart ==
  ASSUME NEW b, NEW f, NEW S \in SUBSET DOMAIN b
  PROVE  PartOf(Series(b, f, S), b, f)
<1>1. Zeros({}, S) /\ {} \in SUBSET Sample
  BY DEF Zeros
<1>2. Series(b, f, S) = Series(b, f, S) \cup {}
  OBVIOUS
<1> QED BY <1>1, <1>2 DEF PartOf

LEMMA OfOneBatch ==
  ASSUME TypeOK, Stage
  PROVE  \E b \in {batch, previous} : \A f \in Family : PartOf(gauge[f], b, f)
<1>1. CASE pc = "idle"
  <2>1. \A f \in Family : PartOf(gauge[f], batch, f)
    BY <1>1, FamiliesAre, WholeIsPart DEF Stage, Idle
  <2> QED BY <2>1
<1>2. CASE pc = "reset"
  <2>1. ASSUME NEW f \in Family PROVE PartOf(gauge[f], previous, f)
    <3>1. PICK i \in 1..4 : f = Families[i]
      BY FamiliesAre
    <3>2. \A b : Series(b, f, {}) = {}
      BY DEF Series
    <3>3. gauge[f] = Series(previous, f, {}) \/ gauge[f] = Series(previous, f, DOMAIN previous)
      BY <1>2, <3>1, <3>2 DEF Stage, Resetting
    <3> QED BY <3>3, WholeIsPart
  <2> QED BY <2>1
<1>3. CASE pc \in {"with", "set"}
  <2>0. Setting /\ at \in 1..4 /\ todo # {} /\ batch \in Batches
    BY <1>3 DEF Stage, Setting, TypeOK
  <2>1. Current \in todo /\ Current \in DOMAIN batch
    BY <2>0, CurrentIs DEF Setting
  <2>2. ASSUME NEW f \in Family PROVE PartOf(gauge[f], batch, f)
    <3>1. PICK i \in 1..4 : f = Families[i]
      BY FamiliesAre
    <3>2. gauge[f] = Series(batch, f, Finished(i)) \cup Created(i)
      BY <2>0, <3>1 DEF Setting
    <3>3. Finished(i) \in SUBSET DOMAIN batch
      BY DEF Finished
    <3>4. CASE pc = "set" /\ i = at
      <4> DEFINE zero == [app |-> Current, label |-> Label(f, batch[Current]), value |-> 0]
      <4>1. Created(i) = {zero}
        BY <3>1, <3>4 DEF Created
      <4>2. Current \notin Finished(i)
        BY <2>0, <2>1, <3>4 DEF Finished
      <4>3. zero \in Sample
        <5>1. batch[Current] \in Status /\ Current \in Apps
          BY <2>0, <2>1, BatchType
        <5>2. Label(f, batch[Current]) \in Status \cup {"none"}
          BY <5>1, ValueType
        <5> QED BY <5>1, <5>2 DEF Sample
      <4>4. Zeros({zero}, Finished(i))
        BY <4>2 DEF Zeros
      <4> HIDE DEF zero
      <4> QED BY <3>2, <3>3, <4>1, <4>3, <4>4 DEF PartOf
    <3>5. CASE ~ (pc = "set" /\ i = at)
      <4>1. Created(i) = {}
        BY <3>5 DEF Created
      <4> QED BY <3>2, <3>3, <4>1, WholeIsPart
    <3> QED BY <3>4, <3>5
  <2> QED BY <2>2
<1> QED BY <1>1, <1>2, <1>3 DEF TypeOK

(* What such a part shows as 1 is 1 in the batch. *)
LEMMA RaisedInPart ==
  ASSUME NEW b, NEW f, NEW series, PartOf(series, b, f),
         NEW s \in series, s.value = 1
  PROVE  s.app \in DOMAIN b /\ Value(f, b[s.app]) = 1
<1>1. PICK S \in SUBSET DOMAIN b, Z \in SUBSET Sample :
        series = Series(b, f, S) \cup Z /\ Zeros(Z, S)
  BY DEF PartOf
<1>2. s \notin Z
  BY <1>1 DEF Zeros
<1>3. PICK a \in S : s = Of(b, f, a)
  BY <1>1, <1>2 DEF Series
<1>4. s.app = a /\ s.value = Value(f, b[a])
  BY <1>3 DEF Of
<1> QED BY <1>4

(* And it has one series of an app. *)
LEMMA OneInPart ==
  ASSUME NEW b, NEW f, NEW series, PartOf(series, b, f),
         NEW s \in series, NEW t \in series, s.app = t.app
  PROVE  s = t
<1>1. PICK S \in SUBSET DOMAIN b, Z \in SUBSET Sample :
        series = Series(b, f, S) \cup Z /\ Zeros(Z, S)
  BY DEF PartOf
<1>2. ASSUME NEW u \in Series(b, f, S) PROVE u.app \in S /\ u = Of(b, f, u.app)
  BY DEF Series, Of
<1>3. CASE s \in Z /\ t \in Z
  BY <1>1, <1>3 DEF Zeros
<1>4. CASE s \in Series(b, f, S) /\ t \in Series(b, f, S)
  <2>1. s = Of(b, f, s.app) /\ t = Of(b, f, t.app)
    BY <1>2, <1>4
  <2> QED BY <2>1
<1>5. ~ (s \in Z /\ t \in Series(b, f, S)) /\ ~ (t \in Z /\ s \in Series(b, f, S))
  BY <1>1, <1>2 DEF Zeros
<1> QED BY <1>1, <1>3, <1>4, <1>5

-----------------------------------------------------------------------------
(* The scrape. *)

LEMMA WatchedAreFamilies == Watched \subseteq Family
<1>1. 1 \in 1..4 /\ 2 \in 1..4 /\ 3 \in 1..4 /\ 4 \in 1..4
  OBVIOUS
<1> QED BY <1>1, MetricsAssumption, FamiliesAre

LEMMA BeginScrapeStep ==
  ASSUME Inv, BeginScrape
  PROVE  Inv'
<1>1. TypeOK'
  <2>1. ASSUME NEW f \in Watched PROVE Ones(batch)[f] \cup Ones(previous)[f] \subseteq Apps
    BY OnesAre, BatchType DEF Inv, TypeOK
  <2>2. seen' \in [Watched -> SUBSET Apps]
    BY <2>1 DEF BeginScrape
  <2>3. view' \in [Watched -> SUBSET Sample]
    BY DEF BeginScrape, Nothing
  <2>4. disturbed' \in BOOLEAN
    BY Zenon DEF BeginScrape
  <2> QED BY <2>2, <2>3, <2>4 DEF Inv, TypeOK, BeginScrape, publisher
<1>2. Stage'
  BY DEF Inv, Stage, Idle, Resetting, Setting, Finished, Created, Current, BeginScrape, publisher
<1>3. Scrape'
  <2>1. ASSUME NEW f \in Watched
        PROVE  Ones(batch')[f] \cup Ones(previous')[f] \subseteq seen'[f]
    BY DEF BeginScrape, publisher
  <2>2. read' = {} /\ (~ disturbed' => pc' = "idle")
    BY DEF BeginScrape, publisher
  <2> QED BY <2>1, <2>2 DEF Scrape
<1> QED BY <1>1, <1>2, <1>3 DEF Inv

LEMMA GatherStep ==
  ASSUME Inv, NEW f \in Watched, Gather(f)
  PROVE  Inv'
<1>1. f \in Family /\ view'[f] = gauge[f] /\ \A g \in Watched \ {f} : view'[g] = view[g]
  BY WatchedAreFamilies DEF Inv, TypeOK, Gather
<1>2. TypeOK'
  <2>1. view' \in [Watched -> SUBSET Sample]
    BY <1>1 DEF Inv, TypeOK, Gather
  <2> QED BY <2>1 DEF Inv, TypeOK, Gather, publisher
<1>3. Stage'
  BY DEF Inv, Stage, Idle, Resetting, Setting, Finished, Created, Current, Gather, publisher
<1>4. Scrape'
  <2>1. Raised(gauge[f]) \subseteq Ones(batch)[f] \cup Ones(previous)[f]
    <3>1. PICK b \in {batch, previous} : PartOf(gauge[f], b, f)
      BY <1>1, OfOneBatch DEF Inv
    <3>2. ASSUME NEW a \in Raised(gauge[f]) PROVE a \in Ones(b)[f]
      <4>1. PICK s \in gauge[f] : s.value = 1 /\ s.app = a
        BY DEF Raised
      <4>2. a \in DOMAIN b /\ Value(f, b[a]) = 1
        BY <3>1, <4>1, RaisedInPart
      <4> QED BY <4>2, OnesAre
    <3> QED BY <3>2
  <2>2. ~ disturbed => gauge[f] = Published(batch)[f]
    BY <1>1, FamiliesAre, PublishedIs DEF Inv, TypeOK, Scrape, Stage, Idle
  <2>3. ASSUME NEW g \in read' PROVE Raised(view'[g]) \subseteq seen'[g]
    BY <1>1, <2>1 DEF Inv, TypeOK, Scrape, Gather, publisher
  <2>4. ASSUME ~ disturbed', NEW g \in read' PROVE view'[g] = Published(batch')[g]
    BY <1>1, <2>2, <2>4 DEF Inv, TypeOK, Scrape, Gather, publisher
  <2> QED BY <2>3, <2>4 DEF Inv, Scrape, Gather, publisher
<1> QED BY <1>2, <1>3, <1>4 DEF Inv

LEMMA InvStep == Inv /\ [Next]_vars => Inv'
<1> SUFFICES ASSUME Inv, [Next]_vars PROVE Inv'
  OBVIOUS
<1>1. ASSUME NEW b \in Batches, Publish(b) PROVE Inv'
  BY <1>1, PublishStep
<1>2. CASE Reset
  BY <1>2, ResetStep
<1>3. CASE With
  BY <1>3, WithStep
<1>4. CASE Set
  BY <1>4, SetStep
<1>5. CASE BeginScrape
  BY <1>5, BeginScrapeStep
<1>6. ASSUME NEW f \in Watched, Gather(f) PROVE Inv'
  BY <1>6, GatherStep
<1>7. CASE UNCHANGED vars
  BY <1>7 DEF vars, Inv, TypeOK, Stage, Idle, Resetting, Setting, Finished, Created, Current, Scrape
<1> QED BY <1>1, <1>2, <1>3, <1>4, <1>5, <1>6, <1>7 DEF Next

THEOREM Invariant == Spec => []Inv
BY InvInit, InvStep, PTL DEF Spec

-----------------------------------------------------------------------------
(* What follows for the properties that the runs check. *)

(* The variables keep their types. *)
THEOREM TypeCorrect == Spec => []TypeOK
<1>1. Inv => TypeOK
  BY DEF Inv
<1> QED BY <1>1, Invariant, PTL

(* Whatever the batches and however the scrapes fall, Publish leaves in the *)
(* four vectors the series of its batch and none of an earlier one.        *)
THEOREM LastBatchShown == Spec => []GaugesShowLastBatch
<1>1. ASSUME Inv, pc = "idle" PROVE gauge = Published(batch)
  <2>1. \A f \in Family : gauge[f] = Published(batch)[f]
    BY <1>1, FamiliesAre, PublishedIs DEF Inv, TypeOK, Stage, Idle
  <2>2. gauge = [f \in Family |-> gauge[f]]
    BY <1>1 DEF Inv, TypeOK
  <2>3. Published(batch) = [f \in Family |-> Published(batch)[f]]
    <3> DEFINE narrow(status) ==
                 {[app |-> a, label |-> "none",
                   value |-> IF batch[a] = status THEN 1 ELSE 0] : a \in DOMAIN batch}
               shown(f) ==
                 CASE f = "info" -> {[app |-> a, label |-> batch[a], value |-> 1] : a \in DOMAIN batch}
                   [] f = "unknown" -> narrow("unknown")
                   [] f \in {"outdated", "lag"} -> narrow("outdated")
    <3>1. Published(batch) = [f \in Family |-> shown(f)]
      BY DEF Published
    <3> HIDE DEF shown
    <3> QED BY <3>1
  <2> QED BY <2>1, <2>2, <2>3
<1>2. Inv => GaugesShowLastBatch
  BY <1>1 DEF GaugesShowLastBatch
<1> QED BY <1>2, Invariant, PTL

(* Also in the middle of Publish no app is outdated and unknown at once,    *)
(* nor listed under two statuses: the vectors show parts of one batch.     *)
THEOREM NeverBothShown == Spec => []NeverBoth
<1>1. ASSUME Inv PROVE NeverBoth
  <2>1. PICK b \in {batch, previous} : \A f \in Family : PartOf(gauge[f], b, f)
    BY <1>1, OfOneBatch DEF Inv
  <2>2. b \in Batches
    BY <1>1 DEF Inv, TypeOK
  <2>3. 1 \in 1..4 /\ 2 \in 1..4 /\ 4 \in 1..4
    OBVIOUS
  <2>4. "info" \in Family /\ "outdated" \in Family /\ "unknown" \in Family
    BY <2>3, FamiliesAre
  <2>5. ASSUME NEW a \in Apps, On(gauge["outdated"], a), On(gauge["unknown"], a) PROVE FALSE
    <3>1. a \in DOMAIN b /\ Value("outdated", b[a]) = 1 /\ Value("unknown", b[a]) = 1
      BY <2>1, <2>4, <2>5, RaisedInPart DEF On
    <3>2. b[a] \in Status
      BY <2>2, <3>1, BatchType
    <3> QED BY <2>4, <3>1, <3>2, ValueType
  <2>6. \A s, t \in gauge["info"] : s.app = t.app => s = t
    BY <2>1, <2>4, OneInPart
  <2> QED BY <2>5, <2>6 DEF NeverBoth
<1> QED BY <1>1, Invariant, PTL

(* A scrape that publications overlap shows nothing as 1 that was not in a  *)
(* batch of its time, and one that none overlaps shows the last batch.     *)
THEOREM ScrapesAreOfTheirTime == Spec => []ScrapeIsOfItsTime
<1>1. ASSUME Inv PROVE ScrapeIsOfItsTime
  BY <1>1 DEF Inv, Scrape, Raised, ScrapeIsOfItsTime
<1> QED BY <1>1, Invariant, PTL

=============================================================================
