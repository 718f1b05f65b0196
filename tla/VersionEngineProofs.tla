------------------------- MODULE VersionEngineProofs ------------------------
(***************************************************************************)
(* Facts about VersionEngine for every word size and every version, and    *)
(* about the machine that the runs check it with, for any set of numbers.  *)
(***************************************************************************)
EXTENDS MCVersionEngine, TLAPS

(* semver precedence has no two versions that both come before each other,  *)
(* so of a deployed and a latest version exchanged at most one is outdated. *)
LEMMA LessThanAsymmetric ==
  ASSUME NEW v \in Version, NEW w \in Version, LessThan(v, w)
  PROVE  ~ LessThan(w, v)
BY SMT DEF LessThan, Version

LEMMA LessThanTransitive ==
  ASSUME NEW u \in Version, NEW v \in Version, NEW w \in Version,
         LessThan(u, v), LessThan(v, w)
  PROVE  LessThan(u, w)
BY SMT DEF LessThan, Version

(* Whatever the arithmetic of the word makes of it, a lag is at least 1. *)
LEMMA LagPositive ==
  ASSUME NEW c \in Version, NEW l \in Version
  PROVE  ComputeLag(c, l) \in Nat /\ ComputeLag(c, l) >= 1
<1> DEFINE sum == Difference(l.major, c.major) * 10000
                    + Difference(l.minor, c.minor) * 100
                    + Difference(l.patch, c.patch)
<1>1. ASSUME NEW x \in Nat, NEW y \in Nat PROVE Difference(x, y) \in Int
  <2>1. x - y \in Int
    OBVIOUS
  <2> QED BY <2>1, WordAssumption DEF Difference
<1>2. sum \in Int
  <2>1. /\ Difference(l.major, c.major) \in Int
        /\ Difference(l.minor, c.minor) \in Int
        /\ Difference(l.patch, c.patch) \in Int
    BY <1>1 DEF Version
  <2> QED BY <2>1
<1>3. sum % WordSize \in Nat
  <2> HIDE DEF sum
  <2> QED BY <1>2, WordAssumption
<1>4. ComputeLag(c, l) = IF sum % WordSize < 1 THEN 1 ELSE sum % WordSize
  BY DEF ComputeLag
<1> QED
  <2> HIDE DEF sum
  <2> QED BY <1>3, <1>4

(* engine.go:68: the lag is positive for outdated records and for no        *)
(* others, and a record is never outdated both ways round.                 *)
THEOREM OutdatedIffPositiveLag ==
  ASSUME NEW deployed \in Raw, NEW newest \in Raw
  PROVE  /\ Compare(deployed, newest).status = "outdated"
              <=> Compare(deployed, newest).lag >= 1
         /\ Compare(deployed, newest).status = "outdated"
              => Compare(newest, deployed).status # "outdated"
<1> DEFINE both == deployed.kind = "version" /\ newest.kind = "version"
<1>1. deployed.version \in Version /\ newest.version \in Version
  BY DEF Raw
<1>2. CASE ~ both
  BY <1>2 DEF Compare, Result
<1>3. CASE both /\ ~ LessThan(deployed.version, newest.version)
  BY <1>3 DEF Compare, Result
<1>4. CASE both /\ LessThan(deployed.version, newest.version)
  <2>1. Compare(deployed, newest)
          = Result("outdated", ComputeLag(deployed.version, newest.version))
    BY <1>4 DEF Compare
  <2>2. Compare(newest, deployed) = Result("up_to_date", 0)
    BY <1>1, <1>4, LessThanAsymmetric DEF Compare
  <2> QED BY <1>1, <2>1, <2>2, LagPositive DEF Result
<1> QED BY <1>2, <1>3, <1>4

-----------------------------------------------------------------------------
(* Arithmetic. *)

LEMMA Quotient ==
  ASSUME NEW x \in Int
  PROVE  \E q \in Int : x = WordSize * q + (x % WordSize)
<1>1. x \div WordSize \in Int /\ x = WordSize * (x \div WordSize) + (x % WordSize)
  BY WordAssumption
<1> QED BY <1>1

LEMMA NoMultipleIsSmall ==
  ASSUME NEW d \in Int, - WordSize < WordSize * d, WordSize * d < WordSize
  PROVE  d = 0
<1>1. CASE d >= 1
  <2>1. WordSize * d >= WordSize
    BY <1>1, WordAssumption
  <2> QED BY <2>1, WordAssumption
<1>2. CASE d <= -1
  <2>1. WordSize * d <= - WordSize
    BY <1>2, WordAssumption
  <2> QED BY <2>1, WordAssumption
<1> QED BY <1>1, <1>2

LEMMA RemainderIs ==
  ASSUME NEW x \in 0..(WordSize - 1), NEW y \in Int, NEW q \in Int, y = x + WordSize * q
  PROVE  y % WordSize = x
<1>1. PICK p \in Int : y = WordSize * p + (y % WordSize)
  BY Quotient
<1>2. PICK r \in 0..(WordSize - 1) : r = y % WordSize
  BY WordAssumption
<1>3. WordSize * (p - q) = x - r
  BY <1>1, <1>2, WordAssumption
<1>4. - WordSize < x - r /\ x - r < WordSize
  BY WordAssumption
<1>5. p - q = 0
  BY <1>3, <1>4, NoMultipleIsSmall, p - q \in Int
<1>6. p = q
  BY <1>5
<1> QED BY <1>1, <1>2, <1>6, WordAssumption

Digit(a, b) == a * Base + b

(* Numbers with one more digit compare first by what precedes the digit. *)
LEMMA DigitsCompare ==
  ASSUME NEW a \in Nat, NEW c \in Nat, NEW b \in 0..(Base - 1), NEW d \in 0..(Base - 1)
  PROVE  /\ Digit(a, b) \in Nat
         /\ Digit(a, b) < Digit(c, d) <=> a < c \/ (a = c /\ b < d)
         /\ Digit(a, b) = Digit(c, d) <=> a = c /\ b = d
<1> USE DEF Digit
<1>0. Base \in Nat
  BY NumbersAssumption
<1>1. CASE a < c
  <2>1. (a + 1) * Base <= c * Base
    BY <1>0, <1>1
  <2> QED BY <1>0, <1>1, <2>1
<1>2. CASE c < a
  <2>1. (c + 1) * Base <= a * Base
    BY <1>0, <1>2
  <2> QED BY <1>0, <1>2, <2>1
<1>3. CASE a = c
  BY <1>0, <1>3
<1> QED BY <1>1, <1>2, <1>3

-----------------------------------------------------------------------------
(* The machine of the runs. *)

LEMMA VersionsAre ==
  ASSUME NEW v \in Versions
  PROVE  /\ v \in Version
         /\ v.major \in 0..(Base - 1) /\ v.minor \in 0..(Base - 1)
         /\ v.patch \in 0..(Base - 1) /\ v.pre \in 0..MaxPre
<1>1. /\ v.major \in 0..(Base - 1) /\ v.minor \in 0..(Base - 1)
      /\ v.patch \in 0..(Base - 1) /\ v.pre \in 0..MaxPre
  <2>1. v.major \in Numbers /\ v.minor \in Numbers /\ v.patch \in Numbers /\ v.pre \in 0..MaxPre
    BY DEF Versions
  <2>2. Numbers \subseteq 0..(Base - 1)
    BY NumbersAssumption
  <2> QED BY <2>1, <2>2
<1>2. v.major \in Nat /\ v.minor \in Nat /\ v.patch \in Nat /\ v.pre \in Nat
  BY <1>1, NumbersAssumption
<1>3. v = [major |-> v.major, minor |-> v.minor, patch |-> v.patch, pre |-> v.pre]
  BY DEF Versions
<1> QED BY <1>1, <1>2, <1>3 DEF Version

(* The order of ranks is semver precedence. *)
LEMMA RankIsPrecedence ==
  ASSUME NEW v \in Versions, NEW w \in Versions
  PROVE  Rank(v) < Rank(w) <=> LessThan(v, w)
<1> DEFINE last(u) == IF u.pre = 0 THEN Base - 1 ELSE u.pre - 1
           two(u) == Digit(u.major, u.minor)
           three(u) == Digit(two(u), u.patch)
<1>1. ASSUME NEW u \in Versions
      PROVE  /\ u.major \in Nat /\ u.minor \in 0..(Base - 1) /\ u.patch \in 0..(Base - 1)
             /\ last(u) \in 0..(Base - 1) /\ u.pre \in Nat /\ u.pre <= Base - 1
             /\ Rank(u) = Digit(three(u), last(u))
  <2>1. last(u) \in 0..(Base - 1) /\ u.pre \in Nat /\ u.pre <= Base - 1
    BY VersionsAre, NumbersAssumption
  <2>2. u.major \in Nat
    BY VersionsAre, NumbersAssumption
  <2> QED BY <2>1, <2>2, VersionsAre DEF Rank, Digit
<1>2. /\ two(v) \in Nat /\ two(w) \in Nat
      /\ two(v) < two(w) <=> v.major < w.major \/ (v.major = w.major /\ v.minor < w.minor)
      /\ two(v) = two(w) <=> v.major = w.major /\ v.minor = w.minor
  <2>1. /\ v.major \in Nat /\ w.major \in Nat
        /\ v.minor \in 0..(Base - 1) /\ w.minor \in 0..(Base - 1)
    BY <1>1
  <2> HIDE DEF last, three
  <2>2. /\ Digit(v.major, v.minor) \in Nat
        /\ Digit(v.major, v.minor) < Digit(w.major, w.minor)
             <=> v.major < w.major \/ (v.major = w.major /\ v.minor < w.minor)
        /\ Digit(v.major, v.minor) = Digit(w.major, w.minor)
             <=> v.major = w.major /\ v.minor = w.minor
    BY <2>1, DigitsCompare
  <2>3. Digit(w.major, w.minor) \in Nat
    BY <2>1, DigitsCompare
  <2> QED BY <2>2, <2>3
<1>3. /\ three(v) \in Nat /\ three(w) \in Nat
      /\ three(v) < three(w) <=> two(v) < two(w) \/ (two(v) = two(w) /\ v.patch < w.patch)
      /\ three(v) = three(w) <=> two(v) = two(w) /\ v.patch = w.patch
  <2>1. v.patch \in 0..(Base - 1) /\ w.patch \in 0..(Base - 1)
    BY <1>1
  <2> HIDE DEF last, two
  <2>2. /\ Digit(two(v), v.patch) \in Nat
        /\ Digit(two(v), v.patch) < Digit(two(w), w.patch)
             <=> two(v) < two(w) \/ (two(v) = two(w) /\ v.patch < w.patch)
        /\ Digit(two(v), v.patch) = Digit(two(w), w.patch)
             <=> two(v) = two(w) /\ v.patch = w.patch
    BY <1>2, <2>1, DigitsCompare
  <2>3. Digit(two(w), w.patch) \in Nat
    BY <1>2, <2>1, DigitsCompare
  <2> QED BY <2>2, <2>3
<1>4. Rank(v) < Rank(w) <=> three(v) < three(w) \/ (three(v) = three(w) /\ last(v) < last(w))
  <2> HIDE DEF last, two, three
  <2> QED BY <1>1, <1>3, DigitsCompare
<1>5. last(v) < last(w) <=> v.pre # 0 /\ (w.pre = 0 \/ v.pre < w.pre)
  <2> HIDE DEF two, three
  <2> QED BY <1>1, NumbersAssumption
<1> HIDE DEF last, two, three
<1> QED BY <1>2, <1>3, <1>4, <1>5 DEF LessThan

(* As long as it is in 1..WordSize-1, the weighted difference is the lag. *)
LEMMA LagIsDifference ==
  ASSUME NEW c \in Version, NEW l \in Version, NEW S \in 1..(WordSize - 1),
         S = (l.major - c.major) * 10000 + (l.minor - c.minor) * 100 + (l.patch - c.patch)
  PROVE  ComputeLag(c, l) = S
<1> DEFINE x1 == l.major - c.major
           x2 == l.minor - c.minor
           x3 == l.patch - c.patch
           sum == (x1 % WordSize) * 10000 + (x2 % WordSize) * 100 + (x3 % WordSize)
<1>1. x1 \in Int /\ x2 \in Int /\ x3 \in Int
  BY DEF Version
<1>2. S = x1 * 10000 + x2 * 100 + x3
  OBVIOUS
<1>3. ComputeLag(c, l) = IF sum % WordSize < 1 THEN 1 ELSE sum % WordSize
  BY DEF ComputeLag, Difference
<1> HIDE DEF x1, x2, x3
<1>4. /\ x1 % WordSize \in Int /\ x2 % WordSize \in Int /\ x3 % WordSize \in Int
  BY <1>1, WordAssumption
<1>5. PICK q1 \in Int : x1 = WordSize * q1 + (x1 % WordSize)
  BY <1>1, Quotient
<1>6. PICK q2 \in Int : x2 = WordSize * q2 + (x2 % WordSize)
  BY <1>1, Quotient
<1>7. PICK q3 \in Int : x3 = WordSize * q3 + (x3 % WordSize)
  BY <1>1, Quotient
<1> DEFINE q == - (q1 * 10000 + q2 * 100 + q3)
<1>8. sum \in Int /\ q \in Int
  BY <1>4
<1>9. sum = S + WordSize * q
  <2>1. PICK r1 \in Int, r2 \in Int, r3 \in Int :
          r1 = x1 % WordSize /\ r2 = x2 % WordSize /\ r3 = x3 % WordSize
    BY <1>4
  <2>2. sum = r1 * 10000 + r2 * 100 + r3
    BY <2>1
  <2>3. x1 = WordSize * q1 + r1 /\ x2 = WordSize * q2 + r2 /\ x3 = WordSize * q3 + r3
    BY <1>5, <1>6, <1>7, <2>1
  <2> HIDE DEF sum
  <2> QED BY <1>2, <2>2, <2>3, WordAssumption
<1> HIDE DEF sum, q
<1>10. S \in 0..(WordSize - 1)
  OBVIOUS
<1>11. sum % WordSize = S
  BY <1>8, <1>9, <1>10, RemainderIs
<1> QED BY <1>3, <1>11

(* The inductive invariant: a result, once there, is that of Compare. *)
Inv ==
  /\ current \in Inputs /\ latest \in Inputs
  /\ done \in BOOLEAN
  /\ done => result = Compare(current, latest)

THEOREM Invariant == Spec => []Inv
<1>1. Init => Inv
  <2>1. ASSUME Init PROVE done \in BOOLEAN
    BY Zenon, <2>1 DEF Init
  <2> QED BY <2>1 DEF Init, Inv
<1>2. Inv /\ [Next]_vars => Inv'
  <2>1. Inv /\ Call => Inv'
    <3>1. ASSUME Call PROVE done' \in BOOLEAN
      BY Zenon, <3>1 DEF Call
    <3> QED BY <3>1 DEF Inv, Call
  <2>2. Inv /\ UNCHANGED vars => Inv'
    BY DEF Inv, vars
  <2> QED BY <2>1, <2>2 DEF Next
<1> QED BY <1>1, <1>2, PTL DEF Spec

LEMMA CompareIs ==
  /\ ~ Known => Compare(current, latest) = Result("unknown", 0)
  /\ Known /\ ~ LessThan(current.version, latest.version)
       => Compare(current, latest) = Result("up_to_date", 0)
  /\ Known /\ LessThan(current.version, latest.version)
       => Compare(current, latest) = Result("outdated", ComputeLag(current.version, latest.version))
BY DEF Known, Compare

LEMMA KnownVersions ==
  ASSUME Inv, Known
  PROVE  current.version \in Versions /\ latest.version \in Versions
BY DEF Inv, Known, Inputs

(* For any set of numbers: a chart is outdated exactly when both texts are  *)
(* versions and the deployed one has the lower rank.                       *)
THEOREM StatusIsPrecedence == Spec => []StatusFollowsPrecedence
<1>1. ASSUME Inv, done PROVE result.status = IF ~ Known THEN "unknown"
                    ELSE IF Rank(current.version) < Rank(latest.version)
                    THEN "outdated" ELSE "up_to_date"
  <2>1. result = Compare(current, latest)
    BY <1>1 DEF Inv
  <2>2. CASE ~ Known
    BY <2>1, <2>2, CompareIs DEF Result
  <2>3. CASE Known
    <3>1. Rank(current.version) < Rank(latest.version)
            <=> LessThan(current.version, latest.version)
      BY <1>1, <2>3, KnownVersions, RankIsPrecedence
    <3> QED BY <2>1, <2>3, <3>1, CompareIs DEF Result
  <2> QED BY <2>2, <2>3
<1>2. Inv => StatusFollowsPrecedence
  BY <1>1 DEF StatusFollowsPrecedence
<1> QED BY <1>2, Invariant, PTL

(* For any set of numbers whose weighted differences fit into a word: the   *)
(* lag is at least 1 exactly for an outdated chart, and it is the weighted *)
(* difference wherever that is positive.                                   *)
THEOREM LagIsMeasured == Spec => []LagMeasuresOutdated
<1>1. ASSUME Inv, done
      PROVE  /\ result.status = "outdated" <=> result.lag >= 1
             /\ result.status = "outdated" /\ SignedLag >= 1 => result.lag = SignedLag
  <2>1. result = Compare(current, latest)
    BY <1>1 DEF Inv
  <2>2. CASE ~ (Known /\ LessThan(current.version, latest.version))
    <3>1. result = Result("unknown", 0) \/ result = Result("up_to_date", 0)
      BY <2>1, <2>2, CompareIs
    <3> QED BY <3>1 DEF Result
  <2>3. CASE Known /\ LessThan(current.version, latest.version)
    <3> DEFINE c == current.version
               l == latest.version
    <3>1. result = Result("outdated", ComputeLag(c, l))
      BY <2>1, <2>3, CompareIs
    <3>2. c \in Versions /\ l \in Versions
      BY <1>1, <2>3, KnownVersions
    <3> HIDE DEF c, l
    <3>3. c \in Version /\ l \in Version
      BY <3>2, VersionsAre
    <3>4. SignedLag = (l.major - c.major) * 10000 + (l.minor - c.minor) * 100 + (l.patch - c.patch)
      BY DEF SignedLag, c, l
    <3>5. SignedLag \in Int /\ SignedLag <= 10101 * Base - 1
      <4>1. /\ l.major - c.major <= Base - 1 /\ l.minor - c.minor <= Base - 1
            /\ l.patch - c.patch <= Base - 1
        BY <3>2, VersionsAre, NumbersAssumption
      <4> QED BY <3>3, <3>4, <4>1, NumbersAssumption DEF Version
    <3>6. SignedLag >= 1 => SignedLag \in 1..(WordSize - 1)
      BY <3>5, NumbersAssumption, WordAssumption
    <3>7. SignedLag >= 1 => ComputeLag(c, l) = SignedLag
      BY <3>3, <3>4, <3>6, LagIsDifference
    <3>8. ComputeLag(c, l) >= 1
      BY <3>3, LagPositive
    <3> QED BY <3>1, <3>7, <3>8 DEF Result
  <2> QED BY <2>2, <2>3
<1>2. Inv => LagMeasuresOutdated
  BY <1>1 DEF LagMeasuresOutdated
<1> QED BY <1>2, Invariant, PTL

=============================================================================
