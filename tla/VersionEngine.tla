--------------------------- MODULE VersionEngine ----------------------------
(***************************************************************************)
(* internal/version/engine.go: what Engine.Compare says of a deployed and  *)
(* a latest version.                                                       *)
(*                                                                         *)
(* The engine's inputs are strings; what it can tell apart of one is its   *)
(* kind: blank (nothing but spaces), the word unknown, a text that the     *)
(* semver library refuses, or a version.  Of a version only its precedence *)
(* matters, so a pre-release is a rank among the pre-releases and build    *)
(* metadata is left out.                                                   *)
(***************************************************************************)
EXTENDS Integers

CONSTANT WordSize    \* 2^64: the numbers of a semver.Version are uint64

ASSUME WordAssumption == WordSize \in Nat \ {0}

(* pre = 0 is a release; the pre-releases 1, 2, ... come before it. *)
Version == [major: Nat, minor: Nat, patch: Nat, pre: Nat]

Raw == [kind: {"blank", "unknown", "unparsable", "version"}, version: Version]

(* semver: Version.LessThan, Equal and GreaterThan. *)
LessThan(v, w) ==
  \/ v.major < w.major
  \/ /\ v.major = w.major
     /\ \/ v.minor < w.minor
        \/ /\ v.minor = w.minor
           /\ \/ v.patch < w.patch
              \/ /\ v.patch = w.patch
                 /\ v.pre # 0 /\ (w.pre = 0 \/ v.pre < w.pre)

(* The differences are taken, multiplied and added as uint64.  (The sum is  *)
(* then a float64, which a sum of more than 53 bits does not fit exactly.) *)
Difference(latest, current) == (latest - current) % WordSize

(* Mutant of ComputeLag: a lag of 0 is not raised to 1. *)
ComputeLagUnclamped(current, latest) ==
  ( Difference(latest.major, current.major) * 10000
  + Difference(latest.minor, current.minor) * 100
  + Difference(latest.patch, current.patch)) % WordSize

ComputeLag(current, latest) ==
  LET lag == ( Difference(latest.major, current.major) * 10000
             + Difference(latest.minor, current.minor) * 100
             + Difference(latest.patch, current.patch)) % WordSize
  IN  IF lag < 1 THEN 1 ELSE lag

Result(status, lag) == [status |-> status, lag |-> lag]

(* Mutant of Compare: the arguments of LessThan are swapped. *)
CompareSwapped(current, latest) ==
  LET known == current.kind = "version" /\ latest.kind = "version"
      older == LessThan(latest.version, current.version)
  IN  CASE ~ known -> Result("unknown", 0)
        [] known /\ ~ older -> Result("up_to_date", 0)
        [] known /\ older ->
             Result("outdated", ComputeLag(current.version, latest.version))

(* A current version that is the word unknown does not parse. *)
Compare(current, latest) ==
  LET known == current.kind = "version" /\ latest.kind = "version"
      older == LessThan(current.version, latest.version)
  IN  CASE ~ known -> Result("unknown", 0)
        [] known /\ ~ older -> Result("up_to_date", 0)
        [] known /\ older ->
             Result("outdated", ComputeLag(current.version, latest.version))

=============================================================================
