-------------------------- MODULE MCVersionEngine ---------------------------
(***************************************************************************)
(* Engine.Compare over every pair of inputs built from a few numbers, set  *)
(* beside a definition that does not look at the code: the rank of a       *)
(* version among all of them, and the signed difference.                   *)
(***************************************************************************)
EXTENDS VersionEngine

CONSTANTS
  Numbers,    \* values of a major, minor or patch number
  MaxPre,     \* pre-releases 1..MaxPre, and 0
  Base        \* bound: numbers and pre-releases are below it

(* A weighted difference that is not negative fits into a word. *)
ASSUME NumbersAssumption ==
  /\ Base \in Nat \ {0} /\ 10101 * Base <= WordSize
  /\ Numbers \subseteq 0..(Base - 1)
  /\ MaxPre \in 0..(Base - 1)

VARIABLES current, latest, result, done

vars == <<current, latest, result, done>>

Versions == [major: Numbers, minor: Numbers, patch: Numbers, pre: 0..MaxPre]

Zero == [major |-> 0, minor |-> 0, patch |-> 0, pre |-> 0]

Inputs ==
  [kind: {"version"}, version: Versions]
    \cup [kind: {"blank", "unknown", "unparsable"}, version: {Zero}]

Init ==
  /\ current \in Inputs
  /\ latest \in Inputs
  /\ result = Result("unknown", 0)
  /\ done = FALSE

Call ==
  /\ ~ done
  /\ result' = Compare(current, latest)
  /\ done' = TRUE
  /\ UNCHANGED <<current, latest>>

Next == Call

Spec == Init /\ [][Next]_vars

-----------------------------------------------------------------------------
Known == current.kind = "version" /\ latest.kind = "version"

Rank(v) ==
  ((v.major * Base + v.minor) * Base + v.patch) * Base
    + (IF v.pre = 0 THEN Base - 1 ELSE v.pre - 1)

SignedLag ==
  LET c == current.version
      l == latest.version
  IN  (l.major - c.major) * 10000 + (l.minor - c.minor) * 100 + (l.patch - c.patch)

(* Compare: a chart is outdated exactly when both versions are versions and *)
(* the deployed one precedes the latest in semver order, pre-releases       *)
(* included; it is unknown exactly when one of them is no version.         *)
StatusFollowsPrecedence ==
  done =>
    result.status = IF ~ Known THEN "unknown"
                    ELSE IF Rank(current.version) < Rank(latest.version)
                    THEN "outdated" ELSE "up_to_date"

(* computeLag: the lag is 0 except for an outdated chart, whose lag is at   *)
(* least 1 also when only the pre-release differs; and as long as the       *)
(* weighted difference is not negative, it is that difference.             *)
LagMeasuresOutdated ==
  done =>
    /\ result.status = "outdated" <=> result.lag >= 1
    /\ result.status = "outdated" /\ SignedLag >= 1 => result.lag = SignedLag

(* engine.go:68: "Ensure outdated records still produce a positive lag." A  *)
(* weighted difference below 1, as between 1.150.0 and 2.0.0, gives lag 1. *)
SmallDifferencesGiveOne ==
  done /\ result.status = "outdated" /\ SignedLag < 1 => result.lag = 1

=============================================================================
