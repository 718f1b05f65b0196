------------------------------- MODULE Config -------------------------------
(***************************************************************************)
(* internal/config/config.go: how a variable of the environment becomes a  *)
(* setting.  A variable is unset, a text that does not parse, or a number. *)
(***************************************************************************)
EXTENDS Integers

Unset == [kind |-> "unset", n |-> 0]

Junk == [kind |-> "junk", n |-> 0]

Number(n) == [kind |-> "number", n |-> n]

(* Mutant of getEnvDuration: what ParseDuration returns with its error. *)
getEnvDurationUnchecked(v, fallback) == IF v.kind = "unset" THEN fallback ELSE v.n

(* Any duration that parses is taken, also zero and a negative one. *)
getEnvDuration(v, fallback) == IF v.kind = "number" THEN v.n ELSE fallback

=============================================================================
