------------------- MODULE MCRepositoryResolverLostUpdate -------------------
(***************************************************************************)
(* RepositoryResolver with a history variable: the entry that the latest   *)
(* successful refresh of each repository stored.                           *)
(***************************************************************************)
EXTENDS MCRepositoryResolver

VARIABLE refreshed

LostUpdateInit == Init /\ refreshed = [r \in Repos |-> NoEntry]

(* Only Store leads from stamped to idle. *)
Refreshed(w) == pc[w] = "stamped" /\ pc'[w] = "idle"

LostUpdateNext ==
  /\ Next
  /\ \/ \E w \in Workers :
          /\ Refreshed(w)
          /\ refreshed' = [refreshed EXCEPT ![call[w].repo] = held[w]]
     \/ /\ \A w \in Workers : ~ Refreshed(w)
        /\ UNCHANGED refreshed

LostUpdateSpec == LostUpdateInit /\ [][LostUpdateNext]_<<vars, refreshed>>

(* What repository_resolver_test.go:65 states of two calls in sequence,   *)
(* over all interleavings: while the index that the latest successful      *)
(* refresh stored is within its time to live, a lookup does not go         *)
(* upstream.                                                               *)
NoRequestWhileFresh ==
  [][\A w \in Workers :
       pc[w] = "lookup" /\ pc'[w] = "refresh" =>
         LET e == refreshed[call[w].repo] IN Present(e) => clock > e.expiresAt]_vars

=============================================================================
