------------------------ MODULE MCRepositoryResolver ------------------------
(* RepositoryResolver on a small instance: upstream's second index lists    *)
(* the chart that its first one does not.                                  *)
EXTENDS RepositoryResolver

CONSTANTS alloy

MCListed == <<{}, {alloy}>>

=============================================================================
