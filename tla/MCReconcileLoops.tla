-------------------------- MODULE MCReconcileLoops --------------------------
(***************************************************************************)
(* ReconcileLoops on a small instance: two sources, Argo CD and Helm.  The *)
(* Application is deployed from Git, the release from a chart repository.  *)
(***************************************************************************)
EXTENDS ReconcileLoops

CONSTANT a1

MCApps == {a1}

MCUnresolvable == {<<1, a1>>}

=============================================================================
