---------------------------- MODULE MCDiscovery -----------------------------
(***************************************************************************)
(* Discovery on six objects: two Applications that deploy the same app,    *)
(* two revisions of that app's release as Secrets and one as a ConfigMap   *)
(* (the storage driver was changed), and another release without a         *)
(* revision label.  IDs sort as argocd_application < helm_release_configmap*)
(* < helm_release_secret.                                                  *)
(***************************************************************************)
EXTENDS Discovery

CONSTANTS web, db

Object(id, source, app, rev) == [id |-> id, source |-> source, app |-> app, rev |-> rev]

MCObjects ==
  {Object(1, "argo", web, -1), Object(2, "argo", web, -1),
   Object(3, "configmap", web, 2),
   Object(4, "secret", db, -1),
   Object(5, "secret", web, 1), Object(6, "secret", web, 2)}

=============================================================================
