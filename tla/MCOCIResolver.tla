---------------------------- MODULE MCOCIResolver ----------------------------
(* OCIResolver on a list of three tags: a version, a tag that is no         *)
(* version, and the latest version, which is listed last.                  *)
EXTENDS OCIResolver

MCRank == <<1, 0, 2>>

=============================================================================
