-------------------------- MODULE MCCatalogBuilder --------------------------
(* CatalogBuilder on a snapshot of two Applications and a Helm release. *)
EXTENDS CatalogBuilder, TLC

MCNames == {"web", "db", "vault", "redis", "mongo", " "}

MCWorkloads == <<[app |-> "web", source |-> "argo"],
                 [app |-> "db", source |-> "secret"],
                 [app |-> "vault", source |-> "argo"]>>

Parts(oci, registry, host, git, http, charts) ==
  [oci |-> oci, registry |-> registry, host |-> host, git |-> git,
   http |-> http, charts |-> charts]

MCURL ==
     "https://charts" :> Parts(FALSE, FALSE, TRUE, FALSE, TRUE, TRUE)
  @@ "ghcr.io/charts" :> Parts(FALSE, TRUE, FALSE, FALSE, FALSE, TRUE)
  @@ "https://github" :> Parts(FALSE, FALSE, TRUE, TRUE, TRUE, FALSE)
  @@ "git@host:app"   :> Parts(FALSE, FALSE, FALSE, TRUE, FALSE, FALSE)
  @@ " "              :> Parts(FALSE, FALSE, FALSE, FALSE, FALSE, FALSE)
  @@ "oci://override" :> Parts(TRUE, FALSE, TRUE, FALSE, FALSE, FALSE)

MCOverrides == "redis" :> "oci://override" @@ "db" :> "oci://override"

Source(chart, repo, version, helm) ==
  [chart |-> chart, repo |-> repo, version |-> version, helm |-> helm]

App(sources) == [spec |-> TRUE, sources |-> sources]

Applications ==
  { App(<<Source("redis", "https://charts", "1", TRUE)>>),
    App(<<Source("", "git@host:app", "2", FALSE), Source("redis", "ghcr.io/charts", "2", FALSE)>>),
    App(<<Source("redis", "https://github", "1", FALSE)>>),
    App(<<Source("redis", "git@host:app", "1", TRUE)>>),
    App(<<Source(" ", "https://charts", "*", TRUE)>>),
    App(<<Source("", "", "1", TRUE)>>),
    App(<<Source("redis", " ", "", FALSE)>>),
    [spec |-> FALSE, sources |-> <<>>] }

Payload(kind, chart, version, repo) ==
  [kind |-> kind, chart |-> chart, version |-> version, repo |-> repo]

Release(chart, version, payload) ==
  [labels |-> [chart |-> chart, version |-> version], payload |-> payload]

Releases ==
  { Release("", "", Payload("none", "", "", "")),
    Release("redis", "1", Payload("broken", "", "", "")),
    Release("redis", "1", Payload("release", "", "2", "https://charts")),
    Release("", "", Payload("release", "mongo", "1", "https://github")) }

MCContents == <<Applications, Releases, {App(<<Source("vault", "https://charts", "1", FALSE)>>)}>>

Version(n) == [kind |-> "version", version |-> [major |-> n, minor |-> 0, patch |-> 0, pre |-> 0]]

MCParsed ==
  "1" :> Version(1) @@ "2" :> Version(2)
  @@ "*" :> [Version(0) EXCEPT !.kind = "unparsable"]
  @@ "unknown" :> [Version(0) EXCEPT !.kind = "unknown"]

=============================================================================
