----------------------------- MODULE OCIResolver -----------------------------
(***************************************************************************)
(* internal/resolver/oci_resolver.go: the workers of catalog.Builder ask   *)
(* for the highest version of one chart in an OCI registry.  They share    *)
(* the tag cache; a fetch goes through the pages of the registry's list,   *)
(* and each page through a loop that answers 401s with a token or with     *)
(* credentials.  Meanwhile tags are pushed and removed.                    *)
(*                                                                         *)
(* The registry lists tags in its own order, the positions 1, 2, ...; what *)
(* semver makes of the tag at a position is Rank, and 0 for a tag that is  *)
(* not a version.  A page is asked for with the position it comes after.   *)
(***************************************************************************)
EXTENDS Integers, Sequences, FiniteSetsExt

CONSTANTS
  Workers,
  Rank,          \* Rank[position]: precedence of the tag there
  PageSize,      \* of the registry
  MaxPages,      \* maxOCIPages
  MaxAttempts,   \* requests for one page
  TTL,
  Initially,     \* bound: the sets of tags that the registry may begin with
  MaxTime,       \* bound: the clock stops here
  MaxChanges     \* bound: tags pushed or removed

Positions == 1..Len(Rank)

ASSUME OCIAssumption ==
  /\ Rank \in Seq(Nat)
  /\ {PageSize, MaxPages, MaxAttempts, TTL} \subseteq Nat \ {0}
  /\ Initially \subseteq SUBSET Positions
  /\ {MaxTime, MaxChanges} \subseteq Nat

VARIABLES
  clock,
  tags,     \* registry: positions of the tags it has
  changes,  \* registry: how often they have changed
  circular, \* registry: its last page links back to the first one
  hostAuth, \* there is a user name for the registry
  cache,    \* OCIResolver.cache, of this chart
  pc,       \* workers: idle, request, token, or store
  fetch,    \* workers: the local variables of fetchTags
  answer    \* workers: what ResolveLatest returned last

vars == <<clock, tags, changes, circular, hostAuth, cache, pc, fetch, answer>>
registry == <<clock, tags, changes, circular, hostAuth>>

(***************************************************************************)
(* auth is the state of token and useBasic, after the position that        *)
(* nextURL continues from.  History: steady, the tags that were there all  *)
(* along; cut, the list may have ended early, at the cap or with a 404.    *)
(***************************************************************************)
Fetch ==
  [auth: {"none", "bearer", "basic"}, attempt: 0..MaxAttempts, page: 0..MaxPages,
   after: 0..Len(Rank), all: SUBSET Positions, steady: SUBSET Positions, cut: BOOLEAN]

NewFetch(S) ==
  [auth |-> "none", attempt |-> 0, page |-> 0, after |-> 0,
   all |-> {}, steady |-> S, cut |-> FALSE]

Ranks(S) == {Rank[t] : t \in S}

(* pickLatestSemverTag: 0 if there is no version among the tags. *)
Highest(S) == Max(Ranks(S) \cup {0})

(* ociCacheEntry.  best is history: the highest of the steady tags. *)
Entry == [tags: SUBSET Positions, expiresAt: Int, best: Nat, cut: BOOLEAN]

NoEntry == [tags |-> {}, expiresAt |-> -1, best |-> 0, cut |-> FALSE]

EntryOf(f) ==
  [tags |-> f.all, expiresAt |-> clock + TTL, best |-> Highest(f.steady), cut |-> f.cut]

Without(kind) == [kind |-> kind, rank |-> 0, best |-> 0, cut |-> TRUE]

From(entry) ==
  [kind |-> IF Highest(entry.tags) = 0 THEN "not_found" ELSE "version",
   rank |-> Highest(entry.tags), best |-> entry.best, cut |-> entry.cut]

TypeOK ==
  /\ clock \in 0..MaxTime
  /\ tags \subseteq Positions /\ changes \in 0..MaxChanges /\ {circular, hostAuth} \subseteq BOOLEAN
  /\ cache \in Entry
  /\ pc \in [Workers -> {"idle", "request", "token", "store"}]
  /\ fetch \in [Workers -> Fetch]
  /\ answer \in [Workers -> [kind: {"none", "version", "not_found", "error"},
                             rank: Nat, best: Nat, cut: BOOLEAN]]

Init ==
  /\ clock = 0
  /\ tags \in Initially /\ changes = 0 /\ circular \in BOOLEAN /\ hostAuth \in BOOLEAN
  /\ cache = NoEntry
  /\ pc = [w \in Workers |-> "idle"]
  /\ fetch = [w \in Workers |-> NewFetch({})]
  /\ answer = [w \in Workers |-> Without("none")]

-----------------------------------------------------------------------------
(* ResolveLatest. *)

Return(w, result) ==
  /\ pc' = [pc EXCEPT ![w] = "idle"]
  /\ fetch' = [fetch EXCEPT ![w] = NewFetch({})]
  /\ answer' = [answer EXCEPT ![w] = result]

Fail(w, kind) == Return(w, Without(kind)) /\ UNCHANGED <<registry, cache>>

(* cachedTags: a list that has not expired is answered from. *)
Hit(w) ==
  /\ pc[w] = "idle"
  /\ cache.tags # {} /\ clock <= cache.expiresAt
  /\ Return(w, From(cache))
  /\ UNCHANGED <<registry, cache>>

Miss(w) ==
  /\ pc[w] = "idle"
  /\ cache.tags = {} \/ clock > cache.expiresAt
  /\ pc' = [pc EXCEPT ![w] = "request"]
  /\ fetch' = [fetch EXCEPT ![w] = NewFetch(tags)]
  /\ answer' = [answer EXCEPT ![w] = Without("none")]
  /\ UNCHANGED <<registry, cache>>

(* parseOCIRepo refuses a URL without a host. *)
Malformed(w) == pc[w] = "idle" /\ Fail(w, "error")

(* storeTags; the time to live counts from here. *)
Store(w) ==
  /\ pc[w] = "store"
  /\ cache' = EntryOf(fetch[w])
  /\ Return(w, From(cache'))
  /\ UNCHANGED registry

-----------------------------------------------------------------------------
(* fetchTags: the answers to a request for a page. *)

(* The next attempt at the same page, if there is one left. *)
Retry(w, auth) ==
  LET f == fetch[w] IN
  \/ /\ f.attempt + 1 < MaxAttempts
     /\ fetch' = [fetch EXCEPT ![w].auth = auth, ![w].attempt = @ + 1]
     /\ pc' = [pc EXCEPT ![w] = "request"]
     /\ UNCHANGED <<registry, cache, answer>>
  \/ f.attempt + 1 >= MaxAttempts /\ Fail(w, "error")

BasicOrFail(w) ==
  \/ hostAuth /\ Retry(w, "basic")
  \/ ~ hostAuth /\ Fail(w, "error")

(* Mutant of Unauthorized: a rejected token or password is tried again. *)
UnauthorizedAgain(w, challenge) ==
  /\ pc[w] = "request"
  /\ \/ /\ challenge
        /\ pc' = [pc EXCEPT ![w] = "token"]
        /\ UNCHANGED <<registry, cache, fetch, answer>>
     \/ ~ challenge /\ BasicOrFail(w)

(* 401, with or without a WWW-Authenticate header. *)
Unauthorized(w, challenge) ==
  /\ pc[w] = "request"
  /\ \/ /\ fetch[w].auth = "none" /\ challenge
        /\ pc' = [pc EXCEPT ![w] = "token"]
        /\ UNCHANGED <<registry, cache, fetch, answer>>
     \/ fetch[w].auth = "none" /\ ~ challenge /\ BasicOrFail(w)
     \/ fetch[w].auth # "none" /\ Fail(w, "error")

(* negotiateBearerToken: the realm grants a token, or there is no realm, no *)
(* answer, no token.                                                       *)
TokenGranted(w) == pc[w] = "token" /\ Retry(w, "bearer")

TokenRefused(w) == pc[w] = "token" /\ BasicOrFail(w)

(* The end of the list, or of what is read of it. *)
EndList(w, f) ==
  \/ /\ f.all # {}
     /\ pc' = [pc EXCEPT ![w] = "store"]
     /\ fetch' = [fetch EXCEPT ![w] = f]
     /\ UNCHANGED <<registry, cache, answer>>
  \/ /\ f.all = {}
     /\ Return(w, [From(EntryOf(f)) EXCEPT !.kind = "not_found"])
     /\ UNCHANGED <<registry, cache>>

(* 404: the list ends with the pages read before. *)
NotFound(w) ==
  /\ pc[w] = "request"
  /\ EndList(w, [fetch[w] EXCEPT !.cut = TRUE])

(* Mutant of Refuse: what was read so far is kept. *)
RefuseKeeping(w) == pc[w] = "request" /\ EndList(w, fetch[w])

(* Another status, no answer within the client's timeout, a body that does  *)
(* not parse, a cancelled context.                                         *)
Refuse(w) == pc[w] = "request" /\ Fail(w, "error")

(* The tags that a page after a position shows, and those left for later.   *)
Shown(after) ==
  {t \in tags : t > after /\ Cardinality({u \in tags : after < u /\ u <= t}) <= PageSize}

Left(after) == {t \in tags : t > after} \ Shown(after)

(* resolveNextPageURL: the position that the next link continues from. *)
Links(after) ==
  CASE Left(after) # {} -> {Max(Shown(after))}
    [] Left(after) = {} -> IF circular THEN {0} ELSE {}

(* Mutant of NextPage: pages are not counted. *)
NextPageUncounted(f, after) ==
  [f EXCEPT !.all = @ \cup Shown(f.after), !.after = after, !.attempt = 0]

(* 200: the tags are added, and nextURL is set. *)
NextPage(f, after) ==
  [f EXCEPT !.all = @ \cup Shown(f.after), !.after = after, !.attempt = 0, !.page = @ + 1]

(* Mutant of Page: one page too many. *)
PageOneMore(w) ==
  /\ pc[w] = "request"
  /\ \E after \in Links(fetch[w].after) :
       LET f == NextPage(fetch[w], after) IN
       \/ /\ f.page <= MaxPages
          /\ fetch' = [fetch EXCEPT ![w] = f]
          /\ UNCHANGED <<registry, cache, pc, answer>>
       \/ /\ f.page > MaxPages
          /\ EndList(w, [f EXCEPT !.cut = TRUE])

(* The list goes on, unless this was the last page that is read. *)
Page(w) ==
  /\ pc[w] = "request"
  /\ \E after \in Links(fetch[w].after) :
       LET f == NextPage(fetch[w], after) IN
       \/ /\ f.page < MaxPages
          /\ fetch' = [fetch EXCEPT ![w] = f]
          /\ UNCHANGED <<registry, cache, pc, answer>>
       \/ /\ f.page >= MaxPages
          /\ EndList(w, [f EXCEPT !.cut = TRUE])

LastPage(w) ==
  /\ pc[w] = "request"
  /\ Links(fetch[w].after) = {}
  /\ EndList(w, NextPage(fetch[w], 0))

-----------------------------------------------------------------------------
(* Environment. *)

Tick ==
  /\ clock < MaxTime
  /\ clock' = clock + 1
  /\ UNCHANGED <<tags, changes, circular, hostAuth, cache, pc, fetch, answer>>

(* A tag is pushed or removed. *)
Change(t) ==
  /\ changes < MaxChanges
  /\ changes' = changes + 1
  /\ tags' = IF t \in tags THEN tags \ {t} ELSE tags \cup {t}
  /\ fetch' = [w \in Workers |-> [fetch[w] EXCEPT !.steady = @ \ {t}]]
  /\ UNCHANGED <<clock, circular, hostAuth, cache, pc, answer>>

(* Every request ends: the client has a timeout. *)
Progress(w) ==
  \/ \E challenge \in BOOLEAN : Unauthorized(w, challenge)
  \/ TokenGranted(w) \/ TokenRefused(w)
  \/ NotFound(w) \/ Refuse(w) \/ Page(w) \/ LastPage(w)
  \/ Store(w)

Next ==
  \/ \E w \in Workers : Hit(w) \/ Miss(w) \/ Malformed(w) \/ Progress(w)
  \/ Tick
  \/ \E t \in Positions : Change(t)

Spec == Init /\ [][Next]_vars /\ \A w \in Workers : WF_vars(Progress(w))

-----------------------------------------------------------------------------
(* Properties. *)

(* ResolveLatest (oci_resolver.go:57): unless the list was cut, by the      *)
(* cap on pages or by a 404, no tag that was there all through the fetch    *)
(* precedes the version answered, also when the answer is from the cache,   *)
(* other workers fetch at the same time and requests of theirs fail.       *)
HighestUnlessCut ==
  \A w \in Workers :
    /\ ~ answer[w].cut /\ answer[w].kind \in {"version", "not_found"}
    => answer[w].rank >= answer[w].best

(* The loop of one page: whatever sequence of 401s a registry answers, no   *)
(* page is asked for more than twice, so the eight attempts are enough.    *)
RetriesAreEnough == \A w \in Workers : fetch[w].attempt <= 1

(* A fetch ends, also when the links of a registry lead round in a circle.  *)
FetchReturns == \A w \in Workers : pc[w] # "idle" ~> pc[w] = "idle"

(* oci_resolver.go:57, README.md:139: the answer is "the highest semver tag *)
(* for chartName", over all pages ("we only need the highest semver across *)
(* the full set").                                                         *)
HighestOfAll ==
  \A w \in Workers :
    answer[w].kind = "version" => answer[w].rank >= answer[w].best

=============================================================================
