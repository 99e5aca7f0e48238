------------------------------ MODULE SourceSweep ------------------------------
(***************************************************************************)
(* How posts of one X source get to the destinations of its routes: the    *)
(* sweep (src/src/pipeline/source-sweep.ts with the callbacks of           *)
(* executeCanonicalXSourceSweep in src/src/index.ts), the first import of  *)
(* a route (src/src/pipeline/route-initial-import.ts), the backfill, and   *)
(* what the queue worker and the digest worker make of the rows, which is  *)
(* abstracted from DeliveryQueue and DigestJobs.                           *)
(*                                                                         *)
(* Posts are numbered in the order of the timeline.  What filters, content *)
(* policy and fingerprints of other posts say of one is left open: it is   *)
(* allowed or skipped.  A sweep awaits between two posts, so workers and   *)
(* handlers run in between.  Sweeps and backfills of a process exclude one *)
(* another.                                                                *)
(***************************************************************************)
EXTENDS Integers, FiniteSets

CONSTANTS Lanes,           \* the routes of the source, one per destination
          NewOnly,         \* those that start with new posts only
          Unknown,           \* no baseline
          Verdicts,        \* what policies say: "allowed", "skipped"
          Workers,         \* which workers deliver: "queue", "digest"
          MaxPost,         \* posts that appear
          PageLength,      \* posts a fetch returns
          MaxSwitches      \* bound on changes of a delivery mode

ASSUME SweepAssumption ==
  /\ NewOnly \subseteq Lanes /\ Unknown \notin Nat \cup Lanes
  /\ Verdicts \subseteq {"allowed", "skipped"} /\ Workers \subseteq {"queue", "digest"}
  /\ MaxPost \in Nat /\ PageLength \in Nat \ {0} /\ MaxSwitches \in Nat

VARIABLES newest,       \* the newest post of the timeline
          baseline,     \* route_initial_import_state
          queue,        \* post_queue
          digest,       \* digest_entries
          outcome,      \* processed_tweets
          delivery,     \* route.delivery.mode
          sweep,        \* the sweep under way
          backfilling,  \* the backfill under way
          old,          \* history: posts of the first page a route was given
          asked,        \* history: lanes a backfill was run for
          publications, \* history: how often a post appeared at a destination
          switches

laneRows == <<baseline, queue, digest, outcome>>
past == <<old, asked, publications>>
sweepVars == <<newest, laneRows, delivery, sweep, backfilling, past, switches>>
--------------------------------------------------------------------------------
Timeline == 1 .. MaxPost

NoSweep == [at |-> "idle", digests |-> {}, page |-> {}, todo |-> {}, lane |-> Unknown, left |-> {}, chosen |-> {}, known |-> {}]
NoBackfill == [lane |-> Unknown, page |-> {}, seen |-> {}]

SweepTypeOK ==
  /\ newest \in 0 .. MaxPost
  /\ baseline \in [Lanes -> 0 .. MaxPost \cup {Unknown}]
  /\ queue \in [Lanes -> [Timeline -> {"none", "pending", "processing"}]]
  /\ digest \in [Lanes -> [Timeline -> {"none", "pending", "delivered"}]]
  /\ outcome \in [Lanes -> [Timeline -> {"none", "skipped", "migrated"}]]
  /\ delivery \in [Lanes -> {"immediate", "digest"}]
  /\ sweep \in [at : {"idle", "fetching", "routing"}, digests : SUBSET Lanes, page : SUBSET Timeline, todo : SUBSET Lanes,
                lane : Lanes \cup {Unknown}, left : SUBSET Timeline, chosen : SUBSET Timeline, known : SUBSET Timeline]
  /\ backfilling \in [lane : Lanes \cup {Unknown}, page : SUBSET Timeline, seen : SUBSET Timeline]
  /\ old \in [Lanes -> SUBSET Timeline] /\ asked \subseteq Lanes
  /\ publications \in [Lanes -> [Timeline -> 0 .. 2]]
  /\ switches \in 0 .. MaxSwitches

ForAllPosts(value) == [r \in Lanes |-> [t \in Timeline |-> value]]

SweepInit ==
  /\ newest = 0
  /\ baseline = [r \in Lanes |-> Unknown]
  /\ queue = ForAllPosts("none") /\ digest = ForAllPosts("none") /\ outcome = ForAllPosts("none")
  /\ delivery \in [Lanes -> {"immediate", "digest"}]
  /\ sweep = NoSweep /\ backfilling = NoBackfill
  /\ old = [r \in Lanes |-> {}] /\ asked = {} /\ publications = ForAllPosts(0)
  /\ switches = 0
--------------------------------------------------------------------------------
\* What a fetch returns: the newest of the timeline.
Page == {t \in 1 .. newest : t > newest - PageLength}

Latest(page) == IF page = {} THEN 0 ELSE CHOOSE t \in page : \A s \in page : s <= t

\* Mutation: the baseline is the oldest post of the page.
OldestOrZero(r, page) ==
  IF r \notin NewOnly \/ page = {} THEN 0 ELSE CHOOSE t \in page : \A s \in page : s >= t

\* prepareRouteInitialImportCandidates() on the first page of a route; INSERT OR IGNORE.
FirstBaseline(r, page) == IF r \in NewOnly THEN Latest(page) ELSE 0

BaselineOf(r, page) == IF baseline[r] = Unknown THEN FirstBaseline(r, page) ELSE baseline[r]

IsQueued(r, t) == queue[r][t] # "none"

IsDigest(r) == delivery[r] = "digest"

\* Mutation: an entry that was delivered is entered again.
EnqueueAgain(r, posts, asDigest) ==
  IF asDigest
  THEN digest' = [digest EXCEPT ![r] = [t \in Timeline |-> IF t \in posts THEN "pending" ELSE @[t]]] /\ UNCHANGED queue
  ELSE queue' = [queue EXCEPT ![r] = [t \in Timeline |-> IF t \in posts THEN "pending" ELSE @[t]]] /\ UNCHANGED digest

\* enqueueTweetsForMapping() and the digest branch of the sweep: INSERT OR IGNORE.
EnqueuePosts(r, posts, asDigest) ==
  IF asDigest
  THEN /\ digest' = [digest EXCEPT ![r] = [t \in Timeline |-> IF t \in posts /\ @[t] = "none" THEN "pending" ELSE @[t]]]
       /\ UNCHANGED queue
  ELSE /\ queue' = [queue EXCEPT ![r] = [t \in Timeline |-> IF t \in posts /\ @[t] = "none" THEN "pending" ELSE @[t]]]
       /\ UNCHANGED digest

\* persistSkip(): not if the post has an outcome at the destination.
SkipUnlessSettled(r, t) == [outcome EXCEPT ![r][t] = IF @ = "none" THEN "skipped" ELSE @]
--------------------------------------------------------------------------------
(***************************************************************************)
(* The sweep.                                                              *)
(***************************************************************************)
PostAppears ==
  /\ newest < MaxPost /\ newest' = newest + 1
  /\ UNCHANGED <<laneRows, delivery, sweep, backfilling, past, switches>>

BeginSweep ==
  /\ sweep.at = "idle" /\ backfilling = NoBackfill
  /\ sweep' = [NoSweep EXCEPT !.at = "fetching", !.digests = {r \in Lanes : IsDigest(r)}]
  /\ UNCHANGED <<newest, laneRows, delivery, backfilling, past, switches>>

Fetched ==
  /\ sweep.at = "fetching"
  /\ sweep' = [sweep EXCEPT !.at = "routing", !.page = Page, !.todo = Lanes]
  /\ UNCHANGED <<newest, laneRows, delivery, backfilling, past, switches>>

\* A fetch that fails or times out has no posts, and the routes are given none.
FetchFails ==
  /\ sweep.at = "fetching"
  /\ sweep' = NoSweep
  /\ UNCHANGED <<newest, laneRows, delivery, backfilling, past, switches>>

\* The next route: its baseline is there before any post is considered, and the ids of
\* its queue are read once.
BeginLane(r) ==
  /\ sweep.at = "routing" /\ sweep.lane = Unknown /\ r \in sweep.todo
  /\ baseline' = [baseline EXCEPT ![r] = BaselineOf(r, sweep.page)]
  /\ old' = [old EXCEPT ![r] = IF baseline[r] = Unknown THEN sweep.page ELSE @]
  /\ sweep' = [sweep EXCEPT !.lane = r, !.todo = @ \ {r}, !.chosen = {},
                            !.left = {t \in sweep.page : t > BaselineOf(r, sweep.page)},
                            !.known = {t \in Timeline : IsQueued(r, t)}]
  /\ UNCHANGED <<newest, queue, digest, outcome, delivery, backfilling, asked, publications, switches>>

\* The policies and isDestinationDuplicate() on the next post.
ConsiderPost(t) ==
  LET r == sweep.lane IN
  /\ r # Unknown /\ t \in sweep.left /\ \A s \in sweep.left : t >= s
  /\ \E verdict \in Verdicts :
       IF verdict = "skipped" \/ t \in sweep.known \/ outcome[r][t] # "none"
       THEN /\ outcome' = SkipUnlessSettled(r, t)
            /\ sweep' = [sweep EXCEPT !.left = @ \ {t}]
       ELSE /\ sweep' = [sweep EXCEPT !.left = @ \ {t}, !.chosen = @ \cup {t}]
            /\ UNCHANGED outcome
  /\ UNCHANGED <<newest, baseline, queue, digest, delivery, backfilling, past, switches>>

\* Routes are those of the configuration the sweep began with; where it has no digest,
\* the present one is asked.
EndLane ==
  LET r == sweep.lane IN
  /\ r # Unknown /\ sweep.left = {}
  /\ EnqueuePosts(r, sweep.chosen, r \in sweep.digests \/ IsDigest(r))
  /\ sweep' = IF sweep.todo = {} THEN NoSweep ELSE [sweep EXCEPT !.lane = Unknown]
  /\ UNCHANGED <<newest, baseline, outcome, delivery, backfilling, past, switches>>

\* The process dies: rows stay, and claimed rows are given back when it starts.
SweepCrash ==
  /\ sweep # NoSweep \/ backfilling # NoBackfill
  /\ sweep' = NoSweep /\ backfilling' = NoBackfill
  /\ queue' = [r \in Lanes |-> [t \in Timeline |-> IF IsQueued(r, t) THEN "pending" ELSE "none"]]
  /\ UNCHANGED <<newest, baseline, digest, outcome, delivery, past, switches>>
--------------------------------------------------------------------------------
(***************************************************************************)
(* Backfills: what is known is read before the timeline is.                *)
(***************************************************************************)
BeginFetch(r) ==
  /\ sweep = NoSweep /\ backfilling = NoBackfill /\ r \notin asked
  /\ backfilling' = [lane |-> r, page |-> 1 .. newest,
                     seen |-> {t \in Timeline : IsQueued(r, t) \/ outcome[r][t] # "none"}]
  /\ asked' = asked \cup {r}
  /\ UNCHANGED <<newest, laneRows, delivery, sweep, old, publications, switches>>

EndFetch ==
  LET r == backfilling.lane IN
  /\ r # Unknown
  /\ \E accepted \in SUBSET (backfilling.page \ backfilling.seen) :
       LET skipped == (backfilling.page \ backfilling.seen) \ accepted IN
       /\ accepted # {} => "allowed" \in Verdicts
       /\ skipped # {} => "skipped" \in Verdicts
       /\ outcome' = [outcome EXCEPT ![r] = [t \in Timeline |-> IF t \in skipped THEN "skipped" ELSE @[t]]]
       /\ EnqueuePosts(r, accepted, IsDigest(r))
  /\ backfilling' = NoBackfill
  /\ UNCHANGED <<newest, baseline, delivery, sweep, past, switches>>
--------------------------------------------------------------------------------
(***************************************************************************)
(* Workers and operators.                                                  *)
(***************************************************************************)
ClaimRow(r, t) ==
  /\ "queue" \in Workers /\ queue[r][t] = "pending"
  /\ queue' = [queue EXCEPT ![r][t] = "processing"]
  /\ UNCHANGED <<newest, baseline, digest, outcome, delivery, sweep, backfilling, past, switches>>

ReleaseRow(r, t) ==
  /\ queue[r][t] = "processing"
  /\ queue' = [queue EXCEPT ![r][t] = "pending"]
  /\ UNCHANGED <<newest, baseline, digest, outcome, delivery, sweep, backfilling, past, switches>>

Published(r, t) == publications' = [publications EXCEPT ![r][t] = IF @ < 2 THEN @ + 1 ELSE @]

\* processTweets() leaves out what has an outcome.
IsKnown(r, t) == outcome[r][t] # "none"

\* Publication and finalization.
DeliverRow(r, t) ==
  /\ queue[r][t] = "processing" /\ ~IsKnown(r, t)
  /\ Published(r, t)
  /\ outcome' = [outcome EXCEPT ![r][t] = "migrated"]
  /\ queue' = [queue EXCEPT ![r][t] = "none"]
  /\ UNCHANGED <<newest, baseline, digest, delivery, sweep, backfilling, old, asked, switches>>

\* findSettlement() takes an outcome that is no older than the row for the row's.
SettleKnownRow(r, t) ==
  /\ queue[r][t] = "processing" /\ IsKnown(r, t)
  /\ queue' = [queue EXCEPT ![r][t] = "none"]
  /\ UNCHANGED <<newest, baseline, digest, outcome, delivery, sweep, backfilling, past, switches>>

\* A digest is published and completed; processed_tweets is not written.
DeliverDigest(r) ==
  LET posts == {t \in Timeline : digest[r][t] = "pending"} IN
  /\ "digest" \in Workers /\ IsDigest(r) /\ posts # {}
  /\ digest' = [digest EXCEPT ![r] = [t \in Timeline |-> IF t \in posts THEN "delivered" ELSE @[t]]]
  /\ publications' = [publications EXCEPT ![r] = [t \in Timeline |-> IF t \in posts /\ @[t] < 2 THEN @[t] + 1 ELSE @[t]]]
  /\ UNCHANGED <<newest, baseline, queue, outcome, delivery, sweep, backfilling, old, asked, switches>>

\* PATCH /api/routes/:id/delivery.
SwitchDelivery(r) ==
  /\ switches < MaxSwitches /\ switches' = switches + 1
  /\ delivery' = [delivery EXCEPT ![r] = IF @ = "digest" THEN "immediate" ELSE "digest"]
  /\ UNCHANGED <<newest, laneRows, sweep, backfilling, past>>
--------------------------------------------------------------------------------
SweepNext ==
  \/ PostAppears \/ BeginSweep \/ Fetched \/ FetchFails \/ EndLane \/ SweepCrash \/ EndFetch
  \/ \E t \in Timeline : ConsiderPost(t)
  \/ \E r \in Lanes : BeginLane(r) \/ BeginFetch(r) \/ DeliverDigest(r) \/ SwitchDelivery(r)
  \/ \E r \in Lanes, t \in Timeline : ClaimRow(r, t) \/ ReleaseRow(r, t) \/ DeliverRow(r, t) \/ SettleKnownRow(r, t)

SweepSpec == SweepInit /\ [][SweepNext]_sweepVars
--------------------------------------------------------------------------------
(***************************************************************************)
(* Properties.                                                             *)
(***************************************************************************)
IsOnItsWay(r, t) == queue[r][t] # "none" \/ digest[r][t] # "none"

\* docs/operations.md, "Start with new posts only": whatever fetch comes first,
\* however the sweeps after it are cut short, nothing that was on the first page is
\* queued or published at such a route, unless a backfill asked for it.
OldPostsStayOut ==
  \A r \in NewOnly \ asked : \A t \in old[r] : ~IsOnItsWay(r, t) /\ publications[r][t] = 0

\* As long as no route changes its delivery mode, sweeps that overlap the workers,
\* backfills and crashes bring a post to a destination at most once.
PostsArriveOnce == switches = 0 => \A r \in Lanes, t \in Timeline : publications[r][t] <= 1

\* docs/operations.md: what changes later does not rewrite queued work: a row leaves the
\* queue only because it was published.
QueuedPostsArePublished ==
  [][\A r \in Lanes, t \in Timeline :
       IsQueued(r, t) /\ queue'[r][t] = "none" => publications'[r][t] > 0]_sweepVars
================================================================================
