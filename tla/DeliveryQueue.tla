----------------------------- MODULE DeliveryQueue -----------------------------
(***************************************************************************)
(* Immediate delivery of queued posts to Bluesky: the post_queue,          *)
(* delivery_checkpoints and processed_tweets tables (src/src/db.ts), the   *)
(* queue worker (services/queue-worker-service.ts) and the two delivery    *)
(* loops it drives, processTweets (index.ts) for X posts and               *)
(* NormalizedDeliveryService for generic ones.  Several runtimes share the *)
(* database.  SQL transactions are single steps; every await of the code   *)
(* is a point where other actors may move.                                 *)
(***************************************************************************)
EXTENDS DestinationLease, Integers, FiniteSets

CONSTANTS Posts,           \* queue identities, numbered in delivery order
          NormalizedPosts, \* the generic (non-X) ones among them
          CorruptPosts,    \* X rows whose stored payload cannot be parsed
          Routes,          \* claim groups: rows of one route are claimed together
          RouteOf,         \* Posts -> Routes
          DestinationOf,   \* Routes -> Destinations
          NumChunks,       \* records in the thread of a post
          Contents,        \* renderings of a post (media, AI and link outcomes)
          Stamps,          \* values of createdAt a plan may be given
          None,            \* SQL NULL
          NoRoute,
          LoginErrors,     \* how getAgent fails: {} where it never does
          ErrorKinds,      \* how deliveries fail once logged in
          MaxAttempts,     \* QUEUE_MAX_ATTEMPTS
          MaxBatch,        \* QUEUE_BATCH_MAX_ITEMS
          Concurrency,     \* POST_WORKER_CONCURRENCY
          Pausable,        \* destinations an operator disables, or blocks, at times
          MaxRestarts,     \* bound: times a process is stopped or killed
          MaxStalls        \* bound: leases that lapse under a running process

ASSUME QueueAssumption ==
  /\ Posts \subseteq Nat /\ NormalizedPosts \subseteq Posts /\ CorruptPosts \subseteq Posts
  /\ RouteOf \in [Posts -> Routes] /\ DestinationOf \in [Routes -> Destinations]
  /\ NumChunks \in Nat \ {0} /\ MaxAttempts \in Nat \ {0}
  /\ MaxBatch \in Nat \ {0} /\ Concurrency \in Nat \ {0}
  /\ None \notin Contents /\ None \notin Stamps /\ NoRoute \notin Routes
  /\ ErrorKinds \subseteq {"failure", "rateLimit", "namedRateLimit"} /\ LoginErrors \subseteq {"failure"}
  /\ MaxRestarts \in Nat /\ MaxStalls \in Nat

VARIABLES
  row,         \* post_queue
  checkpoint,  \* delivery_checkpoints: the plan of a thread and its recorded chunks
  history,     \* processed_tweets
  wire,        \* create requests under way to the PDS
  feed,        \* records the PDS holds
  paused,      \* destinations that are disabled or whose account is blocked
  runtime,     \* life cycle of each process
  choosing,    \* the group a process has selected and not yet claimed
  batch,       \* activeDestinations, controllers and the run of each batch
  restarts, stalls

durable == <<lease, row, checkpoint, history>>
network == <<wire, feed>>
process == <<runtime, choosing, batch>>
bounds  == <<restarts, stalls>>
vars    == <<durable, network, process, paused, bounds>>
--------------------------------------------------------------------------------
Chunks == 1 .. NumChunks

\* status "waiting" is a pending row whose not_before lies ahead.  limited: the
\* last error_category is bsky-rate-limit.  since: first_failure_at is unset,
\* less than a day old, or older.  newborn: enqueued_at may still lie in the
\* current second.
Row == [status   : {"absent", "pending", "waiting", "processing", "failed"},
        attempts : 0 .. MaxAttempts,
        limited  : BOOLEAN,
        since    : {"never", "recent", "day"},
        newborn  : BOOLEAN]

NoRow  == [status |-> "absent", attempts |-> 0, limited |-> FALSE, since |-> "never", newborn |-> FALSE]
NewRow == [NoRow EXCEPT !.status = "pending", !.newborn = TRUE]

\* A record key is a function of destination, post, chunk and createdAt, so the
\* stamp of a recorded chunk stands for its uri.
Plan   == [content : Contents \cup {None}, stamp : Stamps \cup {None},
           uri : [Chunks -> Stamps \cup {None}]]
NoPlan == [content |-> None, stamp |-> None, uri |-> [c \in Chunks |-> None]]

Record == [post : Posts, chunk : Chunks, content : Contents, stamp : Stamps]

Phases == {"idle", "login", "next", "prepare", "send", "sent", "finalize", "settle", "release"}
Batch  == [phase     : Phases,
           items     : SUBSET Posts,   \* rows claimed
           todo      : SUBSET Posts,   \* rows the delivery loop has not finished
           attempted : SUBSET Posts,   \* markAttempted
           chunk     : Nat,
           content   : Contents \cup {None},
           stamp     : Stamps \cup {None},
           signal    : {"none", "aborted", "lost"},
           error     : {"none", "failure", "rateLimit", "namedRateLimit"}]
NoBatch == [phase |-> "idle", items |-> {}, todo |-> {}, attempted |-> {}, chunk |-> 0,
            content |-> None, stamp |-> None, signal |-> "none", error |-> "none"]

TypeOK ==
  /\ LeaseTypeOK
  /\ row \in [Posts -> Row]
  /\ checkpoint \in [Posts -> Plan]
  /\ history \in [Posts -> {"none", "skipped", "staleSkip", "migrated"}]
  /\ wire \subseteq Record
  /\ feed \subseteq Record
  /\ paused \subseteq Destinations
  /\ runtime \in [Runtimes -> {"up", "stopping", "down"}]
  /\ choosing \in [Runtimes -> Routes \cup {NoRoute}]
  /\ batch \in [Runtimes -> [Destinations -> Batch]]
  /\ restarts \in 0 .. MaxRestarts
  /\ stalls \in 0 .. MaxStalls

Init ==
  /\ LeaseInit
  /\ row = [q \in Posts |-> NoRow]
  /\ checkpoint = [q \in Posts |-> NoPlan]
  /\ history = [q \in Posts |-> "none"]
  /\ wire = {} /\ feed = {} /\ paused = {}
  /\ runtime = [p \in Runtimes |-> "up"]
  /\ choosing = [p \in Runtimes |-> NoRoute]
  /\ batch = [p \in Runtimes |-> [d \in Destinations |-> NoBatch]]
  /\ restarts = 0 /\ stalls = 0
--------------------------------------------------------------------------------
DestOf(q)     == DestinationOf[RouteOf[q]]
Current(b)    == CHOOSE q \in b.todo : \A x \in b.todo : q <= x
Active(p)     == {d \in Destinations : batch[p][d].phase # "idle"}
Pending(r)    == {q \in Posts : RouteOf[q] = r /\ row[q].status = "pending"}
SameKey(r, s) == r.post = s.post /\ r.chunk = s.chunk /\ r.stamp = s.stamp
IsRecorded(q, c) == checkpoint[q].uri[c] # None

\* deliveryCheckpointService.firstMissing
FirstMissing(plan) ==
  IF \A c \in Chunks : plan.uri[c] # None THEN NumChunks + 1
  ELSE CHOOSE c \in Chunks : plan.uri[c] = None /\ \A e \in Chunks : plan.uri[e] = None => c <= e

SetBatch(p, d, b) == batch' = [batch EXCEPT ![p][d] = b]

\* What the loop knows of a post goes with the iteration.
Forget(b) == [b EXCEPT !.chunk = 0, !.content = None, !.stamp = None]

\* The rest of a batch is given up: runBatch catches the error and settles.
Throw(p, d, b, kind) == SetBatch(p, d, [Forget(b) EXCEPT !.phase = "settle", !.todo = {}, !.error = kind])

\* The loop moves on to the next post.
Advance(p, d, b) == SetBatch(p, d, [Forget(b) EXCEPT !.phase = "next", !.todo = @ \ {Current(b)}])

\* assertDeliveryActive(): neither aborted nor without the lease.
MayWrite(p, d) == batch[p][d].signal = "none" /\ Owns(p, d)

\* What a failed assertDeliveryActive leaves: an aborted signal throws as it is,
\* a failed renewal marks the ownership lost first.
Refused(p, d) ==
  LET b == batch[p][d] IN
  /\ ~MayWrite(p, d)
  /\ Throw(p, d, [b EXCEPT !.signal = IF @ = "none" THEN "lost" ELSE @], "failure")

\* Mutant: EXISTS for NOT EXISTS, the rows under a live lease return to pending.
AfterResetOfLeased ==
  [q \in Posts |-> IF row[q].status = "processing" /\ lease[DestOf(q)] # Nobody
                   THEN [row[q] EXCEPT !.status = "pending", !.newborn = FALSE] ELSE row[q]]

\* resetProcessing(): rows nobody can be delivering return to pending.
AfterReset ==
  [q \in Posts |-> IF row[q].status = "processing" /\ lease[DestOf(q)] = Nobody
                   THEN [row[q] EXCEPT !.status = "pending", !.newborn = FALSE] ELSE row[q]]
--------------------------------------------------------------------------------
(***************************************************************************)
(* Producers and operators.                                                *)
(***************************************************************************)
\* INSERT OR IGNORE.  Callers filter out known posts, from a set they read
\* before their last await; a skip saved before the row is older than it.
Enqueue(q) ==
  /\ row[q].status = "absent"
  /\ row' = [row EXCEPT ![q] = NewRow]
  /\ history' = [history EXCEPT ![q] = IF @ = "skipped" THEN "staleSkip" ELSE @]
  /\ UNCHANGED <<lease, checkpoint, network, process, paused, bounds>>

\* The override of a policy skip consumes the history row, then enqueues.
OverrideSkip(q) ==
  /\ row[q].status = "absent"
  /\ history[q] \in {"skipped", "staleSkip"}
  /\ row' = [row EXCEPT ![q] = NewRow]
  /\ history' = [history EXCEPT ![q] = "none"]
  /\ UNCHANGED <<lease, checkpoint, network, process, paused, bounds>>

\* cancelPending*, deleteByMappingId, clearFailed: never a processing row.
RemoveRow(q) ==
  /\ row[q].status \in {"pending", "waiting", "failed"}
  /\ row' = [row EXCEPT ![q] = NoRow]
  /\ UNCHANGED <<lease, checkpoint, history, network, process, paused, bounds>>

\* retryFailed, and rewritePolicySnapshots of a failed row.
RetryFailed(q) ==
  /\ row[q].status = "failed"
  /\ row' = [row EXCEPT ![q].status = "pending", ![q].attempts = 0]
  /\ UNCHANGED <<lease, checkpoint, history, network, process, paused, bounds>>

TogglePause(d) ==
  /\ d \in Pausable
  /\ paused' = IF d \in paused THEN paused \ {d} ELSE paused \cup {d}
  /\ UNCHANGED <<durable, network, process, bounds>>

\* not_before is reached.
BackoffElapses(q) ==
  /\ row[q].status = "waiting"
  /\ row' = [row EXCEPT ![q].status = "pending", ![q].newborn = FALSE]
  /\ UNCHANGED <<lease, checkpoint, history, network, process, paused, bounds>>

\* A day has passed since the first failure of a row.  Nothing but a rate limit
\* asks.
DayElapses(q) ==
  /\ "namedRateLimit" \in ErrorKinds
  /\ row[q].since = "recent"
  /\ row' = [row EXCEPT ![q].since = "day"]
  /\ UNCHANGED <<lease, checkpoint, history, network, process, paused, bounds>>
--------------------------------------------------------------------------------
(***************************************************************************)
(* Claiming.  claimNextBatch picks a group, then claims it in a            *)
(* transaction of its own; the claiming process does nothing in between,   *)
(* other processes may.                                                    *)
(***************************************************************************)
\* Mutant: destinations that this process is delivering to are not excluded.
ClaimableWhileActive(p, r) ==
  /\ DestinationOf[r] \notin HeldByOthers(p) \cup paused
  /\ \E q \in Posts : RouteOf[q] = r /\ AfterReset[q].status = "pending"

\* The groups claimNextBatch may select after it has reset abandoned rows.
Claimable(p, r) ==
  /\ DestinationOf[r] \notin Active(p) \cup HeldByOthers(p) \cup paused
  /\ \E q \in Posts : RouteOf[q] = r /\ AfterReset[q].status = "pending"

ChooseRoute(p) ==
  /\ runtime[p] = "up" /\ Cardinality(Active(p)) < Concurrency
  /\ row' = AfterReset
  /\ \E r \in Routes : Claimable(p, r) /\ choosing' = [choosing EXCEPT ![p] = r]
  /\ UNCHANGED <<lease, checkpoint, history, network, runtime, batch, paused, bounds>>

\* A poll that finds no group has still reset abandoned rows.
FindNothing(p) ==
  /\ runtime[p] = "up" /\ Cardinality(Active(p)) < Concurrency
  /\ \A r \in Routes : ~Claimable(p, r)
  /\ row' = AfterReset
  /\ UNCHANGED <<lease, checkpoint, history, network, process, paused, bounds>>

\* The oldest MaxBatch pending rows of the group.
Claimed(r) == {q \in Pending(r) : Cardinality({x \in Pending(r) : x < q}) < MaxBatch}

ClaimRoute(p) ==
  LET r == choosing[p]
      d == DestinationOf[r]
  IN
  /\ r # NoRoute
  /\ choosing' = [choosing EXCEPT ![p] = NoRoute]
  /\ IF CanAcquire(p, d) /\ Claimed(r) # {}
     THEN /\ Acquire(p, d)
          /\ row' = [q \in Posts |-> IF q \in Claimed(r) THEN [row[q] EXCEPT !.status = "processing"]
                                      ELSE row[q]]
          /\ SetBatch(p, d, [NoBatch EXCEPT !.phase = "login", !.items = Claimed(r), !.todo = Claimed(r)])
     ELSE UNCHANGED <<lease, row, batch>>   \* claimBatch gives an unused lease back
  /\ UNCHANGED <<checkpoint, history, network, runtime, paused, bounds>>
--------------------------------------------------------------------------------
(***************************************************************************)
(* Delivering a batch.                                                     *)
(***************************************************************************)
\* processTweets returns at once when history knows every post of the batch.
NothingNew(S) == \A q \in S : q \notin NormalizedPosts /\ history[q] # "none"

\* The posts the loop will go through; those it does not reach are not tried.
TakenUp(S) == IF NothingNew(S \ CorruptPosts) THEN {} ELSE S \ CorruptPosts

\* getAgent returned a session; rows with a corrupt payload count as tried.
LoginSucceeds(p, d) ==
  LET b == batch[p][d] IN
  /\ b.phase = "login"
  /\ SetBatch(p, d, [b EXCEPT !.phase = "next", !.todo = TakenUp(@),
                              !.attempted = b.items \cap CorruptPosts])
  /\ UNCHANGED <<durable, network, runtime, choosing, paused, bounds>>

LoginFails(p, d) ==
  /\ batch[p][d].phase = "login"
  /\ \E kind \in LoginErrors : Throw(p, d, batch[p][d], kind)
  /\ UNCHANGED <<durable, network, runtime, choosing, paused, bounds>>

\* Head of the loop.  Only processTweets consults the history.
NextPost(p, d) ==
  LET b == batch[p][d]
      q == Current(b)
  IN
  /\ b.phase = "next"
  /\ \/ b.todo = {} /\ SetBatch(p, d, [b EXCEPT !.phase = "settle"])
     \/ /\ b.todo # {} /\ MayWrite(p, d)
        /\ IF q \notin NormalizedPosts /\ history[q] # "none"
           THEN Advance(p, d, [b EXCEPT !.attempted = @ \cup {q}])
           ELSE SetBatch(p, d, [b EXCEPT !.attempted = @ \cup {q}, !.phase = "prepare"])
     \/ b.todo # {} /\ Refused(p, d)
  /\ UNCHANGED <<durable, network, runtime, choosing, paused, bounds>>

\* Media, AI, scraper, or anything else before the thread is planned, fails.
PrepareFails(p, d) ==
  /\ batch[p][d].phase = "prepare"
  /\ \E kind \in ErrorKinds : Throw(p, d, batch[p][d], kind)
  /\ UNCHANGED <<durable, network, runtime, choosing, paused, bounds>>

\* The policy drops the post.  created_at has whole seconds, so a record saved
\* in the second the row was enqueued in may look older than the row.
SkipPost(p, d) ==
  LET b == batch[p][d]
      q == Current(b)
  IN
  /\ b.phase = "prepare" /\ q \notin NormalizedPosts
  /\ \/ /\ MayWrite(p, d)
        /\ \E kind \in {"skipped"} \cup (IF row[q].newborn THEN {"staleSkip"} ELSE {}) :
             history' = [history EXCEPT ![q] = kind]
        /\ Advance(p, d, b)
     \/ Refused(p, d) /\ UNCHANGED history
  /\ UNCHANGED <<lease, row, checkpoint, network, runtime, choosing, paused, bounds>>

\* Mutant: every attempt plans the thread anew.
FreshPlan(plan, content, stamp) == [NoPlan EXCEPT !.content = content, !.stamp = stamp]

\* deliveryCheckpointService.initialize: rows of another rendering are replaced
\* unless one of them is recorded; its own rows are kept.
InitializedPlan(plan, content, stamp) ==
  IF plan.content = content THEN plan ELSE [NoPlan EXCEPT !.content = content, !.stamp = stamp]

\* Mutant: only a thread that is recorded to the end is protected.
MismatchOfWholeThread(q, content) ==
  checkpoint[q].content \notin {None, content} /\ \A c \in Chunks : IsRecorded(q, c)

Mismatch(q, content) ==
  checkpoint[q].content \notin {None, content} /\ \E c \in Chunks : IsRecorded(q, c)

\* The loop then resumes at the first chunk that is not recorded.  The
\* transaction does not look at the lease.
InitializeThread(p, d) ==
  LET b == batch[p][d]
      q == Current(b)
  IN
  /\ b.phase = "prepare"
  /\ \E content \in Contents, stamp \in Stamps :
       LET plan == InitializedPlan(checkpoint[q], content, stamp) IN
       IF Mismatch(q, content)
       THEN Throw(p, d, b, "failure") /\ UNCHANGED checkpoint
       ELSE /\ checkpoint' = [checkpoint EXCEPT ![q] = plan]
            /\ SetBatch(p, d, [b EXCEPT !.content = content, !.stamp = plan.stamp,
                                        !.chunk = FirstMissing(plan),
                                        !.phase = IF FirstMissing(plan) \in Chunks THEN "send" ELSE "finalize"])
  /\ UNCHANGED <<lease, row, history, network, runtime, choosing, paused, bounds>>

ChunkRecord(b) == [post |-> Current(b), chunk |-> b.chunk, content |-> b.content, stamp |-> b.stamp]

\* deliveryFetch asserts before each request; a failed try is repeated from
\* "sent" while the request is lost.
SendChunk(p, d) ==
  LET b == batch[p][d] IN
  /\ b.phase \in {"send", "sent"}
  /\ b.phase = "sent" => ChunkRecord(b) \notin wire \cup feed
  /\ \/ /\ MayWrite(p, d)
        /\ wire' = wire \cup {ChunkRecord(b)}
        /\ SetBatch(p, d, [b EXCEPT !.phase = "sent"])
     \/ Refused(p, d) /\ UNCHANGED wire
  /\ UNCHANGED <<durable, feed, runtime, choosing, paused, bounds>>

\* Mutant: a request without an answer is taken for a success.
PublishedOrSent(b) == ChunkRecord(b) \in wire \cup feed

\* createPostAtRkey returns the uri of the record, or finds it on a retry.
Published(b) == ChunkRecord(b) \in feed

\* The record is there, created by this request or found by createPostAtRkey,
\* and commitDeliveryState(recordSuccess) runs without an await after it.
RecordChunk(p, d) ==
  LET b == batch[p][d]
      q == Current(b)
  IN
  /\ b.phase = "sent" /\ Published(b)
  /\ \/ /\ MayWrite(p, d)
        /\ IF checkpoint[q].content # None /\ (b.chunk > 1 => IsRecorded(q, b.chunk - 1))
           THEN /\ checkpoint' = [checkpoint EXCEPT ![q].uri[b.chunk] = b.stamp]
                /\ SetBatch(p, d, [b EXCEPT !.phase = IF b.chunk < NumChunks THEN "send" ELSE "finalize",
                                            !.chunk = @ + 1])
           ELSE Throw(p, d, b, "failure") /\ UNCHANGED checkpoint
     \/ Refused(p, d) /\ UNCHANGED checkpoint
  /\ UNCHANGED <<lease, row, history, network, runtime, choosing, paused, bounds>>

\* No answer, an error answer (the record may exist all the same), or a key
\* that holds a different record.
SendFails(p, d) ==
  /\ batch[p][d].phase = "sent"
  /\ \E kind \in ErrorKinds : Throw(p, d, batch[p][d], kind)
  /\ UNCHANGED <<durable, network, runtime, choosing, paused, bounds>>

\* commitDeliveryState(finalize): history and queue row in one transaction.
FinalizePost(p, d) ==
  LET b == batch[p][d]
      q == Current(b)
  IN
  /\ b.phase = "finalize"
  /\ \/ /\ MayWrite(p, d) /\ \A c \in Chunks : IsRecorded(q, c)
        /\ history' = [history EXCEPT ![q] = "migrated"]
        /\ row' = [row EXCEPT ![q] = NoRow]
        /\ Advance(p, d, b)
     \/ /\ MayWrite(p, d) /\ \E c \in Chunks : ~IsRecorded(q, c)
        /\ Throw(p, d, b, "failure") /\ UNCHANGED <<history, row>>
     \/ Refused(p, d) /\ UNCHANGED <<history, row>>
  /\ UNCHANGED <<lease, checkpoint, network, runtime, choosing, paused, bounds>>
--------------------------------------------------------------------------------
(***************************************************************************)
(* Settling a batch.                                                       *)
(***************************************************************************)
\* A skip counts only when it was recorded after the row was enqueued.
IsSettled(q) == history[q] \in {"migrated", "skipped"}

\* runBatch hands on describeError(error), a string.  classifyQueueError reads a
\* rate limit out of it only when the text names the platform as well.
ReadsAsRateLimit(error) == error = "namedRateLimit"

Failed(old, error) ==
  [old EXCEPT !.limited = ReadsAsRateLimit(error), !.since = IF @ = "never" THEN "recent" ELSE @]

\* A rate limit costs no attempt for the first day.
IsFree(old, error) == ReadsAsRateLimit(error) /\ ~(old.limited /\ old.since = "day")

\* Mutant: one attempt too many.
RetryOnceMore(old, error) ==
  IF IsFree(old, error) THEN [Failed(old, error) EXCEPT !.status = "waiting"]
  ELSE [Failed(old, error) EXCEPT !.attempts = @ + 1,
                                  !.status = IF old.attempts >= MaxAttempts THEN "failed" ELSE "waiting"]

\* releaseForRetry.
RetryOf(old, error) ==
  IF IsFree(old, error) THEN [Failed(old, error) EXCEPT !.status = "waiting"]
  ELSE [Failed(old, error) EXCEPT !.attempts = @ + 1,
                                  !.status = IF old.attempts + 1 >= MaxAttempts THEN "failed" ELSE "waiting"]

\* deferUnattempted.
DeferralOf(old, error) == [old EXCEPT !.status = "waiting", !.limited = ReadsAsRateLimit(error)]

\* markDone, deferUnattempted or releaseForRetry, by what became of the row.  The
\* queue_id of the claim matches nothing once the row is gone, be the post
\* enqueued again or not.
SettledRow(b, q) ==
  IF q \notin b.items \/ row[q].status # "processing" THEN row[q]
  ELSE IF IsSettled(q) THEN NoRow
  ELSE IF q \notin b.attempted THEN DeferralOf(row[q], b.error)
  ELSE RetryOf(row[q], b.error)

\* Mutant: a batch settles its rows whoever owns the destination.
SettleUnowned(p, d) ==
  LET b == batch[p][d] IN
  /\ b.phase = "settle"
  /\ row' = [q \in Posts |-> SettledRow(b, q)]
  /\ SetBatch(p, d, [NoBatch EXCEPT !.phase = "release"])
  /\ UNCHANGED <<lease, checkpoint, history, network, runtime, choosing, paused, bounds>>

\* settleWithOwnership: all rows of the batch, or none.
SettleBatch(p, d) ==
  LET b == batch[p][d] IN
  /\ b.phase = "settle"
  /\ row' = IF b.signal # "lost" /\ Owns(p, d) THEN [q \in Posts |-> SettledRow(b, q)] ELSE row
  /\ SetBatch(p, d, [NoBatch EXCEPT !.phase = "release"])
  /\ UNCHANGED <<lease, checkpoint, history, network, runtime, choosing, paused, bounds>>

\* The finally of scheduleAvailable: activeDestinations.delete, releaseLease.
ReleaseBatch(p, d) ==
  /\ batch[p][d].phase = "release"
  /\ ReleaseLease(p, d)
  /\ SetBatch(p, d, NoBatch)
  /\ UNCHANGED <<row, checkpoint, history, network, runtime, choosing, paused, bounds>>

\* The batch deadline aborts the delivery and keeps the lock until it settles.
\* Its timer starts as the first post is taken up.
DeadlinePasses(p, d) ==
  LET b == batch[p][d] IN
  /\ b.phase \in {"next", "prepare", "send", "sent", "finalize"} /\ b.signal = "none"
  /\ b.attempted \ CorruptPosts # {}
  /\ SetBatch(p, d, [b EXCEPT !.signal = "aborted"])
  /\ UNCHANGED <<durable, network, runtime, choosing, paused, bounds>>

\* renewLeases(), once a second: what could not be renewed is lost.
RenewLeases(p) ==
  LET lapsed == {d \in Active(p) : ~Owns(p, d)} IN
  /\ runtime[p] # "down"
  /\ batch' = [batch EXCEPT ![p] = [d \in Destinations |->
                 IF d \in lapsed THEN [@[d] EXCEPT !.signal = "lost"] ELSE @[d]]]
  /\ UNCHANGED <<durable, network, runtime, choosing, paused, bounds>>
--------------------------------------------------------------------------------
(***************************************************************************)
(* Processes, time and the network.                                        *)
(***************************************************************************)
\* SIGTERM: no more claims, every delivery is aborted.
StopRuntime(p) ==
  /\ runtime[p] = "up"
  /\ restarts < MaxRestarts /\ restarts' = restarts + 1
  /\ runtime' = [runtime EXCEPT ![p] = "stopping"]
  /\ batch' = [batch EXCEPT ![p] = [d \in Destinations |->
                 IF d \in Active(p) /\ @[d].signal = "none" THEN [@[d] EXCEPT !.signal = "aborted"] ELSE @[d]]]
  /\ UNCHANGED <<durable, network, choosing, paused, stalls>>

\* Every batch has settled: the leases are dropped and the process exits.
ExitRuntime(p) ==
  /\ runtime[p] = "stopping" /\ Active(p) = {}
  /\ runtime' = [runtime EXCEPT ![p] = "down"]
  /\ ReleaseOwner(p)
  /\ UNCHANGED <<row, checkpoint, history, network, choosing, batch, paused, bounds>>

\* Killed, or the shutdown deadline forces an exit.
Crash(p) ==
  /\ runtime[p] = "up" => restarts < MaxRestarts
  /\ runtime[p] # "down"
  /\ restarts' = IF runtime[p] = "up" THEN restarts + 1 ELSE restarts
  /\ runtime' = [runtime EXCEPT ![p] = "down"]
  /\ choosing' = [choosing EXCEPT ![p] = NoRoute]
  /\ batch' = [batch EXCEPT ![p] = [d \in Destinations |-> NoBatch]]
  /\ Abandon(p)
  /\ UNCHANGED <<row, checkpoint, history, network, paused, stalls>>

\* main(): recoverDestinationQueue resets and drops parked rows past retention.
StartRuntime(p) ==
  /\ runtime[p] = "down"
  /\ runtime' = [runtime EXCEPT ![p] = "up"]
  /\ \E expired \in SUBSET {q \in Posts : row[q].status = "failed"} :
       row' = [q \in Posts |-> IF q \in expired THEN NoRow ELSE AfterReset[q]]
  /\ UNCHANGED <<lease, checkpoint, history, network, choosing, batch, paused, bounds>>

\* A lease of a process that is gone reaches its expiry.
AbandonedLeaseLapses(d) ==
  /\ lease[d] = Former /\ LeaseLapses(d)
  /\ UNCHANGED <<row, checkpoint, history, network, process, paused, bounds>>

\* A process stands still for DESTINATION_LEASE_TTL_MS.
Stall(d) ==
  /\ lease[d] \in Runtimes /\ stalls < MaxStalls /\ LeaseLapses(d)
  /\ stalls' = stalls + 1
  /\ UNCHANGED <<row, checkpoint, history, network, process, paused, restarts>>

\* A request arrives; the PDS keeps the first record of a key.
RequestArrives(r) ==
  /\ r \in wire
  /\ wire' = wire \ {r}
  /\ feed' = IF \E s \in feed : SameKey(r, s) THEN feed ELSE feed \cup {r}
  /\ UNCHANGED <<durable, process, paused, bounds>>

RequestIsLost(r) ==
  /\ r \in wire
  /\ wire' = wire \ {r}
  /\ UNCHANGED <<durable, feed, process, paused, bounds>>
--------------------------------------------------------------------------------
Deliver(p, d) ==
  \/ LoginSucceeds(p, d) \/ LoginFails(p, d)
  \/ NextPost(p, d)
  \/ PrepareFails(p, d) \/ SkipPost(p, d) \/ InitializeThread(p, d)
  \/ SendChunk(p, d) \/ RecordChunk(p, d) \/ SendFails(p, d)
  \/ FinalizePost(p, d)
  \/ SettleBatch(p, d) \/ ReleaseBatch(p, d)
  \/ DeadlinePasses(p, d)

\* A process runs one thing at a time: its claim is synchronous.
RuntimeStep(p) ==
  /\ choosing[p] = NoRoute
  /\ \/ ChooseRoute(p) \/ FindNothing(p) \/ RenewLeases(p)
     \/ \E d \in Destinations : Deliver(p, d)
     \/ StopRuntime(p) \/ ExitRuntime(p) \/ StartRuntime(p)

Environment ==
  \/ \E q \in Posts : \/ Enqueue(q) \/ OverrideSkip(q) \/ RemoveRow(q) \/ RetryFailed(q)
                     \/ BackoffElapses(q) \/ DayElapses(q)
  \/ \E d \in Destinations : TogglePause(d) \/ AbandonedLeaseLapses(d) \/ Stall(d)
  \/ \E r \in wire : RequestArrives(r) \/ RequestIsLost(r)

Next ==
  \/ \E p \in Runtimes : RuntimeStep(p) \/ ClaimRoute(p) \/ Crash(p)
  \/ Environment

Spec == Init /\ [][Next]_vars
--------------------------------------------------------------------------------
(***************************************************************************)
(* Fairness.  Every process keeps polling, every await ends, timers fire,  *)
(* leases of dead processes expire and processes are started again         *)
(* (restart: unless-stopped).  A destination whose login is tried again    *)
(* and again is let in at last; publishing may always fail.                *)
(***************************************************************************)
Poll(p) == choosing[p] = NoRoute /\ (ChooseRoute(p) \/ FindNothing(p))

Proceed(p, d) ==
  /\ choosing[p] = NoRoute
  /\ \/ LoginSucceeds(p, d) \/ LoginFails(p, d) \/ NextPost(p, d)
     \/ PrepareFails(p, d) \/ SkipPost(p, d) \/ InitializeThread(p, d)
     \/ batch[p][d].phase = "send" /\ SendChunk(p, d)
     \/ RecordChunk(p, d) \/ SendFails(p, d) \/ FinalizePost(p, d)
     \/ SettleBatch(p, d) \/ ReleaseBatch(p, d)

LoginIsHeard(p, d) == choosing[p] = NoRoute /\ LoginSucceeds(p, d)

Fairness ==
  /\ \A p \in Runtimes :
       /\ WF_vars(Poll(p)) /\ WF_vars(ClaimRoute(p))
       /\ WF_vars(ExitRuntime(p)) /\ WF_vars(StartRuntime(p))
       /\ \A d \in Destinations : WF_vars(Proceed(p, d)) /\ SF_vars(LoginIsHeard(p, d))
  /\ \A q \in Posts : WF_vars(BackoffElapses(q)) /\ WF_vars(DayElapses(q))
  /\ \A d \in Destinations : WF_vars(AbandonedLeaseLapses(d))

FairSpec == Spec /\ Fairness
--------------------------------------------------------------------------------
(***************************************************************************)
(* Safety.                                                                 *)
(***************************************************************************)
\* A chunk is recorded in the checkpoints only when the PDS holds the record,
\* whatever was lost, repeated or delivered late (recordSuccess).
RecordedChunksArePublished ==
  \A q \in Posts, c \in Chunks :
    IsRecorded(q, c) => \E r \in feed : r.post = q /\ r.chunk = c /\ r.stamp = checkpoint[q].uri[c]

\* No record of a thread becomes public before the one it replies to is durable:
\* a crash between the two cannot leave a reply whose parent is unknown.
ThreadsGrowInOrder ==
  \A r \in feed \cup wire : \A c \in Chunks : c < r.chunk => IsRecorded(r.post, c)

\* History says migrated only of threads that are published to the last chunk.
MigratedThreadsAreComplete ==
  \A q \in Posts : history[q] = "migrated" => \A c \in Chunks : IsRecorded(q, c)

\* No chunk of a post is public twice (deterministic-rkey.ts: the key "is the
\* same on every retry of one chunk").
OneRecordPerChunk ==
  \A r, s \in feed : r.post = s.post /\ r.chunk = s.chunk => r = s

\* A thread is never continued under another rendering than the one its recorded
\* chunks have (initialize: "Saved delivery checkpoint does not match the current
\* thread content").
ThreadsHaveOneRendering ==
  \A r \in feed : r.chunk > 1 =>
    \E s \in feed : /\ s.post = r.post /\ s.chunk = r.chunk - 1 /\ s.content = r.content
                   /\ s.stamp = checkpoint[s.post].uri[s.chunk]

\* A batch that lost its lease never gets it back: what it read before cannot
\* be written under a later claim of the same process.
LostLeaseStaysLost ==
  \A p \in Runtimes, d \in Destinations :
    batch[p][d].phase \notin {"idle", "release"} /\ batch[p][d].signal = "lost" => ~Owns(p, d)

\* A delivered post is never skipped, overridden or forgotten afterwards, also
\* by a process that began the same post before another one finished it.
MigrationIsFinal == [][\A q \in Posts : history[q] = "migrated" => history'[q] = "migrated"]_vars

\* A process never forgets a claimed row: the row has left its batch only once
\* it is settled, or the process no longer holds the destination and
\* resetProcessing may free the row.
ClaimsAreNotForgotten ==
  [][\A p \in Runtimes, q \in Posts : LET d == DestOf(q) IN
       /\ Owns(p, d) /\ lease'[d] = p
       /\ q \in batch[p][d].items \ batch'[p][d].items /\ row[q].status = "processing"
       => row'[q].status # "processing"]_vars

\* Nobody but its owner changes a row that is being delivered under a live
\* lease, and the owner only settles it or deletes it as migrated.
OnlyTheOwnerTouchesItsRows ==
  [][\A p \in Runtimes, q \in Posts : LET d == DestOf(q) IN
       /\ Owns(p, d) /\ lease'[d] = p
       /\ q \in batch[p][d].items /\ row[q].status = "processing"
       /\ batch'[p][d].phase # "release"
       => \/ row'[q].status = "processing" /\ row'[q].attempts = row[q].attempts
          \/ history'[q] = "migrated"]_vars

\* What a checkpoint has recorded is not requested again, by no process that
\* read the thread before another one went on with it (the assert in
\* deliveryFetch, firstMissing).
RecordedChunksAreNotRequestedAgain ==
  [][\A r \in wire' \ wire : ~IsRecorded(r.post, r.chunk)]_vars

\* A claimed row leaves the queue only when history has its outcome.
NoClaimedRowVanishes ==
  [][\A q \in Posts : row[q].status = "processing" /\ row'[q].status = "absent"
       => history'[q] \in {"skipped", "migrated"}]_vars

\* An attempt is charged only to a row that a delivery took up, and a row is
\* parked only when its attempts are used up.
OnlyTriedRowsAreCharged ==
  [][\A q \in Posts :
       /\ row'[q].attempts > row[q].attempts =>
            \E p \in Runtimes : Owns(p, DestOf(q)) /\ q \in batch[p][DestOf(q)].attempted
       /\ row'[q].status = "failed" /\ row[q].status # "failed" => row'[q].attempts = MaxAttempts]_vars

(***************************************************************************)
(* Liveness.                                                               *)
(***************************************************************************)
\* "Repeated failures are parked [...] instead of retrying forever" (README.md):
\* every queued row is delivered, skipped, removed or parked at last.  It does not
\* hold of a row whose skip is saved with an earlier second than the row has.
EveryRowIsParkedAtLast ==
  \A q \in Posts : row[q].status \in {"pending", "waiting", "processing"} ~> row[q].status \in {"absent", "failed"}

\* Every queued row is delivered, skipped, removed or parked at last, unless
\* history holds a skip of its post that settling takes for an older one.  Such a
\* row is not tried again by processTweets, so no attempt is ever charged to it.
EveryRowSettles ==
  \A q \in Posts : row[q].status \in {"pending", "waiting", "processing"}
                    ~> row[q].status \in {"absent", "failed"} \/ history[q] = "staleSkip"

\* However delivery is interrupted, it publishes each thread as promised.
Threads == INSTANCE ThreadPublication WITH
  published    <- {<<r.post, r.chunk>> : r \in feed},
  acknowledged <- [q \in Posts |-> FirstMissing(checkpoint[q]) - 1],
  finished     <- {q \in Posts : history[q] = "migrated"}

PublishesThreads == Threads!Spec
================================================================================
