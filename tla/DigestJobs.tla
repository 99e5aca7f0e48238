------------------------------ MODULE DigestJobs ------------------------------
(***************************************************************************)
(* Digests: posts of a route are collected as entries and published        *)
(* together, as one thread, by a durable job (digestEntryService and       *)
(* digestJobService of src/src/db.ts, DigestWorkerService of               *)
(* src/src/services/digest-worker-service.ts, the arming and cancelling    *)
(* handlers of src/src/server.ts and routes/digest-router.ts).             *)
(*                                                                         *)
(* A run is identified by its run key `job:next_run_at'.  Chunk plans and  *)
(* record keys are derived from it, so only whether two keys are equal     *)
(* matters here: a key nobody has used is as good as a new one.  A run     *)
(* renders the entries it claimed, thus its content is the set of them.    *)
(***************************************************************************)
EXTENDS Integers, FiniteSetsExt, DestinationLease

CONSTANTS Routes,          \* routes whose delivery mode is digest
          DestinationOf,   \* their destinations
          Entries,         \* entries, numbered in the order of created_at, id
          RouteOf,         \* the route an entry is for
          SnapshotOf,      \* the policy snapshot an entry was routed under
          MaxEntries,      \* entries a job may claim (digest.maxEntries)
          RenderLimit,     \* entries that fit a digest (maxGraphemes)
          NumChunks,       \* records of the thread of a digest
          Operators,       \* what operators do
          MaxAttempts, MaxRuns, MaxOperations, MaxFaults   \* bounds

Operations == {"publish", "reschedule", "retry", "cancel", "deleteRoute"}

ASSUME DigestAssumption ==
  /\ Routes # {} /\ DestinationOf \in [Routes -> Destinations]
  /\ Entries \subseteq Nat /\ RouteOf \in [Entries -> Routes]
  /\ \A n \in {MaxEntries, RenderLimit, NumChunks, MaxAttempts, MaxRuns} : n \in Nat \ {0}
  /\ MaxOperations \in Nat /\ MaxFaults \in Nat
  /\ Operators \subseteq Operations

VARIABLES entry,       \* digest_entries.status, "absent" before it is inserted
          job,         \* digest_jobs, at most one row per route
          plan,        \* delivery_checkpoints of each run of each route
          wire,        \* createRecord requests under way
          feed,        \* records the PDS holds
          run,         \* what each process is executing, per destination
          up,          \* processes: up, stopping or down
          configured,  \* routes: new, live or deleted
          meddled,     \* history: routes armed or cancelled while a run had begun
          spent        \* operations and faults so far

rows   == <<entry, job, plan>>
net    == <<wire, feed>>
admin  == <<configured, meddled>>
digestVars == <<lease, rows, net, run, up, admin, spent>>
--------------------------------------------------------------------------------
Chunks == 1 .. NumChunks
Runs   == 1 .. MaxRuns

NoJob == [status |-> "absent", key |-> 1, token |-> Nobody, attempts |-> 0, due |-> FALSE, waiting |-> FALSE]
Job == [status : {"absent", "scheduled", "processing", "failed"},
        key : Runs,                        \* next_run_at
        token : Runtimes \cup {Nobody},    \* claim_token: a process claims a job once at a time
        attempts : 0 .. MaxAttempts,
        due : BOOLEAN,                     \* next_run_at is reached
        waiting : BOOLEAN]                 \* not_before is ahead

NoPlan == [content |-> {}, done |-> 0]
Plan == [content : SUBSET Entries, done : 0 .. NumChunks]

Record == [route : Routes, key : Runs, chunk : Chunks, content : SUBSET Entries]

Phases == {"idle", "session", "publish", "sent", "complete"}
Idle(r) == [phase |-> "idle", route |-> r, key |-> 1, content |-> {}, chunk |-> 1, aborted |-> FALSE]
Execution == [phase : Phases, route : Routes, key : Runs, content : SUBSET Entries,
              chunk : Chunks, aborted : BOOLEAN]

AnyRoute == CHOOSE r \in Routes : TRUE

DigestTypeOK ==
  /\ LeaseTypeOK
  /\ entry \in [Entries -> {"absent", "pending", "claimed", "delivered", "cancelled"}]
  /\ job \in [Routes -> Job]
  /\ plan \in [Routes -> [Runs -> Plan]]
  /\ wire \subseteq Record /\ feed \subseteq Record
  /\ run \in [Runtimes -> [Destinations -> Execution]]
  /\ up \in [Runtimes -> {"up", "stopping", "down"}]
  /\ configured \in [Routes -> {"new", "live", "deleted"}] /\ meddled \subseteq Routes
  /\ spent \in [operations : 0 .. MaxOperations, faults : 0 .. MaxFaults]

DigestInit ==
  /\ LeaseInit
  /\ entry = [e \in Entries |-> "absent"]
  /\ job = [r \in Routes |-> NoJob]
  /\ plan = [r \in Routes |-> [k \in Runs |-> NoPlan]]
  /\ wire = {} /\ feed = {}
  /\ run = [p \in Runtimes |-> [d \in Destinations |-> Idle(AnyRoute)]]
  /\ up = [p \in Runtimes |-> "up"]
  /\ configured = [r \in Routes |-> "new"] /\ meddled = {}
  /\ spent = [operations |-> 0, faults |-> 0]
--------------------------------------------------------------------------------
\* The first n members of a set of entries in the order of created_at, id.
First(n, S) == {e \in S : Cardinality({x \in S : x < e}) < n}

\* The entries of route r in status s become t.
Move(status, r, s, t) == [e \in Entries |-> IF RouteOf[e] = r /\ status[e] = s THEN t ELSE status[e]]

\* A run key that no plan was made for and no process works on.
IsUnused(r, k) ==
  /\ plan[r][k] = NoPlan
  /\ \A p \in Runtimes : LET x == run[p][DestinationOf[r]] IN x.phase # "idle" /\ x.route = r => x.key # k

\* nextDigestRun() and Date.now() give a time no run has had: the next one free.
Fresh(r) == {k \in Runs : IsUnused(r, k) /\ \A j \in 1 .. k - 1 : ~IsUnused(r, j)}

SetRun(p, d, x) == run' = [run EXCEPT ![p][d] = x]

\* finally: the destination is free again and a lease still held is released.
Leave(p, d) == SetRun(p, d, Idle(AnyRoute)) /\ ReleaseLease(p, d)

\* Mutation: the retry is the next run, with keys of its own.
FailedAnew(j) ==
  [j EXCEPT !.status = "scheduled", !.key = IF @ < MaxRuns THEN @ + 1 ELSE @, !.token = Nobody]

\* Mutation: one attempt more than allowed.
FailedOnceMore(j) ==
  LET n == j.attempts + 1 IN
  [j EXCEPT !.status = IF n > MaxAttempts THEN "failed" ELSE "scheduled", !.attempts = n,
            !.waiting = n <= MaxAttempts, !.token = Nobody]

\* digestJobService.fail: only the holder of the claim token charges the job.
Failed(j) ==
  LET n == j.attempts + 1 IN
  [j EXCEPT !.status = IF n >= MaxAttempts THEN "failed" ELSE "scheduled",
            !.attempts = IF n > MaxAttempts THEN MaxAttempts ELSE n,
            !.waiting = n < MaxAttempts, !.token = Nobody]

HoldsClaim(p, r) == job[r].status = "processing" /\ job[r].token = p

\* The catch of execute(): fail() without regard to the lease.
Throw(p, d) ==
  LET r == run[p][d].route IN
  /\ IF HoldsClaim(p, r)
     THEN job' = [job EXCEPT ![r] = Failed(@)] /\ entry' = Move(entry, r, "claimed", "pending")
     ELSE UNCHANGED <<job, entry>>
  /\ Leave(p, d)

\* assertDeliveryActive(): neither aborted nor without the lease.
IsActive(p, d) == ~run[p][d].aborted /\ Owns(p, d)

\* The loop over the chunks: those that have a checkpoint are passed over.
NextChunk(p, d, x, done) ==
  IF done >= NumChunks THEN SetRun(p, d, [x EXCEPT !.phase = "complete"])
  ELSE SetRun(p, d, [x EXCEPT !.phase = "publish", !.chunk = done + 1])
--------------------------------------------------------------------------------
(***************************************************************************)
(* The job table.                                                          *)
(***************************************************************************)
IsAbandoned(r) == job[r].status = "processing" /\ lease[DestinationOf[r]] = Nobody

\* resetProcessing(): claims without a live lease are given up.
JobsAfterReset ==
  [r \in Routes |-> IF IsAbandoned(r) THEN [job[r] EXCEPT !.status = "scheduled", !.token = Nobody] ELSE job[r]]

EntriesAfterReset ==
  [e \in Entries |-> IF entry[e] = "claimed" /\ lease[DestinationOf[RouteOf[e]]] = Nobody THEN "pending" ELSE entry[e]]

IsClaimable(r) ==
  LET j == JobsAfterReset[r] IN
  j.status = "scheduled" /\ j.due /\ ~j.waiting /\ lease[DestinationOf[r]] = Nobody

\* selectSnapshotCohort() and buildDigestPreview(): what a run renders of what it
\* claimed is what fits of the entries routed under the oldest one's policy.
Rendered(claimed) ==
  LET oldest == Min(claimed) IN
  First(RenderLimit, {e \in claimed : SnapshotOf[e] = SnapshotOf[oldest]})

\* scheduleNext() up to the first await of execute(): reset, claim, and either
\* fail for want of a route, complete for want of entries, or render.
ClaimJob(p, r) ==
  LET d == DestinationOf[r]
      limit == IF configured[r] = "live" THEN MaxEntries ELSE 1
      claimed == First(limit, {e \in Entries : RouteOf[e] = r /\ EntriesAfterReset[e] = "pending"})
  IN
  /\ up[p] = "up" /\ run[p][d].phase = "idle" /\ IsClaimable(r)
  /\ \/ /\ configured[r] # "live"
        /\ job' = [JobsAfterReset EXCEPT ![r] = Failed(@)] /\ entry' = EntriesAfterReset
        /\ UNCHANGED <<run, lease>>
     \/ /\ configured[r] = "live" /\ claimed = {}
        /\ \E k \in Fresh(r) : job' = [JobsAfterReset EXCEPT ![r] = [NoJob EXCEPT !.status = "scheduled", !.key = k]]
        /\ entry' = EntriesAfterReset
        /\ UNCHANGED <<run, lease>>
     \/ /\ configured[r] = "live" /\ claimed # {}
        /\ job' = [JobsAfterReset EXCEPT ![r].status = "processing", ![r].token = p]
        /\ entry' = [e \in Entries |-> IF e \in Rendered(claimed) THEN "claimed" ELSE EntriesAfterReset[e]]
        /\ Acquire(p, d)
        /\ SetRun(p, d, [Idle(r) EXCEPT !.phase = "session", !.key = job[r].key, !.content = Rendered(claimed)])
  /\ UNCHANGED <<plan, net, up, admin, spent>>

\* A poll that finds no job still resets.
FindNothing(p) ==
  /\ up[p] = "up" /\ \E r \in Routes : IsAbandoned(r)
  /\ job' = JobsAfterReset /\ entry' = EntriesAfterReset
  /\ UNCHANGED <<lease, plan, net, run, up, admin, spent>>
--------------------------------------------------------------------------------
(***************************************************************************)
(* execute().                                                              *)
(***************************************************************************)
\* Login fails, or the deadline or the shutdown aborts it.
SessionFails(p, d) ==
  /\ run[p][d].phase = "session"
  /\ Throw(p, d)
  /\ UNCHANGED <<plan, net, up, admin, spent>>

IsMismatch(r, k, content) == plan[r][k].content \notin {{}, content} /\ plan[r][k].done > 0

\* deliveryCheckpointService.initialize() replaces a plan nothing of which is done.
PlanFor(r, k, content) ==
  [plan EXCEPT ![r][k] = IF @.content = content THEN @ ELSE [content |-> content, done |-> 0]]

\* initialize() does not look at the lease; the loop behind it does.
SessionOpens(p, d) ==
  LET x == run[p][d]
      r == x.route
  IN
  /\ x.phase = "session"
  /\ IF IsMismatch(r, x.key, x.content) THEN Throw(p, d) /\ UNCHANGED plan
     ELSE /\ plan' = PlanFor(r, x.key, x.content)
          /\ IF IsActive(p, d) THEN NextChunk(p, d, x, plan'[r][x.key].done) /\ UNCHANGED <<job, entry, lease>>
             ELSE Throw(p, d)
  /\ UNCHANGED <<net, up, admin, spent>>

ChunkRecord(x) == [route |-> x.route, key |-> x.key, chunk |-> x.chunk, content |-> x.content]

\* createPostAtRkey(): the record under the key has the content that was sent.
IsThere(x) == ChunkRecord(x) \in feed

PublishChunk(p, d) ==
  LET x == run[p][d] IN
  /\ x.phase = "publish"
  /\ IF IsActive(p, d)
     THEN /\ wire' = wire \cup {ChunkRecord(x)} /\ SetRun(p, d, [x EXCEPT !.phase = "sent"])
          /\ UNCHANGED <<job, entry, lease>>
     ELSE Throw(p, d) /\ UNCHANGED wire
  /\ UNCHANGED <<plan, feed, up, admin, spent>>

\* A timeout, an error of the PDS, or a record of other content under the key.
PublishFails(p, d) ==
  /\ run[p][d].phase = "sent"
  /\ Throw(p, d)
  /\ UNCHANGED <<plan, net, up, admin, spent>>

\* createPostAtRkey() returned: the record is there with the content sent.  Its
\* checkpoint is committed under the lease, the job's under the claim token.
RecordChunk(p, d) ==
  LET x == run[p][d]
      r == x.route
      done == IF plan[r][x.key].done < x.chunk THEN x.chunk ELSE plan[r][x.key].done
  IN
  /\ x.phase = "sent" /\ IsThere(x)
  /\ IF IsActive(p, d) /\ plan[r][x.key].done >= x.chunk - 1
     THEN /\ plan' = [plan EXCEPT ![r][x.key].done = done]
          /\ IF HoldsClaim(p, r) THEN NextChunk(p, d, x, done) /\ UNCHANGED <<job, entry, lease>>
             ELSE Throw(p, d)
     ELSE Throw(p, d) /\ UNCHANGED plan
  /\ UNCHANGED <<net, up, admin, spent>>

\* complete(): what was rendered and is still claimed is delivered, and the job
\* is scheduled for its next time; without the claim token nothing happens.
CompleteRun(p, d) ==
  LET x == run[p][d]
      r == x.route
  IN
  /\ x.phase = "complete"
  /\ IF HoldsClaim(p, r)
     THEN /\ entry' = [e \in Entries |->
                         IF RouteOf[e] # r \/ entry[e] # "claimed" THEN entry[e]
                         ELSE IF e \in x.content THEN "delivered" ELSE "pending"]
          /\ \E k \in Fresh(r) : job' = [job EXCEPT ![r] = [NoJob EXCEPT !.status = "scheduled", !.key = k]]
     ELSE UNCHANGED <<entry, job>>
  /\ Leave(p, d)
  /\ UNCHANGED <<plan, net, up, admin, spent>>
--------------------------------------------------------------------------------
(***************************************************************************)
(* Processes, time and the network.                                        *)
(***************************************************************************)
IsRunning(p) == \E d \in Destinations : run[p][d].phase # "idle"

\* renewLeases() aborts the runs whose lease is gone.
RenewLeases(p) ==
  /\ up[p] # "down"
  /\ \E d \in Destinations : run[p][d].phase # "idle" /\ ~Owns(p, d) /\ ~run[p][d].aborted
  /\ run' = [run EXCEPT ![p] = [d \in Destinations |->
               IF @[d].phase # "idle" /\ ~Owns(p, d) THEN [@[d] EXCEPT !.aborted = TRUE] ELSE @[d]]]
  /\ UNCHANGED <<lease, rows, net, up, admin, spent>>

StopWorker(p) ==
  /\ up[p] = "up" /\ spent.faults < MaxFaults
  /\ up' = [up EXCEPT ![p] = "stopping"]
  /\ run' = [run EXCEPT ![p] = [d \in Destinations |->
               IF @[d].phase # "idle" THEN [@[d] EXCEPT !.aborted = TRUE] ELSE @[d]]]
  /\ spent' = [spent EXCEPT !.faults = @ + 1]
  /\ UNCHANGED <<lease, rows, net, admin>>

ExitWorker(p) ==
  /\ up[p] = "stopping" /\ ~IsRunning(p)
  /\ up' = [up EXCEPT ![p] = "down"] /\ ReleaseOwner(p)
  /\ UNCHANGED <<rows, net, run, admin, spent>>

Crash(p) ==
  /\ up[p] # "down" /\ IsRunning(p) /\ spent.faults < MaxFaults
  /\ up' = [up EXCEPT ![p] = "down"] /\ Abandon(p)
  /\ run' = [run EXCEPT ![p] = [d \in Destinations |-> Idle(AnyRoute)]]
  /\ spent' = [spent EXCEPT !.faults = @ + 1]
  /\ UNCHANGED <<rows, net, admin>>

\* initialize(): reset, and arm the routes that have no job.
StartWorker(p) ==
  /\ up[p] = "down"
  /\ up' = [up EXCEPT ![p] = "up"]
  /\ entry' = EntriesAfterReset
  /\ \E key \in [Routes -> Runs] :
       /\ \A r \in Routes : IF configured[r] = "live" /\ job[r].status = "absent" THEN key[r] \in Fresh(r) ELSE key[r] = job[r].key
       /\ job' = [r \in Routes |->
                    IF configured[r] = "live" /\ job[r].status = "absent"
                    THEN [NoJob EXCEPT !.status = "scheduled", !.key = key[r]]
                    ELSE JobsAfterReset[r]]
  /\ UNCHANGED <<lease, plan, net, run, admin, spent>>

RunIsDue(r) ==
  /\ job[r].status # "absent" /\ ~job[r].due
  /\ job' = [job EXCEPT ![r].due = TRUE]
  /\ UNCHANGED <<lease, entry, plan, net, run, up, admin, spent>>

BackoffElapses(r) ==
  /\ job[r].waiting
  /\ job' = [job EXCEPT ![r].waiting = FALSE]
  /\ UNCHANGED <<lease, entry, plan, net, run, up, admin, spent>>

AbandonedLeaseLapses(d) ==
  /\ lease[d] = Former /\ LeaseLapses(d)
  /\ UNCHANGED <<rows, net, run, up, admin, spent>>

\* The owner stands still for longer than the time to live of its lease.
Stall(d) ==
  /\ lease[d] \in Runtimes /\ spent.faults < MaxFaults /\ LeaseLapses(d)
  /\ spent' = [spent EXCEPT !.faults = @ + 1]
  /\ UNCHANGED <<rows, net, run, up, admin>>

\* The PDS keeps the first record it gets under a key.
RequestArrives(q) ==
  /\ wire' = wire \ {q}
  /\ feed' = IF \E r \in feed : r.route = q.route /\ r.key = q.key /\ r.chunk = q.chunk THEN feed ELSE feed \cup {q}
  /\ UNCHANGED <<lease, rows, run, up, admin, spent>>

RequestIsLost(q) ==
  /\ wire' = wire \ {q}
  /\ UNCHANGED <<lease, rows, feed, run, up, admin, spent>>
--------------------------------------------------------------------------------
(***************************************************************************)
(* Producers and operators.                                                *)
(***************************************************************************)
\* INSERT OR IGNORE: a post is an entry of a route once.  Ids are given in the order of
\* insertion and created_at is the time of it.
Enqueue(e) ==
  /\ entry[e] = "absent" /\ configured[RouteOf[e]] = "live"
  /\ \A x \in Entries : RouteOf[x] = RouteOf[e] /\ entry[x] # "absent" => x < e
  /\ entry' = [entry EXCEPT ![e] = "pending"]
  /\ UNCHANGED <<lease, job, plan, net, run, up, admin, spent>>

HasBegun(r) == job[r].status = "processing" \/ plan[r][job[r].key] # NoPlan

Operate(what) ==
  /\ what \in Operators /\ spent.operations < MaxOperations
  /\ spent' = [spent EXCEPT !.operations = @ + 1]

\* digestJobService.arm() moves next_run_at whatever the status is.
Arm(r, due) ==
  \E k \in Fresh(r) :
    job' = [job EXCEPT ![r].key = k, ![r].due = due,
                       ![r].status = IF @ = "processing" THEN @ ELSE "scheduled"]

\* POST /api/sources/:id/routes with a digest delivery.
CreateRoute(r) ==
  /\ configured[r] = "new"
  /\ configured' = [configured EXCEPT ![r] = "live"] /\ Arm(r, FALSE)
  /\ UNCHANGED <<lease, entry, plan, net, run, up, meddled, spent>>

\* POST /api/admin/digests/:routeId/publish, and the command digest-publish.
PublishNow(r) ==
  /\ Operate("publish") /\ configured[r] = "live"
  /\ Arm(r, TRUE)
  /\ meddled' = IF HasBegun(r) THEN meddled \cup {r} ELSE meddled
  /\ UNCHANGED <<lease, entry, plan, net, run, up, configured>>

\* PATCH /api/routes/:id/delivery.
Reschedule(r) ==
  /\ Operate("reschedule") /\ configured[r] = "live"
  /\ Arm(r, FALSE)
  /\ meddled' = IF HasBegun(r) THEN meddled \cup {r} ELSE meddled
  /\ UNCHANGED <<lease, entry, plan, net, run, up, configured>>

\* POST /api/admin/digest-jobs/:id/retry.
RetryJob(r) ==
  /\ Operate("retry") /\ job[r].status = "failed"
  /\ job' = [job EXCEPT ![r].status = "scheduled", ![r].waiting = FALSE]
  /\ UNCHANGED <<lease, entry, plan, net, run, up, admin>>

\* digestJobService.cancel(): the row of a processing job stays.
CancelledJob(r) == IF job[r].status = "processing" THEN job ELSE [job EXCEPT ![r] = NoJob]

\* DELETE /api/admin/digest-jobs/:id.
CancelJob(r) ==
  /\ Operate("cancel") /\ job[r].status # "absent"
  /\ entry' = Move(entry, r, "claimed", "pending")
  /\ job' = CancelledJob(r)
  /\ meddled' = IF HasBegun(r) THEN meddled \cup {r} ELSE meddled
  /\ UNCHANGED <<lease, plan, net, run, up, configured>>

\* DELETE /api/routes/:id: pending entries are cancelled, then the job is.
DeleteRoute(r) ==
  /\ Operate("deleteRoute") /\ configured[r] = "live"
  /\ entry' = Move(Move(entry, r, "pending", "cancelled"), r, "claimed", "pending")
  /\ job' = CancelledJob(r)
  /\ configured' = [configured EXCEPT ![r] = "deleted"]
  /\ UNCHANGED <<lease, plan, net, run, up, meddled>>
--------------------------------------------------------------------------------
Execute(p, d) ==
  \/ SessionFails(p, d) \/ SessionOpens(p, d)
  \/ PublishChunk(p, d) \/ PublishFails(p, d) \/ RecordChunk(p, d)
  \/ CompleteRun(p, d)

WorkerStep(p) ==
  \/ \E r \in Routes : ClaimJob(p, r)
  \/ \E d \in Destinations : Execute(p, d)
  \/ FindNothing(p) \/ RenewLeases(p)
  \/ StopWorker(p) \/ ExitWorker(p) \/ Crash(p) \/ StartWorker(p)

DigestEnvironment ==
  \/ \E e \in Entries : Enqueue(e)
  \/ \E r \in Routes : RunIsDue(r) \/ BackoffElapses(r)
  \/ \E r \in Routes : CreateRoute(r) \/ PublishNow(r) \/ Reschedule(r) \/ RetryJob(r) \/ CancelJob(r) \/ DeleteRoute(r)
  \/ \E d \in Destinations : AbandonedLeaseLapses(d) \/ Stall(d)
  \/ \E q \in wire : RequestArrives(q) \/ RequestIsLost(q)

DigestNext == (\E p \in Runtimes : WorkerStep(p)) \/ DigestEnvironment

DigestSpec == DigestInit /\ [][DigestNext]_digestVars

--------------------------------------------------------------------------------
(***************************************************************************)
(* Properties.                                                             *)
(***************************************************************************)
IsPublished(e) == \E k \in Runs : \A c \in Chunks :
  \E q \in feed : q.route = RouteOf[e] /\ q.key = k /\ q.chunk = c /\ e \in q.content

\* complete(): an entry is never dropped without appearing in a digest: the whole
\* thread of a run that contains it is on the PDS when it is delivered.  And unless an
\* operator arms or cancels a route in the middle of a run, retries and takeovers leave
\* no entry in the threads of two runs.
EntriesArePublishedOnce ==
  /\ \A e \in Entries : entry[e] = "delivered" => IsPublished(e)
  /\ \A q, s \in feed : q.route = s.route /\ q.route \notin meddled /\ q.key # s.key => q.content \cap s.content = {}

===============================================================================
