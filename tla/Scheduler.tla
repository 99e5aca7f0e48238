------------------------------- MODULE Scheduler -------------------------------
(***************************************************************************)
(* The loop of the daemon and the backfills it runs: SchedulerService of   *)
(* src/src/services/scheduler-service.ts with the callbacks main() of      *)
(* src/src/index.ts gives it, runAccountTask(), backfillJobService of      *)
(* src/src/db.ts, and the handlers of src/src/server.ts that ask for work. *)
(*                                                                         *)
(* A request lives in the memory of the process that accepted it until a   *)
(* task mirrors it into a row.  An iteration of the loop reads the         *)
(* commands, awaits the pin syncs, and either selects and awaits backfills *)
(* or runs a sweep.  The sequence numbers of memory and rows are of two    *)
(* counters, so which requests of a full list are taken first is left      *)
(* open.                                                                   *)
(***************************************************************************)
EXTENDS Integers, FiniteSetsExt

CONSTANTS Daemons, Destinations, Requests,
          TargetOf,       \* the destination a request is for
          None,           \* no request
          Branches,       \* backfills run at a time (SUBBRANCH_COUNT)
          MaxAttempts,    \* attempts of a backfill (8 in the code)
          Operators,      \* what operators do
          Blockable,      \* destinations whose account may be taken down
          MaxEvents       \* bound on what operators do and on stops

ASSUME SchedulerAssumption ==
  /\ TargetOf \in [Requests -> Destinations] /\ None \notin Requests
  /\ Branches \in Nat \ {0} /\ MaxAttempts \in Nat \ {0}
  /\ MaxEvents \in Nat /\ Blockable \subseteq Destinations
  /\ Operators \subseteq {"cancel", "clearAll", "runNow", "pause", "remove", "schedule"}

VARIABLES backfill,    \* backfill_jobs
          memory,      \* pendingBackfills of each process, one per destination
          daemon,      \* the loop of each process
          task,        \* activeTasks: the backfill a process runs per destination
          setup,       \* configuration: scheduler, destinations, blocked accounts
          fate,        \* history: what became of a request
          disturbed,   \* history: requests reset while a task was at work on them
          used         \* events so far

schedulerVars == <<backfill, memory, daemon, task, setup, fate, disturbed, used>>
--------------------------------------------------------------------------------
NoRow == [status |-> "absent", token |-> None, attempts |-> 0, waiting |-> FALSE]
Row == [status : {"absent", "pending", "processing", "failed"},
        token : Daemons \cup {None},       \* claim_token
        attempts : 0 .. MaxAttempts,
        waiting : BOOLEAN]                 \* not_before is ahead

Off == [phase |-> "off", asked |-> FALSE, runNow |-> FALSE, sawOn |-> FALSE, sawPaused |-> {},
        sawDue |-> FALSE, selected |-> {}, due |-> FALSE, deferred |-> FALSE, startup |-> FALSE]
Loop == [phase : {"off", "idle", "pins", "claim", "backfills", "sweep"},
         asked : BOOLEAN,                  \* a run-now command that was not read yet
         runNow : BOOLEAN,                 \* what the iteration read when it began
         sawOn : BOOLEAN, sawPaused : SUBSET Destinations,
         sawDue : BOOLEAN,                 \* scheduledSweepWasDue
         selected : SUBSET Requests,       \* selectedBackfills
         due : BOOLEAN,                    \* nextCheckTime is reached
         deferred : BOOLEAN, startup : BOOLEAN]   \* deferredScheduledRun, startupRunPending

SchedulerTypeOK ==
  /\ backfill \in [Requests -> Row]
  /\ memory \in [Daemons -> [Destinations -> Requests \cup {None}]]
  /\ daemon \in [Daemons -> Loop]
  /\ task \in [Daemons -> [Destinations -> Requests \cup {None}]]
  /\ setup \in [scheduling : BOOLEAN, paused : SUBSET Destinations, blocked : SUBSET Blockable]
  /\ fate \in [Requests -> {"new", "accepted", "begun", "withdrawn", "imported"}]
  /\ disturbed \subseteq Requests
  /\ used \in 0 .. MaxEvents

Nothing == [d \in Destinations |-> None]

SchedulerInit ==
  /\ backfill = [r \in Requests |-> NoRow]
  /\ memory = [p \in Daemons |-> Nothing] /\ task = [p \in Daemons |-> Nothing]
  /\ daemon = [p \in Daemons |-> [Off EXCEPT !.phase = "idle", !.startup = TRUE]]
  /\ setup = [scheduling |-> TRUE, paused |-> {}, blocked |-> {}]
  /\ fate = [r \in Requests |-> "new"] /\ disturbed = {}
  /\ used = 0
--------------------------------------------------------------------------------
IsUp(p) == daemon[p].phase # "off"
IsDueRow(r) == backfill[r].status = "pending" /\ ~backfill[r].waiting

\* mergedPendingBackfills().
Pending(p) == {r \in Requests : IsDueRow(r) \/ memory[p][TargetOf[r]] = r}

\* Mutation: claim() without a look at the status.
IsNeverClaimed(row) == FALSE

IsClaimed(row) == row.status = "processing"

\* upsert() and claim(): a row somebody processes is left alone.
Taken(row, p) ==
  IF IsClaimed(row) THEN [row EXCEPT !.waiting = FALSE]
  ELSE [status |-> "processing", token |-> p, waiting |-> FALSE,
        attempts |-> IF row.attempts < MaxAttempts THEN row.attempts + 1 ELSE MaxAttempts]

\* reschedule(): the row waits for its next attempt or is parked.
Rescheduled(row) ==
  [row EXCEPT !.status = IF row.attempts >= MaxAttempts THEN "failed" ELSE "pending",
              !.token = None, !.waiting = row.attempts < MaxAttempts]

\* Mutation: an error of a source ends the backfill like a success.
SettledAnyhow(row, p, ok) == IF row.status # "processing" \/ row.token # p THEN row ELSE NoRow

\* settleBackfill(): only with the claim token of the task.
Settled(row, p, ok) ==
  IF row.status # "processing" \/ row.token # p THEN row
  ELSE IF ok THEN NoRow ELSE Rescheduled(row)

\* Mutation: no recovery of what a process left behind.
AfterNoRecovery(row) == row

\* resetProcessing(): whoever processes it.
AfterRecovery(row) ==
  IF row.status = "processing" THEN [row EXCEPT !.status = "pending", !.token = None, !.waiting = FALSE] ELSE row

\* isBackfillStillRequested().
IsStillRequested(p, r) ==
  IF backfill[r].status # "absent" THEN backfill[r].status # "failed" ELSE r \in Pending(p)
--------------------------------------------------------------------------------
(***************************************************************************)
(* runIteration().                                                         *)
(***************************************************************************)
BeginIteration(p) ==
  /\ daemon[p].phase = "idle"
  /\ daemon' = [daemon EXCEPT ![p].phase = "pins", ![p].asked = FALSE, ![p].runNow = daemon[p].asked,
                              ![p].sawOn = setup.scheduling, ![p].sawPaused = setup.paused,
                              ![p].sawDue = setup.scheduling /\ daemon[p].due]
  /\ UNCHANGED <<backfill, memory, task, setup, fate, disturbed, used>>

\* processBackfills(): one request per destination and so many at once.
Selections(p) ==
  {S \in SUBSET Pending(p) :
     /\ \A r, s \in S : TargetOf[r] = TargetOf[s] => r = s
     /\ Cardinality(S) = Min({Branches, Cardinality({TargetOf[r] : r \in Pending(p)})})}

SelectBackfills(p) ==
  /\ daemon[p].phase = "pins" /\ Pending(p) # {}
  /\ \E S \in Selections(p) :
       daemon' = [daemon EXCEPT ![p].phase = "claim", ![p].selected = S, ![p].deferred = @ \/ daemon[p].sawDue]
  /\ UNCHANGED <<backfill, memory, task, setup, fate, disturbed, used>>

\* The start of runAccountTask() up to its first await: the request becomes a row and
\* is claimed, if no other process was faster since the rows were listed.  getAgent()
\* throws when the account is blocked; the catch reschedules the row and the request
\* stays in memory.  Who cannot claim leaves it there as well.
StartBackfills(p) ==
  /\ daemon[p].phase = "claim"
  /\ LET S == daemon[p].selected
         live == {r \in S : TargetOf[r] \notin daemon[p].sawPaused}
         claimed == {r \in live : ~IsClaimed(backfill[r])}
         begun == {r \in claimed : TargetOf[r] \notin setup.blocked}
     IN
     /\ backfill' = [r \in Requests |->
                       IF r \in begun THEN Taken(backfill[r], p)
                       ELSE IF r \in claimed THEN Rescheduled(Taken(backfill[r], p))
                       ELSE IF r \in live THEN Taken(backfill[r], p)
                       ELSE IF r \in S /\ backfill[r].status # "processing" THEN NoRow
                       ELSE backfill[r]]
     /\ memory' = [memory EXCEPT ![p] =
                     [d \in Destinations |-> IF @[d] \in S \ live THEN None ELSE @[d]]]
     /\ task' = [task EXCEPT ![p] =
                   [d \in Destinations |-> IF \E r \in begun : TargetOf[r] = d
                                           THEN CHOOSE r \in begun : TargetOf[r] = d ELSE None]]
     /\ fate' = [r \in Requests |->
                   IF r \in live /\ fate[r] = "accepted" THEN "begun"
                   ELSE IF r \in S \ live /\ fate[r] # "imported" THEN "withdrawn"
                   ELSE fate[r]]
  /\ daemon' = [daemon EXCEPT ![p].phase = "backfills", ![p].selected = {}]
  /\ UNCHANGED <<setup, disturbed, used>>

\* Mutation: a request that failed stays in memory.
KeepUnlessDone(p, d, ok) == IF ok THEN [memory EXCEPT ![p][d] = IF @ = task[p][d] THEN None ELSE @] ELSE memory

ClearBackfill(p, d, ok) == [memory EXCEPT ![p][d] = IF @ = task[p][d] THEN None ELSE @]

\* The tail of runAccountTask(): importHistory() of all sources is behind it, without
\* or with an error; the deadline of a source is one.
ImportEnds(p, d, ok) ==
  LET r == task[p][d] IN
  /\ r # None
  /\ backfill' = [backfill EXCEPT ![r] = Settled(@, p, ok)]
  /\ memory' = ClearBackfill(p, d, ok)
  /\ task' = [task EXCEPT ![p][d] = None]
  /\ fate' = [fate EXCEPT ![r] = IF ok /\ IsStillRequested(p, r) THEN "imported"
                                 ELSE IF ok /\ @ = "begun" THEN "withdrawn" ELSE @]
  /\ UNCHANGED <<daemon, setup, disturbed, used>>

\* What the iteration read is of no use behind its end.
EndOfIteration(p) ==
  daemon' = [daemon EXCEPT ![p].phase = "idle", ![p].runNow = FALSE, ![p].sawOn = FALSE,
                           ![p].sawPaused = {}, ![p].sawDue = FALSE]

BackfillsEnd(p) ==
  /\ daemon[p].phase = "backfills" /\ task[p] = Nothing
  /\ EndOfIteration(p)
  /\ UNCHANGED <<backfill, memory, task, setup, fate, disturbed, used>>

IsSweepAsked(p) ==
  LET x == daemon[p] IN x.runNow \/ x.startup \/ x.sawDue \/ (x.sawOn /\ x.deferred)

StartSweep(p) ==
  /\ daemon[p].phase = "pins" /\ Pending(p) = {} /\ IsSweepAsked(p)
  /\ daemon' = [daemon EXCEPT ![p] = [Off EXCEPT !.phase = "sweep", !.asked = daemon[p].asked]]
  /\ UNCHANGED <<backfill, memory, task, setup, fate, disturbed, used>>

FindNoWork(p) ==
  /\ daemon[p].phase = "pins" /\ Pending(p) = {} /\ ~IsSweepAsked(p)
  /\ EndOfIteration(p)
  /\ UNCHANGED <<backfill, memory, task, setup, fate, disturbed, used>>

SweepEnds(p) ==
  /\ daemon[p].phase = "sweep"
  /\ EndOfIteration(p)
  /\ UNCHANGED <<backfill, memory, task, setup, fate, disturbed, used>>
--------------------------------------------------------------------------------
(***************************************************************************)
(* Handlers.                                                               *)
(***************************************************************************)
Withdraw(S) == fate' = [r \in Requests |-> IF r \in S /\ fate[r] \in {"accepted", "begun"} THEN "withdrawn" ELSE fate[r]]

\* POST /api/backfill/:id, of a source, and in bulk: a request replaces the one for
\* the same destination.
Accept(p, r) ==
  LET d == TargetOf[r] IN
  /\ IsUp(p) /\ fate[r] = "new" /\ d \notin setup.paused
  /\ memory' = [memory EXCEPT ![p][d] = r]
  /\ fate' = [s \in Requests |-> IF s = r THEN "accepted"
                                 ELSE IF s = memory[p][d] /\ fate[s] = "accepted" THEN "withdrawn" ELSE fate[s]]
  /\ UNCHANGED <<backfill, daemon, task, setup, disturbed, used>>

Happens == used < MaxEvents /\ used' = used + 1

Operator(what) == what \in Operators /\ Happens

\* DELETE /api/backfill/:id and, of all destinations, /api/backfill/clear-all: the
\* memory of this process and the queued posts, not the rows.
CancelBackfill(p, d) ==
  /\ IsUp(p) /\ Operator("cancel")
  /\ memory' = [memory EXCEPT ![p][d] = None]
  /\ Withdraw({r \in Requests : TargetOf[r] = d})
  /\ UNCHANGED <<backfill, daemon, task, setup, disturbed>>

ClearAllBackfills(p) ==
  /\ IsUp(p) /\ Operator("clearAll")
  /\ memory' = [memory EXCEPT ![p] = Nothing]
  /\ Withdraw(Requests)
  /\ UNCHANGED <<backfill, daemon, task, setup, disturbed>>

\* POST /api/run-now.
RunNow(p) ==
  /\ IsUp(p) /\ Operator("runNow")
  /\ daemon' = [daemon EXCEPT ![p].asked = TRUE]
  /\ UNCHANGED <<backfill, memory, task, setup, fate, disturbed>>

\* PATCH /api/destinations/:id/state.
PauseOrResume(d) ==
  /\ Operator("pause")
  /\ setup' = [setup EXCEPT !.paused = IF d \in @ THEN @ \ {d} ELSE @ \cup {d}]
  /\ UNCHANGED <<backfill, memory, daemon, task, fate, disturbed>>

\* DELETE /api/mappings/:id: for the loop the destination is as good as paused.
RemoveDestination(p, d) ==
  /\ IsUp(p) /\ Operator("remove") /\ d \notin setup.paused
  /\ setup' = [setup EXCEPT !.paused = @ \cup {d}]
  /\ memory' = [memory EXCEPT ![p][d] = None]
  /\ Withdraw({r \in Requests : TargetOf[r] = d})
  /\ UNCHANGED <<backfill, daemon, task, disturbed>>

\* PATCH /api/settings/scheduler.
ToggleScheduler ==
  /\ Operator("schedule")
  /\ setup' = [setup EXCEPT !.scheduling = ~@]
  /\ UNCHANGED <<backfill, memory, daemon, task, fate, disturbed>>

\* Evidence of a takedown blocks the account, an operator resumes it.
BlockOrResume(d) ==
  /\ d \in Blockable /\ Happens
  /\ setup' = [setup EXCEPT !.blocked = IF d \in @ THEN @ \ {d} ELSE @ \cup {d}]
  /\ UNCHANGED <<backfill, memory, daemon, task, fate, disturbed>>
--------------------------------------------------------------------------------
(***************************************************************************)
(* Time and processes.                                                     *)
(***************************************************************************)
CheckIsDue(p) ==
  /\ IsUp(p) /\ ~daemon[p].due
  /\ daemon' = [daemon EXCEPT ![p].due = TRUE]
  /\ UNCHANGED <<backfill, memory, task, setup, fate, disturbed, used>>

RetryIsDue(r) ==
  /\ backfill[r].waiting
  /\ backfill' = [backfill EXCEPT ![r].waiting = FALSE]
  /\ UNCHANGED <<memory, daemon, task, setup, fate, disturbed, used>>

\* The end of a process, orderly or not: its memory is gone.
StopDaemon(p) ==
  /\ IsUp(p) /\ Happens
  /\ daemon' = [daemon EXCEPT ![p] = Off]
  /\ memory' = [memory EXCEPT ![p] = Nothing] /\ task' = [task EXCEPT ![p] = Nothing]
  /\ UNCHANGED <<backfill, setup, fate, disturbed>>

StartDaemon(p) ==
  /\ ~IsUp(p)
  /\ backfill' = [r \in Requests |-> AfterRecovery(backfill[r])]
  /\ disturbed' = disturbed \cup {r \in Requests : \E q \in Daemons : task[q][TargetOf[r]] = r}
  /\ daemon' = [daemon EXCEPT ![p] = [Off EXCEPT !.phase = "idle", !.startup = setup.scheduling]]
  /\ UNCHANGED <<memory, task, setup, fate, used>>
--------------------------------------------------------------------------------
Iteration(p) ==
  \/ BeginIteration(p) \/ SelectBackfills(p) \/ StartBackfills(p) \/ BackfillsEnd(p)
  \/ StartSweep(p) \/ SweepEnds(p) \/ FindNoWork(p)
  \/ \E d \in Destinations, ok \in BOOLEAN : ImportEnds(p, d, ok)

HandlerOf(p) ==
  \/ RunNow(p) \/ ClearAllBackfills(p)
  \/ \E r \in Requests : Accept(p, r)
  \/ \E d \in Destinations : CancelBackfill(p, d) \/ RemoveDestination(p, d)

SchedulerNext ==
  \/ \E p \in Daemons : Iteration(p) \/ HandlerOf(p) \/ CheckIsDue(p) \/ StopDaemon(p) \/ StartDaemon(p)
  \/ \E d \in Destinations : PauseOrResume(d) \/ BlockOrResume(d)
  \/ \E r \in Requests : RetryIsDue(r)
  \/ ToggleScheduler

SchedulerSpec == SchedulerInit /\ [][SchedulerNext]_schedulerVars

\* The loop goes on as long as the process is up, imports end at their deadline, time
\* passes and a supervisor starts the process again.  Nobody has to ask for anything,
\* and no import has to succeed.
FairSchedulerSpec ==
  /\ SchedulerSpec
  /\ \A p \in Daemons : WF_schedulerVars(Iteration(p)) /\ WF_schedulerVars(StartDaemon(p))
  /\ \A r \in Requests : WF_schedulerVars(RetryIsDue(r))
--------------------------------------------------------------------------------
(***************************************************************************)
(* Properties.                                                             *)
(***************************************************************************)
\* Once it is a row, a request is there until it is imported or withdrawn, whatever
\* fails or stops in between, and parked at worst.
BegunBackfillsAreKept == \A r \in Requests : fate[r] = "begun" => backfill[r].status # "absent"

\* The same of all accepted requests: a row or an entry in the memory of a process.
AcceptedBackfillsAreKept ==
  \A r \in Requests : fate[r] \in {"accepted", "begun"} =>
    backfill[r].status # "absent" \/ \E p \in Daemons : memory[p][TargetOf[r]] = r

\* Two processes that list the same row do not both import it, unless a process that
\* starts has given the row of a living one away.
OneImportAtATime ==
  \A r \in Requests \ disturbed : Cardinality({p \in Daemons : task[p][TargetOf[r]] = r}) <= 1

\* A backfill that has begun ends or is parked, unless an account is blocked.
BackfillsSettle ==
  \A r \in Requests : fate[r] = "begun" ~>
    fate[r] # "begun" \/ backfill[r].status = "failed" \/ setup.blocked # {}

\* A due or a startup sweep is deferred behind backfills, not given up, unless the
\* schedule is switched off, the process ends or an account is blocked.
DueSweepsRun ==
  \A p \in Daemons : IsUp(p) /\ (daemon[p].startup \/ (setup.scheduling /\ daemon[p].due)) ~>
    ~IsUp(p) \/ daemon[p].phase = "sweep" \/ ~setup.scheduling \/ setup.blocked # {}

\* The same with blocked accounts: their destinations do not hold up the sweeps.
SourceIngestionContinues ==
  \A p \in Daemons : IsUp(p) /\ setup.scheduling /\ daemon[p].due ~>
    ~IsUp(p) \/ daemon[p].phase = "sweep" \/ ~setup.scheduling
================================================================================
