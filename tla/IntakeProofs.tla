------------------------------ MODULE IntakeProofs ------------------------------
(***************************************************************************)
(* Theorems about how posts come in, for every value of the constants: the *)
(* scheduler's backfills, the requests ingestion takes, the governor of    *)
(* requests to X, the sweep of a source, the budget of sweeps, the         *)
(* rendering of a post and the splitting of its text.                      *)
(***************************************************************************)
EXTENDS Scheduler, Ingestion, XRateGovernor, SourceSweep, PollingBudget, PostRendering, PostSplitting,
        FiniteSetTheorems, SequenceTheorems, WellFoundedInduction, TLAPS
--------------------------------------------------------------------------------
(***************************************************************************)
(* Types.                                                                  *)
(***************************************************************************)
\* What is done to rows gives rows.
LEMMA RowTypes ==
  ASSUME NEW row \in Row, NEW p \in Daemons, NEW ok \in BOOLEAN
  PROVE  /\ Taken(row, p) \in Row /\ Taken(row, p).status = "processing"
         /\ Rescheduled(row) \in Row /\ Rescheduled(row).status # "absent"
         /\ Settled(row, p, ok) \in Row /\ AfterRecovery(row) \in Row
         /\ NoRow \in Row
<1> USE SchedulerAssumption DEF Row
<1>1. Taken(row, p) \in Row /\ Taken(row, p).status = "processing"
  <2>1. CASE IsClaimed(row)
    BY <2>1 DEF Taken, IsClaimed
  <2>2. CASE ~IsClaimed(row)
    BY <2>2 DEF Taken
  <2> QED BY <2>1, <2>2
<1>2. Rescheduled(row) \in Row /\ Rescheduled(row).status # "absent"
  <2>1. (row.attempts < MaxAttempts) \in BOOLEAN
    OBVIOUS
  <2> QED BY <2>1 DEF Rescheduled
<1>3. NoRow \in Row
  BY DEF NoRow
<1>4. Settled(row, p, ok) \in Row
  BY <1>2, <1>3 DEF Settled
<1>5. AfterRecovery(row) \in Row
  BY DEF AfterRecovery
<1> QED BY <1>1, <1>2, <1>3, <1>4, <1>5

\* What an iteration does to its loop gives a loop.
LEMMA LoopTypes ==
  ASSUME NEW x \in Loop, NEW S \in SUBSET Requests, NEW P \in SUBSET Destinations, NEW a \in BOOLEAN, NEW b \in BOOLEAN
  PROVE  /\ [x EXCEPT !.phase = "pins", !.asked = FALSE, !.runNow = x.asked, !.sawOn = a, !.sawPaused = P,
                      !.sawDue = b] \in Loop
         /\ [x EXCEPT !.phase = "claim", !.selected = S, !.deferred = a] \in Loop
         /\ [x EXCEPT !.phase = "backfills", !.selected = {}] \in Loop
         /\ [x EXCEPT !.phase = "idle", !.runNow = FALSE, !.sawOn = FALSE, !.sawPaused = {}, !.sawDue = FALSE] \in Loop
         /\ [x EXCEPT !.asked = TRUE] \in Loop /\ [x EXCEPT !.due = TRUE] \in Loop
         /\ Off \in Loop /\ [Off EXCEPT !.phase = "idle", !.startup = a] \in Loop
         /\ [Off EXCEPT !.phase = "sweep", !.asked = x.asked] \in Loop
<1>1. [x EXCEPT !.phase = "pins", !.asked = FALSE, !.runNow = x.asked, !.sawOn = a, !.sawPaused = P,
                 !.sawDue = b] \in Loop
  BY DEF Loop
<1>2. [x EXCEPT !.phase = "claim", !.selected = S, !.deferred = a] \in Loop
  BY DEF Loop
<1>3. [x EXCEPT !.phase = "backfills", !.selected = {}] \in Loop
  BY DEF Loop
<1>4. [x EXCEPT !.phase = "idle", !.runNow = FALSE, !.sawOn = FALSE, !.sawPaused = {}, !.sawDue = FALSE] \in Loop
  BY DEF Loop
<1>5. [x EXCEPT !.asked = TRUE] \in Loop /\ [x EXCEPT !.due = TRUE] \in Loop
  BY DEF Loop
<1>6. Off \in Loop /\ x.asked \in BOOLEAN
  BY DEF Loop, Off
<1>7. [Off EXCEPT !.phase = "idle", !.startup = a] \in Loop
  BY <1>6 DEF Loop
<1>8. [Off EXCEPT !.phase = "sweep", !.asked = x.asked] \in Loop
  BY <1>6 DEF Loop
<1> QED BY <1>1, <1>2, <1>3, <1>4, <1>5, <1>6, <1>7, <1>8

LEMMA InitiallyTyped == SchedulerInit => SchedulerTypeOK
<1> SUFFICES ASSUME SchedulerInit
             PROVE  SchedulerTypeOK
  OBVIOUS
<1> USE SchedulerAssumption DEF SchedulerInit
<1>1. backfill \in [Requests -> Row]
  BY DEF Row, NoRow
<1>2. memory \in [Daemons -> [Destinations -> Requests \cup {None}]] /\ task \in [Daemons -> [Destinations -> Requests \cup {None}]]
  BY DEF Nothing
<1>3. daemon \in [Daemons -> Loop]
  BY DEF Loop, Off
<1> QED BY <1>1, <1>2, <1>3 DEF SchedulerTypeOK

LEMMA StepsKeepTypes == SchedulerTypeOK /\ [SchedulerNext]_schedulerVars => SchedulerTypeOK'
<1> SUFFICES ASSUME SchedulerTypeOK, [SchedulerNext]_schedulerVars
             PROVE  SchedulerTypeOK'
  OBVIOUS
<1> USE SchedulerAssumption DEF SchedulerTypeOK
<1>0. NoRow \in Row
  BY DEF NoRow, Row
<1>a. \A p \in Daemons : daemon[p] \in Loop
  OBVIOUS
<1>b. \A r \in Requests : backfill[r] \in Row
  OBVIOUS
<1>c. setup.scheduling \in BOOLEAN /\ setup.paused \in SUBSET Destinations
  OBVIOUS
<1> DEFINE Setup == [scheduling : BOOLEAN, paused : SUBSET Destinations, blocked : SUBSET Blockable]
<1>1. ASSUME NEW p \in Daemons, BeginIteration(p)
      PROVE  SchedulerTypeOK'
  <2>1. daemon[p] \in Loop /\ setup \in Setup
    OBVIOUS
  <2>2. (setup.scheduling /\ daemon[p].due) \in BOOLEAN
    OBVIOUS
  <2>3. [daemon[p] EXCEPT !.phase = "pins", !.asked = FALSE, !.runNow = daemon[p].asked,
                          !.sawOn = setup.scheduling, !.sawPaused = setup.paused,
                          !.sawDue = setup.scheduling /\ daemon[p].due] \in Loop
    BY <1>a, <1>c, <2>2, LoopTypes
  <2>4. daemon' \in [Daemons -> Loop]
    BY <2>3, <1>1 DEF BeginIteration
  <2> QED BY <2>4, <1>1 DEF BeginIteration
<1>2. ASSUME NEW p \in Daemons, SelectBackfills(p)
      PROVE  SchedulerTypeOK'
  <2>1. PICK S \in Selections(p) :
          daemon' = [daemon EXCEPT ![p].phase = "claim", ![p].selected = S, ![p].deferred = @ \/ daemon[p].sawDue]
    BY <1>2 DEF SelectBackfills
  <2>2. S \in SUBSET Requests
    BY DEF Selections, Pending
  <2>3. daemon[p] \in Loop /\ (daemon[p].deferred \/ daemon[p].sawDue) \in BOOLEAN
    OBVIOUS
  <2>4. [daemon[p] EXCEPT !.phase = "claim", !.selected = S, !.deferred = daemon[p].deferred \/ daemon[p].sawDue] \in Loop
    BY <1>a, <2>2, <2>3, LoopTypes
  <2>5. daemon' \in [Daemons -> Loop]
    BY <2>1, <2>4
  <2> QED BY <2>5, <1>2 DEF SelectBackfills
<1>3. ASSUME NEW p \in Daemons, StartBackfills(p)
      PROVE  SchedulerTypeOK'
  <2>1. daemon' \in [Daemons -> Loop]
    <3>1. [daemon[p] EXCEPT !.phase = "backfills", !.selected = {}] \in Loop
      BY <1>a, LoopTypes
    <3> QED BY <3>1, <1>3 DEF StartBackfills
  <2>2. backfill' \in [Requests -> Row]
    <3>1. \A r \in Requests : Taken(backfill[r], p) \in Row
      BY RowTypes
    <3>2. \A r \in Requests : Rescheduled(Taken(backfill[r], p)) \in Row
      BY <3>1, RowTypes
    <3> QED BY <3>1, <3>2, <1>0, <1>3 DEF StartBackfills
  <2>3. memory' \in [Daemons -> [Destinations -> Requests \cup {None}]]
    BY <1>3 DEF StartBackfills
  <2>4. task' \in [Daemons -> [Destinations -> Requests \cup {None}]]
    <3>1. daemon[p].selected \subseteq Requests
      BY DEF Loop
    <3> QED BY <3>1, <1>3 DEF StartBackfills
  <2>5. fate' \in [Requests -> {"new", "accepted", "begun", "withdrawn", "imported"}]
    BY <1>3 DEF StartBackfills
  <2> QED BY <2>1, <2>2, <2>3, <2>4, <2>5, <1>3 DEF StartBackfills
<1>4. ASSUME NEW p \in Daemons, NEW d \in Destinations, NEW ok \in BOOLEAN, ImportEnds(p, d, ok)
      PROVE  SchedulerTypeOK'
  <2>1. task[p][d] \in Requests
    BY <1>4 DEF ImportEnds
  <2>2. Settled(backfill[task[p][d]], p, ok) \in Row
    BY <2>1, RowTypes
  <2>3. memory' \in [Daemons -> [Destinations -> Requests \cup {None}]]
    BY <1>4 DEF ImportEnds, ClearBackfill
  <2>4. fate' \in [Requests -> {"new", "accepted", "begun", "withdrawn", "imported"}]
    BY <1>4, <2>1 DEF ImportEnds
  <2>5. backfill' \in [Requests -> Row]
    BY <1>4, <2>1, <2>2 DEF ImportEnds
  <2> QED BY <1>4, <2>3, <2>4, <2>5 DEF ImportEnds
<1>5. ASSUME NEW p \in Daemons, BackfillsEnd(p) \/ FindNoWork(p) \/ SweepEnds(p)
      PROVE  SchedulerTypeOK'
  <2>1. [daemon[p] EXCEPT !.phase = "idle", !.runNow = FALSE, !.sawOn = FALSE, !.sawPaused = {}, !.sawDue = FALSE] \in Loop
    BY <1>a, LoopTypes
  <2>2. EndOfIteration(p) /\ UNCHANGED <<backfill, memory, task, setup, fate, disturbed, used>>
    BY <1>5 DEF BackfillsEnd, FindNoWork, SweepEnds
  <2>3. daemon' \in [Daemons -> Loop]
    BY <2>1, <2>2 DEF EndOfIteration
  <2> QED BY <2>2, <2>3
<1>6. ASSUME NEW p \in Daemons, StartSweep(p)
      PROVE  SchedulerTypeOK'
  <2>1. [Off EXCEPT !.phase = "sweep", !.asked = daemon[p].asked] \in Loop
    BY <1>a, LoopTypes
  <2> QED BY <2>1, <1>6 DEF StartSweep
<1>7. ASSUME NEW p \in Daemons, NEW r \in Requests, Accept(p, r)
      PROVE  SchedulerTypeOK'
  BY <1>7 DEF Accept
<1>8. ASSUME NEW p \in Daemons, NEW d \in Destinations, CancelBackfill(p, d)
      PROVE  SchedulerTypeOK'
  BY <1>8 DEF CancelBackfill, Operator, Happens, Withdraw
<1>9. ASSUME NEW p \in Daemons, NEW d \in Destinations, RemoveDestination(p, d)
      PROVE  SchedulerTypeOK'
  <2>1. setup' \in Setup
    BY <1>9 DEF RemoveDestination
  <2>2. /\ used' \in 0 .. MaxEvents
        /\ memory' \in [Daemons -> [Destinations -> Requests \cup {None}]]
        /\ fate' \in [Requests -> {"new", "accepted", "begun", "withdrawn", "imported"}]
    BY <1>9 DEF RemoveDestination, Operator, Happens, Withdraw
  <2>3. UNCHANGED <<backfill, daemon, task, disturbed>>
    BY <1>9 DEF RemoveDestination
  <2> QED BY <2>1, <2>2, <2>3
<1>10. ASSUME NEW p \in Daemons, ClearAllBackfills(p)
       PROVE  SchedulerTypeOK'
  BY <1>10 DEF ClearAllBackfills, Operator, Happens, Withdraw, Nothing
<1>11. ASSUME NEW p \in Daemons, RunNow(p)
       PROVE  SchedulerTypeOK'
  <2>1. [daemon[p] EXCEPT !.asked = TRUE] \in Loop
    BY <1>a, LoopTypes
  <2> QED BY <2>1, <1>11 DEF RunNow, Operator, Happens
<1>12. ASSUME NEW d \in Destinations, PauseOrResume(d)
       PROVE  SchedulerTypeOK'
  BY <1>12 DEF PauseOrResume, Operator, Happens
<1>13. ASSUME NEW d \in Destinations, BlockOrResume(d)
       PROVE  SchedulerTypeOK'
  <2>1. setup' \in Setup
    BY SMTT(20), <1>13 DEF BlockOrResume
  <2>2. used' \in 0 .. MaxEvents /\ UNCHANGED <<backfill, memory, daemon, task, fate, disturbed>>
    BY <1>13 DEF BlockOrResume, Happens
  <2> QED BY <2>1, <2>2
<1>14. CASE ToggleScheduler
  <2>1. setup' \in Setup
    BY <1>14 DEF ToggleScheduler
  <2>2. used' \in 0 .. MaxEvents /\ UNCHANGED <<backfill, memory, daemon, task, fate, disturbed>>
    BY <1>14 DEF ToggleScheduler, Operator, Happens
  <2> QED BY <2>1, <2>2
<1>15. ASSUME NEW p \in Daemons, CheckIsDue(p)
       PROVE  SchedulerTypeOK'
  <2>1. [daemon[p] EXCEPT !.due = TRUE] \in Loop
    BY <1>a, LoopTypes
  <2> QED BY <2>1, <1>15 DEF CheckIsDue
<1>16. ASSUME NEW r \in Requests, RetryIsDue(r)
       PROVE  SchedulerTypeOK'
  <2>1. [backfill[r] EXCEPT !.waiting = FALSE] \in Row
    BY ZenonT(30), <1>b DEF Row
  <2> QED BY <2>1, <1>16 DEF RetryIsDue
<1>17. ASSUME NEW p \in Daemons, StopDaemon(p)
       PROVE  SchedulerTypeOK'
  <2>1. Off \in Loop
    BY <1>a, LoopTypes
  <2> QED BY <2>1, <1>17 DEF StopDaemon, Happens, Nothing
<1>18. ASSUME NEW p \in Daemons, StartDaemon(p)
       PROVE  SchedulerTypeOK'
  <2>1. \A r \in Requests : AfterRecovery(backfill[r]) \in Row
    BY RowTypes
  <2>2. [Off EXCEPT !.phase = "idle", !.startup = setup.scheduling] \in Loop
    BY <1>a, <1>c, LoopTypes
  <2> QED BY <2>1, <2>2, <1>18 DEF StartDaemon
<1>19. CASE UNCHANGED schedulerVars
  BY <1>19 DEF schedulerVars
<1> QED
  BY <1>1, <1>2, <1>3, <1>4, <1>5, <1>6, <1>7, <1>8, <1>9, <1>10, <1>11, <1>12, <1>13, <1>14, <1>15, <1>16,
     <1>17, <1>18, <1>19
     DEF SchedulerNext, Iteration, HandlerOf

\* Every reachable state is well typed.
THEOREM SchedulerTyping == SchedulerSpec => []SchedulerTypeOK
BY InitiallyTyped, StepsKeepTypes, PTL DEF SchedulerSpec
--------------------------------------------------------------------------------
(***************************************************************************)
(* Rows.                                                                   *)
(***************************************************************************)
\* What recovery, an import that failed and the clock do to a row.
LEMMA RowChanges ==
  ASSUME NEW row \in Row, NEW p \in Daemons
  PROVE  /\ AfterRecovery(row).status = "absent" => row.status = "absent"
         /\ Settled(row, p, FALSE).status = "absent" => row.status = "absent"
         /\ IsClaimed(row) => Taken(row, p).token = row.token
         /\ ~IsClaimed(row) => Taken(row, p).token = p
         /\ [row EXCEPT !.waiting = FALSE].status = row.status
         /\ [row EXCEPT !.waiting = FALSE].token = row.token
<1>1. /\ [row EXCEPT !.waiting = FALSE].status = row.status
      /\ [row EXCEPT !.waiting = FALSE].token = row.token
  BY DEF Row
<1>2. IsClaimed(row) => Taken(row, p).token = row.token
  BY <1>1 DEF Taken
<1>3. ~IsClaimed(row) => Taken(row, p).token = p
  BY DEF Taken
<1>4. AfterRecovery(row).status = "absent" => row.status = "absent"
  BY DEF AfterRecovery, Row
<1>5. Settled(row, p, FALSE).status = "absent" => row.status = "absent"
  BY RowTypes DEF Settled
<1> QED BY <1>1, <1>2, <1>3, <1>4, <1>5

\* A process works on a request only under its own claim, as long as no process that
\* started meanwhile has reset it.
TasksHoldTheirClaims ==
  \A p \in Daemons, d \in Destinations :
    LET r == task[p][d] IN
    r # None => /\ TargetOf[r] = d
                /\ r \notin disturbed => backfill[r].status = "processing" /\ backfill[r].token = p

SchedulerInv == SchedulerTypeOK /\ BegunBackfillsAreKept /\ TasksHoldTheirClaims

LEMMA InitiallyKept == SchedulerInit => SchedulerInv
<1> SUFFICES ASSUME SchedulerInit
             PROVE  SchedulerInv
  OBVIOUS
<1>1. BegunBackfillsAreKept
  BY DEF SchedulerInit, BegunBackfillsAreKept
<1>2. TasksHoldTheirClaims
  BY DEF SchedulerInit, TasksHoldTheirClaims, Nothing
<1> QED BY <1>1, <1>2, InitiallyTyped DEF SchedulerInv

LEMMA BegunStaysKept ==
  SchedulerTypeOK /\ BegunBackfillsAreKept /\ [SchedulerNext]_schedulerVars => BegunBackfillsAreKept'
<1> SUFFICES ASSUME SchedulerTypeOK, BegunBackfillsAreKept, [SchedulerNext]_schedulerVars
             PROVE  BegunBackfillsAreKept'
  OBVIOUS
<1> USE SchedulerAssumption
<1>a. \A r \in Requests : backfill[r] \in Row
  BY DEF SchedulerTypeOK
<1>b. /\ backfill \in [Requests -> Row] /\ fate \in [Requests -> {"new", "accepted", "begun", "withdrawn", "imported"}]
      /\ task \in [Daemons -> [Destinations -> Requests \cup {None}]]
      /\ \A r \in Requests : fate[r] = "begun" => backfill[r].status # "absent"
  BY DEF SchedulerTypeOK, BegunBackfillsAreKept
<1>c. ASSUME UNCHANGED backfill, \A r \in Requests : fate'[r] = "begun" => fate[r] = "begun"
      PROVE  BegunBackfillsAreKept'
  BY <1>b, <1>c DEF BegunBackfillsAreKept
<1>1. ASSUME NEW p \in Daemons, StartBackfills(p)
      PROVE  BegunBackfillsAreKept'
  <2> SUFFICES ASSUME NEW r \in Requests, fate'[r] = "begun"
               PROVE  backfill'[r].status # "absent"
    BY DEF BegunBackfillsAreKept
  <2>1. /\ Taken(backfill[r], p) \in Row /\ Taken(backfill[r], p).status # "absent"
        /\ Rescheduled(Taken(backfill[r], p)).status # "absent"
    BY <1>a, RowTypes
  <2> DEFINE S == daemon[p].selected
             live == {s \in S : TargetOf[s] \notin daemon[p].sawPaused}
  <2>2. fate'[r] = IF r \in live /\ fate[r] = "accepted" THEN "begun"
                   ELSE IF r \in S \ live /\ fate[r] # "imported" THEN "withdrawn" ELSE fate[r]
    BY <1>1 DEF StartBackfills
  <2>3. CASE r \in live
    BY <1>1, <2>1, <2>3 DEF StartBackfills
  <2>4. CASE r \notin live
    <3>1. fate[r] = "begun" /\ r \notin S
      BY <2>2, <2>4
    <3>2. backfill'[r] = backfill[r]
      BY <1>1, <3>1 DEF StartBackfills
    <3> QED BY <3>1, <3>2, <1>b
  <2> QED BY <2>3, <2>4
<1>2. ASSUME NEW p \in Daemons, NEW d \in Destinations, NEW ok \in BOOLEAN, ImportEnds(p, d, ok)
      PROVE  BegunBackfillsAreKept'
  <2> SUFFICES ASSUME NEW r \in Requests, fate'[r] = "begun"
               PROVE  backfill'[r].status # "absent"
    BY DEF BegunBackfillsAreKept
  <2> DEFINE s == task[p][d]
  <2>1. /\ s \in Requests /\ backfill' = [backfill EXCEPT ![s] = Settled(@, p, ok)]
        /\ fate' = [fate EXCEPT ![s] = IF ok /\ IsStillRequested(p, s) THEN "imported"
                                       ELSE IF ok /\ @ = "begun" THEN "withdrawn" ELSE @]
    BY <1>2, <1>b DEF ImportEnds
  <2>2. CASE r = s
    <3>1. ok = FALSE /\ fate[r] = "begun"
      BY <2>1, <2>2, <1>b
    <3>2. backfill'[r] = Settled(backfill[r], p, FALSE)
      BY <2>1, <2>2, <3>1, <1>b
    <3>3. Settled(backfill[r], p, FALSE).status = "absent" => backfill[r].status = "absent"
      BY <1>a, RowChanges
    <3>4. backfill[r].status # "absent"
      BY <3>1, <1>b
    <3> QED BY <3>2, <3>3, <3>4
  <2>3. CASE r # s
    BY <2>1, <2>3, <1>b
  <2> QED BY <2>2, <2>3
<1>3. ASSUME NEW r \in Requests, RetryIsDue(r)
      PROVE  BegunBackfillsAreKept'
  <2>1. backfill' = [backfill EXCEPT ![r].waiting = FALSE] /\ fate' = fate
    BY <1>3 DEF RetryIsDue
  <2>2. \A s \in Requests : backfill'[s].status = backfill[s].status
    BY <2>1, <1>a, <1>b, RowChanges
  <2> QED BY <2>1, <2>2, <1>b DEF BegunBackfillsAreKept
<1>4. ASSUME NEW p \in Daemons, StartDaemon(p)
      PROVE  BegunBackfillsAreKept'
  <2>1. backfill' = [r \in Requests |-> AfterRecovery(backfill[r])] /\ fate' = fate
    BY <1>4 DEF StartDaemon
  <2> QED BY <2>1, <1>a, <1>b, RowChanges DEF BegunBackfillsAreKept
<1>5. ASSUME NEW p \in Daemons, NEW r \in Requests, Accept(p, r)
      PROVE  BegunBackfillsAreKept'
  BY <1>5, <1>b, <1>c DEF Accept
<1>6. ASSUME NEW p \in Daemons, NEW d \in Destinations, CancelBackfill(p, d) \/ RemoveDestination(p, d)
      PROVE  BegunBackfillsAreKept'
  BY <1>6, <1>b, <1>c DEF CancelBackfill, RemoveDestination, Withdraw
<1>7. ASSUME NEW p \in Daemons, ClearAllBackfills(p)
      PROVE  BegunBackfillsAreKept'
  BY <1>7, <1>b, <1>c DEF ClearAllBackfills, Withdraw
<1>8. ASSUME UNCHANGED <<backfill, fate>>
      PROVE  BegunBackfillsAreKept'
  BY <1>8, <1>c
<1> QED
  BY <1>1, <1>2, <1>3, <1>4, <1>5, <1>6, <1>7, <1>8
     DEF SchedulerNext, Iteration, HandlerOf, schedulerVars, BeginIteration, SelectBackfills, BackfillsEnd, StartSweep,
         SweepEnds, FindNoWork, RunNow, PauseOrResume, BlockOrResume, ToggleScheduler, CheckIsDue, StopDaemon

\* Once it is a row, a request stays one until it is imported or withdrawn: a failed
\* import, a blocked account, the end of a process and the recovery of the next keep it.
THEOREM BackfillsAreKept == SchedulerSpec => []BegunBackfillsAreKept
<1>1. SchedulerInit => SchedulerTypeOK /\ BegunBackfillsAreKept
  BY InitiallyKept DEF SchedulerInv
<1>2. SchedulerTypeOK /\ BegunBackfillsAreKept /\ [SchedulerNext]_schedulerVars
        => (SchedulerTypeOK /\ BegunBackfillsAreKept)'
  BY StepsKeepTypes, BegunStaysKept
<1> QED BY <1>1, <1>2, PTL DEF SchedulerSpec
--------------------------------------------------------------------------------
(***************************************************************************)
(* Claims.                                                                 *)
(***************************************************************************)
LEMMA ClaimsStayHeld ==
  SchedulerTypeOK /\ TasksHoldTheirClaims /\ [SchedulerNext]_schedulerVars => TasksHoldTheirClaims'
<1> SUFFICES ASSUME SchedulerTypeOK, TasksHoldTheirClaims, [SchedulerNext]_schedulerVars
             PROVE  TasksHoldTheirClaims'
  OBVIOUS
<1> USE SchedulerAssumption
<1>a. \A r \in Requests : backfill[r] \in Row
  BY DEF SchedulerTypeOK
<1>b. /\ backfill \in [Requests -> Row] /\ task \in [Daemons -> [Destinations -> Requests \cup {None}]]
      /\ \A p \in Daemons : daemon[p] \in Loop
      /\ disturbed \subseteq Requests
  BY DEF SchedulerTypeOK
<1>c. ASSUME UNCHANGED <<backfill, task, disturbed>>
      PROVE  TasksHoldTheirClaims'
  BY <1>c DEF TasksHoldTheirClaims
<1> DEFINE Held(q, r) == backfill[r].status = "processing" /\ backfill[r].token = q
<1>d. ASSUME NEW q \in Daemons, NEW e \in Destinations, task[q][e] # None
      PROVE  /\ task[q][e] \in Requests /\ TargetOf[task[q][e]] = e
             /\ task[q][e] \notin disturbed => Held(q, task[q][e])
  BY <1>b, <1>d DEF TasksHoldTheirClaims
<1>1. ASSUME NEW p \in Daemons, StartBackfills(p)
      PROVE  TasksHoldTheirClaims'
  <2> DEFINE S == daemon[p].selected
             live == {s \in S : TargetOf[s] \notin daemon[p].sawPaused}
             claimed == {s \in live : ~IsClaimed(backfill[s])}
             begun == {s \in claimed : TargetOf[s] \notin setup.blocked}
  <2>1. S \subseteq Requests
    BY <1>b DEF Loop
  <2>2. \A s \in begun : backfill'[s] = Taken(backfill[s], p)
    BY <1>1, <2>1 DEF StartBackfills
  <2>3. \A s \in Requests : IsClaimed(backfill[s]) =>
          backfill'[s] = backfill[s] \/ backfill'[s] = Taken(backfill[s], p)
    BY <1>1 DEF StartBackfills, IsClaimed
  <2>4. task' = [task EXCEPT ![p] = [d \in Destinations |-> IF \E s \in begun : TargetOf[s] = d
                                                            THEN CHOOSE s \in begun : TargetOf[s] = d ELSE None]]
    BY <1>1 DEF StartBackfills
  <2>5. disturbed' = disturbed
    BY <1>1 DEF StartBackfills
  <2> SUFFICES ASSUME NEW q \in Daemons, NEW e \in Destinations, task'[q][e] # None
               PROVE  /\ TargetOf[task'[q][e]] = e
                      /\ task'[q][e] \notin disturbed =>
                           backfill'[task'[q][e]].status = "processing" /\ backfill'[task'[q][e]].token = q
    BY <2>5 DEF TasksHoldTheirClaims
  <2>6. CASE q = p
    <3>1. task'[p][e] = IF \E s \in begun : TargetOf[s] = e THEN CHOOSE s \in begun : TargetOf[s] = e ELSE None
      BY <2>4, <1>b
    <3>2. task'[p][e] \in begun /\ TargetOf[task'[p][e]] = e
      BY <3>1, <2>6
    <3>3. PICK s \in begun : s = task'[p][e]
      BY <3>2
    <3>4. s \in Requests /\ ~IsClaimed(backfill[s])
      BY <2>1
    <3>5. Taken(backfill[s], p).status = "processing" /\ Taken(backfill[s], p).token = p
      <4> DEFINE row == backfill[s]
      <4>1. row \in Row /\ ~IsClaimed(row)
        BY <3>4, <1>a
      <4> HIDE DEF row
      <4>2. Taken(row, p).status = "processing"
        BY <4>1, RowTypes
      <4>3. Taken(row, p).token = p
        BY <4>1, RowChanges
      <4> QED BY <4>2, <4>3 DEF row
    <3>6. backfill'[s] = Taken(backfill[s], p)
      BY <2>2
    <3> QED BY <3>2, <3>3, <3>5, <3>6, <2>6
  <2>7. CASE q # p
    <3>1. task'[q][e] = task[q][e]
      BY <2>4, <2>7, <1>b
    <3>2. PICK s \in Requests : s = task[q][e]
      BY <3>1, <1>b
    <3>3. TargetOf[s] = e /\ (s \notin disturbed => Held(q, s))
      BY <3>1, <3>2, <1>d
    <3>4. ASSUME Held(q, s)
          PROVE  backfill'[s].status = "processing" /\ backfill'[s].token = q
      <4>1. IsClaimed(backfill[s])
        BY <3>4 DEF IsClaimed
      <4>2. Taken(backfill[s], p).status = "processing" /\ Taken(backfill[s], p).token = backfill[s].token
        BY <4>1, <1>a, RowTypes, RowChanges
      <4> QED BY <3>4, <4>1, <4>2, <2>3
    <3> QED BY <3>1, <3>2, <3>3, <3>4
  <2> QED BY <2>6, <2>7
<1>2. ASSUME NEW p \in Daemons, NEW d \in Destinations, NEW ok \in BOOLEAN, ImportEnds(p, d, ok)
      PROVE  TasksHoldTheirClaims'
  <2>1. PICK r \in Requests : r = task[p][d]
    BY <1>2, <1>b DEF ImportEnds
  <2>2. /\ backfill' = [backfill EXCEPT ![r] = Settled(@, p, ok)]
        /\ task' = [task EXCEPT ![p][d] = None] /\ disturbed' = disturbed
    BY <1>2, <2>1 DEF ImportEnds
  <2>3. TargetOf[r] = d /\ (r \notin disturbed => Held(p, r))
    BY <2>1, <1>d
  <2> SUFFICES ASSUME NEW q \in Daemons, NEW e \in Destinations, task'[q][e] # None
               PROVE  /\ TargetOf[task'[q][e]] = e
                      /\ task'[q][e] \notin disturbed =>
                           backfill'[task'[q][e]].status = "processing" /\ backfill'[task'[q][e]].token = q
    BY <2>2 DEF TasksHoldTheirClaims
  <2>4. task'[q][e] = task[q][e] /\ ~(q = p /\ e = d)
    BY <2>2, <1>b
  <2>5. PICK s \in Requests : s = task[q][e]
    BY <2>4, <1>b
  <2>6. TargetOf[s] = e /\ (s \notin disturbed => Held(q, s))
    BY <2>4, <2>5, <1>d
  <2>7. s \notin disturbed => s # r
    BY <2>3, <2>4, <2>6
  <2>8. s # r => backfill'[s] = backfill[s]
    BY <2>2, <1>b
  <2> QED BY <2>4, <2>5, <2>6, <2>7, <2>8
<1>3. ASSUME NEW r \in Requests, RetryIsDue(r)
      PROVE  TasksHoldTheirClaims'
  <2>1. backfill' = [backfill EXCEPT ![r].waiting = FALSE] /\ UNCHANGED <<task, disturbed>>
    BY <1>3 DEF RetryIsDue
  <2>2. \A s \in Requests : backfill'[s].status = backfill[s].status /\ backfill'[s].token = backfill[s].token
    BY <2>1, <1>a, <1>b, RowChanges
  <2> SUFFICES ASSUME NEW q \in Daemons, NEW e \in Destinations, task[q][e] # None
               PROVE  /\ TargetOf[task[q][e]] = e
                      /\ task[q][e] \notin disturbed =>
                           backfill'[task[q][e]].status = "processing" /\ backfill'[task[q][e]].token = q
    BY <2>1 DEF TasksHoldTheirClaims
  <2> QED BY <2>2, <1>d
<1>4. ASSUME NEW p \in Daemons, StartDaemon(p)
      PROVE  TasksHoldTheirClaims'
  <2>1. /\ disturbed' = disturbed \cup {r \in Requests : \E q \in Daemons : task[q][TargetOf[r]] = r}
        /\ task' = task
    BY <1>4 DEF StartDaemon
  <2>2. ASSUME NEW q \in Daemons, NEW e \in Destinations, task[q][e] # None
        PROVE  task[q][e] \in disturbed' /\ TargetOf[task[q][e]] = e
    <3>1. task[q][e] \in Requests /\ TargetOf[task[q][e]] = e
      BY <2>2, <1>d
    <3> QED BY <3>1, <2>1
  <2> QED BY <2>1, <2>2 DEF TasksHoldTheirClaims
<1>5. ASSUME NEW p \in Daemons, StopDaemon(p)
      PROVE  TasksHoldTheirClaims'
  <2>1. task' = [task EXCEPT ![p] = Nothing] /\ UNCHANGED <<backfill, disturbed>>
    BY <1>5 DEF StopDaemon
  <2>2. ASSUME NEW q \in Daemons, NEW e \in Destinations, task'[q][e] # None
        PROVE  task'[q][e] = task[q][e]
    <3>1. task'[p][e] = None
      BY <2>1, <1>b DEF Nothing
    <3>2. q # p
      BY <2>2, <3>1
    <3> QED BY <2>1, <3>2, <1>b
  <2> QED BY <2>1, <2>2 DEF TasksHoldTheirClaims
<1>6. ASSUME UNCHANGED <<backfill, task, disturbed>>
      PROVE  TasksHoldTheirClaims'
  BY <1>6, <1>c
<1> QED
  BY <1>1, <1>2, <1>3, <1>4, <1>5, <1>6
     DEF SchedulerNext, Iteration, HandlerOf, schedulerVars, BeginIteration, SelectBackfills, BackfillsEnd, StartSweep,
         SweepEnds, FindNoWork, Accept, CancelBackfill, RemoveDestination, ClearAllBackfills, RunNow, PauseOrResume,
         BlockOrResume, ToggleScheduler, CheckIsDue

\* Processes that list the same row do not import it side by side: who works on it
\* holds its claim, so two of them would be the same process.
THEOREM ImportsAreExclusive == SchedulerSpec => []OneImportAtATime
<1>1. SchedulerInit => SchedulerTypeOK /\ TasksHoldTheirClaims
  BY InitiallyKept DEF SchedulerInv
<1>2. SchedulerTypeOK /\ TasksHoldTheirClaims /\ [SchedulerNext]_schedulerVars
        => (SchedulerTypeOK /\ TasksHoldTheirClaims)'
  BY StepsKeepTypes, ClaimsStayHeld
<1>3. SchedulerTypeOK /\ TasksHoldTheirClaims => OneImportAtATime
  <2> SUFFICES ASSUME TasksHoldTheirClaims, NEW r \in Requests \ disturbed
               PROVE  Cardinality({p \in Daemons : task[p][TargetOf[r]] = r}) <= 1
    BY DEF OneImportAtATime
  <2> DEFINE Importers == {p \in Daemons : task[p][TargetOf[r]] = r}
             Holder == {backfill[r].token}
  <2>1. r # None /\ TargetOf[r] \in Destinations
    BY SchedulerAssumption
  <2>2. Importers \subseteq Holder
    BY <2>1 DEF TasksHoldTheirClaims
  <2>3. IsFiniteSet(Holder) /\ Cardinality(Holder) = 1
    BY FS_Singleton
  <2>4. Cardinality(Importers) <= Cardinality(Holder)
    BY <2>2, <2>3, FS_Subset
  <2> QED BY <2>3, <2>4
<1> QED BY <1>1, <1>2, <1>3, PTL DEF SchedulerSpec

--------------------------------------------------------------------------------
(***************************************************************************)
(* Ingestion: what a request has reserved is counted, and what is counted  *)
(* is in the table or was left by a fault.                                 *)
(***************************************************************************)
IsReserved(r, p) == ingest.reserved = r /\ ingest.post = p

\* A request is about a post it has claimed; a reservation is of a route it has yet
\* to get to.
RequestInv ==
  /\ ingest.key = Vacant => ingest = NoSubmission
  /\ ingest.key # Vacant =>
       ingest.post \in Submissions /\ [key |-> ingest.key, post |-> ingest.post] \in claims
  /\ ingest.reserved # Vacant => ingest.reserved \in ingest.todo

\* Of the fingerprints of a post there is one for what is in the table and one for what
\* is reserved; a fault leaves at most one more, and so does a request that is done.
IsDealtWith(r, p) ==
  /\ \E c \in claims : c.post = p
  /\ ingest.post = p => r \notin ingest.todo \/ ingest.reserved = r
PrintsInv ==
  \A r \in Inlets, p \in Submissions :
    /\ prints[r][p] <= faults \/ (IsDealtWith(r, p) /\ prints[r][p] <= faults + 1)
    /\ r \in Suppressing =>
         /\ stage[r][p] # "none" => prints[r][p] >= 1
         /\ IsReserved(r, p) => prints[r][p] >= 1
         /\ stage[r][p] # "none" /\ IsReserved(r, p) => prints[r][p] >= 2

\* Of the posts with the same content only one has fingerprints.
ContentInv ==
  \A r \in Suppressing, p, q \in Submissions :
    p # q /\ ContentOf[p] = ContentOf[q] => prints[r][p] = 0 \/ prints[r][q] = 0

\* What was reserved for a queue is not in it.
ArrivalsInv ==
  \A r \in Inlets, p \in Submissions :
    /\ arrivals[r][p] <= 1 /\ (stage[r][p] # "delivered" => arrivals[r][p] = 0)
    /\ r \notin DigestInlets /\ IsReserved(r, p) => stage[r][p] = "none"

IngestInv == IngestTypeOK /\ RequestInv /\ PrintsInv /\ ContentInv /\ ArrivalsInv

\* What is known of the request and the tables.
LEMMA IngestTypes ==
  ASSUME IngestInv
  PROVE  /\ prints \in [Inlets -> [Submissions -> 0 .. MaxIngestFaults + 1]]
         /\ stage \in [Inlets -> [Submissions -> {"none", "queued", "delivered"}]]
         /\ arrivals \in [Inlets -> [Submissions -> 0 .. 2]]
         /\ faults \in Nat /\ MaxIngestFaults \in Nat /\ faults <= MaxIngestFaults
         /\ \A r \in Inlets, p \in Submissions :
              prints[r][p] \in Nat /\ arrivals[r][p] \in Nat /\ stage[r][p] \in {"none", "queued", "delivered"}
         /\ ingest \in [key : Keys \cup {Vacant}, post : Submissions \cup {Vacant}, todo : SUBSET Inlets,
                        reserved : Inlets \cup {Vacant}]
         /\ claims \subseteq [key : Keys, post : Submissions]
  BY IngestionAssumption DEF IngestInv, IngestTypeOK

\* The request comes to its end: what it reserved is counted as what a fault left.
LEMMA EndsKeep ==
  ASSUME IngestInv, ingest' = NoSubmission, claims' \subseteq claims, answers' \subseteq Keys,
         faults' \in faults .. MaxIngestFaults,
         \/ faults' = faults + 1
         \/ faults' = faults /\ claims' = claims /\ ingest.todo = {},
         UNCHANGED <<stage, prints, arrivals>>
  PROVE  IngestInv'
<1>1. /\ ingest'.key = Vacant /\ ingest'.post = Vacant /\ ingest'.reserved = Vacant /\ ingest'.todo = {}
  BY DEF NoSubmission
<1>2. \A r \in Inlets, p \in Submissions : ~IsReserved(r, p)'
  BY <1>1, IngestionAssumption DEF IsReserved
<1>3. IngestTypeOK'
  BY <1>1, IngestTypes DEF IngestInv, IngestTypeOK, NoSubmission
<1>4. RequestInv'
  BY <1>1 DEF RequestInv
<1>5. PrintsInv'
  <2> SUFFICES ASSUME NEW r \in Inlets, NEW p \in Submissions
               PROVE  /\ prints[r][p] <= faults' \/ (IsDealtWith(r, p)' /\ prints[r][p] <= faults' + 1)
                      /\ r \in Suppressing /\ stage[r][p] # "none" => prints[r][p] >= 1
    BY <1>2 DEF PrintsInv
  <2>1. prints[r][p] \in Nat /\ faults \in Nat
    BY IngestTypes
  <2>2. CASE faults' = faults + 1
    BY <2>1, <2>2 DEF IngestInv, PrintsInv
  <2>3. CASE faults' = faults /\ claims' = claims /\ ingest.todo = {}
    <3>1. IsDealtWith(r, p) => IsDealtWith(r, p)'
      BY <1>1, <2>3, IngestionAssumption DEF IsDealtWith
    <3> QED BY <2>3, <3>1 DEF IngestInv, PrintsInv
  <2> QED BY <2>2, <2>3
<1>6. ContentInv'
  BY DEF IngestInv, ContentInv
<1>7. ArrivalsInv'
  BY <1>2 DEF IngestInv, ArrivalsInv
<1> QED BY <1>3, <1>4, <1>5, <1>6, <1>7 DEF IngestInv

LEMMA AnswerKeeps ==
  ASSUME IngestInv, AnswerPost PROVE IngestInv'
<1>1. ingest.key # Vacant /\ ingest.key \in Keys
  BY IngestTypes DEF AnswerPost, IngestInv, RequestInv
<1> QED BY <1>1, EndsKeep, IngestTypes DEF AnswerPost, IngestInv, IngestTypeOK

LEMMA FaultsKeep ==
  ASSUME IngestInv, IngestThrows \/ IngestCrash PROVE IngestInv'
<1>1. answers' \subseteq Keys /\ faults' \in faults .. MaxIngestFaults
  BY IngestTypes DEF IngestThrows, IngestCrash, ingestTables, IngestInv, IngestTypeOK
<1> QED BY <1>1, EndsKeep DEF IngestThrows, IngestCrash, ingestTables

\* A new request has yet to get to every route.
LEMMA ReceiveKeeps ==
  ASSUME IngestInv, NEW k \in Keys, NEW p \in Submissions, ReceivePost(k, p)
  PROVE  IngestInv'
<1>1. /\ ingest' = [key |-> k, post |-> p, todo |-> Inlets, reserved |-> Vacant]
      /\ claims' = claims \cup {[key |-> k, post |-> p]} /\ UNCHANGED <<answers, stage, prints, arrivals, faults>>
      /\ ingest.post = Vacant /\ \A c \in claims : c.post # p
  BY DEF ReceivePost, NoSubmission, IsRefused
<1>2. \A r \in Inlets, x \in Submissions : ~IsReserved(r, x)'
  BY <1>1, IngestionAssumption DEF IsReserved
<1>3. IngestTypeOK'
  BY <1>1, IngestTypes DEF IngestInv, IngestTypeOK
<1>4. RequestInv'
  BY <1>1, IngestionAssumption DEF RequestInv
<1>5. PrintsInv'
  <2>1. ASSUME NEW r \in Inlets, NEW x \in Submissions, IsDealtWith(r, x) PROVE IsDealtWith(r, x)'
    BY <1>1, <2>1 DEF IsDealtWith
  <2> QED BY <1>1, <1>2, <2>1 DEF IngestInv, PrintsInv
<1>6. ContentInv'
  BY <1>1 DEF IngestInv, ContentInv
<1>7. ArrivalsInv'
  BY <1>1, <1>2 DEF IngestInv, ArrivalsInv
<1> QED BY <1>3, <1>4, <1>5, <1>6, <1>7 DEF IngestInv

\* The request that is in progress, while it has a route to get to.
LEMMA RequestIsThere ==
  ASSUME IngestInv, NEW r \in Inlets, r \in ingest.todo \/ r = ingest.reserved
  PROVE  /\ ingest.post \in Submissions /\ ingest.key # Vacant
         /\ \E c \in claims : c.post = ingest.post
  BY IngestionAssumption DEF IngestInv, RequestInv, NoSubmission

LEMMA PassedOverKeeps ==
  ASSUME IngestInv, NEW r \in Inlets, ConsiderInlet(r), ingest' = [ingest EXCEPT !.todo = @ \ {r}], UNCHANGED prints
  PROVE  IngestInv'
<1>1. /\ UNCHANGED <<claims, answers, stage, prints, arrivals, faults>> /\ ingest.reserved = Vacant
      /\ ingest'.post = ingest.post /\ ingest'.key = ingest.key /\ ingest'.reserved = Vacant
      /\ ingest'.todo = ingest.todo \ {r} /\ r \in ingest.todo
  BY IngestTypes DEF ConsiderInlet
<1>2. \A s \in Inlets, x \in Submissions : ~IsReserved(s, x)' /\ ~IsReserved(s, x)
  BY <1>1, IngestionAssumption DEF IsReserved
<1>3. IngestTypeOK'
  BY <1>1, IngestTypes DEF IngestInv, IngestTypeOK
<1>4. RequestInv'
  BY <1>1, RequestIsThere DEF IngestInv, RequestInv
<1>5. PrintsInv'
  <2>1. ASSUME NEW s \in Inlets, NEW x \in Submissions, IsDealtWith(s, x) PROVE IsDealtWith(s, x)'
    BY <1>1, <2>1 DEF IsDealtWith
  <2> QED BY <1>1, <1>2, <2>1 DEF IngestInv, PrintsInv
<1>6. ContentInv' /\ ArrivalsInv'
  BY <1>1, <1>2 DEF IngestInv, ContentInv, ArrivalsInv
<1> QED BY <1>3, <1>4, <1>5, <1>6 DEF IngestInv

\* A fingerprint is reserved when no other post of that content has one.
LEMMA ReservingKeeps ==
  ASSUME IngestInv, NEW r \in Inlets, ConsiderInlet(r), ~IsPresent(r, ingest.post), ~IsSuppressed(r, ingest.post)
  PROVE  IngestInv'
<1> DEFINE p == ingest.post
<1>1. /\ UNCHANGED <<claims, answers, stage, arrivals, faults>> /\ ingest.reserved = Vacant
      /\ ingest'.post = p /\ ingest'.key = ingest.key /\ ingest'.reserved = r
      /\ ingest'.todo = ingest.todo /\ r \in ingest.todo
      /\ ingest' = [ingest EXCEPT !.reserved = r]
      /\ prints' = IF r \in Suppressing THEN [prints EXCEPT ![r][p] = @ + 1] ELSE prints
  BY IngestTypes DEF ConsiderInlet
<1>2. p \in Submissions /\ ingest.key # Vacant /\ \E c \in claims : c.post = p
  BY <1>1, RequestIsThere
<1>3. \A s \in Inlets, x \in Submissions :
        /\ ~IsReserved(s, x) /\ (IsReserved(s, x)' <=> s = r /\ x = p)
        /\ prints'[s][x] = prints[s][x] + (IF s = r /\ x = p /\ r \in Suppressing THEN 1 ELSE 0)
        /\ prints[s][x] \in Nat
  <2>1. \A s \in Inlets, x \in Submissions : ~IsReserved(s, x) /\ (IsReserved(s, x)' <=> s = r /\ x = p)
    BY <1>1, IngestionAssumption DEF IsReserved
  <2>2. \A s \in Inlets, x \in Submissions :
          prints'[s][x] = prints[s][x] + (IF s = r /\ x = p /\ r \in Suppressing THEN 1 ELSE 0)
    BY <1>1, <1>2, IngestTypes
  <2> QED BY <2>1, <2>2, IngestTypes
<1>4. ~IsDealtWith(r, p) /\ IsDealtWith(r, p)' /\ prints[r][p] <= faults
  <2>1. ~IsDealtWith(r, p) /\ IsDealtWith(r, p)'
    BY <1>1, <1>2, IngestionAssumption DEF IsDealtWith
  <2> QED BY <1>2, <2>1 DEF IngestInv, PrintsInv
<1>5. IngestTypeOK'
  <2>1. prints' \in [Inlets -> [Submissions -> 0 .. MaxIngestFaults + 1]]
    <3>1. prints[r][p] + 1 \in 0 .. MaxIngestFaults + 1
      BY <1>2, <1>4, IngestTypes
    <3> QED BY <1>1, <1>2, <3>1, IngestTypes
  <2>2. ingest' \in [key : Keys \cup {Vacant}, post : Submissions \cup {Vacant}, todo : SUBSET Inlets,
                     reserved : Inlets \cup {Vacant}]
    BY <1>1, IngestTypes
  <2> QED BY <1>1, <2>1, <2>2 DEF IngestInv, IngestTypeOK
<1>6. RequestInv'
  BY <1>1, <1>2, IngestionAssumption DEF IngestInv, RequestInv
<1>7. PrintsInv'
  <2> SUFFICES ASSUME NEW s \in Inlets, NEW x \in Submissions
               PROVE  /\ prints'[s][x] <= faults \/ (IsDealtWith(s, x)' /\ prints'[s][x] <= faults + 1)
                      /\ s \in Suppressing =>
                           /\ stage[s][x] # "none" => prints'[s][x] >= 1
                           /\ IsReserved(s, x)' => prints'[s][x] >= 1
                           /\ stage[s][x] # "none" /\ IsReserved(s, x)' => prints'[s][x] >= 2
    BY <1>1 DEF PrintsInv
  <2>1. CASE s = r /\ x = p
    <3>1. /\ prints[r][p] \in Nat /\ faults \in Nat
          /\ prints'[r][p] = prints[r][p] + (IF r \in Suppressing THEN 1 ELSE 0)
      BY <1>2, <1>3, IngestTypes
    <3>2. r \in Suppressing /\ stage[r][p] # "none" => prints[r][p] >= 1
      BY <1>2 DEF IngestInv, PrintsInv
    <3>3. prints'[r][p] <= faults + 1 /\ (r \in Suppressing => prints'[r][p] = prints[r][p] + 1)
      BY <1>4, <3>1
    <3>4. /\ prints'[r][p] <= faults + 1 /\ IsDealtWith(r, p)'
          /\ r \in Suppressing => prints'[r][p] >= 1 /\ (stage[r][p] # "none" => prints'[r][p] >= 2)
      BY <1>4, <3>1, <3>2, <3>3
    <3>5. s = r /\ x = p
      BY <2>1
    <3> QED BY <1>1, <3>4, <3>5 DEF IsDealtWith
  <2>2. CASE ~(s = r /\ x = p)
    <3>1. IsDealtWith(s, x) => IsDealtWith(s, x)'
      BY <1>1, <2>2, IngestionAssumption DEF IsDealtWith
    <3> QED BY <1>3, <2>2, <3>1 DEF IngestInv, PrintsInv
  <2> QED BY <2>1, <2>2
<1>8. ContentInv'
  <2> SUFFICES ASSUME NEW s \in Suppressing, NEW x \in Submissions, NEW y \in Submissions,
                      x # y, ContentOf[x] = ContentOf[y]
               PROVE  prints'[s][x] = 0 \/ prints'[s][y] = 0
    BY DEF ContentInv
  <2>1. s \in Inlets /\ (prints[s][x] = 0 \/ prints[s][y] = 0)
    BY IngestionAssumption DEF IngestInv, ContentInv
  <2>2. s = r => \A q \in Submissions \ {p} : ContentOf[q] = ContentOf[p] => prints[s][q] = 0
    BY <1>3, IngestionAssumption DEF IsSuppressed
  <2> QED BY <1>3, <2>1, <2>2
<1>9. ArrivalsInv'
  BY <1>1, <1>2, <1>3, IngestTypes DEF IngestInv, ArrivalsInv, IsPresent
<1> QED BY <1>5, <1>6, <1>7, <1>8, <1>9 DEF IngestInv

\* What was reserved gets into the table, or its fingerprint is given back.
LEMMA EnqueueKeeps ==
  ASSUME IngestInv, EnqueueAtInlet
  PROVE  IngestInv'
<1> DEFINE p == ingest.post
           r == ingest.reserved
<1>1. /\ UNCHANGED <<claims, answers, arrivals, faults>> /\ r # Vacant /\ r \in Inlets
      /\ ingest' = [ingest EXCEPT !.todo = @ \ {r}, !.reserved = Vacant]
      /\ ingest'.post = p /\ ingest'.key = ingest.key /\ ingest'.reserved = Vacant
      /\ ingest'.todo = ingest.todo \ {r}
  BY IngestTypes DEF EnqueueAtInlet
<1>2. p \in Submissions /\ ingest.key # Vacant /\ \E c \in claims : c.post = p
  BY <1>1, RequestIsThere
<1>3. \A s \in Inlets, x \in Submissions : ~IsReserved(s, x)' /\ (IsReserved(s, x) <=> s = r /\ x = p)
  BY <1>1, IngestionAssumption DEF IsReserved
<1>4. \/ /\ stage[r][p] = "none" /\ stage' = [stage EXCEPT ![r][p] = "queued"] /\ UNCHANGED prints
      \/ /\ stage[r][p] # "none" /\ UNCHANGED stage
         /\ prints' = IF r \in Suppressing THEN WithoutReservation(r, p) ELSE prints
  BY <1>1, <1>2, <1>3, IngestTypes DEF EnqueueAtInlet, IsInserted, IngestInv, ArrivalsInv
<1>5. RequestInv'
  BY <1>1, <1>2 DEF IngestInv, RequestInv
<1>6. \A s \in Inlets, x \in Submissions : IsDealtWith(s, x) => IsDealtWith(s, x)'
  BY <1>1, <1>2 DEF IsDealtWith
<1>7. CASE stage[r][p] = "none" /\ stage' = [stage EXCEPT ![r][p] = "queued"] /\ UNCHANGED prints
  <2>1. \A s \in Inlets, x \in Submissions : stage'[s][x] = IF s = r /\ x = p THEN "queued" ELSE stage[s][x]
    BY <1>1, <1>2, <1>7, IngestTypes
  <2>2. IngestTypeOK'
    <3>1. stage' \in [Inlets -> [Submissions -> {"none", "queued", "delivered"}]]
      BY <1>1, <1>2, <1>7, IngestTypes
    <3>2. ingest' \in [key : Keys \cup {Vacant}, post : Submissions \cup {Vacant}, todo : SUBSET Inlets,
                       reserved : Inlets \cup {Vacant}]
      BY <1>1, IngestTypes
    <3> QED BY <1>1, <1>7, <3>1, <3>2 DEF IngestInv, IngestTypeOK
  <2>3. PrintsInv'
    <3> SUFFICES ASSUME NEW s \in Inlets, NEW x \in Submissions
                 PROVE  /\ prints[s][x] <= faults \/ (IsDealtWith(s, x)' /\ prints[s][x] <= faults + 1)
                        /\ s \in Suppressing /\ stage'[s][x] # "none" => prints[s][x] >= 1
      BY <1>1, <1>3, <1>7 DEF PrintsInv
    <3> QED BY <1>3, <1>6, <2>1 DEF IngestInv, PrintsInv
  <2>4. ContentInv'
    BY <1>7 DEF IngestInv, ContentInv
  <2>5. ArrivalsInv'
    BY <1>1, <1>2, <1>3, <1>7, <2>1 DEF IngestInv, ArrivalsInv
  <2> QED BY <1>5, <2>2, <2>3, <2>4, <2>5 DEF IngestInv
<1>8. CASE stage[r][p] # "none" /\ UNCHANGED stage /\ prints' = IF r \in Suppressing THEN WithoutReservation(r, p) ELSE prints
  <2>1. \A s \in Inlets, x \in Submissions :
          prints'[s][x] = IF s = r /\ x = p /\ r \in Suppressing THEN prints[s][x] - 1 ELSE prints[s][x]
    BY <1>1, <1>2, <1>8, IngestTypes DEF WithoutReservation
  <2>2. r \in Suppressing => prints[r][p] >= 2
    BY <1>1, <1>2, <1>3, <1>8 DEF IngestInv, PrintsInv
  <2>3. IngestTypeOK'
    <3>1. prints' \in [Inlets -> [Submissions -> 0 .. MaxIngestFaults + 1]]
      <4>1. r \in Suppressing => prints[r][p] - 1 \in 0 .. MaxIngestFaults + 1
        BY <1>1, <1>2, <2>2, IngestTypes
      <4> QED BY <1>1, <1>2, <1>8, <4>1, IngestTypes DEF WithoutReservation
    <3>2. ingest' \in [key : Keys \cup {Vacant}, post : Submissions \cup {Vacant}, todo : SUBSET Inlets,
                       reserved : Inlets \cup {Vacant}]
      BY <1>1, IngestTypes
    <3> QED BY <1>1, <1>8, <3>1, <3>2 DEF IngestInv, IngestTypeOK
  <2>4. PrintsInv'
    <3> SUFFICES ASSUME NEW s \in Inlets, NEW x \in Submissions
                 PROVE  /\ prints'[s][x] <= faults \/ (IsDealtWith(s, x)' /\ prints'[s][x] <= faults + 1)
                        /\ s \in Suppressing /\ stage[s][x] # "none" => prints'[s][x] >= 1
      BY <1>1, <1>3, <1>8 DEF PrintsInv
    <3> QED BY <1>6, <2>1, <2>2, IngestTypes DEF IngestInv, PrintsInv
  <2>5. ContentInv'
    <3> SUFFICES ASSUME NEW s \in Suppressing, NEW x \in Submissions, NEW y \in Submissions,
                        x # y, ContentOf[x] = ContentOf[y]
                 PROVE  prints'[s][x] = 0 \/ prints'[s][y] = 0
      BY DEF ContentInv
    <3>1. s \in Inlets /\ (prints[s][x] = 0 \/ prints[s][y] = 0)
      BY IngestionAssumption DEF IngestInv, ContentInv
    <3> QED BY <2>1, <2>2, <3>1
  <2>6. ArrivalsInv'
    BY <1>1, <1>3, <1>8 DEF IngestInv, ArrivalsInv
  <2> QED BY <1>5, <2>3, <2>4, <2>5, <2>6 DEF IngestInv
<1> QED BY <1>4, <1>7, <1>8
LEMMA DeliverKeeps ==
  ASSUME IngestInv, NEW r \in Inlets, NEW p \in Submissions, DeliverSubmission(r, p)
  PROVE  IngestInv'
<1>1. /\ UNCHANGED <<claims, answers, prints, ingest, faults>> /\ stage[r][p] = "queued" /\ arrivals[r][p] = 0
      /\ stage' = [stage EXCEPT ![r][p] = "delivered"] /\ arrivals' = [arrivals EXCEPT ![r][p] = 1]
  <2>1. arrivals[r][p] = 0
    BY IngestTypes DEF DeliverSubmission, IngestInv, ArrivalsInv
  <2> QED BY <2>1, IngestTypes DEF DeliverSubmission
<1>2. \A s \in Inlets, x \in Submissions :
        /\ stage'[s][x] = IF s = r /\ x = p THEN "delivered" ELSE stage[s][x]
        /\ arrivals'[s][x] = IF s = r /\ x = p THEN 1 ELSE arrivals[s][x]
        /\ (IsReserved(s, x)' <=> IsReserved(s, x)) /\ (IsDealtWith(s, x)' <=> IsDealtWith(s, x))
  BY <1>1, IngestTypes DEF IsReserved, IsDealtWith
<1>3. IngestTypeOK'
  BY <1>1, IngestTypes DEF IngestInv, IngestTypeOK
<1>4. RequestInv'
  BY <1>1 DEF IngestInv, RequestInv, NoSubmission
<1>5. PrintsInv'
  BY <1>1, <1>2 DEF IngestInv, PrintsInv
<1>6. ContentInv'
  BY <1>1 DEF IngestInv, ContentInv
<1>7. ArrivalsInv'
  BY <1>1, <1>2 DEF IngestInv, ArrivalsInv
<1> QED BY <1>3, <1>4, <1>5, <1>6, <1>7 DEF IngestInv

LEMMA IngestInvInit == IngestInit => IngestInv
<1> SUFFICES ASSUME IngestInit PROVE IngestInv
  OBVIOUS
<1>1. \A r \in Inlets, p \in Submissions : stage[r][p] = "none" /\ prints[r][p] = 0 /\ arrivals[r][p] = 0 /\ ~IsReserved(r, p)
  BY IngestionAssumption DEF IngestInit, ByInlet, IsReserved, NoSubmission
<1>2. IngestTypeOK
  BY IngestionAssumption DEF IngestInit, IngestTypeOK, ByInlet, NoSubmission
<1>3. RequestInv
  BY DEF IngestInit, RequestInv, NoSubmission
<1>4. PrintsInv
  BY <1>1, IngestionAssumption DEF IngestInit, PrintsInv
<1>5. ContentInv
  BY <1>1, IngestionAssumption DEF ContentInv
<1>6. ArrivalsInv
  BY <1>1 DEF ArrivalsInv
<1> QED BY <1>2, <1>3, <1>4, <1>5, <1>6 DEF IngestInv

LEMMA IngestInvStep == IngestInv /\ [IngestNext]_ingestVars => IngestInv'
<1> SUFFICES ASSUME IngestInv, [IngestNext]_ingestVars PROVE IngestInv'
  OBVIOUS
<1>1. CASE UNCHANGED ingestVars
  BY <1>1 DEF ingestVars, ingestTables, IngestInv, IngestTypeOK, RequestInv, PrintsInv, ContentInv, ArrivalsInv,
              IsReserved, IsDealtWith, NoSubmission
<1>2. ASSUME NEW r \in Inlets, ConsiderInlet(r) PROVE IngestInv'
  BY <1>2, PassedOverKeeps, ReservingKeeps DEF ConsiderInlet
<1> QED BY <1>1, <1>2, EnqueueKeeps, AnswerKeeps, FaultsKeep, ReceiveKeeps, DeliverKeeps DEF IngestNext

\* The tables and the request are what they are meant to be: the fingerprints of a post
\* are at most one more than the faults, and never fewer than none.
THEOREM IngestTyping == IngestSpec => []IngestTypeOK
<1>1. IngestInv => IngestTypeOK
  BY DEF IngestInv
<1> QED BY <1>1, IngestInvInit, IngestInvStep, PTL DEF IngestSpec

\* However requests of POST /api/ingest/v1/posts fail between two statements and are
\* sent again, and whenever workers deliver in between, a post is published once at a
\* destination, and of those with the same content one where duplicates are suppressed.
THEOREM ContentIsIngestedOnce == IngestSpec => []ContentArrivesOnce
<1>1. IngestInv => ContentArrivesOnce
  <2> SUFFICES ASSUME IngestInv, NEW r \in Suppressing, NEW p \in Submissions, NEW q \in Submissions,
                      p # q, ContentOf[p] = ContentOf[q]
               PROVE  stage[r][p] = "none" \/ stage[r][q] = "none"
    BY DEF IngestInv, ArrivalsInv, ContentArrivesOnce
  <2>1. r \in Inlets /\ (prints[r][p] = 0 \/ prints[r][q] = 0)
    BY IngestionAssumption DEF IngestInv, ContentInv
  <2> QED BY <2>1 DEF IngestInv, PrintsInv
<1> QED BY <1>1, IngestInvInit, IngestInvStep, PTL DEF IngestSpec

--------------------------------------------------------------------------------
(***************************************************************************)
(* The governor: slots are handed out one after another, and who sleeps    *)
(* until one has it ahead of him and everything started behind him.        *)
(***************************************************************************)
Reserves(f) == fetcher[f].at = "reserved"

SlotsInv ==
  /\ \A f \in Fetchers : Reserves(f) => clock <= fetcher[f].wake /\ fetcher[f].wake + MinGap <= nextSlot
  /\ \A f, g \in Fetchers : Reserves(f) /\ Reserves(g) /\ f # g =>
       fetcher[f].wake + MinGap <= fetcher[g].wake \/ fetcher[g].wake + MinGap <= fetcher[f].wake
  /\ \A t \in requestTimes :
       /\ t + MinGap <= nextSlot
       /\ \A f \in Fetchers : Reserves(f) => t + MinGap <= fetcher[f].wake

GovernorInv == GovernorTypeOK /\ IsFiniteSet(recentRequests) /\ SlotsInv

LEMMA GovernorTypes ==
  ASSUME GovernorInv
  PROVE  /\ clock \in Nat /\ clock <= MaxTime /\ nextSlot \in Nat /\ cooldownUntil \in Nat /\ limitHits \in Nat
         /\ cooldownUntil <= clock + CooldownMax /\ recentRequests \subseteq Nat /\ requestTimes \subseteq Nat
         /\ \A f \in Fetchers : fetcher[f].wake \in Nat
         /\ MinGap \in Nat \ {0} /\ Jitter \in Nat /\ Window \in Nat /\ MaxTime \in Nat /\ CooldownMax \in Nat
         /\ MaxRequestsPerWindow \in Nat \ {0}
         /\ fetcher \in [Fetchers -> [at : {"idle", "waiting", "reserved", "requesting"}, wake : Nat]]
  BY GovernorAssumption DEF GovernorInv, GovernorTypeOK

LEMMA LeastIsThere ==
  ASSUME NEW S \in SUBSET Nat, S # {}
  PROVE  \E s \in S : \A t \in S : s <= t
<1> DEFINE R == {ss \in Nat \X Nat : ss[1] < ss[2]}
<1>1. IsWellFoundedOn(R, Nat)
  BY NatLessThanWellFounded DEF OpToRel
<1>2. PICK s \in S : \A t \in S : ~(<<t, s>> \in R)
  <2> HIDE DEF R
  <2> QED BY <1>1, WFMin
<1>3. ASSUME NEW t \in S PROVE s <= t
  <2>1. ~(<<t, s>> \in R) /\ s \in Nat /\ t \in Nat
    BY <1>2
  <2>2. ~(t < s)
    BY <2>1, Zenon DEF R
  <2> QED BY <2>1, <2>2
<1> QED BY <1>3

LEMMA EarliestIsThere ==
  ASSUME NEW S \in SUBSET Nat, S # {}
  PROVE  Earliest(S) \in S
BY LeastIsThere DEF Earliest

\* A caller goes to sleep or is done: slots and requests stay.
LEMMA RestsKeep ==
  ASSUME GovernorInv, NEW f \in Fetchers, NEW at \in {"idle", "waiting"}, NEW wake \in Nat, SetFetcher(f, at, wake),
         cooldownUntil' \in 0 .. clock + CooldownMax, limitHits' \in Nat, nextSlot' \in Nat, nextSlot <= nextSlot',
         recentRequests' \subseteq recentRequests,
         UNCHANGED <<clock, requestTimes>>
  PROVE  GovernorInv'
<1>1. /\ fetcher' \in [Fetchers -> [at : {"idle", "waiting", "reserved", "requesting"}, wake : Nat]]
      /\ \A g \in Fetchers : Reserves(g)' => g # f /\ Reserves(g) /\ fetcher'[g] = fetcher[g]
  BY GovernorTypes DEF SetFetcher, Reserves
<1>2. IsFiniteSet(recentRequests)' /\ Cardinality(recentRequests') <= MaxRequestsPerWindow
  <2>1. IsFiniteSet(recentRequests') /\ Cardinality(recentRequests') <= Cardinality(recentRequests)
    BY FS_Subset DEF GovernorInv
  <2>2. Cardinality(recentRequests) \in Nat /\ Cardinality(recentRequests') \in Nat
    BY <2>1, FS_CardinalityType DEF GovernorInv
  <2> QED BY <2>1, <2>2, GovernorTypes DEF GovernorInv, GovernorTypeOK
<1>3. GovernorTypeOK'
  BY <1>1, <1>2 DEF GovernorInv, GovernorTypeOK
<1>4. SlotsInv'
  <2>1. \A g \in Fetchers : Reserves(g)' => clock <= fetcher'[g].wake /\ fetcher'[g].wake + MinGap <= nextSlot'
    BY <1>1, GovernorTypes DEF GovernorInv, SlotsInv
  <2>2. \A t \in requestTimes : t + MinGap <= nextSlot'
    BY GovernorTypes DEF GovernorInv, SlotsInv
  <2> QED BY <1>1, <2>1, <2>2 DEF GovernorInv, SlotsInv
<1> QED BY <1>2, <1>3, <1>4 DEF GovernorInv

\* A request begins when it is the gap after all others.
LEMMA GoingKeeps ==
  ASSUME GovernorInv, NEW f \in Fetchers, Go(f), \A t \in requestTimes : t + MinGap <= clock,
         nextSlot' \in Nat, nextSlot <= nextSlot', clock + MinGap <= nextSlot',
         \A g \in Fetchers \ {f} : Reserves(g) => clock + MinGap <= fetcher[g].wake,
         recentRequests' \subseteq Nat, IsFiniteSet(recentRequests'),
         Cardinality(recentRequests') <= MaxRequestsPerWindow,
         UNCHANGED <<clock, cooldownUntil, limitHits>>
  PROVE  GovernorInv'
<1>1. /\ fetcher' \in [Fetchers -> [at : {"idle", "waiting", "reserved", "requesting"}, wake : Nat]]
      /\ \A g \in Fetchers : Reserves(g)' => g # f /\ Reserves(g) /\ fetcher'[g] = fetcher[g]
      /\ requestTimes' = requestTimes \cup {clock}
  BY GovernorTypes DEF Go, SetFetcher, Reserves
<1>2. GovernorTypeOK'
  BY <1>1, GovernorTypes DEF GovernorInv, GovernorTypeOK
<1>3. SlotsInv'
  <2>1. \A g \in Fetchers : Reserves(g)' => clock <= fetcher'[g].wake /\ fetcher'[g].wake + MinGap <= nextSlot'
    BY <1>1, GovernorTypes DEF GovernorInv, SlotsInv
  <2>2. \A t \in requestTimes' : t + MinGap <= nextSlot'
    BY <1>1, GovernorTypes DEF GovernorInv, SlotsInv
  <2> QED BY <1>1, <2>1, <2>2 DEF GovernorInv, SlotsInv
<1> QED BY <1>2, <1>3 DEF GovernorInv

LEMMA WaitsKeep ==
  ASSUME GovernorInv, NEW f \in Fetchers, WaitForCooldown(f) \/ WaitForWindow(f)
  PROVE  GovernorInv'
<1>1. CASE WaitForCooldown(f)
  BY <1>1, RestsKeep, GovernorTypes DEF WaitForCooldown, GovernorInv, GovernorTypeOK
<1>2. CASE WaitForWindow(f)
  <2> DEFINE recent == Unexpired(recentRequests, clock)
  <2>1. recent \subseteq recentRequests /\ recent \in SUBSET Nat
    BY GovernorTypes DEF Unexpired
  <2>2. recent # {}
    <3>1. IsFull(recent) /\ Cardinality({}) = 0 /\ MaxRequestsPerWindow \in Nat \ {0}
      BY <1>2, FS_EmptySet, GovernorAssumption DEF WaitForWindow
    <3> HIDE DEF recent
    <3> QED BY <3>1 DEF IsFull
  <2>3. Earliest(recent) + Window \in Nat
    BY <2>1, <2>2, EarliestIsThere, GovernorTypes
  <2>4. SetFetcher(f, "waiting", Earliest(recent) + Window) /\ recentRequests' = recent
        /\ UNCHANGED <<clock, nextSlot, cooldownUntil, limitHits, requestTimes>>
    BY <1>2 DEF WaitForWindow
  <2> HIDE DEF recent
  <2>5. cooldownUntil' \in 0 .. clock + CooldownMax /\ limitHits' \in Nat /\ nextSlot' \in Nat /\ nextSlot <= nextSlot'
    BY <2>4, GovernorTypes
  <2> QED BY <2>1, <2>3, <2>4, <2>5, RestsKeep
<1> QED BY <1>1, <1>2

LEMMA AnswersKeep ==
  ASSUME GovernorInv, NEW f \in Fetchers,
         NoteSuccess(f) \/ EndRequest(f) \/ \E reset \in {0, clock + 1, clock + CooldownMax + 1} : NoteRateLimited(f, reset)
  PROVE  GovernorInv'
<1>1. CASE NoteSuccess(f)
  BY <1>1, RestsKeep, GovernorTypes DEF NoteSuccess, GovernorInv, GovernorTypeOK
<1>2. CASE EndRequest(f)
  BY <1>2, RestsKeep, GovernorTypes DEF EndRequest, GovernorInv, GovernorTypeOK
<1>3. ASSUME NEW reset \in {0, clock + 1, clock + CooldownMax + 1}, NoteRateLimited(f, reset) PROVE GovernorInv'
  <2> DEFINE until == IF reset > clock THEN Lowest(reset, clock + CooldownMax) ELSE clock + Backoff(limitHits + 1)
  <2>1. until \in Int /\ until <= clock + CooldownMax
    <3>1. 2 ^ ((limitHits + 1) - 1) \in Int
      <4>1. \A n \in Nat : 2 ^ n \in Int
        BY SMT
      <4> QED BY <4>1, GovernorTypes
    <3>2. CooldownBase * 2 ^ ((limitHits + 1) - 1) \in Int
      BY <3>1, GovernorAssumption
    <3>3. Backoff(limitHits + 1) \in Int /\ Backoff(limitHits + 1) <= CooldownMax
      BY <3>2, GovernorTypes DEF Backoff, Lowest
    <3>4. reset \in Int
      BY GovernorTypes
    <3> QED BY <3>3, <3>4, GovernorTypes DEF Lowest
  <2>2. /\ cooldownUntil' = Highest(cooldownUntil, until) /\ nextSlot' = Highest(nextSlot, cooldownUntil')
        /\ limitHits' = limitHits + 1 /\ SetFetcher(f, "idle", 0) /\ UNCHANGED <<clock, recentRequests, requestTimes>>
    BY <1>3 DEF NoteRateLimited
  <2> HIDE DEF until
  <2>3. cooldownUntil' \in 0 .. clock + CooldownMax
    BY <2>1, <2>2, GovernorTypes DEF Highest
  <2>4. nextSlot' \in Nat /\ nextSlot <= nextSlot'
    BY <2>2, <2>3, GovernorTypes DEF Highest
  <2> QED BY <2>2, <2>3, <2>4, RestsKeep, GovernorTypes
<1> QED BY <1>1, <1>2, <1>3
LEMMA ReserveKeeps ==
  ASSUME GovernorInv, NEW f \in Fetchers, NEW gap \in MinGap .. MinGap + Jitter, ReserveSlot(f, gap)
  PROVE  GovernorInv'
<1> DEFINE recent == Unexpired(recentRequests, clock)
           slot == Highest(clock, nextSlot)
<1>1. /\ slot \in Nat /\ clock <= slot /\ nextSlot <= slot /\ (slot = clock \/ slot = nextSlot)
  BY GovernorTypes DEF Highest
<1>2. /\ nextSlot' = slot + gap /\ recentRequests' = Unexpired(recent \cup {slot}, slot)
      /\ ~IsFull(recent) /\ UNCHANGED <<clock, cooldownUntil, limitHits>> /\ fetcher[f].at # "reserved"
      /\ IF slot > clock THEN SetFetcher(f, "reserved", slot) /\ UNCHANGED requestTimes ELSE Go(f)
  BY DEF ReserveSlot, SlotAfter, IsTurnOf
<1>3. nextSlot' \in Nat /\ nextSlot <= nextSlot' /\ slot + MinGap <= nextSlot'
  BY <1>1, <1>2, GovernorTypes
<1>4. /\ recentRequests' \subseteq Nat /\ IsFiniteSet(recentRequests')
      /\ Cardinality(recentRequests') <= MaxRequestsPerWindow
  <2>1. recent \subseteq recentRequests /\ recentRequests' \subseteq recent \cup {slot}
    BY <1>2 DEF Unexpired
  <2> HIDE DEF recent, slot
  <2>2. IsFiniteSet(recent) /\ Cardinality(recent) \in Nat
    BY <2>1, FS_Subset, FS_CardinalityType DEF GovernorInv
  <2>3. Cardinality(recent) + 1 <= MaxRequestsPerWindow
    BY <1>2, <2>2, GovernorTypes DEF IsFull
  <2>4. IsFiniteSet(recent \cup {slot}) /\ Cardinality(recent \cup {slot}) <= Cardinality(recent) + 1
        /\ Cardinality(recent \cup {slot}) \in Nat
    <3>1. /\ IsFiniteSet(recent \cup {slot})
          /\ Cardinality(recent \cup {slot}) = IF slot \in recent THEN Cardinality(recent) ELSE Cardinality(recent) + 1
      BY <2>2, FS_AddElement
    <3> QED BY <2>2, <3>1
  <2>5. IsFiniteSet(recentRequests') /\ Cardinality(recentRequests') <= Cardinality(recent \cup {slot})
        /\ Cardinality(recentRequests') \in Nat
    BY <2>1, <2>4, FS_Subset, FS_CardinalityType
  <2>6. recentRequests' \subseteq Nat
    BY <1>1, <2>1, GovernorTypes
  <2>7. MaxRequestsPerWindow \in Nat
    BY GovernorTypes
  <2> QED BY <2>2, <2>3, <2>4, <2>5, <2>6, <2>7
<1>5. \A g \in Fetchers : Reserves(g) => fetcher[g].wake \in Nat /\ clock <= fetcher[g].wake
                                        /\ fetcher[g].wake + MinGap <= slot
  BY <1>1, GovernorTypes DEF GovernorInv, SlotsInv
<1>6. \A t \in requestTimes : t \in Nat /\ t + MinGap <= slot
  BY <1>1, GovernorTypes DEF GovernorInv, SlotsInv
<1>7. CASE slot > clock
  <2>1. /\ fetcher' \in [Fetchers -> [at : {"idle", "waiting", "reserved", "requesting"}, wake : Nat]]
        /\ fetcher'[f].wake = slot /\ Reserves(f)' /\ requestTimes' = requestTimes
        /\ \A g \in Fetchers \ {f} : fetcher'[g] = fetcher[g] /\ (Reserves(g)' <=> Reserves(g))
    BY <1>1, <1>2, <1>7, GovernorTypes DEF SetFetcher, Reserves
  <2>2. GovernorTypeOK'
    BY <1>2, <1>3, <1>4, <2>1 DEF GovernorInv, GovernorTypeOK
  <2> HIDE DEF slot
  <2>3. \A g \in Fetchers : Reserves(g)' => clock <= fetcher'[g].wake /\ fetcher'[g].wake + MinGap <= nextSlot'
    BY <1>1, <1>3, <1>5, <2>1, GovernorTypes
  <2>4. \A g, h \in Fetchers : Reserves(g)' /\ Reserves(h)' /\ g # h =>
          fetcher'[g].wake + MinGap <= fetcher'[h].wake \/ fetcher'[h].wake + MinGap <= fetcher'[g].wake
    BY <1>5, <2>1 DEF GovernorInv, SlotsInv
  <2>5. \A t \in requestTimes : t + MinGap <= nextSlot' /\ \A g \in Fetchers : Reserves(g)' => t + MinGap <= fetcher'[g].wake
    BY <1>1, <1>3, <1>6, <2>1, GovernorTypes DEF GovernorInv, SlotsInv
  <2>6. SlotsInv'
    BY <1>2, <2>1, <2>3, <2>4, <2>5 DEF SlotsInv
  <2> QED BY <1>4, <2>2, <2>6 DEF GovernorInv
<1>8. CASE ~(slot > clock)
  <2>1. slot = clock /\ Go(f)
    BY <1>1, <1>2, <1>8, GovernorTypes
  <2> HIDE DEF slot, recent
  <2>2. \A g \in Fetchers \ {f} : ~Reserves(g)
    BY <1>5, <2>1, GovernorTypes
  <2>3. \A t \in requestTimes : t + MinGap <= clock
    BY <1>6, <2>1
  <2>4. clock + MinGap <= nextSlot'
    BY <1>3, <2>1
  <2> QED BY <1>2, <1>3, <1>4, <2>1, <2>2, <2>3, <2>4, GoingKeeps
<1> QED BY <1>7, <1>8

\* Who wakes has the slot that is due; the others' are behind it.
LEMMA StartKeeps ==
  ASSUME GovernorInv, NEW f \in Fetchers, StartRequest(f)
  PROVE  GovernorInv' /\ \A t \in requestTimes : t + MinGap <= clock
<1>1. Reserves(f) /\ Go(f) /\ fetcher[f].wake = clock
      /\ UNCHANGED <<clock, nextSlot, cooldownUntil, limitHits, recentRequests>>
  BY GovernorTypes DEF StartRequest, Reserves, GovernorInv, SlotsInv
<1>2. \A t \in requestTimes : t + MinGap <= clock
  BY <1>1 DEF GovernorInv, SlotsInv
<1>3. clock + MinGap <= nextSlot
  BY <1>1 DEF GovernorInv, SlotsInv
<1>4. ASSUME NEW g \in Fetchers \ {f}, Reserves(g) PROVE clock + MinGap <= fetcher[g].wake
  <2>1. clock <= fetcher[g].wake /\ fetcher[g].wake \in Nat /\ clock \in Nat /\ MinGap \in Nat \ {0}
    BY <1>4, GovernorTypes DEF GovernorInv, SlotsInv
  <2>2. fetcher[f].wake + MinGap <= fetcher[g].wake \/ fetcher[g].wake + MinGap <= fetcher[f].wake
    BY <1>1, <1>4 DEF GovernorInv, SlotsInv
  <2> QED BY <1>1, <2>1, <2>2
<1> QED BY <1>1, <1>2, <1>3, <1>4, GoingKeeps, GovernorTypes DEF GovernorInv, GovernorTypeOK

LEMMA PassTimeKeeps ==
  ASSUME GovernorInv, PassTime
  PROVE  GovernorInv'
<1>1. clock' = clock + 1 /\ clock < MaxTime
      /\ UNCHANGED <<nextSlot, cooldownUntil, limitHits, recentRequests, fetcher, requestTimes>>
      /\ \A f \in Fetchers : Reserves(f) => fetcher[f].wake > clock
  BY DEF PassTime, Reserves
<1>2. GovernorTypeOK'
  BY <1>1, GovernorTypes DEF GovernorInv, GovernorTypeOK
<1>3. SlotsInv'
  BY <1>1, GovernorTypes DEF GovernorInv, SlotsInv, Reserves
<1> QED BY <1>1, <1>2, <1>3 DEF GovernorInv

LEMMA GovernorInvInit == GovernorInit => GovernorInv
<1> SUFFICES ASSUME GovernorInit PROVE GovernorInv
  OBVIOUS
<1>1. GovernorTypeOK /\ IsFiniteSet(recentRequests)
  BY FS_EmptySet, GovernorAssumption DEF GovernorInit, GovernorTypeOK
<1>2. SlotsInv
  BY DEF GovernorInit, SlotsInv, Reserves
<1> QED BY <1>1, <1>2 DEF GovernorInv

LEMMA GovernorInvStep ==
  ASSUME GovernorInv, [GovernorNext]_governorVars
  PROVE  GovernorInv' /\ (Starts => \A t \in requestTimes : t + MinGap <= clock)
<1>1. CASE UNCHANGED governorVars
  BY <1>1 DEF governorVars, GovernorInv, GovernorTypeOK, SlotsInv, Reserves, Starts
<1>2. CASE PassTime
  BY <1>2, PassTimeKeeps DEF Starts, PassTime
<1>3. ASSUME NEW f \in Fetchers, StartRequest(f)
      PROVE  GovernorInv' /\ (Starts => \A t \in requestTimes : t + MinGap <= clock)
  BY <1>3, StartKeeps
<1>4. ASSUME NEW f \in Fetchers, NEW gap \in MinGap .. MinGap + Jitter, ReserveSlot(f, gap)
      PROVE  GovernorInv' /\ (Starts => \A t \in requestTimes : t + MinGap <= clock)
  <2>1. Starts => nextSlot <= clock
    BY <1>4, GovernorTypes DEF Starts, ReserveSlot, SetFetcher, Highest
  <2> QED BY <1>4, <2>1, ReserveKeeps, GovernorTypes DEF GovernorInv, SlotsInv
<1>5. ASSUME NEW f \in Fetchers,
             \/ WaitForCooldown(f) \/ WaitForWindow(f) \/ NoteSuccess(f) \/ EndRequest(f)
             \/ \E reset \in {0, clock + 1, clock + CooldownMax + 1} : NoteRateLimited(f, reset)
      PROVE  GovernorInv' /\ (Starts => \A t \in requestTimes : t + MinGap <= clock)
  <2>1. ~Starts
    BY <1>5, GovernorTypes DEF Starts, WaitForCooldown, WaitForWindow, NoteSuccess, EndRequest, NoteRateLimited, SetFetcher
  <2> QED BY <1>5, <2>1, WaitsKeep, AnswersKeep
<1> QED BY <1>1, <1>2, <1>3, <1>4, <1>5 DEF GovernorNext

\* Slots, cooldowns and sleepers of the governor are what they are meant to be: the
\* window never holds more than its requests.
THEOREM GovernorTyping == GovernorSpec => []GovernorTypeOK
<1>1. GovernorInv => GovernorTypeOK
  BY DEF GovernorInv
<1>2. GovernorInv /\ [GovernorNext]_governorVars => GovernorInv'
  BY GovernorInvStep
<1> QED BY <1>1, <1>2, GovernorInvInit, PTL DEF GovernorSpec

\* Two requests of the process are never closer than the minimum gap, however many
\* callers acquire() holds back and whatever cooldowns they report.
THEOREM RequestsKeepTheirGap == GovernorSpec => RequestsAreSpaced
<1>1. GovernorInv /\ [GovernorNext]_governorVars => GovernorInv'
  BY GovernorInvStep
<1>2. GovernorInv /\ [GovernorNext]_governorVars => (Starts => \A t \in requestTimes : t + MinGap <= clock)
  BY GovernorInvStep
<1> QED BY <1>1, <1>2, GovernorInvInit, PTL DEF GovernorSpec, RequestsAreSpaced

--------------------------------------------------------------------------------
(***************************************************************************)
(* The sweep: the baseline a route is given with its first page is behind  *)
(* everything that is ever chosen for it.                                  *)
(***************************************************************************)
IsUntouched(r, t) == queue[r][t] = "none" /\ digest[r][t] = "none" /\ publications[r][t] = 0

\* A route without a baseline was given nothing; one that starts with new posts has
\* its first page behind the baseline.
BaselineInv ==
  /\ \A r \in Lanes : baseline[r] = Unknown => old[r] = {}
  /\ \A r \in Lanes \ asked : baseline[r] = Unknown => \A t \in Timeline : IsUntouched(r, t)
  /\ \A r \in NewOnly : baseline[r] # Unknown => \A t \in old[r] : t <= baseline[r]
  /\ \A r \in NewOnly \ asked : \A t \in old[r] : IsUntouched(r, t)

\* What is being considered for a route is ahead of its baseline; a backfill was asked for.
AheadInv ==
  /\ sweep.lane # Unknown =>
       /\ baseline[sweep.lane] # Unknown
       /\ \A t \in sweep.left \cup sweep.chosen : t > baseline[sweep.lane]
  /\ backfilling.lane # Unknown => backfilling.lane \in asked

\* While no route changes its delivery, it has rows of one kind, and what was published
\* has left its mark.
ModeInv ==
  switches = 0 =>
    /\ sweep.digests \subseteq {r \in Lanes : IsDigest(r)}
    /\ \A r \in Lanes, t \in Timeline :
         /\ publications[r][t] <= 1
         /\ IF IsDigest(r) THEN queue[r][t] = "none" /\ (publications[r][t] # 0 => digest[r][t] = "delivered")
                           ELSE digest[r][t] = "none" /\ (publications[r][t] # 0 => outcome[r][t] # "none")

SweepInv == SweepTypeOK /\ BaselineInv /\ AheadInv /\ ModeInv

LEMMA SweepTypes ==
  ASSUME SweepTypeOK
  PROVE  /\ newest \in 0 .. MaxPost
         /\ \A r \in Lanes : /\ baseline[r] \in 0 .. MaxPost \cup {Unknown}
                             /\ delivery[r] \in {"immediate", "digest"}
                             /\ old[r] \subseteq Timeline
         /\ \A r \in Lanes, t \in Timeline : /\ queue[r][t] \in {"none", "pending", "processing"}
                                             /\ digest[r][t] \in {"none", "pending", "delivered"}
                                             /\ outcome[r][t] \in {"none", "skipped", "migrated"}
                                             /\ publications[r][t] \in 0 .. 2
         /\ sweep.lane \in Lanes \cup {Unknown} /\ sweep.digests \subseteq Lanes /\ sweep.page \subseteq Timeline
         /\ sweep.todo \subseteq Lanes /\ sweep.left \subseteq Timeline /\ sweep.chosen \subseteq Timeline
         /\ sweep.known \subseteq Timeline
         /\ backfilling.lane \in Lanes \cup {Unknown} /\ backfilling.page \subseteq Timeline
         /\ backfilling.seen \subseteq Timeline
         /\ MaxPost \in Nat /\ MaxSwitches \in Nat /\ switches \in Nat
         /\ Unknown \notin Lanes /\ Unknown \notin Nat /\ NewOnly \subseteq Lanes
BY SMTT(60), SweepAssumption DEF SweepTypeOK

\* The newest post of a page is in it.
LEMMA LatestIsThere ==
  ASSUME SweepTypeOK, NEW page \in SUBSET Timeline
  PROVE  Latest(page) \in 0 .. MaxPost /\ \A t \in page : t <= Latest(page)
<1>m. MaxPost \in Nat
  BY SweepAssumption
<1>1. CASE page = {}
  BY <1>1, <1>m DEF Latest
<1>2. CASE page # {}
  <2> DEFINE Distances == {n \in Nat : MaxPost - n \in page}
             R == {p \in Nat \X Nat : p[1] < p[2]}
  <2>1. Distances # {}
    <3>1. PICK t \in page : TRUE
      BY <1>2
    <3>2. t \in 1 .. MaxPost
      BY <3>1 DEF Timeline
    <3>3. MaxPost - t \in Nat /\ MaxPost - (MaxPost - t) = t
      BY <3>2, <1>m
    <3>. QED BY <3>1, <3>3
  <2>2. IsWellFoundedOn(R, Nat)
    BY NatLessThanWellFounded DEF OpToRel
  <2>3. PICK n \in Distances : \A m \in Distances : ~(<<m, n>> \in R)
    <3>1. Distances \subseteq Nat
      OBVIOUS
    <3>. QED BY <2>1, <2>2, <3>1, WFMin
  <2>4. \A t \in page : t <= MaxPost - n
    <3>1. TAKE t \in page
    <3>2. t \in 1 .. MaxPost
      BY DEF Timeline
    <3>3. MaxPost - t \in Nat /\ MaxPost - (MaxPost - t) = t
      BY <3>2, <1>m
    <3>4. MaxPost - t \in Distances
      BY <3>3
    <3>5. ~(MaxPost - t < n)
      BY <2>3, <3>4, <3>3
    <3>. QED BY <3>5, <3>2, <1>m
  <2>5. MaxPost - n \in page
    OBVIOUS
  <2>6. \E t \in page : \A s \in page : s <= t
    BY <2>4, <2>5
  <2>7. Latest(page) \in page /\ \A t \in page : t <= Latest(page)
    BY <1>2, <2>6 DEF Latest
  <2>8. Latest(page) \in 1 .. MaxPost
    BY <2>7 DEF Timeline
  <2>9. Latest(page) \in 0 .. MaxPost
    BY <2>8, <1>m
  <2>. QED BY <2>7, <2>9
<1>. QED BY <1>1, <1>2

\* What enqueueing leaves alone.
LEMMA Enqueueing ==
  ASSUME SweepTypeOK, NEW r \in Lanes, NEW posts \in SUBSET Timeline, NEW asDigest \in BOOLEAN,
         EnqueuePosts(r, posts, asDigest)
  PROVE  /\ queue' \in [Lanes -> [Timeline -> {"none", "pending", "processing"}]]
         /\ digest' \in [Lanes -> [Timeline -> {"none", "pending", "delivered"}]]
         /\ \A q \in Lanes, t \in Timeline : q # r \/ t \notin posts =>
              queue'[q][t] = queue[q][t] /\ digest'[q][t] = digest[q][t]
         /\ \A q \in Lanes, t \in Timeline : digest[q][t] = "delivered" => digest'[q][t] = "delivered"
         /\ asDigest => queue' = queue
         /\ ~asDigest => digest' = digest
<1>1. queue \in [Lanes -> [Timeline -> {"none", "pending", "processing"}]]
  BY DEF SweepTypeOK
<1>2. digest \in [Lanes -> [Timeline -> {"none", "pending", "delivered"}]]
  BY DEF SweepTypeOK
<1>3. CASE asDigest
  <2>1. /\ digest' = [digest EXCEPT ![r] = [t \in Timeline |-> IF t \in posts /\ digest[r][t] = "none" THEN "pending" ELSE digest[r][t]]]
        /\ queue' = queue
    BY <1>3 DEF EnqueuePosts
  <2>2. \A q \in Lanes, t \in Timeline :
          digest'[q][t] = IF q = r /\ t \in posts /\ digest[q][t] = "none" THEN "pending" ELSE digest[q][t]
    BY <2>1, <1>2
  <2>3. digest' \in [Lanes -> [Timeline -> {"none", "pending", "delivered"}]]
    BY <2>1, <1>2
  <2>. QED BY <1>1, <2>1, <2>2, <2>3, <1>3
<1>4. CASE ~asDigest
  BY <1>1, <1>2, <1>4 DEF EnqueuePosts
<1>. QED BY <1>3, <1>4

LEMMA BaselineTyped ==
  ASSUME SweepTypeOK, NEW r \in Lanes, NEW page \in SUBSET Timeline
  PROVE  /\ BaselineOf(r, page) \in 0 .. MaxPost
         /\ baseline[r] # Unknown => BaselineOf(r, page) = baseline[r]
         /\ r \in NewOnly /\ baseline[r] = Unknown => \A t \in page : t <= BaselineOf(r, page)
<1>1. Latest(page) \in 0 .. MaxPost /\ \A t \in page : t <= Latest(page)
  BY LatestIsThere
<1>. QED BY <1>1, SweepTypes DEF BaselineOf, FirstBaseline

LEMMA PageTyped == ASSUME SweepTypeOK PROVE Page \subseteq Timeline /\ 1 .. newest \subseteq Timeline
BY SweepTypes DEF Page, Timeline
--------------------------------------------------------------------------------
\* Types, in parts of one kind of variable each.
RowTypesOK ==
  /\ queue \in [Lanes -> [Timeline -> {"none", "pending", "processing"}]]
  /\ digest \in [Lanes -> [Timeline -> {"none", "pending", "delivered"}]]
  /\ outcome \in [Lanes -> [Timeline -> {"none", "skipped", "migrated"}]]
  /\ publications \in [Lanes -> [Timeline -> 0 .. 2]]

LaneTypesOK ==
  /\ baseline \in [Lanes -> 0 .. MaxPost \cup {Unknown}]
  /\ delivery \in [Lanes -> {"immediate", "digest"}]
  /\ old \in [Lanes -> SUBSET Timeline] /\ asked \subseteq Lanes
  /\ newest \in 0 .. MaxPost /\ switches \in 0 .. MaxSwitches

TaskTypesOK ==
  /\ sweep \in [at : {"idle", "fetching", "routing"}, digests : SUBSET Lanes, page : SUBSET Timeline, todo : SUBSET Lanes,
                lane : Lanes \cup {Unknown}, left : SUBSET Timeline, chosen : SUBSET Timeline, known : SUBSET Timeline]
  /\ backfilling \in [lane : Lanes \cup {Unknown}, page : SUBSET Timeline, seen : SUBSET Timeline]

LEMMA SweepTypeParts == SweepTypeOK <=> RowTypesOK /\ LaneTypesOK /\ TaskTypesOK
BY DEF SweepTypeOK, RowTypesOK, LaneTypesOK, TaskTypesOK

LEMMA RowTypesStep ==
  ASSUME SweepInv, SweepNext
  PROVE  RowTypesOK'
<1>t. SweepTypeOK
  BY DEF SweepInv
<1>y. RowTypesOK
  BY <1>t, SweepTypeParts
<1>1. CASE PostAppears \/ BeginSweep \/ Fetched \/ FetchFails \/ \E r \in Lanes : BeginLane(r) \/ BeginFetch(r) \/ SwitchDelivery(r)
  <2>1. UNCHANGED <<queue, digest, outcome, publications>>
    BY <1>1, Zenon DEF PostAppears, BeginSweep, Fetched, FetchFails, BeginLane, BeginFetch, SwitchDelivery, laneRows, past
  <2>. QED BY <1>y, <2>1 DEF RowTypesOK
<1>2. CASE EndLane
  <2> DEFINE r == sweep.lane
             asDigest == r \in sweep.digests \/ IsDigest(r)
  <2>1. r \in Lanes /\ sweep.chosen \in SUBSET Timeline /\ asDigest \in BOOLEAN
    BY <1>t, <1>2, SweepTypes DEF EndLane
  <2>2. EnqueuePosts(r, sweep.chosen, asDigest) /\ UNCHANGED <<outcome, publications>>
    BY <1>2 DEF EndLane, past
  <2> HIDE DEF r, asDigest
  <2>3. /\ queue' \in [Lanes -> [Timeline -> {"none", "pending", "processing"}]]
        /\ digest' \in [Lanes -> [Timeline -> {"none", "pending", "delivered"}]]
    BY <1>t, <2>1, <2>2, Enqueueing
  <2>. QED BY <1>y, <2>2, <2>3 DEF RowTypesOK
<1>3. CASE SweepCrash
  <2>1. queue' \in [Lanes -> [Timeline -> {"none", "pending", "processing"}]]
    BY <1>3 DEF SweepCrash
  <2>. QED BY <1>3, <1>y, <2>1 DEF RowTypesOK, SweepCrash, past
<1>4. CASE EndFetch
  <2> DEFINE r == backfilling.lane
  <2>1. r \in Lanes
    BY <1>t, <1>4, SweepTypes DEF EndFetch
  <2>2. PICK accepted \in SUBSET (backfilling.page \ backfilling.seen) :
          /\ outcome' = [outcome EXCEPT ![r] = [t \in Timeline |->
                           IF t \in (backfilling.page \ backfilling.seen) \ accepted THEN "skipped" ELSE @[t]]]
          /\ EnqueuePosts(r, accepted, IsDigest(r))
    BY <1>4 DEF EndFetch
  <2>3. accepted \in SUBSET Timeline /\ IsDigest(r) \in BOOLEAN
    BY <1>t, <2>1, SweepTypes DEF IsDigest
  <2>4. publications' = publications
    BY <1>4 DEF EndFetch, past
  <2> HIDE DEF r
  <2>5. /\ queue' \in [Lanes -> [Timeline -> {"none", "pending", "processing"}]]
        /\ digest' \in [Lanes -> [Timeline -> {"none", "pending", "delivered"}]]
    BY <1>t, <2>1, <2>2, <2>3, Enqueueing
  <2>6. outcome' \in [Lanes -> [Timeline -> {"none", "skipped", "migrated"}]]
    BY <1>y, <2>1, <2>2 DEF RowTypesOK
  <2>. QED BY <1>y, <2>4, <2>5, <2>6 DEF RowTypesOK
<1>5. ASSUME NEW t \in Timeline, ConsiderPost(t)
      PROVE  RowTypesOK'
  <2>1. sweep.lane \in Lanes
    BY <1>t, <1>5, SweepTypes DEF ConsiderPost
  <2>2. UNCHANGED <<queue, digest, publications>>
    BY <1>5 DEF ConsiderPost, past
  <2>3. outcome' = outcome \/ outcome' = SkipUnlessSettled(sweep.lane, t)
    BY <1>5, Zenon DEF ConsiderPost
  <2>4. SkipUnlessSettled(sweep.lane, t) \in [Lanes -> [Timeline -> {"none", "skipped", "migrated"}]]
    BY <1>y, <2>1 DEF SkipUnlessSettled, RowTypesOK
  <2>. QED BY <1>y, <2>2, <2>3, <2>4 DEF RowTypesOK
<1>6. ASSUME NEW r \in Lanes, DeliverDigest(r)
      PROVE  RowTypesOK'
  <2>1. digest' \in [Lanes -> [Timeline -> {"none", "pending", "delivered"}]]
    BY <1>y, <1>6 DEF DeliverDigest, RowTypesOK
  <2>2. publications' \in [Lanes -> [Timeline -> 0 .. 2]]
    BY <1>y, <1>6 DEF DeliverDigest, RowTypesOK
  <2>. QED BY <1>y, <1>6, <2>1, <2>2 DEF RowTypesOK, DeliverDigest
<1>7. ASSUME NEW r \in Lanes, NEW t \in Timeline,
             ClaimRow(r, t) \/ ReleaseRow(r, t) \/ DeliverRow(r, t) \/ SettleKnownRow(r, t)
      PROVE  RowTypesOK'
  <2>1. CASE ClaimRow(r, t) \/ ReleaseRow(r, t) \/ SettleKnownRow(r, t)
    <3>0. \E value \in {"none", "pending", "processing"} : queue' = [queue EXCEPT ![r][t] = value]
      BY <2>1 DEF ClaimRow, ReleaseRow, SettleKnownRow
    <3>1. queue' \in [Lanes -> [Timeline -> {"none", "pending", "processing"}]]
      BY <1>y, <3>0 DEF RowTypesOK
    <3>2. UNCHANGED <<digest, outcome, publications>>
      BY <2>1, Zenon DEF ClaimRow, ReleaseRow, SettleKnownRow, past
    <3>. QED BY <1>y, <3>1, <3>2 DEF RowTypesOK
  <2>2. CASE DeliverRow(r, t)
    <3>1. publications' \in [Lanes -> [Timeline -> 0 .. 2]]
      BY <1>y, <2>2 DEF DeliverRow, Published, RowTypesOK
    <3>. QED BY <1>y, <2>2, <3>1 DEF RowTypesOK, DeliverRow
  <2>. QED BY <1>7, <2>1, <2>2
<1>. QED BY <1>1, <1>2, <1>3, <1>4, <1>5, <1>6, <1>7 DEF SweepNext

LEMMA LaneTypesStep ==
  ASSUME SweepInv, SweepNext
  PROVE  LaneTypesOK'
<1>t. SweepTypeOK
  BY DEF SweepInv
<1>y. LaneTypesOK
  BY <1>t, SweepTypeParts
<1>1. CASE PostAppears
  BY <1>1, <1>y, SweepAssumption DEF PostAppears, LaneTypesOK, laneRows, past
<1>2. CASE BeginSweep \/ Fetched \/ FetchFails \/ EndLane \/ SweepCrash \/ EndFetch \/ \E t \in Timeline : ConsiderPost(t)
  <2>1. UNCHANGED <<baseline, delivery, old, asked, newest, switches>>
    BY <1>2, Zenon DEF BeginSweep, Fetched, FetchFails, EndLane, SweepCrash, EndFetch, ConsiderPost, laneRows, past
  <2>. QED BY <1>y, <2>1 DEF LaneTypesOK
<1>3. ASSUME NEW r \in Lanes, BeginLane(r)
      PROVE  LaneTypesOK'
  <2>1. BaselineOf(r, sweep.page) \in 0 .. MaxPost /\ sweep.page \subseteq Timeline
    BY <1>t, BaselineTyped, SweepTypes
  <2>2. baseline' \in [Lanes -> 0 .. MaxPost \cup {Unknown}]
    BY <1>y, <1>3, <2>1 DEF BeginLane, LaneTypesOK
  <2>3. old' \in [Lanes -> SUBSET Timeline]
    BY <1>y, <1>3, <2>1 DEF BeginLane, LaneTypesOK
  <2>. QED BY <1>y, <1>3, <2>2, <2>3 DEF BeginLane, LaneTypesOK
<1>4. ASSUME NEW r \in Lanes, BeginFetch(r) \/ DeliverDigest(r)
      PROVE  LaneTypesOK'
  <2>1. UNCHANGED <<baseline, delivery, old, newest, switches>> /\ asked' \subseteq asked \cup {r}
    BY <1>4, Zenon DEF BeginFetch, DeliverDigest, laneRows
  <2>. QED BY <1>y, <2>1 DEF LaneTypesOK
<1>5. ASSUME NEW r \in Lanes, SwitchDelivery(r)
      PROVE  LaneTypesOK'
  BY <1>5, <1>y, SweepAssumption DEF SwitchDelivery, LaneTypesOK, laneRows, past
<1>6. ASSUME NEW r \in Lanes, NEW t \in Timeline,
             ClaimRow(r, t) \/ ReleaseRow(r, t) \/ DeliverRow(r, t) \/ SettleKnownRow(r, t)
      PROVE  LaneTypesOK'
  <2>1. UNCHANGED <<baseline, delivery, old, asked, newest, switches>>
    BY <1>6, Zenon DEF ClaimRow, ReleaseRow, DeliverRow, SettleKnownRow, past
  <2>. QED BY <1>y, <2>1 DEF LaneTypesOK
<1>. QED BY <1>1, <1>2, <1>3, <1>4, <1>5, <1>6 DEF SweepNext

LEMMA NoTaskTyped ==
  /\ NoSweep \in [at : {"idle", "fetching", "routing"}, digests : SUBSET Lanes, page : SUBSET Timeline, todo : SUBSET Lanes,
                  lane : Lanes \cup {Unknown}, left : SUBSET Timeline, chosen : SUBSET Timeline, known : SUBSET Timeline]
  /\ NoBackfill \in [lane : Lanes \cup {Unknown}, page : SUBSET Timeline, seen : SUBSET Timeline]
BY DEF NoSweep, NoBackfill

\* Considering a post moves it from left to chosen, or takes it out of left.
LEMMA Considering ==
  ASSUME TaskTypesOK, NEW t \in Timeline, ConsiderPost(t)
  PROVE  /\ \E chosen \in {sweep.chosen, sweep.chosen \cup {t}} :
              sweep' = [sweep EXCEPT !.left = sweep.left \ {t}, !.chosen = chosen]
         /\ t \in sweep.left /\ sweep.lane # Unknown
<1>1. \/ sweep' = [sweep EXCEPT !.left = @ \ {t}]
      \/ sweep' = [sweep EXCEPT !.left = @ \ {t}, !.chosen = @ \cup {t}]
  BY Zenon DEF ConsiderPost
<1>2. CASE sweep' = [sweep EXCEPT !.left = @ \ {t}]
  <2>1. sweep' = [sweep EXCEPT !.left = sweep.left \ {t}, !.chosen = sweep.chosen]
    BY <1>2 DEF TaskTypesOK
  <2>. QED BY <2>1 DEF ConsiderPost
<1>3. CASE sweep' = [sweep EXCEPT !.left = @ \ {t}, !.chosen = @ \cup {t}]
  <2>1. sweep' = [sweep EXCEPT !.left = sweep.left \ {t}, !.chosen = sweep.chosen \cup {t}]
    BY <1>3
  <2>. QED BY <2>1 DEF ConsiderPost
<1>. QED BY <1>1, <1>2, <1>3

LEMMA TaskTypesStep ==
  ASSUME SweepInv, SweepNext
  PROVE  TaskTypesOK'
<1>t. SweepTypeOK
  BY DEF SweepInv
<1>y. TaskTypesOK
  BY <1>t, SweepTypeParts
<1>1. CASE PostAppears \/ \E r \in Lanes : DeliverDigest(r) \/ SwitchDelivery(r)
  <2>1. UNCHANGED <<sweep, backfilling>>
    BY <1>1, Zenon DEF PostAppears, DeliverDigest, SwitchDelivery
  <2>. QED BY <1>y, <2>1 DEF TaskTypesOK
<1>2. CASE BeginSweep
  BY <1>2, <1>y, NoTaskTyped DEF BeginSweep, TaskTypesOK
<1>3. CASE Fetched
  BY <1>3, <1>y, <1>t, PageTyped DEF Fetched, TaskTypesOK
<1>4. CASE FetchFails \/ SweepCrash
  BY <1>4, <1>y, NoTaskTyped DEF FetchFails, SweepCrash, TaskTypesOK
<1>5. CASE EndLane
  BY <1>5, <1>y, NoTaskTyped DEF EndLane, TaskTypesOK
<1>6. CASE EndFetch
  BY <1>6, <1>y, NoTaskTyped DEF EndFetch, TaskTypesOK
<1>7. ASSUME NEW t \in Timeline, ConsiderPost(t)
      PROVE  TaskTypesOK'
  <2>1. PICK chosen \in {sweep.chosen, sweep.chosen \cup {t}} :
          sweep' = [sweep EXCEPT !.left = sweep.left \ {t}, !.chosen = chosen]
    BY <1>y, <1>7, Considering
  <2>2. backfilling' = backfilling
    BY <1>7 DEF ConsiderPost
  <2>3. sweep.left \ {t} \in SUBSET Timeline /\ chosen \in SUBSET Timeline
    BY <1>y DEF TaskTypesOK
  <2>. QED BY <1>y, <2>1, <2>2, <2>3 DEF TaskTypesOK
<1>8. ASSUME NEW r \in Lanes, BeginLane(r)
      PROVE  TaskTypesOK'
  BY <1>8, <1>y DEF BeginLane, TaskTypesOK
<1>9. ASSUME NEW r \in Lanes, BeginFetch(r)
      PROVE  TaskTypesOK'
  BY <1>9, <1>y, <1>t, PageTyped DEF BeginFetch, TaskTypesOK
<1>10. ASSUME NEW r \in Lanes, NEW t \in Timeline,
              ClaimRow(r, t) \/ ReleaseRow(r, t) \/ DeliverRow(r, t) \/ SettleKnownRow(r, t)
       PROVE  TaskTypesOK'
  <2>1. UNCHANGED <<sweep, backfilling>>
    BY <1>10, Zenon DEF ClaimRow, ReleaseRow, DeliverRow, SettleKnownRow
  <2>. QED BY <1>y, <2>1 DEF TaskTypesOK
<1>. QED BY <1>1, <1>2, <1>3, <1>4, <1>5, <1>6, <1>7, <1>8, <1>9, <1>10 DEF SweepNext

\* Lanes, tasks and histories where the step is one of the workers.
LEMMA BaselineStep ==
  ASSUME SweepInv, SweepNext
  PROVE  BaselineInv'
<1>t. SweepTypeOK /\ BaselineInv /\ AheadInv
  BY DEF SweepInv
<1>a. NewOnly \subseteq Lanes
  BY SweepAssumption
<1>k. ASSUME UNCHANGED <<baseline, old>>, asked \subseteq asked',
             \A r \in Lanes \ asked', t \in Timeline : (t \in old[r] /\ r \in NewOnly) \/ baseline[r] = Unknown =>
               (IsUntouched(r, t) => IsUntouched(r, t)')
      PROVE  BaselineInv'
  <2>1. \A r \in Lanes : old[r] \subseteq Timeline
    BY <1>t, SweepTypes
  <2>. QED BY <1>t, <1>k, <1>a, <2>1 DEF BaselineInv
<1>1. CASE PostAppears \/ BeginSweep \/ Fetched \/ FetchFails
           \/ (\E t \in Timeline : ConsiderPost(t)) \/ \E r \in Lanes : SwitchDelivery(r)
  <2>1. UNCHANGED <<baseline, old, asked, queue, digest, publications>>
    BY <1>1, Zenon DEF PostAppears, BeginSweep, Fetched, FetchFails, ConsiderPost, SwitchDelivery, laneRows, past
  <2>. QED BY <1>k, <2>1 DEF IsUntouched
<1>2. CASE \E r \in Lanes : BeginFetch(r)
  <2>1. UNCHANGED <<baseline, old, queue, digest, publications>> /\ asked \subseteq asked'
    BY <1>2, Zenon DEF BeginFetch, laneRows
  <2>. QED BY <1>k, <2>1 DEF IsUntouched
<1>3. CASE EndLane
  <2> DEFINE lane == sweep.lane
             asDigest == lane \in sweep.digests \/ IsDigest(lane)
  <2>1. lane \in Lanes /\ sweep.chosen \in SUBSET Timeline /\ asDigest \in BOOLEAN /\ lane # Unknown
    BY <1>t, <1>3, SweepTypes DEF EndLane
  <2>2. EnqueuePosts(lane, sweep.chosen, asDigest) /\ UNCHANGED <<baseline, old, asked, publications>>
    BY <1>3 DEF EndLane, past
  <2>3. baseline[lane] # Unknown /\ \A t \in sweep.chosen : t > baseline[lane]
    BY <1>t, <2>1 DEF AheadInv
  <2> HIDE DEF lane, asDigest
  <2>4. \A r \in Lanes, t \in Timeline : r # lane \/ t \notin sweep.chosen =>
          queue'[r][t] = queue[r][t] /\ digest'[r][t] = digest[r][t]
    BY ZenonT(30), <1>t, <2>1, <2>2, Enqueueing
  <2>5. ASSUME NEW r \in Lanes \ asked', NEW t \in Timeline, (t \in old[r] /\ r \in NewOnly) \/ baseline[r] = Unknown,
               IsUntouched(r, t)
        PROVE  IsUntouched(r, t)'
    <3>1. r # lane \/ t \notin sweep.chosen
      <4>1. CASE baseline[r] = Unknown
        BY <4>1, <2>3
      <4>2. CASE r = lane /\ t \in old[r] /\ r \in NewOnly /\ baseline[r] # Unknown
        <5>1. t <= baseline[lane] /\ t \in Nat /\ baseline[lane] \in Nat
          BY <4>2, <1>t, SweepTypes DEF BaselineInv, Timeline
        <5>2. ~(t > baseline[lane])
          BY <5>1
        <5>. QED BY <5>2, <2>3
      <4>. QED BY <2>5, <4>1, <4>2
    <3>. QED BY <2>5, <3>1, <2>4, <2>2 DEF IsUntouched
  <2>. QED BY <1>k, <2>2, <2>5
<1>4. CASE SweepCrash
  <2>1. /\ queue' = [r \in Lanes |-> [t \in Timeline |-> IF IsQueued(r, t) THEN "pending" ELSE "none"]]
        /\ UNCHANGED <<baseline, old, asked, digest, publications>>
    BY <1>4 DEF SweepCrash, past
  <2>2. \A r \in Lanes, t \in Timeline : queue[r][t] = "none" => queue'[r][t] = "none"
    BY <2>1 DEF IsQueued
  <2>. QED BY <1>k, <2>1, <2>2 DEF IsUntouched
<1>5. CASE EndFetch
  <2> DEFINE lane == backfilling.lane
  <2>1. lane \in Lanes /\ lane \in asked
    BY <1>t, <1>5, SweepTypes DEF EndFetch, AheadInv
  <2>2. PICK accepted \in SUBSET (backfilling.page \ backfilling.seen) : EnqueuePosts(lane, accepted, IsDigest(lane))
    BY <1>5 DEF EndFetch
  <2>3. accepted \in SUBSET Timeline /\ IsDigest(lane) \in BOOLEAN
    BY <1>t, <2>1, SweepTypes DEF IsDigest
  <2>4. UNCHANGED <<baseline, old, asked, publications>>
    BY <1>5 DEF EndFetch, past
  <2> HIDE DEF lane
  <2>5. \A r \in Lanes, t \in Timeline : r # lane \/ t \notin accepted =>
          queue'[r][t] = queue[r][t] /\ digest'[r][t] = digest[r][t]
    BY ZenonT(30), <1>t, <2>1, <2>2, <2>3, Enqueueing
  <2>6. \A r \in Lanes \ asked', t \in Timeline : IsUntouched(r, t) => IsUntouched(r, t)'
    BY <2>1, <2>4, <2>5 DEF IsUntouched
  <2>. QED BY <1>k, <2>4, <2>6
<1>6. ASSUME NEW r \in Lanes, BeginLane(r)
      PROVE  BaselineInv'
  <2>1. /\ BaselineOf(r, sweep.page) \in 0 .. MaxPost
        /\ baseline[r] # Unknown => BaselineOf(r, sweep.page) = baseline[r]
        /\ r \in NewOnly /\ baseline[r] = Unknown => \A t \in sweep.page : t <= BaselineOf(r, sweep.page)
        /\ sweep.page \subseteq Timeline
    BY <1>t, BaselineTyped, SweepTypes
  <2>2. BaselineOf(r, sweep.page) # Unknown
    BY <2>1, SweepAssumption
  <2>3. /\ baseline' = [baseline EXCEPT ![r] = BaselineOf(r, sweep.page)]
        /\ old' = [old EXCEPT ![r] = IF baseline[r] = Unknown THEN sweep.page ELSE @]
        /\ UNCHANGED <<queue, digest, publications, asked>>
    BY <1>6 DEF BeginLane
  <2>4. baseline \in [Lanes -> 0 .. MaxPost \cup {Unknown}] /\ old \in [Lanes -> SUBSET Timeline]
    BY <1>t DEF SweepTypeOK
  <2>5. /\ baseline'[r] = BaselineOf(r, sweep.page)
        /\ old'[r] = IF baseline[r] = Unknown THEN sweep.page ELSE old[r]
        /\ \A q \in Lanes : q # r => baseline'[q] = baseline[q] /\ old'[q] = old[q]
    BY <2>3, <2>4
  <2>6. \A q \in Lanes, t \in Timeline : IsUntouched(q, t)' <=> IsUntouched(q, t)
    BY <2>3 DEF IsUntouched
  <2>7. \A q \in Lanes : baseline'[q] = Unknown => baseline[q] = Unknown /\ old'[q] = {}
    BY <1>t, <2>5, <2>2 DEF BaselineInv
  <2>8. \A q \in NewOnly : baseline'[q] # Unknown => \A t \in old'[q] : t <= baseline'[q]
    <3>1. SUFFICES ASSUME NEW q \in NewOnly, baseline'[q] # Unknown, NEW t \in old'[q] PROVE t <= baseline'[q]
      OBVIOUS
    <3>2. CASE q = r /\ baseline[r] = Unknown
      BY <3>1, <3>2, <2>1, <2>5
    <3>3. CASE q # r \/ baseline[r] # Unknown
      <4>1. baseline'[q] = baseline[q] /\ old'[q] = old[q]
        BY <3>3, <1>a, <2>1, <2>5
      <4>. QED BY <3>1, <4>1, <1>t DEF BaselineInv
    <3>. QED BY <3>2, <3>3
  <2>9. \A q \in NewOnly \ asked : \A t \in old'[q] : IsUntouched(q, t)'
    <3>1. SUFFICES ASSUME NEW q \in NewOnly \ asked, NEW t \in old'[q] PROVE IsUntouched(q, t)
      BY <1>a, <2>3, <2>6, Zenon DEF IsUntouched
    <3>2. q \in Lanes
      BY <1>a
    <3>3. CASE q = r /\ baseline[r] = Unknown
      <4>1. t \in Timeline
        BY <3>1, <3>3, <2>1, <2>5
      <4>. QED BY <3>1, <3>2, <3>3, <4>1, <1>t DEF BaselineInv
    <3>4. CASE q # r \/ baseline[r] # Unknown
      <4>1. old'[q] = old[q]
        BY <3>4, <3>2, <2>5
      <4>. QED BY <3>1, <4>1, <1>t DEF BaselineInv
    <3>. QED BY <3>3, <3>4
  <2>10. \A q \in Lanes \ asked : baseline'[q] = Unknown => \A t \in Timeline : IsUntouched(q, t)'
    BY <1>t, <2>6, <2>7 DEF BaselineInv
  <2>. QED BY <2>3, <2>7, <2>8, <2>9, <2>10 DEF BaselineInv
<1>7. ASSUME NEW q \in Lanes, DeliverDigest(q)
      PROVE  BaselineInv'
  <2>1. /\ UNCHANGED <<baseline, old, asked, queue>>
        /\ digest' = [digest EXCEPT ![q] = [t \in Timeline |-> IF digest[q][t] = "pending" THEN "delivered" ELSE digest[q][t]]]
        /\ publications' = [publications EXCEPT ![q] = [t \in Timeline |->
                              IF digest[q][t] = "pending" /\ publications[q][t] < 2 THEN publications[q][t] + 1 ELSE publications[q][t]]]
    BY <1>7, <1>t DEF DeliverDigest, SweepTypeOK
  <2>2. digest \in [Lanes -> [Timeline -> {"none", "pending", "delivered"}]] /\ publications \in [Lanes -> [Timeline -> 0 .. 2]]
    BY <1>t DEF SweepTypeOK
  <2>3. \A r \in Lanes, t \in Timeline : digest[r][t] = "none" =>
          digest'[r][t] = "none" /\ publications'[r][t] = publications[r][t]
    BY <2>1, <2>2
  <2>. QED BY <1>k, <2>1, <2>3 DEF IsUntouched
<1>8. ASSUME NEW q \in Lanes, NEW u \in Timeline,
             ClaimRow(q, u) \/ ReleaseRow(q, u) \/ DeliverRow(q, u) \/ SettleKnownRow(q, u)
      PROVE  BaselineInv'
  <2>1. UNCHANGED <<baseline, old, asked, digest>> /\ queue[q][u] # "none"
    BY <1>8 DEF ClaimRow, ReleaseRow, DeliverRow, SettleKnownRow, past
  <2>2. \E value \in {"none", "pending", "processing"} : queue' = [queue EXCEPT ![q][u] = value]
    BY <1>8 DEF ClaimRow, ReleaseRow, DeliverRow, SettleKnownRow
  <2>3. publications' = publications \/ publications' = [publications EXCEPT ![q][u] = IF @ < 2 THEN @ + 1 ELSE @]
    BY <1>8 DEF ClaimRow, ReleaseRow, DeliverRow, SettleKnownRow, Published, past
  <2>4. queue \in [Lanes -> [Timeline -> {"none", "pending", "processing"}]] /\ publications \in [Lanes -> [Timeline -> 0 .. 2]]
    BY <1>t DEF SweepTypeOK
  <2>5. \A r \in Lanes, t \in Timeline : queue[r][t] = "none" =>
          queue'[r][t] = "none" /\ publications'[r][t] = publications[r][t]
    BY <2>1, <2>2, <2>3, <2>4
  <2>. QED BY <1>k, <2>1, <2>5 DEF IsUntouched
<1>. QED BY <1>1, <1>2, <1>3, <1>4, <1>5, <1>6, <1>7, <1>8 DEF SweepNext

LEMMA AheadStep ==
  ASSUME SweepInv, SweepNext
  PROVE  AheadInv'
<1>t. SweepTypeOK /\ AheadInv
  BY DEF SweepInv
<1>n. NoSweep.lane = Unknown /\ NoBackfill.lane = Unknown
  BY DEF NoSweep, NoBackfill
<1>1. CASE PostAppears \/ \E r \in Lanes : DeliverDigest(r) \/ SwitchDelivery(r)
  <2>1. UNCHANGED <<sweep, backfilling, baseline, asked>>
    BY <1>1, Zenon DEF PostAppears, DeliverDigest, SwitchDelivery, laneRows, past
  <2>. QED BY <1>t, <2>1 DEF AheadInv
<1>2. CASE BeginSweep \/ FetchFails \/ SweepCrash
  <2>1. sweep'.lane = Unknown
    BY <1>2, <1>n DEF BeginSweep, FetchFails, SweepCrash, NoSweep
  <2>2. backfilling' = backfilling \/ backfilling' = NoBackfill
    BY <1>2 DEF BeginSweep, FetchFails, SweepCrash
  <2>3. asked' = asked
    BY <1>2 DEF BeginSweep, FetchFails, SweepCrash, past
  <2>. QED BY <1>t, <1>n, <2>1, <2>2, <2>3 DEF AheadInv
<1>3. CASE Fetched
  <2>1. sweep'.lane = sweep.lane /\ sweep'.left = sweep.left /\ sweep'.chosen = sweep.chosen
    BY <1>3, <1>t DEF Fetched, SweepTypeOK
  <2>. QED BY <1>t, <1>3, <2>1 DEF AheadInv, Fetched, laneRows, past
<1>4. CASE EndLane
  <2>1. sweep'.lane = Unknown
    BY <1>4, <1>t, <1>n DEF EndLane, SweepTypeOK
  <2>. QED BY <1>t, <1>4, <2>1 DEF AheadInv, EndLane, past
<1>5. CASE EndFetch
  BY <1>5, <1>n, <1>t DEF EndFetch, AheadInv, past
<1>6. ASSUME NEW t \in Timeline, ConsiderPost(t)
      PROVE  AheadInv'
  <2>1. PICK chosen \in {sweep.chosen, sweep.chosen \cup {t}} :
          sweep' = [sweep EXCEPT !.left = sweep.left \ {t}, !.chosen = chosen]
    BY <1>t, <1>6, Considering, SweepTypeParts
  <2>2. t \in sweep.left
    BY <1>t, <1>6, Considering, SweepTypeParts
  <2>3a. sweep'.lane = sweep.lane /\ sweep'.left = sweep.left \ {t} /\ sweep'.chosen = chosen
    BY <2>1, <1>t DEF SweepTypeOK
  <2>3. sweep'.lane = sweep.lane /\ \A u \in sweep'.left \cup sweep'.chosen : u \in sweep.left \cup sweep.chosen
    BY <2>2, <2>3a
  <2>4. UNCHANGED <<baseline, backfilling, asked>>
    BY <1>6 DEF ConsiderPost, past
  <2>. QED BY <1>t, <2>3, <2>4 DEF AheadInv
<1>7. ASSUME NEW r \in Lanes, BeginLane(r)
      PROVE  AheadInv'
  <2>1. /\ sweep'.lane = r /\ sweep'.chosen = {}
        /\ sweep'.left = {t \in sweep.page : t > BaselineOf(r, sweep.page)}
    BY <1>7, <1>t DEF BeginLane, SweepTypeOK
  <2>2. baseline'[r] = BaselineOf(r, sweep.page)
    BY <1>7, <1>t DEF BeginLane, SweepTypeOK
  <2>3. BaselineOf(r, sweep.page) # Unknown
    <3>1. BaselineOf(r, sweep.page) \in 0 .. MaxPost
      BY <1>t, BaselineTyped, SweepTypes
    <3>. QED BY <3>1, SweepAssumption
  <2>4. UNCHANGED <<backfilling, asked>>
    BY <1>7 DEF BeginLane
  <2>. QED BY <1>t, <2>1, <2>2, <2>3, <2>4 DEF AheadInv
<1>8. ASSUME NEW r \in Lanes, BeginFetch(r)
      PROVE  AheadInv'
  <2>1. backfilling'.lane = r /\ asked' = asked \cup {r} /\ UNCHANGED <<sweep, baseline>>
    BY <1>8 DEF BeginFetch, laneRows
  <2>. QED BY <1>t, <2>1 DEF AheadInv
<1>9. ASSUME NEW r \in Lanes, NEW t \in Timeline,
             ClaimRow(r, t) \/ ReleaseRow(r, t) \/ DeliverRow(r, t) \/ SettleKnownRow(r, t)
      PROVE  AheadInv'
  <2>1. UNCHANGED <<sweep, backfilling, baseline, asked>>
    BY <1>9, Zenon DEF ClaimRow, ReleaseRow, DeliverRow, SettleKnownRow, past
  <2>. QED BY <1>t, <2>1 DEF AheadInv
<1>. QED BY <1>1, <1>2, <1>3, <1>4, <1>5, <1>6, <1>7, <1>8, <1>9 DEF SweepNext

LEMMA ModeStep ==
  ASSUME SweepInv, SweepNext, switches' = 0
  PROVE  ModeInv'
<1>t. SweepTypeOK
  BY DEF SweepInv
<1>0. switches = 0 /\ delivery' = delivery
  <2>1. \/ UNCHANGED <<switches, delivery>>
        \/ switches' = switches + 1
    BY Zenon DEF SweepNext, PostAppears, BeginSweep, Fetched, FetchFails, EndLane, SweepCrash, EndFetch, ConsiderPost, BeginLane,
                 BeginFetch, DeliverDigest, SwitchDelivery, ClaimRow, ReleaseRow, DeliverRow, SettleKnownRow
  <2>2. switches \in Nat
    BY <1>t, SweepTypes
  <2>. QED BY <2>1, <2>2
<1>m. /\ sweep.digests \subseteq {r \in Lanes : IsDigest(r)}
      /\ \A r \in Lanes, t \in Timeline :
           /\ publications[r][t] <= 1
           /\ IsDigest(r) => queue[r][t] = "none" /\ (publications[r][t] # 0 => digest[r][t] = "delivered")
           /\ ~IsDigest(r) => digest[r][t] = "none" /\ (publications[r][t] # 0 => outcome[r][t] # "none")
  BY <1>0 DEF SweepInv, ModeInv
<1>d. \A r : IsDigest(r)' <=> IsDigest(r)
  BY <1>0 DEF IsDigest
<1>k. ASSUME sweep'.digests \subseteq {r \in Lanes : IsDigest(r)},
             \A r \in Lanes, t \in Timeline :
               /\ publications'[r][t] <= 1
               /\ IsDigest(r) => queue'[r][t] = "none" /\ (publications'[r][t] # 0 => digest'[r][t] = "delivered")
               /\ ~IsDigest(r) => digest'[r][t] = "none" /\ (publications'[r][t] # 0 => outcome'[r][t] # "none")
      PROVE  ModeInv'
  BY <1>k, <1>d DEF ModeInv
<1>s. sweep'.digests \subseteq {r \in Lanes : IsDigest(r)}
  <2>1. CASE BeginSweep
    BY <2>1 DEF BeginSweep, NoSweep
  <2>2. CASE FetchFails \/ SweepCrash
    BY <2>2 DEF FetchFails, SweepCrash, NoSweep
  <2>3. CASE EndLane
    <3>1. sweep'.digests = {} \/ sweep'.digests = sweep.digests
      BY <1>t, <2>3 DEF EndLane, SweepTypeOK, NoSweep
    <3>. QED BY <3>1, <1>m
  <2>4. CASE Fetched \/ \E r \in Lanes : BeginLane(r)
    <3>1. sweep'.digests = sweep.digests
      BY <1>t, <2>4 DEF Fetched, BeginLane, SweepTypeOK
    <3>. QED BY <3>1, <1>m
  <2>5. ASSUME NEW t \in Timeline, ConsiderPost(t)
        PROVE  sweep'.digests \subseteq {r \in Lanes : IsDigest(r)}
    <3>1. PICK chosen \in {sweep.chosen, sweep.chosen \cup {t}} :
            sweep' = [sweep EXCEPT !.left = sweep.left \ {t}, !.chosen = chosen]
      BY <1>t, <2>5, Considering, SweepTypeParts
    <3>2. sweep'.digests = sweep.digests
      BY <3>1, <1>t DEF SweepTypeOK
    <3>. QED BY <3>2, <1>m
  <2>6. CASE sweep' = sweep
    BY <2>6, <1>m
  <2>. QED
    BY <2>1, <2>2, <2>3, <2>4, <2>5, <2>6
    DEF SweepNext, PostAppears, EndFetch, BeginFetch, DeliverDigest, SwitchDelivery, ClaimRow, ReleaseRow, DeliverRow, SettleKnownRow
<1>1. CASE PostAppears \/ BeginSweep \/ Fetched \/ FetchFails \/ \E r \in Lanes : BeginLane(r) \/ BeginFetch(r) \/ SwitchDelivery(r)
  <2>1. UNCHANGED <<queue, digest, outcome, publications>>
    BY <1>1, Zenon DEF PostAppears, BeginSweep, Fetched, FetchFails, BeginLane, BeginFetch, SwitchDelivery, laneRows, past
  <2>. QED BY <1>k, <1>m, <1>s, <2>1
<1>2. CASE EndLane
  <2> DEFINE lane == sweep.lane
             asDigest == lane \in sweep.digests \/ IsDigest(lane)
  <2>1. lane \in Lanes /\ sweep.chosen \in SUBSET Timeline /\ asDigest \in BOOLEAN
    BY <1>t, <1>2, SweepTypes DEF EndLane
  <2>2. EnqueuePosts(lane, sweep.chosen, asDigest) /\ UNCHANGED <<outcome, publications>>
    BY <1>2 DEF EndLane, past
  <2>3. asDigest <=> IsDigest(lane)
    BY <1>m
  <2> HIDE DEF lane, asDigest
  <2>4. /\ \A q \in Lanes, t \in Timeline : q # lane \/ t \notin sweep.chosen =>
             queue'[q][t] = queue[q][t] /\ digest'[q][t] = digest[q][t]
        /\ \A q \in Lanes, t \in Timeline : digest[q][t] = "delivered" => digest'[q][t] = "delivered"
        /\ asDigest => queue' = queue
        /\ ~asDigest => digest' = digest
    BY ZenonT(30), <1>t, <2>1, <2>2, Enqueueing
  <2>. QED BY <1>k, <1>m, <1>s, <2>2, <2>3, <2>4
<1>3. CASE SweepCrash
  <2>1. /\ queue' = [r \in Lanes |-> [t \in Timeline |-> IF IsQueued(r, t) THEN "pending" ELSE "none"]]
        /\ UNCHANGED <<outcome, digest, publications>>
    BY <1>3 DEF SweepCrash, past
  <2>2. \A r \in Lanes, t \in Timeline : queue[r][t] = "none" => queue'[r][t] = "none"
    BY <2>1 DEF IsQueued
  <2>. QED BY <1>k, <1>m, <1>s, <2>1, <2>2
<1>4. CASE EndFetch
  <2> DEFINE lane == backfilling.lane
  <2>1. lane \in Lanes
    BY <1>t, <1>4, SweepTypes DEF EndFetch
  <2>2. PICK accepted \in SUBSET (backfilling.page \ backfilling.seen) :
          /\ outcome' = [outcome EXCEPT ![lane] = [t \in Timeline |->
                           IF t \in (backfilling.page \ backfilling.seen) \ accepted THEN "skipped" ELSE @[t]]]
          /\ EnqueuePosts(lane, accepted, IsDigest(lane))
    BY <1>4 DEF EndFetch
  <2>3. accepted \in SUBSET Timeline /\ IsDigest(lane) \in BOOLEAN
    BY <1>t, <2>1, SweepTypes DEF IsDigest
  <2>4. UNCHANGED publications
    BY <1>4 DEF EndFetch, past
  <2> HIDE DEF lane
  <2>5. /\ \A q \in Lanes, t \in Timeline : q # lane \/ t \notin accepted =>
             queue'[q][t] = queue[q][t] /\ digest'[q][t] = digest[q][t]
        /\ \A q \in Lanes, t \in Timeline : digest[q][t] = "delivered" => digest'[q][t] = "delivered"
        /\ IsDigest(lane) => queue' = queue
        /\ ~IsDigest(lane) => digest' = digest
    BY ZenonT(30), <1>t, <2>1, <2>2, <2>3, Enqueueing
  <2>6. outcome \in [Lanes -> [Timeline -> {"none", "skipped", "migrated"}]]
    BY <1>t DEF SweepTypeOK
  <2>7. \A q \in Lanes, t \in Timeline : outcome[q][t] # "none" => outcome'[q][t] # "none"
    BY <2>1, <2>2, <2>6
  <2>. QED BY <1>k, <1>m, <1>s, <2>4, <2>5, <2>7
<1>5. ASSUME NEW u \in Timeline, ConsiderPost(u)
      PROVE  ModeInv'
  <2>1. sweep.lane \in Lanes
    BY <1>t, <1>5, SweepTypes DEF ConsiderPost
  <2>2. UNCHANGED <<queue, digest, publications>>
    BY <1>5 DEF ConsiderPost, past
  <2>3. outcome' = outcome \/ outcome' = SkipUnlessSettled(sweep.lane, u)
    BY <1>5, Zenon DEF ConsiderPost
  <2>4. outcome \in [Lanes -> [Timeline -> {"none", "skipped", "migrated"}]]
    BY <1>t DEF SweepTypeOK
  <2>5. \A q \in Lanes, t \in Timeline : outcome[q][t] # "none" => outcome'[q][t] # "none"
    BY <2>1, <2>3, <2>4 DEF SkipUnlessSettled
  <2>. QED BY <1>k, <1>m, <1>s, <2>2, <2>5
<1>6. ASSUME NEW q \in Lanes, DeliverDigest(q)
      PROVE  ModeInv'
  <2>1. /\ UNCHANGED <<queue, outcome>> /\ IsDigest(q)
        /\ digest' = [digest EXCEPT ![q] = [t \in Timeline |-> IF digest[q][t] = "pending" THEN "delivered" ELSE digest[q][t]]]
        /\ publications' = [publications EXCEPT ![q] = [t \in Timeline |->
                              IF digest[q][t] = "pending" /\ publications[q][t] < 2 THEN publications[q][t] + 1 ELSE publications[q][t]]]
    BY <1>6, <1>t DEF DeliverDigest, SweepTypeOK
  <2>2. digest \in [Lanes -> [Timeline -> {"none", "pending", "delivered"}]] /\ publications \in [Lanes -> [Timeline -> 0 .. 2]]
    BY <1>t DEF SweepTypeOK
  <2>3. \A t \in Timeline :
          /\ digest[q][t] = "pending" => publications[q][t] = 0 /\ digest'[q][t] = "delivered" /\ publications'[q][t] = 1
          /\ digest[q][t] # "pending" => digest'[q][t] = digest[q][t] /\ publications'[q][t] = publications[q][t]
    BY <2>1, <2>2, <1>m
  <2>4. \A r \in Lanes : r # q => digest'[r] = digest[r] /\ publications'[r] = publications[r]
    BY <2>1, <2>2
  <2>5. \A r \in Lanes, t \in Timeline :
          /\ publications'[r][t] <= 1
          /\ IsDigest(r) => queue'[r][t] = "none" /\ (publications'[r][t] # 0 => digest'[r][t] = "delivered")
          /\ ~IsDigest(r) => digest'[r][t] = "none" /\ (publications'[r][t] # 0 => outcome'[r][t] # "none")
    <3>1. TAKE r \in Lanes, t \in Timeline
    <3>2. CASE r = q
      BY <3>2, <2>1, <2>3, <1>m
    <3>3. CASE r # q
      BY <3>3, <2>1, <2>4, <1>m
    <3>. QED BY <3>2, <3>3
  <2>. QED BY <1>k, <1>s, <2>5
<1>7. ASSUME NEW q \in Lanes, NEW u \in Timeline,
             ClaimRow(q, u) \/ ReleaseRow(q, u) \/ SettleKnownRow(q, u)
      PROVE  ModeInv'
  <2>1. queue[q][u] # "none" /\ UNCHANGED <<digest, outcome, publications>>
    BY <1>7 DEF ClaimRow, ReleaseRow, SettleKnownRow, past
  <2>2. \E value \in {"none", "pending", "processing"} : queue' = [queue EXCEPT ![q][u] = value]
    BY <1>7 DEF ClaimRow, ReleaseRow, SettleKnownRow
  <2>3. queue \in [Lanes -> [Timeline -> {"none", "pending", "processing"}]]
    BY <1>t DEF SweepTypeOK
  <2>4. \A r \in Lanes, t \in Timeline : queue[r][t] = "none" => queue'[r][t] = "none"
    BY <2>1, <2>2, <2>3
  <2>. QED BY <1>k, <1>m, <1>s, <2>1, <2>4
<1>8. ASSUME NEW q \in Lanes, NEW u \in Timeline, DeliverRow(q, u)
      PROVE  ModeInv'
  <2>1. /\ queue[q][u] = "processing" /\ outcome[q][u] = "none"
        /\ publications' = [publications EXCEPT ![q][u] = IF @ < 2 THEN @ + 1 ELSE @]
        /\ outcome' = [outcome EXCEPT ![q][u] = "migrated"]
        /\ queue' = [queue EXCEPT ![q][u] = "none"]
        /\ UNCHANGED digest
    BY <1>8 DEF DeliverRow, IsKnown, Published
  <2>2. /\ queue \in [Lanes -> [Timeline -> {"none", "pending", "processing"}]]
        /\ outcome \in [Lanes -> [Timeline -> {"none", "skipped", "migrated"}]]
        /\ publications \in [Lanes -> [Timeline -> 0 .. 2]]
    BY <1>t DEF SweepTypeOK
  <2>3. ~IsDigest(q) /\ publications[q][u] = 0
    BY <2>1, <2>2, <1>m
  <2>4. queue'[q][u] = "none" /\ outcome'[q][u] = "migrated" /\ publications'[q][u] = 1
    BY <2>1, <2>2, <2>3
  <2>5. \A r \in Lanes, t \in Timeline : r # q \/ t # u =>
          queue'[r][t] = queue[r][t] /\ outcome'[r][t] = outcome[r][t] /\ publications'[r][t] = publications[r][t]
    BY <2>1, <2>2
  <2>6. \A r \in Lanes, t \in Timeline :
          /\ publications'[r][t] <= 1
          /\ IsDigest(r) => queue'[r][t] = "none" /\ (publications'[r][t] # 0 => digest'[r][t] = "delivered")
          /\ ~IsDigest(r) => digest'[r][t] = "none" /\ (publications'[r][t] # 0 => outcome'[r][t] # "none")
    <3>1. TAKE r \in Lanes, t \in Timeline
    <3>2. CASE r = q /\ t = u
      BY <3>2, <2>1, <2>3, <2>4, <1>m
    <3>3. CASE r # q \/ t # u
      BY <3>3, <2>1, <2>5, <1>m
    <3>. QED BY <3>2, <3>3
  <2>. QED BY <1>k, <1>s, <2>6
<1>. QED BY <1>1, <1>2, <1>3, <1>4, <1>5, <1>6, <1>7, <1>8 DEF SweepNext
--------------------------------------------------------------------------------
LEMMA SweepInvInit == SweepInit => SweepInv
<1> SUFFICES ASSUME SweepInit PROVE SweepInv
  OBVIOUS
<1>1. SweepTypeOK
  BY NoTaskTyped, SweepAssumption DEF SweepInit, SweepTypeOK, ForAllPosts
<1>2. BaselineInv
  BY SweepAssumption DEF SweepInit, BaselineInv, IsUntouched, ForAllPosts
<1>3. AheadInv
  BY DEF SweepInit, AheadInv, NoSweep, NoBackfill
<1>4. ModeInv
  BY DEF SweepInit, ModeInv, NoSweep, ForAllPosts
<1>. QED BY <1>1, <1>2, <1>3, <1>4 DEF SweepInv

LEMMA SweepInvStep == SweepInv /\ [SweepNext]_sweepVars => SweepInv'
<1> SUFFICES ASSUME SweepInv, [SweepNext]_sweepVars PROVE SweepInv'
  OBVIOUS
<1>1. CASE SweepNext
  <2>1. SweepTypeOK'
    <3>1. RowTypesOK' /\ LaneTypesOK' /\ TaskTypesOK'
      BY <1>1, RowTypesStep, LaneTypesStep, TaskTypesStep
    <3>. QED BY <3>1 DEF RowTypesOK, LaneTypesOK, TaskTypesOK, SweepTypeOK
  <2>2. ModeInv'
    <3>1. CASE switches' = 0
      BY <1>1, <3>1, ModeStep
    <3>2. CASE switches' # 0
      BY <3>2, Zenon DEF ModeInv
    <3>. QED BY <3>1, <3>2
  <2>. QED BY <1>1, <2>1, <2>2, BaselineStep, AheadStep DEF SweepInv
<1>2. CASE UNCHANGED sweepVars
  BY <1>2
  DEF sweepVars, laneRows, past, SweepInv, SweepTypeOK, BaselineInv, AheadInv, ModeInv, IsUntouched, IsDigest
<1>. QED BY <1>1, <1>2

\* Type correctness of the sweep, its rows and the backfill.
THEOREM SweepTyping == SweepSpec => []SweepTypeOK
<1>1. SweepInv => SweepTypeOK
  BY DEF SweepInv
<1>. QED BY <1>1, SweepInvInit, SweepInvStep, PTL DEF SweepSpec

\* Route initial import: whatever was on the first page of a route that starts with new
\* posts is never queued or published there, however sweeps, backfills of other routes,
\* workers, changes of delivery and crashes follow one another.
THEOREM OldPostsStay == SweepSpec => []OldPostsStayOut
<1>1. SweepInv => OldPostsStayOut
  BY DEF SweepInv, BaselineInv, OldPostsStayOut, IsOnItsWay, IsUntouched
<1>. QED BY <1>1, SweepInvInit, SweepInvStep, PTL DEF SweepSpec

\* Sweeps, backfills and workers: as long as no route changes its delivery mode, a post
\* is published at most once at a destination.
THEOREM SweptPostsArriveOnce == SweepSpec => []PostsArriveOnce
<1>1. SweepInv => PostsArriveOnce
  BY DEF SweepInv, ModeInv, PostsArriveOnce
<1>. QED BY <1>1, SweepInvInit, SweepInvStep, PTL DEF SweepSpec
--------------------------------------------------------------------------------
(***************************************************************************)
(* The budget of polling.                                                  *)
(***************************************************************************)
\* The sources a sweep would take before s, were they due.
Ahead(s) == {t \in XSources : IsBefore(t, s)}

\* A sweep that leaves a source out has used up the budget on sources ahead of it.
PlanFits ==
  \A s \in plan.left : /\ due[s] <= time
                       /\ plan.fetched \subseteq Ahead(s)
                       /\ Budget <= Cardinality(plan.fetched)

\* Each sweep that leaves out s takes a budget of sources from ahead of it.
TurnsFit == \A s \in XSources : Budget * waiting[s] + Cardinality(Ahead(s)) <= NumSources - 1

PollingInv == PollingTypeOK /\ PlanFits /\ TurnsFit

LEMMA PollingNumbers ==
  /\ NumSources \in Nat /\ Budget \in Nat /\ Budget > 0 /\ MinInterval \in Nat /\ MinInterval > 0
  /\ MaxInterval \in Nat /\ MinInterval <= MaxInterval /\ Spread \in Nat
  /\ MaxDoublings \in Nat /\ MaxClock \in Nat /\ MaxChanges \in Nat
BY PollingAssumption

LEMMA OrderOfSources ==
  ASSUME PollingTypeOK, NEW r \in XSources, NEW s \in XSources, NEW t \in XSources
  PROVE  /\ ~IsBefore(s, s)
         /\ s = t \/ IsBefore(s, t) \/ IsBefore(t, s)
         /\ IsBefore(r, s) /\ IsBefore(s, t) => IsBefore(r, t)
<1>1. \A x \in {r, s, t} : due[x] \in Int /\ checked[x] \in Int /\ x \in Int
  BY SMTT(20), PollingNumbers DEF PollingTypeOK, XSources
<1>. QED BY <1>1 DEF IsBefore

LEMMA FirstOfSources ==
  ASSUME PollingTypeOK, NEW T \in SUBSET XSources, T # {}
  PROVE  \E m \in T : \A t \in T : ~IsBefore(t, m)
<1>1. \A x \in T : due[x] \in Nat /\ checked[x] \in Nat /\ x \in Nat
  BY PollingNumbers DEF PollingTypeOK, XSources
<1> DEFINE Dues == {due[x] : x \in T}
<1>2. PICK d \in Dues : \A e \in Dues : d <= e
  <2>1. Dues \in SUBSET Nat /\ Dues # {}
    BY <1>1
  <2>. HIDE DEF Dues
  <2>. QED BY <2>1, LeastIsThere
<1> DEFINE U == {x \in T : due[x] = d}
           Checks == {checked[x] : x \in U}
<1>3. U # {}
  BY <1>2
<1>4. PICK c \in Checks : \A e \in Checks : c <= e
  <2>1. Checks \in SUBSET Nat /\ Checks # {}
    BY <1>1, <1>3
  <2>. HIDE DEF Checks
  <2>. QED BY <2>1, LeastIsThere
<1> DEFINE V == {x \in U : checked[x] = c}
<1>5. PICK m \in V : \A x \in V : m <= x
  <2>1. V \in SUBSET Nat /\ V # {}
    BY <1>1, <1>4
  <2>. HIDE DEF V
  <2>. QED BY <2>1, LeastIsThere
<1>6. ASSUME NEW t \in T, IsBefore(t, m) PROVE FALSE
  <2>1. m \in T /\ due[m] = d /\ checked[m] = c
    BY <1>5
  <2>2. d <= due[t] /\ d \in Nat
    BY <1>1, <1>2
  <2>3. due[t] = d
    BY <1>1, <1>6, <2>1, <2>2 DEF IsBefore
  <2>4. c <= checked[t] /\ c \in Nat
    BY <1>1, <1>4, <2>3
  <2>5. checked[t] = c /\ t < m
    BY <1>1, <1>6, <2>1, <2>3, <2>4 DEF IsBefore
  <2>6. m <= t
    BY <1>5, <2>3, <2>5
  <2>. QED BY <1>1, <2>1, <2>5, <2>6
<1>. QED BY <1>5, <1>6

LEMMA SourcesAreFinite ==
  /\ IsFiniteSet(XSources) /\ Cardinality(XSources) = NumSources
  /\ \A S \in SUBSET XSources : IsFiniteSet(S) /\ Cardinality(S) \in Nat
<1>1. IsFiniteSet(XSources) /\ Cardinality(XSources) = NumSources
  BY FS_Interval, PollingNumbers DEF XSources
<1>. QED BY <1>1, FS_Subset, FS_CardinalityType

LEMMA OthersAreFewer ==
  ASSUME NEW S \in SUBSET XSources, NEW s \in XSources, s \notin S
  PROVE  Cardinality(S) \in Nat /\ Cardinality(S) <= NumSources - 1
<1>1. S \subseteq XSources \ {s}
  OBVIOUS
<1>2. Cardinality(XSources \ {s}) = NumSources - 1 /\ IsFiniteSet(XSources \ {s})
  BY SourcesAreFinite, FS_RemoveElement
<1>. QED BY <1>1, <1>2, SourcesAreFinite, FS_Subset

LEMMA AheadIsBounded ==
  ASSUME PollingTypeOK, NEW s \in XSources
  PROVE  Cardinality(Ahead(s)) \in Nat /\ Cardinality(Ahead(s)) <= NumSources - 1
<1>1. Ahead(s) \in SUBSET XSources /\ s \notin Ahead(s)
  BY OrderOfSources DEF Ahead
<1>. QED BY <1>1, OthersAreFewer

LEMMA ClampTyped == ASSUME NEW interval PROVE Clamp(interval) \in MinInterval .. MaxInterval
  BY PollingNumbers DEF Clamp

--------------------------------------------------------------------------------
LEMMA PollingStarts == PollingInit => PollingInv
<1> SUFFICES ASSUME PollingInit PROVE PollingInv
  OBVIOUS
<1>1. PollingTypeOK
  BY PollingNumbers DEF PollingInit, PollingTypeOK, NoPlan
<1>2. PlanFits
  BY DEF PollingInit, PlanFits, NoPlan
<1>3. ASSUME NEW s \in XSources PROVE Budget * waiting[s] + Cardinality(Ahead(s)) <= NumSources - 1
  <2>1. waiting[s] = 0 /\ Budget * 0 = 0
    BY PollingNumbers DEF PollingInit
  <2>. QED BY <2>1, <1>1, AheadIsBounded, PollingNumbers
<1>. QED BY <1>1, <1>2, <1>3 DEF PollingInv, TurnsFit

\* The order changes with the states of the sources only.
LEMMA OrderStays ==
  ASSUME UNCHANGED sourceStates
  PROVE  \A s \in XSources : Ahead(s)' = Ahead(s)
BY DEF sourceStates, Ahead, IsBefore, XSources

LEMMA TurnsStay ==
  ASSUME TurnsFit, UNCHANGED <<sourceStates, waiting>>
  PROVE  TurnsFit'
<1>1. \A s \in XSources : Ahead(s)' = Ahead(s)
  BY OrderStays
<1>. QED BY <1>1 DEF TurnsFit, XSources

LEMMA PlanStays ==
  ASSUME PollingInv, UNCHANGED <<sourceStates, plan>>, time' \in Nat, time' >= time
  PROVE  PlanFits'
<1>1. \A s \in XSources : Ahead(s)' = Ahead(s)
  BY OrderStays
<1>2. ASSUME NEW s \in plan.left PROVE s \in XSources /\ due[s] \in Nat /\ time \in Nat
  BY <1>2, PollingNumbers DEF PollingInv, PollingTypeOK
<1>. QED BY <1>1, <1>2 DEF PollingInv, PlanFits, sourceStates

\* The sources that a sweep does not choose wait behind a budget of others.
LEMMA ChoosingFits ==
  ASSUME PollingTypeOK, NEW s \in XSources, IsDue(s), s \notin Eligible
  PROVE  Eligible \subseteq Ahead(s) /\ Budget <= Cardinality(Eligible)
<1> DEFINE Before(x) == {t \in XSources : IsDue(t) /\ IsBefore(t, x)}
<1>1. \A x \in XSources : IsDue(x) => (x \in Eligible <=> Cardinality(Before(x)) < Budget)
  BY DEF Eligible
<1>2. \A x \in XSources : Before(x) \in SUBSET XSources /\ Cardinality(Before(x)) \in Nat
  BY SourcesAreFinite
<1>3. Eligible \in SUBSET XSources /\ \A t \in Eligible : IsDue(t)
  BY DEF Eligible
<1>4. ASSUME NEW t \in Eligible PROVE t \in Ahead(s)
  <2>1. t \in XSources /\ t # s /\ IsDue(t)
    BY <1>3, <1>4
  <2>2. CASE IsBefore(s, t)
    <3>1. Before(s) \subseteq Before(t)
      BY <2>1, <2>2, OrderOfSources
    <3>2. Cardinality(Before(s)) <= Cardinality(Before(t))
      BY <1>2, <2>1, <3>1, SourcesAreFinite, FS_Subset
    <3>3. Cardinality(Before(t)) < Budget /\ ~(Cardinality(Before(s)) < Budget)
      BY <1>1, <1>4, <2>1
    <3>. QED BY <1>2, <2>1, <3>2, <3>3, PollingNumbers
  <2>3. CASE IsBefore(t, s)
    BY <2>1, <2>3 DEF Ahead
  <2>. QED BY <2>1, <2>2, <2>3, OrderOfSources
<1>5. Budget <= Cardinality(Eligible)
  <2> DEFINE Left == {x \in XSources : IsDue(x)} \ Eligible
  <2>1. PICK m \in Left : \A t \in Left : ~IsBefore(t, m)
    BY FirstOfSources
  <2>2. Before(m) \subseteq Eligible
    BY <2>1
  <2>3. Cardinality(Before(m)) <= Cardinality(Eligible) /\ Cardinality(Eligible) \in Nat
    BY <1>3, <2>2, SourcesAreFinite, FS_Subset
  <2>4. ~(Cardinality(Before(m)) < Budget)
    BY <1>1, <2>1
  <2>. QED BY <1>2, <2>1, <2>3, <2>4, PollingNumbers
<1>. QED BY <1>4, <1>5

LEMMA PlanSweepKeeps == PollingInv /\ PlanSweep => PollingInv'
<1> SUFFICES ASSUME PollingInv, PlanSweep PROVE PollingInv'
  OBVIOUS
<1>1. /\ plan' = [chosen |-> Eligible, fetched |-> Eligible \ unrouted, left |-> {s \in XSources : IsDue(s)} \ Eligible]
      /\ UNCHANGED <<time, sourceStates, unrouted, waiting, changes>>
  BY DEF PlanSweep
<1>2. Eligible \in SUBSET XSources /\ Eligible \ unrouted = Eligible
  BY DEF Eligible, IsDue
<1>3. PollingTypeOK'
  BY <1>1, <1>2 DEF PollingInv, PollingTypeOK, sourceStates
<1>4. PlanFits'
  <2> SUFFICES ASSUME NEW s \in plan'.left
               PROVE  due'[s] <= time' /\ plan'.fetched \subseteq Ahead(s)' /\ Budget <= Cardinality(plan'.fetched)
    BY DEF PlanFits
  <2>1. s \in XSources /\ IsDue(s) /\ s \notin Eligible
    BY <1>1
  <2>2. Ahead(s)' = Ahead(s)
    BY <1>1, <2>1, OrderStays
  <2>3. Eligible \subseteq Ahead(s) /\ Budget <= Cardinality(Eligible)
    BY <2>1, ChoosingFits DEF PollingInv
  <2>. QED BY <1>1, <1>2, <2>1, <2>2, <2>3 DEF IsDue, sourceStates
<1>5. TurnsFit'
  BY <1>1, TurnsStay DEF PollingInv
<1>. QED BY <1>3, <1>4, <1>5 DEF PollingInv

\* Whatever a sweep has fetched is due later than it was.
LEMMA RecordResultsKeeps == PollingInv /\ RecordResults => PollingInv'
<1> SUFFICES ASSUME PollingInv, RecordResults PROVE PollingInv'
  OBVIOUS
<1> DEFINE fetched == plan.fetched
<1>1. /\ fetched \in SUBSET XSources /\ plan.left \in SUBSET XSources /\ time \in 0 .. MaxClock
      /\ due \in [XSources -> 0 .. MaxClock + MaxInterval] /\ checked \in [XSources -> 0 .. MaxClock]
      /\ failures \in [XSources -> 0 .. MaxDoublings] /\ quiet \in [XSources -> 0 .. MaxDoublings]
      /\ waiting \in [XSources -> Nat]
  BY DEF PollingInv, PollingTypeOK
<1>2. PICK failing \in SUBSET fetched, lively \in SUBSET fetched, spread \in -Spread .. Spread :
       /\ failing \cap lively = {}
       /\ failures' = [s \in XSources |-> IF s \in failing THEN Capped(failures[s] + 1)
                                         ELSE IF s \in fetched THEN 0 ELSE failures[s]]
       /\ quiet' = [s \in XSources |-> IF s \in lively THEN 0
                                      ELSE IF s \in fetched \ failing THEN Capped(quiet[s] + 1) ELSE quiet[s]]
       /\ due' = [s \in XSources |-> IF s \in fetched
                                    THEN time + Clamp(Interval(s, failures'[s], quiet'[s], s \in lively) + spread)
                                    ELSE due[s]]
  BY Zenon DEF RecordResults
<1>3. /\ plan' = NoPlan /\ UNCHANGED <<time, unrouted, changes>>
      /\ checked' = [s \in XSources |-> IF s \in fetched THEN time ELSE checked[s]]
      /\ waiting' = [s \in XSources |-> IF s \in plan.left THEN waiting[s] + 1 ELSE 0]
  BY DEF RecordResults
<1>4. \A n \in 0 .. MaxDoublings : Capped(n + 1) \in 0 .. MaxDoublings
  BY PollingNumbers DEF Capped
<1>5. \A s \in XSources : s \in fetched => due'[s] \in time + MinInterval .. time + MaxInterval
  <2> SUFFICES ASSUME NEW s \in XSources, s \in fetched PROVE due'[s] \in time + MinInterval .. time + MaxInterval
    OBVIOUS
  <2>1. PICK delay \in MinInterval .. MaxInterval : due'[s] = time + delay
    BY <1>2, ClampTyped
  <2>. QED BY <1>1, <2>1, PollingNumbers
<1>6. \A s \in XSources : s \notin fetched => due'[s] = due[s] /\ checked'[s] = checked[s]
  BY <1>2, <1>3
<1>7. PollingTypeOK'
  <2>1. due' \in [XSources -> 0 .. MaxClock + MaxInterval]
    <3>1. DOMAIN due' = XSources /\ due' = [s \in XSources |-> due'[s]]
      BY <1>2
    <3>2. ASSUME NEW s \in XSources PROVE due'[s] \in 0 .. MaxClock + MaxInterval
      BY <1>1, <1>5, <1>6, PollingNumbers
    <3>. QED BY <3>1, <3>2
  <2>2. checked' \in [XSources -> 0 .. MaxClock] /\ waiting' \in [XSources -> Nat]
    BY <1>1, <1>3
  <2>3. failures' \in [XSources -> 0 .. MaxDoublings] /\ quiet' \in [XSources -> 0 .. MaxDoublings]
    BY <1>1, <1>2, <1>4, PollingNumbers
  <2>. QED BY <1>3, <2>1, <2>2, <2>3 DEF PollingInv, PollingTypeOK, NoPlan
<1>8. PlanFits'
  BY <1>3 DEF PlanFits, NoPlan
<1>9. ASSUME NEW s \in XSources PROVE Budget * waiting'[s] + Cardinality(Ahead(s)') <= NumSources - 1
  <2>1. CASE s \notin plan.left
    <3>1. waiting'[s] = 0 /\ Budget * 0 = 0
      BY <1>3, <2>1, PollingNumbers
    <3>2. Cardinality(Ahead(s)') \in Nat /\ Cardinality(Ahead(s)') <= NumSources - 1
      <4>1. due'[s] \in Int /\ checked'[s] \in Int /\ s \in Int
        BY <1>7, PollingNumbers DEF PollingTypeOK, XSources
      <4>2. Ahead(s)' \in SUBSET XSources /\ s \notin Ahead(s)'
        BY <4>1 DEF Ahead, IsBefore
      <4>. QED BY <4>2, OthersAreFewer
    <3>. QED BY <3>1, <3>2, PollingNumbers
  <2>2. CASE s \in plan.left
    <3>1. due[s] <= time /\ fetched \subseteq Ahead(s) /\ Budget <= Cardinality(fetched)
      BY <2>2 DEF PollingInv, PlanFits
    <3>2. Ahead(s) \in SUBSET XSources /\ s \notin fetched
      BY <3>1, OrderOfSources DEF Ahead, PollingInv
    <3>3. due'[s] = due[s] /\ checked'[s] = checked[s]
      BY <1>6, <3>2
    <3>4. Ahead(s)' \subseteq Ahead(s) \ fetched
      <4> SUFFICES ASSUME NEW t \in Ahead(s)' PROVE t \in Ahead(s) \ fetched
        OBVIOUS
      <4>1. t \in XSources /\ IsBefore(t, s)'
        BY DEF Ahead
      <4>2. t \notin fetched
        <5>1. SUFFICES ASSUME t \in fetched PROVE FALSE
          OBVIOUS
        <5>2. due'[t] \in time + MinInterval .. time + MaxInterval
          BY <1>5, <4>1, <5>1
        <5>3. time \in Nat /\ due[s] \in Nat
          BY <1>1, PollingNumbers
        <5>. QED BY <3>1, <3>3, <4>1, <5>2, <5>3, PollingNumbers DEF IsBefore
      <4>3. due'[t] = due[t] /\ checked'[t] = checked[t]
        BY <1>6, <4>1, <4>2
      <4>. QED BY <3>3, <4>1, <4>2, <4>3 DEF IsBefore, Ahead
    <3>5. Cardinality(Ahead(s)') <= Cardinality(Ahead(s)) - Cardinality(fetched)
      <4>1. Cardinality(Ahead(s) \ fetched) = Cardinality(Ahead(s)) - Cardinality(fetched)
        <5>1. Ahead(s) \cap fetched = fetched /\ IsFiniteSet(Ahead(s))
          BY <3>1, <3>2, SourcesAreFinite
        <5>. QED BY ZenonT(30), <5>1, FS_Difference
      <4>2. Ahead(s) \ fetched \in SUBSET XSources
        BY <3>2
      <4>. QED BY <3>4, <4>1, <4>2, SourcesAreFinite, FS_Subset
    <3>6. PICK w \in Nat : waiting[s] = w /\ waiting'[s] = w + 1
      BY <1>1, <1>3, <2>2
    <3>7. Budget * (w + 1) = Budget * w + Budget /\ Budget * w \in Nat
      BY <3>6, PollingNumbers
    <3>8. PICK a \in Nat, b \in Nat, f \in Nat :
             a = Cardinality(Ahead(s)) /\ b = Cardinality(Ahead(s)') /\ f = Cardinality(fetched)
      <4>1. Ahead(s)' \in SUBSET XSources
        BY DEF Ahead
      <4>. QED BY <1>1, <3>2, <4>1, SourcesAreFinite
    <3>9. Budget * w + a <= NumSources - 1
      BY <3>6, <3>8 DEF PollingInv, TurnsFit
    <3>. QED BY <3>1, <3>5, <3>6, <3>7, <3>8, <3>9, PollingNumbers
  <2>. QED BY <2>1, <2>2
<1>. QED BY <1>7, <1>8, <1>9 DEF PollingInv, TurnsFit

LEMMA PollingGoesOn == PollingInv /\ [PollingNext]_pollingVars => PollingInv'
<1> SUFFICES ASSUME PollingInv, [PollingNext]_pollingVars PROVE PollingInv'
  OBVIOUS
<1>1. CASE ClockTicks
  <2>1. time' \in 0 .. MaxClock /\ time' \in Nat /\ time' >= time
    BY <1>1, PollingNumbers DEF ClockTicks, PollingInv, PollingTypeOK
  <2>2. PollingTypeOK'
    BY <1>1, <2>1 DEF ClockTicks, PollingInv, PollingTypeOK, sourceStates
  <2>3. PlanFits' /\ TurnsFit'
    BY <1>1, <2>1, PlanStays, TurnsStay DEF ClockTicks, PollingInv
  <2>. QED BY <2>2, <2>3 DEF PollingInv
<1>2. CASE PlanSweep
  BY <1>2, PlanSweepKeeps
<1>3. CASE RecordResults
  BY <1>3, RecordResultsKeeps
<1>4. CASE SweepThrows
  <2>1. PollingTypeOK'
    BY <1>4 DEF SweepThrows, PollingInv, PollingTypeOK, sourceStates, NoPlan
  <2>2. PlanFits'
    BY <1>4 DEF SweepThrows, PlanFits, NoPlan
  <2>3. TurnsFit'
    BY <1>4, TurnsStay DEF SweepThrows, PollingInv
  <2>. QED BY <2>1, <2>2, <2>3 DEF PollingInv
<1>5. ASSUME NEW s \in XSources, SwitchRoutes(s) PROVE PollingInv'
  <2>1. PollingTypeOK'
    BY <1>5, PollingNumbers DEF SwitchRoutes, PollingInv, PollingTypeOK, sourceStates
  <2>2. time' \in Nat /\ time' >= time
    BY <1>5, PollingNumbers DEF SwitchRoutes, PollingInv, PollingTypeOK
  <2>3. PlanFits' /\ TurnsFit'
    BY <1>5, <2>2, PlanStays, TurnsStay DEF SwitchRoutes, PollingInv
  <2>. QED BY <2>1, <2>3 DEF PollingInv
<1>6. CASE UNCHANGED pollingVars
  <2>1. PollingTypeOK'
    BY <1>6 DEF pollingVars, PollingInv, PollingTypeOK, sourceStates
  <2>2. time' \in Nat /\ time' >= time
    BY <1>6, PollingNumbers DEF pollingVars, PollingInv, PollingTypeOK
  <2>3. PlanFits' /\ TurnsFit'
    BY <1>6, <2>2, PlanStays, TurnsStay DEF pollingVars, PollingInv
  <2>. QED BY <2>1, <2>3 DEF PollingInv
<1>. QED BY <1>1, <1>2, <1>3, <1>4, <1>5, <1>6 DEF PollingNext

\* The clock, the states of the sources and the sweep always have their types.
THEOREM PollingTyping == PollingSpec => []PollingTypeOK
<1>1. PollingInv => PollingTypeOK
  BY DEF PollingInv
<1>. QED BY <1>1, PollingStarts, PollingGoesOn, PTL DEF PollingSpec

\* plan() and recordResult(), for any number of sources, budget and schedule, whatever
\* fails or is switched: a source that is due is left out by at most as many sweeps in
\* a row as it takes to check all others once.
THEOREM BudgetStarvesNobody == PollingSpec => []DueSourcesGetTheirTurn
<1>1. ASSUME PollingInv, NEW s \in XSources PROVE Budget * waiting[s] <= NumSources - 1
  <2>1. PICK w \in Nat, a \in Nat : waiting[s] = w /\ Cardinality(Ahead(s)) = a
    BY <1>1, AheadIsBounded DEF PollingInv, PollingTypeOK
  <2>2. Budget * w + a <= NumSources - 1 /\ Budget * w \in Int
    BY <1>1, <2>1, PollingNumbers DEF PollingInv, TurnsFit
  <2>. QED BY <2>1, <2>2, PollingNumbers
<1>2. PollingInv => DueSourcesGetTheirTurn
  BY <1>1 DEF DueSourcesGetTheirTurn
<1>. QED BY <1>2, PollingStarts, PollingGoesOn, PTL DEF PollingSpec
--------------------------------------------------------------------------------
(***************************************************************************)
(* Rendering.  What the record cannot carry is in the text as a link, from *)
(* the step on that decides about it.                                      *)
(***************************************************************************)
\* There is room for what is still to be tried, and for a screenshot.
MediaFit ==
  /\ images + untried.photos <= ImageSlots
  /\ step \in {"links", "cards"} => images = 0
  /\ step \notin {"links", "cards", "media", "abandoned"} => untried.photos = 0
  /\ step = "screenshot" => images < ImageSlots /\ ~video
  /\ step # "done" => text.body <= MaxBody

\* A video is embedded, linked to, or has not been tried.
VideosFit ==
  tweet.videos > 0 /\ ~reworded /\ step \notin {"links", "cards", "abandoned"} =>
    video \/ "video" \in text.links \/ (step = "media" /\ untried.videos > 0)

\* The record carries the quoted post.
IsCarried == \/ quoting = "embed"
             \/ ~video /\ quoting = "screenshot"
             \/ ~video /\ images = 0 /\ quoting # "embed" /\ card = "quote"

QuotesFit ==
  /\ step \in {"links", "cards", "media", "clean", "quote", "screenshot"} => quoting = "none" /\ card = "none"
  /\ step \in {"screenshot", "quote"} => tweet.quote # "none"
  /\ step = "screenshot" => tweet.quote # "mirrored"
  /\ step \in {"link", "fetch"} => tweet.quote = "none"
  /\ step = "append" /\ tweet.quote # "none" => IsCarried \/ IsUnquoted
  /\ step \in {"poll", "rewrite", "policy", "done"} /\ tweet.quote # "none" /\ ~reworded =>
       IsCarried \/ "quote" \in text.links

OriginsFit == step = "done" /\ tweet.repost => "status" \in text.links

RenderInv == RenderTypeOK /\ MediaFit /\ VideosFit /\ QuotesFit /\ OriginsFit

LEMMA RenderNumbers ==
  /\ MaxPhotos \in Nat /\ MaxVideos \in Nat /\ ImageSlots \in Nat /\ MaxBody \in Nat
  /\ MaxPhotos <= ImageSlots /\ MaxVideos <= ImageSlots
BY RenderingAssumption

\* What a tweet is made of.
LEMMA TweetParts ==
  ASSUME RenderTypeOK
  PROVE  /\ tweet.body \in 0 .. MaxBody /\ tweet.photos \in 0 .. MaxPhotos /\ tweet.videos \in 0 .. MaxVideos
         /\ tweet.quote \in {"none", "mirrored", "described", "bare"}
         /\ tweet.card \in {"none", "poll", "sponsored"} /\ tweet.repost \in BOOLEAN
         /\ text.body \in 0 .. MaxBody + 1 /\ text.links \subseteq Links
         /\ untried.photos \in 0 .. ImageSlots /\ untried.videos \in 0 .. MaxVideos
BY DEF RenderTypeOK, Posted, Texts

\* Links join a text and leave it, and its body stays.
LEMMA LinkedTexts ==
  ASSUME RenderTypeOK, NEW kinds \in SUBSET Links
  PROVE  /\ With(kinds) \in Texts /\ With(kinds).body = text.body /\ With(kinds).links = text.links \cup kinds
         /\ Without(kinds) \in Texts /\ Without(kinds).body = text.body /\ Without(kinds).links = text.links \ kinds
BY DEF RenderTypeOK, Texts, With, Without

LEMMA RenderBegins == RenderInit => RenderInv
<1> SUFFICES ASSUME RenderInit PROVE RenderInv
  OBVIOUS
<1>1. /\ tweet.body \in 0 .. MaxBody /\ tweet.links \subseteq {"link", "quote"}
      /\ tweet.photos \in 0 .. MaxPhotos /\ tweet.videos \in 0 .. MaxVideos
  BY DEF RenderInit, Posted
<1>2. text \in Texts /\ text.body = tweet.body
  <2>1. (IF HasMedia(tweet) THEN {"media"} ELSE {}) \subseteq Links
    BY DEF Links
  <2>2. tweet.body \in 0 .. MaxBody + 1 /\ tweet.links \subseteq Links
    BY <1>1, RenderNumbers DEF Links
  <2>. QED BY <2>1, <2>2 DEF RenderInit, Texts
<1>3. untried = [photos |-> 0, videos |-> 0] /\ untried.photos = 0
  BY DEF RenderInit
<1>4. RenderTypeOK
  <2>1. untried \in [photos : 0 .. ImageSlots, videos : 0 .. MaxVideos] /\ images \in 0 .. ImageSlots
    BY <1>3, RenderNumbers DEF RenderInit
  <2>2. step \in Stages
    BY DEF RenderInit, Stages
  <2>. QED BY <1>2, <2>1, <2>2 DEF RenderInit, RenderTypeOK
<1>5. MediaFit
  BY <1>1, <1>2, <1>3, RenderNumbers DEF RenderInit, MediaFit
<1>. QED BY <1>4, <1>5 DEF RenderInit, RenderInv, VideosFit, QuotesFit, OriginsFit

\* Media that are merged have room.
LEMMA MergedMedia ==
  ASSUME RenderTypeOK
  PROVE  LET m == Merged(tweet, 1) IN
         /\ m \in [photos : 0 .. ImageSlots, videos : 0 .. MaxVideos] /\ m.videos = tweet.videos
<1> DEFINE room == ImageSlots - tweet.videos
           photos == IF tweet.photos + 1 > room THEN room ELSE tweet.photos + 1
<1>1. photos \in 0 .. ImageSlots
  BY TweetParts, RenderNumbers
<1>2. Merged(tweet, 1) = [videos |-> tweet.videos, photos |-> photos]
  BY DEF Merged
<1> HIDE DEF photos
<1>. QED BY <1>1, <1>2, TweetParts

LEMMA GiveUpKeeps == RenderInv /\ GiveUp => RenderInv'
<1> SUFFICES ASSUME RenderInv, GiveUp PROVE RenderInv'
  OBVIOUS
<1>1. step' = "abandoned" /\ UNCHANGED <<tweet, text, seen, untried, images, video, quoting, card, reworded>> /\ step # "done"
  BY DEF GiveUp, Goes
<1>2. RenderTypeOK'
  BY <1>1 DEF RenderInv, RenderTypeOK, Stages
<1>. QED BY <1>1, <1>2 DEF RenderInv, MediaFit, VideosFit, QuotesFit, OriginsFit

LEMMA ExpandingKeeps == RenderInv /\ (ExpandLinks \/ RecoverCard) => RenderInv'
<1> SUFFICES ASSUME RenderInv, ExpandLinks \/ RecoverCard PROVE RenderInv'
  OBVIOUS
<1>. USE TweetParts, RenderNumbers
<1>0. RenderTypeOK /\ MediaFit /\ VideosFit /\ QuotesFit /\ OriginsFit
  BY DEF RenderInv
<1>1. CASE ExpandLinks
  <2>1. step = "links" /\ step' = "cards"
        /\ UNCHANGED <<tweet, text, seen, untried, images, video, quoting, card, reworded>>
    BY <1>1 DEF ExpandLinks, Goes
  <2>2. RenderTypeOK'
    BY <1>0, <2>1 DEF RenderTypeOK, Stages
  <2>. QED BY <1>0, <2>1, <2>2 DEF RenderInv, MediaFit, VideosFit, QuotesFit, OriginsFit
<1>2. CASE RecoverCard
  <2>1. /\ step = "cards" /\ step' = "media" /\ seen' \in {"none", tweet.card}
        /\ untried' \in {[photos |-> tweet.photos, videos |-> tweet.videos], Merged(tweet, 1)}
        /\ UNCHANGED <<tweet, text, images, video, quoting, card, reworded>>
    BY <1>2 DEF RecoverCard, Goes
  <2>2. untried' \in [photos : 0 .. ImageSlots, videos : 0 .. MaxVideos] /\ untried'.videos = tweet.videos
    BY <1>0, <2>1, MergedMedia
  <2>3. RenderTypeOK'
    BY <1>0, <2>1, <2>2 DEF RenderTypeOK, Stages
  <2>4. MediaFit'
    BY <1>0, <2>1, <2>2 DEF MediaFit
  <2>. QED BY <1>0, <2>1, <2>2, <2>3, <2>4 DEF RenderInv, VideosFit, QuotesFit, OriginsFit
<1>. QED BY <1>1, <1>2

LEMMA MediaKeep == RenderInv /\ (EmbedVideo \/ LinkVideo \/ TryPhoto \/ EndMedia) => RenderInv'
<1> SUFFICES ASSUME RenderInv, EmbedVideo \/ LinkVideo \/ TryPhoto \/ EndMedia PROVE RenderInv'
  OBVIOUS
<1>. USE TweetParts, RenderNumbers
<1>0. RenderTypeOK /\ MediaFit /\ VideosFit /\ QuotesFit /\ OriginsFit
  BY DEF RenderInv
<1>1. CASE EmbedVideo
  <2>1. /\ step = "media" /\ step' = "clean" /\ video' = TRUE /\ untried' = [photos |-> 0, videos |-> 0]
        /\ UNCHANGED <<tweet, text, seen, images, quoting, card, reworded>>
    BY <1>1 DEF EmbedVideo, Goes
  <2>2. untried' \in [photos : 0 .. ImageSlots, videos : 0 .. MaxVideos] /\ untried'.photos = 0 /\ images \in 0 .. ImageSlots
    BY <1>0, <2>1 DEF RenderTypeOK
  <2>3. RenderTypeOK'
    BY <1>0, <2>1, <2>2 DEF RenderTypeOK, Stages
  <2>4. MediaFit'
    BY <1>0, <2>1, <2>2 DEF MediaFit
  <2>. QED BY <1>0, <2>1, <2>3, <2>4 DEF RenderInv, VideosFit, QuotesFit, OriginsFit
<1>2. CASE LinkVideo
  <2>1. /\ step = "media" /\ step' = "media" /\ untried.videos > 0
        /\ untried' = [untried EXCEPT !.videos = @ - 1] /\ text' = With({"video"})
        /\ UNCHANGED <<tweet, seen, images, video, quoting, card, reworded>>
    BY <1>2 DEF LinkVideo, Goes
  <2>2. untried' \in [photos : 0 .. ImageSlots, videos : 0 .. MaxVideos] /\ untried'.photos = untried.photos
    BY <1>0, <2>1 DEF RenderTypeOK
  <2>3. text' \in Texts /\ text'.body = text.body /\ "video" \in text'.links
    <3>1. {"video"} \subseteq Links
      BY DEF Links
    <3>. QED BY <1>0, <2>1, <3>1, LinkedTexts
  <2>4. RenderTypeOK'
    BY <1>0, <2>1, <2>2, <2>3 DEF RenderTypeOK
  <2>5. MediaFit'
    BY <1>0, <2>1, <2>2, <2>3 DEF MediaFit
  <2>. QED BY <1>0, <2>1, <2>3, <2>4, <2>5 DEF RenderInv, VideosFit, QuotesFit, OriginsFit
<1>3. CASE TryPhoto
  <2>1. /\ step = "media" /\ step' = "media" /\ untried.photos > 0
        /\ untried' = [untried EXCEPT !.photos = @ - 1] /\ images' \in {images, images + 1}
        /\ UNCHANGED <<tweet, text, seen, video, quoting, card, reworded>>
    BY <1>3 DEF TryPhoto, Goes
  <2>2. untried' \in [photos : 0 .. ImageSlots, videos : 0 .. MaxVideos] /\ untried'.photos = untried.photos - 1
        /\ untried'.videos = untried.videos /\ images \in 0 .. ImageSlots
    BY <1>0, <2>1 DEF RenderTypeOK
  <2>3. images' \in 0 .. ImageSlots /\ images' + untried'.photos <= ImageSlots
    BY <1>0, <2>1, <2>2 DEF MediaFit
  <2>4. RenderTypeOK'
    BY <1>0, <2>1, <2>2, <2>3 DEF RenderTypeOK
  <2>5. MediaFit'
    BY <1>0, <2>1, <2>2, <2>3 DEF MediaFit
  <2>. QED BY <1>0, <2>1, <2>2, <2>4, <2>5 DEF RenderInv, VideosFit, QuotesFit, OriginsFit
<1>4. CASE EndMedia
  <2>1. /\ step = "media" /\ step' = "clean" /\ untried = [photos |-> 0, videos |-> 0]
        /\ UNCHANGED <<tweet, text, seen, untried, images, video, quoting, card, reworded>>
    BY <1>4 DEF EndMedia, Goes
  <2>2. untried.videos = 0 /\ untried.photos = 0
    BY <2>1
  <2>3. RenderTypeOK'
    BY <1>0, <2>1 DEF RenderTypeOK, Stages
  <2>. QED BY <1>0, <2>1, <2>2, <2>3 DEF RenderInv, MediaFit, VideosFit, QuotesFit, OriginsFit
<1>. QED BY <1>1, <1>2, <1>3, <1>4

LEMMA CleaningKeeps == RenderInv /\ CleanText => RenderInv'
<1> SUFFICES ASSUME RenderInv, CleanText PROVE RenderInv'
  OBVIOUS
<1>0. RenderTypeOK /\ MediaFit /\ VideosFit /\ QuotesFit /\ OriginsFit
  BY DEF RenderInv
<1>1. /\ step = "clean" /\ step' \in {"quote", "link", "append"} /\ text' = Without({"media"})
      /\ step' = "quote" <=> tweet.quote # "none"
      /\ UNCHANGED <<tweet, seen, untried, images, video, quoting, card, reworded>>
  BY DEF CleanText, Goes
<1>2. text' \in Texts /\ text'.body = text.body /\ text'.links = text.links \ {"media"}
  <2>1. {"media"} \subseteq Links
    BY DEF Links
  <2>. QED BY <1>0, <1>1, <2>1, LinkedTexts
<1>3. RenderTypeOK'
  BY <1>0, <1>1, <1>2 DEF RenderTypeOK, Stages
<1>4. MediaFit'
  BY <1>0, <1>1, <1>2 DEF MediaFit
<1>. QED BY <1>0, <1>1, <1>2, <1>3, <1>4 DEF RenderInv, VideosFit, QuotesFit, OriginsFit

LEMMA QuotingKeeps ==
  RenderInv /\ (EmbedQuote \/ QuoteByCard \/ QuoteWithoutCard \/ TakeScreenshot) => RenderInv'
<1> SUFFICES ASSUME RenderInv, EmbedQuote \/ QuoteByCard \/ QuoteWithoutCard \/ TakeScreenshot PROVE RenderInv'
  OBVIOUS
<1>. USE TweetParts, RenderNumbers
<1>0. RenderTypeOK /\ MediaFit /\ VideosFit /\ QuotesFit /\ OriginsFit
  BY DEF RenderInv
<1>1. CASE EmbedQuote
  <2>1. /\ step = "quote" /\ step' = "append" /\ quoting' = "embed"
        /\ UNCHANGED <<tweet, text, seen, untried, images, video, card, reworded>>
    BY <1>1 DEF EmbedQuote, Goes
  <2>2. RenderTypeOK'
    BY <1>0, <2>1 DEF RenderTypeOK, Stages
  <2>. QED BY <1>0, <2>1, <2>2 DEF RenderInv, MediaFit, VideosFit, QuotesFit, IsCarried, OriginsFit
<1>2. CASE QuoteByCard
  <2>1. /\ step = "quote" /\ step' = "append" /\ card' = "quote" /\ text' = Without({"quote"})
        /\ images = 0 /\ ~video
        /\ UNCHANGED <<tweet, seen, untried, images, video, quoting, reworded>>
    BY <1>2 DEF QuoteByCard, CanUseCard, Goes
  <2>2. text' \in Texts /\ text'.body = text.body /\ text'.links = text.links \ {"quote"}
    <3>1. {"quote"} \subseteq Links
      BY DEF Links
    <3>. QED BY <1>0, <2>1, <3>1, LinkedTexts
  <2>3. RenderTypeOK'
    BY <1>0, <2>1, <2>2 DEF RenderTypeOK, Stages
  <2>4. MediaFit'
    BY <1>0, <2>1, <2>2 DEF MediaFit
  <2>. QED BY <1>0, <2>1, <2>2, <2>3, <2>4 DEF RenderInv, VideosFit, QuotesFit, IsCarried, OriginsFit
<1>3. CASE QuoteWithoutCard
  <2>1. /\ step = "quote" /\ tweet.quote \in {"described", "bare"}
        /\ \/ step' = "screenshot" /\ images < ImageSlots /\ ~video
           \/ step' = "append"
        /\ UNCHANGED <<tweet, text, seen, untried, images, video, quoting, card, reworded>>
    BY <1>3 DEF QuoteWithoutCard, CanUseScreenshot, Goes
  <2>2. RenderTypeOK'
    BY <1>0, <2>1 DEF RenderTypeOK, Stages
  <2>3. IsUnquoted'
    BY <1>0, <2>1 DEF QuotesFit, IsUnquoted
  <2>4. QuotesFit'
    BY <1>0, <2>1, <2>3 DEF QuotesFit
  <2>. QED BY <1>0, <2>1, <2>2, <2>4 DEF RenderInv, MediaFit, VideosFit, OriginsFit
<1>4. CASE TakeScreenshot
  <2>1. /\ step = "screenshot" /\ step' = "append"
        /\ \/ images' = images + 1 /\ quoting' = "screenshot"
           \/ UNCHANGED <<images, quoting>>
        /\ UNCHANGED <<tweet, text, seen, untried, video, card, reworded>>
    BY <1>4 DEF TakeScreenshot, Goes
  <2>2. images \in 0 .. ImageSlots /\ images' \in 0 .. ImageSlots
    BY <1>0, <2>1 DEF RenderTypeOK, MediaFit
  <2>3. RenderTypeOK'
    BY <1>0, <2>1, <2>2 DEF RenderTypeOK, Stages
  <2>4. MediaFit'
    BY <1>0, <2>1, <2>2 DEF MediaFit
  <2>5. tweet.quote \in {"described", "bare"} /\ ~video /\ card = "none" /\ quoting = "none"
    BY <1>0, <2>1 DEF MediaFit, QuotesFit
  <2>6. IsCarried' \/ IsUnquoted'
    BY <2>1, <2>5 DEF IsCarried, IsUnquoted
  <2>7. QuotesFit'
    BY <1>0, <2>1, <2>5, <2>6 DEF QuotesFit
  <2>. QED BY <1>0, <2>1, <2>3, <2>4, <2>7 DEF RenderInv, VideosFit, OriginsFit
<1>. QED BY <1>1, <1>2, <1>3, <1>4

LEMMA LinkingKeeps == RenderInv /\ (DropLink \/ FetchCard \/ AppendLinks \/ AppendPoll) => RenderInv'
<1> SUFFICES ASSUME RenderInv, DropLink \/ FetchCard \/ AppendLinks \/ AppendPoll PROVE RenderInv'
  OBVIOUS
<1>. USE TweetParts, RenderNumbers
<1>0. RenderTypeOK /\ MediaFit /\ VideosFit /\ QuotesFit /\ OriginsFit
  BY DEF RenderInv
<1>1. CASE DropLink
  <2>1. /\ step = "link" /\ step' \in {"fetch", "append"}
        /\ text' = Without({LinkToEmbed}) \/ UNCHANGED text
        /\ UNCHANGED <<tweet, seen, untried, images, video, quoting, card, reworded>>
    BY <1>1 DEF DropLink, Goes
  <2>2. text' \in Texts /\ text'.body = text.body /\ ("video" \in text.links => "video" \in text'.links)
    <3>1. LinkToEmbed \in {"card", "link"}
      BY DEF LinkToEmbed
    <3>2. {LinkToEmbed} \subseteq Links
      BY <3>1 DEF Links
    <3> DEFINE kinds == {LinkToEmbed}
    <3>3. "video" \notin kinds /\ kinds \in SUBSET Links
      BY <3>1, <3>2
    <3>4. text' = Without(kinds) \/ UNCHANGED text
      BY <2>1
    <3> HIDE DEF kinds
    <3>. QED BY <1>0, <3>3, <3>4, LinkedTexts DEF RenderTypeOK
  <2>3. RenderTypeOK'
    BY <1>0, <2>1, <2>2 DEF RenderTypeOK, Stages
  <2>4. MediaFit'
    BY <1>0, <2>1, <2>2 DEF MediaFit
  <2>. QED BY <1>0, <2>1, <2>2, <2>3, <2>4 DEF RenderInv, VideosFit, QuotesFit, OriginsFit
<1>2. CASE FetchCard
  <2>1. /\ step = "fetch" /\ step' = "append" /\ card' \in {card, "link"}
        /\ UNCHANGED <<tweet, text, seen, untried, images, video, quoting, reworded>>
    BY <1>2 DEF FetchCard, Goes
  <2>2. RenderTypeOK'
    BY <1>0, <2>1 DEF RenderTypeOK, Stages
  <2>. QED BY <1>0, <2>1, <2>2 DEF RenderInv, MediaFit, VideosFit, QuotesFit, OriginsFit
<1>3. CASE AppendLinks
  <2>1. PICK kinds \in SUBSET Links :
          /\ step = "append" /\ step' = "poll" /\ text' = With(kinds) /\ (IsUnquoted => "quote" \in kinds)
          /\ UNCHANGED <<tweet, seen, untried, images, video, quoting, card, reworded>>
    <3>1. PICK hasImages \in BOOLEAN :
            text' = With((IF IsUnquoted THEN {"quote"} ELSE {}) \cup IF seen = "sponsored" /\ hasImages THEN {"card"} ELSE {})
      BY <1>3 DEF AppendLinks
    <3> DEFINE kinds == (IF IsUnquoted THEN {"quote"} ELSE {}) \cup IF seen = "sponsored" /\ hasImages THEN {"card"} ELSE {}
    <3>2. kinds \in SUBSET Links /\ (IsUnquoted => "quote" \in kinds) /\ text' = With(kinds)
      BY <3>1 DEF Links
    <3> HIDE DEF kinds
    <3>. QED BY <1>3, <3>2 DEF AppendLinks, Goes
  <2>2. text' \in Texts /\ text'.body = text.body /\ text'.links = text.links \cup kinds
    BY <1>0, <2>1, LinkedTexts
  <2>3. RenderTypeOK'
    BY <1>0, <2>1, <2>2 DEF RenderTypeOK, Stages
  <2>4. MediaFit'
    BY <1>0, <2>1, <2>2 DEF MediaFit
  <2>. QED BY <1>0, <2>1, <2>2, <2>3, <2>4 DEF RenderInv, VideosFit, QuotesFit, IsCarried, OriginsFit
<1>4. CASE AppendPoll
  <2>1. /\ step = "poll" /\ step' = "rewrite"
        /\ text' = With({"status"}) \/ UNCHANGED text
        /\ card' = card \/ (card = "none" /\ card' = "poll")
        /\ UNCHANGED <<tweet, seen, untried, images, video, quoting, reworded>>
    BY <1>4 DEF AppendPoll, Goes
  <2>2. text' \in Texts /\ text'.body = text.body /\ text.links \subseteq text'.links
    <3>1. {"status"} \subseteq Links
      BY DEF Links
    <3>2. CASE text' = With({"status"})
      BY <1>0, <3>1, <3>2, LinkedTexts
    <3>3. CASE UNCHANGED text
      BY <1>0, <3>3 DEF RenderTypeOK
    <3>. QED BY <2>1, <3>2, <3>3
  <2>3. RenderTypeOK'
    BY <1>0, <2>1, <2>2 DEF RenderTypeOK, Stages
  <2>4. MediaFit'
    BY <1>0, <2>1, <2>2 DEF MediaFit
  <2>. QED BY <1>0, <2>1, <2>2, <2>3, <2>4 DEF RenderInv, VideosFit, QuotesFit, IsCarried, OriginsFit
<1>. QED BY <1>1, <1>2, <1>3, <1>4

LEMMA FinishingKeeps == RenderInv /\ (Rewrite \/ ApplyPolicy) => RenderInv'
<1> SUFFICES ASSUME RenderInv, Rewrite \/ ApplyPolicy PROVE RenderInv'
  OBVIOUS
<1>. USE TweetParts, RenderNumbers
<1>0. RenderTypeOK /\ MediaFit /\ VideosFit /\ QuotesFit /\ OriginsFit
  BY DEF RenderInv
<1>1. CASE Rewrite
  <2>1. /\ step = "rewrite" /\ step' = "policy"
        /\ UNCHANGED <<tweet, seen, untried, images, video, quoting, card>>
    BY <1>1 DEF Rewrite, Goes
  <2>2. CASE UNCHANGED <<text, reworded>>
    <3>1. RenderTypeOK'
      BY <1>0, <2>1, <2>2 DEF RenderTypeOK, Stages
    <3>. QED BY <1>0, <2>1, <2>2, <3>1 DEF RenderInv, MediaFit, VideosFit, QuotesFit, IsCarried, OriginsFit
  <2>3. CASE ~UNCHANGED <<text, reworded>>
    <3>1. PICK kept \in SUBSET text.links, body \in 0 .. MaxBody :
            reworded' = TRUE /\ text' = [body |-> body, links |-> kept]
      BY <1>1, <2>3 DEF Rewrite
    <3>2. text' \in Texts /\ text'.body <= MaxBody
      BY <1>0, <3>1 DEF Texts
    <3>3. RenderTypeOK'
      BY <1>0, <2>1, <3>1, <3>2 DEF RenderTypeOK, Stages
    <3>. QED BY <1>0, <2>1, <3>1, <3>2, <3>3 DEF RenderInv, MediaFit, VideosFit, QuotesFit, OriginsFit
  <2>. QED BY <2>2, <2>3
<1>2. CASE ApplyPolicy
  <2>1. /\ step = "policy" /\ step' = "done"
        /\ UNCHANGED <<tweet, seen, untried, images, video, quoting, card, reworded>>
    BY <1>2 DEF ApplyPolicy, Goes
  <2>2. PICK attributes \in BOOLEAN, appends \in BOOLEAN :
          text' = [body |-> text.body + IF attributes THEN 1 ELSE 0,
                   links |-> text.links \cup IF appends \/ tweet.repost THEN {"status"} ELSE {}]
    BY <1>2 DEF ApplyPolicy
  <2> DEFINE body == text.body + IF attributes THEN 1 ELSE 0
             links == text.links \cup IF appends \/ tweet.repost THEN {"status"} ELSE {}
  <2>3. body \in 0 .. MaxBody + 1 /\ links \subseteq Links /\ text.links \subseteq links
        /\ (tweet.repost => "status" \in links)
    BY <1>0, <2>1 DEF MediaFit, Links
  <2> HIDE DEF body, links
  <2>4. text' \in Texts /\ text'.links = links
    BY <2>2, <2>3 DEF Texts, body, links
  <2>5. RenderTypeOK'
    BY <1>0, <2>1, <2>4 DEF RenderTypeOK, Stages
  <2>6. MediaFit'
    BY <1>0, <2>1 DEF MediaFit
  <2>. QED BY <1>0, <2>1, <2>3, <2>4, <2>5, <2>6 DEF RenderInv, VideosFit, QuotesFit, IsCarried, OriginsFit
<1>. QED BY <1>1, <1>2

LEMMA RenderKeeps == RenderInv /\ [RenderNext]_renderVars => RenderInv'
<1>1. RenderInv /\ UNCHANGED renderVars => RenderInv'
  BY DEF renderVars, RenderInv, RenderTypeOK, MediaFit, VideosFit, QuotesFit, OriginsFit, IsCarried, IsUnquoted
<1>. QED BY <1>1, GiveUpKeeps, ExpandingKeeps, MediaKeep, CleaningKeeps, QuotingKeeps, LinkingKeeps, FinishingKeeps
         DEF RenderNext

LEMMA Rendering == RenderSpec => []RenderInv
BY RenderBegins, RenderKeeps, PTL DEF RenderSpec

\* Whatever is fetched, uploaded or drawn, what is rendered is well typed: there is
\* never more media than a record holds.
THEOREM RenderTyping == RenderSpec => []RenderTypeOK
BY Rendering, PTL DEF RenderInv

\* What the record does not carry stays in the text as a link, whichever of the services
\* that processTweets asks do not answer.
THEOREM LinksStandIn == RenderSpec => []NothingIsCutOff
<1>1. RenderInv => NothingIsCutOff
  <2> SUFFICES ASSUME RenderInv, step = "done" PROVE NothingIsCutOff
    BY DEF NothingIsCutOff
  <2>1. IsCarried => QuoteIsShown
    <3>1. images \in Nat
      BY RenderNumbers DEF RenderInv, RenderTypeOK
    <3>. QED BY <3>1 DEF IsCarried, QuoteIsShown, Embed
  <2>2. tweet.videos \in Nat
    BY TweetParts, RenderNumbers DEF RenderInv
  <2>. QED BY <2>1, <2>2 DEF RenderInv, VideosFit, QuotesFit, OriginsFit, NothingIsCutOff, QuoteIsShown, VideoIsShown, OriginIsShown
<1>. QED BY <1>1, Rendering, PTL
--------------------------------------------------------------------------------
(***************************************************************************)
(* Splitting.  A round takes a piece from the front of what remains; both  *)
(* are trimmed, so what it leaves out is blank.                            *)
(***************************************************************************)
LEMMA SplittingNumbers == /\ ChunkLimit \in Nat /\ Numbering \in Nat /\ Frame \in Nat /\ MaxLength \in Nat
                          /\ Room \in Nat \ {0} /\ Room <= ChunkLimit
BY SplittingAssumption DEF Room

\* The least and the greatest of the numbers up to a bound.
LEMMA MinIsThere ==
  ASSUME NEW S \in SUBSET Nat, S # {}
  PROVE  Min(S) \in S /\ \A t \in S : Min(S) <= t
BY LeastIsThere DEF Min

LEMMA MaxIsThere ==
  ASSUME NEW n \in Nat, NEW S \in SUBSET (0 .. n), S # {}
  PROVE  Max(S) \in S /\ \A t \in S : t <= Max(S)
<1> DEFINE T == {m \in 0 .. n : n - m \in S}
<1>1. T \in SUBSET Nat /\ T # {}
  <2>1. PICK t \in S : TRUE
    OBVIOUS
  <2>2. n - t \in 0 .. n /\ n - (n - t) = t
    BY <2>1
  <2>. QED BY <2>1, <2>2
<1>2. PICK m \in T : \A k \in T : m <= k
  <2> HIDE DEF T
  <2>. QED BY <1>1, LeastIsThere
<1>3. ASSUME NEW t \in S PROVE t <= n - m
  <2>1. t \in 0 .. n /\ n - t \in 0 .. n /\ n - (n - t) = t
    OBVIOUS
  <2>2. n - t \in T
    BY <2>1
  <2>3. m <= n - t
    BY <1>2, <2>2
  <2>. QED BY <2>1, <2>3, <1>2
<1>4. n - m \in S /\ n - m \in Int /\ \A t \in S : n - m >= t /\ t \in Int
  BY <1>2, <1>3
<1>5. \E x \in S : \A y \in S : x >= y
  BY <1>4
<1>6. Max(S) \in S /\ \A y \in S : Max(S) >= y
  BY <1>5 DEF Max
<1> QED BY <1>6, <1>4

\* What is before and behind t there, from lo to hi, is blank.
LeavesBlanks(s, lo, hi, t, at) == \A i \in lo .. hi : s[i] \in Spaces \/ i \in Span(t, at)

\* Trimming keeps a part of a text; around it all is blank.
LEMMA TrimmedText ==
  ASSUME NEW s \in Seq(Characters)
  PROVE  /\ Trimmed(s) \in Seq(Characters)
         /\ \E a \in 0 .. Len(s) :
              /\ a + Len(Trimmed(s)) <= Len(s)
              /\ StandsIn(s, a, Trimmed(s)) /\ LeavesBlanks(s, 1, Len(s), Trimmed(s), a)
              /\ Len(s) > 0 /\ s[Len(s)] \notin Spaces => a + Len(Trimmed(s)) = Len(s) /\ Len(Trimmed(s)) > 0
         /\ Len(Trimmed(s)) > 0 => Trimmed(s)[Len(Trimmed(s))] \notin Spaces
<1> DEFINE printed == {i \in DOMAIN s : s[i] \notin Spaces}
           n == Len(s)
<1>0. n \in Nat /\ DOMAIN s = 1 .. n /\ printed \subseteq 1 .. n /\ \A i \in 1 .. n : s[i] \in Characters
  BY LenProperties, ElementOfSeq
<1>1. CASE printed = {}
  <2>1. Trimmed(s) = <<>>
    BY <1>1 DEF Trimmed
  <2>2. \A i \in 1 .. n : s[i] \in Spaces
    BY <1>1, <1>0
  <2>3. Len(<<>>) = 0 /\ <<>> \in Seq(Characters)
    BY EmptySeq
  <2>4. 0 \in 0 .. n /\ 0 + Len(Trimmed(s)) <= n /\ \A i \in 1 .. Len(Trimmed(s)) : FALSE
    BY <2>1, <2>3, <1>0
  <2>5. StandsIn(s, 0, <<>>) /\ LeavesBlanks(s, 1, n, <<>>, 0)
    BY <2>2 DEF StandsIn, LeavesBlanks
  <2>6. ~(n > 0 /\ s[n] \notin Spaces)
    BY <2>2, <1>0
  <2>. QED BY <2>1, <2>3, <2>4, <2>5, <2>6
<1>2. CASE printed # {}
  <2> DEFINE lo == Min(printed)
             hi == Max(printed)
             t == SubSeq(s, lo, hi)
  <2>1. lo \in printed /\ hi \in printed /\ \A i \in printed : lo <= i /\ i <= hi
    <3>1. printed \in SUBSET Nat /\ printed \in SUBSET (0 .. n)
      BY <1>0
    <3>. HIDE DEF printed
    <3>. QED BY <3>1, <1>0, <1>2, MinIsThere, MaxIsThere
  <2>2. lo \in 1 .. n /\ hi \in 1 .. n /\ lo <= hi
    BY <2>1, <1>0
  <2>3. Trimmed(s) = t
    BY <1>2 DEF Trimmed
  <2>4. t \in Seq(Characters) /\ Len(t) = hi - lo + 1 /\ \A i \in 1 .. hi - lo + 1 : t[i] = s[lo + i - 1]
    <3>1. \A i \in lo .. hi : s[i] \in Characters
      BY <2>2, <1>0
    <3>. HIDE DEF lo, hi
    <3>. QED BY <3>1, <2>2, SubSeqProperties
  <2>5. lo - 1 \in 0 .. n /\ (lo - 1) + Len(t) = hi /\ Span(t, lo - 1) = lo .. hi
    BY <2>2, <2>4, <1>0 DEF Span
  <2>6. \A i \in 1 .. Len(t) : t[i] = s[(lo - 1) + i]
    <3>1. ASSUME NEW i \in 1 .. Len(t) PROVE t[i] = s[(lo - 1) + i]
      <4>1. i \in 1 .. hi - lo + 1 /\ lo + i - 1 = (lo - 1) + i
        BY <2>2, <2>4, <1>0
      <4>. HIDE DEF t, lo, hi
      <4>. QED BY <4>1, <2>4
    <3>. QED BY <3>1
  <2>7. \A i \in 1 .. n : s[i] \in Spaces \/ i \in lo .. hi
    BY <2>1, <2>2, <1>0
  <2>8. n > 0 /\ s[n] \notin Spaces => hi = n
    BY <2>1, <2>2, <1>0
  <2>9. Len(t) > 0 /\ hi <= n
    BY <2>2, <2>4, <1>0
  <2>10. t[Len(t)] \notin Spaces
    <3>1. Len(t) \in 1 .. Len(t) /\ (lo - 1) + Len(t) = hi
      BY <2>2, <2>4, <2>5
    <3>2. t[Len(t)] = s[hi] /\ s[hi] \notin Spaces
      BY <3>1, <2>1, <2>6
    <3>. QED BY <3>2
  <2>. HIDE DEF lo, hi, t, printed
  <2>11. StandsIn(s, lo - 1, t) /\ LeavesBlanks(s, 1, n, t, lo - 1)
    <3>1. DOMAIN t = 1 .. Len(t)
      BY <2>4, LenProperties
    <3>2. StandsIn(s, lo - 1, t)
      BY <3>1, <2>6 DEF StandsIn
    <3>. QED BY <3>2, <2>5, <2>7 DEF LeavesBlanks
  <2>. QED BY <2>3, <2>4, <2>5, <2>8, <2>9, <2>10, <2>11
<1>. QED BY <1>1, <1>2

\* A split is after at least one character, and before there is no more room.
LEMMA SplitIsInRoom ==
  ASSUME NEW s \in Seq(Characters), Len(s) > Room
  PROVE  SplitIndex(s) \in 1 .. Room
<1> USE SplittingNumbers
<1>0. Len(s) \in Nat
  BY LenProperties
<1>1. HardBoundary(s) = Room
  <2>1. {Room, Len(s)} \in SUBSET Nat /\ {Room, Len(s)} # {}
    BY <1>0
  <2>2. Min({Room, Len(s)}) \in {Room, Len(s)} /\ \A t \in {Room, Len(s)} : Min({Room, Len(s)}) <= t
    BY <2>1, MinIsThere
  <2>. QED BY <2>2, <1>0 DEF HardBoundary
<1>2. \A S \in SUBSET (1 .. Room) : S # {} => Max(S) \in 1 .. Room
  <2>1. TAKE S \in SUBSET (1 .. Room)
  <2>2. S \in SUBSET (0 .. Room)
    OBVIOUS
  <2>3. S # {} => Max(S) \in S
    BY <2>2, MaxIsThere
  <2>. QED BY <2>1, <2>3
<1>3. Paragraphs(s) \in SUBSET (1 .. Room) /\ Sentences(s) \in SUBSET (1 .. Room) /\ Words(s) \in SUBSET (1 .. Room)
  BY <1>1 DEF Paragraphs, Sentences, Words
<1>. QED BY <1>1, <1>2, <1>3 DEF SplitIndex

\* A chunk is cut from the text behind the others.
LEMMA NextCut ==
  ASSUME NEW s \in Seq(Characters), NEW done \in 0 .. Len(s), NEW next \in done .. Len(s),
         NEW cut \in Seq(Seq(Characters)), NEW at \in [DOMAIN cut -> 0 .. done], AreCutFrom(s, done, cut, at),
         NEW t \in Seq(Characters), NEW a \in done .. next, a + Len(t) <= next,
         StandsIn(s, a, t), LeavesBlanks(s, done + 1, next, t, a)
  PROVE  \E to \in [DOMAIN Append(cut, t) -> 0 .. next] : AreCutFrom(s, next, Append(cut, t), to)
<1> DEFINE n == Len(cut)
           new == Append(cut, t)
           to == [k \in DOMAIN new |-> IF k = n + 1 THEN a ELSE at[k]]
<1>0. /\ Len(s) \in Nat /\ n \in Nat /\ DOMAIN cut = 1 .. n /\ Len(t) \in Nat /\ DOMAIN t = 1 .. Len(t)
      /\ done \in Nat /\ next \in Nat /\ done <= next /\ a \in Nat /\ done <= a /\ a <= next
      /\ \A k \in 1 .. n : cut[k] \in Seq(Characters) /\ Len(cut[k]) \in Nat /\ at[k] \in 0 .. done
  BY LenProperties, ElementOfSeq
<1>1. DOMAIN new = 1 .. n + 1 /\ (\A k \in 1 .. n : new[k] = cut[k]) /\ new[n + 1] = t
  BY <1>0, AppendProperties, LenProperties
<1>2. to \in [DOMAIN new -> 0 .. next] /\ (\A k \in 1 .. n : to[k] = at[k]) /\ to[n + 1] = a
  <2>. HIDE DEF new
  <2>. QED BY <1>0, <1>1
<1>. HIDE DEF new, to
<1>3. ASSUME NEW k \in 1 .. n
      PROVE  /\ to[k] + Len(new[k]) <= done /\ StandsIn(s, to[k], new[k])
             /\ \A j \in 1 .. n : j < k => to[j] + Len(new[j]) <= to[k]
  <2>1. /\ at[k] + Len(cut[k]) <= done /\ StandsIn(s, at[k], cut[k])
        /\ \A j \in 1 .. n : j < k => at[j] + Len(cut[j]) <= at[k]
    BY <1>0 DEF AreCutFrom
  <2>2. \A j \in 1 .. n : to[j] = at[j] /\ new[j] = cut[j]
    BY <1>1, <1>2
  <2>3. \A j \in 1 .. n : to[j] + Len(new[j]) = at[j] + Len(cut[j])
    BY <2>2
  <2>. QED BY <2>1, <2>2, <2>3
<1>4. \A k \in DOMAIN new : /\ StandsIn(s, to[k], new[k]) /\ to[k] + Len(new[k]) <= next
                            /\ \A j \in DOMAIN new : j < k => to[j] + Len(new[j]) <= to[k]
  <2>1. TAKE k \in DOMAIN new
  <2>2. CASE k = n + 1
    <3>1. \A j \in 1 .. n : to[j] + Len(new[j]) <= a
      <4>1. TAKE j \in 1 .. n
      <4>2. to[j] + Len(new[j]) <= done /\ to[j] = at[j] /\ new[j] = cut[j]
        BY <1>3, <1>1, <1>2
      <4>. QED BY <4>2, <1>0
    <3>2. \A j \in DOMAIN new : j < k => j \in 1 .. n
      BY <2>2, <1>0, <1>1
    <3>3. new[k] = t /\ to[k] = a
      BY <2>2, <1>1, <1>2
    <3>. QED BY <3>1, <3>2, <3>3, <1>0
  <2>3. CASE k # n + 1
    <3>1. k \in 1 .. n /\ \A j \in DOMAIN new : j < k => j \in 1 .. n
      BY SMTT(20), <2>3, <1>0, <1>1
    <3>2. to[k] = at[k] /\ new[k] = cut[k]
      BY <3>1, <1>1, <1>2
    <3>3. to[k] + Len(new[k]) <= next
      <4>1. to[k] + Len(new[k]) <= done /\ to[k] + Len(new[k]) \in Nat
        BY SMTT(20), <3>1, <3>2, <1>3, <1>0
      <4>. QED BY <4>1, <1>0
    <3>. QED BY <3>1, <3>3, <1>3
  <2>. QED BY <2>2, <2>3
<1>5. \A i \in 1 .. next : s[i] \in Spaces \/ \E k \in DOMAIN new : i \in Span(new[k], to[k])
  <2>1. TAKE i \in 1 .. next
  <2>2. CASE i \in 1 .. done
    <3>1. s[i] \in Spaces \/ \E k \in 1 .. n : i \in Span(cut[k], at[k])
      BY <2>2, <1>0 DEF AreCutFrom
    <3>2. 1 .. n \subseteq DOMAIN new
      BY <1>0, <1>1
    <3>. QED BY <3>1, <3>2, <1>1, <1>2
  <2>3. CASE i \notin 1 .. done
    <3>1. i \in done + 1 .. next /\ n + 1 \in DOMAIN new
      BY <2>3, <1>0, <1>1
    <3>. QED BY <3>1, <1>1, <1>2 DEF LeavesBlanks
  <2>. QED BY <2>2, <2>3
<1>6. AreCutFrom(s, next, new, to)
  BY <1>4, <1>5 DEF AreCutFrom
<1>. QED BY <1>2, <1>6 DEF new

AllFit(cut) == \A k \in DOMAIN cut : Len(cut[k]) \in 1 .. Room

\* What holds of the chunks at every round: they leave the room of their numbers.
ChunksAreCut ==
  /\ Len(chunks) > 1 \/ splitting => AllFit(chunks)
  /\ \A k \in DOMAIN chunks : Len(chunks[k]) <= ChunkLimit
  /\ StandsIn(whole, Done, remaining)
  /\ \E at \in [DOMAIN chunks -> 0 .. Done] : AreCutFrom(whole, Done, chunks, at)

SplitInv ==
  /\ SplitTypeOK /\ ChunksAreCut
  /\ Len(remaining) <= Len(whole) /\ (splitting <=> remaining # <<>>)
  /\ Len(whole) > 0 => whole[Len(whole)] \notin Spaces

LEMMA SplittingStarts ==
  ASSUME SplitInit
  PROVE  SplitInv
<1>1. whole \in Seq(Characters) /\ whole = Trimmed(whole)
  <2>1. PICK n \in 0 .. MaxLength : whole \in [1 .. n -> Characters]
    BY DEF SplitInit, Inputs
  <2>2. n \in Nat
    BY SplittingNumbers
  <2>3. whole \in Seq(Characters)
    BY <2>1, <2>2, SeqDef
  <2>. QED BY <2>3 DEF SplitInit
<1>2. Len(whole) > 0 => whole[Len(whole)] \notin Spaces
  BY <1>1, TrimmedText
<1>3. Len(whole) \in Nat /\ DOMAIN whole = 1 .. Len(whole)
  BY <1>1, LenProperties
<1>4. CASE Len(whole) <= ChunkLimit
  <2>1. chunks = <<whole>> /\ remaining = <<>> /\ splitting = FALSE
    BY <1>4 DEF SplitInit
  <2>2. Len(chunks) = 1 /\ DOMAIN chunks = {1} /\ chunks[1] = whole /\ chunks \in Seq(Seq(Characters))
    BY <1>1, <2>1
  <2>3. remaining \in Seq(Characters) /\ Len(remaining) = 0 /\ DOMAIN remaining = {}
    BY <2>1
  <2>4. Done = Len(whole)
    BY <2>3, <1>3 DEF Done
  <2>5. [k \in {1} |-> 0] \in [DOMAIN chunks -> 0 .. Done]
    BY <2>2, <2>4, <1>3
  <2>6. AreCutFrom(whole, Done, chunks, [k \in {1} |-> 0])
    BY <2>2, <2>4, <1>3 DEF AreCutFrom, StandsIn, Span
  <2>7. ChunksAreCut
    BY <1>4, <2>1, <2>2, <2>3, <2>5, <2>6 DEF ChunksAreCut, StandsIn
  <2>8. SplitTypeOK
    BY <1>1, <2>1, <2>2, <2>3 DEF SplitTypeOK
  <2>9. Len(remaining) <= Len(whole) /\ (splitting <=> remaining # <<>>)
    BY <1>3, <2>1, <2>3
  <2>. QED BY <1>2, <2>7, <2>8, <2>9 DEF SplitInv
<1>5. CASE ~(Len(whole) <= ChunkLimit)
  <2>1. chunks = <<>> /\ remaining = whole /\ splitting = TRUE
    BY <1>5 DEF SplitInit
  <2>2. DOMAIN chunks = {} /\ chunks \in Seq(Seq(Characters))
    BY <2>1
  <2>3. Done = 0
    BY <2>1, <1>3 DEF Done
  <2>4. [k \in {} |-> 0] \in [DOMAIN chunks -> 0 .. Done]
    BY <2>2
  <2>5. AreCutFrom(whole, Done, chunks, [k \in {} |-> 0])
    BY <2>2, <2>3 DEF AreCutFrom
  <2>6. StandsIn(whole, Done, remaining)
    BY <2>1, <2>3, <1>3 DEF StandsIn
  <2>7. ChunksAreCut
    BY <2>2, <2>4, <2>5, <2>6 DEF ChunksAreCut, AllFit
  <2>8. remaining # <<>>
    <3>1. Len(whole) # 0
      BY <1>5, <1>3, SplittingNumbers
    <3>. QED BY <3>1, <2>1
  <2>. QED BY <1>1, <1>2, <1>3, <2>1, <2>2, <2>7, <2>8 DEF SplitInv, SplitTypeOK
<1>. QED BY <1>4, <1>5

\* What a round makes of what remains and of the chunks.
IsRound(r, cut, new, q) ==
  IF Len(r) <= Room
  THEN new = Append(cut, r) /\ q = <<>>
  ELSE LET i == SplitIndex(r)
           chunk == Trimmed(SubSeq(r, 1, i))
       IN /\ new = IF chunk = <<>> THEN cut ELSE Append(cut, chunk)
          /\ q = Trimmed(SubSeq(r, i + 1, Len(r)))

\* A chunk that fits joins others that do.
LEMMA JoinedFit ==
  ASSUME NEW cut \in Seq(Seq(Characters)), AllFit(cut), NEW c \in Seq(Characters), Len(c) \in 1 .. Room
  PROVE  AllFit(Append(cut, c))
<1> SUFFICES ASSUME NEW k \in DOMAIN Append(cut, c)
             PROVE  Len(Append(cut, c)[k]) \in 1 .. Room
  BY DEF AllFit
<1>2. Len(cut) \in Nat /\ DOMAIN cut = 1 .. Len(cut)
  BY LenProperties
<1>3. Append(cut, c) \in Seq(Seq(Characters)) /\ Len(Append(cut, c)) = Len(cut) + 1
  BY AppendProperties
<1>4. k \in 1 .. Len(cut) + 1
  BY <1>3, LenProperties
<1>5. CASE k = Len(cut) + 1
  BY <1>5, AppendProperties
<1>6. CASE k # Len(cut) + 1
  <2>1. k \in 1 .. Len(cut)
    BY <1>2, <1>4, <1>6
  <2>2. Append(cut, c)[k] = cut[k]
    BY <2>1, AppendProperties
  <2>. QED BY <2>1, <2>2, <1>2 DEF AllFit
<1>. QED BY <1>5, <1>6

\* A text is its first characters and the others.
LEMMA Pieces ==
  ASSUME NEW r \in Seq(Characters), NEW i \in Nat, 1 <= i, i < Len(r)
  PROVE  /\ SubSeq(r, 1, i) \in Seq(Characters) /\ Len(SubSeq(r, 1, i)) = i
         /\ StandsIn(r, 0, SubSeq(r, 1, i)) /\ StandsIn(r, i, SubSeq(r, i + 1, Len(r)))
         /\ SubSeq(r, i + 1, Len(r)) \in Seq(Characters) /\ Len(SubSeq(r, i + 1, Len(r))) = Len(r) - i
<1>1. PICK n \in Nat : n = Len(r)
  BY LenProperties
<1>2. PICK m \in Nat : m = i + 1
  OBVIOUS
<1>3. (\A j \in 1 .. i : r[j] \in Characters) /\ (\A j \in m .. n : r[j] \in Characters)
  BY <1>1, <1>2, ElementOfSeq
<1>4. /\ SubSeq(r, 1, i) \in Seq(Characters) /\ Len(SubSeq(r, 1, i)) = IF 1 <= i THEN i - 1 + 1 ELSE 0
      /\ \A j \in 1 .. i - 1 + 1 : SubSeq(r, 1, i)[j] = r[1 + j - 1]
  BY <1>3, SubSeqProperties
<1>5. /\ SubSeq(r, m, n) \in Seq(Characters) /\ Len(SubSeq(r, m, n)) = IF m <= n THEN n - m + 1 ELSE 0
      /\ \A j \in 1 .. n - m + 1 : SubSeq(r, m, n)[j] = r[m + j - 1]
  BY <1>3, SubSeqProperties
<1>6. Len(SubSeq(r, m, n)) = n - i /\ n - m + 1 = n - i /\ i - 1 + 1 = i
  BY <1>1, <1>2, <1>5
<1>7. ASSUME NEW j \in 1 .. n - i PROVE SubSeq(r, m, n)[j] = r[i + j]
  <2>1. m + j - 1 = i + j /\ j \in 1 .. n - m + 1
    BY <1>1, <1>2, <1>6
  <2>. QED BY <2>1, <1>5
<1>8. ASSUME NEW j \in 1 .. i PROVE SubSeq(r, 1, i)[j] = r[j]
  <2>1. 1 + j - 1 = j /\ j \in 1 .. i - 1 + 1
    BY <1>6
  <2>. QED BY <2>1, <1>4
<1>9. Len(SubSeq(r, 1, i)) = i
  BY <1>4, <1>6
<1>10. StandsIn(r, 0, SubSeq(r, 1, i))
  <2>1. DOMAIN SubSeq(r, 1, i) = 1 .. i /\ \A j \in 1 .. i : 0 + j = j
    BY <1>4, <1>9, LenProperties
  <2>. QED BY <2>1, <1>8 DEF StandsIn
<1>11. StandsIn(r, i, SubSeq(r, m, n))
  <2>1. DOMAIN SubSeq(r, m, n) = 1 .. n - i
    BY <1>5, <1>6, LenProperties
  <2>. QED BY <2>1, <1>7 DEF StandsIn
<1>. QED BY <1>1, <1>2, <1>4, <1>5, <1>6, <1>9, <1>10, <1>11

\* What stands in a part of a text stands in the text.
LEMMA PartOfPart ==
  ASSUME NEW s \in Seq(Characters), NEW t \in Seq(Characters), NEW u \in Seq(Characters), NEW a \in Nat, NEW b \in Nat,
         StandsIn(s, a, t), StandsIn(t, b, u), b + Len(u) <= Len(t)
  PROVE  StandsIn(s, a + b, u)
<1>1. DOMAIN u = 1 .. Len(u) /\ DOMAIN t = 1 .. Len(t) /\ Len(t) \in Nat /\ Len(u) \in Nat
  BY LenProperties
<1>2. ASSUME NEW i \in 1 .. Len(u) PROVE u[i] = s[a + b + i]
  <2>1. b + i \in 1 .. Len(t) /\ a + (b + i) = a + b + i
    BY <1>1
  <2>2. u[i] = t[b + i] /\ t[b + i] = s[a + (b + i)]
    BY <1>1, <2>1 DEF StandsIn
  <2>. QED BY <2>1, <2>2
<1>. QED BY <1>1, <1>2 DEF StandsIn

\* What trimming leaves out of the two pieces is what is left out of the text.
LEMMA LeftOut ==
  ASSUME NEW s \in Seq(Characters), NEW front \in Seq(Characters), NEW rest \in Seq(Characters),
         NEW c \in Seq(Characters), NEW q \in Seq(Characters),
         NEW done \in Nat, NEW i \in Nat, NEW a \in Nat, NEW b \in Nat,
         Len(front) = i, b + Len(q) = Len(rest), StandsIn(s, done, front), StandsIn(s, done + i, rest),
         LeavesBlanks(front, 1, i, c, a), LeavesBlanks(rest, 1, Len(rest), q, b)
  PROVE  LeavesBlanks(s, done + 1, done + i + b, c, done + a)
<1>1. /\ Len(c) \in Nat /\ Len(q) \in Nat /\ Len(rest) \in Nat
      /\ DOMAIN front = 1 .. i /\ DOMAIN rest = 1 .. Len(rest)
  BY LenProperties
<1> SUFFICES ASSUME NEW j \in done + 1 .. done + i + b
             PROVE  s[j] \in Spaces \/ j \in Span(c, done + a)
  BY DEF LeavesBlanks
<1>2. CASE j <= done + i
  <2>1. PICK k \in 1 .. i : done + k = j
    <3>1. j - done \in 1 .. i /\ done + (j - done) = j
      BY <1>2
    <3>. QED BY <3>1
  <2>2. front[k] = s[j] /\ (front[k] \in Spaces \/ k \in Span(c, a))
    BY <1>1, <2>1 DEF StandsIn, LeavesBlanks
  <2>3. k \in Span(c, a) => j \in Span(c, done + a)
    BY <1>1, <2>1 DEF Span
  <2>. QED BY <2>2, <2>3
<1>3. CASE ~(j <= done + i)
  <2>1. PICK k \in 1 .. b : done + i + k = j
    <3>1. j - (done + i) \in 1 .. b /\ done + i + (j - (done + i)) = j
      BY <1>3
    <3>. QED BY <3>1
  <2>2. k \in 1 .. Len(rest) /\ k \notin Span(q, b)
    BY <1>1, <2>1 DEF Span
  <2>3. rest[k] = s[j] /\ rest[k] \in Spaces
    BY <1>1, <2>1, <2>2 DEF StandsIn, LeavesBlanks
  <2>. QED BY <2>3
<1>. QED BY <1>2, <1>3

\* Where nothing is kept, all is blank.
LEMMA NothingCut ==
  ASSUME NEW s \in Seq(Characters), NEW done \in 0 .. Len(s), NEW next \in done .. Len(s),
         NEW cut \in Seq(Seq(Characters)), NEW at \in [DOMAIN cut -> 0 .. done], AreCutFrom(s, done, cut, at),
         NEW a \in Nat, LeavesBlanks(s, done + 1, next, <<>>, a)
  PROVE  at \in [DOMAIN cut -> 0 .. next] /\ AreCutFrom(s, next, cut, at)
<1>1. /\ Len(s) \in Nat /\ done \in Nat /\ next \in Nat /\ done <= next /\ DOMAIN cut = 1 .. Len(cut)
      /\ \A k \in DOMAIN cut : Len(cut[k]) \in Nat /\ at[k] \in Nat
  BY LenProperties, ElementOfSeq
<1>2. at \in [DOMAIN cut -> 0 .. next]
  <2>1. 0 .. done \subseteq 0 .. next
    BY <1>1
  <2>. QED BY <2>1
<1>3. \A k \in DOMAIN cut : at[k] + Len(cut[k]) <= next
  BY <1>1 DEF AreCutFrom
<1>4. ASSUME NEW i \in 1 .. next
      PROVE  s[i] \in Spaces \/ \E k \in DOMAIN cut : i \in Span(cut[k], at[k])
  <2>1. CASE i \in 1 .. done
    BY <2>1 DEF AreCutFrom
  <2>2. CASE i \notin 1 .. done
    <3>1. i \in done + 1 .. next /\ Len(<<>>) = 0 /\ i \notin Span(<<>>, a)
      BY <2>2, <1>1 DEF Span
    <3>. QED BY <3>1 DEF LeavesBlanks
  <2>. QED BY <2>1, <2>2
<1>. QED BY <1>2, <1>3, <1>4 DEF AreCutFrom

\* One round, for whatever was read, what remains and what was cut.
LEMMA RoundTypes ==
  ASSUME NEW r \in Seq(Characters), Len(r) > 0, NEW cut \in Seq(Seq(Characters)), NEW new, NEW q, IsRound(r, cut, new, q)
  PROVE  q \in Seq(Characters) /\ new \in Seq(Seq(Characters))
<1>0. Len(r) \in Nat
  BY LenProperties
<1>1. CASE Len(r) <= Room
  BY SMTT(20), <1>1, EmptySeq, AppendProperties DEF IsRound
<1>2. CASE ~(Len(r) <= Room)
  <2>1. SplitIndex(r) \in 1 .. Room /\ Room \in Nat /\ Room < Len(r)
    BY <1>0, <1>2, SplitIsInRoom, SplittingNumbers
  <2>2. PICK i \in Nat : i = SplitIndex(r) /\ 1 <= i /\ i < Len(r)
    BY <2>1, <1>0
  <2>3. Trimmed(SubSeq(r, 1, i)) \in Seq(Characters) /\ Trimmed(SubSeq(r, i + 1, Len(r))) \in Seq(Characters)
    BY <2>2, Pieces, TrimmedText
  <2>4. PICK c : c = Trimmed(SubSeq(r, 1, i))
    OBVIOUS
  <2>5. q = Trimmed(SubSeq(r, i + 1, Len(r))) /\ new = IF c = <<>> THEN cut ELSE Append(cut, c)
    BY <1>2, <2>2, <2>4 DEF IsRound
  <2>6. Append(cut, c) \in Seq(Seq(Characters))
    BY <2>3, <2>4, AppendProperties
  <2>. QED BY <2>3, <2>5, <2>6
<1>. QED BY <1>1, <1>2

LEMMA RoundKeeps ==
  ASSUME NEW w \in Seq(Characters), NEW r \in Seq(Characters), Len(r) <= Len(w), Len(r) > 0,
         w[Len(w)] \notin Spaces, StandsIn(w, Len(w) - Len(r), r),
         NEW cut \in Seq(Seq(Characters)), AllFit(cut),
         NEW at \in [DOMAIN cut -> 0 .. Len(w) - Len(r)], AreCutFrom(w, Len(w) - Len(r), cut, at),
         NEW new \in Seq(Seq(Characters)), NEW q \in Seq(Characters), IsRound(r, cut, new, q)
  PROVE  /\ Len(q) <= Len(w) /\ AllFit(new) /\ StandsIn(w, Len(w) - Len(q), q)
         /\ \E to \in [DOMAIN new -> 0 .. Len(w) - Len(q)] : AreCutFrom(w, Len(w) - Len(q), new, to)
<1>d. PICK done : done = Len(w) - Len(r)
  OBVIOUS
<1>0. done \in Nat /\ Len(w) \in Nat /\ Len(r) \in Nat /\ done \in 0 .. Len(w) /\ DOMAIN r = 1 .. Len(r) /\ Len(w) = done + Len(r)
  BY <1>d, LenProperties
<1>1. CASE Len(r) <= Room
  <2>1. new = Append(cut, r) /\ q = <<>> /\ Len(q) = 0 /\ DOMAIN q = {}
    BY <1>1 DEF IsRound
  <2>2. LeavesBlanks(w, done + 1, Len(w), r, done)
    BY <1>0 DEF LeavesBlanks, Span
  <2>3. Len(w) \in done .. Len(w) /\ done \in done .. Len(w) /\ done + Len(r) <= Len(w)
    BY <1>0
  <2>4. \E to \in [DOMAIN Append(cut, r) -> 0 .. Len(w)] : AreCutFrom(w, Len(w), Append(cut, r), to)
    BY <1>0, <1>d, <2>2, <2>3, NextCut
  <2>5. Len(r) \in 1 .. Room
    BY <1>0, <1>1, SplittingNumbers
  <2>6. Len(w) - Len(q) = Len(w) /\ Len(q) <= Len(w)
    BY <2>1, <1>0
  <2>7. StandsIn(w, Len(w), q)
    BY <2>1 DEF StandsIn
  <2>8. AllFit(new)
    BY <2>1, <2>5, JoinedFit
  <2>. QED BY <2>1, <2>4, <2>6, <2>7, <2>8
<1>2. CASE ~(Len(r) <= Room)
  <2>1. SplitIndex(r) \in 1 .. Room /\ Room \in Nat /\ Room < Len(r)
    BY <1>0, <1>2, SplitIsInRoom, SplittingNumbers
  <2>2. PICK i \in Nat : i = SplitIndex(r) /\ 1 <= i /\ i < Len(r) /\ i <= Room
    BY <2>1, <1>0
  <2>3. PICK front : front = SubSeq(r, 1, i)
    OBVIOUS
  <2>4. PICK rest : rest = SubSeq(r, i + 1, Len(r))
    OBVIOUS
  <2>5. /\ front \in Seq(Characters) /\ Len(front) = i /\ StandsIn(r, 0, front)
        /\ rest \in Seq(Characters) /\ Len(rest) = Len(r) - i /\ StandsIn(r, i, rest)
    BY <2>2, <2>3, <2>4, Pieces
  <2>6. StandsIn(w, done, front) /\ StandsIn(w, done + i, rest)
    <3>1. StandsIn(w, done + 0, front)
      BY <1>0, <1>d, <2>2, <2>5, PartOfPart
    <3>2. i + Len(rest) <= Len(r)
      BY <1>0, <2>2, <2>5
    <3>3. StandsIn(w, done + i, rest)
      BY <1>0, <1>d, <2>2, <2>5, <3>2, PartOfPart
    <3>4. done + 0 = done
      BY <1>0
    <3>. QED BY <3>1, <3>3, <3>4
  <2>7. rest[Len(rest)] \notin Spaces /\ Len(rest) > 0 /\ Len(rest) \in Nat
    <3>1. PICK m \in Nat : m = Len(rest)
      BY <2>5, LenProperties
    <3>2. m > 0 /\ m \in 1 .. m /\ done + i + m = Len(w)
      BY <3>1, <2>2, <2>5, <1>0
    <3>3. DOMAIN rest = 1 .. m
      BY <3>1, <2>5, LenProperties
    <3>4. rest[m] = w[done + i + m]
      BY <3>2, <3>3, <2>6 DEF StandsIn
    <3>. QED BY <3>1, <3>2, <3>4
  <2>8. PICK c : c = Trimmed(front)
    OBVIOUS
  <2>9. q = Trimmed(rest) /\ new = IF c = <<>> THEN cut ELSE Append(cut, c)
    BY <1>2, <2>2, <2>3, <2>4, <2>8 DEF IsRound
  <2>10. c \in Seq(Characters) /\ Len(c) \in Nat /\ Len(q) \in Nat
    BY <2>5, <2>8, TrimmedText, LenProperties
  <2>11. PICK a \in Nat : a + Len(c) <= i /\ StandsIn(front, a, c) /\ LeavesBlanks(front, 1, i, c, a)
    BY <2>2, <2>5, <2>8, TrimmedText
  <2>12. PICK b \in Nat : b + Len(q) = Len(rest) /\ StandsIn(rest, b, q) /\ LeavesBlanks(rest, 1, Len(rest), q, b)
    <3>1. PICK b \in 0 .. Len(rest) :
            /\ StandsIn(rest, b, Trimmed(rest)) /\ LeavesBlanks(rest, 1, Len(rest), Trimmed(rest), b)
            /\ Len(rest) > 0 /\ rest[Len(rest)] \notin Spaces => b + Len(Trimmed(rest)) = Len(rest)
      BY <2>5, TrimmedText
    <3>2. b \in Nat /\ b + Len(Trimmed(rest)) = Len(rest)
      BY <3>1, <2>7
    <3>. QED BY <3>1, <3>2, <2>9
  <2>13. PICK next \in Nat : next = done + i + b
    BY <1>0, <2>2
  <2>14. PICK e \in Nat : e = done + a
    BY <1>0
  <2>n. Len(w) = done + Len(r) /\ Len(rest) = Len(r) - i /\ b + Len(q) = Len(rest) /\ a + Len(c) <= i
    BY <1>0, <2>5, <2>11, <2>12
  <2>15. /\ next = Len(w) - Len(q) /\ Len(q) <= Len(w) /\ done <= next /\ next <= Len(w)
         /\ done <= e /\ e + Len(c) <= next /\ e <= next
    <3>1. PICK W \in Nat, R \in Nat, T \in Nat, C \in Nat, Q \in Nat :
            W = Len(w) /\ R = Len(r) /\ T = Len(rest) /\ C = Len(c) /\ Q = Len(q)
      BY <1>0, <2>7, <2>10
    <3>2. W = done + R /\ T = R - i /\ b + Q = T /\ a + C <= i /\ next = done + i + b /\ e = done + a
      BY <3>1, <2>n, <2>13, <2>14
    <3>3. done \in Nat /\ i \in Nat /\ a \in Nat /\ b \in Nat /\ next \in Nat /\ e \in Nat
      BY <1>0
    <3>4. next = W - Q /\ Q <= W /\ done <= next /\ next <= W /\ done <= e /\ e + C <= next /\ e <= next
      BY <3>2, <3>3
    <3>. QED BY <3>1, <3>4
  <2>16. StandsIn(w, next, q)
    <3>1. StandsIn(w, (done + i) + b, q)
      BY SMTT(20), <1>0, <2>2, <2>5, <2>6, <2>7, <2>12, PartOfPart
    <3>. QED BY <3>1, <2>13
  <2>17. StandsIn(w, e, c)
    BY <1>0, <2>2, <2>5, <2>6, <2>10, <2>11, <2>14, PartOfPart
  <2>18. LeavesBlanks(w, done + 1, next, c, e)
    BY <1>0, <2>2, <2>5, <2>6, <2>10, <2>11, <2>12, <2>13, <2>14, LeftOut
  <2>19. AllFit(new)
    <3>1. CASE c = <<>>
      BY <3>1, <2>9
    <3>2. CASE c # <<>>
      <4>1. Len(c) # 0
        BY <3>2, <2>10, EmptySeq
      <4>2. Len(c) \in 1 .. Room
        BY <4>1, <2>1, <2>2, <2>10, <2>11
      <4>. QED BY <3>2, <4>2, <2>9, <2>10, JoinedFit
    <3>. QED BY <3>1, <3>2
  <2>20. done \in 0 .. Len(w) /\ next \in done .. Len(w) /\ e \in done .. next
    BY <1>0, <2>15
  <2>21. \E to \in [DOMAIN new -> 0 .. next] : AreCutFrom(w, next, new, to)
    <3>1. CASE c = <<>>
      BY <3>1, <1>d, <2>9, <2>14, <2>18, <2>20, NothingCut
    <3>2. CASE c # <<>>
      BY <3>2, <1>d, <2>9, <2>10, <2>15, <2>17, <2>18, <2>20, NextCut
    <3>. QED BY <3>1, <3>2
  <2>. QED BY <2>15, <2>16, <2>19, <2>21
<1>. QED BY <1>1, <1>2

LEMMA SplittingGoesOn ==
  ASSUME SplitInv, [SplitOnce]_splitVars
  PROVE  SplitInv'
<1>1. CASE UNCHANGED splitVars
  BY <1>1 DEF splitVars, SplitInv, SplitTypeOK, ChunksAreCut, Done
<1>2. CASE SplitOnce
  <2>1. PICK w \in Seq(Characters) : w = whole /\ whole' = w
    BY <1>2 DEF SplitInv, SplitTypeOK, SplitOnce
  <2>2. PICK r \in Seq(Characters) : r = remaining
    BY DEF SplitInv, SplitTypeOK
  <2>3. PICK cut \in Seq(Seq(Characters)) : cut = chunks
    BY DEF SplitInv, SplitTypeOK
  <2>4. PICK new : new = chunks'
    OBVIOUS
  <2>5. PICK q : q = remaining'
    OBVIOUS
  <2>6. IsRound(r, cut, new, q)
    BY <1>2, <2>2, <2>3, <2>4, <2>5 DEF SplitOnce, IsRound
  <2>7. (splitting' <=> q # <<>>) /\ splitting' \in BOOLEAN
    BY <1>2, <2>5 DEF SplitOnce
  <2>8. Len(r) \in Nat /\ Len(w) \in Nat /\ Len(r) <= Len(w) /\ Len(r) > 0 /\ splitting
    <3>1. splitting /\ r # <<>> /\ Len(r) <= Len(w)
      BY <1>2, <2>1, <2>2 DEF SplitInv, SplitOnce
    <3>. QED BY <3>1, EmptySeq, LenProperties
  <2>9. w[Len(w)] \notin Spaces
    BY <2>1, <2>8 DEF SplitInv
  <2>10. AllFit(cut) /\ StandsIn(w, Len(w) - Len(r), r)
    BY <2>1, <2>2, <2>3, <2>8 DEF SplitInv, ChunksAreCut, Done
  <2>11. PICK at \in [DOMAIN cut -> 0 .. Len(w) - Len(r)] : AreCutFrom(w, Len(w) - Len(r), cut, at)
    BY <2>1, <2>2, <2>3 DEF SplitInv, ChunksAreCut, Done
  <2>12. q \in Seq(Characters) /\ new \in Seq(Seq(Characters))
    BY <2>6, <2>8, RoundTypes
  <2>13. /\ Len(q) <= Len(w) /\ AllFit(new) /\ StandsIn(w, Len(w) - Len(q), q)
         /\ \E to \in [DOMAIN new -> 0 .. Len(w) - Len(q)] : AreCutFrom(w, Len(w) - Len(q), new, to)
    BY <2>6, <2>8, <2>9, <2>10, <2>11, <2>12, RoundKeeps
  <2>14. ChunksAreCut'
    <3>1. \A k \in DOMAIN new : Len(new[k]) <= ChunkLimit
      BY <2>13, SplittingNumbers DEF AllFit
    <3>. QED BY <3>1, <2>1, <2>4, <2>5, <2>13 DEF ChunksAreCut, Done
  <2>15. SplitTypeOK'
    BY <2>1, <2>4, <2>5, <2>7, <2>12 DEF SplitTypeOK
  <2>16. (Len(remaining) <= Len(whole))' /\ (splitting <=> remaining # <<>>)'
    BY <2>1, <2>5, <2>7, <2>13
  <2>17. (Len(whole) > 0 => whole[Len(whole)] \notin Spaces)'
    BY <2>1, <2>9
  <2>. QED BY <2>14, <2>15, <2>16, <2>17 DEF SplitInv
<1>. QED BY <1>1, <1>2

\* The text, its chunks and what remains of it are sequences of characters.
THEOREM SplitTyping == SplitSpec => []SplitTypeOK
<1>1. SplitInv => SplitTypeOK
  BY DEF SplitInv
<1>. QED BY <1>1, SplittingStarts, SplittingGoesOn, PTL DEF SplitSpec

\* The greater of two numbers has as many digits as the other, or more.
LEMMA DigitsGrow ==
  ASSUME NEW n \in Nat, NEW k \in Nat, k <= n
  PROVE  Digits(k) \in Nat /\ Digits(n) \in Nat /\ Digits(k) <= Digits(n)
<1>1. {s \in Steps : s <= k} \subseteq {s \in Steps : s <= n} /\ {s \in Steps : s <= n} \subseteq Steps
  <2>1. ASSUME NEW s \in Steps, s <= k PROVE s <= n
    <3>1. s \in Nat
      BY SplittingAssumption
    <3>. QED BY <2>1, <3>1
  <2>. QED BY <2>1
<1>2. IsFiniteSet({s \in Steps : s <= n})
  BY <1>1, SplittingAssumption, FS_Subset
<1>3. /\ IsFiniteSet({s \in Steps : s <= k})
      /\ Cardinality({s \in Steps : s <= k}) <= Cardinality({s \in Steps : s <= n})
  BY <1>1, <1>2, FS_Subset
<1>4. Cardinality({s \in Steps : s <= k}) \in Nat /\ Cardinality({s \in Steps : s <= n}) \in Nat
  BY <1>2, <1>3, FS_CardinalityType
<1>. QED BY <1>3, <1>4 DEF Digits

\* Chunks that leave the room reserved for their numbers fit with numbers that fit it.
LEMMA NumbersFit ==
  ASSUME SplitTypeOK, ChunksAreCut, HasRoomForNumbers(Len(chunks)), NEW k \in DOMAIN chunks
  PROVE  PreparedLength(k) <= ChunkLimit
<1>1. Len(chunks) \in Nat /\ k \in Nat /\ k <= Len(chunks) /\ Len(chunks[k]) \in Nat
  BY LenProperties, ElementOfSeq DEF SplitTypeOK
<1>2. CASE Len(chunks) > 1
  <2>1. Len(chunks[k]) <= Room
    BY <1>2, SplittingNumbers DEF ChunksAreCut, AllFit
  <2>2. PICK d \in Nat, e \in Nat : d = Digits(k) /\ e = Digits(Len(chunks)) /\ d <= e
    BY <1>1, DigitsGrow
  <2>3. PreparedLength(k) = Len(chunks[k]) + (Frame + d + e) /\ Frame + 2 * e <= Numbering
    BY <1>2, <2>2 DEF PreparedLength, NumberLength, HasRoomForNumbers
  <2>4. PICK c \in Nat : c = Len(chunks[k])
    BY <1>1
  <2>5. c + Numbering <= ChunkLimit
    BY <2>1, <2>4, SplittingNumbers DEF Room
  <2>6. PICK f \in Nat : f = Frame
    BY SplittingNumbers
  <2>7. f + (e + e) <= Numbering
    BY <2>3, <2>6
  <2>8. c + (f + d + e) <= ChunkLimit
    <3>1. Numbering \in Nat /\ ChunkLimit \in Nat /\ d <= e
      BY <2>2, SplittingNumbers
    <3>. QED BY <3>1, <2>5, <2>7
  <2>. QED BY <2>3, <2>4, <2>6, <2>8
<1>3. CASE ~(Len(chunks) > 1)
  BY <1>1, <1>3, SplittingNumbers DEF PreparedLength, ChunksAreCut
<1>. QED BY <1>2, <1>3

\* A text, however long, is cut at blanks and ends of lines or between characters, and
\* nothing else is lost, repeated or moved (splitPostText); when the numbers fit what is
\* reserved for them, which holds up to 99 chunks of the code, each chunk fits a post
\* together with its number (processTweets).
THEOREM TextsAreKept == SplitSpec => []ChunksKeepTheText
<1>1. SplitInv => ChunksKeepTheText
  <2> SUFFICES ASSUME SplitInv PROVE ChunksKeepTheText
    OBVIOUS
  <2>1. SplitTypeOK /\ ChunksAreCut
    BY DEF SplitInv
  <2>2. HasRoomForNumbers(Len(chunks)) => \A k \in DOMAIN chunks : PreparedLength(k) <= ChunkLimit
    BY <2>1, NumbersFit
  <2>3. Len(chunks) > 1 \/ splitting => \A k \in DOMAIN chunks : chunks[k] # <<>>
    BY <2>1, EmptySeq DEF ChunksAreCut, AllFit
  <2>. QED BY <2>1, <2>2, <2>3 DEF ChunksAreCut, ChunksKeepTheText
<1>. QED BY <1>1, SplittingStarts, SplittingGoesOn, PTL DEF SplitSpec
================================================================================
