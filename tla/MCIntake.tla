-------------------------------- MODULE MCIntake --------------------------------
(***************************************************************************)
(* How posts come in, what is made of them and what operators see and      *)
(* change of it, for TLC side by side: the scheduler, the governor of      *)
(* requests to X, the sweep of a source, the choice of the sources, the    *)
(* ingestion of posts, the rendering of a tweet, the splitting of its text *)
(* and the two halves of a tab of the dashboard share no state in their    *)
(* models, and a behaviour is one of one of them.                          *)
(***************************************************************************)
EXTENDS Scheduler, XRateGovernor, SourceSweep, PollingBudget, Ingestion, PostRendering, PostSplitting,
        Dashboard, ActivityPolling
CONSTANTS p1, p2, d1, k1, k2, r1, i1, i2, x1, x2, key1, key2, h1, h2, h3
VARIABLE active

OneTarget   == [r \in Requests |-> d1]
SameContent == [p \in Submissions |-> 1]

intakeVars == <<active, schedulerVars, governorVars, sweepVars, pollingVars, ingestVars, renderVars, splitVars,
                dashVars, activityVars>>

Plain == [body |-> 0, links |-> {}, photos |-> 0, videos |-> 0, quote |-> "none", card |-> "none", repost |-> FALSE]

\* What is not active starts in one of its initial states.
IntakeInit ==
  /\ active \in {"scheduler", "governor", "sweep", "polling", "ingestion", "rendering", "splitting", "dashboard", "activity"}
  /\ tweet \in IF active = "rendering" THEN Posted ELSE {Plain}
  /\ whole \in IF active = "splitting" THEN Inputs ELSE {<<>>}
  /\ SchedulerInit /\ GovernorInit /\ SweepInit /\ PollingInit /\ IngestInit /\ RenderInit /\ SplitInit
  /\ DashInit /\ saved.sources = {h1, h2} /\ ActivityInit
  /\ active # "sweep" => \A r \in Lanes : delivery[r] = "immediate"
  /\ active # "polling" => unrouted = {}

Rest(component) ==
  /\ component # "scheduler" => UNCHANGED schedulerVars
  /\ component # "governor" => UNCHANGED governorVars
  /\ component # "sweep" => UNCHANGED sweepVars
  /\ component # "polling" => UNCHANGED pollingVars
  /\ component # "ingestion" => UNCHANGED ingestVars
  /\ component # "rendering" => UNCHANGED renderVars
  /\ component # "splitting" => UNCHANGED splitVars
  /\ component # "dashboard" => UNCHANGED dashVars
  /\ component # "activity" => UNCHANGED activityVars

IntakeNext ==
  /\ UNCHANGED active /\ Rest(active)
  /\ \/ active = "scheduler" /\ SchedulerNext
     \/ active = "governor" /\ GovernorNext
     \/ active = "sweep" /\ SweepNext
     \/ active = "polling" /\ PollingNext
     \/ active = "ingestion" /\ IngestNext
     \/ active = "rendering" /\ RenderNext
     \/ active = "splitting" /\ SplitOnce
     \/ active = "dashboard" /\ DashNext
     \/ active = "activity" /\ ActivityNext

IntakeSpec == IntakeInit /\ [][IntakeNext]_intakeVars

FewEdits == Cardinality(confirmed) <= 1

\* The type invariants of the nine.
IntakeTypeOK ==
  /\ active = "scheduler" => SchedulerTypeOK
  /\ active = "governor" => GovernorTypeOK
  /\ active = "sweep" => SweepTypeOK
  /\ active = "polling" => PollingTypeOK
  /\ active = "ingestion" => IngestTypeOK
  /\ active = "rendering" => RenderTypeOK
  /\ active = "splitting" => SplitTypeOK
  /\ active = "dashboard" => DashTypeOK
  /\ active = "activity" => ActivityTypeOK
================================================================================
