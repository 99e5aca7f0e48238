--------------------------------- MODULE Updater ---------------------------------
(***************************************************************************)
(* Updates of a source installation: src/update.sh, which the server       *)
(* starts in the background for an administrator (startUpdateJob() of      *)
(* src/src/server.ts) and operators run from a shell.  Several may be      *)
(* started; each is a process that pulls the sources, builds them and      *)
(* restarts the runtime, and any step of it may fail or be killed.         *)
(*                                                                         *)
(* Sources are known by their release, local edits of tracked files by     *)
(* name, config.json and .env by the number of times they were saved.      *)
(***************************************************************************)
EXTENDS Naturals, Sequences, FiniteSets

CONSTANTS Updaters,       \* processes that run update.sh
          Edits,          \* local changes of tracked files
          Off,            \* no process, no runtime, no updateJob
          MaxReleases, MaxLaunches, MaxWrites, MaxStashes, MaxTroubles   \* bounds

Release == 0 .. MaxReleases
Steps == {"lock", "backup", "stash", "pull", "reexec", "build", "stop", "start", "unstash"}
Progress == [step : Steps, script : Release, isAgain : BOOLEAN, isStashed : BOOLEAN, copy : 0 .. MaxWrites]

ASSUME UpdaterAssumption ==
  /\ Off \notin Updaters \cup Nat \cup Progress
  /\ {MaxReleases, MaxLaunches, MaxWrites, MaxStashes, MaxTroubles} \subseteq Nat

VARIABLES upstream,    \* the release of the remote branch
          head,        \* the release checked out
          dist,        \* the release that is built
          tree,        \* local edits in the working tree
          isUnmerged,  \* a stash was applied with conflicts in it
          stashes,     \* git stash list, the newest first
          isLocked,    \* data/runtime/.update.lock
          updater,     \* what each process is at
          runtime,     \* the release that runs
          updateJob,   \* updateJobState of the runtime
          writes,      \* the saves in config.json and .env
          edited,      \* history: the edits made
          launches, troubles

sources == <<upstream, head, dist>>
work == <<tree, isUnmerged, stashes, edited>>
updateVars == <<sources, work, isLocked, updater, runtime, updateJob, writes, launches, troubles>>
--------------------------------------------------------------------------------
UpdaterTypeOK ==
  /\ upstream \in Release /\ head \in Release /\ dist \in Release /\ runtime \in Release \cup {Off}
  /\ tree \subseteq Edits /\ edited \subseteq Edits /\ stashes \in Seq(SUBSET Edits) /\ isUnmerged \in BOOLEAN
  /\ isLocked \in BOOLEAN /\ updater \in [Updaters -> Progress \cup {Off}] /\ updateJob \in Updaters \cup {Off}
  /\ writes \in 0 .. MaxWrites /\ launches \in 0 .. MaxLaunches /\ troubles \in 0 .. MaxTroubles

IsAtStep(u, step) == updater[u] # Off /\ updater[u].step = step
IsInside(u) == updater[u] # Off /\ updater[u].step # "lock"
Continue(u, step) == updater' = [updater EXCEPT ![u].step = step]
HasTrouble == troubles < MaxTroubles /\ troubles' = troubles + 1

\* cleanup(), the trap at the exit of a process that has the lock: the files saved when it
\* began are copied back.
Cleanup(u) == writes' = updater[u].copy /\ isLocked' = FALSE

\* restore_stash_if_needed(): the newest stash is applied, and dropped when it was applied
\* without conflicts.  Conflicts with the index leave the tree as it is.
RestoreStash(u) ==
  IF ~updater[u].isStashed THEN UNCHANGED work
  ELSE /\ UNCHANGED edited
       /\ \/ tree' = tree \cup stashes[1] /\ stashes' = Tail(stashes) /\ UNCHANGED isUnmerged
          \/ tree' = tree \cup stashes[1] /\ isUnmerged' = TRUE /\ UNCHANGED stashes
          \/ UNCHANGED <<tree, isUnmerged, stashes>>

UpdaterInit ==
  /\ upstream = 0 /\ head = 0 /\ dist = 0 /\ tree = {} /\ isUnmerged = FALSE /\ stashes = <<>>
  /\ isLocked = FALSE /\ updater = [u \in Updaters |-> Off] /\ runtime = 0 /\ updateJob = Off
  /\ writes = 0 /\ edited = {} /\ launches = 0 /\ troubles = 0

(***************************************************************************)
(* Launches.                                                               *)
(***************************************************************************)
LaunchUpdater(u) ==
  /\ updater[u] = Off /\ launches < MaxLaunches /\ launches' = launches + 1
  /\ updater' = [updater EXCEPT ![u] = [step |-> "lock", script |-> head, isAgain |-> FALSE,
                                        isStashed |-> FALSE, copy |-> 0]]

\* startUpdateJob(): refused while the process of the last one is alive.
StartUpdateJob(u) ==
  /\ runtime # Off /\ (updateJob # Off => updater[updateJob] = Off)
  /\ LaunchUpdater(u) /\ updateJob' = u
  /\ UNCHANGED <<sources, work, isLocked, runtime, writes, troubles>>

RunFromShell(u) ==
  LaunchUpdater(u) /\ updateJob # u /\ UNCHANGED <<sources, work, isLocked, runtime, updateJob, writes, troubles>>

(***************************************************************************)
(* The script.                                                             *)
(***************************************************************************)
\* A mutation: the trap is set before the lock is taken.
AcquireLockTrapped(u) ==
  /\ IsAtStep(u, "lock")
  /\ IF isLocked THEN isLocked' = FALSE /\ updater' = [updater EXCEPT ![u] = Off]
     ELSE isLocked' = TRUE /\ Continue(u, "backup")
  /\ UNCHANGED <<sources, work, runtime, updateJob, writes, launches, troubles>>

\* acquire_lock(): who does not get it exits with nothing to clean up.
AcquireLock(u) ==
  /\ IsAtStep(u, "lock")
  /\ IF isLocked THEN UNCHANGED isLocked /\ updater' = [updater EXCEPT ![u] = Off]
     ELSE isLocked' = TRUE /\ Continue(u, "backup")
  /\ UNCHANGED <<sources, work, runtime, updateJob, writes, launches, troubles>>

BackupFiles(u) ==
  /\ IsAtStep(u, "backup") /\ updater' = [updater EXCEPT ![u].step = "stash", ![u].copy = writes]
  /\ UNCHANGED <<sources, work, isLocked, runtime, updateJob, writes, launches, troubles>>

\* stash_local_changes(): the newest entry has the same name before and after when there was one.
StashLocalChanges(u) ==
  /\ IsAtStep(u, "stash") /\ ~isUnmerged /\ (tree # {} => Len(stashes) < MaxStashes)
  /\ updater' = [updater EXCEPT ![u].step = "pull", ![u].isStashed = tree # {} /\ stashes = <<>>]
  /\ stashes' = IF tree = {} THEN stashes ELSE <<tree>> \o stashes
  /\ tree' = {} /\ UNCHANGED <<sources, isUnmerged, edited, isLocked, runtime, updateJob, writes, launches, troubles>>

PullLatest(u) ==
  /\ IsAtStep(u, "pull") /\ head' = upstream /\ Continue(u, "reexec")
  /\ UNCHANGED <<upstream, dist, work, isLocked, runtime, updateJob, writes, launches, troubles>>

\* reexec_with_latest_updater_if_changed(): stash and files are put back, the lock is let go,
\* and the new script begins in the same process.
Reexec(u) ==
  /\ IsAtStep(u, "reexec") /\ ~updater[u].isAgain /\ updater[u].script # head
  /\ RestoreStash(u) /\ Cleanup(u)
  /\ updater' = [updater EXCEPT ![u] = [step |-> "lock", script |-> head, isAgain |-> TRUE,
                                        isStashed |-> FALSE, copy |-> 0]]
  /\ UNCHANGED <<sources, runtime, updateJob, launches, troubles>>

\* What was pulled need not have changed update.sh.
GoOn(u) ==
  /\ IsAtStep(u, "reexec") /\ Continue(u, "build")
  /\ UNCHANGED <<sources, work, isLocked, runtime, updateJob, writes, launches, troubles>>

\* install_dependencies(), rebuild_native_modules(), build_project().
Build(u) ==
  /\ IsAtStep(u, "build") /\ dist' = head /\ Continue(u, "stop")
  /\ UNCHANGED <<upstream, head, work, isLocked, runtime, updateJob, writes, launches, troubles>>

\* restart_runtime(): the process is deleted, then started.
StopRuntime(u) ==
  /\ IsAtStep(u, "stop") /\ runtime' = Off /\ updateJob' = Off /\ Continue(u, "start")
  /\ UNCHANGED <<sources, work, isLocked, writes, launches, troubles>>

StartRuntime(u) ==
  /\ IsAtStep(u, "start") /\ runtime' = dist /\ updateJob' = Off /\ Continue(u, "unstash")
  /\ UNCHANGED <<sources, work, isLocked, writes, launches, troubles>>

\* A mutation: the stash is dropped whether it could be applied or not.
FinishDropping(u) ==
  /\ IsAtStep(u, "unstash") /\ Cleanup(u) /\ updater' = [updater EXCEPT ![u] = Off]
  /\ stashes' = IF updater[u].isStashed THEN Tail(stashes) ELSE stashes
  /\ tree' \in IF updater[u].isStashed THEN {tree, tree \cup stashes[1]} ELSE {tree}
  /\ UNCHANGED <<sources, isUnmerged, edited, runtime, updateJob, launches, troubles>>

FinishUpdate(u) ==
  /\ IsAtStep(u, "unstash") /\ RestoreStash(u) /\ Cleanup(u) /\ updater' = [updater EXCEPT ![u] = Off]
  /\ UNCHANGED <<sources, runtime, updateJob, launches, troubles>>

\* A command fails, as the stash does over unmerged files: the trap runs and the stash stays.
FailUpdate(u) ==
  /\ IsInside(u) /\ updater[u].step # "backup" /\ Cleanup(u) /\ updater' = [updater EXCEPT ![u] = Off]
  /\ \/ HasTrouble
     \/ IsAtStep(u, "stash") /\ isUnmerged /\ UNCHANGED troubles
  /\ UNCHANGED <<sources, work, runtime, updateJob, launches>>

KillUpdater(u) ==
  /\ updater[u] # Off /\ HasTrouble /\ updater' = [updater EXCEPT ![u] = Off]
  /\ UNCHANGED <<sources, work, isLocked, runtime, updateJob, writes, launches>>

(***************************************************************************)
(* Operators and the runtime meanwhile.                                    *)
(***************************************************************************)
\* "If this is stale, remove".
RemoveStaleLock ==
  /\ isLocked /\ (\A u \in Updaters : ~IsInside(u)) /\ isLocked' = FALSE
  /\ UNCHANGED <<sources, work, updater, runtime, updateJob, writes, launches, troubles>>

Edit(c) ==
  /\ c \notin edited /\ edited' = edited \cup {c} /\ tree' = tree \cup {c}
  /\ UNCHANGED <<sources, isUnmerged, stashes, isLocked, updater, runtime, updateJob, writes, launches, troubles>>

\* Conflicts are resolved in the tree, or the tree is reset to look at the stash later.
ResolveConflicts ==
  /\ isUnmerged /\ isUnmerged' = FALSE /\ UNCHANGED <<stashes, edited>>
  /\ \/ UNCHANGED tree
     \/ tree' = tree \ UNION {stashes[i] : i \in DOMAIN stashes}
  /\ UNCHANGED <<sources, isLocked, updater, runtime, updateJob, writes, launches, troubles>>

SaveFiles ==
  /\ runtime # Off /\ writes < MaxWrites /\ writes' = writes + 1
  /\ UNCHANGED <<sources, work, isLocked, updater, runtime, updateJob, launches, troubles>>

RestartRuntime ==
  /\ HasTrouble /\ runtime' = dist /\ updateJob' = Off
  /\ UNCHANGED <<sources, work, isLocked, updater, writes, launches>>

Publish ==
  /\ upstream < MaxReleases /\ upstream' = upstream + 1
  /\ UNCHANGED <<head, dist, work, isLocked, updater, runtime, updateJob, writes, launches, troubles>>

UpdaterNext ==
  \/ \E u \in Updaters :
       StartUpdateJob(u) \/ RunFromShell(u) \/ AcquireLock(u) \/ BackupFiles(u) \/ StashLocalChanges(u)
       \/ PullLatest(u) \/ Reexec(u) \/ GoOn(u) \/ Build(u) \/ StopRuntime(u) \/ StartRuntime(u)
       \/ FinishUpdate(u) \/ FailUpdate(u) \/ KillUpdater(u)
  \/ RemoveStaleLock \/ \E c \in Edits : Edit(c)
  \/ ResolveConflicts \/ SaveFiles \/ RestartRuntime \/ Publish

UpdaterSpec == UpdaterInit /\ [][UpdaterNext]_updateVars
--------------------------------------------------------------------------------
\* However many updates are started, fail, are killed or begin again with a newer script,
\* one at a time is at the sources: whoever finds the lock taken leaves it alone (the trap
\* of src/update.sh is set after acquire_lock).
OneUpdateAtATime == \A u, v \in Updaters : IsInside(u) /\ IsInside(v) => u = v

\* An edit of an operator is in the working tree or in a stash, whatever becomes of the
\* updates that put it aside (stash_local_changes and restore_stash_if_needed).
EditsAreKept == edited \subseteq tree \cup UNION {stashes[i] : i \in DOMAIN stashes}
================================================================================
