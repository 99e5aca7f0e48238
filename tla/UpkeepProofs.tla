------------------------------ MODULE UpkeepProofs ------------------------------
(***************************************************************************)
(* Theorems about what is done beside the post queue: updates of the       *)
(* installation (Updater), for every number of updaters, edits, releases   *)
(* and faults, the rotation of encryption keys (KeyRotation), for every    *)
(* set of keys and credentials, the accounts that are posted with          *)
(* (BlueskyAccounts), for all of them, their destinations and calls, and   *)
(* the profile beside the posts (ProfileMirror), for all tweets.           *)
(***************************************************************************)
EXTENDS Updater, KeyRotation, BlueskyAccounts, ProfileMirror, SequenceTheorems, TLAPS

--------------------------------------------------------------------------------
(***************************************************************************)
(* Updates: one at a time.                                                 *)
(***************************************************************************)
\* Every process is at a step of the script or is not running.
ProgressOK == updater \in [Updaters -> Progress \cup {Off}]

\* Whoever is past acquire_lock() holds the lock, and is alone there.
LockInv ==
  /\ \A u \in Updaters : IsInside(u) => isLocked
  /\ OneUpdateAtATime

\* A process goes on inside, leaves, or takes the lock nobody has.
LEMMA MovesInside ==
  ASSUME NEW u \in Updaters, ProgressOK, LockInv,
         \A v \in Updaters \ {u} : updater'[v] = updater[v],
         \/ IsInside(u) /\ UNCHANGED isLocked
         \/ ~IsInside(u)' /\ (~IsInside(u) => UNCHANGED isLocked)
         \/ ~isLocked /\ isLocked'
  PROVE  LockInv'
<1>1. \A v \in Updaters \ {u} : IsInside(v)' <=> IsInside(v)
  BY DEF IsInside
<1> QED BY <1>1 DEF LockInv, OneUpdateAtATime

LEMMA LockStep ==
  ASSUME ProgressOK, LockInv, [UpdaterNext]_updateVars
  PROVE  LockInv'
<1> USE DEF ProgressOK
<1>1. ASSUME UNCHANGED <<updater, isLocked>> PROVE LockInv'
  BY <1>1 DEF LockInv, OneUpdateAtATime, IsInside
<1>2. ASSUME NEW u \in Updaters, StartUpdateJob(u) \/ RunFromShell(u)
      PROVE  LockInv'
  <2>1. /\ UNCHANGED isLocked /\ updater[u] = Off
        /\ \A v \in Updaters \ {u} : updater'[v] = updater[v]
        /\ updater'[u].step = "lock"
    BY <1>2 DEF StartUpdateJob, RunFromShell, LaunchUpdater
  <2> QED BY <2>1, MovesInside DEF IsInside
<1>3. ASSUME NEW u \in Updaters, AcquireLock(u) PROVE LockInv'
  BY <1>3, MovesInside DEF AcquireLock, IsAtStep, IsInside, Continue
<1>4. ASSUME NEW u \in Updaters,
             \/ BackupFiles(u) \/ StashLocalChanges(u) \/ PullLatest(u) \/ GoOn(u)
             \/ Build(u) \/ StopRuntime(u) \/ StartRuntime(u)
      PROVE  LockInv'
  <2>1. IsInside(u) /\ UNCHANGED isLocked /\ \A v \in Updaters \ {u} : updater'[v] = updater[v]
    BY <1>4 DEF BackupFiles, StashLocalChanges, PullLatest, GoOn, Build, StopRuntime, StartRuntime,
                Continue, IsAtStep, IsInside
  <2> QED BY <2>1, MovesInside
<1>5. ASSUME NEW u \in Updaters, Reexec(u) \/ FinishUpdate(u) \/ FailUpdate(u)
      PROVE  LockInv'
  <2>1. IsInside(u)
    BY <1>5 DEF Reexec, FinishUpdate, FailUpdate, IsAtStep, IsInside
  <2>2. ~IsInside(u)' /\ \A v \in Updaters \ {u} : updater'[v] = updater[v]
    BY <1>5 DEF Reexec, FinishUpdate, FailUpdate, IsInside
  <2> QED BY <2>1, <2>2, MovesInside
<1>6. ASSUME NEW u \in Updaters, KillUpdater(u) PROVE LockInv'
  BY <1>6, MovesInside DEF KillUpdater, IsInside
<1>7. ASSUME RemoveStaleLock PROVE LockInv'
  BY <1>7 DEF RemoveStaleLock, LockInv, OneUpdateAtATime, IsInside
<1>8. ASSUME \/ \E c \in Edits : Edit(c)
             \/ ResolveConflicts \/ SaveFiles \/ RestartRuntime \/ Publish \/ UNCHANGED updateVars
      PROVE  LockInv'
  BY <1>8, <1>1 DEF Edit, ResolveConflicts, SaveFiles, RestartRuntime, Publish, updateVars
<1> QED BY <1>2, <1>3, <1>4, <1>5, <1>6, <1>7, <1>8 DEF UpdaterNext

--------------------------------------------------------------------------------
(***************************************************************************)
(* Updates: types.                                                         *)
(***************************************************************************)
\* What a step makes of a process is a process.
LEMMA ProgressTypes ==
  ASSUME NEW x \in Progress, NEW step \in Steps, NEW b \in BOOLEAN, NEW n \in 0 .. MaxWrites
  PROVE  /\ [x EXCEPT !.step = step] \in Progress
         /\ [x EXCEPT !.step = step, !.copy = n] \in Progress
         /\ [x EXCEPT !.step = step, !.isStashed = b] \in Progress
  BY DEF Progress

\* Steps after which stash and tree are sets of edits again.
WorkOK ==
  /\ tree \subseteq Edits /\ edited \subseteq Edits /\ stashes \in Seq(SUBSET Edits) /\ isUnmerged \in BOOLEAN

\* What was stashed for a process is in the list until it is put back.
StashInv == \A u \in Updaters : updater[u] # Off /\ updater[u].isStashed => IsInside(u) /\ stashes # <<>>

UpdateInv == UpdaterTypeOK /\ LockInv /\ StashInv /\ EditsAreKept

LEMMA RestoringTheStash ==
  ASSUME NEW u \in Updaters, WorkOK, EditsAreKept, updater[u].isStashed => stashes # <<>>, RestoreStash(u)
  PROVE  WorkOK' /\ EditsAreKept'
<1>1. CASE UNCHANGED work
  BY <1>1 DEF work, WorkOK, EditsAreKept
<1>2. CASE updater[u].isStashed
  <2>1. /\ stashes # <<>> /\ stashes \in Seq(SUBSET Edits)
        /\ Len(stashes) \in Nat \ {0} /\ DOMAIN stashes = 1 .. Len(stashes)
        /\ stashes[1] \in SUBSET Edits /\ Tail(stashes) \in Seq(SUBSET Edits)
    <3>1. stashes # <<>> /\ stashes \in Seq(SUBSET Edits)
      BY <1>2 DEF WorkOK
    <3>2. Len(stashes) \in Nat \ {0} /\ DOMAIN stashes = 1 .. Len(stashes)
      BY <3>1, EmptySeq, LenProperties
    <3>3. stashes[1] \in SUBSET Edits
      BY <3>1, <3>2, ElementOfSeq
    <3> QED BY <3>1, <3>2, <3>3, HeadTailProperties
  <2>2. WorkOK'
    BY <2>1, <1>1, <1>2 DEF RestoreStash, WorkOK
  <2>3. CASE tree' = tree \cup stashes[1] /\ stashes' = Tail(stashes)
    <3>1. Len(Tail(stashes)) = Len(stashes) - 1 /\ DOMAIN Tail(stashes) = 1 .. Len(stashes) - 1
          /\ \A i \in 1 .. Len(stashes) - 1 : Tail(stashes)[i] = stashes[i + 1]
      BY <2>1, HeadTailProperties, LenProperties
    <3>2. \A c : c \in UNION {stashes[i] : i \in DOMAIN stashes}
                 => c \in stashes[1] \cup UNION {stashes'[i] : i \in DOMAIN stashes'}
      <4> SUFFICES ASSUME NEW c, NEW i \in DOMAIN stashes, c \in stashes[i], c \notin stashes[1]
                   PROVE  \E k \in DOMAIN stashes' : c \in stashes'[k]
        OBVIOUS
      <4>1. i - 1 \in DOMAIN stashes' /\ stashes'[i - 1] = stashes[i]
        BY <2>1, <2>3, <3>1
      <4> QED BY <4>1
    <3>3. edited' = edited
      BY <1>2 DEF RestoreStash
    <3> QED BY <2>2, <2>3, <3>2, <3>3 DEF EditsAreKept
  <2>4. CASE tree \subseteq tree' /\ UNCHANGED stashes
    <3>1. edited' = edited /\ edited \subseteq tree' \cup UNION {stashes[i] : i \in DOMAIN stashes}
      BY <2>4, <1>2 DEF RestoreStash, EditsAreKept
    <3> QED BY <2>2, <3>1, <2>4 DEF EditsAreKept
  <2>5. \/ tree' = tree \cup stashes[1] /\ stashes' = Tail(stashes)
        \/ tree \subseteq tree' /\ UNCHANGED stashes
    BY <1>2 DEF RestoreStash
  <2> QED BY <2>2, <2>3, <2>4, <2>5
<1> QED BY <1>1, <1>2 DEF RestoreStash

\* The part of the types a process and the saves have; the rest is WorkOK and the scalars.
ProcessOK == ProgressOK /\ writes \in 0 .. MaxWrites

ScalarsOK ==
  /\ upstream \in Release /\ head \in Release /\ dist \in Release /\ runtime \in Release \cup {Off}
  /\ isLocked \in BOOLEAN /\ updateJob \in Updaters \cup {Off}
  /\ launches \in 0 .. MaxLaunches /\ troubles \in 0 .. MaxTroubles

LEMMA TypeParts == UpdaterTypeOK <=> WorkOK /\ ProcessOK /\ ScalarsOK
  BY DEF UpdaterTypeOK, WorkOK, ProcessOK, ProgressOK, ScalarsOK

LEMMA BoundsAreNaturals ==
  MaxReleases \in Nat /\ MaxLaunches \in Nat /\ MaxWrites \in Nat /\ MaxTroubles \in Nat
  BY UpdaterAssumption

\* Scalars move inside their bounds.
LEMMA ScalarsStep ==
  ASSUME ScalarsOK, UpdaterNext
  PROVE  ScalarsOK'
<1> USE BoundsAreNaturals DEF ScalarsOK, Release, sources
<1>1. ASSUME NEW u \in Updaters, StartUpdateJob(u) \/ RunFromShell(u) PROVE ScalarsOK'
  BY <1>1 DEF StartUpdateJob, RunFromShell, LaunchUpdater
<1>2. ASSUME NEW u \in Updaters, AcquireLock(u) \/ BackupFiles(u) \/ StashLocalChanges(u) \/ GoOn(u) PROVE ScalarsOK'
  BY <1>2 DEF AcquireLock, BackupFiles, StashLocalChanges, GoOn
<1>3. ASSUME NEW u \in Updaters, PullLatest(u) \/ Build(u) \/ StopRuntime(u) \/ StartRuntime(u) PROVE ScalarsOK'
  BY <1>3 DEF PullLatest, Build, StopRuntime, StartRuntime
<1>4. ASSUME NEW u \in Updaters, Reexec(u) \/ FinishUpdate(u) \/ FailUpdate(u) \/ KillUpdater(u) PROVE ScalarsOK'
  <2>1. isLocked' \in BOOLEAN
    BY <1>4 DEF Reexec, FinishUpdate, FailUpdate, KillUpdater, Cleanup
  <2> QED BY <1>4, <2>1 DEF Reexec, FinishUpdate, FailUpdate, KillUpdater, HasTrouble
<1>5. ASSUME \/ \E c \in Edits : Edit(c)
             \/ RemoveStaleLock \/ ResolveConflicts \/ SaveFiles \/ RestartRuntime \/ Publish
      PROVE  ScalarsOK'
  <2>1. isLocked' \in BOOLEAN
    BY <1>5 DEF Edit, RemoveStaleLock, ResolveConflicts, SaveFiles, RestartRuntime, Publish
  <2> QED BY <1>5, <2>1 DEF Edit, RemoveStaleLock, ResolveConflicts, SaveFiles, RestartRuntime, Publish, HasTrouble
<1> QED BY <1>1, <1>2, <1>3, <1>4, <1>5 DEF UpdaterNext

\* A process goes from one step of the script to the next; its copy is what was saved then.
LEMMA ProcessStep ==
  ASSUME ProcessOK, ScalarsOK, UpdaterNext
  PROVE  ProcessOK'
<1> USE DEF ProcessOK, ProgressOK
<1>1. ASSUME NEW u \in Updaters, StartUpdateJob(u) \/ RunFromShell(u) PROVE ProcessOK'
  <2>1. head \in Release /\ 0 \in 0 .. MaxWrites
    BY BoundsAreNaturals DEF ScalarsOK
  <2>2. [step |-> "lock", script |-> head, isAgain |-> FALSE, isStashed |-> FALSE, copy |-> 0] \in Progress
    BY <2>1 DEF Progress, Steps
  <2> QED BY <1>1, <2>2 DEF StartUpdateJob, RunFromShell, LaunchUpdater
<1>2. ASSUME NEW u \in Updaters, NEW s \in Steps, updater[u] # Off, Continue(u, s), UNCHANGED writes
      PROVE  ProcessOK'
  <2>1. [updater[u] EXCEPT !.step = s] \in Progress
    BY <1>2 DEF Progress
  <2> QED BY <1>2, <2>1 DEF Continue
<1>3. ASSUME NEW u \in Updaters,
             \/ (AcquireLock(u) /\ ~isLocked) \/ PullLatest(u) \/ GoOn(u) \/ Build(u)
             \/ StopRuntime(u) \/ StartRuntime(u)
      PROVE  ProcessOK'
  <2>1. updater[u] # Off /\ UNCHANGED writes /\ \E s \in Steps : Continue(u, s)
    BY <1>3 DEF AcquireLock, PullLatest, GoOn, Build, StopRuntime, StartRuntime, IsAtStep, Steps
  <2> QED BY <2>1, <1>2
<1>4. ASSUME NEW u \in Updaters, AcquireLock(u) /\ isLocked PROVE ProcessOK'
  BY <1>4 DEF AcquireLock
<1>5. ASSUME NEW u \in Updaters, BackupFiles(u) PROVE ProcessOK'
  <2>1. updater[u] \in Progress
    BY <1>5 DEF BackupFiles, IsAtStep
  <2>2. [updater[u] EXCEPT !.step = "stash", !.copy = writes] \in Progress
    BY <2>1 DEF Progress, Steps
  <2> QED BY <1>5, <2>2 DEF BackupFiles
<1>6. ASSUME NEW u \in Updaters, StashLocalChanges(u) PROVE ProcessOK'
  <2>1. updater[u] \in Progress
    BY <1>6 DEF StashLocalChanges, IsAtStep
  <2>2. [updater[u] EXCEPT !.step = "pull", !.isStashed = tree # {} /\ stashes = <<>>] \in Progress
    BY <2>1 DEF Progress, Steps
  <2> QED BY <1>6, <2>2 DEF StashLocalChanges
<1>7. ASSUME NEW u \in Updaters, Reexec(u) \/ FinishUpdate(u) \/ FailUpdate(u) PROVE ProcessOK'
  <2>1. updater[u] \in Progress /\ writes' = updater[u].copy
    BY <1>7 DEF Reexec, FinishUpdate, FailUpdate, IsAtStep, IsInside, Cleanup
  <2>2. writes' \in 0 .. MaxWrites
    BY <2>1 DEF Progress
  <2>3. head \in Release /\ 0 \in 0 .. MaxWrites
    BY BoundsAreNaturals DEF ScalarsOK
  <2>4. [step |-> "lock", script |-> head, isAgain |-> TRUE, isStashed |-> FALSE, copy |-> 0] \in Progress
    BY <2>3 DEF Progress, Steps
  <2>5. updater' \in [Updaters -> Progress \cup {Off}]
    BY <1>7, <2>4 DEF Reexec, FinishUpdate, FailUpdate
  <2> QED BY <2>2, <2>5
<1>8. ASSUME NEW u \in Updaters, KillUpdater(u) PROVE ProcessOK'
  BY <1>8 DEF KillUpdater
<1>9. ASSUME \/ \E c \in Edits : Edit(c)
             \/ RemoveStaleLock \/ ResolveConflicts \/ SaveFiles \/ RestartRuntime \/ Publish
      PROVE  ProcessOK'
  BY <1>9, BoundsAreNaturals DEF Edit, RemoveStaleLock, ResolveConflicts, SaveFiles, RestartRuntime, Publish
<1> QED BY <1>1, <1>3, <1>4, <1>5, <1>6, <1>7, <1>8, <1>9 DEF UpdaterNext

\* Edits stay in the tree or go to a stash; what a process stashed waits for it.
LEMMA WorkStep ==
  ASSUME ProgressOK, WorkOK, LockInv, StashInv, EditsAreKept, UpdaterNext
  PROVE  WorkOK' /\ StashInv' /\ EditsAreKept'
<1> USE DEF ProgressOK
<1>1. ASSUME NEW u \in Updaters, Reexec(u) \/ FinishUpdate(u)
      PROVE  WorkOK' /\ StashInv' /\ EditsAreKept'
  <2>1. RestoreStash(u) /\ IsInside(u)
    BY <1>1 DEF Reexec, FinishUpdate, IsAtStep, IsInside
  <2>2. updater[u].isStashed => stashes # <<>>
    BY <2>1 DEF StashInv, IsInside
  <2>3. WorkOK' /\ EditsAreKept'
    BY <2>1, <2>2, RestoringTheStash
  <2>4. /\ \A v \in Updaters \ {u} : updater'[v] = updater[v]
        /\ updater'[u] = Off \/ ~updater'[u].isStashed
    BY <1>1 DEF Reexec, FinishUpdate
  <2>5. ASSUME NEW v \in Updaters \ {u}, updater[v] # Off PROVE ~updater[v].isStashed
    BY <2>1, <2>5 DEF StashInv, LockInv, OneUpdateAtATime
  <2>6. StashInv'
    BY <2>4, <2>5 DEF StashInv
  <2> QED BY <2>3, <2>6
<1>2. ASSUME NEW u \in Updaters, StashLocalChanges(u)
      PROVE  WorkOK' /\ StashInv' /\ EditsAreKept'
  <2>1. tree' = {} /\ edited' = edited /\ isUnmerged' = isUnmerged
    BY <1>2 DEF StashLocalChanges
  <2>2. CASE tree = {}
    <3>1. UNCHANGED stashes
      BY <1>2, <2>2 DEF StashLocalChanges
    <3>2. WorkOK' /\ EditsAreKept'
      BY <2>1, <2>2, <3>1 DEF WorkOK, EditsAreKept
    <3>3. \A v \in Updaters \ {u} : updater'[v] = updater[v]
      BY <1>2 DEF StashLocalChanges
    <3>4. ~updater'[u].isStashed
      <4>1. updater[u] \in Progress /\ ~(tree # {} /\ stashes = <<>>)
        BY <1>2, <2>2 DEF StashLocalChanges, IsAtStep
      <4>2. updater'[u] = [updater[u] EXCEPT !.step = "pull", !.isStashed = tree # {} /\ stashes = <<>>]
        BY <1>2 DEF StashLocalChanges
      <4> QED BY <4>1, <4>2 DEF Progress
    <3> QED BY <3>1, <3>2, <3>3, <3>4 DEF StashInv, IsInside
  <2>3. CASE tree # {}
    <3>1. stashes' = <<tree>> \o stashes
      BY <1>2, <2>3 DEF StashLocalChanges
    <3>2. <<tree>> \in Seq(SUBSET Edits) /\ stashes \in Seq(SUBSET Edits) /\ Len(<<tree>>) = 1
      BY DEF WorkOK
    <3>3. /\ stashes' \in Seq(SUBSET Edits) /\ Len(stashes') = 1 + Len(stashes) /\ Len(stashes) \in Nat
          /\ \A i \in 1 .. Len(stashes') : stashes'[i] = IF i <= 1 THEN <<tree>>[i] ELSE stashes[i - 1]
      BY <3>1, <3>2, ConcatProperties, LenProperties
    <3>4. DOMAIN stashes' = 1 .. 1 + Len(stashes) /\ DOMAIN stashes = 1 .. Len(stashes)
      BY <3>2, <3>3, LenProperties
    <3>5. stashes'[1] = tree /\ \A i \in 1 .. Len(stashes) : i + 1 \in DOMAIN stashes' /\ stashes'[i + 1] = stashes[i]
      BY <3>3, <3>4
    <3>6. WorkOK'
      BY <2>1, <3>3 DEF WorkOK
    <3>7. EditsAreKept'
      <4> SUFFICES ASSUME NEW c \in edited PROVE \E k \in DOMAIN stashes' : c \in stashes'[k]
        BY <2>1 DEF EditsAreKept
      <4>1. CASE c \in tree
        BY <4>1, <3>3, <3>4, <3>5
      <4>2. CASE \E i \in DOMAIN stashes : c \in stashes[i]
        BY <4>2, <3>4, <3>5
      <4> QED BY <4>1, <4>2 DEF EditsAreKept
    <3>8. stashes' # <<>>
      BY <3>3, EmptySeq
    <3>9. /\ \A v \in Updaters \ {u} : updater'[v] = updater[v]
          /\ IsInside(u)'
      <4>1. updater[u] \in Progress /\ \A v \in Updaters \ {u} : updater'[v] = updater[v]
        BY <1>2 DEF StashLocalChanges, IsAtStep
      <4>2. updater'[u] = [updater[u] EXCEPT !.step = "pull", !.isStashed = tree # {} /\ stashes = <<>>]
        BY <1>2 DEF StashLocalChanges
      <4>3. updater'[u] \in Progress /\ updater'[u].step = "pull"
        BY <4>1, <4>2 DEF Progress, Steps
      <4>4. updater'[u] # Off
        BY <4>3, UpdaterAssumption
      <4> QED BY <4>1, <4>3, <4>4 DEF IsInside
    <3>10. StashInv'
      <4> SUFFICES ASSUME NEW v \in Updaters, (updater[v] # Off /\ updater[v].isStashed)'
                   PROVE  IsInside(v)' /\ stashes' # <<>>
        BY DEF StashInv
      <4>1. CASE v = u
        BY <4>1, <3>8, <3>9
      <4>2. CASE v # u
        BY <4>2, <3>8, <3>9 DEF StashInv, IsInside
      <4> QED BY <4>1, <4>2
    <3> QED BY <3>6, <3>7, <3>10
  <2> QED BY <2>2, <2>3
<1>3. ASSUME NEW u \in Updaters, StartUpdateJob(u) \/ RunFromShell(u)
      PROVE  WorkOK' /\ StashInv' /\ EditsAreKept'
  <2>1. UNCHANGED work
    BY <1>3 DEF StartUpdateJob, RunFromShell
  <2>2. \A v \in Updaters \ {u} : updater'[v] = updater[v]
    BY <1>3 DEF StartUpdateJob, RunFromShell, LaunchUpdater
  <2>3. ~updater'[u].isStashed
    BY <1>3 DEF StartUpdateJob, RunFromShell, LaunchUpdater
  <2> QED BY <2>1, <2>2, <2>3 DEF work, WorkOK, StashInv, EditsAreKept, IsInside
<1>4. ASSUME NEW u \in Updaters,
             \/ AcquireLock(u) \/ BackupFiles(u) \/ PullLatest(u) \/ GoOn(u) \/ Build(u)
             \/ StopRuntime(u) \/ StartRuntime(u) \/ FailUpdate(u) \/ KillUpdater(u)
      PROVE  WorkOK' /\ StashInv' /\ EditsAreKept'
  <2>1. UNCHANGED work
    BY <1>4 DEF AcquireLock, BackupFiles, PullLatest, GoOn, Build, StopRuntime, StartRuntime, FailUpdate, KillUpdater
  <2>2. \A v \in Updaters \ {u} : updater'[v] = updater[v]
    BY <1>4 DEF AcquireLock, BackupFiles, PullLatest, GoOn, Build, StopRuntime, StartRuntime, FailUpdate,
                KillUpdater, Continue
  <2>3. updater[u] # Off
    BY <1>4 DEF AcquireLock, BackupFiles, PullLatest, GoOn, Build, StopRuntime, StartRuntime, FailUpdate,
                KillUpdater, IsAtStep, IsInside
  <2>4. \/ updater'[u] = Off
        \/ updater'[u].step # "lock" /\ updater'[u].isStashed = updater[u].isStashed
    BY <1>4, <2>3 DEF AcquireLock, BackupFiles, PullLatest, GoOn, Build, StopRuntime, StartRuntime, FailUpdate,
                KillUpdater, Continue, Progress
  <2> QED BY <2>1, <2>2, <2>3, <2>4 DEF work, WorkOK, StashInv, EditsAreKept, IsInside
<1>5. ASSUME NEW c \in Edits, Edit(c)
      PROVE  WorkOK' /\ StashInv' /\ EditsAreKept'
  BY <1>5 DEF Edit, WorkOK, StashInv, EditsAreKept, IsInside
<1>6. ASSUME ResolveConflicts
      PROVE  WorkOK' /\ StashInv' /\ EditsAreKept'
  BY <1>6 DEF ResolveConflicts, WorkOK, StashInv, EditsAreKept, IsInside
<1>7. ASSUME RemoveStaleLock \/ SaveFiles \/ RestartRuntime \/ Publish
      PROVE  WorkOK' /\ StashInv' /\ EditsAreKept'
  BY <1>7 DEF RemoveStaleLock, SaveFiles, RestartRuntime, Publish, work, WorkOK, StashInv, EditsAreKept, IsInside
<1> QED BY <1>1, <1>2, <1>3, <1>4, <1>5, <1>6, <1>7 DEF UpdaterNext

LEMMA UpdateInit == UpdaterInit => UpdateInv
<1> SUFFICES ASSUME UpdaterInit PROVE UpdateInv
  OBVIOUS
<1>1. ScalarsOK
  <2>1. isLocked \in BOOLEAN
    BY DEF UpdaterInit
  <2> QED BY <2>1, BoundsAreNaturals DEF UpdaterInit, ScalarsOK, Release
<1>2. ProcessOK
  BY BoundsAreNaturals DEF UpdaterInit, ProcessOK, ProgressOK
<1>3. WorkOK
  BY EmptySeq DEF UpdaterInit, WorkOK
<1>4. LockInv /\ StashInv /\ EditsAreKept
  BY DEF UpdaterInit, LockInv, OneUpdateAtATime, IsInside, StashInv, EditsAreKept
<1> QED BY <1>1, <1>2, <1>3, <1>4, TypeParts DEF UpdateInv

LEMMA UpdateStep == UpdateInv /\ [UpdaterNext]_updateVars => UpdateInv'
<1> SUFFICES ASSUME UpdateInv, [UpdaterNext]_updateVars PROVE UpdateInv'
  OBVIOUS
<1>1. WorkOK /\ ProcessOK /\ ScalarsOK /\ LockInv /\ StashInv /\ EditsAreKept /\ ProgressOK
  BY TypeParts DEF UpdateInv, ProcessOK
<1>2. LockInv'
  BY <1>1, LockStep
<1>3. CASE UpdaterNext
  <2>1. ScalarsOK' /\ ProcessOK'
    BY <1>1, <1>3, ScalarsStep, ProcessStep
  <2>2. WorkOK' /\ StashInv' /\ EditsAreKept'
    BY <1>1, <1>3, WorkStep
  <2>3. UpdaterTypeOK'
    BY <2>1, <2>2 DEF UpdaterTypeOK, WorkOK, ProcessOK, ProgressOK, ScalarsOK
  <2> QED BY <1>2, <2>2, <2>3 DEF UpdateInv
<1>4. CASE UNCHANGED updateVars
  BY <1>4, <1>2 DEF updateVars, sources, work, UpdateInv, UpdaterTypeOK, StashInv, EditsAreKept, IsInside, Release
<1> QED BY <1>3, <1>4

LEMMA UpdateInvariant == UpdaterSpec => []UpdateInv
<1> QED BY UpdateInit, UpdateStep, PTL DEF UpdaterSpec

\* The state of an update is what src/update.sh keeps: a release checked out, a list of
\* stashes, a lock, and a step for every process that runs it.
THEOREM UpdaterTyping == UpdaterSpec => []UpdaterTypeOK
<1>1. UpdateInv => UpdaterTypeOK
  BY DEF UpdateInv
<1> QED BY <1>1, UpdateInvariant, PTL

\* Whatever number of updates are started from the server and from shells, however they fail,
\* are killed or begin again with the script they pulled, one is between acquire_lock() and
\* its trap.
THEOREM UpdatesAreExclusive == UpdaterSpec => []OneUpdateAtATime
<1>1. UpdateInv => OneUpdateAtATime
  BY DEF UpdateInv, LockInv
<1> QED BY <1>1, UpdateInvariant, PTL

\* No update loses an edit of the operator: stash_local_changes() moves it to the list of
\* stashes, and restore_stash_if_needed() takes from the list only what it put in the tree.
THEOREM EditsStay == UpdaterSpec => []EditsAreKept
<1>1. UpdateInv => EditsAreKept
  BY DEF UpdateInv
<1> QED BY <1>1, UpdateInvariant, PTL

--------------------------------------------------------------------------------
(***************************************************************************)
(* Rotations of the encryption key.                                        *)
(***************************************************************************)
\* The document stays under the key a rotation was given until it is replaced, and so do
\* the secrets the rotation has read.
RotationInv ==
  rotation # Nothing =>
    /\ rotation.step # "commit" =>
         documentKey \in {rotation.old, Plain} /\ (documentKey = Plain => serverKey = rotation.old)
    /\ rotation.step = "commit" => documentKey = rotation.new
    /\ rotation.step \in {"begin", "replace", "commit"} => given = {rotation.old, rotation.new}
    /\ rotation.step \in {"copy", "begin", "replace"} => \A s \in Secured(secretKey) : secretKey[s] = rotation.old
    /\ rotation.step = "commit" => \A s \in Secured(secretKey) : secretKey[s] \in given

\* A transaction belongs to a rotation that has copied the document.
TransactionInv ==
  /\ (rotation = Nothing \/ rotation.step \notin {"replace", "commit"}) => transaction = Nothing
  /\ transaction # Nothing => \A s \in Secured(transaction) : transaction[s] \in given

\* A start with another key is one that the document asks for: the server's key counts
\* only while the document is plaintext.
KeysInv ==
  \A s \in Signers : secretKey[s] # Nothing /\ ~isRevoked[s] =>
    \/ secretKey[s] \in {documentKey} \cup given
    \/ documentKey = Plain /\ secretKey[s] = serverKey

RotationsInv == KeyTypeOK /\ RotationInv /\ TransactionInv /\ KeysInv

LEMMA RotationFields ==
  ASSUME NEW r \in Rotations, NEW sec \in SUBSET Signers, NEW c \in Key,
         NEW step \in {"secrets", "copy", "begin", "replace", "commit"}
  PROVE  /\ [r EXCEPT !.step = step] \in Rotations
         /\ [r EXCEPT !.secrets = sec, !.step = step] \in Rotations
         /\ [r EXCEPT !.copy = c, !.step = step] \in Rotations
  BY DEF Rotations

LEMMA KeyTypesStep ==
  ASSUME KeyTypeOK, KeyNext
  PROVE  KeyTypeOK'
<1> USE KeyAssumption DEF stores
<1>1. ASSUME NEW k \in Key, Restart(k) PROVE KeyTypeOK'
  BY <1>1 DEF Restart, KeyTypeOK
<1>2. ASSUME NEW k \in Key, NEW new \in Keys, Rotate(k, new) PROVE KeyTypeOK'
  <2>1. rotation' \in Rotations
    BY <1>2 DEF Rotate, KeyTypeOK, Rotations
  <2> QED BY <1>2, <2>1 DEF Rotate, KeyTypeOK
<1>3. ASSUME SaveDocument \/ ExportDatabase PROVE KeyTypeOK'
  BY <1>3 DEF SaveDocument, ExportDatabase, KeyTypeOK
<1>4. ASSUME RestoreDatabase PROVE KeyTypeOK'
  <2>1. isRevoked' \in [Signers -> BOOLEAN]
    BY <1>4 DEF RestoreDatabase
  <2> QED BY <1>4, <2>1 DEF RestoreDatabase, KeyTypeOK
<1>5. ASSUME NEW s \in Signers, CreateCredential(s) PROVE KeyTypeOK'
  <2>1. serverKey \in Keys
    BY <1>5 DEF CreateCredential, KeyTypeOK, Key
  <2> QED BY <1>5, <2>1 DEF CreateCredential, KeyTypeOK, Encryptions
<1>6. ASSUME NEW s \in Signers, RevokeCredential(s) PROVE KeyTypeOK'
  <2>1. isRevoked' \in [Signers -> BOOLEAN]
    BY <1>6 DEF RevokeCredential, KeyTypeOK
  <2> QED BY <1>6, <2>1 DEF RevokeCredential, KeyTypeOK
<1>7. ASSUME ReadSecrets PROVE KeyTypeOK'
  <2>1. rotation' \in Rotations \cup {Nothing}
    BY <1>7, RotationFields DEF ReadSecrets, IsAt, KeyTypeOK, Secured
  <2> QED BY <1>7, <2>1 DEF ReadSecrets, KeyTypeOK
<1>8. ASSUME CopyDocument PROVE KeyTypeOK'
  <2>1. rotation' \in Rotations
    BY <1>8, RotationFields DEF CopyDocument, IsAt, KeyTypeOK
  <2>2. given' \subseteq Key
    BY <1>8 DEF CopyDocument, IsAt, KeyTypeOK, Rotations, Key
  <2> QED BY <1>8, <2>1, <2>2 DEF CopyDocument, KeyTypeOK
<1>9. ASSUME UpdateSecrets PROVE KeyTypeOK'
  <2>1. rotation' \in Rotations /\ rotation \in Rotations
    BY <1>9, RotationFields DEF UpdateSecrets, Go, IsAt, KeyTypeOK
  <2>2. transaction' \in Encryptions \cup {Nothing}
    BY <1>9, <2>1 DEF UpdateSecrets, Rotations, Encryptions, KeyTypeOK
  <2> QED BY <1>9, <2>1, <2>2 DEF UpdateSecrets, KeyTypeOK
<1>10. ASSUME ReplaceDocument PROVE KeyTypeOK'
  <2>1. rotation' \in Rotations /\ rotation \in Rotations
    BY <1>10, RotationFields DEF ReplaceDocument, Go, IsAt, KeyTypeOK
  <2>2. documentKey' \in Key
    BY <1>10, <2>1 DEF ReplaceDocument, Rotations, Key
  <2> QED BY <1>10, <2>1, <2>2 DEF ReplaceDocument, KeyTypeOK
<1>11. ASSUME Commit PROVE KeyTypeOK'
  BY <1>11 DEF Commit, KeyTypeOK
<1>12. ASSUME FailRotation \/ KillRotation PROVE KeyTypeOK'
  <2>1. rotation \in Rotations
    BY <1>12 DEF FailRotation, KillRotation, KeyTypeOK
  <2>2. documentKey' \in Key
    BY <1>12, <2>1 DEF FailRotation, KillRotation, KeyTypeOK, Rotations
  <2> QED BY <1>12, <2>2 DEF FailRotation, KillRotation, KeyTypeOK
<1> QED BY <1>1, <1>2, <1>3, <1>4, <1>5, <1>6, <1>7, <1>8, <1>9, <1>10, <1>11, <1>12 DEF KeyNext

\* What a rotation does next.
LEMMA RotationMoves ==
  ASSUME RotationsInv, ReadSecrets \/ CopyDocument \/ UpdateSecrets \/ ReplaceDocument
  PROVE  RotationInv' /\ TransactionInv' /\ KeysInv'
<1>1. rotation \in Rotations
  BY DEF RotationsInv, KeyTypeOK, ReadSecrets, CopyDocument, UpdateSecrets, ReplaceDocument, IsAt
<1> USE DEF RotationsInv, IsAt, Go, stores
<1>2. ASSUME ReadSecrets PROVE RotationInv' /\ TransactionInv' /\ KeysInv'
  <2>1. transaction' = Nothing /\ KeysInv'
    BY <1>2 DEF ReadSecrets, TransactionInv, KeysInv
  <2>2. \/ rotation' = Nothing
        \/ /\ rotation'.step = "copy" /\ rotation'.old = rotation.old
           /\ \A s \in Secured(secretKey) : secretKey[s] = rotation.old
    <3>1. CASE \A s \in Secured(secretKey) : secretKey[s] = rotation.old
      <4>1. rotation' = [rotation EXCEPT !.secrets = Secured(secretKey), !.step = "copy"]
        BY <1>2, <3>1 DEF ReadSecrets
      <4> QED BY <1>1, <3>1, <4>1 DEF Rotations
    <3>2. CASE ~\A s \in Secured(secretKey) : secretKey[s] = rotation.old
      BY <1>2, <3>2 DEF ReadSecrets
    <3> QED BY <3>1, <3>2
  <2>3. RotationInv'
    BY <1>2, <2>2 DEF ReadSecrets, RotationInv, Secured
  <2> QED BY <2>1, <2>3 DEF TransactionInv
<1>3. ASSUME CopyDocument PROVE RotationInv' /\ TransactionInv' /\ KeysInv'
  <2>1. /\ rotation'.step = "begin" /\ rotation'.old = rotation.old /\ rotation'.new = rotation.new
        /\ given' = {rotation.old, rotation.new}
        /\ UNCHANGED <<documentKey, secretKey, isRevoked, transaction, serverKey>>
    BY <1>1, <1>3 DEF CopyDocument, Rotations
  <2>2. transaction' = Nothing
    BY <1>3 DEF CopyDocument, TransactionInv
  <2>3. \A s \in Secured(secretKey) : secretKey[s] = rotation.old
    BY <1>3 DEF CopyDocument, RotationInv
  <2>4. documentKey \in {rotation.old, Plain} /\ (documentKey = Plain => serverKey = rotation.old)
    BY <1>3 DEF CopyDocument, RotationInv
  <2>5. RotationInv'
    BY <2>1, <2>3, <2>4 DEF RotationInv, Secured
  <2>6. KeysInv'
    BY <2>1, <2>3 DEF KeysInv, Secured
  <2> QED BY <2>2, <2>5, <2>6 DEF TransactionInv
<1>4. ASSUME UpdateSecrets PROVE RotationInv' /\ TransactionInv' /\ KeysInv'
  <2>1. /\ rotation'.step = "replace" /\ rotation'.old = rotation.old /\ rotation'.new = rotation.new
        /\ UNCHANGED <<given, documentKey, secretKey, isRevoked, serverKey>>
    BY <1>1, <1>4 DEF UpdateSecrets, Rotations
  <2>2. /\ given = {rotation.old, rotation.new}
        /\ \A s \in Secured(secretKey) : secretKey[s] = rotation.old
        /\ documentKey \in {rotation.old, Plain} /\ (documentKey = Plain => serverKey = rotation.old)
    BY <1>4 DEF UpdateSecrets, RotationInv
  <2>3. RotationInv'
    BY <2>1, <2>2 DEF RotationInv, Secured
  <2>4. transaction' # Nothing => \A s \in Secured(transaction') : transaction'[s] \in given
    BY <1>4, <2>2 DEF UpdateSecrets, Secured
  <2>5. rotation' # Nothing
    <3>1. rotation' = [rotation EXCEPT !.step = "replace"]
      BY <1>4 DEF UpdateSecrets
    <3>2. rotation' \in Rotations
      BY <1>1, <3>1 DEF Rotations
    <3> QED BY <3>2, KeyAssumption
  <2> QED BY <1>4, <2>1, <2>3, <2>4, <2>5 DEF TransactionInv, KeysInv, Secured
<1>5. ASSUME ReplaceDocument PROVE RotationInv' /\ TransactionInv' /\ KeysInv'
  <2>1. /\ rotation'.step = "commit" /\ rotation'.old = rotation.old /\ rotation'.new = rotation.new
        /\ documentKey' = rotation.new
        /\ UNCHANGED <<given, secretKey, isRevoked, transaction, serverKey>>
    BY <1>1, <1>5 DEF ReplaceDocument, Rotations
  <2>2. /\ given = {rotation.old, rotation.new}
        /\ \A s \in Secured(secretKey) : secretKey[s] = rotation.old
    BY <1>5 DEF ReplaceDocument, RotationInv
  <2>3. RotationInv'
    BY <2>1, <2>2 DEF RotationInv, Secured
  <2>4. rotation' # Nothing
    <3>1. rotation' = [rotation EXCEPT !.step = "commit"]
      BY <1>5 DEF ReplaceDocument
    <3>2. rotation' \in Rotations
      BY <1>1, <3>1 DEF Rotations
    <3> QED BY <3>2, KeyAssumption
  <2>5. KeysInv'
    BY <2>1, <2>2 DEF KeysInv, Secured
  <2> QED BY <2>1, <2>3, <2>4, <2>5 DEF TransactionInv, Secured
<1> QED BY <1>2, <1>3, <1>4, <1>5

LEMMA RotationEnds ==
  ASSUME RotationsInv, Commit \/ FailRotation \/ KillRotation
  PROVE  RotationInv' /\ TransactionInv' /\ KeysInv'
<1>1. rotation' = Nothing /\ transaction' = Nothing /\ rotation \in Rotations
  BY DEF RotationsInv, KeyTypeOK, Commit, FailRotation, KillRotation, IsAt
<1>2. RotationInv' /\ TransactionInv'
  BY <1>1 DEF RotationInv, TransactionInv
<1>3. ASSUME Commit PROVE KeysInv'
  <2>1. UNCHANGED <<documentKey, given, isRevoked, serverKey>>
    BY <1>3 DEF Commit
  <2>2. CASE transaction = Nothing
    <3>1. UNCHANGED secretKey
      BY <1>3, <2>2 DEF Commit
    <3> QED BY <2>1, <3>1 DEF RotationsInv, KeysInv
  <2>3. CASE transaction # Nothing
    <3>1. secretKey' = transaction /\ \A s \in Secured(transaction) : transaction[s] \in given
      BY <1>3, <2>3 DEF Commit, RotationsInv, TransactionInv
    <3> QED BY <2>1, <3>1 DEF KeysInv, Secured
  <2> QED BY <2>2, <2>3
<1>4. ASSUME FailRotation PROVE KeysInv'
  <2>1. CASE IsAt("commit")
    <3>1. \A s \in Secured(secretKey) : secretKey[s] \in given
      BY <2>1 DEF RotationsInv, RotationInv, IsAt
    <3>2. UNCHANGED <<given, secretKey, isRevoked>>
      BY <1>4 DEF FailRotation
    <3> QED BY <3>1, <3>2 DEF KeysInv, Secured
  <2>2. CASE ~IsAt("commit")
    BY <2>2, <1>4 DEF FailRotation, RotationsInv, KeysInv
  <2> QED BY <2>1, <2>2
<1>5. ASSUME KillRotation PROVE KeysInv'
  BY <1>5 DEF KillRotation, RotationsInv, KeysInv, stores
<1> QED BY <1>2, <1>3, <1>4, <1>5

\* What the server and its operators do, a rotation being under way or not.
LEMMA OthersMove ==
  ASSUME RotationsInv,
         \/ \E k \in Key : Restart(k) \/ \E new \in Keys : Rotate(k, new)
         \/ SaveDocument \/ ExportDatabase \/ RestoreDatabase
         \/ \E s \in Signers : CreateCredential(s) \/ RevokeCredential(s)
  PROVE  RotationInv' /\ TransactionInv' /\ KeysInv'
<1> USE KeyAssumption DEF RotationsInv, stores
<1>1. ASSUME NEW k \in Key, Restart(k) PROVE RotationInv' /\ TransactionInv' /\ KeysInv'
  <2>1. \A s \in Signers : secretKey[s] # Nothing => secretKey[s] \in Keys
    BY DEF KeyTypeOK, Encryptions
  <2>2. /\ rotation = Nothing /\ UNCHANGED <<documentKey, given, secretKey, isRevoked, transaction, rotation>>
        /\ documentKey = Plain => serverKey \in {serverKey', Plain}
    BY <1>1 DEF Restart
  <2>3. RotationInv' /\ TransactionInv'
    BY <2>2 DEF RotationInv, TransactionInv
  <2>4. KeysInv'
    <3> SUFFICES ASSUME NEW s \in Signers, secretKey[s] # Nothing, ~isRevoked[s]
                 PROVE  \/ secretKey[s] \in {documentKey} \cup given
                        \/ documentKey = Plain /\ secretKey[s] = serverKey'
      BY <2>2 DEF KeysInv
    <3>1. \/ secretKey[s] \in {documentKey} \cup given
          \/ documentKey = Plain /\ secretKey[s] = serverKey
      BY DEF KeysInv
    <3> QED BY <2>1, <2>2, <3>1
  <2> QED BY <2>3, <2>4
<1>2. ASSUME NEW k \in Key, NEW new \in Keys, Rotate(k, new) PROVE RotationInv' /\ TransactionInv' /\ KeysInv'
  <2>1. transaction = Nothing /\ UNCHANGED <<stores, transaction, serverKey>>
    BY <1>2 DEF Rotate, TransactionInv
  <2>2. rotation'.step = "secrets" /\ rotation'.old = k
    BY <1>2 DEF Rotate
  <2>3. RotationInv'
    BY <1>2, <2>1, <2>2 DEF Rotate, RotationInv, Reads
  <2> QED BY <2>1, <2>3 DEF TransactionInv, KeysInv
<1>3. ASSUME SaveDocument PROVE RotationInv' /\ TransactionInv' /\ KeysInv'
  <2>1. rotation # Nothing /\ rotation.step = "commit" => rotation.new \in Keys
    BY DEF KeyTypeOK, Rotations
  <2>2. RotationInv'
    BY <1>3, <2>1 DEF SaveDocument, RotationInv, Reads
  <2>3. KeysInv'
    <3>1. \A s \in Signers : secretKey[s] # Nothing => secretKey[s] # Plain
      BY DEF KeyTypeOK, Encryptions
    <3>2. UNCHANGED <<given, secretKey, isRevoked, serverKey>> /\ documentKey' = serverKey
          /\ documentKey \in {serverKey, Plain}
      BY <1>3 DEF SaveDocument, Reads
    <3> QED BY <3>1, <3>2 DEF KeysInv
  <2>4. TransactionInv'
    BY <1>3 DEF SaveDocument, TransactionInv, Secured
  <2> QED BY <2>2, <2>3, <2>4
<1>4. ASSUME ExportDatabase PROVE RotationInv' /\ TransactionInv' /\ KeysInv'
  BY <1>4 DEF ExportDatabase, RotationInv, TransactionInv, KeysInv
<1>5. ASSUME RestoreDatabase PROVE RotationInv' /\ TransactionInv' /\ KeysInv'
  <2>1. \A s \in Signers : secretKey'[s] # Nothing => isRevoked'[s]
    BY <1>5 DEF RestoreDatabase
  <2> QED BY <1>5, <2>1 DEF RestoreDatabase, RotationInv, TransactionInv, KeysInv
<1>6. ASSUME NEW s \in Signers, CreateCredential(s) PROVE RotationInv' /\ TransactionInv' /\ KeysInv'
  <2>1. /\ \A r \in Signers \ {s} : secretKey'[r] = secretKey[r]
        /\ secretKey'[s] = serverKey /\ documentKey \in {serverKey, Plain} /\ serverKey # Plain
        /\ UNCHANGED <<documentKey, given, isRevoked, transaction, serverKey, rotation>>
    BY <1>6 DEF CreateCredential, KeyTypeOK, Encryptions, Reads
  <2>2. rotation # Nothing /\ rotation.step = "commit" => rotation.new \in Keys
    BY DEF KeyTypeOK, Rotations
  <2>3. RotationInv'
    BY <2>1, <2>2 DEF RotationInv, Secured
  <2>4. KeysInv'
    BY <2>1 DEF KeysInv
  <2> QED BY <2>1, <2>3, <2>4 DEF TransactionInv
<1>7. ASSUME NEW s \in Signers, RevokeCredential(s) PROVE RotationInv' /\ TransactionInv' /\ KeysInv'
  <2>1. \A r \in Signers : isRevoked[r] => isRevoked'[r]
    BY <1>7 DEF RevokeCredential, KeyTypeOK
  <2> QED BY <1>7, <2>1 DEF RevokeCredential, RotationInv, TransactionInv, KeysInv
<1> QED BY <1>1, <1>2, <1>3, <1>4, <1>5, <1>6, <1>7

LEMMA RotationsInvariant == KeySpec => []RotationsInv
<1>1. KeyInit => RotationsInv
  <2> SUFFICES ASSUME KeyInit PROVE RotationsInv
    OBVIOUS
  <2>1. isRevoked \in [Signers -> BOOLEAN]
    BY DEF KeyInit
  <2>2. KeyTypeOK
    BY <2>1, KeyAssumption DEF KeyInit, KeyTypeOK, Encryptions, Key
  <2> QED BY <2>2 DEF KeyInit, RotationsInv, RotationInv, TransactionInv, KeysInv
<1>2. RotationsInv /\ [KeyNext]_keyVars => RotationsInv'
  <2> SUFFICES ASSUME RotationsInv, [KeyNext]_keyVars PROVE RotationsInv'
    OBVIOUS
  <2>1. CASE KeyNext
    <3>1. KeyTypeOK'
      BY <2>1, KeyTypesStep DEF RotationsInv
    <3>2. RotationInv' /\ TransactionInv' /\ KeysInv'
      BY <2>1, RotationMoves, RotationEnds, OthersMove DEF KeyNext
    <3> QED BY <3>1, <3>2 DEF RotationsInv
  <2>2. CASE UNCHANGED keyVars
    BY <2>2 DEF keyVars, stores, RotationsInv, KeyTypeOK, RotationInv, TransactionInv, KeysInv, Secured
  <2> QED BY <2>1, <2>2
<1> QED BY <1>1, <1>2, PTL DEF KeySpec

\* Whatever fails, is killed or is created in the middle of rotations, a credential that
\* works is under the key of the document, the key of the server or a key the last rotation
\* was given (src/src/encryption-rotation.ts:57-73 and 102-104).
THEOREM KeysStayInReach == KeySpec => []NoKeyIsBuried
<1>1. RotationsInv => NoKeyIsBuried
  BY DEF RotationsInv, KeysInv, NoKeyIsBuried
<1> QED BY <1>1, RotationsInvariant, PTL
--------------------------------------------------------------------------------
(***************************************************************************)
(* Accounts and destinations.  A handler that awaits either finds the      *)
(* configuration it held or changes nothing; a block that is lifted is the *)
(* one the validation was asked for; and the history of a destination      *)
(* stays under its key, whichever identities are rekeyed.                  *)
(***************************************************************************)
ConfigInv ==
  /\ \A m \in Mappings : IsMapping(appConfig, m) => appConfig.key[m] # Absent /\ m \notin retired
  /\ \A m \in Mappings : IsCrossed(appConfig, m) => m \in crossed

CallInv ==
  \A q \in Calls : LET x == call[q] IN
    /\ x.revision <= saves
    /\ x.kind # "none" => x.did # Absent /\ x.account # Absent
    /\ x.kind # "none" /\ x.revision = saves => x.held = appConfig
    /\ x.kind \in {"createMapping", "credentials"} => x.mapping # Absent
    /\ x.kind = "createMapping" /\ x.revision = saves => x.mapping \notin retired /\ ~IsMapping(appConfig, x.mapping)

ResumeInv ==
  /\ \A q \in Calls : call[q].kind = "resume" =>
       /\ call[q].seen <= blocks[call[q].account].revision
       /\ q \in undisputed \/ call[q].seen < blocks[call[q].account].revision \/ call[q].revision < saves
  /\ \A a \in Accounts : blocks[a].blocked => blocks[a].revision <= MaxEvidence

MirrorInv ==
  \A m \in Mappings, p \in Posts :
    /\ m \notin crossed => mirrored[m][p] <= 1
    /\ m \notin crossed /\ IsMapping(appConfig, m) /\ mirrored[m][p] > 0 => p \in processed[appConfig.key[m]]
    /\ ~IsMapping(appConfig, m) /\ m \notin retired => mirrored[m][p] = 0

AccountsInv == AccountsTypeOK /\ ConfigInv /\ CallInv /\ ResumeInv /\ MirrorInv

\* A configuration that may replace the one there is.
Follows(document) ==
  /\ document \in AppConfig /\ IsValidConfig(document)
  /\ \A m \in Mappings : IsMapping(document, m) => document.key[m] # Absent /\ m \notin retired'
  /\ \A m \in Mappings : IsMapping(document, m) /\ IsMapping(appConfig, m) => document.key[m] = appConfig.key[m]
  /\ \A m \in Mappings : IsMapping(appConfig, m) /\ ~IsMapping(document, m) => m \in retired'
  /\ retired \subseteq retired' /\ retired' \subseteq Accounts \cup Mappings

\* History stays where it is found.
HistoryStays(document) ==
  /\ mirrored' \in [Mappings -> [Posts -> 0 .. 2]]
  /\ \A m \in Mappings, p \in Posts : mirrored'[m][p] \in {0, mirrored[m][p]}
  /\ \A m \in Mappings \ crossed' : IsMapping(document, m) /\ IsMapping(appConfig, m) =>
       \A p \in Posts : mirrored'[m][p] > 0 /\ p \in processed[document.key[m]] => p \in processed'[document.key[m]]

\* A save, with what it does to the tables.
Saving(document) ==
  /\ Follows(document) /\ HistoryStays(document)
  /\ saves < MaxSaves /\ Put(document) /\ undisputed' \subseteq undisputed
  /\ processed' \in [Dids -> SUBSET Posts] /\ queued' \subseteq QueueRow /\ UNCHANGED blocks
  /\ call' = call \/ \E q \in Calls : call' = [call EXCEPT ![q] = NoCall]
--------------------------------------------------------------------------------
LEMMA AccountBasics ==
  ASSUME AccountsTypeOK
  PROVE  /\ appConfig \in AppConfig /\ saves \in Nat
         /\ processed \in [Dids -> SUBSET Posts] /\ queued \subseteq QueueRow
         /\ call \in [Calls -> CallState] /\ \A q \in Calls : call[q] \in CallState
         /\ mirrored \in [Mappings -> [Posts -> 0 .. 2]]
         /\ blocks \in [Accounts -> [blocked : BOOLEAN, revision : 0 .. MaxEvidence + 1]]
         /\ \A a \in Accounts : blocks[a].revision \in Nat /\ blocks[a].blocked \in BOOLEAN
<1>1. \A a \in Accounts : blocks[a] \in [blocked : BOOLEAN, revision : 0 .. MaxEvidence + 1]
  BY DEF AccountsTypeOK
<1>2. \A a \in Accounts : blocks[a].revision \in Nat /\ blocks[a].blocked \in BOOLEAN
  BY <1>1, AccountsAssumption
<1>. QED BY <1>2, AccountsAssumption DEF AccountsTypeOK

LEMMA CallFields ==
  ASSUME NEW x \in CallState
  PROVE  /\ x.kind \in CallKinds /\ x.account \in Accounts \cup {Absent} /\ x.mapping \in Mappings \cup {Absent}
         /\ x.did \in Dids \cup {Absent} /\ x.held \in AppConfig /\ x.revision \in Nat /\ x.seen \in Nat
         /\ x.seen \in 0 .. MaxEvidence + 1
  BY AccountsAssumption DEF CallState

LEMMA DocumentFields ==
  ASSUME NEW document \in AppConfig
  PROVE  /\ document.did \in [Accounts -> Dids \cup {Absent}] /\ document.link \in [Mappings -> Accounts \cup {Absent}]
         /\ document.key \in [Mappings -> Dids \cup {Absent}] /\ document.feeds \in [Mappings -> SUBSET Sources]
  BY DEF AppConfig

\* The changes that handlers make.
SetDid(document, a, d) == [document EXCEPT !.did[a] = d]
SetLink(document, m, a) == [document EXCEPT !.link[m] = a]
SetFeeds(document, F) == [document EXCEPT !.feeds = F]

LEMMA WithDid ==
  ASSUME NEW held \in AppConfig, NEW a \in Accounts, NEW d \in Dids \cup {Absent}
  PROVE  /\ SetDid(held, a, d) \in AppConfig
         /\ SetDid(held, a, d).did = [held.did EXCEPT ![a] = d]
         /\ SetDid(held, a, d).link = held.link
         /\ SetDid(held, a, d).key = held.key
<1> DEFINE x == SetDid(held, a, d)
<1>0. held.did \in [Accounts -> Dids \cup {Absent}]
  BY DocumentFields
<1>1. [held.did EXCEPT ![a] = d] \in [Accounts -> Dids \cup {Absent}] /\ [held.did EXCEPT ![a] = d][a] = d
  BY <1>0
<1>2. x = [held EXCEPT !.did = [held.did EXCEPT ![a] = d]]
  BY DEF SetDid
<1> HIDE DEF x
<1>3. x \in AppConfig
  BY <1>1, <1>2, DocumentFields DEF AppConfig
<1>. QED BY <1>1, <1>2, <1>3 DEF AppConfig, x

LEMMA WithLink ==
  ASSUME NEW held \in AppConfig, NEW m \in Mappings, NEW a \in Accounts
  PROVE  /\ SetLink(held, m, a) \in AppConfig
         /\ SetLink(held, m, a).link = [held.link EXCEPT ![m] = a]
         /\ SetLink(held, m, a).did = held.did
         /\ SetLink(held, m, a).key = held.key
<1> DEFINE x == SetLink(held, m, a)
<1>0. held.link \in [Mappings -> Accounts \cup {Absent}]
  BY DocumentFields
<1>1. [held.link EXCEPT ![m] = a] \in [Mappings -> Accounts \cup {Absent}]
  BY <1>0
<1>2. x = [held EXCEPT !.link = [held.link EXCEPT ![m] = a]]
  BY DEF SetLink
<1> HIDE DEF x
<1>3. x \in AppConfig
  BY <1>1, <1>2, DocumentFields DEF AppConfig
<1>. QED BY <1>2, <1>3 DEF AppConfig, x

LEMMA WithFeeds ==
  ASSUME NEW held \in AppConfig, NEW F \in [Mappings -> SUBSET Sources]
  PROVE  /\ SetFeeds(held, F) \in AppConfig
         /\ SetFeeds(held, F).did = held.did
         /\ SetFeeds(held, F).link = held.link
         /\ SetFeeds(held, F).key = held.key
  BY DEF AppConfig, SetFeeds

LEMMA WithAMapping ==
  ASSUME NEW held \in AppConfig, NEW m \in Mappings, NEW a \in Accounts, NEW d \in Dids, NEW S \in SUBSET Sources
  PROVE  WithMapping(held, m, a, d, S) \in AppConfig
<1> DEFINE x == WithMapping(held, m, a, d, S)
<1> DEFINE f == [held.did EXCEPT ![a] = d]
           l == [held.link EXCEPT ![m] = a]
           k == [held.key EXCEPT ![m] = d]
           F == [held.feeds EXCEPT ![m] = S]
<1>0. /\ f \in [Accounts -> Dids \cup {Absent}] /\ l \in [Mappings -> Accounts \cup {Absent}]
      /\ k \in [Mappings -> Dids \cup {Absent}] /\ F \in [Mappings -> SUBSET Sources]
  BY DocumentFields
<1>2. x = [held EXCEPT !.did = f, !.link = l, !.key = k, !.feeds = F]
  BY DEF WithMapping, AppConfig
<1> HIDE DEF f, l, k, F
<1> HIDE DEF x
<1>3. x \in AppConfig
  BY <1>0, <1>2 DEF AppConfig
<1>. QED BY <1>3 DEF x

LEMMA WithAMappingDid ==
  ASSUME NEW held \in AppConfig, NEW m \in Mappings, NEW a \in Accounts, NEW d \in Dids, NEW S \in SUBSET Sources
  PROVE  WithMapping(held, m, a, d, S).did = [held.did EXCEPT ![a] = d]
  BY DEF WithMapping, AppConfig

LEMMA WithAMappingLink ==
  ASSUME NEW held \in AppConfig, NEW m \in Mappings, NEW a \in Accounts, NEW d \in Dids, NEW S \in SUBSET Sources
  PROVE  WithMapping(held, m, a, d, S).link = [held.link EXCEPT ![m] = a]
  BY DEF WithMapping, AppConfig

LEMMA WithAMappingKey ==
  ASSUME NEW held \in AppConfig, NEW m \in Mappings, NEW a \in Accounts, NEW d \in Dids, NEW S \in SUBSET Sources
  PROVE  WithMapping(held, m, a, d, S).key = [held.key EXCEPT ![m] = d]
  BY DEF WithMapping, AppConfig

LEMMA WithoutAMapping ==
  ASSUME NEW held \in AppConfig, NEW m \in Mappings
  PROVE  WithoutMapping(held, m) \in AppConfig
<1> DEFINE l == [held.link EXCEPT ![m] = Absent]
           k == [held.key EXCEPT ![m] = Absent]
           F == [held.feeds EXCEPT ![m] = {}]
           x == WithoutMapping(held, m)
<1>1. /\ l \in [Mappings -> Accounts \cup {Absent}]
      /\ k \in [Mappings -> Dids \cup {Absent}] /\ F \in [Mappings -> SUBSET Sources]
  BY DocumentFields
<1>2. x = [held EXCEPT !.link = l, !.key = k, !.feeds = F]
  BY DEF WithoutMapping, AppConfig
<1> HIDE DEF l, k, F, x
<1>3. x \in AppConfig
  BY <1>1, <1>2, DocumentFields DEF AppConfig
<1>. QED BY <1>3 DEF x

LEMMA WithoutAMappingLink ==
  ASSUME NEW held \in AppConfig, NEW m \in Mappings
  PROVE  WithoutMapping(held, m).link = [held.link EXCEPT ![m] = Absent]
  BY DEF WithoutMapping, AppConfig

LEMMA WithoutAMappingKey ==
  ASSUME NEW held \in AppConfig, NEW m \in Mappings
  PROVE  WithoutMapping(held, m).key = [held.key EXCEPT ![m] = Absent]
  BY DEF WithoutMapping, AppConfig

LEMMA NoCallTyped == AccountsTypeOK => NoCall \in CallState /\ NoCall.kind = "none" /\ FirstConfig \in AppConfig /\ NoCall.revision = 0
<1> SUFFICES ASSUME AccountsTypeOK
             PROVE  NoCall \in CallState /\ NoCall.kind = "none" /\ FirstConfig \in AppConfig /\ NoCall.revision = 0
  OBVIOUS
<1>1. FirstConfig \in AppConfig
  BY AccountsAssumption DEF FirstConfig, AppConfig
<1>2. 0 \in 0 .. MaxSaves /\ 0 \in 0 .. MaxEvidence + 1 /\ "none" \in CallKinds
  BY AccountsAssumption DEF CallKinds
<1>. QED BY <1>1, <1>2 DEF NoCall, CallState
--------------------------------------------------------------------------------
(***************************************************************************)
(* Saves.                                                                  *)
(***************************************************************************)
LEMMA SavingStep ==
  ASSUME AccountsInv, NEW document \in AppConfig, Saving(document)
  PROVE  AccountsInv'
<1>0. AccountsTypeOK /\ ConfigInv /\ CallInv /\ ResumeInv /\ MirrorInv
  BY DEF AccountsInv
<1>1. /\ Follows(document) /\ HistoryStays(document)
      /\ saves' = saves + 1 /\ saves < MaxSaves /\ appConfig' = document
      /\ crossed' = crossed \cup {m \in Mappings : IsCrossed(document, m)}
      /\ undisputed' \subseteq undisputed
      /\ processed' \in [Dids -> SUBSET Posts] /\ queued' \subseteq QueueRow /\ blocks' = blocks
      /\ call' = call \/ \E q \in Calls : call' = [call EXCEPT ![q] = NoCall]
  BY DEF Saving, Put
<1>2. saves \in Nat /\ saves' \in 0 .. MaxSaves
  BY <1>0, <1>1, AccountsAssumption DEF AccountsTypeOK
<1>3. call' \in [Calls -> CallState] /\ \A q \in Calls : call'[q] = call[q] \/ call'[q] = NoCall
  BY <1>0, <1>1, NoCallTyped DEF AccountsTypeOK
<1>4. AccountsTypeOK'
  BY <1>0, <1>1, <1>2, <1>3 DEF AccountsTypeOK, Follows, HistoryStays
<1>5. ConfigInv'
  <2>1. \A m \in Mappings : IsCrossed(document, m) => m \in crossed'
    BY <1>1
  <2>2. IsValidConfig(document) /\ \A m \in Mappings : IsMapping(document, m) => document.key[m] # Absent /\ m \notin retired'
    BY <1>1 DEF Follows
  <2>. QED BY <1>1, <2>1, <2>2 DEF ConfigInv
<1>6. CallInv'
  <2>1. \A q \in Calls : call[q].revision \in Nat /\ call[q].revision <= saves
    BY <1>0, AccountBasics, CallFields DEF CallInv
  <2>2. \A q \in Calls : call'[q].revision \in Nat /\ call'[q].revision < saves'
    BY <1>0, <1>1, <1>2, <1>3, <2>1, NoCallTyped
  <2>3. ASSUME NEW q \in Calls
        PROVE  /\ call'[q].kind # "none" => call'[q].did # Absent /\ call'[q].account # Absent
               /\ call'[q].kind \in {"createMapping", "credentials"} => call'[q].mapping # Absent
    BY <1>0, <1>3, NoCallTyped DEF CallInv
  <2>4. \A q \in Calls : call'[q].revision <= saves' /\ call'[q].revision # saves'
    BY <1>1, <1>2, <2>2
  <2>. QED BY <2>3, <2>4 DEF CallInv
<1>7. ResumeInv'
  <2>1. ASSUME NEW q \in Calls, call'[q].kind = "resume"
        PROVE  call'[q].seen <= blocks'[call'[q].account].revision /\ call'[q].revision < saves'
    <3>1. call'[q] = call[q]
      BY <1>0, <1>3, <2>1, NoCallTyped
    <3>2. call[q].revision \in Nat /\ call[q].revision <= saves
      BY <1>0, AccountBasics, CallFields DEF CallInv
    <3>. QED BY <1>0, <1>1, <1>2, <2>1, <3>1, <3>2 DEF ResumeInv
  <2>2. \A a \in Accounts : blocks'[a].blocked => blocks'[a].revision <= MaxEvidence
    BY <1>0, <1>1 DEF ResumeInv
  <2>. QED BY <2>1, <2>2 DEF ResumeInv
<1>8. MirrorInv'
  <2>1. ASSUME NEW m \in Mappings, NEW p \in Posts
        PROVE  /\ m \notin crossed' => mirrored'[m][p] <= 1
               /\ m \notin crossed' /\ IsMapping(document, m) /\ mirrored'[m][p] > 0 => p \in processed'[document.key[m]]
               /\ ~IsMapping(document, m) /\ m \notin retired' => mirrored'[m][p] = 0
    <3>1. mirrored'[m][p] \in {0, mirrored[m][p]} /\ mirrored[m][p] \in Nat
      BY <1>0, <1>1 DEF HistoryStays, AccountsTypeOK
    <3>2. m \notin crossed' => mirrored'[m][p] <= 1
      BY <1>0, <1>1, <3>1 DEF MirrorInv
    <3>3. ASSUME m \notin crossed', IsMapping(document, m), mirrored'[m][p] > 0
          PROVE  p \in processed'[document.key[m]]
      <4>1. mirrored[m][p] > 0
        BY <3>1, <3>3
      <4>2. m \notin retired
        BY <1>1, <3>3 DEF Follows
      <4>3. IsMapping(appConfig, m)
        BY <1>0, <3>1, <4>1, <4>2 DEF MirrorInv
      <4>4. document.key[m] = appConfig.key[m] /\ m \notin crossed
        BY <1>1, <3>3, <4>3 DEF Follows
      <4>5. p \in processed[document.key[m]]
        BY <1>0, <4>1, <4>3, <4>4 DEF MirrorInv
      <4>. QED BY <1>1, <3>3, <4>3, <4>5 DEF HistoryStays
    <3>4. ASSUME ~IsMapping(document, m), m \notin retired' PROVE mirrored'[m][p] = 0
      <4>1. ~IsMapping(appConfig, m) /\ m \notin retired
        BY <1>1, <3>4 DEF Follows
      <4>. QED BY <1>0, <3>1, <4>1 DEF MirrorInv
    <3>. QED BY <3>2, <3>3, <3>4
  <2>. QED BY <1>1, <2>1 DEF MirrorInv
<1>. QED BY <1>4, <1>5, <1>6, <1>7, <1>8 DEF AccountsInv

\* A destination of the account that is rekeyed, and what its rows are moved from.
LEMMA RekeyStep ==
  ASSUME AccountsInv, NEW document \in AppConfig, Follows(document), Put(document),
         NEW a \in Accounts, NEW did, did = document.did[a], RekeyAccount(document, a, did), UNCHANGED mirrored
  PROVE  processed' \in [Dids -> SUBSET Posts] /\ queued' \subseteq QueueRow /\ HistoryStays(document)
<1>0. /\ processed \in [Dids -> SUBSET Posts] /\ queued \subseteq QueueRow
      /\ mirrored \in [Mappings -> [Posts -> 0 .. 2]] /\ mirrored' = mirrored
      /\ document.did \in [Accounts -> Dids \cup {Absent}] /\ document.link \in [Mappings -> Accounts \cup {Absent}]
      /\ document.key \in [Mappings -> Dids \cup {Absent}]
      /\ crossed' = crossed \cup {m \in Mappings : IsCrossed(document, m)}
  BY DocumentFields, AccountBasics DEF AccountsInv, Put
<1>1. CASE ~IsLinked(document, a)
  <2>1. UNCHANGED tables
    BY <1>1 DEF RekeyAccount
  <2>. QED BY <1>0, <2>1 DEF HistoryStays, tables
<1>2. CASE IsLinked(document, a)
  <2> DEFINE n == CHOOSE n \in Mappings : document.link[n] = a
             D == (HistoryKeys(document, n) \cup {did}) \ {document.key[n]}
             k == document.key[n]
  <2>1. n \in Mappings /\ document.link[n] = a /\ IsMapping(document, n)
    BY <1>2, AccountsAssumption DEF IsLinked, IsMapping
  <2>2. Rekey(D, k)
    BY <1>2 DEF RekeyAccount
  <2>3. DidOf(document, n) = did /\ did \in Dids /\ k \in Dids /\ D = {did} \ {k}
    <3>1. did # Absent /\ k # Absent
      BY <2>1 DEF Follows, IsValidConfig, IsAccount
    <3>. QED BY <1>0, <2>1, <3>1 DEF DidOf, HistoryKeys
  <2> HIDE DEF n, D, k
  <2>4. processed' = [d \in Dids |-> IF d = k THEN UNION {processed[x] : x \in D \cup {k}}
                                  ELSE IF d \in D THEN {} ELSE processed[d]]
    BY <2>2 DEF Rekey
  <2>5. processed' \in [Dids -> SUBSET Posts]
    <3>1. UNION {processed[x] : x \in D \cup {k}} \in SUBSET Posts
      BY <1>0, <2>3
    <3>. QED BY <1>0, <2>4, <3>1
  <2>6. queued' \subseteq QueueRow
    <3>1. \A r \in queued : [r EXCEPT !.key = k] \in QueueRow
      BY <1>0, <2>3 DEF QueueRow
    <3>. QED BY <1>0, <2>2, <3>1 DEF Rekey
  <2>7. ASSUME NEW m \in Mappings \ crossed', IsMapping(document, m), NEW p \in Posts, p \in processed[document.key[m]]
        PROVE  p \in processed'[document.key[m]]
    <3>1. document.key[m] \in Dids
      BY <1>0, <2>7 DEF Follows
    <3>2. CASE document.key[m] = k
      BY <2>4, <2>7, <3>1, <3>2
    <3>3. CASE document.key[m] # k
      <4>1. m # n
        BY <3>3 DEF k
      <4>2. document.key[m] \notin HistoryKeys(document, n)
        BY <1>0, <2>1, <2>7, <4>1 DEF IsCrossed
      <4>3. document.key[m] \notin D
        BY <2>3, <4>2 DEF HistoryKeys
      <4>. QED BY <2>4, <2>7, <3>1, <3>3, <4>3
    <3>. QED BY <3>2, <3>3
  <2>. QED BY <1>0, <2>5, <2>6, <2>7 DEF HistoryStays
<1>. QED BY <1>1, <1>2

\* A handler comes back to the configuration it held, or changes nothing.
Unsaved(q) ==
  /\ call' = [call EXCEPT ![q] = NoCall] /\ undisputed' = undisputed \ {q}
  /\ UNCHANGED <<appConfig, saves, retired, tables, blocks, mirrored, crossed>>

LEMMA FinishStep ==
  ASSUME AccountsInv, NEW q \in Calls, NEW document, NEW a \in Accounts, NEW did,
         Finish(q, document, a, did), IsCurrent(q) => did = document.did[a],
         IsCurrent(q) /\ IsValidConfig(document) /\ UNCHANGED retired => Follows(document)
  PROVE  Unsaved(q) \/ (document \in AppConfig /\ Saving(document))
<1>1. Reply(q) /\ UNCHANGED <<retired, blocks, mirrored>>
  BY DEF Finish
<1>2. CASE IsCurrent(q) /\ IsValidConfig(document) /\ saves < MaxSaves
  <2>1. Put(document) /\ undisputed' = StillUndisputed(document) \ {q} /\ RekeyAccount(document, a, did)
    BY <1>2 DEF Finish
  <2>2. Follows(document) /\ document \in AppConfig /\ did = document.did[a]
    BY <1>1, <1>2 DEF Follows
  <2>3. processed' \in [Dids -> SUBSET Posts] /\ queued' \subseteq QueueRow /\ HistoryStays(document)
    BY <1>1, <2>1, <2>2, RekeyStep
  <2>4. undisputed' \subseteq undisputed
    BY <2>1 DEF StillUndisputed
  <2>. QED BY <1>1, <1>2, <2>1, <2>2, <2>3, <2>4 DEF Saving, Reply
<1>3. CASE ~(IsCurrent(q) /\ IsValidConfig(document) /\ saves < MaxSaves)
  BY <1>1, <1>3 DEF Finish, Unsaved, Reply, tables
<1>. QED BY <1>2, <1>3

\* Under the present mappings and keys a configuration that is valid may be saved.
LEMMA SameMappings ==
  ASSUME AccountsInv, NEW document \in AppConfig, IsValidConfig(document),
         document.link = appConfig.link, document.key = appConfig.key, retired' \subseteq Accounts \cup Mappings,
         retired \subseteq retired', \A m \in Mappings \cap retired' : m \in retired
  PROVE  Follows(document)
  BY DEF Follows, IsMapping, AccountsInv, ConfigInv

LEMMA WithAnotherLink ==
  ASSUME AccountsInv, NEW document \in AppConfig, IsValidConfig(document), NEW m \in Mappings, NEW a \in Accounts,
         document.link = [appConfig.link EXCEPT ![m] = a], m \notin retired, UNCHANGED retired,
         \/ IsMapping(appConfig, m) /\ document.key = appConfig.key
         \/ ~IsMapping(appConfig, m) /\ \E d \in Dids : document.key = [appConfig.key EXCEPT ![m] = d]
  PROVE  Follows(document)
<1>0. /\ appConfig.link \in [Mappings -> Accounts \cup {Absent}] /\ appConfig.key \in [Mappings -> Dids \cup {Absent}]
      /\ ConfigInv /\ retired \subseteq Accounts \cup Mappings
  BY AccountBasics, DocumentFields DEF AccountsInv, AccountsTypeOK
<1>1. /\ document.link[m] = a /\ a # Absent
      /\ \A n \in Mappings \ {m} : document.link[n] = appConfig.link[n]
  BY <1>0, AccountsAssumption
<1>2. /\ document.key[m] # Absent /\ (IsMapping(appConfig, m) => document.key[m] = appConfig.key[m])
      /\ \A n \in Mappings \ {m} : document.key[n] = appConfig.key[n]
  <2>1. CASE IsMapping(appConfig, m) /\ document.key = appConfig.key
    BY <1>0, <2>1 DEF ConfigInv
  <2>2. CASE ~IsMapping(appConfig, m) /\ \E d \in Dids : document.key = [appConfig.key EXCEPT ![m] = d]
    <3>1. PICK d \in Dids : document.key = [appConfig.key EXCEPT ![m] = d]
      BY <2>2
    <3>. QED BY <1>0, <2>2, <3>1, AccountsAssumption
  <2>. QED BY <2>1, <2>2
<1>3. \A n \in Mappings : IsMapping(document, n) => document.key[n] # Absent /\ n \notin retired'
  BY <1>0, <1>1, <1>2 DEF ConfigInv, IsMapping
<1>4. \A n \in Mappings : IsMapping(appConfig, n) => IsMapping(document, n) /\ document.key[n] = appConfig.key[n]
  BY <1>1, <1>2 DEF IsMapping
<1>. QED BY <1>0, <1>3, <1>4 DEF Follows

LEMMA FollowsDid ==
  ASSUME AccountsInv, NEW a \in Accounts, NEW d \in Dids \cup {Absent}, IsValidConfig(SetDid(appConfig, a, d)),
         retired' \subseteq Accounts \cup Mappings, retired \subseteq retired', \A m \in Mappings \cap retired' : m \in retired
  PROVE  SetDid(appConfig, a, d) \in AppConfig /\ Follows(SetDid(appConfig, a, d))
<1>1. appConfig \in AppConfig
  BY AccountBasics DEF AccountsInv
<1>2. SetDid(appConfig, a, d) \in AppConfig
  BY <1>1, WithDid
<1>3. SetDid(appConfig, a, d).link = appConfig.link
  BY <1>1, WithDid
<1>4. SetDid(appConfig, a, d).key = appConfig.key
  BY <1>1, WithDid
<1>. QED BY <1>2, <1>3, <1>4, SameMappings

LEMMA FollowsMapping ==
  ASSUME AccountsInv, NEW m \in Mappings, NEW a \in Accounts, NEW d \in Dids, NEW S \in SUBSET Sources,
         IsValidConfig(WithMapping(appConfig, m, a, d, S)), UNCHANGED retired, m \notin retired, ~IsMapping(appConfig, m)
  PROVE  WithMapping(appConfig, m, a, d, S) \in AppConfig /\ Follows(WithMapping(appConfig, m, a, d, S))
<1> DEFINE document == WithMapping(appConfig, m, a, d, S)
<1>1. appConfig \in AppConfig
  BY AccountBasics DEF AccountsInv
<1>2. document \in AppConfig
  BY <1>1, WithAMapping
<1>3. document.link = [appConfig.link EXCEPT ![m] = a]
  BY <1>1, WithAMappingLink
<1>4. document.key = [appConfig.key EXCEPT ![m] = d]
  BY <1>1, WithAMappingKey
<1> HIDE DEF document
<1>. QED BY <1>2, <1>3, <1>4, WithAnotherLink DEF document

LEMMA CurrentCall ==
  ASSUME AccountsInv, NEW q \in Calls, call[q].kind # "none"
  PROVE  /\ \E a \in Accounts : a = call[q].account
         /\ \E d \in Dids : d = call[q].did
         /\ IsCurrent(q) => call[q].held = appConfig
         /\ call[q].kind = "createMapping" => \E m \in Mappings : m = call[q].mapping
         /\ call[q].kind = "createMapping" /\ IsCurrent(q) =>
              call[q].mapping \notin retired /\ ~IsMapping(appConfig, call[q].mapping)
<1>1. call[q] \in CallState
  BY AccountBasics DEF AccountsInv
<1>2. call[q].account \in Accounts /\ call[q].did \in Dids
  BY <1>1, CallFields DEF AccountsInv, CallInv
<1>3. call[q].kind = "createMapping" => call[q].mapping \in Mappings
  BY <1>1, CallFields DEF AccountsInv, CallInv
<1>. QED BY <1>2, <1>3 DEF AccountsInv, CallInv, IsCurrent

LEMMA FinishingStep ==
  ASSUME AccountsInv, NEW q \in Calls,
         \/ AccountCreated(q) \/ AccountValidated(q) \/ CredentialsPatched(q)
         \/ \E S \in SUBSET Sources : MappingCreated(q, S)
  PROVE  Unsaved(q) \/ \E document \in AppConfig : Saving(document)
<1>1. /\ call[q].kind # "none" /\ retired \in SUBSET (Accounts \cup Mappings) /\ appConfig \in AppConfig
      /\ ConfigInv
  BY DEF AccountCreated, AccountValidated, CredentialsPatched, MappingCreated, AccountsInv, AccountsTypeOK
<1>2. PICK a \in Accounts, d \in Dids : a = call[q].account /\ d = call[q].did
  BY <1>1, CurrentCall
<1>3. PICK c : c = call[q].held /\ (IsCurrent(q) => c = appConfig)
  BY <1>1, CurrentCall
<1>4. CASE AccountCreated(q) \/ AccountValidated(q)
  <2> DEFINE document == SetDid(c, a, d)
  <2>1. Finish(q, document, a, d)
    BY <1>2, <1>3, <1>4 DEF AccountCreated, AccountValidated, SetDid
  <2>2. IsCurrent(q) => document.did[a] = d
    <3> SUFFICES ASSUME IsCurrent(q) PROVE document.did[a] = d
      OBVIOUS
    <3>1. document.did = [appConfig.did EXCEPT ![a] = d]
      BY <1>1, <1>3, WithDid
    <3>2. appConfig.did \in [Accounts -> Dids \cup {Absent}]
      BY <1>1, DocumentFields
    <3> HIDE DEF document
    <3>. QED BY <3>1, <3>2
  <2>3. IsCurrent(q) /\ IsValidConfig(document) /\ UNCHANGED retired => Follows(document)
    BY <1>1, <1>3, FollowsDid
  <2> HIDE DEF document
  <2>. QED BY <2>1, <2>2, <2>3, FinishStep
<1>5. CASE CredentialsPatched(q)
  <2>1. Finish(q, c, a, c.did[a])
    BY <1>2, <1>3, <1>5 DEF CredentialsPatched
  <2>2. IsCurrent(q) /\ IsValidConfig(c) /\ UNCHANGED retired => Follows(c)
    BY <1>1, <1>3, SameMappings
  <2>. QED BY <2>1, <2>2, FinishStep
<1>6. ASSUME NEW S \in SUBSET Sources, MappingCreated(q, S)
      PROVE  Unsaved(q) \/ \E document \in AppConfig : Saving(document)
  <2>1. call[q].kind = "createMapping"
    BY <1>6 DEF MappingCreated
  <2>2. PICK m \in Mappings : m = call[q].mapping /\ (IsCurrent(q) => m \notin retired /\ ~IsMapping(appConfig, m))
    BY <1>1, <2>1, CurrentCall
  <2> DEFINE document == WithMapping(c, m, a, d, S)
  <2>3. Finish(q, document, a, d)
    BY <1>2, <1>3, <1>6, <2>2 DEF MappingCreated
  <2>4. IsCurrent(q) => document.did[a] = d
    <3> SUFFICES ASSUME IsCurrent(q) PROVE document.did[a] = d
      OBVIOUS
    <3>1. document.did = [appConfig.did EXCEPT ![a] = d]
      BY <1>1, <1>3, WithAMappingDid
    <3>2. appConfig.did \in [Accounts -> Dids \cup {Absent}]
      BY <1>1, DocumentFields
    <3> HIDE DEF document
    <3>. QED BY <3>1, <3>2
  <2>5. IsCurrent(q) /\ IsValidConfig(document) /\ UNCHANGED retired => Follows(document)
    BY <1>1, <1>3, <2>2, FollowsMapping
  <2> HIDE DEF document
  <2>. QED BY <2>3, <2>4, <2>5, FinishStep
<1>. QED BY <1>4, <1>5, <1>6

\* Saves of handlers that do not await.
LEMMA PlainSave ==
  ASSUME AccountsInv, NEW document \in AppConfig, Save(document), Follows(document), UNCHANGED <<tables, blocks, call, mirrored>>
  PROVE  Saving(document)
<1>1. AccountsTypeOK /\ UNCHANGED <<processed, queued>>
  BY DEF AccountsInv, tables
<1>2. undisputed' \subseteq undisputed
  BY DEF Save, StillUndisputed
<1>3. HistoryStays(document)
  BY <1>1, AccountBasics DEF HistoryStays
<1>. QED BY <1>1, <1>2, <1>3 DEF Saving, Save, AccountsTypeOK

LEMMA PlainSaves ==
  ASSUME AccountsInv,
         \/ \E a \in Accounts : DeleteAccount(a)
         \/ \E m \in Mappings, a \in Accounts, S \in SUBSET Sources : CreateMapping(m, a, S)
         \/ \E m \in Mappings, a \in Accounts : LinkAccount(m, a)
         \/ \E m \in Mappings : EditMapping(m)
         \/ \E m \in Mappings, s \in Sources : AddSource(m, s)
  PROVE  \E document \in AppConfig : Saving(document)
<1>0. appConfig \in AppConfig /\ retired \subseteq Accounts \cup Mappings /\ ConfigInv
  BY AccountBasics DEF AccountsInv, AccountsTypeOK
<1>1. ASSUME NEW a \in Accounts, DeleteAccount(a) PROVE \E document \in AppConfig : Saving(document)
  <2> DEFINE document == SetDid(appConfig, a, Absent)
  <2>1. Save(document) /\ retired' = retired \cup {a} /\ UNCHANGED <<tables, blocks, call, mirrored>>
    BY <1>1 DEF DeleteAccount, SetDid
  <2>2. \A m \in Mappings \cap retired' : m \in retired
    BY <2>1, AccountsAssumption
  <2>3. retired \subseteq retired' /\ retired' \subseteq Accounts \cup Mappings /\ Absent \in Dids \cup {Absent}
    BY <1>0, <2>1
  <2>4. IsValidConfig(document)
    BY <2>1 DEF Save
  <2>5. document \in AppConfig /\ Follows(document)
    BY <2>2, <2>3, <2>4, FollowsDid
  <2> HIDE DEF document
  <2>. QED BY <2>1, <2>5, PlainSave
<1>2. ASSUME NEW m \in Mappings, NEW a \in Accounts, NEW S \in SUBSET Sources, CreateMapping(m, a, S)
      PROVE  \E document \in AppConfig : Saving(document)
  <2> DEFINE document == WithMapping(appConfig, m, a, appConfig.did[a], S)
  <2>1. Save(document) /\ m \notin retired /\ ~IsMapping(appConfig, m) /\ UNCHANGED <<retired, tables, blocks, call, mirrored>>
    BY <1>2 DEF CreateMapping, IsNewMapping
  <2>2. appConfig.did[a] \in Dids
    BY <1>0, <1>2, DocumentFields DEF CreateMapping, IsAccount
  <2>3. IsValidConfig(document)
    BY <2>1 DEF Save
  <2>4. document \in AppConfig /\ Follows(document)
    BY <2>1, <2>2, <2>3, FollowsMapping
  <2> HIDE DEF document
  <2>. QED BY <2>1, <2>4, PlainSave
<1>3. ASSUME NEW m \in Mappings, NEW a \in Accounts, LinkAccount(m, a)
      PROVE  \E document \in AppConfig : Saving(document)
  <2> DEFINE document == SetLink(appConfig, m, a)
  <2>1. Save(document) /\ IsMapping(appConfig, m) /\ UNCHANGED <<retired, tables, blocks, call, mirrored>>
    BY <1>3 DEF LinkAccount, SetLink
  <2>2. document \in AppConfig
    BY <1>0, WithLink
  <2>3. document.link = [appConfig.link EXCEPT ![m] = a]
    BY <1>0, WithLink
  <2>4. document.key = appConfig.key
    BY <1>0, WithLink
  <2>5. IsValidConfig(document) /\ m \notin retired
    BY <1>0, <2>1 DEF Save, ConfigInv
  <2> HIDE DEF document
  <2>6. Follows(document)
    BY <2>1, <2>2, <2>3, <2>4, <2>5, WithAnotherLink
  <2>. QED BY <2>1, <2>2, <2>6, PlainSave
<1>4. ASSUME NEW m \in Mappings, EditMapping(m) PROVE \E document \in AppConfig : Saving(document)
  <2>1. Save(appConfig) /\ UNCHANGED <<retired, tables, blocks, call, mirrored>>
    BY <1>4 DEF EditMapping
  <2>2. Follows(appConfig)
    BY <1>0, <2>1, SameMappings DEF Save
  <2>. QED BY <1>0, <2>1, <2>2, PlainSave
<1>5. ASSUME NEW m \in Mappings, NEW s \in Sources, AddSource(m, s) PROVE \E document \in AppConfig : Saving(document)
  <2> DEFINE F == [appConfig.feeds EXCEPT ![m] = @ \cup {s}]
             document == SetFeeds(appConfig, F)
  <2>1. Save(document) /\ UNCHANGED <<retired, tables, blocks, call, mirrored>>
    BY <1>5 DEF AddSource, SetFeeds
  <2>2. F \in [Mappings -> SUBSET Sources]
    BY <1>0, DocumentFields
  <2> HIDE DEF F
  <2>3. document \in AppConfig /\ document.link = appConfig.link /\ document.key = appConfig.key
    BY <1>0, <2>2, WithFeeds
  <2> HIDE DEF document
  <2>4. Follows(document)
    BY <1>0, <2>1, <2>3, SameMappings DEF Save
  <2>. QED BY <2>1, <2>3, <2>4, PlainSave
<1>. QED BY <1>1, <1>2, <1>3, <1>4, <1>5

LEMMA SaveWithTables ==
  ASSUME AccountsInv, NEW document \in AppConfig, Save(document), Follows(document), HistoryStays(document),
         processed' \in [Dids -> SUBSET Posts], queued' \subseteq queued, UNCHANGED <<blocks, call>>
  PROVE  Saving(document)
<1>1. undisputed' \subseteq undisputed /\ queued' \subseteq QueueRow
  BY DEF Save, StillUndisputed, AccountsInv, AccountsTypeOK
<1>. QED BY <1>1 DEF Saving, Save

LEMMA DeletingMapping ==
  ASSUME AccountsInv, NEW m \in Mappings, DeleteMapping(m)
  PROVE  \E document \in AppConfig : Saving(document)
<1>0. /\ appConfig \in AppConfig /\ retired \subseteq Accounts \cup Mappings /\ ConfigInv
      /\ processed \in [Dids -> SUBSET Posts] /\ mirrored \in [Mappings -> [Posts -> 0 .. 2]]
      /\ appConfig.link \in [Mappings -> Accounts \cup {Absent}] /\ appConfig.key \in [Mappings -> Dids \cup {Absent}]
  BY AccountBasics, DocumentFields DEF AccountsInv, AccountsTypeOK
<1> DEFINE document == WithoutMapping(appConfig, m)
<1>1. /\ Save(document) /\ queued' \subseteq queued /\ retired' = retired \cup {m}
      /\ processed' = processed /\ mirrored' = mirrored /\ UNCHANGED <<blocks, call>>
  BY DEF DeleteMapping
<1>2. document \in AppConfig
  BY <1>0, WithoutAMapping
<1>3. document.link = [appConfig.link EXCEPT ![m] = Absent]
  BY <1>0, WithoutAMappingLink
<1>4. document.key = [appConfig.key EXCEPT ![m] = Absent]
  BY <1>0, WithoutAMappingKey
<1> HIDE DEF document
<1>5. ~IsMapping(document, m) /\ \A n \in Mappings \ {m} : document.link[n] = appConfig.link[n] /\ document.key[n] = appConfig.key[n]
  BY <1>0, <1>3, <1>4 DEF IsMapping
<1>6. \A n \in Mappings : IsMapping(document, n) => n # m /\ IsMapping(appConfig, n) /\ document.key[n] = appConfig.key[n]
  BY <1>5 DEF IsMapping
<1>7. \A n \in Mappings : IsMapping(document, n) => document.key[n] # Absent /\ n \notin retired'
  BY <1>0, <1>1, <1>6 DEF ConfigInv
<1>8. \A n \in Mappings : IsMapping(appConfig, n) /\ ~IsMapping(document, n) => n \in retired'
  BY <1>1, <1>5 DEF IsMapping
<1>9. Follows(document)
  BY <1>0, <1>1, <1>2, <1>6, <1>7, <1>8 DEF Follows, Save
<1>10. HistoryStays(document)
  BY <1>0, <1>1 DEF HistoryStays
<1>. QED BY <1>0, <1>1, <1>2, <1>9, <1>10, SaveWithTables

LEMMA RemovingSource ==
  ASSUME AccountsInv, NEW m \in Mappings, NEW s \in Sources, NEW cancel \in BOOLEAN, NEW forget \in BOOLEAN,
         RemoveSource(m, s, cancel, forget)
  PROVE  \E document \in AppConfig : Saving(document)
<1>0. /\ appConfig \in AppConfig /\ retired \subseteq Accounts \cup Mappings
      /\ processed \in [Dids -> SUBSET Posts] /\ mirrored \in [Mappings -> [Posts -> 0 .. 2]]
  BY AccountBasics DEF AccountsInv, AccountsTypeOK
<1> DEFINE F == [appConfig.feeds EXCEPT ![m] = @ \ {s}]
           document == SetFeeds(appConfig, F)
<1>1. /\ Save(document) /\ queued' \subseteq queued /\ UNCHANGED <<retired, blocks, call>>
      /\ processed' = IF forget THEN [k \in Dids |-> IF k \in HistoryKeys(appConfig, m) THEN processed[k] \ From(s) ELSE processed[k]]
                      ELSE processed
      /\ mirrored' = IF forget THEN [mirrored EXCEPT ![m] = [p \in Posts |-> IF p \in From(s) THEN 0 ELSE @[p]]] ELSE mirrored
  BY DEF RemoveSource, SetFeeds
<1>2. F \in [Mappings -> SUBSET Sources]
  BY <1>0, DocumentFields
<1> HIDE DEF F
<1>3. document \in AppConfig /\ document.link = appConfig.link /\ document.key = appConfig.key /\ document.did = appConfig.did
  BY <1>0, <1>2, WithFeeds
<1> HIDE DEF document
<1>4. Follows(document)
  BY <1>0, <1>1, <1>3, SameMappings DEF Save
<1>5. processed' \in [Dids -> SUBSET Posts]
  BY <1>0, <1>1
<1>6. mirrored' \in [Mappings -> [Posts -> 0 .. 2]]
  <2>1. mirrored[m] \in [Posts -> 0 .. 2] /\ 0 \in 0 .. 2
    BY <1>0
  <2>2. [p \in Posts |-> IF p \in From(s) THEN 0 ELSE mirrored[m][p]] \in [Posts -> 0 .. 2]
    BY <2>1
  <2>. QED BY <1>0, <1>1, <2>2
<1>7. ASSUME NEW n \in Mappings, NEW p \in Posts
      PROVE  /\ mirrored'[n][p] \in {0, mirrored[n][p]}
             /\ forget /\ n = m /\ p \in From(s) => mirrored'[n][p] = 0
  <2>1. CASE ~forget
    BY <1>1, <2>1
  <2>2. CASE forget
    <3>1. mirrored' = [mirrored EXCEPT ![m] = [x \in Posts |-> IF x \in From(s) THEN 0 ELSE mirrored[m][x]]]
      BY <1>1, <2>2
    <3>. QED BY <1>0, <3>1
  <2>. QED BY <2>1, <2>2
<1>8. ASSUME NEW n \in Mappings \ crossed', IsMapping(document, n), NEW p \in Posts,
             mirrored'[n][p] > 0, p \in processed[document.key[n]]
      PROVE  p \in processed'[document.key[n]]
  <2>1. CASE ~forget
    BY <1>1, <1>8, <2>1
  <2>2. CASE forget
    <3>1. document.key[n] \in Dids /\ processed' = [k \in Dids |-> IF k \in HistoryKeys(appConfig, m) THEN processed[k] \ From(s) ELSE processed[k]]
      BY <1>1, <1>3, <1>4, <1>8, <2>2, DocumentFields DEF Follows
    <3>2. CASE n = m
      <4>1. p \notin From(s)
        BY <1>7, <1>8, <2>2, <3>2
      <4>. QED BY <1>8, <3>1, <4>1
    <3>3. CASE n # m
      <4>1. ~IsCrossed(document, n)
        BY <1>1, <1>8 DEF Save, Put
      <4>2. IsMapping(document, m)
        BY <1>3 DEF RemoveSource, IsMapping
      <4>3. document.key[n] \notin HistoryKeys(document, m)
        BY <1>8, <3>3, <4>1, <4>2 DEF IsCrossed
      <4>4. HistoryKeys(document, m) = HistoryKeys(appConfig, m)
        BY <1>3 DEF HistoryKeys, DidOf
      <4>. QED BY <1>8, <3>1, <4>3, <4>4
    <3>. QED BY <3>2, <3>3
  <2>. QED BY <2>1, <2>2
<1>9. HistoryStays(document)
  BY <1>6, <1>7, <1>8 DEF HistoryStays
<1>. QED BY <1>1, <1>3, <1>4, <1>5, <1>9, SaveWithTables

LEMMA DeletingSource ==
  ASSUME AccountsInv, NEW s \in Sources, DeleteSource(s)
  PROVE  \E document \in AppConfig : Saving(document)
<1>0. /\ appConfig \in AppConfig /\ retired \subseteq Accounts \cup Mappings
      /\ processed \in [Dids -> SUBSET Posts] /\ mirrored \in [Mappings -> [Posts -> 0 .. 2]]
  BY AccountBasics DEF AccountsInv, AccountsTypeOK
<1> DEFINE F == [m \in Mappings |-> appConfig.feeds[m] \ {s}]
           document == SetFeeds(appConfig, F)
<1>1. Save(document) /\ queued' \subseteq queued /\ UNCHANGED <<retired, processed, blocks, call, mirrored>>
  BY DEF DeleteSource, SetFeeds
<1>2. F \in [Mappings -> SUBSET Sources]
  BY <1>0, DocumentFields
<1> HIDE DEF F
<1>3. document \in AppConfig /\ document.link = appConfig.link /\ document.key = appConfig.key
  BY <1>0, <1>2, WithFeeds
<1> HIDE DEF document
<1>4. Follows(document)
  BY <1>0, <1>1, <1>3, SameMappings DEF Save
<1>5. HistoryStays(document)
  BY <1>0, <1>1 DEF HistoryStays
<1>. QED BY <1>0, <1>1, <1>3, <1>4, <1>5, SaveWithTables
--------------------------------------------------------------------------------
(***************************************************************************)
(* Steps that save nothing.                                                *)
(***************************************************************************)
LEMMA UnsavedStep ==
  ASSUME AccountsInv, NEW q \in Calls, Unsaved(q)
  PROVE  AccountsInv'
<1>0. AccountsTypeOK /\ ConfigInv /\ CallInv /\ ResumeInv /\ MirrorInv
  BY DEF AccountsInv
<1>1. /\ appConfig' = appConfig /\ saves' = saves /\ retired' = retired /\ processed' = processed
      /\ queued' = queued /\ blocks' = blocks /\ mirrored' = mirrored /\ crossed' = crossed
      /\ undisputed' = undisputed \ {q} /\ call' = [call EXCEPT ![q] = NoCall]
  BY DEF Unsaved, tables
<1>2. call' \in [Calls -> CallState]
  BY <1>0, <1>1, NoCallTyped DEF AccountsTypeOK
<1>3. \A r \in Calls \ {q} : call'[r] = call[r]
  BY <1>0, <1>1 DEF AccountsTypeOK
<1>4. call'[q] = NoCall
  BY <1>0, <1>1 DEF AccountsTypeOK
<1>5. AccountsTypeOK'
  BY <1>0, <1>1, <1>2 DEF AccountsTypeOK
<1>6. ConfigInv' /\ MirrorInv'
  BY <1>0, <1>1 DEF ConfigInv, MirrorInv
<1>7. CallInv'
  <2>1. saves \in Nat
    BY <1>0, AccountBasics
  <2>2. NoCall.revision <= saves /\ NoCall.kind = "none"
    BY <1>0, <2>1, NoCallTyped
  <2>. QED BY <1>0, <1>1, <1>3, <1>4, <2>2 DEF CallInv
<1>8. ResumeInv'
  BY <1>0, <1>1, <1>3, <1>4, NoCallTyped DEF ResumeInv
<1>. QED BY <1>5, <1>6, <1>7, <1>8 DEF AccountsInv

\* What a handler awaits an answer for.
Awaiting(x) ==
  /\ x \in CallState /\ x.kind # "none" /\ x.account # Absent /\ x.did # Absent
  /\ x.kind \in {"createMapping", "credentials"} => x.mapping # Absent
  /\ x.kind = "createMapping" => IsNewMapping(x.mapping)
  /\ x.kind = "resume" => x.seen = blocks[x.account].revision

LEMMA HoldStep ==
  ASSUME AccountsInv, NEW q \in Calls, NEW x, Awaiting(x), Hold(q, x)
  PROVE  AccountsInv'
<1>0. AccountsTypeOK /\ ConfigInv /\ CallInv /\ ResumeInv /\ MirrorInv
  BY DEF AccountsInv
<1> DEFINE y == [x EXCEPT !.held = appConfig, !.revision = saves]
<1>1. /\ appConfig' = appConfig /\ saves' = saves /\ retired' = retired /\ processed' = processed
      /\ queued' = queued /\ blocks' = blocks /\ mirrored' = mirrored /\ crossed' = crossed
      /\ undisputed' = undisputed \cup {q} /\ call' = [call EXCEPT ![q] = y]
  BY DEF Hold, tables, Awaiting
<1>2. /\ y \in CallState /\ y.kind = x.kind /\ y.account = x.account /\ y.mapping = x.mapping /\ y.did = x.did
      /\ y.seen = x.seen /\ y.held = appConfig /\ y.revision = saves
  BY <1>0 DEF Awaiting, CallState, AccountsTypeOK
<1> HIDE DEF y
<1>3. call' \in [Calls -> CallState]
  BY <1>0, <1>1, <1>2 DEF AccountsTypeOK
<1>4. \A r \in Calls \ {q} : call'[r] = call[r]
  BY <1>0, <1>1 DEF AccountsTypeOK
<1>5. call'[q] = y
  BY <1>0, <1>1 DEF AccountsTypeOK
<1>6. AccountsTypeOK'
  BY <1>0, <1>1, <1>3 DEF AccountsTypeOK
<1>7. ConfigInv' /\ MirrorInv'
  BY <1>0, <1>1 DEF ConfigInv, MirrorInv
<1>8. CallInv'
  <2>1. saves \in Nat
    BY <1>0, AccountBasics
  <2>2. /\ y.revision <= saves /\ y.did # Absent /\ y.account # Absent /\ y.held = appConfig
        /\ y.kind \in {"createMapping", "credentials"} => y.mapping # Absent
        /\ y.kind = "createMapping" => y.mapping \notin retired /\ ~IsMapping(appConfig, y.mapping)
    BY <1>2, <2>1 DEF Awaiting, IsNewMapping
  <2>. QED BY <1>0, <1>1, <1>4, <1>5, <2>2 DEF CallInv
<1>9. ResumeInv'
  <2>1. ASSUME y.kind = "resume" PROVE y.seen <= blocks[y.account].revision
    <3>1. y.account \in Accounts /\ y.seen = blocks[y.account].revision
      BY <1>2, <2>1, CallFields DEF Awaiting
    <3>2. blocks[y.account].revision \in Nat
      BY <1>0, <3>1, AccountBasics
    <3>. QED BY <3>1, <3>2
  <2>. QED BY <1>0, <1>1, <1>4, <1>5, <2>1 DEF ResumeInv
<1>. QED BY <1>6, <1>7, <1>8, <1>9 DEF AccountsInv

LEMMA HoldingStep ==
  ASSUME AccountsInv, NEW q \in Calls,
         \/ \E a \in Accounts : ResumeAccount(q, a)
         \/ \E a \in Accounts, d \in Dids : CreateAccount(q, a, d)
         \/ \E a \in Accounts, d \in Dids, k \in {"validate", "rotate"} : ValidateAccount(q, a, k, d)
         \/ \E a \in Accounts, d \in Dids, m \in Mappings : CreateMappingAndAccount(q, m, a, d)
         \/ \E m \in Mappings, d \in Dids : PatchCredentials(q, m, d)
  PROVE  \E x : Awaiting(x) /\ Hold(q, x)
<1>0. NoCall \in CallState /\ appConfig \in AppConfig
  BY NoCallTyped, AccountBasics DEF AccountsInv
<1>1. ASSUME NEW a \in Accounts, ResumeAccount(q, a)
      PROVE  \E x : Awaiting(x) /\ Hold(q, x)
  <2> DEFINE x == [NoCall EXCEPT !.kind = "resume", !.account = a, !.did = appConfig.did[a], !.seen = blocks[a].revision]
  <2>1. Hold(q, x) /\ appConfig.did[a] # Absent
    BY <1>1 DEF ResumeAccount, IsAccount
  <2>2. /\ x \in CallState /\ x.kind = "resume" /\ x.account = a /\ x.did # Absent /\ x.seen = blocks[a].revision
    <3>1. appConfig.did[a] \in Dids /\ blocks[a].revision \in 0 .. MaxEvidence + 1
      BY <1>0, <2>1, DocumentFields DEF AccountsInv, AccountsTypeOK
    <3>. QED BY <1>0, <2>1, <3>1 DEF CallState, CallKinds
  <2> HIDE DEF x
  <2>3. Awaiting(x)
    BY <1>0, <2>1, <2>2, AccountsAssumption DEF Awaiting
  <2>. QED BY <2>1, <2>3
<1>2. ASSUME NEW a \in Accounts, NEW d \in Dids, CreateAccount(q, a, d)
      PROVE  \E x : Awaiting(x) /\ Hold(q, x)
  <2> DEFINE x == [NoCall EXCEPT !.kind = "createAccount", !.account = a, !.did = d]
  <2>1. Hold(q, x)
    BY <1>2 DEF CreateAccount
  <2>2. /\ x \in CallState /\ x.kind = "createAccount" /\ x.account = a /\ x.did = d
    BY <1>0 DEF CallState, CallKinds
  <2> HIDE DEF x
  <2>3. Awaiting(x)
    BY <1>0, <2>1, <2>2, AccountsAssumption DEF Awaiting
  <2>. QED BY <2>1, <2>3
<1>3. ASSUME NEW a \in Accounts, NEW d \in Dids, NEW k \in {"validate", "rotate"}, ValidateAccount(q, a, k, d)
      PROVE  \E x : Awaiting(x) /\ Hold(q, x)
  <2> DEFINE x == [NoCall EXCEPT !.kind = k, !.account = a, !.did = d]
  <2>1. Hold(q, x)
    BY <1>3 DEF ValidateAccount
  <2>2. /\ x \in CallState /\ x.kind \in {"validate", "rotate"} /\ x.account = a /\ x.did = d
    BY <1>0 DEF CallState, CallKinds
  <2> HIDE DEF x
  <2>3. Awaiting(x)
    BY <1>0, <2>1, <2>2, AccountsAssumption DEF Awaiting
  <2>. QED BY <2>1, <2>3
<1>4. ASSUME NEW a \in Accounts, NEW d \in Dids, NEW m \in Mappings, CreateMappingAndAccount(q, m, a, d)
      PROVE  \E x : Awaiting(x) /\ Hold(q, x)
  <2> DEFINE x == [NoCall EXCEPT !.kind = "createMapping", !.account = a, !.mapping = m, !.did = d]
  <2>1. Hold(q, x) /\ IsNewMapping(m)
    BY <1>4 DEF CreateMappingAndAccount
  <2>2. /\ x \in CallState /\ x.kind = "createMapping" /\ x.account = a /\ x.did = d
        /\ x.mapping = m /\ IsNewMapping(x.mapping) /\ x.mapping # Absent
    <3>1. m # Absent
      BY AccountsAssumption
    <3>. QED BY <1>0, <2>1, <3>1 DEF CallState, CallKinds
  <2> HIDE DEF x
  <2>3. Awaiting(x)
    BY <1>0, <2>1, <2>2, AccountsAssumption DEF Awaiting
  <2>. QED BY <2>1, <2>3
<1>5. ASSUME NEW m \in Mappings, NEW d \in Dids, PatchCredentials(q, m, d)
      PROVE  \E x : Awaiting(x) /\ Hold(q, x)
  <2> DEFINE x == [NoCall EXCEPT !.kind = "credentials", !.mapping = m, !.account = appConfig.link[m], !.did = d]
  <2>1. Hold(q, x) /\ appConfig.link[m] # Absent
    BY <1>5 DEF PatchCredentials, IsMapping
  <2>2. /\ x \in CallState /\ x.kind = "credentials" /\ x.account # Absent /\ x.did = d /\ x.mapping = m
    <3>1. appConfig.link[m] \in Accounts \cup {Absent}
      BY <1>0, DocumentFields
    <3>. QED BY <1>0, <2>1, <3>1 DEF CallState, CallKinds
  <2> HIDE DEF x
  <2>3. Awaiting(x)
    BY <1>0, <2>1, <2>2, AccountsAssumption DEF Awaiting
  <2>. QED BY <2>1, <2>3
<1>. QED BY <1>1, <1>2, <1>3, <1>4, <1>5

LEMMA TakedownStep ==
  ASSUME AccountsInv, NEW a \in Accounts, EvidenceOfTakedown(a)
  PROVE  AccountsInv'
<1>0. AccountsTypeOK /\ ConfigInv /\ CallInv /\ ResumeInv /\ MirrorInv
  BY DEF AccountsInv
<1>1. /\ appConfig' = appConfig /\ saves' = saves /\ retired' = retired /\ processed' = processed
      /\ queued' = queued /\ mirrored' = mirrored /\ crossed' = crossed /\ call' = call
      /\ undisputed' = {q \in undisputed : call[q].account # a} /\ blocks[a].revision < MaxEvidence
      /\ blocks' = [blocks EXCEPT ![a] = Blocked(blocks[a])]
  BY DEF EvidenceOfTakedown, tables
<1>2. blocks[a].revision \in Nat /\ blocks[a].revision + 1 <= MaxEvidence
  BY <1>0, <1>1, AccountBasics, AccountsAssumption
<1>3. Blocked(blocks[a]) \in [blocked : BOOLEAN, revision : 0 .. MaxEvidence + 1]
  BY <1>2, AccountsAssumption DEF Blocked
<1>4. /\ blocks' \in [Accounts -> [blocked : BOOLEAN, revision : 0 .. MaxEvidence + 1]]
      /\ blocks'[a].revision = blocks[a].revision + 1 /\ \A b \in Accounts \ {a} : blocks'[b] = blocks[b]
  <2>1. blocks' \in [Accounts -> [blocked : BOOLEAN, revision : 0 .. MaxEvidence + 1]]
    BY <1>0, <1>1, <1>3 DEF AccountsTypeOK
  <2>2. blocks'[a] = Blocked(blocks[a]) /\ \A b \in Accounts \ {a} : blocks'[b] = blocks[b]
    BY <1>0, <1>1 DEF AccountsTypeOK
  <2>3. Blocked(blocks[a]).revision = blocks[a].revision + 1
    BY DEF Blocked
  <2>. QED BY <2>1, <2>2, <2>3
<1>5. AccountsTypeOK'
  BY <1>0, <1>1, <1>4 DEF AccountsTypeOK
<1>6. ConfigInv' /\ MirrorInv' /\ CallInv'
  BY <1>0, <1>1 DEF ConfigInv, MirrorInv, CallInv
<1>7. ResumeInv'
  <2>1. ASSUME NEW q \in Calls, call[q].kind = "resume"
        PROVE  /\ call[q].seen <= blocks'[call[q].account].revision
               /\ q \in undisputed' \/ call[q].seen < blocks'[call[q].account].revision \/ call[q].revision < saves
    <3>1. /\ call[q].seen \in Nat /\ call[q].seen <= blocks[call[q].account].revision
          /\ q \in undisputed \/ call[q].seen < blocks[call[q].account].revision \/ call[q].revision < saves
      BY <1>0, <2>1, AccountBasics, CallFields DEF ResumeInv
    <3>2. CASE call[q].account = a
      BY <1>2, <1>4, <3>1, <3>2
    <3>3. CASE call[q].account # a
      <4>1. call[q].account \in Accounts
        <5>1. call[q] \in CallState
          BY <1>0, AccountBasics
        <5>. QED BY <1>0, <2>1, <5>1, CallFields DEF CallInv
      <4>. QED BY <1>1, <1>4, <3>1, <3>3, <4>1
    <3>. QED BY <3>2, <3>3
  <2>2. ASSUME NEW b \in Accounts, blocks'[b].blocked PROVE blocks'[b].revision <= MaxEvidence
    BY <1>0, <1>2, <1>4, <2>2 DEF ResumeInv
  <2>. QED BY <1>1, <2>1, <2>2 DEF ResumeInv
<1>. QED BY <1>5, <1>6, <1>7 DEF AccountsInv

LEMMA ResumedStep ==
  ASSUME AccountsInv, NEW q \in Calls, AccountResumed(q)
  PROVE  /\ AccountsInv'
         /\ \A a \in Accounts : blocks[a].blocked /\ ~blocks'[a].blocked => q \in undisputed /\ call[q].account = a
<1>0. AccountsTypeOK /\ ConfigInv /\ CallInv /\ ResumeInv /\ MirrorInv
  BY DEF AccountsInv
<1> DEFINE b == call[q].account
<1>1. /\ appConfig' = appConfig /\ saves' = saves /\ retired' = retired /\ processed' = processed
      /\ queued' = queued /\ mirrored' = mirrored /\ crossed' = crossed /\ call' = [call EXCEPT ![q] = NoCall]
      /\ undisputed' = undisputed \ {q} /\ call[q].kind = "resume"
      /\ blocks' = IF IsCurrent(q) /\ IsSameBlock(q) THEN [blocks EXCEPT ![b] = Resumed(blocks[b])] ELSE blocks
  BY DEF AccountResumed, Reply, tables
<1>2. b \in Accounts
  <2>1. call[q] \in CallState
    BY <1>0, AccountBasics
  <2>. QED BY <1>0, <1>1, <2>1, CallFields DEF CallInv
<1>3. blocks[b].revision \in Nat
  BY <1>0, <1>2, AccountBasics
<1>4. CASE ~(IsCurrent(q) /\ IsSameBlock(q))
  <2>1. blocks' = blocks
    BY <1>1, <1>4
  <2>2. Unsaved(q)
    BY <1>1, <2>1 DEF Unsaved, tables
  <2>. QED BY <2>1, <2>2, UnsavedStep
<1>5. CASE IsCurrent(q) /\ IsSameBlock(q)
  <2>1. call[q].seen = blocks[b].revision /\ blocks[b].blocked /\ call[q].revision = saves
    BY <1>5 DEF IsCurrent, IsSameBlock
  <2>2. q \in undisputed
    <3>1. saves \in Nat
      BY <1>0, AccountBasics
    <3>. QED BY <1>0, <1>1, <1>3, <2>1, <3>1 DEF ResumeInv
  <2>3. blocks[b].revision + 1 \in 0 .. MaxEvidence + 1
    BY <1>0, <1>2, <1>3, <2>1, AccountsAssumption DEF ResumeInv
  <2>4. Resumed(blocks[b]) \in [blocked : BOOLEAN, revision : 0 .. MaxEvidence + 1] /\ ~Resumed(blocks[b]).blocked
        /\ Resumed(blocks[b]).revision = blocks[b].revision + 1
    BY <2>3 DEF Resumed
  <2>5. blocks' \in [Accounts -> [blocked : BOOLEAN, revision : 0 .. MaxEvidence + 1]]
    BY <1>0, <1>1, <1>5, <2>4 DEF AccountsTypeOK
  <2>6. blocks'[b] = Resumed(blocks[b]) /\ \A a \in Accounts \ {b} : blocks'[a] = blocks[a]
    BY <1>0, <1>1, <1>2, <1>5 DEF AccountsTypeOK
  <2> HIDE DEF b
  <2>7. call' \in [Calls -> CallState]
    BY <1>0, <1>1, NoCallTyped DEF AccountsTypeOK
  <2>8. \A r \in Calls \ {q} : call'[r] = call[r]
    BY <1>0, <1>1 DEF AccountsTypeOK
  <2>9. call'[q] = NoCall
    BY <1>0, <1>1 DEF AccountsTypeOK
  <2>10. AccountsTypeOK'
    BY <1>0, <1>1, <2>5, <2>7 DEF AccountsTypeOK
  <2>11. ConfigInv' /\ MirrorInv'
    BY <1>0, <1>1 DEF ConfigInv, MirrorInv
  <2>12. CallInv'
    <3>1. saves \in Nat
      BY <1>0, AccountBasics
    <3>2. NoCall.revision <= saves /\ NoCall.kind = "none"
      BY <1>0, <3>1, NoCallTyped
    <3>. QED BY <1>0, <1>1, <2>8, <2>9, <3>2 DEF CallInv
  <2>13. ResumeInv'
    <3>1. ASSUME NEW r \in Calls, call'[r].kind = "resume"
          PROVE  /\ call'[r].seen <= blocks'[call'[r].account].revision
                 /\ r \in undisputed' \/ call'[r].seen < blocks'[call'[r].account].revision \/ call'[r].revision < saves
      <4>1. r # q /\ call'[r] = call[r]
        BY <1>0, <2>8, <2>9, <3>1, NoCallTyped
      <4>2. /\ call[r].seen \in Nat /\ call[r].seen <= blocks[call[r].account].revision
            /\ r \in undisputed \/ call[r].seen < blocks[call[r].account].revision \/ call[r].revision < saves
        BY <1>0, <3>1, <4>1, AccountBasics, CallFields DEF ResumeInv
      <4>3. CASE call[r].account = b
        BY <1>1, <1>3, <2>4, <2>6, <4>1, <4>2, <4>3
      <4>4. CASE call[r].account # b
        <5>1. call[r].account \in Accounts
          <6>1. call[r] \in CallState
            BY <1>0, AccountBasics
          <6>. QED BY <1>0, <3>1, <4>1, <6>1, CallFields DEF CallInv
        <5>. QED BY <1>1, <2>6, <4>1, <4>2, <4>4, <5>1
      <4>. QED BY <4>3, <4>4
    <3>2. ASSUME NEW a \in Accounts, blocks'[a].blocked PROVE blocks'[a].revision <= MaxEvidence
      BY <1>0, <2>4, <2>6, <3>2 DEF ResumeInv
    <3>. QED BY <1>1, <3>1, <3>2 DEF ResumeInv
  <2>14. \A a \in Accounts : blocks[a].blocked /\ ~blocks'[a].blocked => q \in undisputed /\ call[q].account = a
    BY <2>2, <2>6 DEF b
  <2>. QED BY <2>10, <2>11, <2>12, <2>13, <2>14 DEF AccountsInv
<1>. QED BY <1>4, <1>5

LEMMA QueueStep ==
  ASSUME AccountsInv, NEW m \in Mappings, NEW p \in Posts, QueuePost(m, p)
  PROVE  AccountsInv'
<1>0. AccountsTypeOK /\ ConfigInv /\ CallInv /\ ResumeInv /\ MirrorInv
  BY DEF AccountsInv
<1>1. appConfig.key[m] \in Dids
  <2>1. appConfig.key \in [Mappings -> Dids \cup {Absent}]
    BY <1>0, AccountBasics, DocumentFields
  <2>. QED BY <1>0, <2>1 DEF ConfigInv, QueuePost
<1>2. queued' \subseteq QueueRow
  BY <1>0, <1>1 DEF QueuePost, QueueRow, AccountsTypeOK
<1>3. UNCHANGED <<appConfig, saves, retired, processed, blocks, call, undisputed, mirrored, crossed>>
  BY DEF QueuePost
<1>4. AccountsTypeOK'
  BY <1>0, <1>2, <1>3 DEF AccountsTypeOK
<1>5. ConfigInv' /\ CallInv'
  BY <1>0, <1>3 DEF ConfigInv, CallInv
<1>6. ResumeInv' /\ MirrorInv'
  BY <1>0, <1>3 DEF ResumeInv, MirrorInv
<1>. QED BY <1>4, <1>5, <1>6 DEF AccountsInv

LEMMA DeliverStep ==
  ASSUME AccountsInv, NEW r \in queued, DeliverPost(r)
  PROVE  AccountsInv'
<1>0. AccountsTypeOK /\ ConfigInv /\ CallInv /\ ResumeInv /\ MirrorInv
  BY DEF AccountsInv
<1> DEFINE m == r.mapping
           q == r.post
           k == appConfig.key[m]
<1>1. m \in Mappings /\ q \in Posts
  BY <1>0 DEF AccountsTypeOK, QueueRow
<1>2. /\ IsMapping(appConfig, m) /\ queued' \subseteq queued
      /\ UNCHANGED <<appConfig, saves, retired, blocks, call, undisputed, crossed>>
  BY DEF DeliverPost
<1>3. k \in Dids
  <2>1. appConfig.key \in [Mappings -> Dids \cup {Absent}]
    BY <1>0, AccountBasics, DocumentFields
  <2>. QED BY <1>0, <1>1, <1>2, <2>1 DEF ConfigInv
<1>4. processed \in [Dids -> SUBSET Posts] /\ mirrored \in [Mappings -> [Posts -> 0 .. 2]]
  BY <1>0, AccountBasics
<1>5. ConfigInv' /\ CallInv' /\ ResumeInv'
  <2>1. ConfigInv'
    BY <1>0, <1>2 DEF ConfigInv
  <2>2. CallInv'
    BY <1>0, <1>2 DEF CallInv
  <2>3. ResumeInv'
    BY <1>0, <1>2 DEF ResumeInv
  <2>. QED BY <2>1, <2>2, <2>3
<1>6. CASE q \in Known(m)
  <2>1. processed' = processed /\ mirrored' = mirrored
    BY <1>6 DEF DeliverPost
  <2>2. AccountsTypeOK'
    BY <1>0, <1>2, <2>1 DEF AccountsTypeOK
  <2>3. MirrorInv'
    BY <1>0, <1>2, <2>1 DEF MirrorInv
  <2>. QED BY <1>5, <2>2, <2>3 DEF AccountsInv
<1>7. CASE q \notin Known(m)
  <2> DEFINE c == mirrored[m][q]
             row == [mirrored[m] EXCEPT ![q] = IF c < 2 THEN c + 1 ELSE c]
  <2>1. /\ processed' = [processed EXCEPT ![k] = processed[k] \cup {q}]
        /\ mirrored' = [mirrored EXCEPT ![m] = row]
    BY <1>1, <1>4, <1>7 DEF DeliverPost
  <2>2. q \notin processed[k]
    BY <1>7 DEF Known, HistoryKeys
  <2>3. c \in 0 .. 2 /\ mirrored[m] \in [Posts -> 0 .. 2]
    BY <1>1, <1>4
  <2>4. row \in [Posts -> 0 .. 2] /\ row[q] <= c + 1 /\ \A p \in Posts \ {q} : row[p] = mirrored[m][p]
    BY <1>1, <2>3
  <2> HIDE DEF row
  <2>5. /\ processed' \in [Dids -> SUBSET Posts] /\ mirrored' \in [Mappings -> [Posts -> 0 .. 2]]
    BY <1>1, <1>3, <1>4, <2>1, <2>4
  <2>6. /\ \A d \in Dids : processed[d] \subseteq processed'[d]
        /\ q \in processed'[k]
    BY <1>3, <1>4, <2>1
  <2>7. /\ \A n \in Mappings \ {m} : mirrored'[n] = mirrored[n]
        /\ mirrored'[m] = row
    BY <1>1, <1>4, <2>1
  <2>8. AccountsTypeOK'
    BY <1>0, <1>2, <2>5 DEF AccountsTypeOK
  <2>9. ASSUME NEW n \in Mappings, NEW p \in Posts
        PROVE  /\ n \notin crossed => mirrored'[n][p] <= 1
               /\ n \notin crossed /\ IsMapping(appConfig, n) /\ mirrored'[n][p] > 0 => p \in processed'[appConfig.key[n]]
               /\ ~IsMapping(appConfig, n) /\ n \notin retired => mirrored'[n][p] = 0
    <3>1. CASE n = m /\ p = q
      <4>1. n \notin crossed => c = 0
        BY <1>0, <1>1, <1>2, <2>2, <2>3, <3>1 DEF MirrorInv
      <4>. QED BY <1>2, <2>3, <2>4, <2>6, <2>7, <3>1, <4>1
    <3>2. CASE ~(n = m /\ p = q)
      <4>1. mirrored'[n][p] = mirrored[n][p]
        BY <2>4, <2>7, <3>2
      <4>2. IsMapping(appConfig, n) => appConfig.key[n] \in Dids
        <5>1. appConfig.key \in [Mappings -> Dids \cup {Absent}]
          BY <1>0, AccountBasics, DocumentFields
        <5>. QED BY <1>0, <5>1 DEF ConfigInv
      <4>. QED BY <1>0, <2>6, <4>1, <4>2 DEF MirrorInv
    <3>. QED BY <3>1, <3>2
  <2>10. MirrorInv'
    BY <1>2, <2>9 DEF MirrorInv
  <2>. QED BY <1>5, <2>8, <2>10 DEF AccountsInv
<1>. QED BY <1>6, <1>7

LEMMA FirstAccounts == AccountsInit => AccountsInv
<1> SUFFICES ASSUME AccountsInit PROVE AccountsInv
  OBVIOUS
<1>1. FirstConfig \in AppConfig
  BY AccountsAssumption DEF FirstConfig, AppConfig
<1>2. /\ appConfig = FirstConfig /\ saves = 0 /\ retired = {} /\ processed = [k \in Dids |-> {}] /\ queued = {}
      /\ blocks = [a \in Accounts |-> [blocked |-> FALSE, revision |-> 0]]
      /\ call = [q \in Calls |-> NoCall] /\ undisputed = {}
      /\ mirrored = [m \in Mappings |-> [p \in Posts |-> 0]] /\ crossed = {}
  BY DEF AccountsInit
<1>3. NoCall \in CallState /\ NoCall.kind = "none" /\ NoCall.revision = 0
  <2>1. 0 \in 0 .. MaxSaves /\ 0 \in 0 .. MaxEvidence + 1 /\ "none" \in CallKinds
    BY AccountsAssumption DEF CallKinds
  <2>. QED BY <1>1, <2>1 DEF NoCall, CallState
<1>4. \A m \in Mappings : ~IsMapping(appConfig, m) /\ ~IsCrossed(appConfig, m)
  BY <1>2 DEF FirstConfig, IsMapping, IsCrossed
<1>5. AccountsTypeOK
  <2>1. 0 \in 0 .. MaxSaves /\ 0 \in 0 .. MaxEvidence + 1
    BY AccountsAssumption
  <2>. QED BY <1>1, <1>2, <1>3, <2>1 DEF AccountsTypeOK
<1>6. ConfigInv
  BY <1>4 DEF ConfigInv
<1>7. CallInv /\ ResumeInv
  BY <1>2, <1>3, AccountsAssumption DEF CallInv, ResumeInv
<1>8. MirrorInv
  BY <1>2, <1>4 DEF MirrorInv
<1>. QED BY <1>5, <1>6, <1>7, <1>8 DEF AccountsInv
--------------------------------------------------------------------------------
LEMMA AccountsStep ==
  ASSUME AccountsInv, [AccountsNext]_accountVars
  PROVE  /\ AccountsInv'
         /\ \A a \in Accounts : blocks[a].blocked /\ ~blocks'[a].blocked =>
              \E q \in undisputed : call[q].kind = "resume" /\ call[q].account = a
<1> DEFINE Goal == /\ AccountsInv'
                   /\ \A a \in Accounts : blocks[a].blocked /\ ~blocks'[a].blocked =>
                        \E q \in undisputed : call[q].kind = "resume" /\ call[q].account = a
<1>1. CASE UNCHANGED accountVars
  <2>1. /\ UNCHANGED <<appConfig, saves, retired, processed, queued>>
        /\ UNCHANGED <<blocks, call, undisputed, mirrored, crossed>>
    BY <1>1 DEF accountVars, tables
  <2>2. AccountsTypeOK' /\ ConfigInv' /\ MirrorInv'
    BY <2>1 DEF AccountsInv, AccountsTypeOK, ConfigInv, MirrorInv
  <2>3. CallInv' /\ ResumeInv'
    BY <2>1 DEF AccountsInv, CallInv, ResumeInv
  <2>. QED BY <2>1, <2>2, <2>3 DEF AccountsInv
<1>2. ASSUME NEW document \in AppConfig, Saving(document) PROVE Goal
  BY <1>2, SavingStep DEF Saving
<1>3. ASSUME NEW q \in Calls, Unsaved(q) PROVE Goal
  BY <1>3, UnsavedStep DEF Unsaved
<1>4. ASSUME NEW q \in Calls, NEW x, Awaiting(x), Hold(q, x) PROVE Goal
  BY <1>4, HoldStep DEF Hold
<1>5. ASSUME NEW a \in Accounts, AccountHandler(a) PROVE Goal
  <2>1. CASE DeleteAccount(a)
    BY <1>2, <2>1, PlainSaves
  <2>2. CASE EvidenceOfTakedown(a)
    <3>1. blocks' = [blocks EXCEPT ![a] = Blocked(blocks[a])] /\ Blocked(blocks[a]).blocked
      BY <2>2 DEF EvidenceOfTakedown, Blocked
    <3>2. blocks \in [Accounts -> [blocked : BOOLEAN, revision : 0 .. MaxEvidence + 1]]
      BY DEF AccountsInv, AccountsTypeOK
    <3>3. \A b \in Accounts : blocks[b].blocked => blocks'[b].blocked
      BY <3>1, <3>2
    <3>. QED BY <2>2, <3>3, TakedownStep
  <2>3. ASSUME NEW q \in Calls, NEW x, Awaiting(x), Hold(q, x) PROVE Goal
    BY <1>4, <2>3
  <2>4. ASSUME NEW q \in Calls, ResumeAccount(q, a) PROVE Goal
    BY <2>3, <2>4, HoldingStep
  <2>5. ASSUME NEW q \in Calls, NEW d \in Dids, CreateAccount(q, a, d) PROVE Goal
    BY <2>3, <2>5, HoldingStep
  <2>6. ASSUME NEW q \in Calls, NEW d \in Dids, NEW k \in {"validate", "rotate"}, ValidateAccount(q, a, k, d) PROVE Goal
    BY <2>3, <2>6, HoldingStep
  <2>7. ASSUME NEW q \in Calls, NEW d \in Dids, NEW m \in Mappings, CreateMappingAndAccount(q, m, a, d) PROVE Goal
    BY <2>3, <2>7, HoldingStep
  <2>. QED BY <1>5, <2>1, <2>2, <2>4, <2>5, <2>6, <2>7 DEF AccountHandler
<1>6. ASSUME NEW m \in Mappings, MappingHandler(m) PROVE Goal
  <2>1. CASE \/ \E a \in Accounts : LinkAccount(m, a) \/ \E S \in SUBSET Sources : CreateMapping(m, a, S)
             \/ EditMapping(m)
             \/ \E s \in Sources : AddSource(m, s)
    <3>1. \E document \in AppConfig : Saving(document)
      BY <2>1, PlainSaves
    <3>. QED BY <1>2, <3>1
  <2>2. CASE DeleteMapping(m)
    BY <1>2, <2>2, DeletingMapping
  <2>3. CASE \E s \in Sources, cancel, forget \in BOOLEAN : RemoveSource(m, s, cancel, forget)
    BY <1>2, <2>3, RemovingSource
  <2>4. CASE \E q \in Calls, d \in Dids : PatchCredentials(q, m, d)
    BY <1>4, <2>4, HoldingStep
  <2>. QED BY <1>6, <2>1, <2>2, <2>3, <2>4 DEF MappingHandler
<1>7. ASSUME NEW q \in Calls, Resumption(q) PROVE Goal
  <2>1. CASE \/ AccountCreated(q) \/ AccountValidated(q) \/ CredentialsPatched(q)
             \/ \E S \in SUBSET Sources : MappingCreated(q, S)
    BY <1>2, <1>3, <2>1, FinishingStep
  <2>2. CASE AccountResumed(q)
    <3>1. call[q].kind = "resume"
      BY <2>2 DEF AccountResumed
    <3>. QED BY <2>2, <3>1, ResumedStep
  <2>3. CASE Reject(q)
    <3>1. Unsaved(q)
      BY <2>3 DEF Reject, Reply, Unsaved
    <3>. QED BY <1>3, <3>1
  <2>. QED BY <1>7, <2>1, <2>2, <2>3 DEF Resumption
<1>8. ASSUME NEW s \in Sources, DeleteSource(s) PROVE Goal
  BY <1>2, <1>8, DeletingSource
<1>9. ASSUME NEW m \in Mappings, NEW p \in Posts, QueuePost(m, p) PROVE Goal
  BY <1>9, QueueStep DEF QueuePost
<1>10. ASSUME NEW r \in queued, DeliverPost(r) PROVE Goal
  BY <1>10, DeliverStep DEF DeliverPost
<1>11. CASE AccountsNext
  BY <1>5, <1>6, <1>7, <1>8, <1>9, <1>10, <1>11 DEF AccountsNext
<1>. QED BY <1>1, <1>11

\* The configuration, what is awaited, and the blocks and histories of accounts are related as the
\* handlers need it, and typed.
THEOREM AccountsTyping == AccountsSpec => []AccountsTypeOK
<1>1. AccountsInv /\ [AccountsNext]_accountVars => AccountsInv'
  BY AccountsStep
<1>2. AccountsInv => AccountsTypeOK
  BY DEF AccountsInv
<1>. QED BY FirstAccounts, <1>1, <1>2, PTL DEF AccountsSpec

\* blueskyAccountRuntimeService.resume(): a block that has grown since the validation began, or
\* one of an account that was saved in between, is not lifted by its answer.
THEOREM BlocksOutliveOldValidations == AccountsSpec => OnlyNewValidationsLiftBlocks
<1>1. AccountsInv /\ [AccountsNext]_accountVars => AccountsInv'
  BY AccountsStep
<1>2. AccountsInv /\ [AccountsNext]_accountVars =>
        [\A a \in Accounts : blocks[a].blocked /\ ~blocks'[a].blocked =>
           \E q \in undisputed : call[q].kind = "resume" /\ call[q].account = a]_accountVars
  BY AccountsStep
<1>. QED BY FirstAccounts, <1>1, <1>2, PTL DEF AccountsSpec, OnlyNewValidationsLiftBlocks

\* rekeyDestinationIdentity(): whichever identities are rekeyed while a destination is relinked,
\* a post it has published is found under one of its keys and is not published again.
THEOREM DestinationsDoNotRepeat == AccountsSpec => []PostsAreMirroredOnce
<1>1. AccountsInv /\ [AccountsNext]_accountVars => AccountsInv'
  BY AccountsStep
<1>2. AccountsInv => PostsAreMirroredOnce
  BY DEF AccountsInv, MirrorInv, PostsAreMirroredOnce
<1>. QED BY FirstAccounts, <1>1, <1>2, PTL DEF AccountsSpec
--------------------------------------------------------------------------------
(***************************************************************************)
(* The profile of a destination, written by seven tasks and by its owner,  *)
(* and its posts under deleteAllPosts().  The invariant says what becomes  *)
(* of a copy between its read and its save.                                *)
(***************************************************************************)
TaskState ==
  [at : {"idle", "waiting", "fetch", "mirror", "apply", "read", "put", "save"},
   what : {"profile", "pin", "label", "suffix"}, version : 0 .. MaxVersion, tweet : Pins,
   known : Mirrored, fields : SUBSET Fields,
   seen : {"nothing", "missing", "stale", "fresh"}, copy : [name : Names, bio : 0 .. MaxMirrorEvents],
   current : BOOLEAN]

\* What a task of each kind writes.
TaskFits(j, x) ==
  /\ x.at \in {"mirror", "apply"} => x.what = "pin"
  /\ x.at = "mirror" => x.tweet \in Tweets
  /\ x.what = "label" => x.fields = {}
  /\ x.what = "suffix" => j = "suffix" /\ x.fields \subseteq {"name"} /\ (x.at = "put" => x.fields = {"name"})
  /\ x.what = "profile" => x.fields \subseteq {"name", "avatar"}
  /\ x.what = "pin" => x.fields \subseteq {"pin"} /\ (x.at \in {"read", "put"} => x.fields = {"pin"})

\* What a task that has written is about to record of a field.
Value(x, f) ==
  CASE f = "name" -> [version |-> x.version, bot |-> x.what = "suffix"]
    [] f = "avatar" -> x.version
    [] f = "pin" -> x.tweet

IsSaver(x, f) == x.at = "save" /\ f \in x.fields
IsShown(f) == \E i \in Jobs : IsSaver(task[i], f) /\ Value(task[i], f) = profile[f]

\* A copy that is accepted is the record; what the handler of the suffix has read is, too,
\* unless it may not record anything or the one who wrote has yet to.
CopiesFit ==
  /\ \A j \in Jobs : task[j].seen = "fresh" => task[j].copy.name = profile.name
  /\ ~profile.exists => profile = NoRecord
  /\ LET x == task["suffix"] IN
     x.at = "fetch" /\ x.what = "suffix" /\ x.seen # "missing" =>
       x.copy.name = profile.name \/ "name" \in doubt \/ ~x.current \/ IsShown("name")

\* Who is about to record a field records what the profile shows, except for the handler
\* of the suffix that may not record, or that somebody records after.
SaverFits(j, f) ==
  IsSaver(task[j], f) => Value(task[j], f) = profile[f] \/ (j = "suffix" /\ (~task[j].current \/ IsShown(f)))

RecordsFit ==
  \A f \in Fields \ doubt : (mapping[f] = profile[f] \/ IsShown(f)) /\ \A j \in Jobs : SaverFits(j, f)

DeletionFits == deletion = "deleting" /\ holder = "deletion" => repo \subseteq left

AccountTyped ==
  /\ profile \in Profiles /\ mapping \in Mirrored
  /\ source \in [version : 0 .. MaxVersion, pin : Pins]
  /\ doubt \subseteq Fields /\ started \in 0 .. MaxJobs /\ happened \in 0 .. MaxMirrorEvents

PostsTyped ==
  /\ outcome \in [Tweets -> {"none", "migrated", "skipped"}] /\ repo \subseteq Tweets
  /\ holder \in {"nobody", "delivery", "timeline", "deletion"}
  /\ deletion \in {"idle", "deleting", "uneven"} /\ left \subseteq Tweets

TasksTyped == task \in [Jobs -> TaskState] /\ \A j \in Jobs : TaskFits(j, task[j])

TypedMirror == AccountTyped /\ PostsTyped /\ TasksTyped
ProfileInv == TypedMirror /\ CopiesFit /\ RecordsFit /\ DeletionFits
--------------------------------------------------------------------------------
LEMMA SameTypes == MirrorTypeOK <=> AccountTyped /\ PostsTyped /\ task \in [Jobs -> TaskState]
  BY DEF MirrorTypeOK, AccountTyped, PostsTyped, TaskState

LEMMA Blank ==
  /\ NoRecord \in Profiles /\ NothingMirrored \in Mirrored /\ NoCopy \in [name : Names, bio : 0 .. MaxMirrorEvents]
  /\ NoTweet \in Pins /\ [version |-> 0, bot |-> FALSE] \in Names
<1>1. 0 \in 0 .. MaxVersion /\ 0 \in 0 .. MaxMirrorEvents /\ NoTweet \in Pins
  BY MirrorAssumption DEF Pins
<1>2. [version |-> 0, bot |-> FALSE] \in Names
  BY <1>1 DEF Names
<1>. QED BY <1>1, <1>2 DEF NoRecord, NothingMirrored, NoCopy, Profiles, Mirrored

LEMMA Rest ==
  /\ Resting \in TaskState /\ Resting.at = "idle" /\ Resting.what = "profile" /\ Resting.fields = {}
  /\ Resting.seen = "nothing"
<1>1. 0 \in 0 .. MaxVersion
  BY MirrorAssumption
<1>. QED BY <1>1, Blank DEF Resting, TaskState

LEMMA TaskFields ==
  ASSUME NEW x \in TaskState
  PROVE  /\ x.version \in 0 .. MaxVersion /\ x.tweet \in Pins /\ x.known \in Mirrored /\ x.fields \subseteq Fields
         /\ x.copy \in [name : Names, bio : 0 .. MaxMirrorEvents] /\ x.copy.name \in Names
         /\ x.copy.bio \in 0 .. MaxMirrorEvents
         /\ x.known.pin \in Pins
  BY DEF TaskState, Mirrored

LEMMA EndedIs ==
  ASSUME NEW j \in Jobs, NEW x \in TaskState
  PROVE  /\ Ended(j, x) \in TaskState /\ TaskFits(j, Ended(j, x))
         /\ Ended(j, x).at \in {"idle", "fetch"} /\ Ended(j, x).what # "suffix"
         /\ Ended(j, x).seen = "nothing" /\ Ended(j, x).fields = {}
<1> DEFINE y == [Resting EXCEPT !.at = "fetch", !.what = "pin", !.known = x.known]
<1>1. y \in TaskState /\ y.at = "fetch" /\ y.what = "pin" /\ y.fields = {} /\ y.seen = "nothing"
  BY Rest, TaskFields DEF TaskState
<1> HIDE DEF y
<1>2. Ended(j, x) \in {y, Resting}
  BY DEF Ended, y
<1>. QED BY <1>1, <1>2, Rest DEF TaskFits

LEMMA OneTask ==
  ASSUME task \in [Jobs -> TaskState], NEW j \in Jobs, NEW y \in TaskState, task' = [task EXCEPT ![j] = y]
  PROVE  /\ task' \in [Jobs -> TaskState] /\ task'[j] = y
         /\ \A i \in Jobs \ {j} : task'[i] = task[i]
  OBVIOUS

\* One task moves on.
Moves(j, y) ==
  /\ y \in TaskState /\ TaskFits(j, y) /\ task' \in [Jobs -> TaskState]
  /\ task'[j] = y /\ \A i \in Jobs \ {j} : task'[i] = task[i]

LEMMA Moving ==
  ASSUME task \in [Jobs -> TaskState], NEW j \in Jobs, NEW y, y \in TaskState, TaskFits(j, y), Continues(j, y)
  PROVE  Moves(j, y)
  BY OneTask DEF Moves, Continues

LEMMA MovesTyped ==
  ASSUME TasksTyped, NEW j \in Jobs, NEW y, Moves(j, y)
  PROVE  TasksTyped'
  BY DEF TasksTyped, Moves

LEMMA WrittenTyped ==
  ASSUME NEW x \in TaskState, NEW record \in Profiles
  PROVE  /\ Written(x, record) \in Profiles
         /\ Written(x, record).exists
         /\ Written(x, record).name = (CASE x.what = "suffix" -> [version |-> x.version, bot |-> TRUE]
                                        [] x.what = "profile" /\ "name" \in x.fields -> [version |-> x.version, bot |-> FALSE]
                                        [] OTHER -> record.name)
         /\ Written(x, record).avatar = IF x.what = "profile" /\ "avatar" \in x.fields THEN x.version ELSE record.avatar
         /\ Written(x, record).pin = IF x.what = "pin" THEN x.tweet ELSE record.pin
<1>1. /\ [version |-> x.version, bot |-> TRUE] \in Names
      /\ [version |-> x.version, bot |-> FALSE] \in Names
  BY TaskFields DEF Names
<1>2. x.version \in 0 .. MaxVersion /\ x.tweet \in Pins
  BY TaskFields
<1> DEFINE N == CASE x.what = "suffix" -> [version |-> x.version, bot |-> TRUE]
                  [] x.what = "profile" /\ "name" \in x.fields -> [version |-> x.version, bot |-> FALSE]
                  [] OTHER -> record.name
           A == IF x.what = "profile" /\ "avatar" \in x.fields THEN x.version ELSE record.avatar
           P == IF x.what = "pin" THEN x.tweet ELSE record.pin
           L == record.label \/ x.what = "label"
<1>3. N \in Names /\ A \in 0 .. MaxVersion /\ P \in Pins /\ L \in BOOLEAN
  BY <1>1, <1>2 DEF Profiles
<1>4. Written(x, record) = [record EXCEPT !.exists = TRUE, !.name = N, !.avatar = A, !.pin = P, !.label = L]
  BY DEF Written, Profiles
<1> HIDE DEF N, A, P, L
<1>5. /\ Written(x, record) \in Profiles /\ Written(x, record).exists /\ Written(x, record).name = N
      /\ Written(x, record).avatar = A /\ Written(x, record).pin = P
  BY <1>3, <1>4 DEF Profiles
<1>. QED BY <1>5 DEF N, A, P

LEMMA CopyTyped ==
  ASSUME NEW x \in TaskState, profile \in Profiles
  PROVE  /\ Copy(x) \in Profiles
         /\ x.seen = "missing" => Copy(x) = NoRecord
         /\ x.seen # "missing" => /\ Copy(x).name = x.copy.name /\ Copy(x).avatar = profile.avatar
                                  /\ Copy(x).pin = profile.pin
<1>1. [profile EXCEPT !.name = x.copy.name, !.bio = x.copy.bio] \in Profiles
  BY TaskFields DEF Profiles
<1>2. /\ [profile EXCEPT !.name = x.copy.name, !.bio = x.copy.bio].name = x.copy.name
      /\ [profile EXCEPT !.name = x.copy.name, !.bio = x.copy.bio].avatar = profile.avatar
      /\ [profile EXCEPT !.name = x.copy.name, !.bio = x.copy.bio].pin = profile.pin
  BY DEF Profiles
<1>. QED BY <1>1, <1>2, Blank DEF Copy

LEMMA RecordedTyped ==
  ASSUME NEW x \in TaskState, NEW m \in Mirrored
  PROVE  /\ Recorded(x, m) \in Mirrored
         /\ Recorded(x, m).name = IF "name" \in x.fields THEN [version |-> x.version, bot |-> x.what = "suffix"] ELSE m.name
         /\ Recorded(x, m).avatar = IF "avatar" \in x.fields THEN x.version ELSE m.avatar
         /\ Recorded(x, m).pin = IF "pin" \in x.fields THEN x.tweet ELSE m.pin
<1>1. [version |-> x.version, bot |-> x.what = "suffix"] \in Names
  BY TaskFields DEF Names
<1>2. x.version \in 0 .. MaxVersion /\ x.tweet \in Pins
  BY TaskFields
<1> DEFINE N == IF "name" \in x.fields THEN [version |-> x.version, bot |-> x.what = "suffix"] ELSE m.name
           A == IF "avatar" \in x.fields THEN x.version ELSE m.avatar
           P == IF "pin" \in x.fields THEN x.tweet ELSE m.pin
<1>3. N \in Names /\ A \in 0 .. MaxVersion /\ P \in Pins
  BY <1>1, <1>2 DEF Mirrored
<1>4. Recorded(x, m) = [m EXCEPT !.name = N, !.avatar = A, !.pin = P]
  BY DEF Recorded, Mirrored
<1> HIDE DEF N, A, P
<1>5. /\ Recorded(x, m) \in Mirrored /\ Recorded(x, m).name = N
      /\ Recorded(x, m).avatar = A /\ Recorded(x, m).pin = P
  BY <1>3, <1>4 DEF Mirrored
<1>. QED BY <1>5 DEF N, A, P
--------------------------------------------------------------------------------
\* A task moves on without writing the profile or the mapping.
Quiet(j) ==
  /\ Moves(j, task'[j]) /\ task[j].at # "save"
  /\ \A f \in Fields \ doubt' : IsSaver(task'[j], f) =>
       j = "suffix" /\ (Value(task'[j], f) = profile[f] \/ ~task'[j].current \/ IsShown(f))
  /\ task'[j].seen = "fresh" => task'[j].copy.name = profile.name
  /\ j = "suffix" /\ task'[j].at = "fetch" /\ task'[j].what = "suffix" => task'[j].copy.name = profile.name
                                                                         \/ task'[j].seen = "missing"
  /\ UNCHANGED <<profile, mapping>> /\ doubt \subseteq doubt' /\ AccountTyped'

LEMMA TaskAt ==
  ASSUME TasksTyped, NEW j \in Jobs
  PROVE  task[j] \in TaskState /\ TaskFits(j, task[j])
  BY DEF TasksTyped

LEMMA StartsQuiet ==
  ASSUME TypedMirror, NEW j \in Jobs, NEW x \in TaskState, TaskFits(j, x), Starts(j, x),
         x.at # "save", x.seen = "nothing", x.at = "fetch" => x.what # "suffix"
  PROVE  Quiet(j)
<1> DEFINE y == [x EXCEPT !.known = mapping, !.current = TRUE]
<1>1. mapping \in Mirrored /\ task \in [Jobs -> TaskState]
  BY DEF TypedMirror, AccountTyped, TasksTyped
<1>2. /\ y \in TaskState /\ y.at = x.at /\ y.what = x.what /\ y.fields = x.fields /\ y.seen = x.seen
      /\ y.tweet = x.tweet
  BY <1>1 DEF TaskState
<1>3. Continues(j, y)
  BY DEF Starts, Continues
<1> HIDE DEF y
<1>4. TaskFits(j, y)
  BY <1>2 DEF TaskFits
<1>5. Moves(j, y) /\ task'[j] = y
  BY <1>1, <1>2, <1>3, <1>4, Moving DEF Moves
<1>6. UNCHANGED <<profile, mapping, source, doubt, happened>> /\ started' \in 0 .. MaxJobs /\ task[j].at = "idle"
  BY MirrorAssumption DEF Starts, IsIdle, TypedMirror, AccountTyped
<1>7. AccountTyped'
  BY <1>6 DEF TypedMirror, AccountTyped
<1>. QED BY <1>2, <1>5, <1>6, <1>7 DEF Quiet, IsSaver

LEMMA StartAtQuiet ==
  ASSUME TypedMirror, NEW j \in Jobs, NEW stage \in {"fetch", "read"}, NEW what \in {"profile", "pin", "label", "suffix"},
         StartAt(j, stage, what), stage = "fetch" => what \in {"profile", "pin"}, stage = "read" => what \in {"label", "suffix"},
         what = "suffix" => j = "suffix"
  PROVE  Quiet(j)
<1> DEFINE x == [Resting EXCEPT !.at = stage, !.what = what]
<1>1. x \in TaskState /\ x.at = stage /\ x.what = what /\ x.fields = {} /\ x.seen = "nothing"
  BY Rest DEF TaskState
<1>2. Starts(j, x)
  BY DEF StartAt
<1> HIDE DEF x
<1>3. TaskFits(j, x)
  BY <1>1 DEF TaskFits
<1>. QED BY <1>1, <1>2, <1>3, StartsQuiet

LEMMA HousekeepingQuiet ==
  ASSUME TypedMirror, StartHousekeeping
  PROVE  Quiet("housekeeping")
<1> DEFINE x == [Resting EXCEPT !.at = "waiting"]
<1>1. x \in TaskState /\ x.at = "waiting" /\ x.what = "profile" /\ x.fields = {} /\ x.seen = "nothing"
  BY Rest DEF TaskState
<1>2. Starts("housekeeping", x)
  BY DEF StartHousekeeping
<1> HIDE DEF x
<1>3. TaskFits("housekeeping", x)
  BY <1>1 DEF TaskFits
<1>. QED BY <1>1, <1>2, <1>3, StartsQuiet DEF Jobs

LEMMA TimelineQuiet ==
  ASSUME TypedMirror, StartTimeline
  PROVE  Quiet("timeline")
<1> DEFINE x == [Resting EXCEPT !.at = "apply", !.what = "pin", !.tweet = source.pin]
<1>0. source.pin \in Pins
  BY DEF TypedMirror, AccountTyped
<1>1. x \in TaskState /\ x.at = "apply" /\ x.what = "pin" /\ x.fields = {} /\ x.seen = "nothing"
  BY <1>0, Rest DEF TaskState
<1>2. Starts("timeline", x)
  BY DEF StartTimeline
<1> HIDE DEF x
<1>3. TaskFits("timeline", x)
  BY <1>1 DEF TaskFits
<1>. QED BY <1>1, <1>2, <1>3, StartsQuiet DEF Jobs

\* A task that moves on while the profile, the mapping and the doubts stay.
LEMMA ContinuesQuiet ==
  ASSUME TypedMirror, NEW j \in Jobs, NEW y \in TaskState, TaskFits(j, y), Continues(j, y),
         task[j].at # "save", y.at = "save" => y.fields = {} \/ y.fields \subseteq doubt',
         y.seen = "fresh" => y.copy.name = profile.name,
         y.at = "fetch" /\ y.what = "suffix" => y.copy.name = profile.name \/ y.seen = "missing",
         UNCHANGED <<profile, mapping, source, started>>, doubt \subseteq doubt', doubt' \subseteq Fields,
         happened' \in 0 .. MaxMirrorEvents
  PROVE  Quiet(j)
<1>1. task \in [Jobs -> TaskState]
  BY DEF TypedMirror, TasksTyped
<1>2. Moves(j, y) /\ task'[j] = y
  BY <1>1, Moving DEF Moves
<1>3. AccountTyped'
  BY DEF TypedMirror, AccountTyped
<1>. QED BY <1>2, <1>3 DEF Quiet, IsSaver

\* The lease and the posts stay, or change as the types allow.
LEMMA AccountAt ==
  ASSUME TypedMirror
  PROVE  /\ profile \in Profiles /\ mapping \in Mirrored /\ source.version \in 0 .. MaxVersion /\ source.pin \in Pins
         /\ doubt \subseteq Fields /\ happened \in 0 .. MaxMirrorEvents /\ started \in 0 .. MaxJobs
         /\ profile.name \in Names /\ profile.bio \in 0 .. MaxMirrorEvents
  BY DEF TypedMirror, AccountTyped, Profiles

LEMMA TurnQuiet ==
  ASSUME TypedMirror, CopiesFit, HousekeepingTurn
  PROVE  Quiet("housekeeping")
<1> DEFINE y == [task["housekeeping"] EXCEPT !.at = "fetch"]
<1>1. "housekeeping" \in Jobs /\ task["housekeeping"] \in TaskState /\ TaskFits("housekeeping", task["housekeeping"])
  BY TaskAt DEF TypedMirror, Jobs
<1>2. /\ y \in TaskState /\ y.at = "fetch" /\ y.what = task["housekeeping"].what
      /\ y.fields = task["housekeeping"].fields /\ y.seen = task["housekeeping"].seen
      /\ y.copy = task["housekeeping"].copy
  BY <1>1 DEF TaskState
<1>3. Continues("housekeeping", y)
  BY DEF HousekeepingTurn, Continues
<1> HIDE DEF y
<1>4. TaskFits("housekeeping", y) /\ y.what # "suffix"
  BY <1>1, <1>2 DEF TaskFits
<1>. QED BY <1>1, <1>2, <1>3, <1>4, ContinuesQuiet, AccountAt DEF HousekeepingTurn, CopiesFit

LEMMA FetchProfileQuiet ==
  ASSUME TypedMirror, CopiesFit, NEW j \in Jobs, FetchProfile(j)
  PROVE  Quiet(j)
<1> DEFINE x == task[j]
<1>1. x \in TaskState /\ TaskFits(j, x)
  BY TaskAt DEF TypedMirror
<1>2. PICK uploaded \in Uploads : LET F == Changed(x.known, source.version, uploaded) IN
       Continues(j, [x EXCEPT !.at = IF F = {} THEN "save" ELSE "read", !.version = source.version, !.fields = F])
  BY DEF FetchProfile
<1> DEFINE F == Changed(x.known, source.version, uploaded)
           stage == IF F = {} THEN "save" ELSE "read"
           y == [x EXCEPT !.at = stage, !.version = source.version, !.fields = F]
<1>3. F \subseteq {"name", "avatar"} /\ stage \in {"save", "read"} /\ (stage = "save" => F = {})
  BY DEF Changed
<1>4. Continues(j, y)
  BY <1>2
<1> HIDE DEF F, stage
<1>5. y \in TaskState /\ y.at = stage /\ y.what = x.what /\ y.fields = F /\ y.seen = x.seen /\ y.copy = x.copy
  BY <1>1, <1>3, AccountAt DEF TaskState, Fields
<1>6. x.what = "profile" /\ x.at = "fetch"
  BY DEF FetchProfile
<1> HIDE DEF y
<1>7. TaskFits(j, y)
  BY <1>3, <1>5, <1>6 DEF TaskFits
<1>. QED BY <1>3, <1>4, <1>5, <1>6, <1>7, ContinuesQuiet, AccountAt DEF FetchProfile, CopiesFit

LEMMA LookUpPinQuiet ==
  ASSUME TypedMirror, CopiesFit, NEW j \in Jobs, LookUpPin(j)
  PROVE  Quiet(j)
<1> DEFINE x == task[j]
           stage == IF source.pin \in {NoTweet, x.known.pin} \/ outcome[source.pin] = "migrated" THEN "apply" ELSE "mirror"
           y == [x EXCEPT !.tweet = source.pin, !.at = stage]
<1>1. x \in TaskState /\ TaskFits(j, x)
  BY TaskAt DEF TypedMirror
<1>2. stage \in {"apply", "mirror"} /\ (stage = "mirror" => source.pin \in Tweets)
  BY AccountAt DEF Pins
<1>3. Continues(j, y)
  BY DEF LookUpPin
<1> HIDE DEF stage
<1>4. /\ y \in TaskState /\ y.at = stage /\ y.what = x.what /\ y.fields = x.fields /\ y.seen = x.seen /\ y.copy = x.copy
      /\ y.tweet = source.pin
  BY <1>1, <1>2, AccountAt DEF TaskState
<1>5. x.what = "pin" /\ x.at = "fetch"
  BY DEF LookUpPin
<1> HIDE DEF y
<1>6. TaskFits(j, y)
  BY <1>1, <1>2, <1>4, <1>5 DEF TaskFits
<1>. QED BY <1>2, <1>3, <1>4, <1>5, <1>6, ContinuesQuiet, AccountAt DEF LookUpPin, CopiesFit

\* The name in place is that of the record, or the handler may not record it.
LEMMA FetchNameQuiet ==
  ASSUME TypedMirror, CopiesFit, NEW j \in Jobs, FetchName(j)
  PROVE  Quiet(j)
<1> DEFINE x == [task[j] EXCEPT !.version = source.version, !.fields = {"name"}]
           y == [x EXCEPT !.at = "save", !.seen = "nothing", !.copy = NoCopy]
           z == [x EXCEPT !.at = "put"]
<1>1. task[j] \in TaskState /\ TaskFits(j, task[j]) /\ task[j].at = "fetch"
  BY TaskAt DEF TypedMirror, FetchName
<1>2. /\ x \in TaskState /\ x.at = task[j].at /\ x.what = task[j].what /\ x.fields = {"name"} /\ x.seen = task[j].seen
      /\ x.copy = task[j].copy /\ x.version = source.version /\ x.current = task[j].current
  BY <1>1, AccountAt DEF TaskState, Fields
<1>3. x.what = "suffix" /\ task' = [task EXCEPT ![j] = IF IsInPlace(x, Copy(x)) THEN y ELSE z]
  BY DEF FetchName, Continues
<1> HIDE DEF x
<1>4. /\ y \in TaskState /\ y.at = "save" /\ y.what = "suffix" /\ y.fields = {"name"} /\ y.seen = "nothing"
      /\ y.version = x.version /\ y.current = x.current
  BY <1>2, <1>3, Blank DEF TaskState
<1>5. z \in TaskState /\ z.at = "put" /\ z.what = "suffix" /\ z.fields = {"name"} /\ z.seen = x.seen /\ z.copy = x.copy
  BY <1>2, <1>3 DEF TaskState
<1>6. UNCHANGED <<profile, mapping, source, started, doubt, happened>>
  BY DEF FetchName
<1>7. j = "suffix"
  BY <1>1, <1>2, <1>3 DEF TaskFits
<1>8. CASE IsInPlace(x, Copy(x))
  <2>1. Copy(x) \in Profiles /\ (x.seen = "missing" => Copy(x) = NoRecord)
    BY <1>2, CopyTyped, AccountAt
  <2>2. Copy(x).exists /\ Written(x, Copy(x)).name = Copy(x).name
    BY <1>8 DEF IsInPlace
  <2>3. x.seen # "missing"
    BY <2>1, <2>2 DEF NoRecord
  <2>4. Copy(x).name = x.copy.name
    BY <1>2, <2>3, CopyTyped, AccountAt
  <2>5. Written(x, Copy(x)).name = [version |-> x.version, bot |-> TRUE]
    BY <1>2, <1>3, <2>1, WrittenTyped
  <2>6. x.copy.name = [version |-> x.version, bot |-> TRUE]
    BY <2>2, <2>4, <2>5
  <2>7. x.copy.name = profile.name \/ "name" \in doubt \/ ~x.current \/ IsShown("name")
    BY <1>1, <1>2, <1>3, <1>7, <2>3 DEF CopiesFit
  <2>8. Value(y, "name") = [version |-> x.version, bot |-> TRUE]
    BY <1>4 DEF Value
  <2>9. Continues(j, y)
    BY <1>3, <1>8 DEF Continues
  <2> HIDE DEF y
  <2>10. TaskFits(j, y)
    BY <1>4, <1>7 DEF TaskFits
  <2>11. Moves(j, y) /\ task'[j] = y
    BY <1>4, <2>9, <2>10, Moving DEF Moves, TypedMirror, TasksTyped
  <2>12. AccountTyped'
    BY <1>6 DEF TypedMirror, AccountTyped
  <2>13. \A f \in Fields \ doubt' : IsSaver(y, f) =>
           j = "suffix" /\ (Value(y, f) = profile[f] \/ ~y.current \/ IsShown(f))
    <3> SUFFICES ASSUME NEW f \in Fields \ doubt', IsSaver(y, f)
                 PROVE  Value(y, f) = profile[f] \/ ~y.current \/ IsShown(f)
      BY <1>7
    <3>1. f = "name"
      BY <1>4 DEF IsSaver
    <3>2. f \notin doubt
      BY <1>6
    <3>3. profile["name"] = profile.name
      BY AccountAt DEF Profiles
    <3>. QED BY <1>4, <2>6, <2>7, <2>8, <3>1, <3>2, <3>3
  <2>. QED BY <1>1, <1>4, <1>6, <2>11, <2>12, <2>13 DEF Quiet
<1>9. CASE ~IsInPlace(x, Copy(x))
  <2>1. Continues(j, z)
    BY <1>3, <1>9 DEF Continues
  <2> HIDE DEF z
  <2>2. TaskFits(j, z)
    BY <1>5, <1>7 DEF TaskFits
  <2>. QED BY <1>1, <1>2, <1>5, <1>6, <2>1, <2>2, ContinuesQuiet, AccountAt DEF CopiesFit
<1>. QED BY <1>8, <1>9

LEMMA EndsQuiet ==
  ASSUME TypedMirror, NEW j \in Jobs, Continues(j, Ended(j, task[j])), task[j].at # "save",
         UNCHANGED <<profile, mapping, source, started, doubt>>, happened' \in 0 .. MaxMirrorEvents
  PROVE  Quiet(j)
<1> DEFINE y == Ended(j, task[j])
<1>1. /\ y \in TaskState /\ TaskFits(j, y) /\ y.at \in {"idle", "fetch"} /\ y.what # "suffix" /\ y.seen = "nothing"
      /\ y.fields = {}
  BY TaskAt, EndedIs DEF TypedMirror
<1>2. Continues(j, y)
  OBVIOUS
<1> HIDE DEF y
<1>. QED BY <1>1, <1>2, ContinuesQuiet, AccountAt

LEMMA MirrorPinQuiet ==
  ASSUME TypedMirror, CopiesFit, NEW j \in Jobs, MirrorPin(j)
  PROVE  Quiet(j)
<1> DEFINE x == task[j]
           y == [x EXCEPT !.at = "apply"]
<1>1. x \in TaskState /\ TaskFits(j, x) /\ x.at = "mirror"
  BY TaskAt DEF TypedMirror, MirrorPin
<1>2. /\ y \in TaskState /\ y.at = "apply" /\ y.what = x.what /\ y.fields = x.fields /\ y.seen = x.seen /\ y.copy = x.copy
  BY <1>1 DEF TaskState
<1>3. Continues(j, y) \/ Continues(j, Ended(j, task[j]))
  BY DEF MirrorPin
<1>4. UNCHANGED <<profile, mapping, source, started, doubt, happened>>
  BY DEF MirrorPin
<1> HIDE DEF y
<1>5. TaskFits(j, y)
  BY <1>1, <1>2 DEF TaskFits
<1>6. CASE Continues(j, y)
  BY <1>1, <1>2, <1>4, <1>5, <1>6, ContinuesQuiet, AccountAt DEF CopiesFit
<1>7. CASE Continues(j, Ended(j, task[j]))
  BY <1>1, <1>4, <1>7, EndsQuiet, AccountAt
<1>. QED BY <1>3, <1>6, <1>7

LEMMA ApplyPinQuiet ==
  ASSUME TypedMirror, CopiesFit, NEW j \in Jobs, ApplyPin(j)
  PROVE  Quiet(j)
<1> DEFINE x == task[j]
           y == [x EXCEPT !.at = "read", !.fields = {"pin"}]
           z == [x EXCEPT !.at = "save", !.fields = {"pin"}]
<1>1. x \in TaskState /\ TaskFits(j, x) /\ x.at = "apply"
  BY TaskAt DEF TypedMirror, ApplyPin
<1>2. /\ y \in TaskState /\ y.at = "read" /\ y.what = x.what /\ y.fields = {"pin"} /\ y.seen = x.seen /\ y.copy = x.copy
  BY <1>1 DEF TaskState, Fields
<1>3. /\ z \in TaskState /\ z.at = "save" /\ z.what = x.what /\ z.fields = {"pin"} /\ z.seen = x.seen /\ z.copy = x.copy
  BY <1>1 DEF TaskState, Fields
<1>4. \/ Continues(j, y) /\ UNCHANGED doubt
      \/ Continues(j, z) /\ doubt' = doubt \cup {"pin"}
      \/ Continues(j, Ended(j, task[j])) /\ UNCHANGED doubt
  BY DEF ApplyPin
<1>5. UNCHANGED <<profile, mapping, source, started, happened>>
  BY DEF ApplyPin
<1> HIDE DEF y, z
<1>6. TaskFits(j, y) /\ TaskFits(j, z)
  BY <1>1, <1>2, <1>3 DEF TaskFits
<1>7. CASE Continues(j, y) /\ UNCHANGED doubt
  BY <1>1, <1>2, <1>5, <1>6, <1>7, ContinuesQuiet, AccountAt DEF CopiesFit
<1>8. CASE Continues(j, z) /\ doubt' = doubt \cup {"pin"}
  <2>1. doubt' \subseteq Fields /\ z.fields \subseteq doubt' /\ doubt \subseteq doubt'
    BY <1>3, <1>8, AccountAt DEF Fields
  <2>. QED BY <1>1, <1>3, <1>5, <1>6, <1>8, <2>1, ContinuesQuiet, AccountAt DEF CopiesFit
<1>9. CASE Continues(j, Ended(j, task[j])) /\ UNCHANGED doubt
  BY <1>1, <1>5, <1>9, EndsQuiet, AccountAt
<1>. QED BY <1>4, <1>7, <1>8, <1>9

LEMMA ReadRecordQuiet ==
  ASSUME TypedMirror, CopiesFit, NEW j \in Jobs, ReadRecord(j)
  PROVE  Quiet(j)
<1> DEFINE c == [name |-> profile.name, bio |-> profile.bio]
           s == IF profile.exists THEN "fresh" ELSE "missing"
           x == [task[j] EXCEPT !.copy = c, !.seen = s]
           y == [x EXCEPT !.at = "fetch"]
           z == [x EXCEPT !.at = "save", !.seen = "nothing", !.copy = NoCopy]
           w == [x EXCEPT !.at = "put"]
<1>1. task[j] \in TaskState /\ TaskFits(j, task[j]) /\ task[j].at = "read"
  BY TaskAt DEF TypedMirror, ReadRecord
<1>2. c \in [name : Names, bio : 0 .. MaxMirrorEvents] /\ c.name = profile.name /\ s \in {"fresh", "missing"}
  BY AccountAt
<1>3. \/ Continues(j, y) /\ x.what = "suffix"
      \/ Continues(j, z) /\ x.what = "label"
      \/ Continues(j, w) /\ x.what # "suffix"
  BY DEF ReadRecord
<1> HIDE DEF c, s
<1>4. /\ x \in TaskState /\ x.at = "read" /\ x.what = task[j].what /\ x.fields = task[j].fields /\ x.seen = s
      /\ x.copy = c
  BY <1>1, <1>2 DEF TaskState
<1> HIDE DEF x
<1>5. /\ y \in TaskState /\ y.at = "fetch" /\ y.what = x.what /\ y.fields = x.fields /\ y.copy = c
  BY <1>4 DEF TaskState
<1>6. /\ z \in TaskState /\ z.at = "save" /\ z.what = x.what /\ z.fields = x.fields /\ z.seen = "nothing"
  BY <1>4, Blank DEF TaskState
<1>7. /\ w \in TaskState /\ w.at = "put" /\ w.what = x.what /\ w.fields = x.fields /\ w.copy = c
  BY <1>4 DEF TaskState
<1>8. UNCHANGED <<profile, mapping, source, started, doubt, happened>>
  BY DEF ReadRecord
<1> HIDE DEF y, z, w
<1>9. CASE Continues(j, y) /\ x.what = "suffix"
  <2>1. TaskFits(j, y)
    BY <1>1, <1>4, <1>5, <1>9 DEF TaskFits
  <2>. QED BY <1>1, <1>2, <1>5, <1>8, <1>9, <2>1, ContinuesQuiet, AccountAt
<1>10. CASE Continues(j, z) /\ x.what = "label"
  <2>1. TaskFits(j, z) /\ z.fields = {}
    BY <1>1, <1>4, <1>6, <1>10 DEF TaskFits
  <2>. QED BY <1>1, <1>6, <1>8, <1>10, <2>1, ContinuesQuiet, AccountAt
<1>11. CASE Continues(j, w) /\ x.what # "suffix"
  <2>1. TaskFits(j, w)
    BY <1>1, <1>4, <1>7, <1>11 DEF TaskFits
  <2>. QED BY <1>1, <1>2, <1>7, <1>8, <1>11, <2>1, ContinuesQuiet, AccountAt
<1>. QED BY <1>3, <1>9, <1>10, <1>11

LEMMA SwapRefusedQuiet ==
  ASSUME TypedMirror, CopiesFit, NEW j \in Jobs, SwapRefused(j)
  PROVE  Quiet(j)
<1> DEFINE x == task[j]
           y == [x EXCEPT !.at = "read", !.seen = "nothing", !.copy = NoCopy]
<1>1. x \in TaskState /\ TaskFits(j, x) /\ x.at = "put"
  BY TaskAt DEF TypedMirror, SwapRefused
<1>2. y \in TaskState /\ y.at = "read" /\ y.what = x.what /\ y.fields = x.fields /\ y.seen = "nothing"
  BY <1>1, Blank DEF TaskState
<1>3. (IsUpsert(x) /\ Continues(j, y)) \/ Continues(j, Ended(j, task[j]))
  BY DEF SwapRefused
<1>4. UNCHANGED <<profile, mapping, source, started, doubt, happened>>
  BY DEF SwapRefused
<1> HIDE DEF y
<1>5. TaskFits(j, y)
  BY <1>1, <1>2 DEF TaskFits
<1>6. CASE IsUpsert(x) /\ Continues(j, y)
  BY <1>1, <1>2, <1>4, <1>5, <1>6, ContinuesQuiet, AccountAt
<1>7. CASE Continues(j, Ended(j, task[j]))
  BY <1>1, <1>4, <1>7, EndsQuiet, AccountAt
<1>. QED BY <1>3, <1>6, <1>7

LEMMA OccursTyped ==
  ASSUME TypedMirror, Occurs
  PROVE  happened' \in 0 .. MaxMirrorEvents
  BY MirrorAssumption DEF TypedMirror, AccountTyped, Occurs

LEMMA CallFailsQuiet ==
  ASSUME TypedMirror, NEW j \in Jobs, CallFails(j)
  PROVE  Quiet(j)
  BY EndsQuiet, OccursTyped DEF CallFails

\* Who shows a field shows it after a quiet step.
LEMMA QuietShown ==
  ASSUME TypedMirror, NEW j \in Jobs, Quiet(j), NEW f \in Fields, IsShown(f)
  PROVE  IsShown(f)'
<1>1. PICK i \in Jobs : IsSaver(task[i], f) /\ Value(task[i], f) = profile[f]
  BY DEF IsShown
<1>2. task'[i] = task[i] /\ profile' = profile
  BY <1>1 DEF Quiet, Moves, IsSaver
<1>. QED BY <1>1, <1>2 DEF IsShown

LEMMA QuietKeeps ==
  ASSUME TypedMirror, CopiesFit, RecordsFit, NEW j \in Jobs, Quiet(j)
  PROVE  AccountTyped' /\ TasksTyped' /\ CopiesFit' /\ RecordsFit'
<1>1. /\ \A i \in Jobs \ {j} : task'[i] = task[i]
      /\ profile' = profile /\ mapping' = mapping /\ doubt \subseteq doubt'
  BY DEF Quiet, Moves
<1>2. TasksTyped'
  BY MovesTyped DEF TypedMirror, Quiet
<1>3. CopiesFit'
  <2>1. \A i \in Jobs : task'[i].seen = "fresh" => task'[i].copy.name = profile'.name
    BY <1>1 DEF Quiet, CopiesFit
  <2>2. ASSUME task'["suffix"].at = "fetch", task'["suffix"].what = "suffix", task'["suffix"].seen # "missing"
        PROVE  task'["suffix"].copy.name = profile'.name \/ "name" \in doubt' \/ ~task'["suffix"].current \/ IsShown("name")'
    <3>1. CASE j = "suffix"
      BY <1>1, <2>2, <3>1 DEF Quiet
    <3>2. CASE j # "suffix"
      <4>1. task'["suffix"] = task["suffix"]
        BY <1>1, <3>2 DEF Jobs
      <4>2. task["suffix"].copy.name = profile.name \/ "name" \in doubt \/ ~task["suffix"].current \/ IsShown("name")
        BY <2>2, <4>1 DEF CopiesFit
      <4>3. IsShown("name") => IsShown("name")'
        BY QuietShown DEF Fields
      <4>. QED BY <1>1, <4>1, <4>2, <4>3
    <3>. QED BY <3>1, <3>2
  <2>3. ~profile'.exists => profile' = NoRecord
    BY <1>1 DEF CopiesFit
  <2>. QED BY <2>1, <2>2, <2>3 DEF CopiesFit
<1>4. RecordsFit'
  <2> SUFFICES ASSUME NEW f \in Fields \ doubt'
               PROVE  (mapping'[f] = profile'[f] \/ IsShown(f)') /\ \A i \in Jobs : SaverFits(i, f)'
    BY DEF RecordsFit
  <2>1. /\ mapping[f] = profile[f] \/ IsShown(f)
        /\ \A i \in Jobs : SaverFits(i, f)
    BY <1>1 DEF RecordsFit
  <2>2. IsShown(f) => IsShown(f)'
    BY QuietShown
  <2>3. ASSUME NEW i \in Jobs, IsSaver(task'[i], f)
        PROVE  Value(task'[i], f) = profile'[f] \/ (i = "suffix" /\ (~task'[i].current \/ IsShown(f)'))
    <3>1. CASE i = j
      BY <1>1, <2>2, <2>3, <3>1 DEF Quiet
    <3>2. CASE i # j
      BY <1>1, <2>1, <2>2, <2>3, <3>2 DEF SaverFits
    <3>. QED BY <3>1, <3>2
  <2>4. mapping'[f] = profile'[f] \/ IsShown(f)'
    BY <1>1, <2>1, <2>2
  <2>. QED BY <2>3, <2>4 DEF SaverFits
<1>. QED BY <1>2, <1>3, <1>4 DEF Quiet
--------------------------------------------------------------------------------
\* What a step may do to the other tasks: copies turn stale, or their revision is old.
IsAlike(u, v) ==
  /\ v \in TaskState /\ v.at = u.at /\ v.what = u.what /\ v.version = u.version /\ v.tweet = u.tweet
  /\ v.fields = u.fields /\ v.copy = u.copy /\ (v.seen = "missing" <=> u.seen = "missing")
  /\ (v.seen = "fresh" => u.seen = "fresh") /\ (v.current => u.current)

LEMMA AlikeFacts ==
  ASSUME NEW u, NEW v, IsAlike(u, v), NEW j, TaskFits(j, u)
  PROVE  /\ TaskFits(j, v)
         /\ \A f : IsSaver(v, f) <=> IsSaver(u, f)
         /\ \A f : Value(v, f) = Value(u, f)
  BY DEF IsAlike, TaskFits, IsSaver, Value

Stale(x) == [x EXCEPT !.seen = IF @ = "fresh" THEN "stale" ELSE @]

LEMMA StaleAlike ==
  ASSUME NEW x \in TaskState
  PROVE  IsAlike(x, Stale(x)) /\ Stale(x).seen # "fresh" /\ Stale(x).current = x.current
<1> DEFINE s == IF x.seen = "fresh" THEN "stale" ELSE x.seen
<1>1. s \in {"nothing", "missing", "stale"} /\ (s = "missing" <=> x.seen = "missing")
  BY DEF TaskState
<1>2. Stale(x) = [x EXCEPT !.seen = s]
  BY DEF Stale, TaskState
<1> HIDE DEF s
<1>. QED BY <1>1, <1>2 DEF IsAlike, TaskState

LEMMA OutdatedAlike ==
  ASSUME NEW x \in TaskState
  PROVE  IsAlike(x, [x EXCEPT !.current = FALSE]) /\ ~[x EXCEPT !.current = FALSE].current
  BY DEF IsAlike, TaskState

\* What PutRecord() puts, and what is known then.
LEMMA PutWrites ==
  ASSUME TypedMirror, CopiesFit, NEW j \in Jobs, PutRecord(j)
  PROVE  /\ profile' \in Profiles /\ profile'.exists
         /\ \A f \in task[j].fields : Value(task[j], f) = profile'[f]
         /\ \A f \in Fields \ (task[j].fields \cup Wiped(task[j])) : profile'[f] = profile[f]
<1> DEFINE x == task[j]
<1>1. x \in TaskState /\ TaskFits(j, x) /\ x.at = "put" /\ IsAccepted(x) /\ profile' = Written(x, Copy(x))
  BY TaskAt DEF TypedMirror, PutRecord
<1> DEFINE c == Copy(x)
<1>2. c \in Profiles /\ profile \in Profiles
  BY <1>1, CopyTyped, AccountAt
<1>3. /\ profile' \in Profiles /\ profile'.exists
      /\ profile'.name = CASE x.what = "suffix" -> [version |-> x.version, bot |-> TRUE]
                           [] x.what = "profile" /\ "name" \in x.fields -> [version |-> x.version, bot |-> FALSE]
                           [] OTHER -> c.name
      /\ profile'.avatar = IF x.what = "profile" /\ "avatar" \in x.fields THEN x.version ELSE c.avatar
      /\ profile'.pin = IF x.what = "pin" THEN x.tweet ELSE c.pin
  BY <1>1, <1>2, WrittenTyped
<1>4. x.what \in {"profile", "pin", "label", "suffix"} /\ x.fields \subseteq Fields
  BY <1>1 DEF TaskState
<1>5. /\ profile["name"] = profile.name /\ profile["avatar"] = profile.avatar /\ profile["pin"] = profile.pin
      /\ profile'["name"] = profile'.name /\ profile'["avatar"] = profile'.avatar /\ profile'["pin"] = profile'.pin
  BY <1>2, <1>3 DEF Profiles
<1>6. ASSUME Wiped(x) = {}
      PROVE  c.name = profile.name /\ c.avatar = profile.avatar /\ c.pin = profile.pin
  <2>1. CASE x.seen = "missing"
    <3>1. ~profile.exists
      BY <1>6, <2>1 DEF Wiped, Fields
    <3>. QED BY <1>1, <2>1, <3>1, CopyTyped, AccountAt DEF CopiesFit
  <2>2. CASE x.seen # "missing"
    <3>1. x.seen = "fresh"
      BY <1>1, <2>2 DEF IsAccepted
    <3>. QED BY <1>1, <2>2, <3>1, CopyTyped, AccountAt DEF CopiesFit
  <2>. QED BY <2>1, <2>2
<1> HIDE DEF c
<1>7. ASSUME NEW f \in x.fields
      PROVE  Value(x, f) = profile'[f]
  <2>1. CASE f = "name"
    <3>1. x.what \in {"suffix", "profile"}
      BY <1>1, <1>4, <1>7, <2>1 DEF TaskFits
    <3>. QED BY <1>3, <1>5, <1>7, <2>1, <3>1 DEF Value
  <2>2. CASE f = "avatar"
    <3>1. x.what = "profile"
      BY <1>1, <1>4, <1>7, <2>2 DEF TaskFits
    <3>. QED BY <1>3, <1>5, <1>7, <2>2, <3>1 DEF Value
  <2>3. CASE f = "pin"
    <3>1. x.what = "pin"
      BY <1>1, <1>4, <1>7, <2>3 DEF TaskFits
    <3>. QED BY <1>3, <1>5, <1>7, <2>3, <3>1 DEF Value
  <2>. QED BY <1>4, <1>7, <2>1, <2>2, <2>3 DEF Fields
<1>8. ASSUME NEW f \in Fields, f \notin x.fields, f \notin Wiped(x)
      PROVE  profile'[f] = profile[f]
  <2>0. Wiped(x) = {}
    BY <1>8 DEF Wiped
  <2>1. CASE f = "name"
    <3>1. x.what # "suffix"
      BY <1>1, <1>8, <2>1 DEF TaskFits
    <3>. QED BY <1>3, <1>5, <1>6, <1>8, <2>0, <2>1, <3>1
  <2>2. CASE f = "avatar"
    BY <1>3, <1>5, <1>6, <1>8, <2>0, <2>2
  <2>3. CASE f = "pin"
    <3>1. x.what # "pin"
      BY <1>1, <1>8, <2>3 DEF TaskFits
    <3>. QED BY <1>3, <1>5, <1>6, <1>8, <2>0, <2>3, <3>1
  <2>. QED BY <2>1, <2>2, <2>3 DEF Fields
<1>. QED BY <1>3, <1>7, <1>8

\* The tasks after a record was put.
LEMMA PutTasks ==
  ASSUME TypedMirror, NEW j \in Jobs, PutRecord(j)
  PROVE  /\ TasksTyped'
         /\ \A i \in Jobs \ {j} : IsAlike(task[i], task'[i]) /\ task'[i].seen # "fresh" /\ task'[i].current = task[i].current
         /\ task'[j].seen = "nothing" /\ (task'[j].at = "fetch" => task'[j].what # "suffix")
         /\ \/ /\ task'[j].at = "save" /\ task'[j].fields = task[j].fields
               /\ \A f : Value(task'[j], f) = Value(task[j], f)
               /\ doubt' = (doubt \ task[j].fields) \cup Overlapped(j) \cup Wiped(task[j])
            \/ /\ task'[j].at # "save" /\ doubt' = doubt \cup task[j].fields \cup Wiped(task[j])
<1> DEFINE x == task[j]
           y == [x EXCEPT !.at = "save", !.seen = "nothing", !.copy = NoCopy]
           z == Ended(j, x)
<1>1. task \in [Jobs -> TaskState] /\ x \in TaskState /\ TaskFits(j, x)
  BY TaskAt DEF TypedMirror, TasksTyped
<1>2. /\ y \in TaskState /\ y.at = "save" /\ y.what = x.what /\ y.fields = x.fields /\ y.seen = "nothing"
      /\ y.version = x.version /\ y.tweet = x.tweet
  BY <1>1, Blank DEF TaskState
<1>3. \/ /\ task' = [i \in Jobs |-> IF i = j THEN y ELSE Stale(task[i])]
         /\ doubt' = (doubt \ x.fields) \cup Overlapped(j) \cup Wiped(x)
      \/ /\ task' = [i \in Jobs |-> IF i = j THEN z ELSE Stale(task[i])]
         /\ doubt' = doubt \cup x.fields \cup Wiped(x)
  BY DEF PutRecord, Stale
<1>4. z \in TaskState /\ TaskFits(j, z) /\ z.at \in {"idle", "fetch"} /\ z.what # "suffix" /\ z.seen = "nothing"
  BY <1>1, EndedIs
<1> HIDE DEF y, z
<1>5. TaskFits(j, y) /\ \A f : Value(y, f) = Value(x, f)
  BY <1>1, <1>2 DEF TaskFits, Value
<1>6. \A i \in Jobs : /\ IsAlike(task[i], Stale(task[i])) /\ Stale(task[i]).seen # "fresh" /\ TaskFits(i, Stale(task[i]))
                      /\ Stale(task[i]).current = task[i].current /\ Stale(task[i]) \in TaskState
  BY TaskAt, StaleAlike, AlikeFacts DEF TypedMirror, IsAlike
<1>7. ASSUME NEW v \in TaskState, TaskFits(j, v), task' = [i \in Jobs |-> IF i = j THEN v ELSE Stale(task[i])]
      PROVE  /\ TasksTyped' /\ task'[j] = v
             /\ \A i \in Jobs \ {j} : /\ IsAlike(task[i], task'[i]) /\ task'[i].seen # "fresh"
                                      /\ task'[i].current = task[i].current
  <2>1. \A i \in Jobs : task'[i] \in TaskState /\ TaskFits(i, task'[i])
    BY <1>6, <1>7
  <2>2. \A i \in Jobs \ {j} : task'[i] = Stale(task[i])
    BY <1>7
  <2>3. task' \in [Jobs -> TaskState] /\ task'[j] = v
    BY <1>7, <2>1
  <2>. QED BY <1>6, <2>1, <2>2, <2>3 DEF TasksTyped
<1>8. CASE task' = [i \in Jobs |-> IF i = j THEN y ELSE Stale(task[i])]
            /\ doubt' = (doubt \ x.fields) \cup Overlapped(j) \cup Wiped(x)
  <2>1. TasksTyped' /\ task'[j] = y
    BY <1>2, <1>5, <1>7, <1>8
  <2>2. \A i \in Jobs \ {j} : /\ IsAlike(task[i], task'[i]) /\ task'[i].seen # "fresh"
                              /\ task'[i].current = task[i].current
    BY <1>2, <1>5, <1>7, <1>8
  <2>. QED BY <1>2, <1>5, <1>8, <2>1, <2>2
<1>9. CASE task' = [i \in Jobs |-> IF i = j THEN z ELSE Stale(task[i])]
            /\ doubt' = doubt \cup x.fields \cup Wiped(x)
  <2>1. TasksTyped' /\ task'[j] = z
    BY <1>4, <1>7, <1>9
  <2>2. \A i \in Jobs \ {j} : /\ IsAlike(task[i], task'[i]) /\ task'[i].seen # "fresh"
                              /\ task'[i].current = task[i].current
    BY <1>4, <1>7, <1>9
  <2>. QED BY <1>4, <1>9, <2>1, <2>2
<1>. QED BY <1>3, <1>8, <1>9

LEMMA PutKeeps ==
  ASSUME TypedMirror, CopiesFit, RecordsFit, NEW j \in Jobs, PutRecord(j)
  PROVE  AccountTyped' /\ TasksTyped' /\ CopiesFit' /\ RecordsFit'
<1> DEFINE x == task[j]
           y == task'[j]
           Recorder == /\ y.at = "save" /\ y.fields = x.fields
                       /\ \A f : Value(y, f) = Value(x, f)
                       /\ doubt' = (doubt \ x.fields) \cup Overlapped(j) \cup Wiped(x)
           Loser == y.at # "save" /\ doubt' = doubt \cup x.fields \cup Wiped(x)
<1>1. x \in TaskState /\ TaskFits(j, x) /\ x.fields \subseteq Fields /\ x.at = "put"
  BY TaskAt, TaskFields DEF TypedMirror, PutRecord
<1>2. /\ profile' \in Profiles /\ profile'.exists
      /\ \A f \in x.fields : Value(x, f) = profile'[f]
      /\ \A f \in Fields \ (x.fields \cup Wiped(x)) : profile'[f] = profile[f]
  BY PutWrites
<1>3. /\ TasksTyped' /\ y.seen = "nothing" /\ (y.at = "fetch" => y.what # "suffix")
      /\ Recorder \/ Loser
  BY PutTasks
<1>4. /\ \A i \in Jobs \ {j} : IsAlike(task[i], task'[i]) /\ task'[i].seen # "fresh" /\ task'[i].current = task[i].current
  BY PutTasks
<1>5. \A i \in Jobs \ {j} : /\ \A f : IsSaver(task'[i], f) <=> IsSaver(task[i], f)
                            /\ \A f : Value(task'[i], f) = Value(task[i], f)
  BY <1>4, TaskAt, AlikeFacts DEF TypedMirror
<1>6. mapping' = mapping /\ source' = source /\ started' = started /\ happened' \in 0 .. MaxMirrorEvents
  BY OccursTyped, AccountAt DEF PutRecord
<1>7. Overlapped(j) \subseteq x.fields /\ Wiped(x) \subseteq Fields
  BY DEF Overlapped, Wiped
<1>8. AccountTyped'
  <2>1. doubt' \subseteq Fields
    BY <1>1, <1>3, <1>7, AccountAt
  <2>. QED BY <1>2, <1>6, <2>1 DEF TypedMirror, AccountTyped
<1> HIDE DEF Recorder, Loser, x, y
<1>9. ASSUME NEW f \in Fields \ doubt', f \notin x.fields
      PROVE  /\ f \notin doubt /\ profile'[f] = profile[f]
             /\ IsShown(f) => IsShown(f)'
  <2>1. f \notin doubt /\ f \notin Wiped(x)
    BY <1>3, <1>9 DEF Recorder, Loser
  <2>2. profile'[f] = profile[f]
    BY <1>2, <1>9, <2>1
  <2>3. ASSUME IsShown(f)
        PROVE  IsShown(f)'
    <3>1. PICK i \in Jobs : IsSaver(task[i], f) /\ Value(task[i], f) = profile[f]
      BY <2>3 DEF IsShown
    <3>2. i # j
      BY <1>1, <3>1 DEF IsSaver, x
    <3>. QED BY <1>5, <2>2, <3>1, <3>2 DEF IsShown
  <2>. QED BY <2>1, <2>2, <2>3
<1>10. ASSUME NEW f \in Fields \ doubt', f \in x.fields
       PROVE  /\ IsSaver(y, f) /\ Value(y, f) = profile'[f]
              /\ \A i \in Jobs \ {j} : ~IsSaver(task[i], f)
  <2>1. Recorder
    BY <1>3, <1>10 DEF Loser
  <2>2. f \notin Overlapped(j)
    BY <1>10, <2>1 DEF Recorder
  <2>3. \A i \in Jobs \ {j} : ~IsSaver(task[i], f)
    BY <1>10, <2>2 DEF Overlapped, IsSaver, x
  <2>. QED BY <1>2, <1>10, <2>1, <2>3 DEF Recorder, IsSaver
<1>11. RecordsFit'
  <2> SUFFICES ASSUME NEW f \in Fields \ doubt'
               PROVE  (mapping'[f] = profile'[f] \/ IsShown(f)') /\ \A i \in Jobs : SaverFits(i, f)'
    BY DEF RecordsFit
  <2>1. CASE f \in x.fields
    <3>1. IsShown(f)'
      BY <1>10, <2>1 DEF IsShown, y
    <3>2. ASSUME NEW i \in Jobs
          PROVE  SaverFits(i, f)'
      <4>1. CASE i = j
        BY <1>10, <2>1, <4>1 DEF SaverFits, y
      <4>2. CASE i # j
        BY <1>5, <1>10, <2>1, <4>2 DEF SaverFits
      <4>. QED BY <4>1, <4>2
    <3>. QED BY <3>1, <3>2
  <2>2. CASE f \notin x.fields
    <3>1. f \notin doubt /\ profile'[f] = profile[f] /\ (IsShown(f) => IsShown(f)')
      BY <1>9, <2>2
    <3>2. (mapping[f] = profile[f] \/ IsShown(f)) /\ \A i \in Jobs : SaverFits(i, f)
      BY <3>1 DEF RecordsFit
    <3>3. ASSUME NEW i \in Jobs
          PROVE  SaverFits(i, f)'
      <4>1. CASE i = j
        <5>1. ~IsSaver(y, f)
          BY <1>3, <2>2 DEF Recorder, Loser, IsSaver
        <5>. QED BY <4>1, <5>1 DEF SaverFits, y
      <4>2. CASE i # j
        <5>1. /\ task'[i].current = task[i].current
              /\ IsSaver(task'[i], f) <=> IsSaver(task[i], f)
              /\ Value(task'[i], f) = Value(task[i], f)
          BY <1>4, <1>5, <4>2
        <5>. QED BY <3>1, <3>2, <5>1 DEF SaverFits
      <4>. QED BY <4>1, <4>2
    <3>4. mapping'[f] = profile'[f] \/ IsShown(f)'
      BY <1>6, <3>1, <3>2
    <3>. QED BY <3>3, <3>4
  <2>. QED BY <2>1, <2>2
<1>12. CopiesFit'
  <2>1. \A i \in Jobs : task'[i].seen # "fresh"
    BY <1>3, <1>4 DEF y
  <2>2. ASSUME task'["suffix"].at = "fetch", task'["suffix"].what = "suffix", task'["suffix"].seen # "missing",
               "name" \notin doubt'
        PROVE  task'["suffix"].copy.name = profile'.name \/ ~task'["suffix"].current \/ IsShown("name")'
    <3>1. "suffix" \in Jobs /\ "name" \in Fields \ doubt' /\ j # "suffix"
      BY <1>3, <2>2 DEF Jobs, Fields, y
    <3>2. CASE "name" \in x.fields
      BY <1>10, <3>1, <3>2 DEF IsShown, y
    <3>3. CASE "name" \notin x.fields
      <4>1. "name" \notin doubt /\ profile'["name"] = profile["name"] /\ (IsShown("name") => IsShown("name")')
        BY <1>9, <3>1, <3>3
      <4>2. profile'.name = profile.name
        BY <1>2, <4>1, AccountAt DEF Profiles
      <4>3. IsAlike(task["suffix"], task'["suffix"]) /\ task'["suffix"].current = task["suffix"].current
        BY <1>4, <3>1
      <4>4. task["suffix"].copy.name = profile.name \/ ~task["suffix"].current \/ IsShown("name")
        BY <2>2, <4>1, <4>3 DEF CopiesFit, IsAlike
      <4>5. task'["suffix"].copy = task["suffix"].copy
        BY <4>3 DEF IsAlike
      <4>. QED BY <4>1, <4>2, <4>3, <4>4, <4>5
    <3>. QED BY <3>2, <3>3
  <2>. QED BY <1>2, <2>1, <2>2 DEF CopiesFit
<1>. QED BY <1>3, <1>8, <1>11, <1>12
--------------------------------------------------------------------------------
LEMMA SaveKeeps ==
  ASSUME TypedMirror, CopiesFit, RecordsFit, NEW j \in Jobs, SaveState(j)
  PROVE  AccountTyped' /\ TasksTyped' /\ CopiesFit' /\ RecordsFit'
<1> DEFINE x == task[j]
           y == Ended(j, x)
           Refused == /\ j \in {"apply", "label", "suffix"} /\ ~x.current
                      /\ Continues(j, y) /\ doubt' = doubt \cup x.fields /\ UNCHANGED mapping
           Accepted == /\ ~(j \in {"apply", "label", "suffix"} /\ ~x.current)
                       /\ mapping' = Recorded(x, mapping)
                       /\ task' = [Outdated EXCEPT ![j] = y] /\ UNCHANGED doubt
<1>1. x \in TaskState /\ TaskFits(j, x) /\ x.fields \subseteq Fields /\ x.at = "save" /\ task \in [Jobs -> TaskState]
  BY TaskAt, TaskFields DEF TypedMirror, TasksTyped, SaveState
<1>2. UNCHANGED <<profile, source, started, happened>>
  BY DEF SaveState
<1>3. Refused \/ Accepted
  BY DEF SaveState
<1>4. y \in TaskState /\ TaskFits(j, y) /\ y.at \in {"idle", "fetch"} /\ y.what # "suffix" /\ y.seen = "nothing"
  BY <1>1, EndedIs
<1> HIDE DEF y
<1>5. /\ TasksTyped' /\ task'[j] = y
      /\ \A i \in Jobs \ {j} : IsAlike(task[i], task'[i]) /\ (Accepted => ~task'[i].current)
  <2>1. CASE Refused
    <3>1. Moves(j, y)
      BY <1>1, <1>4, <2>1, Moving
    <3>2. ~Accepted
      BY <2>1
    <3>3. \A i \in Jobs \ {j} : IsAlike(task[i], task'[i])
      BY <1>1, <3>1 DEF Moves, IsAlike
    <3>. QED BY <3>1, <3>2, <3>3, MovesTyped DEF Moves, TypedMirror
  <2>2. CASE Accepted
    <3>1. task' = [i \in Jobs |-> IF i = j THEN y ELSE [task[i] EXCEPT !.current = FALSE]]
      BY <2>2 DEF Outdated
    <3>2. \A i \in Jobs : /\ IsAlike(task[i], [task[i] EXCEPT !.current = FALSE])
                          /\ ~[task[i] EXCEPT !.current = FALSE].current
      BY <1>1, OutdatedAlike
    <3>3. \A i \in Jobs \ {j} : IsAlike(task[i], task'[i]) /\ ~task'[i].current
      BY <3>1, <3>2
    <3>4. task'[j] = y
      BY <3>1
    <3>5. \A i \in Jobs : task'[i] \in TaskState /\ TaskFits(i, task'[i])
      <4> SUFFICES ASSUME NEW i \in Jobs PROVE task'[i] \in TaskState /\ TaskFits(i, task'[i])
        OBVIOUS
      <4>1. CASE i = j
        BY <1>4, <3>4, <4>1
      <4>2. CASE i # j
        <5>1. IsAlike(task[i], task'[i]) /\ TaskFits(i, task[i])
          BY <3>3, <4>2, TaskAt DEF TypedMirror
        <5>. QED BY <5>1, AlikeFacts DEF IsAlike
      <4>. QED BY <4>1, <4>2
    <3>6. task' \in [Jobs -> TaskState]
      BY <3>1, <3>5
    <3>. QED BY <3>3, <3>4, <3>5, <3>6 DEF TasksTyped
  <2>. QED BY <1>3, <2>1, <2>2
<1>6. \A i \in Jobs \ {j} : /\ \A f : IsSaver(task'[i], f) <=> IsSaver(task[i], f)
                            /\ \A f : Value(task'[i], f) = Value(task[i], f)
  BY <1>5, TaskAt, AlikeFacts DEF TypedMirror
<1>7. AccountTyped'
  <2>1. mapping' \in Mirrored
    BY <1>1, <1>3, RecordedTyped, AccountAt
  <2>2. doubt' \subseteq Fields
    BY <1>1, <1>3, AccountAt
  <2>. QED BY <1>2, <2>1, <2>2 DEF TypedMirror, AccountTyped
<1>8. ASSUME NEW f \in Fields \ doubt', NEW i \in Jobs \ {j}, IsSaver(task[i], f), Value(task[i], f) = profile[f]
      PROVE  IsShown(f)'
  BY <1>2, <1>6, <1>8 DEF IsShown
<1>9. \A f : ~IsSaver(y, f)
  BY <1>4 DEF IsSaver
<1>10. RecordsFit'
  <2> SUFFICES ASSUME NEW f \in Fields \ doubt'
               PROVE  (mapping'[f] = profile'[f] \/ IsShown(f)') /\ \A i \in Jobs : SaverFits(i, f)'
    BY DEF RecordsFit
  <2>1. f \notin doubt
    BY <1>3
  <2>2. (mapping[f] = profile[f] \/ IsShown(f)) /\ \A i \in Jobs : SaverFits(i, f)
    BY <2>1 DEF RecordsFit
  <2>3. CASE Refused
    <3>1. f \notin x.fields /\ mapping' = mapping
      BY <2>3
    <3>2. IsShown(f) => IsShown(f)'
      <4>1. ~IsSaver(x, f)
        BY <3>1 DEF IsSaver
      <4>. QED BY <1>8, <4>1 DEF IsShown
    <3>3. ASSUME NEW i \in Jobs PROVE SaverFits(i, f)'
      <4>1. CASE i = j
        BY <1>5, <1>9, <4>1 DEF SaverFits
      <4>2. CASE i # j
        <5>1. IsAlike(task[i], task'[i]) /\ (IsSaver(task'[i], f) <=> IsSaver(task[i], f))
              /\ Value(task'[i], f) = Value(task[i], f)
          BY <1>5, <1>6, <4>2
        <5>2. task'[i].current => task[i].current
          BY <5>1 DEF IsAlike
        <5>. QED BY <1>2, <2>2, <3>2, <5>1, <5>2 DEF SaverFits
      <4>. QED BY <4>1, <4>2
    <3>. QED BY <1>2, <2>2, <3>1, <3>2, <3>3
  <2>4. CASE Accepted
    <3>1. mapping'[f] = IF f \in x.fields THEN Value(x, f) ELSE mapping[f]
      <4>1. /\ Recorded(x, mapping) \in Mirrored
            /\ Recorded(x, mapping).name = IF "name" \in x.fields THEN [version |-> x.version, bot |-> x.what = "suffix"] ELSE mapping.name
            /\ Recorded(x, mapping).avatar = IF "avatar" \in x.fields THEN x.version ELSE mapping.avatar
            /\ Recorded(x, mapping).pin = IF "pin" \in x.fields THEN x.tweet ELSE mapping.pin
        BY <1>1, RecordedTyped, AccountAt
      <4>2. mapping' \in Mirrored /\ mapping \in Mirrored /\ mapping' = Recorded(x, mapping)
        BY <2>4, <4>1, AccountAt
      <4>3. /\ mapping["name"] = mapping.name /\ mapping["avatar"] = mapping.avatar /\ mapping["pin"] = mapping.pin
            /\ mapping'["name"] = mapping'.name /\ mapping'["avatar"] = mapping'.avatar /\ mapping'["pin"] = mapping'.pin
        BY <4>2 DEF Mirrored
      <4>4. f \in {"name", "avatar", "pin"}
        BY DEF Fields
      <4>5. CASE f = "name"
        BY <4>1, <4>2, <4>3, <4>5 DEF Value
      <4>6. CASE f = "avatar"
        BY <4>1, <4>2, <4>3, <4>6 DEF Value
      <4>7. CASE f = "pin"
        BY <4>1, <4>2, <4>3, <4>7 DEF Value
      <4>. QED BY <4>4, <4>5, <4>6, <4>7
    <3>2. ASSUME NEW i \in Jobs PROVE SaverFits(i, f)'
      <4>1. CASE i = j
        BY <1>5, <1>9, <4>1 DEF SaverFits
      <4>2. CASE i # j
        <5>1. /\ ~task'[i].current /\ (IsSaver(task'[i], f) <=> IsSaver(task[i], f))
              /\ Value(task'[i], f) = Value(task[i], f)
          BY <1>5, <1>6, <2>4, <4>2
        <5>. QED BY <1>2, <2>2, <5>1 DEF SaverFits
      <4>. QED BY <4>1, <4>2
    <3>3. mapping'[f] = profile'[f] \/ IsShown(f)'
      <4>1. CASE f \notin x.fields
        <5>1. ~IsSaver(x, f)
          BY <4>1 DEF IsSaver
        <5>2. IsShown(f) => IsShown(f)'
          BY <1>8, <5>1 DEF IsShown
        <5>. QED BY <1>2, <2>2, <3>1, <4>1, <5>2
      <4>2. CASE f \in x.fields
        <5>1. IsSaver(x, f)
          BY <1>1, <4>2 DEF IsSaver
        <5>2. Value(x, f) = profile[f] \/ IsShown(f)
          BY <2>2, <2>4, <5>1 DEF SaverFits
        <5>3. CASE Value(x, f) = profile[f]
          BY <1>2, <3>1, <4>2, <5>3
        <5>4. CASE IsShown(f) /\ Value(x, f) # profile[f]
          BY <1>8, <5>4 DEF IsShown
        <5>. QED BY <5>2, <5>3, <5>4
      <4>. QED BY <4>1, <4>2
    <3>. QED BY <3>2, <3>3
  <2>. QED BY <1>3, <2>3, <2>4
<1>11. CopiesFit'
  <2>1. \A i \in Jobs : task'[i].seen = "fresh" => task'[i].copy.name = profile'.name
    <3> SUFFICES ASSUME NEW i \in Jobs, task'[i].seen = "fresh" PROVE task'[i].copy.name = profile'.name
      OBVIOUS
    <3>1. i # j
      BY <1>4, <1>5
    <3>2. IsAlike(task[i], task'[i])
      BY <1>5, <3>1
    <3>. QED BY <1>2, <3>2 DEF IsAlike, CopiesFit
  <2>2. ASSUME task'["suffix"].at = "fetch", task'["suffix"].what = "suffix", task'["suffix"].seen # "missing",
               "name" \notin doubt'
        PROVE  task'["suffix"].copy.name = profile'.name \/ ~task'["suffix"].current \/ IsShown("name")'
    <3>1. "suffix" \in Jobs /\ "name" \in Fields \ doubt' /\ j # "suffix"
      BY <1>4, <1>5, <2>2 DEF Jobs, Fields
    <3>2. IsAlike(task["suffix"], task'["suffix"]) /\ (Accepted => ~task'["suffix"].current)
      BY <1>5, <3>1
    <3>3. CASE Refused
      <4>1. "name" \notin doubt /\ "name" \notin x.fields
        BY <2>2, <3>3
      <4>2. task["suffix"].copy.name = profile.name \/ ~task["suffix"].current \/ IsShown("name")
        BY <2>2, <3>2, <4>1 DEF CopiesFit, IsAlike
      <4>3. ~IsSaver(x, "name")
        BY <4>1 DEF IsSaver
      <4>4. IsShown("name") => IsShown("name")'
        BY <1>8, <3>1, <4>3 DEF IsShown
      <4>5. task'["suffix"].copy = task["suffix"].copy /\ (task'["suffix"].current => task["suffix"].current)
        BY <3>2 DEF IsAlike
      <4>. QED BY <1>2, <4>2, <4>4, <4>5
    <3>4. CASE Accepted
      BY <3>2, <3>4
    <3>. QED BY <1>3, <3>3, <3>4
  <2>3. ~profile'.exists => profile' = NoRecord
    BY <1>2 DEF CopiesFit
  <2>. QED BY <2>1, <2>2, <2>3 DEF CopiesFit
<1>. QED BY <1>5, <1>7, <1>10, <1>11
--------------------------------------------------------------------------------
LEMMA UnmovedKeeps ==
  ASSUME TypedMirror, CopiesFit, RecordsFit, Unmoved, happened' \in 0 .. MaxMirrorEvents
  PROVE  AccountTyped' /\ TasksTyped' /\ CopiesFit' /\ RecordsFit'
<1>1. UNCHANGED <<profile, source, mapping, task, doubt, started>>
  BY DEF Unmoved
<1>2. AccountTyped'
  BY <1>1 DEF TypedMirror, AccountTyped
<1>3. TasksTyped'
  BY <1>1 DEF TypedMirror, TasksTyped
<1>4. \A f : IsShown(f)' <=> IsShown(f)
  BY <1>1 DEF IsShown
<1>5. CopiesFit'
  BY <1>1, <1>4 DEF CopiesFit
<1>6. RecordsFit'
  BY <1>1, <1>4 DEF RecordsFit, SaverFits
<1>. QED BY <1>2, <1>3, <1>5, <1>6

LEMMA ChangeOnXKeeps ==
  ASSUME TypedMirror, CopiesFit, RecordsFit, ChangeOnX
  PROVE  AccountTyped' /\ TasksTyped' /\ CopiesFit' /\ RecordsFit'
<1>1. UNCHANGED <<profile, mapping, task, doubt, started>> /\ happened' \in 0 .. MaxMirrorEvents
  BY OccursTyped DEF ChangeOnX
<1>2. source' \in [version : 0 .. MaxVersion, pin : Pins]
  <2>1. PICK v \in {source.version, source.version + 1}, p \in Pins : source' = [version |-> v, pin |-> p]
    BY DEF ChangeOnX
  <2>2. v \in 0 .. MaxVersion
    BY <2>1, AccountAt, MirrorAssumption DEF ChangeOnX
  <2>. QED BY <2>1, <2>2
<1>3. AccountTyped'
  BY <1>1, <1>2 DEF TypedMirror, AccountTyped
<1>4. TasksTyped'
  BY <1>1 DEF TypedMirror, TasksTyped
<1>5. \A f : IsShown(f)' <=> IsShown(f)
  BY <1>1 DEF IsShown
<1>6. CopiesFit'
  BY <1>1, <1>5 DEF CopiesFit
<1>7. RecordsFit'
  BY <1>1, <1>5 DEF RecordsFit, SaverFits
<1>. QED BY <1>3, <1>4, <1>6, <1>7

LEMMA EditBioKeeps ==
  ASSUME TypedMirror, CopiesFit, RecordsFit, EditBio
  PROVE  AccountTyped' /\ TasksTyped' /\ CopiesFit' /\ RecordsFit'
<1>1. UNCHANGED <<source, mapping, doubt, started>> /\ happened' \in 0 .. MaxMirrorEvents
  BY OccursTyped DEF EditBio
<1>2. profile \in Profiles /\ profile' = [profile EXCEPT !.exists = TRUE, !.bio = happened']
  BY AccountAt DEF EditBio
<1>3. /\ profile' \in Profiles /\ profile'.exists /\ profile'.name = profile.name
      /\ profile'.avatar = profile.avatar /\ profile'.pin = profile.pin
  BY <1>1, <1>2 DEF Profiles
<1>4. \A f \in Fields : profile'[f] = profile[f]
  <2> SUFFICES ASSUME NEW f \in Fields PROVE profile'[f] = profile[f]
    OBVIOUS
  <2>1. /\ profile["name"] = profile.name /\ profile["avatar"] = profile.avatar /\ profile["pin"] = profile.pin
        /\ profile'["name"] = profile'.name /\ profile'["avatar"] = profile'.avatar /\ profile'["pin"] = profile'.pin
    BY <1>2, <1>3 DEF Profiles
  <2>. QED BY <1>3, <2>1 DEF Fields
<1>5. task' = [i \in Jobs |-> Stale(task[i])]
  BY DEF EditBio, Stale
<1>6. \A i \in Jobs : /\ IsAlike(task[i], task'[i]) /\ task'[i].seen # "fresh" /\ TaskFits(i, task'[i])
                      /\ task'[i].current = task[i].current /\ task'[i] \in TaskState
                      /\ \A f : IsSaver(task'[i], f) <=> IsSaver(task[i], f)
                      /\ \A f : Value(task'[i], f) = Value(task[i], f)
  <2> SUFFICES ASSUME NEW i \in Jobs
               PROVE  /\ IsAlike(task[i], task'[i]) /\ task'[i].seen # "fresh" /\ TaskFits(i, task'[i])
                      /\ task'[i].current = task[i].current /\ task'[i] \in TaskState
                      /\ \A f : IsSaver(task'[i], f) <=> IsSaver(task[i], f)
                      /\ \A f : Value(task'[i], f) = Value(task[i], f)
    OBVIOUS
  <2>1. task[i] \in TaskState /\ TaskFits(i, task[i]) /\ task'[i] = Stale(task[i])
    BY <1>5, TaskAt DEF TypedMirror
  <2>2. IsAlike(task[i], task'[i]) /\ task'[i].seen # "fresh" /\ task'[i].current = task[i].current
    BY <2>1, StaleAlike
  <2>. QED BY <2>1, <2>2, AlikeFacts DEF IsAlike
<1>7. AccountTyped'
  BY <1>1, <1>3 DEF TypedMirror, AccountTyped
<1>8. TasksTyped'
  BY <1>5, <1>6 DEF TasksTyped
<1>9. \A f \in Fields : IsShown(f)' <=> IsShown(f)
  BY <1>4, <1>6 DEF IsShown
<1>10. CopiesFit'
  <2>1. "suffix" \in Jobs /\ "name" \in Fields
    BY DEF Jobs, Fields
  <2>2. IsAlike(task["suffix"], task'["suffix"]) /\ task'["suffix"].current = task["suffix"].current
    BY <1>6, <2>1
  <2>3. IsShown("name")' <=> IsShown("name")
    BY <1>9, <2>1
  <2>. QED BY <1>1, <1>3, <1>6, <2>2, <2>3 DEF CopiesFit, IsAlike
<1>11. RecordsFit'
  BY <1>1, <1>4, <1>6, <1>9 DEF RecordsFit, SaverFits
<1>. QED BY <1>7, <1>8, <1>10, <1>11
--------------------------------------------------------------------------------
\* The lease, the posts and the deletion, of which the other steps do not take notice.
PostStep == UNCHANGED <<outcome, repo, deletion, left>> /\ holder' \in {holder, "nobody", "timeline"}

LEMMA PostStepKeeps ==
  ASSUME PostsTyped, DeletionFits, PostStep
  PROVE  PostsTyped' /\ DeletionFits'
  BY DEF PostsTyped, DeletionFits, PostStep

LEMMA MirrorPinPosts ==
  ASSUME TypedMirror, DeletionFits, NEW j \in Jobs, MirrorPin(j)
  PROVE  /\ PostsTyped' /\ DeletionFits'
         /\ \A t \in Tweets : outcome'[t] = "none" => outcome[t] = "none"
<1> DEFINE t == task[j].tweet
           o == IF outcome[t] = "migrated" THEN "migrated" ELSE "skipped"
<1>1. t \in Tweets
  BY TaskAt DEF TypedMirror, TaskFits, MirrorPin
<1>2. PostsTyped /\ outcome \in [Tweets -> {"none", "migrated", "skipped"}]
  BY DEF TypedMirror, PostsTyped
<1>3. UNCHANGED <<holder, left>>
  BY DEF MirrorPin
<1>4. \/ /\ outcome' = [outcome EXCEPT ![t] = "migrated"] /\ repo' = repo \cup {t}
         /\ deletion' = IF deletion = "idle" THEN deletion ELSE "uneven"
      \/ outcome' = [outcome EXCEPT ![t] = o] /\ UNCHANGED <<repo, deletion>>
  BY <1>2 DEF MirrorPin
<1> HIDE DEF t
<1>5. /\ outcome' \in [Tweets -> {"none", "migrated", "skipped"}]
      /\ \A u \in Tweets : outcome'[u] = "none" => outcome[u] = "none"
  BY <1>1, <1>2, <1>4
<1>6. PostsTyped'
  BY <1>1, <1>2, <1>3, <1>4, <1>5 DEF PostsTyped
<1>7. DeletionFits'
  BY <1>3, <1>4 DEF DeletionFits
<1>. QED BY <1>5, <1>6, <1>7

LEMMA JobPosts ==
  ASSUME TypedMirror, DeletionFits, NEW j \in Jobs, JobSteps(j)
  PROVE  /\ PostsTyped' /\ DeletionFits'
         /\ \A t \in Tweets : outcome'[t] = "none" => outcome[t] = "none"
<1>1. CASE MirrorPin(j)
  BY <1>1, MirrorPinPosts
<1>2. ASSUME PostStep
      PROVE  PostsTyped' /\ DeletionFits' /\ \A t \in Tweets : outcome'[t] = "none" => outcome[t] = "none"
  BY <1>2, PostStepKeeps DEF TypedMirror, PostStep
<1>3. CASE FetchProfile(j) \/ FetchName(j) \/ LookUpPin(j) \/ ReadRecord(j)
  BY <1>2, <1>3 DEF FetchProfile, FetchName, LookUpPin, ReadRecord, PostStep
<1>4. CASE ApplyPin(j)
  BY <1>2, <1>4 DEF ApplyPin, Leaves, PostStep
<1>5. CASE PutRecord(j)
  BY <1>2, <1>5 DEF PutRecord, Leaves, PostStep
<1>6. CASE SwapRefused(j)
  BY <1>2, <1>6 DEF SwapRefused, Leaves, PostStep
<1>7. CASE CallFails(j)
  BY <1>2, <1>7 DEF CallFails, Leaves, PostStep
<1>8. CASE SaveState(j)
  BY <1>2, <1>8 DEF SaveState, Leaves, PostStep
<1>. QED BY <1>1, <1>3, <1>4, <1>5, <1>6, <1>7, <1>8 DEF JobSteps

LEMMA JobKeeps ==
  ASSUME TypedMirror, CopiesFit, RecordsFit, NEW j \in Jobs, JobSteps(j)
  PROVE  AccountTyped' /\ TasksTyped' /\ CopiesFit' /\ RecordsFit'
<1>1. CASE FetchProfile(j)
  BY <1>1, FetchProfileQuiet, QuietKeeps
<1>2. CASE FetchName(j)
  BY <1>2, FetchNameQuiet, QuietKeeps
<1>3. CASE LookUpPin(j)
  BY <1>3, LookUpPinQuiet, QuietKeeps
<1>4. CASE MirrorPin(j)
  BY <1>4, MirrorPinQuiet, QuietKeeps
<1>5. CASE ApplyPin(j)
  BY <1>5, ApplyPinQuiet, QuietKeeps
<1>6. CASE ReadRecord(j)
  BY <1>6, ReadRecordQuiet, QuietKeeps
<1>7. CASE PutRecord(j)
  BY <1>7, PutKeeps
<1>8. CASE SwapRefused(j)
  BY <1>8, SwapRefusedQuiet, QuietKeeps
<1>9. CASE CallFails(j)
  BY <1>9, CallFailsQuiet, QuietKeeps
<1>10. CASE SaveState(j)
  BY <1>10, SaveKeeps
<1>. QED BY <1>1, <1>2, <1>3, <1>4, <1>5, <1>6, <1>7, <1>8, <1>9, <1>10 DEF JobSteps

\* The jobs that begin, and housekeeping's turn.
Begins ==
  \/ StartRequest \/ StartApply \/ StartCommand \/ StartLabel \/ StartSuffix
  \/ StartHousekeeping \/ HousekeepingTurn \/ StartTimeline

LEMMA BeginsKeeps ==
  ASSUME ProfileInv, Begins
  PROVE  AccountTyped' /\ TasksTyped' /\ CopiesFit' /\ RecordsFit' /\ PostStep
<1>1. TypedMirror /\ CopiesFit /\ RecordsFit
  BY DEF ProfileInv
<1>2. \E j \in Jobs : Quiet(j)
  <2>1. CASE StartRequest
    BY <1>1, <2>1, StartAtQuiet DEF StartRequest, Jobs
  <2>2. CASE StartApply
    BY <1>1, <2>2, StartAtQuiet DEF StartApply, Jobs
  <2>3. CASE StartCommand
    BY <1>1, <2>3, StartAtQuiet DEF StartCommand, Jobs
  <2>4. CASE StartLabel
    BY <1>1, <2>4, StartAtQuiet DEF StartLabel, Jobs
  <2>5. CASE StartSuffix
    BY <1>1, <2>5, StartAtQuiet DEF StartSuffix, Jobs
  <2>6. CASE StartHousekeeping
    BY <1>1, <2>6, HousekeepingQuiet DEF Jobs
  <2>7. CASE HousekeepingTurn
    BY <1>1, <2>7, TurnQuiet DEF Jobs
  <2>8. CASE StartTimeline
    BY <1>1, <2>8, TimelineQuiet DEF Jobs
  <2>. QED BY <2>1, <2>2, <2>3, <2>4, <2>5, <2>6, <2>7, <2>8 DEF Begins
<1>3. PostStep
  BY DEF Begins, StartRequest, StartApply, StartCommand, StartLabel, StartSuffix, StartHousekeeping, HousekeepingTurn,
         StartTimeline, StartAt, Starts, PostStep
<1>. QED BY <1>1, <1>2, <1>3, QuietKeeps

\* Deliveries and the deletion.
PostActions ==
  \/ \E t \in Tweets : Deliver(t) \/ DeletePost(t)
  \/ StartDelivery \/ StartDeletion \/ FinishDeletion \/ StopDeletion \/ MaintenanceLapses

LEMMA PostActionsUnmoved ==
  ASSUME TypedMirror, PostActions
  PROVE  Unmoved /\ happened' \in 0 .. MaxMirrorEvents
<1>1. happened \in 0 .. MaxMirrorEvents
  BY AccountAt
<1>. QED BY <1>1, OccursTyped DEF PostActions, Deliver, DeletePost, StartDelivery, StartDeletion, FinishDeletion, StopDeletion,
              MaintenanceLapses, EndsDeletion

LEMMA PostActionsKeep ==
  ASSUME PostsTyped, DeletionFits, PostActions
  PROVE  PostsTyped' /\ DeletionFits'
<1>1. ASSUME NEW t \in Tweets, Deliver(t)
      PROVE  PostsTyped' /\ DeletionFits'
  BY <1>1 DEF Deliver, PostsTyped, DeletionFits
<1>2. ASSUME NEW t \in Tweets, DeletePost(t)
      PROVE  PostsTyped' /\ DeletionFits'
  BY <1>2 DEF DeletePost, PostsTyped, DeletionFits
<1>3. CASE StartDelivery
  BY <1>3 DEF StartDelivery, PostsTyped, DeletionFits
<1>4. CASE StartDeletion
  BY <1>4 DEF StartDeletion, PostsTyped, DeletionFits
<1>5. CASE FinishDeletion
  BY <1>5 DEF FinishDeletion, EndsDeletion, PostsTyped, DeletionFits
<1>6. CASE StopDeletion
  BY <1>6 DEF StopDeletion, EndsDeletion, PostsTyped, DeletionFits
<1>7. CASE MaintenanceLapses
  BY <1>7 DEF MaintenanceLapses, PostsTyped, DeletionFits
<1>. QED BY <1>1, <1>2, <1>3, <1>4, <1>5, <1>6, <1>7 DEF PostActions

LEMMA ProfileStarts ==
  ASSUME MirrorInit
  PROVE  ProfileInv
<1>1. 1 \in 0 .. MaxVersion /\ 0 \in 0 .. MaxJobs /\ 0 \in 0 .. MaxMirrorEvents
  BY MirrorAssumption
<1>2. profile \in Profiles /\ profile.name = NoRecord.name /\ profile.avatar = 0 /\ profile.pin = NoTweet
      /\ (~profile.exists => profile = NoRecord)
  <2>1. /\ NoRecord \in Profiles /\ NoRecord.avatar = 0 /\ NoRecord.pin = NoTweet
    BY Blank DEF NoRecord
  <2> DEFINE r == [NoRecord EXCEPT !.exists = TRUE]
  <2>2. r \in Profiles /\ r.exists /\ r.name = NoRecord.name /\ r.avatar = NoRecord.avatar /\ r.pin = NoRecord.pin
    BY <2>1 DEF Profiles
  <2>3. profile \in {NoRecord, r}
    BY DEF MirrorInit
  <2> HIDE DEF r
  <2>. QED BY <2>1, <2>2, <2>3
<1>3. AccountTyped
  BY <1>1, <1>2, Blank DEF MirrorInit, AccountTyped
<1>4. PostsTyped
  BY DEF MirrorInit, PostsTyped
<1>5. TasksTyped
  BY Rest DEF MirrorInit, TasksTyped, TaskFits
<1>6. \A j \in Jobs : task[j] = Resting
  BY DEF MirrorInit
<1>7. CopiesFit
  <2>1. "suffix" \in Jobs
    BY DEF Jobs
  <2>. QED BY <1>2, <1>6, <2>1, Rest DEF CopiesFit
<1>8. RecordsFit
  <2>1. \A f \in Fields : mapping[f] = profile[f]
    BY <1>2, Blank DEF MirrorInit, NothingMirrored, Fields, Profiles, Mirrored
  <2>2. \A j \in Jobs : \A f : ~IsSaver(task[j], f)
    BY <1>6, Rest DEF IsSaver
  <2>. QED BY <2>1, <2>2 DEF RecordsFit, SaverFits
<1>9. DeletionFits
  BY DEF MirrorInit, DeletionFits
<1>. QED BY <1>3, <1>4, <1>5, <1>7, <1>8, <1>9 DEF ProfileInv, TypedMirror

LEMMA ProfileSteps ==
  ASSUME ProfileInv, [MirrorNext]_mirrorVars
  PROVE  ProfileInv'
<1>1. TypedMirror /\ PostsTyped /\ CopiesFit /\ RecordsFit /\ DeletionFits
  BY DEF ProfileInv, TypedMirror
<1>2. ASSUME NEW j \in Jobs, JobSteps(j)
      PROVE  ProfileInv'
  BY <1>1, <1>2, JobKeeps, JobPosts DEF ProfileInv, TypedMirror
<1>3. CASE Begins
  BY <1>1, <1>3, BeginsKeeps, PostStepKeeps DEF ProfileInv, TypedMirror
<1>4. CASE PostActions
  BY <1>1, <1>4, PostActionsUnmoved, UnmovedKeeps, PostActionsKeep DEF ProfileInv, TypedMirror
<1>5. CASE EditBio
  <2>1. PostStep
    BY <1>5 DEF EditBio, PostStep
  <2>. QED BY <1>1, <1>5, <2>1, EditBioKeeps, PostStepKeeps DEF ProfileInv, TypedMirror
<1>6. CASE ChangeOnX
  <2>1. PostStep
    BY <1>6 DEF ChangeOnX, PostStep
  <2>. QED BY <1>1, <1>6, <2>1, ChangeOnXKeeps, PostStepKeeps DEF ProfileInv, TypedMirror
<1>7. CASE UNCHANGED mirrorVars
  <2>1. Unmoved /\ PostStep /\ happened' = happened
    BY <1>7 DEF mirrorVars, Unmoved, PostStep
  <2>. QED BY <1>1, <2>1, UnmovedKeeps, AccountAt, PostStepKeeps DEF ProfileInv, TypedMirror
<1>. QED BY <1>2, <1>3, <1>4, <1>5, <1>6, <1>7 DEF MirrorNext, Begins, PostActions

LEMMA ProfileInvariance == MirrorSpec => []ProfileInv
  BY ProfileStarts, ProfileSteps, PTL DEF MirrorSpec

\* The record of the profile, the tasks about it with what they have read and are about
\* to record, and the posts keep the types that syncBlueskyProfileFromTwitter(), the pin
\* syncs and deleteAllPosts() count on.
THEOREM ProfileTyping == MirrorSpec => []MirrorTypeOK
<1>1. ProfileInv => MirrorTypeOK
  BY SameTypes DEF ProfileInv, TypedMirror, TasksTyped
<1>. QED BY <1>1, ProfileInvariance, PTL

\* Whatever the seven tasks do between each other's reads, writes and saves: a field that
\* is recorded as mirrored, and of which no write overlapped, was lost or waits to be
\* recorded, is what the profile on Bluesky shows, so that the next sync is right to skip it.
THEOREM RecordedIsShown == MirrorSpec => []RecordsMatchTheProfile
<1>1. ProfileInv => RecordsMatchTheProfile
  BY DEF ProfileInv, RecordsFit, RecordsMatchTheProfile, IsShown, IsSaver
<1>. QED BY <1>1, ProfileInvariance, PTL

\* While deleteAllPosts() has deleted whatever it listed and no pin sync mirrored a tweet,
\* the posts whose history the handler forgets are gone: no delivery slips in between its
\* pages and the end of its lease.
THEOREM ForgottenIsDeleted == MirrorSpec => ForgottenPostsAreGone
<1> DEFINE Gone == deletion = "deleting" => \A t \in Tweets : outcome[t] # "none" /\ outcome'[t] = "none" => t \notin repo'
<1>1. ASSUME ProfileInv, [MirrorNext]_mirrorVars
      PROVE  Gone
  <2> SUFFICES ASSUME deletion = "deleting", NEW t \in Tweets, outcome[t] # "none", outcome'[t] = "none"
               PROVE  t \notin repo'
    OBVIOUS
  <2>1. TypedMirror /\ DeletionFits
    BY <1>1 DEF ProfileInv
  <2>2. ASSUME NEW j \in Jobs, JobSteps(j)
        PROVE  FALSE
    BY <2>1, <2>2, JobPosts
  <2>3. ASSUME NEW u \in Tweets, Deliver(u)
        PROVE  FALSE
    BY <2>1, <2>3 DEF Deliver, TypedMirror, PostsTyped
  <2>4. CASE FinishDeletion
    BY <2>1, <2>4 DEF FinishDeletion, EndsDeletion, KeepsLease, DeletionFits
  <2>5. CASE outcome' = outcome
    BY <2>5
  <2>6. CASE Begins
    BY <1>1, <2>6, BeginsKeeps DEF PostStep
  <2>7. CASE \E u \in Tweets : DeletePost(u)
    BY <2>7 DEF DeletePost
  <2>8. CASE StartDelivery \/ StartDeletion \/ StopDeletion \/ MaintenanceLapses \/ EditBio \/ ChangeOnX
    BY <2>8 DEF StartDelivery, StartDeletion, StopDeletion, MaintenanceLapses, EditBio, ChangeOnX
  <2>9. CASE UNCHANGED mirrorVars
    BY <2>9 DEF mirrorVars
  <2>. QED BY <1>1, <2>2, <2>3, <2>4, <2>6, <2>7, <2>8, <2>9 DEF MirrorNext, Begins
<1>. QED BY <1>1, ProfileInvariance, PTL DEF MirrorSpec, ForgottenPostsAreGone
================================================================================
