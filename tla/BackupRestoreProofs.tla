--------------------------- MODULE BackupRestoreProofs ---------------------------
(***************************************************************************)
(* Theorems about backups, restores and the exchange of the database       *)
(* (BackupRestore), for every number of credentials, posts, restores,      *)
(* backups and faults: nothing is lost, what was revoked stays revoked,    *)
(* and the configuration is not ahead of its database.                     *)
(***************************************************************************)
EXTENDS BackupRestore, TLAPS

--------------------------------------------------------------------------------
(***************************************************************************)
(* The invariant.  Databases are told apart by the restore they come from, *)
(* and whoever has one open finds it, renamed or not.                      *)
(***************************************************************************)
Numbers(S) == {d.from : d \in S}
Present(f) == IF f = Gone THEN {} ELSE {f}
Staged == Present(pending) \cup Present(staging)
IsRestoreAt(step) == restore # Gone /\ restore.step = step
IsStartAt(step) == starting # Gone /\ starting.step = step

\* No two files are of one restore, and the restores are counted.
FilesInv ==
  /\ \A d, e \in Files : d.from = e.from => d = e
  /\ current \notin kept
  /\ \A d \in Present(pending) : d.from \notin Numbers(Files)
  /\ \A d \in Present(staging) : d.from \notin Numbers(Files \cup Present(pending))
  /\ \A d \in Files \cup Staged : d.from <= attempts

\* A restore brings a database that was not there before it.
StagesInv ==
  restore # Gone =>
    /\ restore.number <= attempts
    /\ restore.step = "stage" => restore.number \notin Numbers(Files \cup Staged)
    /\ restore.step \in {"revoke", "rename"} => \A d \in Present(staging) : d.from = restore.number

\* Whoever has a database open finds it, and the log at its place is of one that is there.
OpenInv ==
  /\ IsUp => server.file \in Numbers(Files)
  /\ log # Gone => log.of \in Numbers(Files)
  /\ cli # Gone => cli \in Numbers(Files)

\* A server starts when none runs; a start has put nothing aside before "move", and then
\* the place is free.
StartInv ==
  /\ starting # Gone /\ starting.who = "server" => ~IsUp
  /\ IsStartAt("keep") => starting.prior = Gone
  /\ IsStartAt("move") => current = Gone /\ (starting.prior # Gone => starting.prior \in Numbers(kept))

\* A credential works in one file at most, the one it was made in, crossed ones left out:
\* what is restored has none.
CredentialsInv ==
  /\ \A d \in Present(pending) : d.active = {}
  /\ IsRestoreAt("rename") => \A d \in Present(staging) : d.active = {}
  /\ \A d \in Files : d.active \subseteq minted
  /\ \A d \in Files : d.from \notin crossed => d.active \cap revoked = {}
  /\ \A d, e \in Files : d.from \notin crossed /\ d # e => d.active \cap e.active = {}

PlacesInv == RestoreTypeOK /\ FilesInv /\ StagesInv /\ OpenInv /\ StartInv /\ CredentialsInv

--------------------------------------------------------------------------------
(***************************************************************************)
(* Where files are.                                                        *)
(***************************************************************************)
LEMMA FilesTyped ==
  ASSUME RestoreTypeOK PROVE Files \subseteq Database
  BY DEF RestoreTypeOK, Files

LEMMA FileFound ==
  ASSUME NEW n \in Numbers(Files)
  PROVE  FileOf(n) \in Files /\ FileOf(n).from = n
  BY DEF FileOf, Numbers

\* A file is where its number says, and writing to it changes no number.
LEMMA Rewriting ==
  ASSUME RestoreTypeOK, FilesInv, NEW n \in Numbers(Files), NEW d \in Database, d.from = n, Rewritten(n, d)
  PROVE  /\ current' \in Database \cup {Gone} /\ kept' \subseteq Database /\ current' \notin kept'
         /\ Files' = (Files \ {FileOf(n)}) \cup {d}
         /\ current' = Gone <=> current = Gone
         /\ current # Gone => current'.from = current.from
         /\ Numbers(kept)' = Numbers(kept) /\ Numbers(Files)' = Numbers(Files)
         /\ \A e, f \in Files' : e.from = f.from => e = f
<1>1. FileOf(n) \in Files /\ FileOf(n).from = n /\ Files \subseteq Database
  BY FileFound, FilesTyped
<1>2. d # Gone
  BY RestoreAssumption
<1>3. CASE IsAtItsPlace(n)
  <2>1. FileOf(n) = current
    BY <1>1, <1>3 DEF IsAtItsPlace, Files, FilesInv
  <2>2. current' = d /\ kept' = kept
    BY <1>3 DEF Rewritten
  <2>3. d \notin kept
    BY <1>1, <2>1, <1>3 DEF Files, FilesInv, IsAtItsPlace
  <2>4. Files' = (Files \ {FileOf(n)}) \cup {d}
    BY <1>2, <1>3, <2>1, <2>2 DEF Files, IsAtItsPlace, FilesInv
  <2>5. Numbers(Files)' = Numbers(Files)
    BY <1>1, <2>4 DEF Numbers
  <2>6. \A e, f \in Files' : e.from = f.from => e = f
    BY <1>1, <2>4 DEF FilesInv
  <2> QED BY <1>2, <1>3, <2>1, <2>2, <2>3, <2>4, <2>5, <2>6 DEF RestoreTypeOK, IsAtItsPlace, Numbers
<1>4. CASE ~IsAtItsPlace(n)
  <2>1. FileOf(n) \in kept
    BY <1>1, <1>4 DEF IsAtItsPlace, Files
  <2>2. kept' = (kept \ {FileOf(n)}) \cup {d} /\ current' = current
    BY <1>4 DEF Rewritten
  <2>3. current \notin kept'
    BY <1>2, <1>4, <2>2 DEF FilesInv, IsAtItsPlace
  <2>4. Files' = (Files \ {FileOf(n)}) \cup {d}
    BY <1>1, <2>1, <2>2 DEF Files, FilesInv
  <2>5. Numbers(Files)' = Numbers(Files)
    BY <1>1, <2>4 DEF Numbers
  <2>6. Numbers(kept)' = Numbers(kept)
    BY <1>1, <2>1, <2>2 DEF Numbers
  <2>7. \A e, f \in Files' : e.from = f.from => e = f
    BY <1>1, <2>4 DEF FilesInv
  <2>8. kept' \subseteq Database
    BY <2>2 DEF RestoreTypeOK
  <2> QED BY <2>2, <2>3, <2>4, <2>5, <2>6, <2>7, <2>8 DEF RestoreTypeOK
<1> QED BY <1>3, <1>4

--------------------------------------------------------------------------------
(***************************************************************************)
(* Types.                                                                  *)
(***************************************************************************)
FileTypes ==
  /\ current \in Database \cup {Gone} /\ pending \in Database \cup {Gone} /\ staging \in Database \cup {Gone}
  /\ log \in Commits \cup {Gone} /\ kept \subseteq Database /\ bundles \subseteq Content

RunTypes ==
  /\ server \in Servers \cup {Gone} /\ cli \in 0 .. MaxRestores \cup {Gone}
  /\ starting \in StartUps \cup {Gone} /\ restore \in Restores \cup {Gone}

HistoryTypes ==
  /\ minted \subseteq Credentials /\ revoked \subseteq minted /\ delivered \subseteq Post /\ dropped \subseteq Post
  /\ crossed \subseteq 0 .. MaxRestores /\ abandoned \in BOOLEAN

CountTypes == config \in 0 .. MaxRestores /\ attempts \in 0 .. MaxRestores /\ faults \in 0 .. MaxBreaks

LEMMA TypeParts == RestoreTypeOK <=> FileTypes /\ RunTypes /\ HistoryTypes /\ CountTypes
  BY DEF RestoreTypeOK, FileTypes, RunTypes, HistoryTypes, CountTypes

LEMMA Bounds == MaxPosts \in Nat /\ MaxRestores \in Nat /\ MaxBreaks \in Nat
  BY RestoreAssumption

LEMMA SnapshotTyped ==
  ASSUME RestoreTypeOK, NEW n \in Numbers(Files)
  PROVE  Snapshot(n) \in Content
<1>1. FileOf(n) \in Database
  BY FileFound, FilesTyped
<1>2. (IsUp => server.log \subseteq Post) /\ LeftCommits \subseteq Post
  BY DEF RestoreTypeOK, IsUp, Servers, LeftCommits, Commits
<1> QED BY <1>1, <1>2 DEF Snapshot, Database, Content

LEMMA CheckpointTyped ==
  ASSUME RestoreTypeOK, OpenInv, IsUp
  PROVE  /\ server.file \in Numbers(Files)
         /\ Checkpointed(server.file) \in Database /\ Checkpointed(server.file).from = server.file
         /\ Checkpointed(server.file).active = FileOf(server.file).active
         /\ FileOf(server.file).posts \cup server.log \subseteq Checkpointed(server.file).posts
         /\ IsLogOf(server.file) => LeftCommits \subseteq Checkpointed(server.file).posts
<1>1. server.file \in Numbers(Files)
  BY DEF OpenInv
<1>2. FileOf(server.file) \in Database /\ FileOf(server.file).from = server.file
  BY <1>1, FileFound, FilesTyped
<1>3. server.log \subseteq Post /\ LeftCommits \subseteq Post
  BY DEF RestoreTypeOK, IsUp, Servers, LeftCommits, Commits
<1> QED BY <1>1, <1>2, <1>3 DEF Checkpointed, Database

LEMMA CredentialsTyped ==
  ASSUME RestoreTypeOK, OpenInv, IsUp, NEW active \in SUBSET Credentials
  PROVE  LET d == [FileOf(server.file) EXCEPT !.active = active] IN
         /\ server.file \in Numbers(Files)
         /\ d \in Database /\ d.from = server.file
         /\ d.active = active /\ d.posts = FileOf(server.file).posts
<1>1. server.file \in Numbers(Files)
  BY DEF OpenInv
<1>2. FileOf(server.file) \in Database /\ FileOf(server.file).from = server.file
  BY <1>1, FileFound, FilesTyped
<1> QED BY <1>1, <1>2 DEF Database

\* A start that comes to its end, the database being there or not.
Starts == Open \/ OpenCrossed

LEMMA OpenKeeps ==
  ASSUME RestoreTypeOK, Open, current # Gone
  PROVE  /\ current' \in Database /\ current'.from = current.from /\ current'.active = current.active
         /\ current'.posts = current.posts \cup LeftCommits
<1>1. LeftCommits \subseteq Post /\ current \in Database
  BY DEF RestoreTypeOK, LeftCommits, Commits
<1>2. current' = [current EXCEPT !.posts = @ \cup LeftCommits]
  BY DEF Open
<1> QED BY <1>1, <1>2 DEF Database

LEMMA Crossing ==
  ASSUME RestoreTypeOK, OpenInv, OpenCrossed
  PROVE  /\ current # Gone /\ log # Gone /\ FileOf(log.of) \in Files /\ FileOf(log.of).from = log.of
         /\ current' \in Database /\ current'.from = current.from
         /\ current'.active \subseteq current.active \cup FileOf(log.of).active
<1>1. current # Gone /\ log # Gone
  BY DEF OpenCrossed, IsForeignLog
<1>2. FileOf(log.of) \in Files /\ FileOf(log.of).from = log.of /\ FileOf(log.of) \in Database
  BY <1>1, FileFound, FilesTyped DEF OpenInv
<1>3. current \in Database /\ log \in Commits
  BY <1>1 DEF RestoreTypeOK
<1>4. PICK active \in SUBSET (current.active \cup FileOf(log.of).active),
           posts \in SUBSET (current.posts \cup FileOf(log.of).posts \cup log.posts) :
        current' = [from |-> current.from, active |-> active, posts |-> posts]
  BY DEF OpenCrossed
<1>5. active \subseteq Credentials /\ posts \subseteq Post /\ current.from \in 0 .. MaxRestores
  BY <1>2, <1>3 DEF Database, Commits
<1> QED BY <1>1, <1>2, <1>4, <1>5 DEF Database

LEMMA OpenTyped ==
  ASSUME RestoreTypeOK, OpenInv, Starts
  PROVE  /\ current' \in Database /\ log' \in Commits /\ log'.of = current'.from
         /\ server' \in {server, [file |-> current'.from, log |-> {}, busy |-> 0]} /\ cli' \in {cli, current'.from}
<1>1. CASE Open
  <2>1. log' = [of |-> current'.from, posts |-> {}] /\ Opens(current'.from)
    BY <1>1 DEF Open
  <2>2. current' \in Database
    <3>1. CASE current = Gone
      <4>1. attempts + 1 \in 0 .. MaxRestores
        BY <1>1, <3>1, Bounds DEF Open, RestoreTypeOK
      <4> QED BY <1>1, <3>1, <4>1 DEF Open, Database
    <3> QED BY <1>1, <3>1, OpenKeeps
  <2> QED BY <2>1, <2>2 DEF Opens, Database, Commits
<1>2. CASE OpenCrossed
  <2>1. current' \in Database /\ current'.from = current.from
    BY <1>2, Crossing
  <2>2. log' = [of |-> current.from, posts |-> {}] /\ (Opens(current.from) \/ UNCHANGED <<server, cli>>)
    BY <1>2 DEF OpenCrossed
  <2> QED BY <2>1, <2>2 DEF Opens, Database, Commits
<1> QED BY <1>1, <1>2 DEF Starts

\* A stop that closes the database, and one that leaves it.
CleanStop ==
  /\ Stop /\ IsAtItsPlace(server.file) /\ IsLogOf(server.file) /\ Rewritten(server.file, Checkpointed(server.file))
  /\ log' = (IF cli = server.file THEN log ELSE Gone) /\ UNCHANGED dropped
PlainStop == Stop /\ LeaveLog /\ UNCHANGED <<current, kept>>

LEMMA Stopping == Stop => CleanStop \/ PlainStop
  BY DEF Stop, CleanStop, PlainStop

\* What a server that is gone leaves in its log.
LEMMA LeavingLog ==
  ASSUME RestoreTypeOK, IsUp, LeaveLog
  PROVE  /\ log' \in Commits \cup {Gone} /\ dropped \subseteq dropped' /\ dropped' \subseteq Post
         /\ log' = Gone <=> log = Gone
         /\ log # Gone => log'.of = log.of /\ log.posts \subseteq log'.posts
         /\ server.log \subseteq dropped' \cup IF log' = Gone THEN {} ELSE log'.posts
<1>1. server.log \subseteq Post /\ (log # Gone => log \in Commits) /\ dropped \subseteq Post
  BY DEF RestoreTypeOK, IsUp, Servers
<1>2. CASE IsLogOf(server.file)
  <2>1. log # Gone /\ log \in Commits /\ log' = [log EXCEPT !.posts = @ \cup server.log] /\ dropped' = dropped
    BY <1>1, <1>2 DEF LeaveLog, IsLogOf
  <2>2. log' \in Commits /\ log'.of = log.of /\ log'.posts = log.posts \cup server.log
    BY <1>1, <2>1 DEF Commits
  <2> QED BY <1>1, <2>1, <2>2, RestoreAssumption
<1>3. CASE ~IsLogOf(server.file)
  BY <1>1, <1>3 DEF LeaveLog
<1> QED BY <1>2, <1>3

LEMMA FileTypesStep ==
  ASSUME PlacesInv, RestoreNext
  PROVE  FileTypes'
<1> USE DEF files, FileTypes
<1>1. RestoreTypeOK /\ FileTypes /\ RunTypes
  BY TypeParts DEF PlacesInv
<1>2. ASSUME \/ \E who \in {"server", "cli"} : Begin(who)
             \/ ClearLog \/ (\E q \in Post : TakeUp(q)) \/ RecordDelivery \/ KillOther \/ SaveConfiguration
      PROVE  FileTypes'
  BY <1>1, <1>2 DEF Begin, ClearLog, TakeUp, RecordDelivery, KillOther, SaveConfiguration, EndOf
<1>3. ASSUME NEW who \in {"server", "cli"}, NEW b \in bundles, Apply(who, b) PROVE FileTypes'
  <2> DEFINE n == IF who = "server" THEN server.file ELSE cli
  <2>1. n \in Numbers(Files)
    BY <1>3 DEF Apply, PlacesInv, OpenInv, IsUp
  <2>2. Snapshot(n) \in Content
    BY <1>1, <2>1, SnapshotTyped
  <2>3. bundles' = bundles \cup {Snapshot(n)} /\ UNCHANGED files
    BY <1>3 DEF Apply
  <2> HIDE DEF n
  <2> QED BY <1>1, <2>2, <2>3
<1>4. ASSUME NEW d \in Files, Backup(d.from) PROVE FileTypes'
  <2>1. Snapshot(d.from) \in Content
    BY <1>1, SnapshotTyped DEF Numbers
  <2> QED BY <1>1, <1>4, <2>1 DEF Backup
<1>5. ASSUME KeepPrior PROVE FileTypes'
  BY <1>1, <1>5, FilesTyped DEF KeepPrior
<1>6. ASSUME MoveStaged PROVE FileTypes'
  BY <1>1, <1>6 DEF MoveStaged
<1>7. ASSUME Starts PROVE FileTypes'
  <2>1. current' \in Database /\ UNCHANGED <<pending, staging, kept, bundles>> /\ log' \in Commits
    BY <1>1, <1>7, OpenTyped DEF PlacesInv, Starts, Open, OpenCrossed
  <2> QED BY <1>1, <2>1
<1>8. ASSUME NEW isBack \in BOOLEAN, FailStart(isBack) PROVE FileTypes'
  <2>1. UNCHANGED <<log, pending, staging, bundles>>
    BY <1>8 DEF FailStart
  <2>2. CASE starting.prior # Gone /\ isBack
    <3>1. starting.prior \in Numbers(Files)
      BY <1>8, <2>2 DEF FailStart, PlacesInv, StartInv, IsStartAt, Numbers, Files
    <3>2. FileOf(starting.prior) \in Database
      BY <1>1, <3>1, FileFound, FilesTyped
    <3> QED BY <1>1, <1>8, <2>1, <2>2, <3>2 DEF FailStart
  <2>3. CASE ~(starting.prior # Gone /\ isBack)
    BY <1>1, <1>8, <2>1, <2>3 DEF FailStart
  <2> QED BY <2>2, <2>3
<1>9. ASSUME Checkpoint \/ CleanStop PROVE FileTypes'
  <2>1. /\ IsUp /\ Rewritten(server.file, Checkpointed(server.file)) /\ UNCHANGED <<pending, staging, bundles>>
        /\ log' \in {log, Gone}
    BY <1>9 DEF Checkpoint, CleanStop, Stop, IsServing
  <2>2. current' \in Database \cup {Gone} /\ kept' \subseteq Database
    BY <1>1, <2>1, CheckpointTyped, Rewriting DEF PlacesInv
  <2> QED BY <1>1, <2>1, <2>2
<1>10. ASSUME PlainStop \/ KillServer PROVE FileTypes'
  <2>1. IsUp /\ LeaveLog /\ UNCHANGED <<current, kept, pending, staging, bundles>>
    BY <1>10 DEF PlainStop, Stop, KillServer, IsServing
  <2> QED BY <1>1, <2>1, LeavingLog
<1>11. ASSUME NEW c \in Credentials, Mint(c) \/ Revoke(c) PROVE FileTypes'
  <2>1. PICK active \in SUBSET Credentials : SetCredentials(active) /\ IsUp
    <3>1. IsUp /\ FileOf(server.file) \in Database
      BY <1>1, <1>11, FileFound, FilesTyped DEF Mint, Revoke, IsServing, PlacesInv, OpenInv
    <3> QED BY <1>11, <3>1 DEF Mint, Revoke, Database
  <2>2. current' \in Database \cup {Gone} /\ kept' \subseteq Database
    BY <1>1, <2>1, CredentialsTyped, Rewriting DEF PlacesInv, SetCredentials
  <2> QED BY <1>1, <2>1, <2>2 DEF SetCredentials
<1>12. ASSUME Stage PROVE FileTypes'
  <2>1. restore \in Restores
    BY <1>1, <1>12 DEF Stage, RunTypes
  <2>2. staging' \in Database
    BY <1>12, <2>1, Bounds DEF Stage, Restores, Content, Database
  <2> QED BY <1>1, <1>12, <2>2 DEF Stage
<1>13. ASSUME RevokeStaged PROVE FileTypes'
  <2>1. staging' \in Database
    BY <1>1, <1>13 DEF RevokeStaged, Database
  <2> QED BY <1>1, <1>13, <2>1 DEF RevokeStaged
<1>14. ASSUME RenameStaged \/ FailRestore PROVE FileTypes'
  BY <1>1, <1>14 DEF RenameStaged, FailRestore, EndOf
<1> QED BY <1>2, <1>3, <1>4, <1>5, <1>6, <1>7, <1>8, <1>9, <1>10, <1>11, <1>12, <1>13, <1>14, Stopping DEF RestoreNext, Starts

\* What the processes are at, after a step of one of them.
LEMMA RunFields ==
  /\ \A x \in Servers, q \in Post \cup {0}, l \in SUBSET Post :
       /\ [x EXCEPT !.busy = q] \in Servers /\ [x EXCEPT !.log = l] \in Servers
       /\ [x EXCEPT !.log = l, !.busy = q] \in Servers
  /\ \A x \in StartUps, t \in {"keep", "move", "clear", "open"}, n \in 0 .. MaxRestores \cup {Gone} :
       /\ [x EXCEPT !.step = t] \in StartUps /\ [x EXCEPT !.step = t, !.prior = n] \in StartUps
  /\ \A x \in Restores, t \in {"stage", "revoke", "rename", "save"} : [x EXCEPT !.step = t] \in Restores
  BY DEF Servers, StartUps, Restores

LEMMA RunTypesStep ==
  ASSUME PlacesInv, RestoreNext
  PROVE  RunTypes'
<1> USE DEF runs, RunTypes
<1>1. RestoreTypeOK /\ FileTypes /\ RunTypes
  BY TypeParts DEF PlacesInv
<1>2. ASSUME NEW who \in {"server", "cli"}, Begin(who) PROVE RunTypes'
  BY <1>1, <1>2 DEF Begin, StartUps
<1>3. ASSUME NEW who \in {"server", "cli"}, NEW b \in bundles, Apply(who, b) PROVE RunTypes'
  <2>1. attempts + 1 \in 1 .. MaxRestores /\ b \in Content
    BY <1>1, <1>3, Bounds DEF Apply, RestoreTypeOK
  <2>2. (IsRestartRequired) \in BOOLEAN
    BY DEF IsRestartRequired
  <2>3. restore' \in Restores
    BY <1>3, <2>1, <2>2 DEF Apply, Restores
  <2> QED BY <1>1, <1>3, <2>3 DEF Apply
<1>4. ASSUME KeepPrior PROVE RunTypes'
  <2>1. (IF current = Gone THEN Gone ELSE current.from) \in 0 .. MaxRestores \cup {Gone}
    BY <1>1 DEF FileTypes, Database
  <2>2. starting' \in StartUps
    BY <1>1, <1>4, <2>1, RunFields DEF KeepPrior
  <2> QED BY <1>1, <1>4, <2>2 DEF KeepPrior
<1>5. ASSUME MoveStaged \/ ClearLog PROVE RunTypes'
  <2>1. starting' \in StartUps
    BY <1>1, <1>5, RunFields DEF MoveStaged, ClearLog
  <2> QED BY <1>1, <1>5, <2>1 DEF MoveStaged, ClearLog
<1>6. ASSUME Starts PROVE RunTypes'
  <2>1. current'.from \in 0 .. MaxRestores
    BY <1>1, <1>6, OpenTyped DEF PlacesInv, Database
  <2>2. [file |-> current'.from, log |-> {}, busy |-> 0] \in Servers
    BY <2>1 DEF Servers
  <2>3. /\ server' \in {server, [file |-> current'.from, log |-> {}, busy |-> 0]}
        /\ cli' \in {cli, current'.from}
    BY <1>1, <1>6, OpenTyped DEF PlacesInv
  <2>4. starting' = Gone /\ restore' = restore
    BY <1>6 DEF Starts, Open, OpenCrossed
  <2> QED BY <1>1, <2>1, <2>2, <2>3, <2>4
<1>7. ASSUME NEW isBack \in BOOLEAN, FailStart(isBack) PROVE RunTypes'
  BY <1>1, <1>7 DEF FailStart
<1>8. ASSUME NEW q \in Post, TakeUp(q) PROVE RunTypes'
  <2>1. server' \in Servers
    BY <1>1, <1>8, RunFields DEF TakeUp, IsServing, IsUp
  <2> QED BY <1>1, <1>8, <2>1 DEF TakeUp
<1>9. ASSUME RecordDelivery PROVE RunTypes'
  <2>1. server \in Servers
    BY <1>1, <1>9 DEF RecordDelivery, IsServing, IsUp
  <2>2. server' \in Servers
    BY <1>9, <2>1 DEF RecordDelivery, Servers
  <2> QED BY <1>1, <1>9, <2>2 DEF RecordDelivery
<1>10. ASSUME Checkpoint \/ Stop PROVE RunTypes'
  <2>1. server' \in Servers \cup {Gone}
    BY ZenonT(30), <1>1, <1>10, RunFields DEF Checkpoint, Stop, IsServing, IsUp
  <2> QED BY <1>1, <1>10, <2>1 DEF Checkpoint, Stop
<1>11. ASSUME KillServer \/ KillOther PROVE RunTypes'
  BY <1>1, <1>11 DEF KillServer, KillOther
<1>12. ASSUME \/ \E c \in Credentials : Mint(c) \/ Revoke(c)
              \/ \E d \in Files : Backup(d.from)
       PROVE  RunTypes'
  BY <1>1, <1>12 DEF Mint, Revoke, SetCredentials, Backup
<1>13. ASSUME Stage \/ RevokeStaged \/ RenameStaged PROVE RunTypes'
  <2>1. restore' \in Restores
    BY <1>1, <1>13, RunFields DEF Stage, RevokeStaged, RenameStaged
  <2> QED BY <1>1, <1>13, <2>1 DEF Stage, RevokeStaged, RenameStaged
<1>14. ASSUME SaveConfiguration \/ FailRestore PROVE RunTypes'
  BY <1>1, <1>14 DEF SaveConfiguration, FailRestore, EndOf
<1> QED BY <1>2, <1>3, <1>4, <1>5, <1>6, <1>7, <1>8, <1>9, <1>10, <1>11, <1>12, <1>13, <1>14 DEF RestoreNext, Starts

LEMMA HistoryTypesStep ==
  ASSUME PlacesInv, RestoreNext
  PROVE  HistoryTypes'
<1> USE DEF history, HistoryTypes
<1>1. HistoryTypes /\ RunTypes /\ FileTypes
  BY TypeParts DEF PlacesInv
<1>2. ASSUME \/ \E who \in {"server", "cli"} : Begin(who) \/ \E b \in bundles : Apply(who, b)
             \/ KeepPrior \/ MoveStaged \/ (\E isBack \in BOOLEAN : FailStart(isBack))
             \/ (\E q \in Post : TakeUp(q)) \/ Checkpoint \/ CleanStop \/ KillOther
             \/ (\E d \in Files : Backup(d.from))
             \/ Stage \/ RevokeStaged \/ RenameStaged \/ SaveConfiguration
      PROVE  HistoryTypes'
  <2>1. UNCHANGED history
    BY <1>2 DEF Begin, Apply, KeepPrior, MoveStaged, FailStart, TakeUp, Checkpoint, CleanStop, Stop, KillOther,
                Backup, Stage, RevokeStaged, RenameStaged, SaveConfiguration
  <2> QED BY <1>1, <2>1
<1>3. ASSUME ClearLog PROVE HistoryTypes'
  <2>1. dropped' \subseteq Post
    BY <1>1, <1>3 DEF ClearLog, FileTypes, Commits, LeftCommits
  <2> QED BY <1>1, <1>3, <2>1 DEF ClearLog
<1>4. ASSUME RecordDelivery PROVE HistoryTypes'
  <2>1. delivered' \subseteq Post /\ dropped' \subseteq Post
    BY <1>1, <1>4 DEF RecordDelivery, IsServing, IsUp, RunTypes, Servers
  <2> QED BY <1>1, <1>4, <2>1 DEF RecordDelivery
<1>5. ASSUME KillServer \/ PlainStop PROVE HistoryTypes'
  <2>1. IsUp /\ LeaveLog /\ UNCHANGED <<minted, revoked, delivered, crossed, abandoned>>
    BY <1>5 DEF KillServer, PlainStop, Stop, IsServing
  <2>2. dropped' \subseteq Post
    BY <2>1, LeavingLog DEF PlacesInv
  <2> QED BY <1>1, <2>1, <2>2
<1>6. ASSUME NEW c \in Credentials, Mint(c) PROVE HistoryTypes'
  BY <1>1, <1>6 DEF Mint, SetCredentials
<1>7. ASSUME NEW c \in Credentials, Revoke(c) PROVE HistoryTypes'
  <2>1. FileOf(server.file).active \subseteq minted
    BY <1>7, FileFound DEF Revoke, IsServing, PlacesInv, OpenInv, CredentialsInv
  <2> QED BY <1>1, <1>7, <2>1 DEF Revoke, SetCredentials
<1>8. ASSUME FailRestore PROVE HistoryTypes'
  <2>1. abandoned' \in BOOLEAN
    BY <1>1, <1>8 DEF FailRestore, RunTypes, Restores
  <2> QED BY <1>1, <1>8, <2>1 DEF FailRestore
<1>9. ASSUME Open PROVE HistoryTypes'
  <2>1. dropped' \subseteq Post
    BY <1>1, <1>9 DEF Open, FileTypes, Commits, LeftCommits
  <2> QED BY <1>1, <1>9, <2>1 DEF Open
<1>10. ASSUME OpenCrossed PROVE HistoryTypes'
  <2>1. FileOf(log.of) \in Database /\ log \in Commits /\ current \in Database
    BY <1>1, <1>10, FileFound, FilesTyped DEF OpenCrossed, IsForeignLog, PlacesInv, OpenInv, FileTypes
  <2>2. IsUp => server.log \subseteq Post
    BY <1>1 DEF RunTypes, Servers, IsUp
  <2>3. dropped' \subseteq Post /\ crossed' \subseteq 0 .. MaxRestores
    BY <1>1, <1>10, <2>1, <2>2 DEF OpenCrossed, Database, Commits
  <2> QED BY <1>1, <1>10, <2>3 DEF OpenCrossed
<1> QED BY <1>2, <1>3, <1>4, <1>5, <1>6, <1>7, <1>8, <1>9, <1>10, Stopping DEF RestoreNext

LEMMA CountTypesStep ==
  ASSUME PlacesInv, RestoreNext
  PROVE  CountTypes'
<1> USE Bounds DEF CountTypes
<1>1. CountTypes /\ RunTypes
  BY TypeParts DEF PlacesInv
<1>2. \/ UNCHANGED <<attempts, faults>>
      \/ MayFail
      \/ faults' = faults /\ attempts' = attempts + 1 /\ attempts' <= MaxRestores
  BY DEF RestoreNext, Begin, Apply, KeepPrior, MoveStaged, ClearLog, Open, OpenCrossed, FailStart, TakeUp, RecordDelivery,
         Checkpoint, Stop, KillServer, KillOther, Mint, Revoke, SetCredentials, Backup, Stage, RevokeStaged,
         RenameStaged, SaveConfiguration, FailRestore
<1>3. attempts' \in 0 .. MaxRestores /\ faults' \in 0 .. MaxBreaks
  BY <1>1, <1>2 DEF MayFail
<1>4. CASE SaveConfiguration
  <2>1. config' \in 0 .. MaxRestores
    BY <1>1, <1>4 DEF SaveConfiguration, RunTypes, Restores
  <2> QED BY <1>3, <2>1
<1>5. CASE ~SaveConfiguration
  <2>1. config' = config
    BY <1>5 DEF RestoreNext, Begin, Apply, KeepPrior, MoveStaged, ClearLog, Open, OpenCrossed, FailStart, TakeUp, RecordDelivery,
         Checkpoint, Stop, KillServer, KillOther, Mint, Revoke, SetCredentials, Backup, Stage, RevokeStaged,
         RenameStaged, FailRestore
  <2> QED BY <1>1, <1>3, <2>1
<1> QED BY <1>4, <1>5

LEMMA TypesStep == PlacesInv /\ RestoreNext => RestoreTypeOK'
<1> SUFFICES ASSUME PlacesInv, RestoreNext PROVE RestoreTypeOK'
  OBVIOUS
<1>1. FileTypes' /\ RunTypes' /\ HistoryTypes' /\ CountTypes'
  BY FileTypesStep, RunTypesStep, HistoryTypesStep, CountTypesStep
<1> QED BY <1>1 DEF RestoreTypeOK, FileTypes, RunTypes, HistoryTypes, CountTypes

--------------------------------------------------------------------------------
(***************************************************************************)
(* Steps that leave the files alone, steps that write to one, and the rest.*)
(***************************************************************************)
LeavesFiles ==
  \/ (\E who \in {"server", "cli"} : Begin(who) \/ \E b \in bundles : Apply(who, b))
  \/ ClearLog \/ (\E q \in Post : TakeUp(q)) \/ RecordDelivery \/ PlainStop \/ KillServer \/ KillOther
  \/ (\E d \in Files : Backup(d.from)) \/ SaveConfiguration

WritesFile == Checkpoint \/ CleanStop \/ \E c \in Credentials : Mint(c) \/ Revoke(c)

LEMMA Kinds ==
  RestoreNext => \/ LeavesFiles \/ WritesFile
                 \/ KeepPrior \/ MoveStaged \/ Starts \/ (\E isBack \in BOOLEAN : FailStart(isBack))
                 \/ Stage \/ RevokeStaged \/ RenameStaged \/ FailRestore
  BY Stopping DEF RestoreNext, LeavesFiles, WritesFile, Starts

LEMMA Leaving ==
  ASSUME PlacesInv, LeavesFiles
  PROVE  /\ UNCHANGED <<current, kept, pending, staging, minted, revoked, crossed>>
         /\ attempts' \in Nat /\ attempts' >= attempts
<1>1. attempts \in Nat
  BY DEF PlacesInv, RestoreTypeOK
<1> QED BY <1>1 DEF LeavesFiles, Begin, Apply, ClearLog, TakeUp, RecordDelivery, PlainStop, Stop, KillServer,
                   KillOther, Backup, SaveConfiguration, MayFail, files, history

\* Whoever writes has the file open, and writes posts or credentials.
LEMMA Writing ==
  ASSUME PlacesInv, WritesFile
  PROVE  \E d \in Database :
           /\ IsUp /\ server.file \in Numbers(Files) /\ d.from = server.file /\ Rewritten(server.file, d)
           /\ UNCHANGED <<pending, staging, cli, starting, restore, config, attempts, abandoned, crossed, bundles,
                          delivered, dropped>>
           /\ log' \in {log, Gone} /\ server' \in {Gone, server, [server EXCEPT !.log = {}]}
           /\ FileOf(server.file).posts \subseteq d.posts /\ (log' # log => LeftCommits \subseteq d.posts)
           /\ \/ /\ server.log \subseteq d.posts
                 /\ d.active = FileOf(server.file).active /\ UNCHANGED <<minted, revoked>>
              \/ /\ server' = server
                 /\ \E c \in Credentials :
                      \/ /\ c \notin minted /\ minted' = minted \cup {c} /\ revoked' = revoked
                         /\ d.active = FileOf(server.file).active \cup {c}
                      \/ /\ c \in FileOf(server.file).active /\ minted' = minted /\ revoked' = revoked \cup {c}
                         /\ d.active = FileOf(server.file).active \ {c}
<1> USE DEF PlacesInv
<1>1. CASE Checkpoint \/ CleanStop
  <2>1. IsUp /\ Rewritten(server.file, Checkpointed(server.file)) /\ log' \in {log, Gone}
    BY <1>1 DEF Checkpoint, CleanStop, Stop, IsServing
  <2>2. UNCHANGED <<pending, staging, cli, starting, restore, config, attempts, abandoned, crossed, bundles, delivered,
                    dropped, minted, revoked>>
    BY <1>1 DEF Checkpoint, CleanStop, Stop, history
  <2>3. server' \in {Gone, server, [server EXCEPT !.log = {}]}
    BY <1>1 DEF Checkpoint, CleanStop, Stop
  <2>4. log' # log => IsLogOf(server.file)
    BY <1>1 DEF Checkpoint, CleanStop
  <2> QED BY <2>1, <2>2, <2>3, <2>4, CheckpointTyped
<1>2. ASSUME NEW c \in Credentials, Mint(c) \/ Revoke(c) PROVE
        \E active \in SUBSET Credentials :
          /\ SetCredentials(active)
          /\ \/ /\ c \notin minted /\ minted' = minted \cup {c} /\ revoked' = revoked
                /\ active = FileOf(server.file).active \cup {c}
             \/ /\ c \in FileOf(server.file).active /\ minted' = minted /\ revoked' = revoked \cup {c}
                /\ active = FileOf(server.file).active \ {c}
  <2>1. FileOf(server.file).active \subseteq Credentials
    BY <1>2, FileFound, FilesTyped DEF Mint, Revoke, IsServing, OpenInv, Database
  <2>2. CASE Mint(c)
    BY <2>1, <2>2 DEF Mint
  <2>3. CASE Revoke(c)
    BY <2>1, <2>3 DEF Revoke
  <2> QED BY <1>2, <2>2, <2>3
<1>3. ASSUME NEW active \in SUBSET Credentials, SetCredentials(active)
      PROVE  LET d == [FileOf(server.file) EXCEPT !.active = active] IN
             /\ IsUp /\ server.file \in Numbers(Files) /\ d \in Database /\ d.from = server.file
             /\ Rewritten(server.file, d) /\ d.active = active /\ d.posts = FileOf(server.file).posts
             /\ UNCHANGED <<pending, staging, log, cli, starting, restore, config, attempts, abandoned, crossed, bundles,
                            delivered, dropped, server>>
  <2>1. IsUp
    BY <1>3 DEF SetCredentials, IsServing
  <2>2. UNCHANGED <<pending, staging, log, cli, starting, restore, config, attempts, abandoned, crossed, bundles,
                    delivered, dropped, server>>
    BY <1>3 DEF SetCredentials, runs
  <2>3. Rewritten(server.file, [FileOf(server.file) EXCEPT !.active = active])
    BY <1>3 DEF SetCredentials
  <2> QED BY <2>1, <2>2, <2>3, CredentialsTyped
<1>4. CASE \E c \in Credentials : Mint(c) \/ Revoke(c)
  <2>1. PICK c \in Credentials : Mint(c) \/ Revoke(c)
    BY <1>4
  <2>2. PICK active \in SUBSET Credentials :
          /\ SetCredentials(active)
          /\ \/ /\ c \notin minted /\ minted' = minted \cup {c} /\ revoked' = revoked
                /\ active = FileOf(server.file).active \cup {c}
             \/ /\ c \in FileOf(server.file).active /\ minted' = minted /\ revoked' = revoked \cup {c}
                /\ active = FileOf(server.file).active \ {c}
    BY <2>1, <1>2
  <2> DEFINE d == [FileOf(server.file) EXCEPT !.active = active]
  <2>3. /\ IsUp /\ server.file \in Numbers(Files) /\ d \in Database /\ d.from = server.file
        /\ Rewritten(server.file, d) /\ d.active = active /\ d.posts = FileOf(server.file).posts
        /\ UNCHANGED <<pending, staging, log, cli, starting, restore, config, attempts, abandoned, crossed, bundles,
                       delivered, dropped, server>>
    BY <2>2, <1>3
  <2> HIDE DEF d
  <2>4. \E k \in Credentials :
          \/ /\ k \notin minted /\ minted' = minted \cup {k} /\ revoked' = revoked
             /\ d.active = FileOf(server.file).active \cup {k}
          \/ /\ k \in FileOf(server.file).active /\ minted' = minted /\ revoked' = revoked \cup {k}
             /\ d.active = FileOf(server.file).active \ {k}
    BY <2>2, <2>3
  <2> QED BY <2>3, <2>4
<1> QED BY <1>1, <1>4 DEF WritesFile

\* A start opens the file at its place, or makes the next one, or crosses it with another.
LEMMA Opening ==
  ASSUME PlacesInv, Starts
  PROVE  /\ UNCHANGED <<pending, staging, kept, restore, minted, revoked>>
         /\ current' \in Database /\ current' # Gone /\ Files' = kept \cup {current'} /\ starting' = Gone
         /\ log' # Gone /\ log'.of = current'.from
         /\ \/ /\ current = Gone /\ current'.from = attempts + 1 /\ attempts' = attempts + 1
               /\ current'.active = {} /\ crossed' = crossed
            \/ /\ current # Gone /\ current'.from = current.from /\ attempts' = attempts
               /\ \/ current'.active = current.active /\ crossed' = crossed
                  \/ /\ current'.active \subseteq current.active \cup FileOf(log.of).active
                     /\ FileOf(log.of) \in Files /\ FileOf(log.of).from = log.of
                     /\ crossed' = crossed \cup {current.from, log.of}
<1> USE DEF PlacesInv
<1>1. current' \in Database /\ log' \in Commits /\ log'.of = current'.from
  BY OpenTyped
<1>2. current' # Gone /\ log' # Gone
  BY <1>1, RestoreAssumption
<1>3. UNCHANGED <<pending, staging, kept, restore, minted, revoked>> /\ starting' = Gone
  BY DEF Starts, Open, OpenCrossed
<1>4. Files' = kept \cup {current'}
  BY <1>2, <1>3 DEF Files
<1>5. Open => crossed' = crossed /\ attempts' = IF current = Gone THEN attempts + 1 ELSE attempts
  BY DEF Open
<1>6. OpenCrossed => attempts' = attempts /\ crossed' = crossed \cup {current.from, log.of}
  BY DEF OpenCrossed
<1>8. Open /\ current # Gone => current'.from = current.from /\ current'.active = current.active
  BY OpenKeeps
<1>9. Open /\ current = Gone => current'.from = attempts + 1 /\ current'.active = {}
  BY DEF Open
<1>10. OpenCrossed => /\ current # Gone /\ current'.from = current.from
                      /\ FileOf(log.of) \in Files /\ FileOf(log.of).from = log.of
                      /\ current'.active \subseteq current.active \cup FileOf(log.of).active
  BY Crossing
<1> QED BY <1>1, <1>2, <1>3, <1>4, <1>5, <1>6, <1>8, <1>9, <1>10 DEF Starts

\* A start that fails leaves every file where it was, or puts the prior one back.
LEMMA PuttingBack ==
  ASSUME PlacesInv, NEW isBack \in BOOLEAN, FailStart(isBack)
  PROVE  /\ Files' = Files /\ current' \notin kept' /\ starting' = Gone
         /\ UNCHANGED <<pending, staging, restore, log, server, cli, attempts, minted, revoked, crossed, bundles,
                        config, delivered, dropped, abandoned>>
         /\ \/ UNCHANGED <<current, kept>>
            \/ /\ IsStartAt("move") /\ starting.prior \in Numbers(kept)
               /\ current' = FileOf(starting.prior) /\ current'.from = starting.prior
<1> USE DEF PlacesInv
<1>1. UNCHANGED <<pending, staging, restore, log, server, cli, attempts, minted, revoked, crossed, bundles,
                  config, delivered, dropped, abandoned>> /\ starting' = Gone
  BY DEF FailStart, MayFail, history
<1>2. CASE starting.prior # Gone /\ isBack
  <2>1. IsStartAt("move") /\ current = Gone /\ starting.prior \in Numbers(kept)
    BY <1>2 DEF FailStart, StartInv, IsStartAt
  <2>2. Files = kept /\ starting.prior \in Numbers(Files)
    BY <2>1 DEF Files
  <2>3. FileOf(starting.prior) \in kept /\ FileOf(starting.prior) \in Database /\ FileOf(starting.prior).from = starting.prior
    BY <2>2, FileFound, FilesTyped
  <2>4. current' = FileOf(starting.prior) /\ kept' = kept \ {FileOf(starting.prior)}
    BY <1>2 DEF FailStart
  <2>5. current' # Gone
    BY <2>3, <2>4, RestoreAssumption
  <2>6. Files' = Files
    BY <2>2, <2>3, <2>4, <2>5 DEF Files
  <2> QED BY <1>1, <2>1, <2>3, <2>4, <2>6
<1>3. CASE ~(starting.prior # Gone /\ isBack)
  <2>1. UNCHANGED <<current, kept>>
    BY <1>3 DEF FailStart
  <2> QED BY <1>1, <2>1 DEF Files, FilesInv
<1> QED BY <1>2, <1>3

--------------------------------------------------------------------------------
(***************************************************************************)
(* The parts of the invariant, step by step.                               *)
(***************************************************************************)
LEMMA FilesStep ==
  ASSUME PlacesInv, RestoreNext
  PROVE  FilesInv'
<1> USE DEF PlacesInv
<1>1. Files \subseteq Database /\ attempts \in Nat
  BY FilesTyped DEF RestoreTypeOK
<1>2. CASE LeavesFiles
  <2>1. /\ UNCHANGED <<current, kept, pending, staging>> /\ Files' = Files /\ Staged' = Staged
        /\ attempts' \in Nat /\ attempts' >= attempts
    BY <1>2, Leaving DEF Files, Staged, Present
  <2>2. \A d \in Files \cup Staged : d.from \in Nat
    BY <1>1 DEF Staged, Present, RestoreTypeOK, Database
  <2>3. \A d \in Files' \cup Staged' : d.from <= attempts'
    BY <1>1, <2>1, <2>2 DEF FilesInv
  <2> QED BY <2>1, <2>3 DEF FilesInv, Numbers, Present
<1>3. CASE WritesFile
  <2>1. PICK d \in Database :
          /\ server.file \in Numbers(Files) /\ d.from = server.file /\ Rewritten(server.file, d)
          /\ UNCHANGED <<pending, staging, attempts>>
    BY <1>3, Writing
  <2>2. /\ current' \notin kept' /\ Files' = (Files \ {FileOf(server.file)}) \cup {d}
        /\ Numbers(Files)' = Numbers(Files) /\ \A e, f \in Files' : e.from = f.from => e = f
    BY <2>1, Rewriting
  <2>3. FileOf(server.file) \in Files /\ FileOf(server.file).from = d.from
    BY <2>1, FileFound
  <2>4. \A e \in Files' \cup Staged' : e.from <= attempts
    BY <2>1, <2>2, <2>3 DEF FilesInv, Staged, Present
  <2>5. Present(pending)' = Present(pending) /\ Present(staging)' = Present(staging)
    BY <2>1 DEF Present
  <2>6. \A e \in Present(staging) : e.from \notin Numbers(Files' \cup Present(pending))
    BY <2>2, <2>5 DEF FilesInv, Numbers
  <2> QED BY <2>1, <2>2, <2>4, <2>5, <2>6 DEF FilesInv
<1>4. CASE KeepPrior
  <2>1. Files' = Files /\ UNCHANGED <<pending, staging, attempts>> /\ kept' = Files /\ current' = Gone
    BY <1>4 DEF KeepPrior, Files
  <2>2. current' \notin kept'
    BY <1>1, <2>1, RestoreAssumption
  <2> QED BY <2>1, <2>2 DEF FilesInv, Staged, Present, Numbers
<1>5. CASE MoveStaged
  <2>1. /\ current = Gone /\ Files = kept /\ pending # Gone /\ Files' = Files \cup {pending}
        /\ pending' = Gone /\ current' = pending /\ UNCHANGED <<staging, kept, attempts>>
    BY <1>5 DEF MoveStaged, StartInv, IsStartAt, Files, IsRestartRequired
  <2> QED BY <2>1 DEF FilesInv, Staged, Present, Numbers
<1>6. CASE Starts
  <2>1. Files = kept \cup Present(current)
    BY DEF Files, Present
  <2>2. CASE current = Gone
    <3>1. Files' = Files \cup {current'} /\ current'.from = attempts + 1 /\ attempts' = attempts + 1 /\ Files = kept
      BY <1>6, <2>1, <2>2, Opening DEF Present
    <3>2. UNCHANGED <<kept, pending, staging>>
      BY <1>6, Opening
    <3>3. \A d \in Files \cup Staged : d.from <= attempts /\ d.from # attempts + 1 /\ d.from \in Nat
      BY <1>1 DEF FilesInv, Staged, Present, RestoreTypeOK, Database
    <3> QED BY <1>1, <3>1, <3>2, <3>3 DEF FilesInv, Staged, Present, Numbers
  <2>3. CASE current # Gone
    <3>1. /\ Files' = kept \cup {current'} /\ current'.from = current.from /\ attempts' = attempts
          /\ Files = kept \cup {current}
      BY <1>6, <2>1, <2>3, Opening DEF Present
    <3>2. UNCHANGED <<kept, pending, staging>>
      BY <1>6, Opening
    <3>3. Numbers(Files)' = Numbers(Files)
      BY <3>1 DEF Numbers
    <3>4. current' \notin kept
      BY <3>1 DEF FilesInv
    <3>5. \A d, e \in Files' : d.from = e.from => d = e
      BY <3>1 DEF FilesInv
    <3>6. \A d \in Files' \cup Staged' : d.from <= attempts'
      BY <3>1, <3>2 DEF FilesInv, Staged, Present
    <3>7. \A d \in Present(staging) : d.from \notin Numbers(Files' \cup Present(pending))
      BY <3>3 DEF FilesInv, Numbers
    <3> QED BY <3>2, <3>3, <3>4, <3>5, <3>6, <3>7 DEF FilesInv, Present
  <2> QED BY <2>2, <2>3
<1>7. ASSUME NEW isBack \in BOOLEAN, FailStart(isBack) PROVE FilesInv'
  BY <1>7, PuttingBack DEF FilesInv, Staged, Present, Numbers
<1>8. CASE Stage
  <2>1. /\ Files' = Files /\ UNCHANGED <<current, kept, pending, attempts>> /\ staging'.from = restore.number
        /\ IsRestoreAt("stage")
    BY <1>8 DEF Stage, Files, IsRestoreAt
  <2>2. restore.number <= attempts /\ restore.number \notin Numbers(Files \cup Staged)
    BY <2>1 DEF StagesInv, IsRestoreAt
  <2> QED BY <2>1, <2>2 DEF FilesInv, Staged, Present, Numbers
<1>9. CASE RevokeStaged
  <2>1. /\ staging # Gone /\ staging \in Database /\ staging'.from = staging.from
        /\ Files' = Files /\ UNCHANGED <<current, kept, pending, attempts>>
    BY <1>9 DEF RevokeStaged, Files, RestoreTypeOK, Database
  <2> QED BY <2>1 DEF FilesInv, Staged, Present, Numbers
<1>10. CASE RenameStaged
  <2>1. /\ staging # Gone /\ pending' = staging /\ staging' = Gone
        /\ Files' = Files /\ UNCHANGED <<current, kept, attempts>>
    BY <1>10 DEF RenameStaged, Files
  <2> QED BY <2>1 DEF FilesInv, Staged, Present, Numbers
<1>11. CASE FailRestore
  <2>1. /\ pending' = Gone /\ staging' = Gone
        /\ Files' = Files /\ UNCHANGED <<current, kept, attempts>>
    BY <1>11 DEF FailRestore, Files, MayFail
  <2> QED BY <2>1 DEF FilesInv, Staged, Present, Numbers
<1> QED BY <1>2, <1>3, <1>4, <1>5, <1>6, <1>7, <1>8, <1>9, <1>10, <1>11, Kinds

LEMMA NumbersGrow ==
  ASSUME PlacesInv, RestoreNext
  PROVE  Numbers(Files) \subseteq Numbers(Files)'
<1> USE DEF PlacesInv
<1>1. CASE LeavesFiles
  BY <1>1, Leaving DEF Files, Numbers
<1>2. CASE WritesFile
  <2>1. PICK d \in Database : server.file \in Numbers(Files) /\ d.from = server.file /\ Rewritten(server.file, d)
    BY <1>2, Writing
  <2> QED BY <2>1, Rewriting
<1>3. CASE KeepPrior \/ Stage \/ RevokeStaged \/ RenameStaged \/ FailRestore
  <2>1. Files' = Files
    BY <1>3 DEF KeepPrior, Stage, RevokeStaged, RenameStaged, FailRestore, Files
  <2> QED BY <2>1 DEF Numbers
<1>4. CASE MoveStaged
  <2>1. current = Gone /\ UNCHANGED kept
    BY <1>4 DEF MoveStaged, StartInv, IsStartAt
  <2> QED BY <2>1 DEF Files, Numbers
<1>5. CASE Starts
  BY <1>5, Opening DEF Files, Numbers
<1>6. ASSUME NEW isBack \in BOOLEAN, FailStart(isBack) PROVE Numbers(Files) \subseteq Numbers(Files)'
  BY <1>6, PuttingBack DEF Numbers
<1> QED BY <1>1, <1>2, <1>3, <1>4, <1>5, <1>6, Kinds

LEMMA StagesStep ==
  ASSUME PlacesInv, RestoreNext
  PROVE  StagesInv'
<1> USE DEF PlacesInv
<1>1. /\ attempts \in Nat
      /\ restore # Gone => restore \in Restores /\ restore.number \in Nat
      /\ \A d \in Files \cup Staged : d.from <= attempts /\ d.from \in Nat
  BY FilesTyped DEF RestoreTypeOK, Restores, FilesInv, Staged, Present, Database
<1>2. CASE LeavesFiles
  <2>1. /\ UNCHANGED <<current, kept, pending, staging>> /\ Files' = Files /\ Staged' = Staged
        /\ attempts' \in Nat /\ attempts' >= attempts
    BY <1>2, Leaving DEF Files, Staged, Present
  <2>2. \/ restore' \in {restore, Gone}
        \/ restore'.step = "stage" /\ restore'.number = attempts + 1 /\ attempts' = attempts + 1
    BY <1>2 DEF LeavesFiles, Begin, Apply, ClearLog, TakeUp, RecordDelivery, PlainStop, Stop, KillServer,
                KillOther, Backup, SaveConfiguration, runs
  <2>3. attempts + 1 \notin Numbers(Files \cup Staged)
    BY <1>1 DEF Numbers
  <2> QED BY <1>1, <2>1, <2>2, <2>3 DEF StagesInv, Present, Numbers
<1>3. CASE WritesFile
  <2>1. PICK d \in Database :
          /\ server.file \in Numbers(Files) /\ d.from = server.file /\ Rewritten(server.file, d)
          /\ UNCHANGED <<pending, staging, attempts, restore>>
    BY <1>3, Writing
  <2>2. Numbers(Files)' = Numbers(Files)
    BY <2>1, Rewriting
  <2>3. Numbers(Files' \cup Staged') = Numbers(Files \cup Staged) /\ Present(staging)' = Present(staging)
    BY <2>1, <2>2 DEF Numbers, Staged, Present
  <2> QED BY <2>1, <2>3 DEF StagesInv
<1>4. CASE KeepPrior
  BY <1>4 DEF KeepPrior, StagesInv, Files, Staged, Present, Numbers
<1>5. CASE MoveStaged
  <2>1. Files' \cup Staged' = Files \cup Staged /\ UNCHANGED <<staging, restore, attempts>>
    BY <1>5 DEF MoveStaged, StartInv, IsStartAt, Files, Staged, Present, IsRestartRequired
  <2> QED BY <2>1 DEF StagesInv, Present, Numbers
<1>6. CASE Starts
  <2>1. UNCHANGED <<pending, staging, restore>> /\ attempts' \in {attempts, attempts + 1}
    BY <1>6, Opening
  <2>2. \A n \in Numbers(Files)' : n \in Numbers(Files) \/ n = attempts + 1
    BY <1>6, Opening DEF Numbers, Files
  <2>3. restore # Gone => restore.number # attempts + 1 /\ restore.number <= attempts'
    BY <1>1, <2>1 DEF StagesInv
  <2>4. \A n \in Numbers(Files' \cup Staged') : n \in Numbers(Files \cup Staged) \/ n = attempts + 1
    BY <2>1, <2>2 DEF Numbers, Staged, Present
  <2> QED BY <2>1, <2>3, <2>4 DEF StagesInv, Present
<1>7. ASSUME NEW isBack \in BOOLEAN, FailStart(isBack) PROVE StagesInv'
  BY <1>7, PuttingBack DEF StagesInv, Staged, Present, Numbers
<1>8. CASE Stage
  <2>1. restore'.step = "revoke" /\ restore'.number = restore.number /\ staging'.from = restore.number /\ attempts' = attempts
    BY <1>1, <1>8 DEF Stage, Restores
  <2> QED BY <1>8, <2>1 DEF Stage, StagesInv, Present
<1>9. CASE RevokeStaged
  <2>1. staging # Gone /\ staging \in Database
    BY <1>9 DEF RevokeStaged, RestoreTypeOK
  <2>2. /\ restore'.step = "rename" /\ restore'.number = restore.number /\ staging'.from = staging.from
        /\ attempts' = attempts
    BY <1>1, <1>9, <2>1 DEF RevokeStaged, Restores, Database
  <2> QED BY <1>9, <2>1, <2>2 DEF RevokeStaged, StagesInv, Present
<1>10. CASE RenameStaged
  <2>1. restore'.step = "save" /\ restore'.number = restore.number /\ attempts' = attempts
    BY <1>1, <1>10 DEF RenameStaged, Restores
  <2> QED BY <1>10, <2>1 DEF RenameStaged, StagesInv
<1>11. CASE FailRestore
  BY <1>11 DEF FailRestore, StagesInv
<1> QED BY <1>2, <1>3, <1>4, <1>5, <1>6, <1>7, <1>8, <1>9, <1>10, <1>11, Kinds

LEMMA OpenStep ==
  ASSUME PlacesInv, RestoreNext
  PROVE  OpenInv'
<1> USE DEF PlacesInv
<1>1. Numbers(Files) \subseteq Numbers(Files)'
  BY NumbersGrow
<1>2. CASE Starts
  <2>1. current'.from \in Numbers(Files)' /\ log'.of = current'.from
    BY <1>2, Opening DEF Numbers
  <2>2. /\ server' \in {server, [file |-> current'.from, log |-> {}, busy |-> 0]}
        /\ cli' \in {cli, current'.from}
    BY <1>2, OpenTyped
  <2> QED BY <1>1, <2>1, <2>2 DEF OpenInv, IsUp
<1>3. CASE ~Starts
  <2>1. cli' \in {cli, Gone}
    BY <1>3 DEF RestoreNext, Begin, Apply, KeepPrior, MoveStaged, ClearLog, FailStart, TakeUp, RecordDelivery,
         Checkpoint, Stop, KillServer, KillOther, Mint, Revoke, SetCredentials, Backup, Stage, RevokeStaged,
         RenameStaged, SaveConfiguration, FailRestore, EndOf, runs, Starts
  <2>2. IsUp /\ IsUp' => server'.file = server.file
    <3>1. CASE \E q \in Post : TakeUp(q)
      BY <3>1 DEF TakeUp, RestoreTypeOK, IsUp, Servers
    <3>2. CASE RecordDelivery \/ Checkpoint
      BY <3>2 DEF RecordDelivery, Checkpoint, RestoreTypeOK, IsUp, Servers
    <3>3. CASE ~((\E q \in Post : TakeUp(q)) \/ RecordDelivery \/ Checkpoint)
      <4>1. server' \in {server, Gone}
        BY <1>3, <3>3 DEF RestoreNext, Begin, Apply, KeepPrior, MoveStaged, ClearLog, FailStart,
           Stop, KillServer, KillOther, Mint, Revoke, SetCredentials, Backup, Stage, RevokeStaged,
           RenameStaged, SaveConfiguration, FailRestore, runs, Starts
      <4> QED BY <4>1 DEF IsUp
    <3> QED BY <3>1, <3>2, <3>3
  <2>3. IsUp' => IsUp
    BY <1>3 DEF RestoreNext, Begin, Apply, KeepPrior, MoveStaged, ClearLog, FailStart, TakeUp, RecordDelivery,
         Checkpoint, Stop, KillServer, KillOther, Mint, Revoke, SetCredentials, Backup, Stage, RevokeStaged,
         RenameStaged, SaveConfiguration, FailRestore, runs, IsUp, IsServing, Starts
  <2>4. log' \in {log, Gone} \/ (IsUp /\ LeaveLog)
    BY <1>3 DEF RestoreNext, Begin, Apply, KeepPrior, MoveStaged, ClearLog, FailStart, TakeUp, RecordDelivery,
         Checkpoint, Stop, KillServer, KillOther, Mint, Revoke, SetCredentials, Backup, Stage, RevokeStaged,
         RenameStaged, SaveConfiguration, FailRestore, EndOf, files, IsUp, IsServing, Starts
  <2>5. log' # Gone => log # Gone /\ log'.of = log.of
    BY <2>4, LeavingLog
  <2> QED BY <1>1, <2>1, <2>2, <2>3, <2>5 DEF OpenInv
<1> QED BY <1>2, <1>3

LEMMA ServersStart ==
  ASSUME PlacesInv, RestoreNext
  PROVE  starting' # Gone /\ starting'.who = "server" => ~IsUp'
<1> USE DEF PlacesInv
<1>1. starting # Gone => starting \in StartUps
  BY DEF RestoreTypeOK
<1>2. CASE Starts
  BY <1>2 DEF Starts, Open, OpenCrossed
<1>3. CASE ~Starts
  <2>1. IsUp' => IsUp
    BY <1>3 DEF RestoreNext, Begin, Apply, KeepPrior, MoveStaged, ClearLog, FailStart, TakeUp, RecordDelivery,
         Checkpoint, Stop, KillServer, KillOther, Mint, Revoke, SetCredentials, Backup, Stage, RevokeStaged,
         RenameStaged, SaveConfiguration, FailRestore, runs, IsUp, IsServing, Starts
  <2>2. CASE \E who \in {"server", "cli"} : Begin(who)
    BY <2>1, <2>2 DEF Begin
  <2>3. CASE KeepPrior \/ MoveStaged \/ ClearLog
    <3>1. starting # Gone /\ starting'.who = starting.who
      BY <1>1, <2>3 DEF KeepPrior, MoveStaged, ClearLog, StartUps
    <3> QED BY <2>1, <3>1 DEF StartInv
  <2>4. CASE ~((\E who \in {"server", "cli"} : Begin(who)) \/ KeepPrior \/ MoveStaged \/ ClearLog)
    <3>1. starting' \in {starting, Gone}
      BY <1>3, <2>4 DEF RestoreNext, Apply, FailStart, TakeUp, RecordDelivery,
         Checkpoint, Stop, KillServer, KillOther, Mint, Revoke, SetCredentials, Backup, Stage, RevokeStaged,
         RenameStaged, SaveConfiguration, FailRestore, runs, Starts
    <3> QED BY <2>1, <3>1 DEF StartInv
  <2> QED BY <2>2, <2>3, <2>4
<1> QED BY <1>2, <1>3

LEMMA StartStep ==
  ASSUME PlacesInv, RestoreNext
  PROVE  StartInv'
<1> USE ServersStart DEF PlacesInv
<1>1. starting # Gone => starting \in StartUps
  BY DEF RestoreTypeOK
<1>2. CASE LeavesFiles
  <2>1. UNCHANGED <<current, kept>>
    BY <1>2, Leaving
  <2>2. \/ starting' \in {starting, Gone}
        \/ starting'.step = "keep" /\ starting'.prior = Gone
        \/ starting'.step = "open"
    <3>1. CASE ClearLog
      BY <1>1, <3>1 DEF ClearLog, StartUps
    <3>2. CASE ~ClearLog
      BY <1>2, <3>2 DEF LeavesFiles, Begin, Apply, TakeUp, RecordDelivery, PlainStop, Stop, KillServer, KillOther,
                        Backup, SaveConfiguration, runs
    <3> QED BY <3>1, <3>2
  <2> QED BY <2>1, <2>2 DEF StartInv, IsStartAt, Numbers
<1>3. CASE WritesFile
  <2>1. PICK d \in Database :
          /\ server.file \in Numbers(Files) /\ d.from = server.file /\ Rewritten(server.file, d)
          /\ UNCHANGED starting
    BY <1>3, Writing
  <2>2. (current' = Gone <=> current = Gone) /\ Numbers(kept)' = Numbers(kept)
    BY <2>1, Rewriting
  <2> QED BY <2>1, <2>2 DEF StartInv, IsStartAt
<1>4. CASE KeepPrior
  <2>1. /\ starting'.step = "move" /\ current' = Gone /\ kept' = Files
        /\ starting'.prior = IF current = Gone THEN Gone ELSE current.from
    BY <1>1, <1>4 DEF KeepPrior, StartUps
  <2> QED BY <2>1 DEF StartInv, IsStartAt, Numbers, Files
<1>5. CASE MoveStaged
  <2>1. starting'.step = "clear"
    BY <1>1, <1>5 DEF MoveStaged, StartUps
  <2> QED BY <2>1 DEF StartInv, IsStartAt
<1>6. CASE Starts \/ \E isBack \in BOOLEAN : FailStart(isBack)
  BY <1>6 DEF Starts, Open, OpenCrossed, FailStart, StartInv, IsStartAt
<1>7. CASE Stage \/ RevokeStaged \/ RenameStaged \/ FailRestore
  <2>1. UNCHANGED <<current, kept, starting>>
    BY <1>7 DEF Stage, RevokeStaged, RenameStaged, FailRestore
  <2> QED BY <2>1 DEF StartInv, IsStartAt, Numbers
<1> QED BY <1>2, <1>3, <1>4, <1>5, <1>6, <1>7, Kinds

LEMMA CredentialsStep ==
  ASSUME PlacesInv, RestoreNext
  PROVE  CredentialsInv'
<1> USE DEF PlacesInv
<1>1. /\ Files \subseteq Database /\ revoked \subseteq minted
      /\ restore # Gone => restore \in Restores
  BY FilesTyped DEF RestoreTypeOK
<1>2. CASE LeavesFiles
  <2>1. UNCHANGED <<current, kept, pending, staging, minted, revoked, crossed>> /\ Files' = Files
    BY <1>2, Leaving DEF Files
  <2>2. restore' \in {restore, Gone} \/ restore'.step = "stage"
    BY <1>2 DEF LeavesFiles, Begin, Apply, ClearLog, TakeUp, RecordDelivery, PlainStop, Stop, KillServer,
                KillOther, Backup, SaveConfiguration, runs
  <2> QED BY <2>1, <2>2 DEF CredentialsInv, Present, IsRestoreAt
<1>3. CASE WritesFile
  <2>1. PICK d \in Database :
          /\ server.file \in Numbers(Files) /\ d.from = server.file /\ Rewritten(server.file, d)
          /\ UNCHANGED <<pending, staging, restore, crossed>>
          /\ \/ d.active = FileOf(server.file).active /\ UNCHANGED <<minted, revoked>>
             \/ \E c \in Credentials :
                  \/ /\ c \notin minted /\ minted' = minted \cup {c} /\ revoked' = revoked
                     /\ d.active = FileOf(server.file).active \cup {c}
                  \/ /\ c \in FileOf(server.file).active /\ minted' = minted /\ revoked' = revoked \cup {c}
                     /\ d.active = FileOf(server.file).active \ {c}
    BY <1>3, Writing
  <2> DEFINE f == FileOf(server.file)
  <2>2. f \in Files /\ Files' = (Files \ {f}) \cup {d}
    BY <2>1, FileFound, Rewriting
  <2> HIDE DEF f
  <2>3. d.from = f.from
    BY <2>1, FileFound DEF f
  <2>4. \A e \in Files' : e.active \subseteq minted'
    BY <2>1, <2>2 DEF CredentialsInv, f
  <2>5. \A e \in Files' : e.from \notin crossed => e.active \cap revoked' = {}
    BY <1>1, <2>1, <2>2, <2>3 DEF CredentialsInv, f
  <2>6. \A e \in Files \ {f} : e.from \notin crossed \/ f.from \notin crossed => e.active \cap d.active = {}
    BY <2>1, <2>2 DEF CredentialsInv, f
  <2>7. \A e, g \in Files' : e.from \notin crossed /\ e # g => e.active \cap g.active = {}
    BY <2>2, <2>3, <2>6 DEF CredentialsInv
  <2> QED BY <2>1, <2>4, <2>5, <2>7 DEF CredentialsInv, Present, IsRestoreAt
<1>4. CASE KeepPrior
  BY <1>4 DEF KeepPrior, CredentialsInv, Files, Present, IsRestoreAt, history
<1>5. CASE MoveStaged
  <2>1. /\ Files' = Files \cup {pending} /\ pending' = Gone /\ pending # Gone
        /\ UNCHANGED <<staging, restore, minted, revoked, crossed>>
    BY <1>5 DEF MoveStaged, StartInv, IsStartAt, Files, IsRestartRequired, history
  <2> QED BY <2>1 DEF CredentialsInv, Present, IsRestoreAt
<1>6. CASE Starts
  <2>1. UNCHANGED <<pending, staging, restore, minted, revoked>> /\ Files' = kept \cup {current'}
    BY <1>6, Opening
  <2>2. kept \subseteq Files
    BY DEF Files
  <2>3. CASE crossed' = crossed /\ current'.active = {}
    <3>1. \A e, g \in Files' : e.from \notin crossed' /\ e # g => e.active \cap g.active = {}
      BY <2>1, <2>2, <2>3 DEF CredentialsInv
    <3> QED BY <2>1, <2>2, <2>3, <3>1 DEF CredentialsInv, Present, IsRestoreAt
  <2>4. CASE current # Gone /\ crossed' = crossed /\ current'.from = current.from /\ current'.active = current.active
    <3>1. current \in Files /\ current \notin kept
      BY <2>4 DEF Files, FilesInv
    <3>2. \A e \in kept : e.from \notin crossed \/ current'.from \notin crossed => e.active \cap current'.active = {}
      BY <2>2, <2>4, <3>1 DEF CredentialsInv
    <3>3. \A e, g \in Files' : e.from \notin crossed' /\ e # g => e.active \cap g.active = {}
      BY <2>1, <2>2, <2>4, <3>2 DEF CredentialsInv
    <3> QED BY <2>1, <2>2, <2>4, <3>1, <3>3 DEF CredentialsInv, Present, IsRestoreAt
  <2>5. CASE /\ current # Gone /\ current'.from = current.from
             /\ current'.active \subseteq current.active \cup FileOf(log.of).active
             /\ FileOf(log.of) \in Files /\ FileOf(log.of).from = log.of
             /\ crossed' = crossed \cup {current.from, log.of}
    <3> DEFINE o == FileOf(log.of)
    <3>1. current \in Files /\ current \notin kept
      BY <2>5 DEF Files, FilesInv
    <3> HIDE DEF o
    <3>2. current'.active \subseteq current.active \cup o.active /\ o \in Files /\ o.from = log.of
      BY <2>5 DEF o
    <3>3. \A e \in kept : e.from \notin crossed' => e.active \cap current'.active = {}
      <4> SUFFICES ASSUME NEW e \in kept, e.from \notin crossed' PROVE e.active \cap current'.active = {}
        OBVIOUS
      <4>1. e \in Files /\ e.from \notin crossed /\ e # current /\ e # o
        BY <2>2, <2>5, <3>1, <3>2
      <4>2. e.active \cap current.active = {} /\ e.active \cap o.active = {}
        BY <3>1, <3>2, <4>1 DEF CredentialsInv
      <4> QED BY <3>2, <4>2
    <3>4. \A e, g \in Files' : e.from \notin crossed' /\ e # g => e.active \cap g.active = {}
      BY <2>1, <2>2, <2>5, <3>3 DEF CredentialsInv
    <3>5. \A e \in Files' : e.active \subseteq minted'
      BY <2>1, <2>2, <3>1, <3>2 DEF CredentialsInv
    <3>6. \A e \in Files' : e.from \notin crossed' => e.active \cap revoked' = {}
      BY <2>1, <2>2, <2>5 DEF CredentialsInv
    <3> QED BY <2>1, <3>4, <3>5, <3>6 DEF CredentialsInv, Present, IsRestoreAt
  <2> QED BY <1>6, <2>3, <2>4, <2>5, Opening
<1>7. ASSUME NEW isBack \in BOOLEAN, FailStart(isBack) PROVE CredentialsInv'
  BY <1>7, PuttingBack DEF CredentialsInv, Present, IsRestoreAt
<1>8. CASE Stage
  <2>1. restore'.step = "revoke" /\ Files' = Files /\ UNCHANGED <<pending, minted, revoked, crossed>>
    BY <1>1, <1>8 DEF Stage, Restores, Files, history
  <2> QED BY <2>1 DEF CredentialsInv, Present, IsRestoreAt
<1>9. CASE RevokeStaged
  <2>1. staging'.active = {} /\ Files' = Files /\ UNCHANGED <<pending, minted, revoked, crossed>>
    BY <1>9 DEF RevokeStaged, RestoreTypeOK, Database, Files, history
  <2> QED BY <2>1 DEF CredentialsInv, Present
<1>10. CASE RenameStaged
  <2>1. /\ restore'.step = "save" /\ Files' = Files /\ UNCHANGED <<minted, revoked, crossed>>
        /\ pending' = staging /\ staging # Gone /\ IsRestoreAt("rename")
    BY <1>1, <1>10 DEF RenameStaged, Restores, Files, IsRestoreAt, history
  <2> QED BY <2>1 DEF CredentialsInv, Present, IsRestoreAt
<1>11. CASE FailRestore
  <2>1. restore' = Gone /\ pending' = Gone /\ Files' = Files /\ UNCHANGED <<minted, revoked, crossed>>
    BY <1>11 DEF FailRestore, Files
  <2> QED BY <2>1 DEF CredentialsInv, Present, IsRestoreAt
<1> QED BY <1>2, <1>3, <1>4, <1>5, <1>6, <1>7, <1>8, <1>9, <1>10, <1>11, Kinds

LEMMA PlacesStart == RestoreInit => PlacesInv
<1> SUFFICES ASSUME RestoreInit PROVE PlacesInv
  OBVIOUS
<1> USE RestoreAssumption DEF RestoreInit
<1>1. current # Gone /\ Files = {current} /\ current.from = 0 /\ current.active = {} /\ current \in Database
  <2>1. current \in Database
    BY Bounds DEF Database
  <2> QED BY <2>1 DEF Files
<1>2. server \in Servers /\ server.file = 0
  BY Bounds DEF Servers
<1>3. FileTypes /\ RunTypes /\ CountTypes
  <2>1. log \in Commits /\ log.of = 0
    BY Bounds DEF Commits
  <2> QED BY <1>1, <1>2, <2>1, Bounds DEF FileTypes, RunTypes, CountTypes
<1>4. HistoryTypes
  BY DEF HistoryTypes
<1>5. FilesInv /\ CredentialsInv
  BY <1>1 DEF FilesInv, CredentialsInv, Present, Staged, Numbers, IsRestoreAt
<1>6. StagesInv /\ OpenInv /\ StartInv
  BY <1>1, <1>2 DEF StagesInv, OpenInv, StartInv, Numbers, IsUp, IsStartAt
<1> QED BY <1>3, <1>4, <1>5, <1>6, TypeParts DEF PlacesInv

LEMMA PlacesStep == PlacesInv /\ [RestoreNext]_restoreVars => PlacesInv'
<1> SUFFICES ASSUME PlacesInv, [RestoreNext]_restoreVars PROVE PlacesInv'
  OBVIOUS
<1>1. CASE RestoreNext
  <2>1. RestoreTypeOK' /\ FilesInv' /\ StagesInv'
    BY <1>1, TypesStep, FilesStep, StagesStep
  <2>2. OpenInv' /\ StartInv' /\ CredentialsInv'
    BY <1>1, OpenStep, StartStep, CredentialsStep
  <2> QED BY <2>1, <2>2 DEF PlacesInv
<1>2. CASE UNCHANGED restoreVars
  <2> USE <1>2 DEF restoreVars, files, runs, history
  <2>1. RestoreTypeOK'
    BY DEF PlacesInv, RestoreTypeOK
  <2>2. FilesInv' /\ StagesInv'
    BY DEF PlacesInv, FilesInv, StagesInv, Files, Staged, Present, Numbers
  <2>3. OpenInv' /\ StartInv' /\ CredentialsInv'
    BY DEF PlacesInv, OpenInv, StartInv, CredentialsInv, Files, Present, Numbers, IsUp, IsStartAt, IsRestoreAt
  <2> QED BY <2>1, <2>2, <2>3 DEF PlacesInv
<1> QED BY <1>1, <1>2

LEMMA PlacesInvariant == RestoreSpec => []PlacesInv
<1> QED BY PlacesStart, PlacesStep, PTL DEF RestoreSpec

--------------------------------------------------------------------------------
(***************************************************************************)
(* The theorems.                                                           *)
(***************************************************************************)
\* The files, the processes and the counters of backups and restores keep the shape that
\* src/src/backup-service.ts and the head of src/src/db.ts give them.
THEOREM RestoreTyping == RestoreSpec => []RestoreTypeOK
<1>1. PlacesInv => RestoreTypeOK
  BY DEF PlacesInv
<1> QED BY <1>1, PlacesInvariant, PTL

\* Whatever a killed restore or start leaves behind, the database in use accepts no
\* credential that was revoked, its pages being crossed with those of another one excepted:
\* those of a restored one are revoked before it gets the name that the next start looks
\* for (revokeStagedIngestionCredentials).
THEOREM RevokedStay == RestoreSpec => []RevokedCredentialsStayRevoked
<1>1. PlacesInv => RevokedCredentialsStayRevoked
  BY DEF PlacesInv, CredentialsInv, Files, RevokedCredentialsStayRevoked
<1> QED BY <1>1, PlacesInvariant, PTL

--------------------------------------------------------------------------------
(***************************************************************************)
(* Posts.                                                                  *)
(***************************************************************************)
FilePosts == UNION {d.posts : d \in Files}
BundlePosts == UNION {b.posts : b \in bundles}
LogPosts == IF log = Gone THEN {} ELSE log.posts
OpenPosts == IF IsUp THEN server.log ELSE {}

\* NothingElseIsLost, place by place.
PostsInv == delivered \subseteq FilePosts \cup BundlePosts \cup LogPosts \cup dropped \cup OpenPosts

LEMMA FilesGainPosts ==
  ASSUME PlacesInv, RestoreNext
  PROVE  FilePosts \subseteq FilePosts' \cup dropped'
<1> USE DEF PlacesInv
<1>1. CASE LeavesFiles \/ KeepPrior \/ Stage \/ RevokeStaged \/ RenameStaged \/ FailRestore
  <2>1. Files' = Files
    BY <1>1, Leaving DEF KeepPrior, Stage, RevokeStaged, RenameStaged, FailRestore, Files
  <2> QED BY <2>1 DEF FilePosts
<1>2. CASE WritesFile
  <2>1. PICK d \in Database :
          /\ server.file \in Numbers(Files) /\ d.from = server.file /\ Rewritten(server.file, d)
          /\ FileOf(server.file).posts \subseteq d.posts
    BY <1>2, Writing
  <2>2. Files' = (Files \ {FileOf(server.file)}) \cup {d}
    BY <2>1, Rewriting
  <2> QED BY <2>1, <2>2 DEF FilePosts
<1>3. CASE MoveStaged
  <2>1. Files \subseteq Files'
    BY <1>3 DEF MoveStaged, StartInv, IsStartAt, Files
  <2> QED BY <2>1 DEF FilePosts
<1>4. CASE Open
  <2>1. Files' = kept \cup {current'}
    BY <1>4, Opening DEF Starts
  <2>2. \A d \in Files : d \in kept \/ (current # Gone /\ d = current)
    BY DEF Files
  <2>3. current # Gone => current.posts \subseteq current'.posts
    BY <1>4, OpenKeeps
  <2> QED BY <2>1, <2>2, <2>3 DEF FilePosts
<1>5. CASE OpenCrossed
  <2>1. Files' = kept \cup {current'} /\ current.posts \subseteq dropped'
    BY <1>5, Opening DEF Starts, OpenCrossed
  <2>2. \A d \in Files : d \in kept \/ d = current
    BY DEF Files
  <2> QED BY <2>1, <2>2 DEF FilePosts
<1>6. ASSUME NEW isBack \in BOOLEAN, FailStart(isBack) PROVE FilePosts \subseteq FilePosts'
  BY <1>6, PuttingBack DEF FilePosts
<1> QED BY <1>1, <1>2, <1>3, <1>4, <1>5, <1>6, Kinds DEF Starts

LEMMA PostsStep ==
  ASSUME PlacesInv, PostsInv, RestoreNext
  PROVE  PostsInv'
<1> USE DEF PlacesInv
<1>1. FilePosts \subseteq FilePosts' \cup dropped'
  BY FilesGainPosts
<1>2. BundlePosts \subseteq BundlePosts'
  <2>1. bundles \subseteq bundles'
    BY DEF RestoreNext, Begin, Apply, KeepPrior, MoveStaged, ClearLog, Open, OpenCrossed, FailStart, TakeUp,
         RecordDelivery, Checkpoint, Stop, KillServer, KillOther, Mint, Revoke, SetCredentials, Backup, Stage,
         RevokeStaged, RenameStaged, SaveConfiguration, FailRestore
  <2> QED BY <2>1 DEF BundlePosts
<1>3. CASE ClearLog
  BY <1>1, <1>2, <1>3 DEF ClearLog, PostsInv, LogPosts, LeftCommits, OpenPosts, IsUp
<1>4. CASE RecordDelivery
  <2>1. server \in Servers /\ server.busy \in Post
    BY <1>4 DEF RecordDelivery, IsServing, IsUp, RestoreTypeOK, Servers
  <2>2. server'.log = server.log \cup {server.busy} /\ server' # Gone
    <3>1. server' \in Servers /\ server'.log = server.log \cup {server.busy}
      BY <1>4, <2>1 DEF RecordDelivery, Servers
    <3> QED BY <3>1, RestoreAssumption
  <2>3. /\ log' = log /\ dropped \subseteq dropped' /\ delivered' = delivered \cup {server.busy}
        /\ server # Gone
    BY <1>4 DEF RecordDelivery, files, IsServing, IsUp
  <2> QED BY <1>1, <1>2, <2>2, <2>3 DEF PostsInv, LogPosts, OpenPosts, IsUp
<1>5. CASE KillServer \/ PlainStop
  <2>1. IsUp /\ LeaveLog /\ ~IsUp' /\ UNCHANGED delivered
    BY <1>5 DEF KillServer, PlainStop, Stop, IsServing, IsUp
  <2>2. LogPosts \subseteq LogPosts' /\ dropped \subseteq dropped' /\ server.log \subseteq dropped' \cup LogPosts'
    BY <2>1, LeavingLog DEF LogPosts
  <2> QED BY <1>1, <1>2, <2>1, <2>2 DEF PostsInv, OpenPosts
<1>6. CASE WritesFile
  <2>1. PICK d \in Database :
          /\ IsUp /\ server.file \in Numbers(Files) /\ d.from = server.file /\ Rewritten(server.file, d)
          /\ UNCHANGED <<delivered, dropped>>
          /\ server.log \subseteq d.posts \/ server' = server
          /\ log' # log => LeftCommits \subseteq d.posts
    BY <1>6, Writing
  <2>2. Files' = (Files \ {FileOf(server.file)}) \cup {d}
    BY <2>1, Rewriting
  <2>3. OpenPosts \subseteq FilePosts' \cup OpenPosts'
    BY <2>1, <2>2 DEF OpenPosts, FilePosts, IsUp
  <2>4. LogPosts \subseteq LogPosts' \cup FilePosts'
    BY <2>1, <2>2 DEF LogPosts, LeftCommits, FilePosts
  <2> QED BY <1>1, <1>2, <2>1, <2>3, <2>4 DEF PostsInv
<1>7. CASE Open
  <2>1. current' \in Files'
    BY <1>7, Opening DEF Starts
  <2>2. LogPosts \subseteq FilePosts' \cup dropped' /\ dropped \subseteq dropped' /\ delivered' = delivered
    <3>1. CASE current = Gone
      BY <1>7, <3>1 DEF Open, LogPosts, LeftCommits
    <3>2. CASE current # Gone
      <4>1. LogPosts \subseteq current'.posts
        BY <1>7, <3>2, OpenKeeps DEF LogPosts, LeftCommits
      <4> QED BY <1>7, <3>2, <2>1, <4>1 DEF Open, FilePosts
    <3> QED BY <3>1, <3>2
  <2>3. OpenPosts \subseteq OpenPosts'
    <3>1. starting.who # "server" => server' = server
      BY <1>7 DEF Open, Opens
    <3>2. starting.who = "server" => ~IsUp
      BY <1>7 DEF Open, StartInv
    <3> QED BY <3>1, <3>2 DEF OpenPosts, IsUp
  <2> QED BY <1>1, <1>2, <2>2, <2>3 DEF PostsInv
<1>8. CASE OpenCrossed
  <2>1. LogPosts \subseteq dropped' /\ dropped \subseteq dropped' /\ delivered' = delivered
    BY <1>8 DEF OpenCrossed, LogPosts
  <2>2. OpenPosts \subseteq OpenPosts'
    <3>1. starting.who # "server" => server' = server
      BY <1>8 DEF OpenCrossed, Opens
    <3>2. starting.who = "server" => ~IsUp
      BY <1>8 DEF OpenCrossed, StartInv
    <3> QED BY <3>1, <3>2 DEF OpenPosts, IsUp
  <2> QED BY <1>1, <1>2, <2>1, <2>2 DEF PostsInv
<1>9. ASSUME NEW q \in Post, TakeUp(q) PROVE PostsInv'
  <2>1. server \in Servers /\ UNCHANGED <<log, delivered, dropped>>
    BY <1>9 DEF TakeUp, IsServing, IsUp, RestoreTypeOK, files, history
  <2>2. server' \in Servers /\ server'.log = server.log
    BY <1>9, <2>1 DEF TakeUp, Servers
  <2>3. OpenPosts' = OpenPosts
    BY <2>1, <2>2, RestoreAssumption DEF OpenPosts, IsUp
  <2> QED BY <1>1, <1>2, <2>1, <2>3 DEF PostsInv, LogPosts
<1>10. CASE \/ (\E who \in {"server", "cli"} : Begin(who) \/ \E b \in bundles : Apply(who, b))
            \/ KillOther \/ (\E d \in Files : Backup(d.from))
            \/ KeepPrior \/ MoveStaged \/ (\E isBack \in BOOLEAN : FailStart(isBack))
            \/ Stage \/ RevokeStaged \/ RenameStaged
  <2>1. UNCHANGED <<log, server, delivered, dropped>>
    BY <1>10 DEF Begin, Apply, KillOther, Backup, KeepPrior, MoveStaged, FailStart,
                Stage, RevokeStaged, RenameStaged, files, runs, history
  <2> QED BY <1>1, <1>2, <2>1 DEF PostsInv, LogPosts, OpenPosts, IsUp
<1>11. CASE SaveConfiguration \/ FailRestore
  <2>1. UNCHANGED <<server, delivered, dropped>> /\ EndOf(restore.who)
    BY <1>11 DEF SaveConfiguration, FailRestore, history
  <2>2. LogPosts' = LogPosts
    BY <2>1 DEF EndOf, LogPosts
  <2> QED BY <1>1, <1>2, <2>1, <2>2 DEF PostsInv, OpenPosts, IsUp
<1> QED BY <1>3, <1>4, <1>5, <1>6, <1>7, <1>8, <1>9, <1>10, <1>11, Stopping DEF RestoreNext, WritesFile

\* However starts and restores are cut short or repeated, a post that was recorded is in a
\* file that was kept, in the one in use, in a log or in a backup, unless a start deleted
\* the log it was in, or, killed between the exchange and that deletion, made the next start
\* replay the log of one database into another (src/src/db.ts:47-66).
THEOREM NothingIsLost == RestoreSpec => []NothingElseIsLost
<1>1. RestoreInit => PostsInv
  BY DEF RestoreInit, PostsInv
<1>2. PlacesInv /\ PostsInv /\ [RestoreNext]_restoreVars => PostsInv'
  <2>1. ASSUME PostsInv, UNCHANGED restoreVars PROVE PostsInv'
    BY <2>1 DEF restoreVars, files, runs, history, PostsInv, FilePosts, BundlePosts, LogPosts, OpenPosts, Files, IsUp
  <2> QED BY <2>1, PostsStep
<1>3. PlacesInv /\ PostsInv => NothingElseIsLost
  <2> SUFFICES ASSUME PlacesInv, PostsInv PROVE NothingElseIsLost
    OBVIOUS
  <2> DEFINE Kept == UNION {PostsIn(f) : f \in {current, log} \cup kept \cup bundles}
  <2>1. FilePosts \subseteq Kept
    <3> SUFFICES ASSUME NEW d \in Files PROVE d.posts \subseteq Kept
      BY DEF FilePosts
    <3>1. d # Gone /\ d \in {current, log} \cup kept \cup bundles
      BY FilesTyped, RestoreAssumption DEF PlacesInv, Files
    <3> QED BY <3>1 DEF PostsIn
  <2>2. BundlePosts \subseteq Kept
    <3> SUFFICES ASSUME NEW b \in bundles PROVE b.posts \subseteq Kept
      BY DEF BundlePosts
    <3>1. b # Gone
      BY RestoreAssumption DEF PlacesInv, RestoreTypeOK
    <3> QED BY <3>1 DEF PostsIn
  <2>3. LogPosts \subseteq Kept
    BY DEF LogPosts, PostsIn
  <2> HIDE DEF Kept
  <2>4. delivered \subseteq Kept \cup dropped \cup OpenPosts
    BY <2>1, <2>2, <2>3 DEF PostsInv
  <2>5. NothingElseIsLost <=> delivered \subseteq Kept \cup dropped \cup (IF IsUp THEN server.log ELSE {})
    BY Zenon DEF Kept, NothingElseIsLost
  <2> QED BY <2>4, <2>5 DEF OpenPosts
<1> QED BY <1>1, <1>2, <1>3, PlacesInvariant, PTL DEF RestoreSpec

--------------------------------------------------------------------------------
(***************************************************************************)
(* The configuration and its database.                                     *)
(***************************************************************************)
\* The restore that wrote config.json, or is about to.
Latest == IF IsRestoreAt("save") THEN restore.number ELSE config

\* Restores follow one another.
RestoresInv ==
  /\ config <= attempts
  /\ restore # Gone => restore.number >= config /\ (restore.step # "save" => restore.number > config)

\* What the next start opens is not older than the configuration.
OrderInv ==
  ~abandoned =>
    /\ pending = Gone => current # Gone /\ current.from >= Latest
    /\ pending # Gone => pending.from >= Latest
    /\ restore # Gone /\ ~restore.displaces =>
         /\ current # Gone => current.from >= config
         /\ IsStartAt("move") /\ starting.prior # Gone => starting.prior >= config
    /\ IsStartAt("open") \/ IsStartAt("clear") => current # Gone
    /\ IsStartAt("keep") \/ IsStartAt("move") => pending # Gone

\* Everything the two compare is a number.
LEMMA Comparable ==
  ASSUME PlacesInv
  PROVE  /\ config \in Nat /\ attempts \in Nat
         /\ current # Gone => current.from \in Nat
         /\ pending # Gone => pending.from \in Nat
         /\ restore # Gone => restore \in Restores /\ restore.number \in Nat
         /\ starting # Gone => starting \in StartUps
         /\ starting # Gone /\ starting.prior # Gone => starting.prior \in Nat
  BY DEF PlacesInv, RestoreTypeOK, Database, Restores, StartUps

LEMMA RestoresStep ==
  ASSUME PlacesInv, RestoresInv, RestoreNext
  PROVE  RestoresInv'
<1>1. config \in Nat /\ attempts \in Nat /\ (restore # Gone => restore \in Restores /\ restore.number \in Nat)
  BY Comparable
<1>2. CASE SaveConfiguration
  BY <1>1, <1>2 DEF SaveConfiguration, PlacesInv, StagesInv, RestoresInv
<1>3. CASE Stage \/ RevokeStaged \/ RenameStaged
  <2>1. restore'.number = restore.number /\ restore'.step # "stage" /\ restore.step # "save" /\ restore # Gone
    BY <1>1, <1>3 DEF Stage, RevokeStaged, RenameStaged, Restores
  <2>2. UNCHANGED <<config, attempts>>
    BY <1>3 DEF Stage, RevokeStaged, RenameStaged
  <2> QED BY <1>1, <2>1, <2>2 DEF RestoresInv
<1>4. ASSUME NEW who \in {"server", "cli"}, NEW b \in bundles, Apply(who, b) PROVE RestoresInv'
  <2>1. /\ restore'.number = attempts + 1 /\ restore'.step = "stage" /\ attempts' = attempts + 1 /\ config' = config
    BY <1>4 DEF Apply
  <2> QED BY <1>1, <2>1 DEF RestoresInv
<1>5. CASE \/ (\E who \in {"server", "cli"} : Begin(who)) \/ KeepPrior \/ MoveStaged \/ ClearLog \/ Open \/ OpenCrossed
           \/ (\E isBack \in BOOLEAN : FailStart(isBack)) \/ (\E q \in Post : TakeUp(q)) \/ RecordDelivery
           \/ Checkpoint \/ Stop \/ KillServer \/ KillOther \/ (\E c \in Credentials : Mint(c) \/ Revoke(c))
           \/ (\E d \in Files : Backup(d.from)) \/ FailRestore
  <2>1. config' = config /\ attempts' \in {attempts, attempts + 1} /\ restore' \in {restore, Gone}
    BY <1>5 DEF Begin, KeepPrior, MoveStaged, ClearLog, Open, OpenCrossed, FailStart, TakeUp, RecordDelivery,
                Checkpoint, Stop, KillServer, KillOther, Mint, Revoke, SetCredentials, Backup, FailRestore, runs, MayFail
  <2> QED BY <1>1, <2>1 DEF RestoresInv
<1> QED BY <1>2, <1>3, <1>4, <1>5 DEF RestoreNext

LEMMA OrderStep ==
  ASSUME PlacesInv, RestoresInv, OrderInv, RestoreNext
  PROVE  OrderInv'
<1> USE DEF Latest
<1>1. /\ config \in Nat /\ attempts \in Nat
      /\ current # Gone => current.from \in Nat
      /\ pending # Gone => pending.from \in Nat
      /\ restore # Gone => restore \in Restores /\ restore.number \in Nat
      /\ starting # Gone => starting \in StartUps
      /\ starting # Gone /\ starting.prior # Gone => starting.prior \in Nat
  BY Comparable
<1>2. ASSUME NEW who \in {"server", "cli"}, Begin(who) PROVE OrderInv'
  <2>1. /\ UNCHANGED <<current, pending, restore, config, abandoned>>
        /\ starting'.step = IF pending # Gone THEN "keep" ELSE "open"
    BY <1>2 DEF Begin, files, history, IsRestartRequired
  <2> QED BY <2>1 DEF OrderInv, IsStartAt, IsRestoreAt
<1>3. ASSUME NEW who \in {"server", "cli"}, NEW b \in bundles, Apply(who, b) PROVE OrderInv'
  <2>1. /\ UNCHANGED <<current, pending, starting, config, abandoned>>
        /\ restore = Gone /\ restore'.step = "stage" /\ restore'.displaces = (pending # Gone)
    BY <1>3 DEF Apply, files, history, IsRestartRequired
  <2> QED BY <2>1 DEF OrderInv, IsStartAt, IsRestoreAt
<1>4. CASE KeepPrior
  <2>1. /\ UNCHANGED <<pending, restore, config, abandoned>> /\ IsStartAt("keep") /\ current' = Gone
        /\ starting'.step = "move" /\ starting'.prior = IF current = Gone THEN Gone ELSE current.from
    BY <1>1, <1>4 DEF KeepPrior, history, IsStartAt, StartUps
  <2> QED BY <2>1 DEF OrderInv, IsStartAt, IsRestoreAt
<1>5. CASE MoveStaged
  <2>1. /\ UNCHANGED <<restore, config, abandoned>> /\ pending # Gone /\ current' = pending /\ pending' = Gone
        /\ starting'.step = "clear"
    BY <1>1, <1>5 DEF MoveStaged, history, StartUps, IsRestartRequired
  <2> QED BY <1>1, <2>1 DEF OrderInv, IsStartAt, IsRestoreAt, RestoresInv
<1>6. CASE ClearLog
  <2>1. /\ UNCHANGED <<current, pending, restore, config, abandoned>> /\ IsStartAt("clear")
        /\ starting'.step = "open"
    BY <1>1, <1>6 DEF ClearLog, IsStartAt, StartUps
  <2> QED BY <2>1 DEF OrderInv, IsStartAt, IsRestoreAt
<1>7. CASE Starts
  <2>1. UNCHANGED <<pending, restore, config, abandoned>> /\ IsStartAt("open") /\ starting' = Gone
    BY <1>7 DEF Starts, Open, OpenCrossed, IsStartAt
  <2>2. current' # Gone /\ (current # Gone => current'.from = current.from)
    BY <1>7, Opening
  <2> QED BY <2>1, <2>2 DEF OrderInv, IsStartAt, IsRestoreAt
<1>8. ASSUME NEW isBack \in BOOLEAN, FailStart(isBack) PROVE OrderInv'
  <2>1. /\ UNCHANGED <<pending, restore, config, abandoned>> /\ starting' = Gone
        /\ \/ current' = current
           \/ IsStartAt("move") /\ current' # Gone /\ current'.from = starting.prior /\ starting.prior # Gone
    <3>1. CASE current' = current
      BY <1>8, <3>1, PuttingBack
    <3>2. CASE current' # current
      <4>1. IsStartAt("move") /\ starting.prior \in Numbers(kept) /\ current'.from = starting.prior /\ current' \in Files
        BY <1>8, <3>2, PuttingBack, FileFound DEF Numbers, Files
      <4>2. current' # Gone /\ starting.prior # Gone
        BY <4>1, FilesTyped, RestoreAssumption DEF PlacesInv, RestoreTypeOK, Numbers, Database
      <4> QED BY <1>8, <4>1, <4>2, PuttingBack
    <3> QED BY <3>1, <3>2
  <2> QED BY <2>1 DEF OrderInv, IsStartAt, IsRestoreAt
<1>9. CASE WritesFile
  <2>1. PICK d \in Database :
          /\ server.file \in Numbers(Files) /\ d.from = server.file /\ Rewritten(server.file, d)
          /\ UNCHANGED <<pending, starting, restore, config, abandoned>>
    BY <1>9, Writing
  <2>2. (current' = Gone <=> current = Gone) /\ (current # Gone => current'.from = current.from)
    BY <2>1, Rewriting DEF PlacesInv
  <2> QED BY <2>1, <2>2 DEF OrderInv, IsStartAt, IsRestoreAt
<1>10. CASE Stage \/ RevokeStaged
  <2>1. /\ UNCHANGED <<current, pending, starting, config, abandoned>> /\ restore # Gone
        /\ ~IsRestoreAt("save") /\ ~IsRestoreAt("save")' /\ restore'.displaces = restore.displaces
    BY <1>1, <1>10 DEF Stage, RevokeStaged, history, IsRestoreAt, Restores
  <2> QED BY <2>1 DEF OrderInv, IsStartAt
<1>11. CASE RenameStaged
  <2>1. /\ UNCHANGED <<current, starting, config, abandoned>> /\ IsRestoreAt("rename")
        /\ staging # Gone /\ pending' = staging /\ staging.from = restore.number
        /\ restore'.displaces = restore.displaces /\ restore'.number = restore.number /\ restore'.step = "save"
    BY <1>1, <1>11 DEF RenameStaged, history, IsRestoreAt, Restores, PlacesInv, StagesInv, Present
  <2> QED BY <1>1, <2>1 DEF OrderInv, IsStartAt, IsRestoreAt, RestoresInv
<1>12. CASE SaveConfiguration
  <2>1. /\ UNCHANGED <<current, pending, starting, abandoned>> /\ IsRestoreAt("save") /\ restore' = Gone
        /\ config' = restore.number
    BY <1>12 DEF SaveConfiguration, files, history, IsRestoreAt
  <2> QED BY <2>1 DEF OrderInv, IsStartAt, IsRestoreAt
<1>13. CASE FailRestore
  <2>1. /\ UNCHANGED <<current, starting, config>> /\ restore # Gone /\ restore' = Gone /\ pending' = Gone
        /\ ~abandoned' => ~abandoned /\ ~restore.displaces /\ current # Gone /\ starting = Gone
    BY <1>13 DEF FailRestore
  <2> QED BY <2>1 DEF OrderInv, IsStartAt, IsRestoreAt
<1>14. CASE \/ (\E q \in Post : TakeUp(q)) \/ RecordDelivery \/ PlainStop \/ KillServer
            \/ KillOther \/ (\E d \in Files : Backup(d.from))
  <2>1. /\ UNCHANGED <<current, pending, config, abandoned>>
        /\ restore' \in {restore, Gone} /\ starting' \in {starting, Gone}
    BY <1>14 DEF TakeUp, RecordDelivery, PlainStop, Stop, KillServer, KillOther, Backup, files, history, runs
  <2> QED BY <1>1, <2>1 DEF OrderInv, IsStartAt, IsRestoreAt, RestoresInv
<1> QED BY <1>2, <1>3, <1>4, <1>5, <1>6, <1>7, <1>8, <1>9, <1>10, <1>11, <1>12, <1>13, <1>14,
          Stopping DEF RestoreNext, WritesFile, Starts

\* A server that opens its database under the configuration of a restore finds that of the
\* restore or of a later one, or still waits for a restart: the database is staged before
\* config.json is written (src/src/backup-service.ts), and a start brings the exchange to
\* its end, whatever was killed before it; only of a start that finds the log of another
\* database nothing is said.
THEOREM ConfigurationFollows == RestoreSpec => ConfigurationIsNotAhead
<1> DEFINE Inv == PlacesInv /\ RestoresInv /\ OrderInv
<1>1. RestoreInit => Inv
  <2> SUFFICES ASSUME RestoreInit PROVE RestoresInv /\ OrderInv
    BY PlacesStart
  <2>1. current # Gone /\ current.from = 0
    BY PlacesStart, RestoreAssumption DEF RestoreInit, PlacesInv, OpenInv, IsUp, Numbers, Files
  <2> QED BY <2>1 DEF RestoreInit, RestoresInv, OrderInv, Latest, IsRestoreAt, IsStartAt
<1>2. Inv /\ [RestoreNext]_restoreVars => Inv'
  <2> SUFFICES ASSUME Inv, [RestoreNext]_restoreVars PROVE RestoresInv' /\ OrderInv'
    BY PlacesStep
  <2>1. CASE UNCHANGED restoreVars
    BY <2>1 DEF restoreVars, files, runs, history, RestoresInv, OrderInv, Latest, IsRestoreAt, IsStartAt
  <2> QED BY <2>1, RestoresStep, OrderStep
<1>3. Inv /\ [RestoreNext]_restoreVars
      => [Open /\ starting.who = "server" /\ ~abandoned =>
            current # Gone /\ (server'.file >= config \/ IsRestartRequired)]_restoreVars
  <2> SUFFICES ASSUME Inv, Open, starting.who = "server", ~abandoned
               PROVE  current # Gone /\ (server'.file >= config \/ IsRestartRequired)
    OBVIOUS
  <2>1. current # Gone
    BY DEF OrderInv, IsStartAt, Open
  <2>2. server'.file = current.from
    BY <2>1, OpenKeeps DEF Open, Opens, PlacesInv
  <2>3. pending = Gone => current.from >= config
    BY <2>1, Comparable DEF OrderInv, Latest, RestoresInv, IsRestoreAt
  <2> QED BY <2>1, <2>2, <2>3 DEF IsRestartRequired
<1>4. RestoreSpec => []Inv
  BY <1>1, <1>2, PTL DEF RestoreSpec
<1> QED BY <1>3, <1>4, PTL DEF RestoreSpec, ConfigurationIsNotAhead
================================================================================
