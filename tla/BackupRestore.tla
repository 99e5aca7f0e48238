------------------------------ MODULE BackupRestore ------------------------------
(***************************************************************************)
(* Backups, restores and the exchange of the database at the next start:   *)
(* src/src/backup-service.ts with its router and commands, the head of     *)
(* src/src/db.ts, and the places where the server and its workers wait     *)
(* for the restart.                                                        *)
(*                                                                         *)
(* A database is known by the restore it comes from, 0 being the first.    *)
(* Everything in it but posts delivered and ingestion credentials is left  *)
(* out, and so is everything in config.json but the restore that wrote it. *)
(* Commits of a running server are in its write-ahead log until they are   *)
(* checkpointed.  The log is found by its name alone: a start that finds   *)
(* the log of another database than the one at its place writes pages of   *)
(* the one into the other, and the two are then crossed: nothing is        *)
(* promised of what they held, or later take.                              *)
(* A start, and a restore, run without an await, but other processes run   *)
(* in between and a kill may come at any time.                             *)
(***************************************************************************)
EXTENDS Naturals, FiniteSets

CONSTANTS Credentials,    \* ingestion credentials
          Gone,           \* no file, no process
          MaxPosts, MaxRestores, MaxBackups, MaxBreaks   \* bounds

Post == 1 .. MaxPosts
Content == [active : SUBSET Credentials, posts : SUBSET Post]
Database == [from : 0 .. MaxRestores, active : SUBSET Credentials, posts : SUBSET Post]
Commits == [of : 0 .. MaxRestores, posts : SUBSET Post]
Servers == [file : 0 .. MaxRestores, log : SUBSET Post, busy : Post \cup {0}]
StartUps == [who : {"server", "cli"}, step : {"keep", "move", "clear", "open"}, prior : 0 .. MaxRestores \cup {Gone}]
Restores == [who : {"server", "cli"}, number : 1 .. MaxRestores, content : Content, displaces : BOOLEAN,
             step : {"stage", "revoke", "rename", "save"}]

ASSUME RestoreAssumption ==
  /\ Gone \notin Nat \cup Content \cup Database \cup Commits \cup Servers \cup StartUps \cup Restores
  /\ {MaxPosts, MaxRestores, MaxBackups, MaxBreaks} \subseteq Nat

VARIABLES current,    \* database.sqlite
          log,        \* database.sqlite-wal: the database it is of, the commits of processes that are gone
          pending,    \* database.restore-pending.sqlite
          staging,    \* the same with .tmp
          kept,       \* database.sqlite.pre-restore-*.bak
          bundles,    \* backups in the hands of the operator, and pre-restore backups
          config,     \* the restore that wrote config.json
          server,     \* the server: the database it has open, the commits in its log, the post under way
          cli,        \* a command at its password prompt: the database it has open
          starting,   \* the start of a process
          restore,    \* the restore being applied
          minted, revoked, delivered,   \* history: credentials, posts
          dropped,    \* history: commits in logs that a start deleted, and what crossed databases held
          crossed,    \* history: databases of which the log of one was replayed into the other
          abandoned,  \* history: a failed restore deleted what another one, or a start, had in hand
          attempts, faults

files == <<current, log, pending, staging, kept>>
runs == <<server, cli, starting, restore>>
history == <<minted, revoked, delivered, dropped, crossed, abandoned>>
restoreVars == <<files, bundles, config, runs, history, attempts, faults>>
--------------------------------------------------------------------------------
RestoreTypeOK ==
  /\ current \in Database \cup {Gone} /\ pending \in Database \cup {Gone} /\ staging \in Database \cup {Gone}
  /\ log \in Commits \cup {Gone} /\ kept \subseteq Database /\ bundles \subseteq Content
  /\ config \in 0 .. MaxRestores /\ server \in Servers \cup {Gone} /\ cli \in 0 .. MaxRestores \cup {Gone}
  /\ starting \in StartUps \cup {Gone} /\ restore \in Restores \cup {Gone}
  /\ minted \subseteq Credentials /\ revoked \subseteq minted /\ delivered \subseteq Post /\ dropped \subseteq Post
  /\ crossed \subseteq 0 .. MaxRestores /\ abandoned \in BOOLEAN
  /\ attempts \in 0 .. MaxRestores /\ faults \in 0 .. MaxBreaks
--------------------------------------------------------------------------------
IsUp == server # Gone
MayFail == faults < MaxBreaks /\ faults' = faults + 1 /\ UNCHANGED attempts

\* isRestoreRestartRequired().
IsRestartRequired == pending # Gone

\* Where an open database is found: its file may have been renamed under the process.
Files == (IF current = Gone THEN {} ELSE {current}) \cup kept
FileOf(n) == CHOOSE d \in Files : d.from = n
IsAtItsPlace(n) == current # Gone /\ current.from = n
Rewritten(n, d) ==
  IF IsAtItsPlace(n) THEN current' = d /\ UNCHANGED kept ELSE kept' = (kept \ {FileOf(n)}) \cup {d} /\ UNCHANGED current

\* The log at its place, which the server writes to unless a start has deleted it.
IsLogOf(n) == log # Gone /\ log.of = n
LeftCommits == IF log = Gone THEN {} ELSE log.posts
IsForeignLog == current # Gone /\ log # Gone /\ log.of # current.from

\* What a reader of an open database sees: VACUUM INTO reads the log too.
Snapshot(n) ==
  [active |-> FileOf(n).active,
   posts |-> FileOf(n).posts \cup (IF IsUp /\ server.file = n THEN server.log ELSE {})
                             \cup IF IsLogOf(n) THEN LeftCommits ELSE {}]

\* What serves runs, and a handler of the server is not inside a restore.
IsServing == IsUp /\ (restore # Gone => restore.who # "server")
--------------------------------------------------------------------------------
RestoreInit ==
  /\ current = [from |-> 0, active |-> {}, posts |-> {}] /\ log = [of |-> 0, posts |-> {}]
  /\ pending = Gone /\ staging = Gone
  /\ kept = {} /\ bundles = {} /\ config = 0
  /\ server = [file |-> 0, log |-> {}, busy |-> 0] /\ cli = Gone /\ starting = Gone /\ restore = Gone
  /\ minted = {} /\ revoked = {} /\ delivered = {} /\ dropped = {} /\ crossed = {} /\ abandoned = FALSE
  /\ attempts = 0 /\ faults = 0

(***************************************************************************)
(* A process starts: db.ts is loaded before anything else of it.           *)
(***************************************************************************)
Begin(who) ==
  /\ starting = Gone /\ IF who = "server" THEN ~IsUp ELSE cli = Gone
  /\ starting' = [who |-> who, step |-> IF IsRestartRequired THEN "keep" ELSE "open", prior |-> Gone]
  /\ UNCHANGED <<files, bundles, config, server, cli, restore, history, attempts, faults>>

KeepPrior ==
  /\ starting # Gone /\ starting.step = "keep"
  /\ starting' = [starting EXCEPT !.step = "move", !.prior = IF current = Gone THEN Gone ELSE current.from]
  /\ kept' = Files /\ current' = Gone
  /\ UNCHANGED <<log, pending, staging, bundles, config, server, cli, restore, history, attempts, faults>>

MoveStaged ==
  /\ starting # Gone /\ starting.step = "move" /\ IsRestartRequired
  /\ current' = pending /\ pending' = Gone /\ starting' = [starting EXCEPT !.step = "clear"]
  /\ UNCHANGED <<log, staging, kept, bundles, config, server, cli, restore, history, attempts, faults>>

\* Eight attempts fail: the prior database goes back, if that succeeds, and the start is over.
FailStart(isBack) ==
  /\ starting # Gone /\ starting' = Gone
  /\ \/ starting.step \in {"keep", "move"} /\ MayFail
     \/ starting.step = "move" /\ ~IsRestartRequired /\ UNCHANGED <<attempts, faults>>
  /\ IF starting.prior # Gone /\ isBack
     THEN current' = FileOf(starting.prior) /\ kept' = kept \ {FileOf(starting.prior)}
     ELSE UNCHANGED <<current, kept>>
  /\ UNCHANGED <<log, pending, staging, bundles, config, server, cli, restore, history>>

ClearLog ==
  /\ starting # Gone /\ starting.step = "clear" /\ starting' = [starting EXCEPT !.step = "open"]
  /\ dropped' = dropped \cup LeftCommits /\ log' = Gone
  /\ UNCHANGED <<current, pending, staging, kept, bundles, config, server, cli, restore,
                 minted, revoked, delivered, crossed, abandoned, attempts, faults>>

\* A process has opened database n, or was not able to.
Opens(n) ==
  IF starting.who = "server" THEN server' = [file |-> n, log |-> {}, busy |-> 0] /\ UNCHANGED cli
  ELSE cli' = n /\ UNCHANGED server

\* A mutation: every start deletes the log.
OpenWithoutLog ==
  LET d == IF current = Gone THEN [from |-> attempts + 1, active |-> {}, posts |-> {}] ELSE current IN
  /\ starting # Gone /\ starting.step = "open" /\ ~IsForeignLog /\ starting' = Gone
  /\ current' = d /\ log' = [of |-> d.from, posts |-> {}] /\ Opens(d.from)
  /\ attempts' = (IF current = Gone THEN attempts + 1 ELSE attempts) /\ attempts' <= MaxRestores
  /\ UNCHANGED <<pending, staging, kept, bundles, config, restore, history, faults>>

\* SQLite replays the log it finds beside a database.  Where there is no database it makes
\* one, and deletes the log.
Open ==
  /\ starting # Gone /\ starting.step = "open" /\ ~IsForeignLog /\ starting' = Gone
  /\ IF current = Gone
     THEN /\ current' = [from |-> attempts + 1, active |-> {}, posts |-> {}]
          /\ attempts' = attempts + 1 /\ attempts' <= MaxRestores /\ dropped' = dropped \cup LeftCommits
     ELSE /\ current' = [current EXCEPT !.posts = @ \cup LeftCommits] /\ UNCHANGED <<attempts, dropped>>
  /\ log' = [of |-> current'.from, posts |-> {}] /\ Opens(current'.from)
  /\ UNCHANGED <<pending, staging, kept, bundles, config, restore, minted, revoked, delivered, crossed, abandoned,
                 faults>>

\* Nothing tells it that the log is of another database.  What comes of it may be anything
\* that the two held, or a file that cannot be read.
OpenCrossed ==
  LET other == FileOf(log.of) IN
  /\ starting # Gone /\ starting.step = "open" /\ IsForeignLog /\ starting' = Gone
  /\ \E active \in SUBSET (current.active \cup other.active),
        posts \in SUBSET (current.posts \cup other.posts \cup log.posts) :
       current' = [from |-> current.from, active |-> active, posts |-> posts]
  /\ log' = [of |-> current.from, posts |-> {}] /\ (Opens(current.from) \/ UNCHANGED <<server, cli>>)
  /\ crossed' = crossed \cup {current.from, log.of}
  /\ dropped' = dropped \cup current.posts \cup other.posts \cup log.posts
                        \cup IF IsUp /\ server.file = log.of THEN server.log ELSE {}
  /\ UNCHANGED <<pending, staging, kept, bundles, config, restore, minted, revoked, delivered, abandoned,
                 attempts, faults>>

(***************************************************************************)
(* The server and its workers.                                             *)
(***************************************************************************)
\* A batch, a digest, a sweep, a pin sync or a backfill is taken up.
TakeUp(q) ==
  /\ IsServing /\ ~IsRestartRequired /\ server.busy = 0 /\ q \notin delivered
  /\ server' = [server EXCEPT !.busy = q]
  /\ UNCHANGED <<files, bundles, config, cli, starting, restore, history, attempts, faults>>

\* What was taken up is recorded, a restart being required or not.
RecordDelivery ==
  /\ IsServing /\ server.busy # 0 /\ server' = [server EXCEPT !.log = @ \cup {server.busy}, !.busy = 0]
  /\ delivered' = delivered \cup {server.busy}
  /\ dropped' = dropped \cup IF server.file \in crossed THEN {server.busy} ELSE {}
  /\ UNCHANGED <<files, bundles, config, cli, starting, restore, minted, revoked, crossed, abandoned, attempts, faults>>

Checkpointed(n) ==
  [FileOf(n) EXCEPT !.posts = @ \cup server.log \cup IF IsLogOf(n) THEN LeftCommits ELSE {}]

Checkpoint ==
  /\ IsServing /\ server.log # {} /\ server' = [server EXCEPT !.log = {}]
  /\ Rewritten(server.file, Checkpointed(server.file))
  /\ UNCHANGED <<log, pending, staging, bundles, config, cli, starting, restore, history, attempts, faults>>

\* What the server leaves in its log when it is gone, unless a start has deleted that log.
LeaveLog ==
  IF IsLogOf(server.file) THEN log' = [log EXCEPT !.posts = @ \cup server.log] /\ UNCHANGED dropped
  ELSE dropped' = dropped \cup server.log /\ UNCHANGED log

\* The runtime closes the database or not; a file that was renamed is closed as it is.
Stop ==
  /\ IsServing /\ server' = Gone
  /\ \/ /\ IsAtItsPlace(server.file) /\ IsLogOf(server.file) /\ Rewritten(server.file, Checkpointed(server.file))
        /\ log' = (IF cli = server.file THEN log ELSE Gone) /\ UNCHANGED dropped
     \/ LeaveLog /\ UNCHANGED <<current, kept>>
  /\ UNCHANGED <<pending, staging, bundles, config, cli, starting, restore, minted, revoked, delivered, crossed,
                 abandoned, attempts, faults>>

KillServer ==
  /\ IsUp /\ MayFail /\ server' = Gone /\ LeaveLog
  /\ restore' = IF restore # Gone /\ restore.who = "server" THEN Gone ELSE restore
  /\ UNCHANGED <<current, pending, staging, kept, bundles, config, cli, starting, minted, revoked, delivered, crossed,
                 abandoned>>

KillOther ==
  /\ MayFail /\ (starting # Gone \/ cli # Gone)
  /\ starting' = Gone /\ cli' = Gone /\ restore' = IF restore # Gone /\ restore.who = "cli" THEN Gone ELSE restore
  /\ UNCHANGED <<files, bundles, config, server, history>>

\* Credentials are made and revoked by handlers, which the middleware refuses.
SetCredentials(active) ==
  /\ IsServing /\ ~IsRestartRequired
  /\ Rewritten(server.file, [FileOf(server.file) EXCEPT !.active = active])
  /\ UNCHANGED <<log, pending, staging, bundles, config, runs, delivered, dropped, crossed, abandoned,
                 attempts, faults>>

Mint(c) ==
  /\ IsServing /\ c \notin minted /\ minted' = minted \cup {c} /\ UNCHANGED revoked
  /\ SetCredentials(FileOf(server.file).active \cup {c})

Revoke(c) ==
  /\ IsServing /\ c \in FileOf(server.file).active /\ revoked' = revoked \cup {c} /\ UNCHANGED minted
  /\ SetCredentials(FileOf(server.file).active \ {c})

(***************************************************************************)
(* Backups and restores.                                                   *)
(***************************************************************************)
\* createBackupBundle(), from POST /api/backup/create or the backup command.
Backup(n) ==
  /\ Cardinality(bundles) < MaxBackups /\ bundles' = bundles \cup {Snapshot(n)}
  /\ \/ IsServing /\ ~IsRestartRequired /\ n = server.file
     \/ cli = n /\ restore = Gone
  /\ UNCHANGED <<files, config, runs, history, attempts, faults>>

\* applyRestoreBundle() after validation: the pre-restore backup.
Apply(who, b) ==
  LET n == IF who = "server" THEN server.file ELSE cli
      number == attempts + 1 IN
  /\ restore = Gone /\ b \in bundles /\ number <= MaxRestores /\ attempts' = number
  /\ IF who = "server" THEN IsUp /\ ~IsRestartRequired ELSE cli # Gone
  /\ bundles' = bundles \cup {Snapshot(n)}
  /\ restore' = [who |-> who, number |-> number, content |-> b, step |-> "stage", displaces |-> IsRestartRequired]
  /\ UNCHANGED <<files, config, server, cli, starting, history, faults>>

\* A mutation: the database is staged under the name the next start looks for.
StageInPlace ==
  /\ restore # Gone /\ restore.step = "stage" /\ staging = Gone
  /\ pending' = [from |-> restore.number, active |-> restore.content.active, posts |-> restore.content.posts]
  /\ staging' = pending' /\ restore' = [restore EXCEPT !.step = "revoke"]
  /\ UNCHANGED <<current, log, kept, bundles, config, server, cli, starting, history, attempts, faults>>

Stage ==
  /\ restore # Gone /\ restore.step = "stage" /\ staging = Gone
  /\ staging' = [from |-> restore.number, active |-> restore.content.active, posts |-> restore.content.posts]
  /\ restore' = [restore EXCEPT !.step = "revoke"]
  /\ UNCHANGED <<current, log, pending, kept, bundles, config, server, cli, starting, history, attempts, faults>>

\* revokeStagedIngestionCredentials().
RevokeStaged ==
  /\ restore # Gone /\ restore.step = "revoke" /\ staging # Gone
  /\ staging' = [staging EXCEPT !.active = {}] /\ restore' = [restore EXCEPT !.step = "rename"]
  /\ UNCHANGED <<current, log, pending, kept, bundles, config, server, cli, starting, history, attempts, faults>>

\* A mutation: the configuration is saved before the last thing that may fail.
RenameAndSave ==
  /\ restore # Gone /\ restore.step = "rename" /\ staging # Gone
  /\ pending' = staging /\ staging' = Gone /\ restore' = [restore EXCEPT !.step = "save"] /\ config' = restore.number
  /\ UNCHANGED <<current, log, kept, bundles, server, cli, starting, history, attempts, faults>>

RenameStaged ==
  /\ restore # Gone /\ restore.step = "rename" /\ staging # Gone
  /\ pending' = staging /\ staging' = Gone /\ restore' = [restore EXCEPT !.step = "save"]
  /\ UNCHANGED <<current, log, kept, bundles, config, server, cli, starting, history, attempts, faults>>

\* A command that ends closes the database it has for itself, and its log is deleted, or not.
EndOf(who) ==
  IF who = "server" THEN UNCHANGED <<cli, log>>
  ELSE /\ cli' = Gone
       /\ \/ UNCHANGED log
          \/ IsLogOf(cli) /\ log.posts = {} /\ IsAtItsPlace(cli) /\ ~(IsUp /\ server.file = cli) /\ log' = Gone

\* saveCanonicalConfig(), and the command or the request ends.
SaveConfiguration ==
  /\ restore # Gone /\ restore.step = "save" /\ config' = restore.number /\ restore' = Gone /\ EndOf(restore.who)
  /\ UNCHANGED <<current, pending, staging, kept, bundles, server, starting, history, attempts, faults>>

\* Anything in between throws, a leftover in the place of the staged file included.
FailRestore ==
  /\ restore # Gone /\ \/ restore.step = "stage" /\ staging # Gone /\ UNCHANGED <<attempts, faults>>
                       \/ MayFail
  /\ staging' = Gone /\ pending' = Gone /\ restore' = Gone /\ EndOf(restore.who)
  /\ abandoned' = (abandoned \/ restore.displaces \/ current = Gone \/ starting # Gone)
  /\ UNCHANGED <<current, kept, bundles, config, server, starting, minted, revoked, delivered, dropped, crossed>>

RestoreNext ==
  \/ \E who \in {"server", "cli"} : Begin(who) \/ \E b \in bundles : Apply(who, b)
  \/ KeepPrior \/ MoveStaged \/ ClearLog \/ Open \/ OpenCrossed \/ \E isBack \in BOOLEAN : FailStart(isBack)
  \/ \E q \in Post : TakeUp(q)
  \/ RecordDelivery \/ Checkpoint \/ Stop \/ KillServer \/ KillOther
  \/ \E c \in Credentials : Mint(c) \/ Revoke(c)
  \/ \E d \in Files : Backup(d.from)
  \/ Stage \/ RevokeStaged \/ RenameStaged \/ SaveConfiguration \/ FailRestore

RestoreSpec == RestoreInit /\ [][RestoreNext]_restoreVars
--------------------------------------------------------------------------------
PostsIn(f) == IF f = Gone THEN {} ELSE f.posts

\* However starts and restores are cut short or repeated, what a database was written
\* is in the one in use, in one that was kept, in a backup or in a log that is still there,
\* with two exceptions that the code at src/src/db.ts:47-66 makes: the commits in a log that
\* a start deletes, and whatever two databases hold of which a start, killed between the
\* exchange (line 51) and the deletion of the log (line 52), lets the log of one be replayed
\* into the other.
NothingElseIsLost ==
  delivered \subseteq (UNION {PostsIn(f) : f \in {current, log} \cup kept \cup bundles}) \cup dropped
                      \cup (IF IsUp THEN server.log ELSE {})

\* A credential that was revoked works in no database that is in use later, not in one
\* restored from a backup that has it, whatever a killed restore left behind
\* (revokeStagedIngestionCredentials before the rename), but in one whose pages were crossed
\* with those of another.
RevokedCredentialsStayRevoked ==
  current # Gone /\ current.from \notin crossed => current.active \cap revoked = {}

\* A server that opens its database under the configuration of a restore finds the database
\* of that restore or of a later one, or still waits for a restart: the database is staged
\* before the configuration is saved, and every start brings the exchange to its end.  What a
\* failed restore deletes of another one is excepted, and a start that finds the log of
\* another database (OpenCrossed).
ConfigurationIsNotAhead ==
  [][Open /\ starting.who = "server" /\ ~abandoned =>
       current # Gone /\ (server'.file >= config \/ IsRestartRequired)]_restoreVars

================================================================================
