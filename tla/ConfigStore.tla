------------------------------ MODULE ConfigStore ------------------------------
(***************************************************************************)
(* config.json, its backup and its temporary file under concurrent         *)
(* callers (src/src/config-manager.ts).  A caller is an HTTP handler, a    *)
(* background task of the server or a command of the CLI: it loads the     *)
(* document, may await something, and saves it with its change.  What a    *)
(* process does without an await is not interrupted by its own callers but *)
(* may be by another process, and by a crash.                              *)
(*                                                                         *)
(* A document is its revision and the set of changes it carries, a caller  *)
(* standing for its change.  A file holds an inode, named by the caller    *)
(* that wrote it last; an inode that is being written is not whole.        *)
(***************************************************************************)
EXTENDS Naturals, FiniteSets, FiniteSetsExt

CONSTANTS Callers,        \* changes to be made
          Processes,      \* the server, and a CLI command
          ProcessOf,      \* the process a caller belongs to
          Nobody,         \* no caller
          LegacySchema,   \* the file on disk is of an older schema
          MaxCrashes, MaxDamages

ASSUME StoreAssumption ==
  /\ ProcessOf \in [Callers -> Processes] /\ Nobody \notin Callers
  /\ IsFiniteSet(Callers) /\ LegacySchema \in BOOLEAN
  /\ MaxCrashes \in Nat /\ MaxDamages \in Nat

VARIABLES main, bak, tmp,  \* the configFiles
          caller,          \* what each caller is doing
          blocked,         \* processes that refuse to write
          preserved,       \* the backups taken before a schema migration
          accepted,        \* changes whose caller was told they are saved
          crashes, damages

configFiles == <<main, bak, tmp>>
storeVars == <<configFiles, caller, blocked, preserved, accepted, crashes, damages>>
--------------------------------------------------------------------------------
Document == [revision : 0 .. Cardinality(Callers), changes : SUBSET Callers, legacy : BOOLEAN]
ConfigFile == [exists : BOOLEAN, by : Callers \cup {Nobody}, whole : BOOLEAN, document : Document]

DefaultDocument == [revision |-> 0, changes |-> {}, legacy |-> FALSE]
NoConfigFile == [exists |-> FALSE, by |-> Nobody, whole |-> FALSE, document |-> DefaultDocument]
ConfigInode(c, doc, whole) == [exists |-> TRUE, by |-> c, whole |-> whole, document |-> doc]

IsReadable(f) == f.exists /\ f.whole

CallerSteps == {"idle", "held", "write", "fill", "copy", "copied", "rename", "done"}
CallerState == [step : CallerSteps, held : Document, writing : Document, saves : BOOLEAN, refresh : BOOLEAN]
IdleCaller == [step |-> "idle", held |-> DefaultDocument, writing |-> DefaultDocument, saves |-> FALSE, refresh |-> FALSE]

StoreTypeOK ==
  /\ main \in ConfigFile /\ bak \in ConfigFile /\ tmp \in ConfigFile
  /\ caller \in [Callers -> CallerState]
  /\ blocked \subseteq Processes /\ preserved \subseteq Document /\ accepted \subseteq Callers
  /\ crashes \in 0 .. MaxCrashes /\ damages \in 0 .. MaxDamages

StoreInit ==
  /\ main = IF LegacySchema THEN ConfigInode(Nobody, [DefaultDocument EXCEPT !.legacy = TRUE], TRUE) ELSE NoConfigFile
  /\ bak = NoConfigFile /\ tmp = NoConfigFile
  /\ caller = [c \in Callers |-> IdleCaller]
  /\ blocked = {} /\ preserved = {} /\ accepted = {}
  /\ crashes = 0 /\ damages = 0
--------------------------------------------------------------------------------
\* A process is in one synchronous section at a time.
IsBusy(p) == \E c \in Callers : ProcessOf[c] = p /\ caller[c].step \in {"write", "fill", "copy", "copied", "rename"}

At(c, step) == caller[c].step = step

GotoStep(c, step) == caller' = [caller EXCEPT ![c].step = step]

Upgraded(doc) == [doc EXCEPT !.legacy = FALSE]

\* migrateConfigWithMetadata() keeps the text it migrates under .pre-vN-backup.
Preserve(doc) == preserved' = IF doc.legacy THEN preserved \cup {doc} ELSE preserved

\* A mutation: a recovery refreshes the backup it restores from.
HoldAndRefresh(c, doc, refresh) ==
  /\ caller' = [caller EXCEPT ![c] = [step |-> "write", held |-> Upgraded(doc), writing |-> Upgraded(doc),
                                      saves |-> FALSE, refresh |-> TRUE]]
  /\ Preserve(doc)
  /\ UNCHANGED blocked

\* The caller has the document and writes it out first, without a new revision.
HoldAndWrite(c, doc, refresh) ==
  /\ caller' = [caller EXCEPT ![c] = [step |-> "write", held |-> Upgraded(doc), writing |-> Upgraded(doc),
                                      saves |-> FALSE, refresh |-> refresh]]
  /\ Preserve(doc)
  /\ UNCHANGED blocked

HoldDocument(c, doc) == caller' = [caller EXCEPT ![c].step = "held", ![c].held = doc] /\ UNCHANGED preserved

BlockWrites(c) == blocked' = blocked \cup {ProcessOf[c]}
UnblockWrites(c) == blocked' = blocked \ {ProcessOf[c]}

\* getConfig().
LoadConfig(c) ==
  /\ At(c, "idle") /\ ~IsBusy(ProcessOf[c])
  /\ \/ ~main.exists /\ HoldDocument(c, DefaultDocument) /\ UnblockWrites(c)
     \/ IsReadable(main) /\ ~main.document.legacy /\ HoldDocument(c, main.document) /\ UnblockWrites(c)
     \/ IsReadable(main) /\ main.document.legacy /\ HoldAndWrite(c, main.document, TRUE)
     \/ /\ main.exists /\ ~main.whole
        /\ IF IsReadable(bak) THEN HoldAndWrite(c, bak.document, FALSE)
           ELSE HoldDocument(c, DefaultDocument) /\ BlockWrites(c)
  /\ UNCHANGED <<configFiles, accepted, crashes, damages>>

\* A caller that finds it has nothing to change, or fails.
GiveUpChange(c) ==
  /\ At(c, "held")
  /\ caller' = [caller EXCEPT ![c] = IdleCaller]
  /\ UNCHANGED <<configFiles, blocked, preserved, accepted, crashes, damages>>

\* A mutation: only a revision from the future is a conflict.
IsAhead(c) == IsReadable(main) /\ main.document.revision < caller[c].held.revision

\* readPersistedConfigVersion(): what cannot be read is no conflict.
IsStale(c) == IsReadable(main) /\ main.document.revision # caller[c].held.revision

\* Mutations: the revision is not, or twice, incremented.
SameRevision(c) ==
  [revision |-> caller[c].held.revision, changes |-> caller[c].held.changes \cup {c}, legacy |-> FALSE]
TwoRevisions(c) ==
  [revision |-> caller[c].held.revision + 2, changes |-> caller[c].held.changes \cup {c}, legacy |-> FALSE]

NextDocument(c) ==
  [revision |-> caller[c].held.revision + 1, changes |-> caller[c].held.changes \cup {c}, legacy |-> FALSE]

\* saveConfig() and saveCanonicalConfig() up to the first write: a blocked process
\* refuses, a stale document is a conflict, and the caller starts over.
SaveConfig(c) ==
  /\ At(c, "held") /\ ~IsBusy(ProcessOf[c])
  /\ IF (ProcessOf[c] \in blocked /\ main.exists) \/ IsStale(c)
     THEN caller' = [caller EXCEPT ![c] = IdleCaller]
     ELSE caller' = [caller EXCEPT ![c].step = "write", ![c].writing = NextDocument(c),
                                   ![c].saves = TRUE, ![c].refresh = TRUE]
  /\ UNCHANGED <<configFiles, blocked, preserved, accepted, crashes, damages>>

\* The old temporary file is removed and a new one opened ...
OpenTemporary(c) ==
  /\ At(c, "write")
  /\ tmp' = ConfigInode(c, caller[c].writing, FALSE) /\ GotoStep(c, "fill")
  /\ UNCHANGED <<main, bak, blocked, preserved, accepted, crashes, damages>>

\* ... and written, wherever a rename has put it meanwhile.
FillTemporary(c) ==
  /\ At(c, "fill")
  /\ tmp'  = IF tmp.by = c THEN [tmp EXCEPT !.whole = TRUE] ELSE tmp
  /\ main' = IF main.by = c /\ main.document = caller[c].writing THEN [main EXCEPT !.whole = TRUE] ELSE main
  /\ GotoStep(c, IF caller[c].refresh /\ main.exists THEN "copy" ELSE "rename")
  /\ UNCHANGED <<bak, blocked, preserved, accepted, crashes, damages>>

CopyBackup(c) ==
  \/ /\ At(c, "copy") /\ GotoStep(c, "copied")
     /\ bak' = [main EXCEPT !.whole = FALSE]
     /\ UNCHANGED <<main, tmp, blocked, preserved, accepted, crashes, damages>>
  \/ /\ At(c, "copied") /\ GotoStep(c, "rename")
     /\ bak' = main
     /\ UNCHANGED <<main, tmp, blocked, preserved, accepted, crashes, damages>>

\* The caller is told, or goes on with the document it holds; if there is no
\* temporary file any more, a save fails and a load ends in a blocked process or,
\* when it was the backup that was being restored, in the defaults.
RenameTemporary(c) ==
  /\ At(c, "rename")
  /\ IF tmp.exists
     THEN /\ main' = tmp /\ tmp' = NoConfigFile
          /\ GotoStep(c, IF caller[c].saves THEN "done" ELSE "held")
          /\ accepted' = IF caller[c].saves THEN accepted \cup {c} ELSE accepted
          /\ UnblockWrites(c)
     ELSE /\ caller' = [caller EXCEPT ![c] = IF caller[c].saves THEN IdleCaller
                                             ELSE [@ EXCEPT !.step = "held",
                                                            !.held = IF caller[c].refresh THEN @ ELSE DefaultDocument]]
          /\ IF caller[c].saves THEN UNCHANGED blocked ELSE BlockWrites(c)
          /\ UNCHANGED <<main, tmp, accepted>>
  /\ UNCHANGED <<bak, preserved, crashes, damages>>
--------------------------------------------------------------------------------
\* A process dies; its callers are gone and start over in its successor.
StoreCrash(p) ==
  /\ crashes < MaxCrashes /\ \E c \in Callers : ProcessOf[c] = p /\ caller[c].step \notin {"idle", "done"}
  /\ caller' = [c \in Callers |-> IF ProcessOf[c] = p /\ caller[c].step # "done" THEN IdleCaller ELSE caller[c]]
  /\ blocked' = blocked \ {p}
  /\ crashes' = crashes + 1
  /\ UNCHANGED <<configFiles, preserved, accepted, damages>>

\* The file is damaged from outside.
DamageConfig ==
  /\ damages < MaxDamages /\ main.exists
  /\ main' = [main EXCEPT !.whole = FALSE, !.by = Nobody]
  /\ damages' = damages + 1
  /\ UNCHANGED <<bak, tmp, caller, blocked, preserved, accepted, crashes>>

CallerStep(c) ==
  \/ LoadConfig(c) \/ GiveUpChange(c) \/ SaveConfig(c)
  \/ OpenTemporary(c) \/ FillTemporary(c) \/ CopyBackup(c) \/ RenameTemporary(c)

StoreNext ==
  \/ \E c \in Callers : CallerStep(c)
  \/ \E p \in Processes : StoreCrash(p)
  \/ DamageConfig

StoreSpec == StoreInit /\ [][StoreNext]_storeVars
--------------------------------------------------------------------------------
(***************************************************************************)
(* Properties.                                                             *)
(***************************************************************************)
\* Configuration writes are compare-and-swap (docs/security-and-backups.md): a
\* change its caller was told is saved is part of the document from then on.
AcceptedChangesStay == damages = 0 => (accepted # {} => IsReadable(main) /\ accepted \subseteq main.document.changes)

\* The backup is overwritten in place.  It is given up only for a document that can
\* be read, or by a caller that had read the document before it was damaged and
\* brings its own: a save or an upgrade, never a recovery from that very backup.
BringsItsOwn(c) == At(c, "copy") /\ (caller[c].saves \/ [caller[c].held EXCEPT !.legacy = TRUE] \in preserved)

BackupOutlivesDamage ==
  [][IsReadable(bak) /\ ~IsReadable(bak') => IsReadable(main) \/ \E c \in Callers : BringsItsOwn(c)]_storeVars

Log == INSTANCE ConfigLog WITH
  Changes <- Callers, revision <- main.document.revision, changes <- main.document.changes

\* Until it is damaged, the file is the log of the accepted changes.
KeepsTheLog ==
  /\ Log!LogInit
  /\ [][damages' = 0 => [Log!LogNext]_<<main.document.revision, main.document.changes>>]_storeVars
================================================================================
