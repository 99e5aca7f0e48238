----------------------------- MODULE ProfileMirror -----------------------------
(***************************************************************************)
(* What is written into the account of one destination beside its posts:   *)
(* syncBlueskyProfileFromTwitter(), ensureBlueskyBotSelfLabel() and        *)
(* ensureBlueskyDisplayNameBotSuffix() of src/src/profile-mirror.ts, the   *)
(* pin syncs of src/src/index.ts, deleteAllPosts() of src/src/bsky.ts,     *)
(* their leases (src/src/destination-maintenance.ts), and the callers in   *)
(* src/src/index.ts, src/src/server.ts and src/src/cli.ts.                 *)
(*                                                                         *)
(* The profile is one record that is replaced as a whole, against the cid  *)
(* that was read.  Name and avatar stand for the four mirrored fields: one *)
(* cannot fail alone, one can.  The biography is the owner's, who edits it *)
(* in the app of Bluesky.  Each task keeps the copy of the mapping it began *)
(* with.                                                                   *)
(***************************************************************************)
EXTENDS Integers, FiniteSets

CONSTANTS Tweets, NoTweet,
          MaxVersion,      \* bound on changes of the profile on X
          MaxJobs,         \* bound on jobs
          MaxMirrorEvents  \* bound on edits and on faults

ASSUME MirrorAssumption ==
  NoTweet \notin Tweets /\ MaxVersion \in Nat \ {0} /\ MaxJobs \in Nat /\ MaxMirrorEvents \in Nat

VARIABLES profile,   \* the record app.bsky.actor.profile/self
          source,    \* the profile on X
          mapping,   \* lastMirrored* and lastPinnedTweetId of the destination
          outcome,   \* processed_tweets of the destination
          repo,      \* posts of the account
          task, holder,
          deletion, left,  \* deleteAllPosts() and what it still lists
          doubt,     \* history: fields whose last write overlapped or was not recorded
          started, happened   \* jobs, and edits and faults, so far

mirrorVars == <<profile, source, mapping, outcome, repo, task, holder, deletion, left, doubt, started, happened>>
--------------------------------------------------------------------------------
Jobs == {"housekeeping", "timeline", "request", "apply", "cli", "label", "suffix"}
Fields == {"name", "avatar", "pin"}
Pins == Tweets \cup {NoTweet}
Names == [version : 0 .. MaxVersion, bot : BOOLEAN]
Profiles == [exists : BOOLEAN, name : Names, avatar : 0 .. MaxVersion, pin : Pins, label : BOOLEAN, bio : 0 .. MaxMirrorEvents]
Mirrored == [name : Names, avatar : 0 .. MaxVersion, pin : Pins]

NoRecord == [exists |-> FALSE, name |-> [version |-> 0, bot |-> FALSE], avatar |-> 0, pin |-> NoTweet,
             label |-> FALSE, bio |-> 0]
NothingMirrored == [name |-> NoRecord.name, avatar |-> 0, pin |-> NoTweet]
NoCopy == [name |-> NoRecord.name, bio |-> 0]
Resting == [at |-> "idle", what |-> "profile", version |-> 0, tweet |-> NoTweet, known |-> NothingMirrored, fields |-> {},
            seen |-> "nothing", copy |-> NoCopy, current |-> FALSE]

MirrorTypeOK ==
  /\ profile \in Profiles
  /\ source \in [version : 0 .. MaxVersion, pin : Pins]
  /\ mapping \in Mirrored
  /\ outcome \in [Tweets -> {"none", "migrated", "skipped"}] /\ repo \subseteq Tweets
  /\ task \in [Jobs -> [at : {"idle", "waiting", "fetch", "mirror", "apply", "read", "put", "save"},
                       what : {"profile", "pin", "label", "suffix"}, version : 0 .. MaxVersion, tweet : Pins,
                       known : Mirrored,
                       fields : SUBSET Fields,
                       seen : {"nothing", "missing", "stale", "fresh"}, copy : [name : Names, bio : 0 .. MaxMirrorEvents],
                       current : BOOLEAN]]           \* the revision of the copy is still that of the file
  /\ holder \in {"nobody", "delivery", "timeline", "deletion"}
  /\ deletion \in {"idle", "deleting", "uneven"} /\ left \subseteq Tweets
  /\ doubt \subseteq Fields /\ started \in 0 .. MaxJobs /\ happened \in 0 .. MaxMirrorEvents

MirrorInit ==
  /\ profile \in {NoRecord, [NoRecord EXCEPT !.exists = TRUE]}
  /\ source \in [version : {1}, pin : Pins] /\ mapping = NothingMirrored
  /\ outcome = [t \in Tweets |-> "none"] /\ repo = {}
  /\ task = [j \in Jobs |-> Resting] /\ holder = "nobody" /\ deletion = "idle" /\ left = {}
  /\ doubt = {} /\ started = 0 /\ happened = 0

IsIdle(j) == task[j].at = "idle"
Occurs == happened < MaxMirrorEvents /\ happened' = happened + 1

\* A task that holds no lease ends; housekeeping goes from the profile to the daily pin.
Ended(j, x) ==
  IF j = "housekeeping" /\ x.what = "profile" THEN [Resting EXCEPT !.at = "fetch", !.what = "pin", !.known = x.known]
  ELSE Resting

\* run() of DestinationMaintenanceRunner gives its lease back.
Leaves(j) == holder' = IF j = "timeline" /\ holder = "timeline" THEN "nobody" ELSE holder

\* A save moves the revision: older copies of the configuration cannot be saved.
Outdated == [i \in Jobs |-> [task[i] EXCEPT !.current = FALSE]]
--------------------------------------------------------------------------------
(***************************************************************************)
(* The start of jobs.                                                      *)
(***************************************************************************)
Starts(j, x) ==
  /\ IsIdle(j) /\ started < MaxJobs /\ started' = started + 1
  /\ task' = [task EXCEPT ![j] = [x EXCEPT !.known = mapping, !.current = TRUE]]
  /\ UNCHANGED <<profile, source, mapping, outcome, repo, deletion, left, doubt, happened>>

\* runHousekeeping(): the loop awaits requested pin syncs before it sweeps.  A pin sync
\* of a timeline that runs is waited for, others do not start.
StartHousekeeping ==
  /\ IsIdle("request")
  /\ Starts("housekeeping", [Resting EXCEPT !.at = "waiting"]) /\ UNCHANGED holder

HousekeepingTurn ==
  /\ task["housekeeping"].at = "waiting" /\ IsIdle("timeline")
  /\ task' = [task EXCEPT !["housekeeping"].at = "fetch"]
  /\ UNCHANGED <<profile, source, mapping, outcome, repo, holder, deletion, left, doubt, started, happened>>

\* startTimelinePinSync(): nothing is done while somebody holds the destination.
StartTimeline ==
  /\ IsIdle("request") /\ IsIdle("housekeeping")
  /\ source.pin # NoTweet /\ source.pin # mapping.pin /\ holder = "nobody"
  /\ Starts("timeline", [Resting EXCEPT !.at = "apply", !.what = "pin", !.tweet = source.pin])
  /\ holder' = "timeline"

\* processPinSyncs(), the handlers of profiles, and the command of the CLI.
StartAt(j, stage, what) == Starts(j, [Resting EXCEPT !.at = stage, !.what = what]) /\ UNCHANGED holder

StartRequest == StartAt("request", "fetch", "pin")
StartApply == StartAt("apply", "fetch", "profile")
StartCommand == StartAt("cli", "fetch", "profile")
StartLabel == StartAt("label", "read", "label")
StartSuffix == StartAt("suffix", "read", "suffix")
--------------------------------------------------------------------------------
(***************************************************************************)
(* From X to the copy that is written.                                     *)
(***************************************************************************)
Continues(j, x) == task' = [task EXCEPT ![j] = x]

IsUpsert(x) == x.what \in {"profile", "pin"}

Written(x, record) ==
  [record EXCEPT !.exists = TRUE,
                 !.name = CASE x.what = "suffix" -> [version |-> x.version, bot |-> TRUE]
                            [] x.what = "profile" /\ "name" \in x.fields -> [version |-> x.version, bot |-> FALSE]
                            [] OTHER -> @,
                 !.avatar = IF x.what = "profile" /\ "avatar" \in x.fields THEN x.version ELSE @,
                 !.pin = IF x.what = "pin" THEN x.tweet ELSE @,
                 !.label = @ \/ x.what = "label"]

\* What a task has read.  A copy that is accepted is the record; of others the name is
\* looked at and the rest is lost.
Copy(x) == IF x.seen = "missing" THEN NoRecord ELSE [profile EXCEPT !.name = x.copy.name, !.bio = x.copy.bio]

\* Who finds the label or the name in place writes nothing.
IsInPlace(x, record) == record.exists /\ Written(x, record) = record

\* hasMirrorStateChanges() against the copy of the mapping; an avatar that could not be
\* uploaded is neither written nor recorded.
Changed(known, version, uploaded) ==
  {f \in {"name", "avatar"} : IF f = "name" THEN known.name # [version |-> version, bot |-> FALSE]
                                            ELSE known.avatar # version /\ uploaded}

\* compressProfileImage() and uploadBlob() succeed or not.
Uploads == BOOLEAN

\* Those who write learn what changed before they upload: the failure of an upload is
\* no reason to skip the rest.
FetchProfile(j) ==
  LET x == task[j] IN
  /\ x.at = "fetch" /\ x.what = "profile"
  /\ \E uploaded \in Uploads :
       LET F == Changed(x.known, source.version, uploaded) IN
       Continues(j, [x EXCEPT !.at = IF F = {} THEN "save" ELSE "read", !.version = source.version, !.fields = F])
  /\ UNCHANGED <<profile, source, mapping, outcome, repo, holder, deletion, left, doubt, started, happened>>

\* The name is fetched after the record was read.
FetchName(j) ==
  LET x == [task[j] EXCEPT !.version = source.version, !.fields = {"name"}] IN
  /\ task[j].at = "fetch" /\ x.what = "suffix"
  /\ Continues(j, IF IsInPlace(x, Copy(x)) THEN [x EXCEPT !.at = "save", !.seen = "nothing", !.copy = NoCopy]
                  ELSE [x EXCEPT !.at = "put"])
  /\ UNCHANGED <<profile, source, mapping, outcome, repo, holder, deletion, left, doubt, started, happened>>

\* fetchPinnedTweetId() of syncPinnedTweetViaProfile().
LookUpPin(j) ==
  LET x == task[j] IN
  /\ x.at = "fetch" /\ x.what = "pin"
  /\ Continues(j, [x EXCEPT !.tweet = source.pin,
                            !.at = IF source.pin \in {NoTweet, x.known.pin} \/ outcome[source.pin] = "migrated"
                                   THEN "apply" ELSE "mirror"])
  /\ UNCHANGED <<profile, source, mapping, outcome, repo, holder, deletion, left, doubt, started, happened>>

\* The pinned tweet is mirrored first, whoever holds the lease of the destination.
MirrorPin(j) ==
  LET x == task[j] IN
  /\ x.at = "mirror"
  /\ \/ /\ outcome' = [outcome EXCEPT ![x.tweet] = "migrated"] /\ repo' = repo \cup {x.tweet}
        /\ Continues(j, [x EXCEPT !.at = "apply"])
        /\ deletion' = IF deletion = "idle" THEN deletion ELSE "uneven"
     \/ /\ outcome' = [outcome EXCEPT ![x.tweet] = IF @ = "migrated" THEN @ ELSE "skipped"]
        /\ Continues(j, Ended(j, x)) /\ UNCHANGED <<repo, deletion>>
  /\ UNCHANGED <<profile, source, mapping, holder, left, doubt, started, happened>>

\* applyPinnedTweet(): a skipped tweet is noted and not pinned.
ApplyPin(j) ==
  LET x == task[j]
      clears == x.tweet = NoTweet /\ x.known.pin # NoTweet
      isNew == x.tweet # NoTweet /\ x.tweet # x.known.pin
      IsNoted(what) == isNew /\ outcome[x.tweet] = what
  IN
  /\ x.at = "apply"
  /\ \/ /\ clears \/ IsNoted("migrated")
        /\ Continues(j, [x EXCEPT !.at = "read", !.fields = {"pin"}]) /\ UNCHANGED <<holder, doubt>>
     \/ /\ IsNoted("skipped")
        /\ Continues(j, [x EXCEPT !.at = "save", !.fields = {"pin"}])
        /\ doubt' = doubt \cup {"pin"} /\ UNCHANGED holder
     \/ /\ ~clears /\ (~isNew \/ IsNoted("none"))
        /\ Continues(j, Ended(j, x)) /\ Leaves(j) /\ UNCHANGED doubt
  /\ UNCHANGED <<profile, source, mapping, outcome, repo, deletion, left, started, happened>>
--------------------------------------------------------------------------------
(***************************************************************************)
(* The record.                                                             *)
(***************************************************************************)
\* getRecord().
ReadRecord(j) ==
  LET x == [task[j] EXCEPT !.copy = [name |-> profile.name, bio |-> profile.bio], !.seen = IF profile.exists THEN "fresh" ELSE "missing"] IN
  /\ x.at = "read"
  /\ Continues(j, IF x.what = "suffix" THEN [x EXCEPT !.at = "fetch"]
                  ELSE IF x.what = "label" /\ IsInPlace(x, profile)
                  THEN [x EXCEPT !.at = "save", !.seen = "nothing", !.copy = NoCopy]
                  ELSE [x EXCEPT !.at = "put"])
  /\ UNCHANGED <<profile, source, mapping, outcome, repo, holder, deletion, left, doubt, started, happened>>

\* putRecord() with the cid that was read.  The library insists on a record that was
\* missing; the two functions of this repository have no cid to give then.
IsAccepted(x) == x.seen = "fresh" \/ (x.seen = "missing" /\ (~IsUpsert(x) \/ ~profile.exists))

Overlapped(j) == {f \in task[j].fields : \E i \in Jobs \ {j} : task[i].at = "save" /\ f \in task[i].fields}

\* A record made meanwhile is replaced by one that starts from nothing.
Wiped(x) == IF x.seen = "missing" /\ profile.exists THEN Fields ELSE {}

\* The answer may be lost: what was written is not recorded then.
PutRecord(j) ==
  LET x == task[j]
      Replaced(next) == [i \in Jobs |-> IF i = j THEN next
                                        ELSE [task[i] EXCEPT !.seen = IF @ = "fresh" THEN "stale" ELSE @]]
  IN
  /\ x.at = "put" /\ IsAccepted(x)
  /\ profile' = Written(x, Copy(x))
  /\ \/ /\ task' = Replaced([x EXCEPT !.at = "save", !.seen = "nothing", !.copy = NoCopy])
        /\ doubt' = (doubt \ x.fields) \cup Overlapped(j) \cup Wiped(x)
        /\ UNCHANGED <<holder, happened>>
     \/ /\ Occurs /\ task' = Replaced(Ended(j, x)) /\ doubt' = doubt \cup x.fields \cup Wiped(x) /\ Leaves(j)
  /\ UNCHANGED <<source, mapping, outcome, repo, deletion, left, started>>

\* The swap is refused: upsertProfile() reads again, up to a number of times.
SwapRefused(j) ==
  LET x == task[j] IN
  /\ x.at = "put" /\ ~IsAccepted(x)
  /\ \/ /\ IsUpsert(x)
        /\ Continues(j, [x EXCEPT !.at = "read", !.seen = "nothing", !.copy = NoCopy]) /\ UNCHANGED holder
     \/ Continues(j, Ended(j, x)) /\ Leaves(j)
  /\ UNCHANGED <<profile, source, mapping, outcome, repo, deletion, left, doubt, started, happened>>

\* Any call to X or to Bluesky can fail before it had an effect.
CallFails(j) ==
  LET x == task[j] IN
  /\ x.at \in {"fetch", "mirror", "read", "put"} /\ Occurs
  /\ Continues(j, Ended(j, x)) /\ Leaves(j)
  /\ UNCHANGED <<profile, source, mapping, outcome, repo, deletion, left, doubt, started>>

\* Mutation: what was fetched is recorded, changed or not and uploaded or not.
RecordedAll(x, m) ==
  IF x.what = "profile" THEN [m EXCEPT !.name = [version |-> x.version, bot |-> FALSE], !.avatar = x.version]
  ELSE [m EXCEPT !.name = IF "name" \in x.fields THEN [version |-> x.version, bot |-> TRUE] ELSE @,
                 !.pin = IF "pin" \in x.fields THEN x.tweet ELSE @]

\* applyProfileMirrorSyncState() and persistPinnedTweetState().
Recorded(x, m) ==
  [m EXCEPT !.name = IF "name" \in x.fields THEN [version |-> x.version, bot |-> x.what = "suffix"] ELSE @,
            !.avatar = IF "avatar" \in x.fields THEN x.version ELSE @,
            !.pin = IF "pin" \in x.fields THEN x.tweet ELSE @]

\* The background tasks and the CLI record into the configuration as it is now, the
\* handlers into the copy they began with: when anybody saved meanwhile, the record of
\* what was written is lost with an error.
SaveState(j) ==
  LET x == task[j]
      isHandler == j \in {"apply", "label", "suffix"}
  IN
  /\ x.at = "save"
  /\ IF isHandler /\ ~x.current
     THEN /\ Continues(j, Ended(j, x)) /\ doubt' = doubt \cup x.fields /\ UNCHANGED mapping
     ELSE /\ mapping' = Recorded(x, mapping)
          /\ task' = [Outdated EXCEPT ![j] = Ended(j, x)] /\ UNCHANGED doubt
  /\ Leaves(j)
  /\ UNCHANGED <<profile, source, outcome, repo, deletion, left, started, happened>>
--------------------------------------------------------------------------------
(***************************************************************************)
(* Deliveries and the deletion of all posts.                               *)
(***************************************************************************)
Unmoved == UNCHANGED <<profile, source, mapping, task, doubt, started>>

\* A worker posts under its lease, and notes it.
StartDelivery ==
  /\ holder = "nobody" /\ \E t \in Tweets : outcome[t] = "none"
  /\ holder' = "delivery"
  /\ UNCHANGED <<outcome, repo, deletion, left, started, happened>> /\ Unmoved

Deliver(t) ==
  /\ holder = "delivery" /\ outcome[t] = "none"
  /\ outcome' = [outcome EXCEPT ![t] = "migrated"] /\ repo' = repo \cup {t} /\ holder' = "nobody"
  /\ UNCHANGED <<deletion, left, happened>> /\ Unmoved

\* The pages are listed from the newest post: what is posted later is not on them.
StartDeletion ==
  /\ deletion = "idle" /\ holder = "nobody"
  /\ holder' = "deletion" /\ deletion' = "deleting" /\ left' = repo
  /\ UNCHANGED <<outcome, repo, happened>> /\ Unmoved

\* Mutation: a deletion goes on without its lease.
KeepsOn == TRUE

\* renew(), before each page and each post.
KeepsLease == holder = "deletion"

\* A post that cannot be deleted is passed over, unless the session or the limits of the
\* account are the reason.
DeletePost(t) ==
  /\ t \in left /\ KeepsLease
  /\ left' = left \ {t}
  /\ \/ repo' = repo \ {t} /\ UNCHANGED <<deletion, happened>>
     \/ Occurs /\ deletion' = "uneven" /\ UNCHANGED repo
  /\ UNCHANGED <<outcome, holder>> /\ Unmoved

EndsDeletion ==
  /\ deletion' = "idle" /\ left' = {}
  /\ holder' = IF holder = "deletion" THEN "nobody" ELSE holder
  /\ UNCHANGED repo /\ Unmoved

\* Nothing is left to delete.  The handler forgets the history in the same turn of the
\* event loop in which the lease is released.
FinishDeletion ==
  /\ deletion # "idle" /\ KeepsLease /\ left = {}
  /\ outcome' = [t \in Tweets |-> "none"]
  /\ EndsDeletion /\ UNCHANGED happened

\* The lease is lost or a call fails for good: the history stays.
StopDeletion ==
  /\ deletion # "idle"
  /\ \/ ~KeepsLease /\ UNCHANGED happened
     \/ KeepsLease /\ Occurs
  /\ EndsDeletion /\ UNCHANGED outcome

MaintenanceLapses ==
  /\ holder \in {"timeline", "deletion"} /\ Occurs
  /\ holder' = "nobody" /\ UNCHANGED <<outcome, repo, deletion, left>> /\ Unmoved
--------------------------------------------------------------------------------
(***************************************************************************)
(* People.                                                                 *)
(***************************************************************************)
\* The owner edits the profile in the app, which makes a record if there is none.
EditBio ==
  /\ Occurs /\ profile' = [profile EXCEPT !.exists = TRUE, !.bio = happened']
  /\ task' = [j \in Jobs |-> [task[j] EXCEPT !.seen = IF @ = "fresh" THEN "stale" ELSE @]]
  /\ UNCHANGED <<source, mapping, outcome, repo, holder, deletion, left, doubt, started>>

ChangeOnX ==
  /\ source' \in [version : {source.version, source.version + 1}, pin : Pins]
  /\ source'.version <= MaxVersion /\ source' # source /\ Occurs
  /\ UNCHANGED <<profile, mapping, outcome, repo, task, holder, deletion, left, doubt, started>>

JobSteps(j) ==
  \/ FetchProfile(j) \/ FetchName(j) \/ LookUpPin(j) \/ MirrorPin(j) \/ ApplyPin(j)
  \/ ReadRecord(j) \/ PutRecord(j) \/ SwapRefused(j) \/ CallFails(j) \/ SaveState(j)

MirrorNext ==
  \/ \E j \in Jobs : JobSteps(j)
  \/ StartRequest \/ StartApply \/ StartCommand \/ StartLabel \/ StartSuffix
  \/ StartHousekeeping \/ HousekeepingTurn \/ StartTimeline
  \/ \E t \in Tweets : Deliver(t) \/ DeletePost(t)
  \/ StartDelivery \/ StartDeletion \/ FinishDeletion \/ StopDeletion \/ MaintenanceLapses
  \/ EditBio \/ ChangeOnX

MirrorSpec == MirrorInit /\ [][MirrorNext]_mirrorVars
--------------------------------------------------------------------------------
(***************************************************************************)
(* Properties.                                                             *)
(***************************************************************************)
\* What is recorded as mirrored is what the profile shows, so that the next sync may
\* skip it, unless writes overlapped or their record was lost.
RecordsMatchTheProfile ==
  \A f \in Fields \ doubt :
    (\A j \in Jobs : task[j].at = "save" => f \notin task[j].fields) => mapping[f] = profile[f]

\* No delivery slips into a deletion: posts the history forgets are gone, or they would
\* be posted twice, unless one could not be deleted or a pin sync mirrored meanwhile.  (The command
\* of the CLI, which forgets in a later turn, is not modelled.)
ForgottenPostsAreGone ==
  [][deletion = "deleting" => \A t \in Tweets : outcome[t] # "none" /\ outcome'[t] = "none" => t \notin repo']_mirrorVars
================================================================================
