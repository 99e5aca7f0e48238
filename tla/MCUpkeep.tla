-------------------------------- MODULE MCUpkeep --------------------------------
(***************************************************************************)
(* What is done beside the post queue, for TLC side by side: digests, the  *)
(* mirroring of profiles, backups with their restores, the rotation of     *)
(* keys and the updates of the installation share no state in their        *)
(* models, and a behaviour is one of one of them.                          *)
(***************************************************************************)
EXTENDS DigestJobs, ProfileMirror, BackupRestore, KeyRotation, Updater, TLC
CONSTANTS p1, p2, d1, r1, t1, e1, e2, e3, g1, y1, y2, z1
VARIABLE active

OneRoute    == [e \in Entries |-> r1]
ToOne       == [r \in Routes |-> d1]
OnePolicy   == [e \in Entries |-> 1]
Interchangeable == Permutations(Runtimes)

upkeepVars == <<active, digestVars, mirrorVars, restoreVars, keyVars, updateVars>>

\* What is not active has one initial state.
UpkeepInit ==
  /\ active \in {"digests", "mirroring", "restores", "keys", "updates"}
  /\ DigestInit /\ MirrorInit /\ RestoreInit /\ KeyInit /\ UpdaterInit
  /\ active # "mirroring" => profile.exists /\ source.pin = NoTweet
  /\ active # "keys" => documentKey = Plain

UpkeepNext ==
  /\ UNCHANGED active
  /\ \/ active = "digests" /\ DigestNext /\ UNCHANGED <<mirrorVars, restoreVars, keyVars, updateVars>>
     \/ active = "mirroring" /\ MirrorNext /\ UNCHANGED <<digestVars, restoreVars, keyVars, updateVars>>
     \/ active = "restores" /\ RestoreNext /\ UNCHANGED <<digestVars, mirrorVars, keyVars, updateVars>>
     \/ active = "keys" /\ KeyNext /\ UNCHANGED <<digestVars, mirrorVars, restoreVars, updateVars>>
     \/ active = "updates" /\ UpdaterNext /\ UNCHANGED <<digestVars, mirrorVars, restoreVars, keyVars>>

UpkeepSpec == UpkeepInit /\ [][UpkeepNext]_upkeepVars

\* The type invariants of the five.
UpkeepTypeOK ==
  /\ active = "digests" => DigestTypeOK
  /\ active = "mirroring" => MirrorTypeOK
  /\ active = "restores" => RestoreTypeOK
  /\ active = "keys" => KeyTypeOK
  /\ active = "updates" => UpdaterTypeOK
================================================================================
