------------------------------- MODULE ConfigLog -------------------------------
(***************************************************************************)
(* What the configuration store promises its callers: one document to      *)
(* which accepted changes are added one at a time, each under a revision   *)
(* of its own.                                                             *)
(***************************************************************************)
EXTENDS Naturals

CONSTANT Changes
VARIABLES revision, changes

LogInit == revision = 0 /\ changes = {}

Accept(c) ==
  /\ c \notin changes
  /\ changes' = changes \cup {c} /\ revision' = revision + 1

LogNext == \E c \in Changes : Accept(c)

LogSpec == LogInit /\ [][LogNext]_<<revision, changes>>
================================================================================
