--------------------------- MODULE DestinationLease ---------------------------
(***************************************************************************)
(* The destination_leases table of src/src/db.ts (destinationLeaseService):*)
(* one row per destination, naming the runtime that may write to it.       *)
(*                                                                         *)
(* A row whose expires_at has passed and a row that does not exist are     *)
(* treated alike by every statement of the service (acquire, renew,        *)
(* listHeldByOthers and the NOT EXISTS of resetProcessing all compare      *)
(* expires_at with the clock), so an expired lease is Nobody here and time *)
(* is the action LeaseLapses.  An owner id holds a random part, so a       *)
(* runtime that restarts is a new owner: the lease it left behind belongs  *)
(* to Former, which nobody renews or releases.                             *)
(***************************************************************************)
CONSTANTS Runtimes,       \* processes running index.ts against one database
          Destinations,   \* canonical destination keys
          Nobody,         \* no unexpired lease
          Former          \* an owner id of a process that is gone

ASSUME OwnersAssumption == Nobody \notin Runtimes /\ Former \notin Runtimes /\ Nobody # Former

VARIABLE lease

LeaseTypeOK == lease \in [Destinations -> Runtimes \cup {Nobody, Former}]

LeaseInit == lease = [d \in Destinations |-> Nobody]

\* renew() changes one row exactly when the caller owns an unexpired lease.
Owns(p, d) == lease[d] = p

\* The conflict clause of acquire(): a free lease, or one's own, is taken.
CanAcquire(p, d) == lease[d] \in {Nobody, p}

HeldByOthers(p) == {d \in Destinations : lease[d] \notin {Nobody, p}}

Acquire(p, d) == lease' = [lease EXCEPT ![d] = p]

\* release() deletes only the caller's own row.
ReleaseLease(p, d) == lease' = [lease EXCEPT ![d] = IF @ = p THEN Nobody ELSE @]

ReleaseOwner(p) == lease' = [d \in Destinations |-> IF lease[d] = p THEN Nobody ELSE lease[d]]

\* The process is gone and its rows stay until they expire.
Abandon(p) == lease' = [d \in Destinations |-> IF lease[d] = p THEN Former ELSE lease[d]]

LeaseLapses(d) == lease[d] # Nobody /\ lease' = [lease EXCEPT ![d] = Nobody]
===============================================================================
