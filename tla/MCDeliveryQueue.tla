---------------------------- MODULE MCDeliveryQueue ----------------------------
(***************************************************************************)
(* Instances of DeliveryQueue for TLC.                                     *)
(***************************************************************************)
EXTENDS DeliveryQueue, TLC
CONSTANTS p1, p2, d1, d2, r1, r2

OneRoute   == [q \in Posts |-> r1]
TwoRoutes  == [q \in Posts |-> IF q = 2 THEN r2 ELSE r1]
ToOne      == [r \in Routes |-> d1]
OneFault   == restarts + stalls <= 1
Interchangeable == Permutations(Runtimes)
================================================================================
