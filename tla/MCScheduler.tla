------------------------------ MODULE MCScheduler ------------------------------
EXTENDS Scheduler
CONSTANTS p1, p2, d1, d2
\* Two requests for one destination and one for another.
Targets == [r \in Requests |-> IF r = 3 THEN d2 ELSE d1]
================================================================================
