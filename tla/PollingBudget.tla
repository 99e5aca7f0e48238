----------------------------- MODULE PollingBudget -----------------------------
(***************************************************************************)
(* Which X sources a sweep checks (src/src/adaptive-polling.ts and         *)
(* XSourceSweepService.run() in                                            *)
(* src/src/services/x-source-sweep-service.ts): those that are due, the    *)
(* longest overdue first, as many as the budget allows.  The states of the *)
(* sources are read when the sweep begins and saved when it has ended; the *)
(* handlers of the server switch sources and routes meanwhile.             *)
(***************************************************************************)
EXTENDS Integers, FiniteSets

CONSTANTS NumSources,          \* sources are numbered in the order of their ids
          Budget,              \* sources a sweep may check
          MinInterval, MaxInterval, Spread,   \* the schedule; Spread is the jitter
          MaxDoublings,        \* 10 in the code
          Fixed, FixedInterval,   \* sources whose schedule is not adaptive, and theirs
          MaxClock, MaxChanges \* bounds

ASSUME PollingAssumption ==
  /\ {NumSources, Budget, MinInterval, MaxInterval, Spread, MaxDoublings, MaxClock, MaxChanges} \subseteq Nat
  /\ 0 < Budget /\ 0 < MinInterval /\ MinInterval <= MaxInterval

VARIABLES time,
          due,        \* nextEligibleCheckAt
          checked,    \* lastCheckAt
          failures, quiet,      \* consecutiveFailures, consecutiveQuietChecks
          unrouted,   \* enabled sources without a route to an enabled destination
          plan,       \* the sweep under way
          waiting,    \* history: sweeps that ended and left out a source that was due
          changes

sourceStates == <<due, checked, failures, quiet>>
pollingVars == <<time, sourceStates, unrouted, plan, waiting, changes>>
--------------------------------------------------------------------------------
XSources == 1 .. NumSources

NoPlan == [chosen |-> {}, fetched |-> {}, left |-> {}]

PollingTypeOK ==
  /\ time \in 0 .. MaxClock
  /\ due \in [XSources -> 0 .. MaxClock + MaxInterval] /\ checked \in [XSources -> 0 .. MaxClock]
  /\ failures \in [XSources -> 0 .. MaxDoublings] /\ quiet \in [XSources -> 0 .. MaxDoublings]
  /\ unrouted \subseteq XSources
  /\ plan \in [chosen : SUBSET XSources, fetched : SUBSET XSources, left : SUBSET XSources]
  /\ waiting \in [XSources -> Nat] /\ changes \in 0 .. MaxChanges

PollingInit ==
  /\ time = 0
  /\ due = [s \in XSources |-> 0] /\ checked = [s \in XSources |-> 0]
  /\ failures = [s \in XSources |-> 0] /\ quiet = [s \in XSources |-> 0]
  /\ unrouted \in SUBSET XSources
  /\ plan = NoPlan /\ waiting = [s \in XSources |-> 0] /\ changes = 0
--------------------------------------------------------------------------------
\* plan(): enabled, with a route, and due.
IsDue(s) == s \notin unrouted /\ due[s] <= time

\* Mutation: the order of the configuration.
IsListedBefore(s, t) == s < t

\* The order of due.sort().
IsBefore(s, t) ==
  \/ due[s] < due[t]
  \/ due[s] = due[t] /\ checked[s] < checked[t]
  \/ due[s] = due[t] /\ checked[s] = checked[t] /\ s < t

\* plan(): the first of those that are due.
Eligible == {s \in XSources : IsDue(s) /\ Cardinality({t \in XSources : IsDue(t) /\ IsBefore(t, s)}) < Budget}

Clamp(interval) ==
  IF interval \in MinInterval .. MaxInterval THEN interval
  ELSE IF interval < MinInterval THEN MinInterval ELSE MaxInterval

\* Mutation: the delay doubles without end.
Uncapped(n) == n

\* Counts beyond the last doubling are not told apart.
Capped(n) == IF n > MaxDoublings THEN MaxDoublings ELSE n

\* resolvePollingIntervalMinutes() on the state after the check: quiet checks are
\* counted once more.
Interval(s, failed, calm, found) ==
  IF s \in Fixed THEN Clamp(FixedInterval)
  ELSE IF failed > 0 THEN Clamp(MinInterval * 2 ^ Capped(failed))
  ELSE IF found THEN MinInterval
  ELSE Clamp(MinInterval * 2 ^ Capped(calm + 1))
--------------------------------------------------------------------------------
ClockTicks ==
  /\ time < MaxClock /\ time' = time + 1
  /\ UNCHANGED <<sourceStates, unrouted, plan, waiting, changes>>

\* The sources of the configuration at this time; execute() fetches those with a route.
PlanSweep ==
  /\ plan = NoPlan /\ Eligible # {}
  /\ plan' = [chosen |-> Eligible, fetched |-> Eligible \ unrouted,
               left |-> {s \in XSources : IsDue(s)} \ Eligible]
  /\ UNCHANGED <<time, sourceStates, unrouted, waiting, changes>>

\* recordResult() for what was fetched.
RecordResults ==
  LET fetched == plan.fetched IN
  /\ plan # NoPlan /\ plan' = NoPlan
  /\ \E failing \in SUBSET fetched, lively \in SUBSET fetched, spread \in -Spread .. Spread :
       /\ failing \cap lively = {}
       /\ failures' = [s \in XSources |-> IF s \in failing THEN Capped(failures[s] + 1)
                                         ELSE IF s \in fetched THEN 0 ELSE failures[s]]
       /\ quiet' = [s \in XSources |-> IF s \in lively THEN 0
                                      ELSE IF s \in fetched \ failing THEN Capped(quiet[s] + 1) ELSE quiet[s]]
       /\ due' = [s \in XSources |-> IF s \in fetched
                                    THEN time + Clamp(Interval(s, failures'[s], quiet'[s], s \in lively) + spread)
                                    ELSE due[s]]
  /\ checked' = [s \in XSources |-> IF s \in fetched THEN time ELSE checked[s]]
  /\ waiting' = [s \in XSources |-> IF s \in plan.left THEN waiting[s] + 1 ELSE 0]
  /\ UNCHANGED <<time, unrouted, changes>>

\* The sweep throws or the process dies: no state is saved.
SweepThrows ==
  /\ plan # NoPlan /\ plan' = NoPlan
  /\ UNCHANGED <<time, sourceStates, unrouted, waiting, changes>>

\* The handlers that switch sources, routes and destinations.
SwitchRoutes(s) ==
  /\ changes < MaxChanges /\ changes' = changes + 1
  /\ unrouted' = IF s \in unrouted THEN unrouted \ {s} ELSE unrouted \cup {s}
  /\ UNCHANGED <<time, sourceStates, plan, waiting>>

PollingNext ==
  \/ ClockTicks \/ PlanSweep \/ RecordResults \/ SweepThrows
  \/ \E s \in XSources : SwitchRoutes(s)

PollingSpec == PollingInit /\ [][PollingNext]_pollingVars
--------------------------------------------------------------------------------
\* adaptive-polling.ts, "a finite request budget cannot starve a due source": sweeps that
\* leave out a source that is due, one after the other, are at most as many as it takes
\* to check the other sources once.
DueSourcesGetTheirTurn == \A s \in XSources : Budget * waiting[s] <= NumSources - 1
================================================================================
