---------------------------- MODULE ActivityPolling ----------------------------
(***************************************************************************)
(* How a tab of the dashboard follows the daemon                           *)
(* (web/src/features/activity/use-activity-polling.ts): three lists are    *)
(* polled on timers, operations of the user change what they show, and     *)
(* answers cross.  A list may be written by the poll that began last, and  *)
(* only if no operation was started since.  What a list shows is the       *)
(* number of changes the server had made when it was read.                 *)
(***************************************************************************)
EXTENDS Naturals
CONSTANTS
  Polls,        \* polls in flight, numbered
  MaxNews       \* bound: changes of the server

ASSUME ActivityAssumption == Polls \subseteq Nat /\ MaxNews \in Nat \ {0}

VARIABLES
  news,         \* changes the server has made
  shown,        \* [Lists -> what the tab shows of each], 0 when it shows nothing
  polls,        \* [Polls -> poll in flight]
  operation,    \* the operation in flight
  session,      \* the server still knows the session
  signedIn      \* the tab holds a session

activityVars == <<news, shown, polls, operation, session, signedIn>>

Lists == {"status", "activity", "queue"}
Operations == {"runNow", "operateQueueItem", "reevaluateQueueItem", "overrideSkipped"}

\* The lists an operation marks before it is sent, and those it reads again.
Marks(op) ==
  CASE op = "runNow" -> {"status"}
    [] op = "overrideSkipped" -> Lists
    [] OTHER -> {"status", "queue"}
Rereads(op) == IF op = "reevaluateQueueItem" THEN {"queue"} ELSE Marks(op)

NoPoll == [list |-> "status", phase |-> "idle", saw |-> 0, latest |-> FALSE, unmarked |-> FALSE]
NoOperation == [op |-> "runNow", phase |-> "idle", rereads |-> {}]

ActivityTypeOK ==
  /\ news \in 0..MaxNews /\ shown \in [Lists -> 0..MaxNews]
  /\ polls \in [Polls -> [list: Lists, phase: {"idle", "sent", "answered"}, saw: 0..MaxNews,
                          latest: BOOLEAN, unmarked: BOOLEAN]]
  /\ operation \in [op: Operations, phase: {"idle", "sent", "answered", "rereads"}, rereads: SUBSET Lists]
  /\ session \in BOOLEAN /\ signedIn \in BOOLEAN

ActivityInit ==
  /\ news = 1 /\ shown = [l \in Lists |-> 0]
  /\ polls = [p \in Polls |-> NoPoll] /\ operation = NoOperation
  /\ session = TRUE /\ signedIn = TRUE

\* (mutant) Every poll may write.
AllCurrent(list) == polls
\* The tokens of earlier polls of the list are out of date.
Outdated(list) == [p \in Polls |-> IF polls[p].list = list THEN [polls[p] EXCEPT !.latest = FALSE] ELSE polls[p]]

Fetch(p, list) ==
  /\ polls[p].phase = "idle" /\ \A q \in Polls : q < p => polls[q].phase # "idle"
  /\ polls' = [Outdated(list) EXCEPT ![p] = [list |-> list, phase |-> "sent", saw |-> 0,
                                             latest |-> TRUE, unmarked |-> TRUE]]

\* The timers run while the tab is visible and its page shows the list, at any
\* time here.
Tick(p) ==
  /\ signedIn
  /\ \E list \in Lists : Fetch(p, list)
  /\ UNCHANGED <<news, shown, operation, session, signedIn>>

Serve(p) ==
  /\ polls[p].phase = "sent" /\ session
  /\ polls' = [polls EXCEPT ![p].phase = "answered", ![p].saw = news]
  /\ UNCHANGED <<news, shown, operation, session, signedIn>>

MayWrite(poll) == poll.latest /\ poll.unmarked

Take(p) ==
  /\ polls[p].phase = "answered"
  /\ shown' = IF MayWrite(polls[p]) THEN [shown EXCEPT ![polls[p].list] = polls[p].saw] ELSE shown
  /\ polls' = [polls EXCEPT ![p] = NoPoll]
  /\ UNCHANGED <<news, operation, session, signedIn>>

\* An error is shown; one of authorization ends the session in this tab, be the
\* session over or the request merely forbidden.
Cleared == [p \in Polls |-> [polls[p] EXCEPT !.latest = FALSE, !.unmarked = FALSE]]

Fail(p) ==
  /\ polls[p].phase = "sent"
  /\ \/ session /\ polls' = [polls EXCEPT ![p] = NoPoll] /\ UNCHANGED <<shown, signedIn>>
     \/ /\ polls' = [Cleared EXCEPT ![p] = NoPoll]
        /\ shown' = [l \in Lists |-> 0] /\ signedIn' = FALSE
  /\ UNCHANGED <<news, operation, session>>

Operate ==
  /\ signedIn /\ operation.phase = "idle"
  /\ \E op \in Operations :
       /\ operation' = [op |-> op, phase |-> "sent", rereads |-> {}]
       /\ polls' = [p \in Polls |-> IF polls[p].list \in Marks(op) THEN [polls[p] EXCEPT !.unmarked = FALSE]
                                    ELSE polls[p]]
  /\ UNCHANGED <<news, shown, session, signedIn>>

\* A refused operation is reported and nothing is read again.
Apply ==
  /\ operation.phase = "sent"
  /\ \/ /\ session /\ news < MaxNews
        /\ news' = news + 1
        /\ operation' = [operation EXCEPT !.phase = "rereads", !.rereads = Rereads(operation.op)]
     \/ operation' = NoOperation /\ UNCHANGED news
  /\ UNCHANGED <<shown, polls, session, signedIn>>

\* The lists are read again by the closure that began the operation, which does
\* not look at the session of the tab any more.
Reread(p) ==
  /\ operation.phase = "rereads"
  /\ \E list \in operation.rereads :
       /\ Fetch(p, list)
       /\ operation' = IF operation.rereads = {list} THEN NoOperation
                       ELSE [operation EXCEPT !.rereads = @ \ {list}]
  /\ UNCHANGED <<news, shown, session, signedIn>>

\* The daemon and other operators.
Change ==
  /\ news < MaxNews /\ news' = news + 1
  /\ UNCHANGED <<shown, polls, operation, session, signedIn>>

SignOut ==
  /\ signedIn /\ session' = FALSE /\ signedIn' = FALSE
  /\ polls' = Cleared /\ shown' = [l \in Lists |-> 0]
  /\ UNCHANGED <<news, operation>>

\* Signing in reads all lists.
SignIn ==
  /\ ~signedIn /\ session' = TRUE /\ signedIn' = TRUE
  /\ UNCHANGED <<news, shown, polls, operation>>

ActivityNext ==
  \/ Operate \/ Apply \/ Change \/ SignOut \/ SignIn
  \/ \E p \in Polls : Tick(p) \/ Serve(p) \/ Take(p) \/ Fail(p) \/ Reread(p)

ActivitySpec == ActivityInit /\ [][ActivityNext]_activityVars

\* A list is only ever replaced by what the server said later, or cleared with
\* the session: no answer that was overtaken is shown.
ListsKeepUp ==
  [][\A l \in Lists : shown'[l] < shown[l] => shown'[l] = 0 /\ ~signedIn']_activityVars
================================================================================
