--------------------------- MODULE ThreadPublication ---------------------------
(***************************************************************************)
(* What delivery promises for the thread of a post, whoever delivers it    *)
(* and however often: a record is published only once the record before it *)
(* in the thread has been acknowledged, a record is acknowledged only when *)
(* it is public, acknowledgements are never taken back, and a post is      *)
(* finished, for good, when its whole thread has been acknowledged.        *)
(***************************************************************************)
EXTENDS Integers

CONSTANTS Posts, NumChunks

VARIABLES published,     \* <<post, chunk>> pairs that are public
          acknowledged,  \* length of the acknowledged part of each thread
          finished       \* posts known to be delivered

tpVars == <<published, acknowledged, finished>>

Init ==
  /\ published = {}
  /\ acknowledged = [q \in Posts |-> 0]
  /\ finished = {}

Publish(q) ==
  /\ acknowledged[q] < NumChunks
  /\ published' = published \cup {<<q, acknowledged[q] + 1>>}
  /\ UNCHANGED <<acknowledged, finished>>

Acknowledge(q) ==
  /\ acknowledged[q] < NumChunks
  /\ <<q, acknowledged[q] + 1>> \in published
  /\ acknowledged' = [acknowledged EXCEPT ![q] = @ + 1]
  /\ UNCHANGED <<published, finished>>

Finish(q) ==
  /\ acknowledged[q] = NumChunks
  /\ finished' = finished \cup {q}
  /\ UNCHANGED <<published, acknowledged>>

Next == \E q \in Posts : Publish(q) \/ Acknowledge(q) \/ Finish(q)

Spec == Init /\ [][Next]_tpVars
================================================================================
