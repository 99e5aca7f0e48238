-------------------------- MODULE DeliveryQueueProofs --------------------------
(***************************************************************************)
(* Theorems about DeliveryQueue for every number of processes,             *)
(* destinations, posts, chunks, renderings, crashes and stalls: types,     *)
(* threads and leases, and then what may happen to the rows of the queue:  *)
(* who settles a claimed row, when it leaves the queue, what it is charged *)
(* for, and that it is not forgotten.                                      *)
(***************************************************************************)
EXTENDS DeliveryQueue, TLAPS, NaturalsInduction, WellFoundedInduction

--------------------------------------------------------------------------------
(***************************************************************************)
(* Least elements: Current and FirstMissing are well defined.              *)
(***************************************************************************)
LEMMA LeastNatural ==
  ASSUME NEW T \in SUBSET Nat, T # {}
  PROVE  \E x \in T : \A y \in T : x <= y
<1> DEFINE R == {ss \in Nat \X Nat : ss[1] < ss[2]}
<1>1. IsWellFoundedOn(R, Nat)
  BY NatLessThanWellFounded DEF OpToRel
<1>2. PICK x \in T : \A y \in T : ~(<<y, x>> \in R)
  <2> HIDE DEF R
  <2> QED BY <1>1, WFMin
<1>3. ASSUME NEW y \in T PROVE x <= y
  <2>1. ~(<<y, x>> \in R) /\ x \in Nat /\ y \in Nat
    BY <1>2
  <2>2. ~(y < x)
    BY <2>1, Zenon DEF R
  <2> QED BY <2>1, <2>2
<1> QED BY <1>3

\* The loop is at a post it has not finished.
LEMMA CurrentIsLeft ==
  ASSUME NEW b, b.todo \subseteq Posts, b.todo # {}
  PROVE  Current(b) \in b.todo
<1>1. \E q \in b.todo : \A x \in b.todo : q <= x
  BY LeastNatural, QueueAssumption
<1> QED BY <1>1 DEF Current

\* firstMissing finds the first gap, or the end of a complete thread.
LEMMA FirstMissingFinds ==
  ASSUME NEW plan
  PROVE  /\ FirstMissing(plan) \in 1 .. NumChunks + 1
         /\ \A c \in Chunks : c < FirstMissing(plan) => plan.uri[c] # None
         /\ FirstMissing(plan) \in Chunks => plan.uri[FirstMissing(plan)] = None
         /\ FirstMissing(plan) \notin Chunks => \A c \in Chunks : plan.uri[c] # None
<1>0. NumChunks \in Nat \ {0}
  BY QueueAssumption
<1> DEFINE Gaps == {c \in Chunks : plan.uri[c] = None}
<1>1. CASE Gaps = {}
  BY <1>0, <1>1 DEF FirstMissing, Chunks
<1>2. CASE Gaps # {}
  <2>1. Gaps \in SUBSET Nat
    BY <1>0 DEF Chunks
  <2>2. \E c \in Gaps : \A e \in Gaps : c <= e
    BY <2>1, <1>2, LeastNatural
  <2>3. \E c \in Chunks : plan.uri[c] = None /\ \A e \in Chunks : plan.uri[e] = None => c <= e
    BY <2>2
  <2>4. FirstMissing(plan) \in Chunks /\ plan.uri[FirstMissing(plan)] = None
        /\ \A e \in Chunks : plan.uri[e] = None => FirstMissing(plan) <= e
    BY <2>3, <1>2 DEF FirstMissing
  <2> QED BY <2>4, <1>0 DEF Chunks
<1> QED BY <1>1, <1>2
--------------------------------------------------------------------------------
(***************************************************************************)
(* Types.  A batch can be acted on in its phase: a post that is being      *)
(* delivered is left to do, a chunk that is sent has a plan.  A plan has a *)
(* stamp, and only parked rows have used up their attempts.                *)
(***************************************************************************)
SoundBatch(b) ==
  /\ b \in Batch
  /\ b.todo \subseteq b.items
  /\ b.phase \in {"prepare", "send", "sent", "finalize"} => b.todo # {}
  /\ b.phase \in {"send", "sent"} => b.chunk \in Chunks /\ b.content \in Contents /\ b.stamp \in Stamps

BatchesAreSound == \A p \in Runtimes, d \in Destinations : SoundBatch(batch[p][d])

PlansHaveStamps ==
  \A q \in Posts : IF checkpoint[q].content = None THEN \A c \in Chunks : ~IsRecorded(q, c)
                   ELSE checkpoint[q].stamp # None

AttemptsAreLeft == \A q \in Posts : row[q].status # "failed" => row[q].attempts < MaxAttempts

TypeInv == TypeOK /\ BatchesAreSound /\ PlansHaveStamps /\ AttemptsAreLeft

\* The same by variable: most actions leave three of the four parts alone.
BatchPart == batch \in [Runtimes -> [Destinations -> Batch]] /\ BatchesAreSound
PlanPart  == checkpoint \in [Posts -> Plan] /\ PlansHaveStamps
RowPart   == row \in [Posts -> Row] /\ AttemptsAreLeft
OtherPart ==
  /\ lease \in [Destinations -> Runtimes \cup {Nobody, Former}]
  /\ history \in [Posts -> {"none", "skipped", "staleSkip", "migrated"}]
  /\ wire \subseteq Record /\ feed \subseteq Record
  /\ paused \subseteq Destinations
  /\ runtime \in [Runtimes -> {"up", "stopping", "down"}]
  /\ choosing \in [Runtimes -> Routes \cup {NoRoute}]
  /\ restarts \in 0 .. MaxRestarts /\ stalls \in 0 .. MaxStalls

LEMMA TypeParts == TypeInv <=> BatchPart /\ PlanPart /\ RowPart /\ OtherPart
BY DEF TypeInv, TypeOK, LeaseTypeOK, BatchPart, PlanPart, RowPart, OtherPart

LEMMA TypePartsPrimed == TypeInv' <=> BatchPart' /\ PlanPart' /\ RowPart' /\ OtherPart'
BY DEF TypeInv, TypeOK, LeaseTypeOK, BatchPart, PlanPart, RowPart, OtherPart

LEMMA KeepParts ==
  /\ BatchPart /\ UNCHANGED batch => BatchPart'
  /\ PlanPart /\ UNCHANGED checkpoint => PlanPart'
  /\ RowPart /\ UNCHANGED row => RowPart'
  /\ OtherPart /\ UNCHANGED <<lease, history, network, paused, runtime, choosing, bounds>> => OtherPart'
BY DEF BatchPart, BatchesAreSound, PlanPart, PlansHaveStamps, IsRecorded, RowPart, AttemptsAreLeft, OtherPart,
       network, bounds

LEMMA SetBatchSound ==
  ASSUME TypeOK, BatchesAreSound, NEW p \in Runtimes, NEW d \in Destinations,
         NEW b, SoundBatch(b), SetBatch(p, d, b)
  PROVE  /\ batch' \in [Runtimes -> [Destinations -> Batch]] /\ BatchesAreSound'
         /\ batch'[p][d] = b
         /\ \A x \in Runtimes, y \in Destinations : <<x, y>> # <<p, d>> => batch'[x][y] = batch[x][y]
BY DEF TypeOK, BatchesAreSound, SoundBatch, SetBatch

LEMMA NoBatchSound == SoundBatch(NoBatch)
BY DEF SoundBatch, NoBatch, Batch, Phases

LEMMA ForgetSound ==
  ASSUME NEW b, SoundBatch(b)
  PROVE  Forget(b) \in Batch /\ Forget(b).todo = b.todo /\ Forget(b).items = b.items
BY DEF SoundBatch, Forget, Batch

LEMMA ThrowSound ==
  ASSUME TypeOK, BatchesAreSound, NEW p \in Runtimes, NEW d \in Destinations,
         NEW b, SoundBatch(b), NEW kind \in {"failure", "rateLimit", "namedRateLimit"}, Throw(p, d, b, kind)
  PROVE  batch' \in [Runtimes -> [Destinations -> Batch]] /\ BatchesAreSound'
<1> DEFINE n == [Forget(b) EXCEPT !.phase = "settle", !.todo = {}, !.error = kind]
<1>1. SoundBatch(n)
  BY ForgetSound DEF SoundBatch, Batch, Phases
<1>2. SetBatch(p, d, n)
  BY DEF Throw
<1> QED BY <1>1, <1>2, SetBatchSound

LEMMA AdvanceSound ==
  ASSUME TypeOK, BatchesAreSound, NEW p \in Runtimes, NEW d \in Destinations,
         NEW b, SoundBatch(b), Advance(p, d, b)
  PROVE  batch' \in [Runtimes -> [Destinations -> Batch]] /\ BatchesAreSound'
<1> DEFINE n == [Forget(b) EXCEPT !.phase = "next", !.todo = @ \ {Current(b)}]
<1>1. SoundBatch(n)
  BY ForgetSound DEF SoundBatch, Batch, Phases
<1>2. SetBatch(p, d, n)
  BY DEF Advance
<1> QED BY <1>1, <1>2, SetBatchSound

LEMMA RefusedSound ==
  ASSUME TypeOK, BatchesAreSound, NEW p \in Runtimes, NEW d \in Destinations, Refused(p, d)
  PROVE  batch' \in [Runtimes -> [Destinations -> Batch]] /\ BatchesAreSound'
<1> DEFINE b == batch[p][d]
           n == [b EXCEPT !.signal = IF @ = "none" THEN "lost" ELSE @]
<1>1. SoundBatch(b)
  BY DEF BatchesAreSound
<1>2. SoundBatch(n)
  BY <1>1 DEF SoundBatch, Batch
<1>3. Throw(p, d, n, "failure")
  BY DEF Refused
<1> QED BY <1>2, <1>3, ThrowSound

\* Abandoned rows return to the queue with the attempts they have.
LEMMA ResetRows ==
  ASSUME TypeOK
  PROVE  /\ AfterReset \in [Posts -> Row]
         /\ \A q \in Posts : AfterReset[q].attempts = row[q].attempts
                             /\ (AfterReset[q].status = "failed" <=> row[q].status = "failed")
BY ZenonT(30) DEF TypeOK, AfterReset, Row

\* What settling makes of a row.
LEMMA SettledRows ==
  ASSUME TypeInv, NEW b, NEW q \in Posts,
         b.error \in {"none", "failure", "rateLimit", "namedRateLimit"}
  PROVE  SettledRow(b, q) \in Row /\ (SettledRow(b, q).status # "failed" => SettledRow(b, q).attempts < MaxAttempts)
<1>0. MaxAttempts \in Nat \ {0}
  BY QueueAssumption
<1>1. row[q] \in Row /\ (row[q].status # "failed" => row[q].attempts < MaxAttempts)
  BY DEF TypeInv, TypeOK, AttemptsAreLeft
<1>2. CASE q \notin b.items \/ row[q].status # "processing"
  BY <1>1, <1>2 DEF SettledRow
<1>3. CASE q \in b.items /\ row[q].status = "processing" /\ IsSettled(q)
  BY <1>0, <1>3 DEF SettledRow, NoRow, Row
<1>4. CASE q \in b.items /\ row[q].status = "processing" /\ ~IsSettled(q) /\ q \notin b.attempted
  <2>1. SettledRow(b, q) = DeferralOf(row[q], b.error)
    BY <1>4 DEF SettledRow
  <2> QED BY <2>1, <1>1, <1>4 DEF DeferralOf, ReadsAsRateLimit, Row
<1>5. CASE q \in b.items /\ row[q].status = "processing" /\ ~IsSettled(q) /\ q \in b.attempted
  <2>1. SettledRow(b, q) = RetryOf(row[q], b.error)
    BY <1>5 DEF SettledRow
  <2>2. Failed(row[q], b.error) \in Row /\ Failed(row[q], b.error).attempts = row[q].attempts
    BY <1>1 DEF Failed, ReadsAsRateLimit, Row
  <2>3. CASE IsFree(row[q], b.error)
    BY <2>1, <2>2, <2>3, <1>1, <1>5 DEF RetryOf, Row
  <2>4. CASE ~IsFree(row[q], b.error)
    <3> DEFINE f == Failed(row[q], b.error)
               n == row[q].attempts + 1
    <3>1. n \in 0 .. MaxAttempts /\ f \in Row /\ f.attempts + 1 = n
      BY <2>2, <1>0, <1>1, <1>5 DEF Row
    <3>2. SettledRow(b, q) = [f EXCEPT !.attempts = n, !.status = IF n >= MaxAttempts THEN "failed" ELSE "waiting"]
      <4>1. RetryOf(row[q], b.error)
              = [f EXCEPT !.attempts = f.attempts + 1, !.status = IF n >= MaxAttempts THEN "failed" ELSE "waiting"]
        BY <2>4 DEF RetryOf
      <4> QED BY <2>1, <3>1, <4>1
    <3> DEFINE s == IF n >= MaxAttempts THEN "failed" ELSE "waiting"
    <3> HIDE DEF f, n
    <3>3. s \in {"failed", "waiting"} /\ (s # "failed" => n < MaxAttempts)
      BY <3>1, <1>0
    <3> HIDE DEF s
    <3>4. SettledRow(b, q) = [f EXCEPT !.attempts = n, !.status = s]
      BY <3>2 DEF s
    <3> QED BY <3>1, <3>3, <3>4 DEF Row
  <2> QED BY <2>3, <2>4
<1> QED BY <1>2, <1>3, <1>4, <1>5
--------------------------------------------------------------------------------
(***************************************************************************)
(* Every action keeps the types.                                           *)
(***************************************************************************)
LEMMA ProducersKeepTypes ==
  ASSUME TypeInv, NEW q \in Posts,
         \/ Enqueue(q) \/ OverrideSkip(q) \/ RemoveRow(q) \/ RetryFailed(q) \/ BackoffElapses(q) \/ DayElapses(q)
  PROVE  TypeInv'
<1> USE DEF durable, network, process, bounds
<1>0. MaxAttempts \in Nat \ {0}
  BY QueueAssumption
<1>1. BatchPart /\ PlanPart /\ RowPart /\ OtherPart
  BY TypeParts
<1>2. row[q] \in Row /\ NoRow \in Row /\ NewRow \in Row /\ NewRow.attempts = 0 /\ NoRow.attempts = 0
  <2>1. 0 \in 0 .. MaxAttempts
    BY <1>0
  <2>2. NoRow \in Row /\ NoRow.attempts = 0
    BY <2>1 DEF NoRow, Row
  <2>3. NewRow \in Row /\ NewRow.attempts = 0
    BY <2>2 DEF NewRow, Row
  <2> QED BY <1>1, <2>2, <2>3 DEF RowPart
<1>3. UNCHANGED <<batch, checkpoint>>
  BY DEF Enqueue, OverrideSkip, RemoveRow, RetryFailed, BackoffElapses, DayElapses
<1>4. RowPart'
  <2>1. CASE Enqueue(q)
    BY <1>0, <1>1, <1>2, <2>1 DEF RowPart, AttemptsAreLeft, Enqueue
  <2>2. CASE OverrideSkip(q)
    BY <1>0, <1>1, <1>2, <2>2 DEF RowPart, AttemptsAreLeft, OverrideSkip
  <2>3. CASE RemoveRow(q)
    BY <1>0, <1>1, <1>2, <2>3 DEF RowPart, AttemptsAreLeft, RemoveRow
  <2>4. CASE RetryFailed(q)
    <3> DEFINE n == [row[q] EXCEPT !.status = "pending", !.attempts = 0]
    <3>1. n \in Row /\ n.attempts = 0
      BY <1>0, <1>2 DEF Row
    <3>2. row' = [row EXCEPT ![q] = n]
      BY <1>1, <2>4 DEF RowPart, RetryFailed
    <3> HIDE DEF n
    <3> QED BY <1>0, <1>1, <3>1, <3>2 DEF RowPart, AttemptsAreLeft
  <2>5. CASE BackoffElapses(q)
    BY <1>0, <1>1, <1>2, <2>5 DEF RowPart, AttemptsAreLeft, BackoffElapses, Row
  <2>6. CASE DayElapses(q)
    BY <1>0, <1>1, <1>2, <2>6 DEF RowPart, AttemptsAreLeft, DayElapses, Row
  <2> QED BY <2>1, <2>2, <2>3, <2>4, <2>5, <2>6
<1>5. OtherPart'
  <2>1. history' \in [Posts -> {"none", "skipped", "staleSkip", "migrated"}]
    BY <1>1 DEF OtherPart, Enqueue, OverrideSkip, RemoveRow, RetryFailed, BackoffElapses, DayElapses
  <2>2. UNCHANGED <<lease, wire, feed, paused, runtime, choosing, restarts, stalls>>
    BY DEF Enqueue, OverrideSkip, RemoveRow, RetryFailed, BackoffElapses, DayElapses
  <2> QED BY <1>1, <2>1, <2>2 DEF OtherPart
<1> QED BY <1>1, <1>3, <1>4, <1>5, KeepParts, TypePartsPrimed

LEMMA ClaimsKeepTypes ==
  ASSUME TypeInv, NEW p \in Runtimes, ChooseRoute(p) \/ FindNothing(p) \/ ClaimRoute(p)
  PROVE  TypeInv'
<1> USE DEF durable, network, process, bounds
<1>1. BatchPart /\ PlanPart /\ RowPart /\ OtherPart
  BY TypeParts
<1>2. UNCHANGED checkpoint
  BY DEF ChooseRoute, FindNothing, ClaimRoute
<1>3. CASE ChooseRoute(p) \/ FindNothing(p)
  <2>1. RowPart'
    BY <1>1, <1>3, ResetRows DEF TypeInv, RowPart, AttemptsAreLeft, ChooseRoute, FindNothing
  <2>2. UNCHANGED batch
    BY <1>3 DEF ChooseRoute, FindNothing
  <2>3. OtherPart'
    BY <1>1, <1>3 DEF OtherPart, ChooseRoute, FindNothing
  <2> QED BY <1>1, <1>2, <2>1, <2>2, <2>3, KeepParts, TypePartsPrimed
<1>4. CASE ClaimRoute(p)
  <2> DEFINE r == choosing[p]
             d == DestinationOf[r]
             b == [NoBatch EXCEPT !.phase = "login", !.items = Claimed(r), !.todo = Claimed(r)]
  <2>1. r \in Routes /\ d \in Destinations
    BY <1>1, <1>4, QueueAssumption DEF OtherPart, ClaimRoute
  <2>2. choosing' \in [Runtimes -> Routes \cup {NoRoute}]
    BY <1>1, <1>4 DEF OtherPart, ClaimRoute
  <2>3. UNCHANGED <<history, wire, feed, paused, runtime, restarts, stalls>>
    BY <1>4 DEF ClaimRoute
  <2>4. CASE CanAcquire(p, d) /\ Claimed(r) # {}
    <3>1. Acquire(p, d) /\ SetBatch(p, d, b)
          /\ row' = [q \in Posts |-> IF q \in Claimed(r) THEN [row[q] EXCEPT !.status = "processing"] ELSE row[q]]
      BY <1>4, <2>4 DEF ClaimRoute
    <3>2. Claimed(r) \subseteq Posts /\ \A q \in Claimed(r) : row[q].status = "pending"
      BY DEF Claimed, Pending
    <3>3. SoundBatch(b)
      BY <3>2, NoBatchSound DEF SoundBatch, Batch, Phases
    <3>4. BatchPart'
      BY <1>1, <2>1, <3>1, <3>3, SetBatchSound DEF TypeInv, BatchPart
    <3>5. RowPart'
      BY <1>1, <3>1, <3>2 DEF RowPart, AttemptsAreLeft, Row
    <3>6. OtherPart'
      BY <1>1, <2>1, <2>2, <2>3, <3>1 DEF OtherPart, Acquire
    <3> QED BY <1>1, <1>2, <3>4, <3>5, <3>6, KeepParts, TypePartsPrimed
  <2>5. CASE ~(CanAcquire(p, d) /\ Claimed(r) # {})
    <3>1. UNCHANGED <<lease, row, batch>>
      BY <1>4, <2>5 DEF ClaimRoute
    <3>2. OtherPart'
      BY <1>1, <2>2, <2>3, <3>1 DEF OtherPart
    <3> QED BY <1>1, <1>2, <3>1, <3>2, KeepParts, TypePartsPrimed
  <2> QED BY <2>4, <2>5
<1> QED BY <1>3, <1>4

\* The steps of a delivery that write nothing but the state of the batch.
LEMMA BatchStepsKeepTypes ==
  ASSUME TypeInv, NEW p \in Runtimes, NEW d \in Destinations,
         \/ LoginSucceeds(p, d) \/ LoginFails(p, d) \/ NextPost(p, d)
         \/ PrepareFails(p, d) \/ SendFails(p, d) \/ DeadlinePasses(p, d)
  PROVE  TypeInv'
<1> USE DEF durable, network, process, bounds
<1> DEFINE b == batch[p][d]
<1>1. BatchPart /\ PlanPart /\ RowPart /\ OtherPart
  BY TypeParts
<1>2. UNCHANGED <<checkpoint, row, lease, history, wire, feed, paused, runtime, choosing, restarts, stalls>>
  BY DEF LoginSucceeds, LoginFails, NextPost, PrepareFails, SendFails, DeadlinePasses
<1>3. SoundBatch(b) /\ TypeOK /\ BatchesAreSound
  BY DEF TypeInv, BatchesAreSound
<1>4. BatchPart'
  <2>1. CASE LoginSucceeds(p, d)
    <3> DEFINE n == [b EXCEPT !.phase = "next", !.todo = TakenUp(@), !.attempted = b.items \cap CorruptPosts]
    <3>1. TakenUp(b.todo) \subseteq b.todo
      BY DEF TakenUp
    <3>2. SoundBatch(n)
      BY <1>3, <3>1 DEF SoundBatch, Batch, Phases
    <3> QED BY <1>3, <2>1, <3>2, SetBatchSound DEF LoginSucceeds, BatchPart
  <2>2. CASE LoginFails(p, d)
    BY <1>3, <2>2, QueueAssumption, ThrowSound DEF LoginFails, BatchPart
  <2>3. CASE PrepareFails(p, d) \/ SendFails(p, d)
    BY <1>3, <2>3, QueueAssumption, ThrowSound DEF PrepareFails, SendFails, BatchPart
  <2>4. CASE DeadlinePasses(p, d)
    <3> DEFINE n == [b EXCEPT !.signal = "aborted"]
    <3>1. SoundBatch(n)
      BY <1>3 DEF SoundBatch, Batch
    <3> QED BY <1>3, <2>4, <3>1, SetBatchSound DEF DeadlinePasses, BatchPart
  <2>5. CASE NextPost(p, d)
    <3> DEFINE q == Current(b)
               tried == [b EXCEPT !.attempted = @ \cup {q}]
               begun == [b EXCEPT !.attempted = @ \cup {q}, !.phase = "prepare"]
               done  == [b EXCEPT !.phase = "settle"]
    <3>1. CASE b.todo = {} /\ SetBatch(p, d, done)
      <4>1. SoundBatch(done)
        BY <1>3 DEF SoundBatch, Batch, Phases
      <4> QED BY <1>3, <3>1, <4>1, SetBatchSound DEF BatchPart
    <3>2. CASE b.todo # {} /\ Advance(p, d, tried)
      <4>1. q \in Posts
        BY <1>3, <3>2, CurrentIsLeft DEF SoundBatch, Batch
      <4>2. SoundBatch(tried)
        BY <1>3, <2>5, <4>1 DEF SoundBatch, Batch, NextPost
      <4> QED BY <1>3, <3>2, <4>2, AdvanceSound DEF BatchPart
    <3>3. CASE b.todo # {} /\ SetBatch(p, d, begun)
      <4>1. q \in Posts
        BY <1>3, <3>3, CurrentIsLeft DEF SoundBatch, Batch
      <4>2. SoundBatch(begun)
        BY <1>3, <3>3, <4>1 DEF SoundBatch, Batch, Phases
      <4> QED BY <1>3, <3>3, <4>2, SetBatchSound DEF BatchPart
    <3>4. CASE Refused(p, d)
      BY <1>3, <3>4, RefusedSound DEF BatchPart
    <3> QED BY <2>5, <3>1, <3>2, <3>3, <3>4 DEF NextPost
  <2> QED BY <2>1, <2>2, <2>3, <2>4, <2>5
<1> QED BY <1>1, <1>2, <1>4, KeepParts, TypePartsPrimed

LEMMA SkipKeepsTypes ==
  ASSUME TypeInv, NEW p \in Runtimes, NEW d \in Destinations, SkipPost(p, d)
  PROVE  TypeInv'
<1>1. BatchPart /\ PlanPart /\ RowPart /\ OtherPart
  BY TypeParts
<1>2. TypeOK /\ BatchesAreSound /\ SoundBatch(batch[p][d])
  BY DEF TypeInv, BatchesAreSound
<1>3. BatchPart'
  BY <1>2, AdvanceSound, RefusedSound DEF SkipPost, BatchPart
<1>4. history' \in [Posts -> {"none", "skipped", "staleSkip", "migrated"}]
  BY <1>1 DEF SkipPost, OtherPart
<1>5. UNCHANGED <<checkpoint, row, lease, wire, feed, paused, runtime, choosing, restarts, stalls>>
  BY DEF SkipPost, network, bounds
<1>6. OtherPart'
  BY <1>1, <1>4, <1>5 DEF OtherPart
<1> QED BY <1>1, <1>3, <1>5, <1>6, KeepParts, TypePartsPrimed

\* The plan that initialize leaves for a rendering.
LEMMA PlanOfRendering ==
  ASSUME TypeInv, NEW q \in Posts, NEW content \in Contents, NEW stamp \in Stamps
  PROVE  LET plan == InitializedPlan(checkpoint[q], content, stamp) IN
         /\ plan \in Plan /\ plan.content = content /\ plan.stamp \in Stamps
         /\ ~Mismatch(q, content) => \A c \in Chunks : IsRecorded(q, c) => plan.uri[c] = checkpoint[q].uri[c]
<1>1. checkpoint[q] \in Plan /\ NoPlan \in Plan /\ None \notin Contents /\ None \notin Stamps
  BY QueueAssumption DEF TypeInv, TypeOK, Plan, NoPlan
<1>2. checkpoint[q].content # None => checkpoint[q].stamp \in Stamps
  BY <1>1 DEF TypeInv, PlansHaveStamps, Plan
<1>3. CASE checkpoint[q].content = content
  BY <1>1, <1>2, <1>3 DEF InitializedPlan
<1>4. CASE checkpoint[q].content # content
  <2>1. InitializedPlan(checkpoint[q], content, stamp) = [NoPlan EXCEPT !.content = content, !.stamp = stamp]
    BY <1>4 DEF InitializedPlan
  <2>2. ~Mismatch(q, content) => \A c \in Chunks : ~IsRecorded(q, c)
    BY <1>4 DEF Mismatch, TypeInv, PlansHaveStamps
  <2> QED BY <1>1, <2>1, <2>2 DEF Plan
<1> QED BY <1>3, <1>4

LEMMA PlanningKeepsTypes ==
  ASSUME TypeInv, NEW p \in Runtimes, NEW d \in Destinations, InitializeThread(p, d)
  PROVE  TypeInv'
<1> DEFINE b == batch[p][d]
           q == Current(b)
<1>1. BatchPart /\ PlanPart /\ RowPart /\ OtherPart
  BY TypeParts
<1>2. TypeOK /\ BatchesAreSound /\ SoundBatch(b)
  BY DEF TypeInv, BatchesAreSound
<1>3. b.phase = "prepare" /\ b.todo # {}
  BY <1>2 DEF InitializeThread, SoundBatch
<1>4. q \in Posts
  BY <1>2, <1>3, CurrentIsLeft DEF SoundBatch, Batch
<1>5. UNCHANGED <<row, lease, history, wire, feed, paused, runtime, choosing, restarts, stalls>>
  BY DEF InitializeThread, network, bounds
<1>6. PICK content \in Contents, stamp \in Stamps :
        LET plan == InitializedPlan(checkpoint[q], content, stamp) IN
        IF Mismatch(q, content)
        THEN Throw(p, d, b, "failure") /\ UNCHANGED checkpoint
        ELSE /\ checkpoint' = [checkpoint EXCEPT ![q] = plan]
             /\ SetBatch(p, d, [b EXCEPT !.content = content, !.stamp = plan.stamp,
                                         !.chunk = FirstMissing(plan),
                                         !.phase = IF FirstMissing(plan) \in Chunks THEN "send" ELSE "finalize"])
  BY DEF InitializeThread
<1> DEFINE plan == InitializedPlan(checkpoint[q], content, stamp)
           first == FirstMissing(plan)
           n == [b EXCEPT !.content = content, !.stamp = plan.stamp, !.chunk = first,
                          !.phase = IF first \in Chunks THEN "send" ELSE "finalize"]
<1>7. CASE Mismatch(q, content)
  BY <1>1, <1>2, <1>5, <1>6, <1>7, ThrowSound, KeepParts, TypePartsPrimed DEF BatchPart, network, bounds
<1>8. CASE ~Mismatch(q, content)
  <2>1. checkpoint' = [checkpoint EXCEPT ![q] = plan] /\ SetBatch(p, d, n)
    BY <1>6, <1>8
  <2>2. plan \in Plan /\ plan.content = content /\ plan.stamp \in Stamps /\ None \notin Contents /\ None \notin Stamps
    BY ZenonT(30), <1>4, PlanOfRendering, QueueAssumption
  <2>3. first \in Nat
    BY FirstMissingFinds, QueueAssumption
  <2>4. SoundBatch(n)
    <3> HIDE DEF plan, first
    <3> QED BY <1>2, <1>3, <2>2, <2>3 DEF SoundBatch, Batch, Phases
  <2>5. BatchPart'
    BY <1>2, <2>1, <2>4, SetBatchSound DEF BatchPart
  <2>6. PlanPart'
    <3> HIDE DEF plan
    <3> QED BY <1>1, <1>4, <2>1, <2>2 DEF PlanPart, PlansHaveStamps, IsRecorded
  <2> QED BY <1>1, <1>5, <2>5, <2>6, KeepParts, TypePartsPrimed DEF network, bounds
<1> QED BY <1>7, <1>8

LEMMA SendKeepsTypes ==
  ASSUME TypeInv, NEW p \in Runtimes, NEW d \in Destinations, SendChunk(p, d)
  PROVE  TypeInv'
<1> DEFINE b == batch[p][d]
           n == [b EXCEPT !.phase = "sent"]
<1>1. BatchPart /\ PlanPart /\ RowPart /\ OtherPart
  BY TypeParts
<1>2. TypeOK /\ BatchesAreSound /\ SoundBatch(b)
  BY DEF TypeInv, BatchesAreSound
<1>3. b.phase \in {"send", "sent"}
  BY DEF SendChunk
<1>4. Current(b) \in Posts
  BY <1>2, <1>3, CurrentIsLeft DEF SoundBatch, Batch
<1>5. ChunkRecord(b) \in Record
  BY <1>2, <1>3, <1>4 DEF SoundBatch, ChunkRecord, Record
<1>6. SoundBatch(n)
  BY <1>2, <1>3 DEF SoundBatch, Batch, Phases
<1>7. BatchPart'
  BY <1>2, <1>6, SetBatchSound, RefusedSound DEF SendChunk, BatchPart
<1>8. wire' \subseteq Record
  BY <1>1, <1>5 DEF SendChunk, OtherPart
<1>9. UNCHANGED <<row, checkpoint, lease, history, feed, paused, runtime, choosing, restarts, stalls>>
  BY DEF SendChunk, durable, bounds
<1>10. OtherPart'
  BY <1>1, <1>8, <1>9 DEF OtherPart
<1> QED BY <1>1, <1>7, <1>9, <1>10, KeepParts, TypePartsPrimed

LEMMA RecordingKeepsTypes ==
  ASSUME TypeInv, NEW p \in Runtimes, NEW d \in Destinations, RecordChunk(p, d)
  PROVE  TypeInv'
<1> DEFINE b == batch[p][d]
           q == Current(b)
           n == [b EXCEPT !.phase = IF b.chunk < NumChunks THEN "send" ELSE "finalize", !.chunk = @ + 1]
<1>1. BatchPart /\ PlanPart /\ RowPart /\ OtherPart
  BY TypeParts
<1>2. TypeOK /\ BatchesAreSound /\ SoundBatch(b) /\ b.phase = "sent"
  BY DEF TypeInv, BatchesAreSound, RecordChunk
<1>3. q \in Posts
  BY <1>2, CurrentIsLeft DEF SoundBatch, Batch
<1>4. UNCHANGED <<row, lease, history, wire, feed, paused, runtime, choosing, restarts, stalls>>
  BY DEF RecordChunk, network, bounds
<1>5. CASE /\ checkpoint[q].content # None
           /\ checkpoint' = [checkpoint EXCEPT ![q].uri[b.chunk] = b.stamp]
           /\ SetBatch(p, d, n)
  <2>1. b.chunk \in Chunks /\ b.stamp \in Stamps /\ NumChunks \in Nat
    BY <1>2, QueueAssumption DEF SoundBatch
  <2>2. SoundBatch(n)
    <3> DEFINE next == IF b.chunk < NumChunks THEN "send" ELSE "finalize"
               c == b.chunk + 1
    <3>1. c \in Nat /\ (next = "send" => c \in Chunks) /\ next \in {"send", "finalize"}
      BY <2>1 DEF Chunks
    <3>2. n = [b EXCEPT !.phase = next, !.chunk = c]
      BY <2>1
    <3> HIDE DEF next, c, n
    <3>3. b \in Batch /\ b.todo \subseteq b.items /\ b.todo # {} /\ b.content \in Contents /\ b.stamp \in Stamps
      BY <1>2 DEF SoundBatch
    <3> QED BY <3>1, <3>2, <3>3 DEF SoundBatch, Batch, Phases
  <2>3. BatchPart'
    BY <1>2, <1>5, <2>2, SetBatchSound DEF BatchPart
  <2>4. PlanPart'
    BY <1>1, <1>3, <1>5, <2>1 DEF PlanPart, PlansHaveStamps, IsRecorded, Plan
  <2> QED BY <1>1, <1>4, <2>3, <2>4, KeepParts, TypePartsPrimed DEF network, bounds
<1>6. CASE UNCHANGED checkpoint /\ (Throw(p, d, b, "failure") \/ Refused(p, d))
  <2>1. BatchPart'
    BY <1>2, <1>6, ThrowSound, RefusedSound DEF BatchPart
  <2> QED BY <1>1, <1>4, <1>6, <2>1, KeepParts, TypePartsPrimed DEF network, bounds
<1> QED BY <1>5, <1>6 DEF RecordChunk

LEMMA FinalizingKeepsTypes ==
  ASSUME TypeInv, NEW p \in Runtimes, NEW d \in Destinations, FinalizePost(p, d)
  PROVE  TypeInv'
<1> DEFINE b == batch[p][d]
           q == Current(b)
<1>0. MaxAttempts \in Nat \ {0}
  BY QueueAssumption
<1>1. BatchPart /\ PlanPart /\ RowPart /\ OtherPart
  BY TypeParts
<1>2. TypeOK /\ BatchesAreSound /\ SoundBatch(b)
  BY DEF TypeInv, BatchesAreSound
<1>3. BatchPart'
  BY <1>2, ThrowSound, AdvanceSound, RefusedSound DEF FinalizePost, BatchPart
<1>4. RowPart'
  <2>1. NoRow \in Row /\ NoRow.attempts < MaxAttempts
    BY <1>0 DEF NoRow, Row
  <2> QED BY <1>1, <2>1 DEF FinalizePost, RowPart, AttemptsAreLeft
<1>5. history' \in [Posts -> {"none", "skipped", "staleSkip", "migrated"}]
  BY <1>1 DEF FinalizePost, OtherPart
<1>6. UNCHANGED <<checkpoint, lease, wire, feed, paused, runtime, choosing, restarts, stalls>>
  BY DEF FinalizePost, network, bounds
<1>7. OtherPart'
  BY <1>1, <1>5, <1>6 DEF OtherPart
<1> QED BY <1>1, <1>3, <1>4, <1>6, <1>7, KeepParts, TypePartsPrimed

LEMMA SettlingKeepsTypes ==
  ASSUME TypeInv, NEW p \in Runtimes, NEW d \in Destinations, SettleBatch(p, d) \/ ReleaseBatch(p, d)
  PROVE  TypeInv'
<1> DEFINE b == batch[p][d]
           n == [NoBatch EXCEPT !.phase = "release"]
<1>1. BatchPart /\ PlanPart /\ RowPart /\ OtherPart
  BY TypeParts
<1>2. TypeOK /\ BatchesAreSound /\ SoundBatch(b)
  BY DEF TypeInv, BatchesAreSound
<1>3. SoundBatch(n)
  BY NoBatchSound DEF SoundBatch, Batch, Phases, NoBatch
<1>4. BatchPart'
  BY <1>2, <1>3, NoBatchSound, SetBatchSound DEF SettleBatch, ReleaseBatch, BatchPart
<1>5. RowPart'
  <2>1. CASE row' = [q \in Posts |-> SettledRow(b, q)]
    <3>1. \A q \in Posts : SettledRow(b, q) \in Row
            /\ (SettledRow(b, q).status # "failed" => SettledRow(b, q).attempts < MaxAttempts)
      BY <1>2, SettledRows DEF SoundBatch, Batch
    <3> QED BY <2>1, <3>1 DEF RowPart, AttemptsAreLeft
  <2>2. CASE UNCHANGED row
    BY <1>1, <2>2, KeepParts
  <2> QED BY <2>1, <2>2 DEF SettleBatch, ReleaseBatch
<1>6. UNCHANGED <<checkpoint, history, wire, feed, paused, runtime, choosing, restarts, stalls>>
  BY DEF SettleBatch, ReleaseBatch, network, bounds
<1>7. lease' \in [Destinations -> Runtimes \cup {Nobody, Former}]
  BY <1>1 DEF SettleBatch, ReleaseBatch, ReleaseLease, OtherPart
<1>8. OtherPart'
  BY <1>1, <1>6, <1>7 DEF OtherPart
<1> QED BY <1>1, <1>4, <1>5, <1>6, <1>8, KeepParts, TypePartsPrimed

LEMMA ProcessesKeepTypes ==
  ASSUME TypeInv, NEW p \in Runtimes,
         RenewLeases(p) \/ StopRuntime(p) \/ ExitRuntime(p) \/ Crash(p) \/ StartRuntime(p)
  PROVE  TypeInv'
<1> USE DEF durable, network, process, bounds
<1>1. BatchPart /\ PlanPart /\ RowPart /\ OtherPart
  BY TypeParts
<1>2. TypeOK /\ BatchesAreSound /\ \A d \in Destinations : SoundBatch(batch[p][d])
  BY DEF TypeInv, BatchesAreSound
<1>3. UNCHANGED <<checkpoint, history, wire, feed, paused, stalls>>
  BY DEF RenewLeases, StopRuntime, ExitRuntime, Crash, StartRuntime
<1>4. \A d \in Destinations, signal \in {"aborted", "lost"} : SoundBatch([batch[p][d] EXCEPT !.signal = signal])
  BY <1>2 DEF SoundBatch, Batch
<1>5. BatchPart'
  <2>1. CASE RenewLeases(p)
    BY ZenonT(30), <1>1, <1>2, <1>4, <2>1 DEF RenewLeases, BatchPart, BatchesAreSound, SoundBatch
  <2>2. CASE StopRuntime(p)
    BY ZenonT(30), <1>1, <1>2, <1>4, <2>2 DEF StopRuntime, BatchPart, BatchesAreSound, SoundBatch
  <2>3. CASE ExitRuntime(p) \/ StartRuntime(p)
    BY <1>1, <2>3, KeepParts DEF ExitRuntime, StartRuntime
  <2>4. CASE Crash(p)
    BY <1>1, <2>4, NoBatchSound DEF Crash, BatchPart, BatchesAreSound, SoundBatch
  <2> QED BY <2>1, <2>2, <2>3, <2>4
<1>6. RowPart'
  <2>1. CASE StartRuntime(p)
    <3>1. PICK expired \in SUBSET {q \in Posts : row[q].status = "failed"} :
            row' = [q \in Posts |-> IF q \in expired THEN NoRow ELSE AfterReset[q]]
      BY <2>1 DEF StartRuntime
    <3>2. NoRow \in Row /\ NoRow.attempts < MaxAttempts
      BY QueueAssumption DEF NoRow, Row
    <3> QED BY <1>1, <1>2, <3>1, <3>2, ResetRows DEF RowPart, AttemptsAreLeft
  <2>2. CASE UNCHANGED row
    BY <1>1, <2>2, KeepParts
  <2> QED BY <2>1, <2>2 DEF RenewLeases, StopRuntime, ExitRuntime, Crash
<1>7. OtherPart'
  <2>1. MaxRestarts \in Nat
    BY QueueAssumption
  <2>2. lease' \in [Destinations -> Runtimes \cup {Nobody, Former}]
    BY <1>1 DEF OtherPart, RenewLeases, StopRuntime, ExitRuntime, ReleaseOwner, Crash, Abandon, StartRuntime
  <2>3. runtime' \in [Runtimes -> {"up", "stopping", "down"}]
    BY <1>1 DEF OtherPart, RenewLeases, StopRuntime, ExitRuntime, Crash, StartRuntime
  <2>4. choosing' \in [Runtimes -> Routes \cup {NoRoute}]
    BY <1>1 DEF OtherPart, RenewLeases, StopRuntime, ExitRuntime, Crash, StartRuntime
  <2>5. restarts' \in 0 .. MaxRestarts
    BY <1>1, <2>1 DEF OtherPart, RenewLeases, StopRuntime, ExitRuntime, Crash, StartRuntime
  <2> QED BY <1>1, <1>3, <2>2, <2>3, <2>4, <2>5 DEF OtherPart
<1> QED BY <1>1, <1>3, <1>5, <1>6, <1>7, KeepParts, TypePartsPrimed

LEMMA SurroundingsKeepTypes ==
  ASSUME TypeInv,
         \/ \E d \in Destinations : TogglePause(d) \/ AbandonedLeaseLapses(d) \/ Stall(d)
         \/ \E r \in wire : RequestArrives(r) \/ RequestIsLost(r)
  PROVE  TypeInv'
<1> USE DEF durable, network, process, bounds
<1>1. BatchPart /\ PlanPart /\ RowPart /\ OtherPart
  BY TypeParts
<1>2. UNCHANGED <<batch, checkpoint, row>>
  BY DEF TogglePause, AbandonedLeaseLapses, Stall, RequestArrives, RequestIsLost
<1>3. MaxStalls \in Nat
  BY QueueAssumption
<1>4. OtherPart'
  BY <1>1, <1>3 DEF OtherPart, TogglePause, AbandonedLeaseLapses, Stall, LeaseLapses, RequestArrives, RequestIsLost
<1> QED BY <1>1, <1>2, <1>4, KeepParts, TypePartsPrimed
--------------------------------------------------------------------------------
LEMMA TypesInitially == Init => TypeInv
<1> SUFFICES ASSUME Init PROVE TypeInv
  OBVIOUS
<1>1. MaxRestarts \in Nat /\ MaxStalls \in Nat /\ MaxAttempts \in Nat \ {0}
  BY QueueAssumption
<1>2. NoRow \in Row /\ NoRow.attempts < MaxAttempts
  BY <1>1 DEF NoRow, Row
<1>3. NoPlan \in Plan /\ NoPlan.content = None /\ \A c \in Chunks : NoPlan.uri[c] = None
  BY DEF NoPlan, Plan
<1>4. BatchPart
  BY NoBatchSound DEF Init, BatchPart, BatchesAreSound, SoundBatch
<1>5. PlanPart
  BY <1>3 DEF Init, PlanPart, PlansHaveStamps, IsRecorded
<1>6. RowPart
  BY <1>2 DEF Init, RowPart, AttemptsAreLeft
<1>7. OtherPart
  BY <1>1 DEF Init, LeaseInit, OtherPart
<1> QED BY <1>4, <1>5, <1>6, <1>7, TypeParts

LEMMA TypesInductive == TypeInv /\ [Next]_vars => TypeInv'
<1> SUFFICES ASSUME TypeInv, [Next]_vars PROVE TypeInv'
  OBVIOUS
<1>1. CASE UNCHANGED vars
  <2>1. BatchPart /\ PlanPart /\ RowPart /\ OtherPart
    BY TypeParts
  <2> QED BY <1>1, <2>1, KeepParts, TypePartsPrimed DEF vars, durable, network, process, bounds
<1>2. ASSUME NEW p \in Runtimes, RuntimeStep(p) \/ ClaimRoute(p) \/ Crash(p)
      PROVE  TypeInv'
  <2>1. CASE ChooseRoute(p) \/ FindNothing(p) \/ ClaimRoute(p)
    BY <2>1, ClaimsKeepTypes
  <2>2. CASE RenewLeases(p) \/ StopRuntime(p) \/ ExitRuntime(p) \/ Crash(p) \/ StartRuntime(p)
    BY <2>2, ProcessesKeepTypes
  <2>3. ASSUME NEW d \in Destinations, Deliver(p, d)
        PROVE  TypeInv'
    BY <2>3, BatchStepsKeepTypes, SkipKeepsTypes, PlanningKeepsTypes, SendKeepsTypes, RecordingKeepsTypes,
       FinalizingKeepsTypes, SettlingKeepsTypes DEF Deliver
  <2> QED BY <1>2, <2>1, <2>2, <2>3 DEF RuntimeStep
<1>3. CASE Environment
  BY <1>3, ProducersKeepTypes, SurroundingsKeepTypes DEF Environment
<1> QED BY <1>1, <1>2, <1>3 DEF Next

\* In every reachable state the variables have their types, for any number of
\* processes, posts and chunks (TypeOK), and a batch has what its phase uses.
THEOREM Typing == Spec => []TypeInv
BY TypesInitially, TypesInductive, PTL DEF Spec

THEOREM TypeCorrect == Spec => []TypeOK
BY Typing, PTL DEF TypeInv
--------------------------------------------------------------------------------
(***************************************************************************)
(* The safety of delivery, from the types and two groups of facts: what a  *)
(* thread's checkpoints say is true of the PDS, and a process holds a      *)
(* destination only for the batch it began under that lease.               *)
(***************************************************************************)
Sending == {"send", "sent"}

\* A batch that is at a chunk has every earlier chunk of the thread recorded.
EarlierChunksAreRecorded(b) ==
  b.phase \in Sending => \A c \in Chunks : c < b.chunk => IsRecorded(Current(b), c)

SendsFollowRecords == \A p \in Runtimes, d \in Destinations : EarlierChunksAreRecorded(batch[p][d])

ThreadInv ==
  /\ RecordedChunksArePublished
  /\ ThreadsGrowInOrder
  /\ MigratedThreadsAreComplete
  /\ SendsFollowRecords

\* A batch holds rows of its own destination only.
BatchesStayAtHome ==
  \A p \in Runtimes, d \in Destinations : \A q \in batch[p][d].items : DestOf(q) = d

\* A group that is about to be claimed has no batch in this process.
ChosenIsIdle ==
  \A p \in Runtimes : choosing[p] # NoRoute => batch[p][DestinationOf[choosing[p]]].phase = "idle"

\* What NextPost read in the history stays true while the lease is held.
PreparedIsUnfinished ==
  \A p \in Runtimes, d \in Destinations : LET b == batch[p][d] IN
    b.phase = "prepare" /\ Owns(p, d) /\ Current(b) \notin NormalizedPosts => history[Current(b)] # "migrated"

OwnerInv ==
  /\ BatchesStayAtHome
  /\ ChosenIsIdle
  /\ PreparedIsUnfinished
  /\ LostLeaseStaysLost
--------------------------------------------------------------------------------
(***************************************************************************)
(* What a step leaves alone.  Six actions of a batch matter to the         *)
(* invariants; every other step touches neither plans nor records, gains   *)
(* no lease, finishes no post, and a batch goes on as it was or leaves its *)
(* post.                                                                   *)
(***************************************************************************)
\* No row joins the batch, and a lost signal is an old one or tells the truth.
Keeps(p, d, new) ==
  LET b == batch[p][d] IN
  /\ new.items \subseteq b.items
  /\ b.phase = "idle" => new.phase = "idle"
  /\ new.phase \notin {"idle", "release"} /\ new.signal = "lost" =>
       ~Owns(p, d) \/ (b.phase \notin {"idle", "release"} /\ b.signal = "lost")

\* The batch goes on under the same plan, or leaves the post.
Follows(p, d, new) ==
  LET b == batch[p][d] IN
  /\ Keeps(p, d, new)
  /\ new.phase \in Sending \cup {"prepare"} =>
       new.phase = b.phase /\ new.todo = b.todo /\ new.chunk = b.chunk
       /\ new.content = b.content /\ new.stamp = b.stamp

EveryBatchKeeps == \A p \in Runtimes, d \in Destinations : Keeps(p, d, batch'[p][d])

EveryBatchFollows == \A p \in Runtimes, d \in Destinations : Follows(p, d, batch'[p][d])

NoLeaseIsGained == \A p \in Runtimes, d \in Destinations : lease'[d] = p => lease[d] = p

NothingIsFinished == \A q \in Posts : history'[q] = "migrated" <=> history[q] = "migrated"

Quiet ==
  /\ UNCHANGED <<checkpoint, wire, feed>>
  /\ EveryBatchFollows /\ NoLeaseIsGained /\ NothingIsFinished
  /\ \A p \in Runtimes : choosing'[p] \in {choosing[p], NoRoute}

LEMMA EveryBatchCanStay ==
  ASSUME UNCHANGED batch PROVE EveryBatchFollows
BY DEF EveryBatchFollows, Follows, Keeps

\* One batch changes, and follows.
LEMMA OneBatchFollows ==
  ASSUME TypeInv, NEW p \in Runtimes, NEW d \in Destinations, NEW b, SetBatch(p, d, b), Follows(p, d, b)
  PROVE  EveryBatchFollows
<1> SUFFICES ASSUME NEW x \in Runtimes, NEW y \in Destinations PROVE Follows(x, y, batch'[x][y])
  BY DEF EveryBatchFollows
<1>1. CASE x = p /\ y = d
  <2>1. batch'[p][d] = b
    BY DEF SetBatch, TypeInv, TypeOK
  <2> QED BY <1>1, <2>1
<1>2. CASE ~(x = p /\ y = d)
  <2>1. batch'[x][y] = batch[x][y]
    BY <1>2 DEF SetBatch, TypeInv, TypeOK
  <2> QED BY <2>1 DEF Follows, Keeps
<1> QED BY <1>1, <1>2

\* A batch that is given up has left its post.
LEMMA ThrowFollows ==
  ASSUME TypeInv, NEW p \in Runtimes, NEW d \in Destinations, batch[p][d].phase \notin {"idle", "release"},
         NEW kind, Throw(p, d, batch[p][d], kind)
  PROVE  EveryBatchFollows
<1> DEFINE b == batch[p][d]
           n == [Forget(b) EXCEPT !.phase = "settle", !.todo = {}, !.error = kind]
<1>1. b \in Batch
  BY DEF TypeInv, TypeOK
<1>2. n.items = b.items /\ n.phase = "settle" /\ n.signal = b.signal
  BY <1>1 DEF Batch, Forget
<1>3. Follows(p, d, n)
  BY <1>2 DEF Follows, Keeps, Sending
<1>4. SetBatch(p, d, n)
  BY DEF Throw
<1> QED BY <1>3, <1>4, OneBatchFollows

LEMMA RefusedFollows ==
  ASSUME TypeInv, NEW p \in Runtimes, NEW d \in Destinations, batch[p][d].phase \notin {"idle", "release"},
         Refused(p, d)
  PROVE  EveryBatchFollows
<1> DEFINE b == batch[p][d]
           s == IF b.signal = "none" THEN "lost" ELSE b.signal
           m == [b EXCEPT !.signal = s]
           n == [Forget(m) EXCEPT !.phase = "settle", !.todo = {}, !.error = "failure"]
<1>1. b \in Batch
  BY DEF TypeInv, TypeOK
<1>2. s = "lost" => ~Owns(p, d) \/ b.signal = "lost"
  BY DEF Refused, MayWrite
<1>3. SetBatch(p, d, n)
  BY DEF Refused, Throw
<1>4. n.items = b.items /\ n.phase = "settle" /\ n.signal = s
  <2> HIDE DEF s
  <2> QED BY <1>1 DEF Batch, Forget
<1>5. Follows(p, d, n)
  BY <1>2, <1>4 DEF Follows, Keeps, Sending
<1> QED BY <1>3, <1>5, OneBatchFollows

LEMMA AdvanceFollows ==
  ASSUME TypeInv, NEW p \in Runtimes, NEW d \in Destinations, batch[p][d].phase \notin {"idle", "release"},
         NEW m \in Batch, m.items = batch[p][d].items, m.signal = batch[p][d].signal,
         Advance(p, d, m)
  PROVE  EveryBatchFollows
<1> DEFINE n == [Forget(m) EXCEPT !.phase = "next", !.todo = @ \ {Current(m)}]
<1>1. n.items = m.items /\ n.phase = "next" /\ n.signal = m.signal
  BY DEF Batch, Forget
<1>2. Follows(p, d, n)
  BY <1>1 DEF Follows, Keeps, Sending
<1>3. SetBatch(p, d, n)
  BY DEF Advance
<1> QED BY <1>2, <1>3, OneBatchFollows

\* The quiet steps of a batch.
LEMMA BatchIsQuiet ==
  ASSUME TypeInv, NEW p \in Runtimes, NEW d \in Destinations,
         \/ LoginSucceeds(p, d) \/ LoginFails(p, d) \/ PrepareFails(p, d) \/ SendFails(p, d)
         \/ SettleBatch(p, d) \/ ReleaseBatch(p, d) \/ DeadlinePasses(p, d)
  PROVE  Quiet
<1> DEFINE b == batch[p][d]
<1> USE DEF durable, network, process, bounds
<1>1. b \in Batch /\ b.phase \in Phases
  BY DEF TypeInv, TypeOK, Batch
<1>2. UNCHANGED <<checkpoint, wire, feed, history, choosing>>
  BY DEF LoginSucceeds, LoginFails, PrepareFails, SendFails, SettleBatch, ReleaseBatch, DeadlinePasses
<1>3. NoLeaseIsGained
  <2>1. CASE ReleaseBatch(p, d)
    BY <2>1, OwnersAssumption DEF ReleaseBatch, ReleaseLease, NoLeaseIsGained, TypeInv, TypeOK, LeaseTypeOK
  <2>2. CASE UNCHANGED lease
    BY <2>2 DEF NoLeaseIsGained
  <2> QED BY <2>1, <2>2 DEF LoginSucceeds, LoginFails, PrepareFails, SendFails, SettleBatch, DeadlinePasses
<1>4. EveryBatchFollows
  <2>1. CASE LoginSucceeds(p, d)
    <3> DEFINE n == [b EXCEPT !.phase = "next", !.todo = TakenUp(@), !.attempted = b.items \cap CorruptPosts]
    <3>1. SetBatch(p, d, n) /\ b.phase = "login"
      BY <2>1 DEF LoginSucceeds
    <3>2. Follows(p, d, n)
      BY <1>1, <3>1 DEF Follows, Keeps, Batch, Sending
    <3> QED BY <3>1, <3>2, OneBatchFollows
  <2>2. CASE LoginFails(p, d) \/ PrepareFails(p, d) \/ SendFails(p, d)
    BY <2>2, ThrowFollows DEF LoginFails, PrepareFails, SendFails
  <2>3. CASE SettleBatch(p, d)
    <3> DEFINE n == [NoBatch EXCEPT !.phase = "release"]
    <3>1. SetBatch(p, d, n) /\ b.phase = "settle"
      BY <2>3 DEF SettleBatch
    <3>2. Follows(p, d, n)
      BY <3>1 DEF Follows, Keeps, NoBatch, Sending
    <3> QED BY <3>1, <3>2, OneBatchFollows
  <2>4. CASE ReleaseBatch(p, d)
    <3>1. Follows(p, d, NoBatch)
      BY DEF Follows, Keeps, NoBatch, Sending
    <3> QED BY <2>4, <3>1, OneBatchFollows DEF ReleaseBatch
  <2>5. CASE DeadlinePasses(p, d)
    <3> DEFINE n == [b EXCEPT !.signal = "aborted"]
    <3>1. SetBatch(p, d, n) /\ b.phase # "idle"
      BY <2>5 DEF DeadlinePasses
    <3>2. Follows(p, d, n)
      BY <1>1, <3>1 DEF Follows, Keeps, Batch
    <3> QED BY <3>1, <3>2, OneBatchFollows
  <2> QED BY <2>1, <2>2, <2>3, <2>4, <2>5
<1> QED BY <1>2, <1>3, <1>4 DEF Quiet, NothingIsFinished

LEMMA ProcessIsQuiet ==
  ASSUME TypeInv, NEW p \in Runtimes,
         FindNothing(p) \/ RenewLeases(p) \/ StopRuntime(p) \/ ExitRuntime(p) \/ Crash(p) \/ StartRuntime(p)
  PROVE  Quiet
<1> USE DEF durable, network, process, bounds
<1>1. UNCHANGED <<checkpoint, wire, feed, history>>
  BY DEF FindNothing, RenewLeases, StopRuntime, ExitRuntime, Crash, StartRuntime
<1>2. NoLeaseIsGained
  <2>1. CASE ExitRuntime(p) \/ Crash(p)
    BY <2>1, OwnersAssumption DEF ExitRuntime, ReleaseOwner, Crash, Abandon, NoLeaseIsGained
  <2>2. CASE UNCHANGED lease
    BY <2>2 DEF NoLeaseIsGained
  <2> QED BY <2>1, <2>2 DEF FindNothing, RenewLeases, StopRuntime, StartRuntime
<1>3. \A x \in Runtimes : choosing'[x] \in {choosing[x], NoRoute}
  BY DEF FindNothing, RenewLeases, StopRuntime, ExitRuntime, Crash, StartRuntime, TypeInv, TypeOK
<1>4. \A x \in Runtimes, y \in Destinations : batch[x][y] \in Batch
  BY DEF TypeInv, TypeOK
<1>5. EveryBatchFollows
  <2>1. CASE RenewLeases(p)
    <3>1. ASSUME NEW x \in Runtimes, NEW y \in Destinations PROVE Follows(x, y, batch'[x][y])
      <4>1. CASE x = p /\ y \in Active(p) /\ ~Owns(p, y)
        <5>1. batch'[x][y] = [batch[x][y] EXCEPT !.signal = "lost"]
          BY <2>1, <4>1 DEF RenewLeases, TypeInv, TypeOK
        <5> QED BY <1>4, <4>1, <5>1 DEF Follows, Keeps, Batch, Active
      <4>2. CASE ~(x = p /\ y \in Active(p) /\ ~Owns(p, y))
        <5>1. batch'[x][y] = batch[x][y]
          BY <2>1, <4>2 DEF RenewLeases, TypeInv, TypeOK
        <5> QED BY <5>1 DEF Follows, Keeps
      <4> QED BY <4>1, <4>2
    <3> QED BY <3>1 DEF EveryBatchFollows
  <2>2. CASE StopRuntime(p)
    <3>1. ASSUME NEW x \in Runtimes, NEW y \in Destinations PROVE Follows(x, y, batch'[x][y])
      <4>1. CASE x = p /\ y \in Active(p) /\ batch[p][y].signal = "none"
        <5>1. batch'[x][y] = [batch[x][y] EXCEPT !.signal = "aborted"]
          BY <2>2, <4>1 DEF StopRuntime, TypeInv, TypeOK
        <5> QED BY <1>4, <4>1, <5>1 DEF Follows, Keeps, Batch, Active
      <4>2. CASE ~(x = p /\ y \in Active(p) /\ batch[p][y].signal = "none")
        <5>1. batch'[x][y] = batch[x][y]
          BY <2>2, <4>2 DEF StopRuntime, TypeInv, TypeOK
        <5> QED BY <5>1 DEF Follows, Keeps
      <4> QED BY <4>1, <4>2
    <3> QED BY <3>1 DEF EveryBatchFollows
  <2>3. CASE Crash(p)
    <3>1. ASSUME NEW x \in Runtimes, NEW y \in Destinations PROVE Follows(x, y, batch'[x][y])
      <4>1. batch'[x][y] = NoBatch \/ batch'[x][y] = batch[x][y]
        BY <2>3 DEF Crash, TypeInv, TypeOK
      <4> QED BY <4>1 DEF Follows, Keeps, NoBatch, Sending
    <3> QED BY <3>1 DEF EveryBatchFollows
  <2>4. CASE UNCHANGED batch
    BY <2>4, EveryBatchCanStay
  <2> QED BY <2>1, <2>2, <2>3, <2>4 DEF FindNothing, ExitRuntime, StartRuntime
<1> QED BY <1>1, <1>2, <1>3, <1>5 DEF Quiet, NothingIsFinished

LEMMA SurroundingsAreQuiet ==
  ASSUME TypeInv,
         \/ \E q \in Posts : \/ Enqueue(q) \/ OverrideSkip(q) \/ RemoveRow(q) \/ RetryFailed(q)
                             \/ BackoffElapses(q) \/ DayElapses(q)
         \/ \E d \in Destinations : TogglePause(d) \/ AbandonedLeaseLapses(d) \/ Stall(d)
         \/ UNCHANGED vars
  PROVE  Quiet
<1> USE DEF durable, network, process, bounds
<1>1. UNCHANGED <<checkpoint, wire, feed, choosing, batch>>
  BY DEF Enqueue, OverrideSkip, RemoveRow, RetryFailed, BackoffElapses, DayElapses, TogglePause,
         AbandonedLeaseLapses, Stall, vars
<1>2. NoLeaseIsGained
  <2>1. CASE \E d \in Destinations : lease' = [lease EXCEPT ![d] = Nobody]
    BY <2>1, OwnersAssumption DEF NoLeaseIsGained, TypeInv, TypeOK, LeaseTypeOK
  <2>2. CASE UNCHANGED lease
    BY <2>2 DEF NoLeaseIsGained
  <2> QED BY <2>1, <2>2 DEF Enqueue, OverrideSkip, RemoveRow, RetryFailed, BackoffElapses, DayElapses, TogglePause,
         AbandonedLeaseLapses, Stall, LeaseLapses, vars
<1>3. NothingIsFinished
  BY ZenonT(30) DEF NothingIsFinished, Enqueue, OverrideSkip, RemoveRow, RetryFailed, BackoffElapses, DayElapses, TogglePause,
         AbandonedLeaseLapses, Stall, vars, TypeInv, TypeOK
<1> QED BY <1>1, <1>2, <1>3, EveryBatchCanStay DEF Quiet
--------------------------------------------------------------------------------
(***************************************************************************)
(* The steps of a batch that matter.                                       *)
(***************************************************************************)
LEMMA NextPostSteps ==
  ASSUME TypeInv, NEW p \in Runtimes, NEW d \in Destinations, NextPost(p, d)
  PROVE  \/ EveryBatchFollows
         \/ LET b == batch[p][d]
                n == batch'[p][d]
            IN /\ SetBatch(p, d, n) /\ Keeps(p, d, n)
               /\ n.phase = "prepare" /\ n.todo = b.todo
               /\ (Current(b) \notin NormalizedPosts => history[Current(b)] = "none")
<1> DEFINE b == batch[p][d]
           a == b.attempted \cup {Current(b)}
           n == [b EXCEPT !.attempted = a, !.phase = "prepare"]
<1>1. b \in Batch /\ b.phase = "next" /\ SoundBatch(b)
  BY DEF NextPost, TypeInv, TypeOK, BatchesAreSound
<1>2. CASE SetBatch(p, d, [b EXCEPT !.phase = "settle"])
  <2>1. Follows(p, d, [b EXCEPT !.phase = "settle"])
    BY <1>1 DEF Batch, Follows, Keeps, Sending
  <2> QED BY <1>2, <2>1, OneBatchFollows
<1>3. CASE b.todo # {} /\ Advance(p, d, [b EXCEPT !.attempted = a])
  <2>1. Current(b) \in Posts
    BY <1>1, <1>3, CurrentIsLeft DEF SoundBatch, Batch
  <2>2. [b EXCEPT !.attempted = a] \in Batch
    BY <1>1, <2>1 DEF Batch
  <2>3. [b EXCEPT !.attempted = a].items = b.items /\ [b EXCEPT !.attempted = a].signal = b.signal
    BY <1>1 DEF Batch
  <2> HIDE DEF a
  <2> QED BY <1>1, <1>3, <2>2, <2>3, AdvanceFollows
<1>4. CASE SetBatch(p, d, n) /\ ~(Current(b) \notin NormalizedPosts /\ history[Current(b)] # "none")
  <2>1. batch'[p][d] = n
    BY <1>4 DEF SetBatch, TypeInv, TypeOK
  <2>2. n.phase = "prepare" /\ n.todo = b.todo /\ n.items = b.items /\ n.signal = b.signal
    BY <1>1 DEF Batch
  <2>3. Keeps(p, d, n)
    BY <1>1, <2>2 DEF Keeps
  <2> QED BY <1>4, <2>1, <2>2, <2>3
<1>5. CASE Refused(p, d)
  BY <1>1, <1>5, RefusedFollows
<1> QED BY <1>2, <1>3, <1>4, <1>5 DEF NextPost

LEMMA LeavingFollows ==
  ASSUME TypeInv, NEW p \in Runtimes, NEW d \in Destinations, SkipPost(p, d) \/ FinalizePost(p, d)
  PROVE  EveryBatchFollows
<1>1. batch[p][d] \in Batch /\ batch[p][d].phase \notin {"idle", "release"}
  BY DEF SkipPost, FinalizePost, TypeInv, TypeOK
<1> QED BY <1>1, AdvanceFollows, RefusedFollows, ThrowFollows DEF SkipPost, FinalizePost

LEMMA InitializeSteps ==
  ASSUME TypeInv, NEW p \in Runtimes, NEW d \in Destinations, InitializeThread(p, d)
  PROVE  LET b == batch[p][d]
             n == batch'[p][d]
             q == Current(b)
         IN /\ q \in Posts /\ b.phase = "prepare"
            /\ \/ EveryBatchFollows /\ UNCHANGED checkpoint
               \/ \E content \in Contents, stamp \in Stamps :
                    LET plan == InitializedPlan(checkpoint[q], content, stamp) IN
                    /\ checkpoint' = [checkpoint EXCEPT ![q] = plan] /\ ~Mismatch(q, content)
                    /\ SetBatch(p, d, n) /\ Keeps(p, d, n)
                    /\ n.phase \in {"send", "finalize"} /\ n.todo = b.todo /\ n.chunk = FirstMissing(plan)
                    /\ n.content = content /\ n.stamp = plan.stamp
<1> DEFINE b == batch[p][d]
           q == Current(b)
<1>1. b \in Batch /\ b.phase = "prepare" /\ SoundBatch(b)
  BY DEF InitializeThread, TypeInv, TypeOK, BatchesAreSound
<1>2. q \in Posts
  BY <1>1, CurrentIsLeft DEF SoundBatch, Batch
<1>3. PICK content \in Contents, stamp \in Stamps :
        LET plan == InitializedPlan(checkpoint[q], content, stamp) IN
        IF Mismatch(q, content)
        THEN Throw(p, d, b, "failure") /\ UNCHANGED checkpoint
        ELSE /\ checkpoint' = [checkpoint EXCEPT ![q] = plan]
             /\ SetBatch(p, d, [b EXCEPT !.content = content, !.stamp = plan.stamp,
                                         !.chunk = FirstMissing(plan),
                                         !.phase = IF FirstMissing(plan) \in Chunks THEN "send" ELSE "finalize"])
  BY DEF InitializeThread
<1>4. CASE Mismatch(q, content)
  BY <1>1, <1>2, <1>3, <1>4, ThrowFollows
<1>5. CASE ~Mismatch(q, content)
  <2> DEFINE plan == InitializedPlan(checkpoint[q], content, stamp)
             first == FirstMissing(plan)
             next == IF first \in Chunks THEN "send" ELSE "finalize"
             n == [b EXCEPT !.content = content, !.stamp = plan.stamp, !.chunk = first, !.phase = next]
  <2>1. checkpoint' = [checkpoint EXCEPT ![q] = plan] /\ SetBatch(p, d, n)
    BY <1>3, <1>5
  <2>2. batch'[p][d] = n
    BY <2>1 DEF SetBatch, TypeInv, TypeOK
  <2>3. next \in {"send", "finalize"}
    OBVIOUS
  <2>4. /\ n.phase = next /\ n.todo = b.todo /\ n.items = b.items /\ n.signal = b.signal
        /\ n.chunk = first /\ n.content = content /\ n.stamp = plan.stamp
    <3> HIDE DEF plan, first, next
    <3> QED BY <1>1 DEF Batch
  <2>5. Keeps(p, d, n)
    <3> HIDE DEF n
    <3> QED BY <1>1, <2>4 DEF Keeps
  <2> HIDE DEF n, next
  <2> QED BY <1>1, <1>2, <1>5, <2>1, <2>2, <2>3, <2>4, <2>5
<1> QED BY <1>4, <1>5

LEMMA SendSteps ==
  ASSUME TypeInv, NEW p \in Runtimes, NEW d \in Destinations, SendChunk(p, d)
  PROVE  LET b == batch[p][d]
             n == batch'[p][d]
         IN /\ b.phase \in Sending /\ Current(b) \in Posts
            /\ \/ EveryBatchFollows /\ UNCHANGED wire
               \/ /\ MayWrite(p, d) /\ wire' = wire \cup {ChunkRecord(b)}
                  /\ SetBatch(p, d, n) /\ Keeps(p, d, n) /\ n = [b EXCEPT !.phase = "sent"]
<1> DEFINE b == batch[p][d]
           n == [b EXCEPT !.phase = "sent"]
<1>1. b \in Batch /\ b.phase \in Sending /\ SoundBatch(b)
  BY DEF SendChunk, TypeInv, TypeOK, BatchesAreSound, Sending
<1>2. Current(b) \in Posts
  BY <1>1, CurrentIsLeft DEF SoundBatch, Batch, Sending
<1>3. CASE Refused(p, d) /\ UNCHANGED wire
  BY <1>1, <1>2, <1>3, RefusedFollows DEF Sending
<1>4. CASE MayWrite(p, d) /\ wire' = wire \cup {ChunkRecord(b)} /\ SetBatch(p, d, n)
  <2>1. batch'[p][d] = n
    BY <1>4 DEF SetBatch, TypeInv, TypeOK
  <2>2. Keeps(p, d, n)
    BY <1>1 DEF Keeps, Batch, Sending
  <2> QED BY <1>1, <1>2, <1>4, <2>1, <2>2
<1> QED BY <1>3, <1>4 DEF SendChunk

LEMMA RecordSteps ==
  ASSUME TypeInv, NEW p \in Runtimes, NEW d \in Destinations, RecordChunk(p, d)
  PROVE  LET b == batch[p][d]
             n == batch'[p][d]
             q == Current(b)
         IN /\ b.phase = "sent" /\ q \in Posts /\ ChunkRecord(b) \in feed
            /\ \/ EveryBatchFollows /\ UNCHANGED checkpoint
               \/ /\ checkpoint' = [checkpoint EXCEPT ![q].uri[b.chunk] = b.stamp]
                  /\ SetBatch(p, d, n) /\ Keeps(p, d, n)
                  /\ n.phase \in {"send", "finalize"} /\ n.todo = b.todo /\ n.chunk = b.chunk + 1
                  /\ n.content = b.content /\ n.stamp = b.stamp
<1> DEFINE b == batch[p][d]
           q == Current(b)
           next == IF b.chunk < NumChunks THEN "send" ELSE "finalize"
           n == [b EXCEPT !.phase = next, !.chunk = @ + 1]
<1>1. b \in Batch /\ b.phase = "sent" /\ SoundBatch(b) /\ ChunkRecord(b) \in feed
  BY DEF RecordChunk, Published, TypeInv, TypeOK, BatchesAreSound
<1>2. q \in Posts
  BY <1>1, CurrentIsLeft DEF SoundBatch, Batch
<1>3. CASE UNCHANGED checkpoint /\ (Throw(p, d, b, "failure") \/ Refused(p, d))
  BY <1>1, <1>2, <1>3, RefusedFollows, ThrowFollows
<1>4. CASE checkpoint' = [checkpoint EXCEPT ![q].uri[b.chunk] = b.stamp] /\ SetBatch(p, d, n)
  <2>1. batch'[p][d] = n
    BY <1>4 DEF SetBatch, TypeInv, TypeOK
  <2>2. next \in {"send", "finalize"}
    OBVIOUS
  <2>3. /\ n.phase = next /\ n.todo = b.todo /\ n.items = b.items /\ n.signal = b.signal
        /\ n.chunk = b.chunk + 1 /\ n.content = b.content /\ n.stamp = b.stamp
    <3> HIDE DEF next
    <3> QED BY <1>1 DEF Batch
  <2>4. Keeps(p, d, n)
    <3> HIDE DEF n
    <3> QED BY <1>1, <2>3 DEF Keeps
  <2> HIDE DEF n, next
  <2> QED BY <1>1, <1>2, <1>4, <2>1, <2>2, <2>3, <2>4
<1> QED BY <1>3, <1>4 DEF RecordChunk
--------------------------------------------------------------------------------
(***************************************************************************)
(* Every step is quiet or one of these.                                    *)
(***************************************************************************)
LEMMA StepKinds ==
  ASSUME TypeInv, [Next]_vars
  PROVE  \/ Quiet
         \/ \E p \in Runtimes : ChooseRoute(p) \/ ClaimRoute(p)
         \/ \E p \in Runtimes, d \in Destinations :
              \/ NextPost(p, d) \/ SkipPost(p, d) \/ InitializeThread(p, d)
              \/ SendChunk(p, d) \/ RecordChunk(p, d) \/ FinalizePost(p, d)
         \/ \E r \in wire : RequestArrives(r) \/ RequestIsLost(r)
<1>1. ASSUME NEW p \in Runtimes, NEW d \in Destinations, Deliver(p, d)
      PROVE  \/ Quiet
             \/ NextPost(p, d) \/ SkipPost(p, d) \/ InitializeThread(p, d)
             \/ SendChunk(p, d) \/ RecordChunk(p, d) \/ FinalizePost(p, d)
  BY <1>1, BatchIsQuiet DEF Deliver
<1>2. ASSUME NEW p \in Runtimes, RuntimeStep(p) \/ ClaimRoute(p) \/ Crash(p)
      PROVE  \/ Quiet \/ ChooseRoute(p) \/ ClaimRoute(p)
             \/ \E d \in Destinations : Deliver(p, d)
  BY <1>2, ProcessIsQuiet DEF RuntimeStep
<1>3. ASSUME Environment \/ UNCHANGED vars
      PROVE  Quiet \/ \E r \in wire : RequestArrives(r) \/ RequestIsLost(r)
  BY <1>3, SurroundingsAreQuiet DEF Environment
<1> QED BY <1>1, <1>2, <1>3 DEF Next

\* What a claim makes of the batches, the leases and the chosen group.
LEMMA ClaimSteps ==
  ASSUME TypeInv, NEW p \in Runtimes, ClaimRoute(p)
  PROVE  LET r == choosing[p]
             d == DestinationOf[r]
             n == batch'[p][d]
         IN /\ UNCHANGED <<checkpoint, wire, feed, history>>
            /\ r \in Routes /\ d \in Destinations /\ r # NoRoute
            /\ choosing' = [choosing EXCEPT ![p] = NoRoute]
            /\ \/ UNCHANGED <<lease, batch>>
               \/ /\ Acquire(p, d) /\ SetBatch(p, d, n) /\ CanAcquire(p, d)
                  /\ n.phase = "login" /\ n.signal = "none"
                  /\ \A q \in n.items : DestOf(q) = d
<1> DEFINE r == choosing[p]
           d == DestinationOf[r]
           n == [NoBatch EXCEPT !.phase = "login", !.items = Claimed(r), !.todo = Claimed(r)]
<1>1. r \in Routes /\ d \in Destinations /\ r # NoRoute
  BY QueueAssumption DEF ClaimRoute, TypeInv, TypeOK
<1>2. CASE UNCHANGED <<lease, row, batch>>
  BY <1>1, <1>2 DEF ClaimRoute, network
<1>3. CASE CanAcquire(p, d) /\ Acquire(p, d) /\ SetBatch(p, d, n)
  <2>1. batch'[p][d] = n
    BY <1>1, <1>3 DEF SetBatch, TypeInv, TypeOK
  <2>2. n.phase = "login" /\ n.signal = "none" /\ n.items = Claimed(r)
    BY DEF NoBatch
  <2>3. \A q \in Claimed(r) : DestOf(q) = d
    BY DEF Claimed, Pending, DestOf
  <2> HIDE DEF n
  <2> QED BY <1>1, <1>3, <2>1, <2>2, <2>3 DEF ClaimRoute, network
<1> QED BY <1>2, <1>3 DEF ClaimRoute
--------------------------------------------------------------------------------
(***************************************************************************)
(* Threads.                                                                *)
(***************************************************************************)
\* Plans change as they are initialized and as chunks are recorded.
LEMMA CheckpointSteps ==
  ASSUME TypeInv, [Next]_vars
  PROVE  \/ UNCHANGED checkpoint
         \/ \E p \in Runtimes, d \in Destinations : InitializeThread(p, d) \/ RecordChunk(p, d)
<1>1. ASSUME NEW p \in Runtimes, ChooseRoute(p) \/ ClaimRoute(p)
      PROVE  UNCHANGED checkpoint
  BY <1>1 DEF ChooseRoute, ClaimRoute
<1>2. ASSUME NEW p \in Runtimes, NEW d \in Destinations,
             NextPost(p, d) \/ SkipPost(p, d) \/ SendChunk(p, d) \/ FinalizePost(p, d)
      PROVE  UNCHANGED checkpoint
  BY <1>2 DEF NextPost, SkipPost, SendChunk, FinalizePost, durable
<1>3. ASSUME NEW r \in wire, RequestArrives(r) \/ RequestIsLost(r)
      PROVE  UNCHANGED checkpoint
  BY <1>3 DEF RequestArrives, RequestIsLost, durable
<1>4. Quiet => UNCHANGED checkpoint
  BY DEF Quiet
<1> QED BY <1>1, <1>2, <1>3, <1>4, StepKinds

\* Recorded chunks stay recorded.
RecordsAreKept == \A q \in Posts, c \in Chunks : IsRecorded(q, c) => checkpoint'[q].uri[c] # None

LEMMA RecordsStay == ASSUME TypeInv, [Next]_vars PROVE RecordsAreKept
<1>1. CASE UNCHANGED checkpoint
  BY <1>1 DEF RecordsAreKept, IsRecorded
<1>2. ASSUME NEW p \in Runtimes, NEW d \in Destinations, InitializeThread(p, d)
      PROVE  RecordsAreKept
  <2> DEFINE q == Current(batch[p][d])
  <2>1. CASE ~UNCHANGED checkpoint
    <3>1. PICK content \in Contents, stamp \in Stamps :
            /\ checkpoint' = [checkpoint EXCEPT ![q] = InitializedPlan(checkpoint[q], content, stamp)]
            /\ ~Mismatch(q, content) /\ q \in Posts
      BY <1>2, <2>1, InitializeSteps
    <3>2. \A c \in Chunks : IsRecorded(q, c) =>
            InitializedPlan(checkpoint[q], content, stamp).uri[c] = checkpoint[q].uri[c]
      BY <3>1, PlanOfRendering
    <3> QED BY <3>1, <3>2 DEF RecordsAreKept, IsRecorded, TypeInv, TypeOK
  <2> QED BY <1>1, <2>1
<1>3. ASSUME NEW p \in Runtimes, NEW d \in Destinations, RecordChunk(p, d)
      PROVE  RecordsAreKept
  <2> DEFINE b == batch[p][d]
             q == Current(b)
  <2>1. CASE checkpoint' = [checkpoint EXCEPT ![q].uri[b.chunk] = b.stamp] /\ q \in Posts /\ b.phase = "sent"
    <3>1. b.stamp # None /\ checkpoint[q] \in Plan
      BY <2>1, QueueAssumption DEF TypeInv, TypeOK, BatchesAreSound, SoundBatch
    <3> QED BY <2>1, <3>1 DEF RecordsAreKept, IsRecorded, TypeInv, TypeOK, Plan
  <2>2. b.phase = "sent" /\ q \in Posts
        /\ (UNCHANGED checkpoint \/ checkpoint' = [checkpoint EXCEPT ![q].uri[b.chunk] = b.stamp])
    BY <1>3, RecordSteps
  <2> QED BY <1>1, <2>1, <2>2
<1> QED BY <1>1, <1>2, <1>3, CheckpointSteps

\* Other batches are as they were.
LEMMA OtherBatches ==
  ASSUME TypeInv, NEW p \in Runtimes, NEW d \in Destinations, NEW b, SetBatch(p, d, b)
  PROVE  \A x \in Runtimes, y \in Destinations : <<x, y>> # <<p, d>> => batch'[x][y] = batch[x][y]
BY DEF TypeInv, TypeOK, SetBatch

\* A batch that goes on, or leaves its post, keeps what is recorded before it.
LEMMA FollowersHaveRecords ==
  ASSUME SendsFollowRecords, RecordsAreKept, BatchesAreSound', BatchesAreSound,
         NEW p \in Runtimes, NEW d \in Destinations, Follows(p, d, batch'[p][d])
  PROVE  EarlierChunksAreRecorded(batch[p][d])'
<1> SUFFICES ASSUME batch'[p][d].phase \in Sending, NEW c \in Chunks, c < batch'[p][d].chunk
             PROVE  IsRecorded(Current(batch[p][d]), c)'
  BY DEF EarlierChunksAreRecorded
<1>1. /\ batch[p][d].phase \in Sending /\ batch'[p][d].chunk = batch[p][d].chunk
      /\ batch'[p][d].todo = batch[p][d].todo
  BY DEF Follows
<1>2. Current(batch[p][d]) \in Posts /\ Current(batch'[p][d]) = Current(batch[p][d])
  BY <1>1, CurrentIsLeft DEF BatchesAreSound, SoundBatch, Batch, Sending, Current
<1>3. IsRecorded(Current(batch[p][d]), c)
  BY <1>1 DEF SendsFollowRecords, EarlierChunksAreRecorded
<1> QED BY <1>2, <1>3 DEF RecordsAreKept, IsRecorded
--------------------------------------------------------------------------------
\* The same of every step.
LEMMA SendsStayOrdered ==
  ASSUME TypeInv, TypeInv', SendsFollowRecords, [Next]_vars
  PROVE  SendsFollowRecords'
<1>1. RecordsAreKept /\ BatchesAreSound /\ BatchesAreSound'
  BY RecordsStay DEF TypeInv
<1>2. CASE EveryBatchFollows
  BY <1>1, <1>2, FollowersHaveRecords DEF SendsFollowRecords, EveryBatchFollows
<1>3. ASSUME NEW p \in Runtimes, NEW d \in Destinations, NEW n, SetBatch(p, d, n),
             EarlierChunksAreRecorded(batch[p][d])'
      PROVE  SendsFollowRecords'
  <2>1. ASSUME NEW x \in Runtimes, NEW y \in Destinations PROVE EarlierChunksAreRecorded(batch[x][y])'
    <3>1. CASE x = p /\ y = d
      BY <1>3, <3>1
    <3>2. CASE ~(x = p /\ y = d)
      <4>1. Follows(x, y, batch'[x][y])
        BY <1>3, <3>2, OtherBatches DEF Follows, Keeps
      <4> QED BY <1>1, <4>1, FollowersHaveRecords
    <3> QED BY <3>1, <3>2
  <2> QED BY <2>1 DEF SendsFollowRecords
<1>4. ASSUME NEW p \in Runtimes, NEW d \in Destinations, NextPost(p, d) PROVE SendsFollowRecords'
  <2>1. CASE SetBatch(p, d, batch'[p][d]) /\ batch'[p][d].phase = "prepare"
    <3>1. EarlierChunksAreRecorded(batch[p][d])'
      BY <2>1 DEF EarlierChunksAreRecorded, Sending
    <3> QED BY <1>3, <2>1, <3>1
  <2> QED BY <1>2, <1>4, <2>1, NextPostSteps
<1>5. ASSUME NEW p \in Runtimes, NEW d \in Destinations, InitializeThread(p, d) PROVE SendsFollowRecords'
  <2> DEFINE q == Current(batch[p][d])
             n == batch'[p][d]
  <2>1. CASE ~EveryBatchFollows
    <3>1. PICK plan :
            /\ checkpoint' = [checkpoint EXCEPT ![q] = plan] /\ q \in Posts
            /\ SetBatch(p, d, n) /\ n.todo = batch[p][d].todo /\ n.chunk = FirstMissing(plan)
      BY <1>5, <2>1, InitializeSteps
    <3>2. checkpoint'[q] = plan /\ Current(n) = q
      BY <3>1 DEF TypeInv, TypeOK, Current
    <3>3. \A c \in Chunks : c < FirstMissing(plan) => plan.uri[c] # None
      BY FirstMissingFinds
    <3>4. EarlierChunksAreRecorded(batch[p][d])'
      BY <3>1, <3>2, <3>3 DEF EarlierChunksAreRecorded, IsRecorded
    <3> QED BY <1>3, <3>1, <3>4
  <2> QED BY <1>2, <2>1
<1>6. ASSUME NEW p \in Runtimes, NEW d \in Destinations, SendChunk(p, d) PROVE SendsFollowRecords'
  <2> DEFINE b == batch[p][d]
             n == batch'[p][d]
  <2>1. CASE ~EveryBatchFollows
    <3>1. SetBatch(p, d, n) /\ n = [b EXCEPT !.phase = "sent"] /\ b.phase \in Sending /\ Current(b) \in Posts
      BY <1>6, <2>1, SendSteps
    <3>2. n.todo = b.todo /\ n.chunk = b.chunk
      BY <3>1 DEF TypeInv, TypeOK, Batch
    <3>3. Current(n) = Current(b)
      BY <3>2 DEF Current
    <3>4. EarlierChunksAreRecorded(b)
      BY DEF SendsFollowRecords
    <3>5. EarlierChunksAreRecorded(batch[p][d])'
      <4> HIDE DEF n
      <4>1. ASSUME NEW c \in Chunks, c < n.chunk PROVE checkpoint'[Current(n)].uri[c] # None
        BY <1>1, <3>1, <3>2, <3>3, <3>4, <4>1 DEF EarlierChunksAreRecorded, RecordsAreKept
      <4> QED BY <4>1 DEF EarlierChunksAreRecorded, IsRecorded, n
    <3> QED BY <1>3, <3>1, <3>5
  <2> QED BY <1>2, <2>1
<1>7. ASSUME NEW p \in Runtimes, NEW d \in Destinations, RecordChunk(p, d) PROVE SendsFollowRecords'
  <2> DEFINE b == batch[p][d]
             q == Current(b)
             n == batch'[p][d]
  <2>1. CASE ~EveryBatchFollows
    <3>1. /\ checkpoint' = [checkpoint EXCEPT ![q].uri[b.chunk] = b.stamp] /\ q \in Posts /\ b.phase = "sent"
          /\ SetBatch(p, d, n) /\ n.todo = b.todo /\ n.chunk = b.chunk + 1
      BY <1>7, <2>1, RecordSteps
    <3>2. b.stamp # None /\ b.chunk \in Chunks
      BY <3>1, QueueAssumption DEF TypeInv, BatchesAreSound, SoundBatch
    <3>3. Current(n) = q
      BY <3>1 DEF Current
    <3>4. EarlierChunksAreRecorded(b)
      BY DEF SendsFollowRecords
    <3>5. checkpoint'[q].uri[b.chunk] = b.stamp
      BY <3>1, <3>2 DEF TypeInv, TypeOK, Plan
    <3>6. ASSUME NEW c \in Chunks, c < n.chunk PROVE checkpoint'[q].uri[c] # None
      <4>1. c < b.chunk \/ c = b.chunk
        BY <3>1, <3>2, <3>6, QueueAssumption DEF Chunks
      <4>2. CASE c < b.chunk
        BY <1>1, <3>1, <3>4, <4>2 DEF EarlierChunksAreRecorded, RecordsAreKept, Sending
      <4> QED BY <3>2, <3>5, <4>1, <4>2
    <3>7. EarlierChunksAreRecorded(batch[p][d])'
      BY <3>3, <3>6 DEF EarlierChunksAreRecorded, IsRecorded
    <3> QED BY <1>3, <3>1, <3>7
  <2> QED BY <1>2, <2>1
<1>8. ASSUME NEW p \in Runtimes, ClaimRoute(p) PROVE SendsFollowRecords'
  <2>1. CASE ~UNCHANGED batch
    <3>1. PICK d \in Destinations : SetBatch(p, d, batch'[p][d]) /\ batch'[p][d].phase = "login"
      BY <1>8, <2>1, ClaimSteps
    <3>2. EarlierChunksAreRecorded(batch[p][d])'
      BY <3>1 DEF EarlierChunksAreRecorded, Sending
    <3> QED BY <1>3, <3>1, <3>2
  <2> QED BY <1>2, <2>1, EveryBatchCanStay
<1>9. CASE UNCHANGED batch
  BY <1>2, <1>9, EveryBatchCanStay
<1> QED BY <1>2, <1>4, <1>5, <1>6, <1>7, <1>8, <1>9, StepKinds, LeavingFollows
        DEF Quiet, ChooseRoute, RequestArrives, RequestIsLost, durable, network, process, bounds
--------------------------------------------------------------------------------
\* The PDS forgets nothing, and only SendChunk makes requests.
LEMMA NetworkSteps ==
  ASSUME TypeInv, [Next]_vars
  PROVE  /\ feed \subseteq feed' /\ feed' \subseteq feed \cup wire
         /\ \/ wire' \subseteq wire
            \/ \E p \in Runtimes, d \in Destinations :
                 /\ SendChunk(p, d) /\ MayWrite(p, d) /\ UNCHANGED <<feed, checkpoint>>
                 /\ wire' = wire \cup {ChunkRecord(batch[p][d])}
<1>1. ASSUME NEW r \in wire, RequestArrives(r) \/ RequestIsLost(r)
      PROVE  feed \subseteq feed' /\ feed' \subseteq feed \cup wire /\ wire' \subseteq wire
  BY <1>1 DEF RequestArrives, RequestIsLost
<1>2. ASSUME NEW p \in Runtimes, NEW d \in Destinations, SendChunk(p, d)
      PROVE  /\ UNCHANGED <<feed, checkpoint>>
             /\ wire' = wire \/ (MayWrite(p, d) /\ wire' = wire \cup {ChunkRecord(batch[p][d])})
  BY <1>2 DEF SendChunk, durable
<1>3. ASSUME NEW p \in Runtimes, NEW d \in Destinations,
             \/ NextPost(p, d) \/ SkipPost(p, d) \/ InitializeThread(p, d)
             \/ RecordChunk(p, d) \/ FinalizePost(p, d)
      PROVE  UNCHANGED <<wire, feed>>
  BY <1>3 DEF NextPost, SkipPost, InitializeThread, RecordChunk, FinalizePost, network
<1>4. ASSUME NEW p \in Runtimes, ChooseRoute(p) \/ ClaimRoute(p)
      PROVE  UNCHANGED <<wire, feed>>
  BY <1>4 DEF ChooseRoute, ClaimRoute, network
<1>5. Quiet => UNCHANGED <<wire, feed>>
  BY DEF Quiet
<1>6. CASE UNCHANGED <<wire, feed>>
  BY <1>6
<1> QED BY <1>1, <1>2, <1>3, <1>4, <1>5, <1>6, StepKinds

\* Where a recorded uri comes from.
LEMMA RecordSources ==
  ASSUME TypeInv, [Next]_vars, NEW q \in Posts, NEW c \in Chunks, checkpoint'[q].uri[c] # None
  PROVE  \/ IsRecorded(q, c) /\ checkpoint'[q].uri[c] = checkpoint[q].uri[c]
         \/ \E r \in feed : r.post = q /\ r.chunk = c /\ r.stamp = checkpoint'[q].uri[c]
<1>1. CASE UNCHANGED checkpoint
  BY <1>1 DEF IsRecorded
<1>2. ASSUME NEW p \in Runtimes, NEW d \in Destinations, InitializeThread(p, d), ~UNCHANGED checkpoint
      PROVE  IsRecorded(q, c) /\ checkpoint'[q].uri[c] = checkpoint[q].uri[c]
  <2> DEFINE x == Current(batch[p][d])
  <2>1. PICK content \in Contents, stamp \in Stamps :
          /\ checkpoint' = [checkpoint EXCEPT ![x] = InitializedPlan(checkpoint[x], content, stamp)]
          /\ ~Mismatch(x, content) /\ x \in Posts
    BY <1>2, InitializeSteps
  <2>2. checkpoint[q] \in Plan
    BY DEF TypeInv, TypeOK
  <2>3. CASE x = q
    <3>1. checkpoint'[q] = InitializedPlan(checkpoint[q], content, stamp)
      BY <2>1, <2>3 DEF TypeInv, TypeOK
    <3>2. checkpoint[q].content = content
      BY <3>1, QueueAssumption DEF InitializedPlan, NoPlan
    <3> QED BY <3>1, <3>2 DEF InitializedPlan, IsRecorded
  <2>4. CASE x # q
    BY <2>1, <2>4 DEF TypeInv, TypeOK, IsRecorded
  <2> QED BY <2>3, <2>4
<1>3. ASSUME NEW p \in Runtimes, NEW d \in Destinations, RecordChunk(p, d), ~UNCHANGED checkpoint
      PROVE  \/ IsRecorded(q, c) /\ checkpoint'[q].uri[c] = checkpoint[q].uri[c]
             \/ \E r \in feed : r.post = q /\ r.chunk = c /\ r.stamp = checkpoint'[q].uri[c]
  <2> DEFINE b == batch[p][d]
             x == Current(b)
  <2>1. /\ checkpoint' = [checkpoint EXCEPT ![x].uri[b.chunk] = b.stamp] /\ x \in Posts
        /\ ChunkRecord(b) \in feed
    BY <1>3, RecordSteps
  <2>2. checkpoint[q] \in Plan /\ checkpoint[q].uri \in [Chunks -> Stamps \cup {None}]
    BY DEF TypeInv, TypeOK, Plan
  <2>3. CASE x = q /\ b.chunk = c
    <3>1. checkpoint'[q].uri[c] = b.stamp
      BY <2>1, <2>2, <2>3 DEF TypeInv, TypeOK, Plan
    <3> QED BY <2>1, <2>3, <3>1 DEF ChunkRecord
  <2>4. CASE ~(x = q /\ b.chunk = c)
    <3>1. checkpoint'[q].uri[c] = checkpoint[q].uri[c]
      BY <2>1, <2>2, <2>4 DEF TypeInv, TypeOK, Plan
    <3> QED BY <3>1 DEF IsRecorded
  <2> QED BY <2>3, <2>4
<1> QED BY <1>1, <1>2, <1>3, CheckpointSteps

LEMMA HistorySteps ==
  ASSUME TypeInv, [Next]_vars, NEW q \in Posts, history'[q] = "migrated", history[q] # "migrated"
  PROVE  \A c \in Chunks : IsRecorded(q, c)
<1>1. ASSUME NEW p \in Runtimes, NEW d \in Destinations, FinalizePost(p, d)
      PROVE  \A c \in Chunks : IsRecorded(q, c)
  BY <1>1 DEF FinalizePost, TypeInv, TypeOK
<1>2. ASSUME NEW p \in Runtimes, NEW d \in Destinations,
             \/ NextPost(p, d) \/ SkipPost(p, d) \/ InitializeThread(p, d)
             \/ SendChunk(p, d) \/ RecordChunk(p, d)
      PROVE  FALSE
  BY <1>2 DEF NextPost, SkipPost, InitializeThread, SendChunk, RecordChunk, durable, TypeInv, TypeOK
<1>3. ~(\E p \in Runtimes : ChooseRoute(p) \/ ClaimRoute(p))
  BY DEF ChooseRoute, ClaimRoute
<1>4. ~(\E r \in wire : RequestArrives(r) \/ RequestIsLost(r))
  BY DEF RequestArrives, RequestIsLost, durable
<1>5. ~Quiet
  BY DEF Quiet, NothingIsFinished
<1> QED BY <1>1, <1>2, <1>3, <1>4, <1>5, StepKinds

LEMMA ThreadsInitially == Init => ThreadInv
<1> SUFFICES ASSUME Init PROVE ThreadInv
  OBVIOUS
<1>1. \A q \in Posts, c \in Chunks : ~IsRecorded(q, c)
  BY DEF Init, IsRecorded, NoPlan
<1>2. \A p \in Runtimes, d \in Destinations : batch[p][d].phase = "idle"
  BY DEF Init, NoBatch
<1> QED BY <1>1, <1>2 DEF Init, ThreadInv, RecordedChunksArePublished, ThreadsGrowInOrder,
           MigratedThreadsAreComplete, SendsFollowRecords, EarlierChunksAreRecorded, Sending

LEMMA ThreadsInductive ==
  ASSUME TypeInv, TypeInv', ThreadInv, [Next]_vars
  PROVE  ThreadInv'
<1>1. RecordsAreKept
  BY RecordsStay
<1>2. RecordedChunksArePublished'
  <2> SUFFICES ASSUME NEW q \in Posts, NEW c \in Chunks, checkpoint'[q].uri[c] # None
               PROVE  \E r \in feed' : r.post = q /\ r.chunk = c /\ r.stamp = checkpoint'[q].uri[c]
    BY DEF RecordedChunksArePublished, IsRecorded
  <2>1. \E r \in feed : r.post = q /\ r.chunk = c /\ r.stamp = checkpoint'[q].uri[c]
    BY RecordSources DEF ThreadInv, RecordedChunksArePublished
  <2> QED BY <2>1, NetworkSteps
<1>3. ThreadsGrowInOrder'
  <2> SUFFICES ASSUME NEW r \in feed' \cup wire', NEW c \in Chunks, c < r.chunk
               PROVE  checkpoint'[r.post].uri[c] # None
    BY DEF ThreadsGrowInOrder, IsRecorded
  <2>1. CASE r \in feed \cup wire
    <3>1. IsRecorded(r.post, c) /\ r.post \in Posts
      BY <2>1 DEF ThreadInv, ThreadsGrowInOrder, TypeInv, TypeOK, Record
    <3> QED BY <1>1, <3>1 DEF RecordsAreKept
  <2>2. CASE r \notin feed \cup wire
    <3>1. PICK p \in Runtimes, d \in Destinations : SendChunk(p, d) /\ UNCHANGED checkpoint
                                                   /\ r = ChunkRecord(batch[p][d])
      BY <2>2, NetworkSteps
    <3>2. batch[p][d].phase \in Sending /\ r.chunk = batch[p][d].chunk /\ r.post = Current(batch[p][d])
      BY <3>1 DEF SendChunk, ChunkRecord, Sending
    <3> QED BY <3>1, <3>2 DEF ThreadInv, SendsFollowRecords, EarlierChunksAreRecorded, IsRecorded
  <2> QED BY <2>1, <2>2
<1>4. MigratedThreadsAreComplete'
  <2> SUFFICES ASSUME NEW q \in Posts, history'[q] = "migrated", NEW c \in Chunks
               PROVE  checkpoint'[q].uri[c] # None
    BY DEF MigratedThreadsAreComplete, IsRecorded
  <2>1. IsRecorded(q, c)
    BY HistorySteps DEF ThreadInv, MigratedThreadsAreComplete
  <2> QED BY <1>1, <2>1 DEF RecordsAreKept
<1>5. SendsFollowRecords'
  BY SendsStayOrdered DEF ThreadInv
<1> QED BY <1>2, <1>3, <1>4, <1>5 DEF ThreadInv

LEMMA ThreadsAreSound == Spec => [](TypeInv /\ ThreadInv)
<1>1. Init => TypeInv /\ ThreadInv
  BY TypesInitially, ThreadsInitially
<1>2. TypeInv /\ ThreadInv /\ [Next]_vars => (TypeInv /\ ThreadInv)'
  BY TypesInductive, ThreadsInductive
<1> QED BY <1>1, <1>2, PTL DEF Spec

\* A checkpoint says published only of what the PDS holds, with any number of
\* processes taking over from each other: recordSuccess runs under a lease, but
\* the plan it writes to may be another process's by then.
THEOREM RecordedIsPublished == Spec => []RecordedChunksArePublished
BY ThreadsAreSound, PTL DEF ThreadInv

\* A reply is requested only after its parent is durable, for threads of any
\* length: recordSuccess's own order check is never what stops a loop.
THEOREM GrowingInOrder == Spec => []ThreadsGrowInOrder
BY ThreadsAreSound, PTL DEF ThreadInv

\* The history never calls a thread migrated that is not recorded to its last
\* chunk, now or after a later process initialized it again.
THEOREM MigratedIsComplete == Spec => []MigratedThreadsAreComplete
BY ThreadsAreSound, PTL DEF ThreadInv
--------------------------------------------------------------------------------
(***************************************************************************)
(* Ownership.                                                              *)
(***************************************************************************)
\* A claim is the only step that puts rows in a batch or takes a lease.
IsClaim(p, d) ==
  /\ ClaimRoute(p) /\ d = DestinationOf[choosing[p]]
  /\ batch'[p][d].phase = "login" /\ batch'[p][d].signal = "none"
  /\ \A q \in batch'[p][d].items : DestOf(q) = d

LEMMA BatchSteps ==
  ASSUME TypeInv, [Next]_vars, NEW x \in Runtimes, NEW y \in Destinations
  PROVE  Keeps(x, y, batch'[x][y]) \/ IsClaim(x, y)
<1>1. CASE EveryBatchFollows
  BY <1>1 DEF EveryBatchFollows, Follows
<1>2. ASSUME NEW p \in Runtimes, NEW d \in Destinations, SetBatch(p, d, batch'[p][d]),
             Keeps(p, d, batch'[p][d]) \/ IsClaim(p, d)
      PROVE  Keeps(x, y, batch'[x][y]) \/ IsClaim(x, y)
  <2>1. CASE x = p /\ y = d
    BY <1>2, <2>1
  <2>2. CASE ~(x = p /\ y = d)
    BY <1>2, <2>2, OtherBatches DEF Keeps
  <2> QED BY <2>1, <2>2
<1>3. ASSUME NEW p \in Runtimes, NEW d \in Destinations,
             NextPost(p, d) \/ InitializeThread(p, d) \/ SendChunk(p, d) \/ RecordChunk(p, d)
      PROVE  EveryBatchFollows \/ (SetBatch(p, d, batch'[p][d]) /\ Keeps(p, d, batch'[p][d]))
  BY <1>3, NextPostSteps, InitializeSteps, SendSteps, RecordSteps
<1>4. ASSUME NEW p \in Runtimes, ClaimRoute(p)
      PROVE  \/ UNCHANGED batch
             \/ \E d \in Destinations : SetBatch(p, d, batch'[p][d]) /\ IsClaim(p, d)
  BY <1>4, ClaimSteps DEF IsClaim
<1>5. CASE UNCHANGED batch
  BY <1>5 DEF Keeps
<1>6. Quiet => EveryBatchFollows
  BY DEF Quiet
<1>7. ASSUME NEW p \in Runtimes, ChooseRoute(p) PROVE UNCHANGED batch
  BY <1>7 DEF ChooseRoute
<1>8. ASSUME NEW r \in wire, RequestArrives(r) \/ RequestIsLost(r) PROVE UNCHANGED batch
  BY <1>8 DEF RequestArrives, RequestIsLost, process
<1> QED BY <1>1, <1>2, <1>3, <1>4, <1>5, <1>6, <1>7, <1>8, StepKinds, LeavingFollows

LEMMA LeaseSteps ==
  ASSUME TypeInv, [Next]_vars, NEW x \in Runtimes, NEW y \in Destinations, lease'[y] = x
  PROVE  lease[y] = x \/ IsClaim(x, y)
<1>1. ASSUME NEW p \in Runtimes, ClaimRoute(p)
      PROVE  lease[y] = x \/ IsClaim(x, y)
  <2>1. CASE UNCHANGED lease
    BY <2>1
  <2>2. CASE ~UNCHANGED lease
    <3>1. PICK d \in Destinations : Acquire(p, d) /\ IsClaim(p, d)
      BY <1>1, <2>2, ClaimSteps DEF IsClaim
    <3> QED BY <3>1 DEF Acquire, TypeInv, TypeOK, LeaseTypeOK
  <2> QED BY <2>1, <2>2
<1>2. ASSUME NEW p \in Runtimes, NEW d \in Destinations,
             \/ NextPost(p, d) \/ SkipPost(p, d) \/ InitializeThread(p, d)
             \/ SendChunk(p, d) \/ RecordChunk(p, d) \/ FinalizePost(p, d)
      PROVE  UNCHANGED lease
  BY <1>2 DEF NextPost, SkipPost, InitializeThread, SendChunk, RecordChunk, FinalizePost, durable
<1>3. ASSUME NEW p \in Runtimes, ChooseRoute(p) PROVE UNCHANGED lease
  BY <1>3 DEF ChooseRoute
<1>4. ASSUME NEW r \in wire, RequestArrives(r) \/ RequestIsLost(r) PROVE UNCHANGED lease
  BY <1>4 DEF RequestArrives, RequestIsLost, durable
<1>5. Quiet => lease[y] = x
  BY DEF Quiet, NoLeaseIsGained
<1> QED BY <1>1, <1>2, <1>3, <1>4, <1>5, StepKinds

\* A post that is being planned under a lease is one that NextPost just found
\* unfinished, or was being planned under the same lease before.
LEMMA PreparedSteps ==
  ASSUME TypeInv, [Next]_vars, NEW x \in Runtimes, NEW y \in Destinations,
         batch'[x][y].phase = "prepare"
  PROVE  \/ /\ batch[x][y].phase = "prepare" /\ batch'[x][y].todo = batch[x][y].todo
         \/ /\ NextPost(x, y) /\ batch'[x][y].todo = batch[x][y].todo
            /\ Current(batch[x][y]) \notin NormalizedPosts => history[Current(batch[x][y])] = "none"
<1> DEFINE Stays == batch[x][y].phase = "prepare" /\ batch'[x][y].todo = batch[x][y].todo
<1>1. ASSUME EveryBatchFollows PROVE Stays
  BY <1>1 DEF EveryBatchFollows, Follows, Sending
<1>2. ASSUME batch'[x][y] = batch[x][y] PROVE Stays
  BY <1>2
<1>3. ASSUME NEW p \in Runtimes, NEW d \in Destinations, SetBatch(p, d, batch'[p][d])
      PROVE  (p = x /\ d = y) \/ batch'[x][y] = batch[x][y]
  BY <1>3, OtherBatches
<1>4. ASSUME NEW p \in Runtimes, NEW d \in Destinations,
             InitializeThread(p, d) \/ SendChunk(p, d) \/ RecordChunk(p, d)
      PROVE  Stays
  <2>1. \/ EveryBatchFollows
        \/ SetBatch(p, d, batch'[p][d]) /\ batch'[p][d].phase # "prepare"
    <3>1. CASE SendChunk(p, d)
      <4>1. CASE batch'[p][d] = [batch[p][d] EXCEPT !.phase = "sent"]
        <5>1. batch[p][d] \in Batch
          BY DEF TypeInv, TypeOK
        <5> QED BY <3>1, <4>1, <5>1, SendSteps DEF Batch
      <4> QED BY <3>1, <4>1, SendSteps
    <3> QED BY ZenonT(30), <1>4, <3>1, InitializeSteps, RecordSteps
  <2> QED BY <1>1, <1>2, <1>3, <2>1
<1>5. ASSUME NEW p \in Runtimes, NEW d \in Destinations, NextPost(p, d)
      PROVE  \/ Stays
             \/ /\ p = x /\ d = y /\ batch'[x][y].todo = batch[x][y].todo
                /\ Current(batch[x][y]) \notin NormalizedPosts => history[Current(batch[x][y])] = "none"
  <2>1. \/ EveryBatchFollows
        \/ /\ SetBatch(p, d, batch'[p][d]) /\ batch'[p][d].todo = batch[p][d].todo
           /\ Current(batch[p][d]) \notin NormalizedPosts => history[Current(batch[p][d])] = "none"
    BY <1>5, NextPostSteps
  <2> QED BY <1>1, <1>2, <1>3, <2>1
<1>6. ASSUME NEW p \in Runtimes, ClaimRoute(p)
      PROVE  Stays
  <2>1. \/ UNCHANGED batch
        \/ \E d \in Destinations : SetBatch(p, d, batch'[p][d]) /\ batch'[p][d].phase = "login"
    BY <1>6, ClaimSteps
  <2> QED BY <1>2, <2>1, OtherBatches
<1>7. Quiet => EveryBatchFollows
  BY DEF Quiet
<1>8. ASSUME NEW p \in Runtimes, ChooseRoute(p) PROVE UNCHANGED batch
  BY <1>8 DEF ChooseRoute
<1>9. ASSUME NEW r \in wire, RequestArrives(r) \/ RequestIsLost(r) PROVE UNCHANGED batch
  BY <1>9 DEF RequestArrives, RequestIsLost, process
<1> QED BY <1>1, <1>2, <1>4, <1>5, <1>6, <1>7, <1>8, <1>9, StepKinds, LeavingFollows
--------------------------------------------------------------------------------
LEMMA OwnersInitially == Init => OwnerInv
BY DEF Init, OwnerInv, BatchesStayAtHome, ChosenIsIdle, PreparedIsUnfinished, LostLeaseStaysLost, NoBatch

\* What a batch that is being delivered holds is its current post.
LEMMA CurrentIsHeld ==
  ASSUME TypeInv, NEW p \in Runtimes, NEW d \in Destinations,
         batch[p][d].phase \in {"prepare", "send", "sent", "finalize"}
  PROVE  Current(batch[p][d]) \in batch[p][d].items /\ Current(batch[p][d]) \in Posts
BY CurrentIsLeft DEF TypeInv, BatchesAreSound, SoundBatch, Batch

\* Only FinalizePost finishes a post, and only the owner of its destination.
LEMMA OwnersFinish ==
  ASSUME TypeInv, OwnerInv, [Next]_vars, NEW q \in Posts, history'[q] = "migrated", history[q] # "migrated"
  PROVE  LET p == lease[DestOf(q)] IN
         p \in Runtimes /\ FinalizePost(p, DestOf(q)) /\ Current(batch[p][DestOf(q)]) = q
<1>1. ASSUME NEW p \in Runtimes, NEW d \in Destinations, FinalizePost(p, d)
      PROVE  lease[d] = p /\ DestOf(q) = d /\ Current(batch[p][d]) = q
  <2>1. Current(batch[p][d]) = q /\ lease[d] = p /\ batch[p][d].phase = "finalize"
    BY <1>1 DEF FinalizePost, MayWrite, Owns, TypeInv, TypeOK
  <2>2. DestOf(q) = d
    BY <2>1, CurrentIsHeld DEF OwnerInv, BatchesStayAtHome
  <2> QED BY <2>1, <2>2
<1>2. ASSUME NEW p \in Runtimes, NEW d \in Destinations,
             \/ NextPost(p, d) \/ SkipPost(p, d) \/ InitializeThread(p, d)
             \/ SendChunk(p, d) \/ RecordChunk(p, d)
      PROVE  FALSE
  BY <1>2 DEF NextPost, SkipPost, InitializeThread, SendChunk, RecordChunk, durable, TypeInv, TypeOK
<1>3. ~(\E p \in Runtimes : ChooseRoute(p) \/ ClaimRoute(p))
  BY DEF ChooseRoute, ClaimRoute
<1>4. ~(\E r \in wire : RequestArrives(r) \/ RequestIsLost(r))
  BY DEF RequestArrives, RequestIsLost, durable
<1>5. ~Quiet
  BY DEF Quiet, NothingIsFinished
<1> QED BY <1>1, <1>2, <1>3, <1>4, <1>5, StepKinds

LEMMA HomesStay ==
  ASSUME TypeInv, OwnerInv, [Next]_vars PROVE BatchesStayAtHome'
<1> SUFFICES ASSUME NEW p \in Runtimes, NEW d \in Destinations, NEW q \in batch'[p][d].items PROVE DestOf(q) = d
  BY DEF BatchesStayAtHome, DestOf
<1> QED BY BatchSteps DEF IsClaim, Keeps, OwnerInv, BatchesStayAtHome

LEMMA ChosenStaysIdle ==
  ASSUME TypeInv, OwnerInv, [Next]_vars PROVE ChosenIsIdle'
<1> SUFFICES ASSUME NEW x \in Runtimes, choosing'[x] # NoRoute
             PROVE  batch'[x][DestinationOf[choosing'[x]]].phase = "idle"
  BY DEF ChosenIsIdle
<1>1. CASE choosing'[x] = choosing[x]
  <2> DEFINE d == DestinationOf[choosing[x]]
  <2>1. d \in Destinations /\ batch[x][d].phase = "idle"
    BY <1>1, QueueAssumption DEF OwnerInv, ChosenIsIdle, TypeInv, TypeOK
  <2>2. ~IsClaim(x, d)
    <3>1. ClaimRoute(x) => choosing'[x] = NoRoute
      BY DEF ClaimRoute, TypeInv, TypeOK
    <3> QED BY <3>1 DEF IsClaim
  <2> HIDE DEF d
  <2>3. batch'[x][d].phase = "idle"
    BY <2>1, <2>2, BatchSteps DEF Keeps
  <2> QED BY <1>1, <2>3 DEF d
<1>2. ASSUME NEW p \in Runtimes, ChooseRoute(p)
      PROVE  choosing'[x] = choosing[x] \/ batch'[x][DestinationOf[choosing'[x]]].phase = "idle"
  <2>1. PICK r \in Routes : Claimable(p, r) /\ choosing' = [choosing EXCEPT ![p] = r] /\ UNCHANGED batch
    BY <1>2 DEF ChooseRoute
  <2>2. batch[p][DestinationOf[r]].phase = "idle"
    BY <2>1, QueueAssumption DEF Claimable, Active
  <2> QED BY <2>1, <2>2 DEF TypeInv, TypeOK
<1>3. ASSUME NEW p \in Runtimes, ClaimRoute(p)
      PROVE  choosing'[x] = choosing[x]
  BY <1>3 DEF ClaimRoute, TypeInv, TypeOK
<1>4. ASSUME NEW p \in Runtimes, NEW d \in Destinations,
             \/ NextPost(p, d) \/ SkipPost(p, d) \/ InitializeThread(p, d)
             \/ SendChunk(p, d) \/ RecordChunk(p, d) \/ FinalizePost(p, d)
      PROVE  UNCHANGED choosing
  BY <1>4 DEF NextPost, SkipPost, InitializeThread, SendChunk, RecordChunk, FinalizePost
<1>5. ASSUME NEW r \in wire, RequestArrives(r) \/ RequestIsLost(r) PROVE UNCHANGED choosing
  BY <1>5 DEF RequestArrives, RequestIsLost, process
<1>6. Quiet => choosing'[x] = choosing[x]
  BY DEF Quiet
<1> QED BY <1>1, <1>2, <1>3, <1>4, <1>5, <1>6, StepKinds

LEMMA PreparedStaysUnfinished ==
  ASSUME TypeInv, TypeInv', OwnerInv, [Next]_vars PROVE PreparedIsUnfinished'
<1> SUFFICES ASSUME NEW x \in Runtimes, NEW y \in Destinations,
                    batch'[x][y].phase = "prepare", lease'[y] = x,
                    Current(batch'[x][y]) \notin NormalizedPosts,
                    history'[Current(batch'[x][y])] = "migrated"
             PROVE  FALSE
  BY DEF PreparedIsUnfinished, Owns
<1> DEFINE b == batch[x][y]
           q == Current(b)
<1>1. ~IsClaim(x, y)
  BY DEF IsClaim
<1>2. lease[y] = x /\ batch'[x][y].items \subseteq b.items
  BY <1>1, LeaseSteps, BatchSteps DEF Keeps
<1>3. batch'[x][y].todo = b.todo /\ Current(batch'[x][y]) = q
  BY PreparedSteps DEF Current
<1>4. q \in Posts /\ q \in b.items
  <2>1. b.todo # {} /\ b.todo \subseteq b.items /\ b.items \subseteq Posts
    BY <1>3 DEF TypeInv, BatchesAreSound, SoundBatch, Batch
  <2> QED BY <2>1, CurrentIsLeft
<1>5. history[q] # "migrated"
  BY <1>2, <1>3, PreparedSteps DEF OwnerInv, PreparedIsUnfinished, Owns
<1>6. DestOf(q) = y
  BY <1>4 DEF OwnerInv, BatchesStayAtHome
<1>7. FinalizePost(x, y)
  BY <1>2, <1>3, <1>4, <1>5, <1>6, OwnersFinish
<1>8. b.phase \in {"prepare", "next"}
  BY PreparedSteps DEF NextPost
<1> QED BY <1>7, <1>8 DEF FinalizePost

LEMMA LostStaysLost ==
  ASSUME TypeInv, OwnerInv, [Next]_vars PROVE LostLeaseStaysLost'
<1> SUFFICES ASSUME NEW x \in Runtimes, NEW y \in Destinations,
                    batch'[x][y].phase \notin {"idle", "release"}, batch'[x][y].signal = "lost",
                    lease'[y] = x
             PROVE  FALSE
  BY DEF LostLeaseStaysLost, Owns
<1>1. ~IsClaim(x, y)
  BY DEF IsClaim
<1>2. lease[y] = x /\ Keeps(x, y, batch'[x][y])
  BY <1>1, LeaseSteps, BatchSteps
<1> QED BY <1>2 DEF Keeps, Owns, OwnerInv, LostLeaseStaysLost

LEMMA OwnersInductive ==
  ASSUME TypeInv, TypeInv', OwnerInv, [Next]_vars PROVE OwnerInv'
BY HomesStay, ChosenStaysIdle, PreparedStaysUnfinished, LostStaysLost DEF OwnerInv

LEMMA HistoryIsKept ==
  ASSUME TypeInv, OwnerInv, [Next]_vars, NEW q \in Posts, history[q] = "migrated"
  PROVE  history'[q] = "migrated"
<1>1. ASSUME NEW p \in Runtimes, NEW d \in Destinations, SkipPost(p, d)
      PROVE  history'[q] = "migrated"
  <2> DEFINE b == batch[p][d]
  <2>1. CASE UNCHANGED history
    BY <2>1
  <2>2. CASE ~UNCHANGED history
    <3>1. /\ b.phase = "prepare" /\ Owns(p, d) /\ Current(b) \notin NormalizedPosts
          /\ \E kind \in {"skipped", "staleSkip"} : history' = [history EXCEPT ![Current(b)] = kind]
      BY <1>1, <2>2 DEF SkipPost, MayWrite
    <3>2. Current(b) # q
      BY <3>1 DEF OwnerInv, PreparedIsUnfinished
    <3> QED BY <3>1, <3>2 DEF TypeInv, TypeOK
  <2> QED BY <2>1, <2>2
<1>2. ASSUME NEW p \in Runtimes, NEW d \in Destinations,
             \/ NextPost(p, d) \/ InitializeThread(p, d)
             \/ SendChunk(p, d) \/ RecordChunk(p, d) \/ FinalizePost(p, d)
      PROVE  history'[q] = "migrated"
  BY <1>2 DEF NextPost, InitializeThread, SendChunk, RecordChunk, FinalizePost, durable, TypeInv, TypeOK
<1>3. ASSUME NEW p \in Runtimes, ChooseRoute(p) \/ ClaimRoute(p) PROVE UNCHANGED history
  BY <1>3 DEF ChooseRoute, ClaimRoute
<1>4. ASSUME NEW r \in wire, RequestArrives(r) \/ RequestIsLost(r) PROVE UNCHANGED history
  BY <1>4 DEF RequestArrives, RequestIsLost, durable
<1>5. Quiet => history'[q] = "migrated"
  BY DEF Quiet, NothingIsFinished
<1> QED BY <1>1, <1>2, <1>3, <1>4, <1>5, StepKinds
--------------------------------------------------------------------------------
(***************************************************************************)
(* The three together.                                                     *)
(***************************************************************************)
SafetyInv == TypeInv /\ ThreadInv /\ OwnerInv

LEMMA SafetyInductive ==
  /\ Init => SafetyInv
  /\ SafetyInv /\ [Next]_vars => SafetyInv'
BY TypesInitially, ThreadsInitially, OwnersInitially, TypesInductive, ThreadsInductive, OwnersInductive
   DEF SafetyInv

LEMMA Safety == Spec => []SafetyInv
BY SafetyInductive, PTL DEF Spec

\* A process whose renewal failed cannot write for that batch again, whoever
\* acquires, releases or abandons the lease meanwhile: it never re-acquires a
\* destination that is in activeDestinations.
THEOREM LostIsLost == Spec => []LostLeaseStaysLost
BY Safety, PTL DEF SafetyInv, OwnerInv

\* saveProcessedTweet never overwrites a migrated history row with a skip that a
\* process decided on before another one delivered the post: both assert the
\* lease, and the one that reads the history does so under the same lease.
THEOREM MigratedIsFinal == Spec => MigrationIsFinal
<1>1. SafetyInv /\ [Next]_vars => [\A q \in Posts : history[q] = "migrated" => history'[q] = "migrated"]_vars
  BY HistoryIsKept DEF SafetyInv
<1> QED BY <1>1, Safety, PTL DEF Spec, MigrationIsFinal
--------------------------------------------------------------------------------
(***************************************************************************)
(* Every step that changes a row.                                          *)
(***************************************************************************)
RowIsProduced(q) ==
  Enqueue(q) \/ OverrideSkip(q) \/ RemoveRow(q) \/ RetryFailed(q) \/ BackoffElapses(q) \/ DayElapses(q)

LEMMA RowSteps ==
  ASSUME TypeInv, [Next]_vars
  PROVE  \/ UNCHANGED row
         \/ \E q \in Posts : RowIsProduced(q)
         \/ \E p \in Runtimes : ChooseRoute(p) \/ FindNothing(p) \/ StartRuntime(p) \/ ClaimRoute(p)
         \/ \E p \in Runtimes, d \in Destinations : FinalizePost(p, d) \/ SettleBatch(p, d)
<1>1. ASSUME NEW p \in Runtimes, NEW d \in Destinations, Deliver(p, d)
      PROVE  UNCHANGED row \/ FinalizePost(p, d) \/ SettleBatch(p, d)
  BY <1>1 DEF Deliver, LoginSucceeds, LoginFails, NextPost, PrepareFails, SkipPost, InitializeThread,
              SendChunk, RecordChunk, SendFails, ReleaseBatch, DeadlinePasses, durable
<1>2. ASSUME NEW p \in Runtimes, RenewLeases(p) \/ StopRuntime(p) \/ ExitRuntime(p) \/ Crash(p)
      PROVE  UNCHANGED row
  BY <1>2 DEF RenewLeases, StopRuntime, ExitRuntime, Crash, durable
<1>3. ASSUME NEW d \in Destinations, TogglePause(d) \/ AbandonedLeaseLapses(d) \/ Stall(d)
      PROVE  UNCHANGED row
  BY <1>3 DEF TogglePause, AbandonedLeaseLapses, Stall, durable
<1>4. ASSUME NEW r \in wire, RequestArrives(r) \/ RequestIsLost(r) PROVE UNCHANGED row
  BY <1>4 DEF RequestArrives, RequestIsLost, durable
<1>5. Environment => UNCHANGED row \/ \E q \in Posts : RowIsProduced(q)
  BY <1>3, <1>4 DEF Environment, RowIsProduced
<1>6. ASSUME NEW p \in Runtimes, RuntimeStep(p)
      PROVE  \/ UNCHANGED row \/ ChooseRoute(p) \/ FindNothing(p) \/ StartRuntime(p)
             \/ \E d \in Destinations : FinalizePost(p, d) \/ SettleBatch(p, d)
  BY <1>1, <1>2, <1>6 DEF RuntimeStep
<1>7. UNCHANGED vars => UNCHANGED row
  BY DEF vars, durable
<1> QED BY <1>2, <1>5, <1>6, <1>7 DEF Next

\* Producers and operators leave a processing row alone but for its age.
LEMMA ProducersSpareClaims ==
  ASSUME TypeInv, NEW x \in Posts, RowIsProduced(x), NEW q \in Posts, row[q].status = "processing"
  PROVE  row'[q].status = "processing" /\ row'[q].attempts = row[q].attempts
<1>1. row \in [Posts -> Row]
  BY DEF TypeInv, TypeOK
<1>2. CASE DayElapses(x)
  BY <1>1, <1>2 DEF DayElapses, Row
<1>3. CASE ~DayElapses(x)
  <2>1. x # q /\ \E new : row' = [row EXCEPT ![x] = new]
    <3>1. CASE RetryFailed(x)
      BY <3>1 DEF RetryFailed
    <3>2. CASE BackoffElapses(x)
      BY <3>2 DEF BackoffElapses
    <3>3. CASE Enqueue(x) \/ OverrideSkip(x) \/ RemoveRow(x)
      BY <3>3 DEF Enqueue, OverrideSkip, RemoveRow
    <3> QED BY <1>3, <3>1, <3>2, <3>3 DEF RowIsProduced
  <2> QED BY <1>1, <2>1
<1> QED BY <1>2, <1>3

\* A reset returns rows of a free destination to pending and no others.
LEMMA ResetSpares ==
  ASSUME TypeInv, NEW q \in Posts
  PROVE  \/ AfterReset[q] = row[q]
         \/ lease[DestOf(q)] = Nobody /\ AfterReset[q].status = "pending" /\ AfterReset[q].attempts = row[q].attempts
BY DEF AfterReset, TypeInv, TypeOK, Row

\* What becomes of a row that is processing: it stays, is reset while nobody holds
\* its destination, is deleted as migrated, or is settled by the owner.
LEMMA ClaimedRowSteps ==
  ASSUME TypeInv, OwnerInv, [Next]_vars, NEW q \in Posts, row[q].status = "processing"
  PROVE  \/ row'[q].status = "processing" /\ row'[q].attempts = row[q].attempts
         \/ lease[DestOf(q)] = Nobody /\ row'[q].status = "pending"
         \/ row'[q] = NoRow /\ history'[q] = "migrated"
         \/ LET d == DestOf(q)
                p == lease[d]
            IN /\ p \in Runtimes /\ SettleBatch(p, d) /\ q \in batch[p][d].items
               /\ row'[q] = SettledRow(batch[p][d], q)
<1> USE DEF TypeInv, TypeOK
<1>1. ASSUME NEW p \in Runtimes, ChooseRoute(p) \/ FindNothing(p) \/ StartRuntime(p)
      PROVE  \/ row'[q] = row[q]
             \/ lease[DestOf(q)] = Nobody /\ row'[q].status = "pending"
  <2>1. row'[q] = AfterReset[q]
    BY <1>1 DEF ChooseRoute, FindNothing, StartRuntime
  <2> QED BY <2>1, ResetSpares
<1>2. ASSUME NEW p \in Runtimes, ClaimRoute(p) PROVE row'[q] = row[q]
  BY <1>2 DEF ClaimRoute, Claimed, Pending
<1>3. ASSUME NEW p \in Runtimes, NEW d \in Destinations, FinalizePost(p, d)
      PROVE  row'[q] = row[q] \/ (row'[q] = NoRow /\ history'[q] = "migrated")
  BY <1>3 DEF FinalizePost
<1>4. ASSUME NEW p \in Runtimes, NEW d \in Destinations, SettleBatch(p, d)
      PROVE  \/ row'[q] = row[q]
             \/ /\ lease[d] = p /\ DestOf(q) = d /\ q \in batch[p][d].items
                /\ row'[q] = SettledRow(batch[p][d], q)
  <2>1. CASE q \notin batch[p][d].items
    BY <1>4, <2>1 DEF SettleBatch, SettledRow
  <2>2. CASE q \in batch[p][d].items
    <3>1. DestOf(q) = d
      BY <2>2 DEF OwnerInv, BatchesStayAtHome
    <3> QED BY <1>4, <2>2, <3>1 DEF SettleBatch, Owns
  <2> QED BY <2>1, <2>2
<1>5. ASSUME NEW x \in Posts, RowIsProduced(x)
      PROVE  row'[q].status = "processing" /\ row'[q].attempts = row[q].attempts
  BY <1>5, ProducersSpareClaims
<1> QED BY <1>1, <1>2, <1>3, <1>4, <1>5, RowSteps
--------------------------------------------------------------------------------
(***************************************************************************)
(* Claimed rows.                                                           *)
(***************************************************************************)
\* While a runtime holds a destination and delivers a row, neither operators nor
\* other runtimes change the row: resetProcessing spares leased destinations and
\* settleWithOwnership refuses batches that lost theirs.
THEOREM OwnersRows == Spec => OnlyTheOwnerTouchesItsRows
<1> DEFINE Step ==
      \A p \in Runtimes, q \in Posts : LET d == DestOf(q) IN
        /\ Owns(p, d) /\ lease'[d] = p
        /\ q \in batch[p][d].items /\ row[q].status = "processing"
        /\ batch'[p][d].phase # "release"
        => \/ row'[q].status = "processing" /\ row'[q].attempts = row[q].attempts
           \/ history'[q] = "migrated"
<1>1. ASSUME SafetyInv, [Next]_vars PROVE Step
  <2> SUFFICES ASSUME NEW p \in Runtimes, NEW q \in Posts, lease[DestOf(q)] = p,
                      row[q].status = "processing", batch'[p][DestOf(q)].phase # "release"
               PROVE  \/ row'[q].status = "processing" /\ row'[q].attempts = row[q].attempts
                      \/ history'[q] = "migrated"
    BY DEF Owns
  <2>1. DestOf(q) \in Destinations
    BY QueueAssumption DEF DestOf
  <2>2. ~SettleBatch(p, DestOf(q))
    BY <1>1, <2>1 DEF SettleBatch, SetBatch, SafetyInv, TypeInv, TypeOK, NoBatch
  <2> QED BY <1>1, <2>2, ClaimedRowSteps, OwnersAssumption DEF SafetyInv
<1>2. SafetyInv /\ [Next]_vars => [Step]_vars
  BY <1>1
<1> QED BY <1>2, Safety, PTL DEF Spec, OnlyTheOwnerTouchesItsRows

\* markDone deletes a claimed row only when findSettlement found its outcome, and
\* finalize only together with it.
THEOREM ClaimsHaveOutcomes == Spec => NoClaimedRowVanishes
<1> DEFINE Step ==
      \A q \in Posts : row[q].status = "processing" /\ row'[q].status = "absent"
        => history'[q] \in {"skipped", "migrated"}
<1>1. ASSUME SafetyInv, [Next]_vars PROVE Step
  <2> SUFFICES ASSUME NEW q \in Posts, row[q].status = "processing", row'[q].status = "absent"
               PROVE  history'[q] \in {"skipped", "migrated"}
    OBVIOUS
  <2> DEFINE d == DestOf(q)
             p == lease[d]
             b == batch[p][d]
  <2>1. CASE SettleBatch(p, d) /\ q \in b.items /\ row'[q] = SettledRow(b, q)
    <3>1. history' = history
      BY <2>1 DEF SettleBatch
    <3>2. row[q] \in Row /\ RetryOf(row[q], b.error).status # "absent"
          /\ DeferralOf(row[q], b.error).status # "absent"
      BY <1>1 DEF SafetyInv, TypeInv, TypeOK, RetryOf, DeferralOf, Failed, Row
    <3>3. IsSettled(q)
      <4> HIDE DEF b
      <4> QED BY <2>1, <3>2 DEF SettledRow
    <3> QED BY <3>1, <3>3 DEF IsSettled
  <2> QED BY <1>1, <2>1, ClaimedRowSteps DEF SafetyInv
<1>2. SafetyInv /\ [Next]_vars => [Step]_vars
  BY <1>1
<1> QED BY <1>2, Safety, PTL DEF Spec, NoClaimedRowVanishes
--------------------------------------------------------------------------------
(***************************************************************************)
(* Attempts.                                                               *)
(***************************************************************************)
\* A row is charged, or parked, by the batch that took it up.
LEMMA ChargingSteps ==
  ASSUME TypeInv, OwnerInv, [Next]_vars, NEW q \in Posts,
         \/ row'[q].attempts > row[q].attempts
         \/ row'[q].status = "failed" /\ row[q].status # "failed"
  PROVE  LET d == DestOf(q)
             p == lease[d]
             b == batch[p][d]
         IN /\ p \in Runtimes /\ q \in b.attempted /\ ~IsFree(row[q], b.error)
            /\ row[q].status # "failed" /\ row'[q] = RetryOf(row[q], b.error)
<1> USE DEF TypeInv, TypeOK
<1>1. row[q] \in Row /\ row[q].attempts \in Nat /\ MaxAttempts \in Nat \ {0}
  BY QueueAssumption DEF Row
<1>2. ASSUME NEW p \in Runtimes, ChooseRoute(p) \/ FindNothing(p) \/ StartRuntime(p)
      PROVE  FALSE
  <2>1. row'[q] = AfterReset[q] \/ row'[q] = NoRow
    BY <1>2 DEF ChooseRoute, FindNothing, StartRuntime
  <2> QED BY <1>1, <2>1, ResetSpares DEF NoRow
<1>3. ASSUME NEW p \in Runtimes, ClaimRoute(p) PROVE FALSE
  <2>1. row'[q] = row[q] \/ row'[q] = [row[q] EXCEPT !.status = "processing"]
    BY <1>3 DEF ClaimRoute
  <2> QED BY <1>1, <2>1 DEF Row
<1>4. ASSUME NEW p \in Runtimes, NEW d \in Destinations, FinalizePost(p, d) PROVE FALSE
  <2>1. row'[q] = row[q] \/ row'[q] = NoRow
    BY <1>4 DEF FinalizePost
  <2> QED BY <1>1, <2>1 DEF NoRow
<1>5. ASSUME NEW x \in Posts, RowIsProduced(x) PROVE FALSE
  <2>1. CASE Enqueue(x) \/ OverrideSkip(x) \/ RemoveRow(x)
    <3>1. row'[q] \in {row[q], NoRow, NewRow}
      BY <2>1 DEF Enqueue, OverrideSkip, RemoveRow
    <3>2. /\ NoRow.attempts = 0 /\ NoRow.status # "failed"
          /\ NewRow.attempts = 0 /\ NewRow.status # "failed"
      BY DEF NoRow, NewRow
    <3> QED BY <1>1, <3>1, <3>2
  <2>2. CASE RetryFailed(x)
    BY <1>1, <2>2 DEF RetryFailed, Row
  <2>3. CASE BackoffElapses(x) \/ DayElapses(x)
    BY <1>1, <2>3 DEF BackoffElapses, DayElapses, Row
  <2> QED BY <1>5, <2>1, <2>2, <2>3 DEF RowIsProduced
<1>6. ASSUME NEW p \in Runtimes, NEW d \in Destinations, SettleBatch(p, d)
      PROVE  LET b == batch[p][d] IN
             /\ lease[d] = p /\ DestOf(q) = d /\ q \in b.attempted /\ ~IsFree(row[q], b.error)
             /\ row[q].status # "failed" /\ row'[q] = RetryOf(row[q], b.error)
  <2> DEFINE b == batch[p][d]
  <2>1. row'[q] # row[q]
    BY <1>1
  <2>2. lease[d] = p /\ row'[q] = SettledRow(b, q)
    BY <1>6, <2>1 DEF SettleBatch, Owns
  <2>3. q \in b.items /\ row[q].status = "processing"
    BY <2>1, <2>2 DEF SettledRow
  <2>4. DestOf(q) = d
    BY <2>3 DEF OwnerInv, BatchesStayAtHome
  <2> HIDE DEF b
  <2>5. row'[q] # NoRow
    BY <1>1 DEF NoRow
  <2>6. row'[q] # DeferralOf(row[q], b.error)
    <3>1. DeferralOf(row[q], b.error).attempts = row[q].attempts /\ DeferralOf(row[q], b.error).status = "waiting"
      BY <1>1 DEF DeferralOf, Row
    <3> QED BY <1>1, <3>1
  <2>7. q \in b.attempted /\ row'[q] = RetryOf(row[q], b.error)
    BY <2>2, <2>3, <2>5, <2>6 DEF SettledRow
  <2>8. ~IsFree(row[q], b.error)
    BY <1>1, <2>7 DEF RetryOf, Failed, Row
  <2> QED BY <2>2, <2>3, <2>4, <2>7, <2>8 DEF b
<1>7. ~UNCHANGED row
  BY <1>1
<1> QED BY <1>2, <1>3, <1>4, <1>5, <1>6, <1>7, RowSteps

\* releaseForRetry charges only rows that the delivery loop marked attempted, and
\* parks a row exactly when its attempts reach QUEUE_MAX_ATTEMPTS.
THEOREM TriedRowsAreCharged == Spec => OnlyTriedRowsAreCharged
<1> DEFINE Step ==
      \A q \in Posts :
        /\ row'[q].attempts > row[q].attempts =>
             \E p \in Runtimes : Owns(p, DestOf(q)) /\ q \in batch[p][DestOf(q)].attempted
        /\ row'[q].status = "failed" /\ row[q].status # "failed" => row'[q].attempts = MaxAttempts
<1>1. ASSUME SafetyInv, [Next]_vars PROVE Step
  <2> SUFFICES ASSUME NEW q \in Posts
               PROVE  /\ row'[q].attempts > row[q].attempts =>
                           \E p \in Runtimes : Owns(p, DestOf(q)) /\ q \in batch[p][DestOf(q)].attempted
                      /\ row'[q].status = "failed" /\ row[q].status # "failed" => row'[q].attempts = MaxAttempts
    OBVIOUS
  <2>1. ASSUME row'[q].attempts > row[q].attempts
        PROVE  \E p \in Runtimes : Owns(p, DestOf(q)) /\ q \in batch[p][DestOf(q)].attempted
    BY <1>1, <2>1, ChargingSteps DEF SafetyInv, Owns
  <2>2. ASSUME row'[q].status = "failed", row[q].status # "failed"
        PROVE  row'[q].attempts = MaxAttempts
    <3> DEFINE error == batch[lease[DestOf(q)]][DestOf(q)].error
    <3>1. row'[q] = RetryOf(row[q], error) /\ ~IsFree(row[q], error)
      BY <1>1, <2>2, ChargingSteps DEF SafetyInv
    <3>2. row[q] \in Row /\ row[q].attempts < MaxAttempts /\ row[q].attempts \in Nat /\ MaxAttempts \in Nat
      BY <1>1, <2>2, QueueAssumption DEF SafetyInv, TypeInv, TypeOK, AttemptsAreLeft, Row
    <3> HIDE DEF error
    <3> QED BY <2>2, <3>1, <3>2 DEF RetryOf, Failed, Row
  <2> QED BY <2>1, <2>2
<1>2. SafetyInv /\ [Next]_vars => [Step]_vars
  BY <1>1
<1> QED BY <1>2, Safety, PTL DEF Spec, OnlyTriedRowsAreCharged
--------------------------------------------------------------------------------
(***************************************************************************)
(* Rows in hand.  A batch keeps its rows until it settles, its process     *)
(* dies, or the process claims the destination anew, which it does only    *)
(* when it has no batch there.                                             *)
(***************************************************************************)
IdleBatchesAreEmpty ==
  \A p \in Runtimes, d \in Destinations : batch[p][d].phase = "idle" => batch[p][d].items = {}

HandInv == SafetyInv /\ IdleBatchesAreEmpty

\* The batch holds the rows it held, and does not become idle.
Holds(p, d, new) ==
  new.items = batch[p][d].items /\ (new.phase = "idle" => batch[p][d].phase = "idle")

EveryBatchHolds == \A p \in Runtimes, d \in Destinations : Holds(p, d, batch'[p][d])

LEMMA OneBatchHolds ==
  ASSUME TypeInv, NEW p \in Runtimes, NEW d \in Destinations, NEW b, SetBatch(p, d, b), Holds(p, d, b)
  PROVE  EveryBatchHolds
<1> SUFFICES ASSUME NEW x \in Runtimes, NEW y \in Destinations PROVE Holds(x, y, batch'[x][y])
  BY DEF EveryBatchHolds
<1>1. CASE x = p /\ y = d
  <2>1. batch'[p][d] = b
    BY DEF SetBatch, TypeInv, TypeOK
  <2> QED BY <1>1, <2>1
<1>2. CASE ~(x = p /\ y = d)
  <2>1. batch'[x][y] = batch[x][y]
    BY <1>2, OtherBatches
  <2> QED BY <2>1 DEF Holds
<1> QED BY <1>1, <1>2

\* Giving up and moving on forget the plan of the post, never the rows.
LEMMA LeavingHolds ==
  ASSUME TypeInv, NEW p \in Runtimes, NEW d \in Destinations, NEW m \in Batch,
         m.items = batch[p][d].items,
         Advance(p, d, m) \/ \E kind : Throw(p, d, m, kind)
  PROVE  EveryBatchHolds
<1>1. CASE Advance(p, d, m)
  <2> DEFINE n == [Forget(m) EXCEPT !.phase = "next", !.todo = @ \ {Current(m)}]
  <2>1. n.items = m.items /\ n.phase = "next"
    BY DEF Batch, Forget
  <2>2. SetBatch(p, d, n)
    BY <1>1 DEF Advance
  <2> HIDE DEF n
  <2> QED BY <2>1, <2>2, OneBatchHolds DEF Holds
<1>2. ASSUME NEW kind, Throw(p, d, m, kind) PROVE EveryBatchHolds
  <2> DEFINE n == [Forget(m) EXCEPT !.phase = "settle", !.todo = {}, !.error = kind]
  <2>1. n.items = m.items /\ n.phase = "settle"
    BY DEF Batch, Forget
  <2>2. SetBatch(p, d, n)
    BY <1>2 DEF Throw
  <2> HIDE DEF n
  <2> QED BY <2>1, <2>2, OneBatchHolds DEF Holds
<1> QED BY <1>1, <1>2

LEMMA RefusedHolds ==
  ASSUME TypeInv, NEW p \in Runtimes, NEW d \in Destinations, Refused(p, d)
  PROVE  EveryBatchHolds
<1> DEFINE b == batch[p][d]
           s == IF b.signal = "none" THEN "lost" ELSE b.signal
           m == [b EXCEPT !.signal = s]
<1>1. b \in Batch
  BY DEF TypeInv, TypeOK
<1>2. s \in {"none", "aborted", "lost"}
  BY <1>1 DEF Batch
<1>3. m \in Batch /\ m.items = b.items
  <2> HIDE DEF s
  <2> QED BY <1>1, <1>2 DEF Batch
<1>4. Throw(p, d, m, "failure")
  BY DEF Refused
<1> QED BY <1>3, <1>4, LeavingHolds

\* The steps of a delivery.
LEMMA DeliveryHolds ==
  ASSUME TypeInv, NEW p \in Runtimes, NEW d \in Destinations,
         \/ LoginSucceeds(p, d) \/ LoginFails(p, d) \/ NextPost(p, d) \/ PrepareFails(p, d)
         \/ SkipPost(p, d) \/ InitializeThread(p, d) \/ SendChunk(p, d) \/ RecordChunk(p, d)
         \/ SendFails(p, d) \/ FinalizePost(p, d) \/ DeadlinePasses(p, d)
  PROVE  EveryBatchHolds
<1> DEFINE b == batch[p][d]
           Kept(n) == SetBatch(p, d, n) /\ n.items = b.items /\ n.phase # "idle"
           Left(m) == /\ m \in Batch /\ m.items = b.items
                      /\ Advance(p, d, m) \/ \E kind : Throw(p, d, m, kind)
<1>1. b \in Batch
  BY DEF TypeInv, TypeOK
<1>2. \A n : Kept(n) => EveryBatchHolds
  BY OneBatchHolds DEF Holds
<1>3. \A m : Left(m) => EveryBatchHolds
  BY LeavingHolds
<1>4. Refused(p, d) => EveryBatchHolds
  BY RefusedHolds
<1>5. ASSUME LoginSucceeds(p, d) PROVE EveryBatchHolds
  <2> DEFINE n == [b EXCEPT !.phase = "next", !.todo = TakenUp(@), !.attempted = b.items \cap CorruptPosts]
  <2>1. Kept(n)
    BY <1>1, <1>5 DEF LoginSucceeds, Batch
  <2> QED BY <1>2, <2>1
<1>6. ASSUME LoginFails(p, d) \/ PrepareFails(p, d) \/ SendFails(p, d) PROVE EveryBatchHolds
  <2>1. Left(b)
    BY <1>1, <1>6 DEF LoginFails, PrepareFails, SendFails
  <2> QED BY <1>3, <2>1
<1>7. ASSUME NextPost(p, d) PROVE EveryBatchHolds
  <2> DEFINE a == b.attempted \cup {Current(b)}
  <2>1. ASSUME SetBatch(p, d, [b EXCEPT !.phase = "settle"]) PROVE EveryBatchHolds
    <3>1. Kept([b EXCEPT !.phase = "settle"])
      BY <1>1, <2>1 DEF Batch
    <3> QED BY <1>2, <3>1
  <2>2. ASSUME b.todo # {}, b.phase = "next", Advance(p, d, [b EXCEPT !.attempted = a]) PROVE EveryBatchHolds
    <3>1. a \subseteq Posts
      BY <1>1, <2>2, CurrentIsLeft DEF TypeInv, BatchesAreSound, SoundBatch, Batch
    <3> HIDE DEF a
    <3>2. Left([b EXCEPT !.attempted = a])
      BY <1>1, <2>2, <3>1 DEF Batch
    <3> QED BY <1>3, <3>2
  <2>3. ASSUME SetBatch(p, d, [b EXCEPT !.attempted = a, !.phase = "prepare"]) PROVE EveryBatchHolds
    <3> HIDE DEF a
    <3>1. Kept([b EXCEPT !.attempted = a, !.phase = "prepare"])
      BY <1>1, <2>3 DEF Batch
    <3> QED BY <1>2, <3>1
  <2> QED BY <1>4, <1>7, <2>1, <2>2, <2>3 DEF NextPost
<1>8. ASSUME SkipPost(p, d) PROVE EveryBatchHolds
  <2>1. Left(b) \/ Refused(p, d)
    BY <1>1, <1>8 DEF SkipPost
  <2> QED BY <1>3, <1>4, <2>1
<1>9. ASSUME InitializeThread(p, d) PROVE EveryBatchHolds
  <2>1. ASSUME NEW content, NEW stamp, NEW chunk, NEW phase, phase \in {"send", "finalize"},
               SetBatch(p, d, [b EXCEPT !.content = content, !.stamp = stamp, !.chunk = chunk, !.phase = phase])
        PROVE  EveryBatchHolds
    <3>1. Kept([b EXCEPT !.content = content, !.stamp = stamp, !.chunk = chunk, !.phase = phase])
      BY <1>1, <2>1 DEF Batch
    <3> QED BY <1>2, <3>1
  <2>2. \/ Throw(p, d, b, "failure")
        \/ \E content, stamp, chunk : \E phase \in {"send", "finalize"} :
             SetBatch(p, d, [b EXCEPT !.content = content, !.stamp = stamp, !.chunk = chunk, !.phase = phase])
    BY <1>9 DEF InitializeThread
  <2>3. Throw(p, d, b, "failure") => Left(b)
    BY <1>1
  <2> QED BY <1>3, <2>1, <2>2, <2>3
<1>10. ASSUME SendChunk(p, d) PROVE EveryBatchHolds
  <2>1. SetBatch(p, d, [b EXCEPT !.phase = "sent"]) => Kept([b EXCEPT !.phase = "sent"])
    BY <1>1 DEF Batch
  <2> QED BY <1>2, <1>4, <1>10, <2>1 DEF SendChunk
<1>11. ASSUME RecordChunk(p, d) PROVE EveryBatchHolds
  <2>1. ASSUME NEW phase \in {"send", "finalize"},
               SetBatch(p, d, [b EXCEPT !.phase = phase, !.chunk = @ + 1])
        PROVE  EveryBatchHolds
    <3>1. Kept([b EXCEPT !.phase = phase, !.chunk = @ + 1])
      BY <1>1, <2>1 DEF Batch
    <3> QED BY <1>2, <3>1
  <2>2. \/ Throw(p, d, b, "failure") \/ Refused(p, d)
        \/ \E phase \in {"send", "finalize"} : SetBatch(p, d, [b EXCEPT !.phase = phase, !.chunk = @ + 1])
    BY <1>11 DEF RecordChunk
  <2>3. Throw(p, d, b, "failure") => Left(b)
    BY <1>1
  <2> QED BY <1>3, <1>4, <2>1, <2>2, <2>3
<1>12. ASSUME FinalizePost(p, d) PROVE EveryBatchHolds
  <2>1. Left(b) \/ Refused(p, d)
    BY <1>1, <1>12 DEF FinalizePost
  <2> QED BY <1>3, <1>4, <2>1
<1>13. ASSUME DeadlinePasses(p, d) PROVE EveryBatchHolds
  <2>1. Kept([b EXCEPT !.signal = "aborted"])
    BY <1>1, <1>13 DEF DeadlinePasses, Batch
  <2> QED BY <1>2, <2>1
<1> QED BY <1>5, <1>6, <1>7, <1>8, <1>9, <1>10, <1>11, <1>12, <1>13
--------------------------------------------------------------------------------
\* What becomes of the rows of a batch in any step.
LEMMA HandSteps ==
  ASSUME TypeInv, [Next]_vars, NEW x \in Runtimes, NEW y \in Destinations
  PROVE  \/ Holds(x, y, batch'[x][y])
         \/ SettleBatch(x, y) /\ batch'[x][y].phase = "release"
         \/ batch'[x][y] = NoBatch /\ (ReleaseBatch(x, y) \/ Crash(x))
         \/ IsClaim(x, y)
<1> USE DEF TypeInv, TypeOK
<1>1. CASE UNCHANGED batch
  BY <1>1 DEF Holds
<1>2. ASSUME NEW p \in Runtimes, NEW d \in Destinations, SettleBatch(p, d) \/ ReleaseBatch(p, d)
      PROVE  \/ batch'[x][y] = batch[x][y]
             \/ SettleBatch(x, y) /\ batch'[x][y].phase = "release"
             \/ batch'[x][y] = NoBatch /\ ReleaseBatch(x, y)
  <2>1. CASE ~(x = p /\ y = d)
    BY <1>2, <2>1, OtherBatches DEF SettleBatch, ReleaseBatch
  <2>2. CASE x = p /\ y = d /\ SettleBatch(p, d)
    <3>1. batch'[p][d] = [NoBatch EXCEPT !.phase = "release"]
      BY <2>2 DEF SettleBatch, SetBatch
    <3> QED BY <2>2, <3>1 DEF NoBatch
  <2>3. CASE x = p /\ y = d /\ ReleaseBatch(p, d)
    BY <2>3 DEF ReleaseBatch, SetBatch
  <2> QED BY <1>2, <2>1, <2>2, <2>3
<1>3. ASSUME NEW p \in Runtimes, RenewLeases(p) \/ StopRuntime(p) PROVE EveryBatchHolds
  <2> SUFFICES ASSUME NEW d \in Destinations PROVE Holds(p, d, batch'[p][d])
    BY <1>3 DEF RenewLeases, StopRuntime, EveryBatchHolds, Holds
  <2>1. batch[p][d] \in Batch
    OBVIOUS
  <2>2. batch'[p][d] \in {batch[p][d], [batch[p][d] EXCEPT !.signal = "lost"], [batch[p][d] EXCEPT !.signal = "aborted"]}
    BY <1>3 DEF RenewLeases, StopRuntime
  <2> QED BY <2>1, <2>2 DEF Holds, Batch
<1>4. ASSUME NEW p \in Runtimes, Crash(p)
      PROVE  batch'[x][y] = batch[x][y] \/ (batch'[x][y] = NoBatch /\ Crash(x))
  BY <1>4 DEF Crash
<1>5. ASSUME NEW p \in Runtimes, ClaimRoute(p)
      PROVE  batch'[x][y] = batch[x][y] \/ IsClaim(x, y)
  <2>1. CASE UNCHANGED batch
    BY <2>1
  <2>2. CASE ~UNCHANGED batch
    <3>1. PICK d \in Destinations : SetBatch(p, d, batch'[p][d]) /\ IsClaim(p, d)
      BY <1>5, <2>2, ClaimSteps DEF IsClaim
    <3> QED BY <3>1, OtherBatches
  <2> QED BY <2>1, <2>2
<1>6. ASSUME NEW p \in Runtimes, ChooseRoute(p) \/ FindNothing(p) \/ ExitRuntime(p) \/ StartRuntime(p)
      PROVE  UNCHANGED batch
  BY <1>6 DEF ChooseRoute, FindNothing, ExitRuntime, StartRuntime, process
<1>7. Environment \/ UNCHANGED vars => UNCHANGED batch
  BY DEF Environment, Enqueue, OverrideSkip, RemoveRow, RetryFailed, BackoffElapses, DayElapses, TogglePause,
         AbandonedLeaseLapses, Stall, RequestArrives, RequestIsLost, process, vars
<1>8. ASSUME EveryBatchHolds PROVE Holds(x, y, batch'[x][y])
  BY <1>8 DEF EveryBatchHolds
<1>9. batch'[x][y] = batch[x][y] => Holds(x, y, batch'[x][y])
  BY DEF Holds
<1>10. ASSUME NEW p \in Runtimes, NEW d \in Destinations, Deliver(p, d)
       PROVE  EveryBatchHolds \/ SettleBatch(p, d) \/ ReleaseBatch(p, d)
  BY <1>10, DeliveryHolds DEF Deliver
<1> QED BY <1>1, <1>2, <1>3, <1>4, <1>5, <1>6, <1>7, <1>8, <1>9, <1>10 DEF Next, RuntimeStep

LEMMA HandInductive ==
  /\ Init => HandInv
  /\ HandInv /\ [Next]_vars => HandInv'
<1>1. Init => IdleBatchesAreEmpty
  BY DEF Init, IdleBatchesAreEmpty, NoBatch
<1>2. ASSUME HandInv, [Next]_vars PROVE IdleBatchesAreEmpty'
  <2> SUFFICES ASSUME NEW x \in Runtimes, NEW y \in Destinations, batch'[x][y].phase = "idle"
               PROVE  batch'[x][y].items = {}
    BY DEF IdleBatchesAreEmpty
  <2> QED BY <1>2, HandSteps DEF HandInv, SafetyInv, IdleBatchesAreEmpty, Holds, IsClaim, NoBatch
<1> QED BY <1>1, <1>2, SafetyInductive DEF HandInv

\* runBatch settles every row of its batch in the transaction that lets it go, and
\* scheduleAvailable never claims a destination in activeDestinations: no row is
\* left processing under a lease that its process goes on renewing.
THEOREM ClaimsStayInHand == Spec => ClaimsAreNotForgotten
<1> DEFINE Step ==
      \A p \in Runtimes, q \in Posts : LET d == DestOf(q) IN
        /\ Owns(p, d) /\ lease'[d] = p
        /\ q \in batch[p][d].items \ batch'[p][d].items /\ row[q].status = "processing"
        => row'[q].status # "processing"
<1>1. ASSUME HandInv, [Next]_vars PROVE Step
  <2> SUFFICES ASSUME NEW p \in Runtimes, NEW q \in Posts, lease[DestOf(q)] = p, lease'[DestOf(q)] = p,
                      q \in batch[p][DestOf(q)].items, q \notin batch'[p][DestOf(q)].items,
                      row[q].status = "processing"
               PROVE  row'[q].status # "processing"
    BY DEF Owns
  <2> DEFINE d == DestOf(q)
             b == batch[p][d]
  <2>1. d \in Destinations /\ b \in Batch /\ row[q] \in Row
    BY <1>1, QueueAssumption DEF DestOf, HandInv, SafetyInv, TypeInv, TypeOK
  <2>2. ~IsClaim(p, d)
    <3>1. IsClaim(p, d) => b.phase = "idle"
      BY <1>1 DEF IsClaim, ClaimRoute, HandInv, SafetyInv, OwnerInv, ChosenIsIdle
    <3> QED BY <1>1, <2>1, <3>1 DEF HandInv, IdleBatchesAreEmpty
  <2>3. ~ReleaseBatch(p, d) /\ ~Crash(p)
    BY <1>1, <2>1, OwnersAssumption
       DEF ReleaseBatch, ReleaseLease, Crash, Abandon, HandInv, SafetyInv, TypeInv, TypeOK, LeaseTypeOK
  <2>4. SettleBatch(p, d)
    BY <1>1, <2>1, <2>2, <2>3, HandSteps DEF HandInv, SafetyInv, Holds
  <2>5. b.signal # "lost"
    BY <1>1, <2>1, <2>4 DEF SettleBatch, HandInv, SafetyInv, OwnerInv, LostLeaseStaysLost, Owns
  <2>6. row'[q] = SettledRow(b, q)
    BY <2>4, <2>5 DEF SettleBatch, Owns
  <2>7. /\ NoRow.status # "processing" /\ DeferralOf(row[q], b.error).status # "processing"
        /\ RetryOf(row[q], b.error).status # "processing"
    BY <2>1 DEF NoRow, DeferralOf, RetryOf, Failed, Row
  <2> HIDE DEF b
  <2>8. q \in b.items
    BY DEF b
  <2> QED BY <2>6, <2>7, <2>8 DEF SettledRow
<1>2. HandInv /\ [Next]_vars => [Step]_vars
  BY <1>1
<1> QED BY <1>2, HandInductive, PTL DEF Spec, ClaimsAreNotForgotten
================================================================================
