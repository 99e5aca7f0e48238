--------------------- MODULE DeliveryQueueRefinementProofs ---------------------
(***************************************************************************)
(* DeliveryQueue implements ThreadPublication; with one rendering and any  *)
(* number of interrupted attempts it publishes each chunk once; and with   *)
(* any number of renderings each thread has one of them.                   *)
(***************************************************************************)
EXTENDS DeliveryQueueProofs

--------------------------------------------------------------------------------
(***************************************************************************)
(* The recorded chunks of a thread are its first ones, and FirstMissing    *)
(* counts them.                                                            *)
(***************************************************************************)
LEMMA RecordedIsPrefix ==
  ASSUME ThreadInv, NEW q \in Posts, NEW c \in Chunks
  PROVE  IsRecorded(q, c) <=> c < FirstMissing(checkpoint[q])
<1> DEFINE first == FirstMissing(checkpoint[q])
<1>1. /\ first \in 1 .. NumChunks + 1 /\ NumChunks \in Nat /\ c \in 1 .. NumChunks
      /\ \A e \in Chunks : e < first => IsRecorded(q, e)
      /\ first \in Chunks => ~IsRecorded(q, first)
      /\ first \notin Chunks => \A e \in Chunks : IsRecorded(q, e)
  BY FirstMissingFinds, QueueAssumption DEF IsRecorded, Chunks
<1>2. ASSUME IsRecorded(q, c), NEW e \in Chunks, e < c
      PROVE  IsRecorded(q, e)
  <2>1. PICK r \in feed : r.post = q /\ r.chunk = c
    BY <1>2 DEF ThreadInv, RecordedChunksArePublished
  <2> QED BY <1>2, <2>1 DEF ThreadInv, ThreadsGrowInOrder
<1> HIDE DEF first
<1>3. ASSUME first \in Chunks PROVE IsRecorded(q, c) <=> c < first
  <2>1. first < c => ~IsRecorded(q, c)
    BY <1>1, <1>2, <1>3
  <2> QED BY <1>1, <1>3, <2>1
<1>4. ASSUME first \notin Chunks PROVE IsRecorded(q, c) <=> c < first
  BY <1>1, <1>4 DEF Chunks
<1> QED BY <1>3, <1>4 DEF first

\* FirstMissing is the only such number.
LEMMA FirstMissingIsUnique ==
  ASSUME NEW plan, NEW n \in 1 .. NumChunks + 1,
         \A c \in Chunks : plan.uri[c] # None <=> c < n
  PROVE  FirstMissing(plan) = n
<1> DEFINE first == FirstMissing(plan)
<1>1. /\ first \in 1 .. NumChunks + 1 /\ NumChunks \in Nat
      /\ \A e \in Chunks : e < first => plan.uri[e] # None
      /\ first \in Chunks => plan.uri[first] = None
      /\ first \notin Chunks => \A e \in Chunks : plan.uri[e] # None
  BY FirstMissingFinds, QueueAssumption
<1> HIDE DEF first
<1>2. first = n
  BY <1>1 DEF Chunks
<1> QED BY <1>2 DEF first

\* Plans with the same gaps have the same first gap.
LEMMA SameGaps ==
  ASSUME NEW q \in Posts, ThreadInv,
         \A c \in Chunks : IsRecorded(q, c) <=> checkpoint'[q].uri[c] # None
  PROVE  FirstMissing(checkpoint'[q]) = FirstMissing(checkpoint[q])
<1>1. FirstMissing(checkpoint[q]) \in 1 .. NumChunks + 1
  BY FirstMissingFinds
<1>2. \A c \in Chunks : checkpoint'[q].uri[c] # None <=> c < FirstMissing(checkpoint[q])
  BY RecordedIsPrefix
<1> QED BY <1>1, <1>2, FirstMissingIsUnique
--------------------------------------------------------------------------------
(***************************************************************************)
(* Steps of the abstract specification.                                    *)
(***************************************************************************)
Acknowledged == [q \in Posts |-> FirstMissing(checkpoint[q]) - 1]
PublishedPairs == {<<r.post, r.chunk>> : r \in feed}
Finished == {q \in Posts : history[q] = "migrated"}

\* A step changes one of feed, checkpoint and history.
LEMMA OneAtATime ==
  ASSUME TypeInv, [Next]_vars
  PROVE  \/ UNCHANGED <<feed, checkpoint>>
         \/ UNCHANGED <<feed, history>>
         \/ UNCHANGED <<checkpoint, history>> /\ \E r \in wire : RequestArrives(r)
<1>1. ASSUME NEW p \in Runtimes, NEW d \in Destinations, InitializeThread(p, d) \/ RecordChunk(p, d)
      PROVE  UNCHANGED <<feed, history>>
  BY <1>1 DEF InitializeThread, RecordChunk, network
<1>2. ASSUME NEW p \in Runtimes, NEW d \in Destinations,
             NextPost(p, d) \/ SkipPost(p, d) \/ SendChunk(p, d) \/ FinalizePost(p, d)
      PROVE  UNCHANGED <<feed, checkpoint>>
  BY <1>2 DEF NextPost, SkipPost, SendChunk, FinalizePost, network, durable
<1>3. ASSUME NEW p \in Runtimes, ChooseRoute(p) \/ ClaimRoute(p) PROVE UNCHANGED <<feed, checkpoint>>
  BY <1>3 DEF ChooseRoute, ClaimRoute, network
<1>4. ASSUME NEW r \in wire, RequestArrives(r) \/ RequestIsLost(r)
      PROVE  UNCHANGED <<checkpoint, history>> /\ (RequestArrives(r) \/ UNCHANGED feed)
  BY <1>4 DEF RequestArrives, RequestIsLost, durable
<1>5. Quiet => UNCHANGED <<feed, checkpoint>>
  BY DEF Quiet
<1> QED BY <1>1, <1>2, <1>3, <1>4, <1>5, StepKinds

\* A record arrives: the next one of its thread, or one that is known.
LEMMA ArrivalPublishes ==
  ASSUME SafetyInv, NEW r \in wire, RequestArrives(r)
  PROVE  \/ UNCHANGED PublishedPairs
         \/ \E q \in Posts : /\ Acknowledged[q] < NumChunks
                             /\ PublishedPairs' = PublishedPairs \cup {<<q, Acknowledged[q] + 1>>}
<1> DEFINE q == r.post
           first == FirstMissing(checkpoint[q])
<1>1. q \in Posts /\ r.chunk \in Chunks /\ NumChunks \in Nat
  BY QueueAssumption DEF SafetyInv, TypeInv, TypeOK, Record
<1>2. first \in 1 .. NumChunks + 1 /\ Acknowledged[q] = first - 1
  BY <1>1, FirstMissingFinds DEF Acknowledged
<1>3. \A c \in Chunks : c < r.chunk => c < first
  BY <1>1, RecordedIsPrefix DEF SafetyInv, ThreadInv, ThreadsGrowInOrder
<1>4. feed' = feed \/ feed' = feed \cup {r}
  BY DEF RequestArrives
<1>5. feed' = feed \/ PublishedPairs' = PublishedPairs \cup {<<q, r.chunk>>}
  BY <1>4 DEF PublishedPairs
<1>6. CASE r.chunk < first
  <2>1. IsRecorded(q, r.chunk)
    BY <1>1, <1>6, RecordedIsPrefix DEF SafetyInv
  <2>2. PICK s \in feed : s.post = q /\ s.chunk = r.chunk
    BY <1>1, <2>1 DEF SafetyInv, ThreadInv, RecordedChunksArePublished
  <2>3. <<q, r.chunk>> \in PublishedPairs
    BY <2>2 DEF PublishedPairs
  <2>4. CASE feed' = feed
    BY <2>4 DEF PublishedPairs
  <2> QED BY <1>5, <2>3, <2>4
<1>7. CASE ~(r.chunk < first)
  <2> HIDE DEF first
  <2>1. r.chunk = first /\ Acknowledged[q] + 1 = first /\ Acknowledged[q] < NumChunks
    BY <1>1, <1>2, <1>3, <1>7 DEF Chunks
  <2>2. CASE feed' = feed
    BY <2>2 DEF PublishedPairs
  <2> QED BY <1>1, <1>5, <2>1, <2>2
<1> QED BY <1>6, <1>7

LEMMA SettingAcknowledges ==
  ASSUME SafetyInv, SafetyInv', [Next]_vars, UNCHANGED <<feed, history>>
  PROVE  \/ UNCHANGED Acknowledged
         \/ \E q \in Posts : /\ Acknowledged[q] < NumChunks
                             /\ <<q, Acknowledged[q] + 1>> \in PublishedPairs
                             /\ Acknowledged' = [Acknowledged EXCEPT ![q] = @ + 1]
<1>0. TypeInv /\ ThreadInv /\ ThreadInv' /\ NumChunks \in Nat
  BY QueueAssumption DEF SafetyInv
<1>1. ASSUME NEW q \in Posts, checkpoint'[q] = checkpoint[q]
      PROVE  FirstMissing(checkpoint'[q]) = FirstMissing(checkpoint[q])
  BY <1>1
<1>2. ASSUME \A q \in Posts : FirstMissing(checkpoint'[q]) = FirstMissing(checkpoint[q])
      PROVE  UNCHANGED Acknowledged
  BY <1>2 DEF Acknowledged
<1>3. ASSUME NEW p \in Runtimes, NEW d \in Destinations, InitializeThread(p, d), ~UNCHANGED checkpoint
      PROVE  UNCHANGED Acknowledged
  <2> DEFINE x == Current(batch[p][d])
  <2>1. PICK content \in Contents, stamp \in Stamps :
          /\ checkpoint' = [checkpoint EXCEPT ![x] = InitializedPlan(checkpoint[x], content, stamp)]
          /\ ~Mismatch(x, content) /\ x \in Posts
    BY <1>0, <1>3, InitializeSteps
  <2> HIDE DEF x
  <2>2. checkpoint'[x] = InitializedPlan(checkpoint[x], content, stamp)
        /\ \A q \in Posts : q # x => checkpoint'[q] = checkpoint[q]
    BY <1>0, <2>1 DEF TypeInv, TypeOK
  <2>3. CASE checkpoint[x].content = content
    <3>1. checkpoint'[x] = checkpoint[x]
      BY <2>2, <2>3 DEF InitializedPlan
    <3> QED BY <1>2, <2>2, <3>1
  <2>4. CASE checkpoint[x].content # content
    <3>1. \A c \in Chunks : checkpoint'[x].uri[c] = None
      BY <2>2, <2>4 DEF InitializedPlan, NoPlan
    <3>2. \A c \in Chunks : ~IsRecorded(x, c)
      BY <1>0, <2>1, <2>4 DEF Mismatch, TypeInv, PlansHaveStamps
    <3>3. FirstMissing(checkpoint'[x]) = FirstMissing(checkpoint[x])
      BY <1>0, <2>1, <3>1, <3>2, SameGaps
    <3> QED BY <1>1, <1>2, <2>2, <3>3
  <2> QED BY <2>3, <2>4
<1>4. ASSUME NEW p \in Runtimes, NEW d \in Destinations, RecordChunk(p, d), ~UNCHANGED checkpoint
      PROVE  \/ UNCHANGED Acknowledged
             \/ \E q \in Posts : /\ Acknowledged[q] < NumChunks
                                 /\ <<q, Acknowledged[q] + 1>> \in PublishedPairs
                                 /\ Acknowledged' = [Acknowledged EXCEPT ![q] = @ + 1]
  <2> DEFINE b == batch[p][d]
             x == Current(b)
             n == b.chunk
             first == FirstMissing(checkpoint[x])
  <2>1. /\ checkpoint' = [checkpoint EXCEPT ![x].uri[n] = b.stamp] /\ x \in Posts
        /\ ChunkRecord(b) \in feed /\ b.phase = "sent"
    BY <1>0, <1>4, RecordSteps
  <2>2. n \in Chunks /\ b.stamp # None /\ checkpoint[x] \in Plan
    BY <1>0, <2>1, QueueAssumption DEF TypeInv, TypeOK, BatchesAreSound, SoundBatch
  <2>3. \A c \in Chunks : c < n => IsRecorded(x, c)
    BY <1>0, <2>1 DEF ThreadInv, SendsFollowRecords, EarlierChunksAreRecorded, Sending
  <2>4. <<x, n>> \in PublishedPairs
    BY <2>1 DEF PublishedPairs, ChunkRecord
  <2>5. /\ checkpoint'[x].uri[n] # None
        /\ \A c \in Chunks : c # n => checkpoint'[x].uri[c] = checkpoint[x].uri[c]
        /\ \A q \in Posts : q # x => checkpoint'[q] = checkpoint[q]
    BY <1>0, <2>1, <2>2 DEF TypeInv, TypeOK, Plan
  <2> HIDE DEF x, n
  <2>6. CASE IsRecorded(x, n)
    <3>1. \A c \in Chunks : IsRecorded(x, c) <=> checkpoint'[x].uri[c] # None
      BY <2>5, <2>6 DEF IsRecorded
    <3>2. FirstMissing(checkpoint'[x]) = FirstMissing(checkpoint[x])
      BY <1>0, <2>1, <3>1, SameGaps
    <3> QED BY <1>1, <1>2, <2>5, <3>2
  <2>7. CASE ~IsRecorded(x, n)
    <3>1. first \in 1 .. NumChunks + 1 /\ n \in 1 .. NumChunks
      BY <2>2, FirstMissingFinds DEF Chunks
    <3>2. \A c \in Chunks : IsRecorded(x, c) <=> c < first
      BY <1>0, <2>1, RecordedIsPrefix
    <3> HIDE DEF first
    <3>3. first = n
      <4>1. ~(n < first)
        BY <2>2, <2>7, <3>2
      <4>2. \A c \in Chunks : c < n => c < first
        BY <2>3, <3>2
      <4>3. first < n => first \in Chunks
        BY <3>1, <1>0 DEF Chunks
      <4> QED BY <3>1, <4>1, <4>2, <4>3, <1>0
    <3>4. \A c \in Chunks : checkpoint'[x].uri[c] # None <=> c < n + 1
      <4>1. \A c \in Chunks : IsRecorded(x, c) <=> c < n
        BY <3>2, <3>3
      <4>2. \A c \in Chunks : c < n + 1 <=> (c < n \/ c = n)
        BY <3>1 DEF Chunks
      <4> QED BY <2>5, <4>1, <4>2 DEF IsRecorded
    <3>5. FirstMissing(checkpoint'[x]) = n + 1
      BY <3>1, <3>4, <1>0, FirstMissingIsUnique
    <3>6. /\ Acknowledged[x] = n - 1 /\ Acknowledged'[x] = n
          /\ \A q \in Posts : q # x => Acknowledged'[q] = Acknowledged[q]
      BY <2>1, <2>5, <3>1, <3>3, <3>5 DEF Acknowledged, first
    <3>7. Acknowledged' = [Acknowledged EXCEPT ![x] = @ + 1]
      <4>1. Acknowledged \in [Posts -> Int] /\ Acknowledged' \in [Posts -> Int]
        BY FirstMissingFinds, <1>0 DEF Acknowledged
      <4> QED BY <2>1, <3>1, <3>6, <4>1
    <3>8. Acknowledged[x] < NumChunks /\ Acknowledged[x] + 1 = n
      BY <3>1, <3>6, <1>0
    <3> QED BY <2>1, <2>4, <3>7, <3>8
  <2> QED BY <2>6, <2>7
<1>5. CASE UNCHANGED checkpoint
  BY <1>2, <1>5
<1> QED BY <1>0, <1>3, <1>4, <1>5, CheckpointSteps

LEMMA FinishingFinishes ==
  ASSUME SafetyInv, [Next]_vars, UNCHANGED <<feed, checkpoint>>
  PROVE  \/ UNCHANGED Finished
         \/ \E q \in Posts : Acknowledged[q] = NumChunks /\ Finished' = Finished \cup {q}
<1>1. TypeInv /\ OwnerInv /\ ThreadInv /\ NumChunks \in Nat
  BY QueueAssumption DEF SafetyInv
<1>2. Finished \subseteq Finished'
  BY <1>1, HistoryIsKept DEF Finished
<1>3. ASSUME NEW q \in Finished' \ Finished
      PROVE  Acknowledged[q] = NumChunks /\ Finished' = Finished \cup {q}
  <2>1. q \in Posts /\ history'[q] = "migrated" /\ history[q] # "migrated"
    BY <1>3 DEF Finished
  <2>2. PICK p \in Runtimes, d \in Destinations : FinalizePost(p, d) /\ Current(batch[p][d]) = q
    BY <1>1, <2>1, OwnersFinish, QueueAssumption DEF DestOf
  <2>3. history' = [history EXCEPT ![q] = "migrated"] /\ \A c \in Chunks : IsRecorded(q, c)
    BY <1>1, <2>1, <2>2, HistorySteps DEF FinalizePost
  <2>4. Finished' = Finished \cup {q}
    BY <1>1, <2>1, <2>3 DEF Finished, TypeInv, TypeOK
  <2>5. FirstMissing(checkpoint[q]) = NumChunks + 1
    <3>1. NumChunks + 1 \in 1 .. NumChunks + 1 /\ \A c \in Chunks : c < NumChunks + 1
      BY <1>1 DEF Chunks
    <3> QED BY <2>3, <3>1, FirstMissingIsUnique DEF IsRecorded
  <2> QED BY <1>1, <2>1, <2>4, <2>5 DEF Acknowledged
<1> QED BY <1>2, <1>3 DEF Finished

LEMMA ThreadsBegin == Init => Threads!Init
<1> SUFFICES ASSUME Init PROVE Threads!Init
  OBVIOUS
<1>1. ASSUME NEW q \in Posts PROVE FirstMissing(checkpoint[q]) = 1
  <2>1. \A c \in Chunks : checkpoint[q].uri[c] # None <=> c < 1
    BY QueueAssumption DEF Init, NoPlan, Chunks
  <2>2. 1 \in 1 .. NumChunks + 1
    BY QueueAssumption
  <2> QED BY <2>1, <2>2, FirstMissingIsUnique
<1> QED BY <1>1 DEF Init, Threads!Init

LEMMA ThreadsStep == SafetyInv /\ SafetyInv' /\ [Next]_vars => [Threads!Next]_(Threads!tpVars)
<1> SUFFICES ASSUME SafetyInv, SafetyInv', [Next]_vars PROVE Threads!Next \/ UNCHANGED Threads!tpVars
  OBVIOUS
<1>1. CASE UNCHANGED <<feed, checkpoint>>
  <2>1. UNCHANGED PublishedPairs /\ UNCHANGED Acknowledged
    BY <1>1 DEF PublishedPairs, Acknowledged
  <2> QED BY <1>1, <2>1, FinishingFinishes
          DEF Threads!Next, Threads!Finish, Threads!tpVars, PublishedPairs, Acknowledged, Finished
<1>2. CASE UNCHANGED <<feed, history>>
  <2>1. UNCHANGED PublishedPairs /\ UNCHANGED Finished
    BY <1>2 DEF PublishedPairs, Finished
  <2> QED BY <1>2, <2>1, SettingAcknowledges
          DEF Threads!Next, Threads!Acknowledge, Threads!tpVars, PublishedPairs, Acknowledged, Finished
<1>3. CASE UNCHANGED <<checkpoint, history>> /\ \E r \in wire : RequestArrives(r)
  <2>1. UNCHANGED Acknowledged /\ UNCHANGED Finished
    BY <1>3 DEF Acknowledged, Finished
  <2> QED BY <1>3, <2>1, ArrivalPublishes
          DEF Threads!Next, Threads!Publish, Threads!tpVars, PublishedPairs, Acknowledged, Finished
<1> QED BY <1>1, <1>2, <1>3, OneAtATime DEF SafetyInv

\* Delivery keeps the promise of ThreadPublication, however many processes take
\* part in it, stop, stall or repeat each other's requests.
THEOREM Refinement == Spec => PublishesThreads
<1>1. Spec => Threads!Init /\ [][Threads!Next]_(Threads!tpVars)
  BY ThreadsBegin, ThreadsStep, Safety, PTL DEF Spec
<1> QED BY <1>1 DEF PublishesThreads, Threads!Spec
--------------------------------------------------------------------------------
(***************************************************************************)
(* One record per chunk.  The key of a record depends on createdAt, and    *)
(* createdAt is chosen anew whenever a thread is planned anew; with one    *)
(* rendering a thread is planned once.                                     *)
(***************************************************************************)
OneRendering == \A x, y \in Contents : x = y

HasStamp(q, stamp) == checkpoint[q].content # None /\ checkpoint[q].stamp = stamp

\* Every request was made under the stamp its checkpoint has.
KeysAreFixed ==
  /\ \A r \in wire \cup feed : HasStamp(r.post, r.stamp)
  /\ \A p \in Runtimes, d \in Destinations : LET b == batch[p][d] IN
       b.phase \in Sending => HasStamp(Current(b), b.stamp)

\* A plan that exists stays.
LEMMA PlansStay ==
  ASSUME OneRendering, TypeInv, [Next]_vars, NEW q \in Posts, NEW stamp, HasStamp(q, stamp)
  PROVE  HasStamp(q, stamp)'
<1>1. ASSUME NEW p \in Runtimes, NEW d \in Destinations, InitializeThread(p, d), ~UNCHANGED checkpoint
      PROVE  HasStamp(q, stamp)'
  <2> DEFINE x == Current(batch[p][d])
  <2>1. PICK content \in Contents, fresh \in Stamps :
          checkpoint' = [checkpoint EXCEPT ![x] = InitializedPlan(checkpoint[x], content, fresh)] /\ x \in Posts
    BY <1>1, InitializeSteps
  <2> HIDE DEF x
  <2>2. CASE x = q
    <3>1. checkpoint[q].content = content
      BY DEF OneRendering, HasStamp, TypeInv, TypeOK, Plan
    <3>2. checkpoint'[q] = checkpoint[q]
      BY <2>1, <2>2, <3>1 DEF InitializedPlan, TypeInv, TypeOK
    <3> QED BY <3>2 DEF HasStamp
  <2>3. CASE x # q
    BY <2>1, <2>3 DEF HasStamp, TypeInv, TypeOK
  <2> QED BY <2>2, <2>3
<1>2. ASSUME NEW p \in Runtimes, NEW d \in Destinations, RecordChunk(p, d), ~UNCHANGED checkpoint
      PROVE  HasStamp(q, stamp)'
  <2> DEFINE b == batch[p][d]
             x == Current(b)
  <2>1. checkpoint' = [checkpoint EXCEPT ![x].uri[b.chunk] = b.stamp] /\ x \in Posts
    BY <1>2, RecordSteps
  <2>2. checkpoint'[q].content = checkpoint[q].content /\ checkpoint'[q].stamp = checkpoint[q].stamp
    BY <2>1 DEF TypeInv, TypeOK, Plan
  <2> QED BY <2>2 DEF HasStamp
<1> QED BY <1>1, <1>2, CheckpointSteps DEF HasStamp

LEMMA KeysInitially == Init => KeysAreFixed
BY DEF Init, KeysAreFixed, NoBatch, Sending

LEMMA KeysInductive ==
  ASSUME OneRendering, TypeInv, TypeInv', KeysAreFixed, [Next]_vars
  PROVE  KeysAreFixed'
<1>1. ASSUME NEW r \in wire' \cup feed' PROVE HasStamp(r.post, r.stamp)'
  <2>1. r.post \in Posts
    BY DEF TypeInv, TypeOK, Record
  <2>2. CASE r \in wire \cup feed
    BY <2>1, <2>2, PlansStay DEF KeysAreFixed
  <2>3. CASE r \notin wire \cup feed
    <3>1. PICK p \in Runtimes, d \in Destinations : SendChunk(p, d) /\ r = ChunkRecord(batch[p][d])
      BY <2>3, NetworkSteps
    <3>2. HasStamp(r.post, r.stamp)
      BY <3>1 DEF KeysAreFixed, SendChunk, ChunkRecord, Sending
    <3> QED BY <2>1, <3>2, PlansStay
  <2> QED BY <2>2, <2>3
<1>2. ASSUME NEW x \in Runtimes, NEW y \in Destinations, batch'[x][y].phase \in Sending
      PROVE  LET new == batch'[x][y] IN
             checkpoint'[Current(new)].content # None /\ checkpoint'[Current(new)].stamp = new.stamp
  <2> DEFINE old == batch[x][y]
             new == batch'[x][y]
             Kept == checkpoint'[Current(new)].content # None /\ checkpoint'[Current(new)].stamp = new.stamp
  <2>0. Current(new) \in Posts
    BY <1>2, CurrentIsLeft DEF TypeInv, BatchesAreSound, SoundBatch, Batch, Sending
  <2>1. ASSUME old.phase \in Sending, new.todo = old.todo, new.stamp = old.stamp
        PROVE  Kept
    <3>1. HasStamp(Current(old), old.stamp) /\ Current(new) = Current(old)
      BY <2>1 DEF KeysAreFixed, Current
    <3> QED BY <2>0, <2>1, <3>1, PlansStay DEF HasStamp
  <2>2. ASSUME EveryBatchFollows PROVE Kept
    BY <1>2, <2>1, <2>2 DEF EveryBatchFollows, Follows, Sending
  <2>3. ASSUME new = old PROVE Kept
    BY <1>2, <2>1, <2>3
  <2>4. ASSUME NEW p \in Runtimes, NEW d \in Destinations, SetBatch(p, d, batch'[p][d])
        PROVE  (p = x /\ d = y) \/ new = old
    BY <2>4, OtherBatches
  <2>5. ASSUME NEW p \in Runtimes, NEW d \in Destinations, InitializeThread(p, d)
        PROVE  Kept
    <3>1. CASE ~EveryBatchFollows
      <4> DEFINE q == Current(batch[p][d])
      <4>1. PICK content \in Contents, stamp \in Stamps :
              LET plan == InitializedPlan(checkpoint[q], content, stamp) IN
              /\ checkpoint' = [checkpoint EXCEPT ![q] = plan] /\ q \in Posts
              /\ SetBatch(p, d, batch'[p][d])
              /\ batch'[p][d].todo = batch[p][d].todo /\ batch'[p][d].stamp = plan.stamp
        BY <2>5, <3>1, InitializeSteps
      <4>2. CASE p = x /\ d = y
        <5>1. Current(new) = q
          BY <4>1, <4>2 DEF Current
        <5>2. checkpoint'[q] = InitializedPlan(checkpoint[q], content, stamp)
          BY <4>1 DEF TypeInv, TypeOK
        <5>3. checkpoint'[q].content # None
          <6>1. q \in Posts
            BY <4>1
          <6> HIDE DEF q
          <6>2. InitializedPlan(checkpoint[q], content, stamp).content = content
            BY <6>1, PlanOfRendering
          <6>3. content # None
            BY QueueAssumption
          <6> QED BY <5>2, <6>2, <6>3
        <5>4. new.stamp = InitializedPlan(checkpoint[q], content, stamp).stamp
          BY <4>1, <4>2
        <5> QED BY <5>1, <5>2, <5>3, <5>4
      <4>3. (p = x /\ d = y) \/ new = old
        BY <2>4, <4>1
      <4> QED BY <2>3, <4>2, <4>3
    <3> QED BY <2>2, <3>1
  <2>6. ASSUME NEW p \in Runtimes, NEW d \in Destinations, SendChunk(p, d) \/ RecordChunk(p, d)
        PROVE  Kept
    <3>1. CASE ~EveryBatchFollows
      <4>1. CASE SendChunk(p, d)
        <5>1. /\ batch[p][d].phase \in Sending /\ batch[p][d] \in Batch
              /\ SetBatch(p, d, batch'[p][d]) /\ batch'[p][d] = [batch[p][d] EXCEPT !.phase = "sent"]
          BY <3>1, <4>1, SendSteps DEF TypeInv, TypeOK
        <5>2. batch'[p][d].todo = batch[p][d].todo /\ batch'[p][d].stamp = batch[p][d].stamp
          BY <5>1 DEF Batch
        <5> QED BY <2>1, <2>3, <2>4, <5>1, <5>2
      <4>2. CASE RecordChunk(p, d)
        <5>1. /\ batch[p][d].phase \in Sending /\ SetBatch(p, d, batch'[p][d])
              /\ batch'[p][d].todo = batch[p][d].todo /\ batch'[p][d].stamp = batch[p][d].stamp
          BY <3>1, <4>2, RecordSteps DEF Sending
        <5> QED BY <2>1, <2>3, <2>4, <5>1
      <4> QED BY <2>6, <4>1, <4>2
    <3> QED BY <2>2, <3>1
  <2>7. ASSUME NEW p \in Runtimes, NEW d \in Destinations, NextPost(p, d)
        PROVE  Kept
    <3>1. EveryBatchFollows \/ (SetBatch(p, d, batch'[p][d]) /\ batch'[p][d].phase = "prepare")
      BY <2>7, NextPostSteps
    <3> QED BY <1>2, <2>2, <2>3, <2>4, <3>1 DEF Sending
  <2>8. ASSUME NEW p \in Runtimes, ClaimRoute(p)
        PROVE  Kept
    <3>1. \/ UNCHANGED batch
          \/ \E d \in Destinations : SetBatch(p, d, batch'[p][d]) /\ batch'[p][d].phase = "login"
      BY <2>8, ClaimSteps
    <3> QED BY <1>2, <2>3, <2>4, <3>1 DEF Sending
  <2>9. ASSUME NEW p \in Runtimes, ChooseRoute(p) PROVE UNCHANGED batch
    BY <2>9 DEF ChooseRoute
  <2>10. ASSUME NEW r \in wire, RequestArrives(r) \/ RequestIsLost(r) PROVE UNCHANGED batch
    BY <2>10 DEF RequestArrives, RequestIsLost, process
  <2>11. Quiet => EveryBatchFollows
    BY DEF Quiet
  <2>12. UNCHANGED batch => new = old
    OBVIOUS
  <2> HIDE DEF old, new, Kept
  <2>13. Kept
    BY <2>2, <2>3, <2>5, <2>6, <2>7, <2>8, <2>9, <2>10, <2>11, <2>12, StepKinds, LeavingFollows
  <2> QED BY <2>13 DEF Kept, new
<1> QED BY <1>1, <1>2 DEF KeysAreFixed, HasStamp

\* While the rendering of a post is the same on every attempt, no crash, lost
\* answer, late request or change of owner makes a chunk public twice, though
\* every attempt proposes a createdAt of its own.
THEOREM OneRecord == OneRendering => (Spec => []OneRecordPerChunk)
<1> SUFFICES ASSUME OneRendering PROVE Spec => []OneRecordPerChunk
  OBVIOUS
<1>1. Init => KeysAreFixed
  BY KeysInitially
<1>2. SafetyInv /\ SafetyInv' /\ KeysAreFixed /\ [Next]_vars => KeysAreFixed'
  BY KeysInductive DEF SafetyInv
<1>3. SafetyInv /\ KeysAreFixed => OneRecordPerChunk
  <2> SUFFICES ASSUME SafetyInv, KeysAreFixed, NEW r \in feed, NEW s \in feed, r.post = s.post, r.chunk = s.chunk
               PROVE  r = s
    BY DEF OneRecordPerChunk
  <2>1. r.stamp = s.stamp
    BY DEF KeysAreFixed, HasStamp
  <2>2. r \in Record /\ s \in Record
    BY DEF SafetyInv, TypeInv, TypeOK
  <2> QED BY <2>1, <2>2 DEF Record, OneRendering
<1> QED BY <1>1, <1>2, <1>3, Safety, PTL DEF Spec
--------------------------------------------------------------------------------
(***************************************************************************)
(* No request for what is recorded.  While a batch holds its destination,  *)
(* nobody else records chunks of its posts.                                *)
(***************************************************************************)
SendsAreDue ==
  \A p \in Runtimes, d \in Destinations : LET b == batch[p][d] IN
    b.phase \in Sending /\ Owns(p, d) => ~IsRecorded(Current(b), b.chunk)

\* A chunk becomes recorded by the owner's batch, which goes on to the next one.
LEMMA RecordingSteps ==
  ASSUME SafetyInv, [Next]_vars, NEW q \in Posts, NEW c \in Chunks,
         ~IsRecorded(q, c), checkpoint'[q].uri[c] # None
  PROVE  LET d == DestOf(q)
             p == lease[d]
             b == batch[p][d]
         IN /\ p \in Runtimes /\ d \in Destinations /\ b.phase = "sent" /\ b.chunk = c
            /\ batch'[p][d].chunk = c + 1
<1> USE DEF SafetyInv, TypeInv, TypeOK
<1>1. ASSUME NEW p \in Runtimes, NEW d \in Destinations, InitializeThread(p, d) PROVE FALSE
  <2> DEFINE x == Current(batch[p][d])
  <2>1. PICK content \in Contents, stamp \in Stamps :
          checkpoint' = [checkpoint EXCEPT ![x] = InitializedPlan(checkpoint[x], content, stamp)] /\ x \in Posts
    BY <1>1, InitializeSteps DEF IsRecorded
  <2>2. InitializedPlan(checkpoint[x], content, stamp).uri[c] \in {None, checkpoint[x].uri[c]}
    BY DEF InitializedPlan, NoPlan
  <2> HIDE DEF x
  <2>3. CASE x = q
    <3>1. checkpoint'[q] = InitializedPlan(checkpoint[x], content, stamp)
      BY <2>1, <2>3
    <3> QED BY <2>2, <2>3, <3>1 DEF IsRecorded
  <2>4. CASE x # q
    BY <2>1, <2>4 DEF IsRecorded
  <2> QED BY <2>3, <2>4
<1>2. ASSUME NEW p \in Runtimes, NEW d \in Destinations, RecordChunk(p, d)
      PROVE  /\ lease[d] = p /\ d = DestOf(q) /\ batch[p][d].phase = "sent" /\ batch[p][d].chunk = c
             /\ batch'[p][d].chunk = c + 1
  <2> DEFINE b == batch[p][d]
             x == Current(b)
  <2>1. /\ checkpoint' = [checkpoint EXCEPT ![x].uri[b.chunk] = b.stamp]
        /\ b.phase = "sent" /\ x \in Posts /\ batch'[p][d].chunk = b.chunk + 1
    <3>1. ~UNCHANGED checkpoint
      BY DEF IsRecorded
    <3>2. TypeInv
      OBVIOUS
    <3> HIDE DEF TypeInv, SafetyInv
    <3> QED BY <1>2, <3>1, <3>2, RecordSteps
  <2>2. lease[d] = p
    <3>1. MayWrite(p, d)
      BY <1>2 DEF RecordChunk, IsRecorded
    <3> QED BY <3>1 DEF MayWrite, Owns
  <2>3. DestOf(x) = d
    BY <2>1, CurrentIsHeld DEF OwnerInv, BatchesStayAtHome
  <2>4. x = q /\ b.chunk = c
    <3> HIDE DEF x, b
    <3> QED BY <2>1 DEF IsRecorded, Plan
  <2> QED BY <2>1, <2>2, <2>3, <2>4
<1>3. ~UNCHANGED checkpoint
  BY DEF IsRecorded
<1> QED BY <1>1, <1>2, <1>3, CheckpointSteps

\* A chunk that is being sent was being sent, is the first one missing, or
\* follows the one just recorded.
LEMMA SendingSteps ==
  ASSUME TypeInv, [Next]_vars, NEW x \in Runtimes, NEW y \in Destinations, batch'[x][y].phase \in Sending
  PROVE  LET b == batch[x][y]
             n == batch'[x][y]
             q == Current(b)
         IN /\ n.todo = b.todo
            /\ \/ b.phase \in Sending /\ n.chunk = b.chunk
               \/ b.phase = "prepare" /\ q \in Posts /\ n.chunk = FirstMissing(checkpoint'[q])
               \/ /\ b.phase = "sent" /\ q \in Posts /\ n.chunk = b.chunk + 1
                  /\ checkpoint' = [checkpoint EXCEPT ![q].uri[b.chunk] = b.stamp]
<1> DEFINE Stays == /\ batch'[x][y].todo = batch[x][y].todo
                    /\ batch[x][y].phase \in Sending /\ batch'[x][y].chunk = batch[x][y].chunk
<1>1. ASSUME EveryBatchFollows PROVE Stays
  BY <1>1 DEF EveryBatchFollows, Follows, Sending
<1>2. ASSUME batch'[x][y] = batch[x][y] PROVE Stays
  BY <1>2
<1>3. ASSUME NEW p \in Runtimes, NEW d \in Destinations, SetBatch(p, d, batch'[p][d])
      PROVE  (p = x /\ d = y) \/ Stays
  BY <1>2, <1>3, OtherBatches
<1>4. ASSUME NEW p \in Runtimes, NEW d \in Destinations, NextPost(p, d) PROVE Stays
  BY <1>1, <1>3, <1>4, NextPostSteps DEF Sending
<1>5. ASSUME NEW p \in Runtimes, NEW d \in Destinations, InitializeThread(p, d)
      PROVE  Stays \/ /\ p = x /\ d = y /\ batch'[x][y].todo = batch[x][y].todo
                      /\ batch[x][y].phase = "prepare" /\ Current(batch[x][y]) \in Posts
                      /\ batch'[x][y].chunk = FirstMissing(checkpoint'[Current(batch[x][y])])
  <2> DEFINE q == Current(batch[p][d])
  <2>1. CASE EveryBatchFollows
    BY <1>1, <2>1
  <2>2. CASE ~EveryBatchFollows
    <3>1. PICK plan : /\ checkpoint' = [checkpoint EXCEPT ![q] = plan] /\ q \in Posts
                      /\ batch[p][d].phase = "prepare" /\ SetBatch(p, d, batch'[p][d])
                      /\ batch'[p][d].todo = batch[p][d].todo /\ batch'[p][d].chunk = FirstMissing(plan)
      BY <1>5, <2>2, InitializeSteps
    <3>2. checkpoint'[q] = plan
      BY <3>1 DEF TypeInv, TypeOK
    <3> QED BY <1>3, <3>1, <3>2
  <2> QED BY <2>1, <2>2
<1>6. ASSUME NEW p \in Runtimes, NEW d \in Destinations, SendChunk(p, d) PROVE Stays
  <2>1. CASE ~EveryBatchFollows
    <3>1. /\ SetBatch(p, d, batch'[p][d]) /\ batch[p][d].phase \in Sending
          /\ batch'[p][d] = [batch[p][d] EXCEPT !.phase = "sent"]
      BY <1>6, <2>1, SendSteps
    <3>2. batch'[p][d].todo = batch[p][d].todo /\ batch'[p][d].chunk = batch[p][d].chunk
      BY <3>1 DEF TypeInv, TypeOK, Batch
    <3> QED BY <1>3, <3>1, <3>2
  <2> QED BY <1>1, <2>1
<1>7. ASSUME NEW p \in Runtimes, NEW d \in Destinations, RecordChunk(p, d)
      PROVE  LET b == batch[x][y]
                 q == Current(b)
             IN Stays \/ /\ batch'[x][y].todo = b.todo /\ b.phase = "sent" /\ q \in Posts
                         /\ batch'[x][y].chunk = b.chunk + 1
                         /\ checkpoint' = [checkpoint EXCEPT ![q].uri[b.chunk] = b.stamp]
  <2>1. CASE EveryBatchFollows
    BY <1>1, <2>1
  <2>2. CASE ~EveryBatchFollows
    <3>1. /\ SetBatch(p, d, batch'[p][d]) /\ batch[p][d].phase = "sent" /\ Current(batch[p][d]) \in Posts
          /\ batch'[p][d].todo = batch[p][d].todo /\ batch'[p][d].chunk = batch[p][d].chunk + 1
          /\ checkpoint' = [checkpoint EXCEPT ![Current(batch[p][d])].uri[batch[p][d].chunk] = batch[p][d].stamp]
      BY <1>7, <2>2, RecordSteps
    <3>2. CASE p = x /\ d = y
      BY <3>1, <3>2
    <3> QED BY <1>3, <3>1, <3>2
  <2> QED BY <2>1, <2>2
<1>8. ASSUME NEW p \in Runtimes, ClaimRoute(p) PROVE Stays
  <2>1. \/ UNCHANGED batch
        \/ \E d \in Destinations : SetBatch(p, d, batch'[p][d]) /\ batch'[p][d].phase = "login"
    BY <1>8, ClaimSteps
  <2> QED BY <1>2, <1>3, <2>1 DEF Sending
<1>9. Quiet => EveryBatchFollows
  BY DEF Quiet
<1>10. ASSUME NEW p \in Runtimes, ChooseRoute(p) PROVE UNCHANGED batch
  BY <1>10 DEF ChooseRoute
<1>11. ASSUME NEW r \in wire, RequestArrives(r) \/ RequestIsLost(r) PROVE UNCHANGED batch
  BY <1>11 DEF RequestArrives, RequestIsLost, process
<1> HIDE DEF Stays
<1>12. Stays \/ (\E p \in Runtimes, d \in Destinations : InitializeThread(p, d) \/ RecordChunk(p, d))
  BY <1>1, <1>2, <1>4, <1>6, <1>8, <1>9, <1>10, <1>11, StepKinds, LeavingFollows
<1> QED BY <1>5, <1>7, <1>12 DEF Stays

LEMMA SendsDueInductive ==
  ASSUME SafetyInv, SafetyInv', SendsAreDue, [Next]_vars PROVE SendsAreDue'
<1> SUFFICES ASSUME NEW x \in Runtimes, NEW y \in Destinations, batch'[x][y].phase \in Sending, lease'[y] = x,
                    checkpoint'[Current(batch'[x][y])].uri[batch'[x][y].chunk] # None
             PROVE  FALSE
  BY DEF SendsAreDue, Owns, IsRecorded
<1> DEFINE b == batch[x][y]
           n == batch'[x][y]
           q == Current(b)
<1>1. lease[y] = x
  BY LeaseSteps DEF IsClaim, Sending, SafetyInv
<1>2. n.todo = b.todo /\ Current(n) = q
  BY SendingSteps DEF SafetyInv, Current
<1>3. n.chunk \in Chunks /\ b.todo # {} /\ checkpoint'[q].uri[n.chunk] # None
  BY <1>2 DEF SafetyInv, TypeInv, BatchesAreSound, SoundBatch, Sending
<1>4. CASE b.phase \in Sending /\ n.chunk = b.chunk
  <2>1. q \in Posts /\ DestOf(q) = y
    BY <1>4, CurrentIsHeld DEF SafetyInv, OwnerInv, BatchesStayAtHome, Sending
  <2>2. ~IsRecorded(q, n.chunk)
    BY <1>1, <1>4 DEF SendsAreDue, Owns
  <2>3. n.chunk = b.chunk + 1
    BY <1>1, <1>3, <2>1, <2>2, RecordingSteps, <1>4
  <2> QED BY <1>3, <1>4, <2>3, QueueAssumption DEF Chunks
<1>5. CASE n.chunk = FirstMissing(checkpoint'[q])
  BY <1>3, <1>5, FirstMissingFinds
<1>6. CASE b.phase = "sent" /\ q \in Posts /\ n.chunk = b.chunk + 1
           /\ checkpoint' = [checkpoint EXCEPT ![q].uri[b.chunk] = b.stamp]
  <2>1. b.chunk \in Chunks /\ ~IsRecorded(q, b.chunk)
    BY <1>1, <1>6 DEF SendsAreDue, Owns, Sending, SafetyInv, TypeInv, BatchesAreSound, SoundBatch
  <2>2. b.chunk \in Nat /\ n.chunk # b.chunk /\ FirstMissing(checkpoint[q]) \in Nat
    BY <1>6, <2>1, FirstMissingFinds, QueueAssumption DEF Chunks
  <2>3. ~IsRecorded(q, n.chunk)
    BY <1>3, <1>6, <2>1, <2>2, RecordedIsPrefix DEF SafetyInv
  <2>4. checkpoint'[q].uri[n.chunk] = checkpoint[q].uri[n.chunk]
    BY SMTT(20), <1>3, <1>6, <2>1, <2>2 DEF SafetyInv, TypeInv, TypeOK, Plan
  <2> QED BY <1>3, <2>3, <2>4 DEF IsRecorded
<1> QED BY <1>4, <1>5, <1>6, SendingSteps DEF SafetyInv

\* The assertion in deliveryFetch and the resumption at firstMissing keep a runtime
\* from requesting a chunk that another one, or an earlier attempt, has recorded.
THEOREM RecordedIsNotRequested == Spec => RecordedChunksAreNotRequestedAgain
<1> DEFINE Step == \A r \in wire' \ wire : ~IsRecorded(r.post, r.chunk)
<1>1. Init => SendsAreDue
  BY DEF Init, SendsAreDue, NoBatch, Sending
<1>2. SafetyInv /\ SafetyInv' /\ SendsAreDue /\ [Next]_vars => SendsAreDue'
  BY SendsDueInductive
<1>3. ASSUME SafetyInv, SendsAreDue, [Next]_vars PROVE Step
  <2> SUFFICES ASSUME NEW r \in wire', r \notin wire PROVE ~IsRecorded(r.post, r.chunk)
    OBVIOUS
  <2>1. ASSUME NEW p \in Runtimes, NEW d \in Destinations, SendChunk(p, d)
        PROVE  ~IsRecorded(r.post, r.chunk)
    <3> DEFINE b == batch[p][d]
    <3>1. r = ChunkRecord(b) /\ Owns(p, d) /\ b.phase \in Sending
      BY ZenonT(30), <1>3, <2>1, SendSteps DEF SafetyInv, MayWrite
    <3>2. r.post = Current(b) /\ r.chunk = b.chunk
      BY <3>1 DEF ChunkRecord
    <3> QED BY <1>3, <3>1, <3>2 DEF SendsAreDue
  <2> QED BY <1>3, <2>1, NetworkSteps DEF SafetyInv
<1>4. SafetyInv /\ SendsAreDue /\ [Next]_vars => [Step]_vars
  BY <1>3
<1> QED BY <1>1, <1>2, <1>4, Safety, PTL DEF Spec, RecordedChunksAreNotRequestedAgain
--------------------------------------------------------------------------------
(***************************************************************************)
(* One rendering per thread.  A process that outlived its lease may plan a *)
(* thread anew that its successor is publishing (initialize does not look  *)
(* at the lease); as long as none does, who works on a destination has its *)
(* lease, and nobody else plans its threads.                               *)
(***************************************************************************)
NoStalls == MaxStalls = 0

WorkersOwn == \A p \in Runtimes, d \in Destinations : batch[p][d].phase # "idle" => Owns(p, d)

\* A batch sends what the thread was planned with.
SendsFollowPlans ==
  \A p \in Runtimes, d \in Destinations : LET b == batch[p][d] IN
    b.phase \in Sending => b.content = checkpoint[Current(b)].content

IsRenderingOf(s, q, c, content, stamp) == s.post = q /\ s.chunk = c /\ s.content = content /\ s.stamp = stamp

\* What is recorded is of the rendering the thread is planned with.
RecordsFollowPlans ==
  \A q \in Posts, c \in Chunks : IsRecorded(q, c) =>
    \E s \in feed : IsRenderingOf(s, q, c, checkpoint[q].content, checkpoint[q].uri[c])

\* A reply, requested or public, has the rendering of the record it replies to.
RepliesFollowParents ==
  \A r \in wire \cup feed : r.chunk > 1 =>
    \E s \in feed : IsRenderingOf(s, r.post, r.chunk - 1, r.content, checkpoint[r.post].uri[r.chunk - 1])

RenderingInv == SafetyInv /\ SendsAreDue /\ WorkersOwn /\ SendsFollowPlans /\ RecordsFollowPlans /\ RepliesFollowParents

\* Who has a lease loses it with the batch.
LEMMA LeaseStays ==
  ASSUME NoStalls, TypeInv, [Next]_vars, NEW x \in Runtimes, NEW y \in Destinations, lease[y] = x
  PROVE  lease'[y] = x \/ batch'[x][y].phase = "idle"
<1> USE DEF durable, network, process, bounds
<1>0. x # Nobody /\ x # Former /\ lease \in [Destinations -> Runtimes \cup {Nobody, Former}]
  BY OwnersAssumption DEF TypeInv, TypeOK, LeaseTypeOK
<1>1. ASSUME NEW p \in Runtimes, NEW d \in Destinations, Deliver(p, d)
      PROVE  lease'[y] = x \/ batch'[x][y].phase = "idle"
  <2>1. CASE ReleaseBatch(p, d)
    <3>1. lease' = [lease EXCEPT ![d] = IF @ = p THEN Nobody ELSE @] /\ batch' = [batch EXCEPT ![p][d] = NoBatch]
      BY <2>1 DEF ReleaseBatch, ReleaseLease, SetBatch
    <3>2. CASE d = y /\ p = x
      BY <3>1, <3>2 DEF NoBatch, TypeInv, TypeOK
    <3>3. CASE ~(d = y /\ p = x)
      BY <1>0, <3>1, <3>3
    <3>. QED BY <3>2, <3>3
  <2>2. CASE ~ReleaseBatch(p, d)
    <3>1. UNCHANGED lease
      BY <1>1, <2>2 DEF Deliver, LoginSucceeds, LoginFails, NextPost, PrepareFails, SkipPost, InitializeThread,
                        SendChunk, RecordChunk, SendFails, FinalizePost, SettleBatch, DeadlinePasses
    <3>. QED BY <3>1
  <2>. QED BY <2>1, <2>2
<1>2. ASSUME NEW p \in Runtimes, ClaimRoute(p) PROVE lease'[y] = x
  <2>1. DestinationOf[choosing[p]] \in Destinations
        /\ (UNCHANGED lease \/ (Acquire(p, DestinationOf[choosing[p]]) /\ CanAcquire(p, DestinationOf[choosing[p]])))
    BY <1>2, ClaimSteps
  <2>. QED BY <1>0, <2>1 DEF Acquire, CanAcquire
<1>3. ASSUME NEW p \in Runtimes, ExitRuntime(p) PROVE lease'[y] = x \/ batch'[x][y].phase = "idle"
  <2>1. lease' = [d \in Destinations |-> IF lease[d] = p THEN Nobody ELSE lease[d]] /\ UNCHANGED batch
        /\ \A d \in Destinations : batch[p][d].phase = "idle"
    BY <1>3 DEF ExitRuntime, ReleaseOwner, Active
  <2>. QED BY <2>1
<1>4. ASSUME NEW p \in Runtimes, Crash(p) PROVE lease'[y] = x \/ batch'[x][y].phase = "idle"
  <2>1. lease' = [d \in Destinations |-> IF lease[d] = p THEN Former ELSE lease[d]]
        /\ batch' = [batch EXCEPT ![p] = [d \in Destinations |-> NoBatch]]
    BY <1>4 DEF Crash, Abandon
  <2>2. CASE p = x
    BY <2>1, <2>2 DEF NoBatch, TypeInv, TypeOK
  <2>3. CASE p # x
    BY <2>1, <2>3
  <2>. QED BY <2>2, <2>3
<1>5. ASSUME NEW p \in Runtimes, RuntimeStep(p), ~ExitRuntime(p), ~\E d \in Destinations : Deliver(p, d)
      PROVE  UNCHANGED lease
  BY <1>5 DEF RuntimeStep, ChooseRoute, FindNothing, RenewLeases, StopRuntime, StartRuntime
<1>6. ASSUME Environment PROVE lease'[y] = x
  <2>1. ASSUME NEW d \in Destinations, AbandonedLeaseLapses(d) PROVE lease'[y] = x
    BY <1>0, <2>1 DEF AbandonedLeaseLapses, LeaseLapses
  <2>2. ASSUME NEW d \in Destinations, Stall(d) PROVE FALSE
    BY <2>2, QueueAssumption DEF Stall, NoStalls, TypeInv, TypeOK
  <2>3. ASSUME NEW d \in Destinations, TogglePause(d) PROVE UNCHANGED lease
    BY <2>3 DEF TogglePause
  <2>4. ASSUME NEW q \in Posts, \/ Enqueue(q) \/ OverrideSkip(q) \/ RemoveRow(q) \/ RetryFailed(q)
                                \/ BackoffElapses(q) \/ DayElapses(q)
        PROVE  UNCHANGED lease
    BY <2>4 DEF Enqueue, OverrideSkip, RemoveRow, RetryFailed, BackoffElapses, DayElapses
  <2>5. ASSUME NEW r \in wire, RequestArrives(r) \/ RequestIsLost(r) PROVE UNCHANGED lease
    BY <2>5 DEF RequestArrives, RequestIsLost
  <2>. QED BY <1>6, <2>1, <2>2, <2>3, <2>4, <2>5 DEF Environment
<1>7. UNCHANGED vars => UNCHANGED lease
  BY DEF vars
<1>. QED BY <1>1, <1>2, <1>3, <1>4, <1>5, <1>6, <1>7 DEF Next

LEMMA WorkersStayOwners ==
  ASSUME NoStalls, TypeInv, WorkersOwn, [Next]_vars
  PROVE  WorkersOwn'
<1> SUFFICES ASSUME NEW x \in Runtimes, NEW y \in Destinations, batch'[x][y].phase # "idle"
             PROVE  lease'[y] = x
  BY DEF WorkersOwn, Owns
<1>1. CASE batch[x][y].phase # "idle"
  BY <1>1, LeaseStays DEF WorkersOwn, Owns
<1>2. CASE batch[x][y].phase = "idle"
  <2>1. ClaimRoute(x) /\ y = DestinationOf[choosing[x]]
    BY <1>2, BatchSteps DEF Keeps, IsClaim
  <2>2. ~UNCHANGED batch
    BY <1>2
  <2>3. Acquire(x, y)
    BY <2>1, <2>2, ClaimSteps
  <2>. QED BY <2>3 DEF Acquire, TypeInv, TypeOK, LeaseTypeOK
<1>. QED BY <1>1, <1>2

\* A thread is planned with another rendering only while none of it is recorded.
LEMMA RenderingSteps ==
  ASSUME TypeInv, [Next]_vars, NEW q \in Posts, checkpoint'[q].content # checkpoint[q].content
  PROVE  /\ \A c \in Chunks : ~IsRecorded(q, c)
         /\ \E p \in Runtimes, d \in Destinations : batch[p][d].phase = "prepare" /\ Current(batch[p][d]) = q
<1>1. ASSUME NEW p \in Runtimes, NEW d \in Destinations, InitializeThread(p, d)
      PROVE  /\ batch[p][d].phase = "prepare" /\ Current(batch[p][d]) = q
             /\ \A c \in Chunks : ~IsRecorded(q, c)
  <2> DEFINE x == Current(batch[p][d])
  <2>1. PICK content \in Contents, stamp \in Stamps :
          /\ checkpoint' = [checkpoint EXCEPT ![x] = InitializedPlan(checkpoint[x], content, stamp)]
          /\ ~Mismatch(x, content) /\ x \in Posts /\ batch[p][d].phase = "prepare"
    BY <1>1, InitializeSteps
  <2> HIDE DEF x
  <2>2. x = q
    BY <2>1 DEF TypeInv, TypeOK
  <2>3. checkpoint[q].content # content
    <3>1. checkpoint'[q] = InitializedPlan(checkpoint[q], content, stamp)
      BY <2>1, <2>2 DEF TypeInv, TypeOK
    <3>. QED BY <3>1 DEF InitializedPlan
  <2>4. \A c \in Chunks : ~IsRecorded(q, c)
    BY <2>1, <2>2, <2>3 DEF Mismatch, TypeInv, PlansHaveStamps
  <2>. QED BY <2>1, <2>2, <2>4 DEF x
<1>2. ASSUME NEW p \in Runtimes, NEW d \in Destinations, RecordChunk(p, d) PROVE FALSE
  <2> DEFINE b == batch[p][d]
             x == Current(b)
  <2>1. checkpoint' = [checkpoint EXCEPT ![x].uri[b.chunk] = b.stamp] /\ x \in Posts
    BY <1>2, RecordSteps
  <2> HIDE DEF x, b
  <2>2. checkpoint'[q].content = checkpoint[q].content
    BY <2>1 DEF TypeInv, TypeOK, Plan
  <2>. QED BY <2>2
<1>. QED BY <1>1, <1>2, CheckpointSteps

\* What is recorded of a chunk stays.
LEMMA UriStays ==
  ASSUME SafetyInv, SendsAreDue, WorkersOwn, [Next]_vars, NEW q \in Posts, NEW c \in Chunks, IsRecorded(q, c)
  PROVE  checkpoint'[q].uri[c] = checkpoint[q].uri[c]
<1>0. TypeInv
  BY DEF SafetyInv
<1>1. ASSUME NEW p \in Runtimes, NEW d \in Destinations, InitializeThread(p, d), ~UNCHANGED checkpoint
      PROVE  checkpoint'[q].uri[c] = checkpoint[q].uri[c]
  <2> DEFINE x == Current(batch[p][d])
  <2>1. PICK content \in Contents, stamp \in Stamps :
          /\ checkpoint' = [checkpoint EXCEPT ![x] = InitializedPlan(checkpoint[x], content, stamp)]
          /\ ~Mismatch(x, content) /\ x \in Posts
    BY <1>0, <1>1, InitializeSteps
  <2> HIDE DEF x
  <2>2. CASE x = q
    <3>1. checkpoint'[q] = InitializedPlan(checkpoint[q], content, stamp)
      BY <1>0, <2>1, <2>2 DEF TypeInv, TypeOK
    <3>2. InitializedPlan(checkpoint[q], content, stamp).uri[c] = checkpoint[q].uri[c]
      BY <1>0, <2>1, <2>2, PlanOfRendering
    <3>. QED BY <3>1, <3>2
  <2>3. CASE x # q
    BY <1>0, <2>1, <2>3 DEF TypeInv, TypeOK
  <2>. QED BY <2>2, <2>3
<1>2. ASSUME NEW p \in Runtimes, NEW d \in Destinations, RecordChunk(p, d), ~UNCHANGED checkpoint
      PROVE  checkpoint'[q].uri[c] = checkpoint[q].uri[c]
  <2> DEFINE b == batch[p][d]
             x == Current(b)
  <2>1. checkpoint' = [checkpoint EXCEPT ![x].uri[b.chunk] = b.stamp] /\ x \in Posts /\ b.phase = "sent"
    BY <1>0, <1>2, RecordSteps
  <2>2. ~IsRecorded(x, b.chunk)
    BY <2>1 DEF SendsAreDue, WorkersOwn, Sending
  <2> HIDE DEF x, b
  <2>3. x # q \/ b.chunk # c
    BY <2>2
  <2>. QED BY <1>0, <2>1, <2>3 DEF TypeInv, TypeOK, Plan
<1>. QED BY <1>0, <1>1, <1>2, CheckpointSteps

\* A batch that sends was sending the same rendering, or has just planned it.
LEMMA ContentSteps ==
  ASSUME TypeInv, [Next]_vars, NEW x \in Runtimes, NEW y \in Destinations, batch'[x][y].phase \in Sending
  PROVE  LET b == batch[x][y]
             n == batch'[x][y]
         IN /\ n.todo = b.todo
            /\ \/ b.phase \in Sending /\ n.content = b.content
               \/ n.content = checkpoint'[Current(b)].content
<1> DEFINE Stays == /\ batch'[x][y].todo = batch[x][y].todo
                    /\ batch[x][y].phase \in Sending /\ batch'[x][y].content = batch[x][y].content
<1>1. ASSUME EveryBatchFollows PROVE Stays
  BY <1>1 DEF EveryBatchFollows, Follows, Sending
<1>2. ASSUME batch'[x][y] = batch[x][y] PROVE Stays
  BY <1>2
<1>3. ASSUME NEW p \in Runtimes, NEW d \in Destinations, SetBatch(p, d, batch'[p][d])
      PROVE  (p = x /\ d = y) \/ Stays
  BY <1>2, <1>3, OtherBatches
<1>4. ASSUME NEW p \in Runtimes, NEW d \in Destinations, NextPost(p, d) PROVE Stays
  BY <1>1, <1>3, <1>4, NextPostSteps DEF Sending
<1>5. ASSUME NEW p \in Runtimes, NEW d \in Destinations, InitializeThread(p, d)
      PROVE  Stays \/ /\ batch'[x][y].todo = batch[x][y].todo
                      /\ batch'[x][y].content = checkpoint'[Current(batch[x][y])].content
  <2> DEFINE q == Current(batch[p][d])
  <2>1. CASE EveryBatchFollows
    BY <1>1, <2>1
  <2>2. CASE ~EveryBatchFollows
    <3>1. PICK content \in Contents, stamp \in Stamps :
            LET plan == InitializedPlan(checkpoint[q], content, stamp) IN
            /\ checkpoint' = [checkpoint EXCEPT ![q] = plan] /\ q \in Posts
            /\ SetBatch(p, d, batch'[p][d])
            /\ batch'[p][d].todo = batch[p][d].todo /\ batch'[p][d].content = content
      BY <1>5, <2>2, InitializeSteps
    <3> HIDE DEF q
    <3>2. checkpoint'[q].content = content
      <4>1. checkpoint'[q] = InitializedPlan(checkpoint[q], content, stamp)
        BY <3>1 DEF TypeInv, TypeOK
      <4>. QED BY <3>1, <4>1, PlanOfRendering
    <3>. QED BY <1>3, <3>1, <3>2 DEF q
  <2>. QED BY <2>1, <2>2
<1>6. ASSUME NEW p \in Runtimes, NEW d \in Destinations, SendChunk(p, d) PROVE Stays
  <2>1. CASE ~EveryBatchFollows
    <3>1. /\ SetBatch(p, d, batch'[p][d]) /\ batch[p][d].phase \in Sending
          /\ batch'[p][d] = [batch[p][d] EXCEPT !.phase = "sent"]
      BY <1>6, <2>1, SendSteps
    <3>2. batch'[p][d].todo = batch[p][d].todo /\ batch'[p][d].content = batch[p][d].content
      BY <3>1 DEF TypeInv, TypeOK, Batch
    <3>. QED BY <1>3, <3>1, <3>2
  <2>. QED BY <1>1, <2>1
<1>7. ASSUME NEW p \in Runtimes, NEW d \in Destinations, RecordChunk(p, d) PROVE Stays
  <2>1. CASE ~EveryBatchFollows
    <3>1. /\ SetBatch(p, d, batch'[p][d]) /\ batch[p][d].phase \in Sending
          /\ batch'[p][d].todo = batch[p][d].todo /\ batch'[p][d].content = batch[p][d].content
      BY ZenonT(30), <1>7, <2>1, RecordSteps DEF Sending
    <3>. QED BY <1>3, <3>1
  <2>. QED BY <1>1, <2>1
<1>8. ASSUME NEW p \in Runtimes, ClaimRoute(p) PROVE Stays
  <2>1. \/ UNCHANGED batch
        \/ \E d \in Destinations : SetBatch(p, d, batch'[p][d]) /\ batch'[p][d].phase = "login"
    BY <1>8, ClaimSteps
  <2>. QED BY <1>2, <1>3, <2>1 DEF Sending
<1>9. Quiet => EveryBatchFollows
  BY DEF Quiet
<1>10. ASSUME NEW p \in Runtimes, ChooseRoute(p) PROVE UNCHANGED batch
  BY <1>10 DEF ChooseRoute
<1>11. ASSUME NEW r \in wire, RequestArrives(r) \/ RequestIsLost(r) PROVE UNCHANGED batch
  BY <1>11 DEF RequestArrives, RequestIsLost, process
<1> HIDE DEF Stays
<1>12. Stays \/ (\E p \in Runtimes, d \in Destinations : InitializeThread(p, d))
  BY <1>1, <1>2, <1>4, <1>6, <1>7, <1>8, <1>9, <1>10, <1>11, StepKinds, LeavingFollows
<1>. QED BY <1>5, <1>12 DEF Stays

LEMMA PlansOfSendsStay ==
  ASSUME SafetyInv, WorkersOwn, SendsFollowPlans, [Next]_vars
  PROVE  SendsFollowPlans'
<1> SUFFICES ASSUME NEW x \in Runtimes, NEW y \in Destinations, batch'[x][y].phase \in Sending
             PROVE  batch'[x][y].content = checkpoint'[Current(batch'[x][y])].content
  BY DEF SendsFollowPlans
<1> DEFINE b == batch[x][y]
           q == Current(b)
<1>1. TypeInv /\ Current(batch'[x][y]) = q
  BY ContentSteps DEF SafetyInv, Current
<1>2. CASE b.phase \in Sending /\ batch'[x][y].content = b.content
  <2>1. q \in b.items /\ q \in Posts
    BY <1>1, <1>2, CurrentIsHeld DEF Sending
  <2>2. b.content = checkpoint[q].content /\ DestOf(q) = y /\ lease[y] = x
    BY <1>2, <2>1 DEF SendsFollowPlans, SafetyInv, OwnerInv, BatchesStayAtHome, WorkersOwn, Owns, Sending
  <2>3. ASSUME NEW p \in Runtimes, NEW d \in Destinations, batch[p][d].phase = "prepare", Current(batch[p][d]) = q
        PROVE  FALSE
    <3>1. q \in batch[p][d].items /\ lease[d] = p
      BY <1>1, <2>3, CurrentIsHeld DEF WorkersOwn, Owns
    <3>2. DestOf(q) = d
      BY <3>1 DEF SafetyInv, OwnerInv, BatchesStayAtHome
    <3>. QED BY <1>2, <2>2, <2>3, <3>1, <3>2 DEF Sending
  <2>4. checkpoint'[q].content = checkpoint[q].content
    BY <1>1, <2>1, <2>3, RenderingSteps
  <2>. QED BY <1>1, <1>2, <2>2, <2>4
<1>3. CASE batch'[x][y].content = checkpoint'[q].content
  BY <1>1, <1>3
<1>. QED BY <1>1, <1>2, <1>3, ContentSteps

LEMMA RecordsKeepRendering ==
  ASSUME SafetyInv, SendsAreDue, WorkersOwn, SendsFollowPlans, RecordsFollowPlans, [Next]_vars
  PROVE  RecordsFollowPlans'
<1> SUFFICES ASSUME NEW q \in Posts, NEW c \in Chunks, checkpoint'[q].uri[c] # None
             PROVE  \E s \in feed' : IsRenderingOf(s, q, c, checkpoint'[q].content, checkpoint'[q].uri[c])
  BY DEF RecordsFollowPlans, IsRecorded
<1>0. TypeInv /\ feed \subseteq feed'
  BY NetworkSteps DEF SafetyInv
<1>1. CASE IsRecorded(q, c)
  <2>1. PICK s \in feed : IsRenderingOf(s, q, c, checkpoint[q].content, checkpoint[q].uri[c])
    BY <1>1 DEF RecordsFollowPlans
  <2>2. checkpoint'[q].content = checkpoint[q].content
    BY <1>0, <1>1, RenderingSteps
  <2>3. checkpoint'[q].uri[c] = checkpoint[q].uri[c]
    BY <1>1, UriStays
  <2>. QED BY <1>0, <2>1, <2>2, <2>3
<1>2. CASE ~IsRecorded(q, c)
  <2>0. ~UNCHANGED checkpoint
    BY <1>2 DEF IsRecorded
  <2>1. ASSUME NEW p \in Runtimes, NEW d \in Destinations, InitializeThread(p, d) PROVE FALSE
    <3> DEFINE x == Current(batch[p][d])
    <3>1. PICK content \in Contents, stamp \in Stamps :
            checkpoint' = [checkpoint EXCEPT ![x] = InitializedPlan(checkpoint[x], content, stamp)] /\ x \in Posts
      BY <1>0, <2>0, <2>1, InitializeSteps
    <3>2. InitializedPlan(checkpoint[x], content, stamp).uri[c] \in {None, checkpoint[x].uri[c]}
      BY DEF InitializedPlan, NoPlan
    <3> HIDE DEF x
    <3>3. checkpoint'[q].uri[c] \in {None, checkpoint[q].uri[c]}
      <4>1. CASE x = q
        <5>1. checkpoint'[q] = InitializedPlan(checkpoint[q], content, stamp)
          BY <1>0, <3>1, <4>1 DEF TypeInv, TypeOK
        <5>. QED BY <3>2, <4>1, <5>1
      <4>2. CASE x # q
        BY <1>0, <3>1, <4>2 DEF TypeInv, TypeOK
      <4>. QED BY <4>1, <4>2
    <3>. QED BY <1>2, <3>3 DEF IsRecorded
  <2>2. ASSUME NEW p \in Runtimes, NEW d \in Destinations, RecordChunk(p, d)
        PROVE  \E s \in feed' : IsRenderingOf(s, q, c, checkpoint'[q].content, checkpoint'[q].uri[c])
    <3> DEFINE b == batch[p][d]
               x == Current(b)
    <3>1. /\ checkpoint' = [checkpoint EXCEPT ![x].uri[b.chunk] = b.stamp] /\ x \in Posts
          /\ ChunkRecord(b) \in feed /\ b.phase = "sent"
      BY <1>0, <2>0, <2>2, RecordSteps
    <3>2. b.content = checkpoint[x].content
      BY <3>1 DEF SendsFollowPlans, Sending
    <3>3. IsRenderingOf(ChunkRecord(b), x, b.chunk, b.content, b.stamp)
      BY DEF IsRenderingOf, ChunkRecord
    <3>4. ChunkRecord(b) \in feed'
      BY <1>0, <3>1
    <3> HIDE DEF x, b
    <3>5. x = q /\ b.chunk = c
      BY <1>0, <1>2, <3>1 DEF IsRecorded, TypeInv, TypeOK, Plan
    <3>6. checkpoint'[q].uri[c] = b.stamp /\ checkpoint'[q].content = checkpoint[q].content
      BY <1>0, <3>1, <3>5 DEF TypeInv, TypeOK, Plan
    <3>. QED BY <3>2, <3>3, <3>4, <3>5, <3>6
  <2>. QED BY <1>0, <2>0, <2>1, <2>2, CheckpointSteps
<1>. QED BY <1>1, <1>2

LEMMA RepliesKeepParents ==
  ASSUME SafetyInv, SafetyInv', SendsAreDue, WorkersOwn, SendsFollowPlans, RecordsFollowPlans, RepliesFollowParents,
         [Next]_vars
  PROVE  RepliesFollowParents'
<1> SUFFICES ASSUME NEW r \in wire' \cup feed', r.chunk > 1
             PROVE  \E s \in feed' : IsRenderingOf(s, r.post, r.chunk - 1, r.content,
                                                   checkpoint'[r.post].uri[r.chunk - 1])
  BY DEF RepliesFollowParents
<1>0. TypeInv /\ feed \subseteq feed' /\ feed' \subseteq feed \cup wire
  BY NetworkSteps DEF SafetyInv
<1>1. r.post \in Posts /\ r.chunk \in Chunks /\ r.chunk - 1 \in Chunks /\ r.chunk - 1 < r.chunk
  <2>1. r \in Record
    BY DEF SafetyInv, TypeInv, TypeOK
  <2>. QED BY <2>1, QueueAssumption DEF Record, Chunks
<1>2. CASE r \in wire \cup feed
  <2>1. PICK s \in feed : IsRenderingOf(s, r.post, r.chunk - 1, r.content, checkpoint[r.post].uri[r.chunk - 1])
    BY <1>2 DEF RepliesFollowParents
  <2>2. IsRecorded(r.post, r.chunk - 1)
    BY <1>1, <1>2 DEF SafetyInv, ThreadInv, ThreadsGrowInOrder
  <2>3. checkpoint'[r.post].uri[r.chunk - 1] = checkpoint[r.post].uri[r.chunk - 1]
    BY <1>1, <2>2, UriStays
  <2>. QED BY <1>0, <2>1, <2>3
<1>3. CASE r \notin wire \cup feed
  <2>1. PICK p \in Runtimes, d \in Destinations :
          SendChunk(p, d) /\ UNCHANGED <<feed, checkpoint>> /\ r = ChunkRecord(batch[p][d])
    BY <1>0, <1>3, NetworkSteps
  <2> DEFINE b == batch[p][d]
  <2>2. r.post = Current(b) /\ r.chunk = b.chunk /\ r.content = b.content /\ b.phase \in Sending
    BY <2>1 DEF ChunkRecord, SendChunk, Sending
  <2>3. b.content = checkpoint[r.post].content /\ IsRecorded(r.post, r.chunk - 1)
    BY <1>1, <2>2 DEF SendsFollowPlans, SafetyInv, ThreadInv, SendsFollowRecords, EarlierChunksAreRecorded
  <2>4. \E s \in feed : IsRenderingOf(s, r.post, r.chunk - 1, checkpoint[r.post].content,
                                      checkpoint[r.post].uri[r.chunk - 1])
    BY <1>1, <2>3 DEF RecordsFollowPlans
  <2>. QED BY <2>1, <2>2, <2>3, <2>4
<1>. QED BY <1>2, <1>3

\* A rendering that differs from the one a thread was begun with is refused once a
\* chunk is recorded (initialize), so that no reply continues a thread of other
\* content, however often processes stop, die and follow one another, as long as
\* none of them works on without its lease.
THEOREM ThreadsKeepTheirRendering == NoStalls => (Spec => []ThreadsHaveOneRendering)
<1> SUFFICES ASSUME NoStalls PROVE Spec => []ThreadsHaveOneRendering
  OBVIOUS
<1>1. Init => RenderingInv
  <2> SUFFICES ASSUME Init PROVE RenderingInv
    OBVIOUS
  <2>1. SafetyInv
    BY SafetyInductive
  <2>2. WorkersOwn /\ SendsFollowPlans /\ SendsAreDue
    BY DEF Init, WorkersOwn, SendsFollowPlans, SendsAreDue, NoBatch, Sending
  <2>3. RecordsFollowPlans /\ RepliesFollowParents
    BY DEF Init, RecordsFollowPlans, RepliesFollowParents, IsRecorded, NoPlan
  <2>. QED BY <2>1, <2>2, <2>3 DEF RenderingInv
<1>2. RenderingInv /\ [Next]_vars => RenderingInv'
  <2> SUFFICES ASSUME RenderingInv, [Next]_vars PROVE RenderingInv'
    OBVIOUS
  <2>1. SafetyInv'
    BY SafetyInductive DEF RenderingInv
  <2>2. SendsAreDue'
    BY <2>1, SendsDueInductive DEF RenderingInv
  <2>3. WorkersOwn'
    BY WorkersStayOwners DEF RenderingInv, SafetyInv
  <2>4. SendsFollowPlans' /\ RecordsFollowPlans' /\ RepliesFollowParents'
    BY <2>1, PlansOfSendsStay, RecordsKeepRendering, RepliesKeepParents DEF RenderingInv
  <2>. QED BY <2>1, <2>2, <2>3, <2>4 DEF RenderingInv
<1>3. RenderingInv => ThreadsHaveOneRendering
  <2> SUFFICES ASSUME RenderingInv, NEW r \in feed, r.chunk > 1
               PROVE  \E s \in feed : /\ s.post = r.post /\ s.chunk = r.chunk - 1 /\ s.content = r.content
                                      /\ s.stamp = checkpoint[s.post].uri[s.chunk]
    BY DEF ThreadsHaveOneRendering
  <2>1. PICK s \in feed : IsRenderingOf(s, r.post, r.chunk - 1, r.content, checkpoint[r.post].uri[r.chunk - 1])
    BY DEF RenderingInv, RepliesFollowParents
  <2>. QED BY <2>1 DEF IsRenderingOf
<1>. QED BY <1>1, <1>2, <1>3, PTL DEF Spec
================================================================================
