---------------------------- MODULE DigestProofs -----------------------------
(***************************************************************************)
(* Theorems about DigestJobs for every number of workers, routes, entries, *)
(* chunks, attempts, operations and faults: what is public is public once. *)
(***************************************************************************)
EXTENDS DigestJobs, FiniteSetTheorems, WellFoundedInduction, TLAPS

--------------------------------------------------------------------------------
(***************************************************************************)
(* Types.                                                                  *)
(***************************************************************************)
Statuses == {"absent", "pending", "claimed", "delivered", "cancelled"}

TablesTyped == entry \in [Entries -> Statuses] /\ job \in [Routes -> Job]
PlansTyped == plan \in [Routes -> [Runs -> Plan]]
SentTyped == wire \subseteq Record /\ feed \subseteq Record
RunsTyped == run \in [Runtimes -> [Destinations -> Execution]]
RestTyped ==
  /\ LeaseTypeOK
  /\ up \in [Runtimes -> {"up", "stopping", "down"}]
  /\ configured \in [Routes -> {"new", "live", "deleted"}] /\ meddled \subseteq Routes
  /\ spent \in [operations : 0 .. MaxOperations, faults : 0 .. MaxFaults]

LEMMA DigestTypes == DigestTypeOK <=> TablesTyped /\ PlansTyped /\ SentTyped /\ RunsTyped /\ RestTyped
  BY DEF DigestTypeOK, TablesTyped, PlansTyped, SentTyped, RunsTyped, RestTyped, Statuses

LEMMA Numbers == 1 \in Runs /\ 1 \in Chunks /\ 0 \in 0 .. MaxAttempts /\ 0 \in 0 .. NumChunks
                 /\ MaxAttempts \in Nat \ {0} /\ NumChunks \in Nat \ {0} /\ MaxEntries \in Nat \ {0} /\ RenderLimit \in Nat \ {0}
<1>1. \A n \in {MaxEntries, RenderLimit, NumChunks, MaxAttempts, MaxRuns} : n \in Nat \ {0}
  BY DigestAssumption
<1>2. {MaxEntries, RenderLimit, NumChunks, MaxAttempts, MaxRuns} \subseteq Nat \ {0}
  BY <1>1
<1>. QED BY <1>2 DEF Runs, Chunks

LEMMA NothingDone ==
  ASSUME NEW n \in 0 .. NumChunks, ~(n > 0)
  PROVE  n = 0
BY Numbers

LEMMA LaterChunk ==
  ASSUME NEW n \in 0 .. NumChunks, NEW c \in Chunks
  PROVE  (IF n < c THEN c ELSE n) \in 0 .. NumChunks
BY Numbers DEF Chunks

LEMMA NoJobTyped == NoJob \in Job /\ NoJob.status = "absent" /\ NoJob.token = Nobody /\ NoJob.key = 1
  BY Numbers DEF NoJob, Job

LEMMA NoPlanTyped == NoPlan \in Plan /\ NoPlan.content = {} /\ NoPlan.done = 0
  BY Numbers DEF NoPlan, Plan

LEMMA AnyRouteIsThere == ASSUME NEW r \in Routes PROVE AnyRoute \in Routes
  BY DEF AnyRoute

LEMMA IdleTyped ==
  ASSUME NEW r \in Routes
  PROVE  Idle(r) \in Execution /\ Idle(r).phase = "idle" /\ Idle(r).route = r
  BY Numbers DEF Idle, Execution, Phases

\* A job that is armed for key k.
Armed(k) == [NoJob EXCEPT !.status = "scheduled", !.key = k]

LEMMA ArmedTyped ==
  ASSUME NEW k \in Runs
  PROVE  Armed(k) \in Job /\ Armed(k).status = "scheduled" /\ Armed(k).key = k /\ Armed(k).token = Nobody
  BY NoJobTyped DEF Armed, Job

LEMMA FailedTyped ==
  ASSUME NEW j \in Job
  PROVE  /\ Failed(j) \in Job /\ Failed(j).status \in {"failed", "scheduled"} /\ Failed(j).key = j.key
         /\ Failed(j).token = Nobody
<1> DEFINE n == j.attempts + 1
           s == IF n >= MaxAttempts THEN "failed" ELSE "scheduled"
           a == IF n > MaxAttempts THEN MaxAttempts ELSE n
           w == n < MaxAttempts
<1>1. j.attempts \in 0 .. MaxAttempts
  BY DEF Job
<1>2. a \in 0 .. MaxAttempts /\ s \in {"failed", "scheduled"}
  BY <1>1, Numbers
<1>3. w \in BOOLEAN
  OBVIOUS
<1>4. Failed(j) = [j EXCEPT !.status = s, !.attempts = a, !.waiting = w, !.token = Nobody]
  BY DEF Failed
<1> HIDE DEF n, s, a, w
<1>. QED BY <1>2, <1>3, <1>4 DEF Job

LEMMA FreshIsKey == ASSUME NEW r, NEW k \in Fresh(r) PROVE k \in Runs /\ IsUnused(r, k)
  BY DEF Fresh

\* A job whose claim is given up.
GivenUp(j) == [j EXCEPT !.status = "scheduled", !.token = Nobody]

LEMMA GivenUpTyped ==
  ASSUME NEW j \in Job
  PROVE  /\ GivenUp(j) \in Job /\ GivenUp(j).status = "scheduled" /\ GivenUp(j).key = j.key /\ GivenUp(j).token = Nobody
  BY DEF GivenUp, Job

LEMMA ResetTyped ==
  ASSUME TablesTyped
  PROVE  /\ JobsAfterReset \in [Routes -> Job]
         /\ \A r \in Routes : JobsAfterReset[r] = IF IsAbandoned(r) THEN GivenUp(job[r]) ELSE job[r]
         /\ EntriesAfterReset \in [Entries -> Statuses]
         /\ \A e \in Entries : EntriesAfterReset[e] =
              IF entry[e] = "claimed" /\ lease[DestinationOf[RouteOf[e]]] = Nobody THEN "pending" ELSE entry[e]
<1>1. \A r \in Routes : GivenUp(job[r]) \in Job /\ job[r] \in Job
  BY GivenUpTyped DEF TablesTyped
<1>2. JobsAfterReset = [r \in Routes |-> IF IsAbandoned(r) THEN GivenUp(job[r]) ELSE job[r]]
  BY DEF JobsAfterReset, GivenUp
<1>. QED BY <1>1, <1>2 DEF EntriesAfterReset, TablesTyped, Statuses

LEMMA MoveTyped ==
  ASSUME NEW status \in [Entries -> Statuses], NEW r, NEW s, NEW t \in Statuses
  PROVE  /\ Move(status, r, s, t) \in [Entries -> Statuses]
         /\ \A e \in Entries : Move(status, r, s, t)[e] = IF RouteOf[e] = r /\ status[e] = s THEN t ELSE status[e]
  BY DEF Move

LEMMA At ==
  ASSUME DigestTypeOK
  PROVE  /\ \A r \in Routes : job[r] \in Job /\ DestinationOf[r] \in Destinations
         /\ \A p \in Runtimes, d \in Destinations : run[p][d] \in Execution /\ run[p][d].route \in Routes
                                                    /\ run[p][d].key \in Runs /\ run[p][d].content \subseteq Entries
                                                    /\ run[p][d].chunk \in Chunks /\ run[p][d].phase \in Phases
         /\ \A r \in Routes, k \in Runs : plan[r][k] \in Plan /\ plan[r][k].done \in 0 .. NumChunks /\ plan[r][k].content \subseteq Entries
         /\ \A e \in Entries : RouteOf[e] \in Routes
         /\ TablesTyped /\ PlansTyped /\ SentTyped /\ RunsTyped /\ RestTyped
<1>1. TablesTyped /\ PlansTyped /\ SentTyped /\ RunsTyped /\ RestTyped
  BY DigestTypes
<1>2. \A p \in Runtimes, d \in Destinations : run[p][d] \in Execution
  BY <1>1 DEF RunsTyped
<1>3. \A p \in Runtimes, d \in Destinations :
         /\ run[p][d].route \in Routes /\ run[p][d].key \in Runs /\ run[p][d].content \subseteq Entries
         /\ run[p][d].chunk \in Chunks /\ run[p][d].phase \in Phases
  BY <1>2 DEF Execution
<1>4. \A r \in Routes, k \in Runs : plan[r][k] \in Plan
  BY <1>1 DEF PlansTyped
<1>5. \A r \in Routes, k \in Runs : plan[r][k].done \in 0 .. NumChunks /\ plan[r][k].content \subseteq Entries
  BY <1>4 DEF Plan
<1>6. \A r \in Routes : job[r] \in Job /\ DestinationOf[r] \in Destinations
  BY <1>1, DigestAssumption DEF TablesTyped
<1>. QED BY <1>1, <1>2, <1>3, <1>4, <1>5, <1>6, DigestAssumption

\* What a process does to its own execution.
LEMMA SetRunTyped ==
  ASSUME RunsTyped, NEW p \in Runtimes, NEW d \in Destinations, NEW x \in Execution, SetRun(p, d, x)
  PROVE  /\ RunsTyped' /\ run'[p][d] = x
         /\ \A q \in Runtimes, b \in Destinations : q # p \/ b # d => run'[q][b] = run[q][b]
<1>1. run' = [run EXCEPT ![p] = [run[p] EXCEPT ![d] = x]]
  BY DEF SetRun, RunsTyped
<1>2. [run[p] EXCEPT ![d] = x] \in [Destinations -> Execution]
  BY DEF RunsTyped
<1>3. RunsTyped'
  BY <1>1, <1>2 DEF RunsTyped
<1>4. run'[p] = [run[p] EXCEPT ![d] = x] /\ \A q \in Runtimes : q # p => run'[q] = run[q]
  BY <1>1 DEF RunsTyped
<1>5. run'[p][d] = x /\ \A b \in Destinations : b # d => run'[p][b] = run[p][b]
  BY <1>4 DEF RunsTyped
<1>. QED BY <1>3, <1>4, <1>5
--------------------------------------------------------------------------------
(***************************************************************************)
(* The invariant.                                                          *)
(***************************************************************************)
DestOf(r) == DestinationOf[r]

\* A process executes a run of route r under key k, or any run of r with its claim.
IsWorkingOn(p, r, k) ==
  run[p][DestOf(r)].phase # "idle" /\ run[p][DestOf(r)].route = r /\ run[p][DestOf(r)].key = k
IsHolder(p, r) == HoldsClaim(p, r) /\ run[p][DestOf(r)].phase # "idle" /\ run[p][DestOf(r)].route = r

Known(r) == {e \in Entries : RouteOf[e] = r /\ entry[e] # "absent"}
Open(r) == {e \in Entries : RouteOf[e] = r /\ entry[e] \in {"pending", "claimed"}}

\* What a run would render if nothing was claimed.
Upcoming(r) == IF Open(r) = {} THEN {} ELSE Rendered(First(MaxEntries, Open(r)))

Requested == wire \cup feed

RunFits(x, d) ==
  x.phase # "idle" =>
    /\ DestOf(x.route) = d /\ configured[x.route] # "new"
    /\ x.content # {} /\ x.content \subseteq Known(x.route)
    /\ x.phase # "session" => plan[x.route][x.key] # NoPlan
RunsFit == \A p \in Runtimes, d \in Destinations : RunFits(run[p][d], d)

RequestsFit ==
  \A q \in Requested : /\ plan[q.route][q.key] # NoPlan /\ configured[q.route] # "new"
                       /\ q.content \subseteq Known(q.route)

PlansFit ==
  \A r \in Routes, k \in Runs : /\ plan[r][k].content = {} => plan[r][k].done = 0
                                /\ configured[r] = "new" => plan[r][k] = NoPlan

EntriesFit ==
  \A e \in Entries : /\ configured[RouteOf[e]] = "live" => entry[e] # "cancelled"
                     /\ configured[RouteOf[e]] = "new" => entry[e] = "absent"

\* Who has the lease has the claim.
OwnersFit ==
  \A p \in Runtimes, d \in Destinations :
    Owns(p, d) /\ run[p][d].phase # "idle" => HoldsClaim(p, run[p][d].route)

\* No content under key k goes beyond C.
Bounded(r, k, C) ==
  /\ plan[r][k].content \subseteq C
  /\ \A q \in Requested : q.route = r /\ q.key = k => q.content \subseteq C
  /\ \A p \in Runtimes : IsWorkingOn(p, r, k) => run[p][DestOf(r)].content \subseteq C

\* The latest claim has the most, and its entries are claimed.
HolderFits(p, r) ==
  LET x == run[p][DestOf(r)] IN
  IsHolder(p, r) =>
    /\ Bounded(r, x.key, x.content)
    /\ r \notin meddled => x.key = job[r].key
    /\ r \notin meddled /\ configured[r] = "live" => \A e \in x.content : entry[e] = "claimed"
HoldersFit == \A p \in Runtimes, r \in Routes : HolderFits(p, r)

\* The next claim under the same key will have at least what the earlier ones had.
NextFits(r) ==
  configured[r] = "live" /\ job[r].status # "absent" => Bounded(r, job[r].key, Upcoming(r))
NextsFit == \A r \in Routes : NextFits(r)

\* What was requested under former keys is delivered.
IsSettled(r) ==
  configured[r] = "live" /\ r \notin meddled =>
    \A q \in Requested : q.route = r =>
      (job[r].status # "absent" /\ job[r].key = q.key) \/ \A e \in q.content : entry[e] = "delivered"
AreSettled == \A r \in Routes : IsSettled(r)

\* Threads of two runs have no entry in common, nor will the one that is being published.
AreApart ==
  \A q, s \in Requested : q.route = s.route /\ q.route \notin meddled /\ q.key # s.key => q.content \cap s.content = {}

OwnersApart ==
  \A p \in Runtimes, d \in Destinations : LET x == run[p][d] IN
    Owns(p, d) /\ x.phase # "idle" /\ x.route \notin meddled =>
      \A q \in Requested : q.route = x.route /\ q.key # x.key => q.content \cap x.content = {}

\* The PDS has chunk c of run k, with at least C in it.
IsThereWith(r, k, c, C) == \E q \in feed : q.route = r /\ q.key = k /\ q.chunk = c /\ C \subseteq q.content

DoneIsThere == \A r \in Routes, k \in Runs : \A c \in 1 .. plan[r][k].done : IsThereWith(r, k, c, plan[r][k].content)

PassedFit(x) ==
  /\ x.phase \in {"publish", "sent"} => \A c \in 1 .. x.chunk - 1 : IsThereWith(x.route, x.key, c, x.content)
  /\ x.phase = "complete" => \A c \in Chunks : IsThereWith(x.route, x.key, c, x.content)
PassedIsThere == \A p \in Runtimes, d \in Destinations : PassedFit(run[p][d])

OwnersGoOn ==
  \A p \in Runtimes, d \in Destinations : LET x == run[p][d] IN
    Owns(p, d) /\ x.phase \in {"publish", "sent"} => plan[x.route][x.key].done = x.chunk - 1

DeliveredFit == \A e \in Entries : entry[e] = "delivered" => IsPublished(e)

ShapesFit == RunsFit /\ RequestsFit /\ PlansFit /\ EntriesFit
ClaimsFit == OwnersFit /\ HoldersFit /\ NextsFit /\ AreSettled
ThreadsFit == AreApart /\ OwnersApart /\ DoneIsThere /\ PassedIsThere /\ OwnersGoOn /\ DeliveredFit
DigestInv == DigestTypeOK /\ ShapesFit /\ ClaimsFit /\ ThreadsFit
--------------------------------------------------------------------------------
(***************************************************************************)
(* The order of entries.                                                   *)
(***************************************************************************)
\* A set that grows at its end only.
Extends(S, T) == S \subseteq T /\ \A e \in T \ S, x \in S : x < e

LEMMA FirstGrows ==
  ASSUME NEW S \in SUBSET Nat, NEW T \in SUBSET Nat, Extends(S, T), NEW n
  PROVE  First(n, S) = First(n, T) \cap S
<1>1. \A e \in S : {x \in T : x < e} = {x \in S : x < e}
  <2> SUFFICES ASSUME NEW e \in S, NEW x \in T, x < e PROVE x \in S
    BY DEF Extends
  <2>1. x \notin S => e < x
    BY DEF Extends
  <2>2. x \in Nat /\ e \in Nat
    OBVIOUS
  <2>. QED BY <2>1, <2>2
<1>2. \A e \in S : e \in First(n, S) <=> e \in First(n, T)
  BY <1>1 DEF First, Extends
<1>. QED BY <1>2 DEF First

LEMMA LeastOf ==
  ASSUME NEW S \in SUBSET Nat, S # {}
  PROVE  Min(S) \in S /\ \A x \in S : Min(S) <= x
<1> DEFINE R == {ss \in Nat \X Nat : ss[1] < ss[2]}
<1>1. IsWellFoundedOn(R, Nat)
  BY NatLessThanWellFounded DEF OpToRel
<1>2. PICK m \in S : \A y \in S : ~(<<y, m>> \in R)
  <2> HIDE DEF R
  <2>. QED BY <1>1, WFMin
<1>3. ASSUME NEW y \in S PROVE m <= y
  <2>1. ~(<<y, m>> \in R) /\ m \in Nat /\ y \in Nat
    BY <1>2
  <2>2. ~(y < m)
    BY <2>1, Zenon DEF R
  <2>. QED BY <2>1, <2>2
<1>4. \E x \in S : \A y \in S : x <= y
  BY <1>2, <1>3
<1>. QED BY <1>4 DEF Min

\* The least entry of those that are rendered is the least of those that are open.
LEMMA FirstKeepsLeast ==
  ASSUME NEW S \in SUBSET Nat, S # {}, NEW n \in Nat \ {0}
  PROVE  First(n, S) # {} /\ First(n, S) \in SUBSET Nat /\ First(n, S) \subseteq S /\ Min(First(n, S)) = Min(S)
<1> DEFINE m == Min(S)
           F == First(n, S)
<1>1. m \in S /\ m \in Nat /\ \A x \in S : m <= x /\ x \in Nat
  BY LeastOf
<1> HIDE DEF m
<1>2. {x \in S : x < m} = {}
  <2>1. \A x \in S : ~(x < m)
    BY <1>1
  <2>. QED BY <2>1
<1>3. Cardinality({x \in S : x < m}) < n
  BY <1>2, FS_EmptySet
<1>4. m \in F /\ F \subseteq S
  BY <1>1, <1>3 DEF First
<1> HIDE DEF F
<1>5. Min(F) \in F /\ \A x \in F : Min(F) <= x
  BY <1>4, LeastOf
<1>6. Min(F) = m
  <2>1. Min(F) \in S /\ Min(F) <= m
    BY <1>4, <1>5
  <2>2. m <= Min(F) /\ Min(F) \in Nat
    BY <1>1, <2>1
  <2>. QED BY <1>1, <2>1, <2>2
<1>. QED BY <1>4, <1>6 DEF F, m

\* With more entries behind, a run renders what it would have, and perhaps more.
LEMMA RenderedGrows ==
  ASSUME NEW S \in SUBSET Entries, NEW T \in SUBSET Entries, Extends(S, T), S # {}
  PROVE  Rendered(First(MaxEntries, S)) \subseteq Rendered(First(MaxEntries, T))
<1> DEFINE A == First(MaxEntries, S)
           B == First(MaxEntries, T)
           p == SnapshotOf[Min(A)]
           U == {e \in A : SnapshotOf[e] = p}
           V == {e \in B : SnapshotOf[e] = p}
<1>0. S \in SUBSET Nat /\ T \in SUBSET Nat /\ T # {} /\ S \subseteq T
  BY DigestAssumption DEF Extends
<1>1. A = B \cap S
  BY <1>0, FirstGrows
<1>2. A # {} /\ B # {} /\ A \subseteq S /\ B \subseteq T /\ Min(A) = Min(S) /\ Min(B) = Min(T)
  BY <1>0, FirstKeepsLeast, Numbers
<1>3. Min(A) = Min(B)
  <2>1. Min(S) \in S /\ (\A x \in S : Min(S) <= x) /\ Min(T) \in T /\ (\A x \in T : Min(T) <= x)
    BY <1>0, LeastOf
  <2> DEFINE a == Min(S)
             b == Min(T)
  <2> HIDE DEF a, b
  <2>2. a \in S /\ b \in T /\ a \in T /\ b <= a /\ a \in Nat /\ b \in Nat
    BY <1>0, <2>1 DEF a, b
  <2>4. b \in S
    <3>1. b \notin S => a < b
      BY <2>2 DEF Extends
    <3>. QED BY <2>2, <3>1
  <2>5. a <= b
    BY <2>1, <2>4 DEF a
  <2>3. Min(S) = Min(T)
    BY <2>2, <2>5 DEF a, b
  <2>. QED BY <1>2, <2>3
<1>4. Rendered(A) = First(RenderLimit, U) /\ Rendered(B) = First(RenderLimit, V)
  BY <1>3 DEF Rendered
<1>5. U \subseteq V /\ \A e \in V \ U, x \in U : x < e
  <2>1. \A e \in V \ U : e \in T \ S
    BY <1>1, <1>2
  <2>2. U \subseteq S
    BY <1>2
  <2>. QED BY <1>1, <2>1, <2>2 DEF Extends
<1>6. U \in SUBSET Nat /\ V \in SUBSET Nat
  BY <1>0, <1>2
<1> HIDE DEF A, B, U, V, p
<1>7. First(RenderLimit, U) = First(RenderLimit, V) \cap U
  BY <1>5, <1>6, FirstGrows DEF Extends
<1>. QED BY <1>4, <1>7 DEF A, B

\* A run renders some of what is open.
LEMMA RenderedIsOpen ==
  ASSUME NEW S \in SUBSET Entries, S # {}
  PROVE  Rendered(First(MaxEntries, S)) # {} /\ Rendered(First(MaxEntries, S)) \subseteq S
<1> DEFINE A == First(MaxEntries, S)
           U == {e \in A : SnapshotOf[e] = SnapshotOf[Min(A)]}
<1>0. S \in SUBSET Nat
  BY DigestAssumption
<1>1. A # {} /\ A \subseteq S /\ A \in SUBSET Nat
  BY <1>0, FirstKeepsLeast, Numbers
<1>2. Min(A) \in A
  BY <1>1, LeastOf
<1>3. Min(A) \in U
  BY <1>2
<1>4. U \in SUBSET Nat /\ U \subseteq S /\ U # {}
  BY <1>1, <1>3
<1>5. Rendered(A) = First(RenderLimit, U)
  BY DEF Rendered
<1> HIDE DEF A, U
<1>6. First(RenderLimit, U) # {} /\ First(RenderLimit, U) \subseteq U
  BY <1>4, FirstKeepsLeast, Numbers
<1>. QED BY <1>4, <1>5, <1>6 DEF A

LEMMA UpcomingGrows ==
  ASSUME NEW r, Extends(Open(r), Open(r)')
  PROVE  Upcoming(r) \subseteq Upcoming(r)'
<1>1. CASE Open(r) = {}
  BY <1>1 DEF Upcoming
<1>2. CASE Open(r) # {}
  <2>1. PICK S, T : S = Open(r) /\ T = Open(r)'
    OBVIOUS
  <2>2. S \in SUBSET Entries /\ T \in SUBSET Entries /\ S # {} /\ Extends(S, T) /\ T # {}
    BY <1>2, <2>1 DEF Open, Extends
  <2>3. Rendered(First(MaxEntries, S)) \subseteq Rendered(First(MaxEntries, T))
    BY <2>2, RenderedGrows
  <2>. QED BY <2>1, <2>2, <2>3 DEF Upcoming
<1>. QED BY <1>1, <1>2
--------------------------------------------------------------------------------
(***************************************************************************)
(* Steps that make no request and claim no job.                            *)
(***************************************************************************)
\* Contents come from runs, and runs from claims.
Steady ==
  /\ \A r \in Routes, k \in Runs :
       \/ plan'[r][k].content \subseteq plan[r][k].content
       \/ \E p \in Runtimes : IsWorkingOn(p, r, k) /\ plan'[r][k].content = run[p][DestOf(r)].content
  /\ \A q \in Requested' :
       \/ q \in Requested
       \/ \E p \in Runtimes : IsWorkingOn(p, q.route, q.key) /\ q.content = run[p][DestOf(q.route)].content
  /\ \A p \in Runtimes, r \in Routes, k \in Runs :
       IsWorkingOn(p, r, k)' => IsWorkingOn(p, r, k) /\ run'[p][DestOf(r)].content = run[p][DestOf(r)].content

LEMMA BoundedStays ==
  ASSUME Steady, NEW r \in Routes, NEW k \in Runs, NEW C, Bounded(r, k, C)
  PROVE  Bounded(r, k, C)'
<1>1. plan'[r][k].content \subseteq C
  BY DEF Steady, Bounded
<1>2. ASSUME NEW q \in Requested', q.route = r, q.key = k
      PROVE  q.content \subseteq C
  BY <1>2 DEF Steady, Bounded
<1>3. ASSUME NEW p \in Runtimes, IsWorkingOn(p, r, k)'
      PROVE  run'[p][DestOf(r)].content \subseteq C
  BY <1>3 DEF Steady, Bounded
<1>. QED BY <1>1, <1>2, <1>3 DEF Bounded, DestOf

LEMMA FreeIsBounded ==
  ASSUME NEW r \in Routes, NEW k, IsUnused(r, k), RequestsFit
  PROVE  Bounded(r, k, {})
  BY NoPlanTyped DEF IsUnused, RequestsFit, Bounded, IsWorkingOn, DestOf

LEMMA BoundedMore ==
  ASSUME NEW r, NEW k, NEW C, NEW D, C \subseteq D, Bounded(r, k, C)
  PROVE  Bounded(r, k, D)
  BY DEF Bounded

\* A run that goes on is where it was.
SameWork(x, y) ==
  y.phase # "idle" => y.phase = x.phase /\ y.route = x.route /\ y.key = x.key /\ y.content = x.content /\ y.chunk = x.chunk

RunsGoOn == \A p \in Runtimes, d \in Destinations : SameWork(run[p][d], run'[p][d])

PlansGoOn ==
  \A r \in Routes, k \in Runs :
    \/ plan'[r][k] = plan[r][k]
    \/ /\ plan[r][k].done = 0 /\ plan'[r][k].done = 0 /\ plan'[r][k].content # {}
       /\ \E p \in Runtimes : IsWorkingOn(p, r, k) /\ plan'[r][k].content = run[p][DestOf(r)].content

EntriesGoOn ==
  \A e \in Entries : /\ entry[e] # "absent" => entry'[e] # "absent"
                     /\ entry[e] = "delivered" => entry'[e] = "delivered"
                     /\ entry'[e] = "delivered" => entry[e] = "delivered" \/ IsPublished(e)

RoutesGoOn ==
  /\ meddled \subseteq meddled'
  /\ \A r \in Routes : configured[r] # "new" => configured'[r] # "new"

NoNewOwner == \A p \in Runtimes, d \in Destinations : Owns(p, d)' => Owns(p, d)

\* What becomes of the claim on the job of route r, its key, and what it would claim.
ClaimStep(r) ==
  \A p \in Runtimes : IsHolder(p, r)' =>
    /\ HoldsClaim(p, r)
    /\ r \notin meddled' => job'[r].key = job[r].key
    /\ r \notin meddled' /\ configured'[r] = "live" => configured[r] = "live"
    /\ r \notin meddled' /\ configured'[r] = "live" =>
         \A e \in Entries : RouteOf[e] = r /\ entry[e] = "claimed" => entry'[e] = "claimed"

OwnerStep(r) ==
  \A p \in Runtimes : Owns(p, DestOf(r))' /\ run'[p][DestOf(r)].phase # "idle" /\ run'[p][DestOf(r)].route = r
                      /\ HoldsClaim(p, r) => HoldsClaim(p, r)'

KeyStep(r) ==
  configured'[r] = "live" /\ job'[r].status # "absent" =>
    \/ job'[r].key \in Fresh(r)
    \/ job'[r].key = job[r].key /\ configured[r] = "live" /\ job[r].status # "absent" /\ Extends(Open(r), Open(r)')

SettledStep(r) ==
  configured'[r] = "live" /\ r \notin meddled' =>
    \/ configured[r] = "live" /\ job[r].status # "absent" /\ job'[r].status # "absent" /\ job'[r].key = job[r].key
    \/ \A q \in Requested : q.route = r => \A e \in q.content : entry'[e] = "delivered"

TableStep(r) == ClaimStep(r) /\ OwnerStep(r) /\ KeyStep(r) /\ SettledStep(r)

Quiet ==
  /\ DigestTypeOK' /\ UNCHANGED <<wire, feed>> /\ RunsGoOn /\ PlansGoOn /\ EntriesGoOn /\ RoutesGoOn /\ NoNewOwner
  /\ EntriesFit' /\ \A r \in Routes : TableStep(r)
  /\ \A r \in Routes, k \in Runs : configured'[r] = "new" => plan'[r][k] = NoPlan

LEMMA QuietIsSteady ==
  ASSUME Quiet, DigestTypeOK
  PROVE  Steady
<1>1. Requested' = Requested
  BY DEF Quiet, Requested
<1>2. \A p \in Runtimes, r \in Routes, k \in Runs :
        IsWorkingOn(p, r, k)' => IsWorkingOn(p, r, k) /\ run'[p][DestOf(r)].content = run[p][DestOf(r)].content
  <2> SUFFICES ASSUME NEW p \in Runtimes, NEW r \in Routes, NEW k \in Runs, IsWorkingOn(p, r, k)'
               PROVE  IsWorkingOn(p, r, k) /\ run'[p][DestOf(r)].content = run[p][DestOf(r)].content
    OBVIOUS
  <2>1. DestOf(r) \in Destinations
    BY At DEF DestOf
  <2>2. SameWork(run[p][DestOf(r)], run'[p][DestOf(r)])
    BY <2>1 DEF Quiet, RunsGoOn
  <2>. QED BY <2>2 DEF IsWorkingOn, SameWork, DestOf
<1>3. \A r \in Routes, k \in Runs :
       \/ plan'[r][k].content \subseteq plan[r][k].content
       \/ \E p \in Runtimes : IsWorkingOn(p, r, k) /\ plan'[r][k].content = run[p][DestOf(r)].content
  BY DEF Quiet, PlansGoOn
<1>. QED BY <1>1, <1>2, <1>3 DEF Steady

LEMMA KnownGrows ==
  ASSUME EntriesGoOn, NEW r
  PROVE  Known(r) \subseteq Known(r)'
  BY DEF EntriesGoOn, Known

LEMMA PlansStayMade ==
  ASSUME Quiet, PlansFit, NEW r \in Routes, NEW k \in Runs, plan[r][k] # NoPlan
  PROVE  plan'[r][k] # NoPlan
  BY NoPlanTyped DEF Quiet, PlansGoOn

LEMMA QuietShapes ==
  ASSUME DigestInv, Quiet
  PROVE  ShapesFit'
<1>1. DigestTypeOK /\ DigestTypeOK' /\ RunsFit /\ RequestsFit /\ PlansFit /\ EntriesFit /\ EntriesFit'
  BY DEF DigestInv, ShapesFit, Quiet
<1>2. RunsFit'
  <2> SUFFICES ASSUME NEW p \in Runtimes, NEW d \in Destinations, run'[p][d].phase # "idle"
               PROVE  RunFits(run[p][d], d)'
    BY DEF RunsFit, RunFits
  <2> DEFINE x == run[p][d]
             y == run'[p][d]
  <2>1. y.phase = x.phase /\ y.route = x.route /\ y.key = x.key /\ y.content = x.content
    BY DEF Quiet, RunsGoOn, SameWork
  <2>2. RunFits(x, d) /\ x.route \in Routes /\ x.key \in Runs
    BY <1>1, At DEF RunsFit
  <2>3. PICK s \in Routes : s = x.route
    BY <2>2
  <2>4. Known(s) \subseteq Known(s)'
    BY KnownGrows DEF Quiet
  <2>5. configured'[s] # "new"
    BY <2>1, <2>2, <2>3 DEF RunFits, Quiet, RoutesGoOn
  <2>6. y.phase # "session" => plan'[s][x.key] # NoPlan
    BY <1>1, <2>1, <2>2, <2>3, PlansStayMade DEF RunFits
  <2>7. y.content \subseteq Known(s)' /\ y.content # {} /\ DestOf(s) = d
    BY <2>1, <2>2, <2>3, <2>4 DEF RunFits
  <2>. QED BY <2>1, <2>3, <2>5, <2>6, <2>7 DEF RunFits, DestOf
<1>3. RequestsFit'
  <2>1. Requested' = Requested /\ \A q \in Requested : q.route \in Routes /\ q.key \in Runs
    BY <1>1, At DEF Quiet, Requested, SentTyped, Record
  <2> SUFFICES ASSUME NEW q \in Requested
               PROVE  /\ plan'[q.route][q.key] # NoPlan /\ configured'[q.route] # "new"
                      /\ q.content \subseteq Known(q.route)'
    BY <2>1 DEF RequestsFit
  <2>2. plan[q.route][q.key] # NoPlan /\ configured[q.route] # "new" /\ q.content \subseteq Known(q.route)
    BY <1>1 DEF RequestsFit
  <2>3. Known(q.route) \subseteq Known(q.route)'
    BY KnownGrows DEF Quiet
  <2>. QED BY <1>1, <2>1, <2>2, <2>3, PlansStayMade DEF Quiet, RoutesGoOn
<1>4. PlansFit'
  BY <1>1 DEF Quiet, PlansGoOn, PlansFit
<1>. QED BY <1>1, <1>2, <1>3, <1>4 DEF ShapesFit

LEMMA QuietClaims ==
  ASSUME DigestInv, Quiet
  PROVE  ClaimsFit'
<1>1. /\ DigestTypeOK /\ DigestTypeOK' /\ RunsFit /\ RequestsFit /\ OwnersFit /\ HoldersFit /\ NextsFit /\ AreSettled
      /\ Steady
  BY QuietIsSteady DEF DigestInv, ShapesFit, ClaimsFit, Quiet
<1>2. OwnersFit'
  <2> SUFFICES ASSUME NEW p \in Runtimes, NEW d \in Destinations, Owns(p, d)', run'[p][d].phase # "idle"
               PROVE  HoldsClaim(p, run[p][d].route)'
    BY DEF OwnersFit
  <2>1. PICK r \in Routes : r = run[p][d].route
    BY <1>1, At
  <2>2. run[p][d].phase # "idle" /\ run'[p][d].route = r /\ Owns(p, d)
    BY <2>1 DEF Quiet, RunsGoOn, SameWork, NoNewOwner
  <2>3. DestOf(r) = d /\ HoldsClaim(p, r)
    BY <1>1, <2>1, <2>2 DEF RunsFit, RunFits, OwnersFit
  <2>4. HoldsClaim(p, r)'
    BY <2>2, <2>3 DEF Quiet, TableStep, OwnerStep, DestOf
  <2>. QED BY <2>2, <2>4 DEF HoldsClaim
<1>3. HoldersFit'
  <2> SUFFICES ASSUME NEW p \in Runtimes, NEW r \in Routes, IsHolder(p, r)'
               PROVE  HolderFits(p, r)'
    BY DEF HoldersFit, HolderFits
  <2> DEFINE d == DestOf(r)
             x == run[p][d]
             y == run'[p][d]
  <2>1. d \in Destinations /\ x.key \in Runs
    BY <1>1, At DEF DestOf
  <2>2. /\ y.phase # "idle" /\ y.route = r /\ y.route = x.route /\ y.key = x.key /\ y.content = x.content
        /\ x.phase # "idle"
    BY <2>1 DEF Quiet, RunsGoOn, SameWork, IsHolder, DestOf
  <2>3. /\ HoldsClaim(p, r)
        /\ r \notin meddled' => job'[r].key = job[r].key
        /\ r \notin meddled' /\ configured'[r] = "live" => configured[r] = "live"
        /\ r \notin meddled' /\ configured'[r] = "live" =>
             \A e \in Entries : RouteOf[e] = r /\ entry[e] = "claimed" => entry'[e] = "claimed"
    BY DEF Quiet, TableStep, ClaimStep, IsHolder
  <2>4. IsHolder(p, r)
    BY <2>2, <2>3 DEF IsHolder
  <2>5. /\ Bounded(r, x.key, x.content)
        /\ r \notin meddled => x.key = job[r].key
        /\ r \notin meddled /\ configured[r] = "live" => \A e \in x.content : entry[e] = "claimed"
    BY <1>1, <2>4 DEF HoldersFit, HolderFits, DestOf
  <2>6. x.content \subseteq Known(r)
    BY Zenon, <1>1, <2>1, <2>2 DEF RunsFit, RunFits
  <2>7. PICK k, C : k \in Runs /\ k = x.key /\ C = x.content
    BY <2>1
  <2>8. Bounded(r, k, C)'
    BY <1>1, <2>5, <2>7, BoundedStays
  <2>9. r \notin meddled' => r \notin meddled
    BY DEF Quiet, RoutesGoOn
  <2>10. Bounded(r, run[p][DestOf(r)].key, run[p][DestOf(r)].content)'
    BY Zenon, <2>2, <2>7, <2>8 DEF Bounded, DestOf
  <2>11. /\ r \notin meddled' => y.key = job'[r].key
         /\ r \notin meddled' /\ configured'[r] = "live" => \A e \in y.content : entry'[e] = "claimed"
    BY Zenon, <2>2, <2>3, <2>5, <2>6, <2>9 DEF Known
  <2>. QED BY <2>10, <2>11 DEF HolderFits, DestOf
<1>4. NextsFit'
  <2> SUFFICES ASSUME NEW r \in Routes, configured'[r] = "live", job'[r].status # "absent"
               PROVE  Bounded(r, job[r].key, Upcoming(r))'
    BY DEF NextsFit, NextFits
  <2>0. TablesTyped'
    BY <1>1 DEF DigestTypeOK, TablesTyped, Statuses
  <2>4. job'[r] \in Job
    BY <2>0 DEF TablesTyped
  <2>5. job'[r].key \in Runs
    BY <2>4 DEF Job
  <2>1. PICK k, D : k \in Runs /\ k = job'[r].key /\ D = Upcoming(r)'
    BY <2>5
  <2>2. CASE k \in Fresh(r)
    <3>1. Bounded(r, k, {})'
      BY <1>1, <2>1, <2>2, FreshIsKey, FreeIsBounded, BoundedStays
    <3>2. Bounded(r, k, D)'
      BY <3>1 DEF Bounded
    <3>. QED BY <2>1, <3>2 DEF Bounded
  <2>3. CASE job'[r].key = job[r].key /\ configured[r] = "live" /\ job[r].status # "absent" /\ Extends(Open(r), Open(r)')
    <3>1. Bounded(r, k, Upcoming(r))
      BY <1>1, <2>1, <2>3 DEF NextsFit, NextFits
    <3>2. Upcoming(r) \subseteq D
      BY <2>1, <2>3, UpcomingGrows
    <3>3. Bounded(r, k, D)
      BY <3>1, <3>2 DEF Bounded
    <3>4. Bounded(r, k, D)'
      BY <1>1, <2>1, <3>3, BoundedStays
    <3>. QED BY <2>1, <3>4 DEF Bounded
  <2>. QED BY <2>1, <2>2, <2>3 DEF Quiet, TableStep, KeyStep
<1>5. AreSettled'
  <2> SUFFICES ASSUME NEW r \in Routes, configured'[r] = "live", r \notin meddled', NEW q \in Requested', q.route = r
               PROVE  (job'[r].status # "absent" /\ job'[r].key = q.key) \/ \A e \in q.content : entry'[e] = "delivered"
    BY DEF AreSettled, IsSettled
  <2>1. q \in Requested /\ r \notin meddled /\ q.content \subseteq Entries
    BY <1>1, At DEF Quiet, RoutesGoOn, Requested, SentTyped, Record
  <2>2. CASE configured[r] = "live" /\ job[r].status # "absent" /\ job'[r].status # "absent" /\ job'[r].key = job[r].key
    <3>1. (job[r].status # "absent" /\ job[r].key = q.key) \/ \A e \in q.content : entry[e] = "delivered"
      BY <1>1, <2>1, <2>2 DEF AreSettled, IsSettled
    <3>2. (\A e \in q.content : entry[e] = "delivered") => \A e \in q.content : entry'[e] = "delivered"
      BY <2>1 DEF Quiet, EntriesGoOn
    <3>. QED BY <2>2, <3>1, <3>2
  <2>3. CASE \A s \in Requested : s.route = r => \A e \in s.content : entry'[e] = "delivered"
    BY <2>1, <2>3
  <2>. QED BY <2>2, <2>3 DEF Quiet, TableStep, SettledStep
<1>. QED BY <1>2, <1>3, <1>4, <1>5 DEF ClaimsFit

LEMMA QuietThreads ==
  ASSUME DigestInv, Quiet
  PROVE  ThreadsFit'
<1>1. /\ DigestTypeOK /\ DigestTypeOK' /\ RunsFit /\ AreApart /\ OwnersApart /\ DoneIsThere /\ PassedIsThere
      /\ OwnersGoOn /\ DeliveredFit
  BY DEF DigestInv, ShapesFit, ThreadsFit, Quiet
<1>2. Requested' = Requested /\ feed' = feed /\ meddled \subseteq meddled'
  BY DEF Quiet, Requested, RoutesGoOn
<1>3. \A p \in Runtimes, d \in Destinations : SameWork(run[p][d], run'[p][d]) /\ (Owns(p, d)' => Owns(p, d))
  BY DEF Quiet, RunsGoOn, NoNewOwner
<1>4. AreApart'
  BY <1>1, <1>2 DEF AreApart
<1>5. OwnersApart'
  <2> SUFFICES ASSUME NEW p \in Runtimes, NEW d \in Destinations, Owns(p, d)', run'[p][d].phase # "idle",
                      run'[p][d].route \notin meddled', NEW q \in Requested, q.route = run'[p][d].route,
                      q.key # run'[p][d].key
               PROVE  q.content \cap run'[p][d].content = {}
    BY <1>2 DEF OwnersApart
  <2>1. /\ run[p][d].phase # "idle" /\ run[p][d].route = run'[p][d].route /\ run[p][d].key = run'[p][d].key
        /\ run[p][d].content = run'[p][d].content /\ Owns(p, d)
    BY <1>3 DEF SameWork
  <2>. QED BY <1>1, <1>2, <2>1 DEF OwnersApart
<1>6. DoneIsThere'
  <2> SUFFICES ASSUME NEW r \in Routes, NEW k \in Runs, NEW c \in 1 .. plan'[r][k].done
               PROVE  \E q \in feed : q.route = r /\ q.key = k /\ q.chunk = c /\ plan'[r][k].content \subseteq q.content
    BY <1>2 DEF DoneIsThere, IsThereWith
  <2>1. plan'[r][k] = plan[r][k]
    BY DEF Quiet, PlansGoOn
  <2>. QED BY <1>1, <2>1 DEF DoneIsThere, IsThereWith
<1>7. PassedIsThere'
  <2> SUFFICES ASSUME NEW p \in Runtimes, NEW d \in Destinations
               PROVE  PassedFit(run[p][d])'
    BY DEF PassedIsThere
  <2> DEFINE x == run[p][d]
             y == run'[p][d]
  <2>1. PassedFit(x)
    BY <1>1 DEF PassedIsThere
  <2>2. CASE y.phase = "idle"
    BY <2>2 DEF PassedFit
  <2>3. CASE y.phase # "idle"
    <3>1. y.phase = x.phase /\ y.route = x.route /\ y.key = x.key /\ y.content = x.content /\ y.chunk = x.chunk
      BY <1>3, <2>3 DEF SameWork
    <3>. QED BY <1>2, <2>1, <3>1 DEF PassedFit, IsThereWith
  <2>. QED BY <2>2, <2>3
<1>8. OwnersGoOn'
  <2> SUFFICES ASSUME NEW p \in Runtimes, NEW d \in Destinations, Owns(p, d)', run'[p][d].phase \in {"publish", "sent"}
               PROVE  plan'[run'[p][d].route][run'[p][d].key].done = run'[p][d].chunk - 1
    BY DEF OwnersGoOn
  <2> DEFINE x == run[p][d]
  <2>1. /\ Owns(p, d) /\ x.phase \in {"publish", "sent"} /\ x.route = run'[p][d].route /\ x.key = run'[p][d].key
        /\ x.chunk = run'[p][d].chunk /\ x.route \in Routes /\ x.key \in Runs
    BY <1>1, <1>3, At DEF SameWork
  <2>2. plan[x.route][x.key].done = x.chunk - 1
    BY <1>1, <2>1 DEF OwnersGoOn
  <2>3. plan'[x.route][x.key].done = plan[x.route][x.key].done
    BY <2>1 DEF Quiet, PlansGoOn
  <2>. QED BY <2>1, <2>2, <2>3
<1>9. DeliveredFit'
  <2> SUFFICES ASSUME NEW e \in Entries, entry'[e] = "delivered" PROVE IsPublished(e)'
    BY DEF DeliveredFit
  <2>1. IsPublished(e)
    BY <1>1 DEF Quiet, EntriesGoOn, DeliveredFit
  <2>. QED BY <1>2, <2>1 DEF IsPublished
<1>. QED BY <1>4, <1>5, <1>6, <1>7, <1>8, <1>9 DEF ThreadsFit

LEMMA QuietKeepsAll ==
  ASSUME DigestInv, Quiet
  PROVE  DigestInv'
  BY QuietShapes, QuietClaims, QuietThreads DEF DigestInv, Quiet

--------------------------------------------------------------------------------
(***************************************************************************)
(* Routes a step leaves alone, or resets.                                  *)
(***************************************************************************)
LEMMA SettledNow ==
  ASSUME RequestsFit, AreSettled, NEW r \in Routes, configured[r] = "live", r \notin meddled,
         job[r].status = "absent" \/ plan[r][job[r].key] = NoPlan,
         NEW q \in Requested, q.route = r
  PROVE  \A e \in q.content : entry[e] = "delivered"
  BY DEF RequestsFit, AreSettled, IsSettled

LEMMA ContentHasRoute ==
  ASSUME RequestsFit, NEW q \in Requested
  PROVE  \A e \in q.content : e \in Entries /\ RouteOf[e] = q.route
  BY DEF RequestsFit, Known

LEMMA UntouchedStep ==
  ASSUME RequestsFit, AreSettled, NEW r \in Routes, job'[r].status = job[r].status, job'[r].key = job[r].key,
         job'[r].token = job[r].token, configured'[r] = configured[r], meddled \subseteq meddled',
         \A e \in Entries : RouteOf[e] = r => entry'[e] = entry[e]
  PROVE  TableStep(r)
<1>1. ClaimStep(r)
  BY DEF ClaimStep, IsHolder, HoldsClaim
<1>2. OwnerStep(r)
  BY DEF OwnerStep, HoldsClaim
<1>3. Open(r)' = Open(r)
  BY DEF Open
<1>4. KeyStep(r)
  BY <1>3 DEF KeyStep, Extends
<1>5. SettledStep(r)
  <2> SUFFICES ASSUME configured[r] = "live", r \notin meddled, job[r].status = "absent",
                      NEW q \in Requested, q.route = r, NEW e \in q.content
               PROVE  entry'[e] = "delivered"
    BY DEF SettledStep
  <2>. QED BY SettledNow, ContentHasRoute
<1>. QED BY <1>1, <1>2, <1>4, <1>5 DEF TableStep

\* A job that ends its claim for good or for now, and keeps its key.
LEMMA ReleasedStep ==
  ASSUME NEW r \in Routes, configured'[r] = configured[r], job[r].status # "absent", job'[r].status \in {"scheduled", "failed"},
         job'[r].key = job[r].key, Open(r)' = Open(r),
         \A p \in Runtimes : HoldsClaim(p, r) /\ Owns(p, DestOf(r))' => run'[p][DestOf(r)].phase = "idle"
  PROVE  TableStep(r)
<1>1. ClaimStep(r)
  BY DEF ClaimStep, IsHolder, HoldsClaim
<1>2. OwnerStep(r)
  BY DEF OwnerStep
<1>3. KeyStep(r)
  BY DEF KeyStep, Extends
<1>4. SettledStep(r)
  BY DEF SettledStep
<1>. QED BY <1>1, <1>2, <1>3, <1>4 DEF TableStep

LEMMA ResetStep ==
  ASSUME DigestTypeOK, RequestsFit, AreSettled, NEW r \in Routes, job'[r] = JobsAfterReset[r], configured'[r] = configured[r],
         meddled \subseteq meddled', NoNewOwner,
         \A e \in Entries : RouteOf[e] = r => entry'[e] = EntriesAfterReset[e]
  PROVE  TableStep(r)
<1>0. TablesTyped /\ job[r] \in Job /\ DestOf(r) \in Destinations
  BY At DEF DestOf
<1>1. CASE IsAbandoned(r)
  <2>1. job'[r].status = "scheduled" /\ job'[r].key = job[r].key
    BY <1>0, <1>1, ResetTyped, GivenUpTyped
  <2>2. job[r].status = "processing" /\ lease[DestOf(r)] = Nobody
    BY <1>1 DEF IsAbandoned, DestOf
  <2>3. \A e \in Entries : RouteOf[e] = r => entry'[e] = IF entry[e] = "claimed" THEN "pending" ELSE entry[e]
    BY <1>0, <2>2, ResetTyped DEF DestOf
  <2>4. Open(r)' = Open(r)
    BY <2>3 DEF Open
  <2>5. \A p \in Runtimes : ~Owns(p, DestOf(r))'
    BY <1>0, <2>2, OwnersAssumption DEF NoNewOwner, Owns
  <2>. QED BY <2>1, <2>2, <2>4, <2>5, ReleasedStep
<1>2. CASE ~IsAbandoned(r) /\ lease[DestOf(r)] # Nobody
  <2>1. job'[r] = job[r]
    BY <1>0, <1>2, ResetTyped
  <2>2. \A e \in Entries : RouteOf[e] = r => entry'[e] = entry[e]
    BY <1>0, <1>2, ResetTyped DEF DestOf
  <2>. QED BY <2>1, <2>2, UntouchedStep
<1>3. CASE ~IsAbandoned(r) /\ lease[DestOf(r)] = Nobody
  <2>1. job'[r] = job[r] /\ job[r].status # "processing"
    BY <1>0, <1>3, ResetTyped DEF IsAbandoned, DestOf
  <2>2. \A e \in Entries : RouteOf[e] = r => entry'[e] = IF entry[e] = "claimed" THEN "pending" ELSE entry[e]
    BY <1>0, <1>3, ResetTyped DEF DestOf
  <2>3. Open(r)' = Open(r)
    BY <2>2 DEF Open
  <2>4. ClaimStep(r) /\ OwnerStep(r)
    BY <2>1 DEF ClaimStep, OwnerStep, IsHolder, HoldsClaim
  <2>5. KeyStep(r)
    BY <1>3, <2>1, <2>3 DEF KeyStep, Extends
  <2>6. SettledStep(r)
    <3> SUFFICES ASSUME configured[r] = "live", r \notin meddled, job[r].status = "absent",
                        NEW q \in Requested, q.route = r, NEW e \in q.content
                 PROVE  entry'[e] = "delivered"
      BY <2>1 DEF SettledStep
    <3>. QED BY <2>2, SettledNow, ContentHasRoute
  <2>. QED BY <2>4, <2>5, <2>6 DEF TableStep
<1>. QED BY <1>1, <1>2, <1>3

--------------------------------------------------------------------------------
(***************************************************************************)
(* What a process does to its execution, its lease and its job.            *)
(***************************************************************************)
LEMMA SameWorkAgain ==
  ASSUME RunsTyped, NEW p \in Runtimes, NEW d \in Destinations, NEW x \in Execution, SetRun(p, d, x), SameWork(run[p][d], x)
  PROVE  RunsGoOn
<1> SUFFICES ASSUME NEW q \in Runtimes, NEW b \in Destinations
             PROVE  SameWork(run[q][b], run'[q][b])
  BY DEF RunsGoOn
<1>1. CASE q = p /\ b = d
  BY <1>1, SetRunTyped
<1>2. CASE q # p \/ b # d
  BY <1>2, SetRunTyped DEF SameWork
<1>. QED BY <1>1, <1>2

LEMMA LeaseStays ==
  ASSUME LeaseTypeOK, UNCHANGED lease
  PROVE  LeaseTypeOK' /\ NoNewOwner
  BY DEF LeaseTypeOK, NoNewOwner, Owns

LEMMA LeaveStep ==
  ASSUME DigestTypeOK, NEW p \in Runtimes, NEW d \in Destinations, Leave(p, d)
  PROVE  /\ RunsTyped' /\ LeaseTypeOK' /\ RunsGoOn /\ NoNewOwner
         /\ run'[p][d].phase = "idle"
<1>1. AnyRoute \in Routes /\ RunsTyped /\ LeaseTypeOK
  BY At, AnyRouteIsThere DEF RestTyped
<1>2. Idle(AnyRoute) \in Execution /\ Idle(AnyRoute).phase = "idle" /\ SetRun(p, d, Idle(AnyRoute)) /\ ReleaseLease(p, d)
  BY <1>1, IdleTyped DEF Leave
<1>3. SameWork(run[p][d], Idle(AnyRoute))
  BY <1>2 DEF SameWork
<1>4. RunsTyped' /\ RunsGoOn /\ run'[p][d].phase = "idle"
  BY <1>1, <1>2, <1>3, SetRunTyped, SameWorkAgain
<1>5. LeaseTypeOK' /\ NoNewOwner
  BY <1>1, <1>2, OwnersAssumption DEF ReleaseLease, LeaseTypeOK, NoNewOwner, Owns
<1>. QED BY <1>4, <1>5

LEMMA ThrowTyped ==
  ASSUME DigestTypeOK, NEW p \in Runtimes, NEW d \in Destinations, Throw(p, d)
  PROVE  TablesTyped' /\ RunsTyped' /\ LeaseTypeOK'
<1>1. Leave(p, d)
  BY DEF Throw
<1>2. PICK r \in Routes : r = run[p][d].route
  BY At
<1>3. TablesTyped /\ job[r] \in Job
  BY At
<1>4. CASE HoldsClaim(p, r)
  <2>1. job' = [job EXCEPT ![r] = Failed(job[r])] /\ entry' = Move(entry, r, "claimed", "pending")
    BY <1>2, <1>3, <1>4 DEF Throw
  <2>2. Failed(job[r]) \in Job
    BY <1>3, FailedTyped
  <2>3. job' \in [Routes -> Job]
    BY <1>3, <2>1, <2>2 DEF TablesTyped
  <2>4. entry' \in [Entries -> Statuses]
    BY <1>3, <2>1, MoveTyped DEF TablesTyped, Statuses
  <2>. QED BY <1>1, <2>3, <2>4, LeaveStep DEF TablesTyped
<1>5. CASE ~HoldsClaim(p, r)
  BY <1>1, <1>2, <1>3, <1>5, LeaveStep DEF Throw, TablesTyped
<1>. QED BY <1>4, <1>5

\* The entries a job gives up are open as before.
LEMMA GivenBack ==
  ASSUME TablesTyped, NEW r \in Routes, entry' = Move(entry, r, "claimed", "pending")
  PROVE  /\ Open(r)' = Open(r) /\ EntriesGoOn
         /\ \A e \in Entries : RouteOf[e] # r => entry'[e] = entry[e]
         /\ \A e \in Entries : RouteOf[e] = r => entry'[e] = IF entry[e] = "claimed" THEN "pending" ELSE entry[e]
<1>1. \A e \in Entries : entry'[e] = IF RouteOf[e] = r /\ entry[e] = "claimed" THEN "pending" ELSE entry[e]
  BY MoveTyped DEF TablesTyped, Statuses
<1>. QED BY <1>1 DEF Open, EntriesGoOn

LEMMA ThrowStep ==
  ASSUME DigestInv, DigestTypeOK', NEW p \in Runtimes, NEW d \in Destinations, run[p][d].phase # "idle", Throw(p, d),
         UNCHANGED <<wire, feed, configured, meddled>>, PlansGoOn,
         \A r \in Routes, k \in Runs : configured[r] = "new" => plan'[r][k] = NoPlan
  PROVE  Quiet
<1>1. DigestTypeOK /\ RunsFit /\ RequestsFit /\ EntriesFit /\ AreSettled
  BY DEF DigestInv, ShapesFit, ClaimsFit
<1>2. Leave(p, d)
  BY DEF Throw
<1>3. RunsGoOn /\ NoNewOwner /\ run'[p][d].phase = "idle"
  BY <1>1, <1>2, LeaveStep
<1>4. PICK r \in Routes : r = run[p][d].route
  BY <1>1, At
<1>5. DestOf(r) = d /\ job[r] \in Job /\ TablesTyped
  BY <1>1, <1>4, At DEF RunsFit, RunFits
<1>6. EntriesGoOn /\ EntriesFit' /\ \A s \in Routes : TableStep(s)
  <2>1. CASE HoldsClaim(p, r)
    <3>1. job' = [job EXCEPT ![r] = Failed(job[r])] /\ entry' = Move(entry, r, "claimed", "pending")
      BY <1>4, <1>5, <2>1 DEF Throw
    <3>2. job'[r] = Failed(job[r]) /\ \A s \in Routes : s # r => job'[s] = job[s]
      BY <1>5, <3>1 DEF TablesTyped
    <3>3. /\ Open(r)' = Open(r) /\ EntriesGoOn
          /\ \A e \in Entries : RouteOf[e] # r => entry'[e] = entry[e]
          /\ \A e \in Entries : RouteOf[e] = r => entry'[e] = IF entry[e] = "claimed" THEN "pending" ELSE entry[e]
      BY <1>5, <3>1, GivenBack
    <3>4. EntriesFit'
      BY <1>1, <3>3 DEF EntriesFit
    <3>5. job'[r].status \in {"scheduled", "failed"} /\ job'[r].key = job[r].key /\ job[r].status # "absent"
      BY <1>5, <2>1, <3>2, FailedTyped DEF HoldsClaim
    <3>6. \A q \in Runtimes : HoldsClaim(q, r) => q = p
      BY <2>1 DEF HoldsClaim
    <3>7. TableStep(r)
      BY <1>3, <1>5, <3>3, <3>5, <3>6, ReleasedStep
    <3>8. ASSUME NEW s \in Routes, s # r PROVE TableStep(s)
      BY <1>1, <3>2, <3>3, <3>8, UntouchedStep
    <3>. QED BY <3>3, <3>4, <3>7, <3>8
  <2>2. CASE ~HoldsClaim(p, r)
    <3>1. job' = job /\ entry' = entry
      BY <1>4, <2>2 DEF Throw
    <3>2. ASSUME NEW s \in Routes PROVE TableStep(s)
      BY <1>1, <3>1, UntouchedStep
    <3>. QED BY <1>1, <3>1, <3>2 DEF EntriesGoOn, EntriesFit
  <2>. QED BY <2>1, <2>2
<1>7. RoutesGoOn
  BY DEF RoutesGoOn
<1>. QED BY <1>3, <1>6, <1>7 DEF Quiet

LEMMA NextChunkStep ==
  ASSUME RunsTyped, NEW p \in Runtimes, NEW d \in Destinations, NEW x \in Execution, NEW n \in 0 .. NumChunks,
         NextChunk(p, d, x, n)
  PROVE  LET y == run'[p][d] IN
         /\ RunsTyped' /\ y.route = x.route /\ y.key = x.key /\ y.content = x.content
         /\ n >= NumChunks => y.phase = "complete"
         /\ n < NumChunks => y.phase = "publish" /\ y.chunk = n + 1
         /\ \A q \in Runtimes, b \in Destinations : q # p \/ b # d => run'[q][b] = run[q][b]
<1>1. n \in Nat /\ NumChunks \in Nat
  BY Numbers
<1>2. CASE n >= NumChunks
  <2> DEFINE y == [x EXCEPT !.phase = "complete"]
  <2>1. y \in Execution /\ y.route = x.route /\ y.key = x.key /\ y.content = x.content /\ y.phase = "complete"
    BY DEF Execution, Phases
  <2>2. SetRun(p, d, y)
    BY <1>2 DEF NextChunk
  <2> HIDE DEF y
  <2>3. /\ RunsTyped' /\ run'[p][d] = y
        /\ \A q \in Runtimes, b \in Destinations : q # p \/ b # d => run'[q][b] = run[q][b]
    BY <2>1, <2>2, SetRunTyped
  <2>. QED BY <1>1, <1>2, <2>1, <2>3
<1>3. CASE ~(n >= NumChunks)
  <2> DEFINE m == n + 1
             y == [x EXCEPT !.phase = "publish", !.chunk = m]
  <2>0. m \in Chunks
    BY <1>1, <1>3 DEF Chunks
  <2>2. SetRun(p, d, y)
    BY <1>3 DEF NextChunk
  <2>4. m = n + 1
    OBVIOUS
  <2> HIDE DEF m
  <2>1. y \in Execution /\ y.route = x.route /\ y.key = x.key /\ y.content = x.content /\ y.phase = "publish" /\ y.chunk = m
    BY <2>0 DEF Execution, Phases
  <2> HIDE DEF y
  <2>3. /\ RunsTyped' /\ run'[p][d] = y
        /\ \A q \in Runtimes, b \in Destinations : q # p \/ b # d => run'[q][b] = run[q][b]
    BY <2>1, <2>2, SetRunTyped
  <2>. QED BY <1>3, <2>1, <2>3, <2>4
<1>. QED BY <1>2, <1>3

\* A plan of a run is replaced.
SetPlan(r, k, v) == plan' = [plan EXCEPT ![r] = [plan[r] EXCEPT ![k] = v]]

LEMMA SetPlanTyped ==
  ASSUME PlansTyped, NEW r \in Routes, NEW k \in Runs, NEW v \in Plan, SetPlan(r, k, v)
  PROVE  /\ PlansTyped' /\ plan'[r][k] = v
         /\ \A s \in Routes, j \in Runs : s # r \/ j # k => plan'[s][j] = plan[s][j]
<1>1. plan' = [plan EXCEPT ![r] = [plan[r] EXCEPT ![k] = v]]
  BY DEF SetPlan
<1>2. [plan[r] EXCEPT ![k] = v] \in [Runs -> Plan]
  BY DEF PlansTyped
<1>3. PlansTyped'
  BY <1>1, <1>2 DEF PlansTyped
<1>4. plan'[r] = [plan[r] EXCEPT ![k] = v] /\ \A s \in Routes : s # r => plan'[s] = plan[s]
  BY <1>1 DEF PlansTyped
<1>5. plan'[r][k] = v /\ \A j \in Runs : j # k => plan'[r][j] = plan[r][j]
  BY <1>4 DEF PlansTyped
<1>. QED BY <1>3, <1>4, <1>5

\* The plan a run goes by from now on.
PlanOf(r, k, C) == IF plan[r][k].content = C THEN plan[r][k] ELSE [content |-> C, done |-> 0]

LEMMA PlanForStep ==
  ASSUME PlansTyped, NEW r \in Routes, NEW k \in Runs, NEW C \in SUBSET Entries, plan' = PlanFor(r, k, C)
  PROVE  /\ PlansTyped' /\ plan'[r][k] = PlanOf(r, k, C) /\ plan'[r][k].content = C
         /\ \A s \in Routes, j \in Runs : s # r \/ j # k => plan'[s][j] = plan[s][j]
<1>1. plan[r][k] \in Plan
  BY DEF PlansTyped
<1>2. [content |-> C, done |-> 0] \in Plan
  BY Numbers DEF Plan
<1>3. PlanOf(r, k, C) \in Plan /\ PlanOf(r, k, C).content = C
  BY <1>1, <1>2 DEF PlanOf
<1>5. PICK v : v = PlanOf(r, k, C)
  OBVIOUS
<1>4. SetPlan(r, k, v)
  BY <1>5 DEF PlanFor, PlanOf, SetPlan, PlansTyped
<1>. QED BY <1>3, <1>4, <1>5, SetPlanTyped

LEMMA TypesTogether ==
  ASSUME TablesTyped', PlansTyped', SentTyped', RunsTyped', RestTyped'
  PROVE  DigestTypeOK'
  BY DEF DigestTypeOK, TablesTyped, PlansTyped, SentTyped, RunsTyped, RestTyped, Statuses

LEMMA RestStays ==
  ASSUME RestTyped, LeaseTypeOK', UNCHANGED <<up, admin, spent>>
  PROVE  RestTyped'
  BY DEF RestTyped, admin

LEMMA PlansStayTyped == ASSUME PlansTyped, UNCHANGED plan PROVE PlansTyped'
  BY DEF PlansTyped
LEMMA SentStaysTyped == ASSUME SentTyped, UNCHANGED net PROVE SentTyped'
  BY DEF SentTyped, net
LEMMA TablesStayTyped == ASSUME TablesTyped, UNCHANGED <<job, entry>> PROVE TablesTyped'
  BY DEF TablesTyped
LEMMA RunsStayTyped == ASSUME RunsTyped, UNCHANGED run PROVE RunsTyped'
  BY DEF RunsTyped

LEMMA RecordTyped ==
  ASSUME NEW x \in Execution
  PROVE  ChunkRecord(x) \in Record
  BY DEF ChunkRecord, Execution, Record

LEMMA FailureTyping ==
  ASSUME DigestTypeOK, NEW p \in Runtimes, NEW d \in Destinations, SessionFails(p, d) \/ PublishFails(p, d)
  PROVE  DigestTypeOK'
<1>1. Throw(p, d) /\ UNCHANGED <<plan, net, up, admin, spent>>
  BY DEF SessionFails, PublishFails
<1>. QED BY <1>1, At, ThrowTyped, RestStays, PlansStayTyped, SentStaysTyped, TypesTogether

LEMMA SessionTyping ==
  ASSUME DigestTypeOK, NEW p \in Runtimes, NEW d \in Destinations, SessionOpens(p, d)
  PROVE  DigestTypeOK'
<1>1. PICK r, k, C : /\ r \in Routes /\ k \in Runs /\ C \in SUBSET Entries
                     /\ r = run[p][d].route /\ k = run[p][d].key /\ C = run[p][d].content
  BY At
<1>2. TablesTyped /\ PlansTyped /\ SentTyped /\ RunsTyped /\ RestTyped /\ LeaseTypeOK /\ run[p][d] \in Execution
  BY At DEF RestTyped
<1>3. UNCHANGED <<net, up, admin, spent>> /\ SentTyped'
  BY <1>2, SentStaysTyped DEF SessionOpens
<1>4. CASE Throw(p, d) /\ UNCHANGED plan
  BY <1>2, <1>3, <1>4, ThrowTyped, RestStays, PlansStayTyped, TypesTogether
<1>5. CASE plan' = PlanFor(r, k, C) /\ Throw(p, d)
  BY <1>1, <1>2, <1>3, <1>5, ThrowTyped, RestStays, PlanForStep, TypesTogether
<1>6. CASE plan' = PlanFor(r, k, C) /\ NextChunk(p, d, run[p][d], plan'[r][k].done) /\ UNCHANGED <<job, entry, lease>>
  <2>1. PlansTyped'
    BY Zenon, <1>1, <1>2, <1>6, PlanForStep
  <2>2. plan'[r][k] \in Plan
    BY <1>1, <2>1 DEF PlansTyped
  <2>3. PICK n \in 0 .. NumChunks : n = plan'[r][k].done
    BY <2>2 DEF Plan
  <2>4. PICK x \in Execution : x = run[p][d]
    BY <1>2
  <2>5. RunsTyped'
    BY <1>2, <1>6, <2>3, <2>4, NextChunkStep
  <2>6. LeaseTypeOK' /\ TablesTyped'
    BY <1>2, <1>6, LeaseStays, TablesStayTyped
  <2>. QED BY <1>2, <1>3, <2>1, <2>5, <2>6, RestStays, TypesTogether
<1>. QED BY <1>1, <1>4, <1>5, <1>6 DEF SessionOpens

LEMMA PublishTyping ==
  ASSUME DigestTypeOK, NEW p \in Runtimes, NEW d \in Destinations, PublishChunk(p, d)
  PROVE  DigestTypeOK'
<1>1. TablesTyped /\ PlansTyped /\ SentTyped /\ RunsTyped /\ RestTyped /\ LeaseTypeOK /\ run[p][d] \in Execution
  BY At DEF RestTyped
<1>2. PlansTyped' /\ UNCHANGED <<feed, up, admin, spent>>
  BY <1>1, PlansStayTyped DEF PublishChunk
<1>3. CASE Throw(p, d) /\ UNCHANGED wire
  <2>1. SentTyped'
    BY <1>1, <1>2, <1>3 DEF SentTyped
  <2>. QED BY <1>1, <1>2, <1>3, <2>1, ThrowTyped, RestStays, TypesTogether
<1>4. CASE wire' = wire \cup {ChunkRecord(run[p][d])} /\ SetRun(p, d, [run[p][d] EXCEPT !.phase = "sent"]) /\ UNCHANGED <<job, entry, lease>>
  <2>1. SentTyped'
    BY <1>1, <1>2, <1>4, RecordTyped DEF SentTyped
  <2>2. [run[p][d] EXCEPT !.phase = "sent"] \in Execution
    BY <1>1 DEF Execution, Phases
  <2>3. RunsTyped'
    BY <1>1, <1>4, <2>2, SetRunTyped
  <2>. QED BY <1>1, <1>2, <1>4, <2>1, <2>3, LeaseStays, TablesStayTyped, RestStays, TypesTogether
<1>. QED BY <1>3, <1>4 DEF PublishChunk

\* The checkpoint of a chunk.
Checkpoint(r, k, n) == plan' = [plan EXCEPT ![r][k].done = n]

LEMMA CheckpointTyped ==
  ASSUME PlansTyped, NEW r \in Routes, NEW k \in Runs, NEW n \in 0 .. NumChunks, Checkpoint(r, k, n)
  PROVE  /\ PlansTyped' /\ plan'[r][k].done = n /\ plan'[r][k].content = plan[r][k].content
         /\ \A s \in Routes, j \in Runs : s # r \/ j # k => plan'[s][j] = plan[s][j]
<1>1. plan[r][k] \in Plan
  BY DEF PlansTyped
<1>5. PICK v : v = [plan[r][k] EXCEPT !.done = n]
  OBVIOUS
<1>2. v \in Plan /\ v.done = n /\ v.content = plan[r][k].content
  BY <1>1, <1>5 DEF Plan
<1>3. SetPlan(r, k, v)
  BY <1>5 DEF Checkpoint, SetPlan, PlansTyped
<1>. QED BY <1>2, <1>3, SetPlanTyped

LEMMA RecordTyping ==
  ASSUME DigestTypeOK, NEW p \in Runtimes, NEW d \in Destinations, RecordChunk(p, d)
  PROVE  DigestTypeOK'
<1>1. TablesTyped /\ PlansTyped /\ SentTyped /\ RunsTyped /\ RestTyped /\ LeaseTypeOK /\ run[p][d] \in Execution
  BY At DEF RestTyped
<1>2. PICK r, k, c : /\ r \in Routes /\ k \in Runs /\ c \in Chunks
                     /\ r = run[p][d].route /\ k = run[p][d].key /\ c = run[p][d].chunk
  BY At
<1>3. PICK n : n = IF plan[r][k].done < c THEN c ELSE plan[r][k].done
  OBVIOUS
<1>4. n \in 0 .. NumChunks
  <2>1. plan[r][k].done \in 0 .. NumChunks
    BY <1>2, At
  <2>. QED BY Zenon, <1>2, <1>3, <2>1, LaterChunk
<1>5. SentTyped' /\ UNCHANGED <<net, up, admin, spent>>
  BY Zenon, <1>1, SentStaysTyped DEF RecordChunk
<1>6. CASE Throw(p, d) /\ UNCHANGED plan
  BY <1>1, <1>5, <1>6, ThrowTyped, RestStays, PlansStayTyped, TypesTogether
<1>7. CASE Checkpoint(r, k, n) /\ Throw(p, d)
  BY <1>1, <1>2, <1>4, <1>5, <1>7, ThrowTyped, RestStays, CheckpointTyped, TypesTogether
<1>8. CASE Checkpoint(r, k, n) /\ NextChunk(p, d, run[p][d], n) /\ UNCHANGED <<job, entry, lease>>
  <2>1. PlansTyped'
    BY <1>1, <1>2, <1>4, <1>8, CheckpointTyped
  <2>2. PICK x \in Execution : x = run[p][d]
    BY <1>1
  <2>3. RunsTyped'
    BY <1>1, <1>4, <1>8, <2>2, NextChunkStep
  <2>. QED BY <1>1, <1>5, <1>8, <2>1, <2>3, LeaseStays, TablesStayTyped, RestStays, TypesTogether
<1>. QED BY Zenon, <1>2, <1>3, <1>6, <1>7, <1>8 DEF RecordChunk, Checkpoint

--------------------------------------------------------------------------------
(***************************************************************************)
(* Executions that fail.                                                   *)
(***************************************************************************)
LEMMA FailureStep ==
  ASSUME DigestInv, NEW p \in Runtimes, NEW d \in Destinations, SessionFails(p, d) \/ PublishFails(p, d)
  PROVE  Quiet
<1>1. DigestTypeOK /\ PlansFit
  BY DEF DigestInv, ShapesFit
<1>2. DigestTypeOK'
  BY <1>1, FailureTyping
<1>3. Throw(p, d) /\ run[p][d].phase # "idle" /\ UNCHANGED <<plan, wire, feed, configured, meddled>>
  BY DEF SessionFails, PublishFails, net, admin
<1>4. PlansGoOn /\ \A r \in Routes, k \in Runs : configured[r] = "new" => plan'[r][k] = NoPlan
  BY <1>1, <1>3 DEF PlansGoOn, PlansFit
<1>. QED BY <1>2, <1>3, <1>4, ThrowStep

\* initialize() replaces only plans nothing of which is done.
LEMMA PlanForGoesOn ==
  ASSUME DigestInv, NEW p \in Runtimes, NEW d \in Destinations, run[p][d].phase # "idle",
         NEW r \in Routes, NEW k \in Runs, NEW C, r = run[p][d].route, k = run[p][d].key, C = run[p][d].content,
         ~IsMismatch(r, k, C), plan' = PlanFor(r, k, C)
  PROVE  PlansGoOn /\ \A s \in Routes, j \in Runs : configured[s] = "new" => plan'[s][j] = NoPlan
<1>1. DigestTypeOK /\ PlansFit /\ RunsFit /\ PlansTyped /\ C \in SUBSET Entries
  BY At DEF DigestInv, ShapesFit
<1>2. DestOf(r) = d /\ configured[r] # "new" /\ C # {}
  BY <1>1 DEF RunsFit, RunFits
<1>3. IsWorkingOn(p, r, k) /\ run[p][DestOf(r)].content = C
  BY <1>2 DEF IsWorkingOn
<1>4. /\ plan'[r][k] = PlanOf(r, k, C)
      /\ \A s \in Routes, j \in Runs : s # r \/ j # k => plan'[s][j] = plan[s][j]
  BY ZenonT(30), <1>1, PlanForStep
<1>5. plan'[r][k] = plan[r][k] \/ (plan[r][k].done = 0 /\ plan'[r][k].done = 0 /\ plan'[r][k].content = C)
  <2>1. CASE plan[r][k].content = C
    BY Zenon, <1>4, <2>1 DEF PlanOf
  <2>2. CASE plan[r][k].content # C
    <3>5. plan'[r][k] = [content |-> C, done |-> 0]
      BY <1>4, <2>2 DEF PlanOf
    <3>1. plan'[r][k].done = 0 /\ plan'[r][k].content = C
      BY <3>5
    <3>2. plan[r][k].content = {} => plan[r][k].done = 0
      BY <1>1 DEF PlansFit
    <3>3. plan[r][k].done \in 0 .. NumChunks
      BY <1>1, At
    <3>6. plan[r][k].content \in {{}, C} \/ ~(plan[r][k].done > 0)
      BY Zenon DEF IsMismatch
    <3>4. plan[r][k].done = 0
      <4>1. CASE plan[r][k].content = {}
        BY <3>2, <4>1
      <4>2. CASE plan[r][k].content # {}
        <5>1. ~(plan[r][k].done > 0)
          BY <2>2, <3>6, <4>2, Zenon
        <5>2. PICK n \in 0 .. NumChunks : n = plan[r][k].done
          BY <3>3
        <5>. QED BY Zenon, <5>1, <5>2, NothingDone
      <4>. QED BY <4>1, <4>2
    <3>. QED BY <3>1, <3>4
  <2>. QED BY Zenon, <2>1, <2>2
<1>6. PlansGoOn
  <2> SUFFICES ASSUME NEW s \in Routes, NEW j \in Runs
               PROVE  \/ plan'[s][j] = plan[s][j]
                      \/ /\ plan[s][j].done = 0 /\ plan'[s][j].done = 0 /\ plan'[s][j].content # {}
                         /\ \E q \in Runtimes : IsWorkingOn(q, s, j) /\ plan'[s][j].content = run[q][DestOf(s)].content
    BY Zenon DEF PlansGoOn
  <2>1. CASE s = r /\ j = k
    BY Zenon, <1>2, <1>3, <1>5, <2>1
  <2>2. CASE s # r \/ j # k
    BY Zenon, <1>4, <2>2
  <2>. QED BY Zenon, <2>1, <2>2
<1>7. \A s \in Routes, j \in Runs : configured[s] = "new" => plan'[s][j] = NoPlan
  <2> SUFFICES ASSUME NEW s \in Routes, NEW j \in Runs, configured[s] = "new" PROVE plan'[s][j] = NoPlan
    BY Zenon
  <2>1. s # r
    BY Zenon, <1>2
  <2>2. plan[s][j] = NoPlan
    BY Zenon, <1>1 DEF PlansFit
  <2>. QED BY Zenon, <1>4, <2>1, <2>2
<1>. QED BY <1>6, <1>7

LEMMA SessionIsLostStep ==
  ASSUME DigestInv, NEW p \in Runtimes, NEW d \in Destinations, SessionOpens(p, d), Throw(p, d)
  PROVE  Quiet
<1>1. DigestTypeOK /\ PlansFit
  BY DEF DigestInv, ShapesFit
<1>2. DigestTypeOK'
  BY <1>1, SessionTyping
<1>3. run[p][d].phase # "idle" /\ UNCHANGED <<wire, feed, configured, meddled>>
  BY DEF SessionOpens, net, admin
<1>4. PICK r, k, C : /\ r \in Routes /\ k \in Runs /\ C \in SUBSET Entries
                     /\ r = run[p][d].route /\ k = run[p][d].key /\ C = run[p][d].content
  BY <1>1, At
<1>5. CASE UNCHANGED plan
  <2>1. PlansGoOn /\ \A s \in Routes, j \in Runs : configured[s] = "new" => plan'[s][j] = NoPlan
    BY <1>1, <1>5 DEF PlansGoOn, PlansFit
  <2>. QED BY <1>2, <1>3, <2>1, ThrowStep
<1>6. CASE ~IsMismatch(r, k, C) /\ plan' = PlanFor(r, k, C)
  <2>1. PlansGoOn /\ \A s \in Routes, j \in Runs : configured[s] = "new" => plan'[s][j] = NoPlan
    BY <1>3, <1>4, <1>6, PlanForGoesOn
  <2>. QED BY <1>2, <1>3, <2>1, ThrowStep
<1>. QED BY <1>4, <1>5, <1>6 DEF SessionOpens

LEMMA PublishIsLostStep ==
  ASSUME DigestInv, NEW p \in Runtimes, NEW d \in Destinations, PublishChunk(p, d), ~IsActive(p, d)
  PROVE  Quiet
<1>1. DigestTypeOK /\ PlansFit
  BY DEF DigestInv, ShapesFit
<1>2. DigestTypeOK'
  BY <1>1, PublishTyping
<1>3. run[p][d].phase # "idle" /\ Throw(p, d) /\ UNCHANGED <<plan, wire, feed, configured, meddled>>
  BY DEF PublishChunk, admin
<1>4. PlansGoOn /\ \A s \in Routes, j \in Runs : configured[s] = "new" => plan'[s][j] = NoPlan
  BY <1>1, <1>3 DEF PlansGoOn, PlansFit
<1>. QED BY <1>2, <1>3, <1>4, ThrowStep

LEMMA RecordIsLostStep ==
  ASSUME DigestInv, NEW p \in Runtimes, NEW d \in Destinations, RecordChunk(p, d), Throw(p, d), UNCHANGED plan
  PROVE  Quiet
<1>1. DigestTypeOK /\ PlansFit
  BY DEF DigestInv, ShapesFit
<1>2. DigestTypeOK'
  BY <1>1, RecordTyping
<1>3. run[p][d].phase # "idle" /\ UNCHANGED <<wire, feed, configured, meddled>>
  BY Zenon DEF RecordChunk, net, admin
<1>4. PlansGoOn /\ \A s \in Routes, j \in Runs : configured[s] = "new" => plan'[s][j] = NoPlan
  BY <1>1 DEF PlansGoOn, PlansFit
<1>. QED BY <1>2, <1>3, <1>4, ThrowStep
--------------------------------------------------------------------------------
(***************************************************************************)
(* Executions that go on, and requests that arrive.                        *)
(***************************************************************************)
\* Who owns the destination publishes what it claimed.
IsPublishing(q) ==
  \E p \in Runtimes : LET x == run[p][DestOf(q.route)] IN
    /\ Owns(p, DestOf(q.route)) /\ IsWorkingOn(p, q.route, q.key) /\ q.content = x.content
    /\ plan'[q.route][q.key] # NoPlan

SameClaim(x, y) == y.phase # "idle" => x.phase # "idle" /\ y.route = x.route /\ y.key = x.key /\ y.content = x.content

Works ==
  /\ DigestTypeOK' /\ UNCHANGED <<entry, job, lease, configured, meddled>> /\ feed \subseteq feed'
  /\ \A p \in Runtimes, d \in Destinations : SameClaim(run[p][d], run'[p][d])
  /\ \A p \in Runtimes, d \in Destinations :
       run'[p][d].phase \notin {"idle", "session"} => plan'[run'[p][d].route][run'[p][d].key] # NoPlan
  /\ \A r \in Routes, k \in Runs :
       /\ plan[r][k] # NoPlan => plan'[r][k] # NoPlan
       /\ plan'[r][k].content = {} => plan'[r][k].done = 0
       /\ configured[r] = "new" => plan'[r][k] = NoPlan
       /\ \/ plan'[r][k].content \subseteq plan[r][k].content
          \/ \E p \in Runtimes : IsWorkingOn(p, r, k) /\ plan'[r][k].content = run[p][DestOf(r)].content
  /\ \A q \in Requested' : q \in Requested \/ IsPublishing(q)

LEMMA WorksIsSteady ==
  ASSUME DigestTypeOK, Works
  PROVE  Steady
<1>1. \A r \in Routes, k \in Runs :
       \/ plan'[r][k].content \subseteq plan[r][k].content
       \/ \E p \in Runtimes : IsWorkingOn(p, r, k) /\ plan'[r][k].content = run[p][DestOf(r)].content
  BY DEF Works
<1>2. \A q \in Requested' :
       \/ q \in Requested
       \/ \E p \in Runtimes : IsWorkingOn(p, q.route, q.key) /\ q.content = run[p][DestOf(q.route)].content
  BY DEF Works, IsPublishing
<1>3. ASSUME NEW p \in Runtimes, NEW r \in Routes, NEW k \in Runs, IsWorkingOn(p, r, k)'
      PROVE  IsWorkingOn(p, r, k) /\ run'[p][DestOf(r)].content = run[p][DestOf(r)].content
  <2>1. DestOf(r) \in Destinations
    BY At DEF DestOf
  <2>2. SameClaim(run[p][DestOf(r)], run'[p][DestOf(r)])
    BY <2>1 DEF Works
  <2>. QED BY <1>3, <2>2 DEF IsWorkingOn, SameClaim, DestOf
<1>. QED BY <1>1, <1>2, <1>3 DEF Steady

\* Who publishes holds the claim.
LEMMA PublisherHolds ==
  ASSUME RunsFit, OwnersFit, NEW r \in Routes, NEW p \in Runtimes, NEW k, Owns(p, DestOf(r)), IsWorkingOn(p, r, k),
         DigestTypeOK
  PROVE  IsHolder(p, r)
<1>1. DestOf(r) \in Destinations
  BY At DEF DestOf
<1>. QED BY <1>1 DEF OwnersFit, IsHolder, IsWorkingOn

LEMMA WorksShapes ==
  ASSUME DigestInv, Works
  PROVE  ShapesFit'
<1>1. DigestTypeOK /\ DigestTypeOK' /\ RunsFit /\ RequestsFit /\ PlansFit /\ EntriesFit
  BY DEF DigestInv, ShapesFit, Works
<1>2. RunsFit'
  <2> SUFFICES ASSUME NEW p \in Runtimes, NEW d \in Destinations, run'[p][d].phase # "idle"
               PROVE  RunFits(run[p][d], d)'
    BY DEF RunsFit, RunFits
  <2>1. /\ run[p][d].phase # "idle" /\ run'[p][d].route = run[p][d].route
        /\ run'[p][d].content = run[p][d].content
        /\ run'[p][d].phase # "session" => plan'[run'[p][d].route][run'[p][d].key] # NoPlan
    BY DEF Works, SameClaim
  <2>2. RunFits(run[p][d], d)
    BY <1>1 DEF RunsFit
  <2>3. PICK s : s = run[p][d].route
    OBVIOUS
  <2>4. Known(s)' = Known(s) /\ configured' = configured
    BY DEF Known, Works
  <2>. QED BY <2>1, <2>2, <2>3, <2>4 DEF RunFits, DestOf, Known
<1>3. RequestsFit'
  <2> SUFFICES ASSUME NEW q \in Requested'
               PROVE  /\ plan'[q.route][q.key] # NoPlan /\ configured[q.route] # "new" /\ q.content \subseteq Known(q.route)
    BY DEF RequestsFit, Works, Known
  <2>0. q.route \in Routes /\ q.key \in Runs
    BY <1>1 DEF DigestTypeOK, Requested, Record
  <2>1. CASE q \in Requested
    BY <1>1, <2>0, <2>1 DEF RequestsFit, Works
  <2>2. CASE IsPublishing(q)
    <3>1. PICK p \in Runtimes : /\ IsWorkingOn(p, q.route, q.key) /\ q.content = run[p][DestOf(q.route)].content
                                /\ plan'[q.route][q.key] # NoPlan
      BY <2>2 DEF IsPublishing
    <3>2. DestOf(q.route) \in Destinations
      BY <1>1, <2>0, At DEF DestOf
    <3>. QED BY <1>1, <3>1, <3>2 DEF RunsFit, RunFits, IsWorkingOn
  <2>. QED BY <2>1, <2>2 DEF Works
<1>4. PlansFit'
  BY DEF Works, PlansFit
<1>5. EntriesFit'
  BY <1>1 DEF Works, EntriesFit
<1>. QED BY <1>2, <1>3, <1>4, <1>5 DEF ShapesFit

LEMMA WorksClaims ==
  ASSUME DigestInv, Works
  PROVE  ClaimsFit'
<1>1. /\ DigestTypeOK /\ DigestTypeOK' /\ RunsFit /\ RequestsFit /\ OwnersFit /\ HoldersFit /\ NextsFit /\ AreSettled
      /\ Steady
  BY WorksIsSteady DEF DigestInv, ShapesFit, ClaimsFit, Works
<1>2. OwnersFit'
  BY <1>1 DEF Works, SameClaim, OwnersFit, Owns, HoldsClaim
<1>3. HoldersFit'
  <2> SUFFICES ASSUME NEW p \in Runtimes, NEW r \in Routes, IsHolder(p, r)'
               PROVE  HolderFits(p, r)'
    BY DEF HoldersFit, HolderFits
  <2>1. DestOf(r) \in Destinations
    BY <1>1, At DEF DestOf
  <2>2. SameClaim(run[p][DestOf(r)], run'[p][DestOf(r)])
    BY <2>1 DEF Works
  <2>3. /\ IsHolder(p, r) /\ run'[p][DestOf(r)].key = run[p][DestOf(r)].key
        /\ run'[p][DestOf(r)].content = run[p][DestOf(r)].content
    BY <2>2 DEF IsHolder, HoldsClaim, SameClaim, Works, DestOf
  <2>4. HolderFits(p, r)
    BY <1>1 DEF HoldersFit
  <2>5. PICK k, C : k \in Runs /\ k = run[p][DestOf(r)].key /\ C = run[p][DestOf(r)].content
    BY <1>1, <2>1, At
  <2>6. Bounded(r, k, C)'
    BY <1>1, <2>3, <2>4, <2>5, BoundedStays DEF HolderFits
  <2>7. Bounded(r, run[p][DestOf(r)].key, run[p][DestOf(r)].content)'
    BY <2>3, <2>5, <2>6 DEF Bounded, DestOf
  <2>8. /\ r \notin meddled => run'[p][DestOf(r)].key = job[r].key
        /\ r \notin meddled /\ configured[r] = "live" => \A e \in run'[p][DestOf(r)].content : entry[e] = "claimed"
    BY <2>3, <2>4 DEF HolderFits
  <2>. QED BY <2>7, <2>8 DEF HolderFits, Works, DestOf
<1>4. NextsFit'
  <2> SUFFICES ASSUME NEW r \in Routes, configured[r] = "live", job[r].status # "absent"
               PROVE  Bounded(r, job[r].key, Upcoming(r))'
    BY DEF NextsFit, NextFits, Works
  <2>0. job[r] \in Job
    BY <1>1, At
  <2>1. PICK k, C : k \in Runs /\ k = job[r].key /\ C = Upcoming(r)
    BY <2>0 DEF Job
  <2>2. Bounded(r, k, C)'
    BY <1>1, <2>1, BoundedStays DEF NextsFit, NextFits
  <2>3. Open(r)' = Open(r) /\ job' = job
    BY DEF Open, Works
  <2>4. Upcoming(r)' = C
    BY <2>1, <2>3 DEF Upcoming
  <2>. QED BY <2>1, <2>2, <2>3, <2>4 DEF Bounded
<1>5. AreSettled'
  <2> SUFFICES ASSUME NEW r \in Routes, configured[r] = "live", r \notin meddled, NEW q \in Requested', q.route = r
               PROVE  (job[r].status # "absent" /\ job[r].key = q.key) \/ \A e \in q.content : entry[e] = "delivered"
    BY DEF AreSettled, IsSettled, Works
  <2>1. CASE q \in Requested
    BY <1>1, <2>1 DEF AreSettled, IsSettled
  <2>2. CASE IsPublishing(q)
    <3>1. PICK p \in Runtimes : Owns(p, DestOf(r)) /\ IsWorkingOn(p, r, q.key)
      BY <2>2 DEF IsPublishing
    <3>2. IsHolder(p, r)
      BY <1>1, <3>1, PublisherHolds
    <3>3. run[p][DestOf(r)].key = job[r].key
      BY <1>1, <3>2 DEF HoldersFit, HolderFits
    <3>. QED BY <3>1, <3>2, <3>3 DEF IsHolder, HoldsClaim, IsWorkingOn
  <2>. QED BY <2>1, <2>2 DEF Works
<1>. QED BY <1>2, <1>3, <1>4, <1>5 DEF ClaimsFit

LEMMA WorksApart ==
  ASSUME DigestInv, Works
  PROVE  AreApart' /\ OwnersApart' /\ DeliveredFit'
<1>1. DigestTypeOK /\ DigestTypeOK' /\ RunsFit /\ AreApart /\ OwnersApart /\ DeliveredFit
  BY DEF DigestInv, ShapesFit, ThreadsFit, Works
<1>2. ASSUME NEW q \in Requested, NEW s \in Requested', IsPublishing(s), q.route = s.route, q.route \notin meddled, q.key # s.key
      PROVE  q.content \cap s.content = {}
  <2>1. PICK p \in Runtimes : /\ Owns(p, DestOf(s.route)) /\ IsWorkingOn(p, s.route, s.key)
                              /\ s.content = run[p][DestOf(s.route)].content
    BY <1>2 DEF IsPublishing
  <2>2. DestOf(s.route) \in Destinations
    BY <1>1, At DEF DigestTypeOK, Requested, Record, DestOf
  <2>. QED BY <1>1, <1>2, <2>1, <2>2 DEF OwnersApart, IsWorkingOn
<1>3. ASSUME NEW q \in Requested', NEW p \in Runtimes, NEW r \in Routes, q.route = r, IsPublishing(q),
             Owns(p, DestOf(r)), run[p][DestOf(r)].route = r, run[p][DestOf(r)].phase # "idle"
      PROVE  q.key = run[p][DestOf(r)].key /\ q.content = run[p][DestOf(r)].content
  BY <1>3 DEF IsPublishing, Owns, IsWorkingOn
<1>4. AreApart'
  <2> SUFFICES ASSUME NEW q \in Requested', NEW s \in Requested', q.route = s.route, q.route \notin meddled, q.key # s.key
               PROVE  q.content \cap s.content = {}
    BY DEF AreApart, Works
  <2>1. CASE q \in Requested /\ s \in Requested
    BY <1>1, <2>1 DEF AreApart
  <2>2. CASE q \in Requested /\ IsPublishing(s)
    BY <1>2, <2>2
  <2>3. CASE s \in Requested /\ IsPublishing(q)
    BY <1>2, <2>3
  <2>4. CASE IsPublishing(q) /\ IsPublishing(s)
    BY <2>4 DEF IsPublishing, Owns, IsWorkingOn
  <2>. QED BY <2>1, <2>2, <2>3, <2>4 DEF Works
<1>5. OwnersApart'
  <2> SUFFICES ASSUME NEW p \in Runtimes, NEW d \in Destinations, Owns(p, d), run'[p][d].phase # "idle",
                      run'[p][d].route \notin meddled, NEW q \in Requested', q.route = run'[p][d].route,
                      q.key # run'[p][d].key
               PROVE  q.content \cap run'[p][d].content = {}
    BY DEF OwnersApart, Works, Owns
  <2>1. /\ run[p][d].phase # "idle" /\ run'[p][d].route = run[p][d].route /\ run'[p][d].key = run[p][d].key
        /\ run'[p][d].content = run[p][d].content
    BY DEF Works, SameClaim
  <2>2. PICK r \in Routes : r = run[p][d].route
    BY <1>1, At
  <2>3. DestOf(r) = d
    BY <1>1, <2>1, <2>2 DEF RunsFit, RunFits
  <2>4. CASE q \in Requested
    BY <1>1, <2>1, <2>4 DEF OwnersApart
  <2>5. CASE IsPublishing(q)
    BY <1>3, <2>1, <2>2, <2>3, <2>5
  <2>. QED BY <2>4, <2>5 DEF Works
<1>6. DeliveredFit'
  BY <1>1 DEF DeliveredFit, IsPublished, Works
<1>. QED BY <1>4, <1>5, <1>6

\* What is on the PDS stays there.
LEMMA ThereForGood ==
  ASSUME feed \subseteq feed', NEW r, NEW k, NEW c, NEW C, IsThereWith(r, k, c, C)
  PROVE  IsThereWith(r, k, c, C)'
  BY DEF IsThereWith

LEMMA WorksKeepsAll ==
  ASSUME DigestInv, Works, DoneIsThere', PassedIsThere', OwnersGoOn'
  PROVE  DigestInv'
  BY WorksShapes, WorksClaims, WorksApart DEF DigestInv, ThreadsFit, Works

\* The executions and the plans are as they were.
LEMMA RequestStep ==
  ASSUME DigestInv, NEW q \in wire, RequestArrives(q) \/ RequestIsLost(q)
  PROVE  DigestInv'
<1>1. DigestTypeOK /\ RunsFit /\ PlansFit /\ DoneIsThere /\ PassedIsThere /\ OwnersGoOn
  BY DEF DigestInv, ShapesFit, ThreadsFit
<1>2. UNCHANGED <<lease, entry, job, plan, run, up, configured, meddled, spent>> /\ feed \subseteq feed'
  BY DEF RequestArrives, RequestIsLost, rows, admin
<1>3. wire' \subseteq wire /\ feed' \subseteq feed \cup {q}
  BY DEF RequestArrives, RequestIsLost
<1>4. DigestTypeOK'
  BY <1>1, <1>2, <1>3 DEF DigestTypeOK, LeaseTypeOK
<1>5. \A p \in Runtimes, d \in Destinations : run[p][d].route \in Routes /\ run[p][d].key \in Runs
  BY <1>1, At
<1>6. Works
  <2>1. \A s \in Requested' : s \in Requested
    BY <1>3 DEF Requested
  <2>2. \A p \in Runtimes, d \in Destinations : SameClaim(run[p][d], run'[p][d])
    BY <1>2 DEF SameClaim
  <2>3. \A p \in Runtimes, d \in Destinations :
          run'[p][d].phase \notin {"idle", "session"} => plan'[run'[p][d].route][run'[p][d].key] # NoPlan
    BY <1>1, <1>2 DEF RunsFit, RunFits
  <2>. QED BY <1>1, <1>2, <1>4, <2>1, <2>2, <2>3 DEF Works, PlansFit
<1>7. DoneIsThere'
  BY <1>1, <1>2 DEF DoneIsThere, IsThereWith
<1>8. PassedIsThere'
  BY <1>1, <1>2 DEF PassedIsThere, PassedFit, IsThereWith
<1>9. OwnersGoOn'
  BY <1>1, <1>2 DEF OwnersGoOn, Owns
<1>. QED BY <1>6, <1>7, <1>8, <1>9, WorksKeepsAll

\* The execution of p at d is the only one that its owner has of its route.
LEMMA OnlyOne ==
  ASSUME RunsFit, NEW p \in Runtimes, NEW d \in Destinations, NEW q \in Runtimes, NEW b \in Destinations,
         run[p][d].phase # "idle", run[q][b].phase # "idle", run[p][d].route = run[q][b].route, Owns(p, d), Owns(q, b)
  PROVE  q = p /\ b = d
  BY DEF RunsFit, RunFits, Owns

LEMMA SessionGoesOnStep ==
  ASSUME DigestInv, NEW p \in Runtimes, NEW d \in Destinations, SessionOpens(p, d), IsActive(p, d),
         ~IsMismatch(run[p][d].route, run[p][d].key, run[p][d].content)
  PROVE  DigestInv'
<1>1. DigestTypeOK /\ RunsFit /\ PlansFit /\ DoneIsThere /\ PassedIsThere /\ OwnersGoOn /\ RunsTyped /\ PlansTyped
  BY At DEF DigestInv, ShapesFit, ThreadsFit
<1>2. DigestTypeOK'
  BY <1>1, SessionTyping
<1>3. PICK r, k, C : /\ r \in Routes /\ k \in Runs /\ C \in SUBSET Entries
                     /\ r = run[p][d].route /\ k = run[p][d].key /\ C = run[p][d].content
  BY <1>1, At
<1>4. /\ run[p][d].phase = "session" /\ UNCHANGED <<entry, job, lease, wire, feed, configured, meddled>> /\ Owns(p, d)
      /\ plan' = PlanFor(r, k, C) /\ ~IsMismatch(r, k, C) /\ NextChunk(p, d, run[p][d], plan'[r][k].done)
  BY Zenon, <1>3 DEF SessionOpens, net, admin, IsActive
<1>5. /\ DestOf(r) = d /\ IsWorkingOn(p, r, k) /\ run[p][DestOf(r)].content = C /\ C # {}
  BY Zenon, <1>1, <1>3, <1>4 DEF RunsFit, RunFits, IsWorkingOn
<1>6. PlansGoOn /\ \A s \in Routes, j \in Runs : configured[s] = "new" => plan'[s][j] = NoPlan
  BY Zenon, <1>3, <1>4, PlanForGoesOn
<1>7. /\ PlansTyped' /\ plan'[r][k].content = C
      /\ plan'[r][k] = PlanOf(r, k, C)
      /\ \A s \in Routes, j \in Runs : s # r \/ j # k => plan'[s][j] = plan[s][j]
  BY ZenonT(30), <1>1, <1>3, <1>4, PlanForStep
<1>8. PICK n \in 0 .. NumChunks : n = plan'[r][k].done
  <2>1. plan'[r][k] \in Plan
    BY <1>3, <1>7 DEF PlansTyped
  <2>. QED BY <2>1 DEF Plan
<1>9. PICK y : y = run'[p][d]
  OBVIOUS
<1>10. /\ y.route = r /\ y.key = k /\ y.content = C
       /\ n >= NumChunks => y.phase = "complete"
       /\ n < NumChunks => y.phase = "publish" /\ y.chunk = n + 1
       /\ \A q \in Runtimes, b \in Destinations : q # p \/ b # d => run'[q][b] = run[q][b]
  <2>1. PICK x \in Execution : x = run[p][d]
    BY <1>1, At
  <2>2. NextChunk(p, d, x, n)
    BY Zenon, <1>3, <1>4, <1>8, <2>1
  <2>. QED BY <1>1, <1>3, <1>9, <2>1, <2>2, NextChunkStep
<1>11. n \in Nat /\ NumChunks \in Nat /\ (n >= NumChunks \/ n < NumChunks)
  BY Numbers
<1>12. Works
  <2>1. \A q \in Runtimes, b \in Destinations : SameClaim(run[q][b], run'[q][b])
    <3> SUFFICES ASSUME NEW q \in Runtimes, NEW b \in Destinations PROVE SameClaim(run[q][b], run'[q][b])
      OBVIOUS
    <3>. QED BY Zenon, <1>3, <1>4, <1>9, <1>10 DEF SameClaim
  <2>2. \A s \in Routes, j \in Runs : plan[s][j] # NoPlan => plan'[s][j] # NoPlan
    BY <1>5, <1>6, NoPlanTyped DEF PlansGoOn
  <2>3. ASSUME NEW q \in Runtimes, NEW b \in Destinations, run'[q][b].phase \notin {"idle", "session"}
        PROVE  plan'[run'[q][b].route][run'[q][b].key] # NoPlan
    <3>1. CASE q = p /\ b = d
      BY <1>5, <1>7, <1>9, <1>10, <3>1, NoPlanTyped
    <3>2. CASE q # p \/ b # d
      <4>1. run'[q][b] = run[q][b] /\ run[q][b].route \in Routes /\ run[q][b].key \in Runs
        BY <1>1, <1>10, <3>2, At
      <4>2. plan[run[q][b].route][run[q][b].key] # NoPlan
        BY <1>1, <2>3, <4>1 DEF RunsFit, RunFits
      <4>. QED BY <2>2, <4>1, <4>2
    <3>. QED BY <3>1, <3>2
  <2>4. \A s \in Routes, j \in Runs : plan'[s][j].content = {} => plan'[s][j].done = 0
    BY <1>1, <1>6 DEF PlansGoOn, PlansFit
  <2>5. \A s \in Routes, j \in Runs :
          \/ plan'[s][j].content \subseteq plan[s][j].content
          \/ \E q \in Runtimes : IsWorkingOn(q, s, j) /\ plan'[s][j].content = run[q][DestOf(s)].content
    BY <1>6 DEF PlansGoOn
  <2>6. Requested' = Requested
    BY <1>4 DEF Requested
  <2>. QED BY <1>2, <1>4, <1>6, <2>1, <2>2, <2>3, <2>4, <2>5, <2>6 DEF Works
<1>17. ASSUME NEW s \in Routes, NEW j \in Runs, NEW c \in 1 .. plan'[s][j].done
       PROVE  IsThereWith(s, j, c, plan'[s][j].content)
  <2>1. plan'[s][j] = plan[s][j]
    BY <1>6 DEF PlansGoOn
  <2>. QED BY <1>1, <2>1 DEF DoneIsThere
<1>13. DoneIsThere'
  BY <1>4, <1>17 DEF DoneIsThere, IsThereWith
<1>14. ASSUME NEW c \in 1 .. n PROVE IsThereWith(r, k, c, C)
  BY <1>3, <1>7, <1>8, <1>17
<1>15. PassedIsThere'
  <2> SUFFICES ASSUME NEW q \in Runtimes, NEW b \in Destinations
               PROVE  PassedFit(run[q][b])'
    BY DEF PassedIsThere
  <2>1. CASE q = p /\ b = d
    <3>1. CASE n >= NumChunks
      <4>1. Chunks \subseteq 1 .. n
        BY <1>11, <3>1 DEF Chunks
      <4>2. y.phase = "complete" /\ \A c \in Chunks : IsThereWith(y.route, y.key, c, y.content)
        BY <1>10, <1>14, <3>1, <4>1
      <4>. QED BY <1>4, <1>9, <2>1, <4>2 DEF PassedFit, IsThereWith
    <3>2. CASE n < NumChunks
      <4>1. 1 .. y.chunk - 1 \subseteq 1 .. n
        BY <1>10, <1>11, <3>2
      <4>2. y.phase = "publish" /\ \A c \in 1 .. y.chunk - 1 : IsThereWith(y.route, y.key, c, y.content)
        BY <1>10, <1>14, <3>2, <4>1
      <4>. QED BY <1>4, <1>9, <2>1, <4>2 DEF PassedFit, IsThereWith
    <3>. QED BY <1>11, <3>1, <3>2
  <2>2. CASE q # p \/ b # d
    BY <1>1, <1>4, <1>10, <2>2 DEF PassedIsThere, PassedFit, IsThereWith
  <2>. QED BY <2>1, <2>2
<1>16. OwnersGoOn'
  <2> SUFFICES ASSUME NEW q \in Runtimes, NEW b \in Destinations, Owns(q, b), run'[q][b].phase \in {"publish", "sent"}
               PROVE  plan'[run'[q][b].route][run'[q][b].key].done = run'[q][b].chunk - 1
    BY <1>4 DEF OwnersGoOn, Owns
  <2>1. CASE q = p /\ b = d
    BY <1>8, <1>9, <1>10, <1>11, <2>1
  <2>2. CASE q # p \/ b # d
    <3>1. run'[q][b] = run[q][b] /\ run[q][b].route \in Routes /\ run[q][b].key \in Runs
      BY <1>1, <1>10, <2>2, At
    <3>2. run[q][b].route # r
      BY Zenon, <1>1, <1>3, <1>4, <2>2, <3>1, OnlyOne
    <3>3. plan'[run[q][b].route][run[q][b].key] = plan[run[q][b].route][run[q][b].key]
      BY <1>7, <3>1, <3>2
    <3>4. plan[run[q][b].route][run[q][b].key].done = run[q][b].chunk - 1
      BY <1>1, <3>1 DEF OwnersGoOn
    <3>. QED BY <3>1, <3>3, <3>4
  <2>. QED BY <2>1, <2>2
<1>. QED BY <1>12, <1>13, <1>15, <1>16, WorksKeepsAll

LEMMA PublishGoesOnStep ==
  ASSUME DigestInv, NEW p \in Runtimes, NEW d \in Destinations, PublishChunk(p, d), IsActive(p, d)
  PROVE  DigestInv'
<1>1. /\ DigestTypeOK /\ RunsFit /\ RequestsFit /\ PlansFit /\ DoneIsThere /\ PassedIsThere /\ OwnersGoOn /\ RunsTyped
  BY At DEF DigestInv, ShapesFit, ThreadsFit
<1>2. DigestTypeOK'
  BY <1>1, PublishTyping
<1>3. PICK r, k, C, x : /\ r \in Routes /\ k \in Runs /\ C \in SUBSET Entries /\ x \in Execution /\ x = run[p][d]
                        /\ r = x.route /\ k = x.key /\ C = x.content
  BY <1>1, At
<1>4. /\ x.phase = "publish" /\ UNCHANGED <<entry, job, plan, lease, feed, configured, meddled>> /\ Owns(p, d)
      /\ wire' = wire \cup {ChunkRecord(x)} /\ SetRun(p, d, [x EXCEPT !.phase = "sent"])
  BY <1>3 DEF PublishChunk, admin, IsActive
<1>5. PICK y : y = [x EXCEPT !.phase = "sent"]
  OBVIOUS
<1>6. /\ y \in Execution /\ y.route = r /\ y.key = k /\ y.content = C /\ y.phase = "sent" /\ y.chunk = x.chunk
  BY <1>3, <1>5 DEF Execution, Phases
<1>7. run'[p][d] = y /\ \A q \in Runtimes, b \in Destinations : q # p \/ b # d => run'[q][b] = run[q][b]
  BY <1>1, <1>4, <1>5, <1>6, SetRunTyped
<1>8. DestOf(r) = d /\ IsWorkingOn(p, r, k) /\ plan[r][k] # NoPlan
  BY <1>1, <1>3, <1>4 DEF RunsFit, RunFits, IsWorkingOn
<1>9. \A q \in Runtimes, b \in Destinations : SameClaim(run[q][b], run'[q][b])
  <2> SUFFICES ASSUME NEW q \in Runtimes, NEW b \in Destinations PROVE SameClaim(run[q][b], run'[q][b])
    OBVIOUS
  <2>. QED BY <1>3, <1>4, <1>6, <1>7 DEF SameClaim
<1>10. IsPublishing(ChunkRecord(x))
  BY <1>3, <1>4, <1>8 DEF IsPublishing, ChunkRecord
<1>11. Works
  <2>1. \A q \in Requested' : q \in Requested \/ IsPublishing(q)
    BY <1>4, <1>10 DEF Requested
  <2>2. ASSUME NEW q \in Runtimes, NEW b \in Destinations, run'[q][b].phase \notin {"idle", "session"}
        PROVE  plan'[run'[q][b].route][run'[q][b].key] # NoPlan
    <3>1. CASE q = p /\ b = d
      BY <1>4, <1>6, <1>7, <1>8, <3>1
    <3>2. CASE q # p \/ b # d
      BY <1>1, <1>4, <1>7, <2>2, <3>2 DEF RunsFit, RunFits
    <3>. QED BY <3>1, <3>2
  <2>. QED BY <1>1, <1>2, <1>4, <1>9, <2>1, <2>2 DEF Works, PlansFit
<1>12. DoneIsThere'
  BY <1>1, <1>4 DEF DoneIsThere, IsThereWith
<1>13. PassedIsThere'
  <2> SUFFICES ASSUME NEW q \in Runtimes, NEW b \in Destinations
               PROVE  PassedFit(run[q][b])'
    BY DEF PassedIsThere
  <2>1. CASE q = p /\ b = d
    <3>1. \A c \in 1 .. x.chunk - 1 : IsThereWith(r, k, c, C)
      BY <1>1, <1>3, <1>4 DEF PassedIsThere, PassedFit
    <3>. QED BY <1>4, <1>6, <1>7, <2>1, <3>1 DEF PassedFit, IsThereWith
  <2>2. CASE q # p \/ b # d
    BY <1>1, <1>4, <1>7, <2>2 DEF PassedIsThere, PassedFit, IsThereWith
  <2>. QED BY <2>1, <2>2
<1>14. OwnersGoOn'
  <2> SUFFICES ASSUME NEW q \in Runtimes, NEW b \in Destinations, Owns(q, b), run'[q][b].phase \in {"publish", "sent"}
               PROVE  plan[run'[q][b].route][run'[q][b].key].done = run'[q][b].chunk - 1
    BY <1>4 DEF OwnersGoOn, Owns
  <2>1. CASE q = p /\ b = d
    BY SMTT(20), <1>1, <1>3, <1>4, <1>6, <1>7, <2>1 DEF OwnersGoOn
  <2>2. CASE q # p \/ b # d
    BY <1>1, <1>7, <2>2 DEF OwnersGoOn
  <2>. QED BY <2>1, <2>2
<1>. QED BY <1>11, <1>12, <1>13, <1>14, WorksKeepsAll

LEMMA RecordGoesOnStep ==
  ASSUME DigestInv, NEW p \in Runtimes, NEW d \in Destinations, RecordChunk(p, d), IsActive(p, d),
         plan[run[p][d].route][run[p][d].key].done >= run[p][d].chunk - 1
  PROVE  DigestInv'
<1>1. /\ DigestTypeOK /\ RunsFit /\ PlansFit /\ OwnersFit /\ HoldersFit
      /\ DoneIsThere /\ PassedIsThere /\ OwnersGoOn /\ RunsTyped /\ PlansTyped
  BY At DEF DigestInv, ShapesFit, ClaimsFit, ThreadsFit
<1>2. DigestTypeOK'
  BY <1>1, RecordTyping
<1>3. PICK r, k, C, c, x : /\ r \in Routes /\ k \in Runs /\ C \in SUBSET Entries /\ c \in Chunks /\ x \in Execution
                           /\ x = run[p][d] /\ r = x.route /\ k = x.key /\ C = x.content /\ c = x.chunk
  BY <1>1, At
<1>4. x.phase = "sent" /\ IsThere(x) /\ Owns(p, d) /\ UNCHANGED <<wire, feed, configured, meddled>>
  BY Zenon, <1>3 DEF RecordChunk, net, admin, IsActive
<1>5. HoldsClaim(p, r) /\ DestOf(r) = d /\ IsWorkingOn(p, r, k) /\ IsHolder(p, r) /\ plan[r][k] # NoPlan /\ C # {}
  BY <1>1, <1>3, <1>4 DEF OwnersFit, RunsFit, RunFits, IsWorkingOn, IsHolder
<1>6. plan[r][k].done = c - 1
  BY <1>1, <1>3, <1>4 DEF OwnersGoOn
<1>7. c \in Nat /\ c >= 1 /\ c <= NumChunks /\ NumChunks \in Nat /\ c \in 0 .. NumChunks
  BY <1>3, Numbers DEF Chunks
<1>8. (IF plan[r][k].done < c THEN c ELSE plan[r][k].done) = c
  BY <1>6, <1>7
<1>9. plan' = [plan EXCEPT ![r][k].done = c] /\ NextChunk(p, d, x, c) /\ UNCHANGED <<job, entry, lease>>
  BY Zenon, <1>3, <1>5, <1>8 DEF RecordChunk
<1>10. /\ plan'[r][k].done = c /\ plan'[r][k].content = plan[r][k].content
       /\ \A s \in Routes, j \in Runs : s # r \/ j # k => plan'[s][j] = plan[s][j]
  <2>1. PlansTyped /\ r \in Routes /\ k \in Runs /\ c \in 0 .. NumChunks /\ Checkpoint(r, k, c)
    BY <1>1, <1>3, <1>7, <1>9 DEF Checkpoint
  <2>. QED BY <2>1, CheckpointTyped
<1>11. PICK y : y = run'[p][d]
  OBVIOUS
<1>12. /\ y.route = r /\ y.key = k /\ y.content = C
       /\ c >= NumChunks => y.phase = "complete"
       /\ c < NumChunks => y.phase = "publish" /\ y.chunk = c + 1
       /\ \A q \in Runtimes, b \in Destinations : q # p \/ b # d => run'[q][b] = run[q][b]
  <2>1. RunsTyped /\ x \in Execution /\ c \in 0 .. NumChunks /\ NextChunk(p, d, x, c)
    BY <1>1, <1>3, <1>7, <1>9
  <2>. QED BY SMTT(20), <1>3, <1>11, <2>1, NextChunkStep
<1>13. \A q \in Runtimes, b \in Destinations : SameClaim(run[q][b], run'[q][b])
  <2> SUFFICES ASSUME NEW q \in Runtimes, NEW b \in Destinations PROVE SameClaim(run[q][b], run'[q][b])
    OBVIOUS
  <2>. QED BY <1>3, <1>4, <1>11, <1>12 DEF SameClaim
<1>14. plan[r][k].content \subseteq C
  BY Zenon, <1>1, <1>3, <1>5 DEF HoldersFit, HolderFits, Bounded
<1>15. plan[r][k].content # {} /\ configured[r] # "new" /\ plan'[r][k] # NoPlan
  <2>1. configured[r] # "new"
    BY <1>1, <1>3, <1>4 DEF RunsFit, RunFits
  <2>2. plan[r][k].content # {}
    <3>1. plan[r][k] \in Plan
      BY <1>3, <1>1 DEF PlansTyped
    <3>2. plan[r][k].content = {} => plan[r][k].done = 0
      BY <1>1, <1>3 DEF PlansFit
    <3>3. plan[r][k].content = {} /\ plan[r][k].done = 0 => plan[r][k] = NoPlan
      BY <3>1 DEF Plan, NoPlan
    <3>. QED BY <1>5, <3>2, <3>3
  <2>. QED BY <1>10, <2>1, <2>2, NoPlanTyped
<1>16. Works
  <2>1. Requested' = Requested
    BY <1>4 DEF Requested
  <2>2. \A s \in Routes, j \in Runs :
          /\ plan[s][j] # NoPlan => plan'[s][j] # NoPlan
          /\ plan'[s][j].content = {} => plan'[s][j].done = 0
          /\ configured[s] = "new" => plan'[s][j] = NoPlan
          /\ plan'[s][j].content \subseteq plan[s][j].content
    <3> SUFFICES ASSUME NEW s \in Routes, NEW j \in Runs
                 PROVE  /\ plan[s][j] # NoPlan => plan'[s][j] # NoPlan
                        /\ plan'[s][j].content = {} => plan'[s][j].done = 0
                        /\ configured[s] = "new" => plan'[s][j] = NoPlan
                        /\ plan'[s][j].content \subseteq plan[s][j].content
      OBVIOUS
    <3>1. CASE s = r /\ j = k
      BY <1>10, <1>15, <3>1
    <3>2. CASE s # r \/ j # k
      BY <1>1, <1>10, <3>2 DEF PlansFit
    <3>. QED BY <3>1, <3>2
  <2>3. ASSUME NEW q \in Runtimes, NEW b \in Destinations, run'[q][b].phase \notin {"idle", "session"}
        PROVE  plan'[run'[q][b].route][run'[q][b].key] # NoPlan
    <3>1. CASE q = p /\ b = d
      BY <1>11, <1>12, <1>15, <3>1
    <3>2. CASE q # p \/ b # d
      <4>1. run'[q][b] = run[q][b] /\ run[q][b].route \in Routes /\ run[q][b].key \in Runs
        BY <1>1, <1>12, <3>2, At
      <4>2. plan[run[q][b].route][run[q][b].key] # NoPlan
        BY <1>1, <2>3, <4>1 DEF RunsFit, RunFits
      <4>. QED BY <2>2, <4>1, <4>2
    <3>. QED BY <3>1, <3>2
  <2>. QED BY Zenon, <1>2, <1>4, <1>9, <1>13, <2>1, <2>2, <2>3 DEF Works
<1>17. IsThereWith(r, k, c, C)
  BY <1>3, <1>4 DEF IsThere, IsThereWith, ChunkRecord
<1>18. ASSUME NEW i \in 1 .. c PROVE IsThereWith(r, k, i, C)
  <2>1. CASE i = c
    BY <1>17, <2>1
  <2>2. CASE i \in 1 .. c - 1
    BY <1>1, <1>3, <1>4, <2>2 DEF PassedIsThere, PassedFit
  <2>. QED BY <1>7, <2>1, <2>2
<1>19. DoneIsThere'
  <2> SUFFICES ASSUME NEW s \in Routes, NEW j \in Runs, NEW i \in 1 .. plan'[s][j].done
               PROVE  IsThereWith(s, j, i, plan'[s][j].content)
    BY <1>4 DEF DoneIsThere, IsThereWith
  <2>1. CASE s = r /\ j = k
    <3>1. IsThereWith(r, k, i, C)
      BY <1>10, <1>18, <2>1
    <3>. QED BY <1>10, <1>14, <2>1, <3>1 DEF IsThereWith
  <2>2. CASE s # r \/ j # k
    BY <1>1, <1>10, <2>2 DEF DoneIsThere
  <2>. QED BY <2>1, <2>2
<1>20. PassedIsThere'
  <2> SUFFICES ASSUME NEW q \in Runtimes, NEW b \in Destinations
               PROVE  PassedFit(run[q][b])'
    BY DEF PassedIsThere
  <2>1. CASE q = p /\ b = d
    <3>1. CASE c >= NumChunks
      <4>1. Chunks \subseteq 1 .. c
        BY <1>7, <3>1 DEF Chunks
      <4>2. y.phase = "complete" /\ \A i \in Chunks : IsThereWith(y.route, y.key, i, y.content)
        BY <1>12, <1>18, <3>1, <4>1
      <4>. QED BY <1>4, <1>11, <2>1, <4>2 DEF PassedFit, IsThereWith
    <3>2. CASE c < NumChunks
      <4>1. 1 .. y.chunk - 1 \subseteq 1 .. c
        BY <1>7, <1>12, <3>2
      <4>2. y.phase = "publish" /\ \A i \in 1 .. y.chunk - 1 : IsThereWith(y.route, y.key, i, y.content)
        BY <1>12, <1>18, <3>2, <4>1
      <4>. QED BY <1>4, <1>11, <2>1, <4>2 DEF PassedFit, IsThereWith
    <3>. QED BY <1>7, <3>1, <3>2
  <2>2. CASE q # p \/ b # d
    BY SMTT(20), <1>1, <1>4, <1>12, <2>2 DEF PassedIsThere, PassedFit, IsThereWith
  <2>. QED BY <2>1, <2>2
<1>21. OwnersGoOn'
  <2> SUFFICES ASSUME NEW q \in Runtimes, NEW b \in Destinations, Owns(q, b), run'[q][b].phase \in {"publish", "sent"}
               PROVE  plan'[run'[q][b].route][run'[q][b].key].done = run'[q][b].chunk - 1
    BY <1>9 DEF OwnersGoOn, Owns
  <2>1. CASE q = p /\ b = d
    BY <1>7, <1>10, <1>11, <1>12, <2>1
  <2>2. CASE q # p \/ b # d
    <3>1. run'[q][b] = run[q][b] /\ run[q][b].route \in Routes /\ run[q][b].key \in Runs
      BY <1>1, <1>12, <2>2, At
    <3>2. run[q][b].route # r
      BY <1>1, <1>3, <1>4, <2>2, <3>1, OnlyOne
    <3>3. plan'[run[q][b].route][run[q][b].key] = plan[run[q][b].route][run[q][b].key]
      BY <1>10, <3>1, <3>2
    <3>4. plan[run[q][b].route][run[q][b].key].done = run[q][b].chunk - 1
      BY <1>1, <3>1 DEF OwnersGoOn
    <3>. QED BY <3>1, <3>3, <3>4
  <2>. QED BY <2>1, <2>2
<1>. QED BY <1>16, <1>19, <1>20, <1>21, WorksKeepsAll

LEMMA ExecuteStep ==
  ASSUME DigestInv, NEW p \in Runtimes, NEW d \in Destinations,
         SessionFails(p, d) \/ SessionOpens(p, d) \/ PublishChunk(p, d) \/ PublishFails(p, d) \/ RecordChunk(p, d)
  PROVE  DigestInv'
<1>1. CASE SessionFails(p, d) \/ PublishFails(p, d)
  BY <1>1, FailureStep, QuietKeepsAll
<1>2. CASE SessionOpens(p, d)
  <2>1. CASE Throw(p, d)
    BY <1>2, <2>1, SessionIsLostStep, QuietKeepsAll
  <2>2. CASE IsActive(p, d) /\ ~IsMismatch(run[p][d].route, run[p][d].key, run[p][d].content)
    BY <1>2, <2>2, SessionGoesOnStep
  <2>. QED BY <1>2, <2>1, <2>2 DEF SessionOpens
<1>3. CASE PublishChunk(p, d)
  BY <1>3, PublishGoesOnStep, PublishIsLostStep, QuietKeepsAll
<1>4. CASE RecordChunk(p, d)
  <2>1. CASE IsActive(p, d) /\ plan[run[p][d].route][run[p][d].key].done >= run[p][d].chunk - 1
    BY <1>4, <2>1, RecordGoesOnStep
  <2>2. CASE ~(IsActive(p, d) /\ plan[run[p][d].route][run[p][d].key].done >= run[p][d].chunk - 1)
    <3>1. Throw(p, d) /\ UNCHANGED plan
      BY Zenon, <1>4, <2>2 DEF RecordChunk
    <3>. QED BY <1>4, <3>1, RecordIsLostStep, QuietKeepsAll
  <2>. QED BY <2>1, <2>2
<1>. QED BY <1>1, <1>2, <1>3, <1>4
--------------------------------------------------------------------------------
(***************************************************************************)
(* Runs that end, processes and time.                                      *)
(***************************************************************************)
\* The job of a route is replaced.
SetJob(r, j) == job' = [job EXCEPT ![r] = j]

LEMMA SetJobTyped ==
  ASSUME job \in [Routes -> Job], NEW r \in Routes, NEW j \in Job, SetJob(r, j)
  PROVE  job' \in [Routes -> Job] /\ job'[r] = j /\ \A s \in Routes : s # r => job'[s] = job[s]
  BY DEF SetJob

\* What becomes of the entries of a run that is complete.
Delivered(r, C) == [e \in Entries |-> IF RouteOf[e] # r \/ entry[e] # "claimed" THEN entry[e]
                                      ELSE IF e \in C THEN "delivered" ELSE "pending"]

LEMMA CompleteTyping ==
  ASSUME DigestTypeOK, NEW p \in Runtimes, NEW d \in Destinations, CompleteRun(p, d)
  PROVE  DigestTypeOK'
<1>1. TablesTyped /\ PlansTyped /\ SentTyped /\ RunsTyped /\ RestTyped
  BY At
<1>2. PICK r \in Routes : r = run[p][d].route
  BY At
<1>3. Leave(p, d) /\ UNCHANGED <<plan, net, up, admin, spent>>
  BY Zenon DEF CompleteRun
<1>4. RunsTyped' /\ RestTyped' /\ PlansTyped' /\ SentTyped'
  BY <1>1, <1>3, LeaveStep, RestStays, PlansStayTyped, SentStaysTyped
<1>5. TablesTyped'
  <2>1. CASE HoldsClaim(p, r)
    <3>1. entry' = Delivered(r, run[p][d].content) /\ \E k \in Fresh(r) : SetJob(r, Armed(k))
      BY Zenon, <1>2, <2>1 DEF CompleteRun, Delivered, SetJob, Armed
    <3>2. entry' \in [Entries -> Statuses]
      BY <1>1, <3>1 DEF Delivered, TablesTyped, Statuses
    <3>3. job' \in [Routes -> Job]
      BY <1>1, <3>1, FreshIsKey, ArmedTyped, SetJobTyped DEF TablesTyped
    <3>. QED BY <3>2, <3>3 DEF TablesTyped
  <2>2. CASE ~HoldsClaim(p, r)
    BY <1>1, <1>2, <2>2, TablesStayTyped DEF CompleteRun
  <2>. QED BY <2>1, <2>2
<1>. QED BY <1>4, <1>5, TypesTogether

LEMMA CompleteStep ==
  ASSUME DigestInv, NEW p \in Runtimes, NEW d \in Destinations, CompleteRun(p, d)
  PROVE  Quiet
<1>1. /\ DigestTypeOK /\ RunsFit /\ RequestsFit /\ PlansFit /\ EntriesFit /\ AreSettled /\ HoldersFit /\ PassedIsThere
      /\ TablesTyped
  BY At DEF DigestInv, ShapesFit, ClaimsFit, ThreadsFit
<1>2. DigestTypeOK'
  BY <1>1, CompleteTyping
<1>3. PICK r, k, C : /\ r \in Routes /\ k \in Runs /\ C \in SUBSET Entries
                     /\ r = run[p][d].route /\ k = run[p][d].key /\ C = run[p][d].content
  BY <1>1, At
<1>4. Leave(p, d) /\ UNCHANGED <<plan, wire, feed, configured, meddled>> /\ run[p][d].phase = "complete"
  BY Zenon DEF CompleteRun, net, admin
<1>5. RunsGoOn /\ NoNewOwner /\ run'[p][d].phase = "idle"
  BY <1>1, <1>4, LeaveStep
<1>6. PlansGoOn /\ \A s \in Routes, j \in Runs : configured[s] = "new" => plan'[s][j] = NoPlan
  BY <1>1, <1>4 DEF PlansGoOn, PlansFit
<1>7. DestOf(r) = d /\ C \subseteq Known(r)
  BY <1>1, <1>3, <1>4 DEF RunsFit, RunFits
<1>8. EntriesGoOn /\ EntriesFit' /\ \A s \in Routes : TableStep(s)
  <2>1. CASE HoldsClaim(p, r)
    <3>1. entry' = Delivered(r, C) /\ \E j \in Fresh(r) : SetJob(r, Armed(j))
      BY Zenon, <1>3, <2>1 DEF CompleteRun, Delivered, SetJob, Armed
    <3>2. PICK j \in Fresh(r) : SetJob(r, Armed(j))
      BY <3>1
    <3>3. Armed(j) \in Job /\ Armed(j).status = "scheduled" /\ Armed(j).key = j
      BY <1>3, FreshIsKey, ArmedTyped
    <3>4. job'[r] = Armed(j) /\ \A s \in Routes : s # r => job'[s] = job[s]
      BY <1>1, <1>3, <3>2, <3>3, SetJobTyped DEF TablesTyped
    <3>5. \A e \in Entries : entry'[e] = IF RouteOf[e] # r \/ entry[e] # "claimed" THEN entry[e]
                                         ELSE IF e \in C THEN "delivered" ELSE "pending"
      BY <3>1 DEF Delivered
    <3>6. ASSUME NEW e \in Entries, RouteOf[e] = r, e \in C PROVE IsPublished(e)
      <4>1. \A c \in Chunks : IsThereWith(r, k, c, C)
        BY <1>1, <1>3, <1>4 DEF PassedIsThere, PassedFit
      <4>. QED BY <1>3, <3>6, <4>1 DEF IsPublished, IsThereWith
    <3>7. EntriesGoOn
      BY <3>5, <3>6 DEF EntriesGoOn
    <3>8. EntriesFit'
      BY <1>1, <1>4, <3>5 DEF EntriesFit
    <3>9. ClaimStep(r)
      BY <3>3, <3>4 DEF ClaimStep, IsHolder, HoldsClaim
    <3>10. OwnerStep(r)
      BY <1>5, <1>7, <2>1 DEF OwnerStep, HoldsClaim
    <3>11. KeyStep(r)
      BY <3>3, <3>4 DEF KeyStep
    <3>12. SettledStep(r)
      <4> SUFFICES ASSUME configured[r] = "live", r \notin meddled, NEW q \in Requested, q.route = r, NEW e \in q.content
                   PROVE  entry'[e] = "delivered"
        BY <1>4 DEF SettledStep
      <4>1. e \in Entries /\ RouteOf[e] = r
        BY <1>1, ContentHasRoute
      <4>2. IsHolder(p, r)
        BY <1>3, <1>4, <1>7, <2>1 DEF IsHolder
      <4>3. Bounded(r, k, C) /\ k = job[r].key /\ \A x \in C : entry[x] = "claimed"
        BY <1>1, <1>3, <1>7, <4>2 DEF HoldersFit, HolderFits
      <4>4. CASE entry[e] = "delivered"
        BY <3>5, <4>1, <4>4
      <4>5. CASE q.key = k
        <5>1. e \in C
          BY <4>3, <4>5 DEF Bounded
        <5>. QED BY <3>5, <4>1, <4>3, <5>1
      <4>. QED BY <1>1, <1>3, <4>3, <4>4, <4>5 DEF AreSettled, IsSettled
    <3>13. ASSUME NEW s \in Routes, s # r PROVE TableStep(s)
      BY <1>1, <1>4, <3>4, <3>5, <3>13, UntouchedStep
    <3>. QED BY <3>7, <3>8, <3>9, <3>10, <3>11, <3>12, <3>13 DEF TableStep
  <2>2. CASE ~HoldsClaim(p, r)
    <3>1. job' = job /\ entry' = entry
      BY <1>3, <2>2 DEF CompleteRun
    <3>2. ASSUME NEW s \in Routes PROVE TableStep(s)
      BY <1>1, <1>4, <3>1, UntouchedStep
    <3>. QED BY <1>1, <1>4, <3>1, <3>2 DEF EntriesGoOn, EntriesFit
  <2>. QED BY <2>1, <2>2
<1>9. RoutesGoOn
  BY <1>4 DEF RoutesGoOn
<1>. QED BY <1>2, <1>4, <1>5, <1>6, <1>8, <1>9 DEF Quiet

\* Steps of processes and leases that leave the tables alone.
LEMMA TablesAlone ==
  ASSUME DigestInv, DigestTypeOK', UNCHANGED <<entry, job, plan, wire, feed, configured, meddled>>, RunsGoOn, NoNewOwner
  PROVE  Quiet
<1>1. DigestTypeOK /\ RequestsFit /\ PlansFit /\ EntriesFit /\ AreSettled
  BY DEF DigestInv, ShapesFit, ClaimsFit
<1>2. ASSUME NEW r \in Routes PROVE TableStep(r)
  BY <1>1, UntouchedStep
<1>3. PlansGoOn /\ \A s \in Routes, j \in Runs : configured'[s] = "new" => plan'[s][j] = NoPlan
  BY <1>1 DEF PlansGoOn, PlansFit
<1>4. EntriesGoOn /\ EntriesFit' /\ RoutesGoOn
  BY <1>1 DEF EntriesGoOn, EntriesFit, RoutesGoOn
<1>. QED BY <1>2, <1>3, <1>4 DEF Quiet

LEMMA FaultsTyped ==
  ASSUME RestTyped, spent.faults < MaxFaults, spent' = [spent EXCEPT !.faults = @ + 1]
  PROVE  spent' \in [operations : 0 .. MaxOperations, faults : 0 .. MaxFaults]
<1>1. spent \in [operations : 0 .. MaxOperations, faults : 0 .. MaxFaults] /\ MaxFaults \in Nat
  BY DigestAssumption DEF RestTyped
<1>2. PICK n : n = spent.faults + 1
  OBVIOUS
<1>3. n \in 0 .. MaxFaults
  BY <1>1, <1>2
<1>4. spent' = [spent EXCEPT !.faults = n]
  BY <1>2
<1>. QED BY <1>1, <1>3, <1>4

\* The executions of a process change together.
LEMMA RunsOfTyped ==
  ASSUME RunsTyped, NEW p \in Runtimes, NEW X \in [Destinations -> Execution], run' = [run EXCEPT ![p] = X],
         \A d \in Destinations : SameWork(run[p][d], X[d])
  PROVE  RunsTyped' /\ RunsGoOn
<1>1. run'[p] = X /\ \A q \in Runtimes : q # p => run'[q] = run[q]
  BY DEF RunsTyped
<1>2. RunsTyped'
  BY DEF RunsTyped
<1>3. RunsGoOn
  BY <1>1 DEF RunsGoOn, SameWork
<1>. QED BY <1>2, <1>3

LEMMA AbortedTyped ==
  ASSUME NEW x \in Execution
  PROVE  [x EXCEPT !.aborted = TRUE] \in Execution /\ SameWork(x, [x EXCEPT !.aborted = TRUE]) /\ SameWork(x, x)
<1>1. [x EXCEPT !.aborted = TRUE] \in Execution
  BY DEF Execution
<1>. QED BY <1>1 DEF Execution, SameWork

LEMMA RenewStep ==
  ASSUME DigestInv, NEW p \in Runtimes, RenewLeases(p)
  PROVE  DigestInv'
<1>1. DigestTypeOK
  BY DEF DigestInv
<1>2. TablesTyped /\ PlansTyped /\ SentTyped /\ RunsTyped /\ RestTyped /\ LeaseTypeOK
  BY <1>1, At DEF RestTyped
<1>3. UNCHANGED <<lease, entry, job, plan, wire, feed, up, configured, meddled, spent>>
  BY DEF RenewLeases, rows, net, admin
<1>4. PICK X : X = [d \in Destinations |->
                      IF run[p][d].phase # "idle" /\ ~Owns(p, d) THEN [run[p][d] EXCEPT !.aborted = TRUE] ELSE run[p][d]]
  OBVIOUS
<1>5. \A d \in Destinations : run[p][d] \in Execution
  BY <1>1, At
<1>6. X \in [Destinations -> Execution] /\ \A d \in Destinations : SameWork(run[p][d], X[d])
  BY <1>4, <1>5, AbortedTyped
<1>7. run' = [run EXCEPT ![p] = X]
  BY <1>4 DEF RenewLeases
<1>8. RunsTyped' /\ RunsGoOn
  BY <1>2, <1>6, <1>7, RunsOfTyped
<1>9. LeaseTypeOK' /\ NoNewOwner
  BY <1>2, <1>3, LeaseStays
<1>10. DigestTypeOK'
  BY <1>2, <1>3, <1>8, <1>9 DEF DigestTypeOK, TablesTyped, PlansTyped, SentTyped, RunsTyped, RestTyped, Statuses
<1>. QED BY <1>3, <1>8, <1>9, <1>10, TablesAlone, QuietKeepsAll

LEMMA StopStep ==
  ASSUME DigestInv, NEW p \in Runtimes, StopWorker(p)
  PROVE  DigestInv'
<1>1. DigestTypeOK
  BY DEF DigestInv
<1>2. TablesTyped /\ PlansTyped /\ SentTyped /\ RunsTyped /\ RestTyped /\ LeaseTypeOK
  BY <1>1, At DEF RestTyped
<1>3. UNCHANGED <<lease, entry, job, plan, wire, feed, configured, meddled>> /\ up' = [up EXCEPT ![p] = "stopping"]
  BY DEF StopWorker, rows, net, admin
<1>4. PICK X : X = [d \in Destinations |->
                      IF run[p][d].phase # "idle" THEN [run[p][d] EXCEPT !.aborted = TRUE] ELSE run[p][d]]
  OBVIOUS
<1>5. \A d \in Destinations : run[p][d] \in Execution
  BY <1>1, At
<1>6. X \in [Destinations -> Execution] /\ \A d \in Destinations : SameWork(run[p][d], X[d])
  BY <1>4, <1>5, AbortedTyped
<1>7. run' = [run EXCEPT ![p] = X]
  BY <1>4 DEF StopWorker
<1>8. RunsTyped' /\ RunsGoOn
  BY <1>2, <1>6, <1>7, RunsOfTyped
<1>9. LeaseTypeOK' /\ NoNewOwner
  BY <1>2, <1>3, LeaseStays
<1>10. spent' \in [operations : 0 .. MaxOperations, faults : 0 .. MaxFaults]
  BY <1>2, FaultsTyped DEF StopWorker
<1>11. RestTyped'
  BY <1>2, <1>3, <1>9, <1>10 DEF RestTyped
<1>12. TablesTyped' /\ PlansTyped' /\ SentTyped'
  BY <1>2, <1>3 DEF TablesTyped, PlansTyped, SentTyped
<1>13. DigestTypeOK'
  BY <1>8, <1>11, <1>12, TypesTogether
<1>. QED BY <1>3, <1>8, <1>9, <1>13, TablesAlone, QuietKeepsAll

LEMMA ExitStep ==
  ASSUME DigestInv, NEW p \in Runtimes, ExitWorker(p)
  PROVE  DigestInv'
<1>1. DigestTypeOK
  BY DEF DigestInv
<1>2. TablesTyped /\ PlansTyped /\ SentTyped /\ RunsTyped /\ RestTyped /\ LeaseTypeOK
  BY <1>1, At DEF RestTyped
<1>3. UNCHANGED <<entry, job, plan, wire, feed, run, configured, meddled, spent>> /\ up' = [up EXCEPT ![p] = "down"]
      /\ ReleaseOwner(p)
  BY DEF ExitWorker, rows, net, admin
<1>4. LeaseTypeOK' /\ NoNewOwner
  BY <1>2, <1>3, OwnersAssumption DEF ReleaseOwner, LeaseTypeOK, NoNewOwner, Owns
<1>5. RestTyped'
  BY <1>2, <1>3, <1>4 DEF RestTyped
<1>6. TablesTyped' /\ PlansTyped' /\ SentTyped' /\ RunsTyped'
  BY <1>2, <1>3 DEF TablesTyped, PlansTyped, SentTyped, RunsTyped
<1>7. RunsGoOn
  BY <1>3 DEF RunsGoOn, SameWork
<1>. QED BY <1>3, <1>4, <1>5, <1>6, <1>7, TypesTogether, TablesAlone, QuietKeepsAll

LEMMA CrashStep ==
  ASSUME DigestInv, NEW p \in Runtimes, Crash(p)
  PROVE  DigestInv'
<1>1. DigestTypeOK
  BY DEF DigestInv
<1>2. TablesTyped /\ PlansTyped /\ SentTyped /\ RunsTyped /\ RestTyped /\ LeaseTypeOK
  BY <1>1, At DEF RestTyped
<1>3. UNCHANGED <<entry, job, plan, wire, feed, configured, meddled>> /\ up' = [up EXCEPT ![p] = "down"] /\ Abandon(p)
  BY DEF Crash, rows, net, admin
<1>4. PICK d0 \in Destinations : run[p][d0].phase # "idle"
  BY DEF Crash, IsRunning
<1>5. Idle(AnyRoute) \in Execution /\ Idle(AnyRoute).phase = "idle"
  BY <1>1, <1>4, At, AnyRouteIsThere, IdleTyped
<1>6. PICK X : X = [d \in Destinations |-> Idle(AnyRoute)]
  OBVIOUS
<1>7. X \in [Destinations -> Execution] /\ \A d \in Destinations : SameWork(run[p][d], X[d])
  BY <1>5, <1>6 DEF SameWork
<1>8. run' = [run EXCEPT ![p] = X]
  BY <1>6 DEF Crash
<1>9. RunsTyped' /\ RunsGoOn
  BY <1>2, <1>7, <1>8, RunsOfTyped
<1>10. LeaseTypeOK' /\ NoNewOwner
  BY <1>2, <1>3, OwnersAssumption DEF Abandon, LeaseTypeOK, NoNewOwner, Owns
<1>11. spent' \in [operations : 0 .. MaxOperations, faults : 0 .. MaxFaults]
  BY <1>2, FaultsTyped DEF Crash
<1>12. RestTyped'
  BY <1>2, <1>3, <1>10, <1>11 DEF RestTyped
<1>13. TablesTyped' /\ PlansTyped' /\ SentTyped'
  BY <1>2, <1>3 DEF TablesTyped, PlansTyped, SentTyped
<1>14. DigestTypeOK'
  BY <1>9, <1>12, <1>13, TypesTogether
<1>. QED BY <1>3, <1>9, <1>10, <1>14, TablesAlone, QuietKeepsAll

LEMMA LapseStep ==
  ASSUME DigestInv, NEW d \in Destinations, AbandonedLeaseLapses(d) \/ Stall(d)
  PROVE  DigestInv'
<1>1. DigestTypeOK
  BY DEF DigestInv
<1>2. TablesTyped /\ PlansTyped /\ SentTyped /\ RunsTyped /\ RestTyped /\ LeaseTypeOK
  BY <1>1, At DEF RestTyped
<1>3. UNCHANGED <<entry, job, plan, wire, feed, run, up, configured, meddled>> /\ lease' = [lease EXCEPT ![d] = Nobody]
  BY DEF AbandonedLeaseLapses, Stall, LeaseLapses, rows, net, admin
<1>4. LeaseTypeOK' /\ NoNewOwner
  BY <1>2, <1>3, OwnersAssumption DEF LeaseTypeOK, NoNewOwner, Owns
<1>5. spent' \in [operations : 0 .. MaxOperations, faults : 0 .. MaxFaults]
  BY <1>2, FaultsTyped DEF Stall, AbandonedLeaseLapses, RestTyped
<1>6. RestTyped'
  BY <1>2, <1>3, <1>4, <1>5 DEF RestTyped
<1>7. TablesTyped' /\ PlansTyped' /\ SentTyped' /\ RunsTyped'
  BY <1>2, <1>3 DEF TablesTyped, PlansTyped, SentTyped, RunsTyped
<1>8. RunsGoOn
  BY <1>3 DEF RunsGoOn, SameWork
<1>. QED BY <1>3, <1>4, <1>6, <1>7, <1>8, TypesTogether, TablesAlone, QuietKeepsAll

--------------------------------------------------------------------------------
(***************************************************************************)
(* Producers and operators.                                                *)
(***************************************************************************)
LEMMA OnlyTables ==
  ASSUME DigestInv, DigestTypeOK', UNCHANGED <<run, lease, plan, wire, feed>>, RoutesGoOn, EntriesGoOn, EntriesFit',
         \A r \in Routes : TableStep(r), \A r \in Routes : configured'[r] = "new" => configured[r] = "new"
  PROVE  DigestInv'
<1>1. DigestTypeOK /\ PlansFit
  BY DEF DigestInv, ShapesFit
<1>2. RunsGoOn /\ NoNewOwner
  BY DEF RunsGoOn, SameWork, NoNewOwner, Owns
<1>3. PlansGoOn /\ \A s \in Routes, j \in Runs : configured'[s] = "new" => plan'[s][j] = NoPlan
  BY <1>1 DEF PlansGoOn, PlansFit
<1>4. Quiet
  BY <1>2, <1>3 DEF Quiet
<1>. QED BY <1>4, QuietKeepsAll

LEMMA OperationsTyped ==
  ASSUME RestTyped, NEW what, Operate(what)
  PROVE  spent' \in [operations : 0 .. MaxOperations, faults : 0 .. MaxFaults]
<1>1. spent \in [operations : 0 .. MaxOperations, faults : 0 .. MaxFaults] /\ MaxOperations \in Nat
  BY DigestAssumption DEF RestTyped
<1>2. PICK n : n = spent.operations + 1
  OBVIOUS
<1>3. n \in 0 .. MaxOperations
  BY <1>1, <1>2 DEF Operate
<1>4. spent' = [spent EXCEPT !.operations = n]
  BY <1>2 DEF Operate
<1>. QED BY <1>1, <1>3, <1>4

\* Types of a step of the job of a route, or of its entries.
LEMMA TableTyping ==
  ASSUME DigestTypeOK, UNCHANGED <<run, lease, plan, wire, feed, up>>, TablesTyped',
         configured' \in [Routes -> {"new", "live", "deleted"}], meddled' \subseteq Routes,
         spent' \in [operations : 0 .. MaxOperations, faults : 0 .. MaxFaults]
  PROVE  DigestTypeOK'
<1>1. PlansTyped' /\ SentTyped' /\ RunsTyped'
  BY At DEF PlansTyped, SentTyped, RunsTyped
<1>2. RestTyped'
  BY At DEF RestTyped, LeaseTypeOK
<1>. QED BY <1>1, <1>2, TypesTogether

LEMMA ClockStep ==
  ASSUME DigestInv, NEW r \in Routes, RunIsDue(r) \/ BackoffElapses(r)
  PROVE  DigestInv'
<1>1. DigestTypeOK /\ RequestsFit /\ AreSettled /\ EntriesFit /\ TablesTyped /\ RestTyped /\ job[r] \in Job
  BY At DEF DigestInv, ShapesFit, ClaimsFit
<1>2. UNCHANGED <<run, lease, plan, wire, feed, up, entry, configured, meddled, spent>>
  BY DEF RunIsDue, BackoffElapses, net, admin
<1>4. \E i : SetJob(r, i) /\ (i = [job[r] EXCEPT !.due = TRUE] \/ i = [job[r] EXCEPT !.waiting = FALSE])
  <2>1. CASE RunIsDue(r)
    <3>1. SetJob(r, [job[r] EXCEPT !.due = TRUE])
      BY <1>1, <2>1 DEF RunIsDue, SetJob, TablesTyped
    <3>. QED BY <3>1
  <2>2. CASE BackoffElapses(r)
    <3>1. SetJob(r, [job[r] EXCEPT !.waiting = FALSE])
      BY <1>1, <2>2 DEF BackoffElapses, SetJob, TablesTyped
    <3>. QED BY <3>1
  <2>. QED BY <2>1, <2>2
<1>5. PICK i : SetJob(r, i) /\ (i = [job[r] EXCEPT !.due = TRUE] \/ i = [job[r] EXCEPT !.waiting = FALSE])
  BY <1>4
<1>6. i \in Job /\ i.status = job[r].status /\ i.key = job[r].key /\ i.token = job[r].token
  BY <1>1, <1>5 DEF Job
<1>7. job' \in [Routes -> Job] /\ job'[r] = i /\ \A s \in Routes : s # r => job'[s] = job[s]
  BY <1>1, <1>5, <1>6, SetJobTyped DEF TablesTyped
<1>8. \A s \in Routes : TableStep(s)
  <2> SUFFICES ASSUME NEW s \in Routes PROVE TableStep(s)
    OBVIOUS
  <2>1. job'[s].status = job[s].status /\ job'[s].key = job[s].key /\ job'[s].token = job[s].token
    BY <1>6, <1>7
  <2>. QED BY <1>1, <1>2, <2>1, UntouchedStep
<1>9. TablesTyped'
  BY <1>1, <1>2, <1>7 DEF TablesTyped
<1>10. DigestTypeOK'
  BY <1>1, <1>2, <1>9, TableTyping DEF RestTyped
<1>11. EntriesGoOn /\ EntriesFit' /\ RoutesGoOn
  BY <1>1, <1>2 DEF EntriesGoOn, EntriesFit, RoutesGoOn
<1>. QED BY <1>2, <1>8, <1>10, <1>11, OnlyTables

LEMMA EnqueueStep ==
  ASSUME DigestInv, NEW e \in Entries, Enqueue(e)
  PROVE  DigestInv'
<1>1. DigestTypeOK /\ RequestsFit /\ AreSettled /\ EntriesFit /\ TablesTyped /\ RestTyped
  BY At DEF DigestInv, ShapesFit, ClaimsFit
<1>2. UNCHANGED <<run, lease, plan, wire, feed, up, job, configured, meddled, spent>>
  BY DEF Enqueue, net, admin
<1>3. PICK r \in Routes : r = RouteOf[e]
  BY <1>1, At
<1>4. /\ entry[e] = "absent" /\ configured[r] = "live" /\ entry' = [entry EXCEPT ![e] = "pending"]
      /\ \A x \in Entries : RouteOf[x] = r /\ entry[x] # "absent" => x < e
  BY <1>3 DEF Enqueue
<1>5. entry' \in [Entries -> Statuses] /\ entry'[e] = "pending" /\ \A x \in Entries : x # e => entry'[x] = entry[x]
  BY <1>1, <1>4 DEF TablesTyped, Statuses
<1>6. TablesTyped'
  BY <1>1, <1>2, <1>5 DEF TablesTyped
<1>7. DigestTypeOK'
  BY <1>1, <1>2, <1>6, TableTyping DEF RestTyped
<1>8. EntriesGoOn /\ EntriesFit' /\ RoutesGoOn
  BY <1>1, <1>2, <1>3, <1>4, <1>5 DEF EntriesGoOn, EntriesFit, RoutesGoOn
<1>9. TableStep(r)
  <2>1. ClaimStep(r) /\ OwnerStep(r)
    BY <1>2, <1>4, <1>5 DEF ClaimStep, OwnerStep, IsHolder, HoldsClaim
  <2>2. Extends(Open(r), Open(r)')
    <3>1. Open(r) \subseteq Open(r)' /\ Open(r)' \subseteq Open(r) \cup {e}
      BY <1>4, <1>5 DEF Open
    <3>2. \A x \in Open(r) : x < e
      BY <1>4 DEF Open
    <3>. QED BY <3>1, <3>2 DEF Extends
  <2>3. KeyStep(r)
    BY <1>2, <2>2 DEF KeyStep
  <2>4. SettledStep(r)
    <3> SUFFICES ASSUME configured[r] = "live", r \notin meddled, job[r].status = "absent",
                        NEW q \in Requested, q.route = r, NEW x \in q.content
                 PROVE  entry'[x] = "delivered"
      BY <1>2 DEF SettledStep
    <3>1. entry[x] = "delivered" /\ x \in Entries
      BY <1>1, SettledNow, ContentHasRoute
    <3>. QED BY <1>4, <1>5, <3>1
  <2>. QED BY <2>1, <2>3, <2>4 DEF TableStep
<1>10. ASSUME NEW s \in Routes, s # r PROVE TableStep(s)
  <2>1. \A x \in Entries : RouteOf[x] = s => entry'[x] = entry[x]
    BY <1>3, <1>5, <1>10
  <2>. QED BY <1>1, <1>2, <2>1, UntouchedStep
<1>. QED BY <1>2, <1>7, <1>8, <1>9, <1>10, OnlyTables

\* arm() gives the job of a route a new key.
LEMMA ArmStep ==
  ASSUME DigestInv, NEW r \in Routes, NEW due \in BOOLEAN, Arm(r, due), UNCHANGED <<run, lease, plan, wire, feed, up, entry>>,
         configured' \in [Routes -> {"new", "live", "deleted"}], configured'[r] = "live", configured[r] # "deleted",
         \A s \in Routes : s # r => configured'[s] = configured[s],
         meddled' = (IF configured[r] = "live" /\ HasBegun(r) THEN meddled \cup {r} ELSE meddled),
         spent' \in [operations : 0 .. MaxOperations, faults : 0 .. MaxFaults]
  PROVE  DigestInv'
<1>1. /\ DigestTypeOK /\ RequestsFit /\ AreSettled /\ EntriesFit /\ RunsFit /\ TablesTyped /\ RestTyped /\ job[r] \in Job
      /\ configured[r] \in {"new", "live", "deleted"} /\ DestOf(r) \in Destinations
  BY At DEF DigestInv, ShapesFit, ClaimsFit, RestTyped, DestOf
<1>2. PICK k \in Fresh(r) : job' = [job EXCEPT ![r].key = k, ![r].due = due,
                                      ![r].status = IF @ = "processing" THEN @ ELSE "scheduled"]
  BY DEF Arm
<1>3. PICK t : t = IF job[r].status = "processing" THEN "processing" ELSE "scheduled"
  OBVIOUS
<1>4. PICK v : v = [job[r] EXCEPT !.key = k, !.due = due, !.status = t]
  OBVIOUS
<1>5. k \in Runs /\ t \in {"processing", "scheduled"} /\ (t = "processing" <=> job[r].status = "processing")
  BY <1>2, <1>3, FreshIsKey
<1>6. v \in Job /\ v.key = k /\ v.status = t /\ v.token = job[r].token
  BY <1>1, <1>4, <1>5 DEF Job
<1>7. job' \in [Routes -> Job] /\ job'[r] = v /\ \A s \in Routes : s # r => job'[s] = job[s]
  <2>1. SetJob(r, v)
    BY <1>1, <1>2, <1>3, <1>4 DEF SetJob, TablesTyped
  <2>. QED BY <1>1, <1>6, <2>1, SetJobTyped DEF TablesTyped
<1>8. TablesTyped' /\ meddled' \subseteq Routes /\ meddled \subseteq meddled'
  BY <1>1, <1>7 DEF TablesTyped, RestTyped
<1>9. DigestTypeOK'
  BY <1>1, <1>8, TableTyping
<1>10. EntriesGoOn /\ RoutesGoOn
  <2>1. \A s \in Routes : configured[s] # "new" => configured'[s] # "new"
    <3> SUFFICES ASSUME NEW s \in Routes, configured[s] # "new" PROVE configured'[s] # "new"
      OBVIOUS
    <3>. QED BY <1>1
  <2>. QED BY <1>8, <2>1 DEF EntriesGoOn, RoutesGoOn
<1>11. EntriesFit'
  <2> SUFFICES ASSUME NEW e \in Entries
               PROVE  /\ configured'[RouteOf[e]] = "live" => entry[e] # "cancelled"
                      /\ configured'[RouteOf[e]] = "new" => entry[e] = "absent"
    BY DEF EntriesFit
  <2>1. RouteOf[e] \in Routes
    BY DigestAssumption
  <2>2. /\ configured[RouteOf[e]] = "live" => entry[e] # "cancelled"
        /\ configured[RouteOf[e]] = "new" => entry[e] = "absent"
    BY <1>1 DEF EntriesFit
  <2>. QED BY <1>1, <2>1, <2>2
<1>12. \A s \in Routes : configured'[s] = "new" => configured[s] = "new"
  <2> SUFFICES ASSUME NEW s \in Routes, configured'[s] = "new" PROVE configured[s] = "new"
    OBVIOUS
  <2>. QED OBVIOUS
<1>13. TableStep(r)
  <2>1. ClaimStep(r)
    <3> SUFFICES ASSUME NEW p \in Runtimes, IsHolder(p, r)'
                 PROVE  HoldsClaim(p, r) /\ r \in meddled'
      BY DEF ClaimStep
    <3>1. HoldsClaim(p, r) /\ job[r].status = "processing"
      BY <1>5, <1>6, <1>7 DEF IsHolder, HoldsClaim
    <3>2. run[p][DestOf(r)].phase # "idle" /\ run[p][DestOf(r)].route = r
      BY DEF IsHolder, DestOf
    <3>3. configured[r] # "new"
      BY <1>1, <3>2 DEF RunsFit, RunFits
    <3>. QED BY <1>1, <3>1, <3>3 DEF HasBegun
  <2>2. OwnerStep(r)
    BY <1>5, <1>6, <1>7 DEF OwnerStep, HoldsClaim
  <2>3. KeyStep(r)
    BY <1>2, <1>6, <1>7 DEF KeyStep
  <2>4. SettledStep(r)
    <3> SUFFICES ASSUME r \notin meddled', NEW q \in Requested, q.route = r, NEW e \in q.content
                 PROVE  entry[e] = "delivered"
      BY DEF SettledStep
    <3>1. configured[r] = "live"
      BY <1>1 DEF RequestsFit
    <3>2. plan[r][job[r].key] = NoPlan /\ r \notin meddled
      BY <1>8, <3>1 DEF HasBegun
    <3>. QED BY <1>1, <3>1, <3>2, SettledNow
  <2>. QED BY <2>1, <2>2, <2>3, <2>4 DEF TableStep
<1>14. ASSUME NEW s \in Routes, s # r PROVE TableStep(s)
  BY <1>1, <1>7, <1>8, <1>14, UntouchedStep
<1>. QED BY <1>9, <1>10, <1>11, <1>12, <1>13, <1>14, OnlyTables

LEMMA RearmStep ==
  ASSUME DigestInv, NEW r \in Routes, PublishNow(r) \/ Reschedule(r)
  PROVE  DigestInv'
<1>1. DigestTypeOK /\ RestTyped
  BY At DEF DigestInv
<1>2. spent' \in [operations : 0 .. MaxOperations, faults : 0 .. MaxFaults]
  BY <1>1, OperationsTyped DEF PublishNow, Reschedule
<1>3. PICK due \in BOOLEAN : Arm(r, due)
  BY DEF PublishNow, Reschedule
<1>4. /\ UNCHANGED <<run, lease, plan, wire, feed, up, entry, configured>> /\ configured[r] = "live"
      /\ meddled' = IF HasBegun(r) THEN meddled \cup {r} ELSE meddled
  BY DEF PublishNow, Reschedule, net
<1>5. configured' \in [Routes -> {"new", "live", "deleted"}]
  BY <1>1, <1>4 DEF RestTyped
<1>. QED BY <1>2, <1>3, <1>4, <1>5, ArmStep

LEMMA CreateStep ==
  ASSUME DigestInv, NEW r \in Routes, CreateRoute(r)
  PROVE  DigestInv'
<1>1. DigestTypeOK /\ RestTyped
  BY At DEF DigestInv
<1>2. /\ UNCHANGED <<run, lease, plan, wire, feed, up, entry, meddled, spent>> /\ configured[r] = "new"
      /\ configured' = [configured EXCEPT ![r] = "live"] /\ Arm(r, FALSE)
  BY DEF CreateRoute, net
<1>3. configured' \in [Routes -> {"new", "live", "deleted"}] /\ configured'[r] = "live"
      /\ \A s \in Routes : s # r => configured'[s] = configured[s]
  BY <1>1, <1>2 DEF RestTyped
<1>4. spent' \in [operations : 0 .. MaxOperations, faults : 0 .. MaxFaults]
  BY <1>1, <1>2 DEF RestTyped
<1>. QED BY <1>2, <1>3, <1>4, ArmStep

LEMMA RetryStep ==
  ASSUME DigestInv, NEW r \in Routes, RetryJob(r)
  PROVE  DigestInv'
<1>1. DigestTypeOK /\ RequestsFit /\ AreSettled /\ EntriesFit /\ TablesTyped /\ RestTyped /\ job[r] \in Job
  BY At DEF DigestInv, ShapesFit, ClaimsFit
<1>2. /\ UNCHANGED <<run, lease, plan, wire, feed, up, entry, configured, meddled>> /\ job[r].status = "failed"
      /\ spent' \in [operations : 0 .. MaxOperations, faults : 0 .. MaxFaults]
  BY <1>1, OperationsTyped DEF RetryJob, net, admin
<1>3. PICK v : v = [job[r] EXCEPT !.status = "scheduled", !.waiting = FALSE]
  OBVIOUS
<1>4. v \in Job /\ v.key = job[r].key /\ v.status = "scheduled"
  BY <1>1, <1>3 DEF Job
<1>5. SetJob(r, v)
  BY <1>1, <1>3 DEF RetryJob, SetJob, TablesTyped
<1>6. job' \in [Routes -> Job] /\ job'[r] = v /\ \A s \in Routes : s # r => job'[s] = job[s]
  BY <1>1, <1>4, <1>5, SetJobTyped DEF TablesTyped
<1>7. TablesTyped'
  BY <1>1, <1>2, <1>6 DEF TablesTyped
<1>8. DigestTypeOK'
  BY <1>1, <1>2, <1>7, TableTyping DEF RestTyped
<1>9. EntriesGoOn /\ EntriesFit' /\ RoutesGoOn
  BY <1>1, <1>2 DEF EntriesGoOn, EntriesFit, RoutesGoOn
<1>10. TableStep(r)
  <2>1. Open(r)' = Open(r)
    BY <1>2 DEF Open
  <2>2. \A p \in Runtimes : ~HoldsClaim(p, r)
    BY <1>2 DEF HoldsClaim
  <2>. QED BY <1>2, <1>4, <1>6, <2>1, <2>2, ReleasedStep
<1>11. ASSUME NEW s \in Routes, s # r PROVE TableStep(s)
  BY <1>1, <1>2, <1>6, <1>11, UntouchedStep
<1>. QED BY <1>2, <1>8, <1>9, <1>10, <1>11, OnlyTables

\* The row of a processing job stays, others go.
LEMMA CancelledTyped ==
  ASSUME TablesTyped, NEW r \in Routes, job' = CancelledJob(r)
  PROVE  /\ job' \in [Routes -> Job] /\ \A s \in Routes : s # r => job'[s] = job[s]
         /\ job[r].status = "processing" => job'[r] = job[r]
         /\ job[r].status # "processing" => job'[r] = NoJob
<1>1. CASE job[r].status = "processing"
  BY <1>1 DEF CancelledJob, TablesTyped
<1>2. CASE job[r].status # "processing"
  <2>1. SetJob(r, NoJob)
    BY <1>2 DEF CancelledJob, SetJob
  <2>. QED BY <1>2, <2>1, SetJobTyped, NoJobTyped DEF TablesTyped
<1>. QED BY <1>1, <1>2

LEMMA CancelStep ==
  ASSUME DigestInv, NEW r \in Routes, CancelJob(r)
  PROVE  DigestInv'
<1>1. DigestTypeOK /\ RequestsFit /\ AreSettled /\ EntriesFit /\ TablesTyped /\ RestTyped /\ job[r] \in Job
  BY At DEF DigestInv, ShapesFit, ClaimsFit
<1>2. /\ UNCHANGED <<run, lease, plan, wire, feed, up, configured>>
      /\ spent' \in [operations : 0 .. MaxOperations, faults : 0 .. MaxFaults]
      /\ entry' = Move(entry, r, "claimed", "pending") /\ job' = CancelledJob(r)
      /\ meddled' = IF HasBegun(r) THEN meddled \cup {r} ELSE meddled
  BY <1>1, OperationsTyped DEF CancelJob, net
<1>3. /\ job' \in [Routes -> Job] /\ \A s \in Routes : s # r => job'[s] = job[s]
      /\ job[r].status = "processing" => job'[r] = job[r]
      /\ job[r].status # "processing" => job'[r] = NoJob
  BY <1>1, <1>2, CancelledTyped
<1>4. /\ Open(r)' = Open(r) /\ EntriesGoOn
      /\ \A e \in Entries : RouteOf[e] # r => entry'[e] = entry[e]
      /\ \A e \in Entries : RouteOf[e] = r => entry'[e] = IF entry[e] = "claimed" THEN "pending" ELSE entry[e]
  BY <1>1, <1>2, GivenBack
<1>5. entry' \in [Entries -> Statuses]
  BY <1>1, <1>2, MoveTyped DEF TablesTyped, Statuses
<1>6. TablesTyped' /\ meddled' \subseteq Routes /\ meddled \subseteq meddled'
  BY <1>1, <1>2, <1>3, <1>5 DEF TablesTyped, RestTyped
<1>7. DigestTypeOK'
  BY <1>1, <1>2, <1>6, TableTyping DEF RestTyped
<1>8. EntriesFit' /\ RoutesGoOn
  BY <1>1, <1>2, <1>4, <1>6 DEF EntriesFit, RoutesGoOn
<1>9. TableStep(r)
  <2>1. ClaimStep(r)
    BY <1>2, <1>3, NoJobTyped DEF ClaimStep, IsHolder, HoldsClaim, HasBegun
  <2>2. OwnerStep(r)
    BY <1>3 DEF OwnerStep, HoldsClaim
  <2>3. KeyStep(r)
    BY <1>2, <1>3, <1>4, NoJobTyped DEF KeyStep, Extends
  <2>4. SettledStep(r)
    <3> SUFFICES ASSUME r \notin meddled', configured[r] = "live", NEW q \in Requested, q.route = r, NEW e \in q.content
                 PROVE  entry'[e] = "delivered"
      BY <1>2 DEF SettledStep
    <3>1. plan[r][job[r].key] = NoPlan /\ r \notin meddled
      BY <1>2 DEF HasBegun
    <3>2. entry[e] = "delivered" /\ e \in Entries
      BY <1>1, <3>1, SettledNow, ContentHasRoute
    <3>. QED BY <1>4, <3>2
  <2>. QED BY <2>1, <2>2, <2>3, <2>4 DEF TableStep
<1>10. ASSUME NEW s \in Routes, s # r PROVE TableStep(s)
  BY <1>1, <1>2, <1>3, <1>4, <1>6, <1>10, UntouchedStep
<1>. QED BY <1>2, <1>4, <1>7, <1>8, <1>9, <1>10, OnlyTables

LEMMA DeleteStep ==
  ASSUME DigestInv, NEW r \in Routes, DeleteRoute(r)
  PROVE  DigestInv'
<1>1. DigestTypeOK /\ RequestsFit /\ AreSettled /\ EntriesFit /\ TablesTyped /\ RestTyped /\ job[r] \in Job
  BY At DEF DigestInv, ShapesFit, ClaimsFit
<1>2. /\ UNCHANGED <<run, lease, plan, wire, feed, up, meddled>> /\ configured[r] = "live"
      /\ spent' \in [operations : 0 .. MaxOperations, faults : 0 .. MaxFaults]
      /\ entry' = Move(Move(entry, r, "pending", "cancelled"), r, "claimed", "pending") /\ job' = CancelledJob(r)
      /\ configured' = [configured EXCEPT ![r] = "deleted"]
  BY <1>1, OperationsTyped DEF DeleteRoute, net
<1>3. /\ job' \in [Routes -> Job] /\ \A s \in Routes : s # r => job'[s] = job[s]
      /\ job[r].status = "processing" => job'[r] = job[r]
      /\ job[r].status # "processing" => job'[r] = NoJob
  BY <1>1, <1>2, CancelledTyped
<1>4. PICK f : f = Move(entry, r, "pending", "cancelled")
  OBVIOUS
<1>5. /\ f \in [Entries -> Statuses]
      /\ \A e \in Entries : f[e] = IF RouteOf[e] = r /\ entry[e] = "pending" THEN "cancelled" ELSE entry[e]
  BY <1>1, <1>4, MoveTyped DEF TablesTyped, Statuses
<1>6. /\ entry' \in [Entries -> Statuses]
      /\ \A e \in Entries : entry'[e] = IF RouteOf[e] = r /\ f[e] = "claimed" THEN "pending" ELSE f[e]
  BY <1>2, <1>4, <1>5, MoveTyped DEF Statuses
<1>7. /\ configured' \in [Routes -> {"new", "live", "deleted"}] /\ configured'[r] = "deleted"
      /\ \A s \in Routes : s # r => configured'[s] = configured[s]
  BY <1>1, <1>2 DEF RestTyped
<1>8. TablesTyped'
  BY <1>3, <1>6 DEF TablesTyped
<1>9. DigestTypeOK'
  BY <1>1, <1>2, <1>7, <1>8, TableTyping DEF RestTyped
<1>10. EntriesGoOn
  BY <1>5, <1>6 DEF EntriesGoOn
<1>11. EntriesFit'
  <2> SUFFICES ASSUME NEW e \in Entries
               PROVE  /\ configured'[RouteOf[e]] = "live" => entry'[e] # "cancelled"
                      /\ configured'[RouteOf[e]] = "new" => entry'[e] = "absent"
    BY DEF EntriesFit
  <2>1. RouteOf[e] \in Routes
    BY DigestAssumption
  <2>. QED BY <1>1, <1>5, <1>6, <1>7, <2>1 DEF EntriesFit
<1>12. RoutesGoOn /\ \A s \in Routes : configured'[s] = "new" => configured[s] = "new"
  BY <1>2, <1>7 DEF RoutesGoOn
<1>13. TableStep(r)
  <2>1. ClaimStep(r)
    BY <1>3, <1>7, NoJobTyped DEF ClaimStep, IsHolder, HoldsClaim
  <2>2. OwnerStep(r)
    BY <1>3 DEF OwnerStep, HoldsClaim
  <2>. QED BY <1>7, <2>1, <2>2 DEF TableStep, KeyStep, SettledStep
<1>14. ASSUME NEW s \in Routes, s # r PROVE TableStep(s)
  <2>1. \A e \in Entries : RouteOf[e] = s => entry'[e] = entry[e]
    BY <1>5, <1>6, <1>14
  <2>. QED BY <1>1, <1>2, <1>3, <1>7, <1>14, <2>1, UntouchedStep
<1>. QED BY <1>2, <1>9, <1>10, <1>11, <1>12, <1>13, <1>14, OnlyTables

--------------------------------------------------------------------------------
(***************************************************************************)
(* Resets and claims.                                                      *)
(***************************************************************************)
LEMMA ResetOf ==
  ASSUME TablesTyped, NEW r \in Routes
  PROVE  LET j == JobsAfterReset[r] IN
         /\ j \in Job /\ j.key = job[r].key /\ (j.status = "absent" <=> job[r].status = "absent")
         /\ j.status = "processing" => j = job[r] /\ lease[DestOf(r)] # Nobody
         /\ job[r].status = "processing" /\ lease[DestOf(r)] # Nobody => j = job[r]
         /\ \A e \in Entries : RouteOf[e] = r /\ lease[DestOf(r)] # Nobody => EntriesAfterReset[e] = entry[e]
         /\ \A e \in Entries : RouteOf[e] = r /\ lease[DestOf(r)] = Nobody =>
              EntriesAfterReset[e] = IF entry[e] = "claimed" THEN "pending" ELSE entry[e]
<1>1. job[r] \in Job /\ JobsAfterReset[r] \in Job
  BY ResetTyped DEF TablesTyped
<1>2. JobsAfterReset[r] = IF IsAbandoned(r) THEN GivenUp(job[r]) ELSE job[r]
  BY ResetTyped
<1>3. /\ \A e \in Entries : RouteOf[e] = r /\ lease[DestOf(r)] # Nobody => EntriesAfterReset[e] = entry[e]
      /\ \A e \in Entries : RouteOf[e] = r /\ lease[DestOf(r)] = Nobody =>
           EntriesAfterReset[e] = IF entry[e] = "claimed" THEN "pending" ELSE entry[e]
  BY ResetTyped DEF DestOf
<1>. QED BY <1>1, <1>2, <1>3, GivenUpTyped DEF IsAbandoned, DestOf

LEMMA ResetGoesOn ==
  ASSUME TablesTyped, EntriesFit, entry' = EntriesAfterReset, UNCHANGED configured
  PROVE  EntriesGoOn /\ EntriesFit'
<1>1. \A e \in Entries : entry'[e] = entry[e] \/ (entry[e] = "claimed" /\ entry'[e] = "pending")
  BY ResetTyped
<1>. QED BY <1>1 DEF EntriesGoOn, EntriesFit

LEMMA FindNothingStep ==
  ASSUME DigestInv, NEW p \in Runtimes, FindNothing(p)
  PROVE  DigestInv'
<1>1. DigestTypeOK /\ RequestsFit /\ AreSettled /\ EntriesFit /\ TablesTyped /\ RestTyped
  BY At DEF DigestInv, ShapesFit, ClaimsFit
<1>2. /\ UNCHANGED <<run, lease, plan, wire, feed, up, configured, meddled, spent>>
      /\ job' = JobsAfterReset /\ entry' = EntriesAfterReset
  BY DEF FindNothing, net, admin
<1>3. TablesTyped'
  BY <1>1, <1>2, ResetTyped DEF TablesTyped
<1>4. DigestTypeOK'
  BY <1>1, <1>2, <1>3, TableTyping DEF RestTyped
<1>5. NoNewOwner
  BY <1>2 DEF NoNewOwner, Owns
<1>6. \A r \in Routes : TableStep(r)
  BY <1>1, <1>2, <1>5, ResetStep
<1>7. EntriesGoOn /\ EntriesFit' /\ RoutesGoOn
  BY <1>1, <1>2, ResetGoesOn DEF RoutesGoOn
<1>. QED BY <1>2, <1>4, <1>6, <1>7, OnlyTables

LEMMA StartStep ==
  ASSUME DigestInv, NEW p \in Runtimes, StartWorker(p)
  PROVE  DigestInv'
<1>1. DigestTypeOK /\ RequestsFit /\ AreSettled /\ EntriesFit /\ TablesTyped /\ RestTyped
  BY At DEF DigestInv, ShapesFit, ClaimsFit
<1>2. /\ UNCHANGED <<run, lease, plan, wire, feed, configured, meddled, spent>>
      /\ up' = [up EXCEPT ![p] = "up"] /\ entry' = EntriesAfterReset
  BY DEF StartWorker, net, admin
<1>3. PICK key \in [Routes -> Runs] :
        /\ \A r \in Routes : IF configured[r] = "live" /\ job[r].status = "absent" THEN key[r] \in Fresh(r) ELSE key[r] = job[r].key
        /\ job' = [r \in Routes |-> IF configured[r] = "live" /\ job[r].status = "absent"
                                    THEN Armed(key[r]) ELSE JobsAfterReset[r]]
  BY Zenon DEF StartWorker, Armed
<1>4. \A r \in Routes : Armed(key[r]) \in Job /\ Armed(key[r]).status = "scheduled" /\ Armed(key[r]).key = key[r]
  BY <1>3, ArmedTyped
<1>5. job' \in [Routes -> Job] /\ entry' \in [Entries -> Statuses]
  BY <1>1, <1>2, <1>3, <1>4, ResetTyped
<1>6. DigestTypeOK'
  <2>1. RestTyped'
    BY <1>1, <1>2 DEF RestTyped, LeaseTypeOK
  <2>2. PlansTyped' /\ SentTyped' /\ RunsTyped' /\ TablesTyped'
    BY <1>1, <1>2, <1>5, At DEF PlansTyped, SentTyped, RunsTyped, TablesTyped
  <2>. QED BY <2>1, <2>2, TypesTogether
<1>7. NoNewOwner
  BY <1>2 DEF NoNewOwner, Owns
<1>8. EntriesGoOn /\ EntriesFit' /\ RoutesGoOn
  BY <1>1, <1>2, ResetGoesOn DEF RoutesGoOn
<1>9. ASSUME NEW r \in Routes PROVE TableStep(r)
  <2>1. CASE configured[r] = "live" /\ job[r].status = "absent"
    <3>1. job'[r].status = "scheduled" /\ job'[r].key \in Fresh(r)
      BY <1>3, <1>4, <2>1
    <3>2. ClaimStep(r) /\ OwnerStep(r) /\ KeyStep(r)
      BY <2>1, <3>1 DEF ClaimStep, OwnerStep, KeyStep, IsHolder, HoldsClaim
    <3>3. SettledStep(r)
      <4> SUFFICES ASSUME r \notin meddled, NEW q \in Requested, q.route = r, NEW e \in q.content
                   PROVE  entry'[e] = "delivered"
        BY <1>2 DEF SettledStep
      <4>1. entry[e] = "delivered" /\ e \in Entries
        BY <1>1, <2>1, SettledNow, ContentHasRoute
      <4>. QED BY <1>8, <4>1 DEF EntriesGoOn
    <3>. QED BY <3>2, <3>3 DEF TableStep
  <2>2. CASE ~(configured[r] = "live" /\ job[r].status = "absent")
    <3>1. job'[r] = JobsAfterReset[r]
      BY <1>3, <2>2
    <3>. QED BY <1>1, <1>2, <1>7, <3>1, ResetStep
  <2>. QED BY <2>1, <2>2
<1>. QED BY <1>2, <1>6, <1>8, <1>9, OnlyTables

\* A poll that claims a job and fails it, or has nothing to publish.
LEMMA ClaimIsFailedStep ==
  ASSUME DigestInv, NEW r \in Routes, configured[r] # "live", IsClaimable(r),
         job' = [JobsAfterReset EXCEPT ![r] = Failed(@)], entry' = EntriesAfterReset,
         UNCHANGED <<run, lease, plan, net, up, admin, spent>>
  PROVE  DigestInv'
<1>1. DigestTypeOK /\ RequestsFit /\ AreSettled /\ EntriesFit /\ TablesTyped /\ RestTyped /\ DestOf(r) \in Destinations
  BY At DEF DigestInv, ShapesFit, ClaimsFit, DestOf
<1>2. UNCHANGED <<wire, feed, configured, meddled>> /\ lease[DestOf(r)] = Nobody
  BY DEF net, admin, IsClaimable, DestOf
<1>3. JobsAfterReset \in [Routes -> Job]
  BY <1>1, ResetTyped
<1>4. Failed(JobsAfterReset[r]) \in Job /\ Failed(JobsAfterReset[r]).status \in {"failed", "scheduled"}
  BY <1>3, FailedTyped
<1>5. job' \in [Routes -> Job] /\ job'[r] = Failed(JobsAfterReset[r]) /\ \A s \in Routes : s # r => job'[s] = JobsAfterReset[s]
  BY <1>3, <1>4
<1>6. TablesTyped'
  BY <1>1, <1>5, ResetTyped DEF TablesTyped
<1>7. DigestTypeOK'
  BY <1>1, <1>2, <1>6, TableTyping DEF RestTyped
<1>8. NoNewOwner
  BY DEF NoNewOwner, Owns
<1>9. EntriesGoOn /\ EntriesFit' /\ RoutesGoOn
  BY <1>1, <1>2, ResetGoesOn DEF RoutesGoOn
<1>10. TableStep(r)
  <2>1. ClaimStep(r)
    BY <1>4, <1>5 DEF ClaimStep, IsHolder, HoldsClaim
  <2>2. OwnerStep(r)
    BY <1>1, <1>2, OwnersAssumption DEF OwnerStep, Owns
  <2>. QED BY <1>2, <2>1, <2>2 DEF TableStep, KeyStep, SettledStep
<1>11. ASSUME NEW s \in Routes, s # r PROVE TableStep(s)
  BY <1>1, <1>2, <1>5, <1>8, <1>11, ResetStep
<1>. QED BY <1>2, <1>7, <1>9, <1>10, <1>11, OnlyTables

LEMMA NothingToClaimStep ==
  ASSUME DigestInv, NEW r \in Routes, configured[r] = "live", IsClaimable(r), Open(r) = {},
         NEW k \in Fresh(r), job' = [JobsAfterReset EXCEPT ![r] = Armed(k)], entry' = EntriesAfterReset,
         UNCHANGED <<run, lease, plan, net, up, admin, spent>>
  PROVE  DigestInv'
<1>1. /\ DigestTypeOK /\ RequestsFit /\ AreSettled /\ EntriesFit /\ NextsFit /\ TablesTyped /\ RestTyped
      /\ DestOf(r) \in Destinations
  BY At DEF DigestInv, ShapesFit, ClaimsFit, DestOf
<1>2. UNCHANGED <<wire, feed, configured, meddled>> /\ lease[DestOf(r)] = Nobody /\ JobsAfterReset[r].status = "scheduled"
  BY DEF net, admin, IsClaimable, DestOf
<1>3. JobsAfterReset \in [Routes -> Job]
  BY <1>1, ResetTyped
<1>4. Armed(k) \in Job /\ Armed(k).status = "scheduled" /\ Armed(k).key = k
  BY FreshIsKey, ArmedTyped
<1>5. job' \in [Routes -> Job] /\ job'[r] = Armed(k) /\ \A s \in Routes : s # r => job'[s] = JobsAfterReset[s]
  BY <1>3, <1>4
<1>6. TablesTyped'
  BY <1>1, <1>5, ResetTyped DEF TablesTyped
<1>7. DigestTypeOK'
  BY <1>1, <1>2, <1>6, TableTyping DEF RestTyped
<1>8. NoNewOwner
  BY DEF NoNewOwner, Owns
<1>9. EntriesGoOn /\ EntriesFit' /\ RoutesGoOn
  BY <1>1, <1>2, ResetGoesOn DEF RoutesGoOn
<1>10. TableStep(r)
  <2>1. ClaimStep(r)
    BY <1>4, <1>5 DEF ClaimStep, IsHolder, HoldsClaim
  <2>2. OwnerStep(r)
    BY <1>1, <1>2, OwnersAssumption DEF OwnerStep, Owns
  <2>3. KeyStep(r)
    BY <1>4, <1>5 DEF KeyStep
  <2>4. SettledStep(r)
    <3> SUFFICES ASSUME r \notin meddled, NEW q \in Requested, q.route = r, NEW e \in q.content
                 PROVE  entry'[e] = "delivered"
      BY <1>2 DEF SettledStep
    <3>1. job[r].status # "absent"
      BY <1>1, <1>2, ResetOf
    <3>2. Bounded(r, job[r].key, {})
      BY <1>1, <3>1 DEF NextsFit, NextFits, Upcoming
    <3>3. q.key # job[r].key
      BY <3>2 DEF Bounded
    <3>4. entry[e] = "delivered" /\ e \in Entries
      BY <1>1, <3>3, ContentHasRoute DEF AreSettled, IsSettled
    <3>. QED BY <1>9, <3>4 DEF EntriesGoOn
  <2>. QED BY <2>1, <2>2, <2>3, <2>4 DEF TableStep
<1>11. ASSUME NEW s \in Routes, s # r PROVE TableStep(s)
  BY <1>1, <1>2, <1>5, <1>8, <1>11, ResetStep
<1>. QED BY <1>2, <1>7, <1>9, <1>10, <1>11, OnlyTables

\* The job and the entries of a route after a claim of a process at d, whose lease was free.
Claims(p, d, r, C) ==
  /\ configured[r] = "live" /\ d = DestOf(r) /\ lease[d] = Nobody /\ run[p][d].phase = "idle"
  /\ JobsAfterReset[r].status = "scheduled"
  /\ C = Upcoming(r) /\ C # {} /\ C \subseteq Open(r)
  /\ job' = [JobsAfterReset EXCEPT ![r].status = "processing", ![r].token = p]
  /\ entry' = [e \in Entries |-> IF e \in C THEN "claimed" ELSE EntriesAfterReset[e]]
  /\ Acquire(p, d)
  /\ SetRun(p, d, [Idle(r) EXCEPT !.phase = "session", !.key = job[r].key, !.content = C])
  /\ UNCHANGED <<plan, wire, feed, up, configured, meddled, spent>>

\* What the claim leaves behind.
Claimed(p, d, r, C) ==
  /\ configured[r] = "live" /\ d = DestOf(r) /\ lease[d] = Nobody /\ d \in Destinations /\ job[r].status # "absent"
  /\ C = Upcoming(r) /\ C # {} /\ C \subseteq Open(r)
  /\ job'[r].status = "processing" /\ job'[r].token = p /\ job'[r].key = job[r].key
  /\ \A s \in Routes : s # r => job'[s] = JobsAfterReset[s]
  /\ \A e \in Entries : entry'[e] = IF e \in C THEN "claimed" ELSE EntriesAfterReset[e]
  /\ lease'[d] = p /\ \A b \in Destinations : b # d => lease'[b] = lease[b]
  /\ run'[p][d].phase = "session" /\ run'[p][d].route = r /\ run'[p][d].key = job[r].key /\ run'[p][d].content = C
  /\ \A q \in Runtimes, b \in Destinations : q # p \/ b # d => run'[q][b] = run[q][b]
  /\ UNCHANGED <<plan, wire, feed, up, configured, meddled, spent>>

LEMMA ClaimTyping ==
  ASSUME DigestTypeOK, NEW p \in Runtimes, NEW d, NEW r \in Routes, NEW C, Claims(p, d, r, C)
  PROVE  DigestTypeOK' /\ Claimed(p, d, r, C)
<1>1. TablesTyped /\ PlansTyped /\ SentTyped /\ RunsTyped /\ RestTyped /\ LeaseTypeOK /\ job[r] \in Job /\ d \in Destinations
  BY At DEF RestTyped, Claims, DestOf
<1>2. JobsAfterReset \in [Routes -> Job] /\ JobsAfterReset[r].key = job[r].key /\ job[r].status # "absent"
  BY <1>1, ResetTyped, ResetOf DEF Claims
<1>3. C \in SUBSET Entries
  BY DEF Claims, Open
<1>4. PICK v : v = [JobsAfterReset[r] EXCEPT !.status = "processing", !.token = p]
  OBVIOUS
<1>5. v \in Job /\ v.status = "processing" /\ v.token = p /\ v.key = job[r].key
  BY <1>2, <1>4 DEF Job
<1>6. job' = [JobsAfterReset EXCEPT ![r] = v]
  BY <1>2, <1>4 DEF Claims
<1>7. job' \in [Routes -> Job] /\ job'[r] = v /\ \A s \in Routes : s # r => job'[s] = JobsAfterReset[s]
  BY <1>2, <1>5, <1>6
<1>8. entry' \in [Entries -> Statuses] /\ \A e \in Entries : entry'[e] = IF e \in C THEN "claimed" ELSE EntriesAfterReset[e]
  BY <1>1, ResetTyped DEF Claims, Statuses
<1>9. LeaseTypeOK' /\ lease'[d] = p /\ \A b \in Destinations : b # d => lease'[b] = lease[b]
  BY <1>1 DEF Claims, Acquire, LeaseTypeOK
<1>10. PICK k : k = job[r].key /\ k \in Runs
  BY <1>1 DEF Job
<1>11. PICK x : x = [Idle(r) EXCEPT !.phase = "session", !.key = k, !.content = C]
  OBVIOUS
<1>12. x \in Execution /\ x.phase = "session" /\ x.key = k /\ x.content = C /\ x.route = r
  <2>1. PICK i \in Execution : i = Idle(r) /\ i.route = r
    BY IdleTyped
  <2>2. x = [i EXCEPT !.phase = "session", !.key = k, !.content = C]
    BY <1>11, <2>1
  <2>3. "session" \in Phases
    BY DEF Phases
  <2>. QED BY <1>3, <1>10, <2>1, <2>2, <2>3 DEF Execution
<1>13. SetRun(p, d, x)
  BY <1>10, <1>11 DEF Claims
<1>14. /\ RunsTyped' /\ run'[p][d] = x
       /\ \A q \in Runtimes, b \in Destinations : q # p \/ b # d => run'[q][b] = run[q][b]
  BY <1>1, <1>12, <1>13, SetRunTyped
<1>15. UNCHANGED <<plan, wire, feed, up, configured, meddled, spent>>
  BY DEF Claims
<1>16. TablesTyped' /\ PlansTyped' /\ SentTyped' /\ RestTyped'
  BY <1>1, <1>7, <1>8, <1>9, <1>15 DEF TablesTyped, PlansTyped, SentTyped, RestTyped
<1>17. DigestTypeOK'
  BY <1>14, <1>16, TypesTogether
<1>. QED BY <1>1, <1>2, <1>5, <1>7, <1>8, <1>9, <1>10, <1>12, <1>14, <1>15, <1>17 DEF Claimed, Claims

\* Other routes are reset only.
LEMMA ClaimOthers ==
  ASSUME DigestTypeOK, NEW p \in Runtimes, NEW d, NEW r \in Routes, NEW C, Claimed(p, d, r, C), NEW s \in Routes, s # r
  PROVE  /\ job'[s].key = job[s].key /\ (job'[s].status = "absent" <=> job[s].status = "absent")
         /\ job'[s].status = "processing" =>
              /\ job'[s] = job[s] /\ lease[DestOf(s)] # Nobody
              /\ \A e \in Entries : RouteOf[e] = s => entry'[e] = entry[e]
         /\ job[s].status = "processing" /\ lease[DestOf(s)] # Nobody => job'[s] = job[s]
         /\ \A e \in Entries : RouteOf[e] = s => entry'[e] = entry[e] \/ (entry[e] = "claimed" /\ entry'[e] = "pending")
         /\ Open(s)' = Open(s)
<1>1. TablesTyped /\ job'[s] = JobsAfterReset[s]
  BY At DEF Claimed
<1>2. \A e \in Entries : RouteOf[e] = s => e \notin C
  BY DEF Claimed, Open
<1>3. \A e \in Entries : RouteOf[e] = s => entry'[e] = EntriesAfterReset[e]
  BY <1>2 DEF Claimed
<1>4. \A e \in Entries : RouteOf[e] = s => entry'[e] = entry[e] \/ (entry[e] = "claimed" /\ entry'[e] = "pending")
  BY <1>1, <1>3, ResetOf
<1>5. Open(s)' = Open(s)
  BY <1>4 DEF Open
<1>. QED BY <1>1, <1>3, <1>4, <1>5, ResetOf

LEMMA ClaimEntries ==
  ASSUME DigestTypeOK, NEW p \in Runtimes, NEW d, NEW r \in Routes, NEW C, Claimed(p, d, r, C)
  PROVE  /\ Open(r)' = Open(r)
         /\ \A e \in Entries : /\ entry'[e] = "delivered" <=> entry[e] = "delivered"
                               /\ entry'[e] = "absent" <=> entry[e] = "absent"
                               /\ entry'[e] = "cancelled" <=> entry[e] = "cancelled"
<1>1. TablesTyped
  BY At
<1>2. \A e \in Entries : e \in C => RouteOf[e] = r /\ entry[e] \in {"pending", "claimed"}
  BY DEF Claimed, Open
<1>3. \A e \in Entries : e \notin C => entry'[e] = entry[e] \/ (entry[e] = "claimed" /\ entry'[e] = "pending")
  BY <1>1, ResetTyped DEF Claimed
<1>4. \A e \in Entries : e \in C => entry'[e] = "claimed"
  BY DEF Claimed
<1>5. Open(r)' = Open(r)
  BY <1>2, <1>3, <1>4 DEF Open
<1>. QED BY <1>2, <1>3, <1>4, <1>5

LEMMA ClaimShapes ==
  ASSUME DigestInv, NEW p \in Runtimes, NEW d, NEW r \in Routes, NEW C, Claimed(p, d, r, C)
  PROVE  ShapesFit'
<1>1. DigestTypeOK /\ RunsFit /\ RequestsFit /\ PlansFit /\ EntriesFit
  BY DEF DigestInv, ShapesFit
<1>2. UNCHANGED <<plan, wire, feed, configured>>
  BY DEF Claimed
<1>3. \A s : Known(s)' = Known(s)
  BY <1>1, ClaimEntries DEF Known
<1>4. C \subseteq Known(r) /\ C # {} /\ DestOf(r) = d /\ configured[r] # "new"
  BY DEF Claimed, Open, Known
<1>5. RunsFit'
  <2> SUFFICES ASSUME NEW q \in Runtimes, NEW b \in Destinations
               PROVE  RunFits(run[q][b], b)'
    BY DEF RunsFit
  <2>1. CASE q = p /\ b = d
    BY <1>2, <1>3, <1>4, <2>1 DEF RunFits, Claimed, DestOf, Known
  <2>2. CASE q # p \/ b # d
    <3>1. run'[q][b] = run[q][b] /\ RunFits(run[q][b], b)
      BY <1>1, <2>2 DEF RunsFit, Claimed
    <3>2. PICK s : s = run[q][b].route
      OBVIOUS
    <3>3. Known(s)' = Known(s)
      BY <1>3
    <3>. QED BY <1>2, <3>1, <3>2, <3>3 DEF RunFits, DestOf, Known
  <2>. QED BY <2>1, <2>2
<1>6. RequestsFit'
  <2> SUFFICES ASSUME NEW q \in Requested
               PROVE  plan[q.route][q.key] # NoPlan /\ configured[q.route] # "new" /\ q.content \subseteq Known(q.route)'
    BY <1>2 DEF RequestsFit, Requested
  <2>1. PICK s : s = q.route
    OBVIOUS
  <2>2. Known(s)' = Known(s)
    BY <1>3
  <2>. QED BY <1>1, <2>1, <2>2 DEF RequestsFit, Known
<1>7. PlansFit'
  BY <1>1, <1>2 DEF PlansFit
<1>8. EntriesFit'
  BY <1>1, <1>2, ClaimEntries DEF EntriesFit
<1>. QED BY <1>5, <1>6, <1>7, <1>8 DEF ShapesFit

LEMMA ClaimBounded ==
  ASSUME NEW p \in Runtimes, NEW d, NEW r \in Routes, NEW C, Claimed(p, d, r, C), DigestTypeOK,
         NEW s \in Routes, NEW k, NEW D, Bounded(s, k, D), s = r => C \subseteq D
  PROVE  Bounded(s, k, D)'
<1>1. plan' = plan /\ Requested' = Requested
  BY DEF Claimed, Requested
<1>2. ASSUME NEW q \in Runtimes, IsWorkingOn(q, s, k)'
      PROVE  run'[q][DestOf(s)].content \subseteq D
  <2>1. DestOf(s) \in Destinations
    BY At DEF DestOf
  <2>2. CASE q = p /\ DestOf(s) = d
    BY <1>2, <2>2 DEF Claimed, IsWorkingOn, DestOf
  <2>3. CASE q # p \/ DestOf(s) # d
    <3>1. run'[q][DestOf(s)] = run[q][DestOf(s)]
      BY <2>1, <2>3 DEF Claimed
    <3>. QED BY <1>2, <3>1 DEF IsWorkingOn, Bounded, DestOf
  <2>. QED BY <2>2, <2>3
<1>. QED BY <1>1, <1>2 DEF Bounded, DestOf

LEMMA ClaimClaims ==
  ASSUME DigestInv, NEW p \in Runtimes, NEW d, NEW r \in Routes, NEW C, Claimed(p, d, r, C)
  PROVE  ClaimsFit'
<1>1. DigestTypeOK /\ RunsFit /\ RequestsFit /\ OwnersFit /\ HoldersFit /\ NextsFit /\ AreSettled
  BY DEF DigestInv, ShapesFit, ClaimsFit
<1>2. UNCHANGED <<plan, wire, feed, configured, meddled>> /\ d = DestOf(r) /\ configured[r] = "live" /\ job[r].status # "absent"
  BY DEF Claimed
<1>3. PICK k \in Runs : k = job[r].key
  <2>1. job[r] \in Job
    BY <1>1, At
  <2>. QED BY <2>1 DEF Job
<1>4. Bounded(r, k, C)
  BY <1>1, <1>2, <1>3 DEF NextsFit, NextFits, Claimed
<1>5. Bounded(r, k, C)'
  BY <1>1, <1>4, ClaimBounded
<1>6. OwnersFit'
  <2> SUFFICES ASSUME NEW q \in Runtimes, NEW b \in Destinations, Owns(q, b)', run'[q][b].phase # "idle"
               PROVE  HoldsClaim(q, run[q][b].route)'
    BY DEF OwnersFit
  <2>1. CASE q = p /\ b = d
    BY <2>1 DEF Claimed, HoldsClaim
  <2>2. CASE q # p \/ b # d
    <3>1. b # d /\ Owns(q, b) /\ run'[q][b] = run[q][b]
      BY <2>2 DEF Claimed, Owns
    <3>2. PICK s \in Routes : s = run[q][b].route
      BY <1>1, At
    <3>3. HoldsClaim(q, s) /\ DestOf(s) = b
      BY <1>1, <3>1, <3>2 DEF OwnersFit, RunsFit, RunFits
    <3>4. s # r /\ lease[DestOf(s)] # Nobody
      BY <1>2, <3>1, <3>3, OwnersAssumption DEF Owns
    <3>5. job'[s] = job[s]
      BY <1>1, <3>3, <3>4, ClaimOthers DEF HoldsClaim
    <3>6. run'[q][b].route = s
      BY <3>1, <3>2
    <3>. QED BY <3>3, <3>5, <3>6 DEF HoldsClaim
  <2>. QED BY <2>1, <2>2
<1>7. HoldersFit'
  <2> SUFFICES ASSUME NEW q \in Runtimes, NEW s \in Routes, IsHolder(q, s)'
               PROVE  HolderFits(q, s)'
    BY DEF HoldersFit, HolderFits
  <2>1. CASE s = r
    <3>1. q = p
      BY <2>1 DEF IsHolder, HoldsClaim, Claimed
    <3>2. \A e \in C : entry'[e] = "claimed"
      BY DEF Claimed, Open
    <3>3. Bounded(r, run[p][DestOf(r)].key, run[p][DestOf(r)].content)'
      BY <1>2, <1>3, <1>5 DEF Claimed, Bounded, DestOf
    <3>4. run'[p][DestOf(r)].key = job'[r].key /\ run'[p][DestOf(r)].content = C
      BY <1>2 DEF Claimed
    <3>. QED BY <2>1, <3>1, <3>2, <3>3, <3>4 DEF HolderFits, DestOf
  <2>2. CASE s # r
    <3>1. DestOf(s) \in Destinations
      BY <1>1, At DEF DestOf
    <3>2. job'[s].status = "processing" /\ run'[q][DestOf(s)].phase # "idle" /\ run'[q][DestOf(s)].route = s
      BY DEF IsHolder, HoldsClaim, DestOf
    <3>3. run'[q][DestOf(s)] = run[q][DestOf(s)]
      BY <2>2, <3>1, <3>2 DEF Claimed
    <3>4. /\ job'[s] = job[s] /\ \A e \in Entries : RouteOf[e] = s => entry'[e] = entry[e]
      BY <1>1, <2>2, <3>2, ClaimOthers
    <3>5. IsHolder(q, s)
      BY <3>2, <3>3, <3>4 DEF IsHolder, HoldsClaim
    <3>6. HolderFits(q, s)
      BY <1>1 DEF HoldersFit
    <3>7. PICK j, D : j = run[q][DestOf(s)].key /\ D = run[q][DestOf(s)].content
      OBVIOUS
    <3>8. Bounded(s, j, D)'
      BY <1>1, <2>2, <3>5, <3>6, <3>7, ClaimBounded DEF HolderFits
    <3>9. Bounded(s, run[q][DestOf(s)].key, run[q][DestOf(s)].content)'
      BY <3>3, <3>7, <3>8 DEF Bounded, DestOf
    <3>10. D \subseteq Known(s)
      BY <1>1, <3>1, <3>2, <3>3, <3>7 DEF RunsFit, RunFits
    <3>11. /\ s \notin meddled => j = job'[s].key
           /\ s \notin meddled /\ configured[s] = "live" => \A e \in D : entry'[e] = "claimed"
      BY <3>4, <3>5, <3>6, <3>7, <3>10 DEF HolderFits, Known
    <3>. QED BY <1>2, <3>3, <3>7, <3>9, <3>11 DEF HolderFits, DestOf
  <2>. QED BY <2>1, <2>2
<1>8. NextsFit'
  <2> SUFFICES ASSUME NEW s \in Routes, configured[s] = "live", job'[s].status # "absent"
               PROVE  Bounded(s, job[s].key, Upcoming(s))'
    BY <1>2 DEF NextsFit, NextFits
  <2>1. Open(s)' = Open(s) /\ job'[s].key = job[s].key /\ job[s].status # "absent"
    <3>1. CASE s = r
      BY <1>1, <1>2, <3>1, ClaimEntries DEF Claimed
    <3>2. CASE s # r
      BY <1>1, <3>2, ClaimOthers
    <3>. QED BY <3>1, <3>2
  <2>2. PICK j, D : j = job[s].key /\ D = Upcoming(s)
    OBVIOUS
  <2>3. Upcoming(s)' = D
    BY <2>1, <2>2 DEF Upcoming
  <2>4. Bounded(s, j, D)
    BY <1>1, <2>1, <2>2 DEF NextsFit, NextFits
  <2>5. s = r => C \subseteq D
    BY <2>2 DEF Claimed
  <2>6. Bounded(s, j, D)'
    BY <1>1, <2>4, <2>5, ClaimBounded
  <2>. QED BY <2>1, <2>2, <2>3, <2>6 DEF Bounded
<1>9. AreSettled'
  <2> SUFFICES ASSUME NEW s \in Routes, configured[s] = "live", s \notin meddled, NEW q \in Requested, q.route = s
               PROVE  (job'[s].status # "absent" /\ job'[s].key = q.key) \/ \A e \in q.content : entry'[e] = "delivered"
    BY <1>2 DEF AreSettled, IsSettled, Requested
  <2>1. (job[s].status # "absent" /\ job[s].key = q.key) \/ \A e \in q.content : entry[e] = "delivered"
    BY <1>1 DEF AreSettled, IsSettled
  <2>2. \A e \in q.content : e \in Entries
    BY <1>1, ContentHasRoute
  <2>3. job'[s].key = job[s].key /\ (job[s].status # "absent" => job'[s].status # "absent")
    <3>1. CASE s = r
      BY <3>1 DEF Claimed
    <3>2. CASE s # r
      BY <1>1, <3>2, ClaimOthers
    <3>. QED BY <3>1, <3>2
  <2>. QED BY <1>1, <2>1, <2>2, <2>3, ClaimEntries
<1>. QED BY <1>6, <1>7, <1>8, <1>9 DEF ClaimsFit

LEMMA ClaimThreads ==
  ASSUME DigestInv, NEW p \in Runtimes, NEW d, NEW r \in Routes, NEW C, Claimed(p, d, r, C)
  PROVE  ThreadsFit'
<1>1. /\ DigestTypeOK /\ RequestsFit /\ AreSettled /\ AreApart /\ OwnersApart /\ DoneIsThere /\ PassedIsThere
      /\ OwnersGoOn /\ DeliveredFit
  BY DEF DigestInv, ShapesFit, ClaimsFit, ThreadsFit
<1>2. UNCHANGED <<plan, wire, feed, configured, meddled>> /\ configured[r] = "live" /\ C \subseteq Open(r)
  BY DEF Claimed
<1>3. \A q \in Runtimes, b \in Destinations : q # p \/ b # d => run'[q][b] = run[q][b] /\ (Owns(q, b)' => Owns(q, b))
  BY DEF Claimed, Owns
<1>4. run'[p][d].phase = "session" /\ run'[p][d].route = r /\ run'[p][d].key = job[r].key /\ run'[p][d].content = C
  BY DEF Claimed
<1>5. Requested' = Requested
  BY <1>2 DEF Requested
<1>6. AreApart'
  BY <1>1, <1>2, <1>5 DEF AreApart
<1>7. OwnersApart'
  <2> SUFFICES ASSUME NEW q \in Runtimes, NEW b \in Destinations, Owns(q, b)', run'[q][b].phase # "idle",
                      run'[q][b].route \notin meddled, NEW m \in Requested, m.route = run'[q][b].route,
                      m.key # run'[q][b].key
               PROVE  m.content \cap run'[q][b].content = {}
    BY <1>2, <1>5 DEF OwnersApart
  <2>1. CASE q = p /\ b = d
    <3>1. m.route = r /\ m.key # job[r].key /\ r \notin meddled
      BY <1>4, <2>1
    <3>2. \A e \in m.content : entry[e] = "delivered"
      BY <1>1, <1>2, <3>1 DEF AreSettled, IsSettled
    <3>3. \A e \in C : entry[e] # "delivered"
      BY <1>2 DEF Open
    <3>. QED BY <1>4, <2>1, <3>2, <3>3
  <2>2. CASE q # p \/ b # d
    BY <1>1, <1>3, <2>2 DEF OwnersApart
  <2>. QED BY <2>1, <2>2
<1>8. DoneIsThere'
  BY <1>1, <1>2 DEF DoneIsThere, IsThereWith
<1>9. PassedIsThere'
  <2> SUFFICES ASSUME NEW q \in Runtimes, NEW b \in Destinations
               PROVE  PassedFit(run[q][b])'
    BY DEF PassedIsThere
  <2>1. CASE q = p /\ b = d
    BY <1>4, <2>1 DEF PassedFit
  <2>2. CASE q # p \/ b # d
    BY <1>1, <1>2, <1>3, <2>2 DEF PassedIsThere, PassedFit, IsThereWith
  <2>. QED BY <2>1, <2>2
<1>10. OwnersGoOn'
  <2> SUFFICES ASSUME NEW q \in Runtimes, NEW b \in Destinations, Owns(q, b)', run'[q][b].phase \in {"publish", "sent"}
               PROVE  plan[run'[q][b].route][run'[q][b].key].done = run'[q][b].chunk - 1
    BY <1>2 DEF OwnersGoOn
  <2>1. q # p \/ b # d
    BY <1>4
  <2>. QED BY <1>1, <1>3, <2>1 DEF OwnersGoOn
<1>11. DeliveredFit'
  BY <1>1, <1>2, ClaimEntries DEF DeliveredFit, IsPublished
<1>. QED BY <1>6, <1>7, <1>8, <1>9, <1>10, <1>11 DEF ThreadsFit

LEMMA ClaimJobStep ==
  ASSUME DigestInv, NEW p \in Runtimes, NEW r \in Routes, ClaimJob(p, r)
  PROVE  DigestInv'
<1>1. DigestTypeOK /\ EntriesFit /\ TablesTyped
  BY At DEF DigestInv, ShapesFit
<1>2. IsClaimable(r) /\ UNCHANGED <<plan, net, up, admin, spent>>
  BY DEF ClaimJob
<1>3. CASE configured[r] # "live"
  <2>1. /\ job' = [JobsAfterReset EXCEPT ![r] = Failed(@)] /\ entry' = EntriesAfterReset
        /\ UNCHANGED <<run, lease>>
    BY <1>3 DEF ClaimJob
  <2>. QED BY <1>2, <1>3, <2>1, ClaimIsFailedStep
<1>4. CASE configured[r] = "live"
  <2>1. lease[DestOf(r)] = Nobody /\ JobsAfterReset[r].status = "scheduled"
    BY <1>2 DEF IsClaimable, DestOf
  <2>2. {e \in Entries : RouteOf[e] = r /\ EntriesAfterReset[e] = "pending"} = Open(r)
    <3>1. \A e \in Entries : RouteOf[e] = r => EntriesAfterReset[e] = IF entry[e] = "claimed" THEN "pending" ELSE entry[e]
      BY <1>1, <2>1, ResetOf
    <3>. QED BY <3>1 DEF Open
  <2>3. CASE Open(r) = {}
    <3>1. First(MaxEntries, Open(r)) = {}
      BY <2>3 DEF First
    <3>2. /\ \E k \in Fresh(r) : job' = [JobsAfterReset EXCEPT ![r] = Armed(k)]
          /\ entry' = EntriesAfterReset /\ UNCHANGED <<run, lease>>
      BY <1>4, <2>2, <3>1 DEF ClaimJob, Armed
    <3>. QED BY <1>2, <1>4, <2>3, <3>2, NothingToClaimStep
  <2>4. CASE Open(r) # {}
    <3>1. PICK S \in SUBSET Entries : S = Open(r)
      BY DEF Open
    <3>2. S \in SUBSET Nat /\ S # {}
      BY <2>4, <3>1, DigestAssumption
    <3>3. First(MaxEntries, S) # {} /\ Rendered(First(MaxEntries, S)) # {} /\ Rendered(First(MaxEntries, S)) \subseteq S
      BY <3>1, <3>2, FirstKeepsLeast, RenderedIsOpen, Numbers
    <3>4. PICK C : C = Upcoming(r)
      OBVIOUS
    <3>5. C = Rendered(First(MaxEntries, Open(r))) /\ C # {} /\ C \subseteq Open(r) /\ First(MaxEntries, Open(r)) # {}
      BY <2>4, <3>1, <3>3, <3>4 DEF Upcoming
    <3>6. /\ run[p][DestOf(r)].phase = "idle"
          /\ job' = [JobsAfterReset EXCEPT ![r].status = "processing", ![r].token = p]
          /\ entry' = [e \in Entries |-> IF e \in C THEN "claimed" ELSE EntriesAfterReset[e]]
          /\ Acquire(p, DestOf(r))
          /\ SetRun(p, DestOf(r), [Idle(r) EXCEPT !.phase = "session", !.key = job[r].key, !.content = C])
      BY <1>4, <2>2, <3>5 DEF ClaimJob, DestOf
    <3>7. PICK d : d = DestOf(r)
      OBVIOUS
    <3>8. Claims(p, d, r, C)
      BY <1>2, <1>4, <2>1, <3>4, <3>5, <3>6, <3>7 DEF Claims, net, admin
    <3>9. DigestTypeOK' /\ Claimed(p, d, r, C)
      BY <1>1, <3>8, ClaimTyping
    <3>. QED BY <3>9, ClaimShapes, ClaimClaims, ClaimThreads DEF DigestInv
  <2>. QED BY <2>3, <2>4
<1>. QED BY <1>3, <1>4
--------------------------------------------------------------------------------
(***************************************************************************)
(* The theorems.                                                           *)
(***************************************************************************)
LEMMA DigestStarts == DigestInit => DigestInv
<1> SUFFICES ASSUME DigestInit PROVE DigestInv
  OBVIOUS
<1>1. NoJob \in Job /\ NoPlan \in Plan /\ NoPlan.content = {} /\ NoPlan.done = 0 /\ NoJob.status = "absent"
  BY NoJobTyped, NoPlanTyped
<1>2. \A r \in Routes : job[r] = NoJob /\ configured[r] = "new" /\ \A k \in Runs : plan[r][k] = NoPlan
  BY DEF DigestInit
<1>3. TablesTyped /\ PlansTyped /\ SentTyped
  BY <1>1 DEF DigestInit, TablesTyped, PlansTyped, SentTyped, Statuses
<1>4. RestTyped
  BY DigestAssumption DEF DigestInit, RestTyped, LeaseInit, LeaseTypeOK
<1>5. AnyRoute \in Routes
  BY DigestAssumption, AnyRouteIsThere
<1>6. \A p \in Runtimes, d \in Destinations : run[p][d] \in Execution /\ run[p][d].phase = "idle"
  BY <1>5, IdleTyped DEF DigestInit
<1>7. RunsTyped
  BY <1>5, IdleTyped DEF DigestInit, RunsTyped
<1>8. DigestTypeOK
  BY <1>3, <1>4, <1>7, DigestTypes
<1>9. Requested = {} /\ \A e \in Entries : entry[e] = "absent"
  BY DEF DigestInit, Requested
<1>10. ShapesFit
  BY <1>1, <1>2, <1>6, <1>9 DEF ShapesFit, RunsFit, RunFits, RequestsFit, PlansFit, EntriesFit
<1>11. OwnersFit /\ HoldersFit /\ NextsFit /\ AreSettled
  <2>1. OwnersFit
    BY <1>6 DEF OwnersFit
  <2>2. \A p \in Runtimes, r \in Routes : ~IsHolder(p, r)
    BY <1>1, <1>2 DEF IsHolder, HoldsClaim
  <2>3. HoldersFit
    BY <2>2 DEF HoldersFit, HolderFits
  <2>4. NextsFit /\ AreSettled
    BY <1>2 DEF NextsFit, NextFits, AreSettled, IsSettled
  <2>. QED BY <2>1, <2>3, <2>4
<1>12. ThreadsFit
  <2>1. AreApart /\ OwnersApart
    BY <1>9 DEF AreApart, OwnersApart
  <2>2. DoneIsThere
    <3> SUFFICES ASSUME NEW r \in Routes, NEW k \in Runs, NEW c \in 1 .. plan[r][k].done PROVE FALSE
      BY DEF DoneIsThere
    <3>1. plan[r][k].done = 0
      BY <1>1, <1>2
    <3>. QED BY <3>1
  <2>3. PassedIsThere /\ OwnersGoOn
    BY <1>6 DEF PassedIsThere, PassedFit, OwnersGoOn
  <2>4. DeliveredFit
    BY <1>9 DEF DeliveredFit
  <2>. QED BY <2>1, <2>2, <2>3, <2>4 DEF ThreadsFit
<1>. QED BY <1>8, <1>10, <1>11, <1>12 DEF DigestInv, ClaimsFit

LEMMA DigestStays ==
  ASSUME DigestInv, UNCHANGED digestVars
  PROVE  DigestInv'
<1>1. UNCHANGED <<lease, entry, job, plan, wire, feed, run, up, configured, meddled, spent>>
  BY DEF digestVars, rows, net, admin
<1>2. DigestTypeOK /\ DigestTypeOK'
  BY <1>1 DEF DigestInv, DigestTypeOK, LeaseTypeOK
<1>3. RunsGoOn /\ NoNewOwner
  BY <1>1 DEF RunsGoOn, SameWork, NoNewOwner, Owns
<1>. QED BY <1>1, <1>2, <1>3, TablesAlone, QuietKeepsAll

LEMMA DigestGoesOn ==
  ASSUME DigestInv, [DigestNext]_digestVars
  PROVE  DigestInv'
<1>1. CASE \E p \in Runtimes : WorkerStep(p)
  <2>1. PICK p \in Runtimes : WorkerStep(p)
    BY <1>1
  <2>2. ASSUME NEW r \in Routes, ClaimJob(p, r) PROVE DigestInv'
    BY <2>2, ClaimJobStep
  <2>3. ASSUME NEW d \in Destinations, Execute(p, d) PROVE DigestInv'
    BY <2>3, ExecuteStep, CompleteStep, QuietKeepsAll DEF Execute
  <2>4. CASE FindNothing(p)
    BY <2>4, FindNothingStep
  <2>5. CASE RenewLeases(p)
    BY <2>5, RenewStep
  <2>6. CASE StopWorker(p)
    BY <2>6, StopStep
  <2>7. CASE ExitWorker(p)
    BY <2>7, ExitStep
  <2>8. CASE Crash(p)
    BY <2>8, CrashStep
  <2>9. CASE StartWorker(p)
    BY <2>9, StartStep
  <2>. QED BY <2>1, <2>2, <2>3, <2>4, <2>5, <2>6, <2>7, <2>8, <2>9 DEF WorkerStep
<1>2. CASE DigestEnvironment
  <2>1. ASSUME NEW e \in Entries, Enqueue(e) PROVE DigestInv'
    BY <2>1, EnqueueStep
  <2>2. ASSUME NEW r \in Routes, RunIsDue(r) \/ BackoffElapses(r) PROVE DigestInv'
    BY <2>2, ClockStep
  <2>3. ASSUME NEW r \in Routes, CreateRoute(r) PROVE DigestInv'
    BY <2>3, CreateStep
  <2>4. ASSUME NEW r \in Routes, PublishNow(r) \/ Reschedule(r) PROVE DigestInv'
    BY <2>4, RearmStep
  <2>5. ASSUME NEW r \in Routes, RetryJob(r) PROVE DigestInv'
    BY <2>5, RetryStep
  <2>6. ASSUME NEW r \in Routes, CancelJob(r) PROVE DigestInv'
    BY <2>6, CancelStep
  <2>7. ASSUME NEW r \in Routes, DeleteRoute(r) PROVE DigestInv'
    BY <2>7, DeleteStep
  <2>8. ASSUME NEW d \in Destinations, AbandonedLeaseLapses(d) \/ Stall(d) PROVE DigestInv'
    BY <2>8, LapseStep
  <2>9. ASSUME NEW q \in wire, RequestArrives(q) \/ RequestIsLost(q) PROVE DigestInv'
    BY <2>9, RequestStep
  <2>. QED BY <1>2, <2>1, <2>2, <2>3, <2>4, <2>5, <2>6, <2>7, <2>8, <2>9 DEF DigestEnvironment
<1>3. CASE UNCHANGED digestVars
  BY <1>3, DigestStays
<1>. QED BY <1>1, <1>2, <1>3 DEF DigestNext

\* The tables, plans, requests and executions of digests always have their types.
THEOREM DigestTyping == DigestSpec => []DigestTypeOK
<1>1. DigestInv => DigestTypeOK
  BY DEF DigestInv
<1>. QED BY <1>1, DigestStarts, DigestGoesOn, PTL DEF DigestSpec

\* complete() and the keys of runs, for any number of processes, routes, entries, crashes
\* and takeovers: what is delivered is on the PDS as a whole thread, and where nobody arms
\* or cancels a route in the middle of a run, no two threads have an entry in common.
THEOREM EntriesAppearOnce == DigestSpec => []EntriesArePublishedOnce
<1>1. DigestInv => EntriesArePublishedOnce
  BY DEF DigestInv, ThreadsFit, AreApart, DeliveredFit, EntriesArePublishedOnce, Requested
<1>. QED BY <1>1, DigestStarts, DigestGoesOn, PTL DEF DigestSpec
====
