------------------------------ MODULE XRateGovernor ------------------------------
(***************************************************************************)
(* The governor every X request of a process passes through                *)
(* (src/src/x-rate-limit.ts).  acquire() waits out a cooldown and a full    *)
(* window, looking again after each wait, then reserves a slot and sleeps   *)
(* until it; a request that X answers with a limit starts a cooldown.       *)
(*                                                                         *)
(* Time is counted in units of the smallest gap that matters, and a timer   *)
(* fires when it is due: time stands still while a sleeper is to wake.      *)
(***************************************************************************)
EXTENDS Integers, FiniteSets

CONSTANTS Fetchers,                   \* concurrent callers of acquire()
          MinGap, Jitter, MaxRequestsPerWindow, Window, CooldownBase, CooldownMax,
          MaxTime                     \* bound on the clock

ASSUME GovernorAssumption ==
  /\ MinGap \in Nat \ {0} /\ Jitter \in Nat
  /\ MaxRequestsPerWindow \in Nat \ {0} /\ Window \in Nat \ {0}
  /\ CooldownBase \in Nat \ {0} /\ CooldownMax \in Nat \ {0}
  /\ MaxTime \in Nat

VARIABLES clock,           \* Date.now()
          nextSlot,        \* nextSlotMs
          cooldownUntil,   \* cooldownUntilMs
          limitHits,       \* consecutiveLimitHits
          recentRequests,  \* reserved slots that are not expired
          fetcher,         \* where each caller is, and until when it sleeps
          requestTimes     \* when requests were started

governorVars == <<clock, nextSlot, cooldownUntil, limitHits, recentRequests, fetcher, requestTimes>>
--------------------------------------------------------------------------------
GovernorTypeOK ==
  /\ clock \in 0 .. MaxTime
  /\ nextSlot \in Nat /\ cooldownUntil \in 0 .. clock + CooldownMax
  /\ limitHits \in Nat
  /\ recentRequests \subseteq Nat
  /\ Cardinality(recentRequests) <= MaxRequestsPerWindow
  /\ fetcher \in [Fetchers -> [at : {"idle", "waiting", "reserved", "requesting"}, wake : Nat]]
  /\ requestTimes \subseteq 0 .. MaxTime

GovernorInit ==
  /\ clock = 0 /\ nextSlot = 0 /\ cooldownUntil = 0 /\ limitHits = 0
  /\ recentRequests = {} /\ requestTimes = {}
  /\ fetcher = [f \in Fetchers |-> [at |-> "idle", wake |-> 0]]
--------------------------------------------------------------------------------
Lowest(a, b) == IF a < b THEN a ELSE b
Highest(a, b) == IF a > b THEN a ELSE b
Earliest(S) == CHOOSE s \in S : \A t \in S : s <= t

\* forgetExpired(): slots that left the window by the given time.
Unexpired(slots, time) == {s \in slots : s > time - Window}

IsFull(slots) == Cardinality(slots) >= MaxRequestsPerWindow

SetFetcher(f, at, wake) == fetcher' = [fetcher EXCEPT ![f] = [at |-> at, wake |-> wake]]

Go(f) == SetFetcher(f, "requesting", 0) /\ requestTimes' = requestTimes \cup {clock}

\* A turn of the loop of acquire(), at its start or after a wait.
IsTurnOf(f) == fetcher[f].at \in {"idle", "waiting"} /\ fetcher[f].wake <= clock

WaitForCooldown(f) ==
  /\ IsTurnOf(f) /\ cooldownUntil > clock
  /\ SetFetcher(f, "waiting", cooldownUntil)
  /\ UNCHANGED <<clock, nextSlot, cooldownUntil, limitHits, recentRequests, requestTimes>>

WaitForWindow(f) ==
  LET recent == Unexpired(recentRequests, clock) IN
  /\ IsTurnOf(f) /\ cooldownUntil <= clock /\ IsFull(recent)
  /\ SetFetcher(f, "waiting", Earliest(recent) + Window)
  /\ recentRequests' = recent
  /\ UNCHANGED <<clock, nextSlot, cooldownUntil, limitHits, requestTimes>>

\* Mutation: the slot is reserved without its gap when the governor is idle.
SlotOrNow(slot, gap) == IF slot = clock THEN slot ELSE slot + gap

SlotAfter(slot, gap) == slot + gap

\* The slot is in recentRequests before the caller sleeps until it; a slot that is due
\* is taken without a sleep.
ReserveSlot(f, gap) ==
  LET recent == Unexpired(recentRequests, clock)
      slot   == Highest(clock, nextSlot)
  IN
  /\ IsTurnOf(f) /\ cooldownUntil <= clock /\ ~IsFull(recent)
  /\ nextSlot' = SlotAfter(slot, gap)
  /\ recentRequests' = Unexpired(recent \cup {slot}, slot)
  /\ IF slot > clock THEN SetFetcher(f, "reserved", slot) /\ UNCHANGED requestTimes ELSE Go(f)
  /\ UNCHANGED <<clock, cooldownUntil, limitHits>>

\* acquire() returns, without another look at the cooldown.
StartRequest(f) ==
  /\ fetcher[f].at = "reserved" /\ fetcher[f].wake <= clock
  /\ Go(f)
  /\ UNCHANGED <<clock, nextSlot, cooldownUntil, limitHits, recentRequests>>

Backoff(hits) == Lowest(CooldownBase * 2 ^ (hits - 1), CooldownMax)

\* noteRateLimited(): with the reset time of the response, if it is a time to come.
NoteRateLimited(f, reset) ==
  LET until == IF reset > clock THEN Lowest(reset, clock + CooldownMax) ELSE clock + Backoff(limitHits + 1) IN
  /\ fetcher[f].at = "requesting" /\ SetFetcher(f, "idle", 0)
  /\ limitHits' = limitHits + 1
  /\ cooldownUntil' = Highest(cooldownUntil, until)
  /\ nextSlot' = Highest(nextSlot, cooldownUntil')
  /\ UNCHANGED <<clock, recentRequests, requestTimes>>

\* noteSuccess().
NoteSuccess(f) ==
  /\ fetcher[f].at = "requesting" /\ SetFetcher(f, "idle", 0)
  /\ limitHits' = 0
  /\ UNCHANGED <<clock, nextSlot, cooldownUntil, recentRequests, requestTimes>>

\* Any other answer, and the callers that tell the governor nothing.
EndRequest(f) ==
  /\ fetcher[f].at = "requesting" /\ SetFetcher(f, "idle", 0)
  /\ UNCHANGED <<clock, nextSlot, cooldownUntil, limitHits, recentRequests, requestTimes>>

PassTime ==
  /\ clock < MaxTime
  /\ \A f \in Fetchers : fetcher[f].at \in {"waiting", "reserved"} => fetcher[f].wake > clock
  /\ clock' = clock + 1
  /\ UNCHANGED <<nextSlot, cooldownUntil, limitHits, recentRequests, fetcher, requestTimes>>
--------------------------------------------------------------------------------
GovernorNext ==
  \/ PassTime
  \/ \E f \in Fetchers :
       \/ WaitForCooldown(f) \/ WaitForWindow(f) \/ \E gap \in MinGap .. MinGap + Jitter : ReserveSlot(f, gap)
       \/ StartRequest(f)
       \/ NoteSuccess(f) \/ EndRequest(f) \/ \E reset \in {0, clock + 1, clock + CooldownMax + 1} : NoteRateLimited(f, reset)

GovernorSpec == GovernorInit /\ [][GovernorNext]_governorVars
--------------------------------------------------------------------------------
(***************************************************************************)
(* Properties.                                                             *)
(***************************************************************************)
Starts == \E f \in Fetchers : fetcher[f].at # "requesting" /\ fetcher'[f].at = "requesting"

\* However many callers wait, and whatever cooldowns come between, a request starts at
\* least the minimum gap after every other of the process.
RequestsAreSpaced == [][Starts => \A t \in requestTimes : t + MinGap <= clock]_governorVars

\* The comments of acquire() and noteRateLimited(): no request fires during a cooldown,
\* a slot that was reserved before it included.
RequestsStopDuringCooldown == [][Starts => cooldownUntil <= clock]_governorVars
================================================================================
