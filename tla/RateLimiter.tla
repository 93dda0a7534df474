----------------------------- MODULE RateLimiter -----------------------------
(***************************************************************************)
(* MinIntervalRateLimiter.throttle of giskard-core: an asynchronous        *)
(* context manager that paces requests.  Callers are asyncio tasks sharing *)
(* one limiter state: a semaphore of max_concurrent permits (or none at    *)
(* all) and the time of the next free slot.  A caller takes a permit,      *)
(* reserves a slot without yielding to the loop, sleeps until the slot is  *)
(* due, runs its request and gives the permit back.                        *)
(*                                                                         *)
(* Time is an integer.  asyncio.sleep never returns early but may return   *)
(* late, because the loop was busy: Lateness bounds by how much.           *)
(***************************************************************************)
EXTENDS AsyncSemaphore

CONSTANTS Interval,       \* min_interval
          Lateness,       \* how late the loop may wake a sleeper
          MaxCalls,       \* bound: requests one caller makes
          IdleHorizon     \* bound: time flows freely up to this instant

ASSUME IntervalAssumption == Interval \in Nat
ASSUME LatenessAssumption == Lateness \in Nat
ASSUME BoundsAssumption == MaxCalls \in Nat /\ IdleHorizon \in Nat

VARIABLES clock,      \* time.monotonic()
          nextTime,   \* _state.next_request_time
          slot,       \* the slot each caller reserved last
          calls,      \* requests each caller has begun to wait for
          lastStart,  \* history: when the latest request started
          lastSlot    \* history: the slot of that request

vars == <<clock, pc, nextTime, permits, queue, slot, calls, lastStart, lastSlot>>

Positions == {"idle", "waiting", "granted", "sleeping", "running"}

Init ==
    /\ clock = 0
    /\ pc = [c \in Tasks |-> "idle"]
    /\ SemInit
    /\ nextTime = 0
    /\ slot = [c \in Tasks |-> 0]
    /\ calls = [c \in Tasks |-> 0]
    /\ lastStart = -Interval
    /\ lastSlot = -Interval

-----------------------------------------------------------------------------
(* The body of throttle from the entry of the semaphore to the first await. *)

Due == IF nextTime > clock THEN nextTime ELSE clock

(* Where the caller that reserves now goes: to sleep, or straight on.       *)
AfterReserve == IF nextTime > clock THEN "sleeping" ELSE "running"

(* Fault: an idle limiter counts from the last reserved slot, not from now. *)
ReserveFromLast(c) ==
    /\ slot' = [slot EXCEPT ![c] = Due]
    /\ nextTime' = nextTime + Interval
    /\ IF nextTime > clock
       THEN UNCHANGED <<lastStart, lastSlot>>
       ELSE lastStart' = clock /\ lastSlot' = Due

Reserve(c) ==
    /\ slot' = [slot EXCEPT ![c] = Due]
    /\ nextTime' = Due + Interval
    /\ IF nextTime > clock
       THEN UNCHANGED <<lastStart, lastSlot>>
       ELSE lastStart' = clock /\ lastSlot' = Due

(* A caller enters throttle and finds the semaphore free, or there is none. *)
Enter(c) ==
    /\ pc[c] = "idle" /\ calls[c] < MaxCalls
    /\ calls' = [calls EXCEPT ![c] = @ + 1]
    /\ Acquire(c, AfterReserve)
    /\ Reserve(c)
    /\ UNCHANGED clock

(* A caller enters throttle and has to queue for a permit. *)
Wait(c) ==
    /\ pc[c] = "idle" /\ calls[c] < MaxCalls
    /\ calls' = [calls EXCEPT ![c] = @ + 1]
    /\ Enqueue(c)
    /\ UNCHANGED <<clock, nextTime, slot, lastStart, lastSlot>>

(* The task that was handed a permit resumes, and reserves its slot in the  *)
(* same step.                                                               *)
Proceed(c) ==
    /\ Resume(c, AfterReserve)
    /\ Reserve(c)
    /\ UNCHANGED <<clock, calls>>

(* asyncio.sleep returns, at the slot or up to Lateness after it. *)
Wake(c) ==
    /\ pc[c] = "sleeping" /\ clock >= slot[c]
    /\ pc' = [pc EXCEPT ![c] = "running"]
    /\ lastStart' = clock
    /\ lastSlot' = slot[c]
    /\ UNCHANGED <<clock, nextTime, permits, queue, slot, calls>>

(* The request inside the context ends, normally or by an exception. *)
Finish(c) ==
    /\ pc[c] = "running"
    /\ Release(c, "idle")
    /\ UNCHANGED <<clock, nextTime, slot, calls, lastStart, lastSlot>>

(* Cancelled while asleep: the permit goes back, the slot stays reserved.   *)
CancelSleep(c) ==
    /\ pc[c] = "sleeping"
    /\ Release(c, "idle")
    /\ UNCHANGED <<clock, nextTime, slot, calls, lastStart, lastSlot>>

CancelWait(c) ==
    /\ Withdraw(c, "idle")
    /\ UNCHANGED <<clock, nextTime, slot, calls, lastStart, lastSlot>>

(* Time passes; no sleeper oversleeps by more than Lateness.  Beyond        *)
(* IdleHorizon it passes only while somebody sleeps.                        *)
Tick ==
    /\ clock < IdleHorizon \/ \E c \in At("sleeping") : clock < slot[c]
    /\ \A c \in At("sleeping") : clock < slot[c] + Lateness
    /\ clock' = clock + 1
    /\ UNCHANGED <<pc, nextTime, permits, queue, slot, calls, lastStart, lastSlot>>

Next ==
    \/ Tick
    \/ \E c \in Tasks :
         \/ Enter(c) \/ Wait(c) \/ Proceed(c) \/ Wake(c)
         \/ Finish(c) \/ CancelSleep(c) \/ CancelWait(c)

Spec == Init /\ [][Next]_vars

(* The loop runs ready tasks and time goes on; requests return.  Nobody is  *)
(* obliged to call the limiter or to cancel.                                *)
Fairness ==
    /\ WF_vars(Tick)
    /\ \A c \in Tasks : WF_vars(Proceed(c)) /\ WF_vars(Wake(c)) /\ WF_vars(Finish(c))

FairSpec == Spec /\ Fairness

-----------------------------------------------------------------------------
(* Type invariant. *)
TypeOK ==
    /\ clock \in Nat
    /\ pc \in [Tasks -> Positions]
    /\ nextTime \in Nat
    /\ permits \in Nat
    /\ queue \in Seq(Tasks)
    /\ slot \in [Tasks -> Nat]
    /\ calls \in [Tasks -> Nat]
    /\ lastStart \in Int
    /\ lastSlot \in Int

Apart(s, t) == s >= t + Interval \/ t >= s + Interval

(* Pending slots keep min_interval from each other, from the slot of the    *)
(* latest start and from the slot that the next caller will get.            *)
SlotsApart ==
    /\ \A c, d \in At("sleeping") : c # d => Apart(slot[c], slot[d])
    /\ \A c \in At("sleeping") : Apart(slot[c], lastSlot) /\ slot[c] + Interval <= nextTime
    /\ lastSlot + Interval <= nextTime

(* Nobody starts before the slot it reserved, nor later than the loop is    *)
(* late.                                                                    *)
StartOnSlot ==
    /\ lastSlot <= lastStart /\ lastStart <= lastSlot + Lateness
    /\ lastStart <= clock
    /\ \A c \in At("sleeping") : clock <= slot[c] + Lateness

Starts(c) == pc[c] # "running" /\ pc'[c] = "running"

(* What pacing amounts to for requests that really start: two consecutive   *)
(* starts are min_interval apart, less the lateness of the loop.            *)
StartsPaced ==
    [][\A c \in Tasks : Starts(c) => clock - lastStart >= Interval - Lateness]_vars

(* Every caller that queues for a permit or sleeps gets its turn, unless it *)
(* is cancelled: with finite requests the limiter starves nobody.           *)
EveryoneServed ==
    \A c \in Tasks :
        pc[c] \in {"waiting", "granted", "sleeping"} ~> pc[c] \in {"running", "idle"}
=============================================================================
