--------------------------- MODULE AsyncSemaphore ----------------------------
(***************************************************************************)
(* asyncio.Semaphore as this repository uses it: entered and left by       *)
(* `async with`, by tasks that may be cancelled anywhere.  The rate        *)
(* limiter and the suite runner extend this module and say where a task    *)
(* goes when it has a permit and when it has given it back.                *)
(***************************************************************************)
EXTENDS Integers, Sequences, FiniteSets

CONSTANTS Tasks,       \* the tasks that may enter the semaphore
          MaxPermits   \* its initial value; 0 stands for no semaphore at all

ASSUME MaxPermitsAssumption == MaxPermits \in Nat

VARIABLES pc,        \* where each task is; "waiting" and "granted" belong to
                     \* the semaphore, the rest to the module that extends it
          permits,   \* _value
          queue      \* waiters not yet handed a permit, oldest first

Limited == MaxPermits > 0

At(p) == {c \in Tasks : pc[c] = p}

(* The tasks between acquire and release: they own one permit each. *)
Holding == {"granted", "sleeping", "running", "asking"}
Holders == {c \in Tasks : pc[c] \in Holding}

(* locked(): a newcomer queues behind waiters even when a permit is free,   *)
(* and a waiter that was handed a permit counts until its task resumes.     *)
Locked == permits = 0 \/ queue # <<>> \/ At("granted") # {}

(* _wake_up_next, n times: hand n of p permits to the oldest waiters of q,  *)
(* the other tasks standing as in f.                                        *)
WakeNext(n, p, q, f) ==
    /\ permits' = p - n
    /\ queue' = SubSeq(q, n + 1, Len(q))
    /\ pc' = [c \in Tasks |->
                IF \E i \in 1..n : q[i] = c THEN "granted" ELSE f[c]]

(* acquire wakes as many waiters as there are permits when it is left;      *)
(* release wakes at most one.                                               *)
Wakeable(p, q) == IF p < Len(q) THEN p ELSE Len(q)

(* A cancelled waiter leaves the queue, the others keeping their order. *)
Without(q, c) ==
    LET at == CHOOSE i \in 1..Len(q) : q[i] = c
    IN  [i \in 1..(Len(q) - 1) |-> IF i < at THEN q[i] ELSE q[i + 1]]

SemInit ==
    /\ permits = MaxPermits
    /\ queue = <<>>

(* acquire without waiting; the task goes on to p. *)
Acquire(c, p) ==
    /\ Limited => ~Locked
    /\ permits' = IF Limited THEN permits - 1 ELSE permits
    /\ pc' = [pc EXCEPT ![c] = p]
    /\ UNCHANGED queue

(* acquire that has to wait. *)
Enqueue(c) ==
    /\ Limited /\ Locked
    /\ pc' = [pc EXCEPT ![c] = "waiting"]
    /\ queue' = Append(queue, c)
    /\ UNCHANGED permits

(* The task of a waiter that was handed a permit runs again: it passes the  *)
(* remaining permits on and goes to p.                                      *)
Resume(c, p) ==
    /\ pc[c] = "granted"
    /\ WakeNext(Wakeable(permits, queue), permits, queue, [pc EXCEPT ![c] = p])

(* Leaving the semaphore, with or without an error: one waiter is woken.    *)
Release(c, p) ==
    IF Limited
    THEN WakeNext(Wakeable(1, queue), permits + 1, queue, [pc EXCEPT ![c] = p])
    ELSE pc' = [pc EXCEPT ![c] = p] /\ UNCHANGED <<permits, queue>>

(* Fault: cancellation takes a permit that was already handed over along.   *)
WithdrawWithPermit(c, p) ==
    /\ pc[c] \in {"waiting", "granted"}
    /\ LET q == IF pc[c] = "granted" THEN queue ELSE Without(queue, c)
       IN  WakeNext(Wakeable(permits, q), permits, q, [pc EXCEPT ![c] = p])

(* Cancelled while queueing.  A waiter that already had a permit gives it   *)
(* back before the remaining permits are passed on.                         *)
Withdraw(c, p) ==
    /\ pc[c] \in {"waiting", "granted"}
    /\ LET v == IF pc[c] = "granted" THEN permits + 1 ELSE permits
           q == IF pc[c] = "granted" THEN queue ELSE Without(queue, c)
       IN  WakeNext(Wakeable(v, q), v, q, [pc EXCEPT ![c] = p])

-----------------------------------------------------------------------------
(* The semaphore never lends more permits than it has and never loses one,  *)
(* whoever is cancelled and wherever: a permit is in the semaphore or with  *)
(* one task that can still give it back.                                    *)
PermitsConserved ==
    Limited => permits + Cardinality(Holders) = MaxPermits

(* A task queues with a permit free only while the task that will pass that *)
(* permit on is about to resume: no wake-up is ever lost.                   *)
NoLostWakeup ==
    (permits > 0 /\ queue # <<>>) => At("granted") # {}

(* The queue holds exactly the waiting tasks, each of them once. *)
QueueIsWaiting ==
    /\ \A i \in 1..Len(queue) : pc[queue[i]] = "waiting"
    /\ \A c \in At("waiting") : \E i \in 1..Len(queue) : queue[i] = c
    /\ \A i, j \in 1..Len(queue) : i # j => queue[i] # queue[j]
=============================================================================
