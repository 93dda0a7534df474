------------------------ MODULE AsyncSemaphore_proofs ------------------------
(***************************************************************************)
(* Every operation of the semaphore keeps its invariants, for every set of *)
(* tasks and every number of permits.  The modules that extend             *)
(* AsyncSemaphore cite these lemmas, one for each operation they use.      *)
(***************************************************************************)
EXTENDS AsyncSemaphore, SequenceTheorems, FiniteSetTheorems, TLAPS

(* Dropping the first n elements of a queue leaves a queue of the others.   *)
LEMMA DropFirst ==
    ASSUME NEW S, NEW q \in Seq(S), NEW n \in 0..Len(q)
    PROVE  /\ SubSeq(q, n + 1, Len(q)) \in Seq(S)
           /\ Len(SubSeq(q, n + 1, Len(q))) = Len(q) - n
           /\ \A i \in 1..(Len(q) - n) : SubSeq(q, n + 1, Len(q))[i] = q[i + n]
<1>1. Len(q) \in Nat /\ (\A i \in 1..Len(q) : q[i] \in S)
  BY LenProperties, ElementOfSeq
<1>2. n + 1 \in 1..(Len(q) + 1)
  BY <1>1
<1>3. \A i \in (n + 1)..Len(q) : q[i] \in S
  BY <1>1
<1>4. CASE n = Len(q)
  BY <1>1, <1>4, EmptySeq, SubSeqProperties
<1>5. CASE n < Len(q)
  BY <1>1, <1>5, SubSeqProperties
<1> QED
  BY <1>1, <1>4, <1>5

LEMMA WakeableBounds ==
    ASSUME NEW p \in Nat, NEW q \in Seq(Tasks)
    PROVE  /\ Wakeable(p, q) \in 0..Len(q)
           /\ p - Wakeable(p, q) \in Nat
BY LenProperties DEF Wakeable

-----------------------------------------------------------------------------
(* QueueIsWaiting, as a relation between any queue and any assignment of    *)
(* positions: the semaphore's steps go through intermediate ones.           *)
Lists(q, f) ==
    /\ q \in Seq(Tasks)
    /\ f = [c \in Tasks |-> f[c]]
    /\ \A i \in 1..Len(q) : f[q[i]] = "waiting"
    /\ \A c \in Tasks : f[c] = "waiting" => \E i \in 1..Len(q) : q[i] = c
    /\ \A i, j \in 1..Len(q) : i # j => q[i] # q[j]

(* Positions of tasks that have nothing to do with the semaphore. *)
Outside(p) == p \notin Holding /\ p # "waiting"

(* Positions of tasks that are between acquire and release. *)
Inside == Holding \ {"granted"}

LEMMA PositionKinds ==
    /\ \A p \in Inside : p \notin {"waiting", "granted"} /\ p \in Holding
    /\ \A p : Outside(p) => p \notin {"waiting", "granted"}
BY DEF Inside, Outside, Holding

(* Moving a task that does not queue keeps the queue as it is. *)
LEMMA MoveLists ==
    ASSUME NEW q, NEW f, Lists(q, f), NEW c \in Tasks, f[c] # "waiting",
           NEW p, p # "waiting"
    PROVE  Lists(q, [f EXCEPT ![c] = p])
<1>1. \A i \in 1..Len(q) : q[i] \in Tasks
  BY ElementOfSeq DEF Lists
<1> QED
  BY <1>1 DEF Lists

(* A waiter leaves the queue by cancellation. *)
LEMMA WithoutLists ==
    ASSUME NEW q, NEW f, Lists(q, f), NEW c \in Tasks, f[c] = "waiting",
           NEW p, p # "waiting"
    PROVE  Lists(Without(q, c), [f EXCEPT ![c] = p])
<1> DEFINE at == CHOOSE i \in 1..Len(q) : q[i] = c
           w == Without(q, c)
           g == [f EXCEPT ![c] = p]
<1>1. Len(q) \in Nat /\ (\A i \in 1..Len(q) : q[i] \in Tasks)
  BY LenProperties, ElementOfSeq DEF Lists
<1>2. at \in 1..Len(q) /\ q[at] = c
  BY DEF Lists
<1>3. w = [i \in 1..(Len(q) - 1) |-> IF i < at THEN q[i] ELSE q[i + 1]]
  BY DEF Without
<1>4. w \in Seq(Tasks) /\ Len(w) = Len(q) - 1
  <2>1. Len(q) - 1 \in Nat
    BY <1>1, <1>2
  <2>2. \A i \in 1..(Len(q) - 1) : (IF i < at THEN q[i] ELSE q[i + 1]) \in Tasks
    BY <1>1
  <2>3. w \in [1..(Len(q) - 1) -> Tasks]
    BY <1>3, <2>2
  <2> QED
    BY <1>3, <2>1, <2>3
<1> HIDE DEF at, w
<1>5. \A i \in 1..Len(w) : /\ w[i] = IF i < at THEN q[i] ELSE q[i + 1]
                           /\ w[i] # c
  <2> SUFFICES ASSUME NEW i \in 1..Len(w)
               PROVE  w[i] = (IF i < at THEN q[i] ELSE q[i + 1]) /\ w[i] # c
    OBVIOUS
  <2>1. w[i] = IF i < at THEN q[i] ELSE q[i + 1]
    BY <1>1, <1>2, <1>3, <1>4
  <2>2. i \in 1..Len(q) /\ i + 1 \in 1..Len(q)
    BY <1>1, <1>2, <1>4
  <2>3. i < at => q[i] # q[at]
    BY <1>1, <1>2, <2>2 DEF Lists
  <2>4. ~(i < at) => q[i + 1] # q[at]
    BY <1>1, <1>2, <2>2 DEF Lists
  <2> QED
    BY <1>2, <2>1, <2>3, <2>4
<1>6. \A i \in 1..Len(w) : g[w[i]] = "waiting"
  BY SMTT(30), <1>1, <1>4, <1>5 DEF Lists
<1>7. \A d \in Tasks : g[d] = "waiting" => \E i \in 1..Len(w) : w[i] = d
  <2> SUFFICES ASSUME NEW d \in Tasks, g[d] = "waiting"
               PROVE  \E i \in 1..Len(w) : w[i] = d
    OBVIOUS
  <2>1. d # c /\ f[d] = "waiting"
    BY DEF Lists
  <2>2. PICK k \in 1..Len(q) : q[k] = d
    BY <2>1 DEF Lists
  <2>3. CASE k < at
    BY <1>1, <1>2, <1>4, <1>5, <2>2, <2>3
  <2>4. CASE k > at
    <3>1. k - 1 \in 1..Len(w) /\ ~(k - 1 < at)
      BY <1>1, <1>2, <1>4, <2>4
    <3>2. w[k - 1] = q[(k - 1) + 1] /\ (k - 1) + 1 = k
      BY <1>1, <1>5, <3>1
    <3> QED
      BY <2>2, <3>1, <3>2
  <2> QED
    BY <1>1, <1>2, <2>1, <2>2, <2>3, <2>4
<1>8. \A i, j \in 1..Len(w) : i # j => w[i] # w[j]
  <2> SUFFICES ASSUME NEW i \in 1..Len(w), NEW j \in 1..Len(w), i # j
               PROVE  w[i] # w[j]
    OBVIOUS
  <2> DEFINE m == IF i < at THEN i ELSE i + 1
             n == IF j < at THEN j ELSE j + 1
  <2>1. m \in 1..Len(q) /\ n \in 1..Len(q) /\ m # n
    BY <1>1, <1>2, <1>4
  <2>2. w[i] = q[m] /\ w[j] = q[n]
    BY <1>5
  <2> HIDE DEF m, n
  <2> QED
    BY <2>1, <2>2 DEF Lists
<1>9. g = [d \in Tasks |-> g[d]]
  BY DEF Lists
<1> QED
  BY <1>4, <1>6, <1>7, <1>8, <1>9 DEF Lists, w

(* Handing n permits to the head of the queue keeps the queue in order. *)
LEMMA WakeNextLists ==
    ASSUME NEW p \in Nat, NEW q, NEW f, Lists(q, f),
           NEW n \in 0..Len(q), p - n \in Nat,
           WakeNext(n, p, q, f)
    PROVE  /\ Lists(queue', pc')
           /\ permits' \in Nat
<1>1. Len(q) \in Nat /\ q \in Seq(Tasks) /\ (\A i \in 1..Len(q) : q[i] \in Tasks)
  BY LenProperties, ElementOfSeq DEF Lists
<1>2. permits' = p - n /\ queue' = SubSeq(q, n + 1, Len(q))
  BY DEF WakeNext
<1>3. pc' = [c \in Tasks |-> IF \E i \in 1..n : q[i] = c THEN "granted" ELSE f[c]]
  BY DEF WakeNext
<1>4. /\ queue' \in Seq(Tasks)
      /\ Len(queue') = Len(q) - n
      /\ \A i \in 1..Len(queue') : queue'[i] = q[i + n]
  BY <1>1, <1>2, DropFirst
<1>5. pc' = [c \in Tasks |-> pc'[c]]
  BY <1>3
<1>6. \A i \in 1..Len(queue') : pc'[queue'[i]] = "waiting"
  <2> SUFFICES ASSUME NEW i \in 1..Len(queue') PROVE pc'[queue'[i]] = "waiting"
    OBVIOUS
  <2>1. i + n \in 1..Len(q) /\ queue'[i] = q[i + n] /\ q[i + n] \in Tasks
    BY <1>1, <1>4
  <2>2. \A k \in 1..n : k \in 1..Len(q) /\ k # i + n
    BY <1>1, <1>4
  <2>3. \A k \in 1..n : q[k] # q[i + n]
    BY <2>1, <2>2 DEF Lists
  <2> QED
    BY <1>3, <2>1, <2>3 DEF Lists
<1>7. \A c \in Tasks : pc'[c] = "waiting" => \E i \in 1..Len(queue') : queue'[i] = c
  <2> SUFFICES ASSUME NEW c \in Tasks, pc'[c] = "waiting"
               PROVE  \E i \in 1..Len(queue') : queue'[i] = c
    OBVIOUS
  <2>1. f[c] = "waiting" /\ (\A i \in 1..n : q[i] # c)
    BY <1>3
  <2>2. PICK k \in 1..Len(q) : q[k] = c
    BY <2>1 DEF Lists
  <2> DEFINE i == k - n
  <2>a. ~(k \in 1..n)
    BY <2>1, <2>2
  <2>b. Len(queue') = Len(q) - n /\ Len(q) \in Nat
    BY <1>1, <1>4
  <2>3. i \in 1..Len(queue') /\ i + n = k
    BY <2>a, <2>b
  <2> HIDE DEF i
  <2>4. queue'[i] = q[i + n]
    BY <1>4, <2>3
  <2>5. queue'[i] = c
    BY <2>2, <2>3, <2>4
  <2> QED
    BY <2>3, <2>5
<1>8. \A i, j \in 1..Len(queue') : i # j => queue'[i] # queue'[j]
  <2> SUFFICES ASSUME NEW i \in 1..Len(queue'), NEW j \in 1..Len(queue'), i # j
               PROVE  queue'[i] # queue'[j]
    OBVIOUS
  <2>1. i + n \in 1..Len(q) /\ j + n \in 1..Len(q) /\ i + n # j + n
    BY <1>1, <1>4
  <2>2. q[i + n] # q[j + n]
    BY <2>1 DEF Lists
  <2>3. queue'[i] = q[i + n] /\ queue'[j] = q[j + n]
    BY <1>4
  <2> QED
    BY <2>2, <2>3
<1> QED
  BY <1>2, <1>4, <1>5, <1>6, <1>7, <1>8 DEF Lists

-----------------------------------------------------------------------------
(* Permits.  The tasks that own one, for any assignment of positions.     *)
HoldersOf(f) == {c \in Tasks : f[c] \in Holding}

(* n waiters that are handed a permit are n different tasks, none of      *)
(* which had one.                                                           *)
LEMMA WakeNextHolders ==
    ASSUME NEW p \in Nat, NEW q, NEW f, Lists(q, f), IsFiniteSet(HoldersOf(f)),
           NEW n \in 0..Len(q), WakeNext(n, p, q, f)
    PROVE  /\ IsFiniteSet(Holders')
           /\ permits' + Cardinality(Holders') = p + Cardinality(HoldersOf(f))
<1> DEFINE woken == {q[i] : i \in 1..n}
           g == [i \in 1..n |-> q[i]]
<1>1. Len(q) \in Nat /\ (\A i \in 1..Len(q) : q[i] \in Tasks)
  BY LenProperties, ElementOfSeq DEF Lists
<1>2. \A i \in 1..n : i \in 1..Len(q)
  BY <1>1
<1>3. IsFiniteSet(woken) /\ Cardinality(woken) = n
  <2>1. \A i, j \in 1..n : g[i] = g[j] => i = j
    BY <1>2 DEF Lists
  <2>2. g \in Bijection(1..n, woken)
    BY <2>1 DEF Bijection, Injection, Surjection, IsInjective
  <2>3. IsFiniteSet(1..n) /\ Cardinality(1..n) = n
    BY <1>1, FS_Interval
  <2> HIDE DEF g, woken
  <2> QED
    BY <2>2, <2>3, FS_Bijection DEF ExistsBijection
<1>4. woken \cap HoldersOf(f) = {}
  BY <1>2 DEF Lists, HoldersOf, Holding
<1>5. Holders' = HoldersOf(f) \cup woken
  BY <1>1, <1>2 DEF WakeNext, Holders, HoldersOf, Holding
<1>6. permits' = p - n
  BY DEF WakeNext
<1> HIDE DEF woken
<1>7. /\ IsFiniteSet(Holders')
      /\ Cardinality(Holders') = Cardinality(HoldersOf(f)) + n
  <2>1. HoldersOf(f) \cap woken = {}
    BY <1>4
  <2>2. Cardinality(HoldersOf(f)) \in Nat /\ n \in Nat
    BY <1>1, FS_CardinalityType
  <2>3. /\ IsFiniteSet(HoldersOf(f) \cup woken)
        /\ Cardinality(HoldersOf(f) \cup woken) =
             Cardinality(HoldersOf(f)) + Cardinality(woken) - Cardinality(HoldersOf(f) \cap woken)
    BY <1>3, FS_Union
  <2>4. Cardinality(HoldersOf(f) \cap woken) = 0
    BY <2>1, FS_EmptySet
  <2> QED
    BY <1>3, <1>5, <2>2, <2>3, <2>4
<1> QED
  BY <1>1, <1>6, <1>7, FS_CardinalityType

(* Handing over the first permit, or all that can be used, leaves no free   *)
(* permit to a queue that nobody will look at again.                        *)
LEMMA WakeNextWakeful ==
    ASSUME NEW p \in Nat, NEW q, NEW f, Lists(q, f),
           NEW n \in 0..Len(q), WakeNext(n, p, q, f),
           n > 0 \/ q = <<>> \/ p = 0
    PROVE  NoLostWakeup'
<1>1. Len(q) \in Nat /\ q \in Seq(Tasks) /\ (\A i \in 1..Len(q) : q[i] \in Tasks)
  BY LenProperties, ElementOfSeq DEF Lists
<1>2. permits' = p - n /\ queue' = SubSeq(q, n + 1, Len(q))
  BY DEF WakeNext
<1>3. pc' = [c \in Tasks |-> IF \E i \in 1..n : q[i] = c THEN "granted" ELSE f[c]]
  BY DEF WakeNext
<1>4. CASE n > 0
  <2>1. 1 \in 1..n /\ q[1] \in Tasks
    BY <1>1, <1>4
  <2>2. pc'[q[1]] = "granted"
    BY <1>3, <2>1
  <2> QED
    BY <2>1, <2>2 DEF NoLostWakeup, At
<1>5. CASE n = 0 /\ q = <<>>
  <2>1. queue' \in Seq(Tasks) /\ Len(queue') = 0
    BY <1>1, <1>2, <1>5, DropFirst, EmptySeq
  <2> QED
    BY <2>1, EmptySeq DEF NoLostWakeup
<1>6. CASE n = 0 /\ p = 0
  BY <1>2, <1>6 DEF NoLostWakeup
<1> QED
  BY <1>1, <1>4, <1>5, <1>6

(* The number of waiters that are woken is enough in that sense. *)
LEMMA WakeableEnough ==
    ASSUME NEW p \in Nat, NEW q \in Seq(Tasks)
    PROVE  Wakeable(p, q) > 0 \/ q = <<>> \/ p = 0
BY EmptySeq, LenProperties DEF Wakeable

-----------------------------------------------------------------------------
(* What every operation of the semaphore preserves.                         *)
SemInv ==
    /\ permits \in Nat
    /\ Lists(queue, pc)
    /\ IsFiniteSet(Holders)
    /\ PermitsConserved
    /\ NoLostWakeup

LEMMA SemInvInit ==
    ASSUME SemInit, MaxPermits \in Nat, pc = [c \in Tasks |-> pc[c]], \A c \in Tasks : Outside(pc[c])
    PROVE  SemInv
<1>1. Holders = {}
  BY DEF Holders, Outside
<1>2. Lists(queue, pc)
  BY EmptySeq DEF SemInit, Lists, Outside
<1> QED
  BY <1>1, <1>2, FS_EmptySet DEF SemInit, SemInv, PermitsConserved, NoLostWakeup

LEMMA SemInvQueue == SemInv => QueueIsWaiting /\ queue \in Seq(Tasks)
BY DEF SemInv, Lists, QueueIsWaiting, At

LEMMA SemInvStutter == SemInv /\ UNCHANGED <<pc, permits, queue>> => SemInv'
BY DEF SemInv, Lists, Holders, PermitsConserved, NoLostWakeup, At

(* WakeNext, from any intermediate queue and positions, when v permits and  *)
(* the holders in f make up the whole.                                      *)
LEMMA WakeNextSemInv ==
    ASSUME NEW v \in Nat, NEW q, NEW f, Lists(q, f), IsFiniteSet(HoldersOf(f)),
           NEW n \in 0..Len(q), v - n \in Nat, n > 0 \/ q = <<>> \/ v = 0,
           WakeNext(n, v, q, f),
           Limited => v + Cardinality(HoldersOf(f)) = MaxPermits
    PROVE  SemInv'
<1>1. Lists(queue', pc') /\ permits' \in Nat
  BY WakeNextLists
<1>2. IsFiniteSet(Holders') /\ permits' + Cardinality(Holders') = v + Cardinality(HoldersOf(f))
  BY WakeNextHolders
<1>3. NoLostWakeup'
  BY WakeNextWakeful
<1>4. PermitsConserved'
  BY <1>2 DEF PermitsConserved, Limited
<1>5. Lists(queue, pc)'
  BY <1>1 DEF Lists
<1> QED
  BY <1>1, <1>2, <1>3, <1>4, <1>5 DEF SemInv

LEMMA HoldersNat == SemInv => Cardinality(Holders) \in Nat
BY FS_CardinalityType DEF SemInv

(* A task that leaves the holders, and one that joins them.                 *)
LEMMA LeaveHolders ==
    ASSUME SemInv, NEW c \in Holders, NEW p, Outside(p)
    PROVE  LET f == [pc EXCEPT ![c] = p]
           IN  IsFiniteSet(HoldersOf(f)) /\ Cardinality(HoldersOf(f)) = Cardinality(Holders) - 1
<1> DEFINE f == [pc EXCEPT ![c] = p]
<1>1. HoldersOf(f) = Holders \ {c}
  BY DEF SemInv, Lists, HoldersOf, Holders, Outside
<1> QED
  BY <1>1, FS_RemoveElement DEF SemInv

LEMMA SameHolders ==
    ASSUME SemInv, NEW c \in Tasks, NEW p, pc[c] \in Holding <=> p \in Holding
    PROVE  HoldersOf([pc EXCEPT ![c] = p]) = Holders
BY DEF SemInv, Lists, HoldersOf, Holders

LEMMA KeepGranted ==
    ASSUME SemInv, NEW c \in Tasks, NEW p, pc[c] # "granted", pc' = [pc EXCEPT ![c] = p]
    PROVE  At("granted") \subseteq At("granted")'
BY DEF SemInv, Lists, At

-----------------------------------------------------------------------------
LEMMA MoveSemInv ==
    ASSUME SemInv, NEW c \in Tasks, NEW p,
           \/ pc[c] \in Inside /\ p \in Inside
           \/ Outside(pc[c]) /\ Outside(p),
           pc' = [pc EXCEPT ![c] = p], UNCHANGED <<permits, queue>>
    PROVE  SemInv'
<1>1. p # "waiting" /\ pc[c] \notin {"waiting", "granted"}
  BY PositionKinds
<1>2. Lists(queue, pc)'
  <2>1. Lists(queue, [pc EXCEPT ![c] = p])
    BY <1>1, MoveLists DEF SemInv
  <2> QED
    BY <2>1 DEF Lists
<1>3. Holders' = Holders
  BY DEF SemInv, Lists, Holders, Inside, Outside
<1>4. At("granted") \subseteq At("granted")'
  BY <1>1, KeepGranted
<1> QED
  BY <1>2, <1>3, <1>4 DEF SemInv, PermitsConserved, NoLostWakeup, Limited

LEMMA AcquireSemInv ==
    ASSUME SemInv, NEW c \in Tasks, Outside(pc[c]), NEW p \in Inside, Acquire(c, p)
    PROVE  SemInv'
<1>1. pc' = [pc EXCEPT ![c] = p] /\ queue' = queue
  BY DEF Acquire
<1>2. p # "waiting" /\ pc[c] \notin {"waiting", "granted"}
  BY PositionKinds
<1>3. Lists(queue, pc)'
  <2>1. Lists(queue, [pc EXCEPT ![c] = p])
    BY <1>2, MoveLists DEF SemInv
  <2> QED
    BY <1>1, <2>1 DEF Lists
<1>4. Holders' = Holders \cup {c} /\ c \notin Holders
  BY <1>1 DEF SemInv, Lists, Holders, Inside, Outside
<1>5. IsFiniteSet(Holders') /\ Cardinality(Holders') = Cardinality(Holders) + 1
  BY <1>4, FS_AddElement DEF SemInv
<1>6. permits' \in Nat /\ (Limited => permits' = permits - 1)
  BY DEF Acquire, Locked, SemInv
<1>7. PermitsConserved'
  BY <1>5, <1>6, HoldersNat DEF SemInv, PermitsConserved, Limited
<1>8. NoLostWakeup'
  <2>1. CASE Limited
    BY <1>1, <2>1 DEF Acquire, Locked, NoLostWakeup
  <2>2. CASE ~Limited
    <3>1. permits' = permits /\ At("granted") \subseteq At("granted")'
      BY <1>1, <1>2, <2>2, KeepGranted DEF Acquire
    <3> QED
      BY <1>1, <3>1 DEF SemInv, NoLostWakeup
  <2> QED
    BY <2>1, <2>2
<1> QED
  BY <1>3, <1>5, <1>6, <1>7, <1>8 DEF SemInv

LEMMA EnqueueSemInv ==
    ASSUME SemInv, NEW c \in Tasks, Outside(pc[c]), Enqueue(c)
    PROVE  SemInv'
<1>1. /\ pc' = [pc EXCEPT ![c] = "waiting"] /\ queue' = Append(queue, c)
      /\ permits' = permits /\ Locked
  BY DEF Enqueue
<1>2. pc[c] \notin {"waiting", "granted"}
  BY PositionKinds
<1>3. /\ Len(queue) \in Nat /\ (\A i \in 1..Len(queue) : queue[i] \in Tasks)
      /\ queue' \in Seq(Tasks) /\ Len(queue') = Len(queue) + 1
      /\ \A i \in 1..Len(queue) : queue'[i] = queue[i]
      /\ queue'[Len(queue) + 1] = c
  BY <1>1, LenProperties, ElementOfSeq DEF SemInv, Lists
<1>4. \A i \in 1..Len(queue) : queue[i] # c
  BY <1>2 DEF SemInv, Lists
<1>5. Lists(queue, pc)'
  BY <1>1, <1>3, <1>4 DEF SemInv, Lists
<1>6. Holders' = Holders
  BY <1>1 DEF SemInv, Lists, Holders, Outside, Holding
<1>7. At("granted") \subseteq At("granted")'
  BY <1>1, <1>2, KeepGranted
<1>8. permits > 0 => At("granted") # {}
  BY <1>1 DEF SemInv, Locked, NoLostWakeup
<1> QED
  BY <1>1, <1>5, <1>6, <1>7, <1>8 DEF SemInv, PermitsConserved, NoLostWakeup, Limited

LEMMA ResumeSemInv ==
    ASSUME SemInv, NEW c \in Tasks, NEW p \in Inside, Resume(c, p)
    PROVE  SemInv'
<1> DEFINE f == [pc EXCEPT ![c] = p]
<1>1. pc[c] = "granted" /\ WakeNext(Wakeable(permits, queue), permits, queue, f)
  BY DEF Resume
<1>2. Lists(queue, f)
  BY <1>1, PositionKinds, MoveLists DEF SemInv
<1>3. HoldersOf(f) = Holders
  BY <1>1, PositionKinds, SameHolders DEF Inside, Holding
<1> HIDE DEF f
<1> QED
  BY <1>1, <1>2, <1>3, WakeableBounds, WakeableEnough, WakeNextSemInv
  DEF SemInv, Lists, PermitsConserved

LEMMA ReleaseSemInv ==
    ASSUME SemInv, NEW c \in Tasks, pc[c] \in Inside, NEW p, Outside(p), Release(c, p)
    PROVE  SemInv'
<1> DEFINE f == [pc EXCEPT ![c] = p]
<1>1. c \in Holders /\ pc[c] \notin {"waiting", "granted"} /\ p # "waiting"
  BY PositionKinds DEF Holders, Inside
<1>2. Lists(queue, f)
  BY <1>1, MoveLists DEF SemInv
<1>3. IsFiniteSet(HoldersOf(f)) /\ Cardinality(HoldersOf(f)) = Cardinality(Holders) - 1
  BY <1>1, LeaveHolders
<1>4. CASE Limited
  <2>1. WakeNext(Wakeable(1, queue), permits + 1, queue, f)
    BY <1>4 DEF Release
  <2> HIDE DEF f
  <2>2. permits + 1 \in Nat /\ queue \in Seq(Tasks) /\ Len(queue) \in Nat
    BY LenProperties DEF SemInv, Lists
  <2>3. Wakeable(1, queue) \in 0..Len(queue) /\ (permits + 1) - Wakeable(1, queue) \in Nat
    BY <2>2 DEF Wakeable, SemInv
  <2>9. Wakeable(1, queue) > 0 \/ queue = <<>>
    BY <2>2, WakeableEnough
  <2>4. permits + 1 + Cardinality(HoldersOf(f)) = MaxPermits
    BY <1>3, <1>4, HoldersNat DEF SemInv, PermitsConserved
  <2> DEFINE n == Wakeable(1, queue)
             v == permits + 1
  <2>5. v \in Nat /\ n \in 0..Len(queue) /\ v - n \in Nat
    BY <2>2, <2>3
  <2>6. n > 0 \/ queue = <<>> \/ v = 0
    BY <2>9
  <2>7. WakeNext(n, v, queue, f)
    BY <2>1
  <2>8. v + Cardinality(HoldersOf(f)) = MaxPermits
    BY <2>4
  <2> HIDE DEF n, v
  <2> QED
    BY <1>2, <1>3, <2>5, <2>6, <2>7, <2>8, WakeNextSemInv
<1>5. CASE ~Limited
  <2>1. pc' = f /\ permits' = permits /\ queue' = queue
    BY <1>5 DEF Release
  <2>2. Holders' = HoldersOf(f)
    BY <2>1 DEF Holders, HoldersOf
  <2>3. At("granted") \subseteq At("granted")'
    BY <1>1, <2>1, KeepGranted
  <2> QED
    BY <1>2, <1>3, <1>5, <2>1, <2>2, <2>3
    DEF SemInv, Lists, PermitsConserved, NoLostWakeup, Limited
<1> QED
  BY <1>4, <1>5

LEMMA WithdrawSemInv ==
    ASSUME SemInv, NEW c \in Tasks, NEW p, Outside(p), Withdraw(c, p)
    PROVE  SemInv'
<1> DEFINE f == [pc EXCEPT ![c] = p]
           v == IF pc[c] = "granted" THEN permits + 1 ELSE permits
           q == IF pc[c] = "granted" THEN queue ELSE Without(queue, c)
<1>1. pc[c] \in {"waiting", "granted"} /\ WakeNext(Wakeable(v, q), v, q, f)
  BY DEF Withdraw
<1>2. p # "waiting" /\ p \notin Holding
  BY DEF Outside
<1>3. /\ Lists(q, f) /\ IsFiniteSet(HoldersOf(f)) /\ v \in Nat
      /\ v + Cardinality(HoldersOf(f)) = permits + Cardinality(Holders)
  <2>1. CASE pc[c] = "granted"
    <3>1. c \in Holders
      BY <2>1 DEF Holders, Holding
    <3>2. IsFiniteSet(HoldersOf(f)) /\ Cardinality(HoldersOf(f)) = Cardinality(Holders) - 1
      BY <3>1, LeaveHolders
    <3> QED
      BY <1>2, <2>1, <3>2, HoldersNat, MoveLists DEF SemInv
  <2>2. CASE pc[c] = "waiting"
    <3>1. HoldersOf(f) = Holders
      BY <1>2, <2>2, SameHolders DEF Holding
    <3> QED
      BY <1>2, <2>2, <3>1, WithoutLists DEF SemInv
  <2> QED
    BY <1>1, <2>1, <2>2
<1> HIDE DEF f, v, q
<1> QED
  BY ZenonT(30), <1>1, <1>3, WakeableBounds, WakeableEnough, WakeNextSemInv
  DEF SemInv, Lists, PermitsConserved

-----------------------------------------------------------------------------
(* Where tasks go: one operation moves its own task and hands permits out.  *)
LEMMA SemMoves ==
    ASSUME SemInv, NEW c \in Tasks, NEW p,
           Resume(c, p) \/ Release(c, p) \/ Withdraw(c, p), NEW d \in Tasks
    PROVE  pc'[d] = "granted" \/ pc'[d] = IF d = c THEN p ELSE pc[d]
BY DEF SemInv, Lists, Resume, Release, Withdraw, WakeNext

(* Only a task that waits is handed a permit.                               *)
LEMMA SemGrants ==
    ASSUME SemInv, NEW c \in Tasks, NEW p, p # "waiting",
           \/ Resume(c, p) \/ Withdraw(c, p)
           \/ Release(c, p) /\ pc[c] # "waiting",
           NEW d \in Tasks
    PROVE  \/ pc'[d] = IF d = c THEN p ELSE pc[d]
           \/ pc'[d] = "granted" /\ pc[d] = "waiting" /\ d # c
<1> DEFINE f == [pc EXCEPT ![c] = p]
<1>0. f[d] = (IF d = c THEN p ELSE pc[d])
  BY DEF SemInv, Lists
<1>1. ASSUME NEW n, NEW v, NEW q, n \in 0..Len(q), Lists(q, f), WakeNext(n, v, q, f)
      PROVE  pc'[d] = f[d] \/ (pc'[d] = "granted" /\ f[d] = "waiting")
  <2>1. \A i \in 1..n : q[i] = d => f[d] = "waiting"
    BY <1>1, LenProperties DEF Lists
  <2>2. pc'[d] = IF \E i \in 1..n : q[i] = d THEN "granted" ELSE f[d]
    BY <1>1 DEF WakeNext
  <2> QED
    BY <2>1, <2>2
<1>2. CASE Resume(c, p) \/ (Release(c, p) /\ pc[c] # "waiting")
  <2>1. Lists(queue, f)
    BY <1>2, MoveLists DEF SemInv, Resume
  <2>2. queue \in Seq(Tasks) /\ permits \in Nat
    BY DEF SemInv, Lists
  <2>3. \/ WakeNext(Wakeable(permits, queue), permits, queue, f)
        \/ WakeNext(Wakeable(1, queue), permits + 1, queue, f)
        \/ pc' = f
    BY <1>2 DEF Resume, Release
  <2>4. Wakeable(permits, queue) \in 0..Len(queue) /\ Wakeable(1, queue) \in 0..Len(queue)
    BY <2>2, WakeableBounds
  <2> HIDE DEF f
  <2>5. pc'[d] = f[d] \/ (pc'[d] = "granted" /\ f[d] = "waiting")
    BY <1>1, <2>1, <2>3, <2>4
  <2> QED
    BY <1>0, <2>5
<1>3. CASE Withdraw(c, p)
  <2> DEFINE v == IF pc[c] = "granted" THEN permits + 1 ELSE permits
             q == IF pc[c] = "granted" THEN queue ELSE Without(queue, c)
  <2>1. pc[c] \in {"waiting", "granted"} /\ WakeNext(Wakeable(v, q), v, q, f)
    BY <1>3 DEF Withdraw
  <2>2. Lists(q, f)
    BY <2>1, MoveLists, WithoutLists DEF SemInv
  <2>3. v \in Nat
    BY DEF SemInv
  <2> HIDE DEF f, v, q
  <2>4. Wakeable(v, q) \in 0..Len(q)
    BY <2>2, <2>3, WakeableBounds DEF Lists
  <2>5. pc'[d] = f[d] \/ (pc'[d] = "granted" /\ f[d] = "waiting")
    BY <1>1, <2>1, <2>2, <2>4
  <2> QED
    BY <1>0, <2>5
<1> QED
  BY <1>2, <1>3
=============================================================================
