-------------------------- MODULE ChatWorkflow_proofs --------------------------
(***************************************************************************)
(* What the chats of ChatWorkflow are like, and what their caller is told, *)
(* for any number of runs, calls in a message, steps and retries.          *)
(*                                                                         *)
(* A run changes what belongs to it, and puts itself at the end of order.  *)
(* So the invariant has a part that says how the runs stand to each other  *)
(* and to their caller, and one for the chat of each run.                  *)
(***************************************************************************)
EXTENDS ChatWorkflow, SequenceTheorems, FiniteSetTheorems, TLAPS

(* The runs that ended are in order, each once.                            *)
Ended ==
    /\ IsInjective(order)
    /\ \A r \in Runs : pc[r] = "over" <=> \E i \in DOMAIN order : order[i] = r
    /\ \A r \in Runs : pc[r] = "over" <=> outcome[r] # "none"
    /\ taken <= Len(order)

(* Who failed, and why the run is where it is.                             *)
BlamedAt(r) ==
    /\ outcome[r] = "raised" => r \in hurt /\ (policy = "raise" \/ steps[r] = 0)
    /\ outcome[r] = "failed" => r \in hurt /\ policy # "raise"
    /\ r \in hurt => pc[r] = "render_again" \/ outcome[r] \in {"failed", "raised"}
    /\ pc[r] = "render_again" => r \in hurt /\ steps[r] = 0 /\ policy # "raise"
    /\ pc[r] = "render" => steps[r] = 0

Blamed == \A r \in Runs : BlamedAt(r)

(* What the caller has seen.                                               *)
Answered ==
    /\ answer = "raised" => \E r \in Runs : outcome[r] = "raised"
    /\ answer = "given" => Len(order) = NumRuns /\ \A r \in Runs : outcome[r] # "raised"
    /\ ~streaming => results = IF answer = "given" THEN InOrder({r \in Runs : Kept(r)}) ELSE <<>>
    /\ streaming /\ answer # "raised" =>
         /\ answer = "given" => taken = NumRuns
         /\ IsInjective(results)
         /\ \A i \in 1..taken : outcome[order[i]] # "raised"
         /\ ToSet(results) = {r \in Runs : Kept(r) /\ \E i \in 1..taken : order[i] = r}

(* A chat has the messages that the workflow began with, and one for every  *)
(* step.                                                                   *)
MeasuredAt(r) ==
    /\ pc[r] = "render" => chat[r] = <<>>
    /\ pc[r] \in {"tool", "complete"} => chat[r] # <<>> /\ ~AtLimit(steps[r])
    /\ pc[r] = "tool" => round[r] # <<>>
    /\ Len(chat[r]) <= Len(beginning) + steps[r]
    /\ limit # NoLimit => steps[r] <= limit
    /\ outcome[r] = "chat" =>
         /\ AtLimit(steps[r]) \/ Last(chat[r]).kind = "answer"
         /\ strict => Last(chat[r]) # Invalid

Measured == \A r \in Runs : MeasuredAt(r)

(* The context that the tools of a round are given is up to date too.      *)
NotedAt(r) ==
    \A i \in 1..Len(chat[r]) :
        chat[r][i].kind = "result" => i \in context[r] /\ (pc[r] = "tool" => i \in lent[r])

Noted == \A r \in Runs : NotedAt(r)

(* Paired, message by message; and a chat whose last round of calls, at p,  *)
(* still owes the results of the calls todo.                               *)
Settled(c, i) ==
    c[i].kind = "calls" =>
        /\ Len(c) >= i + c[i].n
        /\ \A k \in 1..c[i].n : IsResult(c[i + k]) /\ c[i + k].n = k
        /\ Len(c) > i + c[i].n => ~IsResult(c[i + c[i].n + 1])

Follows(c, i) == i > 1 /\ IsResult(c[i]) => c[i - 1].kind = "calls" \/ IsResult(c[i - 1])

OwesAt(c, p, todo) ==
    /\ c[p].kind = "calls" /\ Len(c) < p + c[p].n
    /\ todo = [j \in 1..(p + c[p].n - Len(c)) |-> Len(c) - p + j]
    /\ \A k \in 1..(Len(c) - p) : IsResult(c[p + k]) /\ c[p + k].n = k
    /\ \A i \in 1..Len(c) : Follows(c, i) /\ (i # p => Settled(c, i))

Owes(c, todo) == \E p \in 1..Len(c) : OwesAt(c, p, todo)

RoundsAt(r) ==
    /\ pc[r] = "tool" => Owes(chat[r], round[r])
    /\ pc[r] = "complete" => Paired(chat[r])
    /\ outcome[r] = "chat" /\ ~AtLimit(steps[r]) => Paired(chat[r])

Rounds == \A r \in Runs : RoundsAt(r)

ChatInv == ChatTypeOK /\ Ended /\ Blamed /\ Answered /\ Measured /\ Noted /\ Rounds

-----------------------------------------------------------------------------
(* The order of the inputs: InOrder lists each of the chosen runs once, in  *)
(* increasing order.                                                       *)
LEMMA RunsFinite == IsFiniteSet(Runs) /\ Cardinality(Runs) = NumRuns /\ NumRuns \in Nat
BY ChatAssumption, FS_Interval DEF Runs

LEMMA ChosenFinite ==
  ASSUME NEW S \in SUBSET Runs
  PROVE  S \subseteq Nat /\ IsFiniteSet(S) /\ Cardinality(S) \in Nat
<1>1. IsFiniteSet(S)
  BY RunsFinite, FS_Subset
<1>2. Cardinality(S) \in Nat
  BY <1>1, FS_CardinalityType
<1>3. S \subseteq Nat
  BY ChatAssumption DEF Runs
<1> QED
  BY <1>1, <1>2, <1>3

LEMMA RankGrows ==
  ASSUME NEW S \in SUBSET Runs, NEW r \in S, NEW s \in S, r < s
  PROVE  Cardinality({q \in S : q <= r}) < Cardinality({q \in S : q <= s})
<1> DEFINE below == {q \in S : q <= r}
           upTo == {q \in S : q <= s}
<1>1. S \subseteq Nat /\ IsFiniteSet(S)
  BY ChosenFinite
<1>2. below \subseteq upTo /\ below # upTo
  <2>1. r \in Nat /\ s \in Nat /\ \A q \in S : q \in Nat
    BY <1>1
  <2>2. s \in upTo /\ s \notin below
    BY <2>1
  <2>3. \A q \in below : q \in upTo
    BY <2>1
  <2> HIDE DEF below, upTo
  <2> QED
    BY <2>2, <2>3
<1>3. IsFiniteSet(upTo) /\ IsFiniteSet(below)
  <2>1. upTo \subseteq S /\ below \subseteq S
    OBVIOUS
  <2> HIDE DEF upTo, below
  <2> QED
    BY <1>1, <2>1, FS_Subset
<1> HIDE DEF below, upTo
<1>4. Cardinality(below) < Cardinality(upTo)
  BY <1>2, <1>3, FS_Subset, FS_CardinalityType
<1> QED
  BY <1>4 DEF below, upTo

LEMMA InOrderFacts ==
  ASSUME NEW S \in SUBSET Runs
  PROVE  /\ InOrder(S) \in Seq(Runs) /\ ToSet(InOrder(S)) = S
         /\ \A i, j \in DOMAIN InOrder(S) : i < j => InOrder(S)[i] < InOrder(S)[j]
         /\ IsInjective(InOrder(S))
<1> DEFINE n == Cardinality(S)
           rank(r) == Cardinality({q \in S : q <= r})
<1>1. S \subseteq Nat /\ IsFiniteSet(S) /\ n \in Nat
  BY ChosenFinite
<1>2. \A r \in S : rank(r) \in 1..n
  <2> SUFFICES ASSUME NEW r \in S PROVE rank(r) \in 1..n
    OBVIOUS
  <2> DEFINE below == {q \in S : q <= r}
  <2>1. below \subseteq S /\ r \in below
    BY <1>1
  <2> HIDE DEF below
  <2>2. IsFiniteSet(below) /\ Cardinality(below) <= n
    BY <1>1, <2>1, FS_Subset
  <2>3. Cardinality(below) \in Nat /\ Cardinality(below) # 0
    BY <2>1, <2>2, FS_CardinalityType, FS_EmptySet
  <2>4. Cardinality(below) \in 1..n
    BY <1>1, <2>2, <2>3
  <2> QED
    BY <2>4 DEF below
<1>3. \A r, s \in S : r < s => rank(r) < rank(s)
  BY RankGrows
<1> HIDE DEF rank, n
<1>4. \A r, s \in S : rank(r) = rank(s) => r = s
  BY <1>1, <1>2, <1>3
<1>5. \A i \in 1..n : \E r \in S : rank(r) = i
  <2> DEFINE ranks == [r \in S |-> rank(r)]
  <2>1. ranks \in [S -> 1..n] /\ \A r \in S : ranks[r] = rank(r)
    BY <1>2
  <2> HIDE DEF ranks
  <2>2. ranks \in Injection(S, 1..n)
    BY <1>4, <2>1 DEF Injection, IsInjective
  <2>3. IsFiniteSet(1..n) /\ Cardinality(1..n) = n
    BY <1>1, FS_Interval
  <2>4. ranks \in Surjection(S, 1..n)
    BY <2>2, <2>3, FS_Injection DEF n
  <2> QED
    BY <2>1, <2>4 DEF Surjection
<1> DEFINE listed == InOrder(S)
<1>6. listed = [i \in 1..n |-> CHOOSE r \in S : rank(r) = i]
  BY DEF InOrder, rank, n
<1> HIDE DEF listed
<1>7. \A i \in 1..n : listed[i] \in S /\ rank(listed[i]) = i
  BY <1>5, <1>6
<1>8. listed \in Seq(Runs) /\ DOMAIN listed = 1..n
  <2>1. listed \in [1..n -> Runs]
    BY <1>6, <1>7
  <2> QED
    BY <1>1, <1>6, <2>1
<1>9. ToSet(listed) = S
  <2>1. ASSUME NEW r \in S PROVE \E i \in DOMAIN listed : listed[i] = r
    BY <1>2, <1>4, <1>8, <1>7
  <2> QED
    BY <1>8, <1>7, <2>1 DEF ToSet
<1>10. ASSUME NEW i \in DOMAIN listed, NEW j \in DOMAIN listed, i < j
       PROVE  listed[i] < listed[j]
  <2>1. listed[i] \in S /\ listed[j] \in S /\ rank(listed[i]) = i /\ rank(listed[j]) = j /\ i \in Nat /\ j \in Nat
    BY <1>1, <1>8, <1>7
  <2>2. ~(listed[j] < listed[i]) /\ listed[i] # listed[j]
    BY <1>3, <1>10, <2>1
  <2>3. listed[i] \in Nat /\ listed[j] \in Nat
    BY <1>1, <2>1
  <2> QED
    BY <2>2, <2>3
<1>11. IsInjective(listed)
  BY <1>8, <1>7 DEF IsInjective
<1> QED
  BY <1>8, <1>9, <1>10, <1>11 DEF listed

(* When as many runs ended as there are, all did.                          *)
LEMMA AllEnded ==
  ASSUME ChatTypeOK, Ended
  PROVE  /\ Len(order) \in 0..NumRuns /\ DOMAIN order = 1..Len(order)
         /\ Len(order) = NumRuns => \A r \in Runs : \E i \in DOMAIN order : order[i] = r
<1>1. order \in [1..Len(order) -> Runs] /\ Len(order) \in Nat /\ DOMAIN order = 1..Len(order)
  BY LenProperties DEF ChatTypeOK
<1>2. order \in Injection(1..Len(order), Runs)
  BY <1>1 DEF Ended, Injection, IsInjective
<1> DEFINE n == Len(order)
<1>3. n \in Nat => Cardinality(1..n) = n
  <2> HIDE DEF n
  <2> QED
    BY FS_Interval
<1> DEFINE places == 1..n
<1> HIDE DEF n, places
<1>4. n <= NumRuns /\ (n = NumRuns => order \in Surjection(places, Runs))
  <2>1. n \in Nat /\ order \in Injection(places, Runs) /\ Cardinality(places) = n
    BY <1>1, <1>2, <1>3 DEF n, places
  <2> QED
    BY <2>1, RunsFinite, FS_Injection
<1>5. n = NumRuns => \A r \in Runs : \E i \in places : order[i] = r
  BY <1>4 DEF Surjection
<1>6. n \in Nat /\ DOMAIN order = places
  BY <1>1 DEF n, places
<1>7. n \in 0..NumRuns
  BY <1>4, <1>6, RunsFinite
<1> QED
  BY <1>5, <1>6, <1>7 DEF n, places

-----------------------------------------------------------------------------
(* Messages and rounds.                                                    *)
LEMMA MessageFacts ==
  /\ MaxCalls \in Nat /\ Ask \in Messages /\ Ask.kind = "ask"
  /\ \A m \in {Valid, Invalid} : m \in Messages /\ m.kind = "answer"
  /\ Calls \subseteq Messages
  /\ \A k \in 1..MaxCalls : \A m \in {Result(k), Refusal(k)} : m \in Messages /\ IsResult(m) /\ m.n = k
  /\ \A k : Result(k).kind = "result" /\ Refusal(k).kind = "refusal"
  /\ \A m \in Messages :
       /\ IsResult(m) <=> m.kind \in {"result", "refusal"}
       /\ m \in Calls <=> m.kind = "calls"
       /\ m.kind = "calls" => m.n \in 1..MaxCalls
<1> USE DEF Message, Ask, Valid, Invalid, Calls, Messages, Results, Result, Refusal, IsResult
<1>1. MaxCalls \in Nat
  BY ChatAssumption
<1>2. \A k : Result(k).kind = "result" /\ Refusal(k).kind = "refusal"
  OBVIOUS
<1>3. ASSUME NEW m \in Messages
      PROVE  /\ IsResult(m) <=> m.kind \in {"result", "refusal"}
             /\ m \in Calls <=> m.kind = "calls"
             /\ m.kind = "calls" => m.n \in 1..MaxCalls
  OBVIOUS
<1>4. Ask \in Messages /\ Ask.kind = "ask"
  OBVIOUS
<1>5. \A m \in {Valid, Invalid} : m \in Messages /\ m.kind = "answer"
  OBVIOUS
<1>6. Calls \subseteq Messages
  OBVIOUS
<1>7. \A k \in 1..MaxCalls : \A m \in {Result(k), Refusal(k)} : m \in Messages /\ IsResult(m) /\ m.n = k
  OBVIOUS
<1> HIDE DEF Message, Ask, Valid, Invalid, Calls, Messages, Results, Result, Refusal, IsResult
<1> QED
  BY <1>1, <1>2, <1>3, <1>4, <1>5, <1>6, <1>7

LEMMA CallsOfFacts ==
  ASSUME NEW m \in Messages
  PROVE  /\ CallsOf(m) \in Seq(1..MaxCalls)
         /\ m.kind # "calls" => CallsOf(m) = <<>>
         /\ m.kind = "calls" => CallsOf(m) # <<>> /\ CallsOf(m) = [k \in 1..m.n |-> k]
<1>1. CASE m.kind = "calls"
  <2>1. m.n \in 1..MaxCalls /\ MaxCalls \in Nat
    BY <1>1, MessageFacts
  <2>2. CallsOf(m) = [k \in 1..m.n |-> k]
    BY <1>1 DEF CallsOf
  <2>3. CallsOf(m) \in Seq(1..MaxCalls) /\ Len(CallsOf(m)) = m.n
    BY <2>1, <2>2
  <2> QED
    BY <1>1, <2>1, <2>2, <2>3, EmptySeq
<1>2. CASE m.kind # "calls"
  BY <1>2 DEF CallsOf
<1> QED
  BY <1>1, <1>2

(* A message that is no result goes to the end of a chat that is paired.    *)
LEMMA AppendSettles ==
  ASSUME NEW c \in Seq(Messages), Paired(c), NEW m \in Messages, ~IsResult(m)
  PROVE  /\ m.kind # "calls" => Paired(Append(c, m))
         /\ m.kind = "calls" => Owes(Append(c, m), CallsOf(m))
<1> DEFINE M == Messages
           d == Append(c, m)
           n == Len(c)
<1>1. n \in Nat /\ DOMAIN c = 1..n /\ \A i \in 1..n : c[i] \in M
  <2> HIDE DEF M
  <2>1. c \in Seq(M)
    BY DEF M
  <2> QED
    BY <2>1
<1>2. Len(d) = n + 1 /\ d[n + 1] = m /\ \A i \in 1..n : d[i] = c[i]
  <2> HIDE DEF M
  <2>1. c \in Seq(M) /\ m \in M
    BY DEF M
  <2> QED
    BY <2>1
<1>3. /\ \A i \in 1..n : Settled(c, i) /\ Follows(c, i)
      /\ \A i \in 1..n : c[i].kind = "calls" => c[i].n \in Nat /\ i + c[i].n <= n
  <2>1. \A i \in 1..n : Settled(c, i) /\ Follows(c, i)
    BY DEF Paired, Settled, Follows
  <2>2. \A i \in 1..n : c[i].kind = "calls" => c[i].n \in Nat
    BY <1>1, MessageFacts
  <2> QED
    BY <1>1, <2>1, <2>2 DEF Settled
<1> HIDE DEF M, d, n
<1>4. ASSUME NEW i \in 1..n PROVE Settled(d, i) /\ Follows(d, i)
  <2>1. Follows(d, i)
    <3>1. i > 1 => i - 1 \in 1..n
      BY <1>1
    <3> QED
      BY <1>2, <1>3, <3>1 DEF Follows
  <2>2. Settled(d, i)
    <3> SUFFICES ASSUME c[i].kind = "calls" PROVE Settled(d, i)
      BY <1>2 DEF Settled
    <3>1. /\ c[i].n \in Nat /\ i + c[i].n <= n /\ d[i] = c[i]
          /\ \A k \in 1..c[i].n : IsResult(c[i + k]) /\ c[i + k].n = k
          /\ n > i + c[i].n => ~IsResult(c[i + c[i].n + 1])
      BY <1>2, <1>3 DEF Settled, n
    <3>2. \A k \in 1..c[i].n : d[i + k] = c[i + k]
      BY <1>1, <1>2, <3>1
    <3>3. ~IsResult(d[i + c[i].n + 1])
      <4>1. CASE i + c[i].n = n
        BY <1>2, <4>1
      <4>2. CASE i + c[i].n < n
        <5>1. i + c[i].n + 1 \in 1..n
          BY <1>1, <3>1, <4>2
        <5> QED
          BY <1>2, <3>1, <4>2, <5>1
      <4>3. i + c[i].n \in Nat /\ i + c[i].n <= n
        BY <1>1, <3>1
      <4> QED
        BY <1>1, <4>1, <4>2, <4>3
    <3>4. Len(d) >= i + c[i].n
      BY <1>1, <1>2, <3>1
    <3> QED
      BY <3>1, <3>2, <3>3, <3>4 DEF Settled
  <2> QED
    BY <2>1, <2>2
<1>5. Follows(d, n + 1)
  BY <1>2 DEF Follows
<1>6. ASSUME m.kind # "calls" PROVE Paired(d)
  <2>1. \A i \in 1..Len(d) : Settled(d, i) /\ Follows(d, i)
    <3>1. Settled(d, n + 1)
      BY <1>2, <1>6 DEF Settled
    <3> QED
      BY <1>1, <1>2, <1>4, <1>5, <3>1
  <2> QED
    BY <2>1 DEF Paired, Settled, Follows
<1>7. ASSUME m.kind = "calls" PROVE Owes(d, CallsOf(m))
  <2>1. m.n \in 1..MaxCalls /\ MaxCalls \in Nat /\ CallsOf(m) = [k \in 1..m.n |-> k]
    BY <1>7, MessageFacts, CallsOfFacts
  <2>2. OwesAt(d, n + 1, CallsOf(m))
    <3>1. d[n + 1].kind = "calls" /\ Len(d) < (n + 1) + d[n + 1].n
      BY <1>1, <1>2, <1>7, <2>1
    <3>2. CallsOf(m) = [j \in 1..((n + 1) + d[n + 1].n - Len(d)) |-> Len(d) - (n + 1) + j]
      <4>1. (n + 1) + d[n + 1].n - Len(d) = m.n /\ \A j \in 1..m.n : Len(d) - (n + 1) + j = j
        BY <1>1, <1>2, <2>1
      <4> QED
        BY <2>1, <4>1
    <3>3. 1..(Len(d) - (n + 1)) = {}
      BY <1>1, <1>2
    <3>4. \A i \in 1..Len(d) : Follows(d, i) /\ (i # n + 1 => Settled(d, i))
      BY <1>1, <1>2, <1>4, <1>5
    <3> QED
      BY <3>1, <3>2, <3>3, <3>4 DEF OwesAt
  <2> QED
    BY <1>1, <1>2, <2>2 DEF Owes
<1> QED
  BY <1>6, <1>7 DEF d

(* The result of the next call goes to the end of a chat that owes it.      *)
LEMMA ResultSettles ==
  ASSUME NEW c \in Seq(Messages), NEW todo \in Seq(1..MaxCalls), Owes(c, todo),
         NEW m \in {Result(Head(todo)), Refusal(Head(todo))}
  PROVE  /\ todo # <<>>
         /\ Tail(todo) = <<>> => Paired(Append(c, m))
         /\ Tail(todo) # <<>> => Owes(Append(c, m), Tail(todo))
<1> DEFINE M == Messages
           d == Append(c, m)
           n == Len(c)
<1>1. n \in Nat /\ DOMAIN c = 1..n /\ \A i \in 1..n : c[i] \in M
  <2> HIDE DEF M
  <2>1. c \in Seq(M)
    BY DEF M
  <2> QED
    BY <2>1
<1>2. PICK p \in 1..n : OwesAt(c, p, todo)
  BY DEF Owes
<1> DEFINE all == c[p].n
           left == p + all - n
<1>3. all \in Nat /\ n < p + all /\ left \in Nat \ {0} /\ c[p].kind = "calls" /\ p \in Nat /\ p <= n
  BY <1>1, <1>2, MessageFacts DEF OwesAt
<1>4. todo = [j \in 1..left |-> n - p + j]
  BY <1>2 DEF OwesAt
<1> HIDE DEF n, all, left
<1>5. Len(todo) = left /\ todo # <<>> /\ Head(todo) = n - p + 1
  <2>1. Len(todo) = left /\ todo[1] = n - p + 1
    BY <1>1, <1>3, <1>4
  <2> QED
    BY <1>3, <2>1, EmptySeq
<1>6. Head(todo) \in 1..MaxCalls
  BY <1>5, HeadTailProperties
<1>7. m \in M /\ IsResult(m) /\ m.n = n - p + 1
  BY <1>5, <1>6, MessageFacts
<1>8. Len(d) = n + 1 /\ d[n + 1] = m /\ \A i \in 1..n : d[i] = c[i]
  <2> HIDE DEF M
  <2>1. c \in Seq(M) /\ m \in M
    BY <1>7 DEF M
  <2> QED
    BY <2>1 DEF n
<1> HIDE DEF M, d
<1>9. \A k \in 1..(n + 1 - p) : IsResult(d[p + k]) /\ d[p + k].n = k
  <2> SUFFICES ASSUME NEW k \in 1..(n + 1 - p) PROVE IsResult(d[p + k]) /\ d[p + k].n = k
    OBVIOUS
  <2>1. CASE k = n + 1 - p
    BY SMTT(30), <1>1, <1>3, <1>7, <1>8, <2>1
  <2>2. CASE k \in 1..(n - p)
    <3>1. IsResult(c[p + k]) /\ c[p + k].n = k
      BY <1>2, <2>2 DEF OwesAt, n
    <3>2. d[p + k] = c[p + k]
      BY <1>1, <1>3, <1>8, <2>2
    <3> QED
      BY <3>1, <3>2
  <2> QED
    BY <1>1, <1>3, <2>1, <2>2
<1>10. \A i \in 1..(n + 1) : Follows(d, i)
  <2>1. \A i \in 1..n : Follows(d, i)
    <3> SUFFICES ASSUME NEW i \in 1..n PROVE Follows(d, i)
      OBVIOUS
    <3>1. Follows(c, i)
      BY <1>2 DEF OwesAt, n
    <3>2. i > 1 => i - 1 \in 1..n
      BY <1>1
    <3> QED
      BY <1>8, <3>1, <3>2 DEF Follows
  <2>2. Follows(d, n + 1)
    <3>1. CASE n = p
      BY <1>1, <1>3, <1>8, <3>1 DEF Follows
    <3>2. CASE n # p
      <4>1. IsResult(d[n])
        <5>1. n - p \in 1..(n + 1 - p) /\ p + (n - p) = n
          BY <1>1, <1>3, <3>2
        <5>2. IsResult(d[p + (n - p)])
          BY <1>9, <5>1
        <5> QED
          BY <5>1, <5>2
      <4> QED
        BY <1>1, <4>1 DEF Follows
    <3> QED
      BY <3>1, <3>2
  <2> QED
    BY <1>1, <2>1, <2>2
<1>11. ASSUME NEW i \in 1..(n + 1), i # p PROVE Settled(d, i)
  <2>1. CASE i = n + 1 \/ i > p
    <3>1. i - p \in 1..(n + 1 - p) /\ p + (i - p) = i
      BY <1>1, <1>3, <1>11, <2>1
    <3>2. IsResult(d[i])
      BY <1>9, <3>1
    <3>3. d[i] \in Messages
      BY <1>1, <1>7, <1>8 DEF M
    <3> QED
      BY <3>2, <3>3, MessageFacts DEF Settled
  <2>2. CASE i < p
    <3>1. i \in 1..n /\ Settled(c, i) /\ d[i] = c[i]
      BY <1>1, <1>2, <1>3, <1>8, <2>2 DEF OwesAt, n
    <3> SUFFICES ASSUME c[i].kind = "calls" PROVE Settled(d, i)
      BY <3>1 DEF Settled
    <3> DEFINE e == i + c[i].n
    <3>2. c[i].n \in Nat /\ e \in Nat /\ e <= n
      BY <1>1, <3>1, MessageFacts DEF Settled, M, n
    <3>3. \A k \in 1..c[i].n : IsResult(c[i + k]) /\ c[i + k].n = k
      BY <3>1 DEF Settled
    <3>4. ~IsResult(c[p])
      BY <1>1, <1>3, MessageFacts DEF M
    <3>5. e < p
      <4> SUFFICES ASSUME ~(e < p) PROVE FALSE
        OBVIOUS
      <4>1. p - i \in 1..c[i].n /\ i + (p - i) = p
        BY <1>3, <2>2, <3>2
      <4> QED
        BY <3>3, <3>4, <4>1
    <3>6. ~IsResult(c[e + 1]) /\ d[e + 1] = c[e + 1]
      <4> HIDE DEF e
      <4>1. n > e /\ e + 1 \in 1..n
        BY <1>1, <1>3, <3>2, <3>5
      <4> QED
        BY <1>8, <3>1, <4>1 DEF Settled, n, e
    <3>7. \A k \in 1..c[i].n : d[i + k] = c[i + k]
      BY <1>1, <1>8, <3>2
    <3>8. Len(d) >= i + c[i].n
      BY <1>1, <1>8, <3>2
    <3> QED
      BY <3>1, <3>3, <3>6, <3>7, <3>8 DEF Settled
  <2> QED
    BY <1>1, <1>3, <1>11, <2>1, <2>2
<1>12. d[p] = c[p] /\ d[p].kind = "calls" /\ d[p].n = all
  BY <1>2, <1>3, <1>8 DEF all
<1>13. ASSUME Tail(todo) = <<>> PROVE Paired(d)
  <2>1. left = 1
    <3>1. Len(Tail(todo)) = left - 1 /\ Len(Tail(todo)) = 0
      BY <1>5, <1>13, HeadTailProperties
    <3>2. left - 1 = 0 /\ left \in Nat
      BY <1>3, <3>1
    <3> QED
      BY <3>2
  <2>2. p + all = n + 1
    BY <1>1, <1>3, <2>1 DEF left
  <2>3. Settled(d, p)
    BY <1>1, <1>3, <1>8, <1>9, <1>12, <2>2 DEF Settled
  <2>4. \A i \in 1..Len(d) : Settled(d, i) /\ Follows(d, i)
    BY <1>8, <1>10, <1>11, <2>3
  <2> QED
    BY <2>4 DEF Paired, Settled, Follows
<1>14. ASSUME Tail(todo) # <<>> PROVE Owes(d, Tail(todo))
  <2>1. Len(Tail(todo)) = left - 1 /\ Tail(todo) \in Seq(1..MaxCalls) /\ \A j \in 1..(left - 1) : Tail(todo)[j] = todo[j + 1]
    BY <1>3, <1>5, HeadTailProperties
  <2>2. left - 1 >= 1 /\ left - 1 \in Nat
    BY <1>3, <1>14, <2>1, EmptySeq
  <2>3. Tail(todo) = [j \in 1..(p + d[p].n - Len(d)) |-> Len(d) - p + j]
    <3>1. p + d[p].n - Len(d) = left - 1
      BY <1>1, <1>3, <1>8, <1>12 DEF left
    <3>2. \A j \in 1..(left - 1) : Tail(todo)[j] = Len(d) - p + j
      BY <1>1, <1>3, <1>4, <1>8, <2>1
    <3>3. Tail(todo) \in [1..(left - 1) -> 1..MaxCalls]
      BY <2>1, <2>2, LenProperties
    <3> QED
      BY <3>1, <3>2, <3>3
  <2>4. Len(d) < p + d[p].n
    BY <1>1, <1>3, <1>8, <1>12, <2>2 DEF left
  <2>5. OwesAt(d, p, Tail(todo))
    <3>1. \A k \in 1..(Len(d) - p) : IsResult(d[p + k]) /\ d[p + k].n = k
      <4>1. Len(d) - p = n + 1 - p
        BY <1>1, <1>3, <1>8
      <4>2. 1..(Len(d) - p) = 1..(n + 1 - p)
        BY <4>1
      <4> QED
        BY <1>9, <4>2
    <3>2. \A i \in 1..Len(d) : Follows(d, i) /\ (i # p => Settled(d, i))
      BY <1>8, <1>10, <1>11
    <3> QED
      BY <1>12, <2>3, <2>4, <3>1, <3>2 DEF OwesAt
  <2>6. p \in 1..Len(d)
    BY <1>1, <1>3, <1>8
  <2> QED
    BY <2>5, <2>6 DEF Owes
<1> QED
  BY <1>5, <1>13, <1>14 DEF d

(* The messages that a workflow begins with.                               *)
LEMMA PairAppends == ASSUME NEW a, NEW b PROVE Append(<<a>>, b) = <<a, b>>
<1> DEFINE S == {a, b}
<1>1. <<a>> \in Seq(S) /\ Len(<<a>>) = 1 /\ <<a>>[1] = a /\ b \in S
  OBVIOUS
<1>2. <<a, b>> \in Seq(S) /\ Len(<<a, b>>) = 2 /\ <<a, b>>[1] = a /\ <<a, b>>[2] = b
  OBVIOUS
<1>3. /\ Append(<<a>>, b) \in Seq(S) /\ Len(Append(<<a>>, b)) = 2
      /\ Append(<<a>>, b)[1] = a /\ Append(<<a>>, b)[2] = b
  BY <1>1, AppendProperties
<1>4. \A i \in 1..2 : Append(<<a>>, b)[i] = <<a, b>>[i]
  BY <1>2, <1>3
<1> HIDE DEF S
<1> QED
  BY <1>2, <1>3, <1>4, SeqEqual

LEMMA BeginningFacts ==
  ASSUME NEW c \in Beginnings
  PROVE  /\ c \in Seq(Messages) /\ c # <<>> /\ Last(c) \in Messages /\ Len(c) \in Nat
         /\ \A i \in 1..Len(c) : c[i].kind # "result"
         /\ CallsOf(Last(c)) = <<>> => Paired(c)
         /\ CallsOf(Last(c)) # <<>> => Owes(c, CallsOf(Last(c)))
<1> DEFINE M == Messages
           one == <<Ask>>
<1>1. Ask \in M /\ Ask.kind = "ask" /\ ~IsResult(Ask)
  BY MessageFacts
<1>2. Paired(one) /\ Last(one) = Ask
  BY <1>1 DEF Paired, Last
<1>3. CASE c = <<Ask>>
  <2> HIDE DEF M
  <2>1. c \in Seq(M) /\ Len(c) = 1 /\ c[1] = Ask
    BY <1>1, <1>3
  <2> QED
    BY <1>1, <1>2, <1>3, <2>1, CallsOfFacts DEF M
<1>4. ASSUME NEW m \in Calls, c = <<Ask, m>>
      PROVE  /\ c \in Seq(Messages) /\ c # <<>> /\ Last(c) \in Messages /\ Len(c) = 2
             /\ \A i \in 1..Len(c) : c[i].kind # "result"
             /\ CallsOf(Last(c)) # <<>> /\ Owes(c, CallsOf(Last(c)))
  <2>1. m \in M /\ m.kind = "calls" /\ ~IsResult(m) /\ CallsOf(m) # <<>>
    BY MessageFacts, CallsOfFacts
  <2>2. Append(<<Ask>>, m) = <<Ask, m>>
    BY PairAppends
  <2>3. Owes(c, CallsOf(m))
    <3>1. <<Ask>> \in Seq(Messages)
      BY <1>1
    <3> QED
      BY <1>2, <1>4, <2>1, <2>2, <3>1, AppendSettles
  <2> HIDE DEF M
  <2>4. c \in Seq(M) /\ Last(c) = m /\ Len(c) = 2 /\ c[1] = Ask /\ c[2] = m
    BY <1>1, <1>4, <2>1 DEF Last
  <2>5. \A i \in 1..Len(c) : c[i].kind # "result"
    <3>1. \A i \in 1..Len(c) : c[i] = Ask \/ c[i] = m
      BY <2>4
    <3> QED
      BY <1>1, <2>1, <3>1
  <2>6. c # <<>>
    <3>1. Len(<<>>) = 0
      OBVIOUS
    <3> QED
      BY <2>4, <3>1
  <2> QED
    BY <2>1, <2>3, <2>4, <2>5, <2>6 DEF M
<1>5. c = <<Ask>> \/ \E m \in Calls : c = <<Ask, m>>
  BY DEF Beginnings
<1> QED
  BY <1>3, <1>4, <1>5

-----------------------------------------------------------------------------
(* What a run may do next: begin, break off, use a tool, complete, try once *)
(* more, or render again.                                                  *)
Begins(r) ==
    /\ pc[r] = "render" /\ ~AtLimit(0)
    /\ chat' = [chat EXCEPT ![r] = beginning]
    /\ round' = [round EXCEPT ![r] = CallsOf(Last(beginning))]
    /\ pc' = [pc EXCEPT ![r] = IF CallsOf(Last(beginning)) = <<>> THEN "complete" ELSE "tool"]
    /\ UNCHANGED <<workflow, context, lent, steps, attempts, outcome, order, caller, hurt>>

Lends(r, noted) ==
    /\ lent[r] \subseteq noted
    /\ context' = [context EXCEPT ![r] = noted]
    /\ lent' = [lent EXCEPT ![r] = noted]

Breaks(r) ==
    /\ pc[r] \in {"render", "tool", "complete"}
    /\ Fail(r)
    /\ \/ UNCHANGED <<context, lent>>
       \/ pc[r] = "tool" /\ \E noted \in SUBSET Nat : Lends(r, noted)
    /\ UNCHANGED <<workflow, caller>>

Uses(r) ==
    /\ pc[r] = "tool"
    /\ \E noted \in SUBSET Nat, m \in {Result(Head(round[r])), Refusal(Head(round[r]))} :
          /\ Lends(r, noted)
          /\ m.kind = "result" => Len(chat[r]) + 1 \in noted
          /\ ToolStep(r, m)
    /\ UNCHANGED <<workflow, caller, hurt>>

Completes(r) ==
    /\ pc[r] = "complete"
    /\ \E m \in {Valid, Invalid} \cup Calls : Accepted(r, m) /\ CompletionStep(r, m)
    /\ UNCHANGED <<workflow, caller>>

Retries(r) ==
    /\ pc[r] = "complete" /\ attempts[r] < NumRetries
    /\ attempts' = [attempts EXCEPT ![r] = @ + 1]
    /\ UNCHANGED <<workflow, pc, chat, round, context, lent, steps, outcome, order, caller, hurt>>

LEMMA RunCases ==
  ASSUME ChatTypeOK, NEW r \in Runs, Run(r)
  PROVE  Begins(r) \/ Breaks(r) \/ Uses(r) \/ Completes(r) \/ Retries(r) \/ RenderAgain(r)
<1>1. CASE Render(r)
  <2>1. round[r] = round[r] /\ DOMAIN round = Runs
    BY DEF ChatTypeOK
  <2>2. CASE Fail(r) /\ UNCHANGED <<context, lent>> /\ pc[r] = "render" /\ UNCHANGED <<workflow, caller>>
    BY <2>2 DEF Breaks
  <2>3. ASSUME ~(Fail(r) /\ UNCHANGED <<context, lent>>) PROVE Begins(r)
    BY <1>1, <2>1, <2>3 DEF Render, Begins
  <2> QED
    BY <1>1, <2>2, <2>3 DEF Render
<1>2. CASE RunTool(r)
  <2>1. pc[r] = "tool" /\ UNCHANGED <<workflow, caller>>
    BY <1>2 DEF RunTool
  <2>2. CASE Fail(r) /\ UNCHANGED <<context, lent>>
    BY <2>1, <2>2 DEF Breaks
  <2>3. ASSUME NEW end \in ToolEnds, UseTool(r, end) PROVE Breaks(r) \/ Uses(r)
    <3> DEFINE k == Head(round[r])
               noted == IF end = "refused" THEN lent[r] ELSE lent[r] \cup {Len(chat[r]) + 1}
               text == IF end = "refused" THEN Refusal(k) ELSE Result(k)
    <3>1. noted \in SUBSET Nat
      <4>1. lent[r] \in SUBSET Nat /\ Len(chat[r]) \in Nat
        BY LenProperties DEF ChatTypeOK
      <4> QED
        BY <4>1
    <3>2. Lends(r, noted)
      BY <2>3 DEF UseTool, Lends, Clone
    <3>3. text \in {Result(k), Refusal(k)}
      OBVIOUS
    <3>4. text.kind = "result" => Len(chat[r]) + 1 \in noted
      BY MessageFacts
    <3>5. (ToolStep(r, text) /\ UNCHANGED hurt) \/ Fail(r)
      BY <2>3 DEF UseTool
    <3> HIDE DEF noted, text
    <3>6. CASE Fail(r)
      BY <2>1, <3>1, <3>2, <3>6 DEF Breaks
    <3>7. CASE ToolStep(r, text) /\ UNCHANGED hurt
      BY <2>1, <3>1, <3>2, <3>3, <3>4, <3>7 DEF Uses
    <3> QED
      BY <3>5, <3>6, <3>7
  <2> QED
    BY <1>2, <2>2, <2>3 DEF RunTool
<1>3. CASE Complete(r)
  <2>1. pc[r] = "complete" /\ UNCHANGED <<workflow, caller>>
    BY <1>3 DEF Complete
  <2>2. CASE Fail(r) /\ UNCHANGED <<context, lent>>
    BY <2>1, <2>2 DEF Breaks
  <2>3. ASSUME NEW m \in {Valid, Invalid} \cup Calls, Accepted(r, m) /\ CompletionStep(r, m) PROVE Completes(r)
    BY <2>1, <2>3 DEF Completes
  <2>4. CASE Retry(r)
    <3>1. CASE Fail(r) /\ UNCHANGED <<context, lent>>
      BY <2>2, <3>1
    <3>2. CASE /\ attempts[r] < NumRetries
               /\ attempts' = [attempts EXCEPT ![r] = @ + 1]
               /\ UNCHANGED <<pc, chat, round, context, lent, steps, outcome, order, hurt>>
      BY <2>1, <3>2 DEF Retries
    <3> QED
      BY <2>4, <3>1, <3>2 DEF Retry
  <2> QED
    BY <1>3, <2>2, <2>3, <2>4 DEF Complete
<1> QED
  BY <1>1, <1>2, <1>3 DEF Run

(* A run leaves the others alone, and when it ends it goes to the end of    *)
(* order.                                                                  *)
Apart(r) ==
    /\ UNCHANGED <<workflow, caller>> /\ pc[r] # "over"
    /\ hurt' \in {hurt, hurt \cup {r}}
    /\ \A q \in Runs \ {r} :
          /\ pc'[q] = pc[q] /\ chat'[q] = chat[q] /\ round'[q] = round[q] /\ context'[q] = context[q]
          /\ lent'[q] = lent[q] /\ steps'[q] = steps[q] /\ outcome'[q] = outcome[q]
    /\ \/ pc'[r] = "over" /\ outcome'[r] # "none" /\ order' = Append(order, r)
       \/ pc'[r] # "over" /\ outcome'[r] = outcome[r] /\ order' = order

LEMMA FailFacts ==
  ASSUME ChatTypeOK, NEW r \in Runs, Fail(r)
  PROVE  /\ hurt' = hurt \cup {r} /\ UNCHANGED <<chat, round, steps, attempts>>
         /\ \A q \in Runs \ {r} : pc'[q] = pc[q] /\ outcome'[q] = outcome[q]
         /\ pc' \in [Runs -> {"render", "tool", "complete", "render_again", "over"}]
         /\ outcome' \in [Runs -> {"none", "chat", "failed", "raised"}]
         /\ \/ pc'[r] = "over" /\ outcome'[r] = "raised" /\ order' = Append(order, r) /\ policy = "raise"
            \/ /\ pc'[r] = "over" /\ outcome'[r] = "failed" /\ order' = Append(order, r) /\ policy # "raise"
            \/ /\ pc'[r] = "render_again" /\ outcome' = outcome /\ order' = order
               /\ policy # "raise" /\ steps[r] = 0
<1>1. steps[r] \in Nat
  BY DEF ChatTypeOK
<1>2. /\ pc \in [Runs -> {"render", "tool", "complete", "render_again", "over"}]
      /\ outcome \in [Runs -> {"none", "chat", "failed", "raised"}]
  BY DEF ChatTypeOK
<1>3. CASE policy = "raise" /\ End(r, "raised")
  BY <1>2, <1>3 DEF Fail, End
<1>4. CASE policy # "raise" /\ steps[r] > 0 /\ End(r, "failed")
  BY <1>2, <1>4 DEF Fail, End
<1>5. CASE policy # "raise" /\ steps[r] = 0 /\ pc' = [pc EXCEPT ![r] = "render_again"] /\ UNCHANGED <<outcome, order>>
  BY <1>2, <1>5 DEF Fail
<1> QED
  BY <1>3, <1>4, <1>5 DEF Fail

LEMMA RunsApart ==
  ASSUME ChatTypeOK, NEW r \in Runs, Run(r)
  PROVE  Apart(r)
<1> USE DEF Apart
<1>1. /\ DOMAIN pc = Runs /\ DOMAIN chat = Runs /\ DOMAIN round = Runs /\ DOMAIN context = Runs
      /\ DOMAIN lent = Runs /\ DOMAIN steps = Runs /\ DOMAIN outcome = Runs
  BY DEF ChatTypeOK
<1>2. CASE Begins(r)
  BY <1>1, <1>2 DEF Begins
<1>3. CASE Breaks(r)
  <2>1. /\ UNCHANGED <<workflow, caller>> /\ pc[r] # "over" /\ Fail(r)
        /\ \A q \in Runs \ {r} : context'[q] = context[q] /\ lent'[q] = lent[q]
    BY <1>1, <1>3 DEF Breaks, Lends
  <2> QED
    BY <2>1, FailFacts
<1>4. CASE Uses(r)
  <2>1. /\ UNCHANGED <<workflow, caller, hurt>> /\ pc[r] # "over"
        /\ \A q \in Runs \ {r} : context'[q] = context[q] /\ lent'[q] = lent[q]
    BY <1>1, <1>4 DEF Uses, Lends
  <2>2. PICK m : ToolStep(r, m)
    BY <1>4 DEF Uses
  <2>3. \A q \in Runs \ {r} : chat'[q] = chat[q] /\ round'[q] = round[q] /\ steps'[q] = steps[q]
    BY <1>1, <2>2 DEF ToolStep
  <2>4. CASE End(r, "chat")
    BY <1>1, <2>1, <2>3, <2>4 DEF End
  <2>5. CASE ~End(r, "chat")
    <3>1. /\ pc' = [pc EXCEPT ![r] = IF round'[r] = <<>> THEN "complete" ELSE "tool"]
          /\ UNCHANGED <<outcome, order>>
      BY <2>2, <2>5 DEF ToolStep
    <3> QED
      BY <1>1, <2>1, <2>3, <3>1
  <2> QED
    BY <2>4, <2>5
<1>5. CASE Completes(r)
  <2>1. UNCHANGED <<workflow, caller>> /\ pc[r] # "over"
    BY <1>5 DEF Completes
  <2>2. PICK m : CompletionStep(r, m)
    BY <1>5 DEF Completes
  <2>3. /\ hurt' = hurt
        /\ \A q \in Runs \ {r} : chat'[q] = chat[q] /\ round'[q] = round[q] /\ steps'[q] = steps[q]
                                 /\ context'[q] = context[q] /\ lent'[q] = lent[q]
    BY <1>1, <2>2 DEF CompletionStep
  <2>4. CASE End(r, "chat")
    BY <1>1, <2>1, <2>3, <2>4 DEF End
  <2>5. CASE ~End(r, "chat")
    <3>1. pc' = [pc EXCEPT ![r] = "tool"] /\ UNCHANGED <<outcome, order>>
      BY <2>2, <2>5 DEF CompletionStep
    <3> QED
      BY <1>1, <2>1, <2>3, <3>1
  <2> QED
    BY <2>4, <2>5
<1>6. CASE Retries(r)
  BY <1>1, <1>6 DEF Retries
<1>7. CASE RenderAgain(r)
  <2>1. /\ UNCHANGED <<workflow, caller, round, lent, steps, hurt>> /\ pc[r] # "over"
        /\ \A q \in Runs \ {r} : chat'[q] = chat[q] /\ context'[q] = context[q]
        /\ End(r, "failed") \/ End(r, "raised")
    BY <1>1, <1>7 DEF RenderAgain
  <2> QED
    BY <1>1, <2>1 DEF End
<1> QED
  BY <1>2, <1>3, <1>4, <1>5, <1>6, <1>7, RunCases

-----------------------------------------------------------------------------
(* The chat of a run, step by step.                                        *)
LEMMA LastAppended ==
  ASSUME NEW c \in Seq(Messages), NEW m \in Messages
  PROVE  /\ Append(c, m) \in Seq(Messages) /\ Append(c, m) # <<>> /\ Last(Append(c, m)) = m
         /\ Len(Append(c, m)) = Len(c) + 1 /\ Len(c) \in Nat
         /\ Append(c, m)[Len(c) + 1] = m /\ \A i \in 1..Len(c) : Append(c, m)[i] = c[i]
<1> DEFINE M == Messages
<1> HIDE DEF M
<1>1. c \in Seq(M) /\ m \in M
  BY DEF M
<1>2. /\ Append(c, m) \in Seq(M) /\ Len(Append(c, m)) = Len(c) + 1 /\ Len(c) \in Nat
      /\ Append(c, m)[Len(c) + 1] = m /\ \A i \in 1..Len(c) : Append(c, m)[i] = c[i]
  BY <1>1, AppendProperties, LenProperties
<1>3. Append(c, m) # <<>>
  <2>1. Len(<<>>) = 0
    OBVIOUS
  <2> QED
    BY <1>2, <2>1
<1>4. Last(Append(c, m)) = m
  BY <1>2 DEF Last
<1> QED
  BY <1>2, <1>3, <1>4 DEF M

LEMMA LimitFacts ==
  ASSUME ChatTypeOK
  PROVE  /\ limit # NoLimit => limit \in Nat
         /\ \A r \in Runs : steps[r] \in Nat
         /\ \A r \in Runs : ~AtLimit(steps[r]) /\ limit # NoLimit => steps[r] + 1 <= limit
<1>1. limit # NoLimit => limit \in Nat
  BY ChatAssumption DEF ChatTypeOK
<1>2. \A r \in Runs : steps[r] \in Nat
  BY DEF ChatTypeOK
<1> QED
  BY <1>1, <1>2 DEF AtLimit

(* What the steps that add a message do to the chat of their run.          *)
LEMMA UseFacts ==
  ASSUME ChatTypeOK, NEW r \in Runs, MeasuredAt(r), RoundsAt(r), Uses(r)
  PROVE  \E m \in Messages, noted \in SUBSET Nat :
            /\ m \in {Result(Head(round[r])), Refusal(Head(round[r]))} /\ m.kind # "answer" /\ m # Invalid
            /\ lent[r] \subseteq noted /\ (m.kind = "result" => Len(chat[r]) + 1 \in noted)
            /\ context' = [context EXCEPT ![r] = noted] /\ lent' = [lent EXCEPT ![r] = noted]
            /\ chat' = [chat EXCEPT ![r] = Append(@, m)] /\ steps' = [steps EXCEPT ![r] = @ + 1]
            /\ round' = [round EXCEPT ![r] = Tail(@)] /\ attempts' = attempts /\ hurt' = hurt
            /\ Tail(round[r]) \in Seq(1..MaxCalls) /\ UNCHANGED <<workflow, caller>>
            /\ \/ AtLimit(steps[r] + 1) /\ End(r, "chat")
               \/ /\ ~AtLimit(steps[r] + 1) /\ UNCHANGED <<outcome, order>>
                  /\ pc' = [pc EXCEPT ![r] = IF Tail(round[r]) = <<>> THEN "complete" ELSE "tool"]
<1>1. /\ pc[r] = "tool" /\ UNCHANGED <<workflow, caller, hurt>>
      /\ round[r] \in Seq(1..MaxCalls) /\ round[r] # <<>>
  BY DEF Uses, MeasuredAt, ChatTypeOK
<1>2. Head(round[r]) \in 1..MaxCalls /\ Tail(round[r]) \in Seq(1..MaxCalls)
  BY <1>1, HeadTailProperties
<1>3. PICK noted \in SUBSET Nat, m \in {Result(Head(round[r])), Refusal(Head(round[r]))} :
          /\ Lends(r, noted)
          /\ m.kind = "result" => Len(chat[r]) + 1 \in noted
          /\ ToolStep(r, m)
  BY DEF Uses
<1>4. m \in Messages /\ m.kind # "answer" /\ m # Invalid
  BY <1>2, MessageFacts
<1>5. /\ chat' = [chat EXCEPT ![r] = Append(@, m)] /\ steps' = [steps EXCEPT ![r] = @ + 1]
      /\ round' = [round EXCEPT ![r] = Tail(@)] /\ attempts' = attempts
      /\ \/ AtLimit(steps[r] + 1) /\ End(r, "chat")
         \/ /\ ~AtLimit(steps[r] + 1) /\ UNCHANGED <<outcome, order>>
            /\ pc' = [pc EXCEPT ![r] = IF round'[r] = <<>> THEN "complete" ELSE "tool"]
  BY <1>3 DEF ToolStep
<1>6. round'[r] = Tail(round[r])
  BY <1>5 DEF ChatTypeOK
<1> QED
  BY <1>1, <1>2, <1>3, <1>4, <1>5, <1>6 DEF Lends

LEMMA CompleteFacts ==
  ASSUME ChatTypeOK, NEW r \in Runs, Completes(r)
  PROVE  \E m \in Messages :
            /\ m.kind \in {"answer", "calls"} /\ ~IsResult(m) /\ (strict => m # Invalid)
            /\ CallsOf(m) \in Seq(1..MaxCalls) /\ (m.kind = "calls" => CallsOf(m) # <<>>)
            /\ chat' = [chat EXCEPT ![r] = Append(@, m)] /\ steps' = [steps EXCEPT ![r] = @ + 1]
            /\ round' = [round EXCEPT ![r] = CallsOf(m)] /\ lent' = [lent EXCEPT ![r] = context[r]]
            /\ attempts' = [attempts EXCEPT ![r] = 0]
            /\ UNCHANGED <<workflow, caller, context, hurt>>
            /\ \/ (AtLimit(steps[r] + 1) \/ m.kind = "answer") /\ End(r, "chat")
               \/ /\ ~AtLimit(steps[r] + 1) /\ m.kind = "calls" /\ UNCHANGED <<outcome, order>>
                  /\ pc' = [pc EXCEPT ![r] = "tool"]
<1>1. PICK m \in {Valid, Invalid} \cup Calls : Accepted(r, m) /\ CompletionStep(r, m)
  BY DEF Completes
<1>2. m \in Messages /\ m.kind \in {"answer", "calls"}
  BY MessageFacts
<1>3. ~IsResult(m)
  BY <1>2, MessageFacts
<1>4. CallsOf(m) \in Seq(1..MaxCalls) /\ (m.kind = "calls" => CallsOf(m) # <<>>)
  BY <1>2, CallsOfFacts
<1>5. strict => m # Invalid
  BY <1>1 DEF Accepted
<1>6. UNCHANGED <<workflow, caller>>
  BY DEF Completes
<1> QED
  BY <1>1, <1>2, <1>3, <1>4, <1>5, <1>6 DEF CompletionStep

-----------------------------------------------------------------------------
(* The types of a step of a run.                                           *)
LEMMA RunTypes ==
  ASSUME ChatTypeOK, NEW r \in Runs, MeasuredAt(r), RoundsAt(r), Run(r)
  PROVE  ChatTypeOK'
<1> DEFINE Places == {"render", "tool", "complete", "render_again", "over"}
           Ends == {"none", "chat", "failed", "raised"}
           C == Seq(Messages)
           R == Seq(1..MaxCalls)
<1>1. /\ pc \in [Runs -> Places] /\ outcome \in [Runs -> Ends] /\ chat \in [Runs -> C] /\ round \in [Runs -> R]
      /\ context \in [Runs -> SUBSET Nat] /\ lent \in [Runs -> SUBSET Nat] /\ steps \in [Runs -> Nat]
      /\ attempts \in [Runs -> 0..NumRetries] /\ order \in Seq(Runs) /\ hurt \subseteq Runs /\ NumRetries \in Nat
  BY ChatAssumption DEF ChatTypeOK
<1>2. beginning \in C /\ CallsOf(Last(beginning)) \in R
  BY BeginningFacts, CallsOfFacts DEF ChatTypeOK
<1>3. Append(order, r) \in Seq(Runs)
  <2> DEFINE T == Runs
  <2> HIDE DEF T
  <2>1. order \in Seq(T) /\ r \in T
    BY <1>1 DEF T
  <2>2. Append(order, r) \in Seq(T)
    BY <2>1, AppendProperties
  <2> QED
    BY <2>2 DEF T
<1> HIDE DEF C, R
<1>4. \A how \in {"chat", "failed", "raised"} :
         End(r, how) => pc' \in [Runs -> Places] /\ outcome' \in [Runs -> Ends]
  BY <1>1 DEF End
<1> DEFINE Own == /\ pc' \in [Runs -> Places] /\ outcome' \in [Runs -> Ends]
                  /\ chat' \in [Runs -> C] /\ round' \in [Runs -> R]
                  /\ context' \in [Runs -> SUBSET Nat] /\ lent' \in [Runs -> SUBSET Nat]
                  /\ steps' \in [Runs -> Nat] /\ attempts' \in [Runs -> 0..NumRetries]
<1>5. ASSUME Begins(r) PROVE Own
  <2>1. Own
    BY <1>1, <1>2, <1>5 DEF Begins
  <2> QED
    BY <2>1
<1>6. ASSUME Breaks(r) PROVE Own
  <2>1. context' \in [Runs -> SUBSET Nat] /\ lent' \in [Runs -> SUBSET Nat]
    <3>1. CASE UNCHANGED <<context, lent>>
      BY <1>1, <3>1
    <3>2. CASE \E noted \in SUBSET Nat : Lends(r, noted)
      BY <1>1, <3>2 DEF Lends
    <3> QED
      BY <1>6, <3>1, <3>2 DEF Breaks
  <2>2. UNCHANGED <<chat, round, steps, attempts>> /\ pc' \in [Runs -> Places] /\ outcome' \in [Runs -> Ends]
    BY <1>6, FailFacts DEF Breaks
  <2> QED
    BY <1>1, <2>1, <2>2
<1>7. ASSUME Uses(r) PROVE Own
  <2>1. PICK m \in Messages, noted \in SUBSET Nat :
            /\ context' = [context EXCEPT ![r] = noted] /\ lent' = [lent EXCEPT ![r] = noted]
            /\ chat' = [chat EXCEPT ![r] = Append(@, m)] /\ steps' = [steps EXCEPT ![r] = @ + 1]
            /\ round' = [round EXCEPT ![r] = Tail(@)] /\ attempts' = attempts
            /\ Tail(round[r]) \in Seq(1..MaxCalls)
            /\ \/ End(r, "chat")
               \/ /\ UNCHANGED <<outcome, order>>
                  /\ pc' = [pc EXCEPT ![r] = IF Tail(round[r]) = <<>> THEN "complete" ELSE "tool"]
    BY <1>7, UseFacts
  <2>2. Append(chat[r], m) \in C /\ Tail(round[r]) \in R
    BY <1>1, <2>1, LastAppended DEF C, R
  <2>3. pc' \in [Runs -> Places] /\ outcome' \in [Runs -> Ends]
    BY <1>1, <1>4, <2>1
  <2> QED
    <3>1. lent' \in [Runs -> SUBSET Nat] /\ attempts' \in [Runs -> 0..NumRetries] /\ context' \in [Runs -> SUBSET Nat]
      BY <1>1, <2>1
    <3>2. chat' \in [Runs -> C] /\ round' \in [Runs -> R] /\ steps' \in [Runs -> Nat]
      BY <1>1, <2>1, <2>2
    <3> QED
      BY <2>3, <3>1, <3>2
<1>8. ASSUME Completes(r) PROVE Own
  <2>1. PICK m \in Messages :
            /\ CallsOf(m) \in Seq(1..MaxCalls)
            /\ chat' = [chat EXCEPT ![r] = Append(@, m)] /\ steps' = [steps EXCEPT ![r] = @ + 1]
            /\ round' = [round EXCEPT ![r] = CallsOf(m)] /\ lent' = [lent EXCEPT ![r] = context[r]]
            /\ attempts' = [attempts EXCEPT ![r] = 0] /\ context' = context
            /\ \/ End(r, "chat")
               \/ UNCHANGED <<outcome, order>> /\ pc' = [pc EXCEPT ![r] = "tool"]
    BY <1>8, CompleteFacts
  <2>2. Append(chat[r], m) \in C /\ CallsOf(m) \in R
    BY <1>1, <2>1, LastAppended DEF C, R
  <2>3. pc' \in [Runs -> Places] /\ outcome' \in [Runs -> Ends]
    BY <1>1, <1>4, <2>1
  <2> QED
    <3>1. lent' \in [Runs -> SUBSET Nat] /\ context' \in [Runs -> SUBSET Nat]
      BY <1>1, <2>1
    <3>2. attempts' \in [Runs -> 0..NumRetries] /\ steps' \in [Runs -> Nat]
      BY <1>1, <2>1
    <3>3. chat' \in [Runs -> C] /\ round' \in [Runs -> R]
      BY <1>1, <2>1, <2>2
    <3> QED
      BY <2>3, <3>1, <3>2, <3>3
<1>9. ASSUME Retries(r) PROVE Own
  <2>1. attempts[r] + 1 \in 0..NumRetries
    BY <1>1, <1>9 DEF Retries
  <2> QED
    BY <1>1, <1>9, <2>1 DEF Retries
<1>10. ASSUME RenderAgain(r) PROVE Own
  <2>1. pc' \in [Runs -> Places] /\ outcome' \in [Runs -> Ends]
    BY <1>4, <1>10 DEF RenderAgain
  <2>2. chat' \in [Runs -> C] /\ context' \in [Runs -> SUBSET Nat]
    BY ZenonT(30), <1>1, <1>2, <1>10 DEF RenderAgain
  <2>3. UNCHANGED <<round, lent, steps, attempts>>
    BY <1>10 DEF RenderAgain
  <2> QED
    BY <1>1, <2>1, <2>2, <2>3
<1>11. Own
  BY <1>5, <1>6, <1>7, <1>8, <1>9, <1>10, RunCases
<1>12. UNCHANGED <<workflow, caller>> /\ order' \in Seq(Runs) /\ hurt' \subseteq Runs
  <2>1. /\ UNCHANGED <<workflow, caller>> /\ hurt' \in {hurt, hurt \cup {r}}
        /\ order' = order \/ order' = Append(order, r)
    BY RunsApart DEF Apart
  <2> QED
    BY <1>1, <1>3, <2>1
<1> HIDE DEF Own
<1>13. /\ policy' \in Policies /\ strict' \in BOOLEAN /\ limit' \in StepLimits
       /\ streaming' \in BOOLEAN /\ catching' \in BOOLEAN /\ beginning' \in Beginnings
       /\ taken' \in 0..NumRuns /\ results' \in Seq(Runs) /\ answer' \in {"none", "raised", "given"}
  BY <1>12 DEF workflow, caller, ChatTypeOK
<1> QED
  BY <1>11, <1>12, <1>13 DEF ChatTypeOK, Own, C, R

(* The other runs keep what they had.                                      *)
LEMMA OthersKeep ==
  ASSUME NEW r \in Runs, Apart(r), NEW q \in Runs \ {r},
         BlamedAt(q), MeasuredAt(q), NotedAt(q), RoundsAt(q)
  PROVE  BlamedAt(q)' /\ MeasuredAt(q)' /\ NotedAt(q)' /\ RoundsAt(q)'
<1>1. /\ pc'[q] = pc[q] /\ chat'[q] = chat[q] /\ round'[q] = round[q] /\ context'[q] = context[q]
      /\ lent'[q] = lent[q] /\ steps'[q] = steps[q] /\ outcome'[q] = outcome[q]
  BY DEF Apart
<1>2. /\ policy' = policy /\ strict' = strict /\ limit' = limit /\ beginning' = beginning
      /\ q \in hurt' <=> q \in hurt
  BY DEF Apart, workflow
<1>3. BlamedAt(q)'
  BY <1>1, <1>2 DEF BlamedAt
<1>4. MeasuredAt(q)'
  BY <1>1, <1>2 DEF MeasuredAt, AtLimit
<1>5. NotedAt(q)'
  BY <1>1 DEF NotedAt
<1>6. RoundsAt(q)'
  BY <1>1, <1>2 DEF RoundsAt, AtLimit
<1> QED
  BY <1>3, <1>4, <1>5, <1>6

(* Who is to blame for the end of a run, after each of its steps.          *)
LEMMA BlameKept ==
  ASSUME ChatTypeOK, NEW r \in Runs, pc[r] = "over" <=> outcome[r] # "none",
         BlamedAt(r), MeasuredAt(r), RoundsAt(r), Run(r)
  PROVE  BlamedAt(r)'
<1>1. /\ pc[r] # "over" /\ outcome[r] = "none" /\ policy' = policy
      /\ DOMAIN pc = Runs /\ DOMAIN outcome = Runs /\ DOMAIN steps = Runs /\ steps[r] \in Nat
  BY RunsApart DEF Apart, ChatTypeOK, workflow
<1>2. CASE Begins(r)
  BY <1>1, <1>2 DEF Begins, BlamedAt
<1>3. CASE Breaks(r)
  <2>1. Fail(r) /\ steps' = steps
    BY <1>3 DEF Breaks, Fail
  <2>2. CASE policy = "raise"
    BY <1>1, <2>1, <2>2, FailFacts DEF BlamedAt
  <2>3. CASE policy # "raise"
    BY <1>1, <2>1, <2>3, FailFacts DEF BlamedAt
  <2> QED
    BY <2>2, <2>3
<1>4. ASSUME hurt' = hurt, End(r, "chat"), pc[r] # "render_again" PROVE BlamedAt(r)'
  <2>1. r \notin hurt
    BY <1>1, <1>4 DEF BlamedAt
  <2> QED
    BY <1>1, <1>4, <2>1 DEF End, BlamedAt
<1>5. ASSUME UNCHANGED <<outcome, hurt>>, pc[r] # "render_again", pc'[r] \in {"tool", "complete"}
      PROVE  BlamedAt(r)'
  BY <1>1, <1>5 DEF BlamedAt
<1>6. CASE Uses(r)
  <2>1. hurt' = hurt /\ pc[r] = "tool"
    BY <1>6 DEF Uses
  <2>2. End(r, "chat") \/ (outcome' = outcome /\ pc' = [pc EXCEPT ![r] = IF Tail(round[r]) = <<>> THEN "complete" ELSE "tool"])
    BY <1>6, UseFacts
  <2> QED
    BY <1>1, <1>4, <1>5, <2>1, <2>2
<1>7. CASE Completes(r)
  <2>1. hurt' = hurt /\ pc[r] = "complete"
    BY <1>7, CompleteFacts DEF Completes
  <2>2. End(r, "chat") \/ (outcome' = outcome /\ pc' = [pc EXCEPT ![r] = "tool"])
    BY <1>7, CompleteFacts
  <2> QED
    BY <1>1, <1>4, <1>5, <2>1, <2>2
<1>8. CASE Retries(r)
  BY <1>1, <1>5, <1>8 DEF Retries
<1>9. CASE RenderAgain(r)
  <2>1. /\ steps' = steps /\ hurt' = hurt /\ pc[r] = "render_again"
        /\ End(r, "failed") \/ End(r, "raised")
    BY <1>9 DEF RenderAgain
  <2> QED
    BY <1>1, <2>1 DEF End, BlamedAt
<1> QED
  BY <1>2, <1>3, <1>6, <1>7, <1>8, <1>9, RunCases

(* The length of the chat, and what it ends with.                          *)
LEMMA MeasureKept ==
  ASSUME ChatTypeOK, NEW r \in Runs, pc[r] = "over" <=> outcome[r] # "none",
         BlamedAt(r), MeasuredAt(r), RoundsAt(r), Run(r)
  PROVE  MeasuredAt(r)'
<1>1. /\ pc[r] # "over" /\ outcome[r] = "none"
      /\ policy' = policy /\ limit' = limit /\ beginning' = beginning /\ strict' = strict
      /\ DOMAIN pc = Runs /\ DOMAIN outcome = Runs /\ DOMAIN steps = Runs /\ DOMAIN chat = Runs
      /\ DOMAIN round = Runs /\ steps[r] \in Nat /\ chat[r] \in Seq(Messages)
  BY RunsApart DEF Apart, ChatTypeOK, workflow
<1>2. /\ beginning \in Seq(Messages) /\ beginning # <<>> /\ Len(beginning) \in Nat
      /\ limit # NoLimit => limit \in Nat
  BY BeginningFacts, LimitFacts DEF ChatTypeOK
<1>3. CASE Begins(r)
  <2>1. /\ pc[r] = "render" /\ ~AtLimit(0) /\ steps' = steps /\ outcome' = outcome
        /\ chat'[r] = beginning /\ round'[r] = CallsOf(Last(beginning))
        /\ pc'[r] = IF CallsOf(Last(beginning)) = <<>> THEN "complete" ELSE "tool"
    BY <1>1, <1>3 DEF Begins
  <2>2. steps[r] = 0
    BY <2>1 DEF BlamedAt
  <2>3. Len(chat'[r]) <= Len(beginning) + steps'[r] /\ (limit # NoLimit => steps'[r] <= limit)
    BY <1>2, <2>1, <2>2
  <2> QED
    BY <1>1, <1>2, <2>1, <2>2, <2>3 DEF MeasuredAt, AtLimit
<1>4. CASE Breaks(r)
  <2>1. /\ UNCHANGED <<chat, steps>> /\ outcome'[r] # "chat" /\ pc'[r] \in {"over", "render_again"}
    BY <1>1, <1>4, FailFacts DEF Breaks
  <2> QED
    BY <1>1, <2>1 DEF MeasuredAt
<1>5. ASSUME NEW m \in Messages, chat' = [chat EXCEPT ![r] = Append(@, m)],
             steps' = [steps EXCEPT ![r] = @ + 1], pc[r] \in {"tool", "complete"}
      PROVE  /\ chat'[r] # <<>> /\ Last(chat'[r]) = m /\ Len(chat'[r]) <= Len(beginning) + steps'[r]
             /\ steps'[r] = steps[r] + 1
             /\ limit # NoLimit => steps'[r] <= limit
  <2>1. chat'[r] = Append(chat[r], m) /\ steps'[r] = steps[r] + 1
    BY <1>1, <1>5
  <2>2. ~AtLimit(steps[r]) /\ Len(chat[r]) <= Len(beginning) + steps[r]
    BY <1>5 DEF MeasuredAt
  <2>3. /\ chat'[r] # <<>> /\ Last(chat'[r]) = m /\ Len(chat'[r]) = Len(chat[r]) + 1
        /\ Len(chat[r]) \in Nat
    BY <1>1, <2>1, LastAppended
  <2>4. limit # NoLimit => steps'[r] <= limit
    BY <2>1, <2>2, LimitFacts
  <2>5. Len(chat'[r]) <= Len(beginning) + steps'[r]
    BY <1>1, <1>2, <2>1, <2>2, <2>3
  <2> QED
    BY <2>1, <2>3, <2>4, <2>5
<1>6. CASE Uses(r)
  <2>1. pc[r] = "tool"
    BY <1>6 DEF Uses
  <2>2. PICK m \in Messages :
          /\ m # Invalid
          /\ chat' = [chat EXCEPT ![r] = Append(@, m)] /\ steps' = [steps EXCEPT ![r] = @ + 1]
          /\ round' = [round EXCEPT ![r] = Tail(@)]
          /\ \/ AtLimit(steps[r] + 1) /\ End(r, "chat")
             \/ /\ ~AtLimit(steps[r] + 1) /\ UNCHANGED <<outcome, order>>
                /\ pc' = [pc EXCEPT ![r] = IF Tail(round[r]) = <<>> THEN "complete" ELSE "tool"]
    BY <1>6, UseFacts
  <2>3. /\ chat'[r] # <<>> /\ Last(chat'[r]) = m /\ Len(chat'[r]) <= Len(beginning) + steps'[r]
        /\ steps'[r] = steps[r] + 1 /\ (limit # NoLimit => steps'[r] <= limit) /\ round'[r] = Tail(round[r])
    BY <1>1, <1>5, <2>1, <2>2
  <2>4. CASE AtLimit(steps[r] + 1) /\ End(r, "chat")
    BY <1>1, <2>2, <2>3, <2>4 DEF End, MeasuredAt, AtLimit
  <2>5. CASE /\ ~AtLimit(steps[r] + 1) /\ UNCHANGED <<outcome, order>>
             /\ pc' = [pc EXCEPT ![r] = IF Tail(round[r]) = <<>> THEN "complete" ELSE "tool"]
    BY <1>1, <2>3, <2>5 DEF MeasuredAt, AtLimit
  <2> QED
    BY <2>2, <2>4, <2>5
<1>7. CASE Completes(r)
  <2>1. pc[r] = "complete"
    BY <1>7 DEF Completes
  <2>2. PICK m \in Messages :
          /\ strict => m # Invalid
          /\ m.kind = "calls" => CallsOf(m) # <<>>
          /\ chat' = [chat EXCEPT ![r] = Append(@, m)] /\ steps' = [steps EXCEPT ![r] = @ + 1]
          /\ round' = [round EXCEPT ![r] = CallsOf(m)]
          /\ \/ (AtLimit(steps[r] + 1) \/ m.kind = "answer") /\ End(r, "chat")
             \/ /\ ~AtLimit(steps[r] + 1) /\ m.kind = "calls" /\ UNCHANGED <<outcome, order>>
                /\ pc' = [pc EXCEPT ![r] = "tool"]
    BY <1>7, CompleteFacts
  <2>3. /\ chat'[r] # <<>> /\ Last(chat'[r]) = m /\ Len(chat'[r]) <= Len(beginning) + steps'[r]
        /\ steps'[r] = steps[r] + 1 /\ (limit # NoLimit => steps'[r] <= limit) /\ round'[r] = CallsOf(m)
    BY <1>1, <1>5, <2>1, <2>2
  <2>4. CASE (AtLimit(steps[r] + 1) \/ m.kind = "answer") /\ End(r, "chat")
    BY <1>1, <2>2, <2>3, <2>4 DEF End, MeasuredAt, AtLimit
  <2>5. CASE /\ ~AtLimit(steps[r] + 1) /\ m.kind = "calls" /\ UNCHANGED <<outcome, order>>
             /\ pc' = [pc EXCEPT ![r] = "tool"]
    BY <1>1, <2>2, <2>3, <2>5 DEF MeasuredAt, AtLimit
  <2> QED
    BY <2>2, <2>4, <2>5
<1>8. CASE Retries(r)
  BY <1>1, <1>8 DEF Retries, MeasuredAt, AtLimit
<1>9. CASE RenderAgain(r)
  <2>1. /\ chat'[r] = beginning \/ chat'[r] = chat[r]
        /\ pc'[r] = "over" /\ outcome'[r] # "chat"
    BY <1>1, <1>9 DEF RenderAgain, End
  <2>2. steps' = steps
    BY <1>9 DEF RenderAgain
  <2> QED
    BY <1>1, <1>2, <2>1, <2>2 DEF MeasuredAt
<1> QED
  BY <1>3, <1>4, <1>6, <1>7, <1>8, <1>9, RunCases

(* The notes of the tools stay with the chat.                              *)
LEMMA NotesKept ==
  ASSUME ChatTypeOK, NEW r \in Runs, MeasuredAt(r), NotedAt(r), RoundsAt(r), Run(r)
  PROVE  NotedAt(r)'
<1>1. /\ DOMAIN pc = Runs /\ DOMAIN chat = Runs /\ DOMAIN context = Runs /\ DOMAIN lent = Runs
      /\ chat[r] \in Seq(Messages) /\ beginning \in Beginnings
  BY DEF ChatTypeOK
<1>2. ASSUME chat'[r] = beginning PROVE NotedAt(r)'
  BY <1>1, <1>2, BeginningFacts DEF NotedAt
<1>3. CASE Begins(r)
  BY <1>1, <1>2, <1>3 DEF Begins
<1>4. CASE Breaks(r)
  <2>1. chat' = chat /\ pc'[r] # "tool"
    BY <1>1, <1>4, FailFacts DEF Breaks
  <2>2. context'[r] = context[r] \/ (pc[r] = "tool" /\ lent[r] \subseteq context'[r])
    BY <1>1, <1>4 DEF Breaks, Lends
  <2> QED
    BY <2>1, <2>2 DEF NotedAt
<1>5. CASE Uses(r)
  <2>1. PICK m \in Messages, noted \in SUBSET Nat :
            /\ lent[r] \subseteq noted /\ (m.kind = "result" => Len(chat[r]) + 1 \in noted)
            /\ context' = [context EXCEPT ![r] = noted] /\ lent' = [lent EXCEPT ![r] = noted]
            /\ chat' = [chat EXCEPT ![r] = Append(@, m)]
    BY <1>5, UseFacts
  <2>2. /\ context'[r] = noted /\ lent'[r] = noted /\ chat'[r] = Append(chat[r], m) /\ pc[r] = "tool"
    BY <1>1, <1>5, <2>1 DEF Uses
  <2> DEFINE n == Len(chat[r])
  <2>3. /\ Len(chat'[r]) = n + 1 /\ n \in Nat /\ chat'[r][n + 1] = m
        /\ \A i \in 1..n : chat'[r][i] = chat[r][i]
    BY <1>1, <2>2, LastAppended
  <2>4. \A i \in 1..n : chat[r][i].kind = "result" => i \in noted
    BY <2>1, <2>2 DEF NotedAt
  <2>5. m.kind = "result" => n + 1 \in noted
    BY <2>1
  <2> HIDE DEF n
  <2>6. \A i \in 1..(n + 1) : chat'[r][i].kind = "result" => i \in noted
    BY <2>3, <2>4, <2>5
  <2> QED
    BY <2>2, <2>3, <2>6 DEF NotedAt
<1>6. CASE Completes(r)
  <2>1. PICK m \in Messages :
            /\ m.kind \in {"answer", "calls"} /\ context' = context
            /\ lent' = [lent EXCEPT ![r] = context[r]] /\ chat' = [chat EXCEPT ![r] = Append(@, m)]
    BY <1>6, CompleteFacts
  <2>2. context'[r] = context[r] /\ lent'[r] = context[r] /\ chat'[r] = Append(chat[r], m)
    BY <1>1, <2>1
  <2> DEFINE n == Len(chat[r])
  <2>3. /\ Len(chat'[r]) = n + 1 /\ n \in Nat /\ chat'[r][n + 1] = m
        /\ \A i \in 1..n : chat'[r][i] = chat[r][i]
    BY <1>1, <2>2, LastAppended
  <2>4. \A i \in 1..n : chat[r][i].kind = "result" => i \in context[r]
    BY DEF NotedAt
  <2> HIDE DEF n
  <2>5. \A i \in 1..(n + 1) : chat'[r][i].kind = "result" => i \in context[r]
    BY <2>1, <2>3, <2>4
  <2> QED
    BY <2>2, <2>3, <2>5 DEF NotedAt
<1>7. CASE Retries(r)
  BY <1>7 DEF Retries, NotedAt
<1>8. CASE RenderAgain(r)
  <2>1. chat'[r] = beginning \/ (UNCHANGED <<chat, context>> /\ pc'[r] = "over")
    BY <1>1, <1>8 DEF RenderAgain, End
  <2> QED
    BY <1>2, <2>1 DEF NotedAt
<1> QED
  BY <1>3, <1>4, <1>5, <1>6, <1>7, <1>8, RunCases

(* Calls and their results stay paired, or are owed.                       *)
LEMMA RoundsKept ==
  ASSUME ChatTypeOK, NEW r \in Runs, pc[r] = "over" <=> outcome[r] # "none",
         MeasuredAt(r), RoundsAt(r), Run(r)
  PROVE  RoundsAt(r)'
<1>1. /\ DOMAIN pc = Runs /\ DOMAIN chat = Runs /\ DOMAIN round = Runs /\ DOMAIN steps = Runs
      /\ DOMAIN outcome = Runs /\ limit' = limit /\ outcome[r] = "none"
      /\ chat[r] \in Seq(Messages) /\ beginning \in Beginnings /\ round[r] \in Seq(1..MaxCalls)
  BY RunsApart DEF Apart, ChatTypeOK, workflow
<1>2. CASE Begins(r)
  <2>1. /\ chat'[r] = beginning /\ round'[r] = CallsOf(Last(beginning)) /\ outcome'[r] = "none"
        /\ pc'[r] = IF CallsOf(Last(beginning)) = <<>> THEN "complete" ELSE "tool"
    BY <1>1, <1>2 DEF Begins
  <2> QED
    BY <1>1, <2>1, BeginningFacts DEF RoundsAt
<1>3. CASE Breaks(r)
  <2>1. outcome'[r] # "chat" /\ pc'[r] \in {"over", "render_again"}
    BY <1>1, <1>3, FailFacts DEF Breaks
  <2> QED
    BY <2>1 DEF RoundsAt
<1>4. CASE Uses(r)
  <2>1. PICK m \in {Result(Head(round[r])), Refusal(Head(round[r]))} :
          /\ chat' = [chat EXCEPT ![r] = Append(@, m)] /\ steps' = [steps EXCEPT ![r] = @ + 1]
          /\ round' = [round EXCEPT ![r] = Tail(@)]
          /\ \/ AtLimit(steps[r] + 1) /\ End(r, "chat")
             \/ /\ ~AtLimit(steps[r] + 1) /\ UNCHANGED <<outcome, order>>
                /\ pc' = [pc EXCEPT ![r] = IF Tail(round[r]) = <<>> THEN "complete" ELSE "tool"]
    BY <1>4, UseFacts
  <2>2. Owes(chat[r], round[r])
    BY <1>4 DEF Uses, RoundsAt
  <2>3. /\ chat'[r] = Append(chat[r], m) /\ round'[r] = Tail(round[r]) /\ steps'[r] = steps[r] + 1
    BY <1>1, <2>1
  <2>4. /\ Tail(round[r]) = <<>> => Paired(chat'[r])
        /\ Tail(round[r]) # <<>> => Owes(chat'[r], round'[r])
    BY <1>1, <2>2, <2>3, ResultSettles
  <2>5. CASE AtLimit(steps[r] + 1) /\ End(r, "chat")
    BY <1>1, <2>3, <2>5 DEF End, RoundsAt, AtLimit
  <2>6. CASE /\ ~AtLimit(steps[r] + 1) /\ UNCHANGED <<outcome, order>>
             /\ pc' = [pc EXCEPT ![r] = IF Tail(round[r]) = <<>> THEN "complete" ELSE "tool"]
    BY <1>1, <2>4, <2>6 DEF RoundsAt
  <2> QED
    BY <2>1, <2>5, <2>6
<1>5. CASE Completes(r)
  <2>1. PICK m \in Messages :
          /\ m.kind \in {"answer", "calls"} /\ ~IsResult(m)
          /\ chat' = [chat EXCEPT ![r] = Append(@, m)] /\ steps' = [steps EXCEPT ![r] = @ + 1]
          /\ round' = [round EXCEPT ![r] = CallsOf(m)]
          /\ \/ (AtLimit(steps[r] + 1) \/ m.kind = "answer") /\ End(r, "chat")
             \/ /\ ~AtLimit(steps[r] + 1) /\ m.kind = "calls" /\ UNCHANGED <<outcome, order>>
                /\ pc' = [pc EXCEPT ![r] = "tool"]
    BY <1>5, CompleteFacts
  <2>2. Paired(chat[r])
    BY <1>5 DEF Completes, RoundsAt
  <2>3. /\ chat'[r] = Append(chat[r], m) /\ round'[r] = CallsOf(m) /\ steps'[r] = steps[r] + 1
    BY <1>1, <2>1
  <2>4. /\ m.kind # "calls" => Paired(chat'[r])
        /\ m.kind = "calls" => Owes(chat'[r], round'[r])
    BY <1>1, <2>1, <2>2, <2>3, AppendSettles
  <2>5. CASE (AtLimit(steps[r] + 1) \/ m.kind = "answer") /\ End(r, "chat")
    BY <1>1, <2>3, <2>4, <2>5 DEF End, RoundsAt, AtLimit
  <2>6. CASE /\ ~AtLimit(steps[r] + 1) /\ m.kind = "calls" /\ UNCHANGED <<outcome, order>>
             /\ pc' = [pc EXCEPT ![r] = "tool"]
    BY <1>1, <2>4, <2>6 DEF RoundsAt
  <2> QED
    BY <2>1, <2>5, <2>6
<1>6. CASE Retries(r)
  BY <1>1, <1>6 DEF Retries, RoundsAt
<1>7. CASE RenderAgain(r)
  <2>1. pc'[r] = "over" /\ outcome'[r] # "chat"
    BY <1>1, <1>7 DEF RenderAgain, End
  <2> QED
    BY <2>1 DEF RoundsAt
<1> QED
  BY <1>2, <1>3, <1>4, <1>5, <1>6, <1>7, RunCases

-----------------------------------------------------------------------------
(* The runs and their caller.                                              *)
LEMMA OrderFacts ==
  ASSUME ChatTypeOK, NEW r \in Runs
  PROVE  /\ Len(order) \in Nat /\ DOMAIN order = 1..Len(order)
         /\ \A i \in 1..Len(order) : order[i] \in Runs
         /\ Len(Append(order, r)) = Len(order) + 1
         /\ DOMAIN Append(order, r) = 1..(Len(order) + 1)
         /\ Append(order, r)[Len(order) + 1] = r
         /\ \A i \in 1..Len(order) : Append(order, r)[i] = order[i]
<1> DEFINE T == Runs
<1>1. order \in Seq(T) /\ r \in T
  BY DEF ChatTypeOK
<1> HIDE DEF T
<1>2. /\ Len(order) \in Nat /\ DOMAIN order = 1..Len(order)
      /\ \A i \in 1..Len(order) : order[i] \in T
  BY <1>1, LenProperties
<1>3. /\ Append(order, r) \in Seq(T) /\ Len(Append(order, r)) = Len(order) + 1
      /\ Append(order, r)[Len(order) + 1] = r
      /\ \A i \in 1..Len(order) : Append(order, r)[i] = order[i]
  BY <1>1, AppendProperties
<1>4. DOMAIN Append(order, r) = 1..(Len(order) + 1)
  BY <1>3, LenProperties
<1> QED
  BY <1>2, <1>3, <1>4 DEF T

LEMMA EndedKept ==
  ASSUME ChatTypeOK, Ended, NEW r \in Runs, Apart(r)
  PROVE  Ended'
<1>1. /\ Len(order) \in Nat /\ DOMAIN order = 1..Len(order) /\ taken \in Nat /\ taken' = taken
      /\ pc[r] # "over" /\ outcome[r] = "none"
      /\ \A q \in Runs \ {r} : pc'[q] = pc[q] /\ outcome'[q] = outcome[q]
  BY OrderFacts DEF Apart, Ended, ChatTypeOK, caller
<1>2. CASE pc'[r] # "over" /\ outcome'[r] = outcome[r] /\ order' = order
  BY <1>1, <1>2 DEF Ended
<1>3. CASE pc'[r] = "over" /\ outcome'[r] # "none" /\ order' = Append(order, r)
  <2> DEFINE n == Len(order)
  <2>1. /\ Len(order') = n + 1 /\ DOMAIN order' = 1..(n + 1) /\ order'[n + 1] = r /\ n \in Nat
        /\ \A i \in 1..n : order'[i] = order[i] /\ order[i] \in Runs
    BY <1>3, OrderFacts
  <2>2. \A i \in 1..n : order[i] # r
    BY <1>1 DEF Ended
  <2>3. \A i, j \in 1..n : order[i] = order[j] => i = j
    BY <1>1 DEF Ended, IsInjective
  <2>4. \A q \in Runs : pc[q] = "over" <=> \E i \in 1..n : order[i] = q
    BY <1>1 DEF Ended
  <2>5. \A q \in Runs : pc[q] = "over" <=> outcome[q] # "none"
    BY DEF Ended
  <2>6. taken <= n
    BY DEF Ended
  <2> HIDE DEF n
  <2>7. IsInjective(order')
    <3> SUFFICES ASSUME NEW i \in 1..(n + 1), NEW j \in 1..(n + 1), order'[i] = order'[j] PROVE i = j
      BY <2>1 DEF IsInjective
    <3>1. (i \in 1..n \/ i = n + 1) /\ (j \in 1..n \/ j = n + 1)
      BY <2>1
    <3> QED
      BY <2>1, <2>2, <2>3, <3>1
  <2>8. \A q \in Runs : pc'[q] = "over" <=> \E i \in 1..(n + 1) : order'[i] = q
    <3> SUFFICES ASSUME NEW q \in Runs PROVE pc'[q] = "over" <=> \E i \in 1..(n + 1) : order'[i] = q
      OBVIOUS
    <3>1. n + 1 \in 1..(n + 1) /\ 1..n \subseteq 1..(n + 1)
      BY <2>1
    <3>2. CASE q = r
      BY <1>3, <2>1, <3>1, <3>2
    <3>3. CASE q # r
      <4>1. \A i \in 1..(n + 1) : order'[i] = q => i \in 1..n
        BY <2>1, <3>3
      <4> QED
        BY <1>1, <2>1, <2>4, <3>1, <3>3, <4>1
    <3> QED
      BY <3>2, <3>3
  <2>9. \A q \in Runs : pc'[q] = "over" <=> outcome'[q] # "none"
    BY <1>1, <1>3, <2>5
  <2>10. taken' <= n + 1
    BY <1>1, <2>1, <2>6
  <2> QED
    BY <2>1, <2>7, <2>8, <2>9, <2>10 DEF Ended
<1> QED
  BY <1>2, <1>3 DEF Apart

LEMMA AnswerKept ==
  ASSUME ChatTypeOK, Ended, Answered, NEW r \in Runs, Apart(r)
  PROVE  Answered'
<1>1. /\ taken' = taken /\ results' = results /\ answer' = answer /\ streaming' = streaming /\ policy' = policy
      /\ pc[r] # "over" /\ outcome[r] = "none"
      /\ \A q \in Runs \ {r} : outcome'[q] = outcome[q]
  BY DEF Apart, Ended, caller, workflow
<1>2. answer # "given"
  <2>1. Len(order) = NumRuns => pc[r] = "over"
    BY AllEnded DEF Ended
  <2> QED
    BY <1>1, <2>1 DEF Answered
<1>3. answer = "raised" => \E q \in Runs : outcome'[q] = "raised"
  BY <1>1 DEF Answered
<1>4. ~streaming => results = <<>>
  BY <1>2 DEF Answered
<1>5. ASSUME streaming, answer # "raised"
      PROVE  /\ IsInjective(results)
             /\ \A i \in 1..taken : outcome'[order'[i]] # "raised"
             /\ ToSet(results) = {q \in Runs : Kept(q)' /\ \E i \in 1..taken : order'[i] = q}
  <2>1. \A i \in 1..taken : /\ order'[i] = order[i] /\ order[i] \in Runs \ {r}
                            /\ outcome'[order[i]] = outcome[order[i]]
    <3> SUFFICES ASSUME NEW i \in 1..taken
                 PROVE  /\ order'[i] = order[i] /\ order[i] \in Runs \ {r}
                        /\ outcome'[order[i]] = outcome[order[i]]
      OBVIOUS
    <3>1. i \in 1..Len(order)
      <4>1. taken \in Nat /\ taken <= Len(order) /\ Len(order) \in Nat
        BY OrderFacts DEF ChatTypeOK, Ended
      <4> QED
        BY <4>1
    <3>2. order'[i] = order[i] /\ order[i] \in Runs
      BY <3>1, OrderFacts DEF Apart
    <3>3. pc[order[i]] = "over"
      BY <3>1, <3>2, OrderFacts DEF Ended
    <3> QED
      BY <1>1, <3>2, <3>3
  <2>2. \A q \in Runs \ {r} : Kept(q)' <=> Kept(q)
    BY <1>1 DEF Kept
  <2>3. \A q \in Runs : (Kept(q)' /\ \E i \in 1..taken : order'[i] = q) <=> (Kept(q) /\ \E i \in 1..taken : order[i] = q)
    BY <2>1, <2>2
  <2>4. /\ IsInjective(results) /\ \A i \in 1..taken : outcome[order[i]] # "raised"
        /\ ToSet(results) = {q \in Runs : Kept(q) /\ \E i \in 1..taken : order[i] = q}
    BY <1>5 DEF Answered
  <2> QED
    BY <2>1, <2>3, <2>4
<1> QED
  BY <1>1, <1>2, <1>3, <1>4, <1>5 DEF Answered

(* What the callers leave alone, the parts about the runs rest on.         *)
LEMMA CallersKeep ==
  ASSUME Ended, Blamed, Measured, Noted, Rounds,
         UNCHANGED <<workflow, pc, chat, round, context, lent, steps, attempts, outcome, order, hurt>>,
         taken' <= Len(order)
  PROVE  Ended' /\ Blamed' /\ Measured' /\ Noted' /\ Rounds'
<1>1. Ended'
  BY DEF Ended
<1>2. Blamed'
  BY DEF Blamed, BlamedAt, workflow
<1>3. Measured'
  BY DEF Measured, MeasuredAt, AtLimit, workflow
<1>4. Noted'
  BY DEF Noted, NotedAt
<1>5. Rounds'
  BY DEF Rounds, RoundsAt, AtLimit, workflow
<1> QED
  BY <1>1, <1>2, <1>3, <1>4, <1>5

LEMMA GatherKeeps ==
  ASSUME ChatTypeOK, Ended, Answered, Gather
  PROVE  ChatTypeOK' /\ Answered' /\ taken' <= Len(order)
<1> DEFINE S == {r \in Runs : Kept(r)}
<1>1. /\ ~streaming /\ answer = "none" /\ taken' = taken
      /\ UNCHANGED <<workflow, pc, chat, round, context, lent, steps, attempts, outcome, order, hurt>>
  BY DEF Gather
<1>2. /\ policy' = policy /\ streaming' = streaming /\ strict' = strict /\ limit' = limit
      /\ catching' = catching /\ beginning' = beginning
  BY <1>1 DEF workflow
<1>3. taken' <= Len(order)
  BY <1>1 DEF Ended
<1>4. InOrder(S) \in Seq(Runs)
  BY InOrderFacts
<1>5. results = <<>>
  BY <1>1 DEF Answered
<1>6. S' = S
  BY <1>1, <1>2 DEF Kept
<1> HIDE DEF S
<1>7. CASE Raised /\ answer' = "raised" /\ UNCHANGED results
  <2>1. \E r \in Runs : outcome'[r] = "raised"
    <3>1. PICK i \in 1..Len(order) : outcome[order[i]] = "raised"
      BY <1>7 DEF Raised
    <3>2. order[i] \in Runs
      BY <3>1, RunsFinite, AllEnded, LenProperties DEF ChatTypeOK
    <3> QED
      BY <1>1, <3>1, <3>2
  <2>2. Answered'
    BY <1>1, <1>2, <1>5, <1>7, <2>1 DEF Answered
  <2>3. ChatTypeOK'
    BY <1>1, <1>2, <1>7 DEF ChatTypeOK
  <2> QED
    BY <1>3, <2>2, <2>3
<1>8. CASE ~Raised /\ Len(order) = NumRuns /\ answer' = "given" /\ results' = InOrder(S)
  <2>1. \A r \in Runs : outcome[r] # "raised"
    <3>1. \A r \in Runs : \E i \in 1..Len(order) : order[i] = r
      BY <1>8, AllEnded
    <3> QED
      BY <1>8, <3>1 DEF Raised
  <2>2. results' = InOrder(S)'
    BY <1>6, <1>8 DEF InOrder
  <2>3. Answered'
    BY <1>1, <1>2, <1>8, <2>1, <2>2 DEF Answered, S
  <2>4. ChatTypeOK'
    BY <1>1, <1>2, <1>4, <1>8 DEF ChatTypeOK
  <2> QED
    BY <1>3, <2>3, <2>4
<1> QED
  BY <1>7, <1>8 DEF Gather, S

LEMMA StreamKeeps ==
  ASSUME ChatTypeOK, Ended, Answered, Stream
  PROVE  ChatTypeOK' /\ Answered' /\ taken' <= Len(order)
<1>1. /\ streaming /\ answer = "none"
      /\ UNCHANGED <<workflow, pc, chat, round, context, lent, steps, attempts, outcome, order, hurt>>
  BY DEF Stream
<1>2. /\ policy' = policy /\ streaming' = streaming /\ strict' = strict /\ limit' = limit
      /\ catching' = catching /\ beginning' = beginning
  BY <1>1 DEF workflow
<1>3. /\ taken \in Nat /\ taken <= Len(order) /\ Len(order) \in 0..NumRuns /\ NumRuns \in Nat
      /\ DOMAIN order = 1..Len(order) /\ results \in Seq(Runs)
  BY SMTT(30), AllEnded, RunsFinite DEF ChatTypeOK, Ended
<1>4. /\ IsInjective(results) /\ \A i \in 1..taken : outcome[order[i]] # "raised"
      /\ ToSet(results) = {q \in Runs : Kept(q) /\ \E i \in 1..taken : order[i] = q}
  BY <1>1 DEF Answered
<1>5. \A q \in Runs : Kept(q)' <=> Kept(q)
  BY <1>1, <1>2 DEF Kept
<1>6. CASE taken = NumRuns /\ answer' = "given" /\ UNCHANGED <<taken, results>>
  <2>1. Len(order) = NumRuns
    <3>1. taken = NumRuns
      BY <1>6
    <3> DEFINE n == Len(order)
    <3>2. n \in 0..NumRuns /\ NumRuns <= n /\ NumRuns \in Nat
      BY <1>3, <3>1
    <3> HIDE DEF n
    <3>3. n = NumRuns
      BY <3>2
    <3> QED
      BY <3>3 DEF n
  <2>2. \A r \in Runs : outcome[r] # "raised"
    BY <1>4, <1>6, <2>1, AllEnded
  <2>3. Answered'
    BY <1>1, <1>2, <1>4, <1>5, <1>6, <2>1, <2>2 DEF Answered
  <2>4. ChatTypeOK'
    BY <1>1, <1>2, <1>6 DEF ChatTypeOK
  <2> QED
    BY <1>3, <1>6, <2>3, <2>4
<1>7. ASSUME taken < Len(order), taken' = taken + 1, NEW r, r = order[taken + 1],
             \/ outcome[r] = "raised" /\ answer' = "raised" /\ UNCHANGED results
             \/ /\ outcome[r] # "raised" /\ UNCHANGED answer
                /\ results' = IF Kept(r) THEN Append(results, r) ELSE results
      PROVE  ChatTypeOK' /\ Answered' /\ taken' <= Len(order)
  <2>1. /\ taken + 1 \in 1..Len(order) /\ taken' \in 0..NumRuns /\ taken' <= Len(order)
    BY <1>3, <1>7
  <2>2. r \in Runs
    BY <1>7, <2>1, OrderFacts, RunsFinite, LenProperties DEF ChatTypeOK
  <2>3. CASE outcome[r] = "raised" /\ answer' = "raised" /\ UNCHANGED results
    <3>1. Answered'
      BY <1>1, <1>2, <2>2, <2>3 DEF Answered
    <3>2. ChatTypeOK'
      BY <1>1, <1>2, <2>1, <2>3 DEF ChatTypeOK
    <3> QED
      BY <2>1, <3>1, <3>2
  <2>4. CASE /\ outcome[r] # "raised" /\ UNCHANGED answer
             /\ results' = IF Kept(r) THEN Append(results, r) ELSE results
    <3>1. r \notin ToSet(results)
      <4>1. \A i \in 1..taken : i \in DOMAIN order /\ taken + 1 \in DOMAIN order /\ i # taken + 1
        BY <1>3, <2>1
      <4>2. \A i \in 1..taken : order[i] # r
        BY <1>7, <4>1 DEF Ended, IsInjective
      <4> QED
        BY <1>4, <4>2
    <3>2. /\ results' \in Seq(Runs) /\ IsInjective(results')
          /\ ToSet(results') = IF Kept(r) THEN ToSet(results) \cup {r} ELSE ToSet(results)
      <4>1. CASE ~Kept(r)
        BY <1>3, <1>4, <2>4, <4>1
      <4>2. CASE Kept(r)
        <5> DEFINE T == Runs
                   n == Len(results)
                   more == Append(results, r)
        <5>1. results \in Seq(T) /\ r \in T
          BY <1>3, <2>2
        <5> HIDE DEF T
        <5>2. /\ n \in Nat /\ DOMAIN results = 1..n /\ more \in Seq(T) /\ Len(more) = n + 1
              /\ more[n + 1] = r /\ \A i \in 1..n : more[i] = results[i]
          BY <5>1, AppendProperties, LenProperties
        <5>3. DOMAIN more = 1..(n + 1)
          BY <5>2, LenProperties
        <5>4. \A i \in 1..n : results[i] # r
          BY <3>1, <5>2 DEF ToSet
        <5>5. \A i, j \in 1..n : results[i] = results[j] => i = j
          BY <1>4, <5>2 DEF IsInjective
        <5> HIDE DEF n, more
        <5>6. \A i \in 1..(n + 1) : i \in 1..n \/ i = n + 1
          BY <5>2
        <5>7. IsInjective(more)
          <6> SUFFICES ASSUME NEW i \in 1..(n + 1), NEW j \in 1..(n + 1), more[i] = more[j] PROVE i = j
            BY <5>3 DEF IsInjective
          <6> QED
            BY <5>2, <5>4, <5>5, <5>6
        <5>8. ToSet(more) = ToSet(results) \cup {r}
          <6>1. 1..n \subseteq 1..(n + 1) /\ n + 1 \in 1..(n + 1)
            BY <5>2
          <6>2. \A x : x \in ToSet(more) <=> \E i \in 1..(n + 1) : more[i] = x
            BY <5>3 DEF ToSet
          <6>3. \A x : x \in ToSet(results) <=> \E i \in 1..n : results[i] = x
            BY <5>2 DEF ToSet
          <6>4. \A x : (\E i \in 1..(n + 1) : more[i] = x) <=> (x = r \/ \E i \in 1..n : results[i] = x)
            BY <5>2, <5>6, <6>1
          <6> QED
            BY <6>2, <6>3, <6>4
        <5> QED
          BY <2>4, <4>2, <5>2, <5>7, <5>8 DEF T, more
      <4> QED
        BY <4>1, <4>2
    <3>3. /\ \A i \in 1..(taken + 1) : i \in 1..taken \/ i = taken + 1
          /\ 1..taken \subseteq 1..(taken + 1) /\ taken + 1 \in 1..(taken + 1)
      BY <1>3
    <3>4. \A i \in 1..taken' : outcome'[order'[i]] # "raised"
      BY <1>1, <1>4, <1>7, <2>4, <3>3
    <3>5. ToSet(results') = {q \in Runs : Kept(q)' /\ \E i \in 1..taken' : order'[i] = q}
      <4>1. \A q : (\E i \in 1..taken' : order'[i] = q) <=> (q = r \/ \E i \in 1..taken : order[i] = q)
        BY <1>1, <1>7, <3>3
      <4>2. {q \in Runs : Kept(q)' /\ \E i \in 1..taken' : order'[i] = q}
              = {q \in Runs : Kept(q) /\ (q = r \/ \E i \in 1..taken : order[i] = q)}
        BY <1>5, <4>1
      <4> QED
        BY <1>4, <2>2, <3>2, <4>2
    <3>6. Answered'
      BY <1>1, <1>2, <2>4, <3>2, <3>4, <3>5 DEF Answered
    <3>7. ChatTypeOK'
      BY <1>1, <1>2, <2>1, <2>4, <3>2 DEF ChatTypeOK
    <3> QED
      BY <2>1, <3>6, <3>7
  <2> QED
    BY <1>7, <2>3, <2>4
<1> QED
  BY <1>6, <1>7 DEF Stream

-----------------------------------------------------------------------------
(* The invariant.                                                          *)
LEMMA ChatBegins ==
  ASSUME ChatInit
  PROVE  ChatInv
<1> USE ChatAssumption DEF ChatInit
<1>1. ChatTypeOK
  <2>1. <<>> \in Seq(Messages) /\ <<>> \in Seq(1..MaxCalls) /\ <<>> \in Seq(Runs)
    OBVIOUS
  <2>2. 0 \in 0..NumRetries /\ 0 \in 0..NumRuns
    OBVIOUS
  <2> QED
    BY <2>1, <2>2 DEF ChatTypeOK
<1>2. Len(<<>>) = 0 /\ DOMAIN <<>> = {}
  OBVIOUS
<1>3. Ended
  BY <1>2 DEF Ended, IsInjective
<1>4. Blamed
  BY DEF Blamed, BlamedAt
<1>5. Answered
  <2>1. ToSet(results) = {} /\ IsInjective(results) /\ 1..taken = {}
    BY <1>2 DEF ToSet, IsInjective
  <2> QED
    BY <2>1 DEF Answered
<1>6. Measured
  <2>1. Len(beginning) \in Nat
    BY BeginningFacts
  <2>2. limit # NoLimit => 0 <= limit
    OBVIOUS
  <2> QED
    BY <1>2, <2>1, <2>2 DEF Measured, MeasuredAt
<1>7. Noted
  <2>1. \A r \in Runs : 1..Len(chat[r]) = {}
    BY <1>2
  <2> QED
    BY <2>1 DEF Noted, NotedAt
<1>8. Rounds
  BY DEF Rounds, RoundsAt
<1> QED
  BY <1>1, <1>3, <1>4, <1>5, <1>6, <1>7, <1>8 DEF ChatInv

LEMMA RunKeeps ==
  ASSUME ChatInv, NEW r \in Runs, Run(r)
  PROVE  ChatInv'
<1>1. ChatTypeOK /\ Ended /\ Answered /\ Apart(r) /\ (pc[r] = "over" <=> outcome[r] # "none")
  BY RunsApart DEF ChatInv, Ended
<1>2. \A q \in Runs : BlamedAt(q) /\ MeasuredAt(q) /\ NotedAt(q) /\ RoundsAt(q)
  BY DEF ChatInv, Blamed, Measured, Noted, Rounds
<1>3. BlamedAt(r)' /\ MeasuredAt(r)' /\ NotedAt(r)' /\ RoundsAt(r)'
  BY <1>1, <1>2, BlameKept, MeasureKept, NotesKept, RoundsKept
<1>4. \A q \in Runs \ {r} : BlamedAt(q)' /\ MeasuredAt(q)' /\ NotedAt(q)' /\ RoundsAt(q)'
  BY <1>1, <1>2, OthersKeep
<1>5. \A q \in Runs : BlamedAt(q)' /\ MeasuredAt(q)' /\ NotedAt(q)' /\ RoundsAt(q)'
  BY <1>3, <1>4
<1>6. ChatTypeOK' /\ Ended' /\ Answered'
  BY <1>1, <1>2, RunTypes, EndedKept, AnswerKept
<1>7. Blamed' /\ Measured' /\ Noted' /\ Rounds'
  BY <1>5 DEF Blamed, Measured, Noted, Rounds
<1> QED
  BY <1>6, <1>7 DEF ChatInv

LEMMA ChatInvariant == Spec => []ChatInv
<1>1. ChatInit => ChatInv
  BY ChatBegins
<1>2. ChatInv /\ [Next]_vars => ChatInv'
  <2> SUFFICES ASSUME ChatInv, [Next]_vars PROVE ChatInv'
    OBVIOUS
  <2>1. ASSUME NEW r \in Runs, Run(r) PROVE ChatInv'
    BY <2>1, RunKeeps
  <2>2. CASE Gather
    <3>1. UNCHANGED <<workflow, pc, chat, round, context, lent, steps, attempts, outcome, order, hurt>>
      BY <2>2 DEF Gather
    <3>2. ChatTypeOK' /\ Answered' /\ taken' <= Len(order)
      BY <2>2, GatherKeeps DEF ChatInv
    <3> QED
      BY <3>1, <3>2, CallersKeep DEF ChatInv
  <2>3. CASE Stream
    <3>1. UNCHANGED <<workflow, pc, chat, round, context, lent, steps, attempts, outcome, order, hurt>>
      BY <2>3 DEF Stream
    <3>2. ChatTypeOK' /\ Answered' /\ taken' <= Len(order)
      BY <2>3, StreamKeeps DEF ChatInv
    <3> QED
      BY <3>1, <3>2, CallersKeep DEF ChatInv
  <2>4. CASE UNCHANGED vars
    <3>1. ChatTypeOK' /\ Ended' /\ Blamed'
      BY <2>4 DEF ChatInv, ChatTypeOK, Ended, Blamed, BlamedAt, vars, workflow, caller
    <3>2. Answered'
      BY <2>4 DEF ChatInv, Answered, InOrder, Kept, vars, workflow, caller
    <3>3. Measured' /\ Noted' /\ Rounds'
      BY <2>4 DEF ChatInv, Measured, MeasuredAt, Noted, NotedAt, Rounds, RoundsAt, AtLimit, vars, workflow, caller
    <3> QED
      BY <3>1, <3>2, <3>3 DEF ChatInv
  <2> QED
    BY <2>1, <2>2, <2>3, <2>4 DEF Next, Over
<1> QED
  BY <1>1, <1>2, PTL DEF Spec

-----------------------------------------------------------------------------
(* The chats, rounds, steps and attempts of ChatWorkflow.run and the lists  *)
(* of its callers have their types: no round goes on that has no call.     *)
THEOREM ChatTypes == Spec => []ChatTypeOK
<1>1. ChatInv => ChatTypeOK
  BY DEF ChatInv
<1> QED
  BY <1>1, ChatInvariant, PTL

(* _StepRunner: when the model is asked, and in a chat that ended well, the *)
(* calls of every message are followed by their results, in their order,   *)
(* unless max_steps cut the last round.                                    *)
THEOREM CallsAreAnswered == Spec => []CallsAnswered
<1>1. ChatInv => CallsAnswered
  BY DEF ChatInv, Rounds, RoundsAt, CallsAnswered
<1> QED
  BY <1>1, ChatInvariant, PTL

(* Chat.clone keeps the context object: what a tool of _run_tools left in  *)
(* it is there for whoever holds the chat with the result of the tool.     *)
THEOREM ContextIsKept == Spec => []ContextKeepsUp
<1>1. ChatInv => ContextKeepsUp
  BY DEF ChatInv, Noted, NotedAt, ContextKeepsUp
<1> QED
  BY <1>1, ChatInvariant, PTL

(* max_steps bounds what ChatWorkflow.run adds to a chat; a run that it did *)
(* not cut ends in an answer, and in one that a strict output model takes.  *)
THEOREM StepsAreBounded == Spec => []WithinStepLimit
<1>1. ChatInv => WithinStepLimit
  <2> SUFFICES ASSUME ChatInv, NEW r \in Runs
               PROVE  /\ limit # NoLimit => Len(chat[r]) <= Len(beginning) + limit
                      /\ outcome[r] = "chat" =>
                           /\ AtLimit(steps[r]) \/ Last(chat[r]).kind = "answer"
                           /\ strict => Last(chat[r]) # Invalid
    BY DEF WithinStepLimit
  <2>1. MeasuredAt(r) /\ ChatTypeOK
    BY DEF ChatInv, Measured
  <2>2. Len(beginning) \in Nat /\ (limit # NoLimit => limit \in Nat) /\ steps[r] \in Nat
    BY <2>1, BeginningFacts, LimitFacts DEF ChatTypeOK
  <2>3. Len(chat[r]) \in Nat
    BY <2>1, LenProperties DEF ChatTypeOK
  <2>4. ASSUME limit # NoLimit PROVE Len(chat[r]) <= Len(beginning) + limit
    <3>1. Len(chat[r]) <= Len(beginning) + steps[r] /\ steps[r] <= limit
      BY <2>1, <2>4 DEF MeasuredAt
    <3> QED
      BY <2>2, <2>3, <2>4, <3>1
  <2> QED
    BY <2>1, <2>4 DEF MeasuredAt
<1> QED
  BY <1>1, ChatInvariant, PTL

(* run_many and stream_many tell what happened: an exception means that a   *)
(* run failed, and chats mean that every run ended; each is there once,    *)
(* under SKIP only those that did not fail, and a list has the order of    *)
(* the inputs.                                                             *)
THEOREM AnswerIsComplete == Spec => []AnswerTellsAll
<1>1. ChatInv => AnswerTellsAll
  <2> SUFFICES ASSUME ChatInv PROVE AnswerTellsAll
    OBVIOUS
  <2>1. ChatTypeOK /\ Ended /\ Answered /\ \A r \in Runs : BlamedAt(r)
    BY DEF ChatInv, Blamed
  <2>2. answer = "raised" => \E r \in hurt : policy = "raise" \/ steps[r] = 0
    BY <2>1 DEF Answered, BlamedAt
  <2>3. ASSUME answer = "given"
        PROVE  /\ policy = "raise" => hurt = {}
               /\ \A r \in Runs : outcome[r] = "failed" <=> r \in hurt
               /\ ToSet(results) = IF policy = "skip" THEN Runs \ hurt ELSE Runs
               /\ IsInjective(results)
               /\ ~streaming => \A i, j \in DOMAIN results : i < j => results[i] < results[j]
    <3>1. Len(order) = NumRuns /\ \A r \in Runs : outcome[r] # "raised"
      BY <2>1, <2>3 DEF Answered
    <3>2. \A r \in Runs : \E i \in 1..NumRuns : order[i] = r
      BY <2>1, <3>1, AllEnded
    <3>3. \A r \in Runs : pc[r] = "over" /\ outcome[r] \in {"chat", "failed"}
      <4>1. \A r \in Runs : pc[r] = "over"
        BY <2>1, <3>1, <3>2, AllEnded DEF Ended
      <4>2. \A r \in Runs : outcome[r] \in {"none", "chat", "failed", "raised"}
        BY <2>1 DEF ChatTypeOK
      <4> QED
        BY <2>1, <3>1, <4>1, <4>2 DEF Ended
    <3>4. \A r \in Runs : outcome[r] = "failed" <=> r \in hurt
      BY <2>1, <3>3 DEF BlamedAt
    <3>5. policy = "raise" => hurt = {}
      BY <2>1, <3>4 DEF BlamedAt, ChatTypeOK
    <3>6. {r \in Runs : Kept(r)} = IF policy = "skip" THEN Runs \ hurt ELSE Runs
      BY <3>3, <3>4 DEF Kept
    <3>7. CASE ~streaming
      <4>1. results = InOrder({r \in Runs : Kept(r)})
        BY <2>1, <2>3, <3>7 DEF Answered
      <4> DEFINE S == {r \in Runs : Kept(r)}
      <4>2. S \in SUBSET Runs
        OBVIOUS
      <4> HIDE DEF S
      <4>3. /\ ToSet(InOrder(S)) = S /\ IsInjective(InOrder(S))
            /\ \A i, j \in DOMAIN InOrder(S) : i < j => InOrder(S)[i] < InOrder(S)[j]
        BY <4>2, InOrderFacts
      <4> QED
        BY <3>4, <3>5, <3>6, <4>1, <4>3 DEF S
    <3>8. CASE streaming
      <4>1. /\ taken = NumRuns /\ IsInjective(results)
            /\ ToSet(results) = {r \in Runs : Kept(r) /\ \E i \in 1..taken : order[i] = r}
        BY <2>1, <2>3, <3>8 DEF Answered
      <4>2. ToSet(results) = {r \in Runs : Kept(r)}
        BY <3>2, <4>1
      <4> QED
        BY <3>4, <3>5, <3>6, <3>8, <4>1, <4>2
    <3> QED
      BY <3>7, <3>8
  <2> QED
    BY <2>2, <2>3 DEF AnswerTellsAll
<1> QED
  BY <1>1, ChatInvariant, PTL
=============================================================================
