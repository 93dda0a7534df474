----------------------------- MODULE Verdicts_proofs -----------------------------
(***************************************************************************)
(* Proofs about verdicts, and about the scans whose suites they end up in. *)
(*                                                                         *)
(* The loops of AllOf.run and AnyOf.run compute the functions of Results,  *)
(* and these are each other's duals, for any number of inner checks.       *)
(*                                                                         *)
(* The laws of the match modes, whatever numbers a trace holds and however *)
(* many items a key finds.  Where values compare, an operator and its      *)
(* complement say the opposite of each other; where they do not, every     *)
(* mode is an error; and a mode looks at the set of the items only.        *)
(*                                                                         *)
(* The table of a suite, and the names of a garak scan, for any number of  *)
(* scenarios and probes: both count places in lists.                       *)
(*                                                                         *)
(* Last the generation of a suite and the scan around it, for any number   *)
(* of units, documents and budgets.                                        *)
(***************************************************************************)
EXTENDS Verdicts, Scan, AsyncSemaphore_proofs

(* The inner check at which evaluation stops is the only candidate for it.  *)
LEMMA FirstUnique ==
    ASSUME NEW s \in Seq(Statuses), NEW stops, NEW k \in 1..Len(s),
           s[k] \in stops, \A j \in 1..(k - 1) : s[j] \notin stops
    PROVE  First(s, stops) = k
<1>1. Len(s) \in Nat
  BY LenProperties
<1>2. \A i \in 1..Len(s) :
        (s[i] \in stops /\ \A j \in 1..(i - 1) : s[j] \notin stops) => i = k
  <2> SUFFICES ASSUME NEW i \in 1..Len(s), s[i] \in stops,
                      \A j \in 1..(i - 1) : s[j] \notin stops
               PROVE  i = k
    OBVIOUS
  <2>1. ~(i < k)
    BY <1>1
  <2>2. ~(k < i)
    BY <1>1
  <2> QED
    BY <1>1, <2>1, <2>2
<1> QED
  BY <1>2 DEF First

(* A combination that stops at k has the verdict of its k-th inner check.   *)
LEMMA StopsAt ==
    ASSUME NEW s \in Seq(Statuses), NEW stops, NEW otherwise, NEW k \in 1..Len(s),
           s[k] \in stops, \A j \in 1..(k - 1) : s[j] \notin stops
    PROVE  ShortCircuit(s, stops, otherwise) = s[k]
BY FirstUnique DEF ShortCircuit

LEMMA InvertedVerdicts ==
    ASSUME NEW s \in Seq(Statuses)
    PROVE  LET t == [i \in DOMAIN s |-> Not(s[i])]
           IN  /\ t \in Seq(Statuses) /\ Len(t) = Len(s)
               /\ \A i \in 1..Len(s) : t[i] = Not(s[i]) /\ s[i] \in Statuses
<1> DEFINE t == [i \in DOMAIN s |-> Not(s[i])]
<1>1. DOMAIN s = 1..Len(s) /\ Len(s) \in Nat /\ \A i \in 1..Len(s) : s[i] \in Statuses
  BY LenProperties, ElementOfSeq
<1>2. \A st \in Statuses : Not(st) \in Statuses
  BY DEF Not, Statuses
<1>3. t \in [1..Len(s) -> Statuses]
  BY <1>1, <1>2
<1> QED
  BY <1>1, <1>3

-----------------------------------------------------------------------------
Combined == IF kind = "all_of" THEN AllOf(inner) ELSE AnyOf(inner)

(* What the loop knows: either it goes on, and no check so far stopped it,  *)
(* or it ended at the first check that stopped it, or with all of them run. *)
Going ==
    /\ verdict = "none"
    /\ \A i \in 1..(next - 1) : ~Stops(inner[i])
    /\ allSkipped <=> \A i \in 1..(next - 1) : inner[i] = "skip"

Stopped ==
    \E k \in 1..Len(inner) :
        /\ Stops(inner[k]) /\ \A j \in 1..(k - 1) : ~Stops(inner[j])
        /\ verdict = inner[k] /\ next = k + 1

RanOut ==
    /\ next = Len(inner) + 1
    /\ \A i \in 1..Len(inner) : ~Stops(inner[i])
    /\ verdict = IF inner # <<>> /\ All(inner, "skip") THEN "skip"
                 ELSE IF kind = "all_of" THEN "pass" ELSE "fail"

Loop ==
    /\ kind \in {"all_of", "any_of"}
    /\ inner \in Seq(Statuses)
    /\ next \in 1..(Len(inner) + 1)
    /\ allSkipped \in BOOLEAN
    /\ Going \/ Stopped \/ RanOut

LEMMA InitLoop == LoopInit => Loop
<1> SUFFICES ASSUME LoopInit PROVE Loop
  OBVIOUS
<1>1. PICK n \in 0..MaxChecks : inner \in [1..n -> Statuses]
  BY DEF LoopInit, VerdictLists
<1>2. inner \in Seq(Statuses) /\ Len(inner) \in Nat
  BY <1>1, MaxChecksAssumption
<1> QED
  BY <1>2 DEF LoopInit, Kinds, Loop, Going

LEMMA NextLoop == Loop /\ [LoopNext]_loopVars => Loop'
<1> SUFFICES ASSUME Loop, [LoopNext]_loopVars PROVE Loop'
  OBVIOUS
<1>0. Len(inner) \in Nat /\ \A i \in 1..Len(inner) : inner[i] \in Statuses
  BY LenProperties, ElementOfSeq DEF Loop
<1>g. ASSUME verdict = "none" PROVE Going
  BY <1>0, <1>g DEF Loop, Stopped, RanOut, Statuses
<1>1. CASE RunInner
  <2> DEFINE st == inner[next]
  <2>1. /\ verdict = "none" /\ next \in 1..Len(inner)
        /\ next' = next + 1 /\ kind' = kind /\ inner' = inner
        /\ verdict' = (IF Stops(st) THEN st ELSE "none")
        /\ allSkipped' = (allSkipped /\ st = "skip")
    BY <1>0, <1>1 DEF RunInner, Loop
  <2>2. Going
    BY <2>1, <1>g
  <2>3. \A i \in 1..(next' - 1) : i \in 1..(next - 1) \/ i = next
    BY <2>1
  <2>4. CASE Stops(st)
    <3>1. Stopped'
      BY <2>1, <2>2, <2>4 DEF Going, Stopped, Stops
    <3> QED
      BY <1>0, <2>1, <3>1 DEF Loop
  <2>5. CASE ~Stops(st)
    <3>1. \A i \in 1..(next' - 1) : ~Stops(inner[i])
      BY <2>2, <2>3, <2>5 DEF Going
    <3>2. allSkipped' <=> \A i \in 1..(next' - 1) : inner[i] = "skip"
      <4>1. (\A i \in 1..(next' - 1) : inner[i] = "skip") <=>
              ((\A i \in 1..(next - 1) : inner[i] = "skip") /\ st = "skip")
        BY <2>1, <2>3
      <4> QED
        BY <2>1, <2>2, <4>1 DEF Going
    <3>3. Going'
      BY <2>1, <2>5, <3>1, <3>2 DEF Going, Stops
    <3> QED
      BY <1>0, <2>1, <3>3 DEF Loop
  <2> QED
    BY <2>4, <2>5
<1>2. CASE EndLoop
  <2>1. /\ verdict = "none" /\ next = Len(inner) + 1
        /\ UNCHANGED <<kind, inner, next, allSkipped>>
        /\ verdict' = IF allSkipped /\ inner # <<>> THEN "skip"
                      ELSE IF kind = "all_of" THEN "pass" ELSE "fail"
    BY <1>0, <1>2 DEF EndLoop, Loop
  <2>2. /\ \A i \in 1..Len(inner) : ~Stops(inner[i])
        /\ allSkipped <=> All(inner, "skip")
    BY <1>0, <1>g, <2>1 DEF Going, All
  <2>3. RanOut'
    BY <2>1, <2>2 DEF RanOut, Stops, All
  <2> QED
    BY <2>1, <2>3 DEF Loop
<1>3. CASE Concluded \/ UNCHANGED loopVars
  BY <1>3 DEF Concluded, loopVars, Loop, Going, Stopped, RanOut, Stops
<1> QED
  BY <1>1, <1>2, <1>3 DEF LoopNext

(* The verdict of the loop is that of the function it computes.             *)
LEMMA LoopCombines == Loop /\ verdict # "none" => verdict = Combined
<1> SUFFICES ASSUME Loop, verdict # "none" PROVE verdict = Combined
  OBVIOUS
<1>1. CASE Stopped
  <2>1. PICK k \in 1..Len(inner) :
          /\ Stops(inner[k]) /\ \A j \in 1..(k - 1) : ~Stops(inner[j])
          /\ verdict = inner[k]
    BY <1>1 DEF Stopped
  <2>2. CASE kind = "all_of"
    BY <2>1, <2>2, StopsAt DEF Loop, Combined, AllOf, Stops
  <2>3. CASE kind # "all_of"
    BY <2>1, <2>3, StopsAt DEF Loop, Combined, AnyOf, Stops
  <2> QED
    BY <2>2, <2>3
<1>2. CASE RanOut
  BY <1>2 DEF RanOut, Combined, AllOf, AnyOf, ShortCircuit, Stops
<1> QED
  BY <1>1, <1>2 DEF Loop, Going

(* De Morgan at the end of the loop: the inverted checks stop the dual      *)
(* combination at the same place.                                           *)
LEMMA LoopDeMorgan == Loop => DeMorgan
<1> SUFFICES ASSUME Loop, verdict # "none"
             PROVE  Not(verdict) = IF kind = "all_of" THEN AnyOf(Inverted) ELSE AllOf(Inverted)
  BY DEF DeMorgan
<1>1. /\ Inverted \in Seq(Statuses) /\ Len(Inverted) = Len(inner) /\ Len(inner) \in Nat
      /\ \A i \in 1..Len(inner) : Inverted[i] = Not(inner[i]) /\ inner[i] \in Statuses
  BY InvertedVerdicts, LenProperties DEF Inverted, Loop
<1> DEFINE t == Inverted
           stops == IF kind = "all_of" THEN {"pass", "error"} ELSE {"fail", "error"}
<1>2. \A i \in 1..Len(inner) : Stops(inner[i]) <=> t[i] \in stops
  BY <1>1 DEF Stops, Not, Statuses, Loop
<1> HIDE DEF t
<1>3. CASE Stopped
  <2>1. PICK k \in 1..Len(inner) :
          /\ Stops(inner[k]) /\ \A j \in 1..(k - 1) : ~Stops(inner[j])
          /\ verdict = inner[k]
    BY <1>3 DEF Stopped
  <2>2. t[k] \in stops /\ \A j \in 1..(k - 1) : t[j] \notin stops
    BY <1>1, <1>2, <2>1
  <2>3. t[k] = Not(verdict) /\ k \in 1..Len(t) /\ t \in Seq(Statuses)
    BY <1>1, <2>1 DEF t
  <2>4. CASE kind = "all_of"
    BY <2>2, <2>3, <2>4, StopsAt DEF AnyOf, t
  <2>5. CASE kind # "all_of"
    BY <2>2, <2>3, <2>5, StopsAt DEF AllOf, t
  <2> QED
    BY <2>4, <2>5
<1>4. CASE RanOut
  <2>1. ~ \E i \in 1..Len(t) : t[i] \in stops
    BY <1>1, <1>2, <1>4 DEF RanOut, t
  <2>2. All(t, "skip") <=> All(inner, "skip")
    BY <1>1 DEF All, Not, Statuses, t
  <2>3. t # <<>> <=> inner # <<>>
    BY <1>1, EmptySeq DEF t, Loop
  <2> QED
    BY <1>4, <2>1, <2>2, <2>3 DEF RanOut, AllOf, AnyOf, ShortCircuit, Not, t
<1> QED
  BY <1>3, <1>4 DEF Loop, Going

(* The loops compute AllOf and AnyOf of Results, for any number of checks.  *)
THEOREM LoopsCompute == LoopSpec => [](verdict # "none" => verdict = Combined)
BY InitLoop, NextLoop, LoopCombines, PTL DEF LoopSpec

(* Inverting a combination is combining the inverted checks the other way   *)
(* round.                                                                   *)
THEOREM CombinatorsAreDual == LoopSpec => []DeMorgan
BY InitLoop, NextLoop, LoopDeMorgan, PTL DEF LoopSpec

(* A check that stops the loop and passes was run, last of all; and a loop  *)
(* that runs out is green when all of its checks are, one at least.         *)
LEMMA LoopEvidence == Loop => GreenOnEvidence
<1> SUFFICES ASSUME Loop, verdict = "pass" PROVE GreenOnEvidence
  BY DEF GreenOnEvidence
<1> DEFINE evidence == {inner[i] : i \in 1..(next - 1)}
<1>1. Len(inner) \in Nat /\ \A i \in 1..Len(inner) : inner[i] \in Statuses
  BY LenProperties, ElementOfSeq DEF Loop
<1>2. CASE Stopped
  <2>1. PICK k \in 1..Len(inner) : Stops(inner[k]) /\ verdict = inner[k] /\ next = k + 1
    BY <1>2 DEF Stopped
  <2>2. kind # "all_of" /\ k \in 1..(next - 1) /\ inner[k] = "pass"
    BY <1>1, <2>1 DEF Stops
  <2>3. "pass" \in evidence
    BY <2>2
  <2> QED
    BY <2>2, <2>3 DEF GreenOnEvidence
<1>3. CASE RanOut
  <2>1. /\ kind = "all_of" /\ next = Len(inner) + 1
        /\ \A i \in 1..Len(inner) : ~Stops(inner[i])
        /\ ~(inner # <<>> /\ All(inner, "skip"))
    BY <1>3 DEF RanOut, Loop
  <2>2. \A i \in 1..(next - 1) : inner[i] \in {"pass", "skip"}
    BY <1>1, <2>1 DEF Stops, Statuses
  <2>3. evidence \subseteq {"pass", "skip"}
    BY <2>2
  <2>4. ASSUME inner # <<>> PROVE "pass" \in evidence
    <3>1. PICK i \in 1..(next - 1) : inner[i] # "skip"
      BY <1>1, <2>1, <2>4 DEF All
    <3> QED
      BY <2>2, <3>1
  <2> QED
    BY <2>1, <2>3, <2>4 DEF GreenOnEvidence
<1> QED
  BY <1>2, <1>3 DEF Loop, Going

(* AllOf and AnyOf are green on evidence only, however many checks they     *)
(* have and whatever is skipped, fails or is never run.                     *)
THEOREM GreenIsEarned == LoopSpec => []GreenOnEvidence
BY InitLoop, NextLoop, LoopEvidence, PTL DEF LoopSpec
-----------------------------------------------------------------------------
(* assert_passed of TestCaseResult never raises without a reason: a case    *)
(* that did not pass, because it was all skipped too, has a message.        *)
THEOREM RedIsExplained ==
    ASSUME NEW case, case.results \in Seq(Statuses), case.error \in BOOLEAN,
           TestCaseStatus(case) # "pass"
    PROVE  FormatFailures(case) # {}
<1>1. Len(case.results) \in Nat /\ DOMAIN case.results = 1..Len(case.results)
  BY LenProperties
<1>2. CASE case.error
  <2>1. 0 \in FormatFailures(case)
    BY <1>1, <1>2 DEF FormatFailures
  <2> QED
    BY <2>1
<1>3. CASE ~case.error
  <2>1. RollUp(case.results) # "pass"
    BY <1>3 DEF TestCaseStatus
  <2>2. PICK k \in 1..Len(case.results) : case.results[k] # "pass"
    <3>1. CASE Has(case.results, "error")
      BY <3>1 DEF Has
    <3>2. CASE Has(case.results, "fail")
      BY <3>2 DEF Has
    <3>3. CASE ~Has(case.results, "error") /\ ~Has(case.results, "fail")
      <4>1. case.results # <<>> /\ All(case.results, "skip")
        BY <2>1, <3>3 DEF RollUp
      <4>2. 1 \in 1..Len(case.results)
        BY <1>1, <4>1, EmptySeq
      <4> QED
        BY <4>1, <4>2 DEF All
    <3> QED
      BY <3>1, <3>2, <3>3
  <2>3. k \in FormatFailures(case)
    BY <1>1, <2>2 DEF FormatFailures
  <2> QED
    BY <2>3
<1> QED
  BY <1>2, <1>3

-----------------------------------------------------------------------------
(* Builtin checks.                                                         *)
Value(v) ==
    /\ v = [many |-> v.many, items |-> v.items]
    /\ v.many \in BOOLEAN /\ v.items \in Seq(Nat)
    /\ ~v.many => Len(v.items) <= 1

(* What a key finds is a value, as the proofs need it.                      *)
LEMMA FoundIsValue ==
    ASSUME NEW v \in Found
    PROVE  Value(v)
<1>1. PICK matches \in BoundedSeq(Scalars, MaxItems), wildcard \in BOOLEAN : v = Resolution(matches, wildcard)
  BY DEF Found
<1>2. matches \in Seq(Nat)
  <2>1. PICK m \in 0..MaxItems : matches \in [1..m -> Scalars]
    BY DEF BoundedSeq, SeqOf
  <2>2. Scalars \subseteq Nat /\ m \in Nat
    BY TraceAssumption DEF Scalars, Text
  <2>3. matches \in [1..m -> Nat]
    BY <2>1, <2>2
  <2> QED
    BY <2>2, <2>3
<1>3. Len(matches) \in Nat /\ (matches # <<>> => Len(matches) # 0)
  BY <1>2, EmptySeq
<1>4. CASE Len(matches) > 1 \/ wildcard
  BY <1>1, <1>2, <1>4 DEF Resolution, Value
<1>5. CASE ~(Len(matches) > 1 \/ wildcard) /\ matches # <<>>
  BY <1>1, <1>2, <1>3, <1>5 DEF Resolution, Value
<1>6. CASE ~(Len(matches) > 1 \/ wildcard) /\ matches = <<>>
  BY <1>1, <1>2, <1>6, EmptySeq DEF Resolution, NoMatch, Value
<1> QED
  BY <1>4, <1>5, <1>6

(* Complementary operators compare the same values, with opposite results.  *)
LEMMA Complementary ==
    ASSUME NEW op \in Operators, NEW a, NEW b, Value(a), Value(b)
    PROVE  /\ Complement(op) \in Operators
           /\ Supported(Complement(op), a, b) <=> Supported(op, a, b)
           /\ Supported(op, a, b) => (Compares(Complement(op), a, b) <=> ~Compares(op, a, b))
<1>1. Complement(op) \in Operators /\ (op \in {"==", "!="} <=> Complement(op) \in {"==", "!="})
  BY DEF Operators, Complement
<1>2. Supported(Complement(op), a, b) <=> Supported(op, a, b)
  BY <1>1 DEF Supported
<1>3. ASSUME NEW m \in Nat, NEW n \in Nat
      PROVE  Holds(Complement(op), m, n) <=> ~Holds(op, m, n)
  <2>1. CASE op \in {"==", "!="}
    BY <2>1 DEF Complement, Holds
  <2>2. CASE op = "<"
    BY <2>2 DEF Complement, Holds
  <2>3. CASE op = "<="
    BY <2>3 DEF Complement, Holds
  <2>4. CASE op = ">"
    BY <2>4 DEF Complement, Holds
  <2>5. CASE op = ">="
    BY <2>5 DEF Complement, Holds
  <2> QED
    BY <2>1, <2>2, <2>3, <2>4, <2>5 DEF Operators
<1>4. ASSUME op \in {"==", "!="}
      PROVE  Compares(Complement(op), a, b) <=> ~Compares(op, a, b)
  BY <1>4 DEF Compares, Complement
<1>5. ASSUME op \notin {"==", "!="}, Supported(op, a, b)
      PROVE  Compares(Complement(op), a, b) <=> ~Compares(op, a, b)
  <2>1. CASE Differing(a, b) = {}
    <3>1. Len(a.items) \in Nat /\ Len(b.items) \in Nat
      BY DEF Value
    <3> QED
      BY <1>1, <1>3, <1>5, <2>1, <3>1 DEF Compares
  <2>2. CASE Differing(a, b) # {}
    <3> DEFINE i == Min(Differing(a, b))
    <3>1. ASSUME a.many, b.many
          PROVE  Ordered(a.items[i], b.items[i])
      BY <1>5, <2>2, <3>1 DEF Supported
    <3>2. ASSUME ~a.many, ~b.many
          PROVE  Ordered(a.items[i], b.items[i])
      <4>1. Differing(a, b) = {1}
        BY <2>2, <3>2 DEF Differing, Value
      <4>2. i = 1
        BY <4>1 DEF Min
      <4> HIDE DEF i
      <4> QED
        BY <1>5, <3>2, <4>2 DEF Supported
    <3>3. Ordered(a.items[i], b.items[i])
      BY <1>5, <3>1, <3>2 DEF Supported
    <3> HIDE DEF i
    <3>4. a.items[i] \in Nat /\ b.items[i] \in Nat
      BY <3>3, TraceAssumption DEF Ordered, Empty, Text
    <3> QED
      BY <1>1, <1>3, <1>5, <2>2, <3>4 DEF Compares, i
  <2> QED
    BY <2>1, <2>2
<1> QED
  BY <1>1, <1>2, <1>4, <1>5

(* The modes say what their names say, of the set of the items.             *)
LEMMA ModesOfItems ==
    ASSUME NEW op, NEW a, NEW b, a.many, \A x \in Items(a) : Supported(op, x, b)
    PROVE  /\ CollectionMatch(op, "any", a, b) = Verdict(\E x \in Items(a) : Compares(op, x, b))
           /\ CollectionMatch(op, "all", a, b) = Verdict(\A x \in Items(a) : Compares(op, x, b))
           /\ CollectionMatch(op, "none", a, b) = Verdict(\A x \in Items(a) : ~Compares(op, x, b))
  BY DEF CollectionMatch

LEMMA ModesOfOthers ==
    ASSUME NEW op, NEW match, NEW a, NEW b, ~(a.many /\ \A x \in Items(a) : Supported(op, x, b))
    PROVE  CollectionMatch(op, match, a, b) = "error"
  BY DEF CollectionMatch

LEMMA ItemsAreValues ==
    ASSUME NEW v, Value(v), NEW x \in Items(v)
    PROVE  Value(x)
<1>1. PICK i \in DOMAIN v.items : x = Single(v.items[i])
  BY DEF Items, ToSet
<1>2. v.items[i] \in Nat
  BY <1>1 DEF Value
<1>3. <<v.items[i]>> \in Seq(Nat) /\ Len(<<v.items[i]>>) = 1
  BY <1>2
<1> QED
  BY <1>1, <1>3 DEF Single, Value

LEMMA OppositeVerdicts ==
    ASSUME NEW p \in BOOLEAN
    PROVE  Verdict(~p) = Not(Verdict(p))
  BY DEF Verdict, Not

(* none is the negation of any, and all is none of the opposite.            *)
LEMMA CollectionLaws ==
    ASSUME NEW op \in Operators, NEW a, NEW b, Value(a), Value(b)
    PROVE  /\ CollectionMatch(op, "none", a, b) = Not(CollectionMatch(op, "any", a, b))
           /\ CollectionMatch(op, "all", a, b) = CollectionMatch(Complement(op), "none", a, b)
<1>1. \A x \in Items(a) :
         /\ Supported(Complement(op), x, b) <=> Supported(op, x, b)
         /\ Supported(op, x, b) => (Compares(Complement(op), x, b) <=> ~Compares(op, x, b))
  BY ItemsAreValues, Complementary
<1>2. CASE ~(a.many /\ \A x \in Items(a) : Supported(op, x, b))
  <2>1. ~(a.many /\ \A x \in Items(a) : Supported(Complement(op), x, b))
    BY <1>1, <1>2
  <2>2. \A match : /\ CollectionMatch(op, match, a, b) = "error"
                   /\ CollectionMatch(Complement(op), match, a, b) = "error"
    BY <1>2, <2>1, ModesOfOthers
  <2>3. Not("error") = "error"
    BY DEF Not
  <2> QED
    BY <2>2, <2>3
<1>3. CASE a.many /\ \A x \in Items(a) : Supported(op, x, b)
  <2> DEFINE some == \E x \in Items(a) : Compares(op, x, b)
             every == \A x \in Items(a) : Compares(op, x, b)
  <2>1. \A x \in Items(a) : Supported(Complement(op), x, b)
    BY <1>1, <1>3
  <2>2. /\ CollectionMatch(op, "any", a, b) = Verdict(some)
        /\ CollectionMatch(op, "all", a, b) = Verdict(every)
        /\ CollectionMatch(op, "none", a, b) = Verdict(\A x \in Items(a) : ~Compares(op, x, b))
    BY <1>3, ModesOfItems
  <2>3. CollectionMatch(Complement(op), "none", a, b)
          = Verdict(\A x \in Items(a) : ~Compares(Complement(op), x, b))
    BY <1>3, <2>1, ModesOfItems
  <2>4. (\A x \in Items(a) : ~Compares(op, x, b)) <=> ~some
    OBVIOUS
  <2>5. (\A x \in Items(a) : ~Compares(Complement(op), x, b)) <=> every
    BY <1>1, <1>3
  <2>6. Verdict(~some) = Not(Verdict(some))
    BY OppositeVerdicts
  <2>7. Verdict(\A x \in Items(a) : ~Compares(op, x, b)) = Verdict(~some)
    BY <2>4 DEF Verdict
  <2>8. Verdict(\A x \in Items(a) : ~Compares(Complement(op), x, b)) = Verdict(every)
    BY <2>5 DEF Verdict
  <2> HIDE DEF some, every
  <2> QED
    BY <2>2, <2>3, <2>6, <2>7, <2>8
<1> QED
  BY <1>2, <1>3

(* The same items in reverse are the same set.                              *)
Reversed(v) == [many |-> TRUE, items |-> Reverse(v.items)]

LEMMA ReversedItems ==
    ASSUME NEW a, Value(a)
    PROVE  Items(Reversed(a)) = Items(a)
<1> DEFINE r == Reverse(a.items)
<1>1. a.items \in Seq(Nat) /\ Len(a.items) \in Nat /\ DOMAIN a.items = 1..Len(a.items)
  BY DEF Value
<1>2. DOMAIN r = 1..Len(a.items) /\ \A i \in DOMAIN r : r[i] = a.items[(Len(a.items) - i) + 1]
  BY DEF Reverse
<1>3. \A i \in 1..Len(a.items) : (Len(a.items) - i) + 1 \in 1..Len(a.items)
  BY <1>1
<1>4. \A i \in 1..Len(a.items) : (Len(a.items) - ((Len(a.items) - i) + 1)) + 1 = i
  BY <1>1
<1>5. Reversed(a).items = r
  BY DEF Reversed
<1> HIDE DEF r
<1>6. ToSet(r) \subseteq ToSet(a.items)
  BY <1>1, <1>2, <1>3 DEF ToSet
<1>7. ToSet(a.items) \subseteq ToSet(r)
  <2> SUFFICES ASSUME NEW i \in 1..Len(a.items)
               PROVE  a.items[i] \in ToSet(r)
    BY <1>1 DEF ToSet
  <2>1. r[(Len(a.items) - i) + 1] = a.items[i]
    BY <1>2, <1>3, <1>4
  <2> QED
    BY <1>2, <1>3, <2>1 DEF ToSet
<1> QED
  BY <1>5, <1>6, <1>7 DEF Items

LEMMA OrderOfItems ==
    ASSUME NEW op, NEW match \in {"any", "all", "none"}, NEW a, NEW b, Value(a), a.many
    PROVE  CollectionMatch(op, match, Reversed(a), b) = CollectionMatch(op, match, a, b)
<1>1. Reversed(a).many
  BY DEF Reversed
<1>2. Items(Reversed(a)) = Items(a)
  BY ReversedItems
<1>3. CASE \A x \in Items(a) : Supported(op, x, b)
  <2>1. CASE match = "any"
    <3> DEFINE Some(v) == \E x \in Items(v) : Compares(op, x, b)
    <3>1. CollectionMatch(op, "any", a, b) = Verdict(Some(a))
      BY <1>3, ModesOfItems
    <3>2. CollectionMatch(op, "any", Reversed(a), b) = Verdict(Some(Reversed(a)))
      BY <1>1, <1>2, <1>3, ModesOfItems
    <3>3. Some(Reversed(a)) <=> Some(a)
      BY <1>2
    <3> HIDE DEF Some
    <3> QED
      BY <2>1, <3>1, <3>2, <3>3 DEF Verdict
  <2>2. CASE match = "all"
    <3> DEFINE Every(v) == \A x \in Items(v) : Compares(op, x, b)
    <3>1. CollectionMatch(op, "all", a, b) = Verdict(Every(a))
      BY <1>3, ModesOfItems
    <3>2. CollectionMatch(op, "all", Reversed(a), b) = Verdict(Every(Reversed(a)))
      BY <1>1, <1>2, <1>3, ModesOfItems
    <3>3. Every(Reversed(a)) <=> Every(a)
      BY <1>2
    <3> HIDE DEF Every
    <3> QED
      BY <2>2, <3>1, <3>2, <3>3 DEF Verdict
  <2>3. CASE match = "none"
    <3> DEFINE Neither(v) == \A x \in Items(v) : ~Compares(op, x, b)
    <3>1. CollectionMatch(op, "none", a, b) = Verdict(Neither(a))
      BY <1>3, ModesOfItems
    <3>2. CollectionMatch(op, "none", Reversed(a), b) = Verdict(Neither(Reversed(a)))
      BY <1>1, <1>2, <1>3, ModesOfItems
    <3>3. Neither(Reversed(a)) <=> Neither(a)
      BY <1>2
    <3> HIDE DEF Neither
    <3> QED
      BY <2>3, <3>1, <3>2, <3>3 DEF Verdict
  <2> QED
    BY <2>1, <2>2, <2>3
<1>4. CASE ~\A x \in Items(a) : Supported(op, x, b)
  BY <1>2, <1>4, ModesOfOthers
<1> QED
  BY <1>3, <1>4

(* All of the laws, for whatever two values a comparison is given.          *)
LEMMA ComparisonLaws ==
    ASSUME NEW op \in Operators, NEW a, NEW b, Value(a), Value(b)
    PROVE  /\ Comparison(op, "none", a, b) = Not(Comparison(op, "any", a, b))
           /\ Comparison(op, "all", a, b) = Comparison(Complement(op), "none", a, b)
           /\ Comparison(op, "direct", a, b) = Not(Comparison(Complement(op), "direct", a, b))
           /\ a.many => \A match \in {"any", "all", "none"} :
                  Comparison(op, match, a, b) = Comparison(op, match, Reversed(a), b)
<1>1. Not("error") = "error"
  BY DEF Not
<1>2. CASE NoMatch \in {a, b}
  <2>1. \A o, match : Comparison(o, match, a, b) = "error"
    BY <1>2 DEF Comparison
  <2>2. a.many => \A match : Comparison(op, match, Reversed(a), b) = "error"
    BY <1>2 DEF Comparison, NoMatch
  <2> QED
    BY <1>1, <2>1, <2>2
<1>3. CASE NoMatch \notin {a, b}
  <2>1. \A o : \A match \in {"any", "all", "none"} :
          Comparison(o, match, a, b) = CollectionMatch(o, match, a, b)
    BY <1>3 DEF Comparison
  <2>2. \A match \in {"any", "all", "none"} :
          Comparison(op, match, Reversed(a), b) = CollectionMatch(op, match, Reversed(a), b)
    BY <1>3 DEF Comparison, NoMatch, Reversed
  <2>3. Comparison(op, "direct", a, b) = Not(Comparison(Complement(op), "direct", a, b))
    <3> DEFINE p == Compares(op, a, b)
    <3>1. \A o : Comparison(o, "direct", a, b) =
                    IF Supported(o, a, b) THEN Verdict(Compares(o, a, b)) ELSE "error"
      BY <1>3 DEF Comparison
    <3>2. CASE Supported(op, a, b)
      <4>1. Supported(Complement(op), a, b) /\ (Compares(Complement(op), a, b) <=> ~p)
        BY <3>2, Complementary
      <4>2. Verdict(Compares(Complement(op), a, b)) = (IF ~p THEN "pass" ELSE "fail")
        BY <4>1 DEF Verdict
      <4>3. Verdict(p) = (IF p THEN "pass" ELSE "fail")
        BY DEF Verdict
      <4>4. Not("pass") = "fail" /\ Not("fail") = "pass"
        BY DEF Not
      <4> HIDE DEF p
      <4> QED
        BY <3>1, <3>2, <4>1, <4>2, <4>3, <4>4 DEF p
    <3>3. CASE ~Supported(op, a, b)
      BY <1>1, <3>1, <3>3, Complementary
    <3> QED
      BY <3>2, <3>3
  <2>4. a.many => \A match \in {"any", "all", "none"} :
          Comparison(op, match, a, b) = Comparison(op, match, Reversed(a), b)
    BY <2>1, <2>2, OrderOfItems
  <2> QED
    BY <2>1, <2>3, <2>4, CollectionLaws
<1> QED
  BY <1>2, <1>3

(* MatchLaws hold of the comparison checks in every trace, of whatever size. *)
THEOREM MatchLawsHold == BuiltinSpec => []MatchLaws
<1> DEFINE Inv == target \in Found /\ reference \in Found
<1>1. BuiltinInit => Inv
  BY DEF BuiltinInit
<1>2. Inv /\ [BuiltinNext]_builtinVars => Inv'
  BY DEF BuiltinNext, builtinVars, Judged, Negate, Recover, Run, RunComparison, RunStringMatching,
     RunRegexMatching, RunJsonValid, RunReadability, RunRegoPolicy, RunSemanticSimilarity,
     RunJudge, RunLLMJudge, RunConformity, RunToxicity, RunGroundedness, RunContradiction,
     RunAnswerRelevance, Ask, RunFunction
<1>3. Inv => MatchLaws
  <2> SUFFICES ASSUME Inv, NEW op \in Operators
               PROVE  LET By(o, match) == Comparison(o, match, target, reference)
                      IN  /\ By(op, "none") = Not(By(op, "any"))
                          /\ By(op, "all") = By(Complement(op), "none")
                          /\ By(op, "direct") = Not(By(Complement(op), "direct"))
                          /\ target.many => \A match \in {"any", "all", "none"} :
                               By(op, match) = Comparison(op, match, Reversed(target), reference)
    BY DEF MatchLaws, Reversed
  <2>1. Value(target) /\ Value(reference)
    BY FoundIsValue
  <2> QED
    BY <2>1, ComparisonLaws
<1> QED
  BY <1>1, <1>2, <1>3, PTL DEF BuiltinSpec

-----------------------------------------------------------------------------
(* Which keys a check needs is told by its name and its mode, of which Not  *)
(* keeps both.                                                              *)
NeedsTarget(type, mode) ==
    ~(type \in {"none", "function"} \/ (type \in Judges /\ mode = "trace"))

NeedsReference(type, mode) ==
    \/ type \in {"comparison", "string_matching", "regex_matching", "semantic_similarity"}
    \/ type \in Judges /\ mode = "values"

KeyBroken(type, mode) ==
    \/ NeedsTarget(type, mode) /\ target = NoMatch
    \/ NeedsReference(type, mode) /\ reference = NoMatch

(* Before a check was run there is nothing to judge; then a broken key is   *)
(* an error.                                                                *)
ErrorsKept ==
    /\ judged = "none" => check[1] = "none"
    /\ check = <<check[1], check[2], check[3]>>
    /\ KeyBroken(Kind, check[3]) => judged = "error"

LEMMA KeptIsStated == ErrorsKept => BrokenKeysStayErrors
  BY DEF ErrorsKept, BrokenKeysStayErrors, KeyBroken, NeedsTarget, NeedsReference, Needed

(* A check keeps it if it is an error wherever one of its keys is broken.   *)
LEMMA RunKeeps ==
    ASSUME NEW type, NEW option, NEW mode, NEW status, Run(type, option, mode, status),
           type # "not", status # "none", KeyBroken(type, mode) => status = "error"
    PROVE  ErrorsKept'
<1>1. check' = <<type, option, mode>> /\ judged' = status /\ UNCHANGED <<target, reference>>
  BY DEF Run
<1>2. Kind' = type /\ check'[3] = mode
  BY <1>1 DEF Kind
<1>3. KeyBroken(type, mode)' <=> KeyBroken(type, mode)
  BY <1>1 DEF KeyBroken, NeedsTarget, NeedsReference
<1> QED
  BY <1>1, <1>2, <1>3 DEF ErrorsKept, KeyBroken, NeedsTarget, NeedsReference

LEMMA UnchangedKeepsErrors ==
    ASSUME ErrorsKept, UNCHANGED builtinVars
    PROVE  ErrorsKept'
  BY DEF ErrorsKept, builtinVars, Kind, KeyBroken, NeedsTarget, NeedsReference

LEMMA ChecksKeep ==
    ASSUME BuiltinNext, ErrorsKept
    PROVE  ErrorsKept'
<1>1. ASSUME RunComparison PROVE ErrorsKept'
  <2>1. PICK op \in Operators, match \in {"direct", "any", "all", "none"} :
          Run("comparison", op, match, Comparison(op, match, target, reference))
    BY <1>1 DEF RunComparison
  <2>2. Comparison(op, match, target, reference) # "none"
    BY DEF Comparison, CollectionMatch, Verdict
  <2>3. KeyBroken("comparison", match) => Comparison(op, match, target, reference) = "error"
    BY DEF KeyBroken, Comparison
  <2> QED
    BY <2>1, <2>2, <2>3, RunKeeps
<1>2. ASSUME RunStringMatching PROVE ErrorsKept'
  <2>1. PICK contained \in BOOLEAN :
          Run("string_matching", "none", "none",
              IF IsText(reference) /\ IsText(target) THEN Verdict(contained) ELSE "error")
    BY <1>2 DEF RunStringMatching
  <2>2. ~IsText(NoMatch)
    BY DEF IsText, Is, NoMatch
  <2> QED
    BY <2>1, <2>2, RunKeeps DEF KeyBroken, Verdict
<1>3. ASSUME RunRegexMatching PROVE ErrorsKept'
  <2>1. PICK answer \in {"pass", "fail", "error"} :
          Run("regex_matching", "none", "none",
              IF IsText(reference) /\ IsText(target) THEN answer ELSE "error")
    BY <1>3 DEF RunRegexMatching
  <2>2. ~IsText(NoMatch)
    BY DEF IsText, Is, NoMatch
  <2> QED
    BY <2>1, <2>2, RunKeeps DEF KeyBroken
<1>4. ASSUME RunJsonValid PROVE ErrorsKept'
  <2>1. PICK mode \in {"parse", "parsed"}, json \in BOOLEAN, schema \in {"pass", "fail", "error"} :
          Run("json_valid", "none", mode, Json(mode, json, schema))
    BY <1>4 DEF RunJsonValid
  <2>2. Json(mode, json, schema) # "none"
    BY <2>1 DEF Json
  <2>3. KeyBroken("json_valid", mode) => Json(mode, json, schema) = "error"
    BY DEF KeyBroken, NeedsReference, Judges, Json
  <2> QED
    BY <2>1, <2>2, <2>3, RunKeeps
<1>5. ASSUME RunReadability PROVE ErrorsKept'
  <2>1. PICK score \in {"pass", "fail", "error"} :
          Run("readability", "none", "none", IF IsText(target) THEN score ELSE "error")
    BY <1>5 DEF RunReadability
  <2>2. ~IsText(NoMatch)
    BY DEF IsText, Is, NoMatch
  <2> QED
    BY <2>1, <2>2, RunKeeps DEF KeyBroken, NeedsReference, Judges
<1>6. ASSUME RunRegoPolicy PROVE ErrorsKept'
  <2>1. PICK rule \in {"pass", "fail", "error"} :
          Run("rego_policy", "none", "none", IF target = NoMatch THEN "error" ELSE rule)
    BY <1>6 DEF RunRegoPolicy
  <2> QED
    BY <2>1, RunKeeps DEF KeyBroken, NeedsReference, Judges
<1>7. ASSUME RunSemanticSimilarity PROVE ErrorsKept'
  <2>1. PICK similar \in {"pass", "fail", "raised"} :
          Run("semantic_similarity", "none", "none", Similarity(similar))
    BY <1>7 DEF RunSemanticSimilarity
  <2>2. Similarity(similar) # "none"
    BY <2>1 DEF Similarity
  <2>3. KeyBroken("semantic_similarity", "none") => Similarity(similar) = "error"
    BY DEF KeyBroken, Similarity
  <2> QED
    BY <2>1, <2>2, <2>3, RunKeeps
<1>8. ASSUME NEW type \in Judges, NEW mode \in {"trace", "value", "values"}, Ask(type, mode)
      PROVE  ErrorsKept'
  <2>1. PICK backend \in {"llm", "som"}, answer \in {"pass", "fail", "raised"} :
          Run(type, backend, mode, Judge(mode, backend, answer))
    BY <1>8 DEF Ask
  <2>2. Judge(mode, backend, answer) # "none"
    BY <2>1 DEF Judge
  <2>3. KeyBroken(type, mode) => Judge(mode, backend, answer) = "error"
    BY DEF KeyBroken, NeedsTarget, NeedsReference, Judges, Judge, Unresolved
  <2> QED
    BY <2>1, <2>2, <2>3, RunKeeps DEF Judges
<1>9. ASSUME RunJudge PROVE ErrorsKept'
  BY <1>8, <1>9 DEF RunJudge, RunLLMJudge, RunConformity, RunToxicity, RunGroundedness,
     RunContradiction, RunAnswerRelevance, Judges
<1>10. ASSUME RunFunction PROVE ErrorsKept'
  <2>1. PICK answer \in Statuses \cup {"raised"} : Run("function", "none", "none", answer)
    BY <1>10 DEF RunFunction
  <2>2. answer # "none"
    BY <2>1 DEF Statuses
  <2> QED
    BY <2>1, <2>2, RunKeeps DEF KeyBroken, NeedsTarget, NeedsReference, Judges
<1>11. ASSUME Recover PROVE ErrorsKept'
  BY <1>11 DEF Recover, ErrorsKept, Kind
<1>12. ASSUME Negate PROVE ErrorsKept'
  <2>1. /\ judged \in Statuses /\ check[1] # "not"
        /\ check' = <<"not", check[1], check[3]>> /\ judged' = Not(judged)
        /\ UNCHANGED <<target, reference>>
    BY <1>12 DEF Negate
  <2>2. Kind' = Kind /\ check'[3] = check[3] /\ check'[1] = "not"
    BY <2>1 DEF Kind
  <2>3. Not(judged) \in Statuses /\ Not("error") = "error"
    BY <2>1 DEF Not, Statuses
  <2>4. judged' # "none"
    BY <2>1, <2>3 DEF Statuses
  <2>5. KeyBroken(Kind, check[3])' <=> KeyBroken(Kind, check[3])
    BY <2>1, <2>2 DEF KeyBroken, NeedsTarget, NeedsReference
  <2>6. check' = <<check'[1], check'[2], check'[3]>>
    BY <2>1
  <2> QED
    BY <2>1, <2>3, <2>4, <2>5, <2>6 DEF ErrorsKept
<1>13. ASSUME Judged PROVE ErrorsKept'
  BY <1>13, UnchangedKeepsErrors DEF Judged
<1> QED
  BY <1>1, <1>2, <1>3, <1>4, <1>5, <1>6, <1>7, <1>9, <1>10, <1>11, <1>12, <1>13 DEF BuiltinNext

(* A check with a key that finds nothing, or that lost its engine, is an    *)
(* error, also under Not, whatever the trace holds (error_if_unresolved).   *)
THEOREM BrokenKeysAreErrors == BuiltinSpec => []BrokenKeysStayErrors
<1>1. BuiltinInit => ErrorsKept
  BY DEF BuiltinInit, ErrorsKept, Kind, KeyBroken, NeedsTarget, NeedsReference, Judges
<1>2. ErrorsKept /\ [BuiltinNext]_builtinVars => ErrorsKept'
  BY ChecksKeep, UnchangedKeepsErrors
<1> QED
  BY <1>1, <1>2, KeptIsStated, PTL DEF BuiltinSpec

-----------------------------------------------------------------------------
(* The suite, of whatever checks or probes, and the table of its counts.   *)
Row == [status : Statuses, tags : TagLists] \cup [probe : Probes, status : Statuses, tags : TagLists]

AttemptOK ==
    /\ attempt = [checks |-> attempt.checks, left |-> attempt.left,
                  scores |-> attempt.scores, raised |-> attempt.raised]
    /\ attempt.checks \in Seq(Seq(Statuses)) /\ attempt.left \in Nat
    /\ attempt.scores \in [DOMAIN attempt.checks -> SUBSET Scores] /\ attempt.raised \in BOOLEAN

(* Where a scan is; the checks of Composition and a scan exclude each       *)
(* other, and the table is begun when both are over.                        *)
Places ==
    /\ stage \in {"off", "resolving", "running", "reported"}
    /\ stage # "running" => lineup = None
    /\ lineup = None => attempt = None
    /\ next \in Nat
    /\ stage # "off" => next = 0
    /\ verdict # "none" => next # 0
    /\ grouped > 0 => stage \in {"off", "reported"} /\ next = 0

ScanTypes ==
    /\ asked \in Seq(Probes) /\ markers \in Seq(Probes) /\ loaded \in Seq(Probes)
    /\ scenarios \in Seq(Statuses)
    /\ options \in [everything : BOOLEAN, singleturn : BOOLEAN]
    /\ fate \in [Probes -> {"unseen", "skipped", "plain", "iterative", "left out"}]
    /\ made \in [Probes -> Nat \cup {-1}]
    /\ lineup # None => lineup \in Lineups /\ loaded # <<>>
    /\ attempt # None => AttemptOK

SuiteTypes == results \in Seq(Row) /\ Places /\ (stage # "off" => ScanTypes)

(* What the loop of group_by has counted so far. *)
InBucket(v, st) == {i \in 1..grouped : v \in BucketsOf(results[i]) /\ results[i].status = st}

Table ==
    /\ grouped \in 0..Len(results)
    /\ DOMAIN buckets = UNION {BucketsOf(results[i]) : i \in 1..grouped}
    /\ \A v \in DOMAIN buckets : buckets[v] = [st \in Statuses |-> Cardinality(InBucket(v, st))]

(* What the scores of an attempt have made of the checks so far. *)
Scored ==
    attempt # None => \A i \in DOMAIN attempt.checks :
        LET seen == attempt.checks[i]
            given == attempt.scores[i]
        IN  /\ Has(seen, "error") <=> attempt.raised \/ "invalid" \in given
            /\ Has(seen, "fail") <=> "high" \in given
            /\ Has(seen, "pass") <=> "low" \in given

(* What is told of a name. *)
Mine(p) == {i \in DOMAIN results : results[i].probe = p}

Runs(p) == fate[p] = "plain" \/ (fate[p] = "iterative" /\ ~options.singleturn)

Listed(list, p) == \E i \in DOMAIN list : list[i] = p

Once(list) == \A i, j \in DOMAIN list : list[i] = list[j] => i = j

Resolving(p) ==
    /\ Listed(markers, p) <=> fate[p] = "skipped"
    /\ Listed(loaded, p) <=> fate[p] \in {"plain", "iterative"}
    /\ made[p] = 0

(* In hand: the conversations of the probe that runs, ended and not ended. *)
InHand == Len(scenarios) + IF attempt = None THEN 0 ELSE Len(attempt.checks)

ToldOf(p) ==
    /\ Listed(loaded, p) => Runs(p) /\ Mine(p) = {}
    /\ Listed(loaded, p) => made[p] = IF lineup # None /\ p = Head(loaded) THEN InHand ELSE 0
    /\ fate[p] = "skipped" => \E k \in DOMAIN results : Mine(p) = {k} /\ results[k].status = "skip"
    /\ fate[p] # "skipped" /\ ~Runs(p) => Mine(p) = {}
    /\ ~Runs(p) => made[p] = 0
    /\ Runs(p) /\ ~Listed(loaded, p) /\ made[p] = -1 =>
          \E k \in DOMAIN results : Mine(p) = {k} /\ results[k].status = "error"
    /\ Runs(p) /\ ~Listed(loaded, p) /\ made[p] # -1 =>
          IsFiniteSet(Mine(p)) /\ Cardinality(Mine(p)) = made[p]

Told ==
    /\ stage # "off" => Once(loaded)
    /\ stage = "resolving" => results = <<>> /\ Once(markers) /\ \A p \in Probes : Resolving(p)
    /\ stage \in {"running", "reported"} => \A p \in Probes : ToldOf(p)
    /\ stage \in {"running", "reported"} => \A i \in DOMAIN results : results[i].probe \in Probes
    /\ stage = "reported" => loaded = <<>>
    /\ lineup = None => stage = "off" \/ scenarios = <<>>

SuiteInv == SuiteTypes /\ Table /\ Scored /\ Told

-----------------------------------------------------------------------------
(* Places of a list. *)
LEMMA PlacesFinite ==
  ASSUME NEW n \in Nat, NEW S \in SUBSET (1..n)
  PROVE  S \subseteq Nat /\ IsFiniteSet(S) /\ Cardinality(S) \in Nat
<1>1. IsFiniteSet(1..n)
  BY FS_Interval
<1>2. IsFiniteSet(S)
  BY <1>1, FS_Subset
<1>3. Cardinality(S) \in Nat
  BY <1>2, FS_CardinalityType
<1>4. S \subseteq Nat
  OBVIOUS
<1> QED
  BY <1>2, <1>3, <1>4

(* The probes of one turn: OneTurn lists the places of the plain probes, in *)
(* increasing order, so that it keeps each of them, once.                   *)
LEMMA PlaceRises ==
  ASSUME NEW n \in Nat, NEW S \in SUBSET (1..n), NEW r \in S, NEW s \in S, r < s
  PROVE  Cardinality({q \in S : q <= r}) < Cardinality({q \in S : q <= s})
<1> DEFINE below == {q \in S : q <= r}
           upTo == {q \in S : q <= s}
<1>2. S \subseteq Nat /\ IsFiniteSet(S)
  BY PlacesFinite
<1>3. below \subseteq upTo /\ below # upTo
  <2>1. r \in Nat /\ s \in Nat /\ \A q \in S : q \in Nat
    BY <1>2
  <2>2. s \in upTo /\ s \notin below
    BY <2>1
  <2>3. \A q \in below : q \in upTo
    BY <2>1
  <2> HIDE DEF below, upTo
  <2> QED
    BY <2>2, <2>3
<1>4. IsFiniteSet(upTo) /\ IsFiniteSet(below)
  <2>1. upTo \subseteq S /\ below \subseteq S
    OBVIOUS
  <2> HIDE DEF upTo, below
  <2> QED
    BY <1>2, <2>1, FS_Subset
<1> HIDE DEF below, upTo
<1>5. Cardinality(below) < Cardinality(upTo)
  BY <1>3, <1>4, FS_Subset, FS_CardinalityType
<1> QED
  BY <1>5 DEF below, upTo

LEMMA PlacesInOrder ==
  ASSUME NEW n \in Nat, NEW S \in SUBSET (1..n)
  PROVE  LET rank(r) == Cardinality({q \in S : q <= r})
         IN  /\ Cardinality(S) \in Nat
             /\ \A r \in S : rank(r) \in 1..Cardinality(S)
             /\ \A r, s \in S : rank(r) = rank(s) => r = s
             /\ \A i \in 1..Cardinality(S) : \E r \in S : rank(r) = i
<1> DEFINE c == Cardinality(S)
           rank(r) == Cardinality({q \in S : q <= r})
<1>1. S \subseteq Nat /\ IsFiniteSet(S) /\ c \in Nat
  BY PlacesFinite
<1>2. \A r \in S : rank(r) \in 1..c
  <2> SUFFICES ASSUME NEW r \in S PROVE rank(r) \in 1..c
    OBVIOUS
  <2> DEFINE below == {q \in S : q <= r}
  <2>1. below \subseteq S /\ r \in below
    BY <1>1
  <2> HIDE DEF below
  <2>2. IsFiniteSet(below) /\ Cardinality(below) <= c
    BY <1>1, <2>1, FS_Subset
  <2>3. Cardinality(below) \in Nat /\ Cardinality(below) # 0
    BY <2>1, <2>2, FS_CardinalityType, FS_EmptySet
  <2>4. Cardinality(below) \in 1..c
    BY <1>1, <2>2, <2>3
  <2> QED
    BY <2>4 DEF below
<1>3. \A r, s \in S : r < s => rank(r) < rank(s)
  BY PlaceRises
<1> HIDE DEF rank, c
<1>4. \A r, s \in S : rank(r) = rank(s) => r = s
  BY <1>1, <1>2, <1>3
<1>5. \A i \in 1..c : \E r \in S : rank(r) = i
  <2> DEFINE ranks == [r \in S |-> rank(r)]
  <2>1. ranks \in [S -> 1..c] /\ \A r \in S : ranks[r] = rank(r)
    BY <1>2
  <2> HIDE DEF ranks
  <2>2. ranks \in Injection(S, 1..c)
    BY <1>4, <2>1 DEF Injection, IsInjective
  <2>3. IsFiniteSet(1..c) /\ Cardinality(1..c) = c
    BY <1>1, FS_Interval
  <2>4. ranks \in Surjection(S, 1..c)
    BY <2>2, <2>3, FS_Injection DEF c
  <2> QED
    BY <2>1, <2>4 DEF Surjection
<1> QED
  BY <1>1, <1>2, <1>4, <1>5 DEF rank, c

LEMMA OneTurnFacts ==
  ASSUME loaded \in Seq(Probes)
  PROVE  /\ OneTurn \in Seq(Probes)
         /\ \A p : Listed(OneTurn, p) <=> Listed(loaded, p) /\ fate[p] = "plain"
         /\ Once(loaded) => Once(OneTurn)
<1> DEFINE n == Len(loaded)
           S == {i \in DOMAIN loaded : fate[loaded[i]] = "plain"}
           c == Cardinality(S)
           rank(r) == Cardinality({q \in S : q <= r})
           at(k) == CHOOSE i \in S : rank(i) = k
<1>1. n \in Nat /\ DOMAIN loaded = 1..n /\ loaded \in [1..n -> Probes]
  BY LenProperties
<1>2. S \in SUBSET (1..n)
  BY <1>1
<1>3. OneTurn = [k \in 1..c |-> loaded[at(k)]]
  BY DEF OneTurn
<1>4. /\ c \in Nat
      /\ \A r \in S : rank(r) \in 1..c
      /\ \A r, s \in S : rank(r) = rank(s) => r = s
      /\ \A i \in 1..c : \E r \in S : rank(r) = i
  <2> HIDE DEF S, n
  <2> QED
    BY <1>1, <1>2, PlacesInOrder
<1> HIDE DEF rank, c
<1>5. \A k \in 1..c : at(k) \in S /\ rank(at(k)) = k
  BY <1>4
<1>6. \A r \in S : at(rank(r)) = r
  BY <1>4, <1>5
<1> HIDE DEF at
<1>7. OneTurn \in [1..c -> Probes]
  BY <1>1, <1>2, <1>3, <1>5
<1>8. OneTurn \in Seq(Probes) /\ DOMAIN OneTurn = 1..c
  BY <1>4, <1>7
<1>9. ASSUME NEW p, Listed(OneTurn, p) PROVE Listed(loaded, p) /\ fate[p] = "plain"
  <2>1. PICK k \in 1..c : loaded[at(k)] = p
    BY <1>3, <1>8, <1>9 DEF Listed
  <2>2. at(k) \in S
    BY <1>5
  <2> QED
    BY <2>1, <2>2 DEF Listed
<1>10. ASSUME NEW p, Listed(loaded, p), fate[p] = "plain" PROVE Listed(OneTurn, p)
  <2>1. PICK r \in DOMAIN loaded : loaded[r] = p
    BY <1>10 DEF Listed
  <2>2. r \in S
    BY <1>10, <2>1
  <2>3. rank(r) \in 1..c /\ OneTurn[rank(r)] = p
    BY <1>3, <1>4, <1>6, <2>1, <2>2
  <2> QED
    BY <1>8, <2>3 DEF Listed
<1>11. ASSUME Once(loaded), NEW i \in DOMAIN OneTurn, NEW j \in DOMAIN OneTurn, OneTurn[i] = OneTurn[j]
       PROVE  i = j
  <2>1. loaded[at(i)] = loaded[at(j)] /\ at(i) \in S /\ at(j) \in S
    BY <1>3, <1>5, <1>8, <1>11
  <2>2. at(i) = at(j)
    BY <1>11, <2>1 DEF Once
  <2> QED
    BY <1>5, <1>8, <2>2
<1> QED
  BY <1>8, <1>9, <1>10, <1>11 DEF Once

-----------------------------------------------------------------------------
(* Counts.  A set of scenarios is as large as its four parts are together.  *)
LEMMA DisjointSum ==
  ASSUME NEW A, NEW B, IsFiniteSet(A), IsFiniteSet(B), A \cap B = {}
  PROVE  IsFiniteSet(A \cup B) /\ Cardinality(A \cup B) = Cardinality(A) + Cardinality(B)
<1>1. Cardinality(A) \in Nat /\ Cardinality(B) \in Nat /\ Cardinality(A \cap B) = 0
  BY FS_CardinalityType, FS_EmptySet
<1>2. IsFiniteSet(A \cup B)
  BY FS_Union
<1>3. Cardinality(A \cup B) = Cardinality(A) + Cardinality(B) - Cardinality(A \cap B)
  BY FS_Union
<1> QED
  BY <1>1, <1>2, <1>3

Part(S, st) == {i \in S : results[i].status = st}

LEMMA FourParts ==
  ASSUME NEW n \in Nat, NEW S \in SUBSET (1..n), \A i \in S : results[i].status \in Statuses
  PROVE  /\ \A st : Cardinality(Part(S, st)) \in Nat
         /\ \A st : Cardinality(Part(S, st)) = 0 <=> Part(S, st) = {}
         /\ Cardinality(S) = Cardinality(Part(S, "pass")) + Cardinality(Part(S, "fail"))
                                    + Cardinality(Part(S, "error")) + Cardinality(Part(S, "skip"))
<1> DEFINE part(st) == Part(S, st)
<1> USE DEF Part
<1>1. \A st : part(st) \in SUBSET (1..n)
  OBVIOUS
<1>2. \A st : IsFiniteSet(part(st)) /\ Cardinality(part(st)) \in Nat
  BY <1>1, PlacesFinite
<1>3. \A st : Cardinality(part(st)) = 0 <=> part(st) = {}
  BY <1>2, FS_EmptySet
<1>4. S = ((part("pass") \cup part("fail")) \cup part("error")) \cup part("skip")
  <2>1. \A i \in S : \E st \in Statuses : i \in part(st)
    OBVIOUS
  <2>2. \A st : part(st) \subseteq S
    OBVIOUS
  <2> HIDE DEF part
  <2> QED
    BY <2>1, <2>2 DEF Statuses
<1>5. part("pass") \cap part("fail") = {}
  OBVIOUS
<1>6. (part("pass") \cup part("fail")) \cap part("error") = {}
  OBVIOUS
<1>7. ((part("pass") \cup part("fail")) \cup part("error")) \cap part("skip") = {}
  OBVIOUS
<1> HIDE DEF part, Part
<1>8. /\ IsFiniteSet(part("pass") \cup part("fail"))
      /\ Cardinality(part("pass") \cup part("fail")) = Cardinality(part("pass")) + Cardinality(part("fail"))
  BY <1>2, <1>5, DisjointSum
<1>9. /\ IsFiniteSet((part("pass") \cup part("fail")) \cup part("error"))
      /\ Cardinality((part("pass") \cup part("fail")) \cup part("error"))
            = Cardinality(part("pass") \cup part("fail")) + Cardinality(part("error"))
  BY <1>2, <1>6, <1>8, DisjointSum
<1>10. Cardinality(S) = Cardinality((part("pass") \cup part("fail")) \cup part("error")) + Cardinality(part("skip"))
  BY <1>2, <1>4, <1>7, <1>9, DisjointSum
<1>11. Cardinality(S) = Cardinality(part("pass")) + Cardinality(part("fail"))
                                    + Cardinality(part("error")) + Cardinality(part("skip"))
  BY <1>2, <1>8, <1>9, <1>10
<1> QED
  BY <1>2, <1>3, <1>11 DEF part

(* A pass rate is perfect when nothing failed and nothing erred. *)
Counted(p, f, e, s, total) ==
    p \in Nat /\ f \in Nat /\ e \in Nat /\ s \in Nat /\ total = p + f + e + s

RateOf(p, total, s) == IF total - s = 0 THEN NoRate ELSE <<p, total - s>>

LEMMA RateFacts ==
  ASSUME NEW p, NEW f, NEW e, NEW s, NEW total, Counted(p, f, e, s, total)
  PROVE  /\ RateOf(p, total, s) = NoRate <=> p = 0 /\ f = 0 /\ e = 0
         /\ Perfect(RateOf(p, total, s)) <=> f = 0 /\ e = 0
<1> DEFINE d == total - s
           rate == RateOf(p, total, s)
<1>1. d = p + f + e /\ p \in Nat /\ f \in Nat /\ e \in Nat
  BY DEF Counted
<1>2. <<p, d>> # NoRate /\ <<p, d>>[1] = p /\ <<p, d>>[2] = d
  <2>1. Len(<<p, d>>) = 2 /\ Len(<<>>) = 0
    OBVIOUS
  <2>2. <<p, d>> # NoRate
    BY <2>1 DEF NoRate
  <2> QED
    BY <2>2
<1>3. d = 0 <=> p = 0 /\ f = 0 /\ e = 0
  BY <1>1
<1>4. p = d <=> f = 0 /\ e = 0
  BY <1>1
<1>5. rate = IF d = 0 THEN NoRate ELSE <<p, d>>
  BY DEF RateOf
<1> HIDE DEF d, rate
<1>6. rate = NoRate <=> p = 0 /\ f = 0 /\ e = 0
  BY <1>2, <1>3, <1>5
<1>7. Perfect(rate) <=> f = 0 /\ e = 0
  BY <1>2, <1>3, <1>4, <1>5 DEF Perfect
<1> QED
  BY <1>6, <1>7 DEF rate

LEMMA RowFacts ==
  ASSUME results \in Seq(Row)
  PROVE  /\ Len(results) \in Nat /\ DOMAIN results = 1..Len(results)
         /\ \A i \in 1..Len(results) : results[i].status \in Statuses /\ results[i].tags \in TagLists
<1>1. Len(results) \in Nat /\ DOMAIN results = 1..Len(results)
  BY LenProperties
<1>2. \A i \in 1..Len(results) : results[i] \in Row
  BY ElementOfSeq
<1> QED
  BY <1>1, <1>2 DEF Row

(* Every scenario has a bucket; that of the untagged ones is no value. *)
LEMMA BucketFacts ==
  ASSUME NEW row, row.tags \in TagLists
  PROVE  /\ \E v : v \in BucketsOf(row)
         /\ NoValue \in BucketsOf(row) <=> \A j \in DOMAIN row.tags : row.tags[j][1] # key
<1>1. PICK k \in 0..MaxTags : row.tags \in [1..k -> Keys \X Values]
  BY DEF TagLists
<1>2. \A j \in DOMAIN row.tags : row.tags[j] \in Keys \X Values
  BY <1>1
<1>3. MatchedValues(row) = {} <=> \A j \in DOMAIN row.tags : row.tags[j][1] # key
  BY DEF MatchedValues
<1>4. \A v \in MatchedValues(row) : v \in Values
  BY <1>2 DEF MatchedValues
<1>5. NoValue \notin MatchedValues(row)
  BY <1>4, ValuesAssumption
<1> QED
  BY <1>3, <1>5 DEF BucketsOf

(* The counts of the suite. *)
LEMMA SuiteCounts ==
  ASSUME results \in Seq(Row)
  PROVE  /\ \A st : CountOf(Suite, st) \in Nat
         /\ \A st : CountOf(Suite, st) = 0 <=> \A i \in 1..Len(results) : results[i].status # st
         /\ PassRate(Suite) = NoRate <=> /\ CountOf(Suite, "pass") = 0 /\ CountOf(Suite, "fail") = 0
                                         /\ CountOf(Suite, "error") = 0
         /\ Perfect(PassRate(Suite)) <=> CountOf(Suite, "fail") = 0 /\ CountOf(Suite, "error") = 0
<1> DEFINE n == Len(results)
           all == 1..n
           N(st) == CountOf(Suite, st)
<1>1. n \in Nat /\ DOMAIN results = 1..n /\ \A i \in 1..n : results[i].status \in Statuses
  BY RowFacts
<1>2. Suite = [i \in 1..n |-> results[i].status]
  BY <1>1 DEF Suite
<1>3. Len(Suite) = n /\ DOMAIN Suite = 1..n
  BY <1>1, <1>2
<1>4. \A st : N(st) = Cardinality(Part(all, st))
  <2> SUFFICES ASSUME NEW st PROVE N(st) = Cardinality(Part(all, st))
    OBVIOUS
  <2>1. {i \in DOMAIN Suite : Suite[i] = st} = Part(all, st)
    BY <1>2, <1>3 DEF Part
  <2> QED
    BY <2>1 DEF CountOf
<1>5. all \in SUBSET (1..n) /\ \A i \in all : results[i].status \in Statuses
  BY <1>1
<1>6. Cardinality(all) = n
  <2> HIDE DEF n
  <2> QED
    BY <1>1, FS_Interval
<1> HIDE DEF all, n
<1>11. /\ \A st : Cardinality(Part(all, st)) \in Nat
       /\ \A st : Cardinality(Part(all, st)) = 0 <=> Part(all, st) = {}
       /\ Cardinality(all) = Cardinality(Part(all, "pass")) + Cardinality(Part(all, "fail"))
                                    + Cardinality(Part(all, "error")) + Cardinality(Part(all, "skip"))
  BY <1>1, <1>5, FourParts
<1>7. n = N("pass") + N("fail") + N("error") + N("skip")
  BY <1>4, <1>6, <1>11
<1>8. PassRate(Suite) = IF n - N("skip") = 0 THEN NoRate ELSE <<N("pass"), n - N("skip")>>
  BY <1>3 DEF PassRate
<1>9. \A st : N(st) \in Nat /\ (N(st) = 0 <=> \A i \in 1..n : results[i].status # st)
  BY ZenonT(30), <1>4, <1>11 DEF Part, all
<1> HIDE DEF N
<1>10. /\ PassRate(Suite) = NoRate <=> N("pass") = 0 /\ N("fail") = 0 /\ N("error") = 0
       /\ Perfect(PassRate(Suite)) <=> N("fail") = 0 /\ N("error") = 0
  <2>1. Counted(N("pass"), N("fail"), N("error"), N("skip"), n)
    BY <1>7, <1>9 DEF Counted
  <2>2. PassRate(Suite) = RateOf(N("pass"), n, N("skip"))
    BY <1>8 DEF RateOf
  <2> QED
    BY <2>1, <2>2, RateFacts
<1> QED
  BY <1>9, <1>10 DEF N, n

(* The counts of a bucket, when all scenarios are grouped. *)
LEMMA BucketCounts ==
  ASSUME results \in Seq(Row), Table, grouped = Len(results), NEW v \in DOMAIN buckets
  PROVE  /\ \A st \in Statuses : buckets[v][st] \in Nat
         /\ \A st \in Statuses : buckets[v][st] = 0 <=>
              \A i \in 1..Len(results) : v \in BucketsOf(results[i]) => results[i].status # st
         /\ GroupPassRate(buckets[v]) = NoRate <=>
              buckets[v]["pass"] = 0 /\ buckets[v]["fail"] = 0 /\ buckets[v]["error"] = 0
         /\ Perfect(GroupPassRate(buckets[v])) <=> buckets[v]["fail"] = 0 /\ buckets[v]["error"] = 0
         /\ Total(buckets[v]) \in 1..Len(results)
<1> DEFINE n == Len(results)
           S == {i \in 1..n : v \in BucketsOf(results[i])}
           b(st) == buckets[v][st]
<1>1. n \in Nat /\ \A i \in 1..n : results[i].status \in Statuses
  BY RowFacts
<1>2. \A st \in Statuses : b(st) = Cardinality(Part(S, st))
  <2> SUFFICES ASSUME NEW st \in Statuses PROVE b(st) = Cardinality(Part(S, st))
    OBVIOUS
  <2>1. InBucket(v, st) = Part(S, st)
    BY DEF InBucket, Part
  <2>2. buckets[v] = [s \in Statuses |-> Cardinality(InBucket(v, s))]
    BY DEF Table
  <2>3. buckets[v][st] = Cardinality(InBucket(v, st))
    BY <2>2
  <2> QED
    BY <2>1, <2>3
<1>3. PICK i \in 1..n : v \in BucketsOf(results[i])
  BY DEF Table
<1>4. S \in SUBSET (1..n) /\ i \in S
  BY <1>3
<1>n. \A j \in 1..n : j \in S <=> v \in BucketsOf(results[j])
  OBVIOUS
<1> HIDE DEF n, S, b
<1>5. /\ \A st : Cardinality(Part(S, st)) \in Nat
      /\ \A st : Cardinality(Part(S, st)) = 0 <=> Part(S, st) = {}
      /\ Cardinality(S) = Cardinality(Part(S, "pass")) + Cardinality(Part(S, "fail"))
                                    + Cardinality(Part(S, "error")) + Cardinality(Part(S, "skip"))
  <2>1. \A j \in S : results[j].status \in Statuses
    BY <1>1, <1>4
  <2> QED
    BY <1>1, <1>4, <2>1, FourParts
<1>6. \A st \in Statuses : b(st) = 0 <=> \A j \in 1..n : v \in BucketsOf(results[j]) => results[j].status # st
  BY <1>2, <1>4, <1>5, <1>n DEF Part
<1>7. Cardinality(S) \in 1..n
  <2>0. IsFiniteSet(1..n)
    BY <1>1, FS_Interval
  <2>1. Cardinality(1..n) = n
    BY <1>1, FS_Interval
  <2>2. IsFiniteSet(S) /\ Cardinality(S) <= n
    BY <1>4, <2>0, <2>1, FS_Subset
  <2>3. Cardinality(S) \in Nat /\ Cardinality(S) # 0
    BY <1>4, <2>2, FS_CardinalityType, FS_EmptySet
  <2> QED
    BY <1>1, <2>2, <2>3
<1>8. \A st \in {"pass", "fail", "error", "skip"} : b(st) = Cardinality(Part(S, st)) /\ b(st) \in Nat
  BY <1>2, <1>5 DEF Statuses
<1>9. Total(buckets[v]) = b("pass") + b("fail") + b("error") + b("skip")
  BY DEF Total, b
<1>10. Total(buckets[v]) = Cardinality(S)
  BY <1>5, <1>8, <1>9
<1>11. GroupPassRate(buckets[v]) =
          IF Total(buckets[v]) - b("skip") = 0 THEN NoRate ELSE <<b("pass"), Total(buckets[v]) - b("skip")>>
  BY DEF GroupPassRate, b
<1>12. /\ GroupPassRate(buckets[v]) = NoRate <=> b("pass") = 0 /\ b("fail") = 0 /\ b("error") = 0
       /\ Perfect(GroupPassRate(buckets[v])) <=> b("fail") = 0 /\ b("error") = 0
  <2>1. Counted(b("pass"), b("fail"), b("error"), b("skip"), Total(buckets[v]))
    BY <1>8, <1>9 DEF Counted
  <2>2. GroupPassRate(buckets[v]) = RateOf(b("pass"), Total(buckets[v]), b("skip"))
    BY <1>11 DEF RateOf
  <2> QED
    BY <2>1, <2>2, RateFacts
<1>13. \A st \in Statuses : b(st) \in Nat
  BY <1>8 DEF Statuses
<1> QED
  BY <1>6, <1>7, <1>10, <1>12, <1>13 DEF b, n

LEMMA TableTells == results \in Seq(Row) /\ Table => TableTellsTheSuite
<1> SUFFICES ASSUME results \in Seq(Row), Table, Tabled PROVE TableTellsTheSuite
  BY DEF TableTellsTheSuite
<1> DEFINE n == Len(results)
           D == DOMAIN buckets
           N(st) == CountOf(Suite, st)
<1>1. n \in Nat /\ grouped = n /\ DOMAIN results = 1..n /\ \A i \in 1..n : results[i].tags \in TagLists
  BY RowFacts DEF Tabled
<1>2. \A i \in 1..n : /\ \E v : v \in BucketsOf(results[i])
                      /\ NoValue \in BucketsOf(results[i]) <=>
                            \A j \in DOMAIN results[i].tags : results[i].tags[j][1] # key
  BY <1>1, BucketFacts
<1>3. \A v : v \in D <=> \E i \in 1..n : v \in BucketsOf(results[i])
  BY <1>1 DEF Table
<1>4. /\ \A st : N(st) \in Nat
      /\ \A st : N(st) = 0 <=> \A i \in 1..n : results[i].status # st
      /\ PassRate(Suite) = NoRate <=> N("pass") = 0 /\ N("fail") = 0 /\ N("error") = 0
      /\ Perfect(PassRate(Suite)) <=> N("fail") = 0 /\ N("error") = 0
  BY SuiteCounts
<1>5. \A v \in D :
         /\ \A st \in Statuses : buckets[v][st] \in Nat
         /\ \A st \in Statuses : buckets[v][st] = 0 <=>
              \A i \in 1..n : v \in BucketsOf(results[i]) => results[i].status # st
         /\ GroupPassRate(buckets[v]) = NoRate <=>
              buckets[v]["pass"] = 0 /\ buckets[v]["fail"] = 0 /\ buckets[v]["error"] = 0
         /\ Perfect(GroupPassRate(buckets[v])) <=> buckets[v]["fail"] = 0 /\ buckets[v]["error"] = 0
         /\ Total(buckets[v]) \in 1..n
  BY <1>1, BucketCounts
<1> HIDE DEF n, D, N
<1>6. \A st \in Statuses : N(st) = 0 <=> \A v \in D : buckets[v][st] = 0
  <2> SUFFICES ASSUME NEW st \in Statuses PROVE N(st) = 0 <=> \A v \in D : buckets[v][st] = 0
    OBVIOUS
  <2>1. ASSUME N(st) = 0, NEW v \in D PROVE buckets[v][st] = 0
    BY <1>4, <1>5, <2>1
  <2>2. ASSUME \A v \in D : buckets[v][st] = 0, NEW i \in 1..n PROVE results[i].status # st
    <3>1. PICK v : v \in BucketsOf(results[i])
      BY <1>2
    <3>2. v \in D /\ buckets[v][st] = 0
      BY <1>3, <2>2, <3>1
    <3> QED
      BY <1>5, <3>1, <3>2
  <2> QED
    BY <1>4, <2>1, <2>2
<1>7. {"pass", "fail", "error"} \subseteq Statuses
  BY DEF Statuses
<1>8. (\A v \in D : Perfect(GroupPassRate(buckets[v]))) <=> Perfect(PassRate(Suite))
  BY <1>4, <1>5, <1>6, <1>7
<1>9. (\A v \in D : GroupPassRate(buckets[v]) = NoRate) <=> PassRate(Suite) = NoRate
  BY <1>4, <1>5, <1>6, <1>7
<1>10. ASSUME NEW st \in Statuses, N(st) > 0 PROVE \E v \in D : buckets[v][st] > 0
  <2>1. N(st) # 0
    BY <1>4, <1>10
  <2>2. PICK v \in D : buckets[v][st] # 0
    BY <1>6, <2>1
  <2> QED
    BY <1>5, <2>2
<1>11. NoValue \in D <=> \E i \in 1..n : \A j \in DOMAIN results[i].tags : results[i].tags[j][1] # key
  BY <1>2, <1>3
<1> QED
  BY <1>1, <1>5, <1>8, <1>9, <1>10, <1>11 DEF TableTellsTheSuite, N, D, n

-----------------------------------------------------------------------------
(* Steps that leave scans, scenarios and the table alone keep what is said  *)
(* of them; steps that add no count, what is said of the table.             *)
LEMMA TableStays ==
  ASSUME Table, grouped = 0 \/ results' = results, UNCHANGED <<key, grouped, buckets>>,
         Len(results') \in Nat
  PROVE  Table'
<1>1. CASE grouped = 0
  <2>1. DOMAIN buckets = {}
    BY <1>1 DEF Table
  <2> QED
    BY <1>1, <2>1 DEF Table
<1>2. CASE results' = results
  <2>2. \A v, st : InBucket(v, st)' = InBucket(v, st)
    BY <1>2 DEF InBucket, BucketsOf, MatchedValues
  <2>3. \A i \in 1..grouped : BucketsOf(results[i])' = BucketsOf(results[i])
    BY <1>2 DEF BucketsOf, MatchedValues
  <2>4. UNION {BucketsOf(results[i])' : i \in 1..grouped} = UNION {BucketsOf(results[i]) : i \in 1..grouped}
    BY <2>3
  <2>5. DOMAIN buckets' = (UNION {BucketsOf(results[i]) : i \in 1..grouped})'
    BY <2>4 DEF Table
  <2>6. \A v \in DOMAIN buckets' : buckets'[v] = [st \in Statuses |-> Cardinality(InBucket(v, st)')]
    BY <2>2 DEF Table
  <2>7. (grouped \in 0..Len(results))'
    BY <1>2 DEF Table
  <2> QED
    BY <2>5, <2>6, <2>7 DEF Table
<1> QED
  BY <1>1, <1>2

LEMMA IdleKeeps ==
  ASSUME SuiteInv, UNCHANGED <<garakVars, reportVars>>, Places'
  PROVE  SuiteInv'
<1> USE DEF SuiteInv, garakVars, reportVars
<1>1. SuiteTypes'
  BY DEF SuiteTypes, ScanTypes, AttemptOK
<1>2. Table'
  <2>1. Len(results') \in Nat
    BY LenProperties DEF SuiteTypes
  <2> QED
    BY <2>1, TableStays
<1>3. Scored'
  BY DEF Scored
<1>4. Told'
  <2>1. \A p : Mine(p)' = Mine(p)
    BY DEF Mine
  <2>2. \A p : ToldOf(p)' = ToldOf(p)
    BY <2>1 DEF ToldOf, Runs, Listed, InHand
  <2>3. \A p : Resolving(p)' = Resolving(p)
    BY DEF Resolving, Listed
  <2> QED
    BY <2>2, <2>3 DEF Told, Once
<1> QED
  BY <1>1, <1>2, <1>3, <1>4

LEMMA SuiteInitial == SuiteInit => SuiteInv
<1> SUFFICES ASSUME SuiteInit PROVE SuiteInv
  OBVIOUS
<1>1. results = <<>> /\ grouped = 0 /\ buckets = <<>>
  BY DEF SuiteInit, ReportInit
<1>2. results \in Seq(Row) /\ Len(results) = 0
  BY <1>1
<1>3. Table
  <2>1. DOMAIN buckets = {}
    BY <1>1
  <2> QED
    BY <1>1, <1>2, <2>1 DEF Table
<1>4. CASE stage = "off" /\ lineup = None /\ attempt = None /\ next \in {0, 1} /\ verdict = "none"
  BY <1>1, <1>2, <1>3, <1>4 DEF SuiteInv, SuiteTypes, Places, Scored, Told
<1>5. CASE Clear /\ GarakInit
  <2>1. /\ stage = "resolving" /\ markers = <<>> /\ loaded = <<>> /\ scenarios = <<>>
        /\ lineup = None /\ attempt = None /\ next = 0 /\ verdict = "none"
        /\ fate = [p \in Probes |-> "unseen"] /\ made = [p \in Probes |-> 0]
        /\ options \in [everything : BOOLEAN, singleturn : BOOLEAN]
    BY <1>5 DEF Clear, GarakInit
  <2>2. asked \in Seq(Probes)
    <3>1. PICK k \in 0..MaxRequest : asked \in [1..k -> Probes]
      BY <1>5 DEF GarakInit, Requests
    <3> QED
      BY <3>1
  <2>3. ScanTypes
    BY <2>1, <2>2 DEF ScanTypes
  <2>4. SuiteTypes
    BY <1>1, <1>2, <2>1, <2>3 DEF SuiteTypes, Places
  <2>5. Told
    <3>1. DOMAIN markers = {} /\ DOMAIN loaded = {}
      BY <2>1
    <3>2. \A p \in Probes : Resolving(p)
      BY <2>1, <3>1 DEF Resolving, Listed
    <3> QED
      BY <1>1, <2>1, <3>1, <3>2 DEF Told, Once
  <2>6. Scored
    BY <2>1 DEF Scored
  <2> QED
    BY <1>3, <2>4, <2>5, <2>6 DEF SuiteInv
<1> QED
  BY <1>4, <1>5 DEF SuiteInit, LoopInit, NoGarak, NoBuiltin, Clear

(* A step of group_by counts one more scenario, in each of its buckets. *)
LEMMA CountsSoFar ==
  ASSUME Table, NEW v
  PROVE  Counts(v) = [st \in Statuses |-> Cardinality(InBucket(v, st))]
<1>1. CASE v \in DOMAIN buckets
  BY <1>1 DEF Table, Counts
<1>2. CASE v \notin DOMAIN buckets
  <2>1. \A st : InBucket(v, st) = {}
    BY <1>2 DEF Table, InBucket
  <2>2. \A st : Cardinality(InBucket(v, st)) = 0
    BY <2>1, FS_EmptySet
  <2> QED
    BY <1>2, <2>2 DEF Counts, NoCounts
<1> QED
  BY <1>1, <1>2

LEMMA GroupKeepsTable ==
  ASSUME results \in Seq(Row), Table, Group
  PROVE  Table'
<1> DEFINE g == grouped + 1
           row == results[g]
           touched == BucketsOf(row)
<1>1. /\ grouped \in Nat /\ Len(results) \in Nat /\ g \in 1..Len(results)
      /\ grouped' = g /\ UNCHANGED <<results, key>>
      /\ 1..g = (1..grouped) \cup {g} /\ g \notin 1..grouped
  BY LenProperties DEF Table, Group
<1>2. row.status \in Statuses
  BY <1>1, RowFacts
<1>3. buckets' = [v \in DOMAIN buckets \cup touched |->
                    IF v \in touched THEN RecordInto(Counts(v), row.status) ELSE buckets[v]]
  BY DEF Group
<1>4. ASSUME NEW v, NEW st
      PROVE  Cardinality(InBucket(v, st)') = Cardinality(InBucket(v, st))
                                                + (IF v \in touched /\ row.status = st THEN 1 ELSE 0)
  <2>1. InBucket(v, st)' = {i \in 1..g : v \in BucketsOf(results[i]) /\ results[i].status = st}
    BY <1>1 DEF InBucket, BucketsOf, MatchedValues
  <2>2. InBucket(v, st) \in SUBSET (1..grouped) /\ g \notin InBucket(v, st)
    BY <1>1 DEF InBucket
  <2>3. IsFiniteSet(InBucket(v, st)) /\ Cardinality(InBucket(v, st)) \in Nat
    BY <1>1, <2>2, PlacesFinite
  <2>4. CASE v \in touched /\ row.status = st
    <3>1. InBucket(v, st)' = InBucket(v, st) \cup {g}
      BY <1>1, <2>1, <2>4 DEF InBucket
    <3>2. Cardinality(InBucket(v, st) \cup {g}) = Cardinality(InBucket(v, st)) + 1
      BY <2>2, <2>3, FS_AddElement
    <3> QED
      BY <2>4, <3>1, <3>2
  <2>5. CASE ~(v \in touched /\ row.status = st)
    <3>1. InBucket(v, st)' = InBucket(v, st)
      BY <1>1, <2>1, <2>5 DEF InBucket
    <3> QED
      BY <2>3, <2>5, <3>1
  <2> QED
    BY <2>4, <2>5
<1>5. ASSUME NEW v \in DOMAIN buckets'
      PROVE  buckets'[v] = [st \in Statuses |-> Cardinality(InBucket(v, st)')]
  <2> DEFINE count(st) == Cardinality(InBucket(v, st))
  <2>1. Counts(v) = [st \in Statuses |-> count(st)]
    BY CountsSoFar
  <2>2. \A st \in Statuses : count(st) \in Nat
    <3> SUFFICES ASSUME NEW st \in Statuses PROVE count(st) \in Nat
      OBVIOUS
    <3>1. InBucket(v, st) \in SUBSET (1..grouped)
      BY DEF InBucket
    <3> QED
      BY <1>1, <3>1, PlacesFinite
  <2>3. CASE v \in touched
    <3>1. buckets'[v] = RecordInto(Counts(v), row.status)
      BY <1>3, <2>3
    <3>2. \A st : Cardinality(InBucket(v, st)') = count(st) + (IF row.status = st THEN 1 ELSE 0)
      BY <1>4, <2>3
    <3> HIDE DEF count
    <3>3. RecordInto(Counts(v), row.status)
             = [st \in Statuses |-> count(st) + (IF row.status = st THEN 1 ELSE 0)]
      BY <1>2, <2>1, <2>2 DEF RecordInto
    <3> QED
      BY <3>1, <3>2, <3>3
  <2>4. CASE v \notin touched
    <3>1. buckets'[v] = buckets[v] /\ v \in DOMAIN buckets
      BY <1>3, <2>4
    <3>2. buckets[v] = [st \in Statuses |-> count(st)]
      BY <3>1 DEF Table
    <3>3. \A st : Cardinality(InBucket(v, st)') = count(st) + 0
      BY <1>4, <2>4
    <3> HIDE DEF count
    <3>4. \A st \in Statuses : Cardinality(InBucket(v, st)') = count(st)
      BY <2>2, <3>3
    <3> QED
      BY <3>1, <3>2, <3>4
  <2> QED
    BY <2>3, <2>4
<1>6. DOMAIN buckets' = (UNION {BucketsOf(results[i]) : i \in 1..grouped})'
  <2>1. DOMAIN buckets' = DOMAIN buckets \cup touched
    BY <1>3
  <2>2. (UNION {BucketsOf(results[i]) : i \in 1..grouped})' = UNION {BucketsOf(results[i]) : i \in 1..g}
    BY <1>1 DEF BucketsOf, MatchedValues
  <2>3. UNION {BucketsOf(results[i]) : i \in 1..g} = (UNION {BucketsOf(results[i]) : i \in 1..grouped}) \cup touched
    BY <1>1
  <2> QED
    BY <2>1, <2>2, <2>3 DEF Table
<1>7. (grouped \in 0..Len(results))'
  BY <1>1
<1> QED
  BY <1>5, <1>6, <1>7 DEF Table

LEMMA GroupKeeps ==
  ASSUME SuiteInv, EndSuite
  PROVE  SuiteInv'
<1>1. /\ Group /\ NoCheck /\ stage \in {"off", "reported"} /\ grouped \in Nat
      /\ UNCHANGED <<loopVars, garakVars, results>> /\ grouped' = grouped + 1
  BY LenProperties DEF EndSuite, Group, SuiteInv, Table
<1> USE DEF SuiteInv, garakVars
<1>2. SuiteTypes'
  <2>1. Places'
    BY <1>1 DEF SuiteTypes, Places, NoCheck, loopVars
  <2> QED
    BY <1>1, <2>1 DEF SuiteTypes, ScanTypes, AttemptOK
<1>3. Table'
  BY <1>1, GroupKeepsTable DEF SuiteTypes
<1>4. Scored'
  BY <1>1 DEF Scored
<1>5. Told'
  <2>1. \A p : Mine(p)' = Mine(p)
    BY <1>1 DEF Mine
  <2>2. \A p : ToldOf(p)' = ToldOf(p)
    BY <1>1, <2>1 DEF ToldOf, Runs, Listed, InHand
  <2>3. \A p : Resolving(p)' = Resolving(p)
    BY <1>1 DEF Resolving, Listed
  <2> QED
    BY <1>1, <2>2, <2>3 DEF Told, Once
<1> QED
  BY <1>2, <1>3, <1>4, <1>5

-----------------------------------------------------------------------------
(* Listed of names. *)
LEMMA ListAppended ==
  ASSUME NEW list \in Seq(Probes), NEW x \in Probes
  PROVE  /\ Append(list, x) \in Seq(Probes)
         /\ \A p : Listed(Append(list, x), p) <=> Listed(list, p) \/ p = x
         /\ Once(list) /\ ~Listed(list, x) => Once(Append(list, x))
<1> DEFINE n == Len(list)
           longer == Append(list, x)
<1>1. /\ n \in Nat /\ DOMAIN list = 1..n
      /\ longer \in Seq(Probes) /\ DOMAIN longer = 1..(n + 1)
      /\ longer[n + 1] = x /\ \A i \in 1..n : longer[i] = list[i]
  BY LenProperties, AppendProperties
<1> HIDE DEF longer, n
<1>2. \A i \in 1..(n + 1) : i \in 1..n \/ i = n + 1
  BY <1>1
<1>3. 1..n \subseteq 1..(n + 1) /\ n + 1 \in 1..(n + 1) /\ n + 1 \notin 1..n
  BY <1>1
<1>4. \A p : Listed(longer, p) <=> Listed(list, p) \/ p = x
  BY <1>1, <1>2, <1>3 DEF Listed
<1>5. ASSUME Once(list), ~Listed(list, x) PROVE Once(longer)
  BY <1>1, <1>2, <1>3, <1>5 DEF Listed, Once
<1> QED
  BY <1>1, <1>4, <1>5 DEF longer

LEMMA ListShortened ==
  ASSUME NEW list \in Seq(Probes), list # <<>>
  PROVE  /\ Head(list) \in Probes /\ Tail(list) \in Seq(Probes) /\ Listed(list, Head(list))
         /\ Once(list) => /\ Once(Tail(list))
                          /\ \A p : Listed(Tail(list), p) <=> Listed(list, p) /\ p # Head(list)
<1> DEFINE n == Len(list)
           rest == Tail(list)
           first == Head(list)
<1>1. n \in Nat /\ DOMAIN list = 1..n /\ n # 0
  BY LenProperties, EmptySeq
<1>2. /\ rest \in Seq(Probes) /\ Len(rest) = n - 1 /\ first = list[1]
      /\ \A i \in 1..(n - 1) : rest[i] = list[i + 1]
  BY HeadTailProperties
<1>3. DOMAIN rest = 1..(n - 1)
  BY <1>2, LenProperties
<1>4. first \in Probes /\ 1 \in 1..n
  BY <1>1, <1>2, ElementOfSeq
<1> HIDE DEF rest, n, first
<1>5. \A i \in 1..n : i = 1 \/ (i - 1 \in 1..(n - 1) /\ (i - 1) + 1 = i)
  BY <1>1
<1>6. \A i \in 1..(n - 1) : i + 1 \in 1..n /\ i + 1 # 1
  BY <1>1
<1>7. ASSUME Once(list), NEW p PROVE Listed(rest, p) <=> Listed(list, p) /\ p # first
  <2>1. ASSUME Listed(rest, p) PROVE Listed(list, p) /\ p # first
    <3>1. PICK i \in 1..(n - 1) : rest[i] = p
      BY <1>3, <2>1 DEF Listed
    <3>2. list[i + 1] = p /\ i + 1 \in 1..n /\ i + 1 # 1
      BY <1>2, <1>6, <3>1
    <3> QED
      BY <1>1, <1>2, <1>4, <1>7, <3>2 DEF Listed, Once
  <2>2. ASSUME Listed(list, p), p # first PROVE Listed(rest, p)
    <3>1. PICK i \in 1..n : list[i] = p
      BY <1>1, <2>2 DEF Listed
    <3>2. i - 1 \in 1..(n - 1) /\ (i - 1) + 1 = i
      BY <1>2, <1>5, <2>2, <3>1
    <3>3. rest[i - 1] = p
      BY <1>2, <3>1, <3>2
    <3> QED
      BY <1>3, <3>2, <3>3 DEF Listed
  <2> QED
    BY <2>1, <2>2
<1>8. ASSUME Once(list), NEW i \in DOMAIN rest, NEW j \in DOMAIN rest, rest[i] = rest[j] PROVE i = j
  <2>1. i + 1 \in 1..n /\ j + 1 \in 1..n /\ list[i + 1] = list[j + 1]
    BY <1>2, <1>3, <1>6, <1>8
  <2>2. i + 1 = j + 1
    BY <1>1, <1>8, <2>1 DEF Once
  <2> QED
    BY <1>1, <1>3, <2>2
<1>9. Listed(list, first)
  BY <1>1, <1>2, <1>4 DEF Listed
<1> QED
  BY <1>2, <1>4, <1>7, <1>8, <1>9 DEF Once, rest, first

-----------------------------------------------------------------------------
(* Scenarios of checks. *)
LEMMA RollUpTypes ==
  /\ \A s : RollUp(s) \in Statuses
  /\ \A cases : ScenarioStatus(cases) \in Statuses
  /\ \A checks : StatusOf(checks) \in Statuses
BY DEF RollUp, ScenarioStatus, StatusOf, Statuses

LEMMA EndScenarioKeeps ==
  ASSUME SuiteInv, EndScenario
  PROVE  SuiteInv'
<1> USE DEF SuiteInv, garakVars
<1>1. PICK tags \in TagLists : AddResult(ScenarioStatus(<<CaseOf(verdict)>>), tags)
  BY DEF EndScenario
<1> DEFINE row == [status |-> ScenarioStatus(<<CaseOf(verdict)>>), tags |-> tags]
<1>2. /\ stage = "off" /\ grouped = 0 /\ results' = Append(results, row)
      /\ UNCHANGED <<key, grouped, buckets, garakVars>> /\ next' = 0 /\ verdict' = "none"
  BY <1>1 DEF EndScenario, AddResult, SuiteTypes, Places
<1>3. row \in Row
  BY RollUpTypes DEF Row
<1>4. results' \in Seq(Row) /\ Len(results') \in Nat
  <2> HIDE DEF row
  <2>1. Append(results, row) \in Seq(Row)
    BY <1>3, AppendProperties DEF SuiteTypes
  <2> QED
    BY <1>2, <2>1, LenProperties
<1>5. SuiteTypes'
  BY <1>2, <1>4 DEF SuiteTypes, Places
<1>6. Table'
  BY <1>2, <1>4, TableStays
<1>7. Scored' /\ Told'
  BY <1>2 DEF Scored, Told, SuiteTypes, Places
<1> QED
  BY <1>5, <1>6, <1>7

-----------------------------------------------------------------------------
(* A scan. *)
LEMMA ScanStepFacts ==
  ASSUME SuiteInv, stage \in {"resolving", "running"}
  PROVE  /\ grouped = 0 /\ next = 0 /\ verdict = "none" /\ results \in Seq(Row) /\ ScanTypes
         /\ Once(loaded)
BY DEF SuiteInv, SuiteTypes, Places, Told, Table

LEMMA ScanStepTable ==
  ASSUME SuiteInv, stage \in {"resolving", "running"}, results' \in Seq(Row),
         UNCHANGED <<key, grouped, buckets>>
  PROVE  Table'
<1>1. Len(results') \in Nat
  BY LenProperties
<1> QED
  BY <1>1, ScanStepFacts, TableStays DEF SuiteInv

LEMMA SomeLineup ==
  ASSUME NEW l \in Lineups
  PROVE  /\ l # None /\ l = [loaded |-> l.loaded, skipped |-> l.skipped, attempts |-> l.attempts]
         /\ l.loaded \in Nat /\ l.skipped \in Nat /\ l.attempts \in Int
BY DEF Lineups, None

LEMMA ResolveKeeps ==
  ASSUME SuiteInv, ResolveName, UNCHANGED loopVars
  PROVE  SuiteInv'
<1> DEFINE h == Head(asked)
<1>1. /\ stage = "resolving" /\ asked # <<>> /\ asked' = Tail(asked)
      /\ UNCHANGED <<stage, options, lineup, attempt, scenarios, made, reportVars>>
  BY DEF ResolveName
<1>2. /\ grouped = 0 /\ next = 0 /\ verdict = "none" /\ results = <<>> /\ ScanTypes
      /\ Once(loaded) /\ Once(markers) /\ \A p \in Probes : Resolving(p)
      /\ lineup = None /\ attempt = None /\ scenarios = <<>>
  BY <1>1, ScanStepFacts DEF SuiteInv, SuiteTypes, Places, Told
<1>3. h \in Probes /\ asked' \in Seq(Probes)
  BY <1>1, <1>2, ListShortened DEF ScanTypes
<1>4. Table'
  BY <1>1, <1>2, ScanStepTable, ScanStepFacts DEF reportVars
<1>5. Scored' /\ Places'
  BY <1>1, <1>2 DEF Scored, Places, SuiteInv, SuiteTypes, loopVars, reportVars
<1> HIDE DEF h
<1>6. ASSUME markers' \in Seq(Probes), loaded' \in Seq(Probes),
             fate' \in [Probes -> {"unseen", "skipped", "plain", "iterative", "left out"}],
             Once(loaded'), Once(markers'),
             \A p \in Probes : Listed(markers', p) <=> fate'[p] = "skipped",
             \A p \in Probes : Listed(loaded', p) <=> fate'[p] \in {"plain", "iterative"}
      PROVE  SuiteInv'
  <2>1. SuiteTypes'
    BY <1>1, <1>2, <1>3, <1>5, <1>6, ScanStepFacts DEF SuiteTypes, ScanTypes, reportVars
  <2>2. \A p \in Probes : Resolving(p)'
    BY <1>1, <1>2, <1>6 DEF Resolving, Listed
  <2>3. Told'
    BY <1>1, <1>2, <1>6, <2>2 DEF Told, Once, reportVars
  <2> QED
    BY <1>4, <1>5, <2>1, <2>3 DEF SuiteInv
<1>7. CASE fate[h] = "unseen"
  <2>1. PICK f \in Fates :
          /\ fate' = [fate EXCEPT ![h] = f]
          /\ markers' = IF f = "skipped" THEN Append(markers, h) ELSE markers
          /\ loaded' = IF f \in {"plain", "iterative"} THEN Append(loaded, h) ELSE loaded
    BY <1>1, <1>7 DEF ResolveName, Resolve, h
  <2>2. f \in {"skipped", "plain", "iterative", "left out"}
    BY DEF Fates
  <2>3. /\ fate' \in [Probes -> {"unseen", "skipped", "plain", "iterative", "left out"}]
        /\ fate'[h] = f /\ \A p \in Probes : p # h => fate'[p] = fate[p]
    BY <1>2, <1>3, <2>1, <2>2 DEF ScanTypes
  <2>4. ~Listed(markers, h) /\ ~Listed(loaded, h)
    BY <1>2, <1>3, <1>7 DEF Resolving
  <2>5. /\ markers' \in Seq(Probes) /\ Once(markers')
        /\ \A p : Listed(markers', p) <=> Listed(markers, p) \/ (f = "skipped" /\ p = h)
    <3>1. /\ Append(markers, h) \in Seq(Probes) /\ Once(Append(markers, h))
          /\ \A p : Listed(Append(markers, h), p) <=> Listed(markers, p) \/ p = h
      BY <1>2, <1>3, <2>4, ListAppended DEF ScanTypes
    <3> QED
      BY <1>2, <2>1, <3>1 DEF ScanTypes
  <2>6. /\ loaded' \in Seq(Probes) /\ Once(loaded')
        /\ \A p : Listed(loaded', p) <=> Listed(loaded, p) \/ (f \in {"plain", "iterative"} /\ p = h)
    <3>1. /\ Append(loaded, h) \in Seq(Probes) /\ Once(Append(loaded, h))
          /\ \A p : Listed(Append(loaded, h), p) <=> Listed(loaded, p) \/ p = h
      BY <1>2, <1>3, <2>4, ListAppended DEF ScanTypes
    <3> QED
      BY <1>2, <2>1, <3>1 DEF ScanTypes
  <2>7. \A p \in Probes : Listed(markers', p) <=> fate'[p] = "skipped"
    BY <1>2, <2>2, <2>3, <2>4, <2>5 DEF Resolving
  <2>8. \A p \in Probes : Listed(loaded', p) <=> fate'[p] \in {"plain", "iterative"}
    BY <1>2, <2>2, <2>3, <2>4, <2>6 DEF Resolving
  <2> QED
    BY <1>6, <2>3, <2>5, <2>6, <2>7, <2>8
<1>8. CASE fate[h] # "unseen"
  <2>1. UNCHANGED <<fate, markers, loaded>>
    BY <1>8 DEF ResolveName, h
  <2> QED
    BY ZenonT(30), <1>2, <1>6, <2>1 DEF ScanTypes, Resolving, Once, Listed
<1> QED
  BY <1>7, <1>8

LEMMA StartRunKeeps ==
  ASSUME SuiteInv, StartRun, UNCHANGED loopVars
  PROVE  SuiteInv'
<1>1. /\ stage = "resolving" /\ stage' = "running"
      /\ results' = [i \in DOMAIN markers |-> Scenario(markers[i], "skip", <<>>)]
      /\ loaded' = IF options.singleturn THEN OneTurn ELSE loaded
      /\ UNCHANGED <<asked, options, fate, markers, lineup, attempt, scenarios, made, key, grouped, buckets>>
  BY DEF StartRun
<1>2. /\ grouped = 0 /\ next = 0 /\ verdict = "none" /\ ScanTypes
      /\ Once(loaded) /\ Once(markers) /\ \A p \in Probes : Resolving(p)
      /\ lineup = None /\ attempt = None /\ scenarios = <<>>
  BY <1>1, ScanStepFacts DEF SuiteInv, SuiteTypes, Places, Told
<1>3. markers \in Seq(Probes) /\ DOMAIN markers = 1..Len(markers) /\ Len(markers) \in Nat
  BY <1>2, LenProperties DEF ScanTypes
<1>4. <<>> \in TagLists
  <2>1. <<>> \in [1..0 -> Keys \X Values] /\ 0 \in 0..MaxTags
    BY MaxTagsAssumption
  <2> QED
    BY <2>1 DEF TagLists
<1>5. /\ results' \in Seq(Row) /\ DOMAIN results' = DOMAIN markers
      /\ \A i \in DOMAIN markers : results'[i].probe = markers[i] /\ results'[i].status = "skip"
      /\ \A i \in DOMAIN markers : markers[i] \in Probes
  <2>1. \A i \in 1..Len(markers) : Scenario(markers[i], "skip", <<>>) \in Row /\ markers[i] \in Probes
    BY <1>3, <1>4, ElementOfSeq DEF Scenario, Row, Statuses
  <2>2. results' \in [1..Len(markers) -> Row]
    BY <1>1, <1>3, <2>1
  <2> QED
    BY <1>1, <1>3, <2>1, <2>2 DEF Scenario
<1>6. /\ loaded' \in Seq(Probes) /\ Once(loaded')
      /\ \A p \in Probes : Listed(loaded', p) <=> fate[p] = "plain" \/ (fate[p] = "iterative" /\ ~options.singleturn)
  <2>1. \A p \in Probes : Listed(loaded, p) <=> fate[p] \in {"plain", "iterative"}
    BY <1>2 DEF Resolving
  <2>2. /\ OneTurn \in Seq(Probes) /\ Once(OneTurn)
        /\ \A p : Listed(OneTurn, p) <=> Listed(loaded, p) /\ fate[p] = "plain"
    BY <1>2, OneTurnFacts DEF ScanTypes
  <2> QED
    BY <1>1, <1>2, <2>1, <2>2 DEF ScanTypes
<1>7. SuiteTypes'
  BY <1>1, <1>2, <1>5, <1>6 DEF SuiteTypes, Places, ScanTypes, SuiteInv, loopVars
<1>8. Table'
  BY <1>1, <1>5, ScanStepTable
<1>9. Scored'
  BY <1>1, <1>2 DEF Scored
<1>10. ASSUME NEW p \in Probes PROVE ToldOf(p)'
  <2>1. Mine(p)' = {i \in DOMAIN markers : markers[i] = p}
    BY <1>5 DEF Mine
  <2>2. fate[p] # "skipped" => Mine(p)' = {}
    BY <1>2, <2>1 DEF Resolving, Listed
  <2>3. ASSUME fate[p] = "skipped"
        PROVE  \E k \in DOMAIN results' : Mine(p)' = {k} /\ results'[k].status = "skip"
    <3>1. PICK k \in DOMAIN markers : markers[k] = p
      BY <1>2, <2>3 DEF Resolving, Listed
    <3>2. Mine(p)' = {k}
      BY <1>2, <2>1, <3>1 DEF Once
    <3> QED
      BY <1>5, <3>2
  <2>4. made[p] = 0 /\ (Runs(p)' <=> Listed(loaded, p)')
    BY <1>1, <1>2, <1>6 DEF Resolving, Runs, Listed
  <2>5. Runs(p)' => fate[p] # "skipped"
    BY <1>1 DEF Runs
  <2> QED
    BY <1>1, <1>2, <2>2, <2>3, <2>4, <2>5 DEF ToldOf
<1>11. Told'
  BY <1>1, <1>2, <1>5, <1>6, <1>10 DEF Told, Once
<1> QED
  BY <1>7, <1>8, <1>9, <1>11 DEF SuiteInv

(* A step of the probe that runs keeps what is told, if the conversations   *)
(* of the probe are those in hand.                                          *)
LEMMA RunningKeeps ==
  ASSUME SuiteInv, stage = "running", loaded # <<>>,
         UNCHANGED <<stage, asked, options, fate, markers, loaded, reportVars, loopVars>>,
         lineup' \in Lineups, attempt' # None => AttemptOK', Scored', scenarios' \in Seq(Statuses),
         made' \in [Probes -> Nat \cup {-1}],
         \A p \in Probes : p # Head(loaded) => made'[p] = made[p],
         made'[Head(loaded)] = InHand'
  PROVE  SuiteInv'
<1> USE DEF reportVars
<1>1. /\ grouped = 0 /\ next = 0 /\ verdict = "none" /\ results \in Seq(Row) /\ ScanTypes
      /\ Once(loaded)
  BY ScanStepFacts
<1>2. lineup' # None
  BY SomeLineup
<1>3. Places'
  BY <1>1, <1>2 DEF Places, SuiteInv, SuiteTypes, loopVars
<1>4. ScanTypes'
  BY <1>1 DEF ScanTypes
<1>5. Table'
  BY <1>1, ScanStepTable
<1>6. Head(loaded) \in Probes /\ Listed(loaded, Head(loaded))
  BY <1>1, ListShortened DEF ScanTypes
<1>7. ASSUME NEW p \in Probes PROVE ToldOf(p)'
  <2>1. ToldOf(p)
    BY <1>7 DEF SuiteInv, Told
  <2>2. Mine(p)' = Mine(p) /\ (Listed(loaded, p)' <=> Listed(loaded, p)) /\ (Runs(p)' <=> Runs(p))
    BY DEF Mine, Listed, Runs
  <2>3. CASE p = Head(loaded)
    <3>1. Listed(loaded, p) /\ made'[p] = InHand'
      BY <1>6, <2>3
    <3> QED
      BY <1>2, <2>1, <2>2, <2>3, <3>1 DEF ToldOf
  <2>4. CASE p # Head(loaded)
    <3>1. made'[p] = made[p] /\ p # Head(loaded')
      BY <2>4
    <3>2. Listed(loaded, p) => made[p] = 0
      BY <2>1, <2>4 DEF ToldOf
    <3> QED
      BY <2>1, <2>2, <3>1, <3>2 DEF ToldOf
  <2> QED
    BY <2>3, <2>4
<1>8. Told'
  BY <1>1, <1>2, <1>7 DEF Told, SuiteInv, Once
<1> QED
  BY <1>1, <1>3, <1>4, <1>5, <1>8 DEF SuiteInv, SuiteTypes

LEMMA RunFacts ==
  ASSUME SuiteInv, stage = "running", lineup # None
  PROVE  /\ ScanTypes /\ lineup \in Lineups /\ loaded # <<>> /\ Head(loaded) \in Probes
         /\ Once(loaded) /\ Listed(loaded, Head(loaded))
         /\ made[Head(loaded)] = InHand /\ Len(scenarios) \in Nat /\ Runs(Head(loaded))
         /\ Mine(Head(loaded)) = {}
         /\ attempt # None => Len(attempt.checks) \in Nat /\ DOMAIN attempt.checks = 1..Len(attempt.checks)
<1>1. ScanTypes /\ Once(loaded)
  BY ScanStepFacts
<1>2. lineup \in Lineups /\ loaded # <<>> /\ Head(loaded) \in Probes /\ Listed(loaded, Head(loaded))
  BY <1>1, ListShortened DEF ScanTypes
<1>3. ToldOf(Head(loaded))
  BY <1>2 DEF SuiteInv, Told
<1>4. Len(scenarios) \in Nat
  BY <1>1, LenProperties DEF ScanTypes
<1>5. attempt # None => Len(attempt.checks) \in Nat /\ DOMAIN attempt.checks = 1..Len(attempt.checks)
  BY <1>1, LenProperties DEF ScanTypes, AttemptOK
<1> QED
  BY <1>1, <1>2, <1>3, <1>4, <1>5 DEF ToldOf

LEMMA StartProbeKeeps ==
  ASSUME SuiteInv, StartProbe, UNCHANGED loopVars
  PROVE  SuiteInv'
<1>1. /\ stage = "running" /\ loaded # <<>> /\ lineup = None /\ lineup' \in Lineups
      /\ UNCHANGED <<stage, asked, options, fate, markers, loaded, attempt, scenarios, made, reportVars>>
  BY DEF StartProbe
<1>2. /\ ScanTypes /\ attempt = None /\ scenarios = <<>> /\ Head(loaded) \in Probes
      /\ Listed(loaded, Head(loaded))
  BY <1>1, ScanStepFacts, ListShortened DEF ScanTypes, SuiteInv, SuiteTypes, Places, Told
<1>3. made[Head(loaded)] = 0
  <2>1. ToldOf(Head(loaded))
    BY <1>1, <1>2 DEF SuiteInv, Told
  <2> QED
    BY <1>1, <1>2, <2>1 DEF ToldOf
<1>4. InHand' = 0
  BY <1>1, <1>2 DEF InHand
<1>5. Scored'
  BY <1>1, <1>2 DEF Scored
<1> QED
  BY <1>1, <1>2, <1>3, <1>4, <1>5, RunningKeeps DEF ScanTypes

LEMMA StartAttemptKeeps ==
  ASSUME SuiteInv, stage = "running", StartAttempt, UNCHANGED loopVars
  PROVE  SuiteInv'
<1>1. /\ lineup # None /\ attempt = None /\ lineup.attempts > 0
      /\ lineup' = [lineup EXCEPT !.attempts = @ - 1]
      /\ UNCHANGED <<stage, asked, options, fate, markers, loaded, scenarios, reportVars>>
  BY DEF StartAttempt
<1>2. PICK n \in 0..(MaxConversations - Had) :
        /\ attempt' = [checks |-> [i \in 1..n |-> [j \in 1..lineup.skipped |-> "skip"]],
                       left |-> lineup.loaded, scores |-> [i \in 1..n |-> {}], raised |-> FALSE]
        /\ made' = [made EXCEPT ![Head(loaded)] = @ + n]
  BY DEF StartAttempt
<1>3. /\ ScanTypes /\ lineup \in Lineups /\ loaded # <<>> /\ Head(loaded) \in Probes
      /\ made[Head(loaded)] = Len(scenarios) /\ Len(scenarios) \in Nat
  BY <1>1, RunFacts DEF InHand
<1>4. n \in Nat
  OBVIOUS
<1>5. lineup' \in Lineups
  <2>1. lineup.attempts \in 0..MaxAttempts /\ MaxAttempts \in Int /\ lineup.attempts > 0
    BY <1>1, <1>3, BoundsAssumption DEF Lineups
  <2>2. lineup.attempts - 1 \in 0..MaxAttempts
    BY <2>1
  <2> QED
    BY <1>1, <1>3, <2>2 DEF Lineups
<1> DEFINE skips == [j \in 1..lineup.skipped |-> "skip"]
           checks == [i \in 1..n |-> skips]
<1>6. skips \in Seq(Statuses) /\ \A i \in 1..Len(skips) : skips[i] = "skip"
  <2>1. skips \in [1..lineup.skipped -> Statuses] /\ lineup.skipped \in Nat
    BY <1>3, SomeLineup DEF Statuses
  <2> QED
    BY <2>1
<1> HIDE DEF skips
<1>7. checks \in Seq(Seq(Statuses)) /\ Len(checks) = n /\ DOMAIN checks = 1..n
  <2>1. checks \in [1..n -> Seq(Statuses)]
    BY <1>6
  <2> QED
    BY <1>4, <2>1
<1>8. attempt' = [checks |-> checks, left |-> lineup.loaded, scores |-> [i \in 1..n |-> {}], raised |-> FALSE]
  BY <1>2 DEF skips
<1>9. attempt'.checks = checks /\ attempt'.scores = [i \in 1..n |-> {}] /\ attempt'.raised = FALSE
  BY <1>8
<1>10. AttemptOK'
  BY <1>3, <1>7, <1>8, SomeLineup DEF AttemptOK
<1>11. Scored'
  <2> SUFFICES ASSUME NEW i \in 1..n
               PROVE  /\ ~Has(checks[i], "error") /\ ~Has(checks[i], "fail") /\ ~Has(checks[i], "pass")
                      /\ attempt'.scores[i] = {}
    BY <1>7, <1>9 DEF Scored
  <2> QED
    BY <1>6, <1>9 DEF Has
<1>12. attempt' # None
  BY <1>8 DEF None
<1>13. InHand' = Len(scenarios) + n
  BY <1>1, <1>7, <1>9, <1>12 DEF InHand
<1>14. /\ made' \in [Probes -> Nat \cup {-1}] /\ made'[Head(loaded)] = Len(scenarios) + n
       /\ \A p \in Probes : p # Head(loaded) => made'[p] = made[p]
  <2> DEFINE h == Head(loaded)
  <2>1. h \in Probes /\ made[h] = Len(scenarios) /\ made' = [made EXCEPT ![h] = @ + n]
    BY <1>2, <1>3
  <2>2. made \in [Probes -> Nat \cup {-1}]
    BY <1>3 DEF ScanTypes
  <2>3. made[h] + n \in Nat
    BY <1>3, <1>4
  <2> HIDE DEF h
  <2> QED
    BY <2>1, <2>2, <2>3 DEF h
<1> QED
  BY <1>1, <1>3, <1>5, <1>10, <1>11, <1>13, <1>14, RunningKeeps DEF ScanTypes

LEMMA HasJoined ==
  ASSUME NEW a \in Seq(Statuses), NEW b \in Seq(Statuses)
  PROVE  /\ a \o b \in Seq(Statuses)
         /\ \A st : Has(a \o b, st) <=> Has(a, st) \/ Has(b, st)
<1> DEFINE m == Len(a)
           n == Len(b)
           both == a \o b
<1>1. /\ m \in Nat /\ n \in Nat /\ both \in Seq(Statuses) /\ Len(both) = m + n
      /\ \A i \in 1..(m + n) : both[i] = IF i <= m THEN a[i] ELSE b[i - m]
  BY LenProperties, ConcatProperties
<1> HIDE DEF m, n, both
<1>2. \A i \in 1..(m + n) : i \in 1..m \/ (i - m \in 1..n /\ ~(i <= m))
  BY <1>1
<1>3. \A i \in 1..m : i \in 1..(m + n) /\ i <= m
  BY <1>1
<1>4. \A i \in 1..n : i + m \in 1..(m + n) /\ ~(i + m <= m) /\ (i + m) - m = i
  BY <1>1
<1>5. \A i \in 1..m : both[i] = a[i]
  BY <1>1, <1>3
<1>6. \A i \in 1..n : both[i + m] = b[i]
  BY <1>1, <1>4
<1>7. ASSUME NEW st PROVE Has(both, st) <=> Has(a, st) \/ Has(b, st)
  <2>1. ASSUME Has(both, st) PROVE Has(a, st) \/ Has(b, st)
    <3>1. PICK i \in 1..(m + n) : both[i] = st
      BY <1>1, <2>1 DEF Has
    <3>2. CASE i \in 1..m
      BY <1>5, <3>1, <3>2 DEF Has, m
    <3>3. CASE i - m \in 1..n /\ ~(i <= m)
      BY <1>1, <3>1, <3>3 DEF Has, n
    <3> QED
      BY <1>2, <3>2, <3>3
  <2>2. ASSUME Has(a, st) PROVE Has(both, st)
    BY <1>1, <1>3, <1>5, <2>2 DEF Has, m
  <2>3. ASSUME Has(b, st) PROVE Has(both, st)
    BY <1>1, <1>4, <1>6, <2>3 DEF Has, n
  <2> QED
    BY <2>1, <2>2, <2>3
<1> QED
  BY <1>1, <1>7 DEF both

LEMMA HasFew ==
  /\ <<>> \in Seq(Statuses) /\ \A st : ~Has(<<>>, st)
  /\ \A x \in Statuses : <<x>> \in Seq(Statuses) /\ \A st : Has(<<x>>, st) <=> x = st
<1>1. Len(<<>>) = 0 /\ <<>> \in Seq(Statuses)
  OBVIOUS
<1>2. ASSUME NEW x \in Statuses PROVE <<x>> \in Seq(Statuses) /\ Len(<<x>>) = 1 /\ <<x>>[1] = x
  OBVIOUS
<1> QED
  BY <1>1, <1>2 DEF Has

(* What a score adds to the checks of a conversation. *)
LEMMA ScoreFacts ==
  ASSUME NEW score \in Scores
  PROVE  /\ ScoreToCheck(score) \in Statuses
         /\ ScoreToCheck(score) = "error" <=> score = "invalid"
         /\ ScoreToCheck(score) = "fail" <=> score = "high"
         /\ ScoreToCheck(score) = "pass" <=> score = "low"
BY DEF Scores, ScoreToCheck, Statuses

LEMMA DetectKeeps ==
  ASSUME SuiteInv, stage = "running", lineup # None, Detect, UNCHANGED loopVars
  PROVE  SuiteInv'
<1>1. /\ attempt # None /\ attempt.left > 0
      /\ UNCHANGED <<stage, asked, options, fate, markers, loaded, lineup, scenarios, made, reportVars>>
  BY DEF Detect
<1>2. PICK given \in UNION {[1..k -> Scores] : k \in 0..MaxConversations + 1}, raises \in BOOLEAN :
         attempt' = [attempt EXCEPT
            !.left = @ - 1,
            !.checks = [i \in DOMAIN @ |->
                @[i] \o (IF i \in DOMAIN given THEN <<ScoreToCheck(given[i])>> ELSE <<>>)
                     \o (IF raises THEN <<"error">> ELSE <<>>)],
            !.scores = [i \in DOMAIN @ |-> @[i] \cup (IF i \in DOMAIN given THEN {given[i]} ELSE {})],
            !.raised = @ \/ raises]
  BY DEF Detect
<1>3. \A i \in DOMAIN given : given[i] \in Scores
  OBVIOUS
<1>4. /\ ScanTypes /\ lineup \in Lineups /\ loaded # <<>> /\ Head(loaded) \in Probes
      /\ made[Head(loaded)] = InHand /\ AttemptOK
      /\ Len(attempt.checks) \in Nat /\ DOMAIN attempt.checks = 1..Len(attempt.checks)
  BY <1>1, RunFacts DEF ScanTypes
<1> DEFINE n == Len(attempt.checks)
           old == attempt.checks
           added(i) == IF i \in DOMAIN given THEN <<ScoreToCheck(given[i])>> ELSE <<>>
           last == IF raises THEN <<"error">> ELSE <<>>
           checks == [i \in 1..n |-> old[i] \o added(i) \o last]
           scores == [i \in 1..n |-> attempt.scores[i] \cup (IF i \in DOMAIN given THEN {given[i]} ELSE {})]
<1>5. attempt' = [checks |-> checks, left |-> attempt.left - 1, scores |-> scores,
                  raised |-> (attempt.raised \/ raises)]
  BY <1>2, <1>4 DEF AttemptOK
<1>6. attempt'.checks = checks /\ attempt'.scores = scores /\ attempt'.raised = (attempt.raised \/ raises)
  BY <1>5
<1>7. \A i \in 1..n : old[i] \in Seq(Statuses) /\ attempt.scores[i] \subseteq Scores
  BY <1>4 DEF AttemptOK
<1>8. last \in Seq(Statuses) /\ \A st : Has(last, st) <=> raises /\ st = "error"
  BY HasFew DEF Statuses
<1>9. \A i : added(i) \in Seq(Statuses)
  BY <1>3, HasFew, ScoreFacts
<1>10. \A i, st : Has(added(i), st) <=> i \in DOMAIN given /\ ScoreToCheck(given[i]) = st
  BY <1>3, HasFew, ScoreFacts
<1> HIDE DEF added, last
<1>11. ASSUME NEW i \in 1..n
       PROVE  /\ checks[i] \in Seq(Statuses)
              /\ \A st : Has(checks[i], st) <=> Has(old[i], st) \/ Has(added(i), st) \/ Has(last, st)
  <2>1. /\ old[i] \o added(i) \in Seq(Statuses)
        /\ \A st : Has(old[i] \o added(i), st) <=> Has(old[i], st) \/ Has(added(i), st)
    BY <1>7, <1>9, HasJoined
  <2>2. /\ (old[i] \o added(i)) \o last \in Seq(Statuses)
        /\ \A st : Has((old[i] \o added(i)) \o last, st) <=> Has(old[i] \o added(i), st) \/ Has(last, st)
    BY <1>8, <2>1, HasJoined
  <2>3. checks[i] = (old[i] \o added(i)) \o last
    OBVIOUS
  <2> QED
    BY <2>1, <2>2, <2>3
<1>12. checks \in Seq(Seq(Statuses)) /\ Len(checks) = n /\ DOMAIN checks = 1..n
  <2>1. checks \in [1..n -> Seq(Statuses)]
    BY <1>11
  <2> QED
    BY <1>4, <2>1
<1>13. scores \in [1..n -> SUBSET Scores]
  BY <1>3, <1>7
<1>14. Scored'
  <2> SUFFICES ASSUME NEW i \in 1..n
               PROVE  /\ Has(checks[i], "error") <=> (attempt.raised \/ raises) \/ "invalid" \in scores[i]
                      /\ Has(checks[i], "fail") <=> "high" \in scores[i]
                      /\ Has(checks[i], "pass") <=> "low" \in scores[i]
    BY <1>6, <1>12 DEF Scored
  <2>1. /\ Has(old[i], "error") <=> attempt.raised \/ "invalid" \in attempt.scores[i]
        /\ Has(old[i], "fail") <=> "high" \in attempt.scores[i]
        /\ Has(old[i], "pass") <=> "low" \in attempt.scores[i]
    BY <1>1, <1>4 DEF SuiteInv, Scored
  <2>2. \A score : score \in scores[i] <=>
            score \in attempt.scores[i] \/ (i \in DOMAIN given /\ score = given[i])
    OBVIOUS
  <2>3. /\ Has(added(i), "error") <=> i \in DOMAIN given /\ given[i] = "invalid"
        /\ Has(added(i), "fail") <=> i \in DOMAIN given /\ given[i] = "high"
        /\ Has(added(i), "pass") <=> i \in DOMAIN given /\ given[i] = "low"
    BY <1>3, <1>10, ScoreFacts
  <2> HIDE DEF checks, scores
  <2>4. Has(checks[i], "error") <=> (attempt.raised \/ raises) \/ "invalid" \in scores[i]
    BY <1>8, <1>11, <2>1, <2>2, <2>3
  <2>5. Has(checks[i], "fail") <=> "high" \in scores[i]
    BY <1>8, <1>11, <2>1, <2>2, <2>3
  <2>6. Has(checks[i], "pass") <=> "low" \in scores[i]
    BY <1>8, <1>11, <2>1, <2>2, <2>3
  <2> QED
    BY <2>4, <2>5, <2>6
<1>15. attempt' # None
  BY <1>5 DEF None
<1>16. attempt.left - 1 \in Nat /\ (attempt.raised \/ raises) \in BOOLEAN
  BY <1>1, <1>4 DEF AttemptOK
<1>17. AttemptOK'
  <2> HIDE DEF checks, scores
  <2> QED
    BY <1>5, <1>12, <1>13, <1>16 DEF AttemptOK
<1>18. InHand' = InHand
  BY <1>1, <1>6, <1>12, <1>15 DEF InHand
<1> QED
  BY <1>1, <1>4, <1>14, <1>17, <1>18, RunningKeeps DEF ScanTypes

LEMMA EndAttemptKeeps ==
  ASSUME SuiteInv, stage = "running", lineup # None, EndAttempt, UNCHANGED loopVars
  PROVE  SuiteInv'
<1> DEFINE added == [i \in DOMAIN attempt.checks |-> StatusOf(attempt.checks[i])]
<1>1. /\ attempt # None /\ attempt' = None /\ scenarios' = scenarios \o added
      /\ UNCHANGED <<stage, asked, options, fate, markers, loaded, lineup, made, reportVars>>
  BY DEF EndAttempt, Evaluated
<1>2. /\ ScanTypes /\ lineup \in Lineups /\ loaded # <<>> /\ Head(loaded) \in Probes
      /\ made[Head(loaded)] = InHand /\ Len(scenarios) \in Nat
      /\ Len(attempt.checks) \in Nat /\ DOMAIN attempt.checks = 1..Len(attempt.checks)
  BY <1>1, RunFacts
<1>3. added \in Seq(Statuses) /\ Len(added) = Len(attempt.checks)
  <2>1. added \in [1..Len(attempt.checks) -> Statuses]
    BY <1>2, RollUpTypes
  <2> QED
    BY <1>2, <2>1
<1> HIDE DEF added
<1>4. scenarios' \in Seq(Statuses) /\ Len(scenarios') = Len(scenarios) + Len(attempt.checks)
  <2>1. scenarios \in Seq(Statuses)
    BY <1>2 DEF ScanTypes
  <2>2. /\ scenarios \o added \in Seq(Statuses)
        /\ Len(scenarios \o added) = Len(scenarios) + Len(added)
    BY <1>3, <2>1, ConcatProperties
  <2> QED
    BY <1>1, <1>3, <2>2
<1>5. InHand' = InHand
  BY <1>1, <1>2, <1>4 DEF InHand
<1>6. Scored'
  BY <1>1 DEF Scored
<1> QED
  BY <1>1, <1>2, <1>4, <1>5, <1>6, RunningKeeps DEF ScanTypes

(* A probe is through when the report got c scenarios of it: those of its   *)
(* conversations, or an error.                                              *)
LEMMA LeaveKeeps ==
  ASSUME SuiteInv, stage = "running", lineup # None, attempt = None, NextProbe, UNCHANGED loopVars,
         NEW c \in Nat,
         results' \in Seq(Row), Len(results') = Len(results) + c,
         \A i \in 1..Len(results) : results'[i] = results[i],
         \A i \in (Len(results) + 1)..(Len(results) + c) : results'[i].probe = Head(loaded),
         made' \in [Probes -> Nat \cup {-1}],
         \A p \in Probes : p # Head(loaded) => made'[p] = made[p],
         \/ made'[Head(loaded)] = c
         \/ made'[Head(loaded)] = -1 /\ c = 1 /\ results'[Len(results) + 1].status = "error"
  PROVE  SuiteInv'
<1> DEFINE h == Head(loaded)
           m == Len(results)
<1>1. /\ loaded' = Tail(loaded) /\ lineup' = None /\ scenarios' = <<>>
      /\ UNCHANGED <<stage, asked, options, fate, markers, attempt, key, grouped, buckets>>
  BY DEF NextProbe
<1>2. /\ ScanTypes /\ lineup \in Lineups /\ loaded # <<>> /\ h \in Probes
      /\ Once(loaded) /\ Listed(loaded, h) /\ Runs(h) /\ Mine(h) = {}
  BY RunFacts
<1>3. /\ grouped = 0 /\ next = 0 /\ verdict = "none" /\ results \in Seq(Row)
      /\ m \in Nat /\ DOMAIN results = 1..m /\ DOMAIN results' = 1..(m + c)
  BY ScanStepFacts, LenProperties
<1>4. /\ loaded' \in Seq(Probes) /\ Once(loaded')
      /\ \A p : Listed(loaded', p) <=> Listed(loaded, p) /\ p # h
  BY <1>1, <1>2, ListShortened DEF ScanTypes
<1>5. SuiteTypes'
  <2>1. <<>> \in Seq(Statuses)
    OBVIOUS
  <2>2. attempt' = None /\ lineup' = None
    BY <1>1
  <2>3. ScanTypes'
    BY <1>1, <1>2, <1>4, <2>1, <2>2 DEF ScanTypes
  <2>4. Places'
    BY <1>1, <1>3 DEF Places, SuiteInv, SuiteTypes, loopVars
  <2> QED
    BY <2>3, <2>4 DEF SuiteTypes
<1>6. Table'
  BY <1>1, ScanStepTable
<1>7. Scored'
  BY <1>1 DEF Scored
<1>8. \A i \in 1..(m + c) : i \in 1..m \/ i \in (m + 1)..(m + c)
  BY <1>3
<1>9. 1..m \subseteq 1..(m + c) /\ (m + 1)..(m + c) \subseteq 1..(m + c)
  BY <1>3
<1> HIDE DEF h, m
<1>10. /\ \A i \in 1..m : results'[i] = results[i]
       /\ \A i \in (m + 1)..(m + c) : results'[i].probe = h
  BY DEF m, h
<1>11. \A i \in 1..m : results[i].probe # h
  BY <1>2, <1>3 DEF Mine
<1>12. {i \in DOMAIN results' : results'[i].probe = h} = (m + 1)..(m + c)
  <2>1. \A i \in 1..m : results'[i].probe # h
    BY <1>10, <1>11
  <2>2. \A i \in DOMAIN results' : results'[i].probe = h => i \in (m + 1)..(m + c)
    BY <1>3, <1>8, <2>1
  <2>3. \A i \in (m + 1)..(m + c) : i \in DOMAIN results' /\ results'[i].probe = h
    BY <1>3, <1>9, <1>10
  <2> QED
    BY <2>2, <2>3
<1>13. ASSUME NEW p, p # h PROVE Mine(p)' = Mine(p)
  BY <1>3, <1>8, <1>9, <1>10, <1>13 DEF Mine
<1>14. ASSUME NEW p \in Probes PROVE ToldOf(p)'
  <2>1. ToldOf(p)
    BY <1>14 DEF SuiteInv, Told
  <2>2. (Runs(p)' <=> Runs(p)) /\ (Listed(loaded, p)' <=> Listed(loaded, p) /\ p # h)
    BY <1>1, <1>4 DEF Runs, Listed
  <2>3. CASE p # h
    <3>1. made'[p] = made[p] /\ Mine(p)' = Mine(p)
      BY <1>13, <2>3 DEF h
    <3>2. Listed(loaded, p) => made[p] = 0
      BY <2>1, <2>3 DEF ToldOf, h
    <3>3. \A k \in DOMAIN results : k \in DOMAIN results' /\ results'[k] = results[k]
      BY <1>3, <1>9, <1>10
    <3>4. fate'[p] = fate[p] /\ lineup' = None
      BY <1>1
    <3> QED
      BY <2>1, <2>2, <2>3, <3>1, <3>2, <3>3, <3>4 DEF ToldOf
  <2>4. CASE p = h
    <3>1. Runs(p)' /\ ~Listed(loaded, p)' /\ fate'[p] # "skipped"
      BY <1>1, <1>2, <2>2, <2>4 DEF Runs
    <3>m. Mine(p)' = (m + 1)..(m + c)
      BY <1>12, <2>4 DEF Mine
    <3>2. CASE made'[h] = c
      <4>1. IsFiniteSet((m + 1)..(m + c)) /\ Cardinality((m + 1)..(m + c)) = c
        <5>1. m + 1 \in Int /\ m + c \in Int
          BY <1>3
        <5>2. IsFiniteSet((m + 1)..(m + c))
          BY <5>1, FS_Interval
        <5>3. Cardinality((m + 1)..(m + c)) = IF m + 1 > m + c THEN 0 ELSE (m + c) - (m + 1) + 1
          BY <5>1, FS_Interval
        <5> QED
          BY <1>3, <5>2, <5>3
      <4>2. made'[p] # -1
        BY <2>4, <3>2
      <4> QED
        BY <2>4, <3>1, <3>m, <3>2, <4>1, <4>2 DEF ToldOf
    <3>3. CASE made'[h] = -1 /\ c = 1 /\ results'[m + 1].status = "error"
      <4>1. Mine(p)' = {m + 1} /\ m + 1 \in DOMAIN results'
        BY <1>3, <3>m, <3>3
      <4> QED
        BY <2>4, <3>1, <3>3, <4>1 DEF ToldOf
    <3> QED
      BY <3>2, <3>3 DEF h, m
  <2> QED
    BY <2>3, <2>4
<1>15. \A i \in DOMAIN results' : results'[i].probe \in Probes
  <2>1. \A i \in 1..m : results[i].probe \in Probes
    BY <1>3 DEF SuiteInv, Told
  <2> QED
    BY <1>2, <1>3, <1>8, <1>10, <2>1
<1>16. Told'
  BY <1>1, <1>4, <1>14, <1>15 DEF Told
<1> QED
  BY <1>5, <1>6, <1>7, <1>16 DEF SuiteInv

LEMMA EndProbeKeeps ==
  ASSUME SuiteInv, stage = "running", EndProbe, UNCHANGED loopVars
  PROVE  SuiteInv'
<1> DEFINE h == Head(loaded)
           row(st) == Scenario(h, st, TagsOf[h])
           rows == [i \in DOMAIN scenarios |-> row(scenarios[i])]
           c == Len(scenarios)
           m == Len(results)
<1>1. /\ lineup # None /\ attempt = None /\ NextProbe /\ made' = made
      /\ results' = results \o rows
  BY DEF EndProbe
<1>2. /\ ScanTypes /\ h \in Probes /\ made[h] = c /\ c \in Nat
  BY <1>1, RunFacts DEF InHand
<1>3. results \in Seq(Row) /\ m \in Nat
  BY ScanStepFacts, LenProperties
<1>4. TagsOf[h] \in TagLists
  BY <1>2, TagsAssumption
<1>5. \A st \in Statuses : row(st) \in Row /\ row(st).probe = h
  BY <1>2, <1>4 DEF Scenario, Row
<1> HIDE DEF row, h
<1>6. DOMAIN scenarios = 1..c /\ \A i \in 1..c : scenarios[i] \in Statuses
  BY <1>2, LenProperties, ElementOfSeq DEF ScanTypes
<1>7. rows \in Seq(Row) /\ Len(rows) = c /\ \A i \in 1..c : rows[i].probe = h
  <2>1. rows \in [1..c -> Row]
    BY <1>5, <1>6
  <2> QED
    BY <1>2, <1>5, <1>6, <2>1
<1> HIDE DEF rows, c, m
<1>8. /\ results' \in Seq(Row) /\ Len(results') = m + c
      /\ \A i \in 1..(m + c) : results'[i] = IF i <= m THEN results[i] ELSE rows[i - m]
  BY <1>1, <1>3, <1>7, ConcatProperties DEF m
<1>9. \A i \in 1..m : results'[i] = results[i]
  BY <1>2, <1>3, <1>8
<1>10. \A i \in (m + 1)..(m + c) : results'[i].probe = h
  <2> SUFFICES ASSUME NEW i \in (m + 1)..(m + c) PROVE results'[i].probe = h
    OBVIOUS
  <2>1. i \in 1..(m + c) /\ ~(i <= m) /\ i - m \in 1..c
    BY <1>2, <1>3
  <2> QED
    BY <1>7, <1>8, <2>1
<1>11. made' \in [Probes -> Nat \cup {-1}]
  BY <1>1, <1>2 DEF ScanTypes
<1> QED
  BY <1>1, <1>2, <1>8, <1>9, <1>10, <1>11, LeaveKeeps DEF h, m

LEMMA ProbeRaisesKeeps ==
  ASSUME SuiteInv, stage = "running", ProbeRaises, UNCHANGED loopVars
  PROVE  SuiteInv'
<1> DEFINE h == Head(loaded)
           row == Scenario(h, "error", <<>>)
           m == Len(results)
<1>1. /\ lineup # None /\ attempt = None /\ NextProbe /\ made' = [made EXCEPT ![h] = -1]
      /\ results' = Append(results, row)
  BY DEF ProbeRaises
<1>2. ScanTypes /\ h \in Probes
  BY <1>1, RunFacts
<1>3. results \in Seq(Row) /\ m \in Nat
  BY ScanStepFacts, LenProperties
<1>4. <<>> \in TagLists
  <2>1. <<>> \in [1..0 -> Keys \X Values] /\ 0 \in 0..MaxTags
    BY MaxTagsAssumption
  <2> QED
    BY <2>1 DEF TagLists
<1>5. row \in Row /\ row.probe = h /\ row.status = "error"
  BY <1>2, <1>4 DEF Scenario, Row, Statuses
<1> HIDE DEF row, h, m
<1>6. /\ results' \in Seq(Row) /\ Len(results') = m + 1 /\ results'[m + 1] = row
      /\ \A i \in 1..m : results'[i] = results[i]
  BY <1>1, <1>3, <1>5, AppendProperties DEF m
<1>7. \A i \in (m + 1)..(m + 1) : results'[i].probe = h
  BY <1>3, <1>5, <1>6
<1>8. /\ made' \in [Probes -> Nat \cup {-1}] /\ made'[h] = -1
      /\ \A p \in Probes : p # h => made'[p] = made[p]
  BY <1>1, <1>2 DEF ScanTypes
<1> QED
  BY <1>1, <1>5, <1>6, <1>7, <1>8, LeaveKeeps DEF h, m

LEMMA EndRunKeeps ==
  ASSUME SuiteInv, EndRun, UNCHANGED loopVars
  PROVE  SuiteInv'
<1>1. /\ stage = "running" /\ loaded = <<>> /\ stage' = "reported"
      /\ UNCHANGED <<asked, options, fate, markers, loaded, lineup, attempt, scenarios, made, reportVars>>
  BY DEF EndRun
<1>2. /\ grouped = 0 /\ next = 0 /\ verdict = "none" /\ results \in Seq(Row) /\ ScanTypes /\ lineup = None
  BY <1>1, ScanStepFacts DEF ScanTypes
<1>3. SuiteTypes'
  BY <1>1, <1>2 DEF SuiteTypes, ScanTypes, AttemptOK, Places, SuiteInv, loopVars, reportVars
<1>4. Table'
  BY <1>1, <1>2, ScanStepTable DEF reportVars
<1>5. Scored'
  BY <1>1 DEF Scored, SuiteInv
<1>6. ASSUME NEW p \in Probes PROVE ToldOf(p)'
  <2>1. ToldOf(p)
    BY <1>1, <1>6 DEF SuiteInv, Told
  <2>2. Mine(p)' = Mine(p)
    BY <1>1 DEF Mine, reportVars
  <2> QED
    BY <1>1, <2>1, <2>2 DEF ToldOf, Listed, Runs, InHand, reportVars
<1>7. Told'
  BY <1>1, <1>6 DEF Told, SuiteInv, Once, reportVars
<1> QED
  BY <1>3, <1>4, <1>5, <1>7 DEF SuiteInv

LEMMA ScanKeeps ==
  ASSUME SuiteInv, ScanStep
  PROVE  SuiteInv'
<1>1. GarakNext /\ UNCHANGED loopVars
  BY DEF ScanStep
<1>2. /\ lineup # None => stage = "running"
      /\ attempt # None => lineup # None
  BY DEF SuiteInv, SuiteTypes, Places
<1>3. CASE ResolveName
  BY <1>1, <1>3, ResolveKeeps
<1>4. CASE StartRun
  BY <1>1, <1>4, StartRunKeeps
<1>5. CASE StartProbe
  BY <1>1, <1>5, StartProbeKeeps
<1>6. CASE StartAttempt
  BY <1>1, <1>2, <1>6, StartAttemptKeeps DEF StartAttempt
<1>7. CASE Detect
  BY <1>1, <1>2, <1>7, DetectKeeps DEF Detect
<1>8. CASE EndAttempt
  BY <1>1, <1>2, <1>8, EndAttemptKeeps DEF EndAttempt, Evaluated
<1>9. CASE EndProbe
  BY <1>1, <1>2, <1>9, EndProbeKeeps DEF EndProbe
<1>10. CASE ProbeRaises
  BY <1>1, <1>2, <1>10, ProbeRaisesKeeps DEF ProbeRaises
<1>11. CASE EndRun
  BY <1>1, <1>11, EndRunKeeps
<1> QED
  BY <1>1, <1>3, <1>4, <1>5, <1>6, <1>7, <1>8, <1>9, <1>10, <1>11 DEF GarakNext

LEMMA SuiteStep ==
  ASSUME SuiteInv, [SuiteNext]_allVars
  PROVE  SuiteInv'
<1>1. Places /\ grouped \in Nat
  BY LenProperties DEF SuiteInv, SuiteTypes, Table
<1>2. CASE Check
  <2>1. next # 0 /\ next' \in Nat /\ next' # 0 /\ UNCHANGED <<garakVars, reportVars>>
    BY <1>1, <1>2 DEF Check, NoCheck, RunInner, EndLoop, Places
  <2>2. Places'
    BY <1>1, <2>1 DEF Places, garakVars, reportVars
  <2> QED
    BY <2>1, <2>2, IdleKeeps
<1>3. CASE EndScenario
  BY <1>3, EndScenarioKeeps
<1>4. CASE NextScenario
  <2>1. stage = "off" /\ grouped = 0 /\ next' = 1 /\ UNCHANGED <<verdict, garakVars, reportVars>>
    BY <1>4 DEF NextScenario
  <2>2. Places'
    BY <1>1, <2>1 DEF Places, garakVars, reportVars
  <2> QED
    BY <2>1, <2>2, IdleKeeps
<1>5. CASE ScanStep
  BY <1>5, ScanKeeps
<1>6. CASE EndSuite
  BY <1>6, GroupKeeps
<1>7. CASE Reported \/ JudgeTrace \/ UNCHANGED allVars
  <2>1. UNCHANGED <<loopVars, garakVars, reportVars>>
    BY <1>7 DEF Reported, JudgeTrace, allVars
  <2>2. Places'
    BY <1>1, <2>1 DEF Places, loopVars, garakVars, reportVars
  <2> QED
    BY <2>1, <2>2, IdleKeeps
<1> QED
  BY <1>2, <1>3, <1>4, <1>5, <1>6, <1>7 DEF SuiteNext

(* group_by: whatever tags the scenarios of a suite carry, and however many *)
(* there are, the table is red where the suite is, and hides no scenario.   *)
THEOREM TableIsTrue == SuiteSpec => []TableTellsTheSuite
<1>1. SuiteInv => TableTellsTheSuite
  BY TableTells DEF SuiteInv, SuiteTypes
<1> QED
  BY SuiteInitial, SuiteStep, <1>1, PTL DEF SuiteSpec

(* The checks of a conversation roll up to its status. *)
LEMMA ChecksRollUp ==
  ASSUME NEW checks \in Seq(Statuses)
  PROVE  StatusOf(checks) = IF Has(checks, "error") THEN "error"
                            ELSE IF Has(checks, "fail") THEN "fail"
                            ELSE IF Has(checks, "pass") THEN "pass" ELSE "skip"
<1> DEFINE given == OrSkip(checks)
           case == [error |-> FALSE, results |-> given]
<1>1. RollUp(given) = IF Has(checks, "error") THEN "error"
                      ELSE IF Has(checks, "fail") THEN "fail"
                      ELSE IF Has(checks, "pass") THEN "pass" ELSE "skip"
  <2>1. CASE checks = <<>>
    <3>1. given = <<"skip">> /\ given # <<>>
      BY <2>1 DEF OrSkip
    <3>2. \A st : Has(given, st) <=> st = "skip"
      BY <3>1, HasFew DEF Statuses
    <3>3. All(given, "skip")
      BY <3>1 DEF All
    <3>4. \A st : ~Has(checks, st)
      BY <2>1, HasFew
    <3> QED
      BY <3>1, <3>2, <3>3, <3>4 DEF RollUp
  <2>2. CASE checks # <<>>
    <3>1. given = checks
      BY <2>2 DEF OrSkip
    <3>2. \A i \in 1..Len(checks) : checks[i] \in Statuses
      BY ElementOfSeq
    <3>3. Len(checks) \in Nat /\ Len(checks) # 0
      BY <2>2, LenProperties, EmptySeq
    <3>4. ~Has(checks, "error") /\ ~Has(checks, "fail") => (All(checks, "skip") <=> ~Has(checks, "pass"))
      BY <3>2, <3>3 DEF Has, All, Statuses
    <3> QED
      BY <2>2, <3>1, <3>4 DEF RollUp
  <2> QED
    BY <2>1, <2>2
<1> HIDE DEF given
<1>2. TestCaseStatus(case) = RollUp(given) /\ RollUp(given) \in Statuses
  BY RollUpTypes DEF TestCaseStatus
<1>3. StatusOf(checks) = RollUp([i \in DOMAIN <<case>> |-> TestCaseStatus(<<case>>[i])])
  BY DEF StatusOf, ScenarioStatus, given
<1>4. [i \in DOMAIN <<case>> |-> TestCaseStatus(<<case>>[i])] = <<RollUp(given)>>
  <2> HIDE DEF case
  <2> DEFINE st == TestCaseStatus(case)
  <2>1. DOMAIN <<case>> = {1} /\ <<case>>[1] = case
    OBVIOUS
  <2>2. [i \in DOMAIN <<case>> |-> TestCaseStatus(<<case>>[i])] = [i \in {1} |-> st]
    BY <2>1
  <2> HIDE DEF st
  <2>3. [i \in {1} |-> st] = <<st>>
    OBVIOUS
  <2> QED
    BY <1>2, <2>2, <2>3 DEF st
<1>5. \A st \in Statuses : RollUp(<<st>>) = st
  <2> SUFFICES ASSUME NEW st \in Statuses PROVE RollUp(<<st>>) = st
    OBVIOUS
  <2>1. \A x : Has(<<st>>, x) <=> x = st
    BY HasFew
  <2>2. <<st>> # <<>> /\ (All(<<st>>, "skip") <=> st = "skip")
    BY DEF All
  <2> QED
    BY <2>1, <2>2 DEF RollUp, Statuses
<1> QED
  BY <1>1, <1>2, <1>3, <1>4, <1>5

LEMMA NamesTold == SuiteInv => EveryNameTold
<1> SUFFICES ASSUME SuiteInv PROVE EveryNameTold
  OBVIOUS
<1>1. ASSUME Evaluated, NEW i \in DOMAIN attempt.checks
      PROVE  StatusOf(attempt.checks[i]) =
               IF attempt.raised \/ "invalid" \in attempt.scores[i] THEN "error"
               ELSE IF "high" \in attempt.scores[i] THEN "fail"
               ELSE IF "low" \in attempt.scores[i] THEN "pass"
               ELSE "skip"
  <2>1. attempt # None /\ lineup # None /\ stage = "running"
    BY <1>1 DEF Evaluated, SuiteInv, SuiteTypes, Places
  <2>2. AttemptOK
    BY <2>1 DEF SuiteInv, SuiteTypes, ScanTypes
  <2>3. attempt.checks[i] \in Seq(Statuses)
    BY <1>1, <2>2, ElementOfSeq, LenProperties DEF AttemptOK
  <2>4. /\ Has(attempt.checks[i], "error") <=> attempt.raised \/ "invalid" \in attempt.scores[i]
        /\ Has(attempt.checks[i], "fail") <=> "high" \in attempt.scores[i]
        /\ Has(attempt.checks[i], "pass") <=> "low" \in attempt.scores[i]
    BY <1>1, <2>1 DEF SuiteInv, Scored
  <2> QED
    BY <2>3, <2>4, ChecksRollUp
<1>2. ASSUME stage = "reported", NEW p \in Probes
      PROVE  LET mine == {i \in DOMAIN results : results[i].probe = p}
                 statuses == {results[i].status : i \in mine}
             IN  CASE fate[p] = "skipped" -> Cardinality(mine) = 1 /\ statuses = {"skip"}
                   [] fate[p] \in {"unseen", "left out"} -> mine = {}
                   [] fate[p] = "iterative" /\ options.singleturn -> mine = {}
                   [] made[p] = -1 -> Cardinality(mine) = 1 /\ statuses = {"error"}
                   [] OTHER -> Cardinality(mine) = made[p]
  <2> DEFINE statuses == {results[i].status : i \in Mine(p)}
  <2>1. ToldOf(p) /\ loaded = <<>> /\ ScanTypes
    BY <1>2 DEF SuiteInv, Told, SuiteTypes
  <2>2. ~Listed(loaded, p)
    <3>1. DOMAIN loaded = {}
      BY <2>1
    <3> QED
      BY <3>1 DEF Listed
  <2>3. fate[p] \in {"unseen", "skipped", "plain", "iterative", "left out"}
    BY <2>1 DEF ScanTypes
  <2>4. ASSUME NEW k \in DOMAIN results, Mine(p) = {k} PROVE Cardinality(Mine(p)) = 1 /\ statuses = {results[k].status}
    <3>1. Cardinality({k}) = 1
      BY FS_Singleton
    <3> QED
      BY <2>4, <3>1
  <2>5. fate[p] = "skipped" => Cardinality(Mine(p)) = 1 /\ statuses = {"skip"} /\ made[p] = 0
    <3>1. ASSUME fate[p] = "skipped" PROVE Cardinality(Mine(p)) = 1 /\ statuses = {"skip"}
      <4>1. PICK k \in DOMAIN results : Mine(p) = {k} /\ results[k].status = "skip"
        BY <2>1, <3>1 DEF ToldOf
      <4> QED
        BY <2>4, <4>1
    <3> QED
      BY <2>1, <3>1 DEF ToldOf, Runs
  <2>6. fate[p] # "skipped" /\ ~Runs(p) => Mine(p) = {} /\ made[p] = 0
    BY <2>1 DEF ToldOf
  <2>7. Runs(p) /\ made[p] = -1 => Cardinality(Mine(p)) = 1 /\ statuses = {"error"}
    <3> SUFFICES ASSUME Runs(p), made[p] = -1 PROVE Cardinality(Mine(p)) = 1 /\ statuses = {"error"}
      OBVIOUS
    <3>1. PICK k \in DOMAIN results : Mine(p) = {k} /\ results[k].status = "error"
      BY <2>1, <2>2 DEF ToldOf
    <3> QED
      BY <2>4, <3>1
  <2>8. Runs(p) /\ made[p] # -1 => Cardinality(Mine(p)) = made[p]
    BY <2>1, <2>2 DEF ToldOf
  <2>9. Runs(p) <=> fate[p] = "plain" \/ (fate[p] = "iterative" /\ ~options.singleturn)
    BY DEF Runs
  <2>10. Mine(p) = {i \in DOMAIN results : results[i].probe = p}
    BY DEF Mine
  <2> HIDE DEF statuses
  <2>11. (CASE fate[p] = "skipped" -> Cardinality(Mine(p)) = 1 /\ statuses = {"skip"}
            [] fate[p] \in {"unseen", "left out"} -> Mine(p) = {}
            [] fate[p] = "iterative" /\ options.singleturn -> Mine(p) = {}
            [] made[p] = -1 -> Cardinality(Mine(p)) = 1 /\ statuses = {"error"}
            [] OTHER -> Cardinality(Mine(p)) = made[p])
    <3>1. CASE fate[p] = "skipped"
      BY <2>5, <3>1
    <3>2. CASE fate[p] \in {"unseen", "left out"}
      <4>1. Mine(p) = {} /\ made[p] = 0
        BY <2>6, <2>9, <3>2
      <4>2. fate[p] # "skipped" /\ fate[p] # "iterative"
        BY <3>2, Zenon
      <4>3. made[p] # -1
        BY <4>1
      <4> QED
        BY <3>2, <4>1, <4>2, <4>3
    <3>3. CASE fate[p] = "iterative" /\ options.singleturn
      BY <2>6, <2>9, <3>3
    <3>4. CASE Runs(p) /\ made[p] = -1
      BY <2>7, <2>9, <3>4
    <3>5. CASE Runs(p) /\ made[p] # -1
      BY <2>8, <2>9, <3>5
    <3> QED
      BY <2>3, <2>9, <3>1, <3>2, <3>3, <3>4, <3>5
  <2> QED
    BY <2>10, <2>11 DEF statuses
<1> QED
  BY <1>1, <1>2 DEF EveryNameTold

(* Every name of a scan is told of once, and no conversation passes unseen, *)
(* for any number of names, attempts, conversations and detectors.          *)
THEOREM NamesAreTold == SuiteSpec => []EveryNameTold
BY SuiteInitial, SuiteStep, NamesTold, PTL DEF SuiteSpec

-----------------------------------------------------------------------------
(* What a scan tells, for any number of units, documents and budgets.  The *)
(* lock's part is cited from AsyncSemaphore_proofs; who is asked to cancel, *)
(* and why, is what lies behind the answer.                                *)

(* The units that are asked to cancel, and the reason.                     *)
Asked ==
    /\ \A t \in cancelling : pc[t] \in Holding /\ GeneratorOf(t) \in stopping
    /\ \A t \in Tasks : pc[t] = "cancelled" => GeneratorOf(t) \in stopping
    /\ stopping # {} \/ aborting => abandoned \/ \E t \in Tasks : pc[t] = "failed"

(* Vectors that are there are not made again.                              *)
Embeds == embedded # "missing" => At("running") = {}

(* What came out of it.                                                    *)
Generated ==
    /\ suite # "none" => \A t \in Tasks : pc[t] \in Ended
    /\ suite = "given" => \A t \in Tasks : pc[t] = "done"
    /\ suite = "raised" => \E t \in Tasks : pc[t] = "failed"
    /\ suite = "cancelled" => abandoned

GenerateInv == GenerateTypeOK /\ SemInv /\ Asked /\ Embeds /\ Generated

Stated ==
    /\ phase = "generating" <=> suite = "none"
    /\ phase \in {"running", "recommending"} => suite = "given"
    /\ phase = "recommending" => ran = "result"
    /\ phase = "over" <=> outcome # "none"

ScanInv == GenerateInv /\ Stated /\ ScanTellsAll

-----------------------------------------------------------------------------
LEMMA UnitPositions ==
    /\ \A p \in {"created", "proposing", "validating", "done", "failed", "cancelled"} : Outside(p)
    /\ "running" \in Inside
    /\ \A p \in Stages : p \in Holding => p \in {"granted", "running"}
<1>1. \A p \in {"created", "proposing", "validating", "done", "failed", "cancelled"} : Outside(p)
  BY DEF Outside, Holding
<1>2. "running" \in Inside
  BY DEF Inside, Holding
<1>3. \A p \in Stages : p \in Holding => p \in {"granted", "running"}
  BY DEF Holding, Stages, Ended
<1> QED
  BY <1>1, <1>2, <1>3

LEMMA Parameters ==
    /\ {NumCategories, NumTopics, Default, NumObjectives, MaxRules, DatasetSize, MaxReply} \subseteq Nat
    /\ NumCategories \in Nat /\ NumTopics \in Nat /\ Default \in Nat /\ NumObjectives \in Nat
    /\ MaxRules \in Nat /\ DatasetSize \in Nat /\ MaxReply \in Nat
    /\ Rounds \in Nat \ {0} /\ Attempts \in Nat \ {0}
BY GenerateAssumption

LEMMA UnitsCovered == \A t \in Tasks : GeneratorOf(t) \in Generators
<1> SUFFICES ASSUME NEW t \in Tasks PROVE GeneratorOf(t) \in Generators
  OBVIOUS
<1>1. t \in Categories \/ t = Objectives \/ t = Dataset \/ t = Grounded \/ t = MultiTopic \/ t \in Topics
  <2>1. t \in 1..(NumCategories + 4 + NumTopics)
    BY GenerateAssumption
  <2> QED
    BY <2>1, Parameters DEF Categories, Objectives, Dataset, Grounded, MultiTopic, Topics
<1> HIDE DEF Categories, Objectives, Dataset, Grounded, MultiTopic, Topics
<1> QED
  BY <1>1 DEF GeneratorOf, Generators, Attacks, Quality

LEMMA OnePermit == MaxPermits = 1 /\ MaxPermits \in Nat /\ Limited
BY GenerateAssumption DEF Limited

LEMMA SoleHolder ==
  ASSUME SemInv, NEW c \in Holders
  PROVE  Holders = {c} /\ permits = 0
<1>1. permits \in Nat /\ IsFiniteSet(Holders) /\ permits + Cardinality(Holders) = 1
  BY OnePermit DEF SemInv, PermitsConserved
<1>2. Cardinality({c}) = 1 /\ IsFiniteSet({c})
  BY FS_Singleton
<1>3. Cardinality(Holders) \in Nat /\ Cardinality({c}) <= Cardinality(Holders)
  BY <1>1, FS_CardinalityType, FS_Subset
<1>4. permits = 0 /\ Cardinality(Holders) = Cardinality({c})
  BY <1>1, <1>2, <1>3
<1> QED
  BY <1>1, <1>4, FS_Subset

(* The budget of a generator, and of a category, is a number or no limit.  *)
LEMMA ShareTypes ==
  ASSUME NEW b \in Budgets, NEW among \in Registries, NEW share \in Shares(b, among),
         NEW g \in Generators
  PROVE  share[g] \in Nat \cup {NoLimit}
<1>1. PICK f \in IF b = NoLimit THEN {[i \in among |-> NoLimit]} ELSE Splits(b, among) :
        share = [i \in Generators |-> IF i \in among THEN f[i] ELSE 0]
  BY DEF Shares
<1>2. share[g] = IF g \in among THEN f[g] ELSE 0
  BY <1>1
<1>3. ASSUME g \in among PROVE f[g] \in Nat \cup {NoLimit}
  <2>1. CASE b = NoLimit
    BY <1>1, <1>3, <2>1
  <2>2. CASE b # NoLimit
    <3>1. b \in Nat
      BY <2>2, GenerateAssumption
    <3>2. f \in [among -> 0..b]
      BY <1>1, <2>2 DEF Splits
    <3> QED
      BY <1>3, <3>1, <3>2
  <2> QED
    BY <2>1, <2>2
<1> QED
  BY <1>2, <1>3

LEMMA LeastType ==
  ASSUME NEW a \in Nat, NEW b \in Nat
  PROVE  Least(a, b) \in Nat /\ Least(a, b) <= a /\ Least(a, b) <= b
BY DEF Least

LEMMA RulesType ==
  ASSUME NEW s \in Nat \cup {NoLimit}, NEW rules \in RulesOf(s), NEW c \in Categories
  PROVE  rules[c] \in Nat
<1>1. CASE s = NoLimit
  BY <1>1, Parameters DEF RulesOf
<1>2. CASE s # NoLimit
  <2>1. PICK split \in Splits(s, Categories) : rules = [i \in Categories |-> Least(split[i], MaxRules)]
    BY <1>2 DEF RulesOf
  <2>2. split \in [Categories -> 0..s] /\ s \in Nat
    BY <1>2, <2>1 DEF Splits
  <2>3. split[c] \in Nat
    BY <2>2
  <2> QED
    BY <2>1, <2>3, LeastType, Parameters
<1> QED
  BY <1>1, <1>2

LEMMA BoundsAfter ==
  ASSUME SemInv'
  PROVE  permits' \in 0..MaxPermits /\ queue' \in Seq(Tasks)
<1>1. permits' \in Nat /\ IsFiniteSet(Holders') /\ queue' \in Seq(Tasks)
  BY DEF SemInv, Lists
<1>2. permits' + Cardinality(Holders') = MaxPermits
  BY OnePermit DEF SemInv, PermitsConserved, Limited
<1>3. Cardinality(Holders') \in Nat
  BY <1>1, FS_CardinalityType
<1>4. permits' \in 0..MaxPermits
  BY <1>1, <1>2, <1>3, OnePermit
<1> QED
  BY <1>1, <1>4

LEMMA WantType == GenerateInit => want \in [Tasks -> Nat]
<1> SUFFICES ASSUME GenerateInit PROVE want \in [Tasks -> Nat]
  OBVIOUS
<1>1. budget \in Budgets /\ registered \in Registries
  BY DEF GenerateInit
<1>2. PICK share \in Shares(budget, registered) : \E rules \in RulesOf(share["adversarial"]) :
         want = [t \in Tasks |->
                    CASE t \in Categories -> rules[t]
                      [] t = Objectives -> IF multiturn THEN Chosen(share["objectives"]) ELSE 0
                      [] t = Dataset -> OrDefault(share["dataset"])
                      [] t \in LookingUp -> IF Grounds(t) THEN OrDefault(share[GeneratorOf(t)]) ELSE 0
                      [] t \in Topics ->
                            IF Grounds(t) /\ t - MultiTopic <= OrDefault(share["outOfScope"]) THEN 1 ELSE 0]
  BY DEF GenerateInit
<1>3. PICK rules \in RulesOf(share["adversarial"]) :
         want = [t \in Tasks |->
                    CASE t \in Categories -> rules[t]
                      [] t = Objectives -> IF multiturn THEN Chosen(share["objectives"]) ELSE 0
                      [] t = Dataset -> OrDefault(share["dataset"])
                      [] t \in LookingUp -> IF Grounds(t) THEN OrDefault(share[GeneratorOf(t)]) ELSE 0
                      [] t \in Topics ->
                            IF Grounds(t) /\ t - MultiTopic <= OrDefault(share["outOfScope"]) THEN 1 ELSE 0]
  BY <1>2
<1>4. \A g \in Generators : share[g] \in Nat \cup {NoLimit}
  BY <1>1, ShareTypes
<1>5. \A s \in Nat \cup {NoLimit} : OrDefault(s) \in Nat /\ Chosen(s) \in Nat
  BY LeastType, Parameters DEF OrDefault, Chosen
<1>6. "adversarial" \in Generators /\ "objectives" \in Generators /\ "dataset" \in Generators
  BY DEF Generators, Attacks
<1>7. \A c \in Categories : rules[c] \in Nat
  BY <1>3, <1>4, <1>6, RulesType
<1>8. ASSUME NEW t \in Tasks PROVE want[t] \in Nat
  <2>0. t \in Categories \/ t = Objectives \/ t = Dataset \/ t \in LookingUp \/ t \in Topics
    <3>1. t \in 1..(NumCategories + 4 + NumTopics)
      BY GenerateAssumption
    <3> QED
      BY <3>1, Parameters
      DEF Categories, Objectives, Dataset, Grounded, MultiTopic, LookingUp, Topics
  <2>1. /\ OrDefault(share["dataset"]) \in Nat /\ Chosen(share["objectives"]) \in Nat
        /\ OrDefault(share[GeneratorOf(t)]) \in Nat
    BY <1>4, <1>5, <1>6, UnitsCovered
  <2> HIDE DEF Categories, Objectives, Dataset, LookingUp, Topics, Grounds, OrDefault, Chosen
  <2> QED
    BY <1>3, <1>7, <2>0, <2>1
<1> QED
  BY <1>3, <1>8

LEMMA GenerateFirst == GenerateInit => GenerateInv
<1> SUFFICES ASSUME GenerateInit PROVE GenerateInv
  OBVIOUS
<1>1. pc = [t \in Tasks |-> pc[t]] /\ \A t \in Tasks : pc[t] \in {"created", "done"}
  BY DEF GenerateInit
<1>2. SemInv
  <2>1. SemInit /\ \A t \in Tasks : Outside(pc[t])
    BY <1>1, UnitPositions DEF GenerateInit
  <2> QED
    BY <1>1, <2>1, OnePermit, SemInvInit
<1>3. GenerateTypeOK
  <2>1. pc \in [Tasks -> Stages]
    BY <1>1 DEF Stages, Ended
  <2>2. permits \in 0..MaxPermits /\ queue \in Seq(Tasks)
    BY <1>2, OnePermit DEF GenerateInit, SemInit, SemInv, Lists
  <2>3. documents \in 0..2
    BY DEF GenerateInit
  <2>4. have \in [Tasks -> Nat] /\ tries \in [Tasks -> Nat]
    BY DEF GenerateInit
  <2>5. /\ budget \in Budgets /\ multiturn \in BOOLEAN /\ registered \in Registries
        /\ embedded \in {"missing", "good", "bad"} /\ cancelling = {} /\ stopping = {}
        /\ aborting = FALSE /\ abandoned = FALSE /\ suite = "none"
    BY DEF GenerateInit
  <2> QED
    BY <2>1, <2>2, <2>3, <2>4, <2>5, WantType DEF GenerateTypeOK
<1>4. Asked
  BY <1>1 DEF GenerateInit, Asked
<1>5. Embeds
  BY <1>1 DEF Embeds, At
<1>6. Generated
  BY DEF GenerateInit, Generated
<1> QED
  BY <1>2, <1>3, <1>4, <1>5, <1>6 DEF GenerateInv

-----------------------------------------------------------------------------
(* A unit that was not asked to cancel moves itself, and waiters to a      *)
(* permit.                                                                 *)
Moves(t) ==
    /\ pc' \in [Tasks -> Stages]
    /\ pc[t] \notin Ended /\ pc'[t] # "cancelled"
    /\ \A d \in Tasks \ {t} : pc'[d] = pc[d] \/ (pc[d] = "waiting" /\ pc'[d] = "granted")

Asking == {"created", "proposing", "validating"}

LEMMA StageKinds ==
    /\ \A p \in Asking \cup {"done", "failed"} : p \in Stages /\ Outside(p) /\ p # "cancelled"
    /\ \A p \in Asking \cup {"granted", "running"} : p \in Stages /\ p \notin Ended
    /\ \A p \in Asking \cup {"granted", "running", "done", "failed"} : p # "waiting"
<1>1. \A p \in Asking \cup {"done", "failed"} : Outside(p)
  BY UnitPositions DEF Asking
<1>2. \A p \in Asking \cup {"done", "failed"} : p \in Stages
  BY DEF Stages, Asking, Ended
<1>3. \A p \in Asking \cup {"granted", "running"} : p \in Stages /\ p \notin Ended
  BY DEF Stages, Asking, Ended
<1>4. \A p \in Asking \cup {"granted", "running", "done", "failed"} : p # "waiting"
  BY DEF Asking
<1>5. \A p \in Asking \cup {"done", "failed"} : p # "cancelled"
  BY DEF Asking
<1> QED
  BY <1>1, <1>2, <1>3, <1>4, <1>5

LEMMA GotoMoves ==
  ASSUME SemInv, pc \in [Tasks -> Stages], NEW t \in Tasks, pc[t] \in Asking,
         NEW p \in Asking \cup {"done", "failed"}, Goto(t, p)
  PROVE  SemInv' /\ Moves(t) /\ At("running")' \subseteq At("running")
<1>1. pc' = [pc EXCEPT ![t] = p] /\ UNCHANGED <<permits, queue>>
  BY DEF Goto
<1>2. SemInv'
  BY <1>1, StageKinds, MoveSemInv
<1>3. pc' \in [Tasks -> Stages]
  BY <1>1, StageKinds
<1>4. pc[t] \notin Ended /\ pc'[t] # "cancelled"
  BY <1>1, StageKinds
<1>5. p # "running"
  BY DEF Asking
<1> QED
  BY <1>1, <1>2, <1>3, <1>4, <1>5 DEF Moves, At

LEMMA LeaveMoves ==
  ASSUME SemInv, pc \in [Tasks -> Stages], NEW t \in Tasks, pc[t] \in {"granted", "running"},
         NEW p \in {"proposing", "done", "failed"}, Release(t, p)
  PROVE  SemInv' /\ Moves(t) /\ At("running")' = {}
<1>1. p \in Asking \cup {"done", "failed"} /\ p # "running"
  BY DEF Asking
<1>2. Outside(p) /\ p \in Stages /\ p # "cancelled" /\ p # "waiting"
  BY <1>1, StageKinds
<1>3. t \in Holders
  BY DEF Holders, Holding
<1>4. Holders = {t} /\ permits = 0
  BY <1>3, SoleHolder
<1>5. SemInv'
  <2>1. CASE pc[t] = "granted"
    <3>1. Withdraw(t, p)
      BY <1>4, <2>1, OnePermit DEF Release, Withdraw
    <3> QED
      BY <1>2, <3>1, WithdrawSemInv
  <2>2. CASE pc[t] = "running"
    BY <1>2, <2>2, UnitPositions, ReleaseSemInv
  <2> QED
    BY <2>1, <2>2
<1>6. \A d \in Tasks : \/ pc'[d] = IF d = t THEN p ELSE pc[d]
                       \/ pc'[d] = "granted" /\ pc[d] = "waiting" /\ d # t
  BY <1>2, SemGrants
<1>7. pc' = [d \in Tasks |-> pc'[d]]
  BY <1>5 DEF SemInv, Lists
<1>8. "granted" \in Stages /\ pc[t] \notin Ended
  BY StageKinds
<1>9. \A d \in Tasks : d # t => pc[d] # "running"
  BY <1>4 DEF Holders, Holding
<1>10. pc' \in [Tasks -> Stages]
  BY <1>2, <1>6, <1>7, <1>8
<1> QED
  BY <1>1, <1>2, <1>5, <1>6, <1>8, <1>9, <1>10 DEF Moves, At

LEMMA ResumeMoves ==
  ASSUME SemInv, pc \in [Tasks -> Stages], NEW t \in Tasks, Resume(t, "running")
  PROVE  SemInv' /\ Moves(t)
<1>1. pc[t] = "granted"
  BY DEF Resume
<1>2. SemInv'
  BY UnitPositions, ResumeSemInv
<1>3. \A d \in Tasks : \/ pc'[d] = IF d = t THEN "running" ELSE pc[d]
                       \/ pc'[d] = "granted" /\ pc[d] = "waiting" /\ d # t
  BY SemGrants
<1>4. pc' = [d \in Tasks |-> pc'[d]]
  BY <1>2 DEF SemInv, Lists
<1>5. "granted" \in Stages /\ "running" \in Stages /\ pc[t] \notin Ended
  BY <1>1, StageKinds
<1>6. pc' \in [Tasks -> Stages]
  BY <1>3, <1>4, <1>5
<1> QED
  BY <1>2, <1>3, <1>5, <1>6 DEF Moves

LEMMA EntryMoves ==
  ASSUME SemInv, pc \in [Tasks -> Stages], NEW t \in Tasks, pc[t] = "created",
         Acquire(t, "running") \/ Enqueue(t)
  PROVE  SemInv' /\ Moves(t)
<1>1. pc[t] \in Asking
  BY DEF Asking
<1>2. Outside(pc[t]) /\ pc[t] \notin Ended
  BY <1>1, StageKinds
<1>3. SemInv'
  BY <1>2, UnitPositions, AcquireSemInv, EnqueueSemInv
<1>4. PICK p \in {"running", "waiting"} : pc' = [pc EXCEPT ![t] = p]
  BY DEF Acquire, Enqueue
<1>5. "running" \in Stages /\ "waiting" \in Stages
  BY DEF Stages
<1>6. pc' \in [Tasks -> Stages]
  BY <1>4, <1>5
<1> QED
  BY <1>2, <1>3, <1>4, <1>6 DEF Moves

(* What a step of a unit leaves: its own move, and types.                  *)
Steps(t) ==
    /\ SemInv' /\ Moves(t) /\ Embeds'
    /\ have' \in [Tasks -> Nat] /\ tries' \in [Tasks -> Nat]
    /\ embedded' \in {"missing", "good", "bad"}

LEMMA CountsKept ==
  ASSUME GenerateTypeOK, NEW t \in Tasks
  PROVE  /\ Tried(t) => tries' \in [Tasks -> Nat]
         /\ \A n \in Nat : Made(t, n) => have' \in [Tasks -> Nat]
         /\ \A v : LookedUp(t, v) => have' \in [Tasks -> Nat]
<1>1. have \in [Tasks -> Nat] /\ tries \in [Tasks -> Nat] /\ want[t] \in Nat
  BY DEF GenerateTypeOK
<1>2. ASSUME Tried(t) PROVE tries' \in [Tasks -> Nat]
  <2>1. tries[t] + 1 \in Nat
    BY <1>1
  <2> QED
    BY <1>1, <1>2, <2>1 DEF Tried
<1>3. ASSUME NEW n \in Nat, Made(t, n) PROVE have' \in [Tasks -> Nat]
  BY <1>1, <1>3 DEF Made
<1>4. ASSUME NEW v, LookedUp(t, v) PROVE have' \in [Tasks -> Nat]
  BY <1>1, <1>4 DEF LookedUp
<1> QED
  BY <1>2, <1>3, <1>4

(* Away from the lock, and without new vectors.                            *)
LEMMA GotoSteps ==
  ASSUME GenerateTypeOK, SemInv, Embeds, NEW t \in Tasks, pc[t] \in Asking,
         NEW p \in Asking \cup {"done", "failed"}, Goto(t, p), embedded' = embedded,
         have' \in [Tasks -> Nat], tries' \in [Tasks -> Nat]
  PROVE  Steps(t)
<1>1. SemInv' /\ Moves(t) /\ At("running")' \subseteq At("running")
  BY GotoMoves DEF GenerateTypeOK
<1> QED
  BY <1>1 DEF Steps, Embeds, GenerateTypeOK

LEMMA SelectSteps ==
  ASSUME GenerateTypeOK, SemInv, Embeds, NEW t \in Tasks, SelectObjectives(t)
  PROVE  Steps(t)
<1>1. want[t] \in Nat /\ tries' \in [Tasks -> Nat]
  BY DEF GenerateTypeOK, SelectObjectives
<1>2. have' \in [Tasks -> Nat]
  BY <1>1, CountsKept DEF SelectObjectives
<1> QED
  BY <1>1, <1>2, GotoSteps DEF SelectObjectives, Asking

LEMMA LoadSteps ==
  ASSUME GenerateTypeOK, SemInv, Embeds, NEW t \in Tasks, LoadDataset(t)
  PROVE  Steps(t)
<1>1. want[t] \in Nat /\ tries' \in [Tasks -> Nat] /\ have \in [Tasks -> Nat]
  BY DEF GenerateTypeOK, LoadDataset
<1>2. have' \in [Tasks -> Nat]
  <2>1. CASE \E size \in SizesLoaded : Made(t, Least(size, want[t]))
    <3>1. PICK size \in Nat : Made(t, Least(size, want[t]))
      BY <2>1, Parameters DEF SizesLoaded
    <3> QED
      BY <1>1, <3>1, LeastType, CountsKept
  <2>2. CASE have' = have
    BY <1>1, <2>2
  <2> QED
    BY <2>1, <2>2 DEF LoadDataset
<1>3. PICK p \in {"done", "failed"} : Goto(t, p)
  BY DEF LoadDataset
<1> QED
  BY <1>1, <1>2, <1>3, GotoSteps DEF LoadDataset, Asking

LEMMA RulesSteps ==
  ASSUME GenerateTypeOK, SemInv, Embeds, NEW t \in Tasks, GenerateRules(t)
  PROVE  Steps(t)
<1>1. want[t] \in Nat /\ have[t] \in Nat /\ have \in [Tasks -> Nat] /\ tries' \in [Tasks -> Nat]
  BY CountsKept DEF GenerateTypeOK, GenerateRules
<1>2. have' \in [Tasks -> Nat] /\ \E p \in {"created", "done", "failed"} : Goto(t, p)
  <2>1. ASSUME NEW n \in 1..MaxReply,
               IF have[t] + n >= want[t] \/ tries[t] + 1 = Rounds
               THEN Goto(t, "done") /\ Made(t, Least(have[t] + n, want[t]))
               ELSE Goto(t, "created") /\ Made(t, have[t] + n)
        PROVE  have' \in [Tasks -> Nat] /\ \E p \in {"created", "done", "failed"} : Goto(t, p)
    <3>1. have[t] + n \in Nat
      BY <1>1, Parameters
    <3>2. Least(have[t] + n, want[t]) \in Nat
      BY <1>1, <3>1, LeastType
    <3>3. \E m \in Nat : Made(t, m)
      BY <2>1, <3>1, <3>2
    <3>4. \E p \in {"created", "done", "failed"} : Goto(t, p)
      BY <2>1
    <3> QED
      BY <3>3, <3>4, CountsKept
  <2>2. CASE Goto(t, "failed") /\ UNCHANGED have
    BY <1>1, <2>2
  <2> QED
    BY <2>1, <2>2 DEF GenerateRules
<1>3. PICK p \in {"created", "done", "failed"} : Goto(t, p)
  BY <1>2
<1> QED
  BY <1>1, <1>2, <1>3, GotoSteps DEF GenerateRules, Asking

LEMMA AfterKinds ==
  \A t, v : After(t, v) \in {"proposing", "done", "failed"}
BY DEF After

LEMMA LookUpSteps ==
  ASSUME GenerateTypeOK, SemInv, Embeds, NEW t \in Tasks, LookUp(t)
  PROVE  Steps(t)
<1>1. /\ pc[t] = "created" /\ embedded' = embedded /\ tries' \in [Tasks -> Nat]
      /\ embedded \in {"missing", "good", "bad"} /\ have \in [Tasks -> Nat] /\ pc \in [Tasks -> Stages]
  BY DEF LookUp, GenerateTypeOK
<1>2. CASE Goto(t, After(t, embedded)) /\ LookedUp(t, embedded)
  <2>1. have' \in [Tasks -> Nat]
    BY <1>2, CountsKept
  <2>2. After(t, embedded) \in Asking \cup {"done", "failed"} /\ pc[t] \in Asking
    BY <1>1, AfterKinds DEF Asking
  <2> QED
    BY <1>1, <1>2, <2>1, <2>2, GotoSteps
<1>3. CASE embedded = "missing" /\ (Acquire(t, "running") \/ Enqueue(t)) /\ UNCHANGED have
  <2>1. SemInv' /\ Moves(t)
    BY <1>1, <1>3, EntryMoves
  <2> QED
    BY <1>1, <1>3, <2>1 DEF Steps, Embeds
<1> QED
  BY <1>2, <1>3 DEF LookUp

LEMMA EnterSteps ==
  ASSUME GenerateTypeOK, SemInv, Embeds, NEW t \in Tasks, Enter(t)
  PROVE  Steps(t)
<1>1. /\ pc[t] = "granted" /\ embedded' = embedded /\ tries' \in [Tasks -> Nat]
      /\ embedded \in {"missing", "good", "bad"} /\ have \in [Tasks -> Nat] /\ pc \in [Tasks -> Stages]
  BY DEF Enter, GenerateTypeOK
<1>2. CASE Release(t, After(t, embedded)) /\ LookedUp(t, embedded)
  <2>1. have' \in [Tasks -> Nat]
    BY <1>2, CountsKept
  <2>2. SemInv' /\ Moves(t) /\ At("running")' = {}
    BY <1>1, <1>2, AfterKinds, LeaveMoves
  <2> QED
    BY <1>1, <2>1, <2>2 DEF Steps, Embeds
<1>3. CASE embedded = "missing" /\ Resume(t, "running") /\ UNCHANGED have
  <2>1. SemInv' /\ Moves(t)
    BY <1>1, <1>3, ResumeMoves
  <2> QED
    BY <1>1, <1>3, <2>1 DEF Steps, Embeds
<1> QED
  BY <1>2, <1>3 DEF Enter

LEMMA EmbedSteps ==
  ASSUME GenerateTypeOK, SemInv, Embeds, NEW t \in Tasks, Embed(t)
  PROVE  Steps(t)
<1>1. /\ pc[t] = "running" /\ tries' \in [Tasks -> Nat]
      /\ embedded \in {"missing", "good", "bad"} /\ have \in [Tasks -> Nat] /\ pc \in [Tasks -> Stages]
  BY DEF Embed, GenerateTypeOK
<1>2. /\ \E p \in {"proposing", "done", "failed"} : Release(t, p)
      /\ have' \in [Tasks -> Nat] /\ embedded' \in {"missing", "good", "bad"}
  BY <1>1, AfterKinds, CountsKept DEF Embed
<1>3. PICK p \in {"proposing", "done", "failed"} : Release(t, p)
  BY <1>2
<1>4. SemInv' /\ Moves(t) /\ At("running")' = {}
  BY <1>1, <1>3, LeaveMoves
<1> QED
  BY <1>1, <1>2, <1>4 DEF Steps, Embeds

LEMMA TopicSteps ==
  ASSUME GenerateTypeOK, SemInv, Embeds, NEW t \in Tasks, Propose(t) \/ Validate(t)
  PROVE  Steps(t)
<1>1. /\ pc[t] \in Asking /\ embedded' = embedded
      /\ have \in [Tasks -> Nat] /\ tries \in [Tasks -> Nat]
  BY DEF Propose, Validate, GenerateTypeOK, Asking
<1>2. have' \in [Tasks -> Nat] /\ tries' \in [Tasks -> Nat]
  BY <1>1, CountsKept DEF Propose, Validate, NextAttempt
<1>3. PICK p \in {"validating", "proposing", "done", "failed"} : Goto(t, p)
  BY DEF Propose, Validate, NextAttempt
<1> QED
  BY <1>1, <1>2, <1>3, GotoSteps DEF Asking

LEMMA UnitSteps ==
  ASSUME GenerateInv, NEW t \in Tasks, Unit(t)
  PROVE  Steps(t) /\ GeneratorOf(t) \notin stopping /\ UNCHANGED <<request, group, suite>>
BY SelectSteps, LoadSteps, RulesSteps, LookUpSteps, EnterSteps, EmbedSteps, TopicSteps
DEF GenerateInv, Unit

(* So failures stay, and so do those who were asked to cancel.             *)
LEMMA UnitKeeps ==
  ASSUME GenerateInv, suite = "none", NEW t \in Tasks, Unit(t)
  PROVE  GenerateInv'
<1>1. Steps(t) /\ GeneratorOf(t) \notin stopping /\ UNCHANGED <<request, group, suite>>
  BY UnitSteps
<1>2. SemInv' /\ Moves(t) /\ Embeds' /\ GenerateTypeOK /\ Asked
  BY <1>1 DEF Steps, GenerateInv
<1>3. GenerateTypeOK'
  <2>1. permits' \in 0..MaxPermits /\ queue' \in Seq(Tasks)
    BY <1>2, BoundsAfter
  <2> QED
    BY <1>1, <1>2, <2>1 DEF GenerateTypeOK, Steps, Moves, request, group
<1>4. Asked'
  <2>1. ASSUME NEW d \in cancelling PROVE pc'[d] \in Holding
    <3>1. pc[d] \in Holding /\ d # t /\ d \in Tasks
      BY <1>1, <1>2, <2>1 DEF Asked, GenerateTypeOK
    <3> QED
      BY <1>2, <3>1 DEF Moves, Holding
  <2>2. ASSUME NEW d \in Tasks, pc'[d] = "cancelled" PROVE GeneratorOf(d) \in stopping
    BY <1>2, <2>2 DEF Moves, Asked
  <2>3. ASSUME NEW d \in Tasks, pc[d] = "failed" PROVE pc'[d] = "failed"
    BY <1>2, <2>3 DEF Moves, Ended
  <2>4. UNCHANGED <<cancelling, stopping, aborting, abandoned>>
    BY <1>1 DEF group
  <2> QED
    BY <1>2, <2>1, <2>2, <2>3, <2>4 DEF Asked
<1>5. Generated'
  BY <1>1 DEF Generated
<1> QED
  BY <1>2, <1>3, <1>4, <1>5 DEF GenerateInv

-----------------------------------------------------------------------------
(* Requests to cancel.                                                     *)
LEMMA RemainingLists ==
  ASSUME Lists(queue, pc), NEW S, NEW f, f = [c \in Tasks |-> f[c]],
         \A c \in Tasks : f[c] = "waiting" <=> pc[c] = "waiting" /\ c \notin S
  PROVE  Lists(Remaining(S), f)
<1> DEFINE n == Len(queue)
           left == {i \in DOMAIN queue : queue[i] \notin S}
           c == Cardinality(left)
           rank(i) == Cardinality({j \in left : j <= i})
           at(k) == CHOOSE i \in left : rank(i) = k
           rest == Remaining(S)
<1>1. n \in Nat /\ DOMAIN queue = 1..n /\ queue \in [1..n -> Tasks]
  BY LenProperties DEF Lists
<1>2. left \in SUBSET (1..n)
  BY <1>1
<1>3. rest = [k \in 1..c |-> queue[at(k)]]
  BY DEF Remaining
<1>4. /\ c \in Nat
      /\ \A i \in left : rank(i) \in 1..c
      /\ \A i, j \in left : rank(i) = rank(j) => i = j
      /\ \A k \in 1..c : \E i \in left : rank(i) = k
  <2> HIDE DEF left, n
  <2> QED
    BY <1>1, <1>2, PlacesInOrder
<1> HIDE DEF rank, c, rest
<1>5. \A k \in 1..c : at(k) \in left /\ rank(at(k)) = k
  BY <1>4
<1>6. \A i \in left : at(rank(i)) = i
  BY <1>4, <1>5
<1> HIDE DEF at
<1>7. rest \in [1..c -> Tasks]
  BY <1>1, <1>2, <1>3, <1>5
<1>8. rest \in Seq(Tasks) /\ Len(rest) = c
  BY <1>4, <1>7
<1>9. ASSUME NEW k \in 1..Len(rest) PROVE f[rest[k]] = "waiting"
  <2>1. at(k) \in left /\ rest[k] = queue[at(k)]
    BY <1>3, <1>5, <1>8
  <2>2. at(k) \in 1..n /\ queue[at(k)] \in Tasks /\ queue[at(k)] \notin S
    BY <1>1, <2>1
  <2> QED
    BY <2>1, <2>2 DEF Lists
<1>10. ASSUME NEW d \in Tasks, f[d] = "waiting" PROVE \E k \in 1..Len(rest) : rest[k] = d
  <2>1. PICK i \in 1..n : queue[i] = d
    BY <1>10 DEF Lists
  <2>2. i \in left
    BY <1>1, <1>10, <2>1
  <2>3. rank(i) \in 1..Len(rest) /\ rest[rank(i)] = d
    BY <1>3, <1>4, <1>6, <1>8, <2>1, <2>2
  <2> QED
    BY <2>3
<1>11. ASSUME NEW k \in 1..Len(rest), NEW l \in 1..Len(rest), rest[k] = rest[l] PROVE k = l
  <2>1. queue[at(k)] = queue[at(l)] /\ at(k) \in 1..n /\ at(l) \in 1..n
    BY <1>2, <1>3, <1>5, <1>8, <1>11
  <2>2. at(k) = at(l)
    BY <2>1 DEF Lists
  <2> QED
    BY <1>5, <1>8, <2>2
<1>12. Lists(rest, f)
  BY <1>8, <1>9, <1>10, <1>11 DEF Lists
<1> QED
  BY <1>12 DEF rest

(* Who is asked to cancel, by the definition of CancelUnits.               *)
AskedOf(G) == {t \in Tasks : GeneratorOf(t) \in G /\ pc[t] \notin Ended}

LEMMA CancelUnitsIs ==
  ASSUME NEW G, CancelUnits(G)
  PROVE  /\ cancelling' = cancelling \cup {t \in AskedOf(G) : pc[t] \in Holding}
         /\ pc' = [t \in Tasks |-> IF t \in AskedOf(G) \ cancelling' THEN "cancelled" ELSE pc[t]]
         /\ queue' = Remaining(AskedOf(G))
         /\ stopping' = stopping \cup G
         /\ permits' = permits
BY DEF CancelUnits, AskedOf

LEMMA CancelMoves ==
  ASSUME GenerateInv, NEW G, CancelUnits(G), NEW d \in Tasks
  PROVE  \/ pc'[d] = pc[d] /\ (pc[d] \in Holding \cup Ended \/ GeneratorOf(d) \notin G)
         \/ pc'[d] = "cancelled" /\ pc[d] \notin Holding \cup Ended /\ GeneratorOf(d) \in G
<1>1. /\ pc'[d] = IF d \in AskedOf(G) \ cancelling' THEN "cancelled" ELSE pc[d]
      /\ cancelling' = cancelling \cup {t \in AskedOf(G) : pc[t] \in Holding}
  BY CancelUnitsIs
<1>2. d \in cancelling => pc[d] \in Holding
  BY DEF GenerateInv, Asked
<1>3. d \in AskedOf(G) <=> GeneratorOf(d) \in G /\ pc[d] \notin Ended
  BY DEF AskedOf
<1>4. d \in AskedOf(G) => (d \in cancelling' <=> pc[d] \in Holding)
  BY <1>1, <1>2
<1>5. pc[d] \in Holding => pc[d] \notin Ended
  BY DEF Holding, Ended
<1> QED
  BY <1>1, <1>3, <1>4, <1>5

LEMMA CancelSemInv ==
  ASSUME GenerateInv, NEW G, CancelUnits(G)
  PROVE  SemInv' /\ pc' \in [Tasks -> Stages]
<1>1. SemInv /\ pc \in [Tasks -> Stages]
  BY DEF GenerateInv, GenerateTypeOK
<1>2. /\ pc' = [t \in Tasks |-> pc'[t]] /\ queue' = Remaining(AskedOf(G)) /\ permits' = permits
  BY CancelUnitsIs
<1>3. "cancelled" \in Stages /\ "cancelled" \notin Holding
  BY DEF Stages, Ended, Holding
<1>4. \A d \in Tasks : pc'[d] = pc[d] \/ pc'[d] = "cancelled"
  BY CancelMoves
<1>5. pc' \in [Tasks -> Stages]
  BY <1>1, <1>2, <1>3, <1>4
<1>6. \A d \in Tasks : pc'[d] \in Holding <=> pc[d] \in Holding
  BY <1>3, CancelMoves
<1>7. Holders' = Holders
  BY <1>6 DEF Holders
<1>8. \A d \in Tasks : pc'[d] = "granted" <=> pc[d] = "granted"
  BY CancelMoves DEF Holding
<1>9. \A d \in Tasks : pc'[d] = "waiting" <=> pc[d] = "waiting" /\ d \notin AskedOf(G)
  <2>1. \A d \in Tasks : pc[d] = "waiting" => pc[d] \notin Holding \cup Ended
    BY DEF Holding, Ended
  <2>2. \A d \in Tasks : d \in AskedOf(G) <=> GeneratorOf(d) \in G /\ pc[d] \notin Ended
    BY DEF AskedOf
  <2> QED
    BY <2>1, <2>2, CancelMoves
<1>10. Lists(Remaining(AskedOf(G)), pc')
  <2>1. Lists(queue, pc)
    BY <1>1 DEF SemInv
  <2> QED
    BY <1>2, <1>9, <2>1, RemainingLists
<1>11. Lists(queue, pc)'
  BY <1>2, <1>10 DEF Lists
<1>12. queue' # <<>> => queue # <<>>
  <2> SUFFICES ASSUME queue = <<>> PROVE queue' = <<>>
    OBVIOUS
  <2>1. Len(queue) = 0 /\ 1..0 = {}
    OBVIOUS
  <2>2. \A d \in Tasks : pc[d] # "waiting"
    BY <1>1, <2>1 DEF SemInv, Lists
  <2>3. \A d \in Tasks : pc'[d] # "waiting"
    BY <1>9, <2>2
  <2>4. queue' \in Seq(Tasks) /\ \A i \in 1..Len(queue') : pc'[queue'[i]] = "waiting"
    BY <1>2, <1>10 DEF Lists
  <2>5. \A i \in 1..Len(queue') : queue'[i] \in Tasks
    BY <2>4, ElementOfSeq
  <2>6. Len(queue') \in Nat /\ ~(1 \in 1..Len(queue'))
    BY <2>3, <2>4, <2>5, LenProperties
  <2> QED
    BY <2>4, <2>6, EmptySeq
<1>13. NoLostWakeup'
  BY <1>1, <1>2, <1>8, <1>12 DEF SemInv, NoLostWakeup, At
<1>14. PermitsConserved'
  BY <1>1, <1>2, <1>7 DEF SemInv, PermitsConserved, Limited
<1> QED
  BY <1>1, <1>2, <1>5, <1>7, <1>11, <1>13, <1>14 DEF SemInv

LEMMA CancelKeeps ==
  ASSUME GenerateInv, suite = "none", NEW G \in SUBSET Generators, CancelUnits(G),
         abandoned \/ \E t \in Tasks : pc[t] = "failed",
         UNCHANGED <<request, have, tries, embedded, abandoned, suite>>,
         aborting' \in BOOLEAN
  PROVE  GenerateInv'
<1>1. SemInv' /\ pc' \in [Tasks -> Stages]
  BY CancelSemInv
<1>2. permits' \in 0..MaxPermits /\ queue' \in Seq(Tasks)
  BY <1>1, BoundsAfter
<1>3. /\ cancelling' = cancelling \cup {t \in AskedOf(G) : pc[t] \in Holding}
      /\ stopping' = stopping \cup G
  BY CancelUnitsIs
<1>4. GenerateTypeOK
  BY DEF GenerateInv
<1>5. cancelling' \subseteq Tasks /\ stopping' \subseteq Generators
  BY <1>3, <1>4 DEF GenerateTypeOK, AskedOf
<1>6. GenerateTypeOK'
  BY <1>1, <1>2, <1>4, <1>5 DEF GenerateTypeOK, request
<1>7. Asked'
  <2>1. ASSUME NEW d \in cancelling' PROVE pc'[d] \in Holding /\ GeneratorOf(d) \in stopping'
    <3>1. d \in Tasks /\ pc[d] \in Holding /\ GeneratorOf(d) \in stopping'
      BY <1>3, <1>5, <2>1 DEF GenerateInv, Asked, AskedOf
    <3> QED
      BY <3>1, CancelMoves
  <2>2. ASSUME NEW d \in Tasks, pc'[d] = "cancelled" PROVE GeneratorOf(d) \in stopping'
    BY <1>3, <2>2, CancelMoves DEF GenerateInv, Asked
  <2>3. ASSUME NEW d \in Tasks, pc[d] = "failed" PROVE pc'[d] = "failed"
    BY <2>3, CancelMoves DEF Ended
  <2> QED
    BY <2>1, <2>2, <2>3 DEF Asked
<1>8. Embeds'
  <2>1. \A d \in Tasks : pc'[d] = "running" => pc[d] = "running"
    BY CancelMoves
  <2> QED
    BY <2>1 DEF GenerateInv, Embeds, At
<1>9. Generated'
  BY DEF Generated
<1> QED
  BY <1>1, <1>6, <1>7, <1>8, <1>9 DEF GenerateInv

LEMMA GiveBackKeeps ==
  ASSUME GenerateInv, suite = "none", NEW t \in Tasks, GiveBack(t)
  PROVE  GenerateInv'
<1>1. /\ t \in cancelling /\ pc[t] \in Holding /\ GeneratorOf(t) \in stopping
      /\ cancelling' = cancelling \ {t}
      /\ UNCHANGED <<request, have, tries, embedded, stopping, aborting, abandoned, suite>>
  BY DEF GiveBack, GenerateInv, Asked
<1>2. SemInv /\ GenerateTypeOK /\ pc \in [Tasks -> Stages] /\ Outside("cancelled")
  BY UnitPositions DEF GenerateInv, GenerateTypeOK
<1>3. pc[t] \in {"granted", "running"} /\ pc[t] # "waiting"
  BY <1>1, <1>2, UnitPositions
<1>4. Withdraw(t, "cancelled") \/ (Release(t, "cancelled") /\ pc[t] = "running")
  BY <1>1, <1>3 DEF GiveBack
<1>5. SemInv'
  BY <1>2, <1>4, UnitPositions, WithdrawSemInv, ReleaseSemInv
<1>6. \A d \in Tasks : \/ pc'[d] = IF d = t THEN "cancelled" ELSE pc[d]
                       \/ pc'[d] = "granted" /\ pc[d] = "waiting" /\ d # t
  <2>1. Withdraw(t, "cancelled") \/ (Release(t, "cancelled") /\ pc[t] # "waiting")
    BY <1>4
  <2> QED
    BY <1>2, <2>1, SemGrants
<1>7. pc' = [d \in Tasks |-> pc'[d]]
  BY <1>5 DEF SemInv, Lists
<1>8. "granted" \in Stages /\ "cancelled" \in Stages
  BY DEF Stages, Ended
<1>9. pc' \in [Tasks -> Stages]
  BY <1>2, <1>6, <1>7, <1>8
<1>10. permits' \in 0..MaxPermits /\ queue' \in Seq(Tasks)
  BY <1>5, BoundsAfter
<1>11. GenerateTypeOK'
  BY <1>1, <1>2, <1>9, <1>10 DEF GenerateTypeOK, request
<1>12. Asked'
  <2>1. ASSUME NEW d \in cancelling' PROVE pc'[d] \in Holding /\ GeneratorOf(d) \in stopping'
    <3>1. d \in Tasks /\ d # t /\ pc[d] \in Holding /\ GeneratorOf(d) \in stopping'
      BY <1>1, <1>2, <2>1 DEF GenerateInv, GenerateTypeOK, Asked
    <3> QED
      BY <1>6, <3>1 DEF Holding
  <2>2. ASSUME NEW d \in Tasks, pc'[d] = "cancelled" PROVE GeneratorOf(d) \in stopping'
    BY <1>1, <1>6, <2>2 DEF GenerateInv, Asked
  <2>3. ASSUME NEW d \in Tasks, pc[d] = "failed" PROVE pc'[d] = "failed"
    BY <1>3, <1>6, <2>3
  <2>4. stopping' = stopping /\ aborting' = aborting /\ abandoned' = abandoned
    BY <1>1
  <2>5. stopping # {} \/ aborting => abandoned \/ \E d \in Tasks : pc[d] = "failed"
    BY DEF GenerateInv, Asked
  <2> QED
    BY <2>1, <2>2, <2>3, <2>4, <2>5 DEF Asked
<1>13. Embeds'
  <2>1. \A d \in Tasks : pc'[d] = "running" => pc[d] = "running"
    BY <1>6
  <2> QED
    BY <1>1, <2>1 DEF GenerateInv, Embeds, At
<1>14. Generated'
  BY <1>1 DEF Generated
<1> QED
  BY <1>5, <1>11, <1>12, <1>13, <1>14 DEF GenerateInv

(* The groups forget nobody: what no unit failed in, and nobody cancelled, *)
(* is done.                                                                *)
LEMMA ConcludeKeeps ==
  ASSUME GenerateInv, suite = "none", Conclude
  PROVE  GenerateInv'
<1>1. /\ UNCHANGED <<pc, permits, queue, request, have, tries, embedded, group>>
      /\ suite' = IF Broken # {} THEN "raised" ELSE IF abandoned THEN "cancelled" ELSE "given"
  BY DEF Conclude
<1>2. GenerateTypeOK /\ SemInv /\ Asked /\ Embeds
  BY DEF GenerateInv
<1>3. GenerateTypeOK'
  BY <1>1, <1>2 DEF GenerateTypeOK, request, group
<1>4. SemInv'
  BY <1>1, <1>2, SemInvStutter
<1>5. Asked'
  BY <1>1, <1>2 DEF Asked, group
<1>6. Embeds'
  BY <1>1, <1>2 DEF Embeds, At
<1>7. ASSUME NEW t \in Tasks PROVE pc[t] \in Ended /\ (pc[t] = "failed" => GeneratorOf(t) \in Broken)
  <2>1. GeneratorOf(t) \in Generators /\ Over(GeneratorOf(t)) /\ t \in Units(GeneratorOf(t))
    BY UnitsCovered DEF Conclude, AllOver, Units
  <2> QED
    BY <2>1 DEF Over, Broken
<1>8. Broken # {} => \E t \in Tasks : pc[t] = "failed"
  BY DEF Broken, Units
<1>9. ASSUME Broken = {}, ~abandoned, NEW t \in Tasks PROVE pc[t] = "done"
  <2>1. \A d \in Tasks : pc[d] # "failed"
    BY <1>7, <1>9
  <2>2. stopping = {}
    BY <1>2, <1>9, <2>1 DEF Asked
  <2>3. pc[t] # "cancelled"
    BY <1>2, <2>2 DEF Asked
  <2> QED
    BY <1>7, <2>1, <2>3 DEF Ended
<1>10. Generated'
  <2>1. abandoned' = abandoned /\ pc' = pc
    BY <1>1 DEF group
  <2> QED
    BY <1>1, <1>7, <1>8, <1>9, <2>1 DEF Generated
<1> QED
  BY <1>3, <1>4, <1>5, <1>6, <1>10 DEF GenerateInv

LEMMA GenerateKeeps ==
  ASSUME GenerateInv, suite = "none", Generate
  PROVE  GenerateInv'
<1>1. ASSUME NEW t \in Tasks, Unit(t) \/ GiveBack(t) PROVE GenerateInv'
  BY <1>1, UnitKeeps, GiveBackKeeps
<1>2. ASSUME NEW g \in Generators, AbortInner(g) PROVE GenerateInv'
  <2>1. \E t \in Tasks : pc[t] = "failed"
    BY <1>2 DEF AbortInner, Units
  <2>2. {g} \in SUBSET Generators /\ CancelUnits({g})
        /\ UNCHANGED <<request, have, tries, embedded, aborting, abandoned, suite>>
    BY <1>2 DEF AbortInner
  <2>3. aborting' \in BOOLEAN
    BY <2>2 DEF GenerateInv, GenerateTypeOK
  <2> QED
    BY <2>1, <2>2, <2>3, CancelKeeps
<1>3. ASSUME NEW g \in Generators, Stop(g) PROVE GenerateInv'
  <2>1. abandoned \/ \E t \in Tasks : pc[t] = "failed"
    BY <1>3 DEF Stop, GenerateInv, Asked
  <2>2. {g} \in SUBSET Generators /\ CancelUnits({g})
        /\ UNCHANGED <<request, have, tries, embedded, aborting, abandoned, suite>>
    BY <1>3 DEF Stop
  <2>3. aborting' \in BOOLEAN
    BY <2>2 DEF GenerateInv, GenerateTypeOK
  <2> QED
    BY <2>1, <2>2, <2>3, CancelKeeps
<1>4. ASSUME Abort PROVE GenerateInv'
  <2>1. abandoned \/ \E t \in Tasks : pc[t] = "failed"
    BY <1>4 DEF Abort, Broken, Units
  <2>2. Alone \in SUBSET Generators /\ CancelUnits(Alone) /\ aborting' \in BOOLEAN
        /\ UNCHANGED <<request, have, tries, embedded, abandoned, suite>>
    BY <1>4 DEF Abort, Alone
  <2> QED
    BY <2>1, <2>2, CancelKeeps
<1> QED
  BY <1>1, <1>2, <1>3, <1>4, ConcludeKeeps DEF Generate

-----------------------------------------------------------------------------
(* The scan around it.                                                     *)
LEMMA ScanFirst == Init => ScanInv
<1> SUFFICES ASSUME Init PROVE ScanInv
  OBVIOUS
<1>1. GenerateInv /\ suite = "none"
  BY GenerateFirst DEF Init, GenerateInit
<1> QED
  BY <1>1 DEF Init, ScanInv, Stated, ScanTellsAll

LEMMA GenerateStutter ==
  ASSUME GenerateInv, UNCHANGED generation
  PROVE  GenerateInv'
<1>1. /\ UNCHANGED <<pc, permits, queue>> /\ UNCHANGED <<request, have, tries, embedded, group, suite>>
  BY DEF generation
<1>2. SemInv'
  BY <1>1, SemInvStutter DEF GenerateInv
<1>3. GenerateTypeOK'
  BY <1>1 DEF GenerateInv, GenerateTypeOK, request, group
<1>4. Asked' /\ Embeds' /\ Generated'
  BY <1>1 DEF GenerateInv, Asked, Embeds, Generated, At, group
<1> QED
  BY <1>2, <1>3, <1>4 DEF GenerateInv

LEMMA AbandonKeeps ==
  ASSUME GenerateInv, Abandon
  PROVE  GenerateInv'
<1>1. /\ UNCHANGED <<pc, permits, queue>> /\ abandoned' = TRUE
      /\ UNCHANGED <<request, have, tries, embedded, cancelling, stopping, aborting, suite>>
  BY DEF Abandon
<1>2. SemInv'
  BY <1>1, SemInvStutter DEF GenerateInv
<1>3. GenerateTypeOK'
  BY <1>1 DEF GenerateInv, GenerateTypeOK, request
<1>4. Asked' /\ Embeds' /\ Generated'
  BY <1>1 DEF GenerateInv, Asked, Embeds, Generated, At
<1> QED
  BY <1>2, <1>3, <1>4 DEF GenerateInv

LEMMA GeneratingKeeps ==
  ASSUME ScanInv, Generating
  PROVE  ScanInv'
<1>1. /\ phase = "generating" /\ suite = "none" /\ outcome = "none" /\ events = {}
      /\ UNCHANGED <<quality, ran, advice>>
  BY DEF ScanInv, Stated, ScanTellsAll, Generating
<1>2. GenerateInv'
  BY <1>1, GenerateKeeps DEF ScanInv, Generating
<1>3. CASE suite' \in {"raised", "cancelled"} /\ Leave(suite')
  BY <1>1, <1>2, <1>3
  DEF ScanInv, Stated, ScanTellsAll, Leave, End, GenerateInv, Generated
<1>4. CASE suite' = "given" /\ phase' = "running" /\ UNCHANGED <<events, outcome>>
  BY <1>1, <1>2, <1>4 DEF ScanInv, Stated, ScanTellsAll
<1>5. CASE suite' = "none" /\ UNCHANGED <<phase, events, outcome>>
  BY <1>1, <1>2, <1>5 DEF ScanInv, Stated, ScanTellsAll
<1> QED
  BY <1>3, <1>4, <1>5 DEF Generating

LEMMA RunSuiteKeeps ==
  ASSUME ScanInv, RunSuite
  PROVE  ScanInv'
<1>1. /\ phase = "running" /\ suite = "given" /\ outcome = "none" /\ events = {}
      /\ UNCHANGED generation
  BY DEF ScanInv, Stated, ScanTellsAll, RunSuite
<1>2. GenerateInv' /\ suite' = suite /\ pc' = pc /\ abandoned' = abandoned
  BY <1>1, GenerateStutter DEF ScanInv, generation, group
<1>3. \A t \in Tasks : pc'[t] = "done"
  BY <1>1, <1>2 DEF ScanInv, GenerateInv, Generated
<1>4. CASE ran' # "result" /\ Leave(ran')
  <2>1. ran' = "raised" \/ (ran' = "cancelled" /\ abandoned)
    BY <1>4 DEF RunSuite
  <2> QED
    BY <1>1, <1>2, <1>4, <2>1 DEF ScanInv, Stated, ScanTellsAll, Leave, End
<1>5. CASE ran' = "result" /\ phase' = "recommending" /\ UNCHANGED <<events, outcome>>
  BY <1>1, <1>2, <1>5 DEF ScanInv, Stated, ScanTellsAll
<1>6. CASE ran' = "result" /\ Complete
  BY <1>1, <1>2, <1>3, <1>6 DEF ScanInv, Stated, ScanTellsAll, Complete, End
<1> QED
  BY <1>4, <1>5, <1>6 DEF RunSuite

LEMMA RecommendKeeps ==
  ASSUME ScanInv, Recommend
  PROVE  ScanInv'
<1>1. /\ phase = "recommending" /\ suite = "given" /\ outcome = "none" /\ events = {}
      /\ ran = "result" /\ ran' = ran /\ UNCHANGED generation
  BY DEF ScanInv, Stated, ScanTellsAll, Recommend
<1>2. GenerateInv' /\ suite' = suite /\ pc' = pc /\ abandoned' = abandoned
  BY <1>1, GenerateStutter DEF ScanInv, generation, group
<1>3. \A t \in Tasks : pc'[t] = "done"
  BY <1>1, <1>2 DEF ScanInv, GenerateInv, Generated
<1>4. CASE Complete
  BY <1>1, <1>2, <1>3, <1>4 DEF ScanInv, Stated, ScanTellsAll, Complete, End
<1>5. CASE abandoned /\ Leave("cancelled")
  BY <1>1, <1>2, <1>5 DEF ScanInv, Stated, ScanTellsAll, Leave, End
<1> QED
  BY <1>4, <1>5 DEF Recommend

LEMMA ScanNext == ScanInv /\ [Next]_vars => ScanInv'
<1> SUFFICES ASSUME ScanInv, [Next]_vars PROVE ScanInv'
  OBVIOUS
<1>1. CASE Abandon
  <2>1. UNCHANGED <<pc, suite>> /\ UNCHANGED scan /\ phase # "over"
    BY <1>1 DEF Abandon
  <2> QED
    BY <1>1, <2>1, AbandonKeeps DEF ScanInv, Stated, ScanTellsAll, scan
<1>2. CASE UNCHANGED vars
  <2>1. UNCHANGED generation /\ UNCHANGED scan
    BY <1>2 DEF vars
  <2>2. GenerateInv' /\ suite' = suite /\ pc' = pc /\ abandoned' = abandoned
    BY <2>1, GenerateStutter DEF ScanInv, generation, group
  <2> QED
    BY <2>1, <2>2 DEF ScanInv, Stated, ScanTellsAll, scan
<1> QED
  BY <1>1, <1>2, GeneratingKeeps, RunSuiteKeeps, RecommendKeeps DEF Next, Finished

LEMMA SpecScanInv == Spec => []ScanInv
BY ScanFirst, ScanNext, PTL DEF Spec

(* The state of generation keeps its types, for any number of units, and   *)
(* any budgets and limits.                                                 *)
THEOREM GenerateTypes == Spec => []GenerateTypeOK
<1>1. ScanInv => GenerateTypeOK
  BY DEF ScanInv, GenerateInv
<1> QED
  BY <1>1, SpecScanInv, PTL

(* One unit at a time embeds the documents, never again once that is done, *)
(* and the lock of the knowledge base is left as it was found, for any     *)
(* number of units and whatever fails or is cancelled.                     *)
THEOREM DocumentsAreEmbeddedOnce == Spec => []EmbeddedOnce
<1>1. ASSUME ScanInv PROVE EmbeddedOnce
  <2>1. SemInv /\ Embeds /\ Generated
    BY <1>1 DEF ScanInv, GenerateInv
  <2>2. IsFiniteSet(Holders) /\ Cardinality(Holders) <= 1
    <3>1. permits \in Nat /\ permits + Cardinality(Holders) = 1 /\ Cardinality(Holders) \in Nat
      BY <2>1, HoldersNat, OnePermit DEF SemInv, PermitsConserved
    <3> QED
      BY <2>1, <3>1 DEF SemInv
  <2>3. Cardinality(At("running")) <= 1
    <3>1. At("running") \subseteq Holders
      BY DEF At, Holders, Holding
    <3>2. IsFiniteSet(At("running")) /\ Cardinality(At("running")) <= Cardinality(Holders)
      BY <2>2, <3>1, FS_Subset
    <3>3. Cardinality(At("running")) \in Nat /\ Cardinality(Holders) \in Nat
      BY <2>2, <3>2, FS_CardinalityType
    <3> QED
      BY <2>2, <3>2, <3>3
  <2>4. ASSUME suite # "none" PROVE permits = MaxPermits /\ queue = <<>> /\ Holders = {}
    <3>1. \A t \in Tasks : pc[t] \in Ended
      BY <2>1, <2>4 DEF Generated
    <3>2. Holders = {}
      BY <3>1 DEF Holders, Holding, Ended
    <3>3. \A t \in Tasks : pc[t] # "waiting"
      BY <3>1 DEF Ended
    <3>4. queue = <<>>
      <4>1. queue \in Seq(Tasks) /\ \A i \in 1..Len(queue) : pc[queue[i]] = "waiting"
        BY <2>1 DEF SemInv, Lists
      <4>2. \A i \in 1..Len(queue) : queue[i] \in Tasks
        BY <4>1, ElementOfSeq
      <4>3. Len(queue) \in Nat /\ ~(1 \in 1..Len(queue))
        BY <3>3, <4>1, <4>2, LenProperties
      <4> QED
        BY <4>1, <4>3, EmptySeq
    <3>5. permits = MaxPermits
      BY <2>1, <3>2, FS_EmptySet, OnePermit DEF SemInv, PermitsConserved
    <3> QED
      BY <3>2, <3>4, <3>5
  <2> QED
    BY <2>1, <2>3, <2>4 DEF EmbeddedOnce, Embeds
<1> QED
  BY <1>1, SpecScanInv, PTL

(* The caller and telemetry are told what happened: no failed unit is lost *)
(* in the two layers of task groups, for any number of units in them.      *)
THEOREM ScansTell == Spec => []ScanTellsAll
<1>1. ScanInv => ScanTellsAll
  BY DEF ScanInv
<1> QED
  BY <1>1, SpecScanInv, PTL

-----------------------------------------------------------------------------
(* The budget.  What the units are to make fits into it, as what is split  *)
(* is handed out piece by piece; and no unit makes more than it is to.     *)
Fits == budget # NoLimit => IsFiniteSet(Singles(want)) /\ Cardinality(Singles(want)) <= budget

LockUsers == LookingUp \cup Topics

(* Every reply has a rule at least, so that rules keep up with tries.      *)
RulesWanted(t) ==
    /\ want[t] <= MaxRules
    /\ pc[t] \notin Ended => tries[t] <= have[t] /\ tries[t] < Rounds
    /\ pc[t] = "done" => Least(want[t], Rounds) <= have[t]

WantedOf(t) ==
    /\ have[t] <= want[t]
    /\ pc[t] \in {"waiting", "granted", "running"} => t \in LockUsers
    /\ pc[t] \in {"proposing", "validating"} => t \in Topics
    /\ t \in Topics /\ pc[t] \notin Ended => want[t] > 0
    /\ t \in LookingUp /\ pc[t] = "done" => have[t] = want[t]
    /\ t \in Categories => RulesWanted(t)

Wanted == Fits /\ \A t \in Tasks : WantedOf(t)

LEMMA UnitKinds ==
  ASSUME NEW t \in Tasks
  PROVE  /\ t \in Categories \/ t = Objectives \/ t = Dataset \/ t \in LockUsers
         /\ t \in Categories => t # Objectives /\ t # Dataset /\ t \notin LockUsers
         /\ t = Objectives => t # Dataset /\ t \notin LockUsers
         /\ t = Dataset => t \notin LockUsers
         /\ t \in LookingUp => t \notin Topics /\ t \in LockUsers
         /\ t \in Topics => t \in LockUsers
<1>1. t \in 1..(NumCategories + 4 + NumTopics)
  BY GenerateAssumption
<1> QED
  BY <1>1, Parameters
  DEF Categories, Objectives, Dataset, Grounded, MultiTopic, LookingUp, Topics, LockUsers

(* What a unit does to the counts of another: nothing.                     *)
LEMMA OthersCount ==
  ASSUME GenerateTypeOK, NEW t \in Tasks, Unit(t), NEW d \in Tasks \ {t}
  PROVE  have'[d] = have[d] /\ tries'[d] = tries[d]
<1>1. have \in [Tasks -> Nat] /\ tries \in [Tasks -> Nat]
  BY DEF GenerateTypeOK
<1>2. \A n : Made(t, n) => have'[d] = have[d]
  BY <1>1 DEF Made
<1>3. Tried(t) => tries'[d] = tries[d]
  BY <1>1 DEF Tried
<1>4. \A v : LookedUp(t, v) => have'[d] = have[d]
  BY <1>1 DEF LookedUp
<1>5. have'[d] = have[d]
  BY <1>2, <1>4
  DEF Unit, SelectObjectives, LoadDataset, GenerateRules, LookUp, Enter, Embed, Propose, Validate,
      NextAttempt
<1>6. tries'[d] = tries[d]
  BY <1>3
  DEF Unit, SelectObjectives, LoadDataset, GenerateRules, LookUp, Enter, Embed, Propose, Validate,
      NextAttempt
<1> QED
  BY <1>5, <1>6

LEMMA SelectWanted ==
  ASSUME GenerateTypeOK, NEW t \in Tasks, WantedOf(t), SelectObjectives(t), want' = want
  PROVE  WantedOf(t)'
<1>1. t = Objectives /\ pc'[t] = "done" /\ have'[t] = want[t] /\ want[t] \in Nat
  BY DEF SelectObjectives, Goto, Made, GenerateTypeOK
<1>2. t \notin Categories /\ t \notin LookingUp /\ t \notin Topics
  BY <1>1, UnitKinds
<1> QED
  BY <1>1, <1>2 DEF WantedOf, Ended

LEMMA LoadWanted ==
  ASSUME GenerateTypeOK, NEW t \in Tasks, WantedOf(t), LoadDataset(t), want' = want
  PROVE  WantedOf(t)'
<1>1. t = Dataset /\ pc'[t] \in {"done", "failed"} /\ want[t] \in Nat
  BY DEF LoadDataset, Goto, GenerateTypeOK
<1>2. t \notin Categories /\ t \notin LookingUp /\ t \notin Topics
  BY <1>1, UnitKinds
<1>3. have'[t] <= want[t]
  <2>1. CASE \E size \in SizesLoaded : Made(t, Least(size, want[t]))
    <3>1. PICK size \in Nat : Made(t, Least(size, want[t]))
      BY <2>1, Parameters DEF SizesLoaded
    <3>2. have'[t] = Least(size, want[t])
      BY <3>1 DEF Made, GenerateTypeOK
    <3> QED
      BY <1>1, <3>2, LeastType
  <2>2. CASE have' = have
    BY <2>2 DEF WantedOf
  <2> QED
    BY <2>1, <2>2 DEF LoadDataset
<1> QED
  BY <1>1, <1>2, <1>3 DEF WantedOf, Ended

LEMMA RulesAreWanted ==
  ASSUME GenerateTypeOK, NEW t \in Tasks, WantedOf(t), GenerateRules(t), want' = want
  PROVE  WantedOf(t)'
<1>1. /\ t \in Categories /\ pc[t] = "created" /\ RulesWanted(t)
      /\ t \notin LookingUp /\ t \notin Topics /\ tries'[t] = tries[t] + 1
  BY UnitKinds DEF GenerateRules, Tried, WantedOf, GenerateTypeOK
<1>2. want[t] \in Nat /\ have[t] \in Nat /\ tries[t] \in Nat
  BY DEF GenerateTypeOK
<1>3. have[t] <= want[t] /\ want[t] <= MaxRules
  BY <1>1 DEF WantedOf, RulesWanted
<1>4. tries[t] <= have[t] /\ tries[t] < Rounds /\ Rounds \in Nat
  BY <1>1, Parameters DEF RulesWanted, Ended
<1>5. CASE Goto(t, "failed") /\ UNCHANGED have
  <2>1. pc'[t] = "failed" /\ have'[t] = have[t]
    BY <1>5 DEF Goto, GenerateTypeOK
  <2> QED
    BY <1>1, <1>3, <2>1 DEF WantedOf, RulesWanted, Ended
<1>6. ASSUME NEW n \in 1..MaxReply,
             IF have[t] + n >= want[t] \/ tries[t] + 1 = Rounds
             THEN Goto(t, "done") /\ Made(t, Least(have[t] + n, want[t]))
             ELSE Goto(t, "created") /\ Made(t, have[t] + n)
      PROVE  WantedOf(t)'
  <2>0. n \in Nat /\ n > 0
    BY Parameters
  <2>1. CASE have[t] + n >= want[t] \/ tries[t] + 1 = Rounds
    <3>1. pc'[t] = "done" /\ have'[t] = Least(have[t] + n, want[t])
      BY <1>6, <2>1 DEF Goto, Made, GenerateTypeOK
    <3>2. have'[t] <= want[t] /\ Least(want[t], Rounds) <= have'[t]
      BY <1>2, <1>4, <2>0, <2>1, <3>1 DEF Least
    <3> QED
      BY <1>1, <1>3, <3>1, <3>2 DEF WantedOf, RulesWanted, Ended
  <2>2. CASE ~(have[t] + n >= want[t] \/ tries[t] + 1 = Rounds)
    <3>1. pc'[t] = "created" /\ have'[t] = have[t] + n
      BY <1>6, <2>2 DEF Goto, Made, GenerateTypeOK
    <3>2. have'[t] <= want[t] /\ tries'[t] <= have'[t] /\ tries'[t] < Rounds
      BY <1>1, <1>2, <1>4, <2>0, <2>2, <3>1
    <3> QED
      BY <1>1, <1>3, <3>1, <3>2 DEF WantedOf, RulesWanted, Ended
  <2> QED
    BY <2>1, <2>2
<1> QED
  BY <1>5, <1>6 DEF GenerateRules

(* Units that have no more to do with the lock than to look up.            *)
LEMMA UserWanted ==
  ASSUME GenerateTypeOK, NEW t \in Tasks, WantedOf(t), t \in LockUsers, want' = want,
         pc[t] \notin Ended,
         have'[t] <= want[t],
         pc'[t] \in {"proposing", "validating"} => t \in Topics,
         t \in LookingUp /\ pc'[t] = "done" => have'[t] = want[t]
  PROVE  WantedOf(t)'
<1>1. t \notin Categories
  BY UnitKinds
<1> QED
  BY <1>1 DEF WantedOf

LEMMA VisitWanted ==
  ASSUME GenerateTypeOK, NEW t \in Tasks, WantedOf(t), t \in LockUsers, want' = want,
         pc[t] \notin Ended, NEW v, pc'[t] = After(t, v), LookedUp(t, v)
  PROVE  WantedOf(t)'
<1>1. have[t] <= want[t] /\ want[t] \in Nat /\ have[t] \in Nat /\ have \in [Tasks -> Nat]
  BY DEF WantedOf, GenerateTypeOK
<1>2. After(t, v) = "proposing" => t \in Topics
  BY DEF After, LockUsers
<1>3. After(t, v) = "done" => have'[t] = want[t]
  BY <1>1 DEF LookedUp
<1>4. have'[t] <= want[t]
  BY <1>1, <1>3 DEF LookedUp
<1>5. After(t, v) # "validating"
  BY DEF After
<1> QED
  BY <1>2, <1>3, <1>4, <1>5, UserWanted

LEMMA LookUpWanted ==
  ASSUME GenerateTypeOK, NEW t \in Tasks, WantedOf(t), LookUp(t), want' = want
  PROVE  WantedOf(t)'
<1>1. t \in LockUsers /\ pc[t] = "created" /\ pc[t] \notin Ended /\ pc \in [Tasks -> Stages]
  BY DEF LookUp, LockUsers, Ended, GenerateTypeOK
<1>2. CASE Goto(t, After(t, embedded)) /\ LookedUp(t, embedded)
  BY <1>1, <1>2, VisitWanted DEF Goto
<1>3. CASE (Acquire(t, "running") \/ Enqueue(t)) /\ UNCHANGED have
  <2>1. pc'[t] \in {"running", "waiting"}
    BY <1>1, <1>3 DEF Acquire, Enqueue
  <2> QED
    BY <1>1, <1>3, <2>1, UserWanted DEF WantedOf
<1> QED
  BY <1>2, <1>3 DEF LookUp

LEMMA EnterWanted ==
  ASSUME GenerateTypeOK, SemInv, NEW t \in Tasks, WantedOf(t), Enter(t), want' = want
  PROVE  WantedOf(t)'
<1>1. t \in LockUsers /\ pc[t] = "granted" /\ pc[t] \notin Ended /\ pc \in [Tasks -> Stages]
  BY DEF Enter, WantedOf, Ended, GenerateTypeOK
<1>2. CASE Release(t, After(t, embedded)) /\ LookedUp(t, embedded)
  <2>1. pc'[t] = After(t, embedded)
    BY <1>1, <1>2, AfterKinds, SemGrants
  <2> QED
    BY <1>1, <1>2, <2>1, VisitWanted
<1>3. CASE Resume(t, "running") /\ UNCHANGED have
  <2>1. pc'[t] = "running"
    BY <1>1, <1>3, SemGrants
  <2> QED
    BY <1>1, <1>3, <2>1, UserWanted DEF WantedOf
<1> QED
  BY <1>2, <1>3 DEF Enter

LEMMA EmbedWanted ==
  ASSUME GenerateTypeOK, SemInv, NEW t \in Tasks, WantedOf(t), Embed(t), want' = want
  PROVE  WantedOf(t)'
<1>1. t \in LockUsers /\ pc[t] = "running" /\ pc[t] \notin Ended /\ pc \in [Tasks -> Stages]
  BY DEF Embed, WantedOf, Ended, GenerateTypeOK
<1>2. CASE Release(t, After(t, embedded')) /\ LookedUp(t, embedded')
  <2>1. pc'[t] = After(t, embedded')
    BY <1>1, <1>2, AfterKinds, SemGrants
  <2> QED
    BY <1>1, <1>2, <2>1, VisitWanted
<1>3. CASE Release(t, "failed") /\ UNCHANGED <<embedded, have>>
  <2>1. pc'[t] = "failed"
    BY <1>1, <1>3, SemGrants
  <2> QED
    BY <1>1, <1>3, <2>1, UserWanted DEF WantedOf
<1> QED
  BY <1>2, <1>3 DEF Embed

(* A topic makes one scenario, or none.                                    *)
LEMMA TopicWanted ==
  ASSUME GenerateTypeOK, NEW t \in Tasks, WantedOf(t), Propose(t) \/ Validate(t), want' = want
  PROVE  WantedOf(t)'
<1>1. /\ t \in Topics /\ t \in LockUsers /\ pc[t] \notin Ended /\ want[t] > 0 /\ t \notin LookingUp
      /\ want[t] \in Nat
  <2>1. t \in Topics /\ pc[t] \notin Ended
    BY DEF Propose, Validate, WantedOf, Ended
  <2> QED
    BY <2>1, UnitKinds DEF WantedOf, GenerateTypeOK
<1>2. have'[t] = have[t] \/ have'[t] = 1
  BY DEF Propose, Validate, NextAttempt, Made, GenerateTypeOK
<1>3. have'[t] <= want[t]
  BY <1>1, <1>2 DEF WantedOf
<1> QED
  BY <1>1, <1>3, UserWanted

LEMMA UnitWanted ==
  ASSUME GenerateInv, Wanted, NEW t \in Tasks, Unit(t)
  PROVE  Wanted'
<1>1. /\ Moves(t) /\ GenerateTypeOK /\ SemInv /\ want' = want /\ budget' = budget
  BY UnitSteps DEF Steps, GenerateInv, request
<1>2. WantedOf(t)'
  BY <1>1, SelectWanted, LoadWanted, RulesAreWanted, LookUpWanted, EnterWanted, EmbedWanted,
     TopicWanted DEF Wanted, Unit
<1>3. ASSUME NEW d \in Tasks \ {t} PROVE WantedOf(d)'
  <2>1. WantedOf(d) /\ (pc'[d] = pc[d] \/ (pc[d] = "waiting" /\ pc'[d] = "granted"))
    BY <1>1 DEF Wanted, Moves
  <2>2. have'[d] = have[d] /\ tries'[d] = tries[d]
    BY <1>1, OthersCount
  <2>3. CASE pc'[d] = pc[d]
    BY <1>1, <2>1, <2>2, <2>3 DEF WantedOf, RulesWanted
  <2>4. CASE pc[d] = "waiting" /\ pc'[d] = "granted"
    BY <1>1, <2>1, <2>2, <2>4 DEF WantedOf, RulesWanted, Ended
  <2> QED
    BY <2>1, <2>3, <2>4
<1> QED
  BY <1>1, <1>2, <1>3 DEF Wanted, Fits, Singles

(* A cancelled unit is not asked for anything any more.                    *)
LEMMA EndsWanted ==
  ASSUME Wanted, UNCHANGED <<request, have, tries>>,
         \A d \in Tasks : pc'[d] \in {pc[d], "cancelled"} \/ (pc[d] = "waiting" /\ pc'[d] = "granted")
  PROVE  Wanted'
<1>1. want' = want /\ budget' = budget
  BY DEF request
<1>2. ASSUME NEW d \in Tasks PROVE WantedOf(d)'
  <2>1. WantedOf(d) /\ have'[d] = have[d] /\ tries'[d] = tries[d]
    BY DEF Wanted
  <2>2. CASE pc'[d] = pc[d]
    BY <1>1, <2>1, <2>2 DEF WantedOf, RulesWanted
  <2>3. CASE pc'[d] = "cancelled"
    BY <1>1, <2>1, <2>3 DEF WantedOf, RulesWanted, Ended
  <2>4. CASE pc[d] = "waiting" /\ pc'[d] = "granted"
    BY <1>1, <2>1, <2>4 DEF WantedOf, RulesWanted, Ended
  <2> QED
    BY <2>2, <2>3, <2>4
<1> QED
  BY <1>1, <1>2 DEF Wanted, Fits, Singles

LEMMA GenerateWanted ==
  ASSUME GenerateInv, Wanted, Generate
  PROVE  Wanted'
<1>1. ASSUME NEW t \in Tasks, GiveBack(t) PROVE Wanted'
  <2>1. /\ UNCHANGED <<request, have, tries>> /\ pc[t] \in Holding /\ SemInv
    BY <1>1 DEF GiveBack, GenerateInv, Asked, GenerateTypeOK
  <2>2. pc[t] # "waiting" /\ (Withdraw(t, "cancelled") \/ Release(t, "cancelled"))
    BY <1>1, <2>1 DEF GiveBack, Holding
  <2>3. \A d \in Tasks : \/ pc'[d] = IF d = t THEN "cancelled" ELSE pc[d]
                         \/ pc'[d] = "granted" /\ pc[d] = "waiting" /\ d # t
    BY <2>1, <2>2, SemGrants
  <2> QED
    BY <2>1, <2>3, EndsWanted
<1>2. ASSUME NEW G, CancelUnits(G), UNCHANGED <<request, have, tries>> PROVE Wanted'
  BY <1>2, CancelMoves, EndsWanted
<1>3. ASSUME Conclude PROVE Wanted'
  BY <1>3, EndsWanted DEF Conclude
<1> QED
  BY <1>1, <1>2, <1>3, UnitWanted DEF Generate, AbortInner, Stop, Abort

(* One by one.                                                             *)
LEMMA SinglesAre ==
  ASSUME NEW f, NEW a
  PROVE  a \in Singles(f) <=> \E s \in DOMAIN f : a \in {s} \X (1..f[s])
<1> DEFINE of(s) == {s} \X (1..f[s])
<1>1. Singles(f) = UNION {of(s) : s \in DOMAIN f}
  BY DEF Singles
<1> HIDE DEF of
<1>2. a \in Singles(f) <=> \E s \in DOMAIN f : a \in of(s)
  BY <1>1
<1> QED
  BY <1>2 DEF of

LEMMA SinglesFinite ==
  ASSUME NEW S, IsFiniteSet(S), NEW n \in Nat, NEW f \in [S -> 0..n]
  PROVE  IsFiniteSet(Singles(f)) /\ Singles(f) \subseteq S \X (1..n)
<1>0. IsFiniteSet(1..n)
  BY FS_Interval
<1>1. IsFiniteSet(S \X (1..n))
  BY <1>0, FS_Product
<1>2. ASSUME NEW a \in Singles(f) PROVE a \in S \X (1..n)
  <2>0. \E s \in DOMAIN f : a \in {s} \X (1..f[s])
    BY <1>2, SinglesAre
  <2>1. PICK s \in S : a \in {s} \X (1..f[s])
    BY <2>0
  <2>2. f[s] \in 0..n /\ 1..f[s] \subseteq 1..n
    OBVIOUS
  <2> QED
    BY <2>1, <2>2
<1>3. Singles(f) \subseteq S \X (1..n)
  BY <1>2
<1> QED
  BY <1>1, <1>3, FS_Subset

LEMMA GeneratorsFinite ==
  ASSUME NEW among \in Registries
  PROVE  IsFiniteSet(among)
<1>1. \A x, y : IsFiniteSet({x} \cup {y})
  <2> TAKE x, y
  <2>1. IsFiniteSet({x}) /\ IsFiniteSet({y})
    BY FS_Singleton
  <2> QED
    BY <2>1, FS_Union
<1> DEFINE first == {"adversarial"} \cup {"objectives"}
           second == {"dataset"} \cup {"grounded"}
           third == {"multiTopic"} \cup {"outOfScope"}
<1>2. IsFiniteSet(first) /\ IsFiniteSet(second) /\ IsFiniteSet(third)
  BY <1>1
<1>3. among \subseteq (first \cup second) \cup third
  BY DEF Registries, Quality, Attacks
<1> HIDE DEF first, second, third
<1>4. IsFiniteSet(first \cup second)
  BY <1>2, FS_Union
<1>5. IsFiniteSet((first \cup second) \cup third)
  BY <1>2, <1>4, FS_Union
<1> QED
  BY <1>3, <1>5, FS_Subset

(* What a generator has to hand out numbers its pieces.                    *)
LEMMA Numbered ==
  ASSUME NEW S, IsFiniteSet(S), NEW n \in Nat, NEW f \in Splits(n, S)
  PROVE  \E number \in [Singles(f) -> 1..n] :
            \A a, b \in Singles(f) : number[a] = number[b] => a = b
<1>1. f \in [S -> 0..n] /\ Cardinality(Singles(f)) = n
  BY DEF Splits
<1>2. IsFiniteSet(Singles(f))
  BY <1>1, SinglesFinite
<1>3. IsFiniteSet(1..n) /\ Cardinality(1..n) = n
  BY FS_Interval
<1>4. ExistsBijection(Singles(f), 1..n)
  BY <1>1, <1>2, <1>3, FS_SameCardinalityBij
<1>5. PICK number \in Bijection(Singles(f), 1..n) : TRUE
  BY <1>4 DEF ExistsBijection
<1> QED
  BY <1>5 DEF Bijection, Injection, IsInjective

LEMMA KindsOfGenerators ==
  ASSUME NEW t \in Tasks
  PROVE  /\ GeneratorOf(t) = "adversarial" <=> t \in Categories
         /\ GeneratorOf(t) = "objectives" <=> t = Objectives
         /\ GeneratorOf(t) = "dataset" <=> t = Dataset
         /\ GeneratorOf(t) = "grounded" <=> t = Grounded
         /\ GeneratorOf(t) = "multiTopic" <=> t = MultiTopic
         /\ GeneratorOf(t) = "outOfScope" <=> t \in Topics
<1>1. t \in Categories \/ t = Objectives \/ t = Dataset \/ t = Grounded \/ t = MultiTopic \/ t \in Topics
  BY UnitKinds DEF LockUsers, LookingUp
<1>2. /\ t \in Categories => t # Objectives /\ t # Dataset /\ t # Grounded /\ t # MultiTopic /\ t \notin Topics
      /\ t = Objectives => t # Dataset /\ t # Grounded /\ t # MultiTopic /\ t \notin Topics
      /\ t = Dataset => t # Grounded /\ t # MultiTopic /\ t \notin Topics
      /\ t = Grounded => t # MultiTopic /\ t \notin Topics
      /\ t = MultiTopic => t \notin Topics
  <2>1. Grounded # MultiTopic
    BY Parameters DEF Grounded, MultiTopic
  <2> QED
    BY <2>1, UnitKinds DEF LockUsers, LookingUp
<1> HIDE DEF Categories, Objectives, Dataset, Grounded, MultiTopic, Topics
<1>3. /\ t \in Categories => GeneratorOf(t) = "adversarial"
      /\ t = Objectives => GeneratorOf(t) = "objectives"
      /\ t = Dataset => GeneratorOf(t) = "dataset"
  BY <1>2 DEF GeneratorOf
<1>4. /\ t = Grounded => GeneratorOf(t) = "grounded"
      /\ t = MultiTopic => GeneratorOf(t) = "multiTopic"
      /\ t \in Topics => GeneratorOf(t) = "outOfScope"
  BY <1>2 DEF GeneratorOf
<1> QED
  BY <1>1, <1>3, <1>4

(* A budget is shared out in numbers, that of a category out of its        *)
(* generator's share.                                                      *)
LEMMA ShareIs ==
  ASSUME budget \in Nat, registered \in Registries, NEW share \in Shares(budget, registered)
  PROVE  \E f \in Splits(budget, registered) :
            \A g \in Generators : share[g] = IF g \in registered THEN f[g] ELSE 0
<1>1. budget # NoLimit
  BY GenerateAssumption
<1>2. PICK f \in Splits(budget, registered) :
        share = [g \in Generators |-> IF g \in registered THEN f[g] ELSE 0]
  BY <1>1 DEF Shares
<1> QED
  BY <1>2

LEMMA RulesAre ==
  ASSUME NEW s \in Nat, NEW rules \in RulesOf(s)
  PROVE  \E split \in Splits(s, Categories) :
            \A c \in Categories : rules[c] = Least(split[c], MaxRules)
<1>1. s # NoLimit
  BY GenerateAssumption
<1>2. PICK split \in Splits(s, Categories) : rules = [c \in Categories |-> Least(split[c], MaxRules)]
  BY <1>1 DEF RulesOf
<1> QED
  BY <1>2

(* What the units of each generator are to make.                           *)
WantIs(share, rules) ==
    /\ \A t \in Categories : want[t] = rules[t]
    /\ want[Objectives] \in {0, Chosen(share["objectives"])}
    /\ want[Dataset] = OrDefault(share["dataset"])
    /\ \A t \in LookingUp : want[t] \in {0, OrDefault(share[GeneratorOf(t)])}
    /\ \A t \in Topics : want[t] = 0 \/ (want[t] = 1 /\ t - MultiTopic <= OrDefault(share["outOfScope"]))

LEMMA WantFirst ==
  ASSUME GenerateInit
  PROVE  \E share \in Shares(budget, registered) : \E rules \in RulesOf(share["adversarial"]) :
            WantIs(share, rules)
<1>2. PICK share \in Shares(budget, registered) : \E rules \in RulesOf(share["adversarial"]) :
         want = [t \in Tasks |->
                    CASE t \in Categories -> rules[t]
                      [] t = Objectives -> IF multiturn THEN Chosen(share["objectives"]) ELSE 0
                      [] t = Dataset -> OrDefault(share["dataset"])
                      [] t \in LookingUp -> IF Grounds(t) THEN OrDefault(share[GeneratorOf(t)]) ELSE 0
                      [] t \in Topics ->
                            IF Grounds(t) /\ t - MultiTopic <= OrDefault(share["outOfScope"]) THEN 1 ELSE 0]
  BY DEF GenerateInit
<1>3. PICK rules \in RulesOf(share["adversarial"]) :
         want = [t \in Tasks |->
                    CASE t \in Categories -> rules[t]
                      [] t = Objectives -> IF multiturn THEN Chosen(share["objectives"]) ELSE 0
                      [] t = Dataset -> OrDefault(share["dataset"])
                      [] t \in LookingUp -> IF Grounds(t) THEN OrDefault(share[GeneratorOf(t)]) ELSE 0
                      [] t \in Topics ->
                            IF Grounds(t) /\ t - MultiTopic <= OrDefault(share["outOfScope"]) THEN 1 ELSE 0]
  BY <1>2
<1>4. Categories \subseteq Tasks /\ Objectives \in Tasks /\ Dataset \in Tasks
      /\ LookingUp \subseteq Tasks /\ Topics \subseteq Tasks
  <2>1. Tasks = 1..(NumCategories + 4 + NumTopics)
    BY GenerateAssumption
  <2> QED
    BY <2>1, Parameters DEF Categories, Objectives, Dataset, Grounded, MultiTopic, LookingUp, Topics
<1>5. /\ \A t \in Categories : t # Objectives /\ t # Dataset /\ t \notin LookingUp /\ t \notin Topics
      /\ Objectives # Dataset /\ Objectives \notin LookingUp /\ Objectives \notin Topics
      /\ Dataset \notin LookingUp /\ Dataset \notin Topics
      /\ \A t \in LookingUp : t \notin Topics
  BY <1>4, UnitKinds DEF LockUsers
<1>6. /\ Objectives \notin Categories /\ Dataset \notin Categories
      /\ \A t \in LookingUp : t \notin Categories /\ t # Objectives /\ t # Dataset
      /\ \A t \in Topics : t \notin Categories /\ t # Objectives /\ t # Dataset /\ t \notin LookingUp
  BY <1>5
<1> HIDE DEF Categories, Objectives, Dataset, LookingUp, Topics, Grounds, OrDefault, Chosen
<1>7. \A t \in Categories : want[t] = rules[t]
  BY <1>3, <1>4, <1>5
<1>8. want[Objectives] \in {0, Chosen(share["objectives"])}
  BY <1>3, <1>4, <1>5, <1>6
<1>9. want[Dataset] = OrDefault(share["dataset"])
  BY <1>3, <1>4, <1>5, <1>6
<1>10. \A t \in LookingUp : want[t] \in {0, OrDefault(share[GeneratorOf(t)])}
  BY <1>3, <1>4, <1>5, <1>6
<1>11. \A t \in Topics : want[t] = 0 \/ (want[t] = 1 /\ t - MultiTopic <= OrDefault(share["outOfScope"]))
  BY <1>3, <1>4, <1>5, <1>6
<1> QED
  BY <1>7, <1>8, <1>9, <1>10, <1>11 DEF WantIs

LEMMA SinglesOf ==
  ASSUME NEW f, NEW a \in Singles(f)
  PROVE  a[1] \in DOMAIN f /\ a[2] \in 1..f[a[1]] /\ a = <<a[1], a[2]>>
<1>1. \E s \in DOMAIN f : a \in {s} \X (1..f[s])
  BY SinglesAre
<1>2. PICK s \in DOMAIN f : a \in {s} \X (1..f[s])
  BY <1>1
<1> QED
  BY <1>2

LEMMA SinglesHave ==
  ASSUME NEW f, NEW s \in DOMAIN f, NEW i \in 1..f[s]
  PROVE  <<s, i>> \in Singles(f)
<1>1. <<s, i>> \in {s} \X (1..f[s])
  OBVIOUS
<1> QED
  BY <1>1, SinglesAre

(* One piece of the budget for each scenario that is wanted: it is counted *)
(* in its generator, which numbers what it hands out to categories, and    *)
(* its topics.                                                             *)
Place(a, number) ==
    IF a[1] \in Categories THEN number[a] ELSE IF a[1] \in Topics THEN a[1] - MultiTopic ELSE a[2]

LEMMA PlaceFits ==
  ASSUME NEW share \in [Generators -> Nat], NEW rules, WantIs(share, rules), want \in [Tasks -> Nat],
         NEW split, DOMAIN split = Categories,
         \A c \in Categories : split[c] \in Nat /\ rules[c] = Least(split[c], MaxRules),
         NEW number \in [Singles(split) -> 1..share["adversarial"]], NEW a \in Singles(want)
  PROVE  /\ a[1] \in Categories => a \in Singles(split)
         /\ a[1] \in Topics => a[2] = 1
         /\ Place(a, number) \in 1..share[GeneratorOf(a[1])]
<1> DEFINE t == a[1]
           i == a[2]
<1>1. t \in Tasks /\ i \in 1..want[t] /\ a = <<t, i>> /\ want[t] \in Nat
  BY SinglesOf
<1>2. \A g \in Generators : share[g] \in Nat /\ OrDefault(share[g]) = share[g]
                            /\ Chosen(share[g]) <= share[g] /\ Chosen(share[g]) \in Nat
  <2> TAKE g \in Generators
  <2>1. share[g] \in Nat /\ share[g] # NoLimit
    BY GenerateAssumption
  <2> QED
    BY <2>1, LeastType, Parameters DEF OrDefault, Chosen
<1>3. GeneratorOf(t) \in Generators /\ "objectives" \in Generators /\ "dataset" \in Generators
      /\ "outOfScope" \in Generators
  BY <1>1, UnitsCovered DEF Generators, Attacks, Quality
<1> HIDE DEF t, i
<1>4. CASE t \in Categories
  <2>1. want[t] = Least(split[t], MaxRules) /\ split[t] \in Nat
    BY <1>4 DEF WantIs
  <2>2. i \in 1..split[t]
    <3>1. MaxRules \in Nat
      BY Parameters
    <3>2. Least(split[t], MaxRules) <= split[t]
      BY <2>1, <3>1, LeastType
    <3> QED
      BY <1>1, <2>1, <3>2
  <2>3. a \in Singles(split)
    BY <1>1, <1>4, <2>2, SinglesHave
  <2>4. number[a] \in 1..share["adversarial"]
    BY <2>3
  <2>5. GeneratorOf(t) = "adversarial" /\ t \notin Topics
    BY <1>1, <1>4, KindsOfGenerators, UnitKinds
  <2> QED
    BY <1>4, <2>3, <2>4, <2>5 DEF Place, t
<1>5. CASE t = Objectives
  <2>1. GeneratorOf(t) = "objectives" /\ t \notin Topics /\ t \notin Categories
    BY <1>1, <1>5, KindsOfGenerators, UnitKinds
  <2>2. want[t] <= share["objectives"]
    BY <1>2, <1>3, <1>5 DEF WantIs
  <2>3. i \in 1..share["objectives"]
    BY <1>1, <1>2, <1>3, <2>2
  <2> QED
    BY <2>1, <2>3 DEF Place, t, i
<1>6. CASE t = Dataset
  <2>1. GeneratorOf(t) = "dataset" /\ t \notin Topics /\ t \notin Categories
    BY <1>1, <1>6, KindsOfGenerators, UnitKinds
  <2>2. i \in 1..share["dataset"]
    BY <1>1, <1>2, <1>3, <1>6 DEF WantIs
  <2> QED
    BY <2>1, <2>2 DEF Place, t, i
<1>7. CASE t \in LookingUp
  <2>1. t \notin Topics /\ t \notin Categories
    BY <1>1, <1>7, UnitKinds
  <2>2. want[t] = 0 \/ want[t] = share[GeneratorOf(t)]
    BY <1>2, <1>3, <1>7 DEF WantIs
  <2>3. i \in 1..share[GeneratorOf(t)]
    BY <1>1, <1>2, <1>3, <2>2
  <2> QED
    BY <2>1, <2>3 DEF Place, t, i
<1>8. CASE t \in Topics
  <2>1. GeneratorOf(t) = "outOfScope" /\ t \notin Categories
    BY <1>1, <1>8, KindsOfGenerators, UnitKinds
  <2>2. want[t] = 1 /\ i = 1 /\ t - MultiTopic <= share["outOfScope"]
    <3>1. want[t] # 0
      BY <1>1
    <3> QED
      BY <1>1, <1>2, <1>3, <1>8, <3>1 DEF WantIs
  <2>3. t - MultiTopic \in Nat /\ t - MultiTopic >= 1
    BY <1>8, Parameters DEF Topics, MultiTopic
  <2>4. t - MultiTopic \in 1..share["outOfScope"]
    BY <1>2, <1>3, <2>2, <2>3
  <2> QED
    BY <1>8, <2>1, <2>2, <2>4 DEF Place, t, i
<1> QED
  BY <1>1, <1>4, <1>5, <1>6, <1>7, <1>8, UnitKinds DEF LockUsers, t

LEMMA FitsFirst ==
  ASSUME GenerateInit, budget # NoLimit
  PROVE  IsFiniteSet(Singles(want)) /\ Cardinality(Singles(want)) <= budget
<1>1. budget \in Nat /\ registered \in Registries /\ want \in [Tasks -> Nat]
  BY WantType, GenerateAssumption DEF GenerateInit
<1>2. PICK share \in Shares(budget, registered) : \E rules \in RulesOf(share["adversarial"]) :
            WantIs(share, rules)
  BY WantFirst
<1>3. PICK f \in Splits(budget, registered) :
            \A g \in Generators : share[g] = IF g \in registered THEN f[g] ELSE 0
  BY <1>1, ShareIs
<1>4. f \in [registered -> 0..budget] /\ Cardinality(Singles(f)) = budget
  BY <1>3 DEF Splits
<1>5. share \in [Generators -> Nat] /\ "adversarial" \in Generators
  <2>1. share = [g \in Generators |-> share[g]]
    BY DEF Shares
  <2>2. \A g \in Generators : share[g] \in Nat
    BY <1>1, <1>3, <1>4
  <2> QED
    BY <2>1, <2>2 DEF Generators, Attacks
<1>6. PICK rules \in RulesOf(share["adversarial"]) : WantIs(share, rules)
  BY <1>2
<1>7. PICK split \in Splits(share["adversarial"], Categories) :
            \A c \in Categories : rules[c] = Least(split[c], MaxRules)
  BY <1>5, <1>6, RulesAre
<1>8. DOMAIN split = Categories /\ \A c \in Categories : split[c] \in Nat
  <2>1. split \in [Categories -> 0..share["adversarial"]] /\ share["adversarial"] \in Nat
    BY <1>5, <1>7 DEF Splits
  <2> QED
    BY <2>1
<1>9. PICK number \in [Singles(split) -> 1..share["adversarial"]] :
            \A a, b \in Singles(split) : number[a] = number[b] => a = b
  <2>1. IsFiniteSet(Categories) /\ share["adversarial"] \in Nat
    BY <1>5, Parameters, FS_Interval DEF Categories
  <2> QED
    BY <1>7, <2>1, Numbered
<1>10. ASSUME NEW a \in Singles(want)
       PROVE  /\ a[1] \in Categories => a \in Singles(split)
              /\ a[1] \in Topics => a[2] = 1
              /\ Place(a, number) \in 1..share[GeneratorOf(a[1])]
              /\ a[1] \in Tasks /\ a = <<a[1], a[2]>>
  <2>1. a[1] \in Tasks /\ a = <<a[1], a[2]>>
    BY <1>1, SinglesOf
  <2>2. \A c \in Categories : split[c] \in Nat /\ rules[c] = Least(split[c], MaxRules)
    BY <1>7, <1>8
  <2> QED
    BY <1>1, <1>5, <1>6, <1>8, <1>9, <2>1, <2>2, PlaceFits
<1> DEFINE piece == [a \in Singles(want) |-> <<GeneratorOf(a[1]), Place(a, number)>>]
<1>11. ASSUME NEW a \in Singles(want) PROVE <<GeneratorOf(a[1]), Place(a, number)>> \in Singles(f)
  <2>1. GeneratorOf(a[1]) \in Generators /\ Place(a, number) \in 1..share[GeneratorOf(a[1])]
    BY <1>10, UnitsCovered
  <2>2. GeneratorOf(a[1]) \in registered /\ share[GeneratorOf(a[1])] = f[GeneratorOf(a[1])]
    BY <1>3, <2>1
  <2> QED
    BY <1>4, <2>1, <2>2, SinglesHave
<1>12. ASSUME NEW a \in Singles(want), NEW b \in Singles(want),
              GeneratorOf(a[1]) = GeneratorOf(b[1]), Place(a, number) = Place(b, number)
       PROVE  a = b
  <2>1. CASE a[1] \in Categories
    <3>1. b[1] \in Categories
      BY <1>10, <1>12, <2>1, KindsOfGenerators
    <3>2. number[a] = number[b]
      BY <1>12, <2>1, <3>1 DEF Place
    <3> QED
      BY <1>9, <1>10, <2>1, <3>1, <3>2
  <2>2. CASE a[1] \in Topics
    <3>1. b[1] \in Topics /\ a[1] \notin Categories /\ b[1] \notin Categories
      BY <1>10, <1>12, <2>2, KindsOfGenerators, UnitKinds
    <3>2. a[1] - MultiTopic = b[1] - MultiTopic
      BY <1>12, <2>2, <3>1 DEF Place
    <3>3. a[1] = b[1]
      BY <2>2, <3>1, <3>2, Parameters DEF Topics, MultiTopic
    <3> QED
      BY <1>10, <2>2, <3>1, <3>3
  <2>3. CASE a[1] \notin Categories /\ a[1] \notin Topics
    <3>1. b[1] \notin Categories /\ b[1] \notin Topics
      BY <1>10, <1>12, <2>3, KindsOfGenerators
    <3>2. a[1] = b[1]
      BY <1>10, <1>12, <2>3, UnitKinds, KindsOfGenerators DEF LockUsers, LookingUp
    <3>3. a[2] = b[2]
      BY <1>12, <2>3, <3>1 DEF Place
    <3> QED
      BY <1>10, <3>2, <3>3
  <2> QED
    BY <2>1, <2>2, <2>3
<1>13. piece \in Injection(Singles(want), Singles(f))
  <2>1. piece \in [Singles(want) -> Singles(f)]
    BY <1>11
  <2>2. \A a, b \in Singles(want) : piece[a] = piece[b] => a = b
    BY <1>12
  <2> QED
    BY <2>1, <2>2 DEF Injection, IsInjective
<1>14. IsFiniteSet(Singles(f))
  BY <1>1, <1>4, GeneratorsFinite, SinglesFinite
<1> QED
  BY <1>4, <1>13, <1>14, FS_Injection

LEMMA WantedFirst == GenerateInit => Wanted
<1> SUFFICES ASSUME GenerateInit PROVE Wanted
  OBVIOUS
<1>1. /\ want \in [Tasks -> Nat] /\ have = [t \in Tasks |-> 0] /\ tries = [t \in Tasks |-> 0]
      /\ pc = [t \in Tasks |-> IF want[t] > 0 \/ (t = Dataset /\ "dataset" \in registered)
                               THEN "created" ELSE "done"]
  BY WantType DEF GenerateInit
<1>2. \A c \in Categories : want[c] <= MaxRules
  <2>1. PICK share \in Shares(budget, registered) : \E rules \in RulesOf(share["adversarial"]) :
            WantIs(share, rules)
    BY WantFirst
  <2>2. PICK rules \in RulesOf(share["adversarial"]) : WantIs(share, rules)
    BY <2>1
  <2>3. share["adversarial"] \in Nat \cup {NoLimit}
    BY ShareTypes DEF GenerateInit, Generators, Attacks
  <2>4. CASE share["adversarial"] = NoLimit
    <3>1. \A c \in Categories : rules[c] = Default
      BY <2>2, <2>4 DEF RulesOf
    <3> QED
      BY <2>2, <3>1, GenerateAssumption DEF WantIs
  <2>5. CASE share["adversarial"] \in Nat
    <3>1. PICK split \in Splits(share["adversarial"], Categories) :
              \A c \in Categories : rules[c] = Least(split[c], MaxRules)
      BY <2>2, <2>5, RulesAre
    <3>2. split \in [Categories -> 0..share["adversarial"]] /\ MaxRules \in Nat
      BY <3>1, Parameters DEF Splits
    <3>3. \A c \in Categories : split[c] \in Nat
      BY <2>5, <3>2
    <3>4. \A c \in Categories : rules[c] <= MaxRules
      BY <3>1, <3>2, <3>3, LeastType
    <3> QED
      BY <2>2, <3>4 DEF WantIs
  <2> QED
    BY <2>3, <2>4, <2>5
<1>3. ASSUME NEW t \in Tasks PROVE WantedOf(t)
  <2>1. want[t] \in Nat /\ have[t] = 0 /\ tries[t] = 0 /\ pc[t] \in {"created", "done"}
        /\ (t # Dataset => (pc[t] = "created" <=> want[t] > 0))
    BY <1>1
  <2>2. t \in Topics \/ t \in LookingUp \/ t \in Categories => t # Dataset
    BY UnitKinds
  <2>3. Rounds \in Nat /\ Rounds > 0
    BY Parameters
  <2>4. t \in Categories => RulesWanted(t)
    BY <1>2, <2>1, <2>2, <2>3 DEF RulesWanted, Ended, Least
  <2> QED
    BY <2>1, <2>2, <2>4 DEF WantedOf, Ended
<1> QED
  BY <1>3, FitsFirst DEF Wanted, Fits

LEMMA WantedNext == ScanInv /\ Wanted /\ [Next]_vars => Wanted'
<1> SUFFICES ASSUME ScanInv, Wanted, [Next]_vars PROVE Wanted'
  OBVIOUS
<1>1. CASE Generating
  BY <1>1, GenerateWanted DEF Generating, ScanInv
<1>2. CASE UNCHANGED <<pc, request, have, tries>>
  BY <1>2, EndsWanted
<1>3. CASE Abandon
  BY <1>2, <1>3 DEF Abandon
<1>4. CASE UNCHANGED generation
  BY <1>2, <1>4 DEF generation
<1> QED
  BY <1>1, <1>3, <1>4 DEF Next, RunSuite, Recommend, Finished, vars

(* A suite stays within its budget, and does not fall short without a      *)
(* reason, for any budget, however it is split, and any number of units.   *)
THEOREM BudgetIsKept == Spec => []BudgetKept
<1>1. ASSUME ScanInv, Wanted PROVE BudgetKept
  <2> SUFFICES ASSUME suite = "given" PROVE BudgetKept
    BY DEF BudgetKept
  <2>1. GenerateTypeOK /\ \A t \in Tasks : pc[t] = "done" /\ WantedOf(t)
    BY <1>1 DEF ScanInv, GenerateInv, Generated, Wanted
  <2>2. Categories \subseteq Tasks /\ LookingUp \subseteq Tasks
    <3>1. Tasks = 1..(NumCategories + 4 + NumTopics)
      BY GenerateAssumption
    <3> QED
      BY <3>1, Parameters DEF Categories, Grounded, MultiTopic, LookingUp
  <2>3. ASSUME budget # NoLimit PROVE Scenarios <= budget
    <3>1. IsFiniteSet(Singles(want)) /\ Cardinality(Singles(want)) <= budget /\ budget \in Nat
      BY <1>1, <2>1, <2>3, GenerateAssumption DEF Wanted, Fits, GenerateTypeOK
    <3>2. ASSUME NEW a \in Singles(have) PROVE a \in Singles(want)
      <4>1. a[1] \in Tasks /\ a[2] \in 1..have[a[1]] /\ a = <<a[1], a[2]>>
        BY <2>1, SinglesOf DEF GenerateTypeOK
      <4>2. have[a[1]] <= want[a[1]] /\ have[a[1]] \in Nat /\ want[a[1]] \in Nat
        BY <2>1, <4>1 DEF WantedOf, GenerateTypeOK
      <4>3. a[2] \in 1..want[a[1]] /\ a[1] \in DOMAIN want
        BY <2>1, <4>1, <4>2 DEF GenerateTypeOK
      <4> QED
        BY <4>1, <4>3, SinglesHave
    <3>3. IsFiniteSet(Singles(have)) /\ Cardinality(Singles(have)) <= Cardinality(Singles(want))
      BY <3>1, <3>2, FS_Subset
    <3> QED
      BY <3>1, <3>3, FS_CardinalityType DEF Scenarios
  <2>4. ASSUME NEW t \in Categories PROVE Least(want[t], Rounds) <= have[t] /\ have[t] <= MaxRules
    <3>1. RulesWanted(t) /\ have[t] <= want[t] /\ want[t] <= MaxRules /\ t \in Tasks
      BY <2>1, <2>2, <2>4 DEF WantedOf, RulesWanted
    <3>2. have[t] \in Nat /\ want[t] \in Nat /\ MaxRules \in Nat
      BY <2>1, <3>1, Parameters DEF GenerateTypeOK
    <3> QED
      BY <2>1, <3>1, <3>2 DEF RulesWanted
  <2>5. \A t \in LookingUp : have[t] = want[t]
    BY <2>1, <2>2 DEF WantedOf
  <2> QED
    BY <2>3, <2>4, <2>5 DEF BudgetKept
<1>2. Init => Wanted
  BY WantedFirst DEF Init
<1> QED
  BY <1>1, <1>2, WantedNext, SpecScanInv, PTL DEF Spec
=============================================================================
