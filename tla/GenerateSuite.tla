----------------------------- MODULE GenerateSuite -----------------------------
(***************************************************************************)
(* generate_suite of giskard-scan: generators run concurrently in a task   *)
(* group, each on its share of the budget.  There is one generator of each *)
(* kind.  Those that attack: adversarial asks a model for rules, category  *)
(* by category, in a group of its own; objectives picks from a list, for   *)
(* attacks in many turns; dataset loads a file in a thread.  Those for the *)
(* quality of answers: grounded and multiTopic look up documents of the    *)
(* knowledge base; outOfScope looks for topics that these do not have, in  *)
(* a group of its own.                                                     *)
(*                                                                         *)
(* The documents are embedded at the first look-up, behind a lock that the *)
(* last three generators share (a semaphore of one permit).                *)
(*                                                                         *)
(* The tasks are the units of work, numbered in the order in which their   *)
(* scenarios come in the suite: the categories, the objectives, the        *)
(* dataset, the two that look up documents, and the topics.                *)
(***************************************************************************)
EXTENDS AsyncSemaphore

CONSTANTS NumCategories,
          NumTopics,          \* bound on the topics, which leaves out larger shares of them
          NoLimit, Budgets,   \* max_scenarios = None, and those of the callers
          Default,            \* scenarios of a generator without a budget
          NumObjectives,      \* length of the list of objectives
          DatasetSize,        \* bound on the scenarios in a dataset
          MaxRules,           \* most rules of a category
          MaxReply,           \* bound on the rules in one reply
          Rounds, Attempts    \* how often rules, and topics, are asked for

Categories == 1..NumCategories
Objectives == NumCategories + 1
Dataset == NumCategories + 2
Grounded == NumCategories + 3
MultiTopic == NumCategories + 4
Topics == (NumCategories + 5)..(NumCategories + 4 + NumTopics)

ASSUME GenerateAssumption ==
    /\ {NumCategories, NumTopics, Default, NumObjectives, DatasetSize, MaxRules, MaxReply} \subseteq Nat
    /\ {Rounds, Attempts} \subseteq Nat \ {0}
    /\ Tasks = 1..(NumCategories + 4 + NumTopics)
    /\ NoLimit \notin Nat /\ Budgets \subseteq Nat \cup {NoLimit}
    /\ Default <= NumTopics /\ Default <= MaxRules /\ MaxPermits = 1

Attacks == {"adversarial", "objectives", "dataset"}
Quality == {"grounded", "multiTopic", "outOfScope"}
Generators == Attacks \cup Quality

GeneratorOf(t) ==
    CASE t \in Categories -> "adversarial"
      [] t = Objectives -> "objectives"
      [] t = Dataset -> "dataset"
      [] t = Grounded -> "grounded"
      [] t = MultiTopic -> "multiTopic"
      [] t \in Topics -> "outOfScope"

LookingUp == {Grounded, MultiTopic}

Units(g) == {t \in Tasks : GeneratorOf(t) = g}

VARIABLES budget,       \* max_scenarios of the caller
          multiturn,    \* target_mode
          registered,   \* the generators of the scan
          documents,    \* in the knowledge base, or 0 without one
          want,         \* scenarios, or rules, that a unit is to make
          have,         \* those that it has made
          tries,        \* how often it has asked for them
          embedded,     \* "missing", "good", or "bad": vectors that cannot be compared
          cancelling,   \* units with the lock that were asked to cancel and have not run since
          stopping,     \* the generators whose units were asked to cancel
          aborting,     \* the outer group has cancelled its generators
          abandoned,    \* the caller has cancelled the scan
          suite         \* "none", "given", "raised", or "cancelled"

request == <<budget, multiturn, registered, documents, want>>
group == <<cancelling, stopping, aborting, abandoned>>
generation == <<pc, permits, queue, request, have, tries, embedded, group, suite>>

Ended == {"done", "failed", "cancelled"}
Stages == Ended \cup {"created", "waiting", "granted", "running", "proposing", "validating"}

-----------------------------------------------------------------------------
(* Shares.                                                                 *)
Singles(f) == UNION {{s} \X (1..f[s]) : s \in DOMAIN f}   \* f[s] of each s, one by one

Splits(n, S) == {f \in [S -> 0..n] : Cardinality(Singles(f)) = n}

Least(a, b) == IF a < b THEN a ELSE b

(* SuiteGeneratorRegistry.generators: commercial use rules out the dataset. *)
Registries == {Quality, Attacks, Attacks \ {"dataset"}}

(* The budget is split before the generators start.                        *)
Shares(b, among) ==
    {[g \in Generators |-> IF g \in among THEN f[g] ELSE 0] :
        f \in IF b = NoLimit THEN {[g \in among |-> NoLimit]} ELSE Splits(b, among)}

(* Rules for each category: a split of the share, capped.                  *)
RulesOf(share) ==
    IF share = NoLimit THEN {[c \in Categories |-> Default]}
    ELSE {[c \in Categories |-> Least(split[c], MaxRules)] : split \in Splits(share, Categories)}

OrDefault(share) == IF share = NoLimit THEN Default ELSE share

(* _select_objectives: without a budget, all there are.                    *)
Chosen(share) == IF share = NoLimit THEN NumObjectives ELSE Least(share, NumObjectives)

(* Two documents at least for scenarios of several topics, in many turns.  *)
Grounds(t) == documents > 0 /\ (t = MultiTopic => documents > 1 /\ multiturn)

(* What has nothing to do is not begun: categories without rules, topics   *)
(* beyond their number, generators for many turns when the target takes    *)
(* but one, look-ups without documents to look up.                         *)
GenerateInit ==
    /\ SemInit
    /\ budget \in Budgets /\ multiturn \in BOOLEAN /\ registered \in Registries
    /\ documents \in IF registered = Quality THEN 0..2 ELSE {0}
    /\ \E share \in Shares(budget, registered) : \E rules \in RulesOf(share["adversarial"]) :
         /\ OrDefault(share["outOfScope"]) <= NumTopics
         /\ want = [t \in Tasks |->
                    CASE t \in Categories -> rules[t]
                      [] t = Objectives -> IF multiturn THEN Chosen(share["objectives"]) ELSE 0
                      [] t = Dataset -> OrDefault(share["dataset"])
                      [] t \in LookingUp -> IF Grounds(t) THEN OrDefault(share[GeneratorOf(t)]) ELSE 0
                      [] t \in Topics ->
                            IF Grounds(t) /\ t - MultiTopic <= OrDefault(share["outOfScope"]) THEN 1 ELSE 0]
    /\ pc = [t \in Tasks |-> IF want[t] > 0 \/ (t = Dataset /\ "dataset" \in registered)
                             THEN "created" ELSE "done"]
    /\ have = [t \in Tasks |-> 0] /\ tries = [t \in Tasks |-> 0]
    /\ embedded \in {"missing", "good", "bad"}
    /\ cancelling = {} /\ stopping = {}
    /\ aborting = FALSE /\ abandoned = FALSE
    /\ suite = "none"

-----------------------------------------------------------------------------
(* Units of work.                                                          *)
Goto(t, stage) == pc' = [pc EXCEPT ![t] = stage] /\ UNCHANGED <<permits, queue>>

Made(t, n) == have' = [have EXCEPT ![t] = n]

Tried(t) == tries' = [tries EXCEPT ![t] = @ + 1]

(* The objectives are sampled at once, without asking anybody.             *)
SelectObjectives(t) ==
    /\ t = Objectives /\ pc[t] = "created"
    /\ Goto(t, "done") /\ Made(t, want[t])
    /\ UNCHANGED <<tries, embedded>>

(* load_scenarios: without a file in a wanted language, or in an outage of *)
(* the hub, there are none.                                                *)
SizesLoaded == 0..DatasetSize

(* Of more scenarios than wanted a sample is taken.                        *)
LoadDataset(t) ==
    /\ t = Dataset /\ pc[t] = "created"
    /\ \/ Goto(t, "done") /\ \E size \in SizesLoaded : Made(t, Least(size, want[t]))
       \/ Goto(t, "failed") /\ UNCHANGED have
    /\ UNCHANGED <<tries, embedded>>

(* Fault: what the model gave beyond the rules asked for is kept.          *)
KeepAllRules(t) ==
    /\ t \in Categories /\ pc[t] = "created"
    /\ \/ \E n \in 1..MaxReply :
            IF have[t] + n >= want[t] \/ tries[t] + 1 = Rounds
            THEN Goto(t, "done") /\ Made(t, have[t] + n)
            ELSE Goto(t, "created") /\ Made(t, have[t] + n)
       \/ Goto(t, "failed") /\ UNCHANGED have
    /\ Tried(t) /\ UNCHANGED embedded

(* _generate_rules: a reply has at least one rule; the missing ones are    *)
(* asked for again, and those too many cut off.                            *)
GenerateRules(t) ==
    /\ t \in Categories /\ pc[t] = "created"
    /\ \/ \E n \in 1..MaxReply :
            IF have[t] + n >= want[t] \/ tries[t] + 1 = Rounds
            THEN Goto(t, "done") /\ Made(t, Least(have[t] + n, want[t]))
            ELSE Goto(t, "created") /\ Made(t, have[t] + n)
       \/ Goto(t, "failed") /\ UNCHANGED have
    /\ Tried(t) /\ UNCHANGED embedded

(* Where a look-up leads: vectors that cannot be compared are an error.    *)
(* A generator that looks up documents goes on through all its look-ups    *)
(* without a pause; a topic asks the model for a proposal.                 *)
After(t, vectors) ==
    IF vectors = "bad" THEN "failed" ELSE IF t \in LookingUp THEN "done" ELSE "proposing"

LookedUp(t, vectors) ==
    have' = IF After(t, vectors) = "done" THEN [have EXCEPT ![t] = want[t]] ELSE have

(* closest_documents, and ensure_embeddings in front of the lock.          *)
LookUp(t) ==
    /\ t \in LookingUp \cup Topics /\ pc[t] = "created"
    /\ \/ embedded # "missing" /\ Goto(t, After(t, embedded)) /\ LookedUp(t, embedded)
       \/ embedded = "missing" /\ (Acquire(t, "running") \/ Enqueue(t)) /\ UNCHANGED have
    /\ UNCHANGED <<tries, embedded>>

(* Fault: the documents are not looked at again behind the lock.           *)
EnterAndEmbed(t) ==
    /\ Resume(t, "running")
    /\ UNCHANGED <<have, tries, embedded>>

(* Fault: a unit that finds the vectors behind the lock does not leave it. *)
EnterAndStay(t) ==
    /\ pc[t] = "granted"
    /\ \/ embedded # "missing" /\ Goto(t, After(t, embedded)) /\ LookedUp(t, embedded)
       \/ embedded = "missing" /\ Resume(t, "running") /\ UNCHANGED have
    /\ UNCHANGED <<tries, embedded>>

(* Behind the lock the documents are looked at again.                      *)
Enter(t) ==
    /\ pc[t] = "granted"
    /\ \/ embedded # "missing" /\ Release(t, After(t, embedded)) /\ LookedUp(t, embedded)
       \/ embedded = "missing" /\ Resume(t, "running") /\ UNCHANGED have
    /\ UNCHANGED <<tries, embedded>>

(* The embedding model gives vectors, or fails, or gives too few of them.  *)
Embed(t) ==
    /\ pc[t] = "running"
    /\ \/ embedded' \in {"good", "bad"} /\ Release(t, After(t, embedded')) /\ LookedUp(t, embedded')
       \/ Release(t, "failed") /\ UNCHANGED <<embedded, have>>
    /\ UNCHANGED tries

(* Another attempt, unless this was the last: then there is no scenario.   *)
(* The look-up of the next one has nothing to wait for.                    *)
NextAttempt(t) ==
    /\ Goto(t, IF tries[t] + 1 = Attempts THEN "done" ELSE "proposing")
    /\ Tried(t) /\ UNCHANGED have

(* A candidate that occurs in a document is rejected without a call.       *)
Propose(t) ==
    /\ pc[t] = "proposing"
    /\ \/ Goto(t, "validating") /\ UNCHANGED <<have, tries>>
       \/ NextAttempt(t)
       \/ Goto(t, "failed") /\ UNCHANGED <<have, tries>>
    /\ UNCHANGED embedded

(* closest_documents_to_text and _validate_absence.                        *)
Validate(t) ==
    /\ pc[t] = "validating"
    /\ \/ Goto(t, "done") /\ Made(t, 1) /\ UNCHANGED tries
       \/ NextAttempt(t)
       \/ Goto(t, "failed") /\ UNCHANGED <<have, tries>>
    /\ UNCHANGED embedded

Unit(t) ==
    /\ GeneratorOf(t) \notin stopping
    /\ \/ SelectObjectives(t) \/ LoadDataset(t) \/ GenerateRules(t)
       \/ LookUp(t) \/ Enter(t) \/ Embed(t) \/ Propose(t) \/ Validate(t)
    /\ UNCHANGED <<request, group, suite>>

-----------------------------------------------------------------------------
(* Task groups.                                                            *)
Over(g) == \A t \in Units(g) : pc[t] \in Ended

(* The waiters that are not asked to cancel, in their order: the one at     *)
(* place k has k - 1 of them before it.                                    *)
Remaining(asked) ==
    LET left == {i \in DOMAIN queue : queue[i] \notin asked}
    IN  [k \in 1..Cardinality(left) |->
            queue[CHOOSE i \in left : Cardinality({j \in left : j <= i}) = k]]

(* Requests to cancel: who waits is through, and who has the lock gives it *)
(* back when its task runs.                                                *)
CancelUnits(G) ==
    LET asked == {t \in Tasks : GeneratorOf(t) \in G /\ pc[t] \notin Ended}
    IN  /\ cancelling' = cancelling \cup {t \in asked : pc[t] \in Holding}
        /\ pc' = [t \in Tasks |-> IF t \in asked \ cancelling' THEN "cancelled" ELSE pc[t]]
        /\ queue' = Remaining(asked)
        /\ stopping' = stopping \cup G
        /\ UNCHANGED permits

(* A group hears of a failed unit and cancels its siblings.                *)
AbortInner(g) ==
    /\ g \notin stopping /\ ~Over(g)
    /\ \E t \in Units(g) : pc[t] = "failed"
    /\ CancelUnits({g})
    /\ UNCHANGED <<request, have, tries, embedded, aborting, abandoned, suite>>

Alone == Generators \ {"adversarial", "outOfScope"}   \* the generators without a group of their own

Broken == {g \in Generators : Over(g) /\ \E t \in Units(g) : pc[t] = "failed"}

(* The outer group hears of a failed generator, or is cancelled itself.    *)
Abort ==
    /\ ~aborting /\ (Broken # {} \/ abandoned)
    /\ aborting' = TRUE
    /\ CancelUnits(Alone)
    /\ UNCHANGED <<request, have, tries, embedded, abandoned, suite>>

(* The request reaches a generator that waits for a group of its own.      *)
Stop(g) ==
    /\ aborting /\ g \in registered \ (Alone \cup stopping)
    /\ CancelUnits({g})
    /\ UNCHANGED <<request, have, tries, embedded, aborting, abandoned, suite>>

GiveBack(t) ==
    /\ t \in cancelling
    /\ IF pc[t] = "granted" THEN Withdraw(t, "cancelled") ELSE Release(t, "cancelled")
    /\ cancelling' = cancelling \ {t}
    /\ UNCHANGED <<request, have, tries, embedded, stopping, aborting, abandoned, suite>>

AllOver == \A g \in Generators : Over(g)

(* Fault: scenarios are taken from generators that have no error.          *)
ConcludeGenerously ==
    /\ suite = "none" /\ AllOver
    /\ suite' = IF abandoned THEN "cancelled"
                ELSE IF Broken = registered THEN "raised" ELSE "given"
    /\ UNCHANGED <<pc, permits, queue, request, have, tries, embedded, group>>

(* The outer group is left when its generators are over: with the errors,  *)
(* with the cancellation, or with all scenarios.                           *)
Conclude ==
    /\ suite = "none" /\ AllOver
    /\ suite' = IF Broken # {} THEN "raised" ELSE IF abandoned THEN "cancelled" ELSE "given"
    /\ UNCHANGED <<pc, permits, queue, request, have, tries, embedded, group>>

Generate ==
    \/ \E t \in Tasks : Unit(t) \/ GiveBack(t)
    \/ \E g \in Generators : AbortInner(g) \/ Stop(g)
    \/ Abort \/ Conclude

Scenarios == Cardinality(Singles(have))   \* of the suite, when it is given

-----------------------------------------------------------------------------
(* Type invariant.                                                         *)
GenerateTypeOK ==
    /\ pc \in [Tasks -> Stages] /\ permits \in 0..MaxPermits /\ queue \in Seq(Tasks)
    /\ budget \in Budgets /\ multiturn \in BOOLEAN /\ registered \in Registries
    /\ documents \in 0..2 /\ want \in [Tasks -> Nat]
    /\ have \in [Tasks -> Nat] /\ tries \in [Tasks -> Nat]
    /\ embedded \in {"missing", "good", "bad"}
    /\ cancelling \subseteq Tasks /\ stopping \subseteq Generators
    /\ aborting \in BOOLEAN /\ abandoned \in BOOLEAN
    /\ suite \in {"none", "given", "raised", "cancelled"}

(* A suite stays within the budget, though it is split twice, capped and   *)
(* asked for in rounds; and it does not fall short without a reason: rules *)
(* come with every reply, and every seed document makes a scenario.        *)
BudgetKept ==
    suite = "given" =>
        /\ budget # NoLimit => Scenarios <= budget
        /\ \A t \in Categories : Least(want[t], Rounds) <= have[t] /\ have[t] <= MaxRules
        /\ \A t \in LookingUp : have[t] = want[t]

(* The documents are embedded by one unit at a time, and never again once  *)
(* that is done.  The knowledge base is the caller's, who may go on to use *)
(* it: however generation ended, nobody is left in its lock or its queue.  *)
EmbeddedOnce ==
    /\ Cardinality(At("running")) <= 1
    /\ embedded # "missing" => At("running") = {}
    /\ suite # "none" => permits = MaxPermits /\ queue = <<>> /\ Holders = {}
=============================================================================
