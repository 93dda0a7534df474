----------------------------- MODULE ChatWorkflow -----------------------------
(***************************************************************************)
(* ChatWorkflow.run of giskard-agents, with the step loop of _StepRunner,  *)
(* and the callers that start several runs at once: run_many and run_batch *)
(* (a gather of the runs) and stream_many and stream_batch (the runs as    *)
(* they complete).                                                         *)
(*                                                                         *)
(* A chat is a sequence of messages.  Of a message only what steers the    *)
(* loop is kept: whether it asks, answers (validly or not), calls tools    *)
(* (how many), or is the result of a call (which one of its round): what   *)
(* the function of the tool came to, or that the arguments were refused.   *)
(***************************************************************************)
EXTENDS Integers, Sequences, SequencesExt

CONSTANTS NumRuns,      \* how many runs the caller starts
          StepLimits,   \* the max_steps that callers pass
          NoLimit,      \* max_steps = None
          MaxCalls,     \* bound on the tool calls in one message
          NumRetries,   \* output_model_num_retries
          MaxMessages   \* bound on the length of a chat without a limit

ASSUME ChatAssumption ==
    /\ NumRuns \in Nat \ {0} /\ MaxCalls \in Nat /\ NumRetries \in Nat /\ MaxMessages \in Nat
    /\ NoLimit \notin Nat /\ StepLimits \subseteq Nat \cup {NoLimit}

Runs == 1..NumRuns
Policies == {"raise", "return", "skip"}

(* How a tool may take a call: the arguments are not those of its function, *)
(* the function returns, it raises, or its result cannot be serialized.    *)
ToolEnds == {"refused", "returned", "failed", "garbled"}

Message(kind, n) == [kind |-> kind, n |-> n]
Ask == Message("ask", 0)
Valid == Message("answer", 1)
Invalid == Message("answer", 0)
Result(k) == Message("result", k)
Refusal(k) == Message("refusal", k)
Calls == {Message("calls", n) : n \in 1..MaxCalls}
Results == {Result(k) : k \in 1..MaxCalls} \cup {Refusal(k) : k \in 1..MaxCalls}
Messages == {Ask, Valid, Invalid} \cup Calls \cup Results

(* The rendered messages that a workflow starts with.                      *)
Beginnings == {<<Ask>>} \cup {<<Ask, c>> : c \in Calls}

VARIABLES policy, strict, limit, streaming,  \* the workflow and the call of it, fixed
          catching,   \* do its tools have an error handler
          beginning,  \* the rendered messages
          pc,         \* where the run is
          chat,       \* its chat
          round,      \* the tool calls of the last message that were not run yet
          context,    \* the results that tools left in the context of the chat
          lent,       \* the same for the context that the tools of this round are given
          steps,      \* step_index
          attempts,   \* completions tried for the step at hand
          outcome,    \* how the run ended, "none" before
          order,      \* the runs that ended, in that order
          taken,      \* how many of them the stream has looked at
          results,    \* the runs whose chats the caller was given
          answer,     \* "none", "raised", or "given" when the call is over
          hurt        \* the runs in which something failed (history)

workflow == <<policy, strict, limit, streaming, catching, beginning>>
caller == <<taken, results, answer>>
vars == <<workflow, pc, chat, round, context, lent, steps, attempts, outcome, order, caller, hurt>>

ChatInit ==
    /\ policy \in Policies /\ strict \in BOOLEAN
    /\ limit \in StepLimits /\ streaming \in BOOLEAN /\ catching \in BOOLEAN
    /\ beginning \in Beginnings
    /\ pc = [r \in Runs |-> "render"]
    /\ chat = [r \in Runs |-> <<>>] /\ round = [r \in Runs |-> <<>>]
    /\ context = [r \in Runs |-> {}] /\ lent = [r \in Runs |-> {}]
    /\ steps = [r \in Runs |-> 0] /\ attempts = [r \in Runs |-> 0]
    /\ outcome = [r \in Runs |-> "none"]
    /\ order = <<>> /\ taken = 0 /\ results = <<>> /\ answer = "none" /\ hurt = {}

-----------------------------------------------------------------------------
(* Ends of a run.                                                          *)
End(r, how) ==
    /\ pc' = [pc EXCEPT ![r] = "over"]
    /\ outcome' = [outcome EXCEPT ![r] = how]
    /\ order' = Append(order, r)

(* _handle_error: raise, or keep the chat of the last step.  Without a     *)
(* step the messages are rendered again.                                   *)
Fail(r) ==
    /\ hurt' = hurt \cup {r}
    /\ \/ policy = "raise" /\ End(r, "raised")
       \/ policy # "raise" /\ steps[r] > 0 /\ End(r, "failed")
       \/ policy # "raise" /\ steps[r] = 0 /\ pc' = [pc EXCEPT ![r] = "render_again"]
          /\ UNCHANGED <<outcome, order>>
    /\ UNCHANGED <<chat, round, steps, attempts>>

RenderAgain(r) ==
    /\ pc[r] = "render_again"
    /\ \/ /\ chat' = [chat EXCEPT ![r] = beginning]
          /\ context' = [context EXCEPT ![r] = {}]
          /\ End(r, "failed")
       \/ End(r, "raised") /\ UNCHANGED <<chat, context>>
    /\ UNCHANGED <<workflow, round, lent, steps, attempts, caller, hurt>>

-----------------------------------------------------------------------------
(* The loop.                                                               *)
AtLimit(n) == limit # NoLimit /\ n >= limit

(* Fault: only the first call of a round is run.                           *)
FirstCallOf(m) == IF m.kind = "calls" THEN <<1>> ELSE <<>>

CallsOf(m) == IF m.kind = "calls" THEN [k \in 1..m.n |-> k] ELSE <<>>

Render(r) ==
    /\ pc[r] = "render"
    /\ \/ /\ ~AtLimit(0)
          /\ chat' = [chat EXCEPT ![r] = beginning]
          /\ round' = [round EXCEPT ![r] = CallsOf(Last(beginning))]
          /\ pc' = [pc EXCEPT ![r] = IF round'[r] = <<>> THEN "complete" ELSE "tool"]
          /\ UNCHANGED <<context, lent, steps, attempts, outcome, order, hurt>>
       \/ Fail(r) /\ UNCHANGED <<context, lent>>   \* rendering fails, or no step may run
    /\ UNCHANGED <<workflow, caller>>

(* Fault: the clone of the chat gets a context of its own.                 *)
CloneAlone(r, given) == context' = context

(* The clone of a chat keeps the context object of the chat.               *)
Clone(r, given) == context' = [context EXCEPT ![r] = given]

(* A tool result is a step, and may be the last one that is allowed.       *)
ToolStep(r, m) ==
    /\ chat' = [chat EXCEPT ![r] = Append(@, m)]
    /\ steps' = [steps EXCEPT ![r] = @ + 1]
    /\ round' = [round EXCEPT ![r] = Tail(@)]
    /\ \/ AtLimit(steps[r] + 1) /\ End(r, "chat")
       \/ ~AtLimit(steps[r] + 1)
          /\ pc' = [pc EXCEPT ![r] = IF round'[r] = <<>> THEN "complete" ELSE "tool"]
          /\ UNCHANGED <<outcome, order>>
    /\ UNCHANGED attempts

(* Does the model get to see how the tool ended?  A handler turns what is  *)
(* raised by the validation of the arguments or by the function into an    *)
(* error text; the result is serialized after that, with no handler.       *)
Told(end) == end = "returned" \/ (catching /\ end \in {"refused", "failed"})

(* Tool.run: the function has the context of the chat that the round began *)
(* with, and leaves a note there, which stays when it fails afterwards.    *)
UseTool(r, end) ==
    LET k == Head(round[r])
        noted == IF end = "refused" THEN lent[r] ELSE lent[r] \cup {Len(chat[r]) + 1}
        text == IF end = "refused" THEN Refusal(k) ELSE Result(k)
    IN  /\ lent' = [lent EXCEPT ![r] = noted]
        /\ Clone(r, noted)
        /\ \/ Told(end) /\ ToolStep(r, text) /\ UNCHANGED hurt
           \/ ~Told(end) /\ Fail(r)

(* The next call of the round; the tool may be unknown, and the arguments  *)
(* may not be JSON.                                                        *)
RunTool(r) ==
    /\ pc[r] = "tool"
    /\ \/ \E end \in ToolEnds : UseTool(r, end)
       \/ Fail(r) /\ UNCHANGED <<context, lent>>
    /\ UNCHANGED <<workflow, caller>>

CompletionStep(r, m) ==
    /\ chat' = [chat EXCEPT ![r] = Append(@, m)]
    /\ steps' = [steps EXCEPT ![r] = @ + 1]
    /\ round' = [round EXCEPT ![r] = CallsOf(m)]
    /\ lent' = [lent EXCEPT ![r] = context[r]]
    /\ attempts' = [attempts EXCEPT ![r] = 0]
    /\ \/ (AtLimit(steps[r] + 1) \/ m.kind # "calls") /\ End(r, "chat")
       \/ ~AtLimit(steps[r] + 1) /\ m.kind = "calls"
          /\ pc' = [pc EXCEPT ![r] = "tool"]
          /\ UNCHANGED <<outcome, order>>
    /\ UNCHANGED <<context, hurt>>

(* Fault: the last attempt is taken as it is.                              *)
LastIsTaken(r, m) == ~strict \/ m # Invalid \/ attempts[r] = NumRetries

(* An answer is checked when an output model is strict; calls never are.   *)
Accepted(r, m) == ~strict \/ m # Invalid

(* Fault: when the attempts are used up they are counted from the start.   *)
RetryAfresh(r) ==
    /\ attempts' = [attempts EXCEPT ![r] = IF @ < NumRetries THEN @ + 1 ELSE 0]
    /\ UNCHANGED <<pc, chat, round, context, lent, steps, outcome, order, hurt>>

(* A rejected answer: the model is asked again, or the validation error    *)
(* is raised.                                                              *)
Retry(r) ==
    \/ /\ attempts[r] < NumRetries
       /\ attempts' = [attempts EXCEPT ![r] = @ + 1]
       /\ UNCHANGED <<pc, chat, round, context, lent, steps, outcome, order, hurt>>
    \/ attempts[r] = NumRetries /\ Fail(r) /\ UNCHANGED <<context, lent>>

(* The model replies, refuses, replies with no choice, or the call fails.  *)
Complete(r) ==
    /\ pc[r] = "complete"
    /\ \/ \E m \in {Valid, Invalid} \cup Calls :
            /\ m \in Calls => Len(chat[r]) < MaxMessages
            /\ \/ Accepted(r, m) /\ CompletionStep(r, m)
               \/ ~Accepted(r, m) /\ Retry(r)
       \/ Fail(r) /\ UNCHANGED <<context, lent>>
    /\ UNCHANGED <<workflow, caller>>

Run(r) == Render(r) \/ RunTool(r) \/ Complete(r) \/ RenderAgain(r)

-----------------------------------------------------------------------------
(* The caller.                                                             *)
Kept(r) == outcome[r] = "chat" \/ policy # "skip"

(* Runs in the order of their inputs: the one at place i has i - 1 before it.*)
InOrder(chosen) ==
    [i \in 1..Cardinality(chosen) |->
        CHOOSE r \in chosen : Cardinality({q \in chosen : q <= r}) = i]

Raised == \E i \in 1..Len(order) : outcome[order[i]] = "raised"

(* Fault: the chats come in the order in which the runs ended.             *)
GatherAsEnded ==
    /\ ~streaming /\ answer = "none"
    /\ \/ Raised /\ answer' = "raised" /\ UNCHANGED results
       \/ ~Raised /\ Len(order) = NumRuns /\ answer' = "given"
          /\ results' = SelectSeq(order, Kept)
    /\ UNCHANGED <<workflow, pc, chat, round, context, lent, steps, attempts, outcome, order, taken, hurt>>

(* gather: the first run that raises ends the call, whose other runs go on. *)
Gather ==
    /\ ~streaming /\ answer = "none"
    /\ \/ Raised /\ answer' = "raised" /\ UNCHANGED results
       \/ ~Raised /\ Len(order) = NumRuns /\ answer' = "given"
          /\ results' = InOrder({r \in Runs : Kept(r)})
    /\ UNCHANGED <<workflow, pc, chat, round, context, lent, steps, attempts, outcome, order, taken, hurt>>

(* as_completed: the stream looks at the next run that ended.              *)
Stream ==
    /\ streaming /\ answer = "none"
    /\ \/ /\ taken < Len(order) /\ taken' = taken + 1
          /\ LET r == order[taken + 1]
             IN  \/ outcome[r] = "raised" /\ answer' = "raised" /\ UNCHANGED results
                 \/ /\ outcome[r] # "raised" /\ UNCHANGED answer
                    /\ results' = IF Kept(r) THEN Append(results, r) ELSE results
       \/ taken = NumRuns /\ answer' = "given" /\ UNCHANGED <<taken, results>>
    /\ UNCHANGED <<workflow, pc, chat, round, context, lent, steps, attempts, outcome, order, hurt>>

Over == answer # "none" /\ (\A r \in Runs : pc[r] = "over") /\ UNCHANGED vars

Next == (\E r \in Runs : Run(r)) \/ Gather \/ Stream \/ Over

Spec == ChatInit /\ [][Next]_vars
FairSpec == Spec /\ (\A r \in Runs : WF_vars(Run(r))) /\ WF_vars(Gather) /\ WF_vars(Stream)

-----------------------------------------------------------------------------
(* Type invariant of the runs and their caller.                            *)
ChatTypeOK ==
    /\ policy \in Policies /\ strict \in BOOLEAN /\ limit \in StepLimits
    /\ streaming \in BOOLEAN /\ catching \in BOOLEAN /\ beginning \in Beginnings
    /\ pc \in [Runs -> {"render", "tool", "complete", "render_again", "over"}]
    /\ chat \in [Runs -> Seq(Messages)] /\ round \in [Runs -> Seq(1..MaxCalls)]
    /\ context \in [Runs -> SUBSET Nat] /\ lent \in [Runs -> SUBSET Nat]
    /\ steps \in [Runs -> Nat] /\ attempts \in [Runs -> 0..NumRetries]
    /\ outcome \in [Runs -> {"none", "chat", "failed", "raised"}]
    /\ order \in Seq(Runs) /\ taken \in 0..NumRuns /\ results \in Seq(Runs)
    /\ answer \in {"none", "raised", "given"} /\ hurt \subseteq Runs

IsResult(m) == m \in Results

(* Every call of a message is followed by its result, in order, and there  *)
(* are no other results.                                                   *)
Paired(c) ==
    \A i \in 1..Len(c) :
        /\ c[i].kind = "calls" =>
              /\ Len(c) >= i + c[i].n
              /\ \A k \in 1..c[i].n : IsResult(c[i + k]) /\ c[i + k].n = k
              /\ Len(c) > i + c[i].n => ~IsResult(c[i + c[i].n + 1])
        /\ i > 1 /\ IsResult(c[i]) => c[i - 1].kind = "calls" \/ IsResult(c[i - 1])

(* Calls and results stay paired: whenever the model is asked, and in      *)
(* every chat that ended well, unless the step limit cut its last round.   *)
CallsAnswered ==
    \A r \in Runs :
        pc[r] = "complete" \/ (outcome[r] = "chat" /\ ~AtLimit(steps[r])) => Paired(chat[r])

(* What a tool left in the context is there for whoever holds the chat     *)
(* with its result, although every step clones the chat and although the   *)
(* tool may have failed after it.                                          *)
ContextKeepsUp ==
    \A r \in Runs : \A i \in 1..Len(chat[r]) : chat[r][i].kind = "result" => i \in context[r]

(* max_steps bounds the messages that a run adds, tool results included.   *)
(* A run that was not cut short ends in an answer, and if it ended well    *)
(* with a strict output model, in one that the model accepts.              *)
WithinStepLimit ==
    \A r \in Runs :
        /\ limit # NoLimit => Len(chat[r]) <= Len(beginning) + limit
        /\ outcome[r] = "chat" =>
             /\ AtLimit(steps[r]) \/ Last(chat[r]).kind = "answer"
             /\ strict => Last(chat[r]) # Invalid

(* The caller is told what happened.  An exception means a failure, and a  *)
(* policy that raises, or messages that do not render.  A list has the     *)
(* chats in the order of the inputs, a stream in the order of completion;  *)
(* those of failed runs are marked failed, or left out under SKIP.         *)
AnswerTellsAll ==
    /\ answer = "raised" => \E r \in hurt : policy = "raise" \/ steps[r] = 0
    /\ answer = "given" =>
          /\ policy = "raise" => hurt = {}
          /\ \A r \in Runs : outcome[r] = "failed" <=> r \in hurt
          /\ ToSet(results) = IF policy = "skip" THEN Runs \ hurt ELSE Runs
          /\ IsInjective(results)
          /\ ~streaming => \A i, j \in DOMAIN results : i < j => results[i] < results[j]

(* A run with a step limit ends, and a caller of such runs gets an answer: *)
(* rejected answers and tool rounds use up their attempts and steps.       *)
EveryRunEnds == limit # NoLimit => <>(answer # "none" /\ \A r \in Runs : pc[r] = "over")
=============================================================================
