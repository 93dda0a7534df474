# A verification project for Giskard

Giskard is a workspace of Python libraries that test LLM applications: scenarios
are run against a target, checks judge the trace, suites collect the verdicts.
This directory models the parts of it where control is hard to get right, checks
the models with TLC on small instances, and proves what matters most with TLAPS
for every instance.

The models are written from the code under `src/libs/`. `PROJECT.json` maps every
definition to the lines it stands for, lists the hazards at their lines, and names
for every property a mutation of the code that it notices.

Run `tlc -config X.cfg M` to check a run of module `M`, `tlapm M_proofs.tla` to
check proofs. The tables below say which run belongs to which module.

## 1. The system

| Library | Part | State it keeps | Operations |
|---|---|---|---|
| giskard-core | rate limiter | semaphore, `next_request_time` | `throttle`, cancellation at every await |
| | rate limiter registry | instances by id, weakly held | `register_instance`, `get_instance`, finalizer |
| | telemetry | anonymous id file, scope in context variables | create the id, enter and leave a scope |
| | discriminated unions, errors | registry of kinds | register, validate |
| giskard-agents | chat workflow | chat, messages, step number | `run`, `run_many`, `run_batch`, `stream_many`, validation, error policy |
| | tools | context of the run | `Tool.run`, error handler |
| | completion pipeline | none, a chain of middlewares | retry, throttle, call |
| | templates, embeddings | templates, batches | render, embed |
| giskard-llm | client and routing | configuration, provider cache | `configure`, `reset`, look up a provider |
| | providers, translators | none | translate, call over HTTP |
| giskard-checks | scenario builder | steps of a scenario | `interact`, `check`, `append`, `extend` |
| | scenario runner | trace, results of steps | interactions, checks, repeated runs |
| | input generators | turns of a conversation, template cache | next message, retry after a refusal, dataset look-up |
| | suite runner | tasks, permits, live tally | serial and parallel runs, cancellation |
| | results | none, immutable values | roll-ups, counts, grouping, messages |
| | combinators | none | `AllOf`, `AnyOf`, `Not` |
| | builtin checks, judges | none | find values in a trace, judge them |
| giskard-scan | suite generation | budget, scenarios | split the budget, run generators concurrently |
| | knowledge base | embeddings, matrix cache | compute lazily, search |
| | entry points | telemetry scope | generate, run, recommend, report to telemetry |
| | generator registries | generators of a scan | what a scan is given, by its use |
| | garak, deepteam, lidar bridges | threads, stamped conversations | run foreign probes against the target |

How they interact. `Suite.run` starts a scenario run per scenario, in an
`asyncio.TaskGroup` when parallel. A scenario run pulls interactions out of
generators (coroutines the runner recurses into) and hands the trace to checks,
which may be combinators of checks. Generators and judges send a chat workflow,
the workflow a completion, and the completion passes through retry, rate limiter
and provider. Limiter state, template cache, provider cache and embeddings are
shared by all scenarios of a process; everything else belongs to one run. The
scan builds suites and runs them; its bridges call back into the event loop from
threads.

What is hard in it: cancellation at any await inside the limiter and the task
groups, one of which may be nested in another; errors that travel through recursion
and have to carry partial progress; verdicts that are rolled up over four statuses in
three layers; shared caches filled by concurrent tasks behind locks; retries around
limits; threads and loops that wait for each other; files that several processes
create at once. The list of hazards, each at its line, is in `PROJECT.json`.

What makes each part right:

| Part | Correctness |
|---|---|
| rate limiter | permits conserved, no lost wake-up, slots and starts paced, nobody starved |
| completion pipeline | every attempt takes a slot, no permit is held while backing off, cancellation is not retried |
| results, combinators | a pass needs evidence, AllOf and AnyOf are dual under Not, a table accounts for every scenario, red comes with a reason |
| builtin checks | a key that finds nothing is an error that Not keeps, match modes are the quantifiers they are named after |
| scenario runner | a complete and truthful report, no interaction lost, nothing touched after the first failure, repeated runs start afresh |
| suite runner | one true answer, no scenario outlives it, no exception hidden, permits conserved, every run ends |
| template cache | one model call per schema, no stale lock, a failure is not cached |
| chat workflow | tool calls and results stay paired, failures surface as the policy says, a step limit holds |
| scan | budget kept though it is split twice, one failing generator ends all, one embedding of the documents, the lock left free, caller and telemetry told the truth |
| garak bridge | every name told once, no conversation green without a score, no deadlock of threads and loop |
| bridges | the trace of a scenario is its own conversation, all of it, in order |
| telemetry | concurrent first processes agree on one id, which survives crashes |
| limiter registry | equal limiters share one state as long as anybody uses it |
| client, provider cache | no provider of a superseded configuration is served |
| translators | a chat survives every provider, calls and results stay paired, refusals and transient errors are told apart |

## 2. Modules

| Module | Stands for | Builds on | Run |
|---|---|---|---|
| `AsyncSemaphore` | `asyncio.Semaphore` and `Lock`, as the libraries use them (external) | | with its users |
| `RateLimiter` | `MinIntervalRateLimiter.throttle` | `AsyncSemaphore` | `CompletionPipeline` |
| `CompletionPipeline` | `BaseGenerator.complete` with retry and limiter | `RateLimiter` | `CompletionPipeline` |
| `Results` | statuses, roll-ups, combinators as functions, messages | | with its users |
| `Composition` | `AllOf`, `AnyOf`, `Not` as loops over inner checks | `Results` | `Verdicts` |
| `SuiteReport` | counts, pass rate and `group_by` of a suite | `Results` | `Verdicts` |
| `GarakReport` | names, probes, detectors and conversations of a garak scan | `SuiteReport` | `Verdicts` |
| `Verdicts` | from checks, or from a garak scan, to the table; or builtin checks | `Composition`, `GarakReport`, `BuiltinChecks` | `Verdicts` |
| `MultiRun` | abstract: what `ScenarioRunner.run` promises about repeated runs | | `ScenarioRunner` |
| `ScenarioRunner` | scenario builder and runner, `with_interaction`, model-driven inputs, test cases | `Results`, implements `MultiRun` | `ScenarioRunner`, `ScenarioRunnerExhausted` |
| `SuiteContract` | abstract: what `Suite.run` promises its caller | | `SuiteRun` |
| `SuiteRun` | `Suite.run`, serial and parallel, with the task group | `Results`, `AsyncSemaphore`, implements `SuiteContract` | `SuiteRun` |
| `ChatWorkflow` | workflow runs, tools, and the callers of several runs | | `ChatWorkflow` |
| `AnonymousId` | the id file of telemetry, by system calls | | `AnonymousId`, `AnonymousIdConverge` |
| `TemplateCache` | the template cache of dataset generators and its lock | `AsyncSemaphore` | `GarakScan` |
| `GarakScan` | threads, event loop and pools of a garak scan | `TemplateCache` | `GarakScan`, `GarakScanCancelled` |
| `GenerateSuite` | `generate_suite`, its generators, the knowledge base | `AsyncSemaphore` | `Scan` |
| `Scan` | `quality_scan`, `vulnerability_scan` | `GenerateSuite` | `Scan` |
| `BuiltinChecks` | the builtin checks and judges over what a key finds | `Results` | `Verdicts` |
| `RateLimiterRegistry` | `register_instance`, `get_instance` and the finalizer | | `Clients` |
| `Routing` | configuration and cache of providers | | `Clients` |
| `Sublists` | what of a list is at some of its places, without recursion | | `Clients` |
| `Translators` | chats on the wire and back, errors of the SDKs | `Sublists` | `Clients` |
| `LLMClient` | a caller that grows a chat, and calls in flight | `Routing`, `Translators` | `Clients` |
| `TargetBridge` | traces kept for the scanners garak, deepteam and lidar | `Sublists` | `Clients` |
| `Clients` | one of the last three at work | `LLMClient`, `RateLimiterRegistry`, `TargetBridge` | `Clients` |
| `*_proofs` | theorems, for `AsyncSemaphore`, `CompletionPipeline` (with `RateLimiter`), `Verdicts` (`Composition`, `BuiltinChecks`, `SuiteReport`, `GarakReport`, and `Scan` with `GenerateSuite`), `ScenarioRunner`, `SuiteRun`, `ChatWorkflow`, `GarakScan`, `Clients` (the registry, the client, the bridges, and `AnonymousId`) | | |

No module declares a RECURSIVE operator; recursion is written as folds or as steps of
a state machine, so that every module can be proved about.

Definitions whose comment begins with `Fault:` are not part of any specification.
Each is a plausible bug in the code of the definition that follows it, and the
properties are checked to notice it (`mutants` in `PROJECT.json`).

### AsyncSemaphore, RateLimiter, CompletionPipeline

`pc[t]` is where a task is: idle, in the queue, handed a permit but not resumed
(`granted`), asleep until its slot, or running its request. `permits` and `queue`
are `_value` and `_waiters`. A release hands a permit to the first waiter; the
waiter takes effect when the loop resumes it, and a task that arrives in between
queues behind it. A cancellation reaches a task in the queue, after it was handed a
permit, or asleep, and each path gives back what it holds. A cancelled waiter leaves
the queue at once, which the code does when the task runs next; `Wakeable` counts only
waiters that were not cancelled, so nothing tells the two apart. `Reserve` is the code
between the entry of the semaphore and the `sleep`, which has no await and is one
step with the acquisition. Time is an integer; a sleep never returns early and is at
most `Lateness` late.

`CompletionPipeline` puts the retry around it: an attempt enters `throttle` anew,
and a failure at the model gives the permit back before the retry decides whether the
policy wants another attempt. Between two attempts a request is idle as the limiter
sees it, so the back-off is any time at all. `failures` is history.

### Results, Composition, SuiteReport, GarakReport, Verdicts

`Results` are the roll-ups as functions of sequences of statuses, the combinators as
functions of inner verdicts, and what `assert_passed` and the summary of a suite tell.
`Composition` steps through the loops of `AllOf` and `AnyOf`, with their early exits,
for every list of inner verdicts. `SuiteReport` builds the table of `group_by` scenario
by scenario, with repeated tags and with none.

`GarakReport` follows `GarakScanAdapter.run` from the names asked for to the scenarios
reported. A name is unknown, inactive, fails to load, or becomes a probe; duplicates
become duplicates. A probe gets a line-up of detectors that load or do not; each of
its attempts gets scores, too few scores, or an exception from every detector, per
conversation; and a conversation becomes a scenario of checks, or a skipped one.
`fate`, `made` and parts of `attempt` are history. The probes run in threads, but they
share nothing that is reported and are reported in their order, so that this module
takes them one after another; `GarakScan` has the threads.

`Verdicts` composes them: either the scenarios of a suite hold one combined check each,
or they are those of a garak scan, and in both cases the table is built from them. Or
one builtin check looks at all traces that there are, which shares nothing with the rest.

### ScenarioRunner and MultiRun

First a scenario is built by calls of its builder (`pc` is `"build"`): interactions
and checks join the last step, or a new one when that has checks already. Then it runs.
An interaction is given, comes from a generator, or from a generator that asks a model
(`"llm"`), whose `user` state is its turn and the attempts it has made for it.
`frames` is the recursion of `with_interaction`: the runner's trace and one trace per
open generator. A generator yields an interaction, yields another spec, ends, raises, or
goes wrong in stranger ways (`Mishaps`): the target raises `StopAsyncIteration`, an
`InteractionGenerationError` of another run comes out of it, the model refuses.
`produced`, `checked`, `broken` and `verdicts` are history: what really happened, for
the properties to compare the report with. `MultiRun` is the promise of `run` about
repetitions: it stops at the first run that does not pass or at the cap, and reports the
last run. The run `ScenarioRunner` checks that the runner implements it.

### SuiteRun and SuiteContract

Scenario `i` is task `i`. `noticed` are the tasks whose completion callback the group
has run: exceptions reach the group by callback, later than the task ends, and other
tasks may finish in between. `cancelling` are requests to cancel that the task has
not seen. A scenario may complete, raise, swallow the cancellation, or let a
`CancelledError` through that nobody asked for. `SuiteContract` says what the caller
gets: all results in order, or all exceptions, or a cancellation, when nothing is at
work any more.

### ChatWorkflow

A run renders its messages, runs the tools of a last message with calls, asks the
model, and so on; each message added is a step, and `limit` may fall anywhere. Of a
message only what steers the loop is kept. `UseTool` is `Tool.run`: arguments that the
function does not take, a function that leaves a note in the context of the chat and
then returns or raises, a result that cannot be serialized. With a handler
(`catching`) what the first two raise becomes a result that the model sees. `lent` is
the context that the tools of a round are given, `context` that of the chat: one object
in the code, which the fault `CloneAlone` splits. `Fail` is `_handle_error`; without a
step the messages are rendered again, which may fail once more. The callers are
`Gather` and `Stream`.

### AnonymousId

Each step is a system call of a process that may die before it. Files are told apart by
who created them, since an unlinked file lives on for those who have it open. The write
of the 36 bytes of an id is atomic. `alone` is history: the process met no other.

### TemplateCache and GarakScan

A probe thread puts a coroutine on the loop and blocks until that is done; the
coroutine needs a template, which needs the lock, which needs a model call in a thread
of the default pool. The lock outlives loops: `foreign` says that it belongs to a loop
that is gone, and refuses to be waited for. The probes have a pool of their own. The
caller may cancel; leaving the pool then blocks the loop.

### GenerateSuite and Scan

The registries give a scan its generators: those for quality, those that attack, or
these without the datasets that rule out commercial use. The units of work are the
categories of the adversarial generator (a task group inside the outer one), the
objectives of crescendo and goat (picked without an await), the dataset (a thread), the
two generators that look up documents, of one topic and of several, and the topics of
the out-of-scope generator (again a group of its own). The last three share the
embeddings, which are computed once behind the lock of the knowledge base. What has
nothing to do is done from the start: without a knowledge base, with a single document
for several topics, or when the target takes one turn and the generator is for many.
`stopping` are the generators whose units were asked to cancel, `aborting` the outer
group. `Scan` adds the run of the suite, of which it takes only what `SuiteContract`
promises, the recommendation, and what telemetry hears.

### BuiltinChecks

A key finds nothing, one value, or several; a value is a number, None, the empty text
or another one. Every check is one action from what its keys find, and from whatever its
engine answers (a regex, a schema, a policy, an embedding, a judge), to a verdict.

### RateLimiterRegistry

Limiters come, are dropped by those who use them, and are collected at any moment, one
by one in any order. Registration is two steps, since a collection between the look-up
of the map and the insertion runs the finalizer of another limiter: `Look` takes the map
of the id or makes one, `Enter` takes the state of an equal limiter or a new one. A map
is named after the limiter that it was made for, and so is a state. `swept` is history:
maps dropped while a limiter was about to enter them.

### Routing, Translators, LLMClient

`configs` and `providers` are the dictionaries of the client; a provider equals the
configuration that it was made from, and `serial` tells configurations apart. Names may
be spelled with blanks around them. A request keeps the provider it was begun with, so
that configuring and resetting may fall into it.

A chat is a sequence of messages with items; calls, results and reasoning have ids, and
the text of an item is its id. `Translators` says what each of the three protocols makes
of a chat: who is validated how, which messages are merged or grouped, which items are
left out, what names Google needs; and what comes back: refusals, unreadable blocks, the
ids that are made up for Google, the class of an error. Azure is OpenAI under other
names. In `LLMClient` a caller says something, answers the calls of the last reply in
their order, and sends the chat to any provider, so that a chat goes through several.
Callers do not call again right after a reply.

### TargetBridge

A scanner holds the turns of its talks and calls the bridge with them, concurrently
where it has several. A call recovers the id of the conversation from the turns, or makes one,
reads the trace, awaits the target, and puts the longer trace back; garak's cache is
popped in between. What the scanners do with the turns is external: garak makes the
next attempt from a copy of an earlier one, perhaps several from the same; the test
cases of deepteam may begin with turns that did not come from the target, and a tree attack
plays its best path again from no turns; lidar hands the thread back or begins another.
The traces are then reported one by one. `answered` is history.

## 3. Runs

| Run | Instance | Shows |
|---|---|---|
| `CompletionPipeline` | 3 requests of 2 attempts, 2 permits, interval 2, one tick late | permits, pacing and attempts, under failures and cancellation anywhere; nobody is starved |
| `Verdicts` | 2 scenarios of up to 3 checks and 2 tags; garak: requests of up to 2 of 2 names, 2 attempts, 2 conversations per scan, 2 detectors; builtin checks: 5 scalars, keys that find up to 2 | a pass rests on evidence, the table counts everything once, every name is told, broken keys stay errors, match modes obey the laws of quantifiers |
| `ScenarioRunner` | 2 steps, 1 interaction each, nested twice, 2 checks, 2 runs, 2 turns, 1 retry, trace of 2, every mishap | reports are complete and true; implements `MultiRun`; a run ends when its generators do |
| `ScenarioRunnerExhausted` (violated) | one step, one interaction | see Findings |
| `SuiteRun` | 3 scenarios, 2 permits, both modes | implements `SuiteContract`; the tally is true; every run ends |
| `ChatWorkflow` | 2 runs, limits 0, 2, 3 and none, 2 calls, 1 retry, 4 messages | chats well formed, context kept, limits and policies kept; runs end |
| `AnonymousId` | 3 processes | an id is left; what a crash left is repaired |
| `AnonymousIdConverge` (violated) | 3 processes | see Findings |
| `GarakScan` | 3 probes, 2 workers, 2 pool threads, 2 calls each | one model call, every probe reported, no deadlock |
| `GarakScanCancelled` (violated) | the same | see Findings |
| `Scan` | each registry, 2 categories, 2 objectives, dataset of 2, up to 2 documents, 2 topics, budgets 0, 3, 4 and none, both modes, 2 rounds of rules, 2 attempts at a topic | budget, embeddings, lock, answer and telemetry, under failures and cancellation anywhere; scans end |
| `Clients` | 4 limiters, 2 sets of fields; names mine and google, 2 changes, 2 tools, chats of 5 items, replies of 2 blocks; 3 talks, 3 calls, openings of 3 turns | limiters share their state, calls are served as configured, chats survive the translation, refusals and errors are told, traces show their own conversation |

Why these bounds are enough. Three tasks and two permits are the smallest limiter
in which one task waits while two hold, a freed permit is contended, and a queue of
two forms when one task hands over late; three scenarios on two permits have one at
work, one granted and one waiting, and an abort meets them in all those places. Two
attempts have a first, a last, and a back-off between them. Two steps show what a step
does to its successor. A nesting of two has an inner frame, an outer frame and the
runner. Two runs, of a scenario or a workflow, show what a repetition carries over and
what a sibling does. A limit of two cuts a round of two calls in the middle, one of
three behind it. Three processes are needed where one unlinks what a second created
while a third has it open. Two workers for three probes leave one probe in the queue.
Two categories and two topics have a sibling to cancel in each inner group. Two
detectors and two conversations have one that gives a score where the other does not.
Four limiters are two in a map, one whose collection drops it, and one that enters
meanwhile. A chat of five items holds a reply with two calls, their results and a turn
behind them, or two replies with a call each, so that ids that are made up may clash; odd messages,
formats and failures occur in chats of one message, while the client is configured
twice, and long chats have all their providers made before. Three attempts are a
conversation, one that goes on from it, and either another or a second branch of it.
`MaxCalls`, `IdleHorizon`, `MaxTrace`, `MaxMessages` cap counters and only cut
behaviours short. Larger shares of topics than `NumTopics` are left out of `Scan`, and
sets, dictionaries, nested lists and NaN out of `BuiltinChecks`.

`CHECK_DEADLOCK FALSE` appears where the system really may stop: callers of the
pipeline that have had their answers, a cancelled garak scan, which hangs, and callers
of a client or a registry, which may stop at any time.

The type invariants are proved (section 5) and not in the runs, which spend their time
on what could go wrong.

### Findings

Runs marked violated refute a sentence of the repository.

* `interact.py:234` takes a `StopAsyncIteration` of the target for the end of the
  inputs, and the scenario passes.
* `telemetry.py:117`: of two first processes one reads the file between the creation
  and the write of the other, takes it for a broken one and unlinks it; each goes by a
  stored id of its own.
* `_adapter.py:584`: a cancelled scan leaves the task group while a probe is in its
  thread, and then joins the pool on the loop that the thread is waiting for.

Met while modelling, without a run of their own:

* `min_interval.py:32` promises a minimum time between *starts*; the code spaces
  *slots*, and a late wake-up brings two starts together. What does hold is
  `StartsPaced`.
* `composition.py:94` says AnyOf passes when at least one check passes; an error
  before it ends the loop.
* `result.py:303` says `passed` means all steps passed; a step whose checks all skip
  ends the run, and the steps behind it were never run.
* `result.py:440` says the interaction index is None for a step without interactions;
  it is the index of the last interaction of an earlier step.
* `runner.py:120` says execution stops immediately when a check fails; the remaining
  checks of the step are run.
* `trace.py:165` passes on an `InteractionGenerationError` of the target's own as if
  it came from the recursion, and the runner's trace is replaced by a foreign one.
* `result.py:790` names the failed checks of a red scenario in the summary of a suite,
  and nothing when its input could not be generated.
* `dataset.py:102` keeps locks beyond the loop they belong to; a task of a later loop
  that has to wait for one fails.
* `workflow.py:492` renders the messages again under RETURN and SKIP; what fails
  there escapes as a raw exception.
* `comparison.py:276` and the docs of the other comparisons speak of a failure result
  where the code gives an error, and so does `text_matching.py:446` for a bad regex.
* `SemanticSimilarity` gives a failure for collections, so that Not of it passes; a
  wildcard key without a match is an empty list, for which the modes all and none pass;
  a keyword that normalizes to the empty text is found in every text.
* A cancelled scan sends no event of its end to telemetry, which listens for
  exceptions only.
* In a single-turn garak scan iterative probes are dropped without a marker, a probe
  that makes no attempt leaves nothing in the report.
* `garak/_generator.py:19` speaks of one linear trace per conversation. The attempts of
  an iterative probe share the id of their first reply: the first one reported takes the
  whole trace, with all branches in it, and those after it have none (`TracesTold` says
  so much).
* `base.py:33` says that instances with the same id and fields share their state; not
  when a collection between look-up and insertion drops the map that the new one enters,
  which is what `StateShared` excepts.
* `google.py:23` speaks of ids `call_0`, `call_1` and so on; the code numbers them by the
  length of the chat and the part, as it must.
* `errors.py` puts 401 and 403 under `AuthenticationError` and 408 under
  `LLMTimeoutError`. A permission denied by OpenAI or Anthropic is a plain `LLMError`,
  and a reply of status 408 a `BadRequestError` (Google) or an `LLMError` (the others).
* Errors that are no `LLMError`: messages of the role of old for functions and results
  of unknown calls (when serialized for Google), blocks that a translator does not know,
  and reasoning items of OpenAI that do not validate.
* An empty reply of Anthropic is an empty message on the wire the next time. Google's
  chats drop response formats that are dictionaries, and thoughts become text there.
* When the target raises `StopAsyncIteration` the bridges give the previous reply again,
  and lidar's report has the previous interaction twice.
* In singleturn mode a dataset scenario with several interacts would still take several
  turns, since only `max_steps` is clamped; the datasets named have one.

## 4. Fairness

The event loop runs every ready callback and task, in order, so that weak fairness per
task is what it gives. Nobody is ever obliged to call, to fail or to cancel.

* `CompletionPipeline`: time passes, requests are attempted, waiters that were handed
  a permit resume and sleepers wake, and the model answers or fails.
* `ScenarioRunner`: one task, which the loop keeps going, and generators that come to an
  end: without that a generator that yields for ever keeps the run for ever, as in the
  code.
* `SuiteRun`: ready tasks and callbacks run, and a scenario ends somehow. Swallowing a
  cancellation is not obliged.
* `ChatWorkflow`: each run and the caller proceed; tools and models return or raise.
  Only runs with a step limit are claimed to end.
* `GarakScan`: threads and coroutines proceed; `ScanEnds` is claimed for scans that
  were not cancelled, as `GarakScanCancelled` shows why.
* `Scan`: generation proceeds, the suite run ends (checked as `RunEnds` of `SuiteRun`),
  and the recommendation is answered.

`AnonymousId`, `Verdicts` and `Clients` claim nothing that needs fairness.

## 5. Proofs

Proved by TLAPS for every value of the constants:

| Theorem | Says |
|---|---|
| `CompletionPipeline_proofs!TypeCorrect` | the type invariant |
| `CompletionPipeline_proofs!QueueCorrect` | the queue holds the waiting tasks, each once |
| `CompletionPipeline_proofs!PermitsAreConserved` | free permits, permits on their way and permits held are `MaxPermits` together |
| `CompletionPipeline_proofs!WakeupsAreNotLost` | nobody queues at a free permit, unless a permit is on its way |
| `CompletionPipeline_proofs!SlotsAreApart` | reserved slots are `Interval` apart |
| `CompletionPipeline_proofs!StartsArePaced` | consecutive starts are `Interval` apart, less `Lateness` |
| `CompletionPipeline_proofs!PipelineThrottles` | the pipeline implements `RateLimiter` |
| `CompletionPipeline_proofs!AttemptsArePaced`, `PipelinePermits` | so starts are paced and permits conserved in it |
| `CompletionPipeline_proofs!PipelineTypeCorrect`, `AttemptsAreAccounted` | only an attempt that failed at the model is followed by another |
| `Verdicts_proofs!LoopsCompute` | the loops compute the functions of `Results` |
| `Verdicts_proofs!CombinatorsAreDual` | Not exchanges AllOf and AnyOf |
| `Verdicts_proofs!GreenIsEarned` | a green combination rests on a green check, or under Not on a red one |
| `Verdicts_proofs!RedIsExplained` | a case that did not pass has a message |
| `Verdicts_proofs!TableIsTrue` | the table of a suite hides nothing and invents nothing |
| `Verdicts_proofs!NamesAreTold` | every name a garak scan is asked for is told of, once or by its conversations |
| `ScenarioRunner_proofs!RunnerTypes`, `GreenIsOnEvidence` | a step passes only on checks that all ran |
| `ScenarioRunner_proofs!ReportsAreComplete` | the report covers every step and check, and the trace every interaction |
| `ScenarioRunner_proofs!IndexesAttribute` | the index of a step names its last interaction |
| `ScenarioRunner_proofs!StopsAtNonPass` | nothing happens behind a step that did not pass |
| `ScenarioRunner_proofs!NothingHidden` | a scenario is red just when something was, and has a message then |
| `ScenarioRunner_proofs!RunnerKeepsContract` | the runner implements `MultiRun` |
| `SuiteRun_proofs!SuiteTypeCorrect`, `TallyIsAlwaysTrue` | the live tally counts the scenarios that completed, each once, by their verdicts |
| `SuiteRun_proofs!SuiteKeepsContract` | a suite of any number of scenarios implements `SuiteContract` |
| `ChatWorkflow_proofs!ChatTypes`, `CallsAreAnswered` | the model is asked with every call answered |
| `ChatWorkflow_proofs!ContextIsKept` | what a tool left in the context goes with the chat |
| `ChatWorkflow_proofs!StepsAreBounded` | a run keeps to its limit, or ends in an answer that is accepted |
| `ChatWorkflow_proofs!AnswerIsComplete` | the callers of several runs are told of all of them |
| `Clients_proofs!AnonTypeCorrect`, `AnIdIsLeft` | first processes leave a stored id, unless one of them died |
| `Clients_proofs!AnIdIsRepaired` | a process that meets no other leaves a stored id and goes by it (a property of steps) |
| `GarakScan_proofs!ScanTypeCorrect`, `TheModelIsAskedOnce` | one probe at a time asks the model for the template, and none once it is known |
| `GarakScan_proofs!EveryProbeIsTold` | a scan reports on every probe, as an error just where something failed |
| `Verdicts_proofs!GenerateTypes`, `BudgetIsKept` | a suite stays within its budget, and does not fall short of it without a reason |
| `Verdicts_proofs!DocumentsAreEmbeddedOnce` | one unit at a time embeds the documents, and the lock is left free |
| `Verdicts_proofs!ScansTell` | a scan tells caller and telemetry what happened |
| `Verdicts_proofs!Complementary` | an operator and its complement compare the same values, with opposite results |
| `Verdicts_proofs!MatchLawsHold` | the match modes obey the laws of quantifiers |
| `Verdicts_proofs!BrokenKeysAreErrors` | a key that finds nothing is an error, whatever the check |
| `Clients_proofs!RegistryTypes`, `SharingIsKept`, `MapIsKept` | equal limiters share their state, and the map of an id is there while they are used |
| `Clients_proofs!ConfigurationCounts` | every call is served as its name is configured at that moment |
| `Clients_proofs!CallersAreTold` | a refusal is never an answer, and exactly what may pass is tried again |
| `Clients_proofs!ChatsAreTold` | a chat is told in full and in order, through every provider, and whoever made its calls |
| `Clients_proofs!AnthropicAccepts` | Anthropic gets sides in turn, and results right behind their calls, if the chat has them there |
| `Clients_proofs!TracesAreTold` | the trace of a talk is its own calls, in order, or what the scanner shows |

Assumptions: the named ASSUMEs of the modules and, for the limiter, that the set of
tasks is finite.

The argument for the limiter. Each operation of the semaphore is shown to preserve
`SemInv` (types, conservation, queue and wake-ups together) as a lemma of
`AsyncSemaphore_proofs`, so that every user of the semaphore can cite it. None of the
four is inductive alone: that a release keeps the permits needs the queue to hold only
waiting tasks, and that no wake-up is lost needs the permits to be conserved.
`CompletionPipeline_proofs` adds `Pacing`: pending slots are apart from each other, from the
slot of the last start and from the next free slot. That slots are apart is not
inductive by itself, because it does not say that the slot of a sleeper lies in front
of `nextTime` and at most `Lateness` behind the clock. The pipeline inherits all of it:
every step of the pipeline is a step of the limiter or leaves its variables alone.

The argument for the combinators. `Loop` says that the checks seen so far were run,
and that the position of the loop and its flags are the functions of exactly those
checks; duality then is a statement about two functions of one sequence.

The argument for the table, and for the names of a garak scan (`SuiteInv` of
`Verdicts_proofs`). `Table` says that each bucket counts the places of the rows grouped
so far that belong to it, per status: four disjoint sets of places, so that the total of
a bucket is bounded by the number of rows, and comparing it with the counts of the
suite is comparing sets. `Scored` says that a check in error, red or green is among
those of a conversation just when its detectors raised, or gave a high or a low score,
so far; the verdict at the end is then the roll-up. `Told` follows a name: while names
are resolved, a name comes at most once in the list that is still to do; while probes
run, each one that is still listed has nothing reported, and each one that is not has
exactly the rows that it is due. What is due to the probe at work lies in two places,
the conversations that ended and those that are being scored, which is why the
invariant counts both (`InHand`).

The argument for the scenario runner. `RunInv` joins where the run is (`Placed`), that the
innermost frame is the history of interactions and that each index splits it
(`Traced`), that the checks recorded for a step are those in its result, in order and
without gap (`Checked`), that a step that did not pass is the last one (`Stopped`), and that
the outcome is made of these at the end only (`Reported`). Neither `ReportIsComplete` nor
`IndexAttribution` is inductive: they speak of the end, and a generator that fails
half-way must find the trace of its caller as `Traced` has it. A foreign trace
(`Replaced`) voids `Traced` and nothing else. `MultiRun` is implemented because a step that
ends a run is a step of the contract on the statuses, and all others stutter.

The argument for the chat workflow. Runs are apart from each other: each step of a run
keeps what belongs to the others, and puts itself at the end of `order` when it ends. So
the parts of `ChatInv` about one run (`BlamedAt`, `MeasuredAt`, `NotedAt`, `RoundsAt`) are
proved for the run that steps, and the parts about the caller (`Ended`, `Answered`) from
the order alone. `CallsAnswered` needs what a chat is like in the middle of a round: it owes
the results of exactly the calls in `round` (`Owes`), every result added pays the first of
them, and the last one leaves a chat that is paired. `ContextKeepsUp` needs the context
that the tools of the round hold to be up to date as well.

The argument for the id. `IdInv` says that whenever the file is missing or empty while
processes are at work, one of them will see to it: it is about to create the file, or
to write what it created, or to find the file empty and unlink it. A process that
runs by itself (`Solo`) knows the path at each of its steps: the file it has open is the
one at the path, and after its own unlink there is none.

The argument for the template. `SemInv` again, for one permit, together with: who asks
the model holds the permit, and nobody does once the template is cached, because the
cache is looked at again behind the lock. `EveryProbeTells` adds what each probe has told
where it is (`TellInv`): a probe that is done has reported, as an error just when something
failed in it, and the pool is left without a cancellation only when all are done.

The argument for the scan (`ScanInv` and `Wanted` of `Verdicts_proofs`). `SemInv` once
more, for one permit, says that the lock is free when nobody is in it; `Embeds`, that
nobody makes the vectors once they are there. `Asked` says whose units are cancelled, and
why: they belong to a generator that was stopped, and generators are stopped only when
some unit failed or the caller cancelled. A unit that failed stays failed, so a scan in
which nothing failed and nobody cancelled has all units done, which is what its result
claims. `BudgetKept` is about sums, and is counted without adding: `Singles` is a set with
one element for each scenario. What the units are to make is mapped one to one into the
pieces of the budget (`Place` numbers a piece within the share of its generator: an
adversarial one by the split over categories, a topic by its place), so that there are at
most as many (`Fits`); and no unit makes more than it is to (`WantedOf`). That a
category does not fall short takes that the rules it has keep up with its tries.

The argument for the match laws. The modes look at the set of items only, and both
an operator and its complement raise for the same pairs.

The argument for the suite. `SuiteInv` joins `SemInv` with where tasks may be in each
mode (`Placed`), with verdicts only of scenarios that completed (`Judged`), with the
order of a serial run (`OneByOne`), with the group's knowledge (`Heard`: it has heard of
tasks that ended only, and has the exceptions of those that failed) and with silence
after the answer (`Quiet`). That an answer is steady needs that an ended task stays as
it is, which is the step property `Steady`; from the two every step maps to a step of
the contract or to a stutter.

The argument for the registry. A new limiter takes its state from its own map only, so
the invariant is about places: every limiter alive is in the map of the id, or in one
that was dropped while it was entered, and within a map equal limiters share. While one
is being entered no other map can be made, so that what it finds gone stays gone.

The argument for the client. A provider that is kept equals the configuration of its
name; configuring drops exactly that one, spelled as it may be, and a reset all. What
its callers are told (`OutcomesTold`) takes that a provider that was built has a type the
client knows, so that it is one of three lists of handlers that decides, by the first
one that fits; and that a message made of a reply that was refused holds the refusal
as an item, in the text or beside it, whatever else the provider sent.

The argument for the chats (`ClientInv` of `Clients_proofs`). What is in flight was made of
the chat as it is (`Sending`), as nothing is said while a call is; so both properties are
about what the translators make of one chat, and hold for the chats that can come about
(`ChatOk`). Of such a chat the calls of the n-th message were numbered with n, so that no
two functions have calls of one id (`Numbered`, `OneName`), and a result that the caller did
not make up has the id and the name of a call (`Matched`); a chat with another result cannot
be serialized for Google. Hence the name that Google gets for a result, that of the last
call with its id, is the right one.

The translators are made of three things: what is picked of a list (`Picked`), a function
of each element (`Mapped`), and lists behind each other (`Gathered`, which is the `FlattenSeq`
of the library). Each is shown to do to a list that is one longer what one expects,
and the rest is induction over lists (`AllLists`): a set of lists that has the empty one, and
with each those that are one longer, has them all. A chat is told (`ChatOnTheWire`) when
each of its messages is (`FormOfChat`), so that for each protocol it is enough to look at
one message (`ToldOneForOne`, `ToldInSteps`); that messages are merged for Anthropic does not
change what they are made of (`MergedKeeps`).

That Anthropic accepts them is not a matter of one message. `Arranged(list, sent)` relates the
conversation to what it is merged to: sides take turns, the last one is that of the last
message, and each group of the assistant is one message, with the m messages behind it, if
they are all results, as the first m items of the next group (`Follows`). For any
m: where the calls end is not known while the results come in. A group that is not the last
one does not grow; the last one grows by an item for each result as long as
results only have followed (`ArrangedBehind`, `ArrangedInto`), and that two messages of
the assistant are not merged is what `_validate_messages` sees to (`Alternates`).

The argument for the bridges (`BridgeInv` of `Clients_proofs`). Every id was minted
(`IdsMinted`), so that a new one is nobody's, and no talk moves once traces are reported
(`Reporting`). Beyond that each scanner rests on a fact of its own. Lidar asks once per
thread at a time: of the calls of an attempt, those kept are those answered, and the
one under way is the last (`LidarInv`). Deepteam goes by the newest stamp: no id is in two
test cases, and what is kept under the newest one, or with the call under way, is
exactly what the case has had answered in its round (`DeepteamInv`). Garak goes by the first
stamp, makes one attempt at a time, and pops: a conversation has the id of the attempt
that began it, alone; its trace is with the call under way or under that id, and is gone
once it was reported, so that only the first attempt shows it (`Rooted`, `Carried`).

`PairsAreRight` is the case of a talk that the target never answered: by induction over
the turns, the pairs made of the first n turns are right, and one that waits for its reply
is the last. The induction theorems of the library take an operator, so the lemma
`AllNumbers` states induction for sets of numbers, from the least element that
a set of numbers has; the recursive function `Pairs` is shown to exist in the same way.
`Those(list, places)`, what is kept of a list, is characterised by `ThoseSame` and `ThoseMore`:
what it becomes when the list grows.

Only model-checked: liveness and everything else that rests on fairness, which the
prover does not do. All other
properties of the passing runs are theorems.

### Abstractions to know about

* Of a chat, `ChatWorkflow` leaves out beginnings that a step limit of an earlier run
  cut in the middle of a round, and cancellation, which passes through a run as it is.
* Telemetry that the user opted out of is not modelled; it does nothing.
* The thread that loads a dataset outlives a cancellation in the code; what it does then
  is seen by nobody.
* There is one generator of each kind in `GenerateSuite`; gcg and prompt injection are
  datasets, and goat picks its objectives as crescendo does. Their conversations are
  those of model-driven inputs in `ScenarioRunner`.
* The registry of limiters has one thread, as its users have.
* In `TargetBridge` the target answers or raises; that it raises `StopAsyncIteration` is
  in `ScenarioRunner`.
* Schemas of tools, images, usage and parameters are left out of `Translators`.

## 6. What is left

Not modelled:

* exports: formatting of results, and HTTP to the hub;
* templates: strings processed by Jinja2 in a restricted environment;
* embeddings: one sequential loop over batches around I/O;
* discriminated unions: classes registered at import time, on top of pydantic;
* scopes of telemetry: a context variable that is set and reset around a call; events
  are I/O;
* the selection of names for deepteam and lidar, and the verdicts made of their scores:
  case distinctions without state, of the kind that `GarakReport` has;
* coercion of provider specifications into judges, schemas made of signatures and
  docstrings: data;
* HTTP calls and console output.
