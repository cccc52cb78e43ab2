# OperateBench in TLA+

OperateBench runs long operations (a repair in a rented flat, a return in a
shop) in simulated time against an agent that is woken by events, and grades
what the agent did. What a grade is worth depends on the machinery under it: on
an engine that keeps time, identities, reads and finality straight whatever the
agent answers, on domain operations that keep money, approvals and duties
straight in every order of events, and on journals that say what really
happened. These modules state what that machinery promises, check it on small
instances with TLC and prove part of it for all instances with TLAPS.

Paths below are relative to the package, `src/operatebench/`, unless they start
with `docs/`, `tools/` or `boundarybench/`.

## 1. Inventory

The repository holds one package for operations, `operatebench`, an older one
for single decisions, `boundarybench`, and tools, tests and studies around them.
`PROJECT.json` lists every component with its status.

| Component | State | Operations | Correct when |
|---|---|---|---|
| **Episode engine** `core/engine.py`, `events.py`, `clock.py`, `protocol.py` | clock, queue, seen identities, timer counter, conditionals, standing wait and its fallback, invocation counters, served reads, halt | deliver, fire a fallback, invoke, serve a batch, propose, wait, ask, escalate, complete, finish | time never rewinds, an identity is used once, decisions rest on current reads, a finished operation stays as it is, every budget holds and every episode ends for a stated reason |
| **Maintenance operation** `domains/lettings/maintenance/operation.py`, `state.py` | phase, work cycles, quotes, approvals, exceptions, owner, invoices, one payment, duties, notices, provisional close | 17 reducers, 7 actions, 2 terminals, 4 kinds of timer | money moves only for approved and verified work, every human checkpoint is timed and ends, nothing is owed at the end, a window gives the customer its whole time |
| **Read contract and retrieval** `core/read_contract.py`, `retrieval.py` | none of its own | resolve which reads an outcome requires; canonical batches | a required read is one the tool really owns |
| **Audit budget** `core/audit_budget.py` | committed intents, one active transition, halt record | begin, reserve, consume, commit, abort, mark finality | an intent is charged once, with its whole transition and within the declared limits; a halt is for ever |
| **Commerce return and refund** `domains/commerce/return_refund/` | authorisation, handover, inspection, approval, refunds per cycle, duties, provisional close | 7 reducers, 4 actions, 3 endings, 4 kinds of timer | one refund at a time and only an approved one, a reversal reopens, a cool-down lasts its whole time |
| **Profile operations** `domains/commerce/return_refund_profiles/`, `contributions/prospire/` | dictionaries of the same kind | the same shape | entitlement and readiness follow the facts |
| **Turn executor and cost guard** `providers/executor.py`, `agents/pricing.py` | attempts of a turn, deadline, reservation, measured and forfeited spend | authorise, dispatch, classify, back off, settle, forfeit, cancel | no attempt without time and money for it, no reservation left open, spend within the cap unless a breach stops the run |
| **Execution ledger** `execution_ledger.py`, `agents/evidence.py`, `partial_evidence.py` | rows on disk, chain tip, poison, terminal row | record a call, finalize, roll back, read | a file never reads as complete unless the run was |
| **Playback and runner** `agents/playback.py`, `runner.py` | decision tape and cursor | execute, re-execute, compare | a recorded run reproduces itself |
| **Write-once files** `_write_once.py` | held directory descriptors | create, fsync, check the namespace | what was returned is what was written, there |
| **BoundaryBench runs** `boundarybench/runner.py`, `ledger.py`, `budget.py` | run directory, append-only episode ledger, run-wide spend | plan, resume, run an episode, append, stop | an episode runs once, the books agree across restarts, nothing follows a terminal row |
| **Campaigns** `tools/three_flow_campaign.py`, `three_flow_budget.py`, `aggregate_budget.py`, `three_flow_errors.py` | one journal of reservations for all worker threads, model locks, a stop gate, files per trial | assign, bind, reserve, dispatch, announce, settle, forfeit, close, archive, resume | a trial reaches its provider in one invocation only, what it was billed is on the journal, threads keep one cap |
| **Evaluators, oracles, cards, artifacts, identity** | none between calls | pure functions of finished records | grading follows its definition |
| **Adapters, model agents, scaffolds, command lines, tools** | I/O and text | convert | (not modelled) |

How they interact. The engine owns the clock and the queue and calls a domain
through `core/protocol.py`: the domain reduces an event or an action, answers
with a verdict and arms or cancels timers through the context it is handed. An
accepted action or event releases *conditional* events of the scenario. The
agent is a callback, `decide`, that runs only inside an invocation. A model
agent calls a provider through the turn executor, whose attempts are reserved
against the cost guard and written to the execution ledger. Runner, playback,
artifacts and evaluators read what an episode left behind.

A BoundaryBench run and a campaign sit above single episodes: they play many of
them under one budget, in invocations that may be killed and resumed.

What is hard. An episode is single-threaded, so interleaving there is the order
in which events, timers, fallbacks, reactions of the world and proposals of the
agent meet, and none of them waits for another: timers outlive what they were
armed for, answers meet deadlines at the same instant, evidence comes late,
windows are left and entered again, an agent acts on what it read before its own
last action. On the provider side requests fail, answers cost more than was
reserved and processes die between two rows. A campaign adds real threads: they
share a journal that one failed append breaks for all of them, and a gate that
one lost provider closes for all of them. `PROJECT.json` "hazards" lists each
one at the line where it bites, with the property that watches it.

## 2. Plan

What the first plan asked for is built, in this order: `EventQueue`, `Engine`
and their proofs; `Maintenance` with `Checkpoint`; `TurnExecutor` over
`CostGuard`, and `ProviderEpisode`, which composes it with `ExecutionLedger`;
`BenchRun`; `AuditBudget` with `AuditAccount`; `Commerce`; `Campaign` over
`CampaignBudget`; the proofs about each of them, and the laws of sums the money
rests on (`SumProofs`).

| Module | Extends | Implements (checked as a property) |
|---|---|---|
| `Engine` | `EventQueue` | |
| `Maintenance` | `EventQueue` | `Checkpoint`, once for each approval |
| `Commerce` | `EventQueue` | `Checkpoint`, for the handover |
| `TurnExecutor` | `CostGuard` | `SpendingCap` |
| `ProviderEpisode` | `TurnExecutor`, `ExecutionLedger` | |
| `BenchRun` | | |
| `AuditBudget` | | `AuditAccount` |
| `Campaign` | `CampaignBudget` | `SpendingCap` |

What would come next, in this order: the domain contract the engine relies on
(refused means unchanged, final means refused) as an abstract specification of
which `Maintenance` and `Commerce` are instances; the profile operations; the graders as operators over bounded
trajectories.

## 3. Modules

### EventQueue and Engine

`EventQueue` is `core/events.py` as operators on a record: what is pending, and
every identity ever used. An event is its identity, minute and sequence number,
all that `Event.order_key` looks at. Timers are numbered from `TimerBase` in the
order they are armed (`TIMER_SEQUENCE_BASE`).

`Engine` has one action per outcome of one turn of `run`'s loop (fallback,
horizon, quiet world, delivery after the end, rejected, accepted) and one per
answer of the agent inside `_invoke`. `pc = "agent"` is the call of
`agent.decide`, the only time control is outside the engine.

| Model | Code |
|---|---|
| `queue`, `timerCount`, `conditionals` | `self.queue`, `_timer_counter`, `_conditionals` |
| `standing`, `fallbackAt` | `_active_wait`, `_fallback_at` |
| `invocations`, `business`, `turn`, `batches` | the allowance of the episode and the budgets of one invocation |
| `served`, `readHistory`, `claims` | `_served`, tools ever served, claims of the waking event |
| `rejection`, `violation`, `status` | `_last_rejection`, the critical violation and the status of the outcome |
| `version`, `final` | the domain: what a record says now, and `is_replay_final` |

The domain is *any* domain that keeps the protocol: an accepted verdict may
rewrite any record, cancel any timers, arm any set of fresh timers in any order
and finish the operation; a refused one changes nothing. The agent is *any*
agent: it may answer with a malformed outcome, an illegal batch, a stale
proposal or a wait on an unknown event type at every turn. A proposal is a type
and whether it cites a claim; a record is its version. Canonical state hashes,
the core ledger and message texts are left out.

### Maintenance and Checkpoint

`Maintenance` is the maintenance operation over its own queue of timers. Every
reducer, action and terminal of `operation.py` that moves the record is one
action; a refusal is no step. Authored events may come at any instant and in any
order the reducers admit, and the agent may propose anything, so the module
holds for every scenario over the quotes, invoices and answers of the constants.
`Timer` delivers due timers in queue order, accepted or refused, and `Advance`
lets a minute pass when nothing is due, as the engine does.

| Model | Code |
|---|---|
| `phase`, `current`, `cycles`, `resolution` | `phase`, `current_cycle_id`, `cycles` with the visit folded in (one visit per cycle), `customer_resolution` |
| `quotes`, `approvals`, `exceptions`, `owner` | the same, each reduced to status, instants and what it points at |
| `invoices`, `payment` | the same; amounts are compared and never added |
| `obligations` | duties by kind and by cycle or checkpoint, the identities the code builds |
| `notices` | `communications`, as the set of what was sent about which cycle on which channel |
| `closing`, `terminal` | `provisional_close`, `terminal` with `replay_final` |
| `failed` | a `DuplicateEventError` that left the run: `EventQueue.schedule` raised |

What the module assumes and why: a scenario opens with the report of the issue
(`UnderWay`), as every shipped one does; which dispatches fail is fixed for a
scenario (`DispatchFailures`), as it is in the plan; amounts are positive, as the
specification of the pack requires. Evidence citations, actor authority and
payload schemas can only refuse, and a refusal is no step, so leaving them out
allows more behaviours and never fewer: an invariant that holds here holds with
them. A violation could in principle rest on an action the citations would
refuse; each counterexample below was read against the guards of the code, and
all of its steps can cite evidence that exists by then.

`Checkpoint` is what one human approval promises, without timers or queue: it
opens once, its reminder and its expiry come at their instants and in that
order, it is answered in time or expires, and time does not pass over either.
`Maintenance` maps each approval onto it (`Decision(k)`), and the property
`DecisionsKeepTheirPromise` is that every step of the operation is a step or a
stutter of each.

### Commerce

`Commerce` is written like `Maintenance`, for one claim: one action per reducer,
agent action and ending of `return_refund/operation.py`, over its own queue.

| Model | Code |
|---|---|
| `phase`, `current` | `phase`, `current_cycle_id` (the first cycle and the recovery cycle) |
| `authorisation`, `handedOver`, `inspection`, `checkpoint` | the records of the return, reduced to status and instants |
| `refunds` | per cycle, the refund and its settlement |
| `obligations`, `notices` | the eight kinds of duty, and the committed messages with the cycle each names |
| `provisional`, `terminal` | the cycle closed with the end of its cool-down, and the ending |

Every refund of the policy is a high-value one (`spec.py:798` refuses a threshold
above the refund), so none is requested without an approval. A second reversal,
of the recovery cycle's refund, leaves the operation reopened in a cycle that has
its one refund: nothing can be requested and the episode ends at its horizon.
`ReopenedCanRecover` states the contrary and TLC refutes it on `MCCommerce.cfg`; no
sentence of the repository promises it.

### CostGuard, TurnExecutor and SpendingCap

`CostGuard` is `LifecycleCostGuard` (`agents/pricing.py`) as operators on a
record: `Admits` and `Authorize`, `Settle`, `Forfeit`, `Cancel`, `TakeEvents`. A
request is its size, which fixes its price and its token exposure; tariffs that
change above 200,000 tokens are two sizes.

`TurnExecutor` is `TurnExecutor.run`: the loop of attempts of one turn. `pc` says
what the loop waits for (the guard at the `top`, the last local check when
`admitted`, the provider when `inflight`), and every `return` and `raise` of the
code is an action that ends the turn.

| Model | Code |
|---|---|
| `clock`, `origin`, `budget`, `cancelled` | the deadline and the timeout handed to the SDK |
| `guard` | the guard of the run |
| `attempts`, `wait` | locals of the loop |
| `record`, `reason`, `result` | the telemetry of the turn, its terminal reason, and how `run` left its caller |
| `sent`, `charged`, `overrun` | what really left and what was billed for it (external) |

Assumed: an SDK returns within the timeout it was given; an attempt whose answer
was lost is billed at most its reservation; an answer that costs more than its
reservation is measured. What `run` does not catch (an exception of the caller's
last check, an operator's stop) leaves the loop as `"escaped"`, with its
reservation outstanding: the Mistral adapter's `_check_before_dispatch` calls an
observer there.

`SpendingCap` is the promise, of one actor or many: hold an amount under the cap
before spending it, spend at most what is held, put every overrun on record.

### ExecutionLedger and ProviderEpisode

`ExecutionLedger` is the journal of one run as a writer and a file: an append
writes, may fail half-way and roll back, or poison the writer; a crash leaves any
prefix of what was written; the reader gives a `Verdict`. `ProviderEpisode`
composes it with the executor: `run_episode` asks for decisions, each of them one
call row before the next turn, then finalises and binds the artefact. `how` and
`code` are how the episode ended, `failure` what broke of the recording itself,
`stop` the control that stopped the run, `bound` what the artefact states.

`MaxAttempts` is 1 there because the Lifecycle policy allows one attempt
(`agents/openai_responses.py:258`); `max_transport_calls` is merged with
`check_call_budget`, which has the same value. Wire capture and the partial
evidence file are left out. That the writer never refuses a call that was made is
checked through `RunEnds`, whose actions stop where the code would raise.

### BenchRun

One action per step of `boundarybench/runner.py` that another invocation can
see: take the lock and the plan, recover what the rows say, play the attempts of
an episode, append its row, stop after `--stop-after`, or die anywhere. `run`,
`guard` and `episode` are lost with the process; `manifest` and `file` stay;
`actual` is what the provider billed, which no program knows.

### AuditAccount and AuditBudget

`AuditBudget` is the runtime of `core/audit_budget.py`, which replaces one
immutable state by the next under a lock, so each call is a step: a transition
begins, reserves batches, consumes their intents in order, commits or aborts; a
refusal publishes a halt record if the record validates. The history is the set
of committed intents, each with its place among those of its batch (`ordinal`) and
in the whole history (`position`, the code's `operation_committed_count`); the
running count and the counters of each source are kept beside it, as in the code,
and `IntegrityValid` derives them again from the rows. `AuditAccount` is what it
promises without reservations. Digests are compared and never collide here; a
malformed state and a count beyond 64 bits cannot be reached from the outside and
are left out, and so are requests of more than 99,998 intents, which meet the
refusal an empty one meets.

### CampaignBudget and Campaign

`CampaignBudget` is the reducer and the journal of `tools/aggregate_budget.py`
and `three_flow_budget.py`: a book of reservations, and a file that an append
makes durable before memory shows it. `Campaign` is `run_campaign`: the worker of
each trial, the lock of its model, the stop gate, its files, and the invocation.

| Model | Code |
|---|---|
| `life` | which invocation this is; whether it recovers the budget, runs or ended; the report it wrote |
| `ledger` | the budget object, its file, `broken` |
| `gate` | `MetaRatePacer.stopped` and its `model_locks` |
| `trial` | the locals of `worker` and of the request in flight |
| `files` | `assigned`, `binding` and `closure` of a trial: absent, torn or whole |
| `rows` | what the worker returned: pending or closed, with its cost |
| `world` | what the providers billed, and in which invocations (ghost) |

Left out: corrections, the River lane, rate windows (a lane that waits for quota
holds no lock), reports other than what `terminal.json` says, the content of a
binding and the replay of retained evidence. A trial's files are given up one
rename after another; a crash between them is a behaviour of the model, and the
trial that kept a file is then closed without having been played or charged. A
journal that ends in a torn row, or a torn `assigned` file, makes every
resumption raise, although `docs/THREE_FLOW_CAMPAIGN.md:49` says that a
resumption closes what was interrupted. A row written while the journal is broken
may be too low (`doubtful`); the next invocation reconciles it.

The `MC*` modules hold the plans, quotes, prices and trials of the small
instances. Definitions commented *Mutant* are plausible bugs of the definition
that follows them; no specification uses them.

## 4. Runs

### 4.1 Passing

| Run | Question | Instance, distinct states |
|---|---|---|
| `engine` | Does the engine keep time, identities, reads, budgets and finality, is the ending on record the one that happened, and does every episode end? | `MCEngine.cfg`, 264,199 |
| `maintenance_approval` | Do visits and approvals agree with their timers and duties and keep the promise of `Checkpoint`; does silence end? | one quote, two checkpoints, six minutes, 260,191 |
| `maintenance_revised` | Do answers and expiries reach the right version of a quote; is booked work approved? | two versions, two checkpoints side by side, three minutes, 374,748 |
| `maintenance_billing` | Does money follow verified work through close and reopening; does every window have its timer; are cycles kept? | one quote, one invoice, three cycles, two scopes, three minutes, 546,197 |
| `commerce` | Is at most one refund live and approved, do duties say what happened, does a cool-down last, does the handover keep the promise of `Checkpoint`, does silence end? | two refund cycles, six minutes, 115,856 |
| `turn_executor` | Are money, tokens and time kept on every exit of the retry loop, is every request accounted for, does every turn end, does the guard implement `SpendingCap`? | two turns of three attempts, three sizes, 366,205 |
| `provider_episode` | What does a journal say after any failure, and does every run end? | two calls, every append may fail, 78,620 |
| `bench_run` | Do guard, rows and bills agree across invocations, and does nothing follow the end? | two episodes of two turns, three invocations, 721,697 |
| `audit_budget` | Does the runtime publish only what its integrity check accepts, and implement `AuditAccount`? | two sources, three transitions, five intents, 3,262 up to symmetry |
| `campaign` | Is a trial played in one invocation only, what was billed on file, every row true, one cap kept by all threads, and does every invocation end? | three trials on two threads, a crash, one fault, 392,372 |

A property is a conjunction of named parts where they need one instance:
`TimeIsKept` is `NothingOverdue`, `AuthoredBeforeTimers` and `WithinHorizon`;
`JournalIsTrue` is `JournalIsReadable`, `EndingIsTrue` and `BindingIsDurable`;
`BooksAreTrue` is `GuardMatchesRecord`, `CapHolds` and `LedgerIsSound`; and so on
in each module, every part with a comment of its own.

### 4.2 Violations

| Run | The code | The sentence |
|---|---|---|
| `finalized_early` | the close timer of a window that was left finalizes a later window before its time; commerce, whose cool-down handler asks for the identity of the timer, passes `CooldownIsKept` | docs/METHODOLOGY.md:239 |
| `audit_refusal` | a refusal in the name of an undeclared source is rejected by the validator of halt records, so nothing halts and the episode ends as a success | docs/DOMAIN_GENERATED_AUDIT_BUDGET_PROTOCOL.md:265 |

### 4.3 Other disagreements

Each of these properties stays in its module with a configuration that checks it
alone, outside the runs of `PROJECT.json`; TLC refutes each within a minute.

| Property | Instance | The code | The sentence |
|---|---|---|---|
| `NothingWakesAFinishedOperation` | `MCEngineFinality.cfg` | the fallback of a wait declared before the operation finished still invokes the agent, which can only be refused | engine.py:978 |
| `RevisionEndsApproval` | `MCMaintenanceRevision.cfg` | the approval of version 1 books work after version 2 was received | docs/METHODOLOGY.md:235 |
| `CompletionOwesNothing` | `MCMaintenanceOwing.cfg` | evidence for another cycle opens a duty inside the window; the timer does not look at duties | docs/METHODOLOGY.md:238 |
| `NoCloseOverAnOpenQuote` | `MCMaintenanceOpenQuote.cfg` | completion does not look at quotes | docs/METHODOLOGY.md:188 |
| `NoDuplicateTimer` | `MCMaintenanceTwiceClosed.cfg` | closing, leaving the window by asking for approval, and closing again reuses a timer identity: the error escapes the run | core/errors.py:3 |
| `ClosedWorkIsPaidFor` | `MCMaintenanceTwoJobs.cfg` | one payment record serves two payable cycles | state.py:10 |
| `FailureIsExcluded` | `MCProviderEpisodeEnding.cfg` | an answer that was measured and then cannot be read ends as a provider failure whose terminal row the journal refuses: the file has no ending | runner.py, `run_episode` |
| `BreachIsReadable` | `MCBenchRunBreach.cfg` | a response above its reservation, after cheaper turns, is written as a breach the reader of the ledger refuses | boundarybench/budget.py, `settle` |
| `CapSurvivesInterruption` | `MCBenchRunCap.cfg` | what an episode spent before its row is lost with the process, so a resumed run may spend it again; `CapHolds` counts it as `lost` | boundarybench/budget.py:552 |

Two more are too small for a property: the note `RUN_TERMINATED_NOTE`
(`boundarybench/runner.py:183`) says that two outcomes stop a run, and
`RUN_TERMINAL_OUTCOMES` (`boundarybench/ledger.py:463`) has four; and a terminal
row whose fsync and whose rollback both fail is whole on file, which then reads as
complete, as it was.

### 4.4 Bounds and why they are enough

* Engine: three authored events, one at the start, one on the same minute as the
  earliest timer, one released by the agent's message; one timer identity, two
  delays, two record versions and an unavailable one; two business turns, one
  batch, two invocations, horizon 3. Every tie the order can have (authored
  against timer, event against fallback, either against the horizon) occurs, and
  every budget is reached; a third invocation only repeats what the second adds.
* `TimerBase = 10` is above every authored sequence number of the instances, as
  the code's constant is above every list of events.
* Maintenance: `MaxCycle` and `MaxCheckpoint` cap what the agent can open. Two
  checkpoints are the least that can stand side by side; three cycles allow a
  diagnosis, payable work and a warranty revisit, or two revisits in a row.
  Reminder 1, deadline 2, follow-up 2 and window 2 minutes keep reminder and
  deadline apart and let timers of different kinds fall due together; `Horizon`
  is at least one whole window or deadline after work can start. `Validity` 3
  lets a quote lapse in the longer run. `World` names the answers that authored
  events of an instance may give; between the runs each answer occurs. In the
  approval run the transfer notice fails on the primary channel and the secondary
  channel of version 0.7.0 recovers it.
* Commerce: six minutes hold a handover with its reminder and deadline, an
  approval, two cool-downs and a reversal between them.
* Executor: two sizes that cost the same and differ in tokens, and one that costs
  more; a cap of four that two turns reach; a preparation that leaves the whole
  budget or less than none; backoff 1 then 2 against a budget of 4, so that a
  pause fits or does not; `MaxOverrun` 1. `MaxTurns` bounds the run.
* Episode: two calls are the least after which a run can have an earlier row and
  an open one. `MaxTurns` 3 exceeds `MaxCalls`, so the call budget is what stops.
* BenchRun: two episodes, staged one at a time or not at all; three invocations
  let one resume after a resumed one. `Cap` 3 is passed by bills of 2.
* Audit: one source of two intents once and one of one intent twice; three
  transitions and five intents pass each limit by one. Intents and transitions
  are interchangeable (`SYMMETRY`); no liveness is checked there.
* Campaign: `t1` and `t3` share a model, so a lock is contended, `t2` has another;
  two threads for three trials leave one queued when the gate closes; `t1` makes
  two requests, so it can be barred with one already sent; `t2` is billed more
  than a request may cost; the cap holds three requests at their largest, and a
  fourth is refused. `MaxLives` 2 and `MaxFaults` 1 give a crash, or a failed
  write and a resumption. Trials outside the gate pass it without a step of their
  own and are not in the instance.

`CHECK_DEADLOCK FALSE` stands in configurations whose system really ends: an
operation becomes final or the clock reaches its bound, a run is over or dead, an
operator need not resume. The engine states its end as a stuttering action.

### 4.5 Fairness

`Engine!FairSpec` is weak fairness of the next step: one thread runs the loop to
its end, and `agent.decide` returns (the transport gives every turn a deadline).
`Maintenance!FairSpec` and `Commerce!FairSpec` ask weak fairness of the passing of
time and of the delivery of due timers only, which is what the engine's loop does
as long as the operation is not final; nothing is assumed of humans, suppliers,
carriers or the agent, and the properties look only at what falls due within the
clock's bound. `TurnExecutor!FairSpec` is weak fairness of `Loop`: an SDK returns
within its timeout; nobody has to begin a turn or cancel a deadline.
`ProviderEpisode!FairEpisode`, `BenchRun!FairSpec` and `Campaign!FairSpec` are
weak fairness of the program's own steps; starting, resuming, cancelling and
crashing are never obliged. In the campaign this is weak fairness of *some*
worker, not of each: a thread that waits for its model's lock moves only if the
holder lets it go, and that it does is what `InvocationEnds` shows.

## 5. Proofs

Each theorem is of the whole specification, for every value of the constants
that satisfies the named assumptions of its module.

| Module | Theorem | Statement |
|---|---|---|
| `EngineProofs` | `TypeCorrect` | `Spec => []TypeOK`, with every counter inside its limit |
| | `IdentitiesAreUsedOnce` | `Spec => []IdentityUsedOnce` |
| | `TimeKept` | `Spec => []TimeIsKept` |
| | `ContextStaysCurrent` | `Spec => []ContextIsCurrent` |
| | `BudgetsHold` | `Spec => []WithinBudgets` |
| | `EndingsAreExplained` | `Spec => []EndingIsExplained` |
| | `SpentStaysSpent`, `FinalIsFinal`, `ReactionsAreEarned` | the step properties `NoIdentityReturns`, `FinalityHolds`, `ReactionRestsOnCurrentReads` |
| | `AgentCallsAreBounded` | `Spec => CallsRunOut`: the agent is asked `MaxInvocations * CallLimit` times at most |
| | `EpisodesAreShort` | `Spec => EpisodeRunsDown`, where identities are finitely many |
| `ProviderProofs` | `TypeCorrect`, `GuardExact`, `ExitsAccounted`, `BudgetKept` | the four invariants of the run `turn_executor` |
| | `GuardKeepsTheCap` | `Spec => KeepsTheCap`: the executor implements `SpendingCap` |
| | `MoneyUnderCap` | so money stays under the cap but for overruns on record |
| | `JournalTrue` | `EpisodeSpec => []JournalIsTrue` |
| | `SpendOnFile` | `EpisodeSpec => []SpendIsOnFile` |
| | `TurnsAreShort` | `Spec => TurnRunsDown`: a turn takes `3 * MaxAttempts + 2` steps at most |
| `CommerceProofs` | `RecordKept` | `Spec => []RecordIsTrue` |
| | `CooldownKept` | `Spec => CooldownIsKept` |
| | `HandoverKept` | `Spec => HandoverKeepsItsPromise`: the handover implements `Checkpoint` |
| `MaintenanceProofs` | `TimersForDuties` | `Spec => []DutiesHaveTimers` |
| | `WorkUnderApproval` | `Spec => []ApprovalsGovernWork` |
| | `WindowIsTimed` | `Spec => []WindowHasItsTimer` |
| | `ApprovalsAreCheckpoints` | `Spec => DecisionsKeepTheirPromise`: each approval implements `Checkpoint` |
| | `CyclesKept` | `Spec /\ []NextCycleIsFree => CyclesAreKept` |
| | `WorkFirst` | `Spec /\ []NextCycleIsFree => []WorkComesFirst` |
| | `NumbersStayFree` | `Spec => []NextCycleIsFree`, where quotes name the second cycle at most |
| | `AuthoredWorkIsKept` | `Spec => CyclesAreKept /\ []WorkComesFirst`, for those quotes |
| `CampaignProofs` | `PlayedOnce` | `Spec => []NoTrialIsPlayedTwice` |
| | `SpendIsJournaled` | `Spec => []SpendIsOnTheJournal` |
| | `RowsTrue` | `Spec => []RowsAreTrue` |
| | `CampaignCapped` | `Spec => CampaignKeepsTheCap`: the campaign implements `SpendingCap` |
| | `JournalUnderCap` | `Spec => []TheCap!UnderCap`: so the file never holds more than the cap |
| | `CampaignCostsItsCap` | so what all trials were billed is under the cap but for single bills above their bound |
| | `GateStaysSerial` | `Spec => []GateIsSerial`: one request per model on its way, and no circle of threads waiting for locks |
| `AuditBudgetProofs` | `BudgetKeptWhole` | `Spec => []BudgetInv` |
| | `RuntimeSound` | `Spec => []RuntimeIsSound` |
| | `AccountImplemented` | `Spec => ChargesOnce`: the runtime implements `AuditAccount` |
| | `EscapesExplained` | `Spec => OnlyUndeclaredEscapes`: which refusals fail to halt, and that no others do |
| `BenchRunProofs` | `BookkeepingInvariant` | `Spec => []IInv` |
| | `BooksTrue` | `Spec => []BooksAreTrue` |
| | `EndIsTheEnd` | the step property `NothingAfterTheEnd` |
| | `InvocationsAreShort` | `Spec => InvocationRunsDown`: an invocation takes `Plan * EpisodeSteps + 1` steps at most |

**Engine.** The invariants are not inductive by themselves. That nothing is
overdue needs that the event delivered is the least of the queue, which needs
that entries are well typed and one per identity; that an identity is used once
needs that what was delivered stays spent. `IInv` collects this: `TypeOK`,
`QueueInv` (the queue against the conditionals and the clock), `DeliveredIsSpent`
and `FallbackAhead`. Lemmas about the queue's operators (`PopKeeps`,
`ScheduleKeeps`, `TimerEntriesType`, `ReleasedType`) carry it through `Effect`,
what an accepted verdict does (`EffectKeeps`); the loop and the invocation then
have one lemma each for what delivery, waking, a quiet turn and a committing turn
keep, and `IInvStep` has one case per action. The step properties need no case
analysis of their own: `StepShape` shows that a step leaves the pending world
alone, takes one event off it, lets an accepted event have its effect, or lets an
outcome that passed the read guard have its own. The limits rest on `LimitInv`:
while the episode runs no violation is on record, so the counters that explain
one no longer move. That authored events precede timers of the same instant rests
on `SeqInv`: authored events are numbered below `TimerBase` and timers from it in
the order they are armed, for whatever an effect arms (`EffectNumbers`). Endings
are explained by `EndingStep`: the one step that closes an episode is told apart
by why it closes it. The assumptions are those of the scenario format: authored
and timer identities are disjoint, authored sequence numbers lie below
`TimerBase`, delays are positive, `send_message` and
`request_exception_resolution` are among the actions.

**Executor.** Lemmas about each operator of the guard say what it returns for a
guard that holds one reservation or none (`AuthorizeHolds`, `SettleResolves`,
`ForfeitResolves`, `CancelResolves`); `IInv` says which of the two it is at each
`pc` (`HoldingInv`), what the deadline has left (`BudgetInv`), that tokens and
money are what was sent and billed (`TokenInv`, `MoneyInv`), and that telemetry
and guard events match attempt by attempt (`EvidenceInv`). All four invariants
follow from it, and `StepPromised` maps each step to `Hold`, to `Resolve` at what
was billed, or to a stutter. `MoneyUnderCap` follows from that promise by the arithmetic of a cap
(`CapKept`).

**Episode.** What a journal says after a fault is proved of `EpisodeSpec`, the
executor and the writer composed, for any number of calls. `EInv` has one part per
place of the run, because what is true of the journal depends on where the run
is. While nothing has gone wrong (`Whole`) the rows on file are *exactly* the
header and one row per call the writer holds (`RowsOf`), each admissible after
those before it (`Checked`); the reader's loops over rows, which only select, then
return what was written, and no induction is needed. A failed append leaves
either those rows, a row more, or a fragment (`LeftOf`), and in each case the
writer is poisoned or the process dead, so nothing follows: `PrefixTrue`,
`EndedTrue` and `NothingTrue` say what reads from each.

The money is in one of three places: on file, in the call observed and not yet
recorded (`Booked`), or, during a turn, in the guard's events that nobody took yet
(`BookedInTurn`). `TurnInv` bounds what the provider has billed beyond the file by
the attempts that were settled, each at no more than a reservation, and by one
overrun, after which the turn ends; this is where the executor's `IInv` is used,
and why a journal cut short misses at most `MaxAttempts * Price + MaxOverrun`.
`EInv` was first checked by TLC on the instance of `provider_episode` and on one
with turns of two attempts. `ObservedKeeps`, `RecordKeeps` and `FinalizeKeeps`
follow a call from the guard to its row to the row that ends the journal;
`WholeTrue` and `WorthAppended` are about the sums involved.

**Commerce.** The operation keeps no list of the timers it armed, so that a timer
means what its handler takes it to mean rests on every other action having
disarmed what it made void. `IInv` says so: a pending timer has a live subject and
is due when that subject says (`Meant`), a subject that waits has its timer
(`Armed`), an identity is used only for a subject that exists (`Used`); which
subject may be live is what the phase tells (`ReturnStory`, `MoneyStory`), and
`DutyInv` ties the duties to all of it. `NothingDue` is the step that lets time
pass: when no least event is due, none is, because two timers are pending only
while a handover waits, and then at different instants
(`HandoverReminderAfter < HandoverDeadlineAfter`, which the policy requires).
`InTime` then gives that nothing awaited is late, so what is discharged was done
in time; `WindowStep` and `PromiseStep` go through the actions once more for the
cool-down and for the checkpoint. In the maintenance operation the same argument
breaks at `Meant`: a request for approval leaves the window without disarming its
close timer, which is the run `finalized_early`.

**Maintenance.** Any number of timers may be pending at once, of visits,
checkpoints and windows, several due in one minute, so what is proved is proved
timer by timer. `DecisionInv` says of each checkpoint that what was never asked
left no trace (`Asked`), that an open one has its deadline pending at the instant
on record and its reminder until it came, and that the reminder has the lower
sequence number (`Timed`): that is why `Expire` finds the reminder behind it even
where both fall due in the same minute. `Numbered` says checkpoints are numbered
without gaps, so the next one is fresh and arming its timers cannot raise.
`VisitInv` ties the duty of a visit to its timer: an identity is used exactly when
the duty was opened, so a second arming that raises leaves both as they were.
`WindowInv` is `WindowHasItsTimer` and that nothing is there before the report.
Frame lemmas (`DecisionKept`, `VisitKept`, `PaidWorkKept`, `WindowKept`) say what
leaves each part alone, lemmas about the queue (`ArmOne`, `ArmCheckpoint`,
`DisarmKeeps`, `PopKeeps`) which timers a handler touches, and each handler, or
group of handlers that change no timer, has one lemma. `NothingDue` lets time
pass: sequence numbers are naturals, so where something is due a least event is.
That the timer pending in a window is the only one that can end it is not among
the theorems, because it is false (`finalized_early`).

The order of work, money and notices rests on a fact about numbers. `_reopen`
gives the new cycle the number of cycles plus one and writes it over whatever is
there; `_reduce_quote_received` takes the number the quote names. A quote that
names cycle 3 while only cycle 1 exists makes a later reopening take 3 as well and
overwrite it, with its verified work. So `CyclesKept` and `WorkFirst` have the
hypothesis `[]NextCycleIsFree`, and `NumbersStayFree` shows when it holds: the
report begins cycle 1, and quotes that name 2 at most, as those of every scenario
of the repository do, leave no gap (`Gapless`). `AuthoredWorkIsKept` puts them
together. The proof first says, one lemma each, how a step may move a
cycle, a notice, a quote, an invoice, the payment and the phase (`CyclesMove` to
`PhaseMove`): a cycle stays as it is, begins where there was none (`Begun`), or its
visit moves on while it is unverified (`Moved`). From these moves alone each part
of `WorkInv` follows: a revisit has a verified parent and its scope (`Repeats`),
verified work that nobody pays for owes its notice or owed it (`Told`), and so does
work that was paid for, and payable work closes only paid for (`PaymentInv`). The
invariant is more than `WorkComesFirst` because closing looks at the payment and
the duties and not at what led to them.

**Sums.** Money is added up with `SumFunction` of the community modules, a fold in
an order nobody specifies. `SumProofs` gives it laws: a sum of naturals is the
number of pairs `<<x, i>>` with `i` up to the value at `x` (`SumIsCount`, by the
least subset for which it is not, so without an induction principle), and what a
sum does when a value changes (`TotalChanges`), when one is appended
(`TotalOfLonger`), when all are zero, when another is larger, or over a part
(`SumOfPart`), are facts about cardinalities.

**Campaign.** `NoTrialIsPlayedTwice` is about what has left for the providers,
which nothing in the process remembers; what carries it over a crash is the
assigned file. `PlayInv` says so for each trial: it was played in one invocation
at most (`OneLife`), what was played has its assigned file (`PlayedIsAssigned`),
whoever is playing has the file and is the only invocation that has played
(`PlayerIsAlone`), and a trial about to give its file up has sent nothing
(`ArchivedIsUnplayed`). `MovesKeep` covers every step that only moves a thread;
the five steps that start, send, bar, archive or bind have their own lemmas.

The money rests on `MoneyInv`, which is stated of the file, because memory may be
behind it: they differ only after an append failed, and then no event follows in
that invocation (`Agreed`). For each trial, its thread's place decides which state
its latest reservation has on file (`Placed`), and how much of that reservation no
bill has used yet (`Covered`): while a request is reserved, gated, dispatched or
announced, bills and the *whole* bound fit under what is due; in flight they do
with its bill. A trial that waits for a worker, or that closes while the journal
is sound, has nothing unresolved (`Cleared`), which is why its row covers its
bills (`Told`). One lemma per event of the journal says what it does to the
amounts of the trial and of the campaign (`ReserveEvent` to `CancelEvent`), one
per step of a thread or of the invocation that it keeps all of this; the same
lemmas show that each step is one `SpendingCap` allows (`CapStep`), with no
overrun at all: a bill above its bound is never settled, it is kept in full as
unknown. The file is therefore never above the cap (`JournalUnderCap`), and as every
bill is on it but for what exceeded a bound, neither is what the campaign costs
(`CampaignCostsItsCap`).

The gate's locks have an invariant of their own, `GateInv`: a lock is held exactly by
a thread between its look at the gate and its answer, of the lock's model. It needs
that every exit of `MetaRatePacer.call` lets the lock go, those through a failed
append included. `GateStaysSerial` follows: a thread that waits for a lock waits for
one that waits for none, which is the part of `InvocationEnds` that is not fairness.

**BenchRun.** `IInv` ties what an invocation knows to what is on file: the guard
holds what the rows on file say plus the episode under way, the rows are those of
the plan in order, an episode's measured, reserved and forfeited amounts are those
of its attempts, and what was billed beyond that is an overrun on record or was
lost with a process. `BooksAreTrue` is a consequence; that the end is the end
needs besides that no invocation is under way over a sealed file (`SealedStays`).

**Audit budget.** The integrity check is not inductive: that a commit publishes a
state it accepts rests on what was compared when each batch was reserved, perhaps
long before. `BudgetInv` adds that (`Fits`): nothing of the open transition is
committed, each batch has its place under its source's limits and all of them
under the aggregate, and a retry reserves nothing. A commit adds up what it staged
and the check counts rows, so the proof counts too. The rows of some batches and
the intents staged in them are one for one (`RowsCount`); rows stand in the order
of their batches and of the intents in each (`RowsInOrder`), so their positions are
as many as the rows and, lying among the next so many, are all of them
(`RowsTakeTheNext`); a source has one batch in a transition or none
(`OneBatchEach`), which makes its counters those of its rows and each ordinal the
number of rows before it (`OrdinalsCount`). `ChargedValid` puts these together and is
both the step of a commit and the second half of `RuntimeIsSound`. For the account,
`OnlyCommitCharges` shows that every other call leaves the rows alone and
`ClosesOrStutters` that it closes the account or does nothing there; `CommitCharges`
is the one step that charges.

The run `audit_refusal` shows a refusal that halts nothing. `EscapesExplained` says
how far that goes: the lemmas `MisuseHalts`, `ReservationHalts` and
`AttemptAfterEndHalts` show, refusal by refusal, that the halt record of every other
one is accepted by the validator (`ValidRecordHalts`), so the undeclared source, with
an empty batch or inside a retry, is the only way out.

**How long things last.** The prover has no rule for liveness here, but what liveness
rests on besides fairness can be proved: that nothing can go on for ever.
`TurnsAreShort`, `InvocationsAreShort` and `EpisodesAreShort` name a natural number
that every step of a turn, of an invocation of a benchmark run, or of an episode,
makes smaller. For the turn it is three steps for each
attempt not made yet and what is left of the one under way. For the invocation it is
the episodes the plan has after this one, two steps for each attempt this one may
still make (`Paced` says that turns and attempts keep their limits), and the report;
what earlier invocations did to the file does not raise it. For the episode of the
engine it is
the identities not spent (a delivery spends one, `SpentGrows`), the wakes allowed, and
the rest of the invocation under way; a domain could otherwise arm new timers in one
minute for ever, so the theorem takes the identities to be finitely many, as those of
every instance are. `AgentCallsAreBounded` needs no such thing: however an episode
goes, and whatever the domain arms, the agent is asked `MaxInvocations * CallLimit`
times at most.

Only model-checked, because fairness and `ENABLED` are outside the prover's reach:
the liveness properties `EpisodeEnds`, `SilenceEnds`, `NothingHangs`,
`TurnEnds`, `RunEnds` and `InvocationEnds` (of runs and of campaigns).

## 6. Not modelled

Most of the repository's lines are not control. Evaluators, oracles, cards,
artifacts, identity, suites and compilers are functions of finished records;
validation of rows, manifests and scenarios refuses input and changes nothing;
provider adapters, model agents and prompts convert text and talk to the network;
scaffolds, command lines and the canaries of `tools/`, near copies of one another,
are around the program. What these decide enters the models as a choice: the
engine's arbitrary domain and agent, the executor's arbitrary response, the
episode's arbitrary next step. This is why the map covers a small share of the
lines and most of the state changes.

Of the components that do keep state, these are left out:

* **Write-once files**: what happens between two system calls on directories that
  others rename is the whole of the question, and a model would have to make it up.
* **Profile operations** of commerce and property compliance: dictionaries whose
  guards follow the pattern of return and refund.
* **Core ledger and state hashes**, which record steps and decide none; playback,
  which executes a tape again and compares; SDK development records.
* Observational assertions of the maintenance operation, which only the check of
  cited evidence (`operation.py:1925`) reads, and that check, which only refuses.
* In the executor, the refusal published before the loop
  (`record_pre_dispatch_refusal`) and the table that classifies faults; the
  `episode_limit` backstop, which no run reaches.
