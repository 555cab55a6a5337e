# Specification of PwrAgent's coordination core

PwrAgent is an Electron application that runs coding agents (Codex, Claude, ACP
agents) in threads. Its main process (`src/apps/desktop/src/main/`) decides when a
message becomes a turn of an agent, what happens when a turn fails, and what survives
a restart. This directory holds TLA+ modules of that core, the TLC configurations that
check them on small instances, and TLAPS proofs for every instance.

Paths below are relative to `src/apps/desktop/src/main/` unless they start with `src/`.

## 1. Inventory

| Component | State it keeps | Operations | What is hard |
|---|---|---|---|
| **Thread turn queue** `app-server/thread-turn-queue.ts`, `app-server/queue-admission.ts` | per thread: FIFO of entries, hold (`heldQueues`), admission, running entry, recently processed terminals and admitted entries, releasing and pending-release keys, edit chain, drain timer | submit, submitSteer (grouped), submitHeld, submitProjectHeld, submitIfIdle, releaseThread, drain, releaseEntry (Retry), releaseHold (unlock), cancel, move, pause, edit, close | every method awaits emits and backend calls; any other method may run in between |
| **Quiet-restart gate** `app-server/restart-continuation-gate.ts`, part of `app-server/backend-registry.ts` | phase, pending and scheduled continuations, deadline, timers | quiet, restore, settled, deadline, release, dispatch start | timers against a wall clock; opens for all threads at once |
| **Backend registry** `app-server/backend-registry.ts` | backends, active turns, navigation | tells the queue of turn outcomes and idle threads | outcomes arrive late, twice, or before the start is acknowledged |
| **Runtime leases** `runtime-lease-manager.ts`, `state/app-runtime-instance-store.ts` | lease rows and instance rows in SQLite | acquire, renew, release, mark exited | crash, grace periods, clocks, several processes |
| **Scheduled thread actions** `scheduled-actions/`, `storage/scheduled-thread-action-store.ts` | action rows with status and claim | schedule, claim, heartbeat, dispatch, hold, release, recover | crash between claim and dispatch, expired claims of live owners |
| **Durable turn requests** `federation/durable-turn-request-service.ts` | request rows, claims | accept, claim, dispatch, complete, reconcile | at-most-once under retries and crash |
| **Federation event stream** `federation/federation-event-stream.ts`, `src/packages/federation/src/federation-session-state.ts` | sequence numbers, replay buffer, session | append, ack, resume | gaps and duplicates at reconnect |
| **Archive cleanup queue** `app-server/archive-cleanup-queue.ts` | jobs | enqueue, run, retry, cancel | restart between steps |
| **Automations** `automations/` | schedules, runs | tick, claim, run, finish | missed and overlapping occurrences |
| **Operator requests** `operator-requests/`, `storage/operator-request-store.ts` | open questions | ask, answer, expire | two windows answer, crash |
| **Thread dependencies** `app-server/thread-dependency-coordinator.ts` | waits-for edges | wait, wake, cancel | a wake lost or doubled |
| **Quit and shutdown** `quit-manager.ts`, `shutdown-barrier.ts` | blockers, phase | request, block, abandon | a quit abandoned halfway |
| **Messaging turn admission and budgets** `messaging/core/` | windows, counters | admit, deliver | limits |
| Merge holds, reviews, per-key locks, MCP sign-in, messaging controller, overlay store, renderer | - | - | see PROJECT.json for why they are left out |

How they interact: user interfaces, chat platforms, automations, scheduled actions and
federation peers all end in `submit`, `submitSteer` or `submitHeld` of the turn queue. The
registry starts turns on the backend for the queue (`startTurn`, `steerTurn`), and calls
`releaseThread` when the backend reports an outcome or an idle thread. The gate is a
question the queue asks before it starts anything (`isDispatchHeld`), and drains every queue
when it opens. The queue tells everybody else what it did through lifecycle events, which
it **awaits**: that is where most of the interleavings below come from.

What makes each modelled or planned component correct:

- turn queue: one handoff at a time and never beside a running turn; a message is in one
  place and is delivered at most once; Cancel always finds it; the order of submission is
  kept; a failure or a refusal holds what waits; a hold is visible to Retry and ends with the
  last held entry; nothing that may start is forgotten.
- gate: continuations stay in front of their FIFO; nothing starts through a shut gate; the
  gate opens by its deadline.
- leases: an owner whose marker is alive is not displaced, only the holder runs the messaging
  adapters, and a lease whose owner is gone is taken over.
- durable requests: the backend is asked at most once for a request, a receipt says nothing that
  did not happen, and a peer that goes on asking gets an end.
- scheduled actions: sent at most once, from one queue, never after an end; a live claim has
  something behind it, a dead one is recovered.

## 2. Modules

| Module | Models |
|---|---|
| `QueueAdmission` | the admission state machine of `queue-admission.ts`: idle, starting, acknowledged, with the terminals kept meanwhile |
| `ThreadTurnQueue` | the queue of one thread, its callers, the backend and the gate as the queue sees them; properties; fairness |
| `ThreadTurnQueueMC` | what TLC needs beside it: the symmetry of promise chains |
| `MessageDelivery` | abstract specification: what the queue promises for the messages it accepts; no FIFO, no hold, no await |
| `ThreadTurnQueueProofs` | type correctness (`TypeCorrect`), with lemmas on the helpers |
| `HandoffProofs` | `HandoffIsExclusive`, `StartsNeverOverlap`, `StartsRespectGate`; who runs `releaseThread` (`ReleaseInv`) and which turns are known to be over (`TurnInv`); `RunningTurnsRun` |
| `MessageProofs` | `MessagesInOnePlace`, `CancelsFindMessages`, and the refinement `QueueDelivers`: `ThreadTurnQueue` implements `MessageDelivery` |
| `FifoProofs` | the order of the FIFO: `ContinuationsStayInFront`, `EntriesWaitInOrder`; `NoWakeUpIsLost`; `WalksHoldWhatTheyPass`; and that the holds agree: `HeldEntriesHaveAHold`, `NoHoldIsLeftBehind` |
| `GatedDispatch` | abstract specification: what the queues rely on of the gate |
| `RestartGate` | the quiet-restart gate with the registry's timers, clocks, drains and the continuations of one launch; implements `GatedDispatch` |
| `RestartGateProofs` | its types, `NoContinuationJumps`; while the clocks keep step, `PendingOnTheWayWhileSteady`, `EndIsTimedWhileSteady`, the refinement `DispatchesWhileSteady`: `RestartGate` implements `GatedDispatch`, and with it `FreeEntriesAreAsked` |
| `RuntimeLease` | the messaging lease of a profile: the store's transactions, the manager, the retry timer, the coordinator and its queue of lifecycle calls, the profile markers, quit, crash, sleep and reboot |
| `RuntimeLeaseProofs` | its types, `LiveOwnerKeepsLease`, `OrderlyRunnersHoldLease` |
| `RequestReceipts` | abstract specification: what the inbox promises a peer that repeats its requests; no processes, no calls, no queue |
| `DurableTurnRequest` | the inbox of turn and steer requests from federation peers: receipts, admission, claims, dispatch, answers, events, reconciliation; implements `RequestReceipts` |
| `DurableTurnRequestProofs` | its types, `AskedAtMostOnce`, `ReceiptsAreTrue`, `ProofsAreKept`, and the refinement `PeersAreAnswered`: `DurableTurnRequest` implements `RequestReceipts` |
| `ScheduledDelivery` | abstract specification: what the processes of a profile promise for a scheduled message; no leases, no queue, no events |
| `ScheduledActions` | scheduled messages: rows and claims in the shared database, the schedulers of several processes, their turn queues and the events between them; implements `ScheduledDelivery` |
| `ScheduledActionsProofs` | its types, `ClaimsAreBacked`, `MessagesAreSentOnce`, `OneQueueHolds`, `EndsAreForGood`, and the refinement `MessagesGoAsPromised`: `ScheduledActions` implements `ScheduledDelivery` |

### State and code

One thread is modelled: the code keys every map by thread, and no method touches two
threads except `drainAll` and `close`, which loop over them.

| Variables | Fields of the code |
|---|---|
| `queue`, `paused`, `project`, `held`, `batch`, `edited` | `queuedEntries` and the entries' `paused`, `projectHold`, `manualReleaseRequired` with `holdReason`, `agentMessages`, and whether an edit has cleared those |
| `reasons`, `revision` | `heldQueues` |
| `admission` | `admissions` |
| `running`, `processed`, `admitted` | `runningEntries`, `recentlyProcessedTerminals`, `recentlyAdmittedEntries` |
| `releasing`, `pendingRelease` | `releasingKeys`, `pendingReleaseKeys` |
| `editors`, `drain`, `closed` | `mutationTails` with `dispatchSuspensions`, `drainTimers`, `closed` |
| `task` | the suspended methods: where each waits, and its locals |
| `gate`, `active`, `starts`, `began`, `notices` | the environment: gate, backend turn, reports under way |
| `fate`, `placed` | history for the properties, never read by an action's guard except to submit an entry once |

### The gate

`RestartGate` starts where `restoreRestartContinuations` ends: the gate is resuming, every
continuation is at the front of its thread's FIFO with dispatch time infinity, and the fallback
timer runs. Every entry is alone on its thread, which is all that matters to the gate; what
happens inside one FIFO is `ThreadTurnQueue`.

| Variables | Fields of the code |
|---|---|
| `phase`, `pending`, `at`, `releaseIn` | `restartGate`: `phase`, `pending`, `scheduled[...].dispatchAt`, `releaseBy` |
| `begun` | `restartDispatchStarted` |
| `fallback`, `dispatch`, `deadline` | `restartGateTimers` |
| `place`, `paused`, `drains` | where the turn queue has each entry, the entries' `paused`, and its `drainTimers` |
| `slips` | how often `Date.now()` failed to move, to bound it |

Time is modelled by what is left of it, so no clock has to be bounded: timers count down on the event
loop's clock, `at` and `releaseIn` on `Date.now()`. In a tick of the first, the second moves by
any `r` in `Rates`: 1 normally, more when the machine slept, 0 when the clock was set back or the
two round to different milliseconds. A timer that is due may fire any number of ticks later. What
is left of a `dispatchAt` that has passed is cut off at `-MaxSlips`, which cannot be told from
less as long as at most `MaxSlips` ticks slip. `Never` and `Now` stand for infinity and for an entry that
is not in the schedule.

The operator may pause any waiting entry and resume it, cancel it or lock its thread. A lock or an unlock is a lifecycle event, which settles a
continuation; a pause is not one: `setQueuedTurnPaused` (`app-server/backend-registry.ts:23263`) publishes only the entry's new state, and
`trackRestartContinuation` (22995-23003) hears lifecycle events. So `PendingOnTheWay` says of each continuation the gate waits for that it is at the
backend, has a drain or a dispatch timer to come, waits for the plan, *or is paused* (see "Outside the checked instances").

The two modules fit together as follows. `ThreadTurnQueue` has the gate in its environment: it
becomes due or opens together with a drain of the thread (`GateMoves`), and from `quieting` it never
comes back. `GatedDispatch` states that for all threads at once, with `asked` for the drains, and
`RestartGate` is shown to implement it. A dispatch time that has come while its timer is still to fire
counts as asked: the drain is on its way.

### The messaging lease

`RuntimeLease` has several instances of the application on one profile and their shared SQLite file.

| Variables | Code |
|---|---|
| `life`, `age`, `lapsed`, `old`, `predates` | the process; the age of its profile marker (`profile.ts`), and whether it ever went without a fresh one; whether it started before the last boot, and who takes it for such an instance |
| `exited`, `waiting`, `holder`, `left` | the instance rows and the lease row of `state/app-runtime-instance-store.ts`, times as what is left of them |
| `adapters`, `call`, `current`, `queue`, `timer` | `messaging/runtime-messaging-lease.ts`: the adapters, the suspended lifecycle calls, `generation`, `lifecycleQueue`, the retry timer |

A store transaction is one step: the connection is synchronous and the transaction takes the write lock. Times are ages that stop
growing once they are past every threshold the code compares them with, so no clock is bounded. The
faults of an instance are a constant, so that each can be told apart: `crash`, `lapse` (an instance goes
without a fresh marker: a sleep, a clock set forward, a failed write), `reboot`, `skew` (a clock corrected between two starts, so that one
instance takes the other for one of an earlier boot), `pid` (the process id of a dead owner is in use again), `load` (the settings cannot be read).

### Durable turn requests

| Variables | Code |
|---|---|
| `row`, `stale`, `expired` | the receipt of a request in `storage/durable-turn-request-store.ts`: its state, whether its claim or it itself has passed its time |
| `call` | `submitOperation`, suspended at the backend's answer, of one owner process |
| `entry`, `doubt` | the request in its process's turn queue; owners that found it not queued and are about to say so (`reconcile`, suspended at `isQueued`) |
| `listens`, `crashes` | the Federation service of a process; a bound |
| `asked`, `ran` | history: how often the backend was asked, and what it did |

The check of a request and the transaction that admits it are one step, which leaves out two processes on both sides of the
instant at which the receipt expires. The authorisation of a peer and the validation of a request change no state and are left out.
Every "started" event is taken to carry a turn id, without which the code ignores it (`durable-turn-request-service.ts:205`); the queue never sends one without.
A receipt that is pruned while `getReceipt` waits for `isQueued` makes it throw a TypeError where the caller is told of
null: an error of one lookup that the model takes for a lost answer.

### Scheduled messages

| Variables | Code |
|---|---|
| `row`, `due`, `fresh` | a row of `storage/scheduled-thread-action-store.ts`: status, claimant, `manualReleaseRequired`; its time has come; its claim is not expired |
| `life` | the schedulers, one per process |
| `fifo`, `starting`, `events` | what each process's turn queue has of the message, and the lifecycle events on the way to its scheduler |
| `job` | `dispatchClaimed` of the service, suspended at the queue's answer |
| `claims`, `sent`, `torn` | a bound; history: how often it was sent, and whether a process died between a start and the record of it |

`scheduled-actions/scheduled-thread-action-service.ts` is cut at its awaits; a store call is one step. The turn queue is what `ThreadTurnQueue` describes, reduced to
what one message sees of it: admitted, held, released, started, ended, with every event delivered late. Left out: reviews (`submitReview`
and their events), payload files, the wait for the restart gate, which only delays, and the updates the queue sends for pauses and edits of an input
(`app-server/backend-registry.ts:23287`, `:23392`), which say "held" or "queued" of an entry the queue has already reported as that, or is about to. A claim and its dispatch are one step: between them the service awaits `publish`, whose
listeners cannot make it reject (`emitToListeners` catches), and a rejection in the registry before it reaches them would leave the row claimed and its dispatch undone until the process ends. A message that a hold caught is offered as "held" and may be sent from two places by hand
(from the queue that holds it and by "Send now"), or once more after a cancel in another process; the properties speak of messages that no hold has touched, and `HandoverRecorded` shows what
happens to the others.

A message that was queued and whose start was in flight when its process died is admitted again and can be sent twice: `torn` marks it, and `SentOnce` leaves it out. The
documentation (`src/docs/scheduled-thread-actions.md`) speaks of that risk for "dispatching" rows only.
A reused process id makes a dead claim look alive for as long as another program has it
(`scheduled-thread-action-service.ts:767`); the model has no such program, and `DeadClaimsSettle` relies on it.

### Granularity

JavaScript is single threaded, so a step of the model is the code between two awaits; the
actions are cut exactly at the awaits that may take time: lifecycle emits (`emit` awaits
every listener), `startTurn`, `steerTurn`, and edits of an input. An `await` of a promise that is
already resolved only yields to other microtasks, and no event of the outside world runs
before those are done: `Ready` and `Proceed` give such a continuation priority over
everything else in `Next`. A chain is a record of its locals with `pc` naming its await. The
loops of `holdQueue`, `clearQueueHold` and `releaseHold` keep their array index in `i` across the
await, as the code does, and lose it when the FIFO empties (the array is then dropped
from the map and a new one is made later).

A turn is a pair of entry and start number, so that a refused start and its retry have
different turns. Hold revisions are compared for equality only; a new one is any that no
chain remembers, which keeps the state finite.

### Bounds

`N` entries, `Tasks` chains suspended at once, `MaxStarts` starts of one entry (the last is
accepted), `MaxNotices` reports under way. An event that needs a chain waits for a free
one: the bound delays callbacks and never drops one. Two chains and three entries are enough for
a walk over the FIFO with an entry before, at and behind its index, for a start that is
refused while another entry waits and a third is being submitted, and for a batch of two
messages behind a waiting entry. `Ops` restricts the operations of a run, since all of them
together at two chains pass ten million states. The limits of the two recent sets (1,000
entries) are not modelled: no run gets near them.

`QueueEdits` takes states that differ in `edited` only for one state once no further message can join a batch (`View`). Until then `edited` decides which
batch a message joins, afterwards nothing reads it, neither an action nor one of the run's invariants, so the states left out behave as those that are kept. Without the view the run passes five minutes.

What the queue's model leaves out of its entries: the texts of a batch, so that an edit of an input (`EditInput`) only ends the grouping, as clearing `agentMessages` does, and
a sender's newer text for its own message in the batch (`replaceQueuedAgentInput`) changes nothing; the failure messages, of which one stands for all (`Reasons`), while
the code keeps one hold reason per message; and an entry that is marked held without a reason, which `setEntryPaused` can leave behind when it resumes a project's entry after a walk held it and
the hold of the FIFO is gone (`ResumeEntry`): the model keeps its reason.

In `RuntimeLease`, `MaxLapsed` bounds how many instances go without a fresh marker; the lengths `Ttl`, `Grace` and `Retain` are one tick each, enough
for a lease to be fresh, expired and past its grace. In `DurableTurnRequest`, `MaxPerCaller` and `MaxTotal` are the code's quotas, with one
row each so that they are reached with two requests, and `MaxCrashes` bounds the crashes. In `ScheduledActions`, `MaxClaims` bounds the claims of a row: the
second is the recovery of the first (three pass 16 million states).

## 3. Runs

| Run | Instance | Shows |
|---|---|---|
| `QueueTurns` | 3 entries, the first a continuation, 1 chain, 1 report under way; outcomes late, repeated, before the acknowledgement, idle reports, refusals, retries, locks, a project's hold, the gate | types; a finished turn is not believed running (`NoGhostRunning`); no wake-up is lost (`NothingForgotten`); order (`WaitInOrder`, `ContinuationsLead`); the entries' holds and the queue's agree (`HeldHasHold`, `HoldIsSpent`); a walk holds what it passes (`WalkHolds`); nothing starts through a shut gate (`StartsThroughGate`) |
| `QueueEdits` | 3 entries, two of them groupable steers; pauses, moves, edits that are open across awaits, edited inputs, close; 7.2 million states under `View` | no message lost or doubled in a batch (`MessageInOnePlace`); dispatch resumes after the last edit (`NothingForgotten`) |
| `QueueProgress` | 3 entries, two of them groupable steers, 2 chains; failed turns, idle reports, Retry, Cancel; fairness | `OneHandoff`, `StartsAlone`, `MessageInOnePlace`, `CancelFindsMessage` at every interleaving of the awaits; the queue implements `MessageDelivery` (`DeliversAsPromised`); `EveryEntryServed`: a waiting entry starts, or comes to wait for the operator |
| `RestartGate` | 2 continuations in batches of one, an entry behind the gate; pauses, locks, cancels; fairness of timers and clock; `Rates` {1, 2} | types; each continuation the gate waits for is on its way or paused (`PendingOnTheWay`); a timer that ends the wait is always set, and not for a time before `releaseBy` (`EndIsTimed`); a continuation that was locked does not jump the stagger (`NoneJumps`); the gate opens even if a start is never answered (`ResumingEnds`); it implements `GatedDispatch` (`DispatchesAsPromised`) |
| `LeaseTakeover` | 2 instances with one lifecycle call each; crash, sleep, reboot, skew, reused process ids, adapters whose stop rejects, the override that keeps Messaging off | types; only the holder runs the adapters (`RunnersHoldLease`); an owner that always had a fresh marker keeps the lease (`LiveKeepsLease`); a lease whose owner is gone is taken over (`LeaseRecovered`) |
| `DurableTurns` | 2 owner processes, 2 calls, a turn request and a steer request, quotas of one, 1 crash | types; `AtMostOnce`; `ReceiptsTellTruth`; a recorded start or end is never taken back and no receipt leaves before it expires (`ProofIsKept`); it implements `RequestReceipts` (`AnswersAsPromised`); a peer that goes on asking gets an end (`ReceiptsSettle`) |
| `ScheduledSends` | 1 message, 2 schedulers, 2 claims; 1.35 million states | types; `SentOnce`; not sent after it was cancelled or failed (`EndedForGood`); a live claim is backed (`ClaimBacked`); `OneQueue`; the schedulers implement `ScheduledDelivery` (`SendsAsPromised`); a dead scheduler's claim is recovered (`DeadClaimsSettle`) |
| `QueueFailureDrain` | violation; 2 entries, 2 chains | a drain that is due starts a waiting entry while the failure before it is being published |
| `QueueHoldCancel` | violation; 3 entries, 1 chain | a cancel during the walk leaves an entry out of the hold |
| `QueueGhostTurn` | violation; 2 entries, 2 chains | the end of a turn that began while the end of the one before it was published is dropped |
| `GateClockSlips` | violation; one continuation, `Rates` {0, 1} | the deadline's timer fires before `Date.now()` reaches `releaseBy`, and the gate stays shut |
| `ScheduledHandover` | violation; 1 message, 1 scheduler, 1 claim | a message that the thread's hold caught is released and sent, and its row stays held |

`CHECK_DEADLOCK FALSE` everywhere: the queue may have nothing left to do once every entry is
delivered and the bounds are used up, the registry may be closed, and every process may have ended. The delays of the gate's runs are
small numbers of ticks with the order of the real ones kept: the jitter is shorter than the interval, the
grace follows the last dispatch time, the fallback comes before the first one. Two continuations in batches of
one stand at two places of the stagger; the third entry is any other message of the app. The clock may only run ahead in this run, so `MaxSlips` is 0. (With three
continuations in batches of two the pauses pass five minutes; the theorems cover any number and batch size.)

### Fairness

`Fairness` asks that a listener's promise, a backend call and a resolved continuation go on
(weak fairness per chain), that a due timer fires and a report is delivered (strong, because
in the model they wait for a free chain; the event loop itself is not selective), and that a
running turn ends. It asks nothing of the operator: Retry, cancel, edits and new messages
may never come. For the gate, `FairSpec` asks only that the clock runs and that timers that are due fire:
not that the providers ever refresh, that a start is ever answered, or that drains run. Hence `EveryEntryServed` allows an entry to end up held. It also
allows one to wait behind a turn whose end was dropped (disagreement 4), which nothing in the code is bound to clear.

`RuntimeLease` assumes of every instance that runs that its timers fire (clock, marker heartbeat, retry) and that the settings load and
the adapters' start and stop answer in the end. `DurableTurnRequest` assumes that the peer goes on asking, which its outbox does,
that claims grow old, and that a lookup suspended at `isQueued` goes on; nothing of the backends. `ScheduledActions` assumes the heartbeat, an interval timer, and the clock
that makes a claim expire; not that the queue, the backend or the operator ever does anything.

### Disagreements found

1. `QueueHoldCancel` / `WalkHolds`. `holdQueue` (thread-turn-queue.ts:1316) walks the array by index
   and awaits an emit after each entry. `cancelEntry` is synchronous and may remove an entry
   at or behind the index during that await; the next one is skipped and later starts without review.
   The comment at line 1303: "Holds the whole FIFO for `reason`. A failed or refused start holds every
   entry for review". Two other steps leave an entry unheld behind the index: Retry or an unlock takes its hold off while
   another walk is under way (`PassedReleased`), and an entry that was refused goes back there (`PutBackPassed`; its own chain then walks the FIFO from the start, but a steer that was only declined walks it for a newer hold only). TLC finds each
   on three entries and two chains with the others excluded; that there are no more, with all the operations, is what `WalksHoldWhatTheyPass` proves.
2. `QueueFailureDrain` / `FailureHoldsWaiting`. `settleRelease` (line 1097) deletes the running entry, awaits
   the emit of "terminal" and only then holds the FIFO. A drain timer due in that window
   starts the next entry. The property test's comment (`__tests__/thread-turn-queue.property.test.ts:190`):
   "A terminal failure requires review of EVERY waiting entry". The test resolves its effects at
   once, so it has no such window.
3. `GateClockSlips` / `ResumingEnds`. The deadline of the gate is a `setTimeout` (backend-registry.ts:22976) whose handler
   passes `Date.now()` to the state machine, which opens the gate only if it has reached `releaseBy`
   (restart-continuation-gate.ts:102); the timer is not set again. If the system clock is set back while the gate
   is resuming, or has not turned to the millisecond the timer was set for, nothing is left that opens it
   unless every continuation settles. The comment at restart-continuation-gate.ts:18: "A deadline bounds that wait, so
   a continuation that cannot start never holds the rest of the app for long." In the run `RestartGate` the
   clock may only run ahead, and the gate opens.

4. `QueueGhostTurn` / `NoGhostRunning`. `releaseThread` (thread-turn-queue.ts:1055) clears the running entry, keeps
   `releasingKeys` and awaits the emit of "terminal". A message submitted in that window starts at once; if its turn ends before the listener returns, its
   outcome is dropped, and the queue takes it for running until the backend happens to report the thread idle. The property test asserts after every command
   (`__tests__/thread-turn-queue.property.test.ts:99`) that `canStartImmediately` agrees with `model.active === undefined`; its effects resolve at once, so it
   has no such window either. That this step is the only way to a ghost, with all the operations, is `RunningTurnsRun`.
5. `ScheduledHandover` / `HandoverRecorded`. A message that the thread's hold caught is marked held and gives up its claim
   (`scheduled-thread-action-service.ts:442`). After an unlock or a Retry the queue starts it, but `markQueued` and `markStarted`
   (`storage/scheduled-thread-action-store.ts:375`, `:391`) do not accept a held row: it is offered as held for good, and "Send now" sends the message a
   second time. The comment at `scheduled-thread-action-service.ts:438`: "A lock pauses the message rather than failing it: held in the thread's queue, it
   starts when the thread is unlocked."

Outside the checked instances:

- Walks that are suspended at an emit can make the holds of the entries and of the FIFO come apart (`HeldHasHold`, `HoldIsSpent`). `releaseHold` (line 943) writes back the
  reasons it read before its awaits: an entry it has passed is cancelled or takes another reason meanwhile, and a hold is left on a FIFO without held entries; or an entry it has unlocked is
  started during the emit, the next one moves under the index, and stays held when the hold is gone (`LetGoDisturbed`). Retry or an unlock that begins while `holdQueue` is suspended deletes the
  hold, and the walk holds the entries behind its index for nothing (`LetGoInWalk`). And when the only entry `holdQueue` has held is cancelled, `dropSpentHold` (1371) ends the hold under the
  walk (`PassedCancelled`): the walk goes on, and Retry does not accept what it holds. TLC finds each of the three on three entries and two chains with the others excluded. `QueueTurns` therefore has one
  chain and leaves `cancel` out of `Ops`; `QueueProgress` has it. That there are no other ways but these, with all the operations, is what `HeldEntriesHaveAHold` and `NoHoldIsLeftBehind` prove.
- The dropped outcome of disagreement 4 has a second face: with refused starts, retries, cancels and a steer among three entries
  it strands a steer that came back to the FIFO. `QueueProgress` therefore leaves `reject` out; with `held`, an entry may wait unheld behind a held head.
- Three interleavings disturb the order of the FIFO. `restoreAfter` (`thread-turn-queue.ts:273`) puts the entry of a refused start back after the one that was ahead of it when
  the start began. If that one is cancelled meanwhile, the entry goes to the next that is not paused, or to the back: two continuations, the first
  paused, a project's entry paused behind them; the second one starts, the first is cancelled, the start is refused, and the second continuation waits behind the project's entry
  (`PredecessorCancelled`, against `ContinuationsLead`). If it is moved back, the entry goes back behind entries that came later (`PredecessorMovedBack`, against
  `WaitInOrder`). And a steer is numbered when it is submitted, but waits for the edits before it, while a message submitted later is queued at once (`SteerOvertaken`). `QueueTurns` leaves
  out the operations these take. That there are no other ways, with all the operations, is what `ContinuationsStayInFront` and `EntriesWaitInOrder` prove; that each of the
  exclusions is needed, TLC shows on three or four entries and two chains, with the other excluded.
- Two interleavings lose a wake-up (`NothingForgotten`). `releaseThread` starts an entry that is refused, and while its chain publishes that and holds the FIFO, the
  outcome of another turn comes: it is dropped because `releasingKeys` has the thread, though the chain will not look at the FIFO again (`OutcomeDropped`). If the refused entry was
  cancelled during the walk, its hold ends and the next entry, which the walk passed over, waits unheld and unasked. And `cancelEntry` (`thread-turn-queue.ts:721`) schedules a drain
  only when it takes the head of the FIFO; behind a paused head the next entry to start is a later one, and when that one was held and is cancelled during the walk, the entry
  behind it is free and nobody looks (`NextCancelled`). The passing runs leave out operations these take; TLC finds each on three entries and two chains with the other excluded. That there
  are no other ways, with all the operations, is what `NoWakeUpIsLost` proves.
- A continuation that the operator pauses stays among those the gate waits for: only lifecycle events settle one, and a pause publishes none. Every other thread then waits until it is resumed or
  until the deadline, against the comments at `app-server/backend-registry.ts:22989` ("a held one waits on the operator, who should not wait on it") and
  `app-server/restart-continuation-gate.ts:54`. `PendingOnTheWay` names the exception, and `PendingOnTheWayWhileSteady` proves that it is the only one; the gate opens all the same (`ResumingEnds`).
- With two lifecycle calls per instance, `RunnersHoldLease` does not hold. `stopRuntimeAndRelease` (`runtime-messaging-lease.ts:275`) awaits the runtime's
  stop and then releases the lease (line 281) without asking whether a newer call has acquired it. `disableForSession` and `applyLatestConfig` are called
  unserialized (`ipc/messaging-status.ts:921`, `:946`, `ipc/settings.ts:1222`): turned off and on again while the stop is under way, the
  process starts its adapters behind the stop, loses the lease to the first call's continuation, and runs on; another instance
  acquires the lease and runs its own, against `src/docs/state-layout.md:116` ("Messaging adapters and federation are each single-holder per profile.", `SingleHolder`).
  `LeaseTakeover` has one call per instance. That this step is the only way to it, for any number of calls, is `OrderlyRunnersHoldLease`.
- A quit releases the lease (`index.ts:742`) before the adapters have stopped, so `RunnersHoldLease` leaves out instances that have released it.
- A load of the settings that fails ends the polling for the lease, and one marker write that fails with EPERM, ENOENT or
  EACCES ends the heartbeat. `LeaseTakeover` leaves `load` out of `Faults`: `LeaseRecovered` fails with it.
- `runtime.stop()` rejects if an adapter's stop does (`messaging/messaging-runtime.ts:2020`). The call ends there (`StopRejected`): a stop that was asked for keeps the lease, a denied
  acquisition sets no retry timer. The second is the fault `stop`, left out of `LeaseTakeover` like `load`; the first is in it, and both are in the proofs. An adapter whose stop
  rejected is taken to have stopped.
- An instance whose lease was taken never stops its adapters. That a sleeping owner is condemned and replaced is the manager's stated design, so
  `LiveKeepsLease` covers owners that never went without a fresh marker.

## 4. Proofs

Proved by TLAPS for every `N`, every finite set of chains, and every choice of the other constants that
satisfies `QueueAssumption`:

- `TypeCorrect`: `Spec => []TypeOK`. The type invariant is inductive as stated because it carries the
  two facts the actions need beyond plain types: a chain at a `Working` await has an entry, and
  one at a `Blocking` await a reason.
- `HandoffIsExclusive`: `Spec => []OneHandoff`; `StartsNeverOverlap`: `Spec => []StartsAlone`. The inductive
  invariant is `HandoffInv == TypeOK /\ OneHandoff /\ StartsAlone`: `StartsAlone` alone is not inductive, because
  the chain whose start is acknowledged makes its turn running, and only `OneHandoff` says no other chain
  is starting then. Each action is shown to *keep* the handoff of whatever chain has it, to
  *begin* one on an idle admission, or to *end* the one it has (`Keeps`, `Begins`, `Ends`); three lemmas
  show that each of these preserves the invariant.
- `StartsRespectGate`: `Spec => StartsThroughGate`, from the same classification: only `Begins` steps
  hand an entry to the backend.

- `MessagesInOnePlace`: `Spec => []MessageInOnePlace`, and `CancelsFindMessages`: `Spec => []CancelFindsMessage`. The invariant `MessageInv` adds
  `Carries` to `HandoffInv`. An entry is *live* while it is in the FIFO or the backend is asked to take it. No entry is in the FIFO twice
  or there and asked for; the messages of the live entries are the open ones, no two live entries share one, and an
  entry that was not submitted carries only its own (`Sound`); one chain submits a steer (`Steering`); what was asked for or delivered
  is remembered (`Known`). Without `Sound` a refused batch could come back with messages somebody else has; without
  `Steering` two chains could submit the same message. The proof first shows what `InsertAt`, `RemoveAt`, `Append`, `RestoreAfter` and `Moved` do to
  the *set* of entries of a FIFO, and then that every step keeps the live entries, adds one with its own message, adds a
  message to one, or takes one away with all of its messages.
- `QueueDelivers`: `Spec => DeliversAsPromised` (that is, `Delivery!Spec`). A message's place is read off `fate` and the chain that
  carries it (`Whereabouts`). Each of the four kinds of step above is one step of `MessageDelivery` or a stutter: the lemma of its kind proves
  both that `Carries` is kept and which step it is. It says what the invariants leave open: a message that was delivered, cancelled or
  refused stays so, one that the backend was asked for is not cancelled, and a batch is never split.

- `ContinuationsStayInFront`: `UncancelledSpec => []ContinuationsLead`, and `EntriesWaitInOrder`: `UndisturbedSpec => []WaitInOrder`, for all operations
  at once. `UncancelledSpec` is `Spec` without steps in which `PredecessorCancelled`, `UndisturbedSpec` without those in which `PredecessorMovedBack` or `SteerOvertaken`; the excluded steps
  violate the properties (see "Outside the checked instances"). Neither is inductive: what a refused start does to the order depends on the place it remembers. `LeadInv` and
  `OrderInv` add to `MessageInv` what that place is worth until the answer comes (`LeadPlace`, `OrderPlace`). For the continuations: the entry ahead still waits, it is a continuation if the
  started entry is one, and otherwise no continuation is behind it. For the order: the started entry is older than all that wait and that nobody placed, and all up to the one that was ahead was placed
  by someone, since dispatch only passes paused entries. `OrderInv` also says that entries are submitted without gaps, and `MessageInv` that
  at most one entry is away. One lemma (`FifoSteps`) shows that a step of the queue leaves the FIFO, takes an entry from it, puts it back, adds one, moves one, or
  drops one; the laws of `InsertAt` and `RemoveAt` then say where each entry is after it. From `QueueAssumption` the order takes that continuations have the lowest numbers:
  they were submitted to the process before.

- `RunningTurnsRun`: `HeededSpec => []NoGhostRunning`, for all operations at once. `HeededSpec` is `Spec` without the steps in which `EndDropped`: those of disagreement 4,
  which drop the report of the very turn that is believed running. `NoGhostRunning` speaks of quiet states; the invariant `HearInv` says of every state why none is a ghost. A turn
  believed running is *awaited*: its end is not processed, and either the backend runs it, or its outcome is under way, or the admission keeps its outcome (`Believed`). The same
  holds of a turn that began before `startTurn` answered (`Begun`), since its end may be buffered before the queue knows its name. And whose outcomes the admission may keep while a turn
  runs is fixed (`Keeping`): those of a start, and if one is running it is the turn the admission acknowledged, of which it had no outcome then, and whose chain still publishes
  "started". So settling an admission never throws away the end of the running turn. `TurnInv` supplies that a turn the backend is asked for is not among those already known to be over.

- `NoWakeUpIsLost`: `AttentiveSpec => []NothingForgotten`, for all operations at once. `AttentiveSpec` is `Spec` without steps in which `OutcomeDropped` or
  `NextCancelled`. `NothingForgotten` speaks of quiet states only; the invariant `WakeInv` says of every state what keeps it: while a start is *owed* (nothing runs,
  no edit is open, and the first entry that is not paused is neither held nor behind the gate), the queue is *awake*: a drain is due, a chain is on its way to `startNext` or to
  arming the drain, a report is on its way that `releaseThread` will not take for a repeated one, or an idle report is kept for the chain whose start was refused. Two facts about
  the environment are needed. A report that `releaseThread` drops because a release is under way is dropped for a chain that is in the handoff, will look, or was refused: `ReleaseInv` says that
  exactly one chain runs `releaseThread` while `releasing`, and which of the three it is. And the end of the turn that is active is not known yet, so the report of it is heeded:
  `TurnInv` says that turns are numbered past every one that was reported, buffered or processed. Each action then begins a handoff or an edit, arms the drain,
  leaves a chain that will look, or frees no entry and keeps what would have looked.

- `WalksHoldWhatTheyPass`: `WalkedSpec => []WalkHolds`, for all operations at once. `WalkedSpec` is `Spec` without steps in which `PassedCancelled`, `PassedReleased` or `PutBackPassed`.
  The invariant `WalkInv` adds to `WalkHolds` that a walk stands no further than one past the end of the FIFO, so that what is appended is not passed. Each step
  is taken apart in two: what it does to the FIFO and the holds keeps what the walks have passed (`Kept`: what starts or is moved was not held, so no walk has come past it; what
  is put in front of a walk is held already, or is excluded), and a chain that walks after it stood there before, had its array dropped, or went on from where it
  was (`WalkStep`). In between entries start, are steered, moved, paused and submitted, several walks may be under way, and a Retry may take off holds no walk has passed.

- `HeldEntriesHaveAHold`: `SeparateSpec => []HeldHasHold`, and `NoHoldIsLeftBehind`: `SeparateSpec => []HoldIsSpent`, for all operations at once. `SeparateSpec` is `Spec` without steps in which
  `PassedCancelled`, `PutBackPassed`, `LetGoInWalk` or `LetGoDisturbed`. Both properties speak of quiet states; the invariant `AgreeInv` adds to `WalkInv` what holds in between (`Agreed`): an entry that is held waits in the FIFO, and
  its reason is one of the FIFO's unless Retry is deleting them; a hold has an entry that carries it, or a chain that has yet to hold one or to settle it; a walk that holds still
  has its reason among the FIFO's; Retry has found nothing held behind its index; and an unlock still has the reasons it read, and collected exactly those of the entries it has passed and kept (`Collected`), so that
  what it writes back is true. Every step but those of Retry and an unlock is *ordinary* (`Ordinary`), and one lemma shows that ordinary steps preserve `Agreed`. `WalkInv` is needed because
  the hold of a FIFO must not be dropped under a walk: the first entry is held by then. The two exclusions of `WalkedSpec` that are left are there for it; that entries are put back among those passed
  (`PutBackPassed`) broke neither property in any of TLC's simulations, and it is excluded because the proof rests on `WalkInv`.

For the gate, for any number of continuations and other entries and any delays that satisfy `GateAssumption`:

- `PendingOnTheWayWhileSteady`: `Spec => []PendingOnTheWay` if `0 \notin Rates`. That whatever takes a continuation out of its queue, or holds it, has settled it
  needs nothing of the clocks (`PendingWaits`): one lemma (`LifecycleKeeps`) covers every lifecycle event, which either settles the entry it moves or
  leaves it waiting. That one left waiting has a drain or a timer to come is `FreeIsAsked` of the abstract specification, below, and needs a timer that does
  not fire before its time (`Timely`), hence the assumption.
- `TypeCorrect`: `Spec => []TypeOK`, and `NoContinuationJumps`: `Spec => NoneJumps`, whatever the clocks do. The invariant `PlanInv` adds to the types and
  `PendingWaits` that nothing has started before the dispatch begins, and that a continuation without a time in the plan has left its FIFO for good
  (`Planned`). That the deadline is a number at all needs the maximum of the plan's times, over any finite set of continuations.
- `EndIsTimedWhileSteady`: `Spec => []EndIsTimed` if `0 \notin Rates`. Without the assumption the deadline's handler uses its timer up and the property
  fails (disagreement 3); with it `releaseIn` never exceeds what is left of the timer.
- `DispatchesWhileSteady`: `Spec => DispatchesAsPromised` (that is, `Dispatching!Spec`) if `0 \notin Rates`. The invariant
  `SteadyInv` adds that a continuation whose time has not come has a timer, which fires no sooner than
  its time (`Timely`), that one without a place in the schedule is gone, and that none is starting before the
  dispatch begins. A tick makes times come (`Due`), the timers' drains are the ones already asked, an opening drains
  everything that waits. `Close` clears the timers; that no entry is left behind at that point is
  `FreeIsAsked`, which is carried along from the abstract specification.
- `FreeEntriesAreAsked`: `Spec => []Dispatching!FreeIsAsked` if `0 \notin Rates`: no entry the gate leaves free waits without a drain under way or a timer that
  asks for one. It is proved from the same invariant, with `FreeIsAsked` of the abstract specification carried through the refinement.

For the lease, for any set of instances and calls, any lengths of time and any faults, `RuntimeLeaseProofs`:

- `LiveOwnerKeepsLease`: `Spec => LiveKeepsLease`. The invariant `LeaseInv` adds to the types that an instance that never lapsed has a fresh marker
  (`Fresh`), that nobody has marked it exited (`Unmarked`), that its lease has no limit (`Owned`), that an instance that was not launched has left no
  trace (`Untouched`) and that only running ones are at work (`Working`). The only path that displaces an owner looks at its marker first; its start time and process id
  are never enough.

- `OrderlyRunnersHoldLease`: `OrderlySpec => []RunnersHoldLease`, for any number of lifecycle calls. `RunnerInv` adds to `LeaseInv` that adapters run only in
  a live process (`Runs`) and that an instance that never lapsed holds the lease while its adapters run *or a call is about to start them* (`Backed`): the
  lease is acquired before the call waits its turn in the lifecycle queue, so a stop in front of it must not release. `OrderlySpec` leaves
  out exactly that step, `ReleaseOvertaken`; of `Spec` itself the property does not hold (see "Outside the checked instances"). `OrderlySingleHolder` (`[]SingleHolder`) follows: no two
  instances that never lapsed run adapters at once.

For the inbox, for any owners, calls, requests, quotas and number of crashes, `DurableTurnRequestProofs`:

- `AskedAtMostOnce`: `Spec => []AtMostOnce`. Its invariant `ClaimInv` says that at most one call holds the claim of a request (`OneHolder`), that
  its holder is the first and only one to ask (`HolderFirst`), and that a request somebody may yet claim was never asked for and is held by nobody
  (`Untouched`). A claim that grew old is not claimed again: its receipt becomes uncertain.
- `ReceiptsAreTrue`: `Spec => []ReceiptsTellTruth`, from `TruthInv`: what the suspended calls know, what the receipts record and what a
  steer's answer means (`CallsTrue`, `ReceiptsTrue`, `SteersTrue`).
- `ProofsAreKept`: `Spec => ProofIsKept`, from the types.
- `PeersAreAnswered`: `Spec => AnswersAsPromised` (that is, `Promise!Spec`). What a peer is told is read off the receipt (`Said`), and the requests
  the inbox is committed to off the suspended calls (`Committed`). A commitment is used up when the backend is asked, so a step that claims is `Commit`, one
  that asks is `Ask`, and every answer, event and lookup is `Advance` or a stutter: the backend works, and the peer learns something that is true by then. Two facts are needed
  beside `ClaimInv` and `TruthInv`: what is in the turn queue was asked for (`Entered`), and a lookup that has found a request unqueued has not found one that could
  still be claimed (`Spent`), so that "uncertain" never follows "accepted" directly.

For scheduled messages, for any number of messages, schedulers and claims, `ScheduledActionsProofs`:

- `TypeCorrect`: `Spec => []TypeOK`; the invariant `Following` says besides that every queue entry, event and dispatch belongs to a process that runs.
- `ClaimsAreBacked`: `Spec => []ClaimBacked`, inductive with the types: each step keeps the owners of the other rows and leaves what backs them.
- `MessagesAreSentOnce`, `OneQueueHolds`, `EndsAreForGood`: `Spec => []SentOnce`, `[]OneQueue`, `[]EndedForGood`. All three follow from one invariant,
  `AllTimely`, about each message that no hold has touched: what is in a queue or on its way is with the claimant (`AtClaimant`,
  `InPlace`), there is one dispatch of it (`OneDispatch`), and what starts, events and dispatches are left fit the row's status
  (`StartsOut`, `PastEnd`, `PastNews`, `PastSend`, `TornQueued`). An expired claim of a process that lives is not recovered, so lapsed leases need no
  assumption.
- `MessagesGoAsPromised`: `Spec => SendsAsPromised` (that is, `Delivery!Spec`). A message is loose once a person or a hold has it or its process died between its start and
  the record of it, and stays so (`LooseStays`); nothing is promised for it any more. Of every other message the row says where it is (`Shown`), and `AllTruthful` that what is on its way to the
  row is true: a final event or a dispatch's answer says "started" if and only if it was sent. Each step then changes what is shown of one message, and by a step of
  `ScheduledDelivery`; a recovery and the end of a process change what is shown of several.

The run of one scheduled message never has two dispatches that compete for the scheduler; the proofs cover any number of messages.
`TypeCorrect` of the lease and of the inbox is proved likewise, in their proof modules.

Model-checked only:

- Everything temporal beyond invariants, step properties and refinement: `EveryEntryServed`, `ResumingEnds`, `LeaseRecovered`,
  `ReceiptsSettle` and `DeadClaimsSettle`, since TLAPS does not prove liveness under fairness here.

## 5. Plan

1. (done) Turn queue with its environment; types, exclusive handoff and gate proved.
2. (done) Quiet-restart gate: state machine, dispatch plan, timers and clock; shown, by TLC and TLAPS, to implement
   what the queues rely on. Left: the steps of `runQuietRestart` with the saving of continuations, their
   claim by the next launch, and crashes in between.
3. (done) The messaging lease between instances of a profile. Left: the coordinators of the federation and MCP leases, which share the store.
4. (done) Durable turn requests. Scheduled messages. Left: scheduled reviews.
5. Thread dependencies, archive cleanup, operator requests, event stream, automations, quit.
6. (done) Proofs of the queue's messages, its order, its running turn, its wake-ups, its walks, its holds and its abstract specification, of the gate's plan and timed end, of the lease's runners. The inbox and the
   scheduled messages refine abstract specifications of their own.

## 6. Not modelled

The backend processes, the database engine and Electron are external. Message content, titles,
navigation, presentation and logging are left out: no property is about them. The giant files
(`backend-registry.ts`, `messaging-controller.ts`, the overlay store, the renderer) are listed in
PROJECT.json with the reason.
