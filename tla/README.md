# Verification of the Nova runtime

NovaAudioAgent is a voice assistant whose core is one Node process, the *runtime* (`runtime/src`).
A conversation runs in a causal event loop; long work goes to executors (coding agents, browsers,
devices, search); people approve what executors want to do; what happened is published to a durable
blackboard. This directory holds TLA+ models of the parts whose correctness depends on the order of
events, the TLC runs that check them on small instances, and TLAPS proofs of what matters most for
every instance. Paths below are relative to `src/`, and `core/`, `memory/`, ... to
`src/runtime/src/`.

## 1. Inventory

### Components with state worth modelling

| Part | State | Operations | What makes it hard | What makes it correct |
|---|---|---|---|---|
| Delegate reducer, `core/runtime.ts` | in-flight and routable tables, fences, terminations, epoch, applied events, memory rows | dispatch, post a handoff / deadline / input, apply the next event, clear | handoffs and deadlines cross; late, repeated and contradictory results; a clear in between | no duplicate work, no blind retry, announcements only get more certain, no leak of routing entries, old conversations write nothing |
| Event queue, `core/events.ts` | a heap by time, rank, sequence | push, popReady, filter on clear | ties between a result and its deadline | a result that is in time wins |
| Runtime shell, `core/causal-runtime.ts` | state, pending inputs, tasks, launch checks, the event being applied | dispatch (three variants), ingest, withdraw, serve loop, clear, stop | every `await` is an interleaving point; a shared flush; microtask and macrotask order | durable before launch; the caller is answered before the adapter starts; a clear leaves nothing; everything settles |
| Publication session, `memory/blackboard-session.ts` | requested, drain, clear, failure | flush, clear, close | a shared drain with several waiters, clear and close racing it | nothing lost at a stop, nothing kept by a clear |
| Blackboard store and worker, `memory/blackboard-store.ts`, `blackboard-worker.ts` | revision, generation, sequence, outbox of calls | commit, clear, open, close by RPC with timeouts | lost receipts, a worker that dies, replays | a commit takes effect once |
| Approval queue, `core/approval.ts`, `core/pending-decision.ts` | head, queue, holds, deadline, decision | offer, accept, consume, invalidate, hold, release, expire | answer, timer, parking and invalidation race; three parties park the head | a head has a running deadline unless somebody parks it; nothing lost, nothing spent after it was revoked |
| Approval voice authority (rest of `core/approval.ts`) | armed utterance, prompt responses, quarantines | sync, route a spoken decision | asynchronous voice events of several epochs | an utterance answers only the approval it heard |
| Project confirmation, `projects/project-confirmation.ts`, `realtime/project-confirmation-flow.ts` | proposal, state, commit authority | offer, decide, commit, expire | commit in flight while a voice session changes | commits once, always ends |
| Slots and suggestions, `core/slots.ts`, `core/suggestions.ts` | one job per slot, pending reason | wake, cancel, complete | late completions of cancelled jobs | a slot is freed and the pending reason wakes |
| Floor, `realtime/floor.ts` | who speaks | begin, end, preempt | a late end | the floor is that of the current utterance |
| Task resources, `executors/task-resources.ts` | sets of keys, waiters | acquire, release, abort | waiters that hold keys against later ones | exclusive, no deadlock |
| Device lock, `executors/device-lock.ts` | a directory on disk shared by processes | acquire, reclaim, record, release | steps of two processes, crashes | one live owner |
| Coding intake, `executors/coding/intake.ts` | revision, stage, planner call | revise, plan, steer, commit | late answers to a revised intake | an answer applies to the revision it was asked for |
| Notifications, `notifications/service.ts` and the relay in `personal-agent/host.ts` | the outbox in memory and its file; the relay's run; the item and its intents | publish, deliver (probe, check, claim, send), configure, bind, retry, invalidate, open | a crash or a failed write between claim and outcome; the route changes during a send; a dismissal while the relay and a send are under way | nothing is sent twice unless the user confirmed it, nothing is lost between item and outbox, nothing goes out after a dismissal |
| Tasks and task loop, `personal-agent/tasks.ts`, `task-loop.ts`, `host.ts` | the record in memory and its file; the loop's run; effect, works, messages, delivery; control and goal revisions | step, reserve, evaluate, decide, dispatch, settle; reports; takeover, return, continue, revise, reconcile, cancel, input; recover | answers to a record read before an await; a crash or a failed write at each step; a wake beside a run | no two executions overlap, nothing completes without proof of the present goal, a task under Nova's control is driven on |
| Presentation, `clients/desktop/src/renderer`, `desktop/desktop-session.ts` | connection, mode, acknowledged cards | hide, show, acknowledge, lose and regain the connection | both ends remember what was seen | a card that is shown gets its deadline |
| Scheduled tasks, `personal-agent/scheduled-tasks.ts` | due slots, runs | claim, run, recover | sleep of the host, restart | a slot runs at most once |
| Model lane, `model/model-lane.ts` | counts of foreground and background | run | a task that throws synchronously | background is not starved by a leaked count |

The rest is data, I/O and presentation: schemas, prompts, retrieval, provider transports, codecs,
connectors, clients, configuration, packaging. `PROJECT.json` lists every component with its sources
and the reason why it is, or is not, modelled.

### How they interact

The host (`realtime/service.ts`, `personal-agent/host.ts`) calls the shell; the shell calls the
reducer synchronously, owns one task per dispatch, and calls the publication session, which calls
the store's worker by message. An adapter's answer is posted to the event queue. The serve loop
applies one event at a time: reduce, flush, show it to observers. Adapters ask for permission
through the approval queue of their conversation; its observers arm the voice authority and tell
the client. A project confirmation and the presentation mode of the client park the approval queue.
Clearing a conversation goes through all of them: it bumps the reducer's epoch, waits for the event
being applied, drains and clears the store, cancels the confirmation and drops the approvals.

Everything in the runtime runs on one JavaScript thread. Interleaving happens at `await`s only; the
models therefore have one action for the code between two awaits.

## 2. Plan

Done, in this order:

1. `Delegates` with its contract `WorkContract`, refinement and proofs.
2. `BlackboardSession`, composed into
3. `CausalRuntime`, with its proofs.
4. `HostApproval`, with its proofs; `ApprovalClient` composes it with the client that shows its
   cards, with the refinement and proofs.
5. `DeviceLock`: processes, the lock directory one file-system call at a time, crashes, the
   recorded device process; its contract `DeviceLease`; refinement and proofs.
6. `TaskLoop`: a task's record, loop, works, user and recovery, with its proofs.
7. `Notifications`: the outbox, the relay that feeds it and the dismissal, with its proofs.

Next, in the order of importance:

8. `BlackboardStore`: requests and receipts between session and worker, a worker that dies before or
   after it commits, revision/generation/sequence checks, digest replay. Abstract specification: an
   atomic log with exactly-once commits; `BlackboardSession`'s set of durable rows is its view.
9. `ScheduledTasks`: due slots, claims, publication, the recovery of runs active at a crash.
10. `CodingIntake`: revisions against late planner, steer and commit answers.
11. `TaskResources`, `Slots`, `Floor`, `ModelLane`: small automata with late completions.
12. Approval voice authority and response quarantines.

Proofs planned: exclusion in `TaskResources`; the refinement of the store.

## 3. The models

### Delegates (`core/runtime.ts`, `core/events.ts`)

State variables carry the names of the reducer's private fields (`inFlight`, `routable`, `fenced`,
`handoffSeen`, `terminationKind`, `terminationOutcome`, `epoch`); `dispatches` is the sequence of
delegates, a delegate is its index; `queue` is the set of queued events, `Ready` picks the one
`popReady` would return. Two history variables record what a user could see: `claims`, the
announcements per run, and `warned`, the runs named in a refusal.

Actions: `Dispatch` and `RefuseUnresolved` (the two outcomes of `#dispatch` that change state; a
refused duplicate changes nothing), `PostHandoff`, `PostUserInput`, `ApplyHandoff`,
`ApplyDeadline`, `ApplyUserInput`, `ClearConversation`, `Tick`. `retain` is the constructor option
`retainRoutingHistory`, both values checked. Only tests set it; with it, a run that timed out and
whose definitive result came late is still treated as unresolved, so the next request is refused
once although the outcome is known. The contract allows that superfluous warning.

Abstracted: manifest, schema and origin checks (they refuse without touching this state), texts,
the suggestion pool, observations and progress.

`WorkContract` says what this amounts to: a run is started, may be lost, a requester may be warned,
it is settled at most once, and `MayStart` says when a request may be started again. `Delegates`
implements it under the mapping at its end.

### BlackboardSession and CausalRuntime (`memory/blackboard-session.ts`, `core/causal-runtime.ts`)

`BlackboardSession` is the publication session: a drain (`requested`, `drain`, `batch`), a clear
and a close over `memory` and `durable`, both sets of rows. `CausalRuntime` extends it: each action
of the session is composed with what it wakes in the shell. A dispatch has two threads of control,
the host's call (`caller`) and the owned task (`task`); their values name the `await` they sleep at.
`via` tells `dispatchExternal`, `dispatchConfirmedExternal` and `dispatchTaskExternal` apart.

*Order of execution.* A continuation of a resolved promise is a microtask and runs before any timer,
worker message or file callback. The launch relies on it: `yieldToEventLoop` (a `setImmediate`) lets
the caller, woken by the same flush, be answered first. Steps delivered by the event loop carry the
guard `Quiet`, which says that no microtask is runnable. Calls of the host are not restricted.

Choices, each larger than what the program does: an abort is noticed between events; the grace that
a stop gives its tasks ends at any time; a host that passes no launch check is one that never
withdraws; an event's time is left out and the queue is in posting order; a failed store call may
or may not have had its effect. `failure` stands for the session's and the runtime's failure
together. A clear that meets a stop may be refused; it then sets `failure`, its caller sees the
error, and the old conversation stays (`ClearLeavesNothing` asks for `~failure`).

Left out: the memory rows some host writers append without the gate
(`composition/realtime-assembly.ts`), the start before `serve`, `openMemory`, model calls, progress,
the maintenance flush, retention, summaries, the passed-deadline test of the launch.

### HostApproval (`core/approval.ts` lines 26-299, `core/pending-decision.ts`)

The controller is one record, `fifo`, and each private method is an operator from record to record,
so that `Drop` calls `PromoteNext` calls `Arm`, as in the code. `Publish` is `#publish` with its one
observer that calls back into the controller (`syncExecutorApproval`, which parks a head while a
project confirmation is open). `fifo.timer` is the pending decision with its own deadline and held
flag, kept apart from the controller's because the two must agree. Time is a countdown to the
head's deadline, so that time itself needs no bound; a timer may fire late.

Actions: `Offer`, `Consume`, `Withdraw` (abort of an offer's signal, `invalidateWork`, `invalidate`
of the head), `ClearConversation`, `TimerFires`, `AcceptDecision`; of the environment `OpenProject`,
`SettleProject`, `PublishProject`, `GoAway`, `ComeBack`, `SeeCard`. `project = "over"` is a settled
confirmation whose view is not published yet. An answer accepted by the controller is spent by the
transport in a later step (`Consume`). A declined over-capacity offer changes nothing and is no
action.

Left out: acceptance for the session (an acceptance), the voice authority, a session that is not
connected. `presented`, `GoAway`, `ComeBack` and `SeeCard` are a free person here.

### ApprovalClient (`clients/desktop/src/renderer/personal-controller.mjs`, `index.mjs` 326-336; `desktop/desktop-session.ts`, `personal-agent/host.ts`)

The person of `HostApproval` replaced by the program that speaks for them. `client` is the renderer:
its connection, its mode and the one it wants, the `presentation.set` under way, the cards it has
acknowledged (`seenPresentations`) and the acknowledgements under way. `GoAway` happens because the
client asked to hide (`Presented`) or because its connection was released (`Disconnect`), `ComeBack`
because it asked to be shown, `SeeCard` because an acknowledgement arrived while its card was the
head's (`Seen`). A `presentation.set` may fail, with or without its effect. `Asking` is everything
else of `HostApproval`.

The client acknowledges a card once. It forgets that when it hides itself and when the
acknowledgement fails, not when the connection is lost; the host, on the other hand, parks every
waiting approval then and waits for its card to be seen (again). `forgotten` is the history variable
that names those cards; section 6 says what it means.

One client, one window with the focus; the view of the head arrives at once; both ends notice a lost
connection in the same step (the host serializes what follows from it before any later command).

### DeviceLock (`executors/device-lock.ts`, the run of `executors/autoglm.ts`)

The lock is a directory with two files, shared by processes; each action is one call of the file
system, or the probe of two pids, so that whatever another host or a crash does may come between.
`seen` and `stale` are the two reads of `acquireDeviceLock`: what the owner file said when it was
read, which may be old when the pids are probed. Writing `owner.json` again truncates it first; an
owner that cannot be read is `Nobody`. A run ends in a release, or in a quarantine when its process
group is not known to be gone or its last write was not acknowledged. The device process outlives
its host: `DeviceExits` may come at any time, and never has to. `Ignores` tells the two kinds of
engines apart: `autoglm.ts` goes on when the process could not be recorded, the runners of
`gui-execution.ts` do not. A process that was started and not told what to do does not act.

`DeviceLease` says what the directories amount to, whatever is read and removed when: one lease of
the device that outlives the host for as long as what it has started may act. A run takes it (`Take`)
when nobody holds it, nothing acts and nothing is in doubt; it starts its process (`Act`), which ends
(`Cease`); the run gives the lease up, or its host crashes (`Leave`), perhaps leaving the device in
doubt for good. `DeviceLock` implements it where `~Ignores`: `Holders` are the runs of live hosts
past the write of their owner file, `Actors` those whose device process acts, `blocked` is the
quarantine.

Left out: pids in use again (they only keep a lock longer), Windows (stricter), manual recovery, the
wait for the task resource inside a run.

### TaskLoop (`personal-agent/tasks.ts`, `task-loop.ts`, recovery in `host.ts`)

One task. `state` is its record in the memory of `TaskService`, `disk` its file: a transaction of
`#mutate` writes the file first; one that fails (`Unsaved`) may have replaced it, and the next crash
continues from there. `loop` is the run of `TaskLoop.wake`, its `pc` the await it sleeps at; `fence`
is the pair of control and goal revision its step was read under. `host` holds `#recovering`,
`#recoveryBlocked` and `#liveDeliveries`, `running` the works of this process, `reply` the response
of Nova's own route, `sending` a message of the user on its way (`#liveInputs`).

| Actions | Code |
|---|---|
| `Step`, `WaitUnknown`, `GiveUp` | the head of `#step` and its `catch` clauses |
| `ReserveInitial`, `Evaluate`, `EvaluateFails`, `Apply` | `reserveInitial`, `ports.evaluate`, `applyDecision` |
| `MarkEffectDispatching`, `Execute`, `SettleEffect` | `#execute` |
| `BindWork`, `Refuse`, `Flush`; `BeginDelivery`, `Deliver` | the dispatch to an executor; Nova's own delivery |
| `WorkEnds`, `ResourceState`; `Speak`, `Withdraw`, `Drop`, `Forget`, `ResponseEnds`, `RecordDelivery`, `DeliveryInterrupted` | the reports; the last four are the `response_terminal` handler and `settleTaskResponse` of `conversation-runtime.ts` |
| `Takeover`, `Return`, `Continue`, `ContinueBlocked`, `Revise`, `Reconcile`, `Cancel`; `InputBegin`, `InputAdmit`, `InputRefused`, `InputSettle` | the user's commands and Nova's task tool |
| `Crash`, `RecoverAgain`, `RecoverJudge`, `RecoverWrite` | `open`, `recoverTasks` |

A response of Nova's own route ends in one of four ways. With a text: the delivery is finished, then
the text is filed as evidence and the task woken, unless its fence is stale. Interrupted: the delivery
is finished and the task waits. Completed without a text (`blank`): the delivery is finished and nothing
else happens, since `conversation-runtime.ts:124` and 127 need a text and 126 an interruption. Completed
without being settled (`Forget`): a response that called tools loses its entry (line 170), one that is
spoken and had no audio is retired unreported (`realtime/playback.ts:162`); the delivery stays pending
and the reply is `lost`, as it is when an uncertain item is dropped or the transport is uncertain.

History: `out`, the executions that may be under way, whatever the record says; `attested`, the user
confirmed that a step ran and nothing was verified since; `missed`, a change of which nobody told
the loop. A verifier may say anything and cite any evidence it was shown; an executor may refuse,
take the work, or be unreachable; a work may end known or unknown, or be lost.

Left out: several tasks (recovery run for another one is `RecoverAgain`), more than one client, the
to-do projection, schedules, coding intakes, retention, the display of events, the deferral of a
wake to the end of a response, and the answer to the user's own turn, which is filed for the tasks of
that turn although it carries no delivery of theirs.

### Notifications (`notifications/service.ts`, `flushNotifications` and `#commit` of `personal-agent/host.ts`)

One feed item that is revised and perhaps dismissed; each revision is a message. `state` and `disk`
are the outbox in memory and in `.notifications.json`, with failed writes as above. `relay` is the
run of `flushNotifications`: admit the intents (`PublishIntent`, `ClearIntent`), then dispatch
(`Dispatch`, `Take`, `Skip`, `Probe`, `Check`, `Claim`, `Send`, `PassOver`), one await per step.
`feed` is the item, its intents, and the dismissal between the invalidation of the outbox and its own
commit (`Invalidate`, `CommitDismissal`). The user chooses another channel (`Configure`), changes the
account behind it (`Bind`), and resends (`Retry`). `Restart` is a crash and `open`.

History: `landed` counts, by message, part and channel, the sends that the channel may have accepted;
`confirms` the resends of an unknown delivery the user confirmed.

A message keeps its last delivery only: a successor is made in the very step that supersedes the one
before, and the route revision tells them apart. Left out: the legacy second route, capacity and
pruning, back-off times (a pass may skip any delivery), the status of a binding, several items.

## 4. The runs

| Run | Instance | Shows |
|---|---|---|
| `Delegates` | 2 delegates, 4 events, a mutating request and a readonly untimed one, times 0..2, one clear | safety, action and liveness properties of the reducer, and the refinement of the contract |
| `DelegatesBudget` | the same, both requests timed | *violated*: `BudgetHonoured`, see section 6 |
| `CausalRuntime` | 2 dispatches of any kind, 1 input, 1 clear, batches of 1 row, a stop, failures | 7.6 million states of the shell and the session |
| `CausalRuntimeProgress` | 1 dispatch, 1 input, 2 clears | liveness |
| `HostApproval` | 3 works, 3 requests, capacity 3, deadline 1 tick | 2.8 million states: head and two queued, every order of parking, answering, dropping |
| `HostApprovalProgress` | `ApprovalClient` with 2 works, 2 requests, any number of lost connections | 0.7 million states, liveness |
| `Notifications` | 2 revisions, 2 parts, one change of route, one of account, one confirmed resend, 2 faults | 5.6 million states: item, relay, outbox and user |
| `NotificationsSwitch` | 1 revision, 1 part, one change of route, no faults | *violated*: `NothingGivenUp`, see section 6 |
| `TaskLoop` | both routes, 2 works, 1 message, 1 correction, 2 changes of control, 1 of the goal, 1 fault | 3.3 million states: one task from delegation to its end, no step of which takes the record back |
| `DeviceLock` | 3 runs on up to 3 hosts, any crash, any failing call | 1.1 million states: the owner, a reclaimer, and a second one that is late; the refinement of the lease |
| `DeviceLockCrash`, `DeviceLockUnrecorded` | 2 runs, 2 hosts | *violated*, see section 6 |

Why the bounds are enough to be interesting. Two delegates are a run and its retry, or two runs of
different requests; four events let one run see its deadline, an unknown and a definitive handoff.
What needs more runs (three retries) is covered by the proofs, which have no bound. In
`CausalRuntime` two dispatches and an input share a drain with batches of one row, so that a flush
is made of several commits and a row may belong to a later batch than its waiter; one clear is
enough for two conversations, and the second clear matters for the gate only, which the progress
run has. In `HostApproval` a head, its successor and one behind it show every promotion; a deadline
of one tick distinguishes running, over and stopped. In `DeviceLock` three runs are the dead owner,
one that reclaims and becomes the next owner (and may die in turn), and one that acts on what it read
before; nothing there is counted, so there is no other bound. In `TaskLoop` two works are a step and
its repetition, or a work beside a message; two changes of control are a takeover with its return, or
a continuation on top of a decision; one fault is a crash, a failed write or a second recovery at any
step. In `Notifications` two revisions are a message and the newer one that supersedes it, two parts a
partial delivery, two faults a write that failed with the crash that reads its file. Larger numbers
are covered by the proofs, which have no bound.

Symmetry is used for delegates and inputs, for works, for runs and hosts, only in runs without liveness. The
shell, the reducer and the device runs may stop for good (the runtime closed, the bounds used up,
every run over, a task at its end), so deadlock is not checked there; it is checked in `HostApproval`,
`ApprovalClient` and `Notifications`.

Every property has a mutant: an operator named as a seeded fault beside the definition it replaces,
with which TLC must find the property violated.

### Properties

* `Delegates`: `NoDuplicateWork`; `VerifiedBeforeRetry` (a mutating request runs again only when
  each earlier run is settled or was named in a warning); `ClaimsGetMoreCertain` (timeout, unknown,
  definitive, each at most once, in this order); `RoutingIsTight` (nothing stays in the tables that
  no later event could need); `RowsAreCurrent`; `TimelyHandoffWins`; `TimedRunsEnd`;
  `ImplementsContract`.
* `CausalRuntime`: `DurableBeforeLaunch`, `LaunchFollowsAnswer`, `WithdrawnNeverStarts`,
  `ShownIsDurable`, `ClearLeavesNothing`, `OrderlyStopLosesNothing`, `ClearEnds`, `InputsSettle`,
  `DispatchSettles`.
* `HostApproval`: `DeadlineRunsUnlessParked`, `OpenIsWaiting`, `UnseenNeverExpires`,
  `RevokedNeverSpent`; of `ApprovalClient` `Answered`.
* `TaskLoop`: `NoOverlap` (a step is dispatched only when no earlier execution of the task may be
  under way: no call, no work, no response, no message of the user); `AttestedIsVerified` (a step the
  user confirmed is looked at by the verifier before another is dispatched); `CompletedIsProven`;
  `InputsHeeded`; `NobodyStranded` (a task under Nova's control that waits for nobody, one whose
  delivery is pending included, has a loop, an execution, a response or a recovery that will drive it
  on, unless a write failed or one of the gaps named in section 6 was met: `missed`, where the code
  tells the loop nothing, and a `lost` reply). The last one is the lost-wake-up question as a state
  invariant: no fairness is needed to state it. Its mutants drop a wake beside a run, and forget to
  finish a delivery. `OnlyForward` (no step takes the record back: not a restart
  from the file, nor a failed write, nor a late answer).
* `Notifications`: `NeverSentBlindly`, `IntentKept`, `NothingAfterDismissal`.
* `DeviceLock`: `ImplementsLease`; `ActingIsLocked` (a device process that may act keeps its run's lock in
  place, though its host died); `LeftoversHaveCause` (a directory stays behind
  only through a crash, a failed call or a quarantine). The mutants show why `reclaimable` is called
  twice and its results compared: without the second look two hosts own the device, without the
  comparison a lock is removed under an acting process, without the second look for `quarantine.json`
  a quarantine is lost. `OneOwner` and `QuarantineStays` are part of what the lease says; they are
  proved, and no longer checked for themselves.

### Fairness

* `Delegates`: time passes, and the serve loop applies what is ready. No executor owes an answer.
* `CausalRuntime`: weak fairness of all steps of the program together. A JavaScript thread runs
  whatever is runnable; store calls have a timeout (10 s, 400 ms for a close) and fail otherwise.
  The one unbounded wait is `bindWork`, a file write of the task store. The host owes no call, an
  adapter no answer.
* `DeviceLock`, `HostApproval`, `TaskLoop`, `Notifications`: none, they have safety properties only.
* `ApprovalClient`: time passes, a sleeping timer wakes, a transport goes on when its promise
  resolves, a settled confirmation is published; the client reconnects, its commands are handled, and
  it acknowledges the card it shows. Nobody owes an answer, a confirmation or their presence.
  `Answered` holds only where the client is eventually connected and shown for good and no
  confirmation is pending for good: each release gives a full new deadline, so parties that park
  the head for ever may postpone it for ever.

## 5. The proofs

`DelegatesProofs` proves, for every set of requests and outcomes, every budget and any number of
delegates, events, ticks and clears, that the type invariant, `NoDuplicateWork`,
`ClaimsGetMoreCertain`, `VerifiedBeforeRetry`, `RoutingIsTight`, `RowsAreCurrent` and
`TimelyHandoffWins` hold; `DelegatesRefinement` proves `ImplementsContract`. The only assumption is
`DelegatesAssumption`, which TLC evaluates in the runs.

Argument. The properties are not inductive: that announcements only get more certain depends on the
routing tables remembering what was announced, and they forget on purpose. `IInv` adds what ties them:

* `QueueAgrees`: a queued handoff or deadline belongs to a known delegate, carries that delegate's
  epoch, and a deadline event its deadline;
* `RowsAgree`: rows about delegates are of the present epoch, and name known delegates;
* `TablesAgree`, `FlightIsFresh`: a run in flight is routable, unfenced, and has announced nothing;
* `EndedAgrees`: for a run that has ended and is still routable, termination kind, outcome and
  `handoffSeen` say exactly what the announcements were;
* `GoneWasSettled`: a run whose entry was reclaimed is settled or was warned about.

The step proof has one lemma per action that touches the tables (`DispatchStep`, `RefuseStep`,
`HandoffStep`, `DeadlineStep`) and one for those that do not (`QuietSteps`). `TimelyHandoffWins`
follows from `QueueAgrees` and the order of the queue. The refinement maps a dispatch to `Start`,
the first definitive announcement to `Settle`, a deadline or unknown handoff to `Lose`, a refusal to
`Warn`, and everything else to a stutter.

`DeviceLockProofs` proves for any number of runs and hosts `TypeOK`, `OneOwner`,
`LeftoversHaveCause` and `QuarantineStays`, and, where `~Ignores`, `ActingIsLocked` and
`ImplementsLease` (with `Ignores` `ActingIsLocked` is refuted, section 6). The assumption is `DeviceLockAssumption`.
None but the type is inductive: they rest on what each run read earlier still being true. `IInv` adds:

* `WorkAgrees`: at most one run of a live host is at work on the lock, and the owner file names that
  run or nobody; mkdir preserves it because a directory that does not exist holds nothing
  (`FilesAgree`);
* `ReclaimAgrees`: at most one reclaimer is inside the mutex, and the owner it found stale is and
  stays dead, with its device process. So nobody is at work on a lock it is about to remove, and
  what it saw the second time is still there: that is why the lock is read again under the mutex;
* `DeviceAgrees`: while a run may start its device process, and while the process acts, the file
  records it, so that its lock is never found stale;
* `CausesAgree`: unless a call failed, a run that looks for its owner file finds it.

There is one lemma per part with one step per action, and `CrashKeeps` for the crash of a host.

For the refinement `LeaseStep` maps each step: the write of the owner file is `Take`, the start of
the device process `Act`, its exit or kill `Cease`, and a release, a quarantine or the crash of a host
`Leave`; every other call of the file system is a stutter. `Take` has a guard that the code never
tests: that no other run holds the device and no process acts on it. It follows from `WorkAgrees` and
`DeviceAgrees`, since the run that writes the owner file has made the directory. A crash is one `Leave`
because one run at a time holds, so that a host takes at most one with it.

`TaskLoopProofs` proves `TypeOK`, `CompletedIsProven`, `InputsHeeded`, `NoOverlap`,
`AttestedIsVerified` and `NobodyStranded` for any number of works, messages, corrections, changes of
control and of the goal, and faults; the assumption is `TaskLoopAssumption`. `NoOverlap` compares what
may be under way with what the run knows, and the run knows only a record it read some awaits ago.
`IInv` adds:

* `OutAgrees`: whatever may be under way is on record, in memory *and* in the file, since a crash
  continues from the file and a failed write leaves either: the call in a marked or unknown effect, a
  response in a pending delivery, a work in an outcome that is missing or unknown, a message in a
  receipt of unknown fate;
* `RunAgrees`: a run whose fence still holds found nothing under way; whoever has started something
  since (the user's message, a returned task) has changed the fence, or the transaction refuses;
* `EffectAgrees`, `SendingAgrees`, `ReplyAgrees`, `FenceAgrees`: what the run, a message and a
  response on their way may count on;
* `RecordsAgree`: a completed record, in memory or in the file, is proven and heeded;
* `AttestedAgrees`: a confirmed step has left evidence, so that no first step is reserved after it.

`NobodyStranded` says that there is no lost wake. It is not inductive, for a run that has not ended may
be about to end for nothing; `StrandInv` follows the run to its end:

* `Awaited` is what will drive the task on, or lets it rest, but for the run itself: it is the user's
  or not to be driven, a work, a response, a message or a recovery is to report, a write failed, or
  the loop was told nothing (`missed`, section 6). `Excused` adds a delivery that is not over;
* `WokenAgrees`: an ended run leaves an excused task. A run whose fence is stale gives up without
  writing, so whoever changed the fence has excused the task or asked the run to come again; and what
  a run has started (a flushed work, an accepted response) is still to report, or its report came
  first and asked the run to come again. While the run hands over Nova's item, the delivery is no
  excuse, since the run takes it back when the item is withdrawn;
* `WorksAgree`: a step that finds a work that has not reported may rest, because it is a work of this
  process or recovery sees to it;
* `DeliveryHeld`: likewise for a pending delivery: the run hands it over, or a response will end it, or
  its reply was lost, or recovery sees to it. So the excuse of `Excused` is one of someone who reports.

Each step of the run has a lemma of its own; of every step beside it `OthersDriven` shows that an
excuse goes only with a wake, that a changed fence brings either, and that the run stays.

The last section is about the record as such. `Follows` orders records: a finished task stays as it
ended, fences are never lowered, evidence is kept, a work or a message settles once. `ForwardKept` shows
that every step moves along it, in memory, and that the file is never behind the memory (`NotBehind`,
theorem `FileNeverBehind`): it may be ahead, when a write has failed after it replaced the file. So
what a crash continues from is never older than what was decided on, which `OnlyForward` rests on;
`EvidenceNeverLost` follows for the evidence a verifier may cite.

`NotificationsProofs` proves `TypeOK`, `NeverSentBlindly`, `IntentKept` and `NothingAfterDismissal`
for any number of revisions, parts, routes, accounts, resends and faults, from
`NotificationsAssumption`. `IInv`:

* `StoreAgrees`: memory and file, each for itself, account for what may have landed (`Counted`): a
  part with a receipt once, the part that is out or unknown once, each confirmed resend at most once
  more, and, unless one was confirmed, only on the channel of the delivery. So a crash, which
  continues from the file, never forgets a send. A message in memory is in the file (`FileKnows`);
* `RelayAgrees`, `PortsAgree`: what a pass under way may count on after each await;
* `DismissalAgrees`: from the invalidation on every message of the outbox is withdrawn, but for one
  whose intent the relay is about to delete, which it cannot do before the dismissal has ended; so
  the claim finds nothing to send;
* `IntentAgrees`: an intent that is gone left its message in the outbox.

`CausalRuntimeProofs` proves all the safety properties of the shell: `TypeOK`, `LaunchFollowsAnswer`,
`WithdrawnNeverStarts`, `ClearLeavesNothing`, `OrderlyStopLosesNothing`, `DurableBeforeLaunch` and
`ShownIsDurable`, for any numbers of delegates, inputs and clears, from `RuntimeAssumption`. Each is
about what was true before an `await`; `IInv` says what each wait guarantees:

* `StoreAgrees`: a row that memory holds and the store does not is asked for, or in the batch, or is
  the row of a delegate whose task has not asked for its flush. So a drain that ends well leaves
  nothing behind for those who wait for it, although they asked at different times and share it;
* `PhasesAgree`: a clear writes alone, nothing is written after the close, a clear and an event that
  is being applied exclude each other;
* `EpochsAgree`: rows and events are of this conversation or an earlier one, and while a clear is
  under way no delegate and no event is of the conversation that begins, so that none can write
  between the bump of the epoch and the end of the clear;
* `ApplyAgrees`, `TaskAgrees`: the event being applied and the delegates of this conversation are in
  memory, and in the store once their flush has ended;
* `AnswerAgrees`: a caller that waits for no binding has its answer when its task gets to the launch:
  the same drain wakes both, the caller first, and the task yields to the event loop;
* `WithdrawalAgrees`: a withdrawal is remembered by the launch check or by what made the check go
  away: another epoch, a stop, the end of the task.

There is one lemma per action, after lemmas about what the actions share (the drain, a refused gate,
the end of a task).

`HostApprovalProofs` proves all the safety properties of the approval line: `TypeOK`,
`DeadlineRunsUnlessParked`, `OpenIsWaiting`, `UnseenNeverExpires` and `RevokedNeverSpent`, for any
numbers of works and approvals, any capacity and deadline, from `ApprovalAssumption`. `IInv`:

* `Orderly`: the line is in the order in which the approvals were asked for; who waits behind the
  head is undecided and was never parked; an outcome is open exactly while its approval waits
  undecided. Promotion rests on it: a new head has a fresh deadline because it never had one;
* `TimerAgrees`: the pending decision and the controller agree on the head's deadline, and it stands
  still exactly while somebody holds or the card is awaited;
* `ProjectAgrees`, `PresenceAgrees`: who holds will release. A project hold implies a head and a
  confirmation that is not yet published, because a head that leaves takes its project hold along and
  `Publish` gives the next one its own;
* `HistoryAgrees`: what was revoked has left the line, what waits was not spent, and an approval that
  was not seen awaits its card, so that as a head it is parked and its deadline cannot pass.

The private methods of the controller are operators on its record; each has a lemma that says what it
needs and leaves (`ParkSound`, `PublishSound`, `DropSound`, `ReleaseSound`, ...), and each action composes
them; what an action does to the line is a lemma about the queue (`OfferJoins`, `ExpireDrops`, ...).
`ClearConversation` drops heads in a loop; `DroppedSound` is an induction over its turns.

`ApprovalClientProofs` proves that `ApprovalClient` implements `HostApproval` (`ClientImplements`): with
the client's own variables hidden, each of its steps is one of `HostApproval` or a stutter. The four
safety properties proved of the approval line follow for the line with its client (`ClientDeadline`,
`ClientOpenIsWaiting`, `ClientUnseenNeverExpires`, `ClientRevokedNeverSpent`), and `IInv` with them.

From it follows what neither end sees alone, `NoCardLost`: of a card that the host still waits to see,
the client believes that it was acknowledged only while the acknowledgement is under way, or when it
is one that was forgotten with a connection (section 6). So the finding is the only way to a card that
nobody will acknowledge. `CardsAgree` is the inductive invariant: an acknowledgement under way is for
the head or for nobody who waits, since the line only moves up; while one is under way the host takes
the person to be present, so that it counts; a client that asks to hide has forgotten what it saw, so
that the cards which the host then parks are acknowledged again. It is proved, and not a property of
a run.

The induction theorems of the library take an operator, which the provers cannot instantiate. Where a
loop of the code is followed for any number of turns (`Dropped` of `HostApproval`, `HandoffsOf` of
`CausalRuntime`), the model has a recursive function over the numbers, and the proof is by a set of
naturals that is closed under successor (`NaturalSets`), which follows from the well-founded order.

Model-checked only: liveness (`TimedRunsEnd` and the two progress runs), which is beyond the prover.
Every invariant, every action property and every refinement of the passing runs is stated by a theorem.

## 6. Findings

`DelegatesBudget`: `#dispatch` counts a run's deadline from the time of the last applied event, and
from 0 when the conversation has applied none (`core/runtime.ts:833`), while the clock is the uptime
of the process. A run dispatched before anything was applied, after a start or a clear, gets a
deadline that is already past and is timed out at once. The documentation calls `deadline_budget`
the overall limit of the execution (`docs/zh-CN/archs/04-ports.md:15`).

`DeviceLockCrash`: the guide (`docs/guides/mobile.md:52`) and a comment (`executors/autoglm.ts:197`)
say that a crash leaves a quarantine that only manual recovery removes. The quarantine file is
written only by a host that lives to end its run. After a crash the next host reclaims the lock as
soon as the recorded device process is gone, even if a device write was in the air.

`DeviceLockUnrecorded`: the process is recorded "so a later host never reclaims while it may still
act" (`executors/device-lock.ts:89`), but `executors/autoglm.ts:211` ignores a failed record and lets
the process act. If its host then crashes, another host reclaims the device under it.

`NotificationsSwitch`: `docs/proactive-notification-channels.md:36` says that a blocked message is
kept until the binding or the content becomes usable. When the user chooses another channel while a
message is being sent and the send is then refused, the message is `blocked` on the old route; the
next claim finds that its route is no longer the primary one and supersedes it
(`notifications/service.ts:210`) without enqueuing it on the new route. A refusal that invites a retry
is moved (line 242), a refusal that blocks is not.

Without a run of their own, and excluded by name from the properties they would break:

* A dropped connection and the card that was seen (`forgotten`, `Answered`): after a reconnection the
  host waits for the card to be seen again (`core/approval.ts:116`), and the client, which has
  acknowledged it, does not say so twice (`clients/desktop/src/renderer/index.mjs:332`). The approval
  and those behind it keep waiting for the person, without a deadline, until the person answers or
  hides and shows the client.
* On Nova's own route the user's statement that a lost delivery took place leaves no evidence, so the
  step is dispatched again after a continuation, which the comment at `personal-agent/tasks.ts:633`
  means to prevent; and a confirmed step is filed under the present goal although it ran under an
  earlier one (`tasks.ts:636`). `AttestedIsVerified` speaks of a confirmed effect.
* A response to a task of Nova's own route that completes without a text strands the task
  (`missed`). A cascaded text response that has neither text nor tool call ends as completed
  (`realtime/cascaded/adapter.ts:1155`); `settleTaskResponse` then finishes the delivery, files
  nothing, lets nobody wait and wakes nobody (`conversation-runtime.ts:122-127`). The task stays queued
  with an accepted step, no delivery and no run, though `docs/en/tasks.md:7` says that Nova drives the
  loop on its own while it holds control. With `missed` left unchanged by such an end TLC violates
  `NobodyStranded` in ten states, from the delegation on, without any fault.
* Nor does anybody wake a task whose goal is revised while an evaluation is in flight, that is taken over
  and returned during a delivery, or whose queued response is withdrawn late (`missed`); it waits for the
  next event.
* A delivery may stay pending with nobody left to finish it (`lost`): its response called tools and
  completed, so that `conversation-runtime.ts:170` forgets it, or it was spoken and had no audio, so
  that `realtime/playback.ts:162` retires it unreported. A later answer that continues the tool calls
  carries no item of the task and finishes nothing. The step waits for the delivery until a restart.
* A work that was running at a crash never reports. Its task is blocked as
  `task_work_recovery_unavailable` while a decision of the user finds nothing to reconcile
  (`personal-agent/host.ts:380`); it can only be cancelled.
* An uncertain transport on Nova's route, or an uncertain item that is dropped, leaves the delivery both
  pending and live (`lost`, too): reconciling is refused, and continuing returns to a step that waits
  for the delivery, until a restart.

## 7. Not modelled

See the statuses and notes in `PROJECT.json`. In short: what the plan still has (section 2); remote
services, transports, codecs and prompts, which are I/O or data; clients, of which only the
presentation handshake is modelled; durable records of the personal agent beyond tasks and
notifications, most of which are written in single calls.

## 8. Running

```
tlc -workers 2 -config MCDelegates.cfg MCDelegates.tla
tlc -workers 2 -config DelegatesBudget.cfg MCDelegates.tla
tlc -workers 2 -config MCCausalRuntime.cfg MCCausalRuntime.tla
tlc -workers 2 -config CausalRuntimeProgress.cfg MCCausalRuntime.tla
tlc -workers 2 -config MCHostApproval.cfg MCHostApproval.tla
tlc -workers 2 -config HostApprovalProgress.cfg ApprovalClient.tla
tlc -workers 2 -config MCNotifications.cfg MCNotifications.tla
tlc -workers 2 -config NotificationsSwitch.cfg MCNotifications.tla
tlc -workers 2 -config MCTaskLoop.cfg MCTaskLoop.tla
tlc -workers 2 -config MCDeviceLock.cfg MCDeviceLock.tla
tlc -workers 2 -config DeviceLockCrash.cfg DeviceLock.tla
tlc -workers 2 -config DeviceLockUnrecorded.cfg DeviceLock.tla
tlapm DelegatesProofs.tla
tlapm DelegatesRefinement.tla
tlapm DeviceLockProofs.tla
tlapm TaskLoopProofs.tla
tlapm NotificationsProofs.tla
tlapm CausalRuntimeProofs.tla
tlapm HostApprovalProofs.tla
tlapm ApprovalClientProofs.tla
```
