------------------------------ MODULE TaskLoop ------------------------------
(***************************************************************************)
(* One task: its durable record (TaskService of personal-agent/tasks.ts),  *)
(* the loop that drives it (TaskLoop of personal-agent/task-loop.ts), the  *)
(* runtime it dispatches to, and its recovery after a restart (recoverTasks *)
(* of personal-agent/host.ts).                                             *)
(*                                                                         *)
(* Every change of the record is one transaction of #mutate: the file      *)
(* first, then the memory.  Between two of them, and while a verifier, an  *)
(* executor or a send is awaited, the user, Nova's tools and the reports of *)
(* the executors go on.                                                    *)
(*                                                                         *)
(* A task runs on an executor (its works report an outcome) or on Nova     *)
(* itself (a response is delivered).  One client; the to-do projection,    *)
(* scheduled tasks, coding intakes, retention and the display of events    *)
(* are left out, and so is the deferral of a wake to the end of a response. *)
(* The end of TaskLoop.wake, from the last look at #again to the deletion   *)
(* of the run, is one step: it awaits nothing but promises already settled. *)
(***************************************************************************)
EXTENDS Integers, FiniteSets

CONSTANTS
  Routes,          (* execution routes to consider: "executor", "nova"       *)
  CorrectionLimit, (* corrections before the task waits; 3 in the code       *)
  MaxWorks,        (* bound: works bound to the task                         *)
  MaxInputs,       (* bound: messages the user sends to the executor         *)
  MaxControl,      (* bound: changes of control made by the user             *)
  MaxGoals,        (* bound: changes of the goal                             *)
  MaxFaults        (* bound: restarts, recoveries run for the sake of another *)
                   (* task, and writes that fail, together                   *)

ASSUME TaskLoopAssumption ==
  /\ Routes \subseteq {"executor", "nova"} /\ Routes # {}
  /\ {CorrectionLimit, MaxWorks, MaxInputs, MaxControl, MaxGoals, MaxFaults} \subseteq Nat

Work  == 1..MaxWorks
Input == 1..MaxInputs
Goal  == 0..MaxGoals
Fence == Nat \X Goal                     (* control and goal revision *)

VARIABLES
  state,   (* #state: the record of the task                                 *)
  disk,    (* its file                                                       *)
  loop,    (* the run of TaskLoop.wake                                       *)
  host,    (* #recovering, #recoveryBlocked; #liveDeliveries                 *)
  running, (* works of this process that have not reported                   *)
  reply,   (* Nova's response to a dispatched step, and settleTaskResponse   *)
  sending, (* #liveInputs: a message of the user on its way                  *)
  faults,
  (* history, read by properties only                                        *)
  out,     (* executions that may be under way: a dispatch, works, a reply,  *)
           (* a message                                                      *)
  attested, (* the user confirmed that the step ran, nothing was checked since *)
  missed   (* a change the loop was told nothing of, and no wake since       *)

store == <<state, disk>>
vars  == <<state, disk, loop, host, running, reply, sending, faults, out, attested, missed>>

Phase  == {"queued", "running", "verifying", "waiting", "completed", "cancelled"}
Effect == [kind : {"none", "initial", "correct"}, fence : Fence, write_started : BOOLEAN,
           status : {"none", "pending", "accepted", "failed", "unknown"}]
(* A piece of evidence is filed under a revision of the goal.                *)
Proof  == [goal : Goal, by : {"work", "delivery", "user"}]
Bound  == [kind : {"none", "work", "input"}, goal : Goal, outcome : {"none", "known", "unknown"}]

Task == [route : Routes, phase : Phase, user : BOOLEAN, fence : Fence,
         corrections : 0..CorrectionLimit, lost : BOOLEAN, delivery : BOOLEAN,
         effect : Effect, works : [Work -> Bound], proofs : SUBSET Proof,
         inputs : [Input -> {"none", "unknown", "accepted", "failed", "reconciled"}]]

(* pc: the next thing the run does.  "fence" is that of the step, "says" the *)
(* verifier's decision, "cites" its evidence, "seen" the messages it was     *)
(* shown, "result" the status to settle the effect with, "revises" whether a *)
(* reconciliation changes the goal.  A reply is "lost" when its delivery is  *)
(* pending and nobody is left who would finish it.                           *)
Run == [pc : {"idle", "step", "giveUp", "wait", "reserve", "evaluate", "apply", "mark", "execute",
              "dispatch", "flush", "deliver", "settle"}, again : BOOLEAN, fence : Fence,
        says : {"complete", "correct", "wait", "reconcile"}, cites : SUBSET Proof,
        seen : SUBSET Input, revises : BOOLEAN, result : {"accepted", "failed", "unknown"}]
Host == [blocked : BOOLEAN, recovery : {"none", "judge", "clear", "delivery", "reason"},
         live : BOOLEAN]
Reply == [pc : {"none", "queued", "requeued", "speaking", "record", "tell", "lost"}, fence : Fence]
Ending == {"text", "blank", "interrupted"}      (* of a response *)
Sending == [pc : {"none", "admit", "accepted", "failed", "unknown"}, input : Input \cup {0},
            fence : Fence]

NoEffect == [kind |-> "none", fence |-> <<0, 0>>, write_started |-> FALSE, status |-> "none"]
NoWork   == [kind |-> "none", goal |-> 0, outcome |-> "none"]
NoneOut  == [call |-> FALSE, reply |-> FALSE, input |-> FALSE, works |-> {}]
NoReply  == [pc |-> "none", fence |-> <<0, 0>>]
NoSend   == [pc |-> "none", input |-> 0, fence |-> <<0, 0>>]
Awake    == [blocked |-> FALSE, recovery |-> "none", live |-> FALSE]

Idle == [pc |-> "idle", again |-> FALSE, fence |-> <<0, 0>>, says |-> "wait",
         cites |-> {}, seen |-> {}, revises |-> FALSE, result |-> "accepted"]

Init ==
  /\ \E r \in Routes :
       state = [route |-> r, phase |-> "queued", user |-> FALSE, fence |-> <<0, 0>>,
                corrections |-> 0, lost |-> FALSE, delivery |-> FALSE, effect |-> NoEffect,
                works |-> [w \in Work |-> NoWork], proofs |-> {},
                inputs |-> [i \in Input |-> "none"]]
  /\ disk = state
  /\ loop = [Idle EXCEPT !.pc = "step"]      \* tasks.delegate wakes the task
  /\ host = Awake /\ running = {} /\ reply = NoReply /\ sending = NoSend
  /\ faults = [crashes |-> 0, recoveries |-> 0, failures |-> 0]
  /\ out = NoneOut /\ attested = FALSE /\ missed = FALSE

-----------------------------------------------------------------------------
(* What the record says. *)

Terminal(t)       == t.phase \in {"completed", "cancelled"}
Works(t)          == {w \in Work : t.works[w].kind # "none"}
activeWork(t)     == {w \in Works(t) : t.works[w].outcome = "none"}
hasUnknownWork(t) == \E w \in Work : t.works[w].outcome = "unknown"
pendingEffect(t)  == t.effect.status \in {"pending", "unknown"}
UnknownInput(t)   == \E i \in Input : t.inputs[i] = "unknown"
pendingUserInputs(t) == {i \in Input : t.inputs[i] = "accepted"}

\* The works that have reported, and the deliveries and attested steps.
evidence(t) ==
  t.proofs \cup {[goal |-> t.works[w].goal, by |-> "work"] :
                   w \in {v \in Work : t.works[v].kind = "work" /\ t.works[v].outcome # "none"}}
HasEvidence(t) == t.proofs # {} \/ \E w \in Work : t.works[w].outcome # "none"

assertWritable(t, fence) == t.fence = fence /\ ~t.user /\ ~Terminal(t)
assertExecutionAllowed(t) ==
  ~host.blocked /\ host.recovery = "none" /\ ~hasUnknownWork(t)
Executable(t, fence) ==
  assertWritable(t, fence) /\ assertExecutionAllowed(t) /\ pendingUserInputs(t) = {}

NextControl(t) == [t EXCEPT !.fence = <<t.fence[1] + 1, t.fence[2]>>]
NextGoal(t) == [t EXCEPT !.fence = <<t.fence[1], t.fence[2] + 1>>]
Waits(t) == [t EXCEPT !.phase = "waiting", !.lost = FALSE]
Resumed(t) == [t EXCEPT !.phase = IF Works(t) = {} THEN "queued" ELSE "verifying",
                        !.lost = FALSE]

-----------------------------------------------------------------------------
(* #mutate: the file first, then the memory; a write that fails may have    *)
(* replaced the file (BoundedJsonStore.write syncs the directory last).     *)

Saved(next) == state' = next /\ disk' = next /\ UNCHANGED faults
Fault(kind) ==
  /\ faults.crashes + faults.recoveries + faults.failures < MaxFaults
  /\ faults' = [faults EXCEPT ![kind] = @ + 1]

Unsaved(next) ==
  /\ Fault("failures")
  /\ state' = state /\ disk' \in {disk, next}

\* A transaction of the loop that throws unless "ok", and where the run goes on.
Mutate(ok, next, then, thrown) ==
  \/ ok /\ Saved(next) /\ loop' = then
  \/ ok /\ Unsaved(next) /\ loop' = thrown
  \/ ~ok /\ UNCHANGED <<store, faults>> /\ loop' = thrown

Go(pc) == [loop EXCEPT !.pc = pc]
Settles(result) == [loop EXCEPT !.pc = "settle", !.result = result]
Leave(l) == IF l.again THEN [Idle EXCEPT !.pc = "step"] ELSE Idle

WakeDropped ==   \* seeded fault: a wake beside a run under way is dropped
  IF host.recovery # "none" \/ host.blocked THEN loop
  ELSE IF loop.pc = "idle" THEN Go("step") ELSE loop

\* wakeTask, and wake: one run at a time, and once more when woken meanwhile.
Wake ==
  IF host.recovery # "none" \/ host.blocked THEN loop
  ELSE IF loop.pc = "idle" THEN Go("step") ELSE [loop EXCEPT !.again = TRUE]

-----------------------------------------------------------------------------
(* TaskLoop.#step *)

\* What the step reads before its first await.
Step ==
  LET t == state
      l == [loop EXCEPT !.again = FALSE, !.fence = t.fence]
  IN /\ loop.pc = "step"
     /\ loop' =
          IF t.phase = "completed" \/ t.delivery \/ host.recovery # "none" \/ host.blocked
             \/ t.phase = "cancelled" \/ t.user \/ activeWork(t) # {} THEN Leave(l)
          ELSE IF hasUnknownWork(t) \/ pendingEffect(t) \/ UnknownInput(t)
               THEN [l EXCEPT !.pc = "wait"]
          ELSE IF Works(t) = {} /\ ~HasEvidence(t) /\ pendingUserInputs(t) = {}
               THEN [l EXCEPT !.pc = "reserve"]
          ELSE [l EXCEPT !.pc = "evaluate", !.seen = pendingUserInputs(t)]
     /\ UNCHANGED <<store, host, running, reply, sending, faults, out, attested, missed>>

\* tasks.wait of the catch clauses: a newer owner, goal or end wins.
GiveUp ==
  /\ loop.pc = "giveUp"
  /\ Mutate(assertWritable(state, loop.fence) /\ activeWork(state) = {},
            Waits(state), Leave(loop), Leave(loop))
  /\ UNCHANGED <<host, running, reply, sending, out, attested, missed>>

\* ... and of the step itself, task_effect_unknown.
WaitUnknown ==
  /\ loop.pc = "wait"
  /\ Mutate(assertWritable(state, loop.fence) /\ activeWork(state) = {},
            Waits(state), Leave(loop), Go("giveUp"))
  /\ UNCHANGED <<host, running, reply, sending, out, attested, missed>>

\* What reserveInitial asks for: nothing of unknown fate, no message to reconcile,
\* and no initial step of this fence but failed ones.
Reservable(t) ==
  /\ ~hasUnknownWork(t) /\ ~pendingEffect(t) /\ ~UnknownInput(t)
  /\ pendingUserInputs(t) = {}
  /\ ~(t.effect.kind = "initial" /\ t.effect.fence = t.fence /\ t.effect.status # "failed")

ReserveInitial ==
  /\ loop.pc = "reserve"
  /\ Mutate(assertWritable(state, loop.fence) /\ Reservable(state),
            [state EXCEPT !.effect = [kind |-> "initial", fence |-> loop.fence,
                                      write_started |-> FALSE, status |-> "pending"]],
            Go("mark"), Go("giveUp"))
  /\ UNCHANGED <<host, running, reply, sending, out, attested, missed>>

\* ports.evaluate: the verifier answers with a decision, or fails.
Evaluate(decision, cites, revises) ==
  /\ loop.pc = "evaluate"
  /\ loop' = [loop EXCEPT !.pc = "apply", !.says = decision, !.cites = cites,
                          !.revises = revises]
  /\ attested' = FALSE
  /\ UNCHANGED <<store, host, running, reply, sending, faults, out, missed>>

EvaluateFails ==
  /\ loop.pc = "evaluate" /\ loop' = Go("giveUp") /\ attested' = FALSE
  /\ UNCHANGED <<store, host, running, reply, sending, faults, out, missed>>

CitesAnything(t) == loop.cites # {}   \* seeded fault: evidence of any goal will do
\* The evidence cited is there and of the current goal.
CitesCurrent(t) ==
  loop.cites # {} /\ \A e \in loop.cites : e \in evidence(t) /\ e.goal = t.fence[2]

ReconciledTask(t) ==
  LET u == [NextControl(t) EXCEPT !.phase = "verifying", !.lost = FALSE,
              !.inputs = [i \in Input |-> IF t.inputs[i] = "accepted" THEN "reconciled"
                                          ELSE t.inputs[i]]]
  IN IF loop.revises THEN NextGoal(u) ELSE u

NeverExhausted(t) == FALSE   \* seeded fault: corrections are not counted
Exhausted(t) == t.corrections >= CorrectionLimit

CorrectedTask(t) ==
  [t EXCEPT !.phase = "queued", !.lost = FALSE, !.corrections = @ + 1,
            !.effect = [kind |-> "correct", fence |-> loop.fence,
                        write_started |-> FALSE, status |-> "pending"]]

Unheeded(t) ==   \* seeded fault: messages of the user not reconciled yet are passed over
  /\ assertWritable(t, loop.fence) /\ activeWork(t) = {}
  /\ ~hasUnknownWork(t) /\ ~t.delivery /\ ~pendingEffect(t) /\ ~UnknownInput(t)

\* applyDecision: what any decision but to wait asks for.
Decidable(t) ==
  /\ assertWritable(t, loop.fence) /\ activeWork(t) = {}
  /\ ~hasUnknownWork(t) /\ ~t.delivery /\ ~pendingEffect(t) /\ ~UnknownInput(t)
  /\ IF loop.says = "reconcile"
     THEN pendingUserInputs(t) # {} /\ pendingUserInputs(t) = loop.seen
     ELSE pendingUserInputs(t) = {}

Apply ==
  LET t == state IN
  /\ loop.pc = "apply"
  /\ CASE loop.says = "wait" ->
            Mutate(assertWritable(t, loop.fence) /\ activeWork(t) = {}, Waits(t),
                   Leave(loop), Go("giveUp"))
       [] loop.says = "reconcile" ->
            Mutate(Decidable(t), ReconciledTask(t),
                   [Idle EXCEPT !.pc = "step"], Go("giveUp"))
       [] loop.says = "complete" ->
            Mutate(Decidable(t) /\ CitesCurrent(t),
                   [t EXCEPT !.phase = "completed", !.lost = FALSE],
                   Leave(loop), Go("giveUp"))
       [] loop.says = "correct" ->
            IF Exhausted(t)
            THEN Mutate(Decidable(t), Waits(t), Leave(loop), Go("giveUp"))
            ELSE Mutate(Decidable(t), CorrectedTask(t), Go("mark"), Go("giveUp"))
  /\ UNCHANGED <<host, running, reply, sending, out, attested, missed>>

-----------------------------------------------------------------------------
(* TaskLoop.#execute, and the dispatch of the runtime (conversation-runtime, *)
(* CausalRuntime.dispatchTaskExternal).                                      *)

MarkEffectDispatching ==
  /\ loop.pc = "mark"
  /\ Mutate(state.effect.status = "pending" /\ Executable(state, loop.fence),
            [state EXCEPT !.effect.write_started = TRUE],
            Go("execute"), Settles("failed"))
  /\ UNCHANGED <<host, running, reply, sending, out, attested, missed>>

\* The last look before the dispatch, and the dispatch up to its first await.
Execute ==
  /\ loop.pc = "execute"
  /\ IF Executable(state, loop.fence)
     THEN /\ loop' = Go("dispatch") /\ out' = [out EXCEPT !.call = TRUE]
     ELSE /\ loop' = Settles("failed") /\ UNCHANGED out
  /\ UNCHANGED <<store, host, running, reply, sending, faults, attested, missed>>

\* The executor refuses (TaskExecutionRejected), or takes a work that starts
\* only once it is bound; a binding that fails leaves the effect unknown.
BindWork(w) ==
  LET t == state
      bound == [t EXCEPT !.works[w] = [kind |-> "work", goal |-> loop.fence[2],
                                       outcome |-> "none"],
                 !.phase = IF @ \in {"queued", "waiting"} THEN "running" ELSE @,
                 !.lost = FALSE]
  IN /\ loop.pc = "dispatch" /\ t.route = "executor"
     /\ w \notin Works(t) /\ \A v \in Work : v < w => v \in Works(t)
     /\ Mutate(t.fence = loop.fence /\ ~Terminal(t), bound, Go("flush"), Settles("unknown"))
     /\ IF state' = bound
        THEN running' = running \cup {w} /\ out' = [out EXCEPT !.works = @ \cup {w}]
        ELSE UNCHANGED <<running, out>>
     /\ UNCHANGED <<host, reply, sending, attested, missed>>

Refuse ==
  /\ loop.pc = "dispatch" /\ state.route = "executor"
  /\ loop' = Settles("failed") /\ out' = [out EXCEPT !.call = FALSE]
  /\ UNCHANGED <<store, host, running, reply, sending, faults, attested, missed>>

\* The flush after the binding; it fails when the blackboard does.
Flush ==
  /\ loop.pc = "flush"
  /\ \/ loop' = Settles("accepted") /\ out' = [out EXCEPT !.call = FALSE] /\ UNCHANGED faults
     \/ /\ Fault("failures")
        /\ loop' = Settles("unknown") /\ UNCHANGED out
  /\ UNCHANGED <<store, host, running, reply, sending, attested, missed>>

\* Nova's own route: the delivery is recorded before its item is queued.
BeginDelivery ==
  /\ loop.pc = "dispatch" /\ state.route = "nova"
  /\ Mutate(assertWritable(state, loop.fence) /\ ~state.delivery,
            [state EXCEPT !.delivery = TRUE], Go("deliver"), Settles("failed"))
  /\ host' = IF loop'.pc = "deliver" THEN [host EXCEPT !.live = TRUE] ELSE host
  /\ out' = IF loop'.pc = "deliver" THEN out ELSE [out EXCEPT !.call = FALSE]
  /\ UNCHANGED <<running, reply, sending, attested, missed>>

KeepsDelivery(t) == t   \* seeded fault: a delivery that is over stays pending
finishDelivery(t) == [t EXCEPT !.delivery = FALSE]

\* flushHostItems: the item is queued for a response, or withdrawn, or its fate
\* is unknown (the transport failed).
Deliver ==
  /\ loop.pc = "deliver"
  /\ \/ /\ loop' = Settles("accepted")
        /\ reply' = [pc |-> "queued", fence |-> loop.fence]
        /\ out' = [out EXCEPT !.call = FALSE, !.reply = TRUE]
        /\ UNCHANGED <<store, host, faults>>
     \/ /\ Mutate(TRUE, finishDelivery(state), Settles("failed"), Settles("failed"))
        /\ host' = [host EXCEPT !.live = FALSE] /\ out' = [out EXCEPT !.call = FALSE]
        /\ UNCHANGED reply
     \/ /\ loop' = Settles("unknown")
        /\ \E pc \in {"lost", "requeued", "speaking"} :
             reply' = [pc |-> pc, fence |-> loop.fence]
        /\ out' = [out EXCEPT !.call = FALSE, !.reply = TRUE]
        /\ UNCHANGED <<store, host, faults>>
  /\ UNCHANGED <<running, sending, attested, missed>>

\* settleEffect: an effect the user has settled keeps its status.
SettledTask(t) ==
  IF t.effect.status = "pending" THEN [t EXCEPT !.effect.status = loop.result] ELSE t

SettleEffect ==
  /\ loop.pc = "settle"
  /\ Mutate(TRUE, SettledTask(state),
            IF loop.result = "accepted" THEN Leave(loop) ELSE Go("giveUp"),
            IF loop.result = "accepted" THEN Settles("unknown") ELSE Go("giveUp"))
  /\ UNCHANGED <<host, running, reply, sending, out, attested, missed>>

-----------------------------------------------------------------------------
(* The reports of the executors, and Nova's response. *)

\* A transaction outside the loop; the loop is woken, "woken", only if it is saved.
Change(next, woken) ==
  \/ Saved(next) /\ loop' = woken
  \/ Unsaved(next) /\ UNCHANGED loop

Woken == missed' = IF state' = state /\ loop' = loop THEN missed ELSE FALSE

\* taskOutcome: the outcome is filed once; a task recovery has blocked is recovered
\* again, any other is woken.  An outcome that cannot be saved is lost.
WorkEnds(w, outcome) ==
  LET next == [state EXCEPT !.works[w].outcome = IF @ = "none" THEN outcome ELSE @] IN
  /\ w \in running /\ running' = running \ {w}
  /\ out' = IF outcome = "known" THEN [out EXCEPT !.works = @ \ {w}] ELSE out
  /\ Change(next, Wake)
  /\ host' = IF state' = next /\ host.blocked /\ host.recovery = "none"
             THEN [host EXCEPT !.recovery = "judge"] ELSE host
  /\ missed' = FALSE
  /\ UNCHANGED <<reply, sending, attested>>

RevivedTask(t, p) ==   \* seeded fault: a late report of a resource revives the task
  [t EXCEPT !.phase = p, !.lost = FALSE]
ResourceTask(t, p) == IF Terminal(t) THEN t ELSE [t EXCEPT !.phase = p, !.lost = FALSE]

\* resourceState: a work waits for a resource, or has it.
ResourceState(p) ==
  /\ running # {} /\ p \in {"waiting", "running"} /\ ResourceTask(state, p) # state
  /\ Saved(ResourceTask(state, p))
  /\ UNCHANGED <<loop, host, running, reply, sending, out, attested, missed>>

\* The queued item is taken by a response.
Speak ==
  /\ reply.pc \in {"queued", "requeued"} /\ reply' = [reply EXCEPT !.pc = "speaking"]
  /\ UNCHANGED <<store, loop, host, running, sending, faults, out, attested, missed>>

\* ... or withdrawn after its dispatch was accepted: nobody is told.
Withdraw ==
  /\ reply.pc = "queued" /\ reply' = NoReply
  /\ Saved(finishDelivery(state)) \/ Unsaved(finishDelivery(state))
  /\ host' = [host EXCEPT !.live = FALSE]
  /\ out' = [out EXCEPT !.reply = FALSE] /\ missed' = TRUE
  /\ UNCHANGED <<loop, running, sending, attested>>

\* An item whose first delivery is uncertain is dropped: the delivery stays pending.
Drop ==
  /\ reply.pc = "requeued" /\ reply' = [reply EXCEPT !.pc = "lost"]
  /\ UNCHANGED <<store, loop, host, running, sending, faults, out, attested, missed>>

\* A response that completes is not settled when it called tools, or when nothing of
\* it was there to be spoken: its delivery stays pending.
Forget ==
  /\ reply.pc = "speaking" /\ reply' = [reply EXCEPT !.pc = "lost"]
  /\ out' = [out EXCEPT !.reply = FALSE]
  /\ UNCHANGED <<store, loop, host, running, sending, faults, attested, missed>>

\* settleTaskResponse of any other: the delivery is finished first, and when that
\* cannot be saved the rest is skipped.  A response that completed without a text is
\* neither filed nor does the task wait, and nobody wakes it.
ResponseEnds(end) ==
  LET next == finishDelivery(state) IN
  /\ reply.pc = "speaking"
  /\ \/ Saved(next) /\ reply' = CASE end = "text" -> [reply EXCEPT !.pc = "record"]
                                   [] end = "blank" -> NoReply
                                   [] end = "interrupted" -> [reply EXCEPT !.pc = "tell"]
     \/ Unsaved(next) /\ reply' = NoReply
  /\ host' = [host EXCEPT !.live = FALSE]
  /\ out' = [out EXCEPT !.reply = FALSE]
  /\ missed' = (missed \/ end = "blank")
  /\ UNCHANGED <<loop, running, sending, attested>>

\* ... then its text is evidence and the task is woken, unless the fence is stale.
RecordDelivery ==
  /\ reply.pc = "record" /\ reply' = NoReply
  /\ IF assertWritable(state, reply.fence)
     THEN /\ Change([state EXCEPT !.proofs = @ \cup {[goal |-> reply.fence[2], by |-> "delivery"]}],
                    Wake)
          /\ missed' = FALSE
     ELSE UNCHANGED <<store, loop, faults>> /\ missed' = TRUE
  /\ UNCHANGED <<host, running, sending, out, attested>>

\* ... or the task waits, delivery_interrupted.
DeliveryInterrupted ==
  /\ reply.pc = "tell" /\ reply' = NoReply
  /\ IF assertWritable(state, reply.fence) /\ activeWork(state) = {}
     THEN (Saved(Waits(state)) \/ Unsaved(Waits(state))) /\ UNCHANGED missed
     ELSE UNCHANGED <<store, faults>> /\ missed' = TRUE
  /\ UNCHANGED <<loop, host, running, sending, out, attested>>

-----------------------------------------------------------------------------
(* The user, and Nova's tools. *)

Commanded == host.recovery = "none"     \* commands are refused while recovering
Controllable == state.fence[1] < MaxControl
Decider == state.user \/ state.phase = "waiting"   \* #assertDecider of a user

Takeover ==
  /\ Commanded /\ Controllable
  /\ Change([NextControl(state) EXCEPT !.user = TRUE], loop)
  /\ UNCHANGED <<host, running, reply, sending, out, attested, missed>>

\* controlClient and returnFromUserOrigin: whoever is in control.
Return ==
  /\ Controllable
  /\ Change([NextControl(state) EXCEPT !.user = FALSE], Wake) /\ Woken
  /\ UNCHANGED <<host, running, reply, sending, out, attested>>

ContinuedTask(t) == [NextControl(t) EXCEPT !.user = FALSE, !.corrections = 0, !.lost = FALSE,
                       !.phase = Resumed(t).phase]

Continue ==
  /\ Controllable /\ ~Terminal(state) /\ assertExecutionAllowed(state)
  /\ Change(ContinuedTask(state), Wake) /\ Woken
  /\ UNCHANGED <<host, running, reply, sending, out, attested>>

\* tasks.continue of a task recovery has blocked: it is recovered again.
ContinueBlocked ==
  /\ Commanded /\ host.blocked /\ ~Terminal(state)
  /\ host' = [host EXCEPT !.recovery = "judge"]
  /\ UNCHANGED <<store, loop, running, reply, sending, faults, out, attested, missed>>

\* reviseGoal by Nova's task tool; the loop is not woken.
Revise ==
  /\ ~state.user /\ ~Terminal(state) /\ state.fence[2] < MaxGoals
  /\ Change(NextGoal(state), loop) /\ missed' = TRUE
  /\ UNCHANGED <<host, running, reply, sending, out, attested>>

UnfiledTask(t, done) ==   \* seeded fault: a confirmed step leaves no evidence
  [NextControl(t) EXCEPT !.lost = FALSE,
     !.effect.status = IF @ = "unknown" THEN (IF done THEN "accepted" ELSE "failed") ELSE @]

\* What was uncertain is settled as the user says; a confirmed step is evidence.
SettledByUser(t, done) ==
  [NextControl(t) EXCEPT !.lost = FALSE, !.delivery = IF t.lost THEN FALSE ELSE @,
     !.works = [w \in Work |-> IF t.works[w].outcome = "unknown"
                               THEN [t.works[w] EXCEPT !.outcome = "known"] ELSE t.works[w]],
     !.inputs = [i \in Input |-> IF t.inputs[i] = "unknown"
                                 THEN (IF done THEN "accepted" ELSE "failed") ELSE t.inputs[i]],
     !.effect.status = IF @ = "unknown" THEN (IF done THEN "accepted" ELSE "failed") ELSE @,
     !.proofs = IF done /\ t.effect.status = "unknown"
                THEN @ \cup {[goal |-> t.fence[2], by |-> "user"]} ELSE @]

Uncertain(t) ==
  (t.lost /\ t.delivery) \/ hasUnknownWork(t) \/ t.effect.status = "unknown" \/ UnknownInput(t)

\* tasks.reconcile: refused while something still reports its own result.
Reconcile(done) ==
  /\ Commanded /\ Controllable /\ Decider
  /\ ~(state.delivery /\ host.live) /\ state.effect.status # "pending" /\ sending.pc = "none"
  /\ Uncertain(state)
  /\ Change(SettledByUser(state, done), loop)
  /\ out' = [NoneOut EXCEPT !.works = {w \in out.works : state.works[w].outcome # "unknown"}]
  /\ attested' = IF state' # state /\ state.effect.status = "unknown" THEN done ELSE attested
  /\ UNCHANGED <<host, running, reply, sending, missed>>

Cancel ==
  /\ ~Terminal(state)
  /\ Change([state EXCEPT !.phase = "cancelled", !.lost = FALSE], loop)
  /\ UNCHANGED <<host, running, reply, sending, out, attested, missed>>

-----------------------------------------------------------------------------
(* tasks.input: a message of the user to the executor. *)

UserWritable(t, fence) == t.fence = fence /\ t.user /\ ~Terminal(t)

InputBegin(i) ==
  LET next == [state EXCEPT !.inputs[i] = "unknown"] IN
  /\ sending.pc = "none" /\ state.inputs[i] = "none"
  /\ UserWritable(state, state.fence) /\ assertExecutionAllowed(state)
  /\ Works(state) # {}                     \* a session is bound
  /\ \/ Saved(next) /\ sending' = [pc |-> "admit", input |-> i, fence |-> state.fence]
     \/ Unsaved(next) /\ UNCHANGED sending
  /\ UNCHANGED <<loop, host, running, reply, out, attested, missed>>

\* The executor takes the message as a work: of its own kind beside another (steer).
InputAdmit(w, result) ==
  LET next == [state EXCEPT !.works[w] =
                     [kind |-> IF activeWork(state) = {} THEN "work" ELSE "input",
                      goal |-> sending.fence[2], outcome |-> "none"],
                 !.phase = IF @ \in {"queued", "waiting"} THEN "running" ELSE @, !.lost = FALSE]
  IN /\ sending.pc = "admit" /\ result \in {"accepted", "failed", "unknown"}
     /\ w \notin Works(state) /\ \A v \in Work : v < w => v \in Works(state)
     /\ UserWritable(state, sending.fence) /\ assertExecutionAllowed(state)
     /\ \/ /\ Saved(next) /\ running' = running \cup {w}
           /\ sending' = [sending EXCEPT !.pc = result]
           /\ out' = [out EXCEPT !.works = @ \cup {w}, !.input = @ \/ result = "unknown"]
        \/ /\ Unsaved(next) /\ sending' = [sending EXCEPT !.pc = "unknown"]
           /\ UNCHANGED <<running, out>>
     /\ UNCHANGED <<loop, host, reply, attested, missed>>

\* ... or it is refused, or the send throws.
InputRefused(result) ==
  /\ sending.pc = "admit" /\ result \in {"failed", "unknown"}
  /\ sending' = [sending EXCEPT !.pc = result]
  /\ UNCHANGED <<store, loop, host, running, reply, faults, out, attested, missed>>

InputSettle ==
  LET i == sending.input
      next == [state EXCEPT !.inputs[i] = sending.pc] IN
  /\ sending.pc \in {"accepted", "failed", "unknown"} /\ sending' = NoSend
  /\ \/ Saved(next) /\ loop' = Wake /\ missed' = FALSE
     \/ Unsaved(next) /\ UNCHANGED <<loop, missed>>
  /\ UNCHANGED <<host, running, reply, out, attested>>

-----------------------------------------------------------------------------
(* A restart, TaskService.open, and recoverTasks. *)

ForgetsPending(t) ==   \* seeded fault: an effect found pending was never dispatched
  IF t.effect.status = "pending" THEN [t EXCEPT !.effect.status = "failed"] ELSE t
\* An effect found pending may have run once its dispatch was marked.
Opened(t) ==
  IF t.effect.status = "pending"
  THEN [t EXCEPT !.effect.status = IF t.effect.write_started THEN "unknown" ELSE "failed"]
  ELSE t

Crash ==
  /\ Fault("crashes")
  /\ state' = Opened(disk) /\ disk' = Opened(disk)
  /\ loop' = Idle /\ running' = {} /\ reply' = NoReply /\ sending' = NoSend
  /\ host' = [Awake EXCEPT !.recovery = "judge"]
  /\ UNCHANGED <<out, attested, missed>>

\* Another task is recovered again: recoverTasks judges every task.
RecoverAgain ==
  /\ host.recovery = "none" /\ Fault("recoveries")
  /\ host' = [host EXCEPT !.recovery = "judge"]
  /\ UNCHANGED <<store, loop, running, reply, sending, out, attested, missed>>

hasUnresolvedExecution(t) ==
  t.delivery \/ pendingEffect(t) \/ UnknownInput(t) \/ (\E w \in Works(t) : t.works[w].outcome # "known")

\* The wakes at the end of recoverTasks.
RecoveryEnds(blocked, t) ==
  /\ host' = [host EXCEPT !.recovery = "none", !.blocked = blocked]
  /\ IF ~blocked /\ (t.phase = "completed" \/ ~t.user)
     THEN /\ loop' = IF loop.pc = "idle" THEN Go("step") ELSE [loop EXCEPT !.again = TRUE]
          /\ missed' = FALSE
     ELSE UNCHANGED <<loop, missed>>

\* Why the task must wait: the port may find its session unavailable.
RecoverJudge(unavailable) ==
  LET t == state
      reason == IF t.delivery THEN "delivery"
                ELSE IF pendingEffect(t) \/ UnknownInput(t) \/ hasUnknownWork(t) \/ unavailable
                        \/ activeWork(t) # {} THEN "reason"
                ELSE "clear"
  IN /\ host.recovery = "judge"
     /\ IF Terminal(t) /\ ~hasUnresolvedExecution(t)
        THEN RecoveryEnds(host.blocked, t)
        ELSE /\ host' = [host EXCEPT !.recovery = reason, !.blocked = reason # "clear"]
             /\ UNCHANGED <<loop, missed>>
     /\ UNCHANGED <<store, running, reply, sending, faults, out, attested>>

\* recoveryWait, and the end.
RecoveredTask(t) ==
  IF Terminal(t) THEN t
  ELSE IF host.recovery # "clear"
       THEN [t EXCEPT !.phase = "waiting", !.lost = host.recovery = "delivery"]
  ELSE IF t.phase = "waiting" THEN Resumed(t) ELSE [t EXCEPT !.lost = FALSE]

RecoverWrite ==
  LET next == RecoveredTask(state) IN
  /\ host.recovery \in {"clear", "delivery", "reason"}
  /\ \/ Saved(next) /\ RecoveryEnds(host.blocked, next)
     \/ /\ Unsaved(next) /\ host' = [host EXCEPT !.recovery = "none"]
        /\ UNCHANGED <<loop, missed>>
  /\ UNCHANGED <<running, reply, sending, out, attested>>

-----------------------------------------------------------------------------
Decisions == {"complete", "correct", "wait", "reconcile"}

TaskStep ==
  \/ Step \/ GiveUp \/ WaitUnknown \/ ReserveInitial \/ EvaluateFails \/ Apply
  \/ \E d \in Decisions, r \in BOOLEAN :
       /\ r => d = "reconcile" /\ state.fence[2] < MaxGoals
       /\ \E cites \in {{}} \cup {{e} : e \in evidence(state)} :
            (d = "complete" \/ cites = {}) /\ Evaluate(d, cites, r)
  \/ MarkEffectDispatching \/ Execute \/ (\E w \in Work : BindWork(w)) \/ Refuse \/ Flush
  \/ BeginDelivery \/ Deliver \/ SettleEffect

Reports ==
  \/ \E w \in Work, o \in {"known", "unknown"} : WorkEnds(w, o)
  \/ Speak \/ (\E e \in Ending : ResponseEnds(e)) \/ RecordDelivery \/ DeliveryInterrupted
  \/ (\E w \in Work, r \in {"accepted", "failed", "unknown"} : InputAdmit(w, r))
  \/ (\E r \in {"failed", "unknown"} : InputRefused(r)) \/ InputSettle

Recovery == (\E u \in BOOLEAN : RecoverJudge(u)) \/ RecoverWrite

User ==
  \/ Takeover \/ Return \/ Continue \/ ContinueBlocked \/ Revise \/ Cancel
  \/ (\E d \in BOOLEAN : Reconcile(d)) \/ (\E i \in Input : InputBegin(i))

Next == TaskStep \/ Reports \/ Recovery \/ User \/ Withdraw \/ Drop \/ Forget
        \/ (\E p \in Phase : ResourceState(p)) \/ Crash \/ RecoverAgain

Spec == Init /\ [][Next]_vars

-----------------------------------------------------------------------------
(* Properties *)

TypeOK ==
  /\ state \in Task /\ disk \in Task
  /\ loop \in Run /\ host \in Host /\ reply \in Reply /\ sending \in Sending
  /\ sending.pc # "none" => sending.input # 0
  /\ running \subseteq Works(state)
  /\ out \in [call : BOOLEAN, reply : BOOLEAN, input : BOOLEAN, works : SUBSET Work]
  /\ attested \in BOOLEAN /\ missed \in BOOLEAN

\* A step is dispatched only when no earlier execution of the task may still be
\* under way, whoever started it and whatever became of its report.
NoOverlap == [][loop.pc = "execute" /\ loop'.pc = "dispatch" => out = NoneOut]_vars

\* A step the user confirmed is verified before another one is dispatched.
AttestedIsVerified == [][loop.pc = "execute" /\ loop'.pc = "dispatch" => ~attested]_vars

\* A completed task has evidence that was filed under its last goal.
CompletedIsProven ==
  state.phase = "completed" => \E e \in evidence(state) : e.goal = state.fence[2]

\* A completed task leaves no message of the user unheeded.
InputsHeeded ==
  state.phase = "completed" => \A i \in Input : state.inputs[i] \notin {"unknown", "accepted"}

\* A work keeps its kind and goal and its outcome settles once; what is uncertain
\* may only become known.
WorkFollows(a, b) ==
  \/ a.kind = "none"
  \/ /\ b.kind = a.kind /\ b.goal = a.goal
     /\ b.outcome = a.outcome \/ a.outcome = "none" \/ b.outcome = "known"

\* A message is filed before it is sent, settled once, and reconciled at most once.
InputFollows(a, b) ==
  \/ b = a \/ a = "none"
  \/ a = "unknown" /\ b # "none"
  \/ a = "accepted" /\ b = "reconciled"

\* The record u may come after t.
Follows(t, u) ==
  /\ u.route = t.route
  /\ t.fence[1] <= u.fence[1] /\ t.fence[2] <= u.fence[2]
  /\ Terminal(t) => u.phase = t.phase
  /\ t.corrections <= u.corrections \/ t.fence[1] < u.fence[1]
  /\ t.proofs \subseteq u.proofs
  /\ \A w \in Work : WorkFollows(t.works[w], u.works[w])
  /\ \A i \in Input : InputFollows(t.inputs[i], u.inputs[i])

\* No step takes the record back, not a restart from the file, nor a failed write, nor
\* an answer that comes late: a finished task stays as it ended, fences are never
\* lowered, evidence is never lost, and a work or a message is settled once.
OnlyForward == [][Follows(state, state')]_vars

\* A task Nova controls that does not wait for anyone has something that will drive it:
\* the loop, an execution that reports, or a recovery.  Excepted are those of whose last
\* change the loop was told nothing, those whose delivery was lost, and failed writes.
Driven == ~state.user /\ ~host.blocked /\ state.phase \in {"queued", "running", "verifying"}
Driver == loop.pc # "idle" \/ running # {} \/ reply.pc # "none" \/ host.recovery # "none"
          \/ sending.pc # "none"
NobodyStranded ==
  Driven /\ ~missed /\ reply.pc # "lost" /\ faults.failures = 0 => Driver
=============================================================================
