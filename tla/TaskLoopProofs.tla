---------------------------- MODULE TaskLoopProofs ----------------------------
(***************************************************************************)
(* Proofs about TaskLoop, for any numbers of works, messages, changes of   *)
(* control and of the goal, corrections and faults.                        *)
(*                                                                         *)
(* The inductive invariant IInv says of every execution that may be under  *)
(* way where the record shows it, in memory and in the file, since a crash *)
(* continues from the file: the call in a marked or unknown effect, a reply *)
(* in a pending delivery, a work in an outcome that is missing or unknown,  *)
(* a message in a receipt of unknown fate.  A run that was allowed to go on *)
(* saw none of these, and whoever started one since has changed the fence.  *)
(*                                                                         *)
(* StrandInv says the same of the wakes: a run that has lost its fence, or  *)
(* what it started, is woken again unless someone else will drive the task  *)
(* or it waits for someone.  A pending delivery has a reply that ends it,   *)
(* one that was lost, or a recovery.                                       *)
(*                                                                         *)
(* Follows, the last part, is the order in which a record may change: every *)
(* step writes a record that follows, so a restart never takes one back.    *)
(***************************************************************************)
EXTENDS TaskLoop, TLAPS

\* A delivery that is over is only a field of the record.
USE DEF finishDelivery

Records == {state, disk}

\* The run is between its first look at the record and its end.
Midway == loop.pc \notin {"idle", "step"}
Fresh  == loop.fence = state.fence

\* The run acts for Nova under a fence that was the task's.
FenceAgrees ==
  /\ loop.fence[1] <= state.fence[1] /\ loop.fence[2] <= state.fence[2]
  /\ Midway /\ Fresh => ~state.user
  /\ loop.pc = "apply" /\ loop.revises => loop.fence[2] < MaxGoals

\* A completed record has evidence of its goal and no message left.
Proven(t) == t.phase = "completed" => \E e \in evidence(t) : e.goal = t.fence[2]
Heeded(t) == t.phase = "completed" => \A i \in Input : t.inputs[i] \notin {"unknown", "accepted"}
RecordsAgree == \A t \in Records : Proven(t) /\ Heeded(t)

\* A message on its way is of unknown fate until it is settled.
SendingAgrees == sending.pc # "none" => state.inputs[sending.input] = "unknown"

\* A response that is to come, or was lost, has a delivery to finish.
ReplyAgrees ==
  reply.pc \in {"queued", "requeued", "speaking", "lost"} => host.live /\ state.delivery

\* What the run knows of the effect and the delivery it works on.
EffectAgrees ==
  /\ loop.pc \in {"execute", "dispatch", "flush", "deliver"} =>
       \A t \in Records : t.effect.status = "pending" /\ t.effect.write_started
  /\ loop.pc = "deliver" =>
       /\ host.live /\ ~out.reply /\ reply.pc \notin {"queued", "requeued", "speaking", "lost"}
       /\ \A t \in Records : t.delivery
  /\ loop.pc \in {"mark", "execute"} => ~out.call
  /\ loop.pc = "settle" /\ loop.result # "unknown" => ~out.call

\* What may be under way is on record.
Unsettled(i) == sending.pc \in {"none", "unknown"} \/ i # sending.input
OnRecord(t) ==
  /\ out.call => t.effect.status = "unknown" \/ (t.effect.status = "pending" /\ t.effect.write_started)
  /\ out.reply => t.delivery
  /\ \A w \in out.works : t.works[w].kind # "none" /\ t.works[w].outcome # "known"
  /\ out.input => \E i \in Input : t.inputs[i] = "unknown" /\ Unsettled(i)
OutAgrees == \A t \in Records : OnRecord(t)

\* A run whose fence still holds found nothing under way.
RunAgrees ==
  /\ loop.pc = "reserve" /\ Fresh => ~state.delivery /\ activeWork(state) = {}
  /\ loop.pc \in {"mark", "execute"} /\ Fresh => out = NoneOut

\* A step the user confirmed has left evidence, and no run passes it over.
AttestedAgrees ==
  /\ attested => \A t \in Records : t.proofs # {}
  /\ attested /\ loop.pc \in {"reserve", "apply", "mark", "execute"} => ~Fresh

IInv == /\ TypeOK /\ FenceAgrees /\ RecordsAgree /\ SendingAgrees /\ ReplyAgrees
        /\ EffectAgrees /\ OutAgrees /\ RunAgrees /\ AttestedAgrees

-----------------------------------------------------------------------------
(* The types. *)

\* The bounds are naturals.
LEMMA Bounds ==
  /\ CorrectionLimit \in Nat /\ MaxWorks \in Nat /\ MaxInputs \in Nat /\ MaxGoals \in Nat
  /\ Work \subseteq Nat \ {0} /\ Input \subseteq Nat \ {0} /\ Goal \subseteq Nat
BY TaskLoopAssumption DEF Work, Input, Goal

\* What the helpers of the record return: a changed fence is a fence (raised by
\* ownership and goal revision, task.ts), a settled effect is an effect.
LEMMA TypedHelpers ==
  ASSUME NEW t \in Task
  PROVE  /\ NextControl(t) \in Task /\ Waits(t) \in Task /\ Resumed(t) \in Task
         /\ t.fence[2] < MaxGoals => NextGoal(t) \in Task
         /\ evidence(t) \subseteq Proof /\ t.fence \in Fence
<1> USE TaskLoopAssumption
<1>1. NextControl(t) \in Task
  BY DEF NextControl, Task, Fence, Goal
<1>2. Waits(t) \in Task
  BY DEF Waits, Task, Phase
<1>3. Resumed(t) \in Task
  BY DEF Resumed, Task, Phase
<1>4. t.fence[2] < MaxGoals => NextGoal(t) \in Task
  BY DEF NextGoal, Task, Fence, Goal
<1>5. evidence(t) \subseteq Proof
  BY DEF evidence, Task, Proof, Bound
<1>6. t.fence \in Fence
  BY DEF Task
<1> QED BY <1>1, <1>2, <1>3, <1>4, <1>5, <1>6

\* The transactions of the ledger (tasks.ts) return records of a task.
LEMMA TypedTransactions ==
  ASSUME NEW t \in Task
  PROVE  /\ Opened(t) \in Task /\ ContinuedTask(t) \in Task
         /\ \A d \in BOOLEAN : SettledByUser(t, d) \in Task
         /\ loop \in Run => SettledTask(t) \in Task
         /\ \A p \in {"waiting", "running"} : ResourceTask(t, p) \in Task
         /\ RecoveredTask(t) \in Task
<1> USE TaskLoopAssumption
<1>1. Opened(t) \in Task
  BY DEF Opened, Task, Effect
<1>2. ContinuedTask(t) \in Task
  <2>1. NextControl(t) \in Task /\ Resumed(t).phase \in Phase
    BY TypedHelpers DEF Task
  <2>2. /\ ContinuedTask(t).corrections = 0 /\ 0 \in 0..CorrectionLimit
        /\ ContinuedTask(t).fence = NextControl(t).fence
        /\ ContinuedTask(t).phase = Resumed(t).phase
        /\ ContinuedTask(t) = [NextControl(t) EXCEPT !.user = FALSE, !.corrections = 0,
                                  !.lost = FALSE, !.phase = Resumed(t).phase]
    BY <2>1, Bounds DEF ContinuedTask, Task
  <2> HIDE DEF ContinuedTask
  <2> QED BY <2>1, <2>2 DEF Task
<1>3. ASSUME NEW d \in BOOLEAN PROVE SettledByUser(t, d) \in Task
  <2>1. NextControl(t) \in Task
    BY TypedHelpers
  <2>2. [w \in Work |-> IF t.works[w].outcome = "unknown"
                        THEN [t.works[w] EXCEPT !.outcome = "known"] ELSE t.works[w]]
           \in [Work -> Bound]
    BY DEF Task, Bound
  <2>3. [goal |-> t.fence[2], by |-> "user"] \in Proof
    BY DEF Task, Fence, Proof
  <2>4. t.effect \in Effect /\ t.inputs \in [Input -> {"none", "unknown", "accepted", "failed", "reconciled"}]
    BY DEF Task
  <2>5. \A s \in {"accepted", "failed"} : [t.effect EXCEPT !.status = s] \in Effect
    BY <2>4 DEF Effect
  <2>6. NextControl(t) = [t EXCEPT !.fence = NextControl(t).fence]
    BY <2>1 DEF NextControl, Task
  <2>7. /\ t.delivery \in BOOLEAN /\ t.proofs \subseteq Proof /\ d \in BOOLEAN
        /\ NextControl(t).effect = t.effect /\ NextControl(t).proofs = t.proofs
        /\ NextControl(t).delivery = t.delivery
    BY <2>1, <2>6 DEF Task
  <2>8. [i \in Input |-> IF t.inputs[i] = "unknown" THEN (IF d THEN "accepted" ELSE "failed")
                         ELSE t.inputs[i]]
           \in [Input -> {"none", "unknown", "accepted", "failed", "reconciled"}]
    BY <2>4
  <2>9. \E e \in Effect, p \in SUBSET Proof, v \in BOOLEAN, ws \in [Work -> Bound],
           is \in [Input -> {"none", "unknown", "accepted", "failed", "reconciled"}] :
          SettledByUser(t, d) = [NextControl(t) EXCEPT !.lost = FALSE, !.delivery = v,
                                   !.works = ws, !.inputs = is, !.effect = e, !.proofs = p]
    <3> DEFINE v  == IF t.lost THEN FALSE ELSE t.delivery
               e  == [t.effect EXCEPT !.status = IF @ = "unknown"
                        THEN (IF d THEN "accepted" ELSE "failed") ELSE @]
               p  == IF d /\ t.effect.status = "unknown"
                     THEN t.proofs \cup {[goal |-> t.fence[2], by |-> "user"]} ELSE t.proofs
               ws == [w \in Work |-> IF t.works[w].outcome = "unknown"
                        THEN [t.works[w] EXCEPT !.outcome = "known"] ELSE t.works[w]]
               is == [i \in Input |-> IF t.inputs[i] = "unknown"
                        THEN (IF d THEN "accepted" ELSE "failed") ELSE t.inputs[i]]
    <3>1. e \in Effect
      BY <2>4 DEF Effect
    <3>2. p \in SUBSET Proof /\ v \in BOOLEAN
      BY <2>3, <2>7
    <3>3. SettledByUser(t, d) = [NextControl(t) EXCEPT !.lost = FALSE, !.delivery = v,
                                   !.works = ws, !.inputs = is, !.effect = e, !.proofs = p]
      BY <2>1, <2>7 DEF SettledByUser, Task
    <3> HIDE DEF v, e, p, ws, is
    <3> QED BY <2>2, <2>8, <3>1, <3>2, <3>3 DEF ws, is
  <2> HIDE DEF NextControl, SettledByUser
  <2>10. PICK e \in Effect, p \in SUBSET Proof, v \in BOOLEAN, ws \in [Work -> Bound],
            is \in [Input -> {"none", "unknown", "accepted", "failed", "reconciled"}] :
          SettledByUser(t, d) = [NextControl(t) EXCEPT !.lost = FALSE, !.delivery = v,
                                   !.works = ws, !.inputs = is, !.effect = e, !.proofs = p]
    BY <2>9
  <2>11. [NextControl(t) EXCEPT !.lost = FALSE, !.delivery = v, !.works = ws, !.inputs = is,
                          !.effect = e, !.proofs = p] \in Task
    BY <2>1 DEF Task
  <2> QED BY <2>10, <2>11, Zenon
<1>4. loop \in Run => SettledTask(t) \in Task
  BY DEF SettledTask, Task, Effect, Run
<1>5. \A p \in {"waiting", "running"} : ResourceTask(t, p) \in Task
  BY DEF ResourceTask, Task, Phase
<1>6. RecoveredTask(t) \in Task
  <2>1. [t EXCEPT !.phase = "waiting", !.lost = host.recovery = "delivery"] \in Task
    BY DEF Task, Phase
  <2>2. [t EXCEPT !.lost = FALSE] \in Task
    BY DEF Task
  <2> QED BY <2>1, <2>2, TypedHelpers DEF RecoveredTask
<1> QED BY <1>1, <1>2, <1>3, <1>4, <1>5, <1>6

\* The transactions that file a decision of the verifier return records.
LEMMA TypedDecisions ==
  ASSUME TypeOK, FenceAgrees, assertWritable(state, loop.fence), loop.pc = "apply"
  PROVE  /\ ~Exhausted(state) => CorrectedTask(state) \in Task
         /\ loop.says = "reconcile" => ReconciledTask(state) \in Task
<1> USE TaskLoopAssumption DEF TypeOK
<1>1. ~Exhausted(state) => CorrectedTask(state) \in Task
  <2> SUFFICES ASSUME ~Exhausted(state) PROVE CorrectedTask(state) \in Task
    OBVIOUS
  <2>1. state.corrections + 1 \in 0..CorrectionLimit
    BY Bounds DEF Exhausted, Task
  <2>2. [kind |-> "correct", fence |-> loop.fence, write_started |-> FALSE,
         status |-> "pending"] \in Effect
    BY DEF Run, Effect
  <2> QED BY <2>1, <2>2 DEF CorrectedTask, Task, Phase
<1>2. ReconciledTask(state) \in Task
  <2>1. NextControl(state) \in Task
    BY TypedHelpers
  <2>2. [NextControl(state) EXCEPT !.phase = "verifying", !.lost = FALSE,
              !.inputs = [i \in Input |-> IF state.inputs[i] = "accepted" THEN "reconciled"
                                          ELSE state.inputs[i]]] \in Task
    BY <2>1 DEF Task, Phase
  <2>3. loop.revises => state.fence[2] < MaxGoals /\ NextControl(state).fence[2] = state.fence[2]
    BY DEF FenceAgrees, assertWritable, NextControl, Task, Fence
  <2> QED BY <2>2, <2>3, TypedHelpers DEF ReconciledTask, Task
<1> QED BY <1>1, <1>2

\* A changed field leaves a record a record.
LEMMA TypedUpdates ==
  ASSUME NEW t \in Task
  PROVE  /\ \A e \in Effect : [t EXCEPT !.effect = e] \in Task
         /\ [t EXCEPT !.effect.write_started = TRUE] \in Task
         /\ \A b \in BOOLEAN : [t EXCEPT !.delivery = b] \in Task /\ [t EXCEPT !.user = b] \in Task
         /\ \A p \in {"completed", "cancelled"} : [t EXCEPT !.phase = p, !.lost = FALSE] \in Task
         /\ \A w \in Work, b \in Bound :
              [t EXCEPT !.works[w] = b, !.lost = FALSE,
                 !.phase = IF @ \in {"queued", "waiting"} THEN "running" ELSE @] \in Task
         /\ \A w \in Work, o \in {"known", "unknown"} :
              [t EXCEPT !.works[w].outcome = IF @ = "none" THEN o ELSE @] \in Task
         /\ \A p \in Proof : [t EXCEPT !.proofs = @ \cup {p}] \in Task
         /\ \A i \in Input, x \in {"accepted", "failed", "unknown"} : [t EXCEPT !.inputs[i] = x] \in Task
<1>1. \A e \in Effect : [t EXCEPT !.effect = e] \in Task
  BY DEF Task
<1>2. [t EXCEPT !.effect.write_started = TRUE] \in Task
  BY DEF Task, Effect
<1>3. \A b \in BOOLEAN : [t EXCEPT !.delivery = b] \in Task /\ [t EXCEPT !.user = b] \in Task
  BY DEF Task
<1>4. \A p \in {"completed", "cancelled"} : [t EXCEPT !.phase = p, !.lost = FALSE] \in Task
  BY DEF Task, Phase
<1>5. ASSUME NEW w \in Work, NEW b \in Bound
      PROVE  [t EXCEPT !.works[w] = b, !.lost = FALSE,
                 !.phase = IF @ \in {"queued", "waiting"} THEN "running" ELSE @] \in Task
  BY DEF Task, Phase
<1>6. ASSUME NEW w \in Work, NEW o \in {"known", "unknown"}
      PROVE  [t EXCEPT !.works[w].outcome = IF @ = "none" THEN o ELSE @] \in Task
  <2>1. [t.works[w] EXCEPT !.outcome = IF @ = "none" THEN o ELSE @] \in Bound
    BY DEF Task, Bound
  <2> QED BY <2>1 DEF Task
<1>7. \A p \in Proof : [t EXCEPT !.proofs = @ \cup {p}] \in Task
  BY DEF Task
<1>8. \A i \in Input, x \in {"accepted", "failed", "unknown"} : [t EXCEPT !.inputs[i] = x] \in Task
  BY DEF Task
<1> QED BY <1>1, <1>2, <1>3, <1>4, <1>5, <1>6, <1>7, <1>8

\* Every transaction writes a record.
LEMMA RecordsTyped ==
  ASSUME TypeOK, FenceAgrees, Next
  PROVE  (state \in Task /\ disk \in Task)'
<1>h. /\ state \in Task /\ disk \in Task /\ loop \in Run /\ reply \in Reply /\ sending \in Sending
      /\ sending.pc # "none" => sending.input \in Input
  BY DEF TypeOK, Sending
<1>b. /\ NextControl(state) \in Task /\ Waits(state) \in Task /\ ContinuedTask(state) \in Task
      /\ state.fence[2] < MaxGoals => NextGoal(state) \in Task
      /\ \A d \in BOOLEAN : SettledByUser(state, d) \in Task
      /\ SettledTask(state) \in Task /\ RecoveredTask(state) \in Task /\ Opened(disk) \in Task
      /\ \A p \in {"waiting", "running"} : ResourceTask(state, p) \in Task
  BY <1>h, TypedHelpers, TypedTransactions
<1>e. \A b \in BOOLEAN : [state EXCEPT !.delivery = b] \in Task /\ [NextControl(state) EXCEPT !.user = b] \in Task
  BY <1>h, <1>b, TypedUpdates
<1>g. loop.fence[2] \in Goal /\ reply.fence[2] \in Goal /\ sending.fence[2] \in Goal
  BY <1>h DEF Run, Reply, Sending, Fence
<1>1. CASE Step
  BY <1>h, <1>b, <1>1 DEF Step, Leave, Idle, store
<1>2. CASE GiveUp
  BY <1>h, <1>b, <1>2 DEF GiveUp, Mutate, Saved, Unsaved, store, Leave, Idle
<1>3. CASE WaitUnknown
  BY <1>h, <1>b, <1>3 DEF WaitUnknown, Mutate, Saved, Unsaved, store, Leave, Idle,
     Go
<1>4. CASE ReserveInitial
  <2>1. [kind |-> "initial", fence |-> loop.fence, write_started |-> FALSE,
         status |-> "pending"] \in Effect
    BY <1>h DEF Effect, Run
  <2>2. [state EXCEPT !.effect = [kind |-> "initial", fence |-> loop.fence,
                                  write_started |-> FALSE, status |-> "pending"]] \in Task
    BY <1>h, <2>1, TypedUpdates
  <2> QED BY <1>h, <2>2, <1>4 DEF ReserveInitial, Mutate, Saved, Unsaved, store
<1>5. ASSUME NEW d \in Decisions, NEW cites \in SUBSET evidence(state), NEW r \in BOOLEAN, Evaluate(d, cites, r)
      PROVE  (state \in Task /\ disk \in Task)'
  BY <1>h, <1>b, <1>5 DEF Evaluate, store
<1>6. CASE EvaluateFails
  BY <1>h, <1>b, <1>6 DEF EvaluateFails, Go, store
<1>7. CASE Apply
  <2>1. [state EXCEPT !.phase = "completed", !.lost = FALSE] \in Task
    BY <1>h, TypedUpdates
  <2>2. Decidable(state) => assertWritable(state, loop.fence)
    BY DEF Decidable
  <2>3. loop.pc = "apply"
    BY <1>7 DEF Apply
  <2>4. Decidable(state) /\ ~Exhausted(state) => CorrectedTask(state) \in Task
    BY <2>2, <2>3, TypedDecisions
  <2>5. Decidable(state) /\ loop.says = "reconcile" => ReconciledTask(state) \in Task
    BY <2>2, <2>3, TypedDecisions
  <2>6. CASE loop.says = "wait"
    BY <1>h, <1>b, <2>6, <1>7 DEF Apply, Mutate, Saved, Unsaved, store
  <2>7. CASE loop.says = "reconcile"
    BY <1>h, <2>5, <2>7, <1>7 DEF Apply, Mutate, Saved, Unsaved, store
  <2>8. CASE loop.says = "complete"
    BY <1>h, <2>1, <2>8, <1>7 DEF Apply, Mutate, Saved, Unsaved, store
  <2>9. CASE loop.says = "correct"
    BY <1>h, <1>b, <2>4, <2>9, <1>7 DEF Apply, Mutate, Saved, Unsaved, store
  <2> QED BY <1>h, <2>6, <2>7, <2>8, <2>9 DEF Run
<1>8. CASE MarkEffectDispatching
  <2>1. [state EXCEPT !.effect.write_started = TRUE] \in Task
    BY <1>h, TypedUpdates
  <2> QED BY <1>h, <2>1, <1>8 DEF MarkEffectDispatching, Mutate, Saved, Unsaved, store
<1>9. CASE Execute
  BY <1>h, <1>b, <1>9 DEF Execute, Go, Settles, store
<1>10. ASSUME NEW w \in Work, BindWork(w)
      PROVE  (state \in Task /\ disk \in Task)'
  <2> DEFINE b == [kind |-> "work", goal |-> loop.fence[2], outcome |-> "none"]
  <2>1. b \in Bound
    BY <1>g DEF Bound
  <2>2. [state EXCEPT !.works[w] = b,
           !.phase = IF @ \in {"queued", "waiting"} THEN "running" ELSE @, !.lost = FALSE] \in Task
    BY <1>h, <2>1 DEF Task, Phase
  <2> HIDE DEF b
  <2> QED BY <1>h, <2>2, <1>10 DEF b, BindWork, Mutate, Saved, Unsaved, store
<1>11. CASE Refuse
  BY <1>h, <1>b, <1>11 DEF Refuse, Settles, store
<1>12. CASE Flush
  BY <1>h, <1>b, <1>12 DEF Flush, Settles, store
<1>13. CASE BeginDelivery
  BY <1>h, <1>e, <1>13 DEF BeginDelivery, Mutate, Saved, Unsaved, store
<1>14. CASE Deliver
  BY <1>h, <1>e, <1>14 DEF Deliver, Mutate, Saved, Unsaved, store
<1>15. CASE SettleEffect
  BY <1>h, <1>b, <1>15 DEF SettleEffect, Mutate, Saved, Unsaved, store, Go, Settles,
     Leave, Idle
<1>16. ASSUME NEW w \in Work, NEW o \in {"known","unknown"}, WorkEnds(w, o)
      PROVE  (state \in Task /\ disk \in Task)'
  <2>1. w \in Work
    BY <1>16 DEF WorkEnds, TypeOK, Works
  <2>3. [state.works[w] EXCEPT !.outcome = IF @ = "none" THEN o ELSE @] \in Bound
    BY <1>h, <2>1 DEF Task, Bound
  <2>2. [state EXCEPT !.works[w].outcome = IF @ = "none" THEN o ELSE @] \in Task
    BY <1>h, <2>1, <2>3 DEF Task
  <2> QED BY <1>h, <2>2, <1>16 DEF WorkEnds, Change, Saved, Unsaved
<1>17. ASSUME NEW p \in Phase, ResourceState(p)
      PROVE  (state \in Task /\ disk \in Task)'
  BY <1>h, <1>b, <1>17 DEF ResourceState, Saved, store
<1>18. CASE Speak
  BY <1>h, <1>b, <1>18 DEF Speak, store
<1>19. CASE Withdraw
  BY <1>h, <1>e, <1>19 DEF Withdraw, Saved, Unsaved
<1>20. CASE Drop \/ Forget
  BY <1>h, <1>b, <1>20 DEF Drop, Forget, store, NoReply
<1>21. ASSUME NEW d \in Ending, ResponseEnds(d)
      PROVE  (state \in Task /\ disk \in Task)'
  BY <1>h, <1>e, <1>21 DEF ResponseEnds, Saved, Unsaved
<1>22. CASE RecordDelivery
  <2>1. [goal |-> reply.fence[2], by |-> "delivery"] \in Proof
    BY <1>g DEF Proof
  <2>2. [state EXCEPT !.proofs = @ \cup {[goal |-> reply.fence[2], by |-> "delivery"]}] \in Task
    BY <1>h, <2>1 DEF Task
  <2> QED BY <1>h, <2>2, <1>22 DEF RecordDelivery, Change, Saved, Unsaved, store
<1>23. CASE DeliveryInterrupted
  BY <1>h, <1>b, <1>23 DEF DeliveryInterrupted, Change, Saved, Unsaved, store,
     NoReply
<1>24. CASE Takeover
  BY <1>h, <1>e, <1>24 DEF Takeover, Change, Saved, Unsaved
<1>25. CASE Return
  BY <1>h, <1>e, <1>25 DEF Return, Change, Saved, Unsaved
<1>26. CASE Continue
  BY <1>h, <1>b, <1>26 DEF Continue, Change, Saved, Unsaved, store, Wake, Go
<1>27. CASE ContinueBlocked
  BY <1>h, <1>b, <1>27 DEF ContinueBlocked, store
<1>28. CASE Revise
  BY <1>h, <1>b, <1>28 DEF Revise, Change, Saved, Unsaved, store
<1>29. ASSUME NEW d \in BOOLEAN, Reconcile(d)
      PROVE  (state \in Task /\ disk \in Task)'
  BY <1>h, <1>b, <1>29 DEF Reconcile, Change, Saved, Unsaved, store
<1>30. CASE Cancel
  <2>1. [state EXCEPT !.phase = "cancelled", !.lost = FALSE] \in Task
    BY <1>h, TypedUpdates
  <2> QED BY <1>h, <2>1, <1>30 DEF Cancel, Change, Saved, Unsaved
<1>31. ASSUME NEW i \in Input, InputBegin(i)
      PROVE  (state \in Task /\ disk \in Task)'
  <2>1. [state EXCEPT !.inputs[i] = "unknown"] \in Task
    BY <1>h, TypedUpdates
  <2> QED BY <1>h, <2>1, <1>31 DEF InputBegin, Saved, Unsaved
<1>32. ASSUME NEW w \in Work, NEW r \in {"accepted","failed","unknown"}, InputAdmit(w, r)
      PROVE  (state \in Task /\ disk \in Task)'
  <2> DEFINE b == [kind |-> IF activeWork(state) = {} THEN "work" ELSE "input",
                   goal |-> sending.fence[2], outcome |-> "none"]
  <2>1. b \in Bound
    BY <1>g DEF Bound
  <2>2. [state EXCEPT !.works[w] = b,
           !.phase = IF @ \in {"queued", "waiting"} THEN "running" ELSE @, !.lost = FALSE] \in Task
    BY <1>h, <2>1 DEF Task, Phase
  <2> HIDE DEF b
  <2> QED BY <1>h, <2>2, <1>32 DEF b, InputAdmit, Saved, Unsaved
<1>33. ASSUME NEW r \in {"failed","unknown"}, InputRefused(r)
      PROVE  (state \in Task /\ disk \in Task)'
  BY <1>h, <1>b, <1>33 DEF InputRefused, store
<1>34. CASE InputSettle
  <2>1. sending.pc \in {"accepted", "failed", "unknown"} /\ sending.input \in Input
    BY <1>h, <1>34 DEF InputSettle
  <2>2. [state EXCEPT !.inputs[sending.input] = sending.pc] \in Task
    BY <1>h, <2>1, TypedUpdates
  <2> QED BY <1>h, <2>2, <1>34 DEF InputSettle, Saved, Unsaved
<1>35. CASE Crash
  BY <1>h, <1>b, <1>35 DEF Crash, Idle, NoReply, NoSend
<1>36. CASE RecoverAgain
  BY <1>h, <1>b, <1>36 DEF RecoverAgain, store
<1>37. ASSUME NEW u \in BOOLEAN, RecoverJudge(u)
      PROVE  (state \in Task /\ disk \in Task)'
  BY <1>h, <1>b, <1>37 DEF RecoverJudge, RecoveryEnds, Go, store
<1>38. CASE RecoverWrite
  BY <1>h, <1>b, <1>38 DEF RecoverWrite, RecoveryEnds, Saved, Unsaved, Go
<1> QED BY <1>1, <1>2, <1>3, <1>4, <1>5, <1>6, <1>7, <1>8, <1>9, <1>10, <1>11,
       <1>12, <1>13, <1>14, <1>15, <1>16, <1>17, <1>18, <1>19, <1>20, <1>21, <1>22,
       <1>23, <1>24, <1>25, <1>26, <1>27, <1>28, <1>29, <1>30, <1>31, <1>32, <1>33,
       <1>34, <1>35, <1>36, <1>37, <1>38
      DEF Next, TaskStep, Reports, Recovery, User

\* What the run keeps.
LEMMA RunTyped ==
  ASSUME TypeOK, Next
  PROVE  (loop \in Run)'
<1>h. /\ loop \in Run /\ host \in Host /\ reply \in Reply /\ sending \in Sending
      /\ state.fence \in Fence /\ evidence(state) \subseteq Proof
      /\ pendingUserInputs(state) \subseteq Input
      /\ attested \in BOOLEAN /\ missed \in BOOLEAN
      /\ out \in [call : BOOLEAN, reply : BOOLEAN, input : BOOLEAN, works : SUBSET Work]
  BY TypedHelpers DEF TypeOK, pendingUserInputs
<1>i. Idle \in Run /\ NoReply \in Reply /\ NoSend \in Sending /\ Awake \in Host
      /\ NoneOut \in [call : BOOLEAN, reply : BOOLEAN, input : BOOLEAN, works : SUBSET Work]
  BY Bounds DEF Idle, NoReply, NoSend, Awake, NoneOut, Run, Host, Reply, Sending, Fence, Goal
<1>f. loop.fence \in Fence
  BY <1>h DEF Run
<1>l. /\ \A l \in Run : Leave(l) \in Run
      /\ \A pc \in {"step", "giveUp", "reserve", "mark", "execute", "dispatch", "flush", "deliver"} :
           Go(pc) \in Run
      /\ \A r \in {"accepted", "failed", "unknown"} : Settles(r) \in Run
      /\ [Idle EXCEPT !.pc = "step"] \in Run /\ [loop EXCEPT !.again = TRUE] \in Run
  <2>1. \A pc \in {"step", "giveUp", "reserve", "mark", "execute", "dispatch", "flush", "deliver"} :
           Go(pc) \in Run
    BY <1>h DEF Go, Run
  <2>2. \A r \in {"accepted", "failed", "unknown"} : Settles(r) \in Run
    BY <1>h DEF Settles, Run
  <2>3. [Idle EXCEPT !.pc = "step"] \in Run
    BY <1>i DEF Run
  <2>4. [loop EXCEPT !.again = TRUE] \in Run
    BY <1>h DEF Run
  <2>5. \A l \in Run : Leave(l) \in Run
    BY <1>i, <2>3 DEF Leave
  <2> QED BY <2>1, <2>2, <2>3, <2>4, <2>5
<1>w. Wake \in Run
  BY <1>h, <1>l DEF Wake
<1>1. CASE Step
  <2> DEFINE l == [loop EXCEPT !.again = FALSE, !.fence = state.fence]
  <2>1. l \in Run
    BY <1>h DEF Run
  <2>2. /\ \A pc \in {"wait", "reserve"} : [l EXCEPT !.pc = pc] \in Run
        /\ [l EXCEPT !.pc = "evaluate", !.seen = pendingUserInputs(state)] \in Run
    BY <1>h, <2>1 DEF Run
  <2>3. Leave(l) \in Run
    BY <1>l, <2>1
  <2> HIDE DEF l
  <2> QED BY <2>2, <2>3, <1>1 DEF l, Step
<1>2. CASE GiveUp
  BY <1>h, <1>i, <1>l, <1>w, <1>2 DEF GiveUp, Mutate, Saved, Unsaved, store
<1>3. CASE WaitUnknown
  BY <1>h, <1>i, <1>l, <1>w, <1>3 DEF WaitUnknown, Mutate, Saved, Unsaved, store
<1>4. CASE ReserveInitial
  BY <1>h, <1>i, <1>l, <1>w, <1>4 DEF ReserveInitial, Mutate, Saved, Unsaved, store
<1>5. ASSUME NEW d \in Decisions, NEW cites \in SUBSET evidence(state), NEW r \in BOOLEAN, Evaluate(d, cites, r)
      PROVE  (loop \in Run)'
  BY <1>h, <1>5 DEF Evaluate, Decisions, Run
<1>6. CASE EvaluateFails
  BY <1>h, <1>i, <1>l, <1>w, <1>6 DEF EvaluateFails, store
<1>7. CASE Apply
  <2>1. CASE loop.says = "wait"
    BY <1>h, <1>l, <2>1, <1>7 DEF Apply, Mutate
  <2>2. CASE loop.says = "reconcile"
    BY <1>h, <1>l, <2>2, <1>7 DEF Apply, Mutate
  <2>3. CASE loop.says = "complete"
    BY <1>h, <1>l, <2>3, <1>7 DEF Apply, Mutate
  <2>4. CASE loop.says = "correct"
    BY <1>h, <1>l, <2>4, <1>7 DEF Apply, Mutate
  <2> QED BY <1>h, <2>1, <2>2, <2>3, <2>4 DEF Run
<1>8. CASE MarkEffectDispatching
  BY <1>h, <1>i, <1>l, <1>w, <1>8 DEF MarkEffectDispatching, Mutate, Saved, Unsaved,
     store
<1>9. CASE Execute
  BY <1>h, <1>i, <1>l, <1>w, <1>9 DEF Execute, store
<1>10. ASSUME NEW w \in Work, BindWork(w)
      PROVE  (loop \in Run)'
  BY <1>h, <1>i, <1>l, <1>w, <1>10 DEF BindWork, Mutate, Saved, Unsaved, store
<1>11. CASE Refuse
  BY <1>h, <1>i, <1>l, <1>w, <1>11 DEF Refuse, store
<1>12. CASE Flush
  BY <1>h, <1>i, <1>l, <1>w, <1>12 DEF Flush, store
<1>13. CASE BeginDelivery
  BY <1>h, <1>i, <1>l, <1>w, <1>13 DEF BeginDelivery, Mutate, Saved, Unsaved, store
<1>14. CASE Deliver
  BY <1>h, <1>i, <1>l, <1>w, <1>14 DEF Deliver, Mutate, Saved, Unsaved, store
<1>15. CASE SettleEffect
  BY <1>h, <1>i, <1>l, <1>w, <1>15 DEF SettleEffect, Mutate, Saved, Unsaved, store
<1>16. ASSUME NEW w \in Work, NEW o \in {"known","unknown"}, WorkEnds(w, o)
      PROVE  (loop \in Run)'
  BY <1>h, <1>i, <1>l, <1>w, <1>16 DEF WorkEnds, Change, Saved, Unsaved, store
<1>17. ASSUME NEW p \in Phase, ResourceState(p)
      PROVE  (loop \in Run)'
  BY <1>h, <1>i, <1>l, <1>w, <1>17 DEF ResourceState, Saved, store
<1>18. CASE Speak
  BY <1>h, <1>i, <1>l, <1>w, <1>18 DEF Speak, store
<1>19. CASE Withdraw
  BY <1>h, <1>i, <1>l, <1>w, <1>19 DEF Withdraw, Saved, Unsaved
<1>20. CASE Drop \/ Forget
  BY <1>h, <1>i, <1>l, <1>w, <1>20 DEF Drop, Forget, store
<1>21. ASSUME NEW d \in Ending, ResponseEnds(d)
      PROVE  (loop \in Run)'
  BY <1>h, <1>i, <1>l, <1>w, <1>21 DEF ResponseEnds, Saved, Unsaved
<1>22. CASE RecordDelivery
  BY <1>h, <1>i, <1>l, <1>w, <1>22 DEF RecordDelivery, Change, Saved, Unsaved, store
<1>23. CASE DeliveryInterrupted
  BY <1>h, <1>i, <1>l, <1>w, <1>23 DEF DeliveryInterrupted, Change, Saved, Unsaved,
     store
<1>24. CASE Takeover
  BY <1>h, <1>i, <1>l, <1>w, <1>24 DEF Takeover, Change, Saved, Unsaved, store
<1>25. CASE Return
  BY <1>h, <1>i, <1>l, <1>w, <1>25 DEF Return, Change, Saved, Unsaved, store
<1>26. CASE Continue
  BY <1>h, <1>i, <1>l, <1>w, <1>26 DEF Continue, Change, Saved, Unsaved, store
<1>27. CASE ContinueBlocked
  BY <1>h, <1>i, <1>l, <1>w, <1>27 DEF ContinueBlocked, store
<1>28. CASE Revise
  BY <1>h, <1>i, <1>l, <1>w, <1>28 DEF Revise, Change, Saved, Unsaved, store
<1>29. ASSUME NEW d \in BOOLEAN, Reconcile(d)
      PROVE  (loop \in Run)'
  BY <1>h, <1>i, <1>l, <1>w, <1>29 DEF Reconcile, Change, Saved, Unsaved, store
<1>30. CASE Cancel
  BY <1>h, <1>i, <1>l, <1>w, <1>30 DEF Cancel, Change, Saved, Unsaved, store
<1>31. ASSUME NEW i \in Input, InputBegin(i)
      PROVE  (loop \in Run)'
  BY <1>h, <1>i, <1>l, <1>w, <1>31 DEF InputBegin, Saved, Unsaved, store
<1>32. ASSUME NEW w \in Work, NEW r \in {"accepted","failed","unknown"}, InputAdmit(w, r)
      PROVE  (loop \in Run)'
  BY <1>h, <1>i, <1>l, <1>w, <1>32 DEF InputAdmit, Saved, Unsaved, store
<1>33. ASSUME NEW r \in {"failed","unknown"}, InputRefused(r)
      PROVE  (loop \in Run)'
  BY <1>h, <1>i, <1>l, <1>w, <1>33 DEF InputRefused, store
<1>34. CASE InputSettle
  BY <1>h, <1>i, <1>l, <1>w, <1>34 DEF InputSettle, Saved, Unsaved
<1>35. CASE Crash
  BY <1>h, <1>i, <1>l, <1>w, <1>35 DEF Crash
<1>36. CASE RecoverAgain
  BY <1>h, <1>i, <1>l, <1>w, <1>36 DEF RecoverAgain, store
<1>37. ASSUME NEW u \in BOOLEAN, RecoverJudge(u)
      PROVE  (loop \in Run)'
  BY <1>h, <1>i, <1>l, <1>w, <1>37 DEF RecoverJudge, RecoveryEnds, store
<1>38. CASE RecoverWrite
  BY <1>h, <1>i, <1>l, <1>w, <1>38 DEF RecoverWrite, RecoveryEnds, Saved, Unsaved
<1> QED BY <1>1, <1>2, <1>3, <1>4, <1>5, <1>6, <1>7, <1>8, <1>9, <1>10, <1>11,
       <1>12, <1>13, <1>14, <1>15, <1>16, <1>17, <1>18, <1>19, <1>20, <1>21, <1>22,
       <1>23, <1>24, <1>25, <1>26, <1>27, <1>28, <1>29, <1>30, <1>31, <1>32, <1>33,
       <1>34, <1>35, <1>36, <1>37, <1>38
      DEF Next, TaskStep, Reports, Recovery, User

\* What the ports keep.
LEMMA PortsTyped ==
  ASSUME TypeOK, Next
  PROVE  (host \in Host /\ reply \in Reply /\ sending \in Sending
                /\ (sending.pc # "none" => sending.input # 0))'
<1> USE DEF store
<1>h. /\ loop \in Run /\ host \in Host /\ reply \in Reply /\ sending \in Sending
      /\ state.fence \in Fence /\ evidence(state) \subseteq Proof
      /\ pendingUserInputs(state) \subseteq Input
      /\ attested \in BOOLEAN /\ missed \in BOOLEAN
      /\ out \in [call : BOOLEAN, reply : BOOLEAN, input : BOOLEAN, works : SUBSET Work]
  BY TypedHelpers DEF TypeOK, pendingUserInputs
<1>i. Idle \in Run /\ NoReply \in Reply /\ NoSend \in Sending /\ Awake \in Host
      /\ NoneOut \in [call : BOOLEAN, reply : BOOLEAN, input : BOOLEAN, works : SUBSET Work]
  BY Bounds DEF Idle, NoReply, NoSend, Awake, NoneOut, Run, Host, Reply, Sending, Fence, Goal
<1>f. loop.fence \in Fence
  BY <1>h DEF Run
<1>s. sending.pc # "none" => sending.input # 0
  BY DEF TypeOK
<1>r. /\ \A pc \in {"queued", "requeued", "speaking", "lost"} :
           [pc |-> pc, fence |-> loop.fence] \in Reply
      /\ \A pc \in {"speaking", "record", "tell", "lost"} : [reply EXCEPT !.pc = pc] \in Reply
  BY <1>h, <1>f DEF Reply
<1>n. /\ \A b \in BOOLEAN : [host EXCEPT !.live = b] \in Host
      /\ \A r \in {"none", "judge", "clear", "delivery", "reason"} :
           /\ [host EXCEPT !.recovery = r] \in Host /\ [Awake EXCEPT !.recovery = r] \in Host
           /\ \A b \in BOOLEAN : [host EXCEPT !.recovery = r, !.blocked = b] \in Host
  BY <1>h, <1>i DEF Host
<1>v. /\ \A i \in Input : [pc |-> "admit", input |-> i, fence |-> state.fence] \in Sending /\ i # 0
      /\ \A r \in {"accepted", "failed", "unknown"} :
           [sending EXCEPT !.pc = r] \in Sending /\ [sending EXCEPT !.pc = r].input = sending.input
  BY <1>h, Bounds DEF Sending
<1>1. CASE Step
  BY <1>h, <1>i, <1>r, <1>n, <1>v, <1>s, <1>1 DEF Step, store
<1>2. CASE GiveUp
  BY <1>h, <1>i, <1>r, <1>n, <1>v, <1>s, <1>2 DEF GiveUp, Mutate, Saved, Unsaved,
     store
<1>3. CASE WaitUnknown
  BY <1>h, <1>i, <1>r, <1>n, <1>v, <1>s, <1>3 DEF WaitUnknown, Mutate, Saved,
     Unsaved, store
<1>4. CASE ReserveInitial
  BY <1>h, <1>i, <1>r, <1>n, <1>v, <1>s, <1>4 DEF ReserveInitial, Mutate, Saved,
     Unsaved, store
<1>5. ASSUME NEW d \in Decisions, NEW cites \in SUBSET evidence(state), NEW r \in BOOLEAN, Evaluate(d, cites, r)
      PROVE  (host \in Host /\ reply \in Reply /\ sending \in Sending
                /\ (sending.pc # "none" => sending.input # 0))'
  BY <1>h, <1>i, <1>r, <1>n, <1>v, <1>s, <1>5 DEF Evaluate, store
<1>6. CASE EvaluateFails
  BY <1>h, <1>i, <1>r, <1>n, <1>v, <1>s, <1>6 DEF EvaluateFails, store
<1>7. CASE Apply
  BY <1>h, <1>i, <1>r, <1>n, <1>v, <1>s, <1>7 DEF Apply, Mutate, Saved, Unsaved,
     store
<1>8. CASE MarkEffectDispatching
  BY <1>h, <1>i, <1>r, <1>n, <1>v, <1>s, <1>8 DEF MarkEffectDispatching, Mutate,
     Saved, Unsaved, store
<1>9. CASE Execute
  BY <1>h, <1>i, <1>r, <1>n, <1>v, <1>s, <1>9 DEF Execute, store
<1>10. ASSUME NEW w \in Work, BindWork(w)
      PROVE  (host \in Host /\ reply \in Reply /\ sending \in Sending
                /\ (sending.pc # "none" => sending.input # 0))'
  BY <1>h, <1>i, <1>r, <1>n, <1>v, <1>s, <1>10 DEF BindWork, Mutate, Saved, Unsaved,
     store
<1>11. CASE Refuse
  BY <1>h, <1>i, <1>r, <1>n, <1>v, <1>s, <1>11 DEF Refuse, store
<1>12. CASE Flush
  BY <1>h, <1>i, <1>r, <1>n, <1>v, <1>s, <1>12 DEF Flush, store
<1>13. CASE BeginDelivery
  BY <1>h, <1>i, <1>r, <1>n, <1>v, <1>s, <1>13 DEF BeginDelivery, Mutate, Saved,
     Unsaved, store
<1>14. CASE Deliver
  <2>1. \/ reply' \in {reply, NoReply}
        \/ \E pc \in {"queued", "requeued", "speaking", "lost"} : reply' = [pc |-> pc, fence |-> loop.fence]
    BY <1>14 DEF Deliver
  <2>2. host' = host \/ host' = [host EXCEPT !.live = FALSE]
    BY <1>14 DEF Deliver
  <2> QED BY <1>h, <1>i, <1>r, <1>n, <1>s, <2>1, <2>2, <1>14 DEF Deliver
<1>15. CASE SettleEffect
  BY <1>h, <1>i, <1>r, <1>n, <1>v, <1>s, <1>15 DEF SettleEffect, Mutate, Saved,
     Unsaved, store
<1>16. ASSUME NEW w \in Work, NEW o \in {"known","unknown"}, WorkEnds(w, o)
      PROVE  (host \in Host /\ reply \in Reply /\ sending \in Sending
                /\ (sending.pc # "none" => sending.input # 0))'
  BY <1>h, <1>i, <1>r, <1>n, <1>v, <1>s, <1>16 DEF WorkEnds, Change, Saved, Unsaved,
     store
<1>17. ASSUME NEW p \in Phase, ResourceState(p)
      PROVE  (host \in Host /\ reply \in Reply /\ sending \in Sending
                /\ (sending.pc # "none" => sending.input # 0))'
  BY <1>h, <1>i, <1>r, <1>n, <1>v, <1>s, <1>17 DEF ResourceState, Saved, store
<1>18. CASE Speak
  BY <1>h, <1>i, <1>r, <1>n, <1>v, <1>s, <1>18 DEF Speak, store
<1>19. CASE Withdraw
  BY <1>h, <1>i, <1>r, <1>n, <1>v, <1>s, <1>19 DEF Withdraw, Saved, Unsaved
<1>20. CASE Drop \/ Forget
  BY <1>h, <1>i, <1>r, <1>n, <1>v, <1>s, <1>20 DEF Drop, Forget, store
<1>21. ASSUME NEW d \in Ending, ResponseEnds(d)
      PROVE  (host \in Host /\ reply \in Reply /\ sending \in Sending
                /\ (sending.pc # "none" => sending.input # 0))'
  <2>1. reply' = NoReply \/ \E pc \in {"record", "tell"} : reply' = [reply EXCEPT !.pc = pc]
    BY <1>21 DEF ResponseEnds, Ending
  <2> QED BY <1>h, <1>i, <1>r, <1>n, <1>s, <2>1, <1>21 DEF ResponseEnds
<1>22. CASE RecordDelivery
  BY <1>h, <1>i, <1>r, <1>n, <1>v, <1>s, <1>22 DEF RecordDelivery, Change, Saved,
     Unsaved, store
<1>23. CASE DeliveryInterrupted
  BY <1>h, <1>i, <1>r, <1>n, <1>v, <1>s, <1>23 DEF DeliveryInterrupted, Change,
     Saved, Unsaved, store
<1>24. CASE Takeover
  BY <1>h, <1>i, <1>r, <1>n, <1>v, <1>s, <1>24 DEF Takeover, Change, Saved, Unsaved,
     store
<1>25. CASE Return
  BY <1>h, <1>i, <1>r, <1>n, <1>v, <1>s, <1>25 DEF Return, Change, Saved, Unsaved,
     store
<1>26. CASE Continue
  BY <1>h, <1>i, <1>r, <1>n, <1>v, <1>s, <1>26 DEF Continue, Change, Saved, Unsaved,
     store
<1>27. CASE ContinueBlocked
  BY <1>h, <1>i, <1>r, <1>n, <1>v, <1>s, <1>27 DEF ContinueBlocked, store
<1>28. CASE Revise
  BY <1>h, <1>i, <1>r, <1>n, <1>v, <1>s, <1>28 DEF Revise, Change, Saved, Unsaved,
     store
<1>29. ASSUME NEW d \in BOOLEAN, Reconcile(d)
      PROVE  (host \in Host /\ reply \in Reply /\ sending \in Sending
                /\ (sending.pc # "none" => sending.input # 0))'
  BY <1>h, <1>i, <1>r, <1>n, <1>v, <1>s, <1>29 DEF Reconcile, Change, Saved,
     Unsaved, store
<1>30. CASE Cancel
  BY <1>h, <1>i, <1>r, <1>n, <1>v, <1>s, <1>30 DEF Cancel, Change, Saved, Unsaved,
     store
<1>31. ASSUME NEW i \in Input, InputBegin(i)
      PROVE  (host \in Host /\ reply \in Reply /\ sending \in Sending
                /\ (sending.pc # "none" => sending.input # 0))'
  <2>1. \/ sending' = [pc |-> "admit", input |-> i, fence |-> state.fence]
        \/ sending' = sending
    BY <1>31 DEF InputBegin
  <2> QED BY <1>h, <1>v, <1>s, <2>1, <1>31 DEF InputBegin
<1>32. ASSUME NEW w \in Work, NEW r \in {"accepted","failed","unknown"}, InputAdmit(w, r)
      PROVE  (host \in Host /\ reply \in Reply /\ sending \in Sending
                /\ (sending.pc # "none" => sending.input # 0))'
  <2>1. /\ sending.pc = "admit"
        /\ \E x \in {"accepted", "failed", "unknown"} : sending' = [sending EXCEPT !.pc = x]
    BY <1>32 DEF InputAdmit
  <2> QED BY <1>h, <1>v, <1>s, <2>1, <1>32 DEF InputAdmit
<1>33. ASSUME NEW r \in {"failed","unknown"}, InputRefused(r)
      PROVE  (host \in Host /\ reply \in Reply /\ sending \in Sending
                /\ (sending.pc # "none" => sending.input # 0))'
  BY <1>h, <1>i, <1>r, <1>n, <1>v, <1>s, <1>33 DEF InputRefused, store
<1>34. CASE InputSettle
  BY <1>h, <1>i, <1>r, <1>n, <1>v, <1>s, <1>34 DEF InputSettle, Saved, Unsaved,
     NoSend
<1>35. CASE Crash
  BY <1>h, <1>i, <1>r, <1>n, <1>v, <1>s, <1>35 DEF Crash, NoSend
<1>36. CASE RecoverAgain
  BY <1>h, <1>i, <1>r, <1>n, <1>v, <1>s, <1>36 DEF RecoverAgain, store
<1>37. ASSUME NEW u \in BOOLEAN, RecoverJudge(u)
      PROVE  (host \in Host /\ reply \in Reply /\ sending \in Sending
                /\ (sending.pc # "none" => sending.input # 0))'
  <2>1. PICK r \in {"none", "clear", "delivery", "reason"}, b \in BOOLEAN :
          host' = [host EXCEPT !.recovery = r, !.blocked = b]
    BY <1>h, <1>37 DEF RecoverJudge, RecoveryEnds, Host
  <2>2. host' \in Host
    BY <1>n, <2>1
  <2> QED BY <1>h, <1>s, <2>2, <1>37 DEF RecoverJudge, store
<1>38. CASE RecoverWrite
  <2>1. \/ \E b \in BOOLEAN : host' = [host EXCEPT !.recovery = "none", !.blocked = b]
        \/ host' = [host EXCEPT !.recovery = "none"]
    BY <1>h, <1>38 DEF RecoverWrite, RecoveryEnds, Host
  <2> QED BY <1>h, <1>n, <1>s, <2>1, <1>38 DEF RecoverWrite
<1> QED BY <1>1, <1>2, <1>3, <1>4, <1>5, <1>6, <1>7, <1>8, <1>9, <1>10, <1>11,
       <1>12, <1>13, <1>14, <1>15, <1>16, <1>17, <1>18, <1>19, <1>20, <1>21, <1>22,
       <1>23, <1>24, <1>25, <1>26, <1>27, <1>28, <1>29, <1>30, <1>31, <1>32, <1>33,
       <1>34, <1>35, <1>36, <1>37, <1>38
      DEF Next, TaskStep, Reports, Recovery, User

\* The history.
LEMMA HistoryTyped ==
  ASSUME TypeOK, Next
  PROVE  (out \in [call : BOOLEAN, reply : BOOLEAN, input : BOOLEAN, works : SUBSET Work]
              /\ attested \in BOOLEAN /\ missed \in BOOLEAN)'
<1> USE DEF store
<1>h. /\ loop \in Run /\ host \in Host /\ reply \in Reply /\ sending \in Sending
      /\ state.fence \in Fence /\ evidence(state) \subseteq Proof
      /\ pendingUserInputs(state) \subseteq Input
      /\ attested \in BOOLEAN /\ missed \in BOOLEAN
      /\ out \in [call : BOOLEAN, reply : BOOLEAN, input : BOOLEAN, works : SUBSET Work]
  BY TypedHelpers DEF TypeOK, pendingUserInputs
<1>i. Idle \in Run /\ NoReply \in Reply /\ NoSend \in Sending /\ Awake \in Host
      /\ NoneOut \in [call : BOOLEAN, reply : BOOLEAN, input : BOOLEAN, works : SUBSET Work]
  BY Bounds DEF Idle, NoReply, NoSend, Awake, NoneOut, Run, Host, Reply, Sending, Fence, Goal
<1>f. loop.fence \in Fence
  BY <1>h DEF Run
<1>1. CASE Step
  BY <1>h, <1>i, <1>1 DEF Step, store
<1>2. CASE GiveUp
  BY <1>h, <1>i, <1>2 DEF GiveUp, Mutate, Saved, Unsaved, store
<1>3. CASE WaitUnknown
  BY <1>h, <1>i, <1>3 DEF WaitUnknown, Mutate, Saved, Unsaved, store
<1>4. CASE ReserveInitial
  BY <1>h, <1>i, <1>4 DEF ReserveInitial, Mutate, Saved, Unsaved, store
<1>5. ASSUME NEW d \in Decisions, NEW cites \in SUBSET evidence(state), NEW r \in BOOLEAN, Evaluate(d, cites, r)
      PROVE  (out \in [call : BOOLEAN, reply : BOOLEAN, input : BOOLEAN, works : SUBSET Work]
              /\ attested \in BOOLEAN /\ missed \in BOOLEAN)'
  BY <1>h, <1>i, <1>5 DEF Evaluate, store
<1>6. CASE EvaluateFails
  BY <1>h, <1>i, <1>6 DEF EvaluateFails, store
<1>7. CASE Apply
  BY <1>h, <1>i, <1>7 DEF Apply, Mutate, Saved, Unsaved, store
<1>8. CASE MarkEffectDispatching
  BY <1>h, <1>i, <1>8 DEF MarkEffectDispatching, Mutate, Saved, Unsaved, store
<1>9. CASE Execute
  BY <1>h, <1>i, <1>9 DEF Execute, store
<1>10. ASSUME NEW w \in Work, BindWork(w)
      PROVE  (out \in [call : BOOLEAN, reply : BOOLEAN, input : BOOLEAN, works : SUBSET Work]
              /\ attested \in BOOLEAN /\ missed \in BOOLEAN)'
  BY <1>h, <1>i, <1>10 DEF BindWork, Mutate, Saved, Unsaved, store
<1>11. CASE Refuse
  BY <1>h, <1>i, <1>11 DEF Refuse, store
<1>12. CASE Flush
  BY <1>h, <1>i, <1>12 DEF Flush, store
<1>13. CASE BeginDelivery
  BY <1>h, <1>i, <1>13 DEF BeginDelivery, Mutate, Saved, Unsaved, store
<1>14. CASE Deliver
  BY <1>h, <1>i, <1>14 DEF Deliver, Mutate, Saved, Unsaved, store
<1>15. CASE SettleEffect
  BY <1>h, <1>i, <1>15 DEF SettleEffect, Mutate, Saved, Unsaved, store
<1>16. ASSUME NEW w \in Work, NEW o \in {"known","unknown"}, WorkEnds(w, o)
      PROVE  (out \in [call : BOOLEAN, reply : BOOLEAN, input : BOOLEAN, works : SUBSET Work]
              /\ attested \in BOOLEAN /\ missed \in BOOLEAN)'
  BY <1>h, <1>i, <1>16 DEF WorkEnds, Change, Saved, Unsaved, store
<1>17. ASSUME NEW p \in Phase, ResourceState(p)
      PROVE  (out \in [call : BOOLEAN, reply : BOOLEAN, input : BOOLEAN, works : SUBSET Work]
              /\ attested \in BOOLEAN /\ missed \in BOOLEAN)'
  BY <1>h, <1>i, <1>17 DEF ResourceState, Saved, store
<1>18. CASE Speak
  BY <1>h, <1>i, <1>18 DEF Speak, store
<1>19. CASE Withdraw
  BY <1>h, <1>i, <1>19 DEF Withdraw, Saved, Unsaved
<1>20. CASE Drop \/ Forget
  BY <1>h, <1>i, <1>20 DEF Drop, Forget, store
<1>21. ASSUME NEW d \in Ending, ResponseEnds(d)
      PROVE  (out \in [call : BOOLEAN, reply : BOOLEAN, input : BOOLEAN, works : SUBSET Work]
              /\ attested \in BOOLEAN /\ missed \in BOOLEAN)'
  BY <1>h, <1>i, <1>21 DEF ResponseEnds, Saved, Unsaved
<1>22. CASE RecordDelivery
  BY <1>h, <1>i, <1>22 DEF RecordDelivery, Change, Saved, Unsaved, store
<1>23. CASE DeliveryInterrupted
  BY <1>h, <1>i, <1>23 DEF DeliveryInterrupted, Change, Saved, Unsaved, store
<1>24. CASE Takeover
  BY <1>h, <1>i, <1>24 DEF Takeover, Change, Saved, Unsaved, store
<1>25. CASE Return
  BY <1>h, <1>i, <1>25 DEF Return, Change, Saved, Unsaved, store, Woken
<1>26. CASE Continue
  BY <1>h, <1>i, <1>26 DEF Continue, Change, Saved, Unsaved, store, Woken
<1>27. CASE ContinueBlocked
  BY <1>h, <1>i, <1>27 DEF ContinueBlocked, store
<1>28. CASE Revise
  BY <1>h, <1>i, <1>28 DEF Revise, Change, Saved, Unsaved, store
<1>29. ASSUME NEW d \in BOOLEAN, Reconcile(d)
      PROVE  (out \in [call : BOOLEAN, reply : BOOLEAN, input : BOOLEAN, works : SUBSET Work]
              /\ attested \in BOOLEAN /\ missed \in BOOLEAN)'
  BY <1>h, <1>i, <1>29 DEF Reconcile, Change, Saved, Unsaved, store
<1>30. CASE Cancel
  BY <1>h, <1>i, <1>30 DEF Cancel, Change, Saved, Unsaved, store
<1>31. ASSUME NEW i \in Input, InputBegin(i)
      PROVE  (out \in [call : BOOLEAN, reply : BOOLEAN, input : BOOLEAN, works : SUBSET Work]
              /\ attested \in BOOLEAN /\ missed \in BOOLEAN)'
  BY <1>h, <1>i, <1>31 DEF InputBegin, Saved, Unsaved, store
<1>32. ASSUME NEW w \in Work, NEW r \in {"accepted","failed","unknown"}, InputAdmit(w, r)
      PROVE  (out \in [call : BOOLEAN, reply : BOOLEAN, input : BOOLEAN, works : SUBSET Work]
              /\ attested \in BOOLEAN /\ missed \in BOOLEAN)'
  <2>1. [out EXCEPT !.works = @ \cup {w}, !.input = @ \/ r = "unknown"]
          \in [call : BOOLEAN, reply : BOOLEAN, input : BOOLEAN, works : SUBSET Work]
    BY <1>h, <1>32 DEF InputAdmit
  <2> QED BY <1>h, <2>1, <1>32 DEF InputAdmit
<1>33. ASSUME NEW r \in {"failed","unknown"}, InputRefused(r)
      PROVE  (out \in [call : BOOLEAN, reply : BOOLEAN, input : BOOLEAN, works : SUBSET Work]
              /\ attested \in BOOLEAN /\ missed \in BOOLEAN)'
  BY <1>h, <1>i, <1>33 DEF InputRefused, store
<1>34. CASE InputSettle
  BY <1>h, <1>i, <1>34 DEF InputSettle, Saved, Unsaved
<1>35. CASE Crash
  BY <1>h, <1>i, <1>35 DEF Crash
<1>36. CASE RecoverAgain
  BY <1>h, <1>i, <1>36 DEF RecoverAgain, store
<1>37. ASSUME NEW u \in BOOLEAN, RecoverJudge(u)
      PROVE  (out \in [call : BOOLEAN, reply : BOOLEAN, input : BOOLEAN, works : SUBSET Work]
              /\ attested \in BOOLEAN /\ missed \in BOOLEAN)'
  BY <1>h, <1>i, <1>37 DEF RecoverJudge, RecoveryEnds, store
<1>38. CASE RecoverWrite
  BY <1>h, <1>i, <1>38 DEF RecoverWrite, RecoveryEnds, Saved, Unsaved
<1> QED BY <1>1, <1>2, <1>3, <1>4, <1>5, <1>6, <1>7, <1>8, <1>9, <1>10, <1>11,
       <1>12, <1>13, <1>14, <1>15, <1>16, <1>17, <1>18, <1>19, <1>20, <1>21, <1>22,
       <1>23, <1>24, <1>25, <1>26, <1>27, <1>28, <1>29, <1>30, <1>31, <1>32, <1>33,
       <1>34, <1>35, <1>36, <1>37, <1>38
      DEF Next, TaskStep, Reports, Recovery, User

-----------------------------------------------------------------------------
(* What each transaction leaves alone. *)

SameExecutions(u, t) ==
  /\ u.effect = t.effect /\ u.works = t.works /\ u.proofs = t.proofs
  /\ u.inputs = t.inputs /\ u.delivery = t.delivery
SameOwner(u, t) == u.fence = t.fence /\ u.user = t.user

\* Transactions that change no execution: owner, goal and phase.
LEMMA OwnerFrames ==
  ASSUME NEW t \in Task
  PROVE  /\ \A u \in {NextControl(t), NextGoal(t), Waits(t), ContinuedTask(t), RecoveredTask(t)} :
              SameExecutions(u, t)
         /\ \A p \in Phase : SameExecutions(ResourceTask(t, p), t) /\ SameOwner(ResourceTask(t, p), t)
         /\ \A p \in {"completed", "cancelled"} :
              LET u == [t EXCEPT !.phase = p, !.lost = FALSE]
              IN  SameExecutions(u, t) /\ SameOwner(u, t) /\ u.phase = p
         /\ \A b \in BOOLEAN :
              LET u == [NextControl(t) EXCEPT !.user = b]
              IN  SameExecutions(u, t) /\ u.user = b /\ u.fence = NextControl(t).fence
                  /\ u.phase = t.phase
         /\ SameOwner(Waits(t), t) /\ SameOwner(RecoveredTask(t), t)
         /\ NextControl(t).fence = <<t.fence[1] + 1, t.fence[2]>>
         /\ NextControl(t).user = t.user /\ NextControl(t).phase = t.phase
         /\ NextGoal(t).fence = <<t.fence[1], t.fence[2] + 1>>
         /\ NextGoal(t).user = t.user /\ NextGoal(t).phase = t.phase
         /\ ContinuedTask(t).fence = NextControl(t).fence /\ ~ContinuedTask(t).user
         /\ Waits(t).phase = "waiting" /\ ContinuedTask(t).phase \in {"queued", "verifying"}
         /\ \A p \in {"waiting", "running"} :
              ResourceTask(t, p).phase = "completed" => ResourceTask(t, p) = t
         /\ RecoveredTask(t).phase = "completed" => t.phase = "completed"
<1> USE DEF SameExecutions, SameOwner
<1>1. /\ SameExecutions(NextControl(t), t) /\ NextControl(t).fence = <<t.fence[1] + 1, t.fence[2]>>
      /\ NextControl(t).user = t.user /\ NextControl(t).phase = t.phase /\ NextControl(t) \in Task
  BY TypedHelpers DEF NextControl, Task
<1>2. /\ SameExecutions(NextGoal(t), t) /\ NextGoal(t).fence = <<t.fence[1], t.fence[2] + 1>>
      /\ NextGoal(t).user = t.user /\ NextGoal(t).phase = t.phase
  BY DEF NextGoal, Task
<1>3. SameExecutions(Waits(t), t) /\ SameOwner(Waits(t), t) /\ Waits(t).phase = "waiting"
  BY DEF Waits, Task
<1>4. /\ SameExecutions(ContinuedTask(t), t) /\ ContinuedTask(t).fence = NextControl(t).fence
      /\ ~ContinuedTask(t).user /\ ContinuedTask(t).phase = Resumed(t).phase
  BY <1>1 DEF ContinuedTask, Task
<1>5. /\ SameExecutions(Resumed(t), t) /\ SameOwner(Resumed(t), t)
      /\ Resumed(t).phase \in {"queued", "verifying"}
  BY DEF Resumed, Task
<1>6. /\ SameExecutions(RecoveredTask(t), t) /\ SameOwner(RecoveredTask(t), t)
      /\ RecoveredTask(t).phase = "completed" => t.phase = "completed"
  BY <1>5 DEF RecoveredTask, Task
<1>7. \A p \in Phase : SameExecutions(ResourceTask(t, p), t) /\ SameOwner(ResourceTask(t, p), t)
  BY DEF ResourceTask, Task
<1>8. \A p \in {"waiting", "running"} : ResourceTask(t, p).phase = "completed" => ResourceTask(t, p) = t
  BY DEF ResourceTask, Task
<1>9. \A p \in {"completed", "cancelled"} :
        LET u == [t EXCEPT !.phase = p, !.lost = FALSE]
        IN  SameExecutions(u, t) /\ SameOwner(u, t) /\ u.phase = p
  BY DEF Task
<1>10. \A b \in BOOLEAN :
         LET u == [NextControl(t) EXCEPT !.user = b]
         IN  SameExecutions(u, t) /\ u.user = b /\ u.fence = NextControl(t).fence
             /\ u.phase = t.phase
  BY <1>1 DEF Task
<1> QED BY <1>1, <1>2, <1>3, <1>4, <1>5, <1>6, <1>7, <1>8, <1>9, <1>10

\* Transactions of the delivery.
LEMMA DeliveryFrames ==
  ASSUME NEW t \in Task, NEW b \in BOOLEAN
  PROVE  LET u == [t EXCEPT !.delivery = b]
         IN  /\ u.effect = t.effect /\ u.works = t.works /\ u.proofs = t.proofs
             /\ u.inputs = t.inputs /\ u.delivery = b
             /\ SameOwner(u, t) /\ u.phase = t.phase
BY DEF Task, SameOwner

\* Transactions of the effect, and again of the delivery.
LEMMA EffectFrames ==
  ASSUME NEW t \in Task
  PROVE  /\ \A e \in Effect :
              LET u == [t EXCEPT !.effect = e]
              IN  /\ u.effect = e /\ u.works = t.works /\ u.proofs = t.proofs
                  /\ u.inputs = t.inputs /\ u.delivery = t.delivery
                  /\ SameOwner(u, t) /\ u.phase = t.phase
         /\ LET u == [t EXCEPT !.effect.write_started = TRUE]
            IN  /\ u.effect.status = t.effect.status /\ u.effect.write_started
                /\ u.works = t.works /\ u.proofs = t.proofs
                /\ u.inputs = t.inputs /\ u.delivery = t.delivery
                /\ SameOwner(u, t) /\ u.phase = t.phase
         /\ \A b \in BOOLEAN :
              LET u == [t EXCEPT !.delivery = b]
              IN  /\ u.effect = t.effect /\ u.works = t.works /\ u.proofs = t.proofs
                  /\ u.inputs = t.inputs /\ u.delivery = b
                  /\ SameOwner(u, t) /\ u.phase = t.phase
         /\ \A u \in {SettledTask(t), Opened(t)} :
              /\ u.works = t.works /\ u.proofs = t.proofs
              /\ u.inputs = t.inputs /\ u.delivery = t.delivery
              /\ SameOwner(u, t) /\ u.phase = t.phase
         /\ t.effect.status # "pending" => SettledTask(t) = t /\ Opened(t) = t
         /\ t.effect.status = "pending" =>
              /\ SettledTask(t).effect.status = loop.result
              /\ t.effect.write_started => Opened(t).effect.status = "unknown"
<1> USE DEF SameOwner
<1>1. \A e \in Effect :
        LET u == [t EXCEPT !.effect = e]
        IN  /\ u.effect = e /\ u.works = t.works /\ u.proofs = t.proofs
            /\ u.inputs = t.inputs /\ u.delivery = t.delivery
            /\ SameOwner(u, t) /\ u.phase = t.phase
  BY DEF Task
<1>2. LET u == [t EXCEPT !.effect.write_started = TRUE]
      IN  /\ u.effect.status = t.effect.status /\ u.effect.write_started
          /\ u.works = t.works /\ u.proofs = t.proofs
          /\ u.inputs = t.inputs /\ u.delivery = t.delivery
          /\ SameOwner(u, t) /\ u.phase = t.phase
  BY DEF Task, Effect
<1>3. \A b \in BOOLEAN :
        LET u == [t EXCEPT !.delivery = b]
        IN  /\ u.effect = t.effect /\ u.works = t.works /\ u.proofs = t.proofs
            /\ u.inputs = t.inputs /\ u.delivery = b
            /\ SameOwner(u, t) /\ u.phase = t.phase
  BY DeliveryFrames
<1>4. /\ SettledTask(t).works = t.works /\ SettledTask(t).proofs = t.proofs
      /\ SettledTask(t).inputs = t.inputs /\ SettledTask(t).delivery = t.delivery
      /\ SameOwner(SettledTask(t), t) /\ SettledTask(t).phase = t.phase
      /\ t.effect.status # "pending" => SettledTask(t) = t
      /\ t.effect.status = "pending" => SettledTask(t).effect.status = loop.result
  BY DEF SettledTask, Task, Effect
<1>5. /\ Opened(t).works = t.works /\ Opened(t).proofs = t.proofs
      /\ Opened(t).inputs = t.inputs /\ Opened(t).delivery = t.delivery
      /\ SameOwner(Opened(t), t) /\ Opened(t).phase = t.phase
      /\ t.effect.status # "pending" => Opened(t) = t
      /\ t.effect.status = "pending" /\ t.effect.write_started => Opened(t).effect.status = "unknown"
  BY DEF Opened, Task, Effect
<1> QED BY <1>1, <1>2, <1>3, <1>4, <1>5

\* Transactions of a decision of the verifier.
LEMMA DecisionFrames ==
  ASSUME state \in Task, loop \in Run
  PROVE  /\ LET u == ReconciledTask(state)
            IN  /\ u.effect = state.effect /\ u.works = state.works /\ u.proofs = state.proofs
                /\ u.delivery = state.delivery /\ u.user = state.user /\ u.phase = "verifying"
                /\ u.fence[1] = state.fence[1] + 1
                /\ u.fence[2] \in {state.fence[2], state.fence[2] + 1}
                /\ \A i \in Input : u.inputs[i] = IF state.inputs[i] = "accepted"
                                                  THEN "reconciled" ELSE state.inputs[i]
         /\ LET u == CorrectedTask(state)
            IN  /\ u.works = state.works /\ u.proofs = state.proofs /\ u.inputs = state.inputs
                /\ u.delivery = state.delivery /\ SameOwner(u, state) /\ u.phase = "queued"
                /\ u.effect = [kind |-> "correct", fence |-> loop.fence,
                               write_started |-> FALSE, status |-> "pending"]
<1>1. LET u == CorrectedTask(state)
      IN  /\ u.works = state.works /\ u.proofs = state.proofs /\ u.inputs = state.inputs
          /\ u.delivery = state.delivery /\ SameOwner(u, state) /\ u.phase = "queued"
          /\ u.effect = [kind |-> "correct", fence |-> loop.fence,
                         write_started |-> FALSE, status |-> "pending"]
  BY DEF CorrectedTask, SameOwner, Task
<1>2. LET u == ReconciledTask(state)
      IN  /\ u.effect = state.effect /\ u.works = state.works /\ u.proofs = state.proofs
          /\ u.delivery = state.delivery /\ u.user = state.user /\ u.phase = "verifying"
          /\ u.fence[1] = state.fence[1] + 1
          /\ u.fence[2] \in {state.fence[2], state.fence[2] + 1}
          /\ \A i \in Input : u.inputs[i] = IF state.inputs[i] = "accepted"
                                            THEN "reconciled" ELSE state.inputs[i]
  <2> DEFINE is == [i \in Input |-> IF state.inputs[i] = "accepted" THEN "reconciled"
                                    ELSE state.inputs[i]]
             v  == [NextControl(state) EXCEPT !.phase = "verifying", !.lost = FALSE, !.inputs = is]
  <2>1. NextControl(state) \in Task /\ SameExecutions(NextControl(state), state)
        /\ NextControl(state).fence = <<state.fence[1] + 1, state.fence[2]>>
        /\ NextControl(state).user = state.user
    BY TypedHelpers, OwnerFrames
  <2>2. is \in [Input -> {"none", "unknown", "accepted", "failed", "reconciled"}]
    BY DEF Task
  <2>3. /\ v.effect = state.effect /\ v.works = state.works /\ v.proofs = state.proofs
        /\ v.delivery = state.delivery /\ v.user = state.user /\ v.phase = "verifying"
        /\ v.fence = <<state.fence[1] + 1, state.fence[2]>> /\ v.inputs = is
    BY <2>1 DEF Task, SameExecutions
  <2>4. v \in Task
    BY <2>1, <2>2 DEF Task, Phase
  <2>5. ReconciledTask(state) = IF loop.revises THEN NextGoal(v) ELSE v
    BY DEF ReconciledTask
  <2>6. SameExecutions(NextGoal(v), v) /\ NextGoal(v).fence = <<v.fence[1], v.fence[2] + 1>>
        /\ NextGoal(v).user = v.user /\ NextGoal(v).phase = v.phase
    BY <2>4, OwnerFrames
  <2>7. \A i \in Input : is[i] = IF state.inputs[i] = "accepted" THEN "reconciled"
                                 ELSE state.inputs[i]
    OBVIOUS
  <2> HIDE DEF v, is
  <2> QED BY <2>3, <2>5, <2>6, <2>7 DEF SameExecutions
<1> QED BY <1>1, <1>2

\* The user settles what was uncertain.
LEMMA SettledFrames ==
  ASSUME NEW t \in Task, NEW d \in BOOLEAN
  PROVE  LET u == SettledByUser(t, d)
         IN  /\ u.phase = t.phase /\ u.user = t.user
             /\ u.fence = <<t.fence[1] + 1, t.fence[2]>>
             /\ t.proofs \subseteq u.proofs
             /\ d /\ t.effect.status = "unknown" => u.proofs # {}
             /\ t.effect.status # "unknown" => u.effect.status = t.effect.status
             /\ t.effect.status = "unknown" => u.effect.status \in {"accepted", "failed"}
             /\ u.effect.write_started = t.effect.write_started
             /\ u.delivery => t.delivery
             /\ \A w \in Work :
                  /\ u.works[w].kind = t.works[w].kind /\ u.works[w].goal = t.works[w].goal
                  /\ u.works[w].outcome = IF t.works[w].outcome = "unknown" THEN "known"
                                          ELSE t.works[w].outcome
             /\ \A i \in Input :
                  u.inputs[i] = IF t.inputs[i] = "unknown"
                                THEN (IF d THEN "accepted" ELSE "failed") ELSE t.inputs[i]
<1> DEFINE n == NextControl(t)
           v == IF t.lost THEN FALSE ELSE n.delivery
           e == [n.effect EXCEPT !.status = IF @ = "unknown"
                   THEN (IF d THEN "accepted" ELSE "failed") ELSE @]
           p == IF d /\ t.effect.status = "unknown"
                THEN n.proofs \cup {[goal |-> t.fence[2], by |-> "user"]} ELSE n.proofs
           ws == [w \in Work |-> IF t.works[w].outcome = "unknown"
                   THEN [t.works[w] EXCEPT !.outcome = "known"] ELSE t.works[w]]
           is == [i \in Input |-> IF t.inputs[i] = "unknown"
                   THEN (IF d THEN "accepted" ELSE "failed") ELSE t.inputs[i]]
           u == [n EXCEPT !.lost = FALSE, !.delivery = v, !.works = ws, !.inputs = is,
                   !.effect = e, !.proofs = p]
<1>1. /\ n \in Task /\ SameExecutions(n, t) /\ n.user = t.user /\ n.phase = t.phase
      /\ n.fence = <<t.fence[1] + 1, t.fence[2]>>
  BY TypedHelpers, OwnerFrames
<1>2. SettledByUser(t, d) = u
  BY <1>1 DEF SettledByUser, Task
<1>3. /\ u.phase = t.phase /\ u.user = t.user /\ u.fence = n.fence /\ u.delivery = v
      /\ u.works = ws /\ u.inputs = is /\ u.effect = e /\ u.proofs = p
  <2> HIDE DEF v, e, p, ws, is
  <2> QED BY <1>1 DEF Task
<1>4. /\ e.write_started = t.effect.write_started
      /\ t.effect.status # "unknown" => e.status = t.effect.status
      /\ t.effect.status = "unknown" => e.status \in {"accepted", "failed"}
  BY <1>1 DEF SameExecutions, Task, Effect
<1>5. /\ t.proofs \subseteq p /\ (d /\ t.effect.status = "unknown" => p # {}) /\ (v => t.delivery)
  BY <1>1 DEF SameExecutions
<1>6. /\ \A w \in Work :
           /\ ws[w].kind = t.works[w].kind /\ ws[w].goal = t.works[w].goal
           /\ ws[w].outcome = IF t.works[w].outcome = "unknown" THEN "known"
                              ELSE t.works[w].outcome
      /\ \A i \in Input : is[i] = IF t.inputs[i] = "unknown"
                                  THEN (IF d THEN "accepted" ELSE "failed") ELSE t.inputs[i]
  BY DEF Task, Bound
<1> HIDE DEF v, e, p, ws, is, n, u
<1> QED BY <1>1, <1>2, <1>3, <1>4, <1>5, <1>6

-----------------------------------------------------------------------------
(* What each operation writes: the same record to the file and the memory, or *)
(* perhaps to the file alone.                                                 *)

Wrote(n) == (state' = n /\ disk' = n) \/ (state' = state /\ disk' \in {disk, n})

GiveUpRecord(n) ==
  /\ SameExecutions(n, state)
  /\ SameOwner(n, state)
  /\ n.phase = "waiting"

\* What GiveUp writes, if it writes.
LEMMA GiveUpWrites ==
  ASSUME TypeOK, GiveUp
  PROVE  \E n : Wrote(n) /\ GiveUpRecord(n)
<1> DEFINE n == Waits(state)
<1>1. state \in Task /\ disk \in Task /\ loop \in Run /\ reply \in Reply /\ sending \in Sending
  BY DEF TypeOK
<1>3. /\ SameExecutions(n, state)
      /\ SameOwner(n, state)
      /\ n.phase = "waiting"
  BY <1>1, OwnerFrames
<1>4. Wrote(n)
  BY DEF Wrote, GiveUp, Mutate, Saved, Unsaved, store
<1> HIDE DEF n
<1> QED BY <1>3, <1>4 DEF GiveUpRecord

WaitUnknownRecord(n) ==
  /\ SameExecutions(n, state)
  /\ SameOwner(n, state)
  /\ n.phase = "waiting"

\* What WaitUnknown writes, if it writes.
LEMMA WaitUnknownWrites ==
  ASSUME TypeOK, WaitUnknown
  PROVE  \E n : Wrote(n) /\ WaitUnknownRecord(n)
<1> DEFINE n == Waits(state)
<1>1. state \in Task /\ disk \in Task /\ loop \in Run /\ reply \in Reply /\ sending \in Sending
  BY DEF TypeOK
<1>3. /\ SameExecutions(n, state)
      /\ SameOwner(n, state)
      /\ n.phase = "waiting"
  BY <1>1, OwnerFrames
<1>4. Wrote(n)
  BY DEF Wrote, WaitUnknown, Mutate, Saved, Unsaved, store
<1> HIDE DEF n
<1> QED BY <1>3, <1>4 DEF WaitUnknownRecord

ReserveInitialRecord(n) ==
  /\ n.works = state.works
  /\ n.proofs = state.proofs
  /\ n.inputs = state.inputs
  /\ n.delivery = state.delivery
  /\ SameOwner(n, state)
  /\ n.phase = state.phase
  /\ n.effect.status = "pending"
  /\ ~n.effect.write_started

\* What ReserveInitial writes, if it writes.
LEMMA ReserveInitialWrites ==
  ASSUME TypeOK, ReserveInitial
  PROVE  \E n : Wrote(n) /\ ReserveInitialRecord(n)
<1> DEFINE n == [state EXCEPT !.effect = [kind |-> "initial", fence |-> loop.fence, write_started |-> FALSE,
                               status |-> "pending"]]
<1>1. state \in Task /\ disk \in Task /\ loop \in Run /\ reply \in Reply /\ sending \in Sending
  BY DEF TypeOK
<1>3. /\ n.works = state.works
      /\ n.proofs = state.proofs
      /\ n.inputs = state.inputs
      /\ n.delivery = state.delivery
      /\ SameOwner(n, state)
      /\ n.phase = state.phase
      /\ n.effect.status = "pending"
      /\ ~n.effect.write_started
  BY <1>1 DEF Task, SameOwner
<1>4. Wrote(n)
  BY DEF Wrote, ReserveInitial, Mutate, Saved, Unsaved, store
<1> HIDE DEF n
<1> QED BY <1>3, <1>4 DEF ReserveInitialRecord

MarkEffectDispatchingRecord(n) ==
  /\ n.works = state.works
  /\ n.proofs = state.proofs
  /\ n.inputs = state.inputs
  /\ n.delivery = state.delivery
  /\ SameOwner(n, state)
  /\ n.phase = state.phase
  /\ n.effect.status = state.effect.status
  /\ n.effect.write_started

\* What MarkEffectDispatching writes, if it writes.
LEMMA MarkEffectDispatchingWrites ==
  ASSUME TypeOK, MarkEffectDispatching
  PROVE  \E n : Wrote(n) /\ MarkEffectDispatchingRecord(n)
<1> DEFINE n == [state EXCEPT !.effect.write_started = TRUE]
<1>1. state \in Task /\ disk \in Task /\ loop \in Run /\ reply \in Reply /\ sending \in Sending
  BY DEF TypeOK
<1>3. /\ n.works = state.works
      /\ n.proofs = state.proofs
      /\ n.inputs = state.inputs
      /\ n.delivery = state.delivery
      /\ SameOwner(n, state)
      /\ n.phase = state.phase
      /\ n.effect.status = state.effect.status
      /\ n.effect.write_started
  BY <1>1, EffectFrames
<1>4. Wrote(n)
  BY DEF Wrote, MarkEffectDispatching, Mutate, Saved, Unsaved, store
<1> HIDE DEF n
<1> QED BY <1>3, <1>4 DEF MarkEffectDispatchingRecord

BindWorkRecord(n, w) ==
  /\ n.effect = state.effect
  /\ n.proofs = state.proofs
  /\ n.inputs = state.inputs
  /\ n.delivery = state.delivery
  /\ SameOwner(n, state)
  /\ n.phase = "completed" => state.phase = "completed"
  /\ w \in Work \ Works(state)
  /\ \/ state' = n /\ disk' = n /\ running' = running \cup {w} /\ out' = [out EXCEPT !.works = @ \cup {w}]
     \/ state' = state /\ UNCHANGED <<running, out>>
  /\ n.works[w].kind = "work"
  /\ n.works[w].outcome = "none"
  /\ \A v \in Work : v # w => n.works[v] = state.works[v]

\* What BindWork writes, if it writes.
LEMMA BindWorkWrites ==
  ASSUME TypeOK, NEW w \in Work, BindWork(w)
  PROVE  \E n : Wrote(n) /\ BindWorkRecord(n, w)
<1> DEFINE n == [state EXCEPT !.works[w] = [kind |-> "work", goal |-> loop.fence[2], outcome |-> "none"],
                 !.phase = IF @ \in {"queued", "waiting"} THEN "running" ELSE @, !.lost = FALSE]
<1>1. state \in Task /\ disk \in Task /\ loop \in Run /\ reply \in Reply /\ sending \in Sending
  BY DEF TypeOK
<1>2. w \in Work \ Works(state)
  BY DEF BindWork, Works
<1>3. /\ n.effect = state.effect
      /\ n.proofs = state.proofs
      /\ n.inputs = state.inputs
      /\ n.delivery = state.delivery
      /\ SameOwner(n, state)
      /\ n.phase = "completed" => state.phase = "completed"
      /\ n.works[w].kind = "work"
      /\ n.works[w].outcome = "none"
      /\ \A v \in Work : v # w => n.works[v] = state.works[v]
  BY <1>1, <1>2 DEF Task, SameOwner
<1>5. n # state
  BY <1>2, <1>3 DEF Works
<1>6. /\ \/ state' = n /\ disk' = n /\ running' = running \cup {w} /\ out' = [out EXCEPT !.works = @ \cup {w}]
         \/ state' = state /\ UNCHANGED <<running, out>>
  BY <1>5 DEF BindWork, Mutate, Saved, Unsaved, store
<1>4. Wrote(n)
  BY DEF Wrote, BindWork, Mutate, Saved, Unsaved, store
<1> HIDE DEF n
<1> QED BY <1>2, <1>3, <1>4, <1>6 DEF BindWorkRecord

BeginDeliveryRecord(n) ==
  /\ n.effect = state.effect
  /\ n.works = state.works
  /\ n.proofs = state.proofs
  /\ n.inputs = state.inputs
  /\ SameOwner(n, state)
  /\ n.phase = state.phase
  /\ n.delivery

\* What BeginDelivery writes, if it writes.
LEMMA BeginDeliveryWrites ==
  ASSUME TypeOK, BeginDelivery
  PROVE  \E n : Wrote(n) /\ BeginDeliveryRecord(n)
<1> DEFINE n == [state EXCEPT !.delivery = TRUE]
<1>1. state \in Task /\ disk \in Task /\ loop \in Run /\ reply \in Reply /\ sending \in Sending
  BY DEF TypeOK
<1>3. /\ n.effect = state.effect
      /\ n.works = state.works
      /\ n.proofs = state.proofs
      /\ n.inputs = state.inputs
      /\ SameOwner(n, state)
      /\ n.phase = state.phase
      /\ n.delivery
  BY <1>1, DeliveryFrames
<1>4. Wrote(n)
  BY DEF Wrote, BeginDelivery, Mutate, Saved, Unsaved, store
<1> HIDE DEF n
<1> QED BY <1>3, <1>4 DEF BeginDeliveryRecord

DeliverRecord(n) ==
  /\ n.effect = state.effect
  /\ n.works = state.works
  /\ n.proofs = state.proofs
  /\ n.inputs = state.inputs
  /\ SameOwner(n, state)
  /\ n.phase = state.phase
  /\ ~n.delivery

\* What Deliver writes, if it writes.
LEMMA DeliverWrites ==
  ASSUME TypeOK, Deliver
  PROVE  \E n : Wrote(n) /\ DeliverRecord(n)
<1> DEFINE n == [state EXCEPT !.delivery = FALSE]
<1>1. state \in Task /\ disk \in Task /\ loop \in Run /\ reply \in Reply /\ sending \in Sending
  BY DEF TypeOK
<1>3. /\ n.effect = state.effect
      /\ n.works = state.works
      /\ n.proofs = state.proofs
      /\ n.inputs = state.inputs
      /\ SameOwner(n, state)
      /\ n.phase = state.phase
      /\ ~n.delivery
  BY <1>1, DeliveryFrames
<1>4. Wrote(n)
  BY DEF Wrote, Deliver, Mutate, Saved, Unsaved, NoReply, store
<1> HIDE DEF n
<1> QED BY <1>3, <1>4 DEF DeliverRecord

SettleEffectRecord(n) ==
  /\ n.works = state.works
  /\ n.proofs = state.proofs
  /\ n.inputs = state.inputs
  /\ n.delivery = state.delivery
  /\ SameOwner(n, state)
  /\ n.phase = state.phase
  /\ n.effect = state.effect \/ (state.effect.status = "pending" /\ n.effect.status = loop.result)

\* What SettleEffect writes, if it writes.
LEMMA SettleEffectWrites ==
  ASSUME TypeOK, SettleEffect
  PROVE  \E n : Wrote(n) /\ SettleEffectRecord(n)
<1> DEFINE n == SettledTask(state)
<1>1. state \in Task /\ disk \in Task /\ loop \in Run /\ reply \in Reply /\ sending \in Sending
  BY DEF TypeOK
<1>3. /\ n.works = state.works
      /\ n.proofs = state.proofs
      /\ n.inputs = state.inputs
      /\ n.delivery = state.delivery
      /\ SameOwner(n, state)
      /\ n.phase = state.phase
      /\ n.effect = state.effect \/ (state.effect.status = "pending" /\ n.effect.status = loop.result)
  BY <1>1, EffectFrames
<1>4. Wrote(n)
  BY DEF Wrote, SettleEffect, Mutate, Saved, Unsaved, store
<1> HIDE DEF n
<1> QED BY <1>3, <1>4 DEF SettleEffectRecord

WorkEndsRecord(n, w, o) ==
  /\ n.effect = state.effect
  /\ n.proofs = state.proofs
  /\ n.inputs = state.inputs
  /\ n.delivery = state.delivery
  /\ SameOwner(n, state)
  /\ n.phase = state.phase
  /\ \A v \in Work : v # w => n.works[v] = state.works[v]
  /\ n.works[w].kind = state.works[w].kind
  /\ n.works[w].goal = state.works[w].goal
  /\ n.works[w].outcome = IF state.works[w].outcome = "none" THEN o ELSE state.works[w].outcome

\* What WorkEnds writes, if it writes.
LEMMA WorkEndsWrites ==
  ASSUME TypeOK, NEW w \in Work, NEW o \in {"known","unknown"}, WorkEnds(w, o)
  PROVE  \E n : Wrote(n) /\ WorkEndsRecord(n, w, o)
<1> DEFINE n == [state EXCEPT !.works[w].outcome = IF @ = "none" THEN o ELSE @]
<1>1. state \in Task /\ disk \in Task /\ loop \in Run /\ reply \in Reply /\ sending \in Sending
  BY DEF TypeOK
<1>2. w \in Work
  BY DEF TypeOK, Works, WorkEnds
<1>3. /\ n.effect = state.effect
      /\ n.proofs = state.proofs
      /\ n.inputs = state.inputs
      /\ n.delivery = state.delivery
      /\ SameOwner(n, state)
      /\ n.phase = state.phase
      /\ \A v \in Work : v # w => n.works[v] = state.works[v]
      /\ n.works[w].kind = state.works[w].kind
      /\ n.works[w].goal = state.works[w].goal
      /\ n.works[w].outcome = IF state.works[w].outcome = "none" THEN o ELSE state.works[w].outcome
  BY <1>1, <1>2 DEF Task, SameOwner, Bound
<1>4. Wrote(n)
  BY DEF Wrote, WorkEnds, Change, Saved, Unsaved, store
<1> HIDE DEF n
<1> QED BY <1>3, <1>4 DEF WorkEndsRecord

ResourceStateRecord(n, p) ==
  /\ SameExecutions(n, state)
  /\ SameOwner(n, state)
  /\ n.phase = "completed" => n = state

\* What ResourceState writes, if it writes.
LEMMA ResourceStateWrites ==
  ASSUME TypeOK, NEW p \in Phase, ResourceState(p)
  PROVE  \E n : Wrote(n) /\ ResourceStateRecord(n, p)
<1> DEFINE n == ResourceTask(state, p)
<1>1. state \in Task /\ disk \in Task /\ loop \in Run /\ reply \in Reply /\ sending \in Sending
  BY DEF TypeOK
<1>2. p \in {"waiting", "running"}
  BY DEF ResourceState
<1>3. /\ SameExecutions(n, state)
      /\ SameOwner(n, state)
      /\ n.phase = "completed" => n = state
  BY <1>1, <1>2 DEF ResourceTask, Task, SameOwner, SameExecutions
<1>4. Wrote(n)
  BY DEF Wrote, ResourceState, Saved, store
<1> HIDE DEF n
<1> QED BY <1>3, <1>4 DEF ResourceStateRecord

WithdrawRecord(n) ==
  /\ n.effect = state.effect
  /\ n.works = state.works
  /\ n.proofs = state.proofs
  /\ n.inputs = state.inputs
  /\ SameOwner(n, state)
  /\ n.phase = state.phase
  /\ ~n.delivery

\* What Withdraw writes, if it writes.
LEMMA WithdrawWrites ==
  ASSUME TypeOK, Withdraw
  PROVE  \E n : Wrote(n) /\ WithdrawRecord(n)
<1> DEFINE n == [state EXCEPT !.delivery = FALSE]
<1>1. state \in Task /\ disk \in Task /\ loop \in Run /\ reply \in Reply /\ sending \in Sending
  BY DEF TypeOK
<1>3. /\ n.effect = state.effect
      /\ n.works = state.works
      /\ n.proofs = state.proofs
      /\ n.inputs = state.inputs
      /\ SameOwner(n, state)
      /\ n.phase = state.phase
      /\ ~n.delivery
  BY <1>1, DeliveryFrames
<1>4. Wrote(n)
  BY DEF Wrote, Withdraw, Saved, Unsaved, NoReply, store
<1> HIDE DEF n
<1> QED BY <1>3, <1>4 DEF WithdrawRecord

ResponseEndsRecord(n, d) ==
  /\ n.effect = state.effect
  /\ n.works = state.works
  /\ n.proofs = state.proofs
  /\ n.inputs = state.inputs
  /\ SameOwner(n, state)
  /\ n.phase = state.phase
  /\ ~n.delivery

\* What ResponseEnds writes, if it writes.
LEMMA ResponseEndsWrites ==
  ASSUME TypeOK, NEW d \in Ending, ResponseEnds(d)
  PROVE  \E n : Wrote(n) /\ ResponseEndsRecord(n, d)
<1> DEFINE n == [state EXCEPT !.delivery = FALSE]
<1>1. state \in Task /\ disk \in Task /\ loop \in Run /\ reply \in Reply /\ sending \in Sending
  BY DEF TypeOK
<1>3. /\ n.effect = state.effect
      /\ n.works = state.works
      /\ n.proofs = state.proofs
      /\ n.inputs = state.inputs
      /\ SameOwner(n, state)
      /\ n.phase = state.phase
      /\ ~n.delivery
  BY <1>1, DeliveryFrames
<1>4. Wrote(n)
  BY DEF Wrote, ResponseEnds, Saved, Unsaved, NoReply, store
<1> HIDE DEF n
<1> QED BY <1>3, <1>4 DEF ResponseEndsRecord

RecordDeliveryRecord(n) ==
  /\ n.effect = state.effect
  /\ n.works = state.works
  /\ n.inputs = state.inputs
  /\ n.delivery = state.delivery
  /\ SameOwner(n, state)
  /\ n.phase = state.phase
  /\ state.proofs \subseteq n.proofs

\* What RecordDelivery writes, if it writes.
LEMMA RecordDeliveryWrites ==
  ASSUME TypeOK, RecordDelivery
  PROVE  \E n : Wrote(n) /\ RecordDeliveryRecord(n)
<1> DEFINE n == [state EXCEPT !.proofs = @ \cup {[goal |-> reply.fence[2], by |-> "delivery"]}]
<1>1. state \in Task /\ disk \in Task /\ loop \in Run /\ reply \in Reply /\ sending \in Sending
  BY DEF TypeOK
<1>3. /\ n.effect = state.effect
      /\ n.works = state.works
      /\ n.inputs = state.inputs
      /\ n.delivery = state.delivery
      /\ SameOwner(n, state)
      /\ n.phase = state.phase
      /\ state.proofs \subseteq n.proofs
  BY <1>1 DEF Task, SameOwner
<1>4. Wrote(n)
  BY DEF Wrote, RecordDelivery, Change, Saved, Unsaved, NoReply, store
<1> HIDE DEF n
<1> QED BY <1>3, <1>4 DEF RecordDeliveryRecord

DeliveryInterruptedRecord(n) ==
  /\ SameExecutions(n, state)
  /\ SameOwner(n, state)
  /\ n.phase = "waiting"

\* What DeliveryInterrupted writes, if it writes.
LEMMA DeliveryInterruptedWrites ==
  ASSUME TypeOK, DeliveryInterrupted
  PROVE  \E n : Wrote(n) /\ DeliveryInterruptedRecord(n)
<1> DEFINE n == Waits(state)
<1>1. state \in Task /\ disk \in Task /\ loop \in Run /\ reply \in Reply /\ sending \in Sending
  BY DEF TypeOK
<1>3. /\ SameExecutions(n, state)
      /\ SameOwner(n, state)
      /\ n.phase = "waiting"
  BY <1>1, OwnerFrames
<1>4. Wrote(n)
  BY DEF Wrote, DeliveryInterrupted, Change, Saved, Unsaved, NoReply, store
<1> HIDE DEF n
<1> QED BY <1>3, <1>4 DEF DeliveryInterruptedRecord

TakeoverRecord(n) ==
  /\ SameExecutions(n, state)
  /\ n.fence = <<state.fence[1] + 1, state.fence[2]>>
  /\ n.user
  /\ n.phase = state.phase

\* What Takeover writes, if it writes.
LEMMA TakeoverWrites ==
  ASSUME TypeOK, Takeover
  PROVE  \E n : Wrote(n) /\ TakeoverRecord(n)
<1> DEFINE n == [NextControl(state) EXCEPT !.user = TRUE]
<1>1. state \in Task /\ disk \in Task /\ loop \in Run /\ reply \in Reply /\ sending \in Sending
  BY DEF TypeOK
<1>3. /\ SameExecutions(n, state)
      /\ n.fence = <<state.fence[1] + 1, state.fence[2]>>
      /\ n.user
      /\ n.phase = state.phase
  BY <1>1 DEF NextControl, Task, SameOwner, SameExecutions
<1>4. Wrote(n)
  BY DEF Wrote, Takeover, Change, Saved, Unsaved, store
<1> HIDE DEF n
<1> QED BY <1>3, <1>4 DEF TakeoverRecord

ReturnRecord(n) ==
  /\ SameExecutions(n, state)
  /\ n.fence = <<state.fence[1] + 1, state.fence[2]>>
  /\ ~n.user
  /\ n.phase = state.phase

\* What Return writes, if it writes.
LEMMA ReturnWrites ==
  ASSUME TypeOK, Return
  PROVE  \E n : Wrote(n) /\ ReturnRecord(n)
<1> DEFINE n == [NextControl(state) EXCEPT !.user = FALSE]
<1>1. state \in Task /\ disk \in Task /\ loop \in Run /\ reply \in Reply /\ sending \in Sending
  BY DEF TypeOK
<1>3. /\ SameExecutions(n, state)
      /\ n.fence = <<state.fence[1] + 1, state.fence[2]>>
      /\ ~n.user
      /\ n.phase = state.phase
  BY <1>1 DEF NextControl, Task, SameOwner, SameExecutions
<1>4. Wrote(n)
  BY DEF Wrote, Return, Change, Saved, Unsaved, store
<1> HIDE DEF n
<1> QED BY <1>3, <1>4 DEF ReturnRecord

ContinueRecord(n) ==
  /\ SameExecutions(n, state)
  /\ n.fence = <<state.fence[1] + 1, state.fence[2]>>
  /\ ~n.user
  /\ n.phase \in {"queued", "verifying"}

\* What Continue writes, if it writes.
LEMMA ContinueWrites ==
  ASSUME TypeOK, Continue
  PROVE  \E n : Wrote(n) /\ ContinueRecord(n)
<1> DEFINE n == ContinuedTask(state)
<1>1. state \in Task /\ disk \in Task /\ loop \in Run /\ reply \in Reply /\ sending \in Sending
  BY DEF TypeOK
<1>2. /\ SameExecutions(n, state) /\ ~n.user /\ n.phase \in {"queued", "verifying"}
      /\ n.fence = NextControl(state).fence
      /\ NextControl(state).fence = <<state.fence[1] + 1, state.fence[2]>>
  BY <1>1, OwnerFrames
<1>3. /\ SameExecutions(n, state)
      /\ n.fence = <<state.fence[1] + 1, state.fence[2]>>
      /\ ~n.user
      /\ n.phase \in {"queued", "verifying"}
  BY <1>2
<1>4. Wrote(n)
  BY DEF Wrote, Continue, Change, Saved, Unsaved, store
<1> HIDE DEF n
<1> QED BY <1>3, <1>4 DEF ContinueRecord

ReviseRecord(n) ==
  /\ SameExecutions(n, state)
  /\ n.fence = <<state.fence[1], state.fence[2] + 1>>
  /\ n.user = state.user
  /\ n.phase = state.phase

\* What Revise writes, if it writes.
LEMMA ReviseWrites ==
  ASSUME TypeOK, Revise
  PROVE  \E n : Wrote(n) /\ ReviseRecord(n)
<1> DEFINE n == NextGoal(state)
<1>1. state \in Task /\ disk \in Task /\ loop \in Run /\ reply \in Reply /\ sending \in Sending
  BY DEF TypeOK
<1>3. /\ SameExecutions(n, state)
      /\ n.fence = <<state.fence[1], state.fence[2] + 1>>
      /\ n.user = state.user
      /\ n.phase = state.phase
  BY <1>1, OwnerFrames
<1>4. Wrote(n)
  BY DEF Wrote, Revise, Change, Saved, Unsaved, store
<1> HIDE DEF n
<1> QED BY <1>3, <1>4 DEF ReviseRecord

ReconcileRecord(n, d) ==
  /\ n.phase = state.phase
  /\ n.user = state.user
  /\ n.fence = <<state.fence[1] + 1, state.fence[2]>>
  /\ state.proofs \subseteq n.proofs
  /\ d /\ state.effect.status = "unknown" => n.proofs # {}
  /\ state.effect.status # "unknown" => n.effect.status = state.effect.status
  /\ n.effect.write_started = state.effect.write_started
  /\ n.delivery => state.delivery
  /\ \A w \in Work : /\ n.works[w].kind = state.works[w].kind /\ n.works[w].goal = state.works[w].goal
                      /\ n.works[w].outcome = IF state.works[w].outcome = "unknown" THEN "known"
                                                 ELSE state.works[w].outcome
  /\ \A i \in Input : n.inputs[i] = IF state.inputs[i] = "unknown"
                                        THEN (IF d THEN "accepted" ELSE "failed") ELSE state.inputs[i]

\* What Reconcile writes, if it writes.
LEMMA ReconcileWrites ==
  ASSUME TypeOK, NEW d \in BOOLEAN, Reconcile(d)
  PROVE  \E n : Wrote(n) /\ ReconcileRecord(n, d)
<1> DEFINE n == SettledByUser(state, d)
<1>1. state \in Task /\ disk \in Task /\ loop \in Run /\ reply \in Reply /\ sending \in Sending
  BY DEF TypeOK
<1>3. /\ n.phase = state.phase
      /\ n.user = state.user
      /\ n.fence = <<state.fence[1] + 1, state.fence[2]>>
      /\ state.proofs \subseteq n.proofs
      /\ d /\ state.effect.status = "unknown" => n.proofs # {}
      /\ state.effect.status # "unknown" => n.effect.status = state.effect.status
      /\ n.effect.write_started = state.effect.write_started
      /\ n.delivery => state.delivery
      /\ \A w \in Work : /\ n.works[w].kind = state.works[w].kind /\ n.works[w].goal = state.works[w].goal
                          /\ n.works[w].outcome = IF state.works[w].outcome = "unknown" THEN "known"
                                                     ELSE state.works[w].outcome
      /\ \A i \in Input : n.inputs[i] = IF state.inputs[i] = "unknown"
                                            THEN (IF d THEN "accepted" ELSE "failed") ELSE state.inputs[i]
  BY <1>1, SettledFrames
<1>4. Wrote(n)
  BY DEF Wrote, Reconcile, Change, Saved, Unsaved, store
<1> HIDE DEF n
<1> QED BY <1>3, <1>4 DEF ReconcileRecord

CancelRecord(n) ==
  /\ SameExecutions(n, state)
  /\ SameOwner(n, state)
  /\ n.phase = "cancelled"

\* What Cancel writes, if it writes.
LEMMA CancelWrites ==
  ASSUME TypeOK, Cancel
  PROVE  \E n : Wrote(n) /\ CancelRecord(n)
<1> DEFINE n == [state EXCEPT !.phase = "cancelled", !.lost = FALSE]
<1>1. state \in Task /\ disk \in Task /\ loop \in Run /\ reply \in Reply /\ sending \in Sending
  BY DEF TypeOK
<1>3. /\ SameExecutions(n, state)
      /\ SameOwner(n, state)
      /\ n.phase = "cancelled"
  BY <1>1 DEF Task, SameOwner, SameExecutions
<1>4. Wrote(n)
  BY DEF Wrote, Cancel, Change, Saved, Unsaved, store
<1> HIDE DEF n
<1> QED BY <1>3, <1>4 DEF CancelRecord

InputBeginRecord(n, i) ==
  /\ n.effect = state.effect
  /\ n.works = state.works
  /\ n.proofs = state.proofs
  /\ n.delivery = state.delivery
  /\ SameOwner(n, state)
  /\ n.phase = state.phase
  /\ n.inputs[i] = "unknown"
  /\ \A j \in Input : j # i => n.inputs[j] = state.inputs[j]

\* What InputBegin writes, if it writes.
LEMMA InputBeginWrites ==
  ASSUME TypeOK, NEW i \in Input, InputBegin(i)
  PROVE  \E n : Wrote(n) /\ InputBeginRecord(n, i)
<1> DEFINE n == [state EXCEPT !.inputs[i] = "unknown"]
<1>1. state \in Task /\ disk \in Task /\ loop \in Run /\ reply \in Reply /\ sending \in Sending
  BY DEF TypeOK
<1>3. /\ n.effect = state.effect
      /\ n.works = state.works
      /\ n.proofs = state.proofs
      /\ n.delivery = state.delivery
      /\ SameOwner(n, state)
      /\ n.phase = state.phase
      /\ n.inputs[i] = "unknown"
      /\ \A j \in Input : j # i => n.inputs[j] = state.inputs[j]
  BY <1>1 DEF Task, SameOwner
<1>4. Wrote(n)
  BY DEF Wrote, InputBegin, Saved, Unsaved, store
<1> HIDE DEF n
<1> QED BY <1>3, <1>4 DEF InputBeginRecord

InputAdmitRecord(n, w, r) ==
  /\ n.effect = state.effect
  /\ n.proofs = state.proofs
  /\ n.inputs = state.inputs
  /\ n.delivery = state.delivery
  /\ SameOwner(n, state)
  /\ n.phase = "completed" => state.phase = "completed"
  /\ w \in Work \ Works(state)
  /\ \/ state' = n /\ disk' = n /\ running' = running \cup {w} /\ sending' = [sending EXCEPT !.pc = r]
        /\ out' = [out EXCEPT !.works = @ \cup {w}, !.input = @ \/ r = "unknown"]
     \/ state' = state /\ UNCHANGED <<running, out>> /\ sending' = [sending EXCEPT !.pc = "unknown"]
  /\ n.works[w].kind \in {"work", "input"}
  /\ n.works[w].outcome = "none"
  /\ \A v \in Work : v # w => n.works[v] = state.works[v]

\* What InputAdmit writes, if it writes.
LEMMA InputAdmitWrites ==
  ASSUME TypeOK, NEW w \in Work, NEW r \in {"accepted","failed","unknown"}, InputAdmit(w, r)
  PROVE  \E n : Wrote(n) /\ InputAdmitRecord(n, w, r)
<1> DEFINE n == [state EXCEPT !.works[w] = [kind |-> IF activeWork(state) = {} THEN "work" ELSE "input",
                              goal |-> sending.fence[2], outcome |-> "none"],
                 !.phase = IF @ \in {"queued", "waiting"} THEN "running" ELSE @, !.lost = FALSE]
<1>1. state \in Task /\ disk \in Task /\ loop \in Run /\ reply \in Reply /\ sending \in Sending
  BY DEF TypeOK
<1>2. w \in Work \ Works(state)
  BY DEF InputAdmit, Works
<1>3. /\ n.effect = state.effect
      /\ n.proofs = state.proofs
      /\ n.inputs = state.inputs
      /\ n.delivery = state.delivery
      /\ SameOwner(n, state)
      /\ n.phase = "completed" => state.phase = "completed"
      /\ n.works[w].kind \in {"work", "input"}
      /\ n.works[w].outcome = "none"
      /\ \A v \in Work : v # w => n.works[v] = state.works[v]
  BY <1>1, <1>2 DEF Task, SameOwner
<1>5. n # state
  BY <1>2, <1>3 DEF Works
<1>6. /\ \/ state' = n /\ disk' = n /\ running' = running \cup {w} /\ sending' = [sending EXCEPT !.pc = r]
            /\ out' = [out EXCEPT !.works = @ \cup {w}, !.input = @ \/ r = "unknown"]
         \/ state' = state /\ UNCHANGED <<running, out>> /\ sending' = [sending EXCEPT !.pc = "unknown"]
  BY <1>5 DEF InputAdmit, Saved, Unsaved, store
<1>4. Wrote(n)
  BY DEF Wrote, InputAdmit, Saved, Unsaved, store
<1> HIDE DEF n
<1> QED BY <1>2, <1>3, <1>4, <1>6 DEF InputAdmitRecord

InputSettleRecord(n) ==
  /\ n.effect = state.effect
  /\ n.works = state.works
  /\ n.proofs = state.proofs
  /\ n.delivery = state.delivery
  /\ SameOwner(n, state)
  /\ n.phase = state.phase
  /\ sending.input \in Input
  /\ n.inputs[sending.input] = sending.pc
  /\ \A j \in Input : j # sending.input => n.inputs[j] = state.inputs[j]

\* What InputSettle writes, if it writes.
LEMMA InputSettleWrites ==
  ASSUME TypeOK, InputSettle
  PROVE  \E n : Wrote(n) /\ InputSettleRecord(n)
<1> DEFINE n == [state EXCEPT !.inputs[sending.input] = sending.pc]
<1>1. state \in Task /\ disk \in Task /\ loop \in Run /\ reply \in Reply /\ sending \in Sending
  BY DEF TypeOK
<1>2. sending.pc \in {"accepted", "failed", "unknown"} /\ sending.input \in Input
  BY <1>1, Bounds DEF InputSettle, TypeOK, Sending
<1>3. /\ n.effect = state.effect
      /\ n.works = state.works
      /\ n.proofs = state.proofs
      /\ n.delivery = state.delivery
      /\ SameOwner(n, state)
      /\ n.phase = state.phase
      /\ sending.input \in Input
      /\ n.inputs[sending.input] = sending.pc
      /\ \A j \in Input : j # sending.input => n.inputs[j] = state.inputs[j]
  BY <1>1, <1>2 DEF Task, SameOwner
<1>4. Wrote(n)
  BY DEF Wrote, InputSettle, Saved, Unsaved, NoSend, store
<1> HIDE DEF n
<1> QED BY <1>2, <1>3, <1>4 DEF InputSettleRecord

RecoverWriteRecord(n) ==
  /\ SameExecutions(n, state)
  /\ SameOwner(n, state)
  /\ n.phase = "completed" => state.phase = "completed"

\* What RecoverWrite writes, if it writes.
LEMMA RecoverWriteWrites ==
  ASSUME TypeOK, RecoverWrite
  PROVE  \E n : Wrote(n) /\ RecoverWriteRecord(n)
<1> DEFINE n == RecoveredTask(state)
<1>1. state \in Task /\ disk \in Task /\ loop \in Run /\ reply \in Reply /\ sending \in Sending
  BY DEF TypeOK
<1>3. /\ SameExecutions(n, state)
      /\ SameOwner(n, state)
      /\ n.phase = "completed" => state.phase = "completed"
  BY <1>1, OwnerFrames
<1>4. Wrote(n)
  BY DEF Wrote, RecoverWrite, RecoveryEnds, Saved, Unsaved, store
<1> HIDE DEF n
<1> QED BY <1>3, <1>4 DEF RecoverWriteRecord

ApplyRecord(n) ==
  /\ n.works = state.works /\ n.proofs = state.proofs /\ n.delivery = state.delivery
  /\ \/ /\ SameExecutions(n, state) /\ SameOwner(n, state) /\ n.phase = "waiting"
        /\ loop'.pc # "mark"
     \/ /\ SameExecutions(n, state) /\ SameOwner(n, state) /\ n.phase = "completed"
        /\ Decidable(state) /\ CitesCurrent(state) /\ loop.says = "complete"
        /\ loop'.pc # "mark"
     \/ /\ n.effect = state.effect /\ n.user = state.user /\ n.phase = "verifying"
        /\ n.fence[1] = state.fence[1] + 1
        /\ n.fence[2] \in {state.fence[2], state.fence[2] + 1}
        /\ Decidable(state) /\ loop'.pc \in {"step", "giveUp"}
        /\ \A i \in Input : n.inputs[i] = IF state.inputs[i] = "accepted"
                                          THEN "reconciled" ELSE state.inputs[i]
     \/ /\ n.inputs = state.inputs /\ SameOwner(n, state) /\ n.phase = "queued"
        /\ n.effect.status = "pending" /\ ~n.effect.write_started
        /\ Decidable(state) /\ loop.says = "correct"
        /\ loop' = [loop EXCEPT !.pc = "mark"] /\ state' = n
     \/ n = state /\ loop'.pc # "mark"
     \/ /\ n.inputs = state.inputs /\ SameOwner(n, state) /\ n.phase = "queued"
        /\ n.effect.status = "pending" /\ ~n.effect.write_started
        /\ Decidable(state) /\ state' = state /\ loop'.pc = "giveUp"

\* What Apply writes, if it writes.
LEMMA ApplyWrites ==
  ASSUME TypeOK, FenceAgrees, Apply
  PROVE  \E n : Wrote(n) /\ ApplyRecord(n)
<1> USE DEF ApplyRecord
<1>1. state \in Task /\ loop \in Run
  BY DEF TypeOK
<1>2. /\ SameExecutions(Waits(state), state) /\ SameOwner(Waits(state), state)
      /\ Waits(state).phase = "waiting"
  BY <1>1, OwnerFrames
<1>3. \A l \in Run : Leave(l).pc \in {"step", "idle"}
  BY DEF Leave, Idle
<1>4. Go("giveUp").pc = "giveUp" /\ Go("mark") = [loop EXCEPT !.pc = "mark"]
      /\ [Idle EXCEPT !.pc = "step"].pc = "step"
  BY <1>1 DEF Go, Run, Idle
<1>5. CASE loop.says = "wait"
  <2>1. Wrote(Waits(state)) /\ loop'.pc # "mark"
    BY <1>1, <1>3, <1>4, <1>5 DEF Apply, Mutate, Saved, Unsaved, Wrote, store
  <2> QED BY <1>2, <2>1 DEF SameExecutions
<1>6. CASE loop.says = "reconcile"
  <2> DEFINE n == ReconciledTask(state)
  <2>1. \/ Decidable(state) /\ Wrote(n) /\ loop'.pc \in {"step", "giveUp"}
        \/ Wrote(state) /\ loop'.pc # "mark"
    BY <1>1, <1>4, <1>6 DEF Apply, Mutate, Saved, Unsaved, Wrote, store
  <2>2. /\ n.effect = state.effect /\ n.works = state.works /\ n.proofs = state.proofs
        /\ n.delivery = state.delivery /\ n.user = state.user /\ n.phase = "verifying"
        /\ n.fence[1] = state.fence[1] + 1
        /\ n.fence[2] \in {state.fence[2], state.fence[2] + 1}
        /\ \A i \in Input : n.inputs[i] = IF state.inputs[i] = "accepted"
                                          THEN "reconciled" ELSE state.inputs[i]
    BY <1>1, DecisionFrames
  <2> HIDE DEF n
  <2> QED BY <2>1, <2>2
<1>7. CASE loop.says = "complete"
  <2> DEFINE n == [state EXCEPT !.phase = "completed", !.lost = FALSE]
  <2>1. \/ Decidable(state) /\ CitesCurrent(state) /\ Wrote(n) /\ loop'.pc # "mark"
        \/ Wrote(state) /\ loop'.pc # "mark"
    BY <1>1, <1>3, <1>4, <1>7 DEF Apply, Mutate, Saved, Unsaved, Wrote, store
  <2>2. SameExecutions(n, state) /\ SameOwner(n, state) /\ n.phase = "completed"
    BY <1>1 DEF Task, SameExecutions, SameOwner
  <2> HIDE DEF n
  <2> QED BY <1>7, <2>1, <2>2 DEF SameExecutions
<1>8. CASE loop.says = "correct" /\ Exhausted(state)
  <2>1. Wrote(Waits(state)) /\ loop'.pc # "mark"
    BY <1>1, <1>3, <1>4, <1>8 DEF Apply, Mutate, Saved, Unsaved, Wrote, store
  <2> QED BY <1>2, <2>1 DEF SameExecutions
<1>9. CASE loop.says = "correct" /\ ~Exhausted(state)
  <2> DEFINE n == CorrectedTask(state)
  <2>1. \/ Decidable(state) /\ state' = n /\ disk' = n /\ loop' = Go("mark")
        \/ Decidable(state) /\ state' = state /\ disk' \in {disk, n} /\ loop'.pc = "giveUp"
        \/ Wrote(state) /\ loop'.pc # "mark"
    BY <1>1, <1>4, <1>9 DEF Apply, Mutate, Saved, Unsaved, Wrote, store
  <2>2. /\ n.works = state.works /\ n.proofs = state.proofs /\ n.inputs = state.inputs
        /\ n.delivery = state.delivery /\ SameOwner(n, state) /\ n.phase = "queued"
        /\ n.effect.status = "pending" /\ ~n.effect.write_started
    BY <1>1, DecisionFrames
  <2> HIDE DEF n
  <2> QED BY <1>4, <1>9, <2>1, <2>2 DEF Wrote
<1> QED BY <1>1, <1>5, <1>6, <1>7, <1>8, <1>9 DEF Run

\* What Crash writes, if it writes.
LEMMA CrashWrites ==
  ASSUME TypeOK, Crash
  PROVE  /\ state' = disk'
         /\ state'.works = disk.works /\ state'.proofs = disk.proofs
         /\ state'.inputs = disk.inputs /\ state'.delivery = disk.delivery
         /\ SameOwner(state', disk) /\ state'.phase = disk.phase
         /\ disk.effect.status # "pending" => state'.effect = disk.effect
         /\ disk.effect.status = "pending" /\ disk.effect.write_started =>
              state'.effect.status = "unknown"
<1>1. disk \in Task
  BY DEF TypeOK
<1>2. state' = Opened(disk) /\ disk' = Opened(disk)
  BY DEF Crash
<1>3. /\ Opened(disk).works = disk.works /\ Opened(disk).proofs = disk.proofs
      /\ Opened(disk).inputs = disk.inputs /\ Opened(disk).delivery = disk.delivery
      /\ SameOwner(Opened(disk), disk) /\ Opened(disk).phase = disk.phase
      /\ disk.effect.status # "pending" => Opened(disk) = disk
      /\ disk.effect.status = "pending" =>
           (disk.effect.write_started => Opened(disk).effect.status = "unknown")
  BY <1>1, EffectFrames
<1> QED BY <1>2, <1>3

\* What becomes of the run.
PCs == {"step", "giveUp", "wait", "reserve", "evaluate", "mark", "execute", "dispatch", "flush",
        "deliver"}

\* What Go, Settles and Leave put into the run.
LEMMA RunFrames ==
  ASSUME loop \in Run
  PROVE  /\ \A pc \in PCs : /\ Go(pc).pc = pc /\ Go(pc).fence = loop.fence
                               /\ Go(pc).revises = loop.revises /\ Go(pc).result = loop.result
         /\ \A r \in {"accepted", "failed", "unknown"} :
              /\ Settles(r).pc = "settle" /\ Settles(r).fence = loop.fence
              /\ Settles(r).result = r /\ Settles(r).revises = loop.revises
         /\ Idle.pc = "idle" /\ [Idle EXCEPT !.pc = "step"].pc = "step"
         /\ Idle.fence = <<0, 0>> /\ [Idle EXCEPT !.pc = "step"].fence = <<0, 0>>
         /\ Leave(loop).pc \in {"step", "idle"} /\ Leave(loop).fence = <<0, 0>>
         /\ \A b \in BOOLEAN, f \in Fence :
              /\ Leave([loop EXCEPT !.again = b, !.fence = f]).pc \in {"step", "idle"}
              /\ Leave([loop EXCEPT !.again = b, !.fence = f]).fence = <<0, 0>>
         /\ \A l \in {Wake, [loop EXCEPT !.again = TRUE]} :
              /\ l.pc = loop.pc \/ (loop.pc = "idle" /\ l.pc = "step")
              /\ l.fence = loop.fence /\ l.revises = loop.revises /\ l.result = loop.result
              /\ l.says = loop.says
<1>1. /\ \A pc \in PCs : /\ Go(pc).pc = pc /\ Go(pc).fence = loop.fence
                         /\ Go(pc).revises = loop.revises /\ Go(pc).result = loop.result
                         /\ Go(pc).says = loop.says
      /\ \A r \in {"accepted", "failed", "unknown"} :
           /\ Settles(r).pc = "settle" /\ Settles(r).fence = loop.fence
           /\ Settles(r).result = r /\ Settles(r).revises = loop.revises
  BY DEF Go, Settles, Run
<1>2. /\ Idle.pc = "idle" /\ [Idle EXCEPT !.pc = "step"].pc = "step"
      /\ Idle.fence = <<0, 0>> /\ [Idle EXCEPT !.pc = "step"].fence = <<0, 0>>
  BY DEF Idle
<1>3. \A l : Leave(l) \in {Idle, [Idle EXCEPT !.pc = "step"]}
  BY DEF Leave
<1>4. LET l == [loop EXCEPT !.again = TRUE]
      IN  /\ l.pc = loop.pc /\ l.fence = loop.fence /\ l.revises = loop.revises
          /\ l.result = loop.result /\ l.says = loop.says
  BY DEF Run
<1>5. \/ Wake = loop \/ Wake = [loop EXCEPT !.again = TRUE]
      \/ Wake = Go("step") /\ loop.pc = "idle"
  BY DEF Wake
<1>6. "step" \in PCs
  BY DEF PCs
<1>7. /\ Wake.pc = loop.pc \/ (loop.pc = "idle" /\ Wake.pc = "step")
      /\ Wake.fence = loop.fence /\ Wake.revises = loop.revises /\ Wake.result = loop.result
      /\ Wake.says = loop.says
  BY <1>1, <1>4, <1>5, <1>6
<1>8. /\ Leave(loop).pc \in {"step", "idle"} /\ Leave(loop).fence = <<0, 0>>
      /\ \A b \in BOOLEAN, f \in Fence :
         /\ Leave([loop EXCEPT !.again = b, !.fence = f]).pc \in {"step", "idle"}
         /\ Leave([loop EXCEPT !.again = b, !.fence = f]).fence = <<0, 0>>
  BY <1>2, <1>3
<1>9. \A l \in {Wake, [loop EXCEPT !.again = TRUE]} :
         /\ l.pc = loop.pc \/ (loop.pc = "idle" /\ l.pc = "step")
         /\ l.fence = loop.fence /\ l.revises = loop.revises /\ l.result = loop.result
         /\ l.says = loop.says
  BY <1>4, <1>7
<1> HIDE DEF PCs
<1> QED BY <1>1, <1>2, <1>8, <1>9

\* The run goes on as it was, starts, or is lost with the process.
SameRun ==
  \/ /\ loop'.pc = loop.pc /\ loop'.fence = loop.fence /\ loop'.result = loop.result
  \/ loop'.pc \in {"idle", "step"}

\* Nothing but the run itself moves it.
LEMMA OthersRun ==
  ASSUME TypeOK
  PROVE  /\ \A w \in Work, o \in {"known","unknown"} : WorkEnds(w, o) => SameRun
         /\ \A p \in Phase : ResourceState(p) => SameRun
         /\ Speak => SameRun
         /\ Withdraw => SameRun
         /\ Drop \/ Forget => SameRun
         /\ \A d \in Ending : ResponseEnds(d) => SameRun
         /\ RecordDelivery => SameRun
         /\ DeliveryInterrupted => SameRun
         /\ Takeover => SameRun
         /\ Return => SameRun
         /\ Continue => SameRun
         /\ ContinueBlocked => SameRun
         /\ Revise => SameRun
         /\ \A d \in BOOLEAN : Reconcile(d) => SameRun
         /\ Cancel => SameRun
         /\ \A i \in Input : InputBegin(i) => SameRun
         /\ \A w \in Work, r \in {"accepted","failed","unknown"} : InputAdmit(w, r) => SameRun
         /\ \A r \in {"failed","unknown"} : InputRefused(r) => SameRun
         /\ InputSettle => SameRun
         /\ Crash => SameRun
         /\ RecoverAgain => SameRun
         /\ \A u \in BOOLEAN : RecoverJudge(u) => SameRun
         /\ RecoverWrite => SameRun
<1> USE DEF SameRun
<1>t. loop \in Run
  BY DEF TypeOK
<1>w. SameRun \/ loop' # Wake
  BY <1>t DEF Wake, Go, Run
<1>a. SameRun \/ loop' # loop
  OBVIOUS
<1>1. \A w \in Work, o \in {"known","unknown"} : WorkEnds(w, o) => SameRun
  BY <1>a, <1>w DEF WorkEnds, Change, Saved, Unsaved, store
<1>2. \A p \in Phase : ResourceState(p) => SameRun
  BY <1>a, <1>w DEF ResourceState, Saved, store
<1>3. Speak => SameRun
  BY <1>a, <1>w DEF Speak, store
<1>4. Withdraw => SameRun
  BY <1>a, <1>w DEF Withdraw, Saved, Unsaved
<1>5. Drop \/ Forget => SameRun
  BY <1>a, <1>w DEF Drop, Forget, store
<1>6. \A d \in Ending : ResponseEnds(d) => SameRun
  BY <1>a, <1>w DEF ResponseEnds, Saved, Unsaved
<1>7. RecordDelivery => SameRun
  BY <1>a, <1>w DEF RecordDelivery, Change, Saved, Unsaved, store
<1>8. DeliveryInterrupted => SameRun
  BY <1>a, <1>w DEF DeliveryInterrupted, Change, Saved, Unsaved, store
<1>9. Takeover => SameRun
  BY <1>a, <1>w DEF Takeover, Change, Saved, Unsaved, store
<1>10. Return => SameRun
  BY <1>a, <1>w DEF Return, Change, Saved, Unsaved, store
<1>11. Continue => SameRun
  BY <1>a, <1>w DEF Continue, Change, Saved, Unsaved, store
<1>12. ContinueBlocked => SameRun
  BY <1>a, <1>w DEF ContinueBlocked, store
<1>13. Revise => SameRun
  BY <1>a, <1>w DEF Revise, Change, Saved, Unsaved, store
<1>14. \A d \in BOOLEAN : Reconcile(d) => SameRun
  BY <1>a, <1>w DEF Reconcile, Change, Saved, Unsaved, store
<1>15. Cancel => SameRun
  BY <1>a, <1>w DEF Cancel, Change, Saved, Unsaved, store
<1>16. \A i \in Input : InputBegin(i) => SameRun
  BY <1>a, <1>w DEF InputBegin, Saved, Unsaved, store
<1>17. \A w \in Work, r \in {"accepted","failed","unknown"} : InputAdmit(w, r) => SameRun
  BY <1>a, <1>w DEF InputAdmit, Saved, Unsaved, store
<1>18. \A r \in {"failed","unknown"} : InputRefused(r) => SameRun
  BY <1>a, <1>w DEF InputRefused, store
<1>19. InputSettle => SameRun
  BY <1>a, <1>w DEF InputSettle, Saved, Unsaved
<1>20. Crash => SameRun
  BY <1>a, <1>w DEF Crash, Idle
<1>21. RecoverAgain => SameRun
  BY <1>a, <1>w DEF RecoverAgain, store
<1>22. \A u \in BOOLEAN : RecoverJudge(u) => SameRun
  BY <1>a, <1>w, <1>t DEF RecoverJudge, RecoveryEnds, store, Go, Run
<1>23. RecoverWrite => SameRun
  BY <1>a, <1>w, <1>t DEF RecoverWrite, RecoveryEnds, Saved, Unsaved, Go, Run
<1> QED BY <1>1, <1>2, <1>3, <1>4, <1>5, <1>6, <1>7, <1>8, <1>9, <1>10, <1>11,
       <1>12, <1>13, <1>14, <1>15, <1>16, <1>17, <1>18, <1>19, <1>20, <1>21, <1>22,
       <1>23

\* Steps that change no execution and no report of one.
Bookkeeping ==
  \/ Step \/ GiveUp \/ WaitUnknown \/ (\E p \in Phase : ResourceState(p))
  \/ Takeover \/ Return \/ Continue \/ ContinueBlocked \/ Revise \/ Cancel
  \/ RecoverAgain \/ (\E u \in BOOLEAN : RecoverJudge(u)) \/ RecoverWrite

\* What the steps that touch no execution leave alone.
LEMMA BookkeepingWrites ==
  ASSUME TypeOK, Bookkeeping
  PROVE  /\ \E n : Wrote(n) /\ SameExecutions(n, state)
         /\ UNCHANGED <<running, reply, sending, out, attested>> /\ host'.live = host.live
         /\ SameRun \/ loop'.pc \in {"wait", "reserve", "evaluate", "giveUp"}
<1> DEFINE Goal1 == \E n : Wrote(n) /\ SameExecutions(n, state)
           Rest == UNCHANGED <<running, reply, sending, out, attested>> /\ host'.live = host.live
           Loops == SameRun \/ loop'.pc \in {"wait", "reserve", "evaluate", "giveUp"}
<1>t. loop \in Run /\ host \in Host
  BY DEF TypeOK
<1>s. SameExecutions(state, state) /\ (UNCHANGED store => Wrote(state))
  BY DEF SameExecutions, Wrote, store
<1>h. /\ \A r : [host EXCEPT !.recovery = r].live = host.live
      /\ \A r, b : [host EXCEPT !.recovery = r, !.blocked = b].live = host.live
  BY <1>t DEF Host
<1>1. ASSUME Step
      PROVE  Goal1 /\ Rest /\ Loops
  <2>2. UNCHANGED store
    BY <1>1 DEF Step
  <2>4. Rest
    BY <1>h, <1>1 DEF Step
  <2>5. Loops
    BY <1>t, <1>1 DEF Step, Leave, Idle, SameRun, Run
  <2> QED BY <1>s, <2>2, <2>4, <2>5
<1>2. ASSUME GiveUp
      PROVE  Goal1 /\ Rest /\ Loops
  <2>1. PICK n : Wrote(n) /\ GiveUpRecord(n)
    BY TypeOK, <1>2, GiveUpWrites
  <2>2. Goal1
    BY <2>1 DEF GiveUpRecord
  <2>4. Rest
    BY <1>h, <1>2 DEF GiveUp
  <2>5. Loops
    BY <1>t, <1>2 DEF GiveUp, Mutate, Leave, Idle, Go, SameRun, Run
  <2> QED BY <1>s, <2>2, <2>4, <2>5
<1>3. ASSUME WaitUnknown
      PROVE  Goal1 /\ Rest /\ Loops
  <2>1. PICK n : Wrote(n) /\ WaitUnknownRecord(n)
    BY TypeOK, <1>3, WaitUnknownWrites
  <2>2. Goal1
    BY <2>1 DEF WaitUnknownRecord
  <2>4. Rest
    BY <1>h, <1>3 DEF WaitUnknown
  <2>5. Loops
    BY <1>t, <1>3 DEF WaitUnknown, Mutate, Leave, Idle, Go, SameRun, Run
  <2> QED BY <1>s, <2>2, <2>4, <2>5
<1>4. ASSUME NEW p \in Phase, ResourceState(p)
      PROVE  Goal1 /\ Rest /\ Loops
  <2>1. PICK n : Wrote(n) /\ ResourceStateRecord(n, p)
    BY TypeOK, <1>4, ResourceStateWrites
  <2>2. Goal1
    BY <2>1 DEF ResourceStateRecord
  <2>4. Rest
    BY <1>h, <1>4 DEF ResourceState
  <2>5. Loops
    BY TypeOK, <1>4, OthersRun
  <2> QED BY <1>s, <2>2, <2>4, <2>5
<1>5. ASSUME Takeover
      PROVE  Goal1 /\ Rest /\ Loops
  <2>1. PICK n : Wrote(n) /\ TakeoverRecord(n)
    BY TypeOK, <1>5, TakeoverWrites
  <2>2. Goal1
    BY <2>1 DEF TakeoverRecord
  <2>4. Rest
    BY <1>h, <1>5 DEF Takeover
  <2>5. Loops
    BY TypeOK, <1>5, OthersRun
  <2> QED BY <1>s, <2>2, <2>4, <2>5
<1>6. ASSUME Return
      PROVE  Goal1 /\ Rest /\ Loops
  <2>1. PICK n : Wrote(n) /\ ReturnRecord(n)
    BY TypeOK, <1>6, ReturnWrites
  <2>2. Goal1
    BY <2>1 DEF ReturnRecord
  <2>4. Rest
    BY <1>h, <1>6 DEF Return
  <2>5. Loops
    BY TypeOK, <1>6, OthersRun
  <2> QED BY <1>s, <2>2, <2>4, <2>5
<1>7. ASSUME Continue
      PROVE  Goal1 /\ Rest /\ Loops
  <2>1. PICK n : Wrote(n) /\ ContinueRecord(n)
    BY TypeOK, <1>7, ContinueWrites
  <2>2. Goal1
    BY <2>1 DEF ContinueRecord
  <2>4. Rest
    BY <1>h, <1>7 DEF Continue
  <2>5. Loops
    BY TypeOK, <1>7, OthersRun
  <2> QED BY <1>s, <2>2, <2>4, <2>5
<1>8. ASSUME ContinueBlocked
      PROVE  Goal1 /\ Rest /\ Loops
  <2>2. UNCHANGED store
    BY <1>8 DEF ContinueBlocked
  <2>4. Rest
    BY <1>h, <1>8 DEF ContinueBlocked
  <2>5. Loops
    BY TypeOK, <1>8, OthersRun
  <2> QED BY <1>s, <2>2, <2>4, <2>5
<1>9. ASSUME Revise
      PROVE  Goal1 /\ Rest /\ Loops
  <2>1. PICK n : Wrote(n) /\ ReviseRecord(n)
    BY TypeOK, <1>9, ReviseWrites
  <2>2. Goal1
    BY <2>1 DEF ReviseRecord
  <2>4. Rest
    BY <1>h, <1>9 DEF Revise
  <2>5. Loops
    BY TypeOK, <1>9, OthersRun
  <2> QED BY <1>s, <2>2, <2>4, <2>5
<1>10. ASSUME Cancel
      PROVE  Goal1 /\ Rest /\ Loops
  <2>1. PICK n : Wrote(n) /\ CancelRecord(n)
    BY TypeOK, <1>10, CancelWrites
  <2>2. Goal1
    BY <2>1 DEF CancelRecord
  <2>4. Rest
    BY <1>h, <1>10 DEF Cancel
  <2>5. Loops
    BY TypeOK, <1>10, OthersRun
  <2> QED BY <1>s, <2>2, <2>4, <2>5
<1>11. ASSUME RecoverAgain
      PROVE  Goal1 /\ Rest /\ Loops
  <2>2. UNCHANGED store
    BY <1>11 DEF RecoverAgain
  <2>4. Rest
    BY <1>h, <1>11 DEF RecoverAgain
  <2>5. Loops
    BY TypeOK, <1>11, OthersRun
  <2> QED BY <1>s, <2>2, <2>4, <2>5
<1>12. ASSUME NEW u \in BOOLEAN, RecoverJudge(u)
      PROVE  Goal1 /\ Rest /\ Loops
  <2>2. UNCHANGED store
    BY <1>12 DEF RecoverJudge
  <2>3. PICK r \in {"none", "clear", "delivery", "reason"}, b \in BOOLEAN :
          host' = [host EXCEPT !.recovery = r, !.blocked = b]
    BY <1>t, <1>12 DEF RecoverJudge, RecoveryEnds, Host
  <2>4. Rest
    BY <1>h, <2>3, <1>12 DEF RecoverJudge
  <2>5. Loops
    BY TypeOK, <1>12, OthersRun
  <2> QED BY <1>s, <2>2, <2>4, <2>5
<1>13. ASSUME RecoverWrite
      PROVE  Goal1 /\ Rest /\ Loops
  <2>1. PICK n : Wrote(n) /\ RecoverWriteRecord(n)
    BY TypeOK, <1>13, RecoverWriteWrites
  <2>2. Goal1
    BY <2>1 DEF RecoverWriteRecord
  <2>3. host'.live = host.live
    BY <1>t, <1>13 DEF RecoverWrite, RecoveryEnds, Host
  <2>4. Rest
    BY <2>3, <1>13 DEF RecoverWrite
  <2>5. Loops
    BY TypeOK, <1>13, OthersRun
  <2> QED BY <1>s, <2>2, <2>4, <2>5
<1> QED BY <1>1, <1>2, <1>3, <1>4, <1>5, <1>6, <1>7, <1>8, <1>9, <1>10, <1>11,
       <1>12, <1>13 DEF Bookkeeping

\* A work that runs is bound.
LEMMA RunningTyped ==
  ASSUME TypeOK, FenceAgrees, Next
  PROVE  (running \subseteq Works(state))'
<1> USE DEF Works, SameExecutions
<1>r. running \subseteq Works(state)
  BY DEF TypeOK
<1>1. CASE Bookkeeping
  <2>1. PICK n : Wrote(n) /\ SameExecutions(n, state)
    BY TypeOK, <1>1, BookkeepingWrites
  <2>2. UNCHANGED <<running, reply, sending, out, attested>> /\ host'.live = host.live
    BY TypeOK, <1>1, BookkeepingWrites
  <2> QED BY <1>r, <2>1, <2>2 DEF Wrote
<1>2. CASE ReserveInitial
  <2>1. PICK n : Wrote(n) /\ ReserveInitialRecord(n)
    BY TypeOK, <1>2, ReserveInitialWrites
  <2> QED BY <1>r, <2>1, <1>2
      DEF Wrote, ReserveInitialRecord, ReserveInitial, Mutate, Saved, Unsaved
<1>3. ASSUME NEW d \in Decisions, NEW cites \in SUBSET evidence(state), NEW r \in BOOLEAN, r => state.fence[2] < MaxGoals, Evaluate(d, cites, r)
      PROVE  (running \subseteq Works(state))'
  BY <1>r, <1>3
    DEF Evaluate, store
<1>4. CASE EvaluateFails
  BY <1>r, <1>4
    DEF EvaluateFails, store
<1>5. CASE Apply
  <2>1. PICK n : Wrote(n) /\ ApplyRecord(n)
    BY TypeOK, FenceAgrees, <1>5, ApplyWrites
  <2> QED BY <1>r, <2>1, <1>5
      DEF Wrote, ApplyRecord, Apply, Mutate, Saved, Unsaved
<1>6. CASE MarkEffectDispatching
  <2>1. PICK n : Wrote(n) /\ MarkEffectDispatchingRecord(n)
    BY TypeOK, <1>6, MarkEffectDispatchingWrites
  <2> QED BY <1>r, <2>1, <1>6
      DEF Wrote, MarkEffectDispatchingRecord, MarkEffectDispatching, Mutate, Saved,
          Unsaved
<1>7. CASE Execute
  BY <1>r, <1>7
    DEF Execute, store
<1>8. ASSUME NEW w \in Work, BindWork(w)
      PROVE  (running \subseteq Works(state))'
  <2>1. PICK n : Wrote(n) /\ BindWorkRecord(n, w)
    BY TypeOK, <1>8, BindWorkWrites
  <2> QED BY <1>r, <2>1, <1>8
      DEF Wrote, BindWorkRecord, BindWork, Mutate, Saved, Unsaved
<1>9. CASE Refuse
  BY <1>r, <1>9
    DEF Refuse, store
<1>10. CASE Flush
  BY <1>r, <1>10
    DEF Flush, store
<1>11. CASE BeginDelivery
  <2>1. PICK n : Wrote(n) /\ BeginDeliveryRecord(n)
    BY TypeOK, <1>11, BeginDeliveryWrites
  <2> QED BY <1>r, <2>1, <1>11
      DEF Wrote, BeginDeliveryRecord, BeginDelivery, Mutate, Saved, Unsaved
<1>12. CASE Deliver
  <2>1. PICK n : Wrote(n) /\ DeliverRecord(n)
    BY TypeOK, <1>12, DeliverWrites
  <2> QED BY <1>r, <2>1, <1>12
      DEF Wrote, DeliverRecord, Deliver, Mutate, Saved, Unsaved, NoReply
<1>13. CASE SettleEffect
  <2>1. PICK n : Wrote(n) /\ SettleEffectRecord(n)
    BY TypeOK, <1>13, SettleEffectWrites
  <2> QED BY <1>r, <2>1, <1>13
      DEF Wrote, SettleEffectRecord, SettleEffect, Mutate, Saved, Unsaved
<1>14. ASSUME NEW w \in Work, NEW o \in {"known","unknown"}, WorkEnds(w, o)
      PROVE  (running \subseteq Works(state))'
  <2>1. PICK n : Wrote(n) /\ WorkEndsRecord(n, w, o)
    BY TypeOK, <1>14, WorkEndsWrites
  <2> QED BY <1>r, <2>1, <1>14
      DEF Wrote, WorkEndsRecord, WorkEnds, Change, Saved, Unsaved
<1>15. CASE Speak
  BY <1>r, <1>15
    DEF Speak, store
<1>16. CASE Withdraw
  <2>1. PICK n : Wrote(n) /\ WithdrawRecord(n)
    BY TypeOK, <1>16, WithdrawWrites
  <2> QED BY <1>r, <2>1, <1>16
      DEF Wrote, WithdrawRecord, Withdraw, Saved, Unsaved, NoReply
<1>17. CASE Drop \/ Forget
  BY <1>r, <1>17
    DEF Drop, Forget, NoReply, store
<1>18. ASSUME NEW d \in Ending, ResponseEnds(d)
      PROVE  (running \subseteq Works(state))'
  <2>1. PICK n : Wrote(n) /\ ResponseEndsRecord(n, d)
    BY TypeOK, <1>18, ResponseEndsWrites
  <2> QED BY <1>r, <2>1, <1>18
      DEF Wrote, ResponseEndsRecord, ResponseEnds, Saved, Unsaved, NoReply
<1>19. CASE RecordDelivery
  <2>1. PICK n : Wrote(n) /\ RecordDeliveryRecord(n)
    BY TypeOK, <1>19, RecordDeliveryWrites
  <2> QED BY <1>r, <2>1, <1>19
      DEF Wrote, RecordDeliveryRecord, RecordDelivery, Change, Saved, Unsaved,
          NoReply
<1>20. CASE DeliveryInterrupted
  <2>1. PICK n : Wrote(n) /\ DeliveryInterruptedRecord(n)
    BY TypeOK, <1>20, DeliveryInterruptedWrites
  <2> QED BY <1>r, <2>1, <1>20
      DEF Wrote, DeliveryInterruptedRecord, DeliveryInterrupted, Change, Saved,
          Unsaved, NoReply
<1>21. ASSUME NEW d \in BOOLEAN, Reconcile(d)
      PROVE  (running \subseteq Works(state))'
  <2>1. PICK n : Wrote(n) /\ ReconcileRecord(n, d)
    BY TypeOK, <1>21, ReconcileWrites
  <2> QED BY <1>r, <2>1, <1>21
      DEF Wrote, ReconcileRecord, Reconcile, Change, Saved, Unsaved
<1>22. ASSUME NEW i \in Input, InputBegin(i)
      PROVE  (running \subseteq Works(state))'
  <2>1. PICK n : Wrote(n) /\ InputBeginRecord(n, i)
    BY TypeOK, <1>22, InputBeginWrites
  <2> QED BY <1>r, <2>1, <1>22
      DEF Wrote, InputBeginRecord, InputBegin, Saved, Unsaved
<1>23. ASSUME NEW w \in Work, NEW r \in {"accepted","failed","unknown"}, InputAdmit(w, r)
      PROVE  (running \subseteq Works(state))'
  <2>1. PICK n : Wrote(n) /\ InputAdmitRecord(n, w, r)
    BY TypeOK, <1>23, InputAdmitWrites
  <2> QED BY <1>r, <2>1, <1>23
      DEF Wrote, InputAdmitRecord, InputAdmit, Saved, Unsaved
<1>24. ASSUME NEW r \in {"failed","unknown"}, InputRefused(r)
      PROVE  (running \subseteq Works(state))'
  BY <1>r, <1>24
    DEF InputRefused, store
<1>25. CASE InputSettle
  <2>1. PICK n : Wrote(n) /\ InputSettleRecord(n)
    BY TypeOK, <1>25, InputSettleWrites
  <2> QED BY <1>r, <2>1, <1>25
      DEF Wrote, InputSettleRecord, InputSettle, Saved, Unsaved, NoSend
<1>26. CASE Crash
  BY TypeOK, <1>r, CrashWrites, <1>26
    DEF Crash, NoReply, NoSend
<1> QED BY <1>1, <1>2, <1>3, <1>4, <1>5, <1>6, <1>7, <1>8, <1>9, <1>10, <1>11,
       <1>12, <1>13, <1>14, <1>15, <1>16, <1>17, <1>18, <1>19, <1>20, <1>21, <1>22,
       <1>23, <1>24, <1>25, <1>26
      DEF Next, Bookkeeping, TaskStep, Reports, Recovery, User

\* What may be under way stays on record.
LEMMA OutKept ==
  ASSUME TypeOK, FenceAgrees, SendingAgrees, EffectAgrees, OutAgrees, Next
  PROVE  OutAgrees'
<1> USE DEF OutAgrees, OnRecord, Records, Unsettled, SameExecutions
<1>t. /\ state \in Task /\ disk \in Task /\ loop \in Run /\ sending \in Sending /\ reply \in Reply
      /\ out \in [call : BOOLEAN, reply : BOOLEAN, input : BOOLEAN, works : SUBSET Work]
  BY DEF TypeOK
<1>o. /\ out.call \in BOOLEAN /\ out.reply \in BOOLEAN /\ out.input \in BOOLEAN
      /\ out.works \subseteq Work
      /\ \A b \in BOOLEAN : /\ [out EXCEPT !.call = b] = [call |-> b, reply |-> out.reply,
                                                          input |-> out.input, works |-> out.works]
                            /\ [out EXCEPT !.reply = b] = [call |-> out.call, reply |-> b,
                                                           input |-> out.input, works |-> out.works]
  BY <1>t
<1>1. CASE Bookkeeping
  <2>1. PICK n : Wrote(n) /\ SameExecutions(n, state)
    BY TypeOK, <1>1, BookkeepingWrites
  <2>2. UNCHANGED <<running, reply, sending, out, attested>> /\ host'.live = host.live
    BY TypeOK, <1>1, BookkeepingWrites
  <2> QED BY <2>1, <2>2 DEF Wrote
<1>2. CASE ReserveInitial
  <2>1. PICK n : Wrote(n) /\ ReserveInitialRecord(n)
    BY TypeOK, <1>2, ReserveInitialWrites
  <2> USE DEF ReserveInitialRecord
  <2>2. Reservable(state) => ~out.call
    BY DEF Reservable, pendingEffect
  <2>3. ~Reservable(state) => UNCHANGED store
    BY <1>2 DEF ReserveInitial, Mutate
  <2>4. UNCHANGED <<out, sending>>
    BY <1>2 DEF ReserveInitial
  <2> QED BY <2>1, <2>2, <2>3, <2>4 DEF Wrote, store
<1>3. ASSUME NEW d \in Decisions, NEW cites \in SUBSET evidence(state), NEW r \in BOOLEAN, r => state.fence[2] < MaxGoals, Evaluate(d, cites, r)
      PROVE  OutAgrees'
  BY <1>o, <1>3
    DEF Evaluate, store
<1>4. CASE EvaluateFails
  BY <1>o, <1>4
    DEF EvaluateFails, store
<1>5. CASE Apply
  <2>1. PICK n : Wrote(n) /\ ApplyRecord(n)
    BY TypeOK, FenceAgrees, <1>5, ApplyWrites
  <2> QED BY <1>o, <2>1, <1>5
      DEF Wrote, ApplyRecord, Apply, Mutate, Saved, Unsaved, Decidable,
          pendingEffect
<1>6. CASE MarkEffectDispatching
  <2>1. PICK n : Wrote(n) /\ MarkEffectDispatchingRecord(n)
    BY TypeOK, <1>6, MarkEffectDispatchingWrites
  <2> QED BY <1>o, <2>1, <1>6
      DEF Wrote, MarkEffectDispatchingRecord, MarkEffectDispatching, Mutate, Saved,
          Unsaved
<1>7. CASE Execute
  <2>1. out' = [out EXCEPT !.call = TRUE] => out'.call /\ out'.reply = out.reply
          /\ out'.input = out.input /\ out'.works = out.works
    BY <1>t
  <2>2. \A t \in {state, disk} : t.effect.status = "pending" /\ t.effect.write_started
    BY <1>7 DEF Execute, EffectAgrees
  <2>3. UNCHANGED <<store, sending>> /\ (out' = out \/ out' = [out EXCEPT !.call = TRUE])
    BY <1>7 DEF Execute
  <2> QED BY <2>1, <2>2, <2>3 DEF store
<1>8. ASSUME NEW w \in Work, BindWork(w)
      PROVE  OutAgrees'
  <2>1. PICK n : Wrote(n) /\ BindWorkRecord(n, w)
    BY TypeOK, <1>8, BindWorkWrites
  <2> USE DEF BindWorkRecord
  <2>2. UNCHANGED sending
    BY <1>8 DEF BindWork
  <2>3. CASE state' = state /\ UNCHANGED <<running, out>>
    BY <1>o, <2>1, <2>2, <2>3 DEF Wrote, Works
  <2>4. CASE state' = n /\ disk' = n /\ out' = [out EXCEPT !.works = @ \cup {w}]
    <3>1. /\ out'.works = out.works \cup {w} /\ out'.call = out.call /\ out'.reply = out.reply
          /\ out'.input = out.input
      BY <1>t, <2>4
    <3> QED BY <1>o, <2>1, <2>2, <2>4, <3>1
  <2> QED BY <2>1, <2>3, <2>4
<1>9. CASE Refuse
  BY <1>o, <1>9
    DEF Refuse, store
<1>10. CASE Flush
  <2>1. UNCHANGED <<store, sending>> /\ (out' = out \/ out' = [out EXCEPT !.call = FALSE])
    BY <1>10 DEF Flush
  <2>2. (out'.call => out.call) /\ out'.reply = out.reply /\ out'.input = out.input
        /\ out'.works = out.works
    BY <1>o, <2>1
  <2> QED BY <2>1, <2>2 DEF store
<1>11. CASE BeginDelivery
  <2>1. PICK n : Wrote(n) /\ BeginDeliveryRecord(n)
    BY TypeOK, <1>11, BeginDeliveryWrites
  <2> QED BY <1>o, <2>1, <1>11
      DEF Wrote, BeginDeliveryRecord, BeginDelivery, Mutate, Saved, Unsaved
<1>12. CASE Deliver
  <2>1. PICK n : Wrote(n) /\ DeliverRecord(n)
    BY TypeOK, <1>12, DeliverWrites
  <2> USE DEF DeliverRecord
  <2>2. loop.pc = "deliver" /\ UNCHANGED sending
    BY <1>12 DEF Deliver
  <2>3. ~out.reply /\ \A t \in {state, disk} : t.delivery
    BY <2>2 DEF EffectAgrees
  <2>4. CASE out' = [out EXCEPT !.call = FALSE, !.reply = TRUE] /\ UNCHANGED store
    <3>1. ~out'.call /\ out'.reply /\ out'.input = out.input /\ out'.works = out.works
      BY <1>t, <2>4
    <3> QED BY <2>2, <2>3, <2>4, <3>1 DEF store
  <2>5. CASE out' = [out EXCEPT !.call = FALSE]
    <3>1. ~out'.call /\ out'.reply = out.reply /\ out'.input = out.input /\ out'.works = out.works
      BY <1>t, <2>5
    <3> QED BY <2>1, <2>2, <2>3, <3>1 DEF Wrote
  <2> QED BY <2>4, <2>5, <1>12 DEF Deliver
<1>13. CASE SettleEffect
  <2>1. PICK n : Wrote(n) /\ SettleEffectRecord(n)
    BY TypeOK, <1>13, SettleEffectWrites
  <2> QED BY <1>o, <2>1, <1>13
      DEF Wrote, SettleEffectRecord, SettleEffect, Mutate, Saved, Unsaved,
          EffectAgrees
<1>14. ASSUME NEW w \in Work, NEW o \in {"known","unknown"}, WorkEnds(w, o)
      PROVE  OutAgrees'
  <2>1. PICK n : Wrote(n) /\ WorkEndsRecord(n, w, o)
    BY TypeOK, <1>14, WorkEndsWrites
  <2> QED BY <1>o, <2>1, <1>14
      DEF Wrote, WorkEndsRecord, WorkEnds, Change, Saved, Unsaved
<1>15. CASE Speak
  BY <1>o, <1>15
    DEF Speak, store
<1>16. CASE Withdraw
  <2>1. PICK n : Wrote(n) /\ WithdrawRecord(n)
    BY TypeOK, <1>16, WithdrawWrites
  <2> QED BY <1>o, <2>1, <1>16
      DEF Wrote, WithdrawRecord, Withdraw, Saved, Unsaved, NoReply
<1>17. CASE Drop \/ Forget
  <2>1. /\ out'.call = out.call /\ out'.works = out.works /\ out'.input = out.input
        /\ out'.reply => out.reply
    BY <1>o, <1>17 DEF Drop, Forget
  <2>2. UNCHANGED <<state, disk, sending>>
    BY <1>17 DEF Drop, Forget, store
  <2>3. ASSUME NEW t \in Records, OnRecord(t)
        PROVE  OnRecord(t)'
    BY <2>1, <2>2, <2>3
  <2> QED BY <2>2, <2>3
<1>18. ASSUME NEW d \in Ending, ResponseEnds(d)
      PROVE  OutAgrees'
  <2>1. PICK n : Wrote(n) /\ ResponseEndsRecord(n, d)
    BY TypeOK, <1>18, ResponseEndsWrites
  <2> QED BY <1>o, <2>1, <1>18
      DEF Wrote, ResponseEndsRecord, ResponseEnds, Saved, Unsaved, NoReply
<1>19. CASE RecordDelivery
  <2>1. PICK n : Wrote(n) /\ RecordDeliveryRecord(n)
    BY TypeOK, <1>19, RecordDeliveryWrites
  <2> QED BY <1>o, <2>1, <1>19
      DEF Wrote, RecordDeliveryRecord, RecordDelivery, Change, Saved, Unsaved,
          NoReply
<1>20. CASE DeliveryInterrupted
  <2>1. PICK n : Wrote(n) /\ DeliveryInterruptedRecord(n)
    BY TypeOK, <1>20, DeliveryInterruptedWrites
  <2> QED BY <1>o, <2>1, <1>20
      DEF Wrote, DeliveryInterruptedRecord, DeliveryInterrupted, Change, Saved,
          Unsaved, NoReply
<1>21. ASSUME NEW d \in BOOLEAN, Reconcile(d)
      PROVE  OutAgrees'
  <2>1. PICK n : Wrote(n) /\ ReconcileRecord(n, d)
    BY TypeOK, <1>21, ReconcileWrites
  <2> QED BY <1>o, <2>1, <1>21
      DEF Wrote, ReconcileRecord, Reconcile, Change, Saved, Unsaved, NoneOut
<1>22. ASSUME NEW i \in Input, InputBegin(i)
      PROVE  OutAgrees'
  <2>1. PICK n : Wrote(n) /\ InputBeginRecord(n, i)
    BY TypeOK, <1>22, InputBeginWrites
  <2> QED BY <1>o, <2>1, <1>22
      DEF Wrote, InputBeginRecord, InputBegin, Saved, Unsaved
<1>23. ASSUME NEW w \in Work, NEW r \in {"accepted","failed","unknown"}, InputAdmit(w, r)
      PROVE  OutAgrees'
  <2>1. PICK n : Wrote(n) /\ InputAdmitRecord(n, w, r)
    BY TypeOK, <1>23, InputAdmitWrites
  <2> USE DEF InputAdmitRecord
  <2>2. sending.pc = "admit" /\ state.inputs[sending.input] = "unknown" /\ sending.input \in Input
    BY <1>t, Bounds, <1>23 DEF InputAdmit, SendingAgrees, TypeOK, Sending
  <2>3. \A x \in {"accepted", "failed", "unknown"} :
           /\ [sending EXCEPT !.pc = x].pc = x /\ [sending EXCEPT !.pc = x].input = sending.input
    BY <1>t DEF Sending
  <2>4. CASE /\ state' = n /\ disk' = n /\ sending' = [sending EXCEPT !.pc = r]
             /\ out' = [out EXCEPT !.works = @ \cup {w}, !.input = @ \/ r = "unknown"]
    <3>1. /\ out'.works = out.works \cup {w} /\ out'.call = out.call /\ out'.reply = out.reply
          /\ out'.input <=> out.input \/ r = "unknown"
      BY <1>t, <2>4
    <3>2. n.inputs[sending.input] = "unknown"
      BY <2>1, <2>2
    <3> QED BY <1>o, <2>1, <2>2, <2>3, <2>4, <3>1, <3>2
  <2>5. CASE state' = state /\ UNCHANGED out /\ sending' = [sending EXCEPT !.pc = "unknown"]
    BY <1>o, <2>1, <2>2, <2>3, <2>5 DEF Wrote, Works
  <2> QED BY <2>1, <2>4, <2>5
<1>24. ASSUME NEW r \in {"failed","unknown"}, InputRefused(r)
      PROVE  OutAgrees'
  BY <1>o, <1>24
    DEF InputRefused, store
<1>25. CASE InputSettle
  <2>1. PICK n : Wrote(n) /\ InputSettleRecord(n)
    BY TypeOK, <1>25, InputSettleWrites
  <2> QED BY <1>o, <2>1, <1>25
      DEF Wrote, InputSettleRecord, InputSettle, Saved, Unsaved, NoSend
<1>26. CASE Crash
  BY TypeOK, <1>o, CrashWrites, <1>26
    DEF Crash, NoReply, NoSend
<1> QED BY <1>1, <1>2, <1>3, <1>4, <1>5, <1>6, <1>7, <1>8, <1>9, <1>10, <1>11,
       <1>12, <1>13, <1>14, <1>15, <1>16, <1>17, <1>18, <1>19, <1>20, <1>21, <1>22,
       <1>23, <1>24, <1>25, <1>26
      DEF Next, Bookkeeping, TaskStep, Reports, Recovery, User

\* A message on its way stays of unknown fate.
LEMMA SendingKept ==
  ASSUME TypeOK, FenceAgrees, SendingAgrees, Next
  PROVE  SendingAgrees'
<1> USE DEF SendingAgrees, SameExecutions
<1>t. /\ state \in Task /\ loop \in Run /\ sending \in Sending /\ reply \in Reply /\ host \in Host
      /\ sending.pc # "none" => sending.input \in Input
  BY Bounds DEF TypeOK, Sending
<1>s. \A x \in {"accepted", "failed", "unknown"} :
        /\ [sending EXCEPT !.pc = x].pc = x /\ [sending EXCEPT !.pc = x].input = sending.input
  BY <1>t DEF Sending
<1>1. CASE Bookkeeping
  <2>1. PICK n : Wrote(n) /\ SameExecutions(n, state)
    BY TypeOK, <1>1, BookkeepingWrites
  <2>2. UNCHANGED <<running, reply, sending, out, attested>> /\ host'.live = host.live
    BY TypeOK, <1>1, BookkeepingWrites
  <2> QED BY <2>1, <2>2 DEF Wrote
<1>2. CASE ReserveInitial
  <2>1. PICK n : Wrote(n) /\ ReserveInitialRecord(n)
    BY TypeOK, <1>2, ReserveInitialWrites
  <2> QED BY <1>t, <1>s, <2>1, <1>2
      DEF Wrote, ReserveInitialRecord, ReserveInitial, Mutate, Saved, Unsaved
<1>3. ASSUME NEW d \in Decisions, NEW cites \in SUBSET evidence(state), NEW r \in BOOLEAN, r => state.fence[2] < MaxGoals, Evaluate(d, cites, r)
      PROVE  SendingAgrees'
  BY <1>t, <1>s, <1>3
    DEF Evaluate, store
<1>4. CASE EvaluateFails
  BY <1>t, <1>s, <1>4
    DEF EvaluateFails, store
<1>5. CASE Apply
  <2>1. PICK n : Wrote(n) /\ ApplyRecord(n)
    BY TypeOK, FenceAgrees, <1>5, ApplyWrites
  <2> QED BY <1>t, <1>s, <2>1, <1>5
      DEF Wrote, ApplyRecord, Apply, Mutate, Saved, Unsaved
<1>6. CASE MarkEffectDispatching
  <2>1. PICK n : Wrote(n) /\ MarkEffectDispatchingRecord(n)
    BY TypeOK, <1>6, MarkEffectDispatchingWrites
  <2> QED BY <1>t, <1>s, <2>1, <1>6
      DEF Wrote, MarkEffectDispatchingRecord, MarkEffectDispatching, Mutate, Saved,
          Unsaved
<1>7. CASE Execute
  BY <1>t, <1>s, <1>7
    DEF Execute, store
<1>8. ASSUME NEW w \in Work, BindWork(w)
      PROVE  SendingAgrees'
  <2>1. PICK n : Wrote(n) /\ BindWorkRecord(n, w)
    BY TypeOK, <1>8, BindWorkWrites
  <2> QED BY <1>t, <1>s, <2>1, <1>8
      DEF Wrote, BindWorkRecord, BindWork, Mutate, Saved, Unsaved
<1>9. CASE Refuse
  BY <1>t, <1>s, <1>9
    DEF Refuse, store
<1>10. CASE Flush
  BY <1>t, <1>s, <1>10
    DEF Flush, store
<1>11. CASE BeginDelivery
  <2>1. PICK n : Wrote(n) /\ BeginDeliveryRecord(n)
    BY TypeOK, <1>11, BeginDeliveryWrites
  <2> QED BY <1>t, <1>s, <2>1, <1>11
      DEF Wrote, BeginDeliveryRecord, BeginDelivery, Mutate, Saved, Unsaved
<1>12. CASE Deliver
  <2>1. PICK n : Wrote(n) /\ DeliverRecord(n)
    BY TypeOK, <1>12, DeliverWrites
  <2> QED BY <1>t, <1>s, <2>1, <1>12
      DEF Wrote, DeliverRecord, Deliver, Mutate, Saved, Unsaved, NoReply
<1>13. CASE SettleEffect
  <2>1. PICK n : Wrote(n) /\ SettleEffectRecord(n)
    BY TypeOK, <1>13, SettleEffectWrites
  <2> QED BY <1>t, <1>s, <2>1, <1>13
      DEF Wrote, SettleEffectRecord, SettleEffect, Mutate, Saved, Unsaved
<1>14. ASSUME NEW w \in Work, NEW o \in {"known","unknown"}, WorkEnds(w, o)
      PROVE  SendingAgrees'
  <2>1. PICK n : Wrote(n) /\ WorkEndsRecord(n, w, o)
    BY TypeOK, <1>14, WorkEndsWrites
  <2> QED BY <1>t, <1>s, <2>1, <1>14
      DEF Wrote, WorkEndsRecord, WorkEnds, Change, Saved, Unsaved
<1>15. CASE Speak
  BY <1>t, <1>s, <1>15
    DEF Speak, store
<1>16. CASE Withdraw
  <2>1. PICK n : Wrote(n) /\ WithdrawRecord(n)
    BY TypeOK, <1>16, WithdrawWrites
  <2> QED BY <1>t, <1>s, <2>1, <1>16
      DEF Wrote, WithdrawRecord, Withdraw, Saved, Unsaved, NoReply
<1>17. CASE Drop \/ Forget
  BY <1>t, <1>s, <1>17
    DEF Drop, Forget, NoReply, store
<1>18. ASSUME NEW d \in Ending, ResponseEnds(d)
      PROVE  SendingAgrees'
  <2>1. PICK n : Wrote(n) /\ ResponseEndsRecord(n, d)
    BY TypeOK, <1>18, ResponseEndsWrites
  <2> QED BY <1>t, <1>s, <2>1, <1>18
      DEF Wrote, ResponseEndsRecord, ResponseEnds, Saved, Unsaved, NoReply
<1>19. CASE RecordDelivery
  <2>1. PICK n : Wrote(n) /\ RecordDeliveryRecord(n)
    BY TypeOK, <1>19, RecordDeliveryWrites
  <2> QED BY <1>t, <1>s, <2>1, <1>19
      DEF Wrote, RecordDeliveryRecord, RecordDelivery, Change, Saved, Unsaved,
          NoReply
<1>20. CASE DeliveryInterrupted
  <2>1. PICK n : Wrote(n) /\ DeliveryInterruptedRecord(n)
    BY TypeOK, <1>20, DeliveryInterruptedWrites
  <2> QED BY <1>t, <1>s, <2>1, <1>20
      DEF Wrote, DeliveryInterruptedRecord, DeliveryInterrupted, Change, Saved,
          Unsaved, NoReply
<1>21. ASSUME NEW d \in BOOLEAN, Reconcile(d)
      PROVE  SendingAgrees'
  <2>1. PICK n : Wrote(n) /\ ReconcileRecord(n, d)
    BY TypeOK, <1>21, ReconcileWrites
  <2> QED BY <1>t, <1>s, <2>1, <1>21
      DEF Wrote, ReconcileRecord, Reconcile, Change, Saved, Unsaved
<1>22. ASSUME NEW i \in Input, InputBegin(i)
      PROVE  SendingAgrees'
  <2>2. \/ UNCHANGED sending /\ sending.pc = "none"
        \/ Saved([state EXCEPT !.inputs[i] = "unknown"])
           /\ sending' = [pc |-> "admit", input |-> i, fence |-> state.fence]
    BY <1>22 DEF InputBegin
  <2>3. [state EXCEPT !.inputs[i] = "unknown"].inputs[i] = "unknown"
    BY <1>t DEF Task
  <2>4. CASE UNCHANGED sending /\ sending.pc = "none"
    BY <2>4
  <2>5. CASE /\ state' = [state EXCEPT !.inputs[i] = "unknown"]
             /\ sending' = [pc |-> "admit", input |-> i, fence |-> state.fence]
    <3>1. sending'.input = i /\ state'.inputs[i] = "unknown"
      BY <2>3, <2>5
    <3> QED BY <3>1
  <2> QED BY <2>2, <2>4, <2>5 DEF Saved
<1>23. ASSUME NEW w \in Work, NEW r \in {"accepted","failed","unknown"}, InputAdmit(w, r)
      PROVE  SendingAgrees'
  <2>1. PICK n : Wrote(n) /\ InputAdmitRecord(n, w, r)
    BY TypeOK, <1>23, InputAdmitWrites
  <2> USE DEF InputAdmitRecord
  <2>2. sending.pc = "admit" /\ \E x \in {"accepted", "failed", "unknown"} : sending' = [sending EXCEPT !.pc = x]
    BY <2>1, <1>23 DEF InputAdmit
  <2> QED BY <1>t, <1>s, <2>1, <2>2 DEF Wrote
<1>24. ASSUME NEW r \in {"failed","unknown"}, InputRefused(r)
      PROVE  SendingAgrees'
  BY <1>t, <1>s, <1>24
    DEF InputRefused, store
<1>25. CASE InputSettle
  <2>1. PICK n : Wrote(n) /\ InputSettleRecord(n)
    BY TypeOK, <1>25, InputSettleWrites
  <2> QED BY <1>t, <1>s, <2>1, <1>25
      DEF Wrote, InputSettleRecord, InputSettle, Saved, Unsaved, NoSend
<1>26. CASE Crash
  BY TypeOK, <1>t, <1>s, CrashWrites, <1>26
    DEF Crash, NoReply, NoSend
<1> QED BY <1>1, <1>2, <1>3, <1>4, <1>5, <1>6, <1>7, <1>8, <1>9, <1>10, <1>11,
       <1>12, <1>13, <1>14, <1>15, <1>16, <1>17, <1>18, <1>19, <1>20, <1>21, <1>22,
       <1>23, <1>24, <1>25, <1>26
      DEF Next, Bookkeeping, TaskStep, Reports, Recovery, User

\* A response that is to come keeps its delivery.
LEMMA ReplyKept ==
  ASSUME TypeOK, FenceAgrees, EffectAgrees, ReplyAgrees, Next
  PROVE  ReplyAgrees'
<1> USE DEF ReplyAgrees, SameExecutions, NoReply
<1>t. /\ state \in Task /\ loop \in Run /\ reply \in Reply /\ host \in Host
  BY DEF TypeOK
<1>h. /\ \A b \in BOOLEAN : [host EXCEPT !.live = b].live = b
      /\ \A r : [host EXCEPT !.recovery = r].live = host.live
      /\ \A r, b : [host EXCEPT !.recovery = r, !.blocked = b].live = host.live
      /\ \A pc : [reply EXCEPT !.pc = pc].pc = pc
  BY <1>t DEF Host, Reply
<1>1. CASE Bookkeeping
  <2>1. PICK n : Wrote(n) /\ SameExecutions(n, state)
    BY TypeOK, <1>1, BookkeepingWrites
  <2>2. UNCHANGED <<running, reply, sending, out, attested>> /\ host'.live = host.live
    BY TypeOK, <1>1, BookkeepingWrites
  <2> QED BY <2>1, <2>2 DEF Wrote
<1>2. CASE ReserveInitial
  <2>1. PICK n : Wrote(n) /\ ReserveInitialRecord(n)
    BY TypeOK, <1>2, ReserveInitialWrites
  <2> QED BY <1>h, <2>1, <1>2
      DEF Wrote, ReserveInitialRecord, ReserveInitial, Mutate, Saved, Unsaved
<1>3. ASSUME NEW d \in Decisions, NEW cites \in SUBSET evidence(state), NEW r \in BOOLEAN, r => state.fence[2] < MaxGoals, Evaluate(d, cites, r)
      PROVE  ReplyAgrees'
  BY <1>h, <1>3
    DEF Evaluate, store
<1>4. CASE EvaluateFails
  BY <1>h, <1>4
    DEF EvaluateFails, store
<1>5. CASE Apply
  <2>1. PICK n : Wrote(n) /\ ApplyRecord(n)
    BY TypeOK, FenceAgrees, <1>5, ApplyWrites
  <2> QED BY <1>h, <2>1, <1>5
      DEF Wrote, ApplyRecord, Apply, Mutate, Saved, Unsaved
<1>6. CASE MarkEffectDispatching
  <2>1. PICK n : Wrote(n) /\ MarkEffectDispatchingRecord(n)
    BY TypeOK, <1>6, MarkEffectDispatchingWrites
  <2> QED BY <1>h, <2>1, <1>6
      DEF Wrote, MarkEffectDispatchingRecord, MarkEffectDispatching, Mutate, Saved,
          Unsaved
<1>7. CASE Execute
  BY <1>h, <1>7
    DEF Execute, store
<1>8. ASSUME NEW w \in Work, BindWork(w)
      PROVE  ReplyAgrees'
  <2>1. PICK n : Wrote(n) /\ BindWorkRecord(n, w)
    BY TypeOK, <1>8, BindWorkWrites
  <2> QED BY <1>h, <2>1, <1>8
      DEF Wrote, BindWorkRecord, BindWork, Mutate, Saved, Unsaved
<1>9. CASE Refuse
  BY <1>h, <1>9
    DEF Refuse, store
<1>10. CASE Flush
  BY <1>h, <1>10
    DEF Flush, store
<1>11. CASE BeginDelivery
  <2>1. PICK n : Wrote(n) /\ BeginDeliveryRecord(n)
    BY TypeOK, <1>11, BeginDeliveryWrites
  <2> QED BY <1>h, <2>1, <1>11
      DEF Wrote, BeginDeliveryRecord, BeginDelivery, Mutate, Saved, Unsaved
<1>12. CASE Deliver
  <2>1. PICK n : Wrote(n) /\ DeliverRecord(n)
    BY TypeOK, <1>12, DeliverWrites
  <2> USE DEF DeliverRecord
  <2>2. loop.pc = "deliver" /\ host.live /\ state.delivery
        /\ reply.pc \notin {"queued", "requeued", "speaking", "lost"}
    BY <1>12 DEF Deliver, EffectAgrees, Records
  <2> QED BY <2>2, <1>12 DEF Deliver, store
<1>13. CASE SettleEffect
  <2>1. PICK n : Wrote(n) /\ SettleEffectRecord(n)
    BY TypeOK, <1>13, SettleEffectWrites
  <2> QED BY <1>h, <2>1, <1>13
      DEF Wrote, SettleEffectRecord, SettleEffect, Mutate, Saved, Unsaved
<1>14. ASSUME NEW w \in Work, NEW o \in {"known","unknown"}, WorkEnds(w, o)
      PROVE  ReplyAgrees'
  <2>1. PICK n : Wrote(n) /\ WorkEndsRecord(n, w, o)
    BY TypeOK, <1>14, WorkEndsWrites
  <2> QED BY <1>h, <2>1, <1>14
      DEF Wrote, WorkEndsRecord, WorkEnds, Change, Saved, Unsaved
<1>15. CASE Speak
  BY <1>h, <1>15
    DEF Speak, store
<1>16. CASE Withdraw
  <2>1. PICK n : Wrote(n) /\ WithdrawRecord(n)
    BY TypeOK, <1>16, WithdrawWrites
  <2> QED BY <1>h, <2>1, <1>16
      DEF Wrote, WithdrawRecord, Withdraw, Saved, Unsaved, NoReply
<1>17. CASE Drop \/ Forget
  BY <1>h, <1>17
    DEF Drop, Forget, NoReply, store
<1>18. ASSUME NEW d \in Ending, ResponseEnds(d)
      PROVE  ReplyAgrees'
  <2>1. PICK n : Wrote(n) /\ ResponseEndsRecord(n, d)
    BY TypeOK, <1>18, ResponseEndsWrites
  <2> USE DEF ResponseEndsRecord
  <2>2. \/ reply' = NoReply
        \/ \E pc \in {"record", "tell"} : reply' = [reply EXCEPT !.pc = pc]
    BY <1>18 DEF ResponseEnds, Ending
  <2>3. reply'.pc \in {"none", "record", "tell"}
    BY <1>t, <2>2 DEF Reply
  <2> QED BY <2>3
<1>19. CASE RecordDelivery
  <2>1. PICK n : Wrote(n) /\ RecordDeliveryRecord(n)
    BY TypeOK, <1>19, RecordDeliveryWrites
  <2> QED BY <1>h, <2>1, <1>19
      DEF Wrote, RecordDeliveryRecord, RecordDelivery, Change, Saved, Unsaved,
          NoReply
<1>20. CASE DeliveryInterrupted
  <2>1. PICK n : Wrote(n) /\ DeliveryInterruptedRecord(n)
    BY TypeOK, <1>20, DeliveryInterruptedWrites
  <2> QED BY <1>h, <2>1, <1>20
      DEF Wrote, DeliveryInterruptedRecord, DeliveryInterrupted, Change, Saved,
          Unsaved, NoReply
<1>21. ASSUME NEW d \in BOOLEAN, Reconcile(d)
      PROVE  ReplyAgrees'
  <2>1. PICK n : Wrote(n) /\ ReconcileRecord(n, d)
    BY TypeOK, <1>21, ReconcileWrites
  <2> QED BY <1>h, <2>1, <1>21
      DEF Wrote, ReconcileRecord, Reconcile, Change, Saved, Unsaved
<1>22. ASSUME NEW i \in Input, InputBegin(i)
      PROVE  ReplyAgrees'
  <2>1. PICK n : Wrote(n) /\ InputBeginRecord(n, i)
    BY TypeOK, <1>22, InputBeginWrites
  <2> QED BY <1>h, <2>1, <1>22
      DEF Wrote, InputBeginRecord, InputBegin, Saved, Unsaved
<1>23. ASSUME NEW w \in Work, NEW r \in {"accepted","failed","unknown"}, InputAdmit(w, r)
      PROVE  ReplyAgrees'
  <2>1. PICK n : Wrote(n) /\ InputAdmitRecord(n, w, r)
    BY TypeOK, <1>23, InputAdmitWrites
  <2> QED BY <1>h, <2>1, <1>23
      DEF Wrote, InputAdmitRecord, InputAdmit, Saved, Unsaved
<1>24. ASSUME NEW r \in {"failed","unknown"}, InputRefused(r)
      PROVE  ReplyAgrees'
  BY <1>h, <1>24
    DEF InputRefused, store
<1>25. CASE InputSettle
  <2>1. PICK n : Wrote(n) /\ InputSettleRecord(n)
    BY TypeOK, <1>25, InputSettleWrites
  <2> QED BY <1>h, <2>1, <1>25
      DEF Wrote, InputSettleRecord, InputSettle, Saved, Unsaved, NoSend
<1>26. CASE Crash
  BY TypeOK, <1>h, CrashWrites, <1>26
    DEF Crash, NoReply, NoSend
<1> QED BY <1>1, <1>2, <1>3, <1>4, <1>5, <1>6, <1>7, <1>8, <1>9, <1>10, <1>11,
       <1>12, <1>13, <1>14, <1>15, <1>16, <1>17, <1>18, <1>19, <1>20, <1>21, <1>22,
       <1>23, <1>24, <1>25, <1>26
      DEF Next, Bookkeeping, TaskStep, Reports, Recovery, User

\* The fence of the task only grows, and grows when the user takes over.
FenceStep ==
  /\ state.fence[1] <= state'.fence[1] /\ state.fence[2] <= state'.fence[2]
  /\ state'.fence = state.fence /\ state'.user => state.user

\* A step other than a crash.
LEMMA FenceSteps ==
  ASSUME TypeOK, FenceAgrees, Next, ~Crash
  PROVE  FenceStep
<1> USE DEF FenceStep, SameOwner
<1>n. state.fence[1] \in Nat /\ state.fence[2] \in Nat
  BY TypedHelpers DEF TypeOK, Fence, Goal
<1>1. CASE Step
  BY <1>n, <1>1
    DEF Step, store
<1>2. CASE GiveUp
  <2>1. PICK n : Wrote(n) /\ GiveUpRecord(n)
    BY TypeOK, <1>2, GiveUpWrites
  <2> QED BY <1>n, <2>1, <1>2
      DEF Wrote, GiveUpRecord, GiveUp, Mutate, Saved, Unsaved
<1>3. CASE WaitUnknown
  <2>1. PICK n : Wrote(n) /\ WaitUnknownRecord(n)
    BY TypeOK, <1>3, WaitUnknownWrites
  <2> QED BY <1>n, <2>1, <1>3
      DEF Wrote, WaitUnknownRecord, WaitUnknown, Mutate, Saved, Unsaved
<1>4. CASE ReserveInitial
  <2>1. PICK n : Wrote(n) /\ ReserveInitialRecord(n)
    BY TypeOK, <1>4, ReserveInitialWrites
  <2> QED BY <1>n, <2>1, <1>4
      DEF Wrote, ReserveInitialRecord, ReserveInitial, Mutate, Saved, Unsaved
<1>5. ASSUME NEW d \in Decisions, NEW cites \in SUBSET evidence(state), NEW r \in BOOLEAN, r => state.fence[2] < MaxGoals, Evaluate(d, cites, r)
      PROVE  FenceStep
  BY <1>n, <1>5
    DEF Evaluate, store
<1>6. CASE EvaluateFails
  BY <1>n, <1>6
    DEF EvaluateFails, store
<1>7. CASE Apply
  <2>1. PICK n : Wrote(n) /\ ApplyRecord(n)
    BY TypeOK, FenceAgrees, <1>7, ApplyWrites
  <2> QED BY <1>n, <2>1, <1>7
      DEF Wrote, ApplyRecord, Apply, Mutate, Saved, Unsaved
<1>8. CASE MarkEffectDispatching
  <2>1. PICK n : Wrote(n) /\ MarkEffectDispatchingRecord(n)
    BY TypeOK, <1>8, MarkEffectDispatchingWrites
  <2> QED BY <1>n, <2>1, <1>8
      DEF Wrote, MarkEffectDispatchingRecord, MarkEffectDispatching, Mutate, Saved,
          Unsaved
<1>9. CASE Execute
  BY <1>n, <1>9
    DEF Execute, store
<1>10. ASSUME NEW w \in Work, BindWork(w)
      PROVE  FenceStep
  <2>1. PICK n : Wrote(n) /\ BindWorkRecord(n, w)
    BY TypeOK, <1>10, BindWorkWrites
  <2> QED BY <1>n, <2>1, <1>10
      DEF Wrote, BindWorkRecord, BindWork, Mutate, Saved, Unsaved
<1>11. CASE Refuse
  BY <1>n, <1>11
    DEF Refuse, store
<1>12. CASE Flush
  BY <1>n, <1>12
    DEF Flush, store
<1>13. CASE BeginDelivery
  <2>1. PICK n : Wrote(n) /\ BeginDeliveryRecord(n)
    BY TypeOK, <1>13, BeginDeliveryWrites
  <2> QED BY <1>n, <2>1, <1>13
      DEF Wrote, BeginDeliveryRecord, BeginDelivery, Mutate, Saved, Unsaved
<1>14. CASE Deliver
  <2>1. PICK n : Wrote(n) /\ DeliverRecord(n)
    BY TypeOK, <1>14, DeliverWrites
  <2> QED BY <1>n, <2>1, <1>14
      DEF Wrote, DeliverRecord, Deliver, Mutate, Saved, Unsaved, NoReply
<1>15. CASE SettleEffect
  <2>1. PICK n : Wrote(n) /\ SettleEffectRecord(n)
    BY TypeOK, <1>15, SettleEffectWrites
  <2> QED BY <1>n, <2>1, <1>15
      DEF Wrote, SettleEffectRecord, SettleEffect, Mutate, Saved, Unsaved
<1>16. ASSUME NEW w \in Work, NEW o \in {"known","unknown"}, WorkEnds(w, o)
      PROVE  FenceStep
  <2>1. PICK n : Wrote(n) /\ WorkEndsRecord(n, w, o)
    BY TypeOK, <1>16, WorkEndsWrites
  <2> QED BY <1>n, <2>1, <1>16
      DEF Wrote, WorkEndsRecord, WorkEnds, Change, Saved, Unsaved
<1>17. ASSUME NEW p \in Phase, ResourceState(p)
      PROVE  FenceStep
  <2>1. PICK n : Wrote(n) /\ ResourceStateRecord(n, p)
    BY TypeOK, <1>17, ResourceStateWrites
  <2> QED BY <1>n, <2>1, <1>17
      DEF Wrote, ResourceStateRecord, ResourceState, Saved
<1>18. CASE Speak
  BY <1>n, <1>18
    DEF Speak, store
<1>19. CASE Withdraw
  <2>1. PICK n : Wrote(n) /\ WithdrawRecord(n)
    BY TypeOK, <1>19, WithdrawWrites
  <2> QED BY <1>n, <2>1, <1>19
      DEF Wrote, WithdrawRecord, Withdraw, Saved, Unsaved, NoReply
<1>20. CASE Drop \/ Forget
  BY <1>n, <1>20
    DEF Drop, Forget, NoReply, store
<1>21. ASSUME NEW d \in Ending, ResponseEnds(d)
      PROVE  FenceStep
  <2>1. PICK n : Wrote(n) /\ ResponseEndsRecord(n, d)
    BY TypeOK, <1>21, ResponseEndsWrites
  <2> QED BY <1>n, <2>1, <1>21
      DEF Wrote, ResponseEndsRecord, ResponseEnds, Saved, Unsaved, NoReply
<1>22. CASE RecordDelivery
  <2>1. PICK n : Wrote(n) /\ RecordDeliveryRecord(n)
    BY TypeOK, <1>22, RecordDeliveryWrites
  <2> QED BY <1>n, <2>1, <1>22
      DEF Wrote, RecordDeliveryRecord, RecordDelivery, Change, Saved, Unsaved,
          NoReply
<1>23. CASE DeliveryInterrupted
  <2>1. PICK n : Wrote(n) /\ DeliveryInterruptedRecord(n)
    BY TypeOK, <1>23, DeliveryInterruptedWrites
  <2> QED BY <1>n, <2>1, <1>23
      DEF Wrote, DeliveryInterruptedRecord, DeliveryInterrupted, Change, Saved,
          Unsaved, NoReply
<1>24. CASE Takeover
  <2>1. PICK n : Wrote(n) /\ TakeoverRecord(n)
    BY TypeOK, <1>24, TakeoverWrites
  <2> QED BY <1>n, <2>1, <1>24
      DEF Wrote, TakeoverRecord, Takeover, Change, Saved, Unsaved
<1>25. CASE Return
  <2>1. PICK n : Wrote(n) /\ ReturnRecord(n)
    BY TypeOK, <1>25, ReturnWrites
  <2> QED BY <1>n, <2>1, <1>25
      DEF Wrote, ReturnRecord, Return, Change, Saved, Unsaved
<1>26. CASE Continue
  <2>1. PICK n : Wrote(n) /\ ContinueRecord(n)
    BY TypeOK, <1>26, ContinueWrites
  <2> QED BY <1>n, <2>1, <1>26
      DEF Wrote, ContinueRecord, Continue, Change, Saved, Unsaved
<1>27. CASE ContinueBlocked
  BY <1>n, <1>27
    DEF ContinueBlocked, store
<1>28. CASE Revise
  <2>1. PICK n : Wrote(n) /\ ReviseRecord(n)
    BY TypeOK, <1>28, ReviseWrites
  <2> QED BY <1>n, <2>1, <1>28
      DEF Wrote, ReviseRecord, Revise, Change, Saved, Unsaved
<1>29. ASSUME NEW d \in BOOLEAN, Reconcile(d)
      PROVE  FenceStep
  <2>1. PICK n : Wrote(n) /\ ReconcileRecord(n, d)
    BY TypeOK, <1>29, ReconcileWrites
  <2> QED BY <1>n, <2>1, <1>29
      DEF Wrote, ReconcileRecord, Reconcile, Change, Saved, Unsaved
<1>30. CASE Cancel
  <2>1. PICK n : Wrote(n) /\ CancelRecord(n)
    BY TypeOK, <1>30, CancelWrites
  <2> QED BY <1>n, <2>1, <1>30
      DEF Wrote, CancelRecord, Cancel, Change, Saved, Unsaved
<1>31. ASSUME NEW i \in Input, InputBegin(i)
      PROVE  FenceStep
  <2>1. PICK n : Wrote(n) /\ InputBeginRecord(n, i)
    BY TypeOK, <1>31, InputBeginWrites
  <2> QED BY <1>n, <2>1, <1>31
      DEF Wrote, InputBeginRecord, InputBegin, Saved, Unsaved
<1>32. ASSUME NEW w \in Work, NEW r \in {"accepted","failed","unknown"}, InputAdmit(w, r)
      PROVE  FenceStep
  <2>1. PICK n : Wrote(n) /\ InputAdmitRecord(n, w, r)
    BY TypeOK, <1>32, InputAdmitWrites
  <2> QED BY <1>n, <2>1, <1>32
      DEF Wrote, InputAdmitRecord, InputAdmit, Saved, Unsaved
<1>33. ASSUME NEW r \in {"failed","unknown"}, InputRefused(r)
      PROVE  FenceStep
  BY <1>n, <1>33
    DEF InputRefused, store
<1>34. CASE InputSettle
  <2>1. PICK n : Wrote(n) /\ InputSettleRecord(n)
    BY TypeOK, <1>34, InputSettleWrites
  <2> QED BY <1>n, <2>1, <1>34
      DEF Wrote, InputSettleRecord, InputSettle, Saved, Unsaved, NoSend
<1>35. CASE Crash
  BY <1>35
<1>36. CASE RecoverAgain
  BY <1>n, <1>36
    DEF RecoverAgain, store
<1>37. ASSUME NEW u \in BOOLEAN, RecoverJudge(u)
      PROVE  FenceStep
  BY <1>n, <1>37
    DEF RecoverJudge, RecoveryEnds, store
<1>38. CASE RecoverWrite
  <2>1. PICK n : Wrote(n) /\ RecoverWriteRecord(n)
    BY TypeOK, <1>38, RecoverWriteWrites
  <2> QED BY <1>n, <2>1, <1>38
      DEF Wrote, RecoverWriteRecord, RecoverWrite, RecoveryEnds, Saved, Unsaved
<1> QED BY <1>1, <1>2, <1>3, <1>4, <1>5, <1>6, <1>7, <1>8, <1>9, <1>10, <1>11,
       <1>12, <1>13, <1>14, <1>15, <1>16, <1>17, <1>18, <1>19, <1>20, <1>21, <1>22,
       <1>23, <1>24, <1>25, <1>26, <1>27, <1>28, <1>29, <1>30, <1>31, <1>32, <1>33,
       <1>34, <1>35, <1>36, <1>37, <1>38
      DEF Next, TaskStep, Reports, Recovery, User

\* Where a run goes: it ends, it starts with the fence it reads, or it goes on with it.
RunStep ==
  \/ loop'.pc \in {"idle", "step"} /\ loop'.fence \in {<<0, 0>>, loop.fence}
  \/ /\ loop.pc = "step" /\ loop'.pc \in {"wait", "reserve", "evaluate"}
     /\ loop'.fence = state.fence /\ ~state.user /\ state' = state
  \/ /\ loop.pc \notin {"idle", "step"} /\ loop'.fence = loop.fence
     /\ loop'.pc = loop.pc => loop'.revises = loop.revises /\ loop'.says = loop.says
     /\ loop'.pc = "apply" /\ loop.pc # "apply" =>
          loop.pc = "evaluate" /\ state' = state /\ (loop'.revises => state.fence[2] < MaxGoals)
  \/ loop' = loop
  \/ loop.pc = "idle" /\ loop'.pc = "step" /\ loop'.fence = loop.fence

\* Every step.
LEMMA RunSteps ==
  ASSUME TypeOK, Next
  PROVE  RunStep
<1> USE DEF RunStep, Run
<1>t. loop \in Run
  BY DEF TypeOK
<1>1. CASE Step
  BY <1>t, <1>1 DEF Step, Leave, Idle, store
<1>2. CASE GiveUp
  BY <1>t, <1>2
    DEF GiveUp, Mutate, Saved, Unsaved, Leave, Idle, store
<1>3. CASE WaitUnknown
  BY <1>t, <1>3
    DEF WaitUnknown, Mutate, Saved, Unsaved, Leave, Idle, Go, store
<1>4. CASE ReserveInitial
  BY <1>t, <1>4
    DEF ReserveInitial, Mutate, Saved, Unsaved, Go, store
<1>5. ASSUME NEW d \in Decisions, NEW cites \in SUBSET evidence(state), NEW r \in BOOLEAN, r => state.fence[2] < MaxGoals, Evaluate(d, cites, r)
      PROVE  RunStep
  BY <1>t, <1>5
    DEF Evaluate, store
<1>6. CASE EvaluateFails
  BY <1>t, <1>6
    DEF EvaluateFails, Go, store
<1>7. CASE Apply
  <2>1. loop.pc = "apply" /\ Go("giveUp") = [loop EXCEPT !.pc = "giveUp"]
        /\ Go("mark") = [loop EXCEPT !.pc = "mark"]
    BY <1>7 DEF Apply, Go
  <2>2. \/ loop' \in {Leave(loop), [Idle EXCEPT !.pc = "step"], Go("giveUp"), Go("mark")}
    BY <1>t, <1>7 DEF Apply, Mutate
  <2> QED BY <1>t, <2>1, <2>2 DEF Leave, Idle
<1>8. CASE MarkEffectDispatching
  BY <1>t, <1>8
    DEF MarkEffectDispatching, Mutate, Saved, Unsaved, Go, Settles, store
<1>9. CASE Execute
  BY <1>t, <1>9
    DEF Execute, Go, Settles, store
<1>10. ASSUME NEW w \in Work, BindWork(w)
      PROVE  RunStep
  BY <1>t, <1>10
    DEF BindWork, Mutate, Saved, Unsaved, Go, Settles, store
<1>11. CASE Refuse
  BY <1>t, <1>11
    DEF Refuse, Settles, store
<1>12. CASE Flush
  BY <1>t, <1>12
    DEF Flush, Settles, store
<1>13. CASE BeginDelivery
  BY <1>t, <1>13
    DEF BeginDelivery, Mutate, Saved, Unsaved, Go, Settles, store
<1>14. CASE Deliver
  BY <1>t, <1>14
    DEF Deliver, Mutate, Saved, Unsaved, Settles, NoReply, store
<1>15. CASE SettleEffect
  <2>1. loop.pc = "settle" /\ loop' \in {Leave(loop), Go("giveUp"), Settles("unknown")}
    BY <1>15 DEF SettleEffect, Mutate
  <2>2. CASE loop' = Leave(loop)
    BY <2>2 DEF Leave, Idle
  <2>3. CASE loop' = Go("giveUp")
    BY <1>t, <2>1, <2>3 DEF Go
  <2>4. CASE loop' = Settles("unknown")
    BY <1>t, <2>1, <2>4 DEF Settles
  <2> QED BY <2>1, <2>2, <2>3, <2>4
<1>16. ASSUME NEW w \in Work, NEW o \in {"known","unknown"}, WorkEnds(w, o)
      PROVE  RunStep
  BY <1>t, <1>16
    DEF WorkEnds, Change, Saved, Unsaved, Wake, Go, store
<1>17. ASSUME NEW p \in Phase, ResourceState(p)
      PROVE  RunStep
  BY <1>t, <1>17
    DEF ResourceState, Saved, store
<1>18. CASE Speak
  BY <1>t, <1>18
    DEF Speak, store
<1>19. CASE Withdraw
  BY <1>t, <1>19
    DEF Withdraw, Saved, Unsaved, NoReply
<1>20. CASE Drop \/ Forget
  BY <1>t, <1>20
    DEF Drop, Forget, NoReply, store
<1>21. ASSUME NEW d \in Ending, ResponseEnds(d)
      PROVE  RunStep
  BY <1>t, <1>21
    DEF ResponseEnds, Saved, Unsaved, NoReply
<1>22. CASE RecordDelivery
  BY <1>t, <1>22
    DEF RecordDelivery, Change, Saved, Unsaved, NoReply, Wake, Go, store
<1>23. CASE DeliveryInterrupted
  BY <1>t, <1>23
    DEF DeliveryInterrupted, Change, Saved, Unsaved, NoReply, store
<1>24. CASE Takeover
  BY <1>t, <1>24
    DEF Takeover, Change, Saved, Unsaved, store
<1>25. CASE Return
  BY <1>t, <1>25
    DEF Return, Change, Saved, Unsaved, Wake, Go, store
<1>26. CASE Continue
  BY <1>t, <1>26
    DEF Continue, Change, Saved, Unsaved, Wake, Go, store
<1>27. CASE ContinueBlocked
  BY <1>t, <1>27
    DEF ContinueBlocked, store
<1>28. CASE Revise
  BY <1>t, <1>28
    DEF Revise, Change, Saved, Unsaved, store
<1>29. ASSUME NEW d \in BOOLEAN, Reconcile(d)
      PROVE  RunStep
  BY <1>t, <1>29
    DEF Reconcile, Change, Saved, Unsaved, store
<1>30. CASE Cancel
  BY <1>t, <1>30
    DEF Cancel, Change, Saved, Unsaved, store
<1>31. ASSUME NEW i \in Input, InputBegin(i)
      PROVE  RunStep
  BY <1>t, <1>31
    DEF InputBegin, Saved, Unsaved, store
<1>32. ASSUME NEW w \in Work, NEW r \in {"accepted","failed","unknown"}, InputAdmit(w, r)
      PROVE  RunStep
  BY <1>t, <1>32
    DEF InputAdmit, Saved, Unsaved, store
<1>33. ASSUME NEW r \in {"failed","unknown"}, InputRefused(r)
      PROVE  RunStep
  BY <1>t, <1>33
    DEF InputRefused, store
<1>34. CASE InputSettle
  BY <1>t, <1>34
    DEF InputSettle, Saved, Unsaved, NoSend, Wake, Go
<1>35. CASE Crash
  BY <1>35 DEF Crash, Idle
<1>36. CASE RecoverAgain
  BY <1>t, <1>36
    DEF RecoverAgain, store
<1>37. ASSUME NEW u \in BOOLEAN, RecoverJudge(u)
      PROVE  RunStep
  BY <1>t, <1>37
    DEF RecoverJudge, RecoveryEnds, Go, store
<1>38. CASE RecoverWrite
  BY <1>t, <1>38
    DEF RecoverWrite, RecoveryEnds, Saved, Unsaved, Go
<1> QED BY <1>1, <1>2, <1>3, <1>4, <1>5, <1>6, <1>7, <1>8, <1>9, <1>10, <1>11,
       <1>12, <1>13, <1>14, <1>15, <1>16, <1>17, <1>18, <1>19, <1>20, <1>21, <1>22,
       <1>23, <1>24, <1>25, <1>26, <1>27, <1>28, <1>29, <1>30, <1>31, <1>32, <1>33,
       <1>34, <1>35, <1>36, <1>37, <1>38
      DEF Next, TaskStep, Reports, Recovery, User

\* A fence is a pair of naturals.
LEMMA FenceShape ==
  ASSUME NEW f \in Fence
  PROVE  f = <<f[1], f[2]>> /\ f[1] \in Nat /\ f[2] \in Nat /\ f[2] <= MaxGoals /\ MaxGoals \in Nat
BY Bounds DEF Fence, Goal

\* Every step keeps what the run knows of the fences.
LEMMA FenceKept ==
  ASSUME TypeOK, FenceAgrees, Next
  PROVE  FenceAgrees'
<1>1. /\ state.fence \in Fence /\ loop.fence \in Fence /\ state'.fence \in Fence
      /\ loop'.fence \in Fence
  BY RecordsTyped, RunTyped DEF TypeOK, Task, Run
<1>2. CASE Crash
  <2>1. loop'.pc = "idle" /\ loop'.fence[1] = 0 /\ loop'.fence[2] = 0
    BY <1>2 DEF Crash, Idle
  <2> QED BY <1>1, <2>1, FenceShape DEF FenceAgrees, Midway
<1>3. CASE ~Crash
  <2>1. FenceStep /\ RunStep
    BY <1>3, FenceSteps, RunSteps
  <2>2. /\ \A f \in {state.fence, loop.fence, state'.fence, loop'.fence} :
             f = <<f[1], f[2]>> /\ f[1] \in Nat /\ f[2] \in Nat
    BY <1>1, FenceShape
  <2>3. loop.fence[1] <= state'.fence[1] /\ loop.fence[2] <= state'.fence[2]
    BY <2>1, <2>2 DEF FenceStep, FenceAgrees
  <2>4. state'.fence = loop.fence => state'.fence = state.fence
    BY <2>1, <2>2 DEF FenceStep, FenceAgrees
  <2>5. loop'.fence[1] <= state'.fence[1] /\ loop'.fence[2] <= state'.fence[2]
    BY <2>1, <2>2, <2>3 DEF RunStep, FenceStep
  <2>6. Midway' /\ Fresh' => ~state'.user
    BY <2>1, <2>4 DEF FenceAgrees, FenceStep, RunStep, Midway, Fresh
  <2>7. loop'.pc = "apply" /\ loop'.revises => loop'.fence[2] < MaxGoals
    <3>1. MaxGoals \in Nat
      BY Bounds
    <3>2. CASE loop.pc = "apply"
      BY <2>1, <3>2 DEF FenceAgrees, RunStep
    <3>3. CASE loop.pc # "apply"
      <4>1. loop'.pc = "apply" /\ loop'.revises =>
              state.fence[2] < MaxGoals /\ loop'.fence[2] = loop.fence[2]
        BY <2>1, <3>3 DEF RunStep
      <4>2. loop.fence[2] <= state.fence[2] /\ loop.fence[2] \in Nat /\ state.fence[2] \in Nat
        BY <2>2 DEF FenceAgrees
      <4> QED BY <3>1, <4>1, <4>2
    <3> QED BY <3>2, <3>3
  <2> QED BY <2>5, <2>6, <2>7 DEF FenceAgrees
<1> QED BY <1>2, <1>3

\* A completed record stays proven and heeded.
LEMMA RecordsKept ==
  ASSUME TypeOK, FenceAgrees, SendingAgrees, RecordsAgree, Next
  PROVE  RecordsAgree'
<1> USE DEF RecordsAgree, Records, Proven, Heeded, SameExecutions, SameOwner,
      evidence
<1>t. /\ state \in Task /\ disk \in Task /\ reply \in Reply
      /\ sending.pc # "none" => sending.input \in Input
  BY Bounds DEF TypeOK, Sending
<1>1. CASE Step
  BY <1>t, <1>1
    DEF Step, store
<1>2. CASE GiveUp
  <2>1. PICK n : Wrote(n) /\ GiveUpRecord(n)
    BY TypeOK, <1>2, GiveUpWrites
  <2> QED BY <1>t, <2>1, <1>2
      DEF Wrote, GiveUpRecord, GiveUp, Mutate, Saved, Unsaved
<1>3. CASE WaitUnknown
  <2>1. PICK n : Wrote(n) /\ WaitUnknownRecord(n)
    BY TypeOK, <1>3, WaitUnknownWrites
  <2> QED BY <1>t, <2>1, <1>3
      DEF Wrote, WaitUnknownRecord, WaitUnknown, Mutate, Saved, Unsaved
<1>4. CASE ReserveInitial
  <2>1. PICK n : Wrote(n) /\ ReserveInitialRecord(n)
    BY TypeOK, <1>4, ReserveInitialWrites
  <2> QED BY <1>t, <2>1, <1>4
      DEF Wrote, ReserveInitialRecord, ReserveInitial, Mutate, Saved, Unsaved
<1>5. ASSUME NEW d \in Decisions, NEW cites \in SUBSET evidence(state), NEW r \in BOOLEAN, r => state.fence[2] < MaxGoals, Evaluate(d, cites, r)
      PROVE  RecordsAgree'
  BY <1>t, <1>5
    DEF Evaluate, store
<1>6. CASE EvaluateFails
  BY <1>t, <1>6
    DEF EvaluateFails, store
<1>7. CASE Apply
  <2>1. PICK n : Wrote(n) /\ ApplyRecord(n)
    BY TypeOK, FenceAgrees, <1>7, ApplyWrites
  <2>2. CASE n.phase # "completed" \/ n = state
    BY <2>1, <2>2 DEF Wrote
  <2>3. CASE /\ n.works = state.works /\ n.proofs = state.proofs /\ n.inputs = state.inputs
             /\ n.fence = state.fence
             /\ Decidable(state) /\ CitesCurrent(state) /\ loop.says = "complete"
    <3>1. evidence(n) = evidence(state)
      BY <2>3
    <3>2. \E e \in evidence(n) : e.goal = n.fence[2]
      BY <2>3, <3>1 DEF CitesCurrent
    <3>3. \A i \in Input : n.inputs[i] \notin {"unknown", "accepted"}
      BY <2>3 DEF Decidable, UnknownInput, pendingUserInputs
    <3> QED BY <2>1, <3>2, <3>3 DEF Wrote
  <2> QED BY <2>1, <2>2, <2>3 DEF ApplyRecord
<1>8. CASE MarkEffectDispatching
  <2>1. PICK n : Wrote(n) /\ MarkEffectDispatchingRecord(n)
    BY TypeOK, <1>8, MarkEffectDispatchingWrites
  <2> QED BY <1>t, <2>1, <1>8
      DEF Wrote, MarkEffectDispatchingRecord, MarkEffectDispatching, Mutate, Saved,
          Unsaved
<1>9. CASE Execute
  BY <1>t, <1>9
    DEF Execute, store
<1>10. ASSUME NEW w \in Work, BindWork(w)
      PROVE  RecordsAgree'
  <2>1. PICK n : Wrote(n) /\ BindWorkRecord(n, w)
    BY TypeOK, <1>10, BindWorkWrites
  <2> QED BY <1>t, <2>1, <1>10
      DEF Wrote, BindWorkRecord, BindWork, Mutate, Saved, Unsaved, Terminal, Works
<1>11. CASE Refuse
  BY <1>t, <1>11
    DEF Refuse, store
<1>12. CASE Flush
  BY <1>t, <1>12
    DEF Flush, store
<1>13. CASE BeginDelivery
  <2>1. PICK n : Wrote(n) /\ BeginDeliveryRecord(n)
    BY TypeOK, <1>13, BeginDeliveryWrites
  <2> QED BY <1>t, <2>1, <1>13
      DEF Wrote, BeginDeliveryRecord, BeginDelivery, Mutate, Saved, Unsaved
<1>14. CASE Deliver
  <2>1. PICK n : Wrote(n) /\ DeliverRecord(n)
    BY TypeOK, <1>14, DeliverWrites
  <2> QED BY <1>t, <2>1, <1>14
      DEF Wrote, DeliverRecord, Deliver, Mutate, Saved, Unsaved, NoReply
<1>15. CASE SettleEffect
  <2>1. PICK n : Wrote(n) /\ SettleEffectRecord(n)
    BY TypeOK, <1>15, SettleEffectWrites
  <2> QED BY <1>t, <2>1, <1>15
      DEF Wrote, SettleEffectRecord, SettleEffect, Mutate, Saved, Unsaved
<1>16. ASSUME NEW w \in Work, NEW o \in {"known","unknown"}, WorkEnds(w, o)
      PROVE  RecordsAgree'
  <2>1. PICK n : Wrote(n) /\ WorkEndsRecord(n, w, o)
    BY TypeOK, <1>16, WorkEndsWrites
  <2> QED BY <1>t, <2>1, <1>16
      DEF Wrote, WorkEndsRecord, WorkEnds, Change, Saved, Unsaved
<1>17. ASSUME NEW p \in Phase, ResourceState(p)
      PROVE  RecordsAgree'
  <2>1. PICK n : Wrote(n) /\ ResourceStateRecord(n, p)
    BY TypeOK, <1>17, ResourceStateWrites
  <2> QED BY <1>t, <2>1, <1>17
      DEF Wrote, ResourceStateRecord, ResourceState, Saved
<1>18. CASE Speak
  BY <1>t, <1>18
    DEF Speak, store
<1>19. CASE Withdraw
  <2>1. PICK n : Wrote(n) /\ WithdrawRecord(n)
    BY TypeOK, <1>19, WithdrawWrites
  <2> QED BY <1>t, <2>1, <1>19
      DEF Wrote, WithdrawRecord, Withdraw, Saved, Unsaved, NoReply
<1>20. CASE Drop \/ Forget
  BY <1>t, <1>20
    DEF Drop, Forget, NoReply, store
<1>21. ASSUME NEW d \in Ending, ResponseEnds(d)
      PROVE  RecordsAgree'
  <2>1. PICK n : Wrote(n) /\ ResponseEndsRecord(n, d)
    BY TypeOK, <1>21, ResponseEndsWrites
  <2> QED BY <1>t, <2>1, <1>21
      DEF Wrote, ResponseEndsRecord, ResponseEnds, Saved, Unsaved, NoReply
<1>22. CASE RecordDelivery
  <2>1. PICK n : Wrote(n) /\ RecordDeliveryRecord(n)
    BY TypeOK, <1>22, RecordDeliveryWrites
  <2> QED BY <1>t, <2>1, <1>22
      DEF Wrote, RecordDeliveryRecord, RecordDelivery, Change, Saved, Unsaved,
          NoReply
<1>23. CASE DeliveryInterrupted
  <2>1. PICK n : Wrote(n) /\ DeliveryInterruptedRecord(n)
    BY TypeOK, <1>23, DeliveryInterruptedWrites
  <2> QED BY <1>t, <2>1, <1>23
      DEF Wrote, DeliveryInterruptedRecord, DeliveryInterrupted, Change, Saved,
          Unsaved, NoReply
<1>24. CASE Takeover
  <2>1. PICK n : Wrote(n) /\ TakeoverRecord(n)
    BY TypeOK, <1>24, TakeoverWrites
  <2> QED BY <1>t, <2>1, <1>24
      DEF Wrote, TakeoverRecord, Takeover, Change, Saved, Unsaved
<1>25. CASE Return
  <2>1. PICK n : Wrote(n) /\ ReturnRecord(n)
    BY TypeOK, <1>25, ReturnWrites
  <2> QED BY <1>t, <2>1, <1>25
      DEF Wrote, ReturnRecord, Return, Change, Saved, Unsaved
<1>26. CASE Continue
  <2>1. PICK n : Wrote(n) /\ ContinueRecord(n)
    BY TypeOK, <1>26, ContinueWrites
  <2> QED BY <1>t, <2>1, <1>26
      DEF Wrote, ContinueRecord, Continue, Change, Saved, Unsaved, Terminal
<1>27. CASE ContinueBlocked
  BY <1>t, <1>27
    DEF ContinueBlocked, store
<1>28. CASE Revise
  <2>1. PICK n : Wrote(n) /\ ReviseRecord(n)
    BY TypeOK, <1>28, ReviseWrites
  <2> QED BY <1>t, <2>1, <1>28
      DEF Wrote, ReviseRecord, Revise, Change, Saved, Unsaved, Terminal
<1>29. ASSUME NEW d \in BOOLEAN, Reconcile(d)
      PROVE  RecordsAgree'
  <2>1. PICK n : Wrote(n) /\ ReconcileRecord(n, d)
    BY TypeOK, <1>29, ReconcileWrites
  <2> QED BY <1>t, <2>1, <1>29
      DEF Wrote, ReconcileRecord, Reconcile, Change, Saved, Unsaved
<1>30. CASE Cancel
  <2>1. PICK n : Wrote(n) /\ CancelRecord(n)
    BY TypeOK, <1>30, CancelWrites
  <2> QED BY <1>t, <2>1, <1>30
      DEF Wrote, CancelRecord, Cancel, Change, Saved, Unsaved
<1>31. ASSUME NEW i \in Input, InputBegin(i)
      PROVE  RecordsAgree'
  <2>1. PICK n : Wrote(n) /\ InputBeginRecord(n, i)
    BY TypeOK, <1>31, InputBeginWrites
  <2> QED BY <1>t, <2>1, <1>31
      DEF Wrote, InputBeginRecord, InputBegin, Saved, Unsaved, UserWritable,
          Terminal
<1>32. ASSUME NEW w \in Work, NEW r \in {"accepted","failed","unknown"}, InputAdmit(w, r)
      PROVE  RecordsAgree'
  <2>1. PICK n : Wrote(n) /\ InputAdmitRecord(n, w, r)
    BY TypeOK, <1>32, InputAdmitWrites
  <2> QED BY <1>t, <2>1, <1>32
      DEF Wrote, InputAdmitRecord, InputAdmit, Saved, Unsaved, Works
<1>33. ASSUME NEW r \in {"failed","unknown"}, InputRefused(r)
      PROVE  RecordsAgree'
  BY <1>t, <1>33
    DEF InputRefused, store
<1>34. CASE InputSettle
  <2>1. PICK n : Wrote(n) /\ InputSettleRecord(n)
    BY TypeOK, <1>34, InputSettleWrites
  <2> QED BY <1>t, <2>1, <1>34
      DEF Wrote, InputSettleRecord, InputSettle, Saved, Unsaved, NoSend,
          SendingAgrees
<1>35. CASE Crash
  BY TypeOK, <1>t, CrashWrites, <1>35
    DEF Crash, NoReply, NoSend
<1>36. CASE RecoverAgain
  BY <1>t, <1>36
    DEF RecoverAgain, store
<1>37. ASSUME NEW u \in BOOLEAN, RecoverJudge(u)
      PROVE  RecordsAgree'
  BY <1>t, <1>37
    DEF RecoverJudge, RecoveryEnds, store
<1>38. CASE RecoverWrite
  <2>1. PICK n : Wrote(n) /\ RecoverWriteRecord(n)
    BY TypeOK, <1>38, RecoverWriteWrites
  <2> QED BY <1>t, <2>1, <1>38
      DEF Wrote, RecoverWriteRecord, RecoverWrite, RecoveryEnds, Saved, Unsaved
<1> QED BY <1>1, <1>2, <1>3, <1>4, <1>5, <1>6, <1>7, <1>8, <1>9, <1>10, <1>11,
       <1>12, <1>13, <1>14, <1>15, <1>16, <1>17, <1>18, <1>19, <1>20, <1>21, <1>22,
       <1>23, <1>24, <1>25, <1>26, <1>27, <1>28, <1>29, <1>30, <1>31, <1>32, <1>33,
       <1>34, <1>35, <1>36, <1>37, <1>38
      DEF Next, TaskStep, Reports, Recovery, User

\* What the run knows stays so.
LEMMA EffectKept ==
  ASSUME TypeOK, FenceAgrees, ReplyAgrees, OutAgrees, EffectAgrees, Next
  PROVE  EffectAgrees'
<1> USE DEF EffectAgrees, Records, SameExecutions
<1>t. loop \in Run /\ host \in Host /\ reply \in Reply
      /\ out \in [call : BOOLEAN, reply : BOOLEAN, input : BOOLEAN, works : SUBSET Work]
  BY DEF TypeOK
<1>h. /\ \A b \in BOOLEAN : [host EXCEPT !.live = b].live = b
      /\ \A r : [host EXCEPT !.recovery = r].live = host.live
      /\ \A r, b : [host EXCEPT !.recovery = r, !.blocked = b].live = host.live
      /\ \A pc : [reply EXCEPT !.pc = pc].pc = pc
  BY <1>t DEF Host, Reply
<1>g. /\ \A pc \in PCs : Go(pc).pc = pc
      /\ \A r \in {"accepted", "failed", "unknown"} : Settles(r).pc = "settle" /\ Settles(r).result = r
      /\ Leave(loop).pc \in {"step", "idle"}
  BY <1>t, RunFrames
<1> HIDE DEF PCs
<1>1. CASE Step
  <2> QED BY <1>t, <1>1
      DEF Step, Leave, Idle, Run, store
<1>2. CASE GiveUp
  <2>1. PICK n : Wrote(n) /\ GiveUpRecord(n)
    BY TypeOK, <1>2, GiveUpWrites
  <2> QED BY <1>t, <2>1, <1>2
      DEF GiveUp, Mutate, Saved, Unsaved, Leave, Idle, Run, Wrote, GiveUpRecord
<1>3. CASE WaitUnknown
  <2>1. PICK n : Wrote(n) /\ WaitUnknownRecord(n)
    BY TypeOK, <1>3, WaitUnknownWrites
  <2> QED BY <1>t, <2>1, <1>3
      DEF WaitUnknown, Mutate, Saved, Unsaved, Leave, Idle, Go, Run, Wrote,
          WaitUnknownRecord
<1>4. CASE ReserveInitial
  <2>1. PICK n : Wrote(n) /\ ReserveInitialRecord(n)
    BY TypeOK, <1>4, ReserveInitialWrites
  <2> USE DEF ReserveInitialRecord
  <2>2. loop.pc = "reserve" /\ UNCHANGED out /\ {"giveUp", "mark"} \subseteq PCs
    BY <1>4 DEF ReserveInitial, PCs
  <2>3. loop'.pc = "giveUp" \/ (loop'.pc = "mark" /\ Reservable(state))
    BY <1>g, <2>2, <1>4 DEF ReserveInitial, Mutate
  <2>4. Reservable(state) => ~out.call
    BY DEF Reservable, pendingEffect, OutAgrees, OnRecord
  <2> QED BY <2>2, <2>3, <2>4
<1>5. ASSUME NEW d \in Decisions, NEW cites \in SUBSET evidence(state), NEW r \in BOOLEAN, r => state.fence[2] < MaxGoals, Evaluate(d, cites, r)
      PROVE  EffectAgrees'
  <2> QED BY <1>t, <1>5
      DEF Evaluate, Run, store
<1>6. CASE EvaluateFails
  <2> QED BY <1>t, <1>6
      DEF EvaluateFails, Go, Run, store
<1>7. CASE Apply
  <2>1. PICK n : Wrote(n) /\ ApplyRecord(n)
    BY TypeOK, FenceAgrees, <1>7, ApplyWrites
  <2> USE DEF ApplyRecord
  <2>2. loop.pc = "apply" /\ UNCHANGED out /\ {"giveUp", "mark"} \subseteq PCs
    BY <1>7 DEF Apply, PCs
  <2>3. loop'.pc \in {"step", "idle", "giveUp", "mark"}
    <3>1. loop' \in {Leave(loop), [Idle EXCEPT !.pc = "step"], Go("giveUp"), Go("mark")}
      BY <1>t, <1>7 DEF Apply, Mutate, Run
    <3> QED BY <1>g, <2>2, <3>1 DEF Idle
  <2>4. loop'.pc = "mark" => Decidable(state)
    BY <2>1
  <2>5. Decidable(state) => ~out.call
    BY DEF Decidable, pendingEffect, OutAgrees, OnRecord
  <2> QED BY <2>2, <2>3, <2>4, <2>5
<1>8. CASE MarkEffectDispatching
  <2>1. PICK n : Wrote(n) /\ MarkEffectDispatchingRecord(n)
    BY TypeOK, <1>8, MarkEffectDispatchingWrites
  <2> USE DEF MarkEffectDispatchingRecord
  <2>2. "execute" \in PCs /\ loop.pc = "mark" /\ UNCHANGED out
    BY <1>8 DEF MarkEffectDispatching, PCs
  <2>3. \/ /\ loop'.pc = "execute" /\ state.effect.status = "pending"
           /\ state'.effect.status = "pending" /\ state'.effect.write_started /\ disk' = state'
        \/ loop'.pc = "settle"
    <3>1. [state EXCEPT !.effect.write_started = TRUE].effect.status = state.effect.status
          /\ [state EXCEPT !.effect.write_started = TRUE].effect.write_started
      BY DEF TypeOK, Task, Effect
    <3>2. CASE Saved([state EXCEPT !.effect.write_started = TRUE]) /\ loop' = Go("execute")
               /\ state.effect.status = "pending"
      BY <1>g, <2>2, <3>1, <3>2 DEF Saved
    <3>3. CASE loop' = Settles("failed")
      BY <1>g, <3>3
    <3> QED BY <3>2, <3>3, <1>8 DEF MarkEffectDispatching, Mutate
  <2> QED BY <2>2, <2>3
<1>9. CASE Execute
  <2> QED BY <1>t, <1>9
      DEF Execute, Go, Settles, Run, store
<1>10. ASSUME NEW w \in Work, BindWork(w)
      PROVE  EffectAgrees'
  <2>1. PICK n : Wrote(n) /\ BindWorkRecord(n, w)
    BY TypeOK, <1>10, BindWorkWrites
  <2> USE DEF BindWorkRecord
  <2>2. "flush" \in PCs /\ loop.pc = "dispatch"
    BY <1>10 DEF BindWork, PCs
  <2>3. loop'.pc = "flush" \/ (loop'.pc = "settle" /\ loop'.result = "unknown")
    <3>1. loop' \in {Go("flush"), Settles("unknown")}
      BY <1>10 DEF BindWork, Mutate
    <3> QED BY <1>g, <2>2, <3>1
  <2> QED BY <2>1, <2>2, <2>3 DEF Wrote
<1>11. CASE Refuse
  <2> QED BY <1>t, <1>11
      DEF Refuse, Settles, Run, store
<1>12. CASE Flush
  <2> QED BY <1>t, <1>12
      DEF Flush, Settles, Run, store
<1>13. CASE BeginDelivery
  <2>1. PICK n : Wrote(n) /\ BeginDeliveryRecord(n)
    BY TypeOK, <1>13, BeginDeliveryWrites
  <2> USE DEF BeginDeliveryRecord
  <2>2. "deliver" \in PCs /\ loop.pc = "dispatch"
    BY <1>13 DEF BeginDelivery, PCs
  <2>3. \/ /\ loop'.pc = "deliver" /\ ~state.delivery /\ state'.delivery /\ disk'.delivery
           /\ state'.effect = state.effect /\ disk'.effect = state.effect
        \/ /\ loop'.pc = "settle" /\ ~out'.call
    <3>1. [state EXCEPT !.delivery = TRUE] \in Task /\ [state EXCEPT !.delivery = TRUE].delivery
          /\ [state EXCEPT !.delivery = TRUE].effect = state.effect
      BY DEF TypeOK, Task
    <3>2. CASE Saved([state EXCEPT !.delivery = TRUE]) /\ loop' = Go("deliver") /\ ~state.delivery
      BY <1>g, <2>2, <3>1, <3>2 DEF Saved
    <3>3. CASE loop' = Settles("failed")
      BY <1>t, <1>g, <3>3, <1>13 DEF BeginDelivery
    <3> QED BY <3>2, <3>3, <1>13 DEF BeginDelivery, Mutate
  <2>4. UNCHANGED reply /\ (loop'.pc = "deliver" => host'.live /\ out' = out)
    BY <1>h, <1>13 DEF BeginDelivery
  <2>5. ~state.delivery => ~out.reply /\ reply.pc \notin {"queued", "requeued", "speaking", "lost"}
    BY DEF ReplyAgrees, OutAgrees, OnRecord
  <2> QED BY <2>2, <2>3, <2>4, <2>5
<1>14. CASE Deliver
  <2>1. loop' \in {Settles("accepted"), Settles("failed"), Settles("unknown")}
    BY <1>14 DEF Deliver, Mutate
  <2>2. loop'.pc = "settle"
    BY <1>g, <2>1
  <2>3. ~out'.call
    BY <1>t, <1>14 DEF Deliver
  <2> QED BY <2>2, <2>3
<1>15. CASE SettleEffect
  <2>1. PICK n : Wrote(n) /\ SettleEffectRecord(n)
    BY TypeOK, <1>15, SettleEffectWrites
  <2> USE DEF SettleEffectRecord
  <2>2. loop'.pc \in {"step", "idle", "giveUp"} \/ (loop'.pc = "settle" /\ loop'.result = "unknown")
    <3>1. loop' \in {Leave(loop), Go("giveUp"), Settles("unknown")} /\ "giveUp" \in PCs
      BY <1>15 DEF SettleEffect, Mutate, PCs
    <3> QED BY <1>g, <3>1
  <2> QED BY <2>2
<1>16. ASSUME NEW w \in Work, NEW o \in {"known","unknown"}, WorkEnds(w, o)
      PROVE  EffectAgrees'
  <2>1. PICK n : Wrote(n) /\ WorkEndsRecord(n, w, o)
    BY TypeOK, <1>16, WorkEndsWrites
  <2>2. SameRun
    BY TypeOK, <1>16, OthersRun
  <2> QED BY <1>t, <2>1, <2>2, <1>16
      DEF WorkEnds, Change, Saved, Unsaved, SameRun, Wrote, WorkEndsRecord
<1>17. ASSUME NEW p \in Phase, ResourceState(p)
      PROVE  EffectAgrees'
  <2>1. PICK n : Wrote(n) /\ ResourceStateRecord(n, p)
    BY TypeOK, <1>17, ResourceStateWrites
  <2>2. SameRun
    BY TypeOK, <1>17, OthersRun
  <2> QED BY <1>t, <2>1, <2>2, <1>17
      DEF ResourceState, Saved, SameRun, Wrote, ResourceStateRecord
<1>18. CASE Speak
  <2>2. SameRun
    BY TypeOK, <1>18, OthersRun
  <2> QED BY <1>t, <2>2, <1>18
      DEF Speak, SameRun, store
<1>19. CASE Withdraw
  <2>1. PICK n : Wrote(n) /\ WithdrawRecord(n)
    BY TypeOK, <1>19, WithdrawWrites
  <2>2. SameRun
    BY TypeOK, <1>19, OthersRun
  <2> QED BY <1>t, <2>1, <2>2, <1>19
      DEF Withdraw, Saved, Unsaved, NoReply, SameRun, Wrote, WithdrawRecord
<1>20. CASE Drop \/ Forget
  <2>2. SameRun
    BY TypeOK, <1>20, OthersRun
  <2> QED BY <1>t, <2>2, <1>20
      DEF Drop, Forget, NoReply, SameRun, store
<1>21. ASSUME NEW d \in Ending, ResponseEnds(d)
      PROVE  EffectAgrees'
  <2>1. PICK n : Wrote(n) /\ ResponseEndsRecord(n, d)
    BY TypeOK, <1>21, ResponseEndsWrites
  <2>2. SameRun
    BY TypeOK, <1>21, OthersRun
  <2> QED BY <1>t, <2>1, <2>2, <1>21
      DEF ResponseEnds, Saved, Unsaved, NoReply, SameRun, Wrote, ResponseEndsRecord
<1>22. CASE RecordDelivery
  <2>1. PICK n : Wrote(n) /\ RecordDeliveryRecord(n)
    BY TypeOK, <1>22, RecordDeliveryWrites
  <2>2. SameRun
    BY TypeOK, <1>22, OthersRun
  <2> QED BY <1>t, <2>1, <2>2, <1>22
      DEF RecordDelivery, Change, Saved, Unsaved, NoReply, SameRun, Wrote,
          RecordDeliveryRecord
<1>23. CASE DeliveryInterrupted
  <2>1. PICK n : Wrote(n) /\ DeliveryInterruptedRecord(n)
    BY TypeOK, <1>23, DeliveryInterruptedWrites
  <2>2. SameRun
    BY TypeOK, <1>23, OthersRun
  <2> QED BY <1>t, <2>1, <2>2, <1>23
      DEF DeliveryInterrupted, Change, Saved, Unsaved, NoReply, SameRun, Wrote,
          DeliveryInterruptedRecord
<1>24. CASE Takeover
  <2>1. PICK n : Wrote(n) /\ TakeoverRecord(n)
    BY TypeOK, <1>24, TakeoverWrites
  <2>2. SameRun
    BY TypeOK, <1>24, OthersRun
  <2> QED BY <1>t, <2>1, <2>2, <1>24
      DEF Takeover, Change, Saved, Unsaved, SameRun, Wrote, TakeoverRecord
<1>25. CASE Return
  <2>1. PICK n : Wrote(n) /\ ReturnRecord(n)
    BY TypeOK, <1>25, ReturnWrites
  <2>2. SameRun
    BY TypeOK, <1>25, OthersRun
  <2> QED BY <1>t, <2>1, <2>2, <1>25
      DEF Return, Change, Saved, Unsaved, SameRun, Wrote, ReturnRecord
<1>26. CASE Continue
  <2>1. PICK n : Wrote(n) /\ ContinueRecord(n)
    BY TypeOK, <1>26, ContinueWrites
  <2>2. SameRun
    BY TypeOK, <1>26, OthersRun
  <2> QED BY <1>t, <2>1, <2>2, <1>26
      DEF Continue, Change, Saved, Unsaved, SameRun, Wrote, ContinueRecord
<1>27. CASE ContinueBlocked
  <2>2. SameRun
    BY TypeOK, <1>27, OthersRun
  <2> QED BY <1>t, <2>2, <1>27
      DEF ContinueBlocked, SameRun, store
<1>28. CASE Revise
  <2>1. PICK n : Wrote(n) /\ ReviseRecord(n)
    BY TypeOK, <1>28, ReviseWrites
  <2>2. SameRun
    BY TypeOK, <1>28, OthersRun
  <2> QED BY <1>t, <2>1, <2>2, <1>28
      DEF Revise, Change, Saved, Unsaved, SameRun, Wrote, ReviseRecord
<1>29. ASSUME NEW d \in BOOLEAN, Reconcile(d)
      PROVE  EffectAgrees'
  <2>1. PICK n : Wrote(n) /\ ReconcileRecord(n, d)
    BY TypeOK, <1>29, ReconcileWrites
  <2> USE DEF ReconcileRecord
  <2>2. SameRun
    BY TypeOK, <1>29, OthersRun
  <2>3. state.effect.status # "pending" /\ ~out'.call /\ ~out'.reply
    BY <1>29 DEF Reconcile, NoneOut
  <2> QED BY <2>2, <2>3 DEF SameRun
<1>30. CASE Cancel
  <2>1. PICK n : Wrote(n) /\ CancelRecord(n)
    BY TypeOK, <1>30, CancelWrites
  <2>2. SameRun
    BY TypeOK, <1>30, OthersRun
  <2> QED BY <1>t, <2>1, <2>2, <1>30
      DEF Cancel, Change, Saved, Unsaved, SameRun, Wrote, CancelRecord
<1>31. ASSUME NEW i \in Input, InputBegin(i)
      PROVE  EffectAgrees'
  <2>1. PICK n : Wrote(n) /\ InputBeginRecord(n, i)
    BY TypeOK, <1>31, InputBeginWrites
  <2>2. SameRun
    BY TypeOK, <1>31, OthersRun
  <2> QED BY <1>t, <2>1, <2>2, <1>31
      DEF InputBegin, Saved, Unsaved, SameRun, Wrote, InputBeginRecord
<1>32. ASSUME NEW w \in Work, NEW r \in {"accepted","failed","unknown"}, InputAdmit(w, r)
      PROVE  EffectAgrees'
  <2>1. PICK n : Wrote(n) /\ InputAdmitRecord(n, w, r)
    BY TypeOK, <1>32, InputAdmitWrites
  <2> USE DEF InputAdmitRecord
  <2>2. SameRun
    BY TypeOK, <1>32, OthersRun
  <2>3. out'.call = out.call /\ out'.reply = out.reply /\ UNCHANGED <<host, reply>>
    BY <1>t, <2>1, <1>32 DEF InputAdmit
  <2> QED BY <2>1, <2>2, <2>3 DEF SameRun, Wrote
<1>33. ASSUME NEW r \in {"failed","unknown"}, InputRefused(r)
      PROVE  EffectAgrees'
  <2>2. SameRun
    BY TypeOK, <1>33, OthersRun
  <2> QED BY <1>t, <2>2, <1>33
      DEF InputRefused, SameRun, store
<1>34. CASE InputSettle
  <2>1. PICK n : Wrote(n) /\ InputSettleRecord(n)
    BY TypeOK, <1>34, InputSettleWrites
  <2>2. SameRun
    BY TypeOK, <1>34, OthersRun
  <2> QED BY <1>t, <2>1, <2>2, <1>34
      DEF InputSettle, Saved, Unsaved, NoSend, SameRun, Wrote, InputSettleRecord
<1>35. CASE Crash
  <2>1. loop'.pc = "idle"
    BY <1>35 DEF Crash, Idle
  <2> QED BY <1>t, CrashWrites, TypeOK, <2>1, <1>35
      DEF Crash, NoReply, NoSend, SameRun, store
<1>36. CASE RecoverAgain
  <2>2. SameRun
    BY TypeOK, <1>36, OthersRun
  <2> QED BY <1>t, <2>2, <1>36
      DEF RecoverAgain, SameRun, store
<1>37. ASSUME NEW u \in BOOLEAN, RecoverJudge(u)
      PROVE  EffectAgrees'
  <2>2. SameRun
    BY TypeOK, <1>37, OthersRun
  <2>3. host'.live = host.live
    <3>1. PICK r \in {"none", "clear", "delivery", "reason"}, b \in BOOLEAN :
            host' = [host EXCEPT !.recovery = r, !.blocked = b]
      BY <1>t, <1>37 DEF RecoverJudge, RecoveryEnds, Host
    <3> QED BY <1>h, <3>1
  <2>4. UNCHANGED <<reply, out, store>>
    BY <1>37 DEF RecoverJudge
  <2> QED BY <2>2, <2>3, <2>4 DEF SameRun, store
<1>38. CASE RecoverWrite
  <2>1. PICK n : Wrote(n) /\ RecoverWriteRecord(n)
    BY TypeOK, <1>38, RecoverWriteWrites
  <2> USE DEF RecoverWriteRecord
  <2>2. SameRun
    BY TypeOK, <1>38, OthersRun
  <2>3. host'.live = host.live
    BY <1>h, <1>38 DEF RecoverWrite, RecoveryEnds
  <2>4. UNCHANGED <<reply, out>>
    BY <1>38 DEF RecoverWrite
  <2> QED BY <2>1, <2>2, <2>3, <2>4 DEF SameRun, Wrote
<1> QED BY <1>1, <1>2, <1>3, <1>4, <1>5, <1>6, <1>7, <1>8, <1>9, <1>10, <1>11,
       <1>12, <1>13, <1>14, <1>15, <1>16, <1>17, <1>18, <1>19, <1>20, <1>21, <1>22,
       <1>23, <1>24, <1>25, <1>26, <1>27, <1>28, <1>29, <1>30, <1>31, <1>32, <1>33,
       <1>34, <1>35, <1>36, <1>37, <1>38
      DEF Next, TaskStep, Reports, Recovery, User

\* A fence that still holds has not changed.
LEMMA FreshStep ==
  ASSUME TypeOK, FenceAgrees, Next, ~Crash, Fresh', loop'.fence = loop.fence
  PROVE  Fresh /\ state'.fence = state.fence
<1>1. /\ state.fence \in Fence /\ loop.fence \in Fence /\ state'.fence \in Fence
  BY RecordsTyped DEF TypeOK, Task, Run
<1>2. FenceStep
  BY FenceSteps
<1>3. \A f \in {state.fence, loop.fence, state'.fence} :
             f = <<f[1], f[2]>> /\ f[1] \in Nat /\ f[2] \in Nat
  BY <1>1, FenceShape
<1> QED BY <1>2, <1>3 DEF FenceStep, FenceAgrees, Fresh

\* Nothing starts beside the run.
Shrinks ==
  /\ state'.delivery => state.delivery
  /\ activeWork(state') \subseteq activeWork(state)
  /\ out = NoneOut => out' = NoneOut

\* Whatever acts beside the run leaves nothing under way that was not, unless
\* the fence changes with it.
LEMMA OthersShrink ==
  ASSUME TypeOK
  PROVE  /\ \A w \in Work, o \in {"known","unknown"} : WorkEnds(w, o) => Shrinks
         /\ \A p \in Phase : ResourceState(p) => Shrinks
         /\ Speak => Shrinks
         /\ Withdraw => Shrinks
         /\ Drop \/ Forget => Shrinks
         /\ \A d \in Ending : ResponseEnds(d) => Shrinks
         /\ RecordDelivery => Shrinks
         /\ DeliveryInterrupted => Shrinks
         /\ Takeover => Shrinks
         /\ Return => Shrinks
         /\ Continue => Shrinks
         /\ ContinueBlocked => Shrinks
         /\ Revise => Shrinks
         /\ \A d \in BOOLEAN : Reconcile(d) => Shrinks
         /\ Cancel => Shrinks
         /\ \A i \in Input : InputBegin(i) => Shrinks
         /\ \A r \in {"failed","unknown"} : InputRefused(r) => Shrinks
         /\ InputSettle => Shrinks
         /\ RecoverAgain => Shrinks
         /\ \A u \in BOOLEAN : RecoverJudge(u) => Shrinks
         /\ RecoverWrite => Shrinks
<1> USE DEF Shrinks, SameExecutions
<1>t. out \in [call : BOOLEAN, reply : BOOLEAN, input : BOOLEAN, works : SUBSET Work]
  BY DEF TypeOK
<1>n. out = NoneOut => [out EXCEPT !.reply = FALSE] = NoneOut
  <2>1. ~NoneOut.reply
    BY DEF NoneOut
  <2> QED BY <1>t, <2>1
<1>a. /\ state' = state => state'.delivery = state.delivery /\ activeWork(state') = activeWork(state)
      /\ state'.works = state.works => activeWork(state') = activeWork(state)
  BY DEF activeWork, Works
<1>1. ASSUME NEW w \in Work, NEW o \in {"known","unknown"}, WorkEnds(w, o)
      PROVE  Shrinks
  <2>1. PICK n : Wrote(n) /\ WorkEndsRecord(n, w, o)
    BY TypeOK, <1>1, WorkEndsWrites
  <2>2. out = NoneOut => out' = NoneOut
    BY <1>1 DEF WorkEnds, NoneOut
  <2> QED BY <2>1, <2>2, <1>1 DEF Wrote, WorkEndsRecord, activeWork, Works
<1>2. ASSUME NEW p \in Phase, ResourceState(p)
      PROVE  Shrinks
  <2>1. PICK n : Wrote(n) /\ ResourceStateRecord(n, p)
    BY TypeOK, <1>2, ResourceStateWrites
  <2> QED BY <1>n, <1>a, <2>1, <1>2 DEF ResourceState, Wrote, ResourceStateRecord
<1>3. ASSUME Speak
      PROVE  Shrinks
  <2> QED BY <1>n, <1>a, <1>3 DEF Speak, store
<1>4. ASSUME Withdraw
      PROVE  Shrinks
  <2>1. PICK n : Wrote(n) /\ WithdrawRecord(n)
    BY TypeOK, <1>4, WithdrawWrites
  <2> QED BY <1>n, <1>a, <2>1, <1>4 DEF Withdraw, Wrote, WithdrawRecord
<1>5. ASSUME Drop \/ Forget
      PROVE  Shrinks
  <2> QED BY <1>n, <1>a, <1>5 DEF Drop, Forget, store
<1>6. ASSUME NEW d \in Ending, ResponseEnds(d)
      PROVE  Shrinks
  <2>1. PICK n : Wrote(n) /\ ResponseEndsRecord(n, d)
    BY TypeOK, <1>6, ResponseEndsWrites
  <2> QED BY <1>n, <1>a, <2>1, <1>6 DEF ResponseEnds, Wrote, ResponseEndsRecord
<1>7. ASSUME RecordDelivery
      PROVE  Shrinks
  <2>1. PICK n : Wrote(n) /\ RecordDeliveryRecord(n)
    BY TypeOK, <1>7, RecordDeliveryWrites
  <2> QED BY <1>n, <1>a, <2>1, <1>7 DEF RecordDelivery, Wrote, RecordDeliveryRecord
<1>8. ASSUME DeliveryInterrupted
      PROVE  Shrinks
  <2>1. PICK n : Wrote(n) /\ DeliveryInterruptedRecord(n)
    BY TypeOK, <1>8, DeliveryInterruptedWrites
  <2> QED BY <1>n, <1>a, <2>1, <1>8 DEF DeliveryInterrupted, Wrote, DeliveryInterruptedRecord
<1>9. ASSUME Takeover
      PROVE  Shrinks
  <2>1. PICK n : Wrote(n) /\ TakeoverRecord(n)
    BY TypeOK, <1>9, TakeoverWrites
  <2> QED BY <1>n, <1>a, <2>1, <1>9 DEF Takeover, Wrote, TakeoverRecord
<1>10. ASSUME Return
      PROVE  Shrinks
  <2>1. PICK n : Wrote(n) /\ ReturnRecord(n)
    BY TypeOK, <1>10, ReturnWrites
  <2> QED BY <1>n, <1>a, <2>1, <1>10 DEF Return, Wrote, ReturnRecord
<1>11. ASSUME Continue
      PROVE  Shrinks
  <2>1. PICK n : Wrote(n) /\ ContinueRecord(n)
    BY TypeOK, <1>11, ContinueWrites
  <2> QED BY <1>n, <1>a, <2>1, <1>11 DEF Continue, Wrote, ContinueRecord
<1>12. ASSUME ContinueBlocked
      PROVE  Shrinks
  <2> QED BY <1>n, <1>a, <1>12 DEF ContinueBlocked, store
<1>13. ASSUME Revise
      PROVE  Shrinks
  <2>1. PICK n : Wrote(n) /\ ReviseRecord(n)
    BY TypeOK, <1>13, ReviseWrites
  <2> QED BY <1>n, <1>a, <2>1, <1>13 DEF Revise, Wrote, ReviseRecord
<1>14. ASSUME NEW d \in BOOLEAN, Reconcile(d)
      PROVE  Shrinks
  <2>1. PICK n : Wrote(n) /\ ReconcileRecord(n, d)
    BY TypeOK, <1>14, ReconcileWrites
  <2>2. out = NoneOut => out' = NoneOut
    BY <1>14 DEF Reconcile, NoneOut
  <2> QED BY <2>1, <2>2, <1>14 DEF Wrote, ReconcileRecord, activeWork, Works
<1>15. ASSUME Cancel
      PROVE  Shrinks
  <2>1. PICK n : Wrote(n) /\ CancelRecord(n)
    BY TypeOK, <1>15, CancelWrites
  <2> QED BY <1>n, <1>a, <2>1, <1>15 DEF Cancel, Wrote, CancelRecord
<1>16. ASSUME NEW i \in Input, InputBegin(i)
      PROVE  Shrinks
  <2>1. PICK n : Wrote(n) /\ InputBeginRecord(n, i)
    BY TypeOK, <1>16, InputBeginWrites
  <2> QED BY <1>n, <1>a, <2>1, <1>16 DEF InputBegin, Wrote, InputBeginRecord
<1>17. ASSUME NEW r \in {"failed","unknown"}, InputRefused(r)
      PROVE  Shrinks
  <2> QED BY <1>n, <1>a, <1>17 DEF InputRefused, store
<1>18. ASSUME InputSettle
      PROVE  Shrinks
  <2>1. PICK n : Wrote(n) /\ InputSettleRecord(n)
    BY TypeOK, <1>18, InputSettleWrites
  <2> QED BY <1>n, <1>a, <2>1, <1>18 DEF InputSettle, Wrote, InputSettleRecord
<1>19. ASSUME RecoverAgain
      PROVE  Shrinks
  <2> QED BY <1>n, <1>a, <1>19 DEF RecoverAgain, store
<1>20. ASSUME NEW u \in BOOLEAN, RecoverJudge(u)
      PROVE  Shrinks
  <2> QED BY <1>n, <1>a, <1>20 DEF RecoverJudge, store
<1>21. ASSUME RecoverWrite
      PROVE  Shrinks
  <2>1. PICK n : Wrote(n) /\ RecoverWriteRecord(n)
    BY TypeOK, <1>21, RecoverWriteWrites
  <2> QED BY <1>n, <1>a, <2>1, <1>21 DEF RecoverWrite, Wrote, RecoverWriteRecord
<1> QED BY <1>1, <1>2, <1>3, <1>4, <1>5, <1>6, <1>7, <1>8, <1>9, <1>10, <1>11,
       <1>12, <1>13, <1>14, <1>15, <1>16, <1>17, <1>18, <1>19, <1>20, <1>21

\* A run whose fence holds keeps what it found.
LEMMA RunKept ==
  ASSUME TypeOK, FenceAgrees, OutAgrees, RunAgrees, Next
  PROVE  RunAgrees'
<1> USE DEF RunAgrees
<1>t. loop \in Run /\ state \in Task
      /\ out \in [call : BOOLEAN, reply : BOOLEAN, input : BOOLEAN, works : SUBSET Work]
  BY DEF TypeOK
<1>g. /\ \A pc \in PCs : Go(pc).pc = pc
      /\ \A r \in {"accepted", "failed", "unknown"} : Settles(r).pc = "settle" /\ Settles(r).result = r
      /\ Leave(loop).pc \in {"step", "idle"}
  BY <1>t, RunFrames
<1>c. /\ ~pendingEffect(state) /\ ~state.delivery /\ activeWork(state) = {}
      /\ ~hasUnknownWork(state) /\ ~UnknownInput(state)
      => out = NoneOut
  <2>1. ASSUME ~pendingEffect(state), ~state.delivery, activeWork(state) = {},
               ~hasUnknownWork(state), ~UnknownInput(state)
        PROVE  out = NoneOut
    <3>1. ~out.call /\ ~out.reply /\ ~out.input
      BY <2>1 DEF OutAgrees, OnRecord, Records, pendingEffect, UnknownInput
    <3>2. out.works = {}
      <4>1. ASSUME NEW w \in out.works PROVE FALSE
        <5>1. w \in Work /\ state.works[w] \in Bound /\ state.works[w].kind # "none"
              /\ state.works[w].outcome # "known"
          BY <1>t, <4>1 DEF OutAgrees, OnRecord, Records, Task
        <5>2. state.works[w].outcome \in {"none", "unknown"}
          BY <5>1 DEF Bound
        <5> QED BY <2>1, <5>1, <5>2 DEF activeWork, Works, hasUnknownWork
      <4> QED BY <4>1
    <3> QED BY <1>t, <3>1, <3>2 DEF NoneOut
  <2> QED BY <2>1
<1>f. SameRun /\ Fresh' /\ loop'.pc \notin {"idle", "step"} =>
        Fresh /\ state'.fence = state.fence
  <2>1. Crash => loop'.pc = "idle"
    BY DEF Crash, Idle
  <2> QED BY <2>1, FreshStep DEF SameRun
<1>u. Fresh /\ loop.pc \notin {"idle", "step"} => ~state.user
  BY DEF FenceAgrees, Midway
<1> HIDE DEF PCs
<1>1. CASE Step
  <2> QED BY <1>t, <1>f, <1>1
      DEF Step, Leave, Idle, Fresh, Run, store
<1>2. CASE GiveUp
  <2>1. PICK n : Wrote(n) /\ GiveUpRecord(n)
    BY TypeOK, <1>2, GiveUpWrites
  <2> QED BY <1>t, <1>f, <2>1, <1>2
      DEF GiveUp, Mutate, Saved, Unsaved, Leave, Idle, Run, Wrote, GiveUpRecord
<1>3. CASE WaitUnknown
  <2>1. PICK n : Wrote(n) /\ WaitUnknownRecord(n)
    BY TypeOK, <1>3, WaitUnknownWrites
  <2> QED BY <1>t, <1>f, <2>1, <1>3
      DEF WaitUnknown, Mutate, Saved, Unsaved, Leave, Idle, Go, Run, Wrote,
          WaitUnknownRecord
<1>4. CASE ReserveInitial
  <2>1. PICK n : Wrote(n) /\ ReserveInitialRecord(n)
    BY TypeOK, <1>4, ReserveInitialWrites
  <2> USE DEF ReserveInitialRecord
  <2>2. loop.pc = "reserve" /\ UNCHANGED out /\ {"giveUp", "mark"} \subseteq PCs
    BY <1>4 DEF ReserveInitial, PCs
  <2>3. loop'.pc = "giveUp" \/ (loop'.pc = "mark" /\ Reservable(state) /\ state.fence = loop.fence)
    BY <1>g, <2>2, <1>4 DEF ReserveInitial, Mutate, assertWritable
  <2>4. Reservable(state) /\ Fresh => out = NoneOut
    <3>1. Reservable(state) => /\ ~pendingEffect(state) /\ ~hasUnknownWork(state) /\ ~UnknownInput(state)
      BY DEF Reservable
    <3> QED BY <2>2, <3>1, <1>c
  <2> QED BY <2>2, <2>3, <2>4 DEF Fresh
<1>5. ASSUME NEW d \in Decisions, NEW cites \in SUBSET evidence(state), NEW r \in BOOLEAN, r => state.fence[2] < MaxGoals, Evaluate(d, cites, r)
      PROVE  RunAgrees'
  <2> QED BY <1>t, <1>f, <1>5
      DEF Evaluate, Run, store
<1>6. CASE EvaluateFails
  <2> QED BY <1>t, <1>f, <1>6
      DEF EvaluateFails, Go, Run, store
<1>7. CASE Apply
  <2>1. PICK n : Wrote(n) /\ ApplyRecord(n)
    BY TypeOK, FenceAgrees, <1>7, ApplyWrites
  <2> USE DEF ApplyRecord
  <2>2. loop.pc = "apply" /\ UNCHANGED out /\ {"giveUp", "mark"} \subseteq PCs
    BY <1>7 DEF Apply, PCs
  <2>3. loop'.pc \in {"step", "idle", "giveUp", "mark"}
    <3>1. loop' \in {Leave(loop), [Idle EXCEPT !.pc = "step"], Go("giveUp"), Go("mark")}
      BY <1>t, <1>7 DEF Apply, Mutate, Run
    <3> QED BY <1>g, <2>2, <3>1 DEF Idle
  <2>4. loop'.pc = "mark" => Decidable(state)
    BY <2>1
  <2>5. Decidable(state) => out = NoneOut
    <3>1. Decidable(state) => /\ ~pendingEffect(state) /\ ~state.delivery /\ activeWork(state) = {}
                              /\ ~hasUnknownWork(state) /\ ~UnknownInput(state)
      BY DEF Decidable
    <3> QED BY <3>1, <1>c
  <2> QED BY <2>2, <2>3, <2>4, <2>5
<1>8. CASE MarkEffectDispatching
  <2>1. loop.pc = "mark" /\ UNCHANGED out /\ state'.fence = state.fence /\ loop'.fence = loop.fence
    <3>1. PICK n : Wrote(n) /\ MarkEffectDispatchingRecord(n)
      BY TypeOK, <1>8, MarkEffectDispatchingWrites
    <3>2. loop' \in {Go("execute"), Settles("failed")}
      BY <1>8 DEF MarkEffectDispatching, Mutate
    <3> QED BY <1>t, <3>1, <3>2, <1>8 DEF MarkEffectDispatching, MarkEffectDispatchingRecord,
               Wrote, SameOwner, Go, Settles, Run
  <2>2. loop'.pc # "reserve"
    BY <1>t, <1>8 DEF MarkEffectDispatching, Mutate, Go, Settles, Run
  <2> QED BY <2>1, <2>2 DEF Fresh
<1>9. CASE Execute
  <2> QED BY <1>t, <1>f, <1>9
      DEF Execute, Go, Settles, Run, store
<1>10. ASSUME NEW w \in Work, BindWork(w)
      PROVE  RunAgrees'
  <2>1. PICK n : Wrote(n) /\ BindWorkRecord(n, w)
    BY TypeOK, <1>10, BindWorkWrites
  <2> QED BY <1>t, <1>f, <2>1, <1>10
      DEF BindWork, Mutate, Saved, Unsaved, Go, Settles, Run, Wrote, BindWorkRecord
<1>11. CASE Refuse
  <2> QED BY <1>t, <1>f, <1>11
      DEF Refuse, Settles, Run, store
<1>12. CASE Flush
  <2> QED BY <1>t, <1>f, <1>12
      DEF Flush, Settles, Run, store
<1>13. CASE BeginDelivery
  <2>1. PICK n : Wrote(n) /\ BeginDeliveryRecord(n)
    BY TypeOK, <1>13, BeginDeliveryWrites
  <2> QED BY <1>t, <1>f, <2>1, <1>13
      DEF BeginDelivery, Mutate, Saved, Unsaved, Go, Settles, Run, Wrote,
          BeginDeliveryRecord
<1>14. CASE Deliver
  <2>1. PICK n : Wrote(n) /\ DeliverRecord(n)
    BY TypeOK, <1>14, DeliverWrites
  <2> QED BY <1>t, <1>f, <2>1, <1>14
      DEF Deliver, Mutate, Saved, Unsaved, Settles, NoReply, Run, Wrote,
          DeliverRecord
<1>15. CASE SettleEffect
  <2>1. loop' \in {Leave(loop), Go("giveUp"), Settles("unknown")} /\ "giveUp" \in PCs
    BY <1>15 DEF SettleEffect, Mutate, PCs
  <2>2. loop'.pc \in {"step", "idle", "giveUp", "settle"}
    BY <1>g, <2>1
  <2> QED BY <2>2
<1>16. ASSUME NEW w \in Work, NEW o \in {"known","unknown"}, WorkEnds(w, o)
      PROVE  RunAgrees'
  <2>1. SameRun /\ Shrinks
    BY TypeOK, <1>16, OthersRun, OthersShrink
  <2> QED BY <1>f, <2>1 DEF SameRun, Shrinks
<1>17. ASSUME NEW p \in Phase, ResourceState(p)
      PROVE  RunAgrees'
  <2>1. SameRun /\ Shrinks
    BY TypeOK, <1>17, OthersRun, OthersShrink
  <2> QED BY <1>f, <2>1 DEF SameRun, Shrinks
<1>18. CASE Speak
  <2>1. SameRun /\ Shrinks
    BY TypeOK, <1>18, OthersRun, OthersShrink
  <2> QED BY <1>f, <2>1 DEF SameRun, Shrinks
<1>19. CASE Withdraw
  <2>1. SameRun /\ Shrinks
    BY TypeOK, <1>19, OthersRun, OthersShrink
  <2> QED BY <1>f, <2>1 DEF SameRun, Shrinks
<1>20. CASE Drop \/ Forget
  <2>1. SameRun /\ Shrinks
    BY TypeOK, <1>20, OthersRun, OthersShrink
  <2> QED BY <1>f, <2>1 DEF SameRun, Shrinks
<1>21. ASSUME NEW d \in Ending, ResponseEnds(d)
      PROVE  RunAgrees'
  <2>1. SameRun /\ Shrinks
    BY TypeOK, <1>21, OthersRun, OthersShrink
  <2> QED BY <1>f, <2>1 DEF SameRun, Shrinks
<1>22. CASE RecordDelivery
  <2>1. SameRun /\ Shrinks
    BY TypeOK, <1>22, OthersRun, OthersShrink
  <2> QED BY <1>f, <2>1 DEF SameRun, Shrinks
<1>23. CASE DeliveryInterrupted
  <2>1. SameRun /\ Shrinks
    BY TypeOK, <1>23, OthersRun, OthersShrink
  <2> QED BY <1>f, <2>1 DEF SameRun, Shrinks
<1>24. CASE Takeover
  <2>1. SameRun /\ Shrinks
    BY TypeOK, <1>24, OthersRun, OthersShrink
  <2> QED BY <1>f, <2>1 DEF SameRun, Shrinks
<1>25. CASE Return
  <2>1. SameRun /\ Shrinks
    BY TypeOK, <1>25, OthersRun, OthersShrink
  <2> QED BY <1>f, <2>1 DEF SameRun, Shrinks
<1>26. CASE Continue
  <2>1. SameRun /\ Shrinks
    BY TypeOK, <1>26, OthersRun, OthersShrink
  <2> QED BY <1>f, <2>1 DEF SameRun, Shrinks
<1>27. CASE ContinueBlocked
  <2>1. SameRun /\ Shrinks
    BY TypeOK, <1>27, OthersRun, OthersShrink
  <2> QED BY <1>f, <2>1 DEF SameRun, Shrinks
<1>28. CASE Revise
  <2>1. SameRun /\ Shrinks
    BY TypeOK, <1>28, OthersRun, OthersShrink
  <2> QED BY <1>f, <2>1 DEF SameRun, Shrinks
<1>29. ASSUME NEW d \in BOOLEAN, Reconcile(d)
      PROVE  RunAgrees'
  <2>1. SameRun /\ Shrinks
    BY TypeOK, <1>29, OthersRun, OthersShrink
  <2> QED BY <1>f, <2>1 DEF SameRun, Shrinks
<1>30. CASE Cancel
  <2>1. SameRun /\ Shrinks
    BY TypeOK, <1>30, OthersRun, OthersShrink
  <2> QED BY <1>f, <2>1 DEF SameRun, Shrinks
<1>31. ASSUME NEW i \in Input, InputBegin(i)
      PROVE  RunAgrees'
  <2>1. SameRun /\ Shrinks
    BY TypeOK, <1>31, OthersRun, OthersShrink
  <2> QED BY <1>f, <2>1 DEF SameRun, Shrinks
<1>32. ASSUME NEW w \in Work, NEW r \in {"accepted","failed","unknown"}, InputAdmit(w, r)
      PROVE  RunAgrees'
  <2>1. SameRun
    BY TypeOK, <1>32, OthersRun
  <2>2. state.user
    BY <1>32 DEF InputAdmit, UserWritable
  <2> QED BY <1>f, <1>u, <2>1, <2>2 DEF SameRun
<1>33. ASSUME NEW r \in {"failed","unknown"}, InputRefused(r)
      PROVE  RunAgrees'
  <2>1. SameRun /\ Shrinks
    BY TypeOK, <1>33, OthersRun, OthersShrink
  <2> QED BY <1>f, <2>1 DEF SameRun, Shrinks
<1>34. CASE InputSettle
  <2>1. SameRun /\ Shrinks
    BY TypeOK, <1>34, OthersRun, OthersShrink
  <2> QED BY <1>f, <2>1 DEF SameRun, Shrinks
<1>35. CASE Crash
  <2>1. loop'.pc = "idle"
    BY <1>35 DEF Crash, Idle
  <2> QED BY <2>1
<1>36. CASE RecoverAgain
  <2>1. SameRun /\ Shrinks
    BY TypeOK, <1>36, OthersRun, OthersShrink
  <2> QED BY <1>f, <2>1 DEF SameRun, Shrinks
<1>37. ASSUME NEW u \in BOOLEAN, RecoverJudge(u)
      PROVE  RunAgrees'
  <2>1. SameRun /\ Shrinks
    BY TypeOK, <1>37, OthersRun, OthersShrink
  <2> QED BY <1>f, <2>1 DEF SameRun, Shrinks
<1>38. CASE RecoverWrite
  <2>1. SameRun /\ Shrinks
    BY TypeOK, <1>38, OthersRun, OthersShrink
  <2> QED BY <1>f, <2>1 DEF SameRun, Shrinks
<1> QED BY <1>1, <1>2, <1>3, <1>4, <1>5, <1>6, <1>7, <1>8, <1>9, <1>10, <1>11,
       <1>12, <1>13, <1>14, <1>15, <1>16, <1>17, <1>18, <1>19, <1>20, <1>21, <1>22,
       <1>23, <1>24, <1>25, <1>26, <1>27, <1>28, <1>29, <1>30, <1>31, <1>32, <1>33,
       <1>34, <1>35, <1>36, <1>37, <1>38
      DEF Next, TaskStep, Reports, Recovery, User

\* What the user confirmed stays on record.
LEMMA AttestedFiled ==
  ASSUME TypeOK, FenceAgrees, AttestedAgrees, Next
  PROVE  (attested => state.proofs # {} /\ disk.proofs # {})'
<1> USE DEF SameExecutions
<1>a. attested => state.proofs # {} /\ disk.proofs # {}
  BY DEF AttestedAgrees, Records
<1>1. CASE Bookkeeping
  <2>1. PICK n : Wrote(n) /\ SameExecutions(n, state)
    BY TypeOK, <1>1, BookkeepingWrites
  <2>2. UNCHANGED <<running, reply, sending, out, attested>> /\ host'.live = host.live
    BY TypeOK, <1>1, BookkeepingWrites
  <2> QED BY <1>a, <2>1, <2>2 DEF Wrote
<1>2. CASE ReserveInitial
  <2>1. PICK n : Wrote(n) /\ ReserveInitialRecord(n)
    BY TypeOK, <1>2, ReserveInitialWrites
  <2> QED BY <1>a, <2>1, <1>2
      DEF Wrote, ReserveInitialRecord, ReserveInitial, Mutate, Saved, Unsaved
<1>3. ASSUME NEW d \in Decisions, NEW cites \in SUBSET evidence(state), NEW r \in BOOLEAN, r => state.fence[2] < MaxGoals, Evaluate(d, cites, r)
      PROVE  (attested => state.proofs # {} /\ disk.proofs # {})'
  BY <1>a, <1>3
    DEF Evaluate, store
<1>4. CASE EvaluateFails
  BY <1>a, <1>4
    DEF EvaluateFails, store
<1>5. CASE Apply
  <2>1. PICK n : Wrote(n) /\ ApplyRecord(n)
    BY TypeOK, FenceAgrees, <1>5, ApplyWrites
  <2> QED BY <1>a, <2>1, <1>5
      DEF Wrote, ApplyRecord, Apply, Mutate, Saved, Unsaved
<1>6. CASE MarkEffectDispatching
  <2>1. PICK n : Wrote(n) /\ MarkEffectDispatchingRecord(n)
    BY TypeOK, <1>6, MarkEffectDispatchingWrites
  <2> QED BY <1>a, <2>1, <1>6
      DEF Wrote, MarkEffectDispatchingRecord, MarkEffectDispatching, Mutate, Saved,
          Unsaved
<1>7. CASE Execute
  BY <1>a, <1>7
    DEF Execute, store
<1>8. ASSUME NEW w \in Work, BindWork(w)
      PROVE  (attested => state.proofs # {} /\ disk.proofs # {})'
  <2>1. PICK n : Wrote(n) /\ BindWorkRecord(n, w)
    BY TypeOK, <1>8, BindWorkWrites
  <2> QED BY <1>a, <2>1, <1>8
      DEF Wrote, BindWorkRecord, BindWork, Mutate, Saved, Unsaved
<1>9. CASE Refuse
  BY <1>a, <1>9
    DEF Refuse, store
<1>10. CASE Flush
  BY <1>a, <1>10
    DEF Flush, store
<1>11. CASE BeginDelivery
  <2>1. PICK n : Wrote(n) /\ BeginDeliveryRecord(n)
    BY TypeOK, <1>11, BeginDeliveryWrites
  <2> QED BY <1>a, <2>1, <1>11
      DEF Wrote, BeginDeliveryRecord, BeginDelivery, Mutate, Saved, Unsaved
<1>12. CASE Deliver
  <2>1. PICK n : Wrote(n) /\ DeliverRecord(n)
    BY TypeOK, <1>12, DeliverWrites
  <2> QED BY <1>a, <2>1, <1>12
      DEF Wrote, DeliverRecord, Deliver, Mutate, Saved, Unsaved, NoReply
<1>13. CASE SettleEffect
  <2>1. PICK n : Wrote(n) /\ SettleEffectRecord(n)
    BY TypeOK, <1>13, SettleEffectWrites
  <2> QED BY <1>a, <2>1, <1>13
      DEF Wrote, SettleEffectRecord, SettleEffect, Mutate, Saved, Unsaved
<1>14. ASSUME NEW w \in Work, NEW o \in {"known","unknown"}, WorkEnds(w, o)
      PROVE  (attested => state.proofs # {} /\ disk.proofs # {})'
  <2>1. PICK n : Wrote(n) /\ WorkEndsRecord(n, w, o)
    BY TypeOK, <1>14, WorkEndsWrites
  <2> QED BY <1>a, <2>1, <1>14
      DEF Wrote, WorkEndsRecord, WorkEnds, Change, Saved, Unsaved
<1>15. CASE Speak
  BY <1>a, <1>15
    DEF Speak, store
<1>16. CASE Withdraw
  <2>1. PICK n : Wrote(n) /\ WithdrawRecord(n)
    BY TypeOK, <1>16, WithdrawWrites
  <2> QED BY <1>a, <2>1, <1>16
      DEF Wrote, WithdrawRecord, Withdraw, Saved, Unsaved, NoReply
<1>17. CASE Drop \/ Forget
  BY <1>a, <1>17
    DEF Drop, Forget, NoReply, store
<1>18. ASSUME NEW d \in Ending, ResponseEnds(d)
      PROVE  (attested => state.proofs # {} /\ disk.proofs # {})'
  <2>1. PICK n : Wrote(n) /\ ResponseEndsRecord(n, d)
    BY TypeOK, <1>18, ResponseEndsWrites
  <2> QED BY <1>a, <2>1, <1>18
      DEF Wrote, ResponseEndsRecord, ResponseEnds, Saved, Unsaved, NoReply
<1>19. CASE RecordDelivery
  <2>1. PICK n : Wrote(n) /\ RecordDeliveryRecord(n)
    BY TypeOK, <1>19, RecordDeliveryWrites
  <2> QED BY <1>a, <2>1, <1>19
      DEF Wrote, RecordDeliveryRecord, RecordDelivery, Change, Saved, Unsaved,
          NoReply
<1>20. CASE DeliveryInterrupted
  <2>1. PICK n : Wrote(n) /\ DeliveryInterruptedRecord(n)
    BY TypeOK, <1>20, DeliveryInterruptedWrites
  <2> QED BY <1>a, <2>1, <1>20
      DEF Wrote, DeliveryInterruptedRecord, DeliveryInterrupted, Change, Saved,
          Unsaved, NoReply
<1>21. ASSUME NEW d \in BOOLEAN, Reconcile(d)
      PROVE  (attested => state.proofs # {} /\ disk.proofs # {})'
  <2>1. PICK n : Wrote(n) /\ ReconcileRecord(n, d)
    BY TypeOK, <1>21, ReconcileWrites
  <2> USE DEF ReconcileRecord
  <2>2. attested' = IF state' # state /\ state.effect.status = "unknown" THEN d ELSE attested
    BY <1>21 DEF Reconcile
  <2> QED BY <1>a, <2>1, <2>2 DEF Wrote
<1>22. ASSUME NEW i \in Input, InputBegin(i)
      PROVE  (attested => state.proofs # {} /\ disk.proofs # {})'
  <2>1. PICK n : Wrote(n) /\ InputBeginRecord(n, i)
    BY TypeOK, <1>22, InputBeginWrites
  <2> QED BY <1>a, <2>1, <1>22
      DEF Wrote, InputBeginRecord, InputBegin, Saved, Unsaved
<1>23. ASSUME NEW w \in Work, NEW r \in {"accepted","failed","unknown"}, InputAdmit(w, r)
      PROVE  (attested => state.proofs # {} /\ disk.proofs # {})'
  <2>1. PICK n : Wrote(n) /\ InputAdmitRecord(n, w, r)
    BY TypeOK, <1>23, InputAdmitWrites
  <2> QED BY <1>a, <2>1, <1>23
      DEF Wrote, InputAdmitRecord, InputAdmit, Saved, Unsaved
<1>24. ASSUME NEW r \in {"failed","unknown"}, InputRefused(r)
      PROVE  (attested => state.proofs # {} /\ disk.proofs # {})'
  BY <1>a, <1>24
    DEF InputRefused, store
<1>25. CASE InputSettle
  <2>1. PICK n : Wrote(n) /\ InputSettleRecord(n)
    BY TypeOK, <1>25, InputSettleWrites
  <2> QED BY <1>a, <2>1, <1>25
      DEF Wrote, InputSettleRecord, InputSettle, Saved, Unsaved, NoSend
<1>26. CASE Crash
  BY TypeOK, <1>a, CrashWrites, <1>26
    DEF Crash, NoReply, NoSend
<1> QED BY <1>1, <1>2, <1>3, <1>4, <1>5, <1>6, <1>7, <1>8, <1>9, <1>10, <1>11,
       <1>12, <1>13, <1>14, <1>15, <1>16, <1>17, <1>18, <1>19, <1>20, <1>21, <1>22,
       <1>23, <1>24, <1>25, <1>26
      DEF Next, Bookkeeping, TaskStep, Reports, Recovery, User

\* No run passes over what the user confirmed.
LEMMA AttestedPasses ==
  ASSUME TypeOK, FenceAgrees, AttestedAgrees, Next
  PROVE  (attested /\ loop.pc \in {"reserve", "apply", "mark", "execute"} => ~Fresh)'
<1>t. loop \in Run /\ state \in Task
      /\ out \in [call : BOOLEAN, reply : BOOLEAN, input : BOOLEAN, works : SUBSET Work]
  BY DEF TypeOK
<1>g. /\ \A pc \in PCs : Go(pc).pc = pc
      /\ \A r \in {"accepted", "failed", "unknown"} : Settles(r).pc = "settle" /\ Settles(r).result = r
      /\ Leave(loop).pc \in {"step", "idle"}
  BY <1>t, RunFrames
<1>f. SameRun /\ Fresh' /\ loop'.pc \notin {"idle", "step"} =>
        Fresh /\ state'.fence = state.fence
  <2>1. Crash => loop'.pc = "idle"
    BY DEF Crash, Idle
  <2> QED BY <2>1, FreshStep DEF SameRun
<1> HIDE DEF PCs
<1>a. attested /\ loop.pc \in {"reserve", "apply", "mark", "execute"} => ~Fresh
  BY DEF AttestedAgrees
<1>p. attested => state.proofs # {}
  BY DEF AttestedAgrees, Records
<1>1. CASE Step
  <2>1. /\ UNCHANGED <<state, attested>> /\ loop'.pc \notin {"apply", "mark", "execute"}
        /\ loop'.pc = "reserve" => ~HasEvidence(state)
    BY <1>t, <1>1 DEF Step, Leave, Idle, Run, store
  <2> QED BY <1>p, <2>1 DEF HasEvidence
<1>2. CASE GiveUp
  <2>1. loop' \in {Leave(loop), Go("giveUp")} /\ "giveUp" \in PCs
    BY <1>2 DEF GiveUp, Mutate, PCs
  <2>2. loop'.pc \in {"step", "idle", "giveUp"}
    BY <1>g, <2>1
  <2> QED BY <2>2
<1>3. CASE WaitUnknown
  <2>1. loop' \in {Leave(loop), Go("giveUp")} /\ "giveUp" \in PCs
    BY <1>3 DEF WaitUnknown, Mutate, PCs
  <2>2. loop'.pc \in {"step", "idle", "giveUp"}
    BY <1>g, <2>1
  <2> QED BY <2>2
<1>4. CASE ReserveInitial
  <2>1. /\ loop.pc = "reserve" /\ UNCHANGED attested
        /\ {"giveUp", "mark"} \subseteq PCs
    BY <1>4 DEF ReserveInitial, PCs
  <2>2. loop'.pc = "giveUp" \/ (loop'.pc = "mark" /\ state.fence = loop.fence)
    BY <1>g, <2>1, <1>4 DEF ReserveInitial, Mutate, assertWritable
  <2> QED BY <1>a, <2>1, <2>2 DEF Fresh
<1>5. ASSUME NEW d \in Decisions, NEW cites \in SUBSET evidence(state), NEW r \in BOOLEAN, r => state.fence[2] < MaxGoals, Evaluate(d, cites, r)
      PROVE  (attested /\ loop.pc \in {"reserve", "apply", "mark", "execute"} => ~Fresh)'
  <2> QED BY <1>t, <1>a, <1>5
      DEF Evaluate, Run, store
<1>6. CASE EvaluateFails
  <2> QED BY <1>t, <1>a, <1>6
      DEF EvaluateFails, Go, Run, store
<1>7. CASE Apply
  <2>1. PICK n : Wrote(n) /\ ApplyRecord(n)
    BY TypeOK, FenceAgrees, <1>7, ApplyWrites
  <2> USE DEF ApplyRecord
  <2>2. loop.pc = "apply" /\ UNCHANGED attested /\ {"giveUp", "mark"} \subseteq PCs
    BY <1>7 DEF Apply, PCs
  <2>3. loop'.pc \in {"step", "idle", "giveUp", "mark"}
    <3>1. loop' \in {Leave(loop), [Idle EXCEPT !.pc = "step"], Go("giveUp"), Go("mark")}
      BY <1>t, <1>7 DEF Apply, Mutate, Run
    <3> QED BY <1>g, <2>2, <3>1 DEF Idle
  <2>4. loop'.pc = "mark" => Decidable(state)
    BY <2>1
  <2> QED BY <1>a, <2>2, <2>3, <2>4 DEF Decidable, assertWritable, Fresh
<1>8. CASE MarkEffectDispatching
  <2>1. loop.pc = "mark" /\ UNCHANGED attested /\ "execute" \in PCs
    BY <1>8 DEF MarkEffectDispatching, PCs
  <2>2. loop'.pc = "settle" \/ (loop'.pc = "execute" /\ state.fence = loop.fence)
    BY <1>g, <2>1, <1>8 DEF MarkEffectDispatching, Mutate, Executable, assertWritable
  <2> QED BY <1>a, <2>1, <2>2 DEF Fresh
<1>9. CASE Execute
  <2> QED BY <1>t, <1>a, <1>9
      DEF Execute, Go, Settles, Run, store
<1>10. ASSUME NEW w \in Work, BindWork(w)
      PROVE  (attested /\ loop.pc \in {"reserve", "apply", "mark", "execute"} => ~Fresh)'
  <2>1. loop' \in {Go("flush"), Settles("unknown"), Settles("failed")} /\ "flush" \in PCs
    BY <1>10 DEF BindWork, Mutate, PCs
  <2>2. loop'.pc \in {"flush", "settle"}
    BY <1>g, <2>1
  <2> QED BY <2>2
<1>11. CASE Refuse
  <2> QED BY <1>t, <1>a, <1>11
      DEF Refuse, Settles, Run, store
<1>12. CASE Flush
  <2> QED BY <1>t, <1>a, <1>12
      DEF Flush, Settles, Run, store
<1>13. CASE BeginDelivery
  <2>1. loop' \in {Go("deliver"), Settles("unknown"), Settles("failed")} /\ "deliver" \in PCs
    BY <1>13 DEF BeginDelivery, Mutate, PCs
  <2>2. loop'.pc \in {"deliver", "settle"}
    BY <1>g, <2>1
  <2> QED BY <2>2
<1>14. CASE Deliver
  <2>1. loop' \in {Settles("accepted"), Settles("unknown"), Settles("failed")}
    BY <1>14 DEF Deliver, Mutate
  <2>2. loop'.pc = "settle"
    BY <1>g, <2>1
  <2> QED BY <2>2
<1>15. CASE SettleEffect
  <2>1. loop' \in {Leave(loop), Go("giveUp"), Settles("unknown")} /\ "giveUp" \in PCs
    BY <1>15 DEF SettleEffect, Mutate, PCs
  <2>2. loop'.pc \in {"step", "idle", "giveUp", "settle"}
    BY <1>g, <2>1
  <2> QED BY <2>2
<1>16. ASSUME NEW w \in Work, NEW o \in {"known","unknown"}, WorkEnds(w, o)
      PROVE  (attested /\ loop.pc \in {"reserve", "apply", "mark", "execute"} => ~Fresh)'
  <2>1. SameRun /\ UNCHANGED attested
    BY TypeOK, <1>16, OthersRun DEF WorkEnds
  <2> QED BY <1>a, <1>f, <2>1 DEF SameRun
<1>17. ASSUME NEW p \in Phase, ResourceState(p)
      PROVE  (attested /\ loop.pc \in {"reserve", "apply", "mark", "execute"} => ~Fresh)'
  <2>1. SameRun /\ UNCHANGED attested
    BY TypeOK, <1>17, OthersRun DEF ResourceState
  <2> QED BY <1>a, <1>f, <2>1 DEF SameRun
<1>18. CASE Speak
  <2>1. SameRun /\ UNCHANGED attested
    BY TypeOK, <1>18, OthersRun DEF Speak
  <2> QED BY <1>a, <1>f, <2>1 DEF SameRun
<1>19. CASE Withdraw
  <2>1. SameRun /\ UNCHANGED attested
    BY TypeOK, <1>19, OthersRun DEF Withdraw
  <2> QED BY <1>a, <1>f, <2>1 DEF SameRun
<1>20. CASE Drop \/ Forget
  <2>1. SameRun /\ UNCHANGED attested
    BY TypeOK, <1>20, OthersRun DEF Drop, Forget
  <2> QED BY <1>a, <1>f, <2>1 DEF SameRun
<1>21. ASSUME NEW d \in Ending, ResponseEnds(d)
      PROVE  (attested /\ loop.pc \in {"reserve", "apply", "mark", "execute"} => ~Fresh)'
  <2>1. SameRun /\ UNCHANGED attested
    BY TypeOK, <1>21, OthersRun DEF ResponseEnds
  <2> QED BY <1>a, <1>f, <2>1 DEF SameRun
<1>22. CASE RecordDelivery
  <2>1. SameRun /\ UNCHANGED attested
    BY TypeOK, <1>22, OthersRun DEF RecordDelivery
  <2> QED BY <1>a, <1>f, <2>1 DEF SameRun
<1>23. CASE DeliveryInterrupted
  <2>1. SameRun /\ UNCHANGED attested
    BY TypeOK, <1>23, OthersRun DEF DeliveryInterrupted
  <2> QED BY <1>a, <1>f, <2>1 DEF SameRun
<1>24. CASE Takeover
  <2>1. SameRun /\ UNCHANGED attested
    BY TypeOK, <1>24, OthersRun DEF Takeover
  <2> QED BY <1>a, <1>f, <2>1 DEF SameRun
<1>25. CASE Return
  <2>1. SameRun /\ UNCHANGED attested
    BY TypeOK, <1>25, OthersRun DEF Return
  <2> QED BY <1>a, <1>f, <2>1 DEF SameRun
<1>26. CASE Continue
  <2>1. SameRun /\ UNCHANGED attested
    BY TypeOK, <1>26, OthersRun DEF Continue
  <2> QED BY <1>a, <1>f, <2>1 DEF SameRun
<1>27. CASE ContinueBlocked
  <2>1. SameRun /\ UNCHANGED attested
    BY TypeOK, <1>27, OthersRun DEF ContinueBlocked
  <2> QED BY <1>a, <1>f, <2>1 DEF SameRun
<1>28. CASE Revise
  <2>1. SameRun /\ UNCHANGED attested
    BY TypeOK, <1>28, OthersRun DEF Revise
  <2> QED BY <1>a, <1>f, <2>1 DEF SameRun
<1>29. ASSUME NEW d \in BOOLEAN, Reconcile(d)
      PROVE  (attested /\ loop.pc \in {"reserve", "apply", "mark", "execute"} => ~Fresh)'
  <2>1. PICK n : Wrote(n) /\ ReconcileRecord(n, d)
    BY TypeOK, <1>29, ReconcileWrites
  <2> USE DEF ReconcileRecord
  <2>2. SameRun
    BY TypeOK, <1>29, OthersRun
  <2>3. attested' = attested \/ state' # state
    BY <1>29 DEF Reconcile
  <2>4. n.fence # state.fence
    <3>1. state.fence \in Fence
      BY <1>t DEF Task
    <3>2. state.fence[1] \in Nat
      BY <3>1, FenceShape
    <3> QED BY <2>1, <3>2
  <2> QED BY <1>a, <1>f, <2>1, <2>2, <2>3, <2>4 DEF SameRun, Wrote
<1>30. CASE Cancel
  <2>1. SameRun /\ UNCHANGED attested
    BY TypeOK, <1>30, OthersRun DEF Cancel
  <2> QED BY <1>a, <1>f, <2>1 DEF SameRun
<1>31. ASSUME NEW i \in Input, InputBegin(i)
      PROVE  (attested /\ loop.pc \in {"reserve", "apply", "mark", "execute"} => ~Fresh)'
  <2>1. SameRun /\ UNCHANGED attested
    BY TypeOK, <1>31, OthersRun DEF InputBegin
  <2> QED BY <1>a, <1>f, <2>1 DEF SameRun
<1>32. ASSUME NEW w \in Work, NEW r \in {"accepted","failed","unknown"}, InputAdmit(w, r)
      PROVE  (attested /\ loop.pc \in {"reserve", "apply", "mark", "execute"} => ~Fresh)'
  <2>1. SameRun /\ UNCHANGED attested
    BY TypeOK, <1>32, OthersRun DEF InputAdmit
  <2> QED BY <1>a, <1>f, <2>1 DEF SameRun
<1>33. ASSUME NEW r \in {"failed","unknown"}, InputRefused(r)
      PROVE  (attested /\ loop.pc \in {"reserve", "apply", "mark", "execute"} => ~Fresh)'
  <2>1. SameRun /\ UNCHANGED attested
    BY TypeOK, <1>33, OthersRun DEF InputRefused
  <2> QED BY <1>a, <1>f, <2>1 DEF SameRun
<1>34. CASE InputSettle
  <2>1. SameRun /\ UNCHANGED attested
    BY TypeOK, <1>34, OthersRun DEF InputSettle
  <2> QED BY <1>a, <1>f, <2>1 DEF SameRun
<1>35. CASE Crash
  <2>1. loop'.pc = "idle"
    BY <1>35 DEF Crash, Idle
  <2> QED BY <2>1
<1>36. CASE RecoverAgain
  <2>1. SameRun /\ UNCHANGED attested
    BY TypeOK, <1>36, OthersRun DEF RecoverAgain
  <2> QED BY <1>a, <1>f, <2>1 DEF SameRun
<1>37. ASSUME NEW u \in BOOLEAN, RecoverJudge(u)
      PROVE  (attested /\ loop.pc \in {"reserve", "apply", "mark", "execute"} => ~Fresh)'
  <2>1. SameRun /\ UNCHANGED attested
    BY TypeOK, <1>37, OthersRun DEF RecoverJudge
  <2> QED BY <1>a, <1>f, <2>1 DEF SameRun
<1>38. CASE RecoverWrite
  <2>1. SameRun /\ UNCHANGED attested
    BY TypeOK, <1>38, OthersRun DEF RecoverWrite
  <2> QED BY <1>a, <1>f, <2>1 DEF SameRun
<1> QED BY <1>1, <1>2, <1>3, <1>4, <1>5, <1>6, <1>7, <1>8, <1>9, <1>10, <1>11,
       <1>12, <1>13, <1>14, <1>15, <1>16, <1>17, <1>18, <1>19, <1>20, <1>21, <1>22,
       <1>23, <1>24, <1>25, <1>26, <1>27, <1>28, <1>29, <1>30, <1>31, <1>32, <1>33,
       <1>34, <1>35, <1>36, <1>37, <1>38
      DEF Next, TaskStep, Reports, Recovery, User

\* A dispatch follows a last look at the fence.
LEMMA DispatchIsFresh ==
  ASSUME TypeOK, Next
  PROVE  (loop.pc = "execute" /\ loop'.pc = "dispatch" => Fresh)
<1>t. loop \in Run
  BY DEF TypeOK
<1>1. CASE Step
  BY <1>1 DEF Step
<1>2. CASE GiveUp
  BY <1>2 DEF GiveUp
<1>3. CASE WaitUnknown
  BY <1>3 DEF WaitUnknown
<1>4. CASE ReserveInitial
  BY <1>4 DEF ReserveInitial
<1>5. ASSUME NEW d \in Decisions, NEW cites \in SUBSET evidence(state), NEW r \in BOOLEAN, r => state.fence[2] < MaxGoals, Evaluate(d, cites, r)
      PROVE  (loop.pc = "execute" /\ loop'.pc = "dispatch" => Fresh)
  BY <1>5 DEF Evaluate
<1>6. CASE EvaluateFails
  BY <1>6 DEF EvaluateFails
<1>7. CASE Apply
  BY <1>7 DEF Apply
<1>8. CASE MarkEffectDispatching
  BY <1>8 DEF MarkEffectDispatching
<1>9. CASE Execute
  BY <1>t, <1>9 DEF Execute, Settles, Run, Executable, assertWritable, Fresh
<1>10. ASSUME NEW w \in Work, BindWork(w)
      PROVE  (loop.pc = "execute" /\ loop'.pc = "dispatch" => Fresh)
  BY <1>10 DEF BindWork
<1>11. CASE Refuse
  BY <1>11 DEF Refuse
<1>12. CASE Flush
  BY <1>12 DEF Flush
<1>13. CASE BeginDelivery
  BY <1>13 DEF BeginDelivery
<1>14. CASE Deliver
  BY <1>14 DEF Deliver
<1>15. CASE SettleEffect
  BY <1>15 DEF SettleEffect
<1>16. ASSUME NEW w \in Work, NEW o \in {"known","unknown"}, WorkEnds(w, o)
      PROVE  (loop.pc = "execute" /\ loop'.pc = "dispatch" => Fresh)
  <2>1. SameRun
    BY TypeOK, <1>16, OthersRun
  <2> QED BY <2>1 DEF SameRun
<1>17. ASSUME NEW p \in Phase, ResourceState(p)
      PROVE  (loop.pc = "execute" /\ loop'.pc = "dispatch" => Fresh)
  <2>1. SameRun
    BY TypeOK, <1>17, OthersRun
  <2> QED BY <2>1 DEF SameRun
<1>18. CASE Speak
  <2>1. SameRun
    BY TypeOK, <1>18, OthersRun
  <2> QED BY <2>1 DEF SameRun
<1>19. CASE Withdraw
  <2>1. SameRun
    BY TypeOK, <1>19, OthersRun
  <2> QED BY <2>1 DEF SameRun
<1>20. CASE Drop \/ Forget
  <2>1. SameRun
    BY TypeOK, <1>20, OthersRun
  <2> QED BY <2>1 DEF SameRun
<1>21. ASSUME NEW d \in Ending, ResponseEnds(d)
      PROVE  (loop.pc = "execute" /\ loop'.pc = "dispatch" => Fresh)
  <2>1. SameRun
    BY TypeOK, <1>21, OthersRun
  <2> QED BY <2>1 DEF SameRun
<1>22. CASE RecordDelivery
  <2>1. SameRun
    BY TypeOK, <1>22, OthersRun
  <2> QED BY <2>1 DEF SameRun
<1>23. CASE DeliveryInterrupted
  <2>1. SameRun
    BY TypeOK, <1>23, OthersRun
  <2> QED BY <2>1 DEF SameRun
<1>24. CASE Takeover
  <2>1. SameRun
    BY TypeOK, <1>24, OthersRun
  <2> QED BY <2>1 DEF SameRun
<1>25. CASE Return
  <2>1. SameRun
    BY TypeOK, <1>25, OthersRun
  <2> QED BY <2>1 DEF SameRun
<1>26. CASE Continue
  <2>1. SameRun
    BY TypeOK, <1>26, OthersRun
  <2> QED BY <2>1 DEF SameRun
<1>27. CASE ContinueBlocked
  <2>1. SameRun
    BY TypeOK, <1>27, OthersRun
  <2> QED BY <2>1 DEF SameRun
<1>28. CASE Revise
  <2>1. SameRun
    BY TypeOK, <1>28, OthersRun
  <2> QED BY <2>1 DEF SameRun
<1>29. ASSUME NEW d \in BOOLEAN, Reconcile(d)
      PROVE  (loop.pc = "execute" /\ loop'.pc = "dispatch" => Fresh)
  <2>1. SameRun
    BY TypeOK, <1>29, OthersRun
  <2> QED BY <2>1 DEF SameRun
<1>30. CASE Cancel
  <2>1. SameRun
    BY TypeOK, <1>30, OthersRun
  <2> QED BY <2>1 DEF SameRun
<1>31. ASSUME NEW i \in Input, InputBegin(i)
      PROVE  (loop.pc = "execute" /\ loop'.pc = "dispatch" => Fresh)
  <2>1. SameRun
    BY TypeOK, <1>31, OthersRun
  <2> QED BY <2>1 DEF SameRun
<1>32. ASSUME NEW w \in Work, NEW r \in {"accepted","failed","unknown"}, InputAdmit(w, r)
      PROVE  (loop.pc = "execute" /\ loop'.pc = "dispatch" => Fresh)
  <2>1. SameRun
    BY TypeOK, <1>32, OthersRun
  <2> QED BY <2>1 DEF SameRun
<1>33. ASSUME NEW r \in {"failed","unknown"}, InputRefused(r)
      PROVE  (loop.pc = "execute" /\ loop'.pc = "dispatch" => Fresh)
  <2>1. SameRun
    BY TypeOK, <1>33, OthersRun
  <2> QED BY <2>1 DEF SameRun
<1>34. CASE InputSettle
  <2>1. SameRun
    BY TypeOK, <1>34, OthersRun
  <2> QED BY <2>1 DEF SameRun
<1>35. CASE Crash
  <2>1. SameRun
    BY TypeOK, <1>35, OthersRun
  <2> QED BY <2>1 DEF SameRun
<1>36. CASE RecoverAgain
  <2>1. SameRun
    BY TypeOK, <1>36, OthersRun
  <2> QED BY <2>1 DEF SameRun
<1>37. ASSUME NEW u \in BOOLEAN, RecoverJudge(u)
      PROVE  (loop.pc = "execute" /\ loop'.pc = "dispatch" => Fresh)
  <2>1. SameRun
    BY TypeOK, <1>37, OthersRun
  <2> QED BY <2>1 DEF SameRun
<1>38. CASE RecoverWrite
  <2>1. SameRun
    BY TypeOK, <1>38, OthersRun
  <2> QED BY <2>1 DEF SameRun
<1> QED BY <1>1, <1>2, <1>3, <1>4, <1>5, <1>6, <1>7, <1>8, <1>9, <1>10, <1>11,
       <1>12, <1>13, <1>14, <1>15, <1>16, <1>17, <1>18, <1>19, <1>20, <1>21, <1>22,
       <1>23, <1>24, <1>25, <1>26, <1>27, <1>28, <1>29, <1>30, <1>31, <1>32, <1>33,
       <1>34, <1>35, <1>36, <1>37, <1>38
      DEF Next, TaskStep, Reports, Recovery, User

-----------------------------------------------------------------------------
(* The invariant. *)

\* Initially the types hold.
LEMMA InitTyped == Init => TypeOK /\ FenceAgrees
<1> SUFFICES ASSUME Init PROVE TypeOK /\ FenceAgrees
  OBVIOUS
<1>1. 0 \in Goal /\ <<0, 0>> \in Fence /\ 0 \in 0..CorrectionLimit
  BY Bounds DEF Fence, Goal
<1>2. NoEffect \in Effect /\ NoWork \in Bound
  BY <1>1 DEF NoEffect, NoWork, Effect, Bound
<1>3. state \in Task /\ disk \in Task
  BY <1>1, <1>2 DEF Init, Task, Phase
<1>4. loop \in Run /\ host \in Host /\ reply \in Reply /\ sending \in Sending
  BY <1>1 DEF Init, Idle, Awake, NoReply, NoSend, Run, Host, Reply, Sending
<1>5. sending.pc = "none" /\ running = {} /\ loop.pc = "step" /\ loop.fence = <<0, 0>>
      /\ state.fence = <<0, 0>>
  BY DEF Init, NoSend, Idle
<1>6. out \in [call : BOOLEAN, reply : BOOLEAN, input : BOOLEAN, works : SUBSET Work]
      /\ attested \in BOOLEAN /\ missed \in BOOLEAN
  BY DEF Init, NoneOut
<1> QED BY <1>3, <1>4, <1>5, <1>6 DEF TypeOK, FenceAgrees, Midway

\* Initially the invariant holds: nothing is under way.
LEMMA InitInv == Init => IInv
<1> SUFFICES ASSUME Init PROVE IInv
  OBVIOUS
<1>1. /\ state = disk /\ state.phase = "queued" /\ ~attested /\ out = NoneOut
      /\ sending.pc = "none" /\ reply.pc = "none" /\ loop.pc = "step"
  BY DEF Init, NoSend, NoReply, Idle
<1>2. ~NoneOut.call /\ ~NoneOut.reply /\ ~NoneOut.input /\ NoneOut.works = {}
  BY DEF NoneOut
<1> QED BY <1>1, <1>2, InitTyped
    DEF IInv, RecordsAgree, Records, Proven, Heeded, SendingAgrees, ReplyAgrees, EffectAgrees,
        OutAgrees, OnRecord, RunAgrees, AttestedAgrees

\* Every step keeps the types and the order of the fences.
LEMMA TypeKept ==
  ASSUME TypeOK, FenceAgrees, Next
  PROVE  TypeOK'
BY RecordsTyped, RunTyped, PortsTyped, HistoryTyped, RunningTyped DEF TypeOK

\* A stuttering step keeps the invariant.
LEMMA Stutter == ASSUME IInv, UNCHANGED vars PROVE IInv'
BY DEF IInv, vars, store, TypeOK, FenceAgrees, RecordsAgree, Records, Proven, Heeded,
       SendingAgrees, ReplyAgrees, EffectAgrees, OutAgrees, OnRecord, Unsettled, RunAgrees,
       AttestedAgrees, Midway, Fresh

\* The inductive invariant: Init => IInv, IInv /\ [Next]_vars => IInv'.
LEMMA InvariantHolds == Spec => []IInv
<1>1. IInv /\ [Next]_vars => IInv'
  <2> SUFFICES ASSUME IInv, [Next]_vars PROVE IInv'
    OBVIOUS
  <2>1. CASE UNCHANGED vars
    BY <2>1, Stutter
  <2>2. CASE Next
    <3>1. /\ TypeOK /\ FenceAgrees /\ RecordsAgree /\ SendingAgrees /\ ReplyAgrees
          /\ EffectAgrees /\ OutAgrees /\ RunAgrees /\ AttestedAgrees
      BY DEF IInv
    <3>2. AttestedAgrees'
      BY <2>2, <3>1, AttestedFiled, AttestedPasses DEF AttestedAgrees, Records
    <3> QED BY <2>2, <3>1, <3>2, TypeKept, FenceKept, RecordsKept, SendingKept, ReplyKept,
               EffectKept, OutKept, RunKept DEF IInv
  <2> QED BY <2>1, <2>2
<1> QED BY <1>1, InitInv, PTL DEF Spec

\* The types hold in every reachable state of Spec, for all bounds.
THEOREM TypeCorrect == Spec => []TypeOK
<1>1. IInv => TypeOK
  BY DEF IInv
<1> QED BY <1>1, InvariantHolds, PTL

\* A task is completed only with evidence filed for its current goal, whatever
\* the user, a crash and late answers do meanwhile (task-contract.ts, tasks.ts).
THEOREM CompletedIsProvenHolds == Spec => []CompletedIsProven
<1>1. IInv => CompletedIsProven
  BY DEF IInv, RecordsAgree, Records, Proven, CompletedIsProven
<1> QED BY <1>1, InvariantHolds, PTL

\* A completed task has no message of the user that waits or may have arrived
\* unheeded (tasks.ts, task-loop.ts).
THEOREM InputsHeededHolds == Spec => []InputsHeeded
<1>1. IInv => InputsHeeded
  BY DEF IInv, RecordsAgree, Records, Heeded, InputsHeeded
<1> QED BY <1>1, InvariantHolds, PTL

\* A step is dispatched only when no call, reply, work or message of the task may
\* be under way, those of an earlier run or process included (task-loop.ts).
THEOREM NoOverlapHolds == Spec => NoOverlap
<1>1. IInv /\ [Next]_vars => [loop.pc = "execute" /\ loop'.pc = "dispatch" => out = NoneOut]_vars
  BY DispatchIsFresh DEF IInv, RunAgrees
<1> QED BY <1>1, InvariantHolds, PTL DEF Spec, NoOverlap

\* What the user confirmed is looked at by the verifier before the next step is
\* dispatched (tasks.ts reconcile, task-loop.ts #run).
THEOREM AttestedIsVerifiedHolds == Spec => AttestedIsVerified
<1>1. IInv /\ [Next]_vars => [loop.pc = "execute" /\ loop'.pc = "dispatch" => ~attested]_vars
  BY DispatchIsFresh DEF IInv, AttestedAgrees
<1> QED BY <1>1, InvariantHolds, PTL DEF Spec, AttestedIsVerified

-----------------------------------------------------------------------------
(* Nobody is stranded: the wakes of the loop. *)

\* What will drive the task on, or keep it where it is, but for the run of the
\* loop and a delivery that is not over.
Awaited ==
  \/ state.user \/ host.blocked \/ state.phase \notin {"queued", "running", "verifying"}
  \/ missed \/ faults.failures # 0
  \/ running # {} \/ reply.pc # "none" \/ host.recovery # "none" \/ sending.pc # "none"
Excused == Awaited \/ state.delivery

\* A work that has not reported is one of this process, unless recovery sees to it.
WorksAgree ==
  activeWork(state) \subseteq running \/ host.blocked \/ host.recovery = "judge"
  \/ faults.failures # 0

\* A delivery that is pending will be finished, or its reply was lost, unless recovery
\* sees to it.
DeliveryHeld ==
  state.delivery => \/ loop.pc = "deliver" \/ host.blocked \/ host.recovery = "judge"
                    \/ reply.pc \in {"queued", "requeued", "speaking", "lost"}
                    \/ faults.failures # 0

\* Who changes the fence under a run, or takes away what it started, wakes it.
WokenAgrees ==
  /\ loop.pc = "idle" => Excused
  /\ Midway /\ ~Fresh => Excused \/ loop.again
  /\ loop.pc = "deliver" /\ ~Fresh => Awaited \/ loop.again
  /\ loop.pc = "flush" \/ (loop.pc = "settle" /\ loop.result = "accepted") => Excused \/ loop.again

\* Failures are counted.
FaultsCounted == faults \in [crashes : Nat, recoveries : Nat, failures : Nat]

\* A task that no one drives is awaited by someone who will.
StrandInv == FaultsCounted /\ WorksAgree /\ DeliveryHeld /\ WokenAgrees

\* A write that fails is counted among the faults.
LEMMA FaultFacts ==
  ASSUME FaultsCounted
  PROVE  /\ \A k \in {"crashes", "recoveries", "failures"} : Fault(k) =>
              FaultsCounted' /\ (faults.failures # 0 => faults'.failures # 0)
         /\ Fault("failures") => faults'.failures # 0
         /\ \A n : Unsaved(n) => FaultsCounted' /\ state' = state /\ faults'.failures # 0
BY DEF FaultsCounted, Fault, Unsaved

\* The run is woken.
Woke == IF loop.pc = "idle" THEN loop'.pc = "step" ELSE loop'.pc = loop.pc /\ loop'.again

\* The run goes on, or is started.
RunStays ==
  \/ /\ loop'.pc = loop.pc /\ loop'.fence = loop.fence /\ loop'.result = loop.result
     /\ loop.again => loop'.again
  \/ loop.pc = "idle" /\ loop'.pc = "step"

\* What a wake does to the run, and what leaves it alone.
LEMMA WakeFacts ==
  ASSUME loop \in Run
  PROVE  /\ loop' = loop => RunStays
         /\ loop' = Wake => RunStays /\ (Woke \/ host.blocked \/ host.recovery # "none")
         /\ loop' = (IF loop.pc = "idle" THEN Go("step") ELSE [loop EXCEPT !.again = TRUE])
            => RunStays /\ Woke
BY DEF RunStays, Woke, Wake, Go, Run

\* A step of anyone but the run leaves a reason why the task is driven on, or
\* wakes the run; so does who changes the fence.
Drives ==
  /\ Excused => Excused' \/ Woke
  /\ Awaited => Awaited' \/ Woke
  /\ state'.fence # state.fence => Awaited' \/ Woke
  /\ RunStays

\* ... and so does a crash.
Restarts == Awaited' /\ loop'.pc = "idle"

\* A step beside the run drives the task on, or the process restarts.
LEMMA OthersDriven ==
  ASSUME TypeOK, FaultsCounted, Next, ~TaskStep
  PROVE  Drives \/ Restarts
<1>t. /\ loop \in Run /\ state \in Task /\ host \in Host /\ reply \in Reply /\ sending \in Sending
      /\ missed \in BOOLEAN
  BY DEF TypeOK
<1>1. ASSUME NEW w \in Work, NEW o \in {"known", "unknown"}, WorkEnds(w, o)
      PROVE  Drives
  <2>1. PICK n : Wrote(n) /\ WorkEndsRecord(n, w, o)
    BY TypeOK, <1>1, WorkEndsWrites
  <2> QED BY <1>t, <2>1, <1>1, FaultFacts, WakeFacts
      DEF WorkEnds, WorkEndsRecord, Wrote, Drives, Awaited, Excused, Change, Saved, SameOwner
<1>2. ASSUME NEW p \in Phase, ResourceState(p)
      PROVE  Drives
  <2>1. PICK n : Wrote(n) /\ ResourceStateRecord(n, p)
    BY TypeOK, <1>2, ResourceStateWrites
  <2> QED BY <1>t, <2>1, <1>2, FaultFacts, WakeFacts
      DEF ResourceState, ResourceStateRecord, Wrote, Drives, Awaited, Excused, Saved,
          SameExecutions, SameOwner
<1>3. ASSUME Speak
      PROVE  Drives
  BY <1>t, <1>3, FaultFacts, WakeFacts
      DEF Speak, Drives, Awaited, Excused, store
<1>4. ASSUME Withdraw
      PROVE  Drives
  <2>1. PICK n : Wrote(n) /\ WithdrawRecord(n)
    BY TypeOK, <1>4, WithdrawWrites
  <2> QED BY <1>t, <2>1, <1>4, FaultFacts, WakeFacts
      DEF Withdraw, WithdrawRecord, Wrote, Drives, Awaited, Excused, Saved, SameOwner
<1>5. ASSUME Drop \/ Forget
      PROVE  Drives
  <2>1. reply'.pc = "lost" /\ state' = state /\ loop' = loop
    BY <1>t, <1>5 DEF Drop, Forget, store, Reply
  <2> QED BY <1>t, <2>1, WakeFacts DEF Drives, Awaited, Excused
<1>6. ASSUME NEW d \in Ending, ResponseEnds(d)
      PROVE  Drives
  <2>1. PICK n : Wrote(n) /\ ResponseEndsRecord(n, d)
    BY TypeOK, <1>6, ResponseEndsWrites
  <2>2. reply'.pc # "none" \/ missed' \/ faults'.failures # 0
    BY <1>t, <1>6, FaultFacts DEF ResponseEnds, Reply, Ending
  <2>3. loop' = loop /\ state'.fence = state.fence
    BY <2>1, <1>6 DEF ResponseEnds, Wrote, ResponseEndsRecord, SameOwner
  <2> QED BY <1>t, <2>2, <2>3, WakeFacts DEF Drives, Awaited, Excused
<1>7. ASSUME RecordDelivery
      PROVE  Drives
  <2>1. PICK n : Wrote(n) /\ RecordDeliveryRecord(n)
    BY TypeOK, <1>7, RecordDeliveryWrites
  <2> QED BY <1>t, <2>1, <1>7, FaultFacts, WakeFacts
      DEF RecordDelivery, RecordDeliveryRecord, Wrote, Drives, Awaited, Excused, Change, Saved,
          SameOwner, store
<1>8. ASSUME DeliveryInterrupted
      PROVE  Drives
  <2>1. loop' = loop /\ Waits(state).fence = state.fence /\ Waits(state).phase = "waiting"
    BY <1>t, <1>8, OwnerFrames DEF DeliveryInterrupted, SameOwner
  <2>2. \/ missed' /\ state' = state
        \/ state' = Waits(state)
        \/ faults'.failures # 0 /\ state' = state
    BY <1>8, FaultFacts DEF DeliveryInterrupted, Saved, store
  <2> QED BY <1>t, <2>1, <2>2, WakeFacts DEF Drives, Awaited, Excused
<1>9. ASSUME Takeover
      PROVE  Drives
  <2>1. PICK n : Wrote(n) /\ TakeoverRecord(n)
    BY TypeOK, <1>9, TakeoverWrites
  <2> QED BY <1>t, <2>1, <1>9, FaultFacts, WakeFacts
      DEF Takeover, TakeoverRecord, Wrote, Drives, Awaited, Excused, Change, Saved, SameExecutions
<1>10. ASSUME Return
      PROVE  Drives
  <2>1. PICK n : Wrote(n) /\ ReturnRecord(n)
    BY TypeOK, <1>10, ReturnWrites
  <2> QED BY <1>t, <2>1, <1>10, FaultFacts, WakeFacts
      DEF Return, ReturnRecord, Wrote, Drives, Awaited, Excused, Change, Saved, Woken,
          SameExecutions
<1>11. ASSUME Continue
      PROVE  Drives
  <2>1. PICK n : Wrote(n) /\ ContinueRecord(n)
    BY TypeOK, <1>11, ContinueWrites
  <2> QED BY <1>t, <2>1, <1>11, FaultFacts, WakeFacts
      DEF Continue, ContinueRecord, Wrote, Drives, Awaited, Excused, Change, Saved, Woken,
          SameExecutions
<1>12. ASSUME ContinueBlocked
      PROVE  Drives
  BY <1>t, <1>12, FaultFacts, WakeFacts
      DEF ContinueBlocked, Drives, Awaited, Excused, store
<1>13. ASSUME Revise
      PROVE  Drives
  <2>1. PICK n : Wrote(n) /\ ReviseRecord(n)
    BY TypeOK, <1>13, ReviseWrites
  <2> QED BY <1>t, <2>1, <1>13, FaultFacts, WakeFacts
      DEF Revise, ReviseRecord, Wrote, Drives, Awaited, Excused, Change, Saved, SameExecutions
<1>14. ASSUME NEW d \in BOOLEAN, Reconcile(d)
      PROVE  Drives
  <2>1. PICK n : Wrote(n) /\ ReconcileRecord(n, d)
    BY TypeOK, <1>14, ReconcileWrites
  <2>2. state.user \/ state.phase = "waiting"
    BY <1>14 DEF Reconcile, Decider
  <2>3. loop' = loop
    BY <1>14 DEF Reconcile, Change
  <2>4. Awaited'
    BY <2>1, <2>2 DEF Awaited, Wrote, ReconcileRecord
  <2> QED BY <1>t, <2>3, <2>4, WakeFacts DEF Drives, Excused
<1>15. ASSUME Cancel
      PROVE  Drives
  <2>1. PICK n : Wrote(n) /\ CancelRecord(n)
    BY TypeOK, <1>15, CancelWrites
  <2> QED BY <1>t, <2>1, <1>15, FaultFacts, WakeFacts
      DEF Cancel, CancelRecord, Wrote, Drives, Awaited, Excused, Change, Saved, SameExecutions,
          SameOwner
<1>16. ASSUME NEW i \in Input, InputBegin(i)
      PROVE  Drives
  <2>1. PICK n : Wrote(n) /\ InputBeginRecord(n, i)
    BY TypeOK, <1>16, InputBeginWrites
  <2> QED BY <1>t, <2>1, <1>16, FaultFacts, WakeFacts
      DEF InputBegin, InputBeginRecord, Wrote, Drives, Awaited, Excused, Saved, SameOwner
<1>17. ASSUME NEW w \in Work, NEW r \in {"accepted", "failed", "unknown"}, InputAdmit(w, r)
      PROVE  Drives
  <2>1. PICK n : Wrote(n) /\ InputAdmitRecord(n, w, r)
    BY TypeOK, <1>17, InputAdmitWrites
  <2> QED BY <1>t, <2>1, <1>17, FaultFacts, WakeFacts
      DEF InputAdmit, InputAdmitRecord, Wrote, Drives, Awaited, Excused, Saved, SameOwner
<1>18. ASSUME NEW r \in {"failed", "unknown"}, InputRefused(r)
      PROVE  Drives
  BY <1>t, <1>18, FaultFacts, WakeFacts
      DEF InputRefused, Drives, Awaited, Excused, store
<1>19. ASSUME InputSettle
      PROVE  Drives
  <2>1. PICK n : Wrote(n) /\ InputSettleRecord(n)
    BY TypeOK, <1>19, InputSettleWrites
  <2> QED BY <1>t, <2>1, <1>19, FaultFacts, WakeFacts
      DEF InputSettle, InputSettleRecord, Wrote, Drives, Awaited, Excused, Saved, SameOwner
<1>20. ASSUME Crash
      PROVE  Restarts
  <2>1. loop'.pc = "idle" /\ host'.recovery = "judge"
    BY <1>20 DEF Crash, Idle, Awake
  <2> QED BY <2>1 DEF Restarts, Awaited
<1>21. ASSUME RecoverAgain
      PROVE  Drives
  BY <1>t, <1>21, FaultFacts, WakeFacts
      DEF RecoverAgain, Drives, Awaited, Excused, store
<1>22. ASSUME NEW u \in BOOLEAN, RecoverJudge(u)
      PROVE  Drives
  <2>1. (host'.recovery # "none" /\ loop' = loop) \/ RecoveryEnds(host.blocked, state)
    BY <1>t, <1>22 DEF RecoverJudge, Host
  <2>2. state' = state
    BY <1>22 DEF RecoverJudge, store
  <2>3. RecoveryEnds(host.blocked, state) => RunStays /\ (host'.blocked \/ state.user \/ Woke)
    BY <1>t, WakeFacts DEF RecoveryEnds, Host
  <2> QED BY <1>t, <2>1, <2>2, <2>3, WakeFacts DEF Drives, Awaited, Excused
<1>23. ASSUME RecoverWrite
      PROVE  Drives
  <2>1. PICK n : Wrote(n) /\ RecoverWriteRecord(n)
    BY TypeOK, <1>23, RecoverWriteWrites
  <2>2. \/ state' = RecoveredTask(state) /\ RecoveryEnds(host.blocked, RecoveredTask(state))
        \/ faults'.failures # 0 /\ loop' = loop
    BY <1>23, FaultFacts DEF RecoverWrite, Saved
  <2>3. RecoveryEnds(host.blocked, RecoveredTask(state)) =>
          RunStays /\ (host'.blocked \/ RecoveredTask(state).user \/ Woke)
    BY <1>t, WakeFacts DEF RecoveryEnds, Host
  <2>4. state'.fence = state.fence
    BY <2>1 DEF Wrote, RecoverWriteRecord, SameOwner
  <2> QED BY <1>t, <2>2, <2>3, <2>4, WakeFacts DEF Drives, Awaited, Excused
<1> QED BY <1>1, <1>2, <1>3, <1>4, <1>5, <1>6, <1>7, <1>8, <1>9, <1>10, <1>11, <1>12, <1>13,
       <1>14, <1>15, <1>16, <1>17, <1>18, <1>19, <1>20, <1>21, <1>22, <1>23
    DEF Next, Reports, Recovery, User

\* The works at work are those of the record.
LEMMA SameWorks ==
  ASSUME NEW t, NEW u, u.works = t.works
  PROVE  activeWork(u) = activeWork(t)
BY DEF activeWork, Works

\* A failed write, and a fault of another kind, are counted.
LEMMA FaultsKept ==
  ASSUME TypeOK, FaultsCounted, Next
  PROVE  FaultsCounted' /\ (faults.failures # 0 => faults'.failures # 0)
<1>f. UNCHANGED faults => FaultsCounted' /\ (faults.failures # 0 => faults'.failures # 0)
  BY DEF FaultsCounted
<1>1. CASE Step
  BY <1>1, <1>f, FaultFacts DEF Step
<1>2. CASE GiveUp
  BY <1>2, <1>f, FaultFacts DEF GiveUp, Mutate, Saved
<1>3. CASE WaitUnknown
  BY <1>3, <1>f, FaultFacts DEF WaitUnknown, Mutate, Saved
<1>4. CASE ReserveInitial
  BY <1>4, <1>f, FaultFacts DEF ReserveInitial, Mutate, Saved
<1>5. ASSUME NEW d \in Decisions, NEW cites \in SUBSET evidence(state), NEW r \in BOOLEAN,
             Evaluate(d, cites, r)
      PROVE  FaultsCounted' /\ (faults.failures # 0 => faults'.failures # 0)
  BY <1>5, <1>f, FaultFacts DEF Evaluate
<1>6. CASE EvaluateFails
  BY <1>6, <1>f, FaultFacts DEF EvaluateFails
<1>7. CASE Apply
  <2>1. \A ok, n, l, m : Mutate(ok, n, l, m) => UNCHANGED faults \/ Unsaved(n)
    BY DEF Mutate, Saved
  <2>2. UNCHANGED faults \/ \E n : Unsaved(n)
    BY <1>7, <2>1 DEF Apply, TypeOK, Run
  <2> QED BY <2>2, <1>f, FaultFacts
<1>8. CASE MarkEffectDispatching
  BY <1>8, <1>f, FaultFacts DEF MarkEffectDispatching, Mutate, Saved
<1>9. CASE Execute
  BY <1>9, <1>f, FaultFacts DEF Execute
<1>10. ASSUME NEW w \in Work, BindWork(w)
      PROVE  FaultsCounted' /\ (faults.failures # 0 => faults'.failures # 0)
  BY <1>10, <1>f, FaultFacts DEF BindWork, Mutate, Saved
<1>11. CASE Refuse
  BY <1>11, <1>f, FaultFacts DEF Refuse
<1>12. CASE Flush
  BY <1>12, <1>f, FaultFacts DEF Flush
<1>13. CASE BeginDelivery
  BY <1>13, <1>f, FaultFacts DEF BeginDelivery, Mutate, Saved
<1>14. CASE Deliver
  BY <1>14, <1>f, FaultFacts DEF Deliver, Mutate, Saved
<1>15. CASE SettleEffect
  BY <1>15, <1>f, FaultFacts DEF SettleEffect, Mutate, Saved
<1>16. ASSUME NEW w \in Work, NEW o \in {"known", "unknown"}, WorkEnds(w, o)
      PROVE  FaultsCounted' /\ (faults.failures # 0 => faults'.failures # 0)
  BY <1>16, <1>f, FaultFacts DEF WorkEnds, Change, Saved
<1>17. ASSUME NEW p \in Phase, ResourceState(p)
      PROVE  FaultsCounted' /\ (faults.failures # 0 => faults'.failures # 0)
  BY <1>17, <1>f, FaultFacts DEF ResourceState, Saved
<1>18. CASE Speak
  BY <1>18, <1>f, FaultFacts DEF Speak
<1>19. CASE Withdraw
  BY <1>19, <1>f, FaultFacts DEF Withdraw, Saved
<1>20. CASE Drop \/ Forget
  BY <1>20, <1>f, FaultFacts DEF Drop, Forget
<1>21. ASSUME NEW d \in Ending, ResponseEnds(d)
      PROVE  FaultsCounted' /\ (faults.failures # 0 => faults'.failures # 0)
  BY <1>21, <1>f, FaultFacts DEF ResponseEnds, Saved
<1>22. CASE RecordDelivery
  BY <1>22, <1>f, FaultFacts DEF RecordDelivery, Change, Saved
<1>23. CASE DeliveryInterrupted
  BY <1>23, <1>f, FaultFacts DEF DeliveryInterrupted, Saved
<1>24. CASE Takeover
  BY <1>24, <1>f, FaultFacts DEF Takeover, Change, Saved
<1>25. CASE Return
  BY <1>25, <1>f, FaultFacts DEF Return, Change, Saved
<1>26. CASE Continue
  BY <1>26, <1>f, FaultFacts DEF Continue, Change, Saved
<1>27. CASE ContinueBlocked
  BY <1>27, <1>f, FaultFacts DEF ContinueBlocked
<1>28. CASE Revise
  BY <1>28, <1>f, FaultFacts DEF Revise, Change, Saved
<1>29. ASSUME NEW d \in BOOLEAN, Reconcile(d)
      PROVE  FaultsCounted' /\ (faults.failures # 0 => faults'.failures # 0)
  BY <1>29, <1>f, FaultFacts DEF Reconcile, Change, Saved
<1>30. CASE Cancel
  BY <1>30, <1>f, FaultFacts DEF Cancel, Change, Saved
<1>31. ASSUME NEW i \in Input, InputBegin(i)
      PROVE  FaultsCounted' /\ (faults.failures # 0 => faults'.failures # 0)
  BY <1>31, <1>f, FaultFacts DEF InputBegin, Saved
<1>32. ASSUME NEW w \in Work, NEW r \in {"accepted", "failed", "unknown"}, InputAdmit(w, r)
      PROVE  FaultsCounted' /\ (faults.failures # 0 => faults'.failures # 0)
  BY <1>32, <1>f, FaultFacts DEF InputAdmit, Saved
<1>33. ASSUME NEW r \in {"failed", "unknown"}, InputRefused(r)
      PROVE  FaultsCounted' /\ (faults.failures # 0 => faults'.failures # 0)
  BY <1>33, <1>f, FaultFacts DEF InputRefused
<1>34. CASE InputSettle
  BY <1>34, <1>f, FaultFacts DEF InputSettle, Saved
<1>35. CASE Crash
  BY <1>35, <1>f, FaultFacts DEF Crash
<1>36. CASE RecoverAgain
  BY <1>36, <1>f, FaultFacts DEF RecoverAgain
<1>37. ASSUME NEW u \in BOOLEAN, RecoverJudge(u)
      PROVE  FaultsCounted' /\ (faults.failures # 0 => faults'.failures # 0)
  BY <1>37, <1>f, FaultFacts DEF RecoverJudge
<1>38. CASE RecoverWrite
  BY <1>38, <1>f, FaultFacts DEF RecoverWrite, Saved
<1> QED BY <1>1, <1>2, <1>3, <1>4, <1>5, <1>6, <1>7, <1>8, <1>9, <1>10, <1>11, <1>12, <1>13,
       <1>14, <1>15, <1>16, <1>17, <1>18, <1>19, <1>20, <1>21, <1>22, <1>23, <1>24, <1>25,
       <1>26, <1>27, <1>28, <1>29, <1>30, <1>31, <1>32, <1>33, <1>34, <1>35, <1>36, <1>37, <1>38
    DEF Next, TaskStep, Reports, Recovery, User

\* A work that has not reported is one of this process, or recovery sees to it.
LEMMA WorksKept ==
  ASSUME TypeOK, FenceAgrees, FaultsCounted, WorksAgree, Next
  PROVE  WorksAgree'
<1>t. loop \in Run /\ state \in Task /\ host \in Host
  BY DEF TypeOK
<1>f. faults.failures # 0 => faults'.failures # 0
  BY FaultsKept
<1>s. \A n : Wrote(n) /\ n.works = state.works => activeWork(state') = activeWork(state)
  BY SameWorks DEF Wrote
<1>u. UNCHANGED state => activeWork(state') = activeWork(state)
  OBVIOUS
<1>k. activeWork(state') = activeWork(state) /\ running' = running
      /\ (host.blocked => host'.blocked) /\ (host.recovery = "judge" => host'.recovery = "judge")
      => WorksAgree'
  BY <1>f DEF WorksAgree
<1>h. \A b : [host EXCEPT !.live = b].blocked = host.blocked /\ [host EXCEPT !.live = b].recovery = host.recovery
  BY <1>t DEF Host
<1>1. CASE Step
  BY <1>k, <1>u, <1>h, <1>1 DEF Step, store
<1>2. CASE GiveUp
  <2>1. PICK n : Wrote(n) /\ GiveUpRecord(n)
    BY TypeOK, <1>2, GiveUpWrites
  <2> QED BY <1>k, <1>s, <1>h, <2>1, <1>2 DEF GiveUp, GiveUpRecord, SameExecutions
<1>3. CASE WaitUnknown
  <2>1. PICK n : Wrote(n) /\ WaitUnknownRecord(n)
    BY TypeOK, <1>3, WaitUnknownWrites
  <2> QED BY <1>k, <1>s, <1>h, <2>1, <1>3 DEF WaitUnknown, WaitUnknownRecord, SameExecutions
<1>4. CASE ReserveInitial
  <2>1. PICK n : Wrote(n) /\ ReserveInitialRecord(n)
    BY TypeOK, <1>4, ReserveInitialWrites
  <2> QED BY <1>k, <1>s, <1>h, <2>1, <1>4 DEF ReserveInitial, ReserveInitialRecord
<1>5. ASSUME NEW d \in Decisions, NEW cites \in SUBSET evidence(state), NEW r \in BOOLEAN,
             Evaluate(d, cites, r)
      PROVE  WorksAgree'
  BY <1>k, <1>u, <1>h, <1>5 DEF Evaluate, store
<1>6. CASE EvaluateFails
  BY <1>k, <1>u, <1>h, <1>6 DEF EvaluateFails, store
<1>7. CASE Apply
  <2>1. PICK n : Wrote(n) /\ ApplyRecord(n)
    BY TypeOK, FenceAgrees, <1>7, ApplyWrites
  <2> QED BY <1>k, <1>s, <1>h, <2>1, <1>7 DEF Apply, ApplyRecord, SameExecutions
<1>8. CASE MarkEffectDispatching
  <2>1. PICK n : Wrote(n) /\ MarkEffectDispatchingRecord(n)
    BY TypeOK, <1>8, MarkEffectDispatchingWrites
  <2> QED BY <1>k, <1>s, <1>h, <2>1, <1>8 DEF MarkEffectDispatching, MarkEffectDispatchingRecord
<1>9. CASE Execute
  BY <1>k, <1>u, <1>h, <1>9 DEF Execute, store
<1>10. ASSUME NEW w \in Work, BindWork(w)
      PROVE  WorksAgree'
  <2>1. PICK n : Wrote(n) /\ BindWorkRecord(n, w)
    BY TypeOK, <1>10, BindWorkWrites
  <2>2. activeWork(n) \subseteq activeWork(state) \cup {w}
    BY <2>1 DEF BindWorkRecord, activeWork, Works
  <2>3. \/ activeWork(state') \subseteq activeWork(state) \cup {w} /\ running' = running \cup {w}
        \/ activeWork(state') = activeWork(state) /\ running' = running
    BY <2>1, <2>2 DEF BindWorkRecord
  <2>4. host'.blocked = host.blocked /\ host'.recovery = host.recovery
    BY <1>10 DEF BindWork
  <2> QED BY <1>f, <2>3, <2>4 DEF WorksAgree
<1>11. CASE Refuse
  BY <1>k, <1>u, <1>h, <1>11 DEF Refuse, store
<1>12. CASE Flush
  BY <1>k, <1>u, <1>h, <1>12 DEF Flush, store
<1>13. CASE BeginDelivery
  <2>1. PICK n : Wrote(n) /\ BeginDeliveryRecord(n)
    BY TypeOK, <1>13, BeginDeliveryWrites
  <2> QED BY <1>k, <1>s, <1>h, <2>1, <1>13 DEF BeginDelivery, BeginDeliveryRecord
<1>14. CASE Deliver
  <2>1. PICK n : Wrote(n) /\ DeliverRecord(n)
    BY TypeOK, <1>14, DeliverWrites
  <2>2. host'.blocked = host.blocked /\ host'.recovery = host.recovery /\ running' = running
    BY <1>h, <1>14 DEF Deliver
  <2> QED BY <1>k, <1>s, <2>1, <2>2 DEF DeliverRecord
<1>15. CASE SettleEffect
  <2>1. PICK n : Wrote(n) /\ SettleEffectRecord(n)
    BY TypeOK, <1>15, SettleEffectWrites
  <2> QED BY <1>k, <1>s, <1>h, <2>1, <1>15 DEF SettleEffect, SettleEffectRecord
<1>16. ASSUME NEW w \in Work, NEW o \in {"known", "unknown"}, WorkEnds(w, o)
      PROVE  WorksAgree'
  <2> DEFINE n == [state EXCEPT !.works[w].outcome = IF @ = "none" THEN o ELSE @]
  <2>1. state' = n \/ faults'.failures # 0
    BY <1>16, FaultFacts DEF WorkEnds, Change, Saved
  <2>2. activeWork(n) \subseteq activeWork(state) \ {w}
    BY <1>t DEF activeWork, Works, Task, Bound
  <2>3. running' = running \ {w}
    BY <1>16 DEF WorkEnds
  <2>4. host' = host \/ host'.recovery = "judge"
    BY <1>t, <1>16 DEF WorkEnds, Host
  <2> HIDE DEF n
  <2> QED BY <1>f, <2>1, <2>2, <2>3, <2>4 DEF WorksAgree
<1>17. ASSUME NEW p \in Phase, ResourceState(p)
      PROVE  WorksAgree'
  <2>1. PICK n : Wrote(n) /\ ResourceStateRecord(n, p)
    BY TypeOK, <1>17, ResourceStateWrites
  <2> QED BY <1>k, <1>s, <1>h, <2>1, <1>17 DEF ResourceState, ResourceStateRecord, SameExecutions
<1>18. CASE Speak
  BY <1>k, <1>u, <1>h, <1>18 DEF Speak, store
<1>19. CASE Withdraw
  <2>1. PICK n : Wrote(n) /\ WithdrawRecord(n)
    BY TypeOK, <1>19, WithdrawWrites
  <2> QED BY <1>k, <1>s, <1>h, <2>1, <1>19 DEF Withdraw, WithdrawRecord
<1>20. CASE Drop \/ Forget
  BY <1>k, <1>u, <1>h, <1>20 DEF Drop, Forget, store
<1>21. ASSUME NEW d \in Ending, ResponseEnds(d)
      PROVE  WorksAgree'
  <2>1. PICK n : Wrote(n) /\ ResponseEndsRecord(n, d)
    BY TypeOK, <1>21, ResponseEndsWrites
  <2> QED BY <1>k, <1>s, <1>h, <2>1, <1>21 DEF ResponseEnds, ResponseEndsRecord
<1>22. CASE RecordDelivery
  <2>1. PICK n : Wrote(n) /\ RecordDeliveryRecord(n)
    BY TypeOK, <1>22, RecordDeliveryWrites
  <2> QED BY <1>k, <1>s, <1>h, <2>1, <1>22 DEF RecordDelivery, RecordDeliveryRecord
<1>23. CASE DeliveryInterrupted
  <2>1. PICK n : Wrote(n) /\ DeliveryInterruptedRecord(n)
    BY TypeOK, <1>23, DeliveryInterruptedWrites
  <2> QED BY <1>k, <1>s, <1>h, <2>1, <1>23 DEF DeliveryInterrupted, DeliveryInterruptedRecord,
  SameExecutions
<1>24. CASE Takeover
  <2>1. PICK n : Wrote(n) /\ TakeoverRecord(n)
    BY TypeOK, <1>24, TakeoverWrites
  <2> QED BY <1>k, <1>s, <1>h, <2>1, <1>24 DEF Takeover, TakeoverRecord, SameExecutions
<1>25. CASE Return
  <2>1. PICK n : Wrote(n) /\ ReturnRecord(n)
    BY TypeOK, <1>25, ReturnWrites
  <2> QED BY <1>k, <1>s, <1>h, <2>1, <1>25 DEF Return, ReturnRecord, SameExecutions
<1>26. CASE Continue
  <2>1. PICK n : Wrote(n) /\ ContinueRecord(n)
    BY TypeOK, <1>26, ContinueWrites
  <2> QED BY <1>k, <1>s, <1>h, <2>1, <1>26 DEF Continue, ContinueRecord, SameExecutions
<1>27. CASE ContinueBlocked
  BY <1>k, <1>u, <1>h, <1>27 DEF ContinueBlocked, store
<1>28. CASE Revise
  <2>1. PICK n : Wrote(n) /\ ReviseRecord(n)
    BY TypeOK, <1>28, ReviseWrites
  <2> QED BY <1>k, <1>s, <1>h, <2>1, <1>28 DEF Revise, ReviseRecord, SameExecutions
<1>29. ASSUME NEW d \in BOOLEAN, Reconcile(d)
      PROVE  WorksAgree'
  <2>1. PICK n : Wrote(n) /\ ReconcileRecord(n, d)
    BY TypeOK, <1>29, ReconcileWrites
  <2>2. activeWork(n) = activeWork(state)
    BY <2>1 DEF ReconcileRecord, activeWork, Works
  <2>3. host' = host /\ running' = running
    BY <1>29 DEF Reconcile
  <2> QED BY <1>k, <2>1, <2>2, <2>3 DEF Wrote
<1>30. CASE Cancel
  <2>1. PICK n : Wrote(n) /\ CancelRecord(n)
    BY TypeOK, <1>30, CancelWrites
  <2> QED BY <1>k, <1>s, <1>h, <2>1, <1>30 DEF Cancel, CancelRecord, SameExecutions
<1>31. ASSUME NEW i \in Input, InputBegin(i)
      PROVE  WorksAgree'
  <2>1. PICK n : Wrote(n) /\ InputBeginRecord(n, i)
    BY TypeOK, <1>31, InputBeginWrites
  <2> QED BY <1>k, <1>s, <1>h, <2>1, <1>31 DEF InputBegin, InputBeginRecord
<1>32. ASSUME NEW w \in Work, NEW r \in {"accepted", "failed", "unknown"}, InputAdmit(w, r)
      PROVE  WorksAgree'
  <2>1. PICK n : Wrote(n) /\ InputAdmitRecord(n, w, r)
    BY TypeOK, <1>32, InputAdmitWrites
  <2>2. activeWork(n) \subseteq activeWork(state) \cup {w}
    BY <2>1 DEF InputAdmitRecord, activeWork, Works
  <2>3. \/ activeWork(state') \subseteq activeWork(state) \cup {w} /\ running' = running \cup {w}
        \/ activeWork(state') = activeWork(state) /\ running' = running
    BY <2>1, <2>2 DEF InputAdmitRecord
  <2>4. host'.blocked = host.blocked /\ host'.recovery = host.recovery
    BY <1>32 DEF InputAdmit
  <2> QED BY <1>f, <2>3, <2>4 DEF WorksAgree
<1>33. ASSUME NEW r \in {"failed", "unknown"}, InputRefused(r)
      PROVE  WorksAgree'
  BY <1>k, <1>u, <1>h, <1>33 DEF InputRefused, store
<1>34. CASE InputSettle
  <2>1. PICK n : Wrote(n) /\ InputSettleRecord(n)
    BY TypeOK, <1>34, InputSettleWrites
  <2> QED BY <1>k, <1>s, <1>h, <2>1, <1>34 DEF InputSettle, InputSettleRecord
<1>35. CASE Crash
  <2>1. host'.recovery = "judge"
    BY <1>35 DEF Crash, Awake
  <2> QED BY <2>1 DEF WorksAgree
<1>36. CASE RecoverAgain
  BY <1>k, <1>u, <1>h, <1>36 DEF RecoverAgain, store
<1>37. ASSUME NEW u \in BOOLEAN, RecoverJudge(u)
      PROVE  WorksAgree'
  <2>1. state' = state /\ running' = running
    BY <1>37 DEF RecoverJudge, store
  <2>2. ~hasUnresolvedExecution(state) => activeWork(state) = {}
    BY DEF hasUnresolvedExecution, activeWork
  <2>3. activeWork(state) = {} \/ host'.blocked
    BY <1>t, <2>2, <1>37 DEF RecoverJudge, RecoveryEnds, Host
  <2> QED BY <1>f, <2>1, <2>3 DEF WorksAgree
<1>38. CASE RecoverWrite
  <2>1. PICK n : Wrote(n) /\ RecoverWriteRecord(n)
    BY TypeOK, <1>38, RecoverWriteWrites
  <2>2. activeWork(state') = activeWork(state) /\ running' = running
    BY <1>s, <2>1, <1>38 DEF RecoverWrite, RecoverWriteRecord, SameExecutions
  <2>3. host'.blocked = host.blocked /\ host.recovery # "judge"
    BY <1>t, <1>38 DEF RecoverWrite, RecoveryEnds, Host
  <2> QED BY <1>f, <2>2, <2>3 DEF WorksAgree
<1> QED BY <1>1, <1>2, <1>3, <1>4, <1>5, <1>6, <1>7, <1>8, <1>9, <1>10, <1>11, <1>12, <1>13,
       <1>14, <1>15, <1>16, <1>17, <1>18, <1>19, <1>20, <1>21, <1>22, <1>23, <1>24, <1>25,
       <1>26, <1>27, <1>28, <1>29, <1>30, <1>31, <1>32, <1>33, <1>34, <1>35, <1>36, <1>37, <1>38
    DEF Next, TaskStep, Reports, Recovery, User

\* A delivery that is pending is one of this process, or was lost with its response,
\* or recovery sees to it.
LEMMA DeliveryKept ==
  ASSUME TypeOK, FenceAgrees, FaultsCounted, DeliveryHeld, Next
  PROVE  DeliveryHeld'
<1>t. /\ loop \in Run /\ state \in Task /\ host \in Host /\ reply \in Reply
  BY DEF TypeOK
<1>f. faults.failures # 0 => faults'.failures # 0
  BY FaultsKept
<1>s. \A n : Wrote(n) /\ n.delivery = state.delivery => state'.delivery = state.delivery
  BY DEF Wrote
<1>w. loop.pc = "deliver" => Wake.pc = "deliver"
  BY <1>t, RunFrames
<1>k. /\ state'.delivery = state.delivery /\ UNCHANGED reply
      /\ loop.pc = "deliver" => loop'.pc = "deliver"
      /\ host.blocked => host'.blocked
      /\ host.recovery = "judge" => host'.recovery = "judge"
      => DeliveryHeld'
  BY <1>f DEF DeliveryHeld
<1>1. CASE Step
  BY <1>k, <1>1 DEF Step, store
<1>2. CASE GiveUp
  <2>1. PICK n : Wrote(n) /\ GiveUpRecord(n)
    BY TypeOK, <1>2, GiveUpWrites
  <2> QED BY <1>k, <1>s, <2>1, <1>2 DEF GiveUp, GiveUpRecord, SameExecutions
<1>3. CASE WaitUnknown
  <2>1. PICK n : Wrote(n) /\ WaitUnknownRecord(n)
    BY TypeOK, <1>3, WaitUnknownWrites
  <2> QED BY <1>k, <1>s, <2>1, <1>3 DEF WaitUnknown, WaitUnknownRecord, SameExecutions
<1>4. CASE ReserveInitial
  <2>1. PICK n : Wrote(n) /\ ReserveInitialRecord(n)
    BY TypeOK, <1>4, ReserveInitialWrites
  <2> QED BY <1>k, <1>s, <2>1, <1>4 DEF ReserveInitial, ReserveInitialRecord
<1>5. ASSUME NEW d \in Decisions, NEW cites \in SUBSET evidence(state), NEW r \in BOOLEAN,
             Evaluate(d, cites, r)
      PROVE  DeliveryHeld'
  BY <1>k, <1>5 DEF Evaluate, store
<1>6. CASE EvaluateFails
  BY <1>k, <1>6 DEF EvaluateFails, store
<1>7. CASE Apply
  <2>1. PICK n : Wrote(n) /\ ApplyRecord(n)
    BY TypeOK, FenceAgrees, <1>7, ApplyWrites
  <2> QED BY <1>k, <1>s, <2>1, <1>7 DEF Apply, ApplyRecord, SameExecutions
<1>8. CASE MarkEffectDispatching
  <2>1. PICK n : Wrote(n) /\ MarkEffectDispatchingRecord(n)
    BY TypeOK, <1>8, MarkEffectDispatchingWrites
  <2> QED BY <1>k, <1>s, <2>1, <1>8 DEF MarkEffectDispatching, MarkEffectDispatchingRecord
<1>9. CASE Execute
  BY <1>k, <1>9 DEF Execute, store
<1>10. ASSUME NEW w \in Work, BindWork(w)
      PROVE  DeliveryHeld'
  <2>1. PICK n : Wrote(n) /\ BindWorkRecord(n, w)
    BY TypeOK, <1>10, BindWorkWrites
  <2> QED BY <1>k, <1>s, <2>1, <1>10 DEF BindWork, BindWorkRecord
<1>11. CASE Refuse
  BY <1>k, <1>11 DEF Refuse, store
<1>12. CASE Flush
  BY <1>k, <1>12 DEF Flush, store
<1>13. CASE BeginDelivery
  <2>1. CASE loop'.pc = "deliver"
    BY <2>1 DEF DeliveryHeld
  <2>2. CASE loop'.pc # "deliver"
    <3>1. Go("deliver").pc = "deliver"
      BY <1>t, RunFrames DEF PCs
    <3>2. loop.pc # "deliver" /\ UNCHANGED <<host, reply>>
      BY <1>13, <2>2 DEF BeginDelivery
    <3>3. state' = state \/ faults'.failures # 0
      BY <1>13, <2>2, <3>1, FaultFacts DEF BeginDelivery, Mutate, store
    <3> QED BY <1>k, <3>2, <3>3 DEF DeliveryHeld
  <2> QED BY <2>1, <2>2
<1>14. CASE Deliver
  <2>1. CASE reply' = [pc |-> "queued", fence |-> loop.fence]
    BY <2>1 DEF DeliveryHeld
  <2>2. CASE Mutate(TRUE, finishDelivery(state), Settles("failed"), Settles("failed"))
    <3>1. state' = [state EXCEPT !.delivery = FALSE] \/ faults'.failures # 0
      BY <2>2, FaultFacts DEF Mutate, Saved
    <3> QED BY <1>t, <3>1 DEF DeliveryHeld, Task
  <2>3. CASE \E pc \in {"lost", "requeued", "speaking"} : reply' = [pc |-> pc, fence |-> loop.fence]
    BY <2>3 DEF DeliveryHeld
  <2> QED BY <1>14, <2>1, <2>2, <2>3 DEF Deliver
<1>15. CASE SettleEffect
  <2>1. PICK n : Wrote(n) /\ SettleEffectRecord(n)
    BY TypeOK, <1>15, SettleEffectWrites
  <2> QED BY <1>k, <1>s, <2>1, <1>15 DEF SettleEffect, SettleEffectRecord
<1>16. ASSUME NEW w \in Work, NEW o \in {"known", "unknown"}, WorkEnds(w, o)
      PROVE  DeliveryHeld'
  <2>1. PICK n : Wrote(n) /\ WorkEndsRecord(n, w, o)
    BY TypeOK, <1>16, WorkEndsWrites
  <2>2. state'.delivery = state.delivery /\ UNCHANGED reply
    BY <1>s, <2>1, <1>16 DEF WorkEnds, WorkEndsRecord
  <2>3. loop' = loop \/ loop' = Wake
    BY <1>16 DEF WorkEnds, Change
  <2>4. host' = host \/ host'.recovery = "judge"
    BY <1>t, <1>16 DEF WorkEnds, Host
  <2> QED BY <1>k, <1>w, <2>2, <2>3, <2>4 DEF DeliveryHeld
<1>17. ASSUME NEW p \in Phase, ResourceState(p)
      PROVE  DeliveryHeld'
  <2>1. PICK n : Wrote(n) /\ ResourceStateRecord(n, p)
    BY TypeOK, <1>17, ResourceStateWrites
  <2> QED BY <1>k, <1>s, <2>1, <1>17 DEF ResourceState, ResourceStateRecord, SameExecutions
<1>18. CASE Speak
  <2>1. reply'.pc = "speaking"
    BY <1>t, <1>18 DEF Speak, Reply
  <2> QED BY <2>1 DEF DeliveryHeld
<1>19. CASE Withdraw
  <2>1. state' = [state EXCEPT !.delivery = FALSE] \/ faults'.failures # 0
    BY <1>19, FaultFacts DEF Withdraw, Saved
  <2> QED BY <1>t, <2>1 DEF DeliveryHeld, Task
<1>20. CASE Drop \/ Forget
  <2>1. reply'.pc = "lost"
    BY <1>t, <1>20 DEF Drop, Forget, Reply
  <2> QED BY <2>1 DEF DeliveryHeld
<1>21. ASSUME NEW d \in Ending, ResponseEnds(d)
      PROVE  DeliveryHeld'
  <2>1. state' = [state EXCEPT !.delivery = FALSE] \/ faults'.failures # 0
    BY <1>21, FaultFacts DEF ResponseEnds, Saved
  <2> QED BY <1>t, <2>1 DEF DeliveryHeld, Task
<1>22. CASE RecordDelivery
  <2>1. PICK n : Wrote(n) /\ RecordDeliveryRecord(n)
    BY TypeOK, <1>22, RecordDeliveryWrites
  <2>2. state'.delivery = state.delivery
    BY <1>s, <2>1 DEF RecordDeliveryRecord
  <2>3. reply.pc = "record" /\ UNCHANGED host /\ (loop' = loop \/ loop' = Wake)
    BY <1>22 DEF RecordDelivery, Change
  <2> QED BY <1>f, <1>w, <2>2, <2>3 DEF DeliveryHeld
<1>23. CASE DeliveryInterrupted
  <2>1. PICK n : Wrote(n) /\ DeliveryInterruptedRecord(n)
    BY TypeOK, <1>23, DeliveryInterruptedWrites
  <2>2. state'.delivery = state.delivery
    BY <1>s, <2>1 DEF DeliveryInterruptedRecord, SameExecutions
  <2>3. reply.pc = "tell" /\ UNCHANGED <<host, loop>>
    BY <1>23 DEF DeliveryInterrupted
  <2> QED BY <1>f, <2>2, <2>3 DEF DeliveryHeld
<1>24. CASE Takeover
  <2>1. PICK n : Wrote(n) /\ TakeoverRecord(n)
    BY TypeOK, <1>24, TakeoverWrites
  <2> QED BY <1>k, <1>s, <1>w, <2>1, <1>24 DEF Takeover, Change, TakeoverRecord, SameExecutions
<1>25. CASE Return
  <2>1. PICK n : Wrote(n) /\ ReturnRecord(n)
    BY TypeOK, <1>25, ReturnWrites
  <2> QED BY <1>k, <1>s, <1>w, <2>1, <1>25 DEF Return, Change, ReturnRecord, SameExecutions
<1>26. CASE Continue
  <2>1. PICK n : Wrote(n) /\ ContinueRecord(n)
    BY TypeOK, <1>26, ContinueWrites
  <2> QED BY <1>k, <1>s, <1>w, <2>1, <1>26 DEF Continue, Change, ContinueRecord, SameExecutions
<1>27. CASE ContinueBlocked
  <2>1. UNCHANGED <<state, loop, reply>> /\ host'.recovery = "judge"
    BY <1>t, <1>27 DEF ContinueBlocked, store, Host
  <2> QED BY <2>1 DEF DeliveryHeld
<1>28. CASE Revise
  <2>1. PICK n : Wrote(n) /\ ReviseRecord(n)
    BY TypeOK, <1>28, ReviseWrites
  <2> QED BY <1>k, <1>s, <1>w, <2>1, <1>28 DEF Revise, Change, ReviseRecord, SameExecutions
<1>29. ASSUME NEW d \in BOOLEAN, Reconcile(d)
      PROVE  DeliveryHeld'
  <2>1. PICK n : Wrote(n) /\ ReconcileRecord(n, d)
    BY TypeOK, <1>29, ReconcileWrites
  <2>2. state'.delivery => state.delivery
    BY <2>1 DEF ReconcileRecord, Wrote
  <2>3. UNCHANGED <<host, loop, reply>>
    BY <1>29 DEF Reconcile, Change
  <2> QED BY <1>f, <2>2, <2>3 DEF DeliveryHeld
<1>30. CASE Cancel
  <2>1. PICK n : Wrote(n) /\ CancelRecord(n)
    BY TypeOK, <1>30, CancelWrites
  <2> QED BY <1>k, <1>s, <2>1, <1>30 DEF Cancel, Change, CancelRecord, SameExecutions
<1>31. ASSUME NEW i \in Input, InputBegin(i)
      PROVE  DeliveryHeld'
  <2>1. PICK n : Wrote(n) /\ InputBeginRecord(n, i)
    BY TypeOK, <1>31, InputBeginWrites
  <2> QED BY <1>k, <1>s, <2>1, <1>31 DEF InputBegin, InputBeginRecord
<1>32. ASSUME NEW w \in Work, NEW r \in {"accepted", "failed", "unknown"}, InputAdmit(w, r)
      PROVE  DeliveryHeld'
  <2>1. PICK n : Wrote(n) /\ InputAdmitRecord(n, w, r)
    BY TypeOK, <1>32, InputAdmitWrites
  <2> QED BY <1>k, <1>s, <2>1, <1>32 DEF InputAdmit, InputAdmitRecord
<1>33. ASSUME NEW r \in {"failed", "unknown"}, InputRefused(r)
      PROVE  DeliveryHeld'
  BY <1>k, <1>33 DEF InputRefused, store
<1>34. CASE InputSettle
  <2>1. PICK n : Wrote(n) /\ InputSettleRecord(n)
    BY TypeOK, <1>34, InputSettleWrites
  <2> QED BY <1>k, <1>s, <1>w, <2>1, <1>34 DEF InputSettle, InputSettleRecord
<1>35. CASE Crash
  <2>1. host'.recovery = "judge"
    BY <1>35 DEF Crash, Awake
  <2> QED BY <2>1 DEF DeliveryHeld
<1>36. CASE RecoverAgain
  <2>1. host'.recovery = "judge"
    BY <1>t, <1>36 DEF RecoverAgain, Host
  <2> QED BY <2>1 DEF DeliveryHeld
<1>37. ASSUME NEW u \in BOOLEAN, RecoverJudge(u)
      PROVE  DeliveryHeld'
  <2>1. state' = state
    BY <1>37 DEF RecoverJudge, store
  <2>2. ~hasUnresolvedExecution(state) => ~state.delivery
    BY DEF hasUnresolvedExecution
  <2>3. ~state.delivery \/ host'.blocked
    BY <1>t, <2>2, <1>37 DEF RecoverJudge, RecoveryEnds, Host
  <2> QED BY <2>1, <2>3 DEF DeliveryHeld
<1>38. CASE RecoverWrite
  <2>1. PICK n : Wrote(n) /\ RecoverWriteRecord(n)
    BY TypeOK, <1>38, RecoverWriteWrites
  <2>2. state'.delivery = state.delivery /\ UNCHANGED reply
    BY <1>s, <2>1, <1>38 DEF RecoverWrite, RecoverWriteRecord, SameExecutions
  <2>3. host'.blocked = host.blocked /\ host.recovery # "judge"
    BY <1>t, <1>38 DEF RecoverWrite, RecoveryEnds, Host
  <2>4. loop.pc = "deliver" => loop'.pc = "deliver"
    BY <1>t, <1>38 DEF RecoverWrite, RecoveryEnds, Run
  <2> QED BY <1>f, <2>2, <2>3, <2>4 DEF DeliveryHeld
<1> QED BY <1>1, <1>2, <1>3, <1>4, <1>5, <1>6, <1>7, <1>8, <1>9, <1>10, <1>11, <1>12, <1>13,
       <1>14, <1>15, <1>16, <1>17, <1>18, <1>19, <1>20, <1>21, <1>22, <1>23, <1>24, <1>25,
       <1>26, <1>27, <1>28, <1>29, <1>30, <1>31, <1>32, <1>33, <1>34, <1>35, <1>36, <1>37, <1>38
    DEF Next, TaskStep, Reports, Recovery, User

\* A state in which the run may be, whatever came before.
LEMMA WokenCases ==
  /\ Awaited' \/ loop'.pc = "step" \/ (loop'.again /\ loop'.pc # "idle") => WokenAgrees'
  /\ /\ Fresh' /\ loop'.pc \notin {"idle", "flush"}
     /\ ~(loop'.pc = "settle" /\ loop'.result = "accepted")
     => WokenAgrees'
BY DEF WokenAgrees, Excused, Midway

\* A run that is midway goes on with what it knew.
LEMMA RunGoesOn ==
  ASSUME WokenAgrees, Midway, Excused => Excused', state'.fence = state.fence,
         loop'.fence = loop.fence, loop'.again = loop.again,
         loop'.pc \notin {"idle", "step", "deliver", "flush"},
         ~(loop'.pc = "settle" /\ loop'.result = "accepted")
  PROVE  WokenAgrees'
BY DEF WokenAgrees, Midway, Fresh

\* What is awaited is left alone when the record keeps its owner, phase and delivery.
LEMMA AwaitedKept ==
  ASSUME FaultsCounted, UNCHANGED <<host, running, reply, sending, missed>>, SameOwner(state',
  state),
         state'.phase = state.phase, faults.failures # 0 => faults'.failures # 0
  PROVE  /\ Awaited => Awaited'
         /\ state'.delivery = state.delivery => (Excused => Excused')
BY DEF Awaited, Excused, SameOwner

\* Where the run goes: the question it asked first is kept, "again", but by a step.
LEMMA RunAgain ==
  ASSUME loop \in Run
  PROVE  /\ \A pc \in PCs : Go(pc).again = loop.again
         /\ \A r \in {"accepted", "failed", "unknown"} : Settles(r).again = loop.again
         /\ Leave(loop).pc = IF loop.again THEN "step" ELSE "idle"
BY DEF Go, Settles, Leave, Idle, Run

\* The transactions of the run throw and leave the record, or save it, or fail.
LEMMA MutateCases ==
  ASSUME FaultsCounted, NEW ok, NEW n, NEW then, NEW thrown, Mutate(ok, n, then, thrown)
  PROVE  /\ faults.failures # 0 => faults'.failures # 0
         /\ \/ ok /\ state' = n /\ loop' = then
            \/ Awaited'
            \/ ~ok /\ state' = state /\ loop' = thrown
BY FaultFacts DEF Mutate, Saved, Awaited, store

\* A run that is midway goes to another step, or to its settlement, with what it knew.
LEMMA RunGoesTo ==
  ASSUME loop \in Run, WokenAgrees, Midway, Excused => Excused', state'.fence = state.fence,
         NEW pc \in PCs \ {"step", "deliver", "flush"}, loop' = Go(pc)
  PROVE  WokenAgrees'
<1>1. loop'.pc = pc /\ loop'.fence = loop.fence
  BY RunFrames
<1>2. loop'.again = loop.again
  BY RunAgain
<1>3. pc \notin {"idle", "step", "deliver", "flush", "settle"}
  BY DEF PCs
<1> QED BY <1>1, <1>2, <1>3, RunGoesOn

LEMMA RunSettles ==
  ASSUME loop \in Run, WokenAgrees, Midway, Excused => Excused', state'.fence = state.fence,
         NEW r \in {"failed", "unknown"}, loop' = Settles(r)
  PROVE  WokenAgrees'
<1>1. loop'.pc = "settle" /\ loop'.fence = loop.fence /\ loop'.result = r
  BY RunFrames
<1>2. loop'.again = loop.again
  BY RunAgain
<1> QED BY <1>1, <1>2, RunGoesOn

\* Whom the task waits for is told by why the run may not write.
LEMMA NotWritable ==
  ASSUME TypeOK, WorksAgree, WokenAgrees, Midway, loop.pc # "deliver",
         ~(assertWritable(state, loop.fence) /\ activeWork(state) = {})
  PROVE  Excused \/ loop.again
BY DEF WorksAgree, WokenAgrees, Excused, Awaited, assertWritable, Terminal, Fresh

\* Step ends the run only when the task is awaited.
LEMMA StepWoken ==
  ASSUME TypeOK, FaultsCounted, WorksAgree, Step
  PROVE  WokenAgrees'
<1>t. loop \in Run /\ state.fence \in Fence
  BY DEF TypeOK, Task
<1>1. UNCHANGED <<state, host, running, reply, sending, faults, missed>>
  BY DEF Step, store
<1>2. CASE \/ state.phase = "completed" \/ state.delivery \/ host.recovery # "none" \/ host.blocked
           \/ state.phase = "cancelled" \/ state.user \/ activeWork(state) # {}
  <2>1. Excused
    BY <1>2 DEF WorksAgree, Excused, Awaited
  <2>2. Excused'
    BY <1>1, <2>1 DEF Excused, Awaited
  <2>3. loop'.pc = "idle"
    BY <1>t, <1>2 DEF Step, Leave, Idle, Run
  <2> QED BY <2>2, <2>3 DEF WokenAgrees, Midway
<1>3. CASE ~(\/ state.phase = "completed" \/ state.delivery \/ host.recovery # "none" \/ host.blocked
             \/ state.phase = "cancelled" \/ state.user \/ activeWork(state) # {})
  <2>1. loop'.pc \in {"wait", "reserve", "evaluate"} /\ loop'.fence = state.fence
    BY <1>t, <1>3 DEF Step, Run
  <2> QED BY <1>1, <2>1, WokenCases DEF Fresh
<1> QED BY <1>2, <1>3

\* GiveUp leaves a task that waits, or one that someone else drives.
LEMMA GiveUpWoken ==
  ASSUME TypeOK, FaultsCounted, WorksAgree, WokenAgrees, GiveUp
  PROVE  WokenAgrees'
<1>t. loop \in Run /\ state \in Task
  BY DEF TypeOK
<1> DEFINE ok == assertWritable(state, loop.fence) /\ activeWork(state) = {}
<1>1. loop.pc = "giveUp" /\ UNCHANGED <<host, running, reply, sending, missed>>
      /\ Mutate(ok, Waits(state), Leave(loop), Leave(loop))
  BY DEF GiveUp
<1>2. CASE state' = Waits(state)
  BY <1>t, <1>2, OwnerFrames, WokenCases DEF Awaited
<1>3. CASE ~ok /\ state' = state /\ loop' = Leave(loop)
  <2>1. Excused \/ loop.again
    BY <1>1, <1>3, NotWritable DEF Midway
  <2>2. faults.failures # 0 => faults'.failures # 0
    BY <1>1, MutateCases
  <2>3. Excused => Excused'
    BY <1>1, <1>3, <2>2, AwaitedKept DEF SameOwner
  <2>4. loop'.pc = IF loop.again THEN "step" ELSE "idle"
    BY <1>t, <1>3, RunAgain
  <2> QED BY <2>1, <2>3, <2>4, WokenCases DEF WokenAgrees, Midway
<1> QED BY <1>1, <1>2, <1>3, MutateCases, WokenCases

\* WaitUnknown leaves a task that waits, or a run that gives up.
LEMMA WaitUnknownWoken ==
  ASSUME TypeOK, FaultsCounted, WokenAgrees, WaitUnknown
  PROVE  WokenAgrees'
<1>t. loop \in Run /\ state \in Task
  BY DEF TypeOK
<1> DEFINE ok == assertWritable(state, loop.fence) /\ activeWork(state) = {}
<1>1. loop.pc = "wait" /\ UNCHANGED <<host, running, reply, sending, missed>>
      /\ Mutate(ok, Waits(state), Leave(loop), Go("giveUp"))
  BY DEF WaitUnknown
<1>2. CASE state' = Waits(state)
  BY <1>t, <1>2, OwnerFrames, WokenCases DEF Awaited
<1>3. CASE state' = state /\ loop' = Go("giveUp")
  <2>1. Excused => Excused'
    BY <1>1, <1>3, MutateCases, AwaitedKept DEF SameOwner
  <2>2. Midway /\ state'.fence = state.fence
    BY <1>1, <1>3 DEF Midway
  <2>3. "giveUp" \in PCs \ {"step", "deliver", "flush"}
    BY DEF PCs
  <2> QED BY <1>t, <1>3, <2>1, <2>2, <2>3, RunGoesTo
<1> QED BY <1>1, <1>2, <1>3, MutateCases, WokenCases

\* ReserveInitial goes on under a fence that is the task's.
LEMMA ReserveInitialWoken ==
  ASSUME TypeOK, FaultsCounted, WokenAgrees, ReserveInitial
  PROVE  WokenAgrees'
<1>t. loop \in Run /\ state \in Task
  BY DEF TypeOK
<1> DEFINE n == [state EXCEPT !.effect = [kind |-> "initial", fence |-> loop.fence,
                                          write_started |-> FALSE, status |-> "pending"]]
           ok == assertWritable(state, loop.fence) /\ Reservable(state)
<1>1. loop.pc = "reserve" /\ UNCHANGED <<host, running, reply, sending, missed>>
      /\ Mutate(ok, n, Go("mark"), Go("giveUp"))
  BY DEF ReserveInitial
<1>2. CASE ok /\ state' = n /\ loop' = Go("mark")
  <2>1. n.fence = state.fence
    BY <1>t DEF Task
  <2> HIDE DEF n
  <2>2. Fresh' /\ loop'.pc = "mark"
    BY <1>t, <1>2, <2>1, RunFrames DEF Fresh, assertWritable, PCs
  <2> QED BY <2>2, WokenCases
<1>3. CASE state' = state /\ loop' = Go("giveUp")
  <2>1. Excused => Excused'
    BY <1>1, <1>3, MutateCases, AwaitedKept DEF SameOwner
  <2>2. Midway /\ state'.fence = state.fence
    BY <1>1, <1>3 DEF Midway
  <2>3. "giveUp" \in PCs \ {"step", "deliver", "flush"}
    BY DEF PCs
  <2> QED BY <1>t, <1>3, <2>1, <2>2, <2>3, RunGoesTo
<1> HIDE DEF n, ok
<1> QED BY <1>1, <1>2, <1>3, MutateCases, WokenCases

\* The verifier's answer, or failure, changes nothing the task waits for.
LEMMA EvaluateWoken ==
  ASSUME TypeOK, FaultsCounted, WokenAgrees,
         EvaluateFails \/ \E d \in Decisions,
         r \in BOOLEAN : \E cites \in SUBSET evidence(state) :
                            Evaluate(d, cites, r)
  PROVE  WokenAgrees'
<1>t. loop \in Run
  BY DEF TypeOK
<1>1. loop.pc = "evaluate" /\ UNCHANGED <<state, host, running, reply, sending, faults, missed>>
  BY DEF Evaluate, EvaluateFails, store
<1>2. loop'.pc \in {"apply", "giveUp"} /\ loop'.fence = loop.fence /\ loop'.again = loop.again
  BY <1>t DEF Evaluate, EvaluateFails, Go, Run
<1>3. Excused => Excused'
  BY <1>1, AwaitedKept DEF SameOwner
<1> QED BY <1>1, <1>2, <1>3, RunGoesOn DEF Midway

\* Apply ends a run whose task waits or is complete, steps again, or goes on.
LEMMA ApplyWoken ==
  ASSUME TypeOK, FaultsCounted, WokenAgrees, Apply
  PROVE  WokenAgrees'
<1>t. loop \in Run /\ state \in Task
  BY DEF TypeOK
<1>1. loop.pc = "apply" /\ UNCHANGED <<host, running, reply, sending, missed>>
  BY DEF Apply
<1> DEFINE stops(n) == n.phase \in {"waiting", "completed"}
<1>2. /\ stops(Waits(state))
      /\ stops([state EXCEPT !.phase = "completed", !.lost = FALSE])
      /\ CorrectedTask(state).fence = state.fence
  <2>1. Waits(state).phase = "waiting" /\ CorrectedTask(state).fence = state.fence
    BY <1>t, OwnerFrames, DecisionFrames DEF SameOwner
  <2>2. [state EXCEPT !.phase = "completed", !.lost = FALSE].phase = "completed"
    BY <1>t DEF Task
  <2> QED BY <2>1, <2>2
<1>3. PICK ok, n, then :
        /\ Mutate(ok, n, then, Go("giveUp"))
        /\ stops(n) \/ then.pc = "step" \/ (n.fence = state.fence /\ then = Go("mark") /\ (ok => Fresh))
  <2>1. CASE loop.says = "wait"
    <3>1. Mutate(assertWritable(state, loop.fence) /\ activeWork(state) = {}, Waits(state),
                 Leave(loop), Go("giveUp"))
      BY <2>1 DEF Apply
    <3> QED BY <1>2, <3>1 DEF assertWritable, Terminal
  <2>2. CASE loop.says = "reconcile"
    <3>1. Mutate(Decidable(state), ReconciledTask(state), [Idle EXCEPT !.pc = "step"],
    Go("giveUp"))
      BY <2>2 DEF Apply
    <3>2. [Idle EXCEPT !.pc = "step"].pc = "step"
      BY DEF Idle
    <3> QED BY <3>1, <3>2, Zenon
  <2>3. CASE loop.says = "complete"
    <3>1. Mutate(Decidable(state) /\ CitesCurrent(state),
                 [state EXCEPT !.phase = "completed", !.lost = FALSE], Leave(loop), Go("giveUp"))
      BY <2>3 DEF Apply
    <3> QED BY <1>2, <3>1
  <2>4. CASE loop.says = "correct" /\ Exhausted(state)
    <3>1. Mutate(Decidable(state), Waits(state), Leave(loop), Go("giveUp"))
      BY <2>4 DEF Apply
    <3> QED BY <1>2, <3>1
  <2>5. CASE loop.says = "correct" /\ ~Exhausted(state)
    <3>1. Mutate(Decidable(state), CorrectedTask(state), Go("mark"), Go("giveUp"))
      BY <2>5 DEF Apply
    <3>2. Decidable(state) => Fresh
      BY DEF Decidable, assertWritable, Fresh
    <3> QED BY <1>2, <3>1, <3>2
  <2> QED BY <1>t, <2>1, <2>2, <2>3, <2>4, <2>5 DEF Run
<1>4. CASE ok /\ state' = n /\ loop' = then
  <2>1. stops(n) => Awaited'
    BY <1>4 DEF Awaited
  <2>2. Go("mark").pc = "mark" /\ Go("mark").fence = loop.fence
    BY <1>t, RunFrames DEF PCs
  <2>3. n.fence = state.fence /\ then = Go("mark") /\ Fresh => Fresh' /\ loop'.pc = "mark"
    BY <1>4, <2>2 DEF Fresh
  <2> QED BY <1>3, <1>4, <2>1, <2>3, WokenCases
<1>5. CASE state' = state /\ loop' = Go("giveUp")
  <2>1. Excused => Excused'
    BY <1>1, <1>3, <1>5, MutateCases, AwaitedKept DEF SameOwner
  <2>2. Midway /\ state'.fence = state.fence
    BY <1>1, <1>5 DEF Midway
  <2>3. "giveUp" \in PCs \ {"step", "deliver", "flush"}
    BY DEF PCs
  <2> QED BY <1>t, <1>5, <2>1, <2>2, <2>3, RunGoesTo
<1> HIDE DEF stops
<1> QED BY <1>3, <1>4, <1>5, MutateCases, WokenCases

\* MarkEffectDispatching goes on under a fence that is the task's.
LEMMA MarkEffectDispatchingWoken ==
  ASSUME TypeOK, FaultsCounted, WokenAgrees, MarkEffectDispatching
  PROVE  WokenAgrees'
<1>t. loop \in Run /\ state \in Task
  BY DEF TypeOK
<1> DEFINE n == [state EXCEPT !.effect.write_started = TRUE]
           ok == state.effect.status = "pending" /\ Executable(state, loop.fence)
<1>1. loop.pc = "mark" /\ UNCHANGED <<host, running, reply, sending, missed>>
      /\ Mutate(ok, n, Go("execute"), Settles("failed"))
  BY DEF MarkEffectDispatching
<1>2. CASE ok /\ state' = n /\ loop' = Go("execute")
  <2>1. n.fence = state.fence
    BY <1>t DEF Task
  <2> HIDE DEF n
  <2>2. Fresh' /\ loop'.pc = "execute"
    BY <1>t, <1>2, <2>1, RunFrames DEF Fresh, Executable, assertWritable, PCs
  <2> QED BY <2>2, WokenCases
<1>3. CASE state' = state /\ loop' = Settles("failed")
  <2>1. Excused => Excused'
    BY <1>1, <1>3, MutateCases, AwaitedKept DEF SameOwner
  <2>2. Midway /\ state'.fence = state.fence
    BY <1>1, <1>3 DEF Midway
  <2> QED BY <1>t, <1>3, <2>1, <2>2, RunSettles
<1> HIDE DEF n, ok
<1> QED BY <1>1, <1>2, <1>3, MutateCases, WokenCases

\* The last look before the dispatch, and a refusal, write nothing.
LEMMA ExecuteWoken ==
  ASSUME TypeOK, FaultsCounted, WokenAgrees, Execute \/ Refuse
  PROVE  WokenAgrees'
<1>t. loop \in Run
  BY DEF TypeOK
<1>1. loop.pc \in {"execute", "dispatch"}
      /\ UNCHANGED <<state, host, running, reply, sending, faults, missed>>
  BY DEF Execute, Refuse, store
<1>2. loop' \in {Go("dispatch"), Settles("failed")}
  BY DEF Execute, Refuse
<1>3. Excused => Excused'
  BY <1>1, AwaitedKept DEF SameOwner
<1>4. Midway /\ state'.fence = state.fence
  BY <1>1 DEF Midway
<1>5. "dispatch" \in PCs \ {"step", "deliver", "flush"}
  BY DEF PCs
<1>6. CASE loop' = Go("dispatch")
  BY <1>t, <1>3, <1>4, <1>5, <1>6, RunGoesTo
<1>7. CASE loop' = Settles("failed")
  BY <1>t, <1>3, <1>4, <1>7, RunSettles
<1> QED BY <1>2, <1>6, <1>7

\* A work that is bound reports.
LEMMA BindWorkWoken ==
  ASSUME TypeOK, FaultsCounted, WokenAgrees, NEW w \in Work, BindWork(w)
  PROVE  WokenAgrees'
<1>t. loop \in Run /\ state \in Task
  BY DEF TypeOK
<1> DEFINE n == [state EXCEPT !.works[w] = [kind |-> "work", goal |-> loop.fence[2],
outcome |-> "none"],
                   !.phase = IF @ \in {"queued", "waiting"} THEN "running" ELSE @, !.lost = FALSE]
           ok == state.fence = loop.fence /\ ~Terminal(state)
<1>1. loop.pc = "dispatch" /\ UNCHANGED <<host, reply, sending, missed>>
      /\ Mutate(ok, n, Go("flush"), Settles("unknown"))
      /\ IF state' = n THEN running' = running \cup {w} ELSE UNCHANGED running
  BY DEF BindWork
<1> HIDE DEF n, ok
<1>2. CASE state' = n
  BY <1>1, <1>2, WokenCases DEF Awaited
<1>3. CASE state' = state /\ state' # n /\ loop' = Settles("unknown")
  <2>1. Excused => Excused'
    BY <1>1, <1>3, MutateCases, AwaitedKept DEF SameOwner
  <2>2. Midway /\ state'.fence = state.fence
    BY <1>1, <1>3 DEF Midway
  <2> QED BY <1>t, <1>3, <2>1, <2>2, RunSettles
<1> QED BY <1>1, <1>2, <1>3, MutateCases, WokenCases

\* The flush ends with what the binding left to wait for, or is counted as failed.
LEMMA FlushWoken ==
  ASSUME TypeOK, FaultsCounted, WokenAgrees, Flush
  PROVE  WokenAgrees'
<1>t. loop \in Run
  BY DEF TypeOK
<1>1. loop.pc = "flush" /\ UNCHANGED <<state, host, running, reply, sending, missed>>
  BY DEF Flush, store
<1>2. CASE Fault("failures")
  BY <1>2, FaultFacts, WokenCases DEF Awaited
<1>3. CASE loop' = Settles("accepted") /\ UNCHANGED faults
  <2>1. Excused => Excused'
    BY <1>1, <1>3, AwaitedKept DEF SameOwner
  <2>2. Excused' \/ loop'.again
    BY <1>t, <1>1, <1>3, <2>1, RunAgain DEF WokenAgrees
  <2>3. loop'.pc = "settle"
    BY <1>t, <1>3, RunFrames
  <2> QED BY <2>2, <2>3 DEF WokenAgrees
<1> QED BY <1>2, <1>3 DEF Flush

\* BeginDelivery goes on under a fence that is the task's.
LEMMA BeginDeliveryWoken ==
  ASSUME TypeOK, FaultsCounted, WokenAgrees, BeginDelivery
  PROVE  WokenAgrees'
<1>t. loop \in Run /\ state \in Task
  BY DEF TypeOK
<1> DEFINE n == [state EXCEPT !.delivery = TRUE]
           ok == assertWritable(state, loop.fence) /\ ~state.delivery
<1>1. loop.pc = "dispatch" /\ UNCHANGED <<running, reply, sending, missed>>
      /\ Mutate(ok, n, Go("deliver"), Settles("failed"))
      /\ host' = IF loop'.pc = "deliver" THEN [host EXCEPT !.live = TRUE] ELSE host
  BY DEF BeginDelivery
<1>2. CASE ok /\ state' = n /\ loop' = Go("deliver")
  <2>1. n.fence = state.fence
    BY <1>t DEF Task
  <2> HIDE DEF n
  <2>2. Fresh' /\ loop'.pc = "deliver"
    BY <1>t, <1>2, <2>1, RunFrames DEF Fresh, assertWritable, PCs
  <2> QED BY <2>2, WokenCases
<1>3. CASE state' = state /\ loop' = Settles("failed")
  <2>1. host' = host
    BY <1>t, <1>1, <1>3, RunFrames
  <2>2. Excused => Excused'
    BY <1>1, <1>3, <2>1, MutateCases, AwaitedKept DEF SameOwner
  <2>3. Midway /\ state'.fence = state.fence
    BY <1>1, <1>3 DEF Midway
  <2> QED BY <1>t, <1>3, <2>2, <2>3, RunSettles
<1> HIDE DEF n, ok
<1> QED BY <1>1, <1>2, <1>3, MutateCases, WokenCases

\* A response is to come, or a delivery that is not over, or the run knows better.
LEMMA DeliverWoken ==
  ASSUME TypeOK, FaultsCounted, EffectAgrees, WokenAgrees, Deliver
  PROVE  WokenAgrees'
<1>t. loop \in Run /\ state \in Task /\ host \in Host
  BY DEF TypeOK
<1>1. loop.pc = "deliver" /\ state.delivery /\ UNCHANGED <<running, sending, missed>>
  BY DEF Deliver, EffectAgrees, Records
<1> DEFINE n == [state EXCEPT !.delivery = FALSE]
<1>2. CASE reply'.pc = "queued"
  BY <1>2, WokenCases DEF Awaited
<1>3. CASE loop' = Settles("unknown") /\ state' = state
  <2>1. Excused'
    BY <1>1, <1>3 DEF Excused
  <2>2. Midway /\ state'.fence = state.fence
    BY <1>1, <1>3 DEF Midway
  <2> QED BY <1>t, <1>3, <2>1, <2>2, RunSettles
<1>4. CASE /\ Mutate(TRUE, n, Settles("failed"), Settles("failed"))
           /\ host' = [host EXCEPT !.live = FALSE] /\ UNCHANGED reply
  <2>1. n.fence = state.fence /\ n.user = state.user /\ n.phase = state.phase
    BY <1>t DEF Task
  <2> HIDE DEF n
  <2>2. Awaited' \/ (state' = n /\ loop' = Settles("failed"))
    BY <1>4, MutateCases
  <2>3. host'.blocked = host.blocked /\ host'.recovery = host.recovery
    BY <1>t, <1>4 DEF Host
  <2>4. faults.failures # 0 => faults'.failures # 0
    BY <1>4, MutateCases
  <2>5. Awaited => Awaited'
    BY <1>1, <1>4, <2>1, <2>2, <2>3, <2>4 DEF Awaited
  <2>6. CASE state' = n /\ loop' = Settles("failed")
    <3>1. loop'.pc = "settle" /\ loop'.result = "failed" /\ loop'.again = loop.again
          /\ loop'.fence = loop.fence
      BY <1>t, <2>6, RunFrames, RunAgain
    <3>2. Fresh => Fresh'
      BY <2>1, <2>6, <3>1 DEF Fresh
    <3>3. ~Fresh => Awaited \/ loop.again
      BY <1>1 DEF WokenAgrees
    <3> QED BY <2>5, <3>1, <3>2, <3>3, WokenCases
  <2> QED BY <2>2, <2>6, WokenCases
<1>5. \/ reply'.pc = "queued"
      \/ loop' = Settles("unknown") /\ state' = state
      \/ /\ Mutate(TRUE, n, Settles("failed"), Settles("failed"))
         /\ host' = [host EXCEPT !.live = FALSE] /\ UNCHANGED reply
  <2>1. \/ reply' = [pc |-> "queued", fence |-> loop.fence]
        \/ loop' = Settles("unknown") /\ UNCHANGED store
        \/ /\ Mutate(TRUE, n, Settles("failed"), Settles("failed"))
           /\ host' = [host EXCEPT !.live = FALSE] /\ UNCHANGED reply
    BY Zenon DEF Deliver
  <2>2. UNCHANGED store => state' = state
    BY DEF store
  <2>3. reply' = [pc |-> "queued", fence |-> loop.fence] => reply'.pc = "queued"
    OBVIOUS
  <2> QED BY <2>1, <2>2, <2>3, Zenon
<1> HIDE DEF n
<1> QED BY <1>2, <1>3, <1>4, <1>5

\* SettleEffect ends a run whose step was accepted, and what it started is to report.
LEMMA SettleEffectWoken ==
  ASSUME TypeOK, FaultsCounted, WokenAgrees, SettleEffect
  PROVE  WokenAgrees'
<1>t. loop \in Run /\ state \in Task
  BY DEF TypeOK
<1> DEFINE n == SettledTask(state)
           then == IF loop.result = "accepted" THEN Leave(loop) ELSE Go("giveUp")
           thrown == IF loop.result = "accepted" THEN Settles("unknown") ELSE Go("giveUp")
<1>1. loop.pc = "settle" /\ UNCHANGED <<host, running, reply, sending, missed>>
      /\ Mutate(TRUE, n, then, thrown)
  BY DEF SettleEffect
<1>2. n.delivery = state.delivery /\ SameOwner(n, state) /\ n.phase = state.phase
  BY <1>t, EffectFrames
<1> HIDE DEF n
<1>3. CASE state' = n /\ loop' = then
  <2>1. faults.failures # 0 => faults'.failures # 0
    BY <1>1, MutateCases
  <2>2. Excused => Excused'
    BY <1>1, <1>2, <1>3, <2>1, AwaitedKept
  <2>3. CASE loop.result = "accepted"
    <3>1. Excused \/ loop.again
      BY <1>1, <2>3 DEF WokenAgrees
    <3>2. loop'.pc = IF loop.again THEN "step" ELSE "idle"
      BY <1>t, <1>3, <2>3, RunAgain
    <3> QED BY <2>2, <3>1, <3>2, WokenCases DEF WokenAgrees, Midway
  <2>4. CASE loop.result # "accepted"
    <3>1. Midway /\ state'.fence = state.fence /\ loop' = Go("giveUp")
      BY <1>1, <1>2, <1>3, <2>4 DEF Midway, SameOwner
    <3>2. "giveUp" \in PCs \ {"step", "deliver", "flush"}
      BY DEF PCs
    <3> QED BY <1>t, <2>2, <3>1, <3>2, RunGoesTo
  <2> QED BY <2>3, <2>4
<1> HIDE DEF then, thrown
<1> QED BY <1>1, <1>3, MutateCases, WokenCases

\* Whoever acts beside the run leaves it driven.
LEMMA DrivenStaysWoken ==
  ASSUME WokenAgrees, Drives \/ Restarts
  PROVE  WokenAgrees'
<1>1. CASE Restarts
  BY <1>1, WokenCases DEF Restarts
<1>2. CASE Drives /\ (Woke \/ loop'.pc = "step")
  BY <1>2, WokenCases DEF Woke
<1>3. CASE Drives /\ ~Woke /\ loop'.pc # "step"
  <2>1. /\ loop'.pc = loop.pc /\ loop'.fence = loop.fence /\ loop'.result = loop.result
        /\ loop.again => loop'.again
    BY <1>3 DEF Drives, RunStays
  <2>2. (Excused => Excused') /\ (state'.fence # state.fence => Awaited')
    BY <1>3 DEF Drives
  <2>3. Awaited => Awaited'
    BY <1>3 DEF Drives
  <2>4. loop'.pc = "idle" => Excused'
    BY <2>1, <2>2 DEF WokenAgrees
  <2>5. Midway' /\ ~Fresh' => Excused' \/ loop'.again
    BY <2>1, <2>2 DEF WokenAgrees, Midway, Fresh, Excused
  <2>6. loop'.pc = "deliver" /\ ~Fresh' => Awaited' \/ loop'.again
    BY <2>1, <2>2, <2>3 DEF WokenAgrees, Fresh
  <2>7. loop'.pc = "flush" \/ (loop'.pc = "settle" /\ loop'.result = "accepted") => Excused' \/ loop'.again
    BY <2>1, <2>2 DEF WokenAgrees
  <2> QED BY <2>4, <2>5, <2>6, <2>7 DEF WokenAgrees
<1> QED BY <1>1, <1>2, <1>3

\* Every step leaves the run awake, or someone who wakes it.
LEMMA WokenKept ==
  ASSUME TypeOK, FaultsCounted, EffectAgrees, WorksAgree, WokenAgrees, Next
  PROVE  WokenAgrees'
<1>1. CASE TaskStep
  <2>1. CASE Step \/ GiveUp \/ WaitUnknown \/ ReserveInitial
    BY <2>1, StepWoken, GiveUpWoken, WaitUnknownWoken, ReserveInitialWoken
  <2>2. ASSUME NEW d \in Decisions, NEW r \in BOOLEAN,
               NEW cites \in {{}} \cup {{e} : e \in evidence(state)},
               Evaluate(d, cites, r)
        PROVE  WokenAgrees'
    <3>1. cites \in SUBSET evidence(state)
      OBVIOUS
    <3> QED BY <2>2, <3>1, EvaluateWoken
  <2>3. CASE EvaluateFails \/ Apply \/ MarkEffectDispatching
    BY <2>3, EvaluateWoken, ApplyWoken, MarkEffectDispatchingWoken
  <2>4. CASE Execute \/ Refuse \/ Flush \/ (\E w \in Work : BindWork(w))
    BY <2>4, ExecuteWoken, FlushWoken, BindWorkWoken
  <2>5. CASE BeginDelivery \/ Deliver \/ SettleEffect
    BY <2>5, BeginDeliveryWoken, DeliverWoken, SettleEffectWoken
  <2> QED BY <1>1, <2>1, <2>2, <2>3, <2>4, <2>5 DEF TaskStep
<1>2. CASE ~TaskStep
  BY <1>2, OthersDriven, DrivenStaysWoken
<1> QED BY <1>1, <1>2

\* Initially the run is about to step.
LEMMA StrandInit == Init => StrandInv
<1> SUFFICES ASSUME Init PROVE StrandInv
  OBVIOUS
<1>1. loop.pc = "step" /\ activeWork(state) = {} /\ ~state.delivery /\ FaultsCounted
  BY DEF Init, Idle, FaultsCounted, activeWork, Works, NoWork
<1> QED BY <1>1 DEF StrandInv, WorksAgree, DeliveryHeld, WokenAgrees, Midway

\* The inductive invariant of the wakes, which rests on that of the executions.
LEMMA StrandHolds == Spec => []StrandInv
<1>1. IInv /\ StrandInv /\ [Next]_vars => StrandInv'
  <2> SUFFICES ASSUME IInv, StrandInv, [Next]_vars PROVE StrandInv'
    OBVIOUS
  <2>1. CASE UNCHANGED vars
    BY <2>1 DEF StrandInv, FaultsCounted, WorksAgree, DeliveryHeld, WokenAgrees, Excused, Awaited, Midway,
       Fresh,
                activeWork, Works, vars, store
  <2>2. CASE Next
    BY <2>2, FaultsKept, WorksKept, DeliveryKept, WokenKept DEF IInv, StrandInv
  <2> QED BY <2>1, <2>2
<1> QED BY <1>1, StrandInit, InvariantHolds, PTL DEF Spec

\* A task Nova controls that waits for no one, one with a delivery pending included, is
\* driven by the loop, by an execution that reports, or by a recovery, unless a write
\* failed, its reply was lost, or nobody told the loop, as when a response completes
\* without a text (task-loop.ts wake, tasks.ts, conversation-runtime.ts
\* settleTaskResponse, host.ts recoverTasks).
THEOREM NobodyStrandedHolds == Spec => []NobodyStranded
<1>1. StrandInv => NobodyStranded
  <2> SUFFICES ASSUME StrandInv, Driven, ~missed, reply.pc # "lost", faults.failures = 0
               PROVE  Driver
    BY DEF NobodyStranded
  <2>1. CASE state.delivery
    BY <2>1 DEF StrandInv, DeliveryHeld, Driven, Driver
  <2>2. CASE ~state.delivery
    BY <2>2 DEF StrandInv, WokenAgrees, Excused, Awaited, Driven, Driver
  <2> QED BY <2>1, <2>2
<1> QED BY <1>1, InvariantHolds, StrandHolds, PTL

-----------------------------------------------------------------------------
(* The record only moves forward.                                            *)

\* A step writes a record that follows the one in memory, or nothing.
Forward == \E n : Wrote(n) /\ Follows(state, n)

\* The numbers of a record are numbers.
LEMMA Numbers ==
  ASSUME NEW t \in Task
  PROVE  /\ t.fence[1] \in Nat /\ t.fence[2] \in Nat /\ t.corrections \in Nat
         /\ t.fence = <<t.fence[1], t.fence[2]>>
BY Bounds DEF Task, Fence, Goal

\* A record that keeps its works and messages follows if its end is kept, if it
\* had one, and its numbers do not go back.
LEMMA FollowsAlong ==
  ASSUME NEW t \in Task, NEW u,
         u.route = t.route /\ u.works = t.works /\ u.inputs = t.inputs,
         t.proofs \subseteq u.proofs, Terminal(t) => u.phase = t.phase,
         t.fence[1] <= u.fence[1] /\ t.fence[2] <= u.fence[2],
         t.corrections <= u.corrections \/ t.fence[1] < u.fence[1]
  PROVE  Follows(t, u)
BY DEF Follows, WorkFollows, InputFollows

\* A record follows itself.
LEMMA FollowsItself ==
  ASSUME NEW t \in Task
  PROVE  Follows(t, t)
BY Numbers, FollowsAlong

\* Evidence is never lost on the way forward: what has reported stays filed under
\* its goal (evidence of task-contract.ts).
LEMMA EvidenceFollows ==
  ASSUME NEW t \in Task, NEW u \in Task, Follows(t, u)
  PROVE  evidence(t) \subseteq evidence(u)
<1> SUFFICES ASSUME NEW w \in Work, t.works[w].kind = "work", t.works[w].outcome # "none"
             PROVE  /\ u.works[w].kind = "work" /\ u.works[w].outcome # "none"
                    /\ u.works[w].goal = t.works[w].goal
  BY DEF evidence, Follows
<1> QED BY DEF Follows, WorkFollows

\* The transactions that end a task or move its phase, made of a task under way.
LEMMA PhaseFollows ==
  ASSUME NEW t \in Task
  PROVE  /\ ~Terminal(t) => Follows(t, Waits(t))
         /\ \A p \in Phase : ~Terminal(t) => Follows(t, [t EXCEPT !.phase = p, !.lost = FALSE])
         /\ \A p \in Phase : Follows(t, ResourceTask(t, p))
         /\ Follows(t, RecoveredTask(t))
<1>n. /\ t.fence[1] <= t.fence[1] /\ t.fence[2] <= t.fence[2] /\ t.corrections <= t.corrections
      /\ Follows(t, t)
  BY Numbers, FollowsItself
<1>1. ASSUME NEW p, NEW b, ~Terminal(t)
      PROVE  Follows(t, [t EXCEPT !.phase = p, !.lost = b])
  <2> DEFINE u == [t EXCEPT !.phase = p, !.lost = b]
  <2>1. /\ u.route = t.route /\ u.works = t.works /\ u.inputs = t.inputs /\ u.proofs = t.proofs
        /\ u.fence = t.fence /\ u.corrections = t.corrections
    BY DEF Task
  <2> SUFFICES Follows(t, u)
    OBVIOUS
  <2> HIDE DEF u
  <2> QED BY <1>n, <1>1, <2>1, FollowsAlong
<1>2. Follows(t, [t EXCEPT !.lost = FALSE])
  <2> DEFINE u == [t EXCEPT !.lost = FALSE]
  <2>1. /\ u.route = t.route /\ u.works = t.works /\ u.inputs = t.inputs /\ u.proofs = t.proofs
        /\ u.fence = t.fence /\ u.corrections = t.corrections /\ u.phase = t.phase
    BY DEF Task
  <2> SUFFICES Follows(t, u)
    OBVIOUS
  <2> HIDE DEF u
  <2> QED BY <1>n, <2>1, FollowsAlong
<1>3. ~Terminal(t) => Follows(t, Waits(t)) /\ Follows(t, Resumed(t))
  BY <1>1 DEF Waits, Resumed
<1>4. \A p \in Phase : Follows(t, ResourceTask(t, p))
  BY <1>n, <1>1 DEF ResourceTask
<1>5. Follows(t, RecoveredTask(t))
  BY <1>n, <1>1, <1>2, <1>3 DEF RecoveredTask
<1> QED BY <1>1, <1>3, <1>4, <1>5

\* The transactions of the effect and of the delivery.
LEMMA ExecutionFollows ==
  ASSUME NEW t \in Task
  PROVE  /\ \A e : Follows(t, [t EXCEPT !.effect = e])
         /\ Follows(t, [t EXCEPT !.effect.write_started = TRUE])
         /\ \A b \in BOOLEAN : Follows(t, [t EXCEPT !.delivery = b])
         /\ Follows(t, SettledTask(t)) /\ Follows(t, Opened(t))
<1>n. /\ t.fence[1] <= t.fence[1] /\ t.fence[2] <= t.fence[2] /\ t.corrections <= t.corrections
      /\ Follows(t, t)
  BY Numbers, FollowsItself
<1>1. ASSUME NEW e PROVE Follows(t, [t EXCEPT !.effect = e])
  <2> DEFINE u == [t EXCEPT !.effect = e]
  <2>1. /\ u.route = t.route /\ u.works = t.works /\ u.inputs = t.inputs /\ u.proofs = t.proofs
        /\ u.fence = t.fence /\ u.corrections = t.corrections /\ u.phase = t.phase
    BY DEF Task
  <2> SUFFICES Follows(t, u)
    OBVIOUS
  <2> HIDE DEF u
  <2> QED BY <1>n, <2>1, FollowsAlong
<1>2. ASSUME NEW b \in BOOLEAN PROVE Follows(t, [t EXCEPT !.delivery = b])
  <2> DEFINE u == [t EXCEPT !.delivery = b]
  <2>1. /\ u.route = t.route /\ u.works = t.works /\ u.inputs = t.inputs /\ u.proofs = t.proofs
        /\ u.fence = t.fence /\ u.corrections = t.corrections /\ u.phase = t.phase
    BY DEF Task
  <2> SUFFICES Follows(t, u)
    OBVIOUS
  <2> HIDE DEF u
  <2> QED BY <1>n, <2>1, FollowsAlong
<1>3. /\ Follows(t, [t EXCEPT !.effect.write_started = TRUE])
      /\ \A s : Follows(t, [t EXCEPT !.effect.status = s])
  <2>1. [t EXCEPT !.effect.write_started = TRUE]
          = [t EXCEPT !.effect = [t.effect EXCEPT !.write_started = TRUE]]
    OBVIOUS
  <2>2. \A s : [t EXCEPT !.effect.status = s] = [t EXCEPT !.effect = [t.effect EXCEPT !.status = s]]
    OBVIOUS
  <2> QED BY <1>1, <2>1, <2>2
<1>4. Follows(t, SettledTask(t)) /\ Follows(t, Opened(t))
  BY <1>n, <1>3 DEF SettledTask, Opened
<1> QED BY <1>1, <1>2, <1>3, <1>4

\* The transactions that change the owner or the goal.
LEMMA ControlFollows ==
  ASSUME NEW t \in Task
  PROVE  /\ \A b \in BOOLEAN : Follows(t, [NextControl(t) EXCEPT !.user = b])
         /\ Follows(t, NextGoal(t))
         /\ ~Terminal(t) => Follows(t, ContinuedTask(t))
         /\ \A d \in BOOLEAN : Follows(t, SettledByUser(t, d))
<1>n. /\ t.fence[1] <= t.fence[1] /\ t.fence[2] <= t.fence[2] /\ t.corrections <= t.corrections
      /\ t.fence[1] < t.fence[1] + 1 /\ t.fence[2] <= t.fence[2] + 1
      /\ t.fence[1] <= t.fence[1] + 1
  BY Numbers
<1>c. LET n == NextControl(t)
      IN  /\ n.route = t.route /\ n.works = t.works /\ n.inputs = t.inputs /\ n.proofs = t.proofs
          /\ n.corrections = t.corrections /\ n.phase = t.phase
          /\ n.fence[1] = t.fence[1] + 1 /\ n.fence[2] = t.fence[2]
          /\ n \in Task
  BY TypedHelpers DEF NextControl, Task
<1>1. ASSUME NEW b \in BOOLEAN PROVE Follows(t, [NextControl(t) EXCEPT !.user = b])
  <2> DEFINE n == NextControl(t)
             u == [n EXCEPT !.user = b]
  <2> SUFFICES Follows(t, u)
    OBVIOUS
  <2> HIDE DEF n
  <2>1. /\ u.route = n.route /\ u.works = n.works /\ u.inputs = n.inputs /\ u.proofs = n.proofs
        /\ u.fence = n.fence /\ u.phase = n.phase
    BY <1>c DEF Task, n
  <2> HIDE DEF u
  <2> QED BY <1>n, <1>c, <2>1, FollowsAlong DEF n
<1>2. Follows(t, NextGoal(t))
  <2> DEFINE u == NextGoal(t)
  <2>1. /\ u.route = t.route /\ u.works = t.works /\ u.inputs = t.inputs /\ u.proofs = t.proofs
        /\ u.corrections = t.corrections /\ u.phase = t.phase
        /\ u.fence[1] = t.fence[1] /\ u.fence[2] = t.fence[2] + 1
    BY DEF NextGoal, Task
  <2> SUFFICES Follows(t, u)
    OBVIOUS
  <2> HIDE DEF u
  <2> QED BY <1>n, <2>1, FollowsAlong
<1>3. ~Terminal(t) => Follows(t, ContinuedTask(t))
  <2> DEFINE n == NextControl(t)
             p == Resumed(t).phase
             u == [n EXCEPT !.user = FALSE, !.corrections = 0, !.lost = FALSE, !.phase = p]
  <2>1. ContinuedTask(t) = u
    BY DEF ContinuedTask
  <2> HIDE DEF n, p
  <2>2. /\ u.route = n.route /\ u.works = n.works /\ u.inputs = n.inputs /\ u.proofs = n.proofs
        /\ u.fence = n.fence
    BY <1>c DEF Task, n
  <2> SUFFICES ~Terminal(t) => Follows(t, u)
    BY <2>1
  <2> HIDE DEF u
  <2> QED BY <1>n, <1>c, <2>2, FollowsAlong DEF n
<1>4. ASSUME NEW d \in BOOLEAN PROVE Follows(t, SettledByUser(t, d))
  <2> DEFINE u == SettledByUser(t, d)
  <2>1. u.route = t.route
    <3>1. NextControl(t) \in Task /\ NextControl(t).route = t.route
      BY <1>c
    <3> QED BY <3>1 DEF SettledByUser, Task
  <2>2. /\ u.phase = t.phase /\ u.fence = <<t.fence[1] + 1, t.fence[2]>>
        /\ t.proofs \subseteq u.proofs
        /\ \A w \in Work :
             /\ u.works[w].kind = t.works[w].kind /\ u.works[w].goal = t.works[w].goal
             /\ u.works[w].outcome = IF t.works[w].outcome = "unknown" THEN "known"
                                     ELSE t.works[w].outcome
        /\ \A i \in Input :
             u.inputs[i] = IF t.inputs[i] = "unknown"
                           THEN (IF d THEN "accepted" ELSE "failed") ELSE t.inputs[i]
    BY SettledFrames
  <2> SUFFICES Follows(t, u)
    OBVIOUS
  <2> HIDE DEF u
  <2>3. \A w \in Work : WorkFollows(t.works[w], u.works[w])
    BY <2>2 DEF WorkFollows
  <2>4. \A i \in Input : InputFollows(t.inputs[i], u.inputs[i])
    BY <2>2 DEF InputFollows
  <2>5. u.fence[1] = t.fence[1] + 1 /\ u.fence[2] = t.fence[2]
    BY <2>2
  <2> QED BY <1>n, <2>1, <2>2, <2>3, <2>4, <2>5 DEF Follows
<1> QED BY <1>1, <1>2, <1>3, <1>4

\* The verifier's decisions, on a task that is still under way.
LEMMA DecisionFollows ==
  ASSUME state \in Task, loop \in Run, ~Terminal(state)
  PROVE  Follows(state, ReconciledTask(state)) /\ Follows(state, CorrectedTask(state))
<1>n. /\ state.fence[1] <= state.fence[1] /\ state.fence[2] <= state.fence[2]
      /\ state.fence[1] \in Nat /\ state.fence[2] \in Nat /\ state.corrections \in Nat
  BY Numbers
<1>1. Follows(state, ReconciledTask(state))
  <2> DEFINE u == ReconciledTask(state)
  <2>1. u.route = state.route
    <3> DEFINE is == [i \in Input |-> IF state.inputs[i] = "accepted" THEN "reconciled"
                                      ELSE state.inputs[i]]
               v  == [NextControl(state) EXCEPT !.phase = "verifying", !.lost = FALSE,
                                                !.inputs = is]
    <3>1. NextControl(state) \in Task /\ NextControl(state).route = state.route
      BY TypedHelpers DEF NextControl, Task
    <3>2. is \in [Input -> {"none", "unknown", "accepted", "failed", "reconciled"}]
      BY DEF Task
    <3>3. v \in Task /\ v.route = state.route
      BY <3>1, <3>2 DEF Task, Phase
    <3>4. u = IF loop.revises THEN NextGoal(v) ELSE v
      BY DEF ReconciledTask
    <3> HIDE DEF v
    <3> QED BY <3>3, <3>4 DEF NextGoal, Task
  <2>2. /\ u.works = state.works /\ u.proofs = state.proofs
        /\ u.fence[1] = state.fence[1] + 1
        /\ u.fence[2] \in {state.fence[2], state.fence[2] + 1}
        /\ \A i \in Input : u.inputs[i] = IF state.inputs[i] = "accepted"
                                          THEN "reconciled" ELSE state.inputs[i]
    BY DecisionFrames
  <2> SUFFICES Follows(state, u)
    OBVIOUS
  <2> HIDE DEF u
  <2>3. \A w \in Work : WorkFollows(state.works[w], u.works[w])
    BY <2>2 DEF WorkFollows
  <2>4. \A i \in Input : InputFollows(state.inputs[i], u.inputs[i])
    BY <2>2 DEF InputFollows
  <2> QED BY <1>n, <2>1, <2>2, <2>3, <2>4 DEF Follows
<1>2. Follows(state, CorrectedTask(state))
  <2> DEFINE u == CorrectedTask(state)
  <2>1. /\ u.route = state.route /\ u.works = state.works /\ u.inputs = state.inputs
        /\ u.proofs = state.proofs /\ u.fence = state.fence
        /\ u.corrections = state.corrections + 1
    BY DEF CorrectedTask, Task
  <2> SUFFICES Follows(state, u)
    OBVIOUS
  <2> HIDE DEF u
  <2>2. state.corrections <= u.corrections
    BY <1>n, <2>1
  <2> QED BY <1>n, <2>1, <2>2, FollowsAlong
<1> QED BY <1>1, <1>2

\* The transactions that file a work, its outcome, a piece of evidence, or the
\* fate of a message.
LEMMA FiledFollows ==
  ASSUME NEW t \in Task
  PROVE  /\ \A w \in Work, b \in Bound : ~Terminal(t) /\ w \notin Works(t) =>
              Follows(t, [t EXCEPT !.works[w] = b,
                            !.phase = IF @ \in {"queued", "waiting"} THEN "running" ELSE @,
                            !.lost = FALSE])
         /\ \A w \in Work, o \in {"known", "unknown"} :
              Follows(t, [t EXCEPT !.works[w].outcome = IF @ = "none" THEN o ELSE @])
         /\ \A p \in Proof : Follows(t, [t EXCEPT !.proofs = @ \cup {p}])
         /\ \A i \in Input, x \in {"accepted", "failed", "unknown"} :
              t.inputs[i] \in {"none", "unknown"} => Follows(t, [t EXCEPT !.inputs[i] = x])
<1>n. /\ t.fence[1] <= t.fence[1] /\ t.fence[2] <= t.fence[2] /\ t.corrections <= t.corrections
  BY Numbers
<1>1. ASSUME NEW w \in Work, NEW b \in Bound, ~Terminal(t), w \notin Works(t)
      PROVE  Follows(t, [t EXCEPT !.works[w] = b,
                            !.phase = IF @ \in {"queued", "waiting"} THEN "running" ELSE @,
                            !.lost = FALSE])
  <2> DEFINE u == [t EXCEPT !.works[w] = b,
                     !.phase = IF @ \in {"queued", "waiting"} THEN "running" ELSE @,
                     !.lost = FALSE]
  <2>1. /\ u.route = t.route /\ u.inputs = t.inputs /\ u.proofs = t.proofs
        /\ u.fence = t.fence /\ u.corrections = t.corrections
        /\ \A v \in Work : v # w => u.works[v] = t.works[v]
    BY DEF Task
  <2>2. t.works[w].kind = "none"
    BY <1>1 DEF Works
  <2> SUFFICES Follows(t, u)
    OBVIOUS
  <2> HIDE DEF u
  <2>3. \A v \in Work : WorkFollows(t.works[v], u.works[v])
    BY <2>1, <2>2 DEF WorkFollows
  <2>4. \A i \in Input : InputFollows(t.inputs[i], u.inputs[i])
    BY <2>1 DEF InputFollows
  <2> QED BY <1>n, <1>1, <2>1, <2>3, <2>4 DEF Follows
<1>2. ASSUME NEW w \in Work, NEW o \in {"known", "unknown"}
      PROVE  Follows(t, [t EXCEPT !.works[w].outcome = IF @ = "none" THEN o ELSE @])
  <2> DEFINE u == [t EXCEPT !.works[w].outcome = IF @ = "none" THEN o ELSE @]
  <2>1. /\ u.route = t.route /\ u.inputs = t.inputs /\ u.proofs = t.proofs
        /\ u.fence = t.fence /\ u.corrections = t.corrections /\ u.phase = t.phase
        /\ \A v \in Work : v # w => u.works[v] = t.works[v]
    BY DEF Task
  <2>2. /\ u.works[w].kind = t.works[w].kind /\ u.works[w].goal = t.works[w].goal
        /\ u.works[w].outcome = IF t.works[w].outcome = "none" THEN o ELSE t.works[w].outcome
    BY DEF Task, Bound
  <2> SUFFICES Follows(t, u)
    OBVIOUS
  <2> HIDE DEF u
  <2>3. \A v \in Work : WorkFollows(t.works[v], u.works[v])
    BY <2>1, <2>2 DEF WorkFollows
  <2>4. \A i \in Input : InputFollows(t.inputs[i], u.inputs[i])
    BY <2>1 DEF InputFollows
  <2> QED BY <1>n, <2>1, <2>3, <2>4 DEF Follows
<1>3. ASSUME NEW p \in Proof PROVE Follows(t, [t EXCEPT !.proofs = @ \cup {p}])
  <2> DEFINE u == [t EXCEPT !.proofs = @ \cup {p}]
  <2>1. /\ u.route = t.route /\ u.works = t.works /\ u.inputs = t.inputs
        /\ t.proofs \subseteq u.proofs
        /\ u.fence = t.fence /\ u.corrections = t.corrections /\ u.phase = t.phase
    BY DEF Task
  <2> SUFFICES Follows(t, u)
    OBVIOUS
  <2> HIDE DEF u
  <2> QED BY <1>n, <2>1, FollowsAlong
<1>4. ASSUME NEW i \in Input, NEW x \in {"accepted", "failed", "unknown"},
             t.inputs[i] \in {"none", "unknown"}
      PROVE  Follows(t, [t EXCEPT !.inputs[i] = x])
  <2> DEFINE u == [t EXCEPT !.inputs[i] = x]
  <2>1. /\ u.route = t.route /\ u.works = t.works /\ u.proofs = t.proofs
        /\ u.fence = t.fence /\ u.corrections = t.corrections /\ u.phase = t.phase
        /\ u.inputs[i] = x /\ \A j \in Input : j # i => u.inputs[j] = t.inputs[j]
    BY DEF Task
  <2> SUFFICES Follows(t, u)
    OBVIOUS
  <2> HIDE DEF u
  <2>2. \A w \in Work : WorkFollows(t.works[w], u.works[w])
    BY <2>1 DEF WorkFollows
  <2>3. \A j \in Input : InputFollows(t.inputs[j], u.inputs[j])
    BY <1>4, <2>1 DEF InputFollows
  <2> QED BY <1>n, <2>1, <2>2, <2>3 DEF Follows
<1> QED BY <1>1, <1>2, <1>3, <1>4

-----------------------------------------------------------------------------
(* Every step moves the record forward, or restarts from the file.           *)

\* A step that writes nothing moves nothing.
LEMMA NothingWritten ==
  ASSUME state \in Task, UNCHANGED store
  PROVE  Forward
BY FollowsItself DEF Forward, Wrote, store

\* A transaction of the loop, or of another, whose record follows when it is allowed.
LEMMA MutateForward ==
  ASSUME state \in Task, NEW ok \in BOOLEAN, NEW n, NEW a, NEW b, Mutate(ok, n, a, b),
         ok => Follows(state, n)
  PROVE  Forward
BY NothingWritten DEF Mutate, Saved, Unsaved, Forward, Wrote

\* A transaction outside the loop, saved or not.
LEMMA WriteForward ==
  ASSUME NEW n, Saved(n) \/ Unsaved(n), Follows(state, n)
  PROVE  Forward
BY DEF Saved, Unsaved, Forward, Wrote

\* A transaction outside the loop that wakes it.
LEMMA ChangeForward ==
  ASSUME NEW n, NEW l, Change(n, l), Follows(state, n)
  PROVE  Forward
BY WriteForward DEF Change

\* The steps of the loop.
LEMMA LoopForward ==
  ASSUME TypeOK, TaskStep
  PROVE  Forward
<1>t. state \in Task /\ loop \in Run
  BY DEF TypeOK
<1>w. /\ \A t : Decidable(t) => assertWritable(t, loop.fence)
      /\ \A t, f : assertWritable(t, f) => ~Terminal(t)
      /\ \A t, f : assertWritable(t, f) \in BOOLEAN /\ Decidable(t) \in BOOLEAN
      /\ \A t, f : (assertWritable(t, f) /\ activeWork(t) = {}) \in BOOLEAN
  BY DEF Decidable, assertWritable
<1>p. /\ ~Terminal(state) => Follows(state, Waits(state))
      /\ ~Terminal(state) => Follows(state, [state EXCEPT !.phase = "completed", !.lost = FALSE])
  BY <1>t, PhaseFollows DEF Phase
<1>1. CASE Step \/ EvaluateFails \/ Execute \/ Refuse \/ Flush
  BY <1>t, <1>1, NothingWritten DEF Step, EvaluateFails, Execute, Refuse, Flush, store
<1>2. CASE GiveUp \/ WaitUnknown
  BY <1>t, <1>w, <1>p, <1>2, MutateForward DEF GiveUp, WaitUnknown
<1>3. CASE ReserveInitial
  <2> DEFINE n == [state EXCEPT !.effect = [kind |-> "initial", fence |-> loop.fence,
                                            write_started |-> FALSE, status |-> "pending"]]
             ok == assertWritable(state, loop.fence) /\ Reservable(state)
  <2>1. Follows(state, n)
    BY <1>t, ExecutionFollows
  <2>2. Mutate(ok, n, Go("mark"), Go("giveUp"))
    BY <1>3 DEF ReserveInitial
  <2>3. ok \in BOOLEAN
    OBVIOUS
  <2> HIDE DEF n, ok
  <2> QED BY <1>t, <2>1, <2>2, <2>3, MutateForward
<1>4. CASE Apply
  <2>1. CASE loop.says = "wait"
    BY <1>t, <1>w, <1>p, <1>4, <2>1, MutateForward DEF Apply
  <2>2. CASE loop.says = "reconcile"
    <3>1. Mutate(Decidable(state), ReconciledTask(state), [Idle EXCEPT !.pc = "step"], Go("giveUp"))
      BY <1>4, <2>2 DEF Apply
    <3>2. Decidable(state) => Follows(state, ReconciledTask(state))
      BY <1>t, <1>w, DecisionFollows
    <3> QED BY <1>t, <1>w, <3>1, <3>2, MutateForward
  <2>3. CASE loop.says = "complete"
    <3> DEFINE n == [state EXCEPT !.phase = "completed", !.lost = FALSE]
               ok == Decidable(state) /\ CitesCurrent(state)
    <3>1. Mutate(ok, n, Leave(loop), Go("giveUp"))
      BY <1>4, <2>3 DEF Apply
    <3>2. ok \in BOOLEAN /\ (ok => Follows(state, n))
      BY <1>w, <1>p
    <3> HIDE DEF n, ok
    <3> QED BY <1>t, <3>1, <3>2, MutateForward
  <2>4. CASE loop.says = "correct" /\ Exhausted(state)
    <3>1. Mutate(Decidable(state), Waits(state), Leave(loop), Go("giveUp"))
      BY <1>4, <2>4 DEF Apply
    <3> QED BY <1>t, <1>w, <1>p, <3>1, MutateForward
  <2>5. CASE loop.says = "correct" /\ ~Exhausted(state)
    <3>1. Mutate(Decidable(state), CorrectedTask(state), Go("mark"), Go("giveUp"))
      BY <1>4, <2>5 DEF Apply
    <3>2. Decidable(state) => Follows(state, CorrectedTask(state))
      BY <1>t, <1>w, DecisionFollows
    <3> QED BY <1>t, <1>w, <3>1, <3>2, MutateForward
  <2> QED BY <1>t, <2>1, <2>2, <2>3, <2>4, <2>5 DEF Run
<1>5. ASSUME NEW d, NEW cites, NEW r, Evaluate(d, cites, r)
      PROVE  Forward
  BY <1>t, <1>5, NothingWritten DEF Evaluate, store
<1>6. CASE MarkEffectDispatching
  <2> DEFINE n == [state EXCEPT !.effect.write_started = TRUE]
             ok == state.effect.status = "pending" /\ Executable(state, loop.fence)
  <2>1. Follows(state, n)
    BY <1>t, ExecutionFollows
  <2>2. Mutate(ok, n, Go("execute"), Settles("failed")) /\ ok \in BOOLEAN
    BY <1>6 DEF MarkEffectDispatching
  <2> HIDE DEF n, ok
  <2> QED BY <1>t, <2>1, <2>2, MutateForward
<1>7. ASSUME NEW w \in Work, BindWork(w)
      PROVE  Forward
  <2> DEFINE b == [kind |-> "work", goal |-> loop.fence[2], outcome |-> "none"]
             n == [state EXCEPT !.works[w] = b,
                     !.phase = IF @ \in {"queued", "waiting"} THEN "running" ELSE @,
                     !.lost = FALSE]
             ok == state.fence = loop.fence /\ ~Terminal(state)
  <2>1. b \in Bound
    BY <1>t DEF Bound, Run, Fence
  <2>2. Mutate(ok, n, Go("flush"), Settles("unknown")) /\ ok \in BOOLEAN /\ w \notin Works(state)
    BY <1>7 DEF BindWork
  <2>3. ok => Follows(state, n)
    BY <1>t, <2>1, <2>2, FiledFollows
  <2> HIDE DEF n, ok
  <2> QED BY <1>t, <2>2, <2>3, MutateForward
<1>8. CASE BeginDelivery
  <2> DEFINE n == [state EXCEPT !.delivery = TRUE]
             ok == assertWritable(state, loop.fence) /\ ~state.delivery
  <2>1. Follows(state, n)
    BY <1>t, ExecutionFollows
  <2>2. Mutate(ok, n, Go("deliver"), Settles("failed")) /\ ok \in BOOLEAN
    BY <1>8 DEF BeginDelivery
  <2> HIDE DEF n, ok
  <2> QED BY <1>t, <2>1, <2>2, MutateForward
<1>9. CASE Deliver
  <2> DEFINE n == [state EXCEPT !.delivery = FALSE]
  <2>1. Follows(state, n)
    BY <1>t, ExecutionFollows
  <2>2. Mutate(TRUE, n, Settles("failed"), Settles("failed")) \/ UNCHANGED store
    BY <1>9 DEF Deliver
  <2> HIDE DEF n
  <2> QED BY <1>t, <2>1, <2>2, MutateForward, NothingWritten
<1>10. CASE SettleEffect
  <2>1. Follows(state, SettledTask(state))
    BY <1>t, ExecutionFollows
  <2> QED BY <1>t, <1>10, <2>1, MutateForward DEF SettleEffect
<1> QED BY <1>1, <1>2, <1>3, <1>4, <1>5, <1>6, <1>7, <1>8, <1>9, <1>10 DEF TaskStep

\* The reports of the executors, the end of a response, and the fate of a message.
LEMMA ReportsForward ==
  ASSUME TypeOK, SendingAgrees,
         Reports \/ Withdraw \/ Drop \/ Forget \/ \E p \in Phase : ResourceState(p)
  PROVE  Forward
<1>t. /\ state \in Task /\ reply \in Reply /\ sending \in Sending /\ running \subseteq Work
      /\ sending.pc # "none" => sending.input \in Input
  BY DEF TypeOK, Sending, Works
<1>w. \A t, f : assertWritable(t, f) => ~Terminal(t)
  BY DEF assertWritable
<1>d. Follows(state, [state EXCEPT !.delivery = FALSE])
  BY <1>t, ExecutionFollows
<1>1. ASSUME NEW w \in Work, NEW o \in {"known", "unknown"}, WorkEnds(w, o)
      PROVE  Forward
  <2> DEFINE n == [state EXCEPT !.works[w].outcome = IF @ = "none" THEN o ELSE @]
  <2>1. Follows(state, n)
    BY <1>t, FiledFollows
  <2>2. Change(n, Wake)
    BY <1>1 DEF WorkEnds
  <2> HIDE DEF n
  <2> QED BY <2>1, <2>2, ChangeForward
<1>2. CASE Speak \/ Drop \/ Forget \/ \E r \in {"failed", "unknown"} : InputRefused(r)
  BY <1>t, <1>2, NothingWritten DEF Speak, Drop, Forget, InputRefused, store
<1>3. CASE Withdraw \/ \E d \in Ending : ResponseEnds(d)
  BY <1>d, <1>3, WriteForward DEF Withdraw, ResponseEnds
<1>4. CASE RecordDelivery
  <2> DEFINE p == [goal |-> reply.fence[2], by |-> "delivery"]
             n == [state EXCEPT !.proofs = @ \cup {p}]
  <2>1. p \in Proof
    BY <1>t DEF Proof, Reply, Fence
  <2>2. Follows(state, n)
    BY <1>t, <2>1, FiledFollows
  <2>3. Change(n, Wake) \/ UNCHANGED store
    BY <1>4 DEF RecordDelivery
  <2> HIDE DEF n
  <2> QED BY <1>t, <2>2, <2>3, ChangeForward, NothingWritten
<1>5. CASE DeliveryInterrupted
  <2>1. ~Terminal(state) => Follows(state, Waits(state))
    BY <1>t, PhaseFollows
  <2> QED BY <1>t, <1>w, <1>5, <2>1, WriteForward, NothingWritten DEF DeliveryInterrupted
<1>6. ASSUME NEW w \in Work, NEW r \in {"accepted", "failed", "unknown"}, InputAdmit(w, r)
      PROVE  Forward
  <2> DEFINE b == [kind |-> IF activeWork(state) = {} THEN "work" ELSE "input",
                   goal |-> sending.fence[2], outcome |-> "none"]
             n == [state EXCEPT !.works[w] = b,
                     !.phase = IF @ \in {"queued", "waiting"} THEN "running" ELSE @,
                     !.lost = FALSE]
  <2>1. b \in Bound
    BY <1>t DEF Bound, Sending, Fence
  <2>2. (Saved(n) \/ Unsaved(n)) /\ ~Terminal(state) /\ w \notin Works(state)
    BY <1>6 DEF InputAdmit, UserWritable
  <2>3. Follows(state, n)
    BY <1>t, <2>1, <2>2, FiledFollows
  <2> HIDE DEF n
  <2> QED BY <2>2, <2>3, WriteForward
<1>7. CASE InputSettle
  <2> DEFINE i == sending.input
             n == [state EXCEPT !.inputs[i] = sending.pc]
  <2>1. /\ i \in Input /\ sending.pc \in {"accepted", "failed", "unknown"}
        /\ state.inputs[i] = "unknown" /\ (Saved(n) \/ Unsaved(n))
    BY <1>t, <1>7 DEF InputSettle, SendingAgrees
  <2>2. Follows(state, n)
    BY <1>t, <2>1, FiledFollows
  <2> HIDE DEF n
  <2> QED BY <2>1, <2>2, WriteForward
<1>8. ASSUME NEW p \in Phase, ResourceState(p)
      PROVE  Forward
  <2>1. Follows(state, ResourceTask(state, p))
    BY <1>t, PhaseFollows
  <2> QED BY <1>8, <2>1, WriteForward DEF ResourceState
<1> QED BY <1>1, <1>2, <1>3, <1>4, <1>5, <1>6, <1>7, <1>8 DEF Reports

\* The user and Nova's tools, and the recovery.
LEMMA UserForward ==
  ASSUME TypeOK, User \/ Recovery \/ RecoverAgain
  PROVE  Forward
<1>t. state \in Task
  BY DEF TypeOK
<1>c. /\ \A b \in BOOLEAN : Follows(state, [NextControl(state) EXCEPT !.user = b])
      /\ Follows(state, NextGoal(state))
      /\ ~Terminal(state) => Follows(state, ContinuedTask(state))
      /\ \A d \in BOOLEAN : Follows(state, SettledByUser(state, d))
  BY <1>t, ControlFollows
<1>1. CASE Takeover
  BY <1>c, <1>1, ChangeForward DEF Takeover
<1>2. CASE Return
  BY <1>c, <1>2, ChangeForward DEF Return
<1>3. CASE Continue
  BY <1>c, <1>3, ChangeForward DEF Continue
<1>4. CASE ContinueBlocked \/ RecoverAgain \/ \E u \in BOOLEAN : RecoverJudge(u)
  BY <1>t, <1>4, NothingWritten DEF ContinueBlocked, RecoverAgain, RecoverJudge, store
<1>5. CASE Revise
  BY <1>c, <1>5, ChangeForward DEF Revise
<1>6. ASSUME NEW d \in BOOLEAN, Reconcile(d)
      PROVE  Forward
  BY <1>c, <1>6, ChangeForward DEF Reconcile
<1>7. CASE Cancel
  <2>1. ~Terminal(state) => Follows(state, [state EXCEPT !.phase = "cancelled", !.lost = FALSE])
    BY <1>t, PhaseFollows DEF Phase
  <2> QED BY <1>7, <2>1, ChangeForward DEF Cancel
<1>8. ASSUME NEW i \in Input, InputBegin(i)
      PROVE  Forward
  <2> DEFINE n == [state EXCEPT !.inputs[i] = "unknown"]
  <2>1. state.inputs[i] = "none" /\ (Saved(n) \/ Unsaved(n))
    BY <1>8 DEF InputBegin
  <2>2. Follows(state, n)
    BY <1>t, <2>1, FiledFollows
  <2> HIDE DEF n
  <2> QED BY <2>1, <2>2, WriteForward
<1>9. CASE RecoverWrite
  <2>1. Follows(state, RecoveredTask(state))
    BY <1>t, PhaseFollows
  <2> QED BY <1>9, <2>1, WriteForward DEF RecoverWrite
<1> QED BY <1>1, <1>2, <1>3, <1>4, <1>5, <1>6, <1>7, <1>8, <1>9 DEF User, Recovery

\* The file may be ahead of the memory, never behind it.
NotBehind == Follows(state, disk)

\* Every step keeps the file ahead and moves the record forward.
LEMMA ForwardKept ==
  ASSUME IInv, NotBehind, Next
  PROVE  NotBehind' /\ Follows(state, state')
<1>t. TypeOK /\ FenceAgrees /\ SendingAgrees /\ state \in Task /\ disk \in Task
  BY DEF IInv, TypeOK
<1>1. state' \in Task /\ Follows(state', state')
  <2>1. state' \in Task
    BY <1>t, RecordsTyped
  <2> QED BY <2>1, FollowsItself
<1>2. CASE Crash
  <2>1. state' = Opened(disk) /\ disk' = state'
    BY <1>2 DEF Crash
  <2>2. /\ Opened(disk).works = disk.works /\ Opened(disk).proofs = disk.proofs
        /\ Opened(disk).inputs = disk.inputs /\ Opened(disk).fence = disk.fence
        /\ Opened(disk).phase = disk.phase
    BY <1>t, EffectFrames DEF SameOwner
  <2>3. Opened(disk).route = disk.route /\ Opened(disk).corrections = disk.corrections
    BY <1>t DEF Opened, Task
  <2>4. Follows(state, state')
    BY <2>1, <2>2, <2>3 DEF NotBehind, Follows, Terminal
  <2> QED BY <1>1, <2>1, <2>4 DEF NotBehind, Follows, Terminal
<1>3. CASE ~Crash
  <2>1. Forward
    BY <1>t, <1>3, LoopForward, ReportsForward, UserForward DEF Next
  <2>2. PICK n : Wrote(n) /\ Follows(state, n)
    BY <2>1 DEF Forward
  <2>3. Follows(state, state)
    BY <1>t, FollowsItself
  <2>4. \/ state' = n /\ disk' = n
        \/ state' = state /\ disk' \in {disk, n}
    BY <2>2 DEF Wrote
  <2>5. Follows(state, state')
    BY <2>2, <2>3, <2>4
  <2>6. Follows(state', disk')
    BY <1>1, <2>2, <2>4 DEF NotBehind
  <2>7. NotBehind' <=> Follows(state', disk')
    BY DEF NotBehind, Follows, Terminal
  <2> QED BY <2>5, <2>6, <2>7
<1> QED BY <1>2, <1>3

\* The file is never behind what the ledger acts on: a restart reads the record in
\* memory, or one that follows it and that a failed write left (#mutate of tasks.ts,
\* BoundedJsonStore.write).
THEOREM FileNeverBehind == Spec => []NotBehind
<1>1. Init => NotBehind
  <2> SUFFICES ASSUME Init PROVE NotBehind
    OBVIOUS
  <2>1. state \in Task /\ disk = state
    BY InitTyped DEF Init, TypeOK
  <2> QED BY <2>1, FollowsItself DEF NotBehind
<1>2. IInv /\ NotBehind /\ [Next]_vars => NotBehind'
  <2> SUFFICES ASSUME IInv, NotBehind, [Next]_vars PROVE NotBehind'
    OBVIOUS
  <2>1. CASE UNCHANGED vars
    BY <2>1 DEF NotBehind, Follows, Terminal, vars, store
  <2> QED BY <2>1, ForwardKept
<1> QED BY <1>1, <1>2, InvariantHolds, PTL DEF Spec

\* No step takes the record back, a restart from the file and a failed write
\* included: a finished task stays as it ended, fences are never lowered, evidence
\* is never lost, corrections are counted anew only after a change of control, and a work
\* or a message that is settled is not settled otherwise (tasks.ts, task.ts).
THEOREM OnlyForwardHolds == Spec => OnlyForward
<1>1. IInv /\ NotBehind /\ [Next]_vars => [Follows(state, state')]_vars
  BY ForwardKept
<1> QED BY <1>1, InvariantHolds, FileNeverBehind, PTL DEF Spec, OnlyForward

\* No step withdraws a piece of evidence, whoever filed it (evidence of
\* task-contract.ts).
THEOREM EvidenceNeverLost == Spec => [][evidence(state) \subseteq evidence(state')]_vars
<1>1. IInv /\ IInv' /\ NotBehind /\ [Next]_vars => [evidence(state) \subseteq evidence(state')]_vars
  <2> SUFFICES ASSUME IInv, IInv', NotBehind, Next PROVE evidence(state) \subseteq evidence(state')
    OBVIOUS
  <2>1. Follows(state, state')
    BY ForwardKept
  <2>2. state \in Task /\ state' \in Task
    BY DEF IInv, TypeOK
  <2> QED BY <2>1, <2>2, EvidenceFollows
<1> QED BY <1>1, InvariantHolds, FileNeverBehind, PTL DEF Spec
=============================================================================
