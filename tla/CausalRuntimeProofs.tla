------------------------- MODULE CausalRuntimeProofs -------------------------
(***************************************************************************)
(* Proofs about CausalRuntime, for any numbers of delegates, inputs and    *)
(* clears, whatever way each delegate is dispatched.                       *)
(*                                                                         *)
(* The safety properties relate what a caller, a task or an observer does  *)
(* after an await to what was true before it, so that none is inductive.   *)
(* The inductive invariant IInv says what each of those waits guarantees:  *)
(* what memory holds and the store does not is asked for, on its way, or   *)
(* not to be asked for before its task has flushed (StoreAgrees); rows and  *)
(* events are of the present conversation or of an earlier one, and while  *)
(* a clear is under way no delegate or event is of the one that begins     *)
(* (EpochsAgree); a task past its flush is in the store (TaskAgrees); a    *)
(* task that has started answered its caller before (AnswerAgrees); and a  *)
(* withdrawal is remembered by its launch check, or by what made that go   *)
(* away: a clear, a stop, the end of the task (WithdrawalAgrees).          *)
(***************************************************************************)
EXTENDS CausalRuntime, TLAPS, WellFoundedInduction

\* The row a dispatch writes.
Admitted(d) == About("admitted", d, bornIn[d])

\* The delegate of a row has not asked for the flush that is to write it, or
\* never will because its flush was refused.
Unflushed(d) == task[d] \in {"created", "gate"} \/ (failure /\ task[d] = "ended")

\* The store follows memory.  What memory holds and the store does not is asked
\* for, on its way, or not to be asked for before its task has flushed.
StoreAgrees ==
  /\ durable \cup batch \subseteq memory
  /\ drain # "writing" => batch = {}
  /\ drain # "none" \/ ~failure =>
       \A row \in memory \ durable :
         requested \/ row \in batch \/ \E d \in Delegate : row = Admitted(d) /\ Unflushed(d)
  /\ drain = "none" /\ ~failure => ~requested

\* A clear writes alone, and nothing is written after the close.
PhasesAgree ==
  /\ clear \in {"drained", "writing"} => drain = "none"
  /\ clear = "draining" => drain # "none"
  /\ store # "open" => ~Serving
  /\ store = "closed" => drain = "none" /\ clear \notin {"draining", "drained", "writing"}
  /\ ~Serving => serve = "idle"
  /\ MidApply => clear \in {"none", "gate"}

\* An event of this conversation or of an earlier one.
PastEvent == {e \in Event : e.epoch <= epoch}

\* Rows and events are of the present conversation or of an earlier one.
EpochsAgree ==
  /\ queue \in Seq(PastEvent)
  /\ \A e \in applying : e.epoch <= epoch
  /\ \A d \in Delegate : bornIn[d] <= epoch
  /\ clear # "none" => /\ \A d \in Delegate : task[d] # "none" => bornIn[d] # epoch
                       /\ \A e \in applying : e.epoch # epoch

\* The event being applied is in memory while its conversation lasts, and in
\* the store once its flush has ended.
ApplyAgrees ==
  /\ serve = "idle" <=> applying = {}
  /\ serve = "flush" => drain # "none"
  /\ \A e \in applying : e.epoch = epoch =>
       e \in memory /\ (serve = "finish" => e \in durable)

\* A delegate of this conversation is in memory, and in the store once its
\* task has seen its flush end.
TaskAgrees(d) ==
  /\ task[d] = "none" <=> caller[d] = "none"
  /\ task[d] \in {"none", "created"} => d \notin started
  /\ "drain" \in {caller[d], task[d]} => drain # "none"
  /\ d \in started => task[d] \in {"running", "ended"}
  /\ bornIn[d] = epoch /\ task[d] # "none" =>
       /\ Admitted(d) \in memory
       /\ task[d] \in {"yielding", "binding"} => Admitted(d) \in durable

\* The answer a caller that does not wait for its binding has had.
AnswerAgrees(d) ==
  via[d] # "task" =>
    /\ caller[d] \in {"none", "drain", "ready", "accepted", "cleared", "failed"}
    /\ caller[d] = "drain" => task[d] = "drain" \/ Unflushed(d)
    /\ caller[d] = "failed" => failure /\ Unflushed(d)
    /\ caller[d] = "cleared" => bornIn[d] # epoch
    /\ task[d] = "binding" => caller[d] \in {"accepted", "cleared"}
    /\ d \in started => caller[d] = "accepted"

\* A withdrawal is remembered by the check, or by what made it forget.
WithdrawalAgrees(d) ==
  /\ check[d] # "none" => d \notin started /\ task[d] # "none"
  /\ d \in unwanted =>
       /\ d \notin started /\ task[d] # "none"
       /\ check[d] = "unwanted" \/ bornIn[d] # epoch \/ ~Serving \/ task[d] = "ended"

IInv ==
  /\ TypeOK /\ StoreAgrees /\ PhasesAgree /\ EpochsAgree /\ ApplyAgrees
  /\ \A d \in Delegate : TaskAgrees(d) /\ AnswerAgrees(d) /\ WithdrawalAgrees(d)
  /\ ClearLeavesNothing /\ OrderlyStopLosesNothing

-----------------------------------------------------------------------------
(* The data. *)

\* Every set of naturals that is not empty has a least member.
LEMMA LeastNatural ==
  ASSUME NEW T, T \subseteq Nat, T # {}
  PROVE  \E n \in T : \A m \in T : ~(m < n)
<1>1. IsWellFoundedOn(OpToRel(<, Nat), Nat)
  BY NatLessThanWellFounded
<1>2. \E n \in T : \A m \in T : <<m, n>> \notin OpToRel(<, Nat)
  BY <1>1, WFMin
<1>3. \A m, n \in T : <<m, n>> \in OpToRel(<, Nat) <=> m < n
  BY DEF OpToRel
<1> QED BY <1>2, <1>3

\* What holds of 0, and of a successor when of its predecessor, holds of all.
LEMMA NaturalSets ==
  ASSUME NEW S \in SUBSET Nat, 0 \in S, \A n \in S : n + 1 \in S
  PROVE  S = Nat
<1> SUFFICES ASSUME Nat \ S # {} PROVE FALSE
  OBVIOUS
<1>1. PICK n \in Nat \ S : \A m \in Nat \ S : ~(m < n)
  BY LeastNatural
<1>2. n - 1 \in S
  BY <1>1
<1> QED BY <1>1, <1>2

\* f is the filter of the first n events of s, step by step.
Filters(f, s, n, E) ==
  /\ f \in [0..n -> Seq(E)] /\ f[0] = <<>>
  /\ \A i \in 1..n :
       f[i] = IF s[i].kind = "handoff" THEN Append(f[i - 1], s[i]) ELSE f[i - 1]

\* The filter of a queue of some kind of events is a queue of that kind.
LEMMA HandoffsOfType ==
  ASSUME NEW E, NEW s \in Seq(E)
  PROVE  HandoffsOf(s) \in Seq(E)
<1> DEFINE Good == {n \in Nat : n <= Len(s) => \E f : Filters(f, s, n, E)}
<1>1. 0 \in Good
  <2> Filters([i \in 0..0 |-> <<>>], s, 0, E)
    BY DEF Filters
  <2> QED OBVIOUS
<1>2. ASSUME NEW n \in Nat, n \in Good, n + 1 <= Len(s)
      PROVE  n + 1 \in Good
  <2>1. PICK f : Filters(f, s, n, E)
    BY <1>2
  <2> DEFINE last == IF s[n + 1].kind = "handoff" THEN Append(f[n], s[n + 1]) ELSE f[n]
             g == [i \in 0..(n + 1) |-> IF i = n + 1 THEN last ELSE f[i]]
  <2>2. s[n + 1] \in E /\ f[n] \in Seq(E)
    BY <1>2, <2>1 DEF Filters
  <2>3. last \in Seq(E)
    BY <2>2
  <2>4. g \in [0..(n + 1) -> Seq(E)] /\ g[0] = <<>>
    <3> HIDE DEF last
    <3> QED BY <2>1, <2>3 DEF Filters
  <2>5. ASSUME NEW i \in 1..(n + 1)
        PROVE  g[i] = IF s[i].kind = "handoff" THEN Append(g[i - 1], s[i]) ELSE g[i - 1]
    <3>1. CASE i = n + 1
      BY <3>1
    <3>2. CASE i \in 1..n
      <4>1. g[i] = f[i] /\ g[i - 1] = f[i - 1]
        BY <3>2
      <4> HIDE DEF g
      <4> QED BY <3>2, <4>1, <2>1 DEF Filters
    <3> QED BY <3>1, <3>2
  <2>6. Filters(g, s, n + 1, E)
    <3> HIDE DEF g
    <3> QED BY <2>4, <2>5 DEF Filters
  <2> QED BY <2>6
<1>3. Len(s) \in Good
  <2>1. \A n \in Good : n + 1 \in Good
    BY <1>2
  <2>2. Good \in SUBSET Nat
    OBVIOUS
  <2> HIDE DEF Good
  <2>3. Good = Nat
    BY <1>1, <2>1, <2>2, NaturalSets
  <2> QED BY <2>3
<1> DEFINE step(f, i) == IF i = 0 THEN <<>>
                         ELSE IF s[i].kind = "handoff" THEN Append(f[i - 1], s[i])
                         ELSE f[i - 1]
           kept == CHOOSE f : f = [i \in 0..Len(s) |-> step(f, i)]
<1>4. PICK f : Filters(f, s, Len(s), E)
  BY <1>3
<1>5. f = [i \in 0..Len(s) |-> step(f, i)]
  <2>1. f \in [0..Len(s) -> Seq(E)]
    BY <1>4 DEF Filters
  <2>2. ASSUME NEW i \in 0..Len(s) PROVE f[i] = step(f, i)
    <3>1. CASE i = 0
      BY <1>4, <3>1 DEF Filters
    <3>2. CASE i \in 1..Len(s)
      BY <1>4, <3>2 DEF Filters
    <3> QED BY <3>1, <3>2
  <2> HIDE DEF step
  <2> QED BY <2>1, <2>2
<1>6. kept = [i \in 0..Len(s) |-> step(kept, i)]
  <2> HIDE DEF step
  <2> QED BY <1>5
<1>7. HandoffsOf(s) = kept[Len(s)]
  BY DEF HandoffsOf
<1> HIDE DEF kept
<1> DEFINE Typed == {n \in Nat : n <= Len(s) => kept[n] \in Seq(E)}
<1>8. 0 \in Typed
  BY <1>6
<1>9. ASSUME NEW n \in Nat, n \in Typed PROVE n + 1 \in Typed
  <2>1. SUFFICES ASSUME n + 1 <= Len(s) PROVE kept[n + 1] \in Seq(E)
    OBVIOUS
  <2>2. n + 1 \in 0..Len(s) /\ s[n + 1] \in E /\ kept[n] \in Seq(E)
    BY <1>9, <2>1
  <2>3. kept[n + 1] = IF s[n + 1].kind = "handoff" THEN Append(kept[n], s[n + 1]) ELSE kept[n]
    <3>1. kept[n + 1] = step(kept, n + 1)
      <4> HIDE DEF step
      <4> QED BY <1>6, <2>2
    <3> QED BY <3>1
  <2> QED BY <2>2, <2>3
<1>10. Len(s) \in Typed
  <2>1. \A n \in Typed : n + 1 \in Typed
    BY <1>9
  <2>2. Typed \in SUBSET Nat
    OBVIOUS
  <2> HIDE DEF Typed
  <2>3. Typed = Nat
    BY <1>8, <2>1, <2>2, NaturalSets
  <2> QED BY <2>3
<1> QED BY <1>7, <1>10

\* What is said of a delegate or an input is a row, and events are not admissions.
LEMMA AboutType ==
  /\ \A d \in Delegate, ep \in Nat :
       About("admitted", d, ep) \in Row /\ About("handoff", d, ep) \in Event
  /\ \A i \in Input, ep \in Nat : About("user_input", i, ep) \in Event
  /\ Event \subseteq Row
  /\ \A row \in Row : row.epoch \in Nat
BY DEF About, Row, Event

\* A row says whom it is about.
LEMMA AboutWhom ==
  /\ \A c, d, m, n : About("admitted", c, m) = About("admitted", d, n) => c = d /\ m = n
  /\ \A e \in Event : \A d, n : e # About("admitted", d, n)
  /\ \A k, x, n : About(k, x, n).epoch = n
<1>1. \A k, x, n : About(k, x, n).id = x /\ About(k, x, n).epoch = n /\ About(k, x, n).kind = k
  BY DEF About
<1>2. \A e \in Event : e.kind # "admitted"
  BY DEF Event
<1> QED BY <1>1, <1>2

\* The past grows with the epoch.
LEMMA PastGrows ==
  ASSUME epoch \in Nat, epoch' \in Nat, epoch <= epoch', NEW s \in Seq(PastEvent)
  PROVE  s \in Seq(PastEvent')
<1>1. PastEvent \subseteq PastEvent'
  BY AboutType DEF PastEvent
<1> QED BY <1>1

\* Once a flush is requested, all that memory holds is asked for.
LEMMA AskedAgrees ==
  ASSUME StoreAgrees, requested' = TRUE, drain' # "none", drain = "writing" => drain' = "writing",
         UNCHANGED <<durable, batch>>, memory \subseteq memory'
  PROVE  StoreAgrees'
<1>1. durable' \cup batch' \subseteq memory' /\ (drain' # "writing" => batch' = {})
  BY DEF StoreAgrees
<1>2. requested'
  OBVIOUS
<1> QED BY <1>1, <1>2 DEF StoreAgrees

-----------------------------------------------------------------------------
(* The steps. *)

\* A dispatch writes its row before its task exists (dispatchExternal and its kin).
LEMMA DispatchStep ==
  ASSUME IInv, NEW d \in Delegate, NEW how \in {"external", "confirmed", "task"}, Dispatch(d, how)
  PROVE  IInv'
<1>1. TypeOK'
  <2>1. About("admitted", d, epoch) \in Row
    BY AboutType DEF IInv, TypeOK
  <2>2. requested' \in BOOLEAN /\ drain' \in {"none", "loop", "writing"}
    BY DEF IInv, TypeOK, SessionTypes, Dispatch, RequestFlush
  <2>3. SessionTypes(Row)'
    BY <2>1, <2>2 DEF IInv, TypeOK, SessionTypes, Dispatch
  <2> QED BY <2>3 DEF IInv, TypeOK, Dispatch, Accepts, history, HostUnchanged
<1>2. StoreAgrees'
  <2>1. Admitted(d)' = About("admitted", d, epoch) /\ task'[d] = "created" /\ ~Unflushed(d)
    BY DEF IInv, TypeOK, TaskAgrees, Dispatch, HostUnchanged, Admitted, Unflushed
  <2>2. ASSUME NEW c \in Delegate, Unflushed(c) PROVE Unflushed(c)' /\ Admitted(c)' = Admitted(c)
    BY <2>1, <2>2 DEF IInv, TypeOK, Dispatch, Admitted, Unflushed
  <2>3. UNCHANGED <<durable, batch, failure>> /\ memory' = memory \cup {Admitted(d)'}
    BY <2>1 DEF Dispatch
  <2>4. CASE how = "task"
    <3>1. UNCHANGED <<requested, drain>>
      BY <2>4 DEF Dispatch
    <3>2. Unflushed(d)'
      BY <2>1 DEF Unflushed
    <3> QED BY <2>2, <2>3, <3>1, <3>2 DEF IInv, StoreAgrees
  <2>5. CASE how # "task"
    <3>1. requested' = TRUE /\ drain' # "none" /\ (drain = "writing" => drain' = "writing")
      BY <2>5 DEF Dispatch, RequestFlush
    <3> QED BY <2>3, <3>1, AskedAgrees DEF IInv
  <2> QED BY <2>4, <2>5
<1>3. PhasesAgree'
  BY DEF IInv, TypeOK, SessionTypes, PhasesAgree, Serving, MidApply, Dispatch, RequestFlush,
     Accepts, history, HostUnchanged
<1>4. EpochsAgree'
  BY DEF IInv, TypeOK, SessionTypes, EpochsAgree, PastEvent, Dispatch, RequestFlush, Accepts,
     history, HostUnchanged
<1>5. ApplyAgrees'
  BY DEF IInv, TypeOK, SessionTypes, ApplyAgrees, Dispatch, RequestFlush, Accepts, history,
     HostUnchanged
<1>6. ASSUME NEW x \in Delegate PROVE TaskAgrees(x)'
  BY DEF IInv, TypeOK, SessionTypes, TaskAgrees, Admitted, Dispatch, RequestFlush, Accepts,
     history, HostUnchanged
<1>7. ASSUME NEW x \in Delegate PROVE AnswerAgrees(x)'
  BY DEF IInv, TypeOK, SessionTypes, AnswerAgrees, Unflushed, TaskAgrees, Dispatch,
     RequestFlush, Accepts, history, HostUnchanged
<1>8. ASSUME NEW x \in Delegate PROVE WithdrawalAgrees(x)'
  BY DEF IInv, TypeOK, SessionTypes, WithdrawalAgrees, Serving, TaskAgrees, Dispatch,
     RequestFlush, Accepts, history, HostUnchanged
<1>9. ClearLeavesNothing'
  BY AboutWhom DEF IInv, TypeOK, SessionTypes, ClearLeavesNothing, Dispatch, RequestFlush,
     Accepts, history, HostUnchanged
<1>10. OrderlyStopLosesNothing'
  BY DEF IInv, TypeOK, SessionTypes, OrderlyStopLosesNothing, PhasesAgree, Serving, Dispatch,
     RequestFlush, Accepts, history, HostUnchanged
<1> QED BY <1>1, <1>2, <1>3, <1>4, <1>5, <1>6, <1>7, <1>8, <1>9, <1>10 DEF IInv

\* An input is posted under the conversation's epoch (ingest).
LEMMA PostInputStep ==
  ASSUME IInv, NEW i \in Input, PostInput(i)
  PROVE  IInv'
<1>1. TypeOK'
  BY AboutType DEF IInv, TypeOK, SessionTypes, PostInput, session, calls, history
<1>2. EpochsAgree'
  BY AboutType, AboutWhom DEF IInv, TypeOK, SessionTypes, EpochsAgree, PastEvent, PostInput,
     session, calls, history
<1>3. StoreAgrees' /\ PhasesAgree' /\ ApplyAgrees' /\ ClearLeavesNothing' /\
       OrderlyStopLosesNothing'
  BY DEF IInv, StoreAgrees, Admitted, Unflushed, PhasesAgree, Serving, MidApply, ApplyAgrees,
     ClearLeavesNothing, OrderlyStopLosesNothing, PostInput, session, calls, history
<1>4. ASSUME NEW x \in Delegate PROVE TaskAgrees(x)' /\ AnswerAgrees(x)' /\ WithdrawalAgrees(x)'
  BY DEF IInv, TaskAgrees, Admitted, AnswerAgrees, Unflushed, WithdrawalAgrees, Serving,
     PostInput, session, calls, history
<1> QED BY <1>1, <1>2, <1>3, <1>4 DEF IInv

\* A withdrawal finds its launch check, or a reason why there is none.
LEMMA WithdrawStep ==
  ASSUME IInv, NEW d \in Delegate, Withdraw(d)
  PROVE  IInv'
<1>1. TypeOK'
  BY DEF IInv, TypeOK, SessionTypes, Withdraw, session, HostUnchanged
<1>2. ASSUME NEW x \in Delegate PROVE WithdrawalAgrees(x)'
  BY DEF IInv, TypeOK, SessionTypes, WithdrawalAgrees, Serving, Withdraw, session,
     HostUnchanged
<1>3. StoreAgrees' /\ PhasesAgree' /\ EpochsAgree' /\ ApplyAgrees' /\ ClearLeavesNothing' /\
       OrderlyStopLosesNothing'
  BY DEF IInv, StoreAgrees, Admitted, Unflushed, PhasesAgree, Serving, MidApply, EpochsAgree,
     PastEvent, ApplyAgrees, ClearLeavesNothing, OrderlyStopLosesNothing, Withdraw, session,
     HostUnchanged
<1>4. ASSUME NEW x \in Delegate PROVE TaskAgrees(x)' /\ AnswerAgrees(x)'
  BY DEF IInv, TaskAgrees, Admitted, AnswerAgrees, Unflushed, Withdraw, session, HostUnchanged
<1> QED BY <1>1, <1>2, <1>3, <1>4 DEF IInv

\* A clear bumps the epoch, so that nothing that lives is of the new conversation.
LEMMA ClearConversationStep ==
  ASSUME IInv, ClearConversation
  PROVE  IInv'
<1>1. TypeOK'
  BY HandoffsOfType DEF IInv, TypeOK, SessionTypes, ClearConversation, Accepts, Moved, history
<1>2. PhasesAgree'
  BY DEF IInv, TypeOK, SessionTypes, PhasesAgree, Serving, MidApply, ClearConversation,
     Accepts, Moved, history
<1>3. EpochsAgree'
  <2>1. epoch \in Nat /\ epoch' = epoch + 1 /\ UNCHANGED <<applying, bornIn, task>>
    BY DEF IInv, TypeOK, ClearConversation
  <2>2. HandoffsOf(queue) \in Seq(PastEvent)
    BY HandoffsOfType DEF IInv, EpochsAgree
  <2>3. queue' \in Seq(PastEvent')
    BY <2>1, <2>2, PastGrows DEF ClearConversation
  <2>4. \A e \in applying : e.epoch \in Nat
    BY AboutType DEF IInv, TypeOK
  <2> QED BY <2>1, <2>3, <2>4 DEF IInv, TypeOK, EpochsAgree
<1>4. ApplyAgrees'
  BY AboutType DEF IInv, TypeOK, SessionTypes, ApplyAgrees, EpochsAgree, ClearConversation,
     Accepts, Moved, history
<1>5. ASSUME NEW x \in Delegate PROVE TaskAgrees(x)'
  BY DEF IInv, TypeOK, SessionTypes, TaskAgrees, Admitted, EpochsAgree, ClearConversation,
     Accepts, Moved, history
<1>6. ASSUME NEW x \in Delegate PROVE AnswerAgrees(x)'
  BY DEF IInv, TypeOK, SessionTypes, AnswerAgrees, Unflushed, EpochsAgree, ClearConversation,
     Accepts, Moved, history
<1>7. ASSUME NEW x \in Delegate PROVE WithdrawalAgrees(x)'
  BY DEF IInv, TypeOK, SessionTypes, WithdrawalAgrees, Serving, EpochsAgree,
     ClearConversation, Accepts, Moved, history
<1>8. ClearLeavesNothing'
  BY DEF IInv, TypeOK, SessionTypes, ClearLeavesNothing, ClearConversation, Accepts, Moved,
     history
<1>9. StoreAgrees' /\ OrderlyStopLosesNothing'
  BY DEF IInv, StoreAgrees, Admitted, Unflushed, OrderlyStopLosesNothing, ClearConversation,
     Accepts, Moved, history
<1> QED BY <1>1, <1>2, <1>3, <1>4, <1>5, <1>6, <1>7, <1>8, <1>9 DEF IInv

\* The host asks serve to stop.
LEMMA AbortStep ==
  ASSUME IInv, Abort
  PROVE  IInv'
<1>1. TypeOK'
  BY DEF IInv, TypeOK, SessionTypes, Abort, session, calls, history
<1>2. StoreAgrees' /\ PhasesAgree' /\ EpochsAgree' /\ ApplyAgrees' /\ ClearLeavesNothing' /\
       OrderlyStopLosesNothing'
  BY DEF IInv, StoreAgrees, Admitted, Unflushed, PhasesAgree, Serving, MidApply, EpochsAgree,
     PastEvent, ApplyAgrees, ClearLeavesNothing, OrderlyStopLosesNothing, Abort, session,
     calls, history
<1>3. ASSUME NEW x \in Delegate PROVE TaskAgrees(x)' /\ AnswerAgrees(x)' /\ WithdrawalAgrees(x)'
  BY DEF IInv, TaskAgrees, Admitted, AnswerAgrees, Unflushed, WithdrawalAgrees, Serving,
     Abort, session, calls, history
<1> QED BY <1>1, <1>2, <1>3 DEF IInv

\* An adapter answers with an event of its delegate's conversation.
LEMMA AdapterAnswersStep ==
  ASSUME IInv, NEW d \in Delegate, AdapterAnswers(d)
  PROVE  IInv'
<1>1. TypeOK'
  BY AboutType DEF IInv, TypeOK, SessionTypes, AdapterAnswers, session, history
<1>2. StoreAgrees'
  BY DEF IInv, TypeOK, SessionTypes, StoreAgrees, Admitted, Unflushed, AdapterAnswers,
     session, history
<1>3. EpochsAgree'
  <2>1. About("handoff", d, bornIn[d]) \in PastEvent
    BY AboutType, AboutWhom DEF IInv, TypeOK, EpochsAgree, PastEvent
  <2>2. queue' \in Seq(PastEvent) /\ PastEvent' = PastEvent
    BY <2>1 DEF IInv, EpochsAgree, AdapterAnswers, PastEvent
  <2> QED BY <2>2 DEF IInv, TypeOK, EpochsAgree, AdapterAnswers, session
<1>4. ASSUME NEW x \in Delegate PROVE TaskAgrees(x)'
  BY DEF IInv, TypeOK, SessionTypes, TaskAgrees, Admitted, AdapterAnswers, session, history
<1>5. ASSUME NEW x \in Delegate PROVE AnswerAgrees(x)'
  BY DEF IInv, TypeOK, SessionTypes, AnswerAgrees, Unflushed, AdapterAnswers, session, history
<1>6. ASSUME NEW x \in Delegate PROVE WithdrawalAgrees(x)'
  BY DEF IInv, TypeOK, SessionTypes, WithdrawalAgrees, Serving, AdapterAnswers, session,
     history
<1>7. PhasesAgree' /\ ApplyAgrees' /\ ClearLeavesNothing' /\ OrderlyStopLosesNothing'
  BY DEF IInv, PhasesAgree, Serving, MidApply, ApplyAgrees, ClearLeavesNothing,
     OrderlyStopLosesNothing, AdapterAnswers, session, history
<1> QED BY <1>1, <1>2, <1>3, <1>4, <1>5, <1>6, <1>7 DEF IInv

\* The binding of a task's work, with its delegate in the store already.
LEMMA BindSettlesStep ==
  ASSUME IInv, NEW d \in Delegate, BindSettles(d)
  PROVE  IInv'
<1>1. TypeOK'
  BY DEF IInv, TypeOK, SessionTypes, BindSettles, session, history, HostUnchanged
<1>2. StoreAgrees' /\ PhasesAgree' /\ EpochsAgree' /\ ApplyAgrees' /\ ClearLeavesNothing' /\
       OrderlyStopLosesNothing'
  BY DEF IInv, StoreAgrees, Admitted, Unflushed, PhasesAgree, Serving, MidApply, EpochsAgree,
     PastEvent, ApplyAgrees, ClearLeavesNothing, OrderlyStopLosesNothing, BindSettles,
     session, history, HostUnchanged
<1>3. ASSUME NEW x \in Delegate PROVE TaskAgrees(x)' /\ AnswerAgrees(x)' /\ WithdrawalAgrees(x)'
  BY DEF IInv, TaskAgrees, Admitted, AnswerAgrees, Unflushed, WithdrawalAgrees, Serving,
     BindSettles, session, history, HostUnchanged
<1> QED BY <1>1, <1>2, <1>3 DEF IInv

\* A caller asks for the flush: its row is on its way from then on.
LEMMA CallerFlushesStep ==
  ASSUME IInv, NEW d \in Delegate, CallerFlushes(d)
  PROVE  IInv'
<1>1. TypeOK'
  <2>1. PICK next \in {"gate", "failed", "drain"} :
            Flush(next) /\ caller' = [caller EXCEPT ![d] = next]
    BY DEF CallerFlushes
  <2>2. requested' \in BOOLEAN /\ drain' \in {"none", "loop", "writing"} /\ failure' \in BOOLEAN
        /\ UNCHANGED <<memory, durable, batch, clear, store>>
    BY <2>1 DEF IInv, TypeOK, SessionTypes, Flush, RequestFlush
  <2> QED BY <2>1, <2>2 DEF IInv, TypeOK, SessionTypes, CallerFlushes, HostUnchanged, history
<1>2. StoreAgrees'
  <2>1. UNCHANGED <<memory, durable, batch, bornIn, task>> /\ (failure => failure')
    BY DEF CallerFlushes, Flush, RequestFlush
  <2>2. \/ requested' = TRUE /\ drain' # "none" /\ (drain = "writing" => drain' = "writing")
        \/ UNCHANGED <<requested, drain, failure>>
        \/ UNCHANGED <<requested, drain>> /\ failure' = TRUE
    BY DEF CallerFlushes, Flush, RequestFlush
  <2>3. \A c \in Delegate : Unflushed(c) => Unflushed(c)' /\ Admitted(c)' = Admitted(c)
    BY <2>1 DEF Unflushed, Admitted
  <2>4. CASE requested' = TRUE /\ drain' # "none" /\ (drain = "writing" => drain' = "writing")
    BY <2>1, <2>4, AskedAgrees DEF IInv
  <2>5. CASE UNCHANGED <<requested, drain, failure>>
    BY <2>1, <2>3, <2>5 DEF IInv, StoreAgrees
  <2>6. CASE UNCHANGED <<requested, drain>> /\ failure' = TRUE
    BY <2>1, <2>3, <2>6 DEF IInv, StoreAgrees
  <2> QED BY <2>2, <2>4, <2>5, <2>6
<1>3. PhasesAgree'
  BY DEF IInv, TypeOK, SessionTypes, PhasesAgree, Serving, MidApply, CallerFlushes, Flush,
     RequestFlush, Refuses, HostUnchanged, history
<1>4. ApplyAgrees'
  BY DEF IInv, TypeOK, SessionTypes, ApplyAgrees, CallerFlushes, Flush, RequestFlush, Refuses,
     HostUnchanged, history
<1>5. ASSUME NEW x \in Delegate PROVE TaskAgrees(x)'
  BY DEF IInv, TypeOK, SessionTypes, TaskAgrees, Admitted, CallerFlushes, Flush, RequestFlush,
     Refuses, HostUnchanged, history
<1>6. ASSUME NEW x \in Delegate PROVE AnswerAgrees(x)'
  BY DEF IInv, TypeOK, SessionTypes, AnswerAgrees, Unflushed, CallerFlushes, Flush,
     RequestFlush, Refuses, HostUnchanged, history
<1>7. ClearLeavesNothing'
  BY DEF IInv, TypeOK, SessionTypes, ClearLeavesNothing, CallerFlushes, Flush, RequestFlush,
     Refuses, HostUnchanged, history
<1>8. OrderlyStopLosesNothing'
  BY DEF IInv, TypeOK, SessionTypes, OrderlyStopLosesNothing, CallerFlushes, Flush,
     RequestFlush, Refuses, HostUnchanged, history
<1>9. EpochsAgree'
  BY DEF IInv, EpochsAgree, PastEvent, CallerFlushes, Flush, RequestFlush, Refuses,
     HostUnchanged, history
<1>10. ASSUME NEW x \in Delegate PROVE WithdrawalAgrees(x)'
  BY DEF IInv, WithdrawalAgrees, Serving, CallerFlushes, Flush, RequestFlush, Refuses,
     HostUnchanged, history
<1> QED BY <1>1, <1>2, <1>3, <1>4, <1>5, <1>6, <1>7, <1>8, <1>9, <1>10 DEF IInv

\* A caller whose flush failed, or whose conversation was cleared.
LEMMA CallerUnboundStep ==
  ASSUME IInv, NEW d \in Delegate, CallerUnbound(d)
  PROVE  IInv'
<1>1. TypeOK'
  BY DEF IInv, TypeOK, SessionTypes, CallerUnbound, session, history, HostUnchanged
<1>2. ASSUME NEW x \in Delegate PROVE TaskAgrees(x)'
  BY DEF IInv, TypeOK, SessionTypes, TaskAgrees, Admitted, CallerUnbound, session, history,
     HostUnchanged
<1>3. ASSUME NEW x \in Delegate PROVE AnswerAgrees(x)'
  BY DEF IInv, TypeOK, SessionTypes, AnswerAgrees, Unflushed, CallerUnbound, session, history,
     HostUnchanged
<1>4. StoreAgrees' /\ PhasesAgree' /\ EpochsAgree' /\ ApplyAgrees' /\ ClearLeavesNothing' /\
       OrderlyStopLosesNothing'
  BY DEF IInv, StoreAgrees, Admitted, Unflushed, PhasesAgree, Serving, MidApply, EpochsAgree,
     PastEvent, ApplyAgrees, ClearLeavesNothing, OrderlyStopLosesNothing, CallerUnbound,
     session, history, HostUnchanged
<1>5. ASSUME NEW x \in Delegate PROVE WithdrawalAgrees(x)'
  BY DEF IInv, WithdrawalAgrees, Serving, CallerUnbound, session, history, HostUnchanged
<1> QED BY <1>1, <1>2, <1>3, <1>4, <1>5 DEF IInv

\* A caller is told that its dispatch was accepted.
LEMMA CallerAnsweredStep ==
  ASSUME IInv, NEW d \in Delegate, CallerAnswered(d)
  PROVE  IInv'
<1>1. TypeOK'
  BY DEF IInv, TypeOK, SessionTypes, CallerAnswered, session, history, HostUnchanged
<1>2. ASSUME NEW x \in Delegate PROVE TaskAgrees(x)'
  BY DEF IInv, TypeOK, SessionTypes, TaskAgrees, Admitted, CallerAnswered, session, history,
     HostUnchanged
<1>3. ASSUME NEW x \in Delegate PROVE AnswerAgrees(x)'
  BY DEF IInv, TypeOK, SessionTypes, AnswerAgrees, Unflushed, CallerAnswered, session,
     history, HostUnchanged
<1>4. StoreAgrees' /\ PhasesAgree' /\ EpochsAgree' /\ ApplyAgrees' /\ ClearLeavesNothing' /\
       OrderlyStopLosesNothing'
  BY DEF IInv, StoreAgrees, Admitted, Unflushed, PhasesAgree, Serving, MidApply, EpochsAgree,
     PastEvent, ApplyAgrees, ClearLeavesNothing, OrderlyStopLosesNothing, CallerAnswered,
     session, history, HostUnchanged
<1>5. ASSUME NEW x \in Delegate PROVE WithdrawalAgrees(x)'
  BY DEF IInv, WithdrawalAgrees, Serving, CallerAnswered, session, history, HostUnchanged
<1> QED BY <1>1, <1>2, <1>3, <1>4, <1>5 DEF IInv

\* The task asks for the flush before its launch.
LEMMA TaskFlushesStep ==
  ASSUME IInv, NEW d \in Delegate, TaskFlushes(d)
  PROVE  IInv'
<1>1. TypeOK'
  <2>1. PICK next \in {"gate", "failed", "drain"} :
            Flush(next) /\ task' = [task EXCEPT ![d] = IF next = "failed" THEN "ended" ELSE next]
    BY DEF TaskFlushes
  <2>2. requested' \in BOOLEAN /\ drain' \in {"none", "loop", "writing"} /\ failure' \in BOOLEAN
        /\ UNCHANGED <<memory, durable, batch, clear, store>>
    BY <2>1 DEF IInv, TypeOK, SessionTypes, Flush, RequestFlush
  <2> QED BY <2>1, <2>2 DEF IInv, TypeOK, SessionTypes, TaskFlushes, HostUnchanged, history
<1>2. StoreAgrees'
  <2>1. PICK next \in {"gate", "failed", "drain"} :
            Flush(next) /\ task' = [task EXCEPT ![d] = IF next = "failed" THEN "ended" ELSE next]
    BY DEF TaskFlushes
  <2>2. task[d] \in {"created", "gate"} /\ task = [c \in Delegate |-> task[c]]
        /\ UNCHANGED <<memory, durable, batch, bornIn>>
    BY <2>1 DEF IInv, TypeOK, TaskFlushes, Flush
  <2>3. \A c \in Delegate : Admitted(c)' = Admitted(c)
    BY <2>2 DEF Admitted
  <2>4. CASE next = "drain"
    <3>1. requested' = TRUE /\ drain' # "none" /\ (drain = "writing" => drain' = "writing")
      BY <2>1, <2>4 DEF Flush, RequestFlush
    <3> QED BY <2>2, <3>1, AskedAgrees DEF IInv
  <2>5. CASE next # "drain"
    <3>1. UNCHANGED <<requested, drain>> /\ (failure => failure') /\ (next = "failed" => failure')
      BY <2>1, <2>5 DEF Flush
    <3>2. ASSUME NEW c \in Delegate, Unflushed(c) PROVE Unflushed(c)'
      BY <2>1, <2>2, <2>5, <3>1, <3>2 DEF Unflushed
    <3> QED BY <2>2, <2>3, <3>1, <3>2 DEF IInv, StoreAgrees
  <2> QED BY <2>4, <2>5
<1>3. PhasesAgree'
  BY DEF IInv, TypeOK, SessionTypes, PhasesAgree, Serving, MidApply, TaskFlushes, Flush,
     RequestFlush, Refuses, HostUnchanged, history
<1>4. EpochsAgree'
  BY DEF IInv, TypeOK, SessionTypes, EpochsAgree, PastEvent, TaskFlushes, Flush, RequestFlush,
     Refuses, HostUnchanged, history
<1>5. ApplyAgrees'
  BY DEF IInv, TypeOK, SessionTypes, ApplyAgrees, TaskFlushes, Flush, RequestFlush, Refuses,
     HostUnchanged, history
<1>6. ASSUME NEW x \in Delegate PROVE TaskAgrees(x)'
  BY DEF IInv, TypeOK, SessionTypes, TaskAgrees, Admitted, TaskFlushes, Flush, RequestFlush,
     Refuses, HostUnchanged, history
<1>7. ASSUME NEW x \in Delegate PROVE AnswerAgrees(x)'
  BY DEF IInv, TypeOK, SessionTypes, AnswerAgrees, Unflushed, TaskFlushes, Flush,
     RequestFlush, Refuses, HostUnchanged, history
<1>8. ASSUME NEW x \in Delegate PROVE WithdrawalAgrees(x)'
  BY DEF IInv, TypeOK, SessionTypes, WithdrawalAgrees, Serving, TaskFlushes, Flush,
     RequestFlush, Refuses, HostUnchanged, history
<1>9. ClearLeavesNothing'
  BY DEF IInv, TypeOK, SessionTypes, ClearLeavesNothing, TaskFlushes, Flush, RequestFlush,
     Refuses, HostUnchanged, history
<1>10. OrderlyStopLosesNothing'
  BY DEF IInv, TypeOK, SessionTypes, OrderlyStopLosesNothing, TaskFlushes, Flush,
     RequestFlush, Refuses, HostUnchanged, history
<1> QED BY <1>1, <1>2, <1>3, <1>4, <1>5, <1>6, <1>7, <1>8, <1>9, <1>10 DEF IInv

\* A task that ends takes its launch check with it.
LEMMA TaskEndsStep ==
  ASSUME IInv, NEW d \in Delegate, task[d] = "yielding", TaskEnds(d)
  PROVE  IInv'
<1>1. TypeOK'
  BY DEF IInv, TypeOK, SessionTypes, TaskEnds, session, history, HostUnchanged
<1>2. StoreAgrees'
  BY DEF IInv, TypeOK, SessionTypes, StoreAgrees, Admitted, Unflushed, TaskEnds, session,
     history, HostUnchanged
<1>3. EpochsAgree'
  BY DEF IInv, TypeOK, SessionTypes, EpochsAgree, PastEvent, TaskEnds, session, history,
     HostUnchanged
<1>4. ASSUME NEW x \in Delegate PROVE TaskAgrees(x)'
  BY DEF IInv, TypeOK, SessionTypes, TaskAgrees, Admitted, TaskEnds, session, history,
     HostUnchanged
<1>5. ASSUME NEW x \in Delegate PROVE AnswerAgrees(x)'
  BY DEF IInv, TypeOK, SessionTypes, AnswerAgrees, Unflushed, TaskEnds, session, history,
     HostUnchanged
<1>6. ASSUME NEW x \in Delegate PROVE WithdrawalAgrees(x)'
  BY DEF IInv, TypeOK, SessionTypes, WithdrawalAgrees, Serving, TaskEnds, session, history,
     HostUnchanged
<1>7. PhasesAgree' /\ ApplyAgrees' /\ ClearLeavesNothing' /\ OrderlyStopLosesNothing'
  BY DEF IInv, PhasesAgree, Serving, MidApply, ApplyAgrees, ClearLeavesNothing,
     OrderlyStopLosesNothing, TaskEnds, session, history, HostUnchanged
<1> QED BY <1>1, <1>2, <1>3, <1>4, <1>5, <1>6, <1>7 DEF IInv

\* The task of a bound work waits for the binding.
LEMMA TaskWaitsForBindingStep ==
  ASSUME IInv, NEW d \in Delegate, Quiet, task[d] = "yielding", TaskWaitsForBinding(d)
  PROVE  IInv'
<1>1. TypeOK'
  BY DEF IInv, TypeOK, SessionTypes, TaskWaitsForBinding, Quiet, session, history,
     HostUnchanged
<1>2. StoreAgrees'
  BY DEF IInv, TypeOK, SessionTypes, StoreAgrees, Admitted, Unflushed, TaskWaitsForBinding,
     Quiet, session, history, HostUnchanged
<1>3. EpochsAgree'
  BY DEF IInv, TypeOK, SessionTypes, EpochsAgree, PastEvent, TaskWaitsForBinding, Quiet,
     session, history, HostUnchanged
<1>4. ASSUME NEW x \in Delegate PROVE TaskAgrees(x)'
  BY DEF IInv, TypeOK, SessionTypes, TaskAgrees, Admitted, TaskWaitsForBinding, Quiet,
     session, history, HostUnchanged
<1>5. ASSUME NEW x \in Delegate PROVE AnswerAgrees(x)'
  BY DEF IInv, TypeOK, SessionTypes, AnswerAgrees, Unflushed, TaskAgrees, TaskWaitsForBinding,
     Quiet, session, history, HostUnchanged
<1>6. ASSUME NEW x \in Delegate PROVE WithdrawalAgrees(x)'
  BY DEF IInv, TypeOK, SessionTypes, WithdrawalAgrees, Serving, TaskWaitsForBinding, Quiet,
     session, history, HostUnchanged
<1>7. PhasesAgree' /\ ApplyAgrees' /\ ClearLeavesNothing' /\ OrderlyStopLosesNothing'
  BY DEF IInv, PhasesAgree, Serving, MidApply, ApplyAgrees, ClearLeavesNothing,
     OrderlyStopLosesNothing, TaskWaitsForBinding, Quiet, session, history, HostUnchanged
<1> QED BY <1>1, <1>2, <1>3, <1>4, <1>5, <1>6, <1>7 DEF IInv

\* The task looks at what may forbid the launch, and starts the adapter.
LEMMA DecideStep ==
  ASSUME IInv, NEW d \in Delegate, NEW authorized \in BOOLEAN, task[d] \in {"yielding", "binding"}, task[d] = "yielding" => Quiet, Decide(d, authorized)
  PROVE  IInv'
<1>1. TypeOK'
  <2>1. queue' \in Seq(Event)
    <3>1. About("handoff", d, bornIn[d]) \in Event /\ queue \in Seq(Event)
      BY AboutType DEF IInv, TypeOK
    <3>2. queue' = queue \/ queue' = Append(queue, About("handoff", d, bornIn[d]))
      BY DEF Decide
    <3> QED BY <3>1, <3>2
  <2>2. task' \in [Delegate -> {"none", "created", "gate", "drain", "yielding", "binding",
                                "running", "ended"}]
    <3>1. task' = [task EXCEPT ![d] = "running"] \/ task' = [task EXCEPT ![d] = "ended"]
      BY DEF Decide
    <3>2. task \in [Delegate -> {"none", "created", "gate", "drain", "yielding", "binding",
                                 "running", "ended"}]
      BY DEF IInv, TypeOK
    <3> QED BY <3>1, <3>2
  <2>3. started' \subseteq Delegate /\ check' \in [Delegate -> {"none", "wanted", "unwanted"}]
    BY DEF IInv, TypeOK, Decide
  <2> QED BY <2>1, <2>2, <2>3 DEF IInv, TypeOK, SessionTypes, Decide, session
<1>2. StoreAgrees'
  <2>1. \A c \in Delegate : Unflushed(c) => Unflushed(c)' /\ Admitted(c)' = Admitted(c)
    BY DEF IInv, TypeOK, Decide, session, Unflushed, Admitted
  <2> QED BY <2>1 DEF IInv, StoreAgrees, Decide, session
<1>3. EpochsAgree'
  <2>1. About("handoff", d, bornIn[d]) \in PastEvent
    BY AboutType, AboutWhom DEF IInv, TypeOK, EpochsAgree, PastEvent
  <2>2. queue' \in Seq(PastEvent) /\ PastEvent' = PastEvent
    BY <2>1 DEF IInv, EpochsAgree, Decide, PastEvent
  <2> QED BY <2>2 DEF IInv, TypeOK, EpochsAgree, Decide, session
<1>4. ASSUME NEW x \in Delegate PROVE TaskAgrees(x)'
  BY DEF IInv, TypeOK, SessionTypes, TaskAgrees, Admitted, Decide, Live, Quiet, session
<1>5. ASSUME NEW x \in Delegate PROVE AnswerAgrees(x)'
  BY DEF IInv, TypeOK, SessionTypes, AnswerAgrees, Unflushed, TaskAgrees, Decide, Live, Quiet,
     session
<1>6. ASSUME NEW x \in Delegate PROVE WithdrawalAgrees(x)'
  BY DEF IInv, TypeOK, SessionTypes, WithdrawalAgrees, Serving, Decide, Live, Quiet, session
<1>7. PhasesAgree' /\ ApplyAgrees' /\ ClearLeavesNothing' /\ OrderlyStopLosesNothing'
  BY DEF IInv, PhasesAgree, Serving, MidApply, ApplyAgrees, ClearLeavesNothing,
     OrderlyStopLosesNothing, Decide, Live, Quiet, session
<1> QED BY <1>1, <1>2, <1>3, <1>4, <1>5, <1>6, <1>7 DEF IInv

\* An event is reduced and its rows are to be flushed before it is shown.
LEMMA ApplyEventStep ==
  ASSUME IInv, ApplyEvent
  PROVE  IInv'
<1>1. TypeOK'
  BY AboutType DEF IInv, TypeOK, SessionTypes, ApplyEvent, RequestFlush, Accepts, calls,
     history
<1>2. StoreAgrees'
  BY DEF IInv, TypeOK, SessionTypes, StoreAgrees, Admitted, Unflushed, ApplyEvent,
     RequestFlush, Accepts, calls, history
<1>3. PhasesAgree'
  BY DEF IInv, TypeOK, SessionTypes, PhasesAgree, Serving, MidApply, ApplyEvent, RequestFlush,
     Accepts, calls, history
<1>4. EpochsAgree'
  BY DEF IInv, TypeOK, SessionTypes, EpochsAgree, PastEvent, ApplyEvent, RequestFlush,
     Accepts, calls, history
<1>5. ApplyAgrees'
  BY DEF IInv, TypeOK, SessionTypes, ApplyAgrees, ApplyEvent, RequestFlush, Accepts, calls,
     history
<1>6. ASSUME NEW x \in Delegate PROVE TaskAgrees(x)'
  BY DEF IInv, TypeOK, SessionTypes, TaskAgrees, Admitted, ApplyEvent, RequestFlush, Accepts,
     calls, history
<1>7. ClearLeavesNothing'
  BY DEF IInv, TypeOK, SessionTypes, ClearLeavesNothing, ApplyEvent, RequestFlush, Accepts,
     calls, history
<1>8. OrderlyStopLosesNothing'
  BY DEF IInv, TypeOK, SessionTypes, OrderlyStopLosesNothing, PhasesAgree, Serving,
     ApplyEvent, RequestFlush, Accepts, calls, history
<1>9. ASSUME NEW x \in Delegate PROVE AnswerAgrees(x)' /\ WithdrawalAgrees(x)'
  BY DEF IInv, AnswerAgrees, Unflushed, WithdrawalAgrees, Serving, ApplyEvent, RequestFlush,
     Accepts, calls, history
<1> QED BY <1>1, <1>2, <1>3, <1>4, <1>5, <1>6, <1>7, <1>8, <1>9 DEF IInv

\* Observers see the event after its flush.
LEMMA FinishApplyStep ==
  ASSUME IInv, FinishApply
  PROVE  IInv'
<1>1. TypeOK'
  <2>1. PICK e \in applying : /\ shown' \in {shown, shown \cup {<<e, TRUE>>}, shown \cup {<<e, FALSE>>}}
                             /\ \/ UNCHANGED ingest
                                \/ ingest' = [ingest EXCEPT ![e.id] = "acked"]
                                \/ ingest' = [ingest EXCEPT ![e.id] = "rejected"]
    BY DEF FinishApply
  <2>2. ingest' \in [Input -> {"none", "pending", "acked", "rejected"}]
    BY <2>1 DEF IInv, TypeOK
  <2>3. shown' \subseteq Event \X BOOLEAN
    <3>1. e \in Event /\ shown \subseteq Event \X BOOLEAN
      BY DEF IInv, TypeOK
    <3>2. <<e, TRUE>> \in Event \X BOOLEAN /\ <<e, FALSE>> \in Event \X BOOLEAN
      BY <3>1
    <3> QED BY <2>1, <3>1, <3>2
  <2> QED BY <2>2, <2>3 DEF IInv, TypeOK, SessionTypes, FinishApply, session, calls
<1>2. PhasesAgree'
  BY DEF IInv, TypeOK, SessionTypes, PhasesAgree, Serving, MidApply, FinishApply, session,
     calls
<1>3. EpochsAgree'
  BY DEF IInv, TypeOK, SessionTypes, EpochsAgree, PastEvent, FinishApply, session, calls
<1>4. ApplyAgrees'
  BY DEF IInv, TypeOK, SessionTypes, ApplyAgrees, FinishApply, session, calls
<1>5. StoreAgrees' /\ ClearLeavesNothing' /\ OrderlyStopLosesNothing'
  BY DEF IInv, StoreAgrees, Admitted, Unflushed, ClearLeavesNothing, OrderlyStopLosesNothing,
     FinishApply, session, calls
<1>6. ASSUME NEW x \in Delegate PROVE TaskAgrees(x)' /\ AnswerAgrees(x)' /\ WithdrawalAgrees(x)'
  BY DEF IInv, TaskAgrees, Admitted, AnswerAgrees, Unflushed, WithdrawalAgrees, Serving,
     FinishApply, session, calls
<1> QED BY <1>1, <1>2, <1>3, <1>4, <1>5, <1>6 DEF IInv

\* The serve loop ends: nothing more is accepted.
LEMMA StopStep ==
  ASSUME IInv, Stop
  PROVE  IInv'
<1>1. TypeOK'
  BY DEF IInv, TypeOK, SessionTypes, Stop, Moved, session, calls, history
<1>2. PhasesAgree'
  BY DEF IInv, TypeOK, SessionTypes, PhasesAgree, Serving, MidApply, Stop, Moved, session,
     calls, history
<1>3. ASSUME NEW x \in Delegate PROVE WithdrawalAgrees(x)'
  BY DEF IInv, TypeOK, SessionTypes, WithdrawalAgrees, Serving, Stop, Moved, session, calls,
     history
<1>4. StoreAgrees' /\ EpochsAgree' /\ ApplyAgrees' /\ ClearLeavesNothing' /\
       OrderlyStopLosesNothing'
  BY DEF IInv, StoreAgrees, Admitted, Unflushed, EpochsAgree, PastEvent, ApplyAgrees,
     ClearLeavesNothing, OrderlyStopLosesNothing, Stop, Moved, session, calls, history
<1>5. ASSUME NEW x \in Delegate PROVE TaskAgrees(x)' /\ AnswerAgrees(x)'
  BY DEF IInv, TaskAgrees, Admitted, AnswerAgrees, Unflushed, Stop, Moved, session, calls,
     history
<1> QED BY <1>1, <1>2, <1>3, <1>4, <1>5 DEF IInv

\* The session is told to close, and the launch checks are forgotten.
LEMMA CloseMemoryStep ==
  ASSUME IInv, CloseMemory
  PROVE  IInv'
<1>1. TypeOK'
  BY DEF IInv, TypeOK, SessionTypes, CloseMemory, BeginClose, RequestFlush, history,
     HostUnchanged
<1>2. StoreAgrees'
  BY DEF IInv, TypeOK, SessionTypes, StoreAgrees, Admitted, Unflushed, CloseMemory,
     BeginClose, RequestFlush, history, HostUnchanged
<1>3. PhasesAgree'
  BY DEF IInv, TypeOK, SessionTypes, PhasesAgree, Serving, MidApply, CloseMemory, BeginClose,
     RequestFlush, history, HostUnchanged
<1>4. ApplyAgrees'
  BY DEF IInv, TypeOK, SessionTypes, ApplyAgrees, CloseMemory, BeginClose, RequestFlush,
     history, HostUnchanged
<1>5. ASSUME NEW x \in Delegate PROVE TaskAgrees(x)'
  BY DEF IInv, TypeOK, SessionTypes, TaskAgrees, Admitted, CloseMemory, BeginClose,
     RequestFlush, history, HostUnchanged
<1>6. ASSUME NEW x \in Delegate PROVE WithdrawalAgrees(x)'
  BY DEF IInv, TypeOK, SessionTypes, WithdrawalAgrees, Serving, CloseMemory, BeginClose,
     RequestFlush, history, HostUnchanged
<1>7. OrderlyStopLosesNothing'
  BY DEF IInv, TypeOK, SessionTypes, OrderlyStopLosesNothing, CloseMemory, BeginClose,
     RequestFlush, history, HostUnchanged
<1>8. EpochsAgree' /\ ClearLeavesNothing'
  BY DEF IInv, EpochsAgree, PastEvent, ClearLeavesNothing, CloseMemory, BeginClose,
     RequestFlush, history, HostUnchanged
<1>9. ASSUME NEW x \in Delegate PROVE AnswerAgrees(x)'
  BY DEF IInv, AnswerAgrees, Unflushed, CloseMemory, BeginClose, RequestFlush, history,
     HostUnchanged
<1> QED BY <1>1, <1>2, <1>3, <1>4, <1>5, <1>6, <1>7, <1>8, <1>9 DEF IInv

\* A drain that ends well leaves nothing behind that was asked for.
LEMMA FlushSucceedsStep ==
  ASSUME IInv, FlushSucceeds
  PROVE  IInv'
<1>1. TypeOK'
  BY DEF IInv, TypeOK, SessionTypes, FlushSucceeds, DrainEnds, Moved, history
<1>2. StoreAgrees'
  BY DEF IInv, TypeOK, SessionTypes, StoreAgrees, Admitted, Unflushed, FlushSucceeds,
     DrainEnds, Moved, history
<1>3. PhasesAgree'
  BY DEF IInv, TypeOK, SessionTypes, PhasesAgree, Serving, MidApply, FlushSucceeds, DrainEnds,
     Moved, history
<1>4. EpochsAgree'
  BY DEF IInv, TypeOK, SessionTypes, EpochsAgree, PastEvent, FlushSucceeds, DrainEnds, Moved,
     history
<1>5. ApplyAgrees'
  BY AboutWhom DEF IInv, TypeOK, SessionTypes, ApplyAgrees, StoreAgrees, Admitted,
     FlushSucceeds, DrainEnds, Moved, history
<1>6. ASSUME NEW x \in Delegate PROVE TaskAgrees(x)'
  <2>1. drain = "loop" /\ ~requested /\ drain' = "none" /\ batch = {}
        /\ UNCHANGED <<memory, durable, started, bornIn, epoch>>
    BY DEF IInv, StoreAgrees, FlushSucceeds, DrainEnds, history
  <2>2. caller' = Moved(caller, "drain", "ready") /\ task' = Moved(task, "drain", "yielding")
    BY DEF FlushSucceeds
  <2>3. (task'[x] = "none" <=> task[x] = "none") /\ (caller'[x] = "none" <=> caller[x] = "none")
        /\ "drain" \notin {caller'[x], task'[x]}
        /\ (task'[x] # task[x] => task[x] = "drain" /\ task'[x] = "yielding")
    BY <2>2 DEF IInv, TypeOK, Moved
  <2>4. task[x] = "drain" /\ Admitted(x) \in memory => Admitted(x) \in durable
    BY <2>1, AboutWhom DEF IInv, StoreAgrees, Admitted, Unflushed
  <2> QED BY <2>1, <2>3, <2>4 DEF IInv, TaskAgrees, Admitted
<1>7. ASSUME NEW x \in Delegate PROVE AnswerAgrees(x)'
  BY DEF IInv, TypeOK, SessionTypes, AnswerAgrees, Unflushed, FlushSucceeds, DrainEnds, Moved,
     history
<1>8. ASSUME NEW x \in Delegate PROVE WithdrawalAgrees(x)'
  BY DEF IInv, TypeOK, SessionTypes, WithdrawalAgrees, Serving, FlushSucceeds, DrainEnds,
     Moved, history
<1>9. ClearLeavesNothing'
  BY DEF IInv, TypeOK, SessionTypes, ClearLeavesNothing, FlushSucceeds, DrainEnds, Moved,
     history
<1>10. OrderlyStopLosesNothing'
  BY DEF IInv, OrderlyStopLosesNothing, FlushSucceeds, DrainEnds, Moved, history
<1> QED BY <1>1, <1>2, <1>3, <1>4, <1>5, <1>6, <1>7, <1>8, <1>9, <1>10 DEF IInv

\* A drain that fails says so to everybody (failure).
LEMMA FlushFailsStep ==
  ASSUME IInv, FlushFails
  PROVE  IInv'
<1>1. TypeOK'
  BY DEF IInv, TypeOK, SessionTypes, FlushFails, BatchFails, GateFails, Moved, Quiet, history
<1>2. StoreAgrees'
  BY DEF IInv, TypeOK, SessionTypes, StoreAgrees, Admitted, Unflushed, FlushFails, BatchFails,
     GateFails, Moved, Quiet, history
<1>3. PhasesAgree'
  BY DEF IInv, TypeOK, SessionTypes, PhasesAgree, Serving, MidApply, FlushFails, BatchFails,
     GateFails, Moved, Quiet, history
<1>4. EpochsAgree'
  BY DEF IInv, TypeOK, SessionTypes, EpochsAgree, PastEvent, FlushFails, BatchFails,
     GateFails, Moved, Quiet, history
<1>5. ApplyAgrees'
  BY DEF IInv, TypeOK, SessionTypes, ApplyAgrees, FlushFails, BatchFails, GateFails, Moved,
     Quiet, history
<1>6. ASSUME NEW x \in Delegate PROVE TaskAgrees(x)'
  BY DEF IInv, TypeOK, SessionTypes, TaskAgrees, Admitted, FlushFails, BatchFails, GateFails,
     Moved, Quiet, history
<1>7. ASSUME NEW x \in Delegate PROVE AnswerAgrees(x)'
  BY DEF IInv, TypeOK, SessionTypes, AnswerAgrees, Unflushed, FlushFails, BatchFails,
     GateFails, Moved, Quiet, history
<1>8. ASSUME NEW x \in Delegate PROVE WithdrawalAgrees(x)'
  BY DEF IInv, TypeOK, SessionTypes, WithdrawalAgrees, Serving, FlushFails, BatchFails,
     GateFails, Moved, Quiet, history
<1>9. ClearLeavesNothing'
  BY DEF IInv, TypeOK, SessionTypes, ClearLeavesNothing, FlushFails, BatchFails, GateFails,
     Moved, Quiet, history
<1>10. OrderlyStopLosesNothing'
  BY DEF IInv, TypeOK, SessionTypes, OrderlyStopLosesNothing, FlushFails, BatchFails,
     GateFails, Moved, Quiet, history
<1> QED BY <1>1, <1>2, <1>3, <1>4, <1>5, <1>6, <1>7, <1>8, <1>9, <1>10 DEF IInv

\* A clear of the session waits for the drain.
LEMMA BeginClearStep ==
  ASSUME IInv, BeginClear
  PROVE  IInv'
<1>1. TypeOK'
  BY DEF IInv, TypeOK, SessionTypes, BeginClear, StartClear, ClearRefused, RequestFlush,
     Refuses, GateFails, Moved, history, HostUnchanged
<1>2. StoreAgrees'
  BY DEF IInv, TypeOK, SessionTypes, StoreAgrees, Admitted, Unflushed, BeginClear, StartClear,
     ClearRefused, RequestFlush, Refuses, GateFails, Moved, history, HostUnchanged
<1>3. PhasesAgree'
  BY DEF IInv, TypeOK, SessionTypes, PhasesAgree, Serving, MidApply, BeginClear, StartClear,
     ClearRefused, RequestFlush, Refuses, GateFails, Moved, history, HostUnchanged
<1>4. EpochsAgree'
  BY DEF IInv, TypeOK, SessionTypes, EpochsAgree, PastEvent, BeginClear, StartClear,
     ClearRefused, RequestFlush, Refuses, GateFails, Moved, history, HostUnchanged
<1>5. ApplyAgrees'
  BY DEF IInv, TypeOK, SessionTypes, ApplyAgrees, BeginClear, StartClear, ClearRefused,
     RequestFlush, Refuses, GateFails, Moved, history, HostUnchanged
<1>6. ASSUME NEW x \in Delegate PROVE TaskAgrees(x)'
  BY DEF IInv, TypeOK, SessionTypes, TaskAgrees, Admitted, BeginClear, StartClear,
     ClearRefused, RequestFlush, Refuses, GateFails, Moved, history, HostUnchanged
<1>7. ASSUME NEW x \in Delegate PROVE AnswerAgrees(x)'
  BY DEF IInv, TypeOK, SessionTypes, AnswerAgrees, Unflushed, BeginClear, StartClear,
     ClearRefused, RequestFlush, Refuses, GateFails, Moved, history, HostUnchanged
<1>8. ASSUME NEW x \in Delegate PROVE WithdrawalAgrees(x)'
  BY DEF IInv, TypeOK, SessionTypes, WithdrawalAgrees, Serving, BeginClear, StartClear,
     ClearRefused, RequestFlush, Refuses, GateFails, Moved, history, HostUnchanged
<1>9. ClearLeavesNothing'
  BY DEF IInv, TypeOK, SessionTypes, ClearLeavesNothing, BeginClear, StartClear, ClearRefused,
     RequestFlush, Refuses, GateFails, Moved, history, HostUnchanged
<1>10. OrderlyStopLosesNothing'
  BY DEF IInv, TypeOK, SessionTypes, OrderlyStopLosesNothing, BeginClear, StartClear,
     ClearRefused, RequestFlush, Refuses, GateFails, Moved, history, HostUnchanged
<1> QED BY <1>1, <1>2, <1>3, <1>4, <1>5, <1>6, <1>7, <1>8, <1>9, <1>10 DEF IInv

\* Store and memory are emptied, or the clear fails.
LEMMA ClearSettlesStep ==
  ASSUME IInv, ClearSettles
  PROVE  IInv'
<1>1. TypeOK'
  <2>1. SessionTypes(Row)'
    BY DEF IInv, TypeOK, SessionTypes, ClearSettles, ClearWritten, ClearFails
  <2>2. UNCHANGED <<via, bornIn, binding, check, history>> /\ HostUnchanged
    BY DEF ClearSettles
  <2>3. caller' \in [Delegate -> {"none", "binding", "gate", "drain", "ready", "accepted",
                                  "cleared", "failed"}]
        /\ task' \in [Delegate -> {"none", "created", "gate", "drain", "yielding", "binding",
                                   "running", "ended"}]
    BY DEF IInv, TypeOK, ClearSettles, ClearWritten, ClearFails, GateFails, Moved
  <2> QED BY <2>1, <2>2, <2>3 DEF IInv, TypeOK, HostUnchanged, history
<1>2. StoreAgrees'
  BY DEF IInv, TypeOK, SessionTypes, StoreAgrees, Admitted, Unflushed, PhasesAgree,
     ClearSettles, ClearWritten, ClearFails, GateFails, Moved, history, HostUnchanged
<1>3. PhasesAgree'
  BY DEF IInv, TypeOK, SessionTypes, PhasesAgree, Serving, MidApply, ClearSettles,
     ClearWritten, ClearFails, GateFails, Moved, history, HostUnchanged
<1>4. EpochsAgree'
  BY DEF IInv, TypeOK, SessionTypes, EpochsAgree, PastEvent, ClearSettles, ClearWritten,
     ClearFails, GateFails, Moved, history, HostUnchanged
<1>5. ApplyAgrees'
  BY DEF IInv, TypeOK, SessionTypes, ApplyAgrees, EpochsAgree, ClearSettles, ClearWritten,
     ClearFails, GateFails, Moved, history, HostUnchanged
<1>6. ASSUME NEW x \in Delegate PROVE TaskAgrees(x)'
  BY DEF IInv, TypeOK, SessionTypes, TaskAgrees, Admitted, EpochsAgree, ClearSettles,
     ClearWritten, ClearFails, GateFails, Moved, history, HostUnchanged
<1>7. ASSUME NEW x \in Delegate PROVE AnswerAgrees(x)'
  BY DEF IInv, TypeOK, SessionTypes, AnswerAgrees, Unflushed, ClearSettles, ClearWritten,
     ClearFails, GateFails, Moved, history, HostUnchanged
<1>8. ASSUME NEW x \in Delegate PROVE WithdrawalAgrees(x)'
  BY DEF IInv, TypeOK, SessionTypes, WithdrawalAgrees, Serving, ClearSettles, ClearWritten,
     ClearFails, GateFails, Moved, history, HostUnchanged
<1>9. ClearLeavesNothing'
  BY DEF IInv, TypeOK, SessionTypes, ClearLeavesNothing, StoreAgrees, PhasesAgree,
     ClearSettles, ClearWritten, ClearFails, GateFails, Moved, history, HostUnchanged
<1>10. OrderlyStopLosesNothing'
  BY DEF IInv, TypeOK, SessionTypes, OrderlyStopLosesNothing, ClearSettles, ClearWritten,
     ClearFails, GateFails, Moved, history, HostUnchanged
<1> QED BY <1>1, <1>2, <1>3, <1>4, <1>5, <1>6, <1>7, <1>8, <1>9, <1>10 DEF IInv

\* A pass of the drain takes what memory holds.
LEMMA DrainPassStep ==
  ASSUME IInv, DrainPass /\ UNCHANGED <<calls, history>> /\ HostUnchanged
  PROVE  IInv'
<1>1. TypeOK'
  BY DEF IInv, TypeOK, SessionTypes, DrainPass, calls, history, HostUnchanged
<1>2. StoreAgrees'
  <2>1. UNCHANGED <<memory, durable, bornIn, task, failure>> /\ drain = "loop" /\ batch = {}
    BY DEF IInv, StoreAgrees, DrainPass, calls
  <2>2. CASE memory \ durable = {}
    BY <2>1, <2>2 DEF IInv, StoreAgrees, DrainPass
  <2>3. CASE memory \ durable # {}
    <3>1. PICK rows \in SUBSET (memory \ durable) :
             batch' = rows /\ requested' = (rows # memory \ durable) /\ drain' = "writing"
      BY <2>3 DEF DrainPass
    <3> QED BY <2>1, <3>1 DEF IInv, StoreAgrees
  <2> QED BY <2>2, <2>3
<1>3. PhasesAgree'
  BY DEF IInv, TypeOK, SessionTypes, PhasesAgree, Serving, MidApply, DrainPass, calls,
     history, HostUnchanged
<1>4. ApplyAgrees'
  BY DEF IInv, TypeOK, SessionTypes, ApplyAgrees, DrainPass, calls, history, HostUnchanged
<1>5. ASSUME NEW x \in Delegate PROVE TaskAgrees(x)'
  BY DEF IInv, TypeOK, SessionTypes, TaskAgrees, Admitted, DrainPass, calls, history,
     HostUnchanged
<1>6. ClearLeavesNothing'
  BY DEF IInv, TypeOK, SessionTypes, ClearLeavesNothing, DrainPass, calls, history,
     HostUnchanged
<1>7. EpochsAgree' /\ OrderlyStopLosesNothing'
  BY DEF IInv, EpochsAgree, PastEvent, OrderlyStopLosesNothing, DrainPass, calls, history,
     HostUnchanged
<1>8. ASSUME NEW x \in Delegate PROVE AnswerAgrees(x)' /\ WithdrawalAgrees(x)'
  BY DEF IInv, AnswerAgrees, Unflushed, WithdrawalAgrees, Serving, DrainPass, calls, history,
     HostUnchanged
<1> QED BY <1>1, <1>2, <1>3, <1>4, <1>5, <1>6, <1>7, <1>8 DEF IInv

\* The batch of a pass is in the store.
LEMMA BatchWrittenStep ==
  ASSUME IInv, BatchWritten /\ UNCHANGED <<calls, history>> /\ HostUnchanged
  PROVE  IInv'
<1>1. TypeOK'
  BY DEF IInv, TypeOK, SessionTypes, BatchWritten, calls, history, HostUnchanged
<1>2. StoreAgrees'
  BY DEF IInv, TypeOK, SessionTypes, StoreAgrees, Admitted, Unflushed, BatchWritten, calls,
     history, HostUnchanged
<1>3. PhasesAgree'
  BY DEF IInv, TypeOK, SessionTypes, PhasesAgree, Serving, MidApply, BatchWritten, calls,
     history, HostUnchanged
<1>4. ApplyAgrees'
  BY DEF IInv, TypeOK, SessionTypes, ApplyAgrees, BatchWritten, calls, history, HostUnchanged
<1>5. ASSUME NEW x \in Delegate PROVE TaskAgrees(x)'
  BY DEF IInv, TypeOK, SessionTypes, TaskAgrees, Admitted, BatchWritten, calls, history,
     HostUnchanged
<1>6. ClearLeavesNothing'
  BY DEF IInv, TypeOK, SessionTypes, ClearLeavesNothing, BatchWritten, calls, history,
     HostUnchanged
<1>7. OrderlyStopLosesNothing'
  BY DEF IInv, TypeOK, SessionTypes, OrderlyStopLosesNothing, PhasesAgree, BatchWritten,
     calls, history, HostUnchanged
<1>8. EpochsAgree'
  BY DEF IInv, EpochsAgree, PastEvent, BatchWritten, calls, history, HostUnchanged
<1>9. ASSUME NEW x \in Delegate PROVE AnswerAgrees(x)' /\ WithdrawalAgrees(x)'
  BY DEF IInv, AnswerAgrees, Unflushed, WithdrawalAgrees, Serving, BatchWritten, calls,
     history, HostUnchanged
<1> QED BY <1>1, <1>2, <1>3, <1>4, <1>5, <1>6, <1>7, <1>8, <1>9 DEF IInv

\* The drain is over: the clear writes.
LEMMA CommitClearStep ==
  ASSUME IInv, CommitClear /\ UNCHANGED <<calls, history>> /\ HostUnchanged
  PROVE  IInv'
<1>1. TypeOK'
  BY DEF IInv, TypeOK, SessionTypes, CommitClear, calls, history, HostUnchanged
<1>2. PhasesAgree'
  BY DEF IInv, TypeOK, SessionTypes, PhasesAgree, Serving, MidApply, CommitClear, calls,
     history, HostUnchanged
<1>3. EpochsAgree'
  BY DEF IInv, TypeOK, SessionTypes, EpochsAgree, PastEvent, CommitClear, calls, history,
     HostUnchanged
<1>4. ClearLeavesNothing'
  BY DEF IInv, TypeOK, SessionTypes, ClearLeavesNothing, CommitClear, calls, history,
     HostUnchanged
<1>5. StoreAgrees' /\ ApplyAgrees' /\ OrderlyStopLosesNothing'
  BY DEF IInv, StoreAgrees, Admitted, Unflushed, ApplyAgrees, OrderlyStopLosesNothing,
     CommitClear, calls, history, HostUnchanged
<1>6. ASSUME NEW x \in Delegate PROVE TaskAgrees(x)' /\ AnswerAgrees(x)' /\ WithdrawalAgrees(x)'
  BY DEF IInv, TaskAgrees, Admitted, AnswerAgrees, Unflushed, WithdrawalAgrees, Serving,
     CommitClear, calls, history, HostUnchanged
<1> QED BY <1>1, <1>2, <1>3, <1>4, <1>5, <1>6 DEF IInv

\* The session is closed: its drain is over.
LEMMA EndCloseStep ==
  ASSUME IInv, Quiet /\ EndClose /\ UNCHANGED <<calls, history>> /\ HostUnchanged
  PROVE  IInv'
<1>1. TypeOK'
  BY DEF IInv, TypeOK, SessionTypes, EndClose, Quiet, calls, history, HostUnchanged
<1>2. PhasesAgree'
  BY DEF IInv, TypeOK, SessionTypes, PhasesAgree, Serving, MidApply, EndClose, Quiet, calls,
     history, HostUnchanged
<1>3. OrderlyStopLosesNothing'
  BY DEF IInv, TypeOK, SessionTypes, OrderlyStopLosesNothing, StoreAgrees, PhasesAgree,
     Unflushed, MidApply, Serving, EndClose, Quiet, calls, history, HostUnchanged
<1>4. StoreAgrees' /\ EpochsAgree' /\ ApplyAgrees' /\ ClearLeavesNothing'
  BY DEF IInv, StoreAgrees, Admitted, Unflushed, EpochsAgree, PastEvent, ApplyAgrees,
     ClearLeavesNothing, EndClose, Quiet, calls, history, HostUnchanged
<1>5. ASSUME NEW x \in Delegate PROVE TaskAgrees(x)' /\ AnswerAgrees(x)' /\ WithdrawalAgrees(x)'
  BY DEF IInv, TaskAgrees, Admitted, AnswerAgrees, Unflushed, WithdrawalAgrees, Serving,
     EndClose, Quiet, calls, history, HostUnchanged
<1> QED BY <1>1, <1>2, <1>3, <1>4, <1>5 DEF IInv

-----------------------------------------------------------------------------
(* The invariant. *)

\* After a turn of the event loop the task launches, waits for its binding, or ends.
LEMMA BeginLaunchStep ==
  ASSUME IInv, NEW d \in Delegate, BeginLaunch(d)
  PROVE  IInv'
<1>1. Quiet /\ task[d] = "yielding"
  BY DEF BeginLaunch
<1>2. \/ TaskEnds(d) \/ TaskWaitsForBinding(d)
      \/ Decide(d, binding[d] # "failed")
  BY DEF BeginLaunch
<1> QED BY <1>1, <1>2, TaskEndsStep, TaskWaitsForBindingStep, DecideStep

\* The binding a task waited for is over.
LEMMA EndLaunchStep ==
  ASSUME IInv, NEW d \in Delegate, EndLaunch(d)
  PROVE  IInv'
<1>1. task[d] = "binding" /\ Decide(d, binding[d] # "failed")
  BY DEF EndLaunch
<1> QED BY <1>1, DecideStep

\* The steps of the publication session, together.
LEMMA SessionStepStep ==
  ASSUME IInv, SessionStep
  PROVE  IInv'
BY DrainPassStep, CommitClearStep, BatchWrittenStep, EndCloseStep DEF SessionStep

\* A runtime that has just begun to serve.
LEMMA InitInv == Init => IInv
<1> SUFFICES ASSUME Init PROVE IInv
  OBVIOUS
<1>1. TypeOK
  <2>1. SessionTypes(Row)
    BY DEF Init, SessionInit, SessionTypes
  <2>2. queue \in Seq(Event) /\ applying \subseteq Event /\ shown \subseteq Event \X BOOLEAN
    BY DEF Init
  <2> QED BY <2>1, <2>2 DEF Init, TypeOK
<1>2. StoreAgrees /\ PhasesAgree /\ ApplyAgrees
  BY DEF Init, SessionInit, StoreAgrees, PhasesAgree, ApplyAgrees, Serving, MidApply
<1>3. EpochsAgree
  BY DEF Init, SessionInit, EpochsAgree
<1>4. \A d \in Delegate : TaskAgrees(d) /\ AnswerAgrees(d) /\ WithdrawalAgrees(d)
  BY DEF Init, SessionInit, TaskAgrees, AnswerAgrees, WithdrawalAgrees
<1>5. ClearLeavesNothing /\ OrderlyStopLosesNothing
  BY DEF Init, SessionInit, ClearLeavesNothing, OrderlyStopLosesNothing
<1> QED BY <1>1, <1>2, <1>3, <1>4, <1>5 DEF IInv

\* A stuttering step.
LEMMA UnchangedStep == IInv /\ UNCHANGED vars => IInv'
<1> SUFFICES ASSUME IInv, UNCHANGED vars PROVE IInv'
  OBVIOUS
<1>1. TypeOK' /\ StoreAgrees' /\ PhasesAgree' /\ ApplyAgrees'
  BY DEF IInv, vars, session, calls, history, TypeOK, SessionTypes, StoreAgrees, PhasesAgree,
     ApplyAgrees, Serving, MidApply, Admitted, Unflushed
<1>2. EpochsAgree' /\ ClearLeavesNothing' /\ OrderlyStopLosesNothing'
  BY DEF IInv, vars, session, calls, history, EpochsAgree, PastEvent, ClearLeavesNothing,
     OrderlyStopLosesNothing
<1>3. \A d \in Delegate : TaskAgrees(d)' /\ AnswerAgrees(d)' /\ WithdrawalAgrees(d)'
  BY DEF IInv, vars, session, calls, history, TaskAgrees, AnswerAgrees, WithdrawalAgrees,
     Admitted, Unflushed, Serving
<1> QED BY <1>1, <1>2, <1>3 DEF IInv

\* Every step of the runtime preserves the invariant.
LEMMA NextInv == IInv /\ [Next]_vars => IInv'
<1> SUFFICES ASSUME IInv, [Next]_vars PROVE IInv'
  OBVIOUS
<1>1. ASSUME Host PROVE IInv'
  BY <1>1, DispatchStep, PostInputStep, WithdrawStep, AdapterAnswersStep, ClearConversationStep,
     AbortStep DEF Host
<1>2. ASSUME Step PROVE IInv'
  BY <1>2, BindSettlesStep, CallerFlushesStep, CallerUnboundStep, CallerAnsweredStep,
     TaskFlushesStep, BeginLaunchStep, EndLaunchStep, ApplyEventStep, FinishApplyStep, StopStep,
     CloseMemoryStep, FlushSucceedsStep, FlushFailsStep, BeginClearStep, ClearSettlesStep,
     SessionStepStep DEF Step
<1> QED BY <1>1, <1>2, UnchangedStep DEF Next

\* Every reachable state satisfies the inductive invariant (causal-runtime.ts,
\* blackboard-session.ts).
THEOREM InvariantHolds == Spec => []IInv
BY InitInv, NextInv, PTL DEF Spec

-----------------------------------------------------------------------------
(* The properties. *)

\* Whatever the host calls and whatever fails, the state has its types.
THEOREM TypeCorrect == Spec => []TypeOK
<1>1. IInv => TypeOK
  BY DEF IInv
<1> QED BY <1>1, InvariantHolds, PTL

\* The adapter of a dispatch starts only after its caller was told "accepted"
\* (dispatchExternal, dispatchConfirmedExternal, yieldToEventLoop).
THEOREM LaunchFollowsAnswerHolds == Spec => []LaunchFollowsAnswer
<1>1. IInv => LaunchFollowsAnswer
  BY DEF IInv, TypeOK, AnswerAgrees, LaunchFollowsAnswer
<1> QED BY <1>1, InvariantHolds, PTL

\* Work withdrawn before its launch never starts (#launchChecks).
THEOREM WithdrawnNeverStartsHolds == Spec => []WithdrawnNeverStarts
<1>1. IInv => WithdrawnNeverStarts
  BY DEF IInv, TypeOK, WithdrawalAgrees, WithdrawnNeverStarts
<1> QED BY <1>1, InvariantHolds, PTL

\* After a clear nothing of an earlier conversation is left (clear, #applying).
THEOREM ClearLeavesNothingHolds == Spec => []ClearLeavesNothing
<1>1. IInv => ClearLeavesNothing
  BY DEF IInv
<1> QED BY <1>1, InvariantHolds, PTL

\* A stop without a failure leaves the store with the rows of memory (close).
THEOREM OrderlyStopLosesNothingHolds == Spec => []OrderlyStopLosesNothing
<1>1. IInv => OrderlyStopLosesNothing
  BY DEF IInv
<1> QED BY <1>1, InvariantHolds, PTL

\* Only a launch starts an adapter.
LEMMA OnlyLaunchStarts ==
  ASSUME [Next]_vars, started' # started
  PROVE  \E d \in Delegate : BeginLaunch(d) \/ EndLaunch(d)
<1>1. ~Host
  BY DEF Host, Dispatch, PostInput, Withdraw, AdapterAnswers, ClearConversation, Abort, history
<1>2. ASSUME NEW d \in Delegate
      PROVE  ~(BindSettles(d) \/ CallerFlushes(d) \/ CallerUnbound(d) \/ CallerAnswered(d)
               \/ TaskFlushes(d))
  BY DEF BindSettles, CallerFlushes, CallerUnbound, CallerAnswered, TaskFlushes, history
<1>3. ~(ApplyEvent \/ FinishApply \/ Stop \/ CloseMemory)
  BY DEF ApplyEvent, FinishApply, Stop, CloseMemory, history
<1>4. ~(FlushSucceeds \/ FlushFails \/ BeginClear \/ ClearSettles \/ SessionStep)
  BY DEF FlushSucceeds, FlushFails, BeginClear, ClearSettles, SessionStep, history
<1>5. ~UNCHANGED vars
  BY DEF vars, history
<1> QED BY <1>1, <1>2, <1>3, <1>4, <1>5 DEF Next, Step

\* A decision that starts an adapter finds its admission in the store.
LEMMA DecideDurable ==
  ASSUME IInv, NEW d \in Delegate, NEW authorized, task[d] \in {"yielding", "binding"},
         Decide(d, authorized), NEW c \in started' \ started
  PROVE  About("admitted", c, epoch) \in durable
<1>1. c = d /\ bornIn[d] = epoch
  BY DEF Decide, Live
<1>2. Admitted(d) \in durable
  BY <1>1 DEF IInv, TypeOK, TaskAgrees
<1> QED BY <1>1, <1>2 DEF Admitted

\* An adapter is called only for a dispatch whose admission is in the store
\* (#ownTask).
THEOREM DurableBeforeLaunchHolds == Spec => DurableBeforeLaunch
<1>1. IInv /\ [Next]_vars =>
        [\A d \in started' \ started : About("admitted", d, epoch) \in durable]_vars
  <2> SUFFICES ASSUME IInv, [Next]_vars, NEW c \in started' \ started
               PROVE  About("admitted", c, epoch) \in durable
    OBVIOUS
  <2>1. PICK d \in Delegate : BeginLaunch(d) \/ EndLaunch(d)
    BY OnlyLaunchStarts
  <2>2. CASE BeginLaunch(d)
    <3>1. TaskEnds(d) \/ TaskWaitsForBinding(d) \/ Decide(d, binding[d] # "failed")
      BY <2>2 DEF BeginLaunch
    <3>2. ~TaskEnds(d) /\ ~TaskWaitsForBinding(d)
      BY DEF TaskEnds, TaskWaitsForBinding, history
    <3>3. task[d] = "yielding"
      BY <2>2 DEF BeginLaunch
    <3> QED BY <3>1, <3>2, <3>3, DecideDurable
  <2>3. CASE EndLaunch(d)
    <3>1. task[d] = "binding" /\ Decide(d, binding[d] # "failed")
      BY <2>3 DEF EndLaunch
    <3> QED BY <3>1, DecideDurable
  <2> QED BY <2>1, <2>2, <2>3
<1> QED BY <1>1, InvariantHolds, PTL DEF Spec, DurableBeforeLaunch

\* Only the end of an application shows anything or acknowledges an input.
LEMMA OnlyFinishShows ==
  ASSUME IInv, [Next]_vars, ~FinishApply
  PROVE  /\ UNCHANGED shown
         /\ \A i \in Input : ingest'[i] = "acked" => ingest[i] = "acked"
<1> DEFINE Quietly == /\ UNCHANGED shown
                      /\ \A i \in Input : ingest'[i] = "acked" => ingest[i] = "acked"
<1>1. ASSUME Host PROVE Quietly
  BY <1>1 DEF IInv, TypeOK, Host, Dispatch, PostInput, Withdraw, AdapterAnswers, ClearConversation,
     Abort, Moved, HostUnchanged, calls, history
<1>2. ASSUME NEW d \in Delegate,
             BindSettles(d) \/ CallerFlushes(d) \/ CallerUnbound(d) \/ CallerAnswered(d)
             \/ TaskFlushes(d)
      PROVE  Quietly
  BY <1>2 DEF BindSettles, CallerFlushes, CallerUnbound, CallerAnswered, TaskFlushes,
     HostUnchanged, history
<1>3. ASSUME NEW d \in Delegate, BeginLaunch(d) \/ EndLaunch(d)
      PROVE  Quietly
  BY <1>3 DEF BeginLaunch, EndLaunch, TaskEnds, TaskWaitsForBinding, Decide, HostUnchanged, history
<1>4. ASSUME ApplyEvent \/ Stop \/ CloseMemory
      PROVE  Quietly
  BY <1>4 DEF IInv, TypeOK, ApplyEvent, Stop, CloseMemory, Moved, HostUnchanged, history
<1>5. ASSUME FlushSucceeds \/ FlushFails \/ BeginClear \/ ClearSettles \/ SessionStep
      PROVE  Quietly
  BY <1>5 DEF FlushSucceeds, FlushFails, BeginClear, ClearSettles, SessionStep, HostUnchanged,
     history
<1>6. ASSUME UNCHANGED vars PROVE Quietly
  BY <1>6 DEF vars, history
<1> QED BY <1>1, <1>2, <1>3, <1>4, <1>5, <1>6 DEF Next, Step

\* What is shown as part of the conversation, and what an input is acknowledged
\* for, is in the store and of the present conversation (#applyEvent).
THEOREM ShownIsDurableHolds == Spec => ShownIsDurable
<1> DEFINE
     Shows == \A seen \in shown' \ shown :
                seen[2] => seen[1].epoch = epoch /\ seen[1] \in durable
     Acks == \A i \in Input : ingest[i] # "acked" /\ ingest'[i] = "acked"
               => About("user_input", i, epoch) \in memory \cap durable
<1>1. ASSUME IInv, FinishApply PROVE Shows /\ Acks
  <2>1. serve = "finish"
    BY <1>1 DEF FinishApply
  <2>2. PICK e \in applying :
       IF e.epoch = epoch
       THEN /\ shown' = shown \cup {<<e, TRUE>>}
            /\ ingest' = IF e.kind = "user_input" /\ ingest[e.id] = "pending"
                         THEN [ingest EXCEPT ![e.id] =
                                 IF e \in memory THEN "acked" ELSE "rejected"]
                         ELSE ingest
       ELSE /\ shown' = IF e.kind = "handoff" THEN shown \cup {<<e, FALSE>>} ELSE shown
            /\ UNCHANGED ingest
    BY <1>1 DEF FinishApply
  <2>3. e.epoch = epoch => e \in memory \cap durable
    BY <1>1, <2>1 DEF IInv, ApplyAgrees
  <2>4. Shows
    <3> SUFFICES ASSUME NEW seen \in shown' \ shown, seen[2]
                 PROVE  seen[1].epoch = epoch /\ seen[1] \in durable
      OBVIOUS
    <3>1. CASE e.epoch = epoch
      <4>1. seen = <<e, TRUE>>
        BY <2>2, <3>1
      <4>2. seen[1] = e
        BY <4>1
      <4> QED BY <2>3, <3>1, <4>2
    <3>2. CASE e.epoch # epoch
      <4>1. seen = <<e, FALSE>>
        BY <2>2, <3>2
      <4>2. ~seen[2]
        BY <4>1
      <4> QED BY <4>2
    <3> QED BY <3>1, <3>2
  <2>5. ASSUME NEW i \in Input, ingest[i] # "acked", ingest'[i] = "acked"
        PROVE  About("user_input", i, epoch) \in memory \cap durable
    <3>0. ingest' # ingest /\ ingest = [x \in Input |-> ingest[x]]
      BY <1>1, <2>5 DEF IInv, TypeOK
    <3>1. e.epoch = epoch /\ e.kind = "user_input" /\ i = e.id
      <4>1. e.epoch = epoch
        BY <2>2, <3>0
      <4>2. e.kind = "user_input" /\ \E r : ingest' = [ingest EXCEPT ![e.id] = r]
        BY <2>2, <3>0, <4>1
      <4> QED BY <2>5, <3>0, <4>1, <4>2
    <3>2. e = About("user_input", i, epoch)
      BY <1>1, <3>1 DEF IInv, TypeOK, Event, Row, About
    <3> QED BY <2>3, <3>1, <3>2
  <2> QED BY <2>4, <2>5
<1>2. IInv /\ [Next]_vars =>
        [/\ \A seen \in shown' \ shown :
              seen[2] => seen[1].epoch = epoch /\ seen[1] \in durable
         /\ \A i \in Input : ingest[i] # "acked" /\ ingest'[i] = "acked"
              => About("user_input", i, epoch) \in memory \cap durable]_vars
  <2> SUFFICES ASSUME IInv, [Next]_vars PROVE Shows /\ Acks
    OBVIOUS
  <2>1. CASE FinishApply
    BY <1>1, <2>1
  <2>2. CASE ~FinishApply
    BY <2>2, OnlyFinishShows
  <2> QED BY <2>1, <2>2
<1> QED BY <1>2, InvariantHolds, PTL DEF Spec, ShownIsDurable
=============================================================================
