---------------------------- MODULE CausalRuntime ----------------------------
(***************************************************************************)
(* The asynchronous shell around CoreRuntime (core/causal-runtime.ts) and   *)
(* its use of BlackboardSession: admitting a dispatch, making it durable,   *)
(* answering the caller, launching the adapter; applying one event at a     *)
(* time; clearing the conversation; stopping.                               *)
(*                                                                          *)
(* The program is one JavaScript thread.  An action is the code between two *)
(* awaits.  A step that a timer, a worker or a database delivers (a         *)
(* macrotask) runs only once no continuation (microtask) is runnable: that  *)
(* order is what the launch of an adapter relies on (yieldToEventLoop).     *)
(* Calls of the host may come from either, so they are not restricted.      *)
(*                                                                          *)
(* Abstracted: the delegate tables and deadlines (module Delegates), model  *)
(* calls, progress, the time of an event (the queue is in posting order),   *)
(* opening the memory and the turn before serve, host writers that append   *)
(* to memory beside the reducer.                                            *)
(***************************************************************************)
EXTENDS BlackboardSession, Sequences

CONSTANTS
  Delegate,    (* the dispatches the host may make     *)
  Input,       (* the user inputs the host may hand in *)
  MaxEpoch     (* bound: clears of the conversation    *)

ASSUME RuntimeAssumption ==
  /\ Delegate # {} /\ Delegate \cap Input = {} /\ MaxEpoch \in Nat

VARIABLES
  state,      (* #state: "serving" (completions accepted) or "closed"               *)
  aborted,    (* the host asked serve to stop                                       *)
  epoch,      (* core.conversationEpoch                                             *)
  queue,      (* events posted and not yet applied                                  *)
  serve,      (* the loop: "idle", "flush" and "finish" (inside #applyEvent)        *)
  applying,   (* the event inside #applyEvent, as a set of at most one              *)
  ingest,     (* #pendingUserInputs: "none", "pending", "acked", "rejected"         *)
  via,        (* the method a delegate was dispatched through                       *)
  bornIn,     (* the epoch it was dispatched in                                     *)
  caller,     (* the host's dispatch call                                           *)
  task,       (* the owned task of the dispatch                                     *)
  binding,    (* #taskBindings: the task store's bindWork                           *)
  check,      (* #launchChecks: "none", "wanted", "unwanted" (false, or cancelled)  *)
  (* history, read by properties only                                               *)
  started,    (* delegates whose adapter was called                                 *)
  unwanted,   (* delegates the host withdrew before their launch                    *)
  shown       (* <<event, currentConversation>> pairs observers were given          *)

calls == <<via, bornIn, caller, task, binding, check>>
history == <<started, unwanted, shown>>
vars == <<session, state, aborted, epoch, queue, serve, applying, ingest, calls, history>>

Row == [kind : {"admitted", "handoff"}, id : Delegate, epoch : Nat]
       \cup [kind : {"user_input"}, id : Input, epoch : Nat]
Event == {row \in Row : row.kind # "admitted"}
About(kind, x, ep) == [kind |-> kind, id |-> x, epoch |-> ep]

Init ==
  /\ SessionInit
  /\ state = "serving" /\ aborted = FALSE /\ epoch = 0
  /\ queue = <<>> /\ serve = "idle" /\ applying = {}
  /\ ingest = [i \in Input |-> "none"]
  /\ via = [d \in Delegate |-> "none"] /\ bornIn = [d \in Delegate |-> 0]
  /\ caller = [d \in Delegate |-> "none"] /\ task = [d \in Delegate |-> "none"]
  /\ binding = [d \in Delegate |-> "none"] /\ check = [d \in Delegate |-> "none"]
  /\ started = {} /\ unwanted = {} /\ shown = {}

Serving == state = "serving"
MidApply == serve \in {"flush", "finish"}
Accepts == Serving /\ clear = "none" /\ ~failure

\* No continuation is runnable: a macrotask may run.
Quiet ==
  /\ drain # "loop" /\ serve # "finish" /\ clear # "drained"
  /\ clear = "gate" => MidApply
  /\ \A d \in Delegate :
       /\ caller[d] # "ready" /\ task[d] # "created"
       /\ "binding" \in {caller[d], task[d]} => binding[d] = "pending"
       /\ "gate" \in {caller[d], task[d]} => clear # "none"

Moved(f, from, to) == [x \in DOMAIN f |-> IF f[x] = from THEN to ELSE f[x]]

\* flushMemory: wait for a clear, fail, or wait for the drain.
Flush(next) ==
  /\ \/ clear # "none" /\ next = "gate" /\ UNCHANGED <<requested, drain, failure>>
     \/ clear = "none" /\ Refuses /\ next = "failed" /\ failure' = TRUE
        /\ UNCHANGED <<requested, drain>>
     \/ clear = "none" /\ ~Refuses /\ next = "drain" /\ RequestFlush /\ UNCHANGED failure
  /\ UNCHANGED <<memory, durable, batch, clear, store>>

HostUnchanged == UNCHANGED <<state, aborted, epoch, queue, serve, applying, ingest>>

-----------------------------------------------------------------------------
(* The calls of the host.  What the runtime refuses outright changes nothing. *)

\* dispatchExternal, dispatchConfirmedExternal ("confirmed": bound to a task,
\* the caller does not wait for it) and dispatchTaskExternal ("task": it does).
\* Each admits the delegate, writes its admission row and creates its task.  A
\* call without a launch check is one the host never withdraws.
Dispatch(d, how) ==
  /\ Accepts /\ caller[d] = "none"
  /\ memory' = memory \cup {About("admitted", d, epoch)}
  /\ via' = [via EXCEPT ![d] = how]
  /\ bornIn' = [bornIn EXCEPT ![d] = epoch]
  /\ task' = [task EXCEPT ![d] = "created"]
  /\ check' = [check EXCEPT ![d] = "wanted"]
  /\ binding' = [binding EXCEPT ![d] = IF how = "external" THEN "none" ELSE "pending"]
  /\ IF how = "task"
     THEN caller' = [caller EXCEPT ![d] = "binding"] /\ UNCHANGED <<requested, drain>>
     ELSE caller' = [caller EXCEPT ![d] = "drain"] /\ RequestFlush
  /\ UNCHANGED <<durable, batch, clear, store, failure, history>>
  /\ HostUnchanged

\* ingestUserInput
PostInput(i) ==
  /\ Accepts /\ ingest[i] = "none"
  /\ ingest' = [ingest EXCEPT ![i] = "pending"]
  /\ queue' = Append(queue, About("user_input", i, epoch))
  /\ UNCHANGED <<session, state, aborted, epoch, serve, applying, calls, history>>

\* cancelPendingDispatch, or the host's stillWanted turning false.
Withdraw(d) ==
  /\ check[d] = "wanted"
  /\ check' = [check EXCEPT ![d] = "unwanted"]
  /\ unwanted' = unwanted \cup {d}
  /\ UNCHANGED <<session, via, bornIn, caller, task, binding, started, shown>>
  /\ HostUnchanged

\* resetConversationState: only the ends of delegates stay in the queue.
HandoffsOf(events) ==
  LET kept[i \in 0..Len(events)] ==
        IF i = 0 THEN <<>>
        ELSE IF events[i].kind = "handoff" THEN Append(kept[i - 1], events[i])
        ELSE kept[i - 1]
  IN kept[Len(events)]

ClearForgetsPending ==   \* seeded fault: the inputs it drops from the queue stay pending
  /\ Accepts /\ epoch < MaxEpoch
  /\ epoch' = epoch + 1
  /\ clear' = "gate"
  /\ queue' = HandoffsOf(queue)
  /\ check' = [d \in Delegate |-> "none"]
  /\ UNCHANGED <<memory, durable, requested, drain, batch, store, failure, state, aborted,
                 serve, applying, ingest, via, bornIn, caller, task, binding, history>>

\* clearConversation: the gate closes and the epoch moves at once; the rest of
\* the clear waits for the event being applied.
ClearConversation ==
  /\ Accepts /\ epoch < MaxEpoch
  /\ epoch' = epoch + 1
  /\ clear' = "gate"
  /\ queue' = HandoffsOf(queue)
  /\ ingest' = Moved(ingest, "pending", "rejected")
  /\ check' = [d \in Delegate |-> "none"]
  /\ UNCHANGED <<memory, durable, requested, drain, batch, store, failure, state, aborted,
                 serve, applying, via, bornIn, caller, task, binding, history>>

Abort ==
  /\ Serving /\ ~aborted
  /\ aborted' = TRUE
  /\ UNCHANGED <<session, state, epoch, queue, serve, applying, ingest, calls, history>>

\* The adapter answers: its result becomes an event of the delegate's epoch,
\* unless the runtime has stopped.
AdapterAnswers(d) ==
  /\ task[d] = "running"
  /\ task' = [task EXCEPT ![d] = "ended"]
  /\ queue' = IF Serving THEN Append(queue, About("handoff", d, bornIn[d])) ELSE queue
  /\ UNCHANGED <<session, state, aborted, epoch, serve, applying, ingest, via, bornIn, caller,
                 binding, check, history>>

-----------------------------------------------------------------------------
(* The dispatch call and the owned task of a delegate.                        *)

BindSettles(d) ==
  /\ Quiet /\ binding[d] = "pending"
  /\ \E result \in {"bound", "failed"} : binding' = [binding EXCEPT ![d] = result]
  /\ UNCHANGED <<session, via, bornIn, caller, task, check, history>>
  /\ HostUnchanged

\* dispatchTaskExternal after its binding, or any call whose gate has opened.
CallerFlushes(d) ==
  /\ \/ caller[d] = "binding" /\ binding[d] = "bound"
     \/ caller[d] = "gate" /\ clear = "none"
  /\ \E next \in {"gate", "failed", "drain"} :
       Flush(next) /\ caller' = [caller EXCEPT ![d] = next]
  /\ HostUnchanged
  /\ UNCHANGED <<via, bornIn, task, binding, check, history>>

CallerUnbound(d) ==
  /\ caller[d] = "binding" /\ binding[d] = "failed"
  /\ caller' = [caller EXCEPT ![d] = "failed"]
  /\ UNCHANGED <<session, via, bornIn, task, binding, check, history>>
  /\ HostUnchanged

\* Only the calls that do not wait for a binding look at the epoch again.
CallerAnswered(d) ==
  /\ caller[d] = "ready"
  /\ caller' = [caller EXCEPT ![d] =
       IF via[d] # "task" /\ bornIn[d] # epoch THEN "cleared" ELSE "accepted"]
  /\ UNCHANGED <<session, via, bornIn, task, binding, check, history>>
  /\ HostUnchanged

TaskFlushRaises(d) ==   \* seeded fault: a task whose flush fails is left unsettled
  /\ task[d] = "created" \/ (task[d] = "gate" /\ clear = "none")
  /\ \E next \in {"gate", "failed", "drain"} :
       Flush(next) /\ task' = [task EXCEPT ![d] = next]
  /\ HostUnchanged
  /\ UNCHANGED <<via, bornIn, caller, binding, check, history>>

TaskFlushes(d) ==
  /\ task[d] = "created" \/ (task[d] = "gate" /\ clear = "none")
  /\ \E next \in {"gate", "failed", "drain"} :
       Flush(next) /\ task' = [task EXCEPT ![d] = IF next = "failed" THEN "ended" ELSE next]
  /\ HostUnchanged
  /\ UNCHANGED <<via, bornIn, caller, binding, check, history>>

LiveUnlessWithdrawn(d) ==   \* seeded fault: trusts the launch check alone
  check[d] # "unwanted" /\ clear = "none" /\ Serving

\* Whether the adapter may still be called.  A clear forgets the launch checks:
\* the epoch stands in for them.
Live(d) == check[d] # "unwanted" /\ bornIn[d] = epoch /\ clear = "none" /\ Serving

\* The end of #startExecutorDispatch's task: call the adapter, or answer for it.
Decide(d, authorized) ==
  /\ check' = [check EXCEPT ![d] = "none"]
  /\ IF authorized /\ Live(d)
     THEN /\ task' = [task EXCEPT ![d] = "running"]
          /\ started' = started \cup {d}
          /\ UNCHANGED queue
     ELSE /\ task' = [task EXCEPT ![d] = "ended"]
          /\ queue' = IF Serving THEN Append(queue, About("handoff", d, bornIn[d])) ELSE queue
          /\ UNCHANGED started
  /\ UNCHANGED <<session, state, aborted, epoch, serve, applying, ingest, via, bornIn, caller,
                 binding, unwanted, shown>>

TaskEnds(d) ==
  /\ task' = [task EXCEPT ![d] = "ended"]
  /\ UNCHANGED <<session, via, bornIn, caller, binding, check, history>>
  /\ HostUnchanged

TaskWaitsForBinding(d) ==
  /\ task' = [task EXCEPT ![d] = "binding"]
  /\ UNCHANGED <<session, via, bornIn, caller, binding, check, history>>
  /\ HostUnchanged

BeginLaunchAtOnce(d) ==   \* seeded fault: no turn of the event loop before the launch
  /\ task[d] = "yielding"
  /\ \/ ~Serving /\ TaskEnds(d)
     \/ Serving /\ binding[d] = "pending" /\ TaskWaitsForBinding(d)
     \/ Serving /\ binding[d] # "pending" /\ Decide(d, binding[d] # "failed")

\* After its flush the task yields to the event loop, then runs.
BeginLaunch(d) ==
  /\ Quiet /\ task[d] = "yielding"
  /\ \/ ~Serving /\ TaskEnds(d)
     \/ Serving /\ binding[d] = "pending" /\ TaskWaitsForBinding(d)
     \/ Serving /\ binding[d] # "pending" /\ Decide(d, binding[d] # "failed")

EndLaunch(d) ==
  /\ task[d] = "binding" /\ binding[d] # "pending"
  /\ Decide(d, binding[d] # "failed")

-----------------------------------------------------------------------------
(* serve and #applyEvent.  An abort is noticed between two events.            *)

ApplyEvent ==
  /\ Accepts /\ serve = "idle" /\ queue # <<>>
  /\ LET e == Head(queue) IN
       /\ applying' = {e}
       /\ memory' = IF e.epoch = epoch THEN memory \cup {e} ELSE memory
  /\ queue' = Tail(queue)
  /\ serve' = "flush" /\ RequestFlush
  /\ UNCHANGED <<durable, batch, clear, store, failure, state, aborted, epoch, ingest,
                 calls, history>>

FinishApplyUnchecked ==   \* seeded fault: the epoch is not looked at again after the flush
  /\ serve = "finish"
  /\ \E e \in applying :
       /\ shown' = shown \cup {<<e, TRUE>>}
       /\ ingest' = IF e.kind = "user_input" /\ ingest[e.id] = "pending"
                    THEN [ingest EXCEPT ![e.id] = IF e \in memory THEN "acked" ELSE "rejected"]
                    ELSE ingest
  /\ serve' = "idle" /\ applying' = {}
  /\ UNCHANGED <<session, state, aborted, epoch, queue, calls, started, unwanted>>

\* The conversation may have been cleared during the flush: its content is not
\* shown then, only the end of a delegate.
FinishApply ==
  /\ serve = "finish"
  /\ \E e \in applying :
       IF e.epoch = epoch
       THEN /\ shown' = shown \cup {<<e, TRUE>>}
            /\ ingest' = IF e.kind = "user_input" /\ ingest[e.id] = "pending"
                         THEN [ingest EXCEPT ![e.id] =
                                 IF e \in memory THEN "acked" ELSE "rejected"]
                         ELSE ingest
       ELSE /\ shown' = IF e.kind = "handoff" THEN shown \cup {<<e, FALSE>>} ELSE shown
            /\ UNCHANGED ingest
  /\ serve' = "idle" /\ applying' = {}
  /\ UNCHANGED <<session, state, aborted, epoch, queue, calls, started, unwanted>>

\* The finally block of #serve, up to the shutdown of the tasks.
Stop ==
  /\ Serving /\ serve = "idle" /\ (aborted \/ failure)
  /\ state' = "closed"
  /\ ingest' = Moved(ingest, "pending", "rejected")
  /\ UNCHANGED <<session, aborted, epoch, queue, serve, applying, calls, history>>

\* Its end, after the tasks have settled or the grace has passed.
CloseMemory ==
  /\ ~Serving
  /\ BeginClose
  /\ check' = [d \in Delegate |-> "none"]
  /\ UNCHANGED <<via, bornIn, caller, task, binding, history>>
  /\ HostUnchanged

-----------------------------------------------------------------------------
(* The steps of the session, with what they do to the calls waiting on them.  *)

FlushSucceeds ==
  /\ DrainEnds
  /\ caller' = Moved(caller, "drain", "ready")
  /\ task' = Moved(task, "drain", "yielding")
  /\ serve' = IF serve = "flush" THEN "finish" ELSE serve
  /\ UNCHANGED <<state, aborted, epoch, queue, applying, ingest, via, bornIn, binding, check,
                 history>>

GateFails(f, to) == IF clear # "none" /\ clear' = "none" THEN Moved(f, "gate", to) ELSE f

FlushFailsSilently ==   \* seeded fault: a failed drain does not reject the dispatch calls
  /\ Quiet /\ BatchFails
  /\ caller' = GateFails(caller, "failed")
  /\ task' = Moved(GateFails(task, "ended"), "drain", "ended")
  /\ serve' = "idle" /\ applying' = {}
  /\ UNCHANGED <<state, aborted, epoch, queue, ingest, via, bornIn, binding, check, history>>

FlushFails ==
  /\ Quiet /\ BatchFails
  /\ caller' = Moved(GateFails(caller, "failed"), "drain", "failed")
  /\ task' = Moved(GateFails(task, "ended"), "drain", "ended")
  /\ serve' = "idle" /\ applying' = {}
  /\ UNCHANGED <<state, aborted, epoch, queue, ingest, via, bornIn, binding, check, history>>

\* The clear goes on once no event is being applied.
BeginClear ==
  /\ ~MidApply
  /\ StartClear \/ ClearRefused
  /\ caller' = GateFails(caller, "failed")
  /\ task' = GateFails(task, "ended")
  /\ UNCHANGED <<via, bornIn, binding, check, history>>
  /\ HostUnchanged

ClearSettles ==
  /\ Quiet
  /\ \/ ClearWritten /\ UNCHANGED <<caller, task>>
     \/ ClearFails /\ caller' = GateFails(caller, "failed") /\ task' = GateFails(task, "ended")
  /\ UNCHANGED <<via, bornIn, binding, check, history>>
  /\ HostUnchanged

SessionStep ==
  /\ \/ DrainPass \/ CommitClear
     \/ Quiet /\ (BatchWritten \/ EndClose)
  /\ UNCHANGED <<calls, history>>
  /\ HostUnchanged

-----------------------------------------------------------------------------
Host ==
  \/ \E d \in Delegate, how \in {"external", "confirmed", "task"} : Dispatch(d, how)
  \/ \E i \in Input : PostInput(i)
  \/ \E d \in Delegate : Withdraw(d) \/ AdapterAnswers(d)
  \/ ClearConversation
  \/ Abort

Step ==
  \/ \E d \in Delegate :
       \/ BindSettles(d) \/ CallerFlushes(d) \/ CallerUnbound(d) \/ CallerAnswered(d)
       \/ TaskFlushes(d) \/ BeginLaunch(d) \/ EndLaunch(d)
  \/ ApplyEvent \/ FinishApply \/ Stop \/ CloseMemory
  \/ FlushSucceeds \/ FlushFails \/ BeginClear \/ ClearSettles \/ SessionStep

Next == Host \/ Step

\* The event loop runs what is runnable, the store answers (its calls time out)
\* and the task store's file writes return.  The host owes no call and an
\* adapter no answer.
Spec == Init /\ [][Next]_vars /\ WF_vars(Step)
-----------------------------------------------------------------------------
(* The values the state takes. *)
TypeOK ==
  /\ SessionTypes(Row)
  /\ state \in {"serving", "closed"} /\ aborted \in BOOLEAN /\ epoch \in Nat
  /\ queue \in Seq(Event)
  /\ serve \in {"idle", "flush", "finish"} /\ applying \subseteq Event
  /\ ingest \in [Input -> {"none", "pending", "acked", "rejected"}]
  /\ via \in [Delegate -> {"none", "external", "confirmed", "task"}]
  /\ bornIn \in [Delegate -> Nat]
  /\ caller \in [Delegate -> {"none", "binding", "gate", "drain", "ready", "accepted",
                              "cleared", "failed"}]
  /\ task \in [Delegate -> {"none", "created", "gate", "drain", "yielding", "binding",
                            "running", "ended"}]
  /\ binding \in [Delegate -> {"none", "pending", "bound", "failed"}]
  /\ check \in [Delegate -> {"none", "wanted", "unwanted"}]
  /\ started \subseteq Delegate /\ unwanted \subseteq Delegate
  /\ shown \subseteq Event \X BOOLEAN

\* An adapter is called only for a dispatch whose admission is in the store at
\* that moment, however flushes, batches and clears overlap (#ownTask).
DurableBeforeLaunch ==
  [][\A d \in started' \ started : About("admitted", d, epoch) \in durable]_vars

\* The adapter of a dispatch starts only after its caller has been told
\* "accepted", so the caller can record the delegate first; a caller told that
\* the conversation was cleared or that the flush failed can rely on it never
\* starting (dispatchExternal, dispatchConfirmedExternal, yieldToEventLoop).
LaunchFollowsAnswer ==
  \A d \in started : via[d] # "task" => caller[d] = "accepted"

\* Work the host withdrew or cancelled before its launch never starts, though a
\* clear and a stop forget the checks that said so (#launchChecks).
WithdrawnNeverStarts == started \cap unwanted = {}

\* What observers are shown as part of the conversation, and what a user input
\* is acknowledged for, is in the store and of the present conversation at that
\* moment, though a clear may begin while the event is being flushed.
ShownIsDurable ==
  [][/\ \A seen \in shown' \ shown :
          seen[2] => seen[1].epoch = epoch /\ seen[1] \in durable
     /\ \A i \in Input : ingest[i] # "acked" /\ ingest'[i] = "acked"
          => About("user_input", i, epoch) \in memory \cap durable]_vars

\* Once a clear has ended nothing of an earlier conversation is left in memory,
\* in the store or on the way to it (clear, #applying, the launch checks).
ClearLeavesNothing ==
  clear = "none" /\ ~failure =>
    \A row \in memory \cup durable \cup batch : row.epoch = epoch

\* A stop without a storage failure leaves the store with exactly the rows of
\* memory, whatever was admitted, applied or cleared while it was stopping.
OrderlyStopLosesNothing == store = "closed" /\ ~failure => memory = durable

\* A clear always ends: it waits for the event being applied and the drain,
\* while new events, flushes and the stop wait for it or are refused.
ClearEnds == clear = "gate" ~> clear = "none"

\* Every user input handed in is acknowledged or rejected.
InputsSettle == \A i \in Input : ingest[i] = "pending" ~> ingest[i] \in {"acked", "rejected"}

\* Every dispatch call returns, and the task it created calls its adapter or
\* ends, through failures, clears and a stop.
DispatchSettles ==
  \A d \in Delegate :
    caller[d] # "none" ~> /\ caller[d] \in {"accepted", "cleared", "failed"}
                          /\ task[d] \in {"running", "ended"}
=============================================================================
