----------------------------- MODULE Delegates -----------------------------
(***************************************************************************)
(* The delegate lifecycle of CoreRuntime (runtime/src/core/runtime.ts) on   *)
(* top of its EventQueue (core/events.ts).                                  *)
(*                                                                          *)
(* A delegate is one dispatch of an executor operation.  It leaves the      *)
(* in-flight table when its terminal handoff or its deadline event is       *)
(* applied, whichever the queue orders first; a handoff that arrives after  *)
(* the deadline, or a definitive one after an unknown one, is still claimed *)
(* through the routing tables.  A mutating request whose earlier run ended  *)
(* unknown is refused once, which fences that run, before it may run again. *)
(* Clearing the conversation starts a new epoch: events queued before it    *)
(* keep their lifecycle effect and lose their content.                      *)
(*                                                                          *)
(* Abstracted: the manifest and origin checks of #dispatch (they refuse     *)
(* without touching this state), the text of memory rows, the suggestion    *)
(* pool, and the model slots an applied event wakes.                        *)
(***************************************************************************)
EXTENDS Integers, Sequences, FiniteSets

CONSTANTS
  Request,       (* an executor, operation and canonical request            *)
  ReadOnly,      (* the requests whose operation is readonly                *)
  Untimed,       (* the requests whose operation has a null deadline_budget *)
  Budget,        (* deadline_budget of every other operation                *)
  Outcome,       (* handoff outcomes                                        *)
  MaxDelegates, MaxEvents, MaxTime, MaxEpoch   (* bounds                    *)

ASSUME DelegatesAssumption ==
  /\ Request # {} /\ ReadOnly \subseteq Request /\ Untimed \subseteq Request
  /\ Budget \in Nat \ {0}
  /\ "unknown" \in Outcome /\ "none" \notin Outcome /\ "deadline" \notin Outcome
  /\ MaxDelegates \in Nat /\ MaxEvents \in Nat
  /\ MaxTime \in Nat /\ MaxEpoch \in Nat

VARIABLES
  now,                 (* the runtime's clock                                   *)
  epoch,               (* #conversationEpoch                                    *)
  retain,              (* #retainRoutingHistory, fixed at construction          *)
  lastApplied,         (* appliedEvents.at(-1)?.ts ?? 0                         *)
  dispatches,          (* #dispatches with #delegateEpoch                       *)
  inFlight,            (* keys of #inFlight                                     *)
  routable,            (* keys of #routableDelegates                            *)
  fenced,              (* #fencedDelegates                                      *)
  handoffSeen,         (* #handoffSeen                                          *)
  terminationKind,     (* #terminationKind, "none" where the map has no entry   *)
  terminationOutcome,  (* #terminationOutcome, likewise                         *)
  queue,               (* the entries of the EventQueue, as a set               *)
  sequence,            (* EventQueue.#sequence                                  *)
  rows,                (* the memory rows about delegates and user input        *)
  (* history, read by properties only                                          *)
  claims,              (* per delegate, what claimedHandoff and                 *)
                       (* terminatedByDeadline announced, in order              *)
  warned               (* delegates named in "verify before retrying" refusals  *)

routing == <<inFlight, routable, fenced, handoffSeen, terminationKind, terminationOutcome>>
vars == <<now, epoch, retain, lastApplied, dispatches, routing, queue, sequence, rows,
          claims, warned>>

Id == 1 .. MaxDelegates
Definitive == Outcome \ {"unknown"}
Claim == Outcome \cup {"deadline"}

Delegate == [request : Request, epoch : Nat, deadline : Nat]
Event ==
  [kind : {"handoff"}, delegate : Id, outcome : Outcome, ts : Nat, seq : Nat, epoch : Nat]
  \cup [kind : {"deadline"}, delegate : Id, outcome : {"none"}, ts : Nat, seq : Nat, epoch : Nat]
  \cup [kind : {"user_input"}, delegate : {0}, outcome : {"none"}, ts : Nat, seq : Nat, epoch : Nat]
Row == [kind : {"handoff", "deadline_exceeded", "user_input"}, delegate : Id \cup {0}]

-----------------------------------------------------------------------------
(* The event queue: earliest timestamp first, a deadline after every other    *)
(* event of its timestamp, then in the order of posting.                      *)

RankIgnored(e) == 0   \* seeded fault: compareEntries without the deadline rank

Rank(e) == IF e.kind = "deadline" THEN 1 ELSE 0

Before(e, f) ==
  \/ e.ts < f.ts
  \/ e.ts = f.ts /\ Rank(e) < Rank(f)
  \/ e.ts = f.ts /\ Rank(e) = Rank(f) /\ e.seq < f.seq

\* The event popReady returns: due, and before every other entry.
Ready(e) == e \in queue /\ e.ts <= now /\ \A f \in queue \ {e} : Before(e, f)

Push(kind, d, outcome, ts, ep) ==
  /\ sequence < MaxEvents
  /\ sequence' = sequence + 1
  /\ queue' = queue \cup {[kind |-> kind, delegate |-> d, outcome |-> outcome,
                          ts |-> ts, seq |-> sequence + 1, epoch |-> ep]}

Current(e) == e.epoch = epoch

-----------------------------------------------------------------------------
Init ==
  /\ now = 0 /\ epoch = 0 /\ lastApplied = 0
  /\ retain \in BOOLEAN
  /\ dispatches = <<>>
  /\ inFlight = {} /\ routable = {} /\ fenced = {} /\ handoffSeen = {}
  /\ terminationKind = [d \in Id |-> "none"]
  /\ terminationOutcome = [d \in Id |-> "none"]
  /\ queue = {} /\ sequence = 0
  /\ rows = {}
  /\ claims = [d \in Id |-> <<>>]
  /\ warned = {}

Tick ==
  /\ now < MaxTime
  /\ now' = now + 1
  /\ UNCHANGED <<epoch, retain, lastApplied, dispatches, routing, queue, sequence,
                 rows, claims, warned>>

PostUserInput ==
  /\ Push("user_input", 0, "none", now, epoch)
  /\ UNCHANGED <<now, epoch, retain, lastApplied, dispatches, routing, rows, claims, warned>>

-----------------------------------------------------------------------------
(* #dispatch.  A request equal to one in flight is refused with no effect.    *)

NoTwin(r) == FALSE   \* seeded fault: no duplicate check

InFlightTwin(r) == \E d \in inFlight : dispatches[d].request = r

UnresolvedByDeadline(r) ==   \* seeded fault: only a timeout counts as unresolved
  {d \in routable \ fenced : dispatches[d].request = r /\ terminationKind[d] = "deadline"}

UnresolvedByHandoff(r) ==   \* seeded fault: only an unknown handoff counts
  {d \in routable \ fenced : dispatches[d].request = r /\ terminationKind[d] = "handoff"
                              /\ terminationOutcome[d] = "unknown"}

\* The runs of r whose outcome nobody knows and nobody has been warned about.
Unresolved(r) ==
  {d \in routable \ fenced :
     /\ dispatches[d].request = r
     /\ \/ terminationKind[d] = "deadline"
        \/ terminationKind[d] = "handoff" /\ terminationOutcome[d] = "unknown"}

RefuseUnresolvedKeepsRouting(r, d) ==   \* seeded fault: fences but never reclaims
  /\ ~InFlightTwin(r)
  /\ r \notin ReadOnly
  /\ d \in Unresolved(r) /\ \A other \in Unresolved(r) : d <= other
  /\ warned' = warned \cup {d}
  /\ fenced' = fenced \cup {d}
  /\ UNCHANGED <<now, epoch, retain, lastApplied, dispatches, inFlight, routable, handoffSeen,
                 terminationKind, terminationOutcome, queue, sequence, rows, claims>>

RefuseUnresolved(r, d) ==
  /\ ~InFlightTwin(r)
  /\ r \notin ReadOnly
  /\ d \in Unresolved(r) /\ \A other \in Unresolved(r) : d <= other
  /\ warned' = warned \cup {d}
  /\ IF d \in handoffSeen /\ ~retain
     THEN /\ routable' = routable \ {d}
          /\ handoffSeen' = handoffSeen \ {d}
          /\ terminationKind' = [terminationKind EXCEPT ![d] = "none"]
          /\ terminationOutcome' = [terminationOutcome EXCEPT ![d] = "none"]
          /\ UNCHANGED fenced
     ELSE /\ fenced' = fenced \cup {d}
          /\ UNCHANGED <<routable, handoffSeen, terminationKind, terminationOutcome>>
  /\ UNCHANGED <<now, epoch, retain, lastApplied, dispatches, inFlight, queue, sequence,
                 rows, claims>>

\* The deadline counts from the last applied event, not from the clock.
Dispatch(r) ==
  LET id == Len(dispatches) + 1
      delegate == [request |-> r, epoch |-> epoch,
                   deadline |-> lastApplied + Budget]
  IN /\ id <= MaxDelegates
     /\ delegate.deadline <= MaxTime
     /\ ~InFlightTwin(r)
     /\ r \in ReadOnly \/ Unresolved(r) = {}
     /\ dispatches' = Append(dispatches, delegate)
     /\ inFlight' = inFlight \cup {id}
     /\ routable' = routable \cup {id}
     /\ IF r \in Untimed
        THEN UNCHANGED <<queue, sequence>>
        ELSE Push("deadline", id, "none", delegate.deadline, epoch)
     /\ UNCHANGED <<now, epoch, retain, lastApplied, fenced, handoffSeen, terminationKind,
                    terminationOutcome, rows, claims, warned>>

PostHandoffNow(d, outcome) ==   \* seeded fault: the event carries the epoch of its posting
  /\ d <= Len(dispatches)
  /\ Push("handoff", d, outcome, now, epoch)
  /\ UNCHANGED <<now, epoch, retain, lastApplied, dispatches, routing, rows, claims, warned>>

\* postExecutorCompletion through #postForDelegate: the event carries the
\* epoch its delegate was dispatched in.
PostHandoff(d, outcome) ==
  /\ d <= Len(dispatches)
  /\ Push("handoff", d, outcome, now, dispatches[d].epoch)
  /\ UNCHANGED <<now, epoch, retain, lastApplied, dispatches, routing, rows, claims, warned>>

-----------------------------------------------------------------------------
(* apply.  An event of an earlier epoch writes no row and is not counted as   *)
(* applied; a stale handoff or deadline still ends its delegate.              *)

Pop(e) ==
  /\ Ready(e)
  /\ queue' = queue \ {e}
  /\ lastApplied' = IF Current(e) THEN e.ts ELSE lastApplied
  /\ UNCHANGED <<now, epoch, retain, dispatches, sequence, warned>>

Record(e, kind) ==
  rows' = IF Current(e)
          THEN rows \cup {[kind |-> kind, delegate |-> e.delegate]}
          ELSE rows

ApplyUserInput(e) ==
  /\ e.kind = "user_input"
  /\ Pop(e)
  /\ Record(e, "user_input")
  /\ UNCHANGED <<routing, claims>>

ClaimsAnyLate(d, outcome) ==   \* seeded fault: every late handoff after a deadline is claimed
  /\ d \in routable
  /\ \/ d \in inFlight
     \/ terminationKind[d] = "deadline"
     \/ terminationOutcome[d] = "unknown" /\ outcome \in Definitive

\* A handoff claims its delegate while it is in flight, once after a deadline,
\* and once more when it turns an unknown outcome into a definitive one.
Claims(d, outcome) ==
  /\ d \in routable
  /\ \/ d \in inFlight
     \/ d \notin handoffSeen /\ terminationKind[d] = "deadline"
     \/ terminationOutcome[d] = "unknown" /\ outcome \in Definitive

ApplyHandoff(e) ==
  LET d == e.delegate
      claimed == Claims(d, e.outcome)
      reclaimed == claimed /\ ~retain /\ (e.outcome \in Definitive \/ d \in fenced)
      gone == IF reclaimed THEN {d} ELSE {}
      settles == \/ d \in inFlight
                 \/ terminationOutcome[d] = "unknown" /\ e.outcome \in Definitive
  IN /\ e.kind = "handoff"
     /\ Pop(e)
     /\ Record(e, "handoff")
     /\ inFlight' = inFlight \ {d}
     /\ routable' = routable \ gone
     /\ fenced' = fenced \ gone
     /\ handoffSeen' = (IF claimed THEN handoffSeen \cup {d} ELSE handoffSeen) \ gone
     /\ terminationKind' = [terminationKind EXCEPT ![d] =
          IF reclaimed THEN "none" ELSE IF d \in inFlight THEN "handoff" ELSE @]
     /\ terminationOutcome' = [terminationOutcome EXCEPT ![d] =
          IF reclaimed THEN "none" ELSE IF settles THEN e.outcome ELSE @]
     /\ claims' = IF claimed THEN [claims EXCEPT ![d] = Append(@, e.outcome)] ELSE claims

\* A deadline ends its delegate only while that delegate is in flight, and
\* leaves it routable for the handoff that may still come.
ApplyDeadline(e) ==
  LET d == e.delegate
      ends == d \in inFlight
  IN /\ e.kind = "deadline"
     /\ Pop(e)
     /\ IF ends
        THEN /\ Record(e, "deadline_exceeded")
             /\ inFlight' = inFlight \ {d}
             /\ terminationKind' = [terminationKind EXCEPT ![d] = "deadline"]
             /\ terminationOutcome' = [terminationOutcome EXCEPT ![d] = "unknown"]
             /\ claims' = [claims EXCEPT ![d] = Append(@, "deadline")]
        ELSE UNCHANGED <<rows, inFlight, terminationKind, terminationOutcome, claims>>
     /\ UNCHANGED <<routable, fenced, handoffSeen>>

Apply == \E e \in queue : ApplyUserInput(e) \/ ApplyHandoff(e) \/ ApplyDeadline(e)

-----------------------------------------------------------------------------
(* Clearing the conversation: a new epoch; queued handoffs and deadlines stay *)
(* for their lifecycle effect, everything else queued and the memory go.      *)

ClearEmptiesQueue ==   \* seeded fault: the clear drops the control events too
  /\ epoch < MaxEpoch
  /\ epoch' = epoch + 1
  /\ queue' = {}
  /\ lastApplied' = 0
  /\ rows' = {}
  /\ UNCHANGED <<now, retain, dispatches, routing, sequence, claims, warned>>

ClearUnsetsTimestamp ==   \* seeded fault: "nothing applied" is -1 rather than 0
  /\ epoch < MaxEpoch
  /\ epoch' = epoch + 1
  /\ queue' = {e \in queue : e.kind \in {"handoff", "deadline"}}
  /\ lastApplied' = -1
  /\ rows' = {}
  /\ UNCHANGED <<now, retain, dispatches, routing, sequence, claims, warned>>

ClearConversation ==
  /\ epoch < MaxEpoch
  /\ epoch' = epoch + 1
  /\ queue' = {e \in queue : e.kind \in {"handoff", "deadline"}}
  /\ lastApplied' = 0
  /\ rows' = {}
  /\ UNCHANGED <<now, retain, dispatches, routing, sequence, claims, warned>>

Next ==
  \/ Tick
  \/ PostUserInput
  \/ \E r \in Request : Dispatch(r) \/ \E d \in routable : RefuseUnresolved(r, d)
  \/ \E d \in Id, outcome \in Outcome : PostHandoff(d, outcome)
  \/ Apply
  \/ ClearConversation

\* Time passes and the serve loop applies what is ready; users and executors
\* owe nothing.
Fairness == WF_vars(Tick) /\ WF_vars(Apply)

Spec == Init /\ [][Next]_vars /\ Fairness
-----------------------------------------------------------------------------
(* The values the state takes. *)
TypeOK ==
  /\ now \in Nat /\ epoch \in Nat /\ lastApplied \in Nat /\ sequence \in Nat
  /\ retain \in BOOLEAN
  /\ dispatches \in Seq(Delegate) /\ Len(dispatches) <= MaxDelegates
  /\ inFlight \subseteq Id /\ routable \subseteq Id /\ fenced \subseteq Id
  /\ handoffSeen \subseteq Id /\ warned \subseteq Id
  /\ terminationKind \in [Id -> {"none", "handoff", "deadline"}]
  /\ terminationOutcome \in [Id -> Outcome \cup {"none"}]
  /\ queue \subseteq Event
  /\ rows \subseteq Row
  /\ claims \in [Id -> Seq(Claim)]

Announced(d) == {claims[d][i] : i \in DOMAIN claims[d]}
Settled(d) == Announced(d) \cap Definitive # {}

\* Two equal requests are never in flight together, whichever conversation
\* each was dispatched from (the duplicate check of #dispatch, over a table
\* that handoffs and deadlines of cleared conversations also shrink).
NoDuplicateWork ==
  \A d1, d2 \in inFlight :
    d1 # d2 => dispatches[d1].request # dispatches[d2].request

\* What a user is told of one run only ever gets more certain: a timeout, then
\* an unknown result, then a definitive one, each at most once, though
\* deadlines, late and repeated handoffs are applied in any order and fencing
\* reclaims the routing that recognises them (#applyHandoff, #applyDeadline,
\* #reclaimRouting; observers announce claimedHandoff, terminatedByDeadline).
Certainty(c) == IF c = "deadline" THEN 0 ELSE IF c = "unknown" THEN 1 ELSE 2

ClaimsGetMoreCertain ==
  \A d \in Id : \A i, j \in DOMAIN claims[d] :
    i < j => Certainty(claims[d][i]) < Certainty(claims[d][j])

\* A request that changes the world was only ever started again after every
\* earlier run of it had been settled or been named in a refusal that asked to
\* verify it, even when the earlier run was lost in a cleared conversation.
VerifiedBeforeRetry ==
  \A d1, d2 \in DOMAIN dispatches :
    d1 < d2 /\ dispatches[d1].request = dispatches[d2].request
            /\ dispatches[d1].request \notin ReadOnly
      => Settled(d1) \/ d1 \in warned

\* Without retained history the routing tables keep exactly what can still
\* matter: a run in flight, or a lost one whose late result or warning is
\* still to come.  Nothing else stays behind (#reclaimRouting).
RoutingIsTight ==
  /\ \A d \in Id \ routable :
       /\ d \notin inFlight \cup fenced \cup handoffSeen
       /\ terminationKind[d] = "none" /\ terminationOutcome[d] = "none"
  /\ ~retain => \A d \in routable \ inFlight :
       terminationOutcome[d] = "unknown" /\ ~(d \in fenced /\ d \in handoffSeen)

\* After a clear, memory never again holds a row about a delegate of an earlier
\* conversation, though its handoffs and deadlines are still applied
\* (#postForDelegate, isCurrentConversationEvent, the record argument).
RowsAreCurrent ==
  \A row \in rows : row.delegate # 0 => dispatches[row.delegate].epoch = epoch

\* The deadline of a run is not announced while a result posted no later than
\* that deadline waits in the queue (the ordering of EventQueue).
TimelyHandoffWins ==
  [][\A d \in Id :
       /\ Len(claims'[d]) > Len(claims[d])
       /\ claims'[d][Len(claims'[d])] = "deadline"
       => \A e \in queue : e.kind = "handoff" /\ e.delegate = d
            => e.ts > dispatches[d].deadline]_vars

\* Every timed run stops being in flight, whether or not its executor answers
\* and whether or not its conversation is cleared meanwhile.
TimedRunsEnd ==
  \A d \in Id : d \in inFlight /\ dispatches[d].request \notin Untimed ~> d \notin inFlight

\* The budget of an operation is the time limit of its whole execution: the
\* deadline of a run lies at least the budget after the moment it is dispatched
\* (the docs' reading of deadline_budget; #dispatch counts from the last applied
\* event, and from 0 when the conversation has applied none).
BudgetHonoured ==
  [][\A d \in DOMAIN dispatches' \ DOMAIN dispatches :
       dispatches'[d].deadline >= now + Budget]_vars

-----------------------------------------------------------------------------
(* The contract this lifecycle implements. *)

AskedOf == [d \in Id |-> IF d \in DOMAIN dispatches THEN dispatches[d].request
                        ELSE CHOOSE r \in Request : TRUE]
StatusOf == [d \in Id |->
  IF d \notin DOMAIN dispatches THEN "none"
  ELSE IF Settled(d) THEN "settled"
  ELSE IF d \in inFlight THEN "running" ELSE "lost"]

Contract == INSTANCE WorkContract
              WITH Work <- Id, asked <- AskedOf, status <- StatusOf

\* The delegate tables implement the contract for work: a run is settled at
\* most once, and no request is started while a run of it is in flight or
\* lost without warning.
ImplementsContract == Contract!Spec
=============================================================================
