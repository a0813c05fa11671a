--------------------------- MODULE DelegatesProofs ---------------------------
(***************************************************************************)
(* Proofs about Delegates, for every set of requests, budget and bound.     *)
(*                                                                          *)
(* The inductive invariant IInv says how the five routing tables, the       *)
(* queue, the memory rows and the announcements agree.  Every safety        *)
(* property of the module follows from it, and so does the simulation of    *)
(* WorkContract.                                                            *)
(***************************************************************************)
EXTENDS Delegates, SequenceTheorems, TLAPS

Known == DOMAIN dispatches

\* The tables speak only of delegates that were dispatched.
TablesAgree ==
  /\ inFlight \subseteq routable /\ fenced \subseteq routable
  /\ handoffSeen \subseteq routable /\ routable \subseteq Known
  /\ \A d \in Id \ Known : claims[d] = <<>>

\* A queued handoff or deadline carries its delegate's epoch, and a deadline
\* its delegate's deadline.
QueueAgrees ==
  \A e \in queue : e.kind # "user_input" =>
    /\ e.delegate \in Known
    /\ e.epoch = dispatches[e.delegate].epoch
    /\ e.kind = "deadline" => e.ts = dispatches[e.delegate].deadline

RowsAgree ==
  \A row \in rows : row.delegate # 0 =>
    row.delegate \in Known /\ dispatches[row.delegate].epoch = epoch

\* A delegate in flight has not been terminated, fenced or announced.
FlightIsFresh ==
  \A d \in inFlight :
    /\ d \notin fenced /\ d \notin handoffSeen
    /\ terminationKind[d] = "none" /\ terminationOutcome[d] = "none"
    /\ claims[d] = <<>>

\* What the tables say of a terminated delegate that is still routable, and
\* what has been announced about it.
EndedOf(d) ==
  /\ terminationKind[d] \in {"handoff", "deadline"}
  /\ terminationOutcome[d] \in Outcome
  /\ terminationOutcome[d] = "unknown" =>
       \A i \in DOMAIN claims[d] : claims[d][i] \in {"deadline", "unknown"}
  /\ terminationOutcome[d] \in Definitive => Settled(d)
  /\ terminationKind[d] = "handoff" => d \in handoffSeen
  /\ d \notin handoffSeen => \A i \in DOMAIN claims[d] : claims[d][i] = "deadline"

EndedAgrees == \A d \in routable \ inFlight : EndedOf(d)

\* A delegate whose routing is gone was settled or warned about.
GoneWasSettled ==
  /\ fenced \subseteq warned
  /\ \A d \in Known \ routable : Settled(d) \/ d \in warned

RoutingInv ==
  /\ TablesAgree /\ FlightIsFresh /\ EndedAgrees /\ GoneWasSettled
  /\ NoDuplicateWork /\ ClaimsGetMoreCertain /\ VerifiedBeforeRetry /\ RoutingIsTight

IInv == TypeOK /\ QueueAgrees /\ RowsAgree /\ RoutingInv

-----------------------------------------------------------------------------
\* Appending an announcement keeps the earlier ones.
LEMMA AppendClaim ==
  ASSUME NEW s \in Seq(Claim), NEW c \in Claim
  PROVE  /\ Append(s, c) \in Seq(Claim)
         /\ DOMAIN s = 1 .. Len(s) /\ Len(s) \in Nat
         /\ DOMAIN Append(s, c) = 1 .. Len(s) + 1
         /\ \A i \in DOMAIN s : Append(s, c)[i] = s[i]
         /\ Append(s, c)[Len(s) + 1] = c
BY AppendProperties, LenProperties

\* Every step is one of these.
LEMMA NextCases ==
  ASSUME [Next]_vars
  PROVE  \/ Tick \/ PostUserInput \/ ClearConversation \/ UNCHANGED vars
         \/ \E r \in Request : Dispatch(r)
         \/ \E r \in Request, d \in routable : RefuseUnresolved(r, d)
         \/ \E d \in Id, outcome \in Outcome : PostHandoff(d, outcome)
         \/ \E e \in queue : ApplyUserInput(e) \/ ApplyHandoff(e) \/ ApplyDeadline(e)
BY DEF Next, Apply

\* Every step keeps the types.
LEMMA TypeStep ==
  ASSUME TypeOK, [Next]_vars
  PROVE  TypeOK'
<1> USE DelegatesAssumption DEF Id, Claim, Definitive, TypeOK, routing
<1>1. CASE Tick
  BY <1>1 DEF Tick
<1>2. CASE PostUserInput
  <2>1. sequence + 1 \in Nat /\ epoch \in Nat /\ now \in Nat
    OBVIOUS
  <2>2. [kind |-> "user_input", delegate |-> 0, outcome |-> "none", ts |-> now,
         seq |-> sequence + 1, epoch |-> epoch] \in Event
    BY <2>1 DEF Event
  <2>3. queue' \subseteq Event /\ sequence' \in Nat
    BY <1>2, <2>1, <2>2 DEF PostUserInput, Push
  <2>4. QED
    BY <1>2, <2>3 DEF PostUserInput
<1>3. CASE ClearConversation
  BY <1>3 DEF ClearConversation, Row
<1>4. CASE UNCHANGED vars
  BY <1>4 DEF vars
<1>5. ASSUME NEW r \in Request, Dispatch(r)
      PROVE  TypeOK'
  <2>1. [request |-> r, epoch |-> epoch, deadline |-> lastApplied + Budget] \in Delegate
    BY DEF Delegate
  <2>2. dispatches' \in Seq(Delegate) /\ Len(dispatches') = Len(dispatches) + 1
    BY <1>5, <2>1 DEF Dispatch
  <2>3. queue' \subseteq Event /\ sequence' \in Nat
    BY <1>5 DEF Dispatch, Push, Event
  <2>4. Len(dispatches) + 1 \in Id
    BY <1>5 DEF Dispatch
  <2>5. inFlight' \subseteq Id /\ routable' \subseteq Id
    BY <1>5, <2>4 DEF Dispatch
  <2>6. Len(dispatches') <= MaxDelegates
    BY <2>2, <2>4
  <2>7. UNCHANGED <<now, epoch, retain, lastApplied, fenced, handoffSeen, terminationKind,
                    terminationOutcome, rows, claims, warned>>
    BY <1>5 DEF Dispatch
  <2>8. QED
    BY <2>2, <2>3, <2>5, <2>6, <2>7
<1>6. ASSUME NEW r \in Request, NEW d \in routable, RefuseUnresolved(r, d)
      PROVE  TypeOK'
  <2>1. CASE d \in handoffSeen /\ ~retain
    BY <1>6, <2>1 DEF RefuseUnresolved
  <2>2. CASE ~(d \in handoffSeen /\ ~retain)
    <3>1. d \in Id
      OBVIOUS
    <3>2. fenced' = fenced \cup {d} /\ warned' = warned \cup {d}
          /\ UNCHANGED <<routable, handoffSeen, terminationKind, terminationOutcome>>
      BY <1>6, <2>2 DEF RefuseUnresolved
    <3>3. QED
      BY <1>6, <3>1, <3>2 DEF RefuseUnresolved
  <2>3. QED
    BY <2>1, <2>2
<1>7. ASSUME NEW d \in Id, NEW outcome \in Outcome, PostHandoff(d, outcome)
      PROVE  TypeOK'
  <2>1. dispatches[d].epoch \in Nat
    <3>1. d \in 1 .. Len(dispatches)
      BY <1>7 DEF PostHandoff
    <3>2. dispatches[d] \in Delegate
      BY <3>1, ElementOfSeq
    <3>3. QED
      BY <3>2 DEF Delegate
  <2>2. queue' \subseteq Event /\ sequence' \in Nat
    BY <1>7, <2>1 DEF PostHandoff, Push, Event
  <2>3. QED
    BY <1>7, <2>2 DEF PostHandoff
<1>8. ASSUME NEW e \in queue, ApplyUserInput(e)
      PROVE  TypeOK'
  <2>1. e \in Event /\ e.delegate \in Id \cup {0} /\ e.ts \in Nat
    BY DEF Event
  <2>2. [kind |-> "user_input", delegate |-> e.delegate] \in Row
    BY <2>1 DEF Row
  <2>3. QED
    BY <1>8, <2>1, <2>2 DEF ApplyUserInput, Pop, Record
<1>9. ASSUME NEW e \in queue, ApplyHandoff(e)
      PROVE  TypeOK'
  <2> DEFINE d == e.delegate
  <2>1. e \in Event /\ e.kind = "handoff" /\ d \in Id /\ e.outcome \in Outcome /\ e.ts \in Nat
    BY <1>9 DEF ApplyHandoff, Event
  <2>2. UNCHANGED <<now, epoch, retain, dispatches, sequence, warned>>
        /\ queue' = queue \ {e} /\ lastApplied' \in Nat
    BY <1>9, <2>1 DEF ApplyHandoff, Pop
  <2>3. rows' \subseteq Row
    BY <1>9, <2>1 DEF ApplyHandoff, Record, Row
  <2>4. inFlight' \subseteq Id /\ routable' \subseteq Id /\ fenced' \subseteq Id
        /\ handoffSeen' \subseteq Id
    BY <1>9 DEF ApplyHandoff, Claims
  <2>5. terminationKind' \in [Id -> {"none", "handoff", "deadline"}]
    BY <1>9 DEF ApplyHandoff
  <2>6. terminationOutcome' \in [Id -> Outcome \cup {"none"}]
    BY <1>9, <2>1 DEF ApplyHandoff
  <2>7. claims' \in [Id -> Seq(Claim)]
    <3>1. CASE ~Claims(d, e.outcome)
      BY <1>9, <3>1 DEF ApplyHandoff
    <3>2. CASE Claims(d, e.outcome)
      <4>1. claims' = [claims EXCEPT ![d] = Append(@, e.outcome)]
        BY <1>9, <3>2 DEF ApplyHandoff
      <4>2. QED
        BY <2>1, <4>1, AppendClaim
    <3>3. QED
      BY <3>1, <3>2
  <2>8. QED
    BY <2>2, <2>3, <2>4, <2>5, <2>6, <2>7
<1>10. ASSUME NEW e \in queue, ApplyDeadline(e)
      PROVE  TypeOK'
  <2> DEFINE d == e.delegate
  <2>1. e \in Event /\ e.ts \in Nat /\ d \in Id \cup {0}
    BY DEF Event
  <2>2. UNCHANGED <<now, epoch, retain, dispatches, sequence, warned, routable, fenced, handoffSeen>>
        /\ queue' = queue \ {e} /\ lastApplied' \in Nat
    BY <1>10, <2>1 DEF ApplyDeadline, Pop
  <2>3. CASE d \notin inFlight
    BY <1>10, <2>2, <2>3 DEF ApplyDeadline
  <2>4. CASE d \in inFlight
    <3>1. rows' \subseteq Row
      BY <1>10, <2>1, <2>4 DEF ApplyDeadline, Record, Row
    <3>2. inFlight' = inFlight \ {d}
          /\ terminationKind' = [terminationKind EXCEPT ![d] = "deadline"]
          /\ terminationOutcome' = [terminationOutcome EXCEPT ![d] = "unknown"]
          /\ claims' = [claims EXCEPT ![d] = Append(@, "deadline")]
      BY <1>10, <2>4 DEF ApplyDeadline
    <3>3. Append(claims[d], "deadline") \in Seq(Claim)
      BY <2>4, AppendClaim
    <3>4. QED
      BY <2>2, <3>1, <3>2, <3>3
  <2>5. QED
    BY <2>3, <2>4
<1>11. QED
  BY <1>1, <1>2, <1>3, <1>4, <1>5, <1>6, <1>7, <1>8, <1>9, <1>10, NextCases

\* The type invariant: every value the reducer stores has the shape its
\* tables, queue, memory rows and announcements are declared with.
THEOREM TypeCorrect == Spec => []TypeOK
<1>1. Init => TypeOK
  BY DelegatesAssumption DEF Init, TypeOK, Id, Claim
<1>2. TypeOK /\ [Next]_vars => TypeOK'
  BY TypeStep
<1>3. QED
  BY <1>1, <1>2, PTL DEF Spec

-----------------------------------------------------------------------------
(* The inductive invariant. *)

\* What has been announced of a delegate settles it when one announcement is
\* definitive.
LEMMA SettledMeans ==
  /\ \A d : Settled(d) <=> \E i \in DOMAIN claims[d] : claims[d][i] \in Definitive
  /\ \A d : Settled(d)' <=> \E i \in DOMAIN claims'[d] : claims'[d][i] \in Definitive
BY DEF Settled, Announced

\* A delegate that was dispatched has an identifier of the bounded set.
LEMMA KnownIds == TypeOK => Known \subseteq Id
BY DelegatesAssumption DEF TypeOK, Known, Id

\* Initially no delegate was dispatched.
LEMMA InitInv == Init => IInv
<1> SUFFICES ASSUME Init PROVE IInv
  OBVIOUS
<1> USE DelegatesAssumption
<1>1. TypeOK
  BY DEF Init, TypeOK, Id, Claim
<1>2. DOMAIN dispatches = {}
  BY DEF Init
<1>3. \A d \in Id : claims[d] = <<>> /\ DOMAIN claims[d] = {}
  BY DEF Init
<1>4. QueueAgrees /\ RowsAgree
  BY DEF Init, QueueAgrees, RowsAgree
<1>5. TablesAgree /\ FlightIsFresh /\ EndedAgrees /\ GoneWasSettled
  BY <1>2, <1>3 DEF Init, TablesAgree, FlightIsFresh, EndedAgrees, EndedOf, GoneWasSettled, Known
<1>6. NoDuplicateWork /\ ClaimsGetMoreCertain /\ VerifiedBeforeRetry /\ RoutingIsTight
  BY <1>2, <1>3 DEF Init, NoDuplicateWork, ClaimsGetMoreCertain, VerifiedBeforeRetry, RoutingIsTight
<1>7. QED
  BY <1>1, <1>4, <1>5, <1>6 DEF IInv, RoutingInv

\* Steps that leave the tables and the announcements alone keep what relates them.
LEMMA RoutingUnmoved ==
  ASSUME RoutingInv, UNCHANGED <<retain, dispatches, routing, claims, warned>>
  PROVE  RoutingInv'
BY DEF RoutingInv, TablesAgree, FlightIsFresh, EndedAgrees, EndedOf, GoneWasSettled, NoDuplicateWork,
       ClaimsGetMoreCertain, VerifiedBeforeRetry, RoutingIsTight, routing, Known, Settled, Announced

\* Steps that remove events keep what the others say.
LEMMA QueueShrinks ==
  ASSUME QueueAgrees, queue' \subseteq queue, UNCHANGED dispatches
  PROVE  QueueAgrees'
BY DEF QueueAgrees, Known

\* The rows still agree when neither they, the dispatches nor the conversation change.
LEMMA RowsUnmoved ==
  ASSUME RowsAgree, UNCHANGED <<rows, dispatches, epoch>>
  PROVE  RowsAgree'
BY DEF RowsAgree, Known

\* An event that still belongs to this conversation records a row that does.
LEMMA RecordKeepsRows ==
  ASSUME RowsAgree, QueueAgrees, NEW e \in queue, NEW kind, Record(e, kind),
         e.kind # "user_input" \/ e.delegate = 0, UNCHANGED <<dispatches, epoch>>
  PROVE  RowsAgree'
BY DEF RowsAgree, QueueAgrees, Record, Current, Known

\* The steps that touch neither the tables nor the announcements.
LEMMA QuietSteps ==
  ASSUME IInv,
         \/ Tick \/ PostUserInput \/ ClearConversation \/ UNCHANGED vars
         \/ \E d \in Id, outcome \in Outcome : PostHandoff(d, outcome)
         \/ \E e \in queue : ApplyUserInput(e)
  PROVE  QueueAgrees' /\ RowsAgree' /\ RoutingInv'
<1> USE DEF IInv
<1>1. UNCHANGED <<retain, dispatches, routing, claims, warned>>
  BY DEF Tick, PostUserInput, ClearConversation, vars, PostHandoff, ApplyUserInput, Pop
<1>2. RoutingInv'
  BY <1>1, RoutingUnmoved
<1>3. CASE Tick \/ UNCHANGED vars
  BY <1>1, <1>2, <1>3, QueueShrinks, RowsUnmoved DEF Tick, vars
<1>4. CASE PostUserInput
  <2>1. QueueAgrees'
    BY <1>1, <1>4 DEF PostUserInput, Push, QueueAgrees, Known
  <2>2. QED
    BY <1>1, <1>2, <1>4, <2>1, RowsUnmoved DEF PostUserInput
<1>5. CASE ClearConversation
  <2>1. RowsAgree'
    BY <1>5 DEF ClearConversation, RowsAgree
  <2>2. queue' \subseteq queue
    BY <1>5 DEF ClearConversation
  <2>3. QED
    BY <1>1, <1>2, <2>1, <2>2, QueueShrinks
<1>6. ASSUME NEW d \in Id, NEW outcome \in Outcome, PostHandoff(d, outcome)
      PROVE  QueueAgrees' /\ RowsAgree'
  <2>1. d \in Known
    BY <1>6 DEF PostHandoff, Known, Id, TypeOK
  <2>2. QueueAgrees'
    BY <1>1, <1>6, <2>1 DEF PostHandoff, Push, QueueAgrees, Known
  <2>3. QED
    BY <1>1, <1>6, <2>2, RowsUnmoved DEF PostHandoff
<1>7. ASSUME NEW e \in queue, ApplyUserInput(e)
      PROVE  QueueAgrees' /\ RowsAgree'
  <2>1. e.delegate = 0 /\ Record(e, "user_input")
    BY <1>7 DEF ApplyUserInput, TypeOK, Event
  <2>2. queue' \subseteq queue /\ UNCHANGED <<dispatches, epoch>>
    BY <1>7 DEF ApplyUserInput, Pop
  <2>3. QED
    BY <2>1, <2>2, QueueShrinks, RecordKeepsRows
<1>8. QED
  BY <1>2, <1>3, <1>4, <1>5, <1>6, <1>7

\* Dispatching adds one fresh delegate, in flight and unannounced.
LEMMA DispatchStep ==
  ASSUME IInv, TypeOK', NEW r \in Request, Dispatch(r)
  PROVE  QueueAgrees' /\ RowsAgree' /\ RoutingInv'
<1> DEFINE id == Len(dispatches) + 1
<1> USE DEF IInv, RoutingInv, Known
<1>1. /\ dispatches \in Seq(Delegate) /\ Len(dispatches) \in Nat
      /\ Known = 1 .. Len(dispatches) /\ id \notin Known /\ id \in Id
  BY DelegatesAssumption DEF TypeOK, Dispatch, Id
<1>2. /\ dispatches' = Append(dispatches, [request |-> r, epoch |-> epoch,
                                          deadline |-> lastApplied + Budget])
      /\ inFlight' = inFlight \cup {id} /\ routable' = routable \cup {id}
      /\ ~InFlightTwin(r) /\ (r \in ReadOnly \/ Unresolved(r) = {})
      /\ UNCHANGED <<epoch, retain, fenced, handoffSeen, terminationKind, terminationOutcome,
                     rows, claims, warned>>
  BY DEF Dispatch
<1>3. /\ Known' = Known \cup {id}
      /\ \A d \in Known : dispatches'[d] = dispatches[d]
      /\ dispatches'[id].request = r /\ dispatches'[id].epoch = epoch
      /\ dispatches'[id].deadline = lastApplied + Budget
  BY <1>1, <1>2
<1>4. /\ id \notin routable \cup inFlight \cup fenced \cup handoffSeen
      /\ terminationKind[id] = "none" /\ terminationOutcome[id] = "none" /\ claims[id] = <<>>
  BY <1>1 DEF TablesAgree, RoutingIsTight
<1>5. \A d : Settled(d)' <=> Settled(d)
  BY <1>2 DEF Settled, Announced
<1>6. QueueAgrees'
  <2>1. CASE r \in Untimed
    BY <1>3, <2>1 DEF Dispatch, QueueAgrees
  <2>2. CASE r \notin Untimed
    <3>1. queue' = queue \cup {[kind |-> "deadline", delegate |-> id, outcome |-> "none",
                               ts |-> lastApplied + Budget, seq |-> sequence + 1, epoch |-> epoch]}
      BY <2>2 DEF Dispatch, Push
    <3>2. QED
      BY <1>3, <3>1 DEF QueueAgrees
  <2>3. QED
    BY <2>1, <2>2
<1>7. RowsAgree'
  BY <1>2, <1>3 DEF RowsAgree
<1>8. TablesAgree'
  BY <1>2, <1>3 DEF TablesAgree
<1>9. FlightIsFresh' /\ EndedAgrees'
  BY <1>2, <1>4, <1>5 DEF FlightIsFresh, EndedAgrees, EndedOf
<1>10. GoneWasSettled' /\ RoutingIsTight'
  BY <1>2, <1>3, <1>5 DEF GoneWasSettled, RoutingIsTight
<1>11. NoDuplicateWork'
  BY <1>2, <1>3 DEF NoDuplicateWork, InFlightTwin, TablesAgree
<1>12. ClaimsGetMoreCertain'
  BY <1>2 DEF ClaimsGetMoreCertain
<1>13. VerifiedBeforeRetry'
  <2>1. ASSUME r \notin ReadOnly, NEW d \in Known, dispatches[d].request = r
        PROVE  Settled(d) \/ d \in warned
    <3>1. CASE d \notin routable \/ d \in fenced
      BY <2>1, <3>1 DEF GoneWasSettled
    <3>2. CASE d \in routable \ fenced
      BY <1>2, <2>1, <3>2 DEF EndedAgrees, EndedOf, Unresolved, InFlightTwin, Definitive
    <3>3. QED
      BY <3>1, <3>2
  <2>2. SUFFICES ASSUME NEW d1 \in Known', NEW d2 \in Known', d1 < d2,
                        dispatches'[d1].request = dispatches'[d2].request,
                        dispatches'[d1].request \notin ReadOnly
                 PROVE  Settled(d1) \/ d1 \in warned
    BY <1>2, <1>5 DEF VerifiedBeforeRetry
  <2>3. CASE d2 \in Known
    BY <1>1, <1>3, <2>2, <2>3 DEF VerifiedBeforeRetry
  <2>4. CASE d2 = id
    BY <1>1, <1>3, <2>1, <2>2, <2>4
  <2>5. QED
    BY <1>3, <2>3, <2>4
<1>14. QED
  BY <1>6, <1>7, <1>8, <1>9, <1>10, <1>11, <1>12, <1>13

\* A refusal warns about one lost delegate and fences or reclaims it.
LEMMA RefuseStep ==
  ASSUME IInv, TypeOK', NEW r \in Request, NEW d \in routable, RefuseUnresolved(r, d)
  PROVE  QueueAgrees' /\ RowsAgree' /\ RoutingInv'
<1> USE DEF IInv, RoutingInv, Known
<1>1. /\ UNCHANGED <<epoch, retain, dispatches, inFlight, queue, rows, claims>>
      /\ warned' = warned \cup {d}
  BY DEF RefuseUnresolved
<1>2. d \in Id /\ d \notin fenced /\ d \notin inFlight
  BY DEF RefuseUnresolved, Unresolved, FlightIsFresh, TypeOK
<1>3. \/ /\ d \in handoffSeen /\ ~retain
         /\ routable' = routable \ {d} /\ handoffSeen' = handoffSeen \ {d}
         /\ terminationKind' = [terminationKind EXCEPT ![d] = "none"]
         /\ terminationOutcome' = [terminationOutcome EXCEPT ![d] = "none"]
         /\ fenced' = fenced
      \/ /\ ~(d \in handoffSeen /\ ~retain)
         /\ fenced' = fenced \cup {d}
         /\ UNCHANGED <<routable, handoffSeen, terminationKind, terminationOutcome>>
  BY DEF RefuseUnresolved
<1>4. \A x : Settled(x)' <=> Settled(x)
  BY <1>1 DEF Settled, Announced
<1>5. \A x \in Id : x # d => /\ terminationKind'[x] = terminationKind[x]
                            /\ terminationOutcome'[x] = terminationOutcome[x]
  BY <1>3 DEF TypeOK
<1>6. d \notin routable' => terminationKind'[d] = "none" /\ terminationOutcome'[d] = "none"
  BY <1>2, <1>3 DEF TypeOK
<1>7. d \in routable' => terminationKind'[d] = terminationKind[d]
                         /\ terminationOutcome'[d] = terminationOutcome[d]
  BY <1>3
<1>8. QueueAgrees' /\ RowsAgree'
  BY <1>1, QueueShrinks, RowsUnmoved
<1>9. TablesAgree'
  BY <1>1, <1>2, <1>3 DEF TablesAgree
<1>10. FlightIsFresh'
  BY <1>1, <1>2, <1>3, <1>5 DEF FlightIsFresh, TypeOK
<1>11. EndedAgrees'
  BY <1>1, <1>3, <1>4, <1>5, <1>7 DEF EndedAgrees, EndedOf, TypeOK
<1>12. GoneWasSettled'
  BY <1>1, <1>3, <1>4 DEF GoneWasSettled
<1>13. RoutingIsTight'
  <2>1. ASSUME NEW x \in Id \ routable'
        PROVE  /\ x \notin inFlight' \cup fenced' \cup handoffSeen'
               /\ terminationKind'[x] = "none" /\ terminationOutcome'[x] = "none"
    BY <1>1, <1>2, <1>3, <1>5, <1>6 DEF RoutingIsTight
  <2>2. ASSUME ~retain, NEW x \in routable' \ inFlight'
        PROVE  terminationOutcome'[x] = "unknown" /\ ~(x \in fenced' /\ x \in handoffSeen')
    BY <1>1, <1>2, <1>3, <1>5, <1>7, <2>2 DEF RoutingIsTight, TypeOK
  <2>3. QED
    BY <1>1, <2>1, <2>2 DEF RoutingIsTight
<1>14. NoDuplicateWork' /\ ClaimsGetMoreCertain'
  BY <1>1 DEF NoDuplicateWork, ClaimsGetMoreCertain
<1>15. VerifiedBeforeRetry'
  BY <1>1, <1>4 DEF VerifiedBeforeRetry
<1>16. QED
  BY <1>8, <1>9, <1>10, <1>11, <1>12, <1>13, <1>14, <1>15

\* Applying a handoff: at most one more announcement about its delegate, more
\* certain than those before it.
LEMMA HandoffStep ==
  ASSUME IInv, TypeOK', NEW e \in queue, ApplyHandoff(e)
  PROVE  QueueAgrees' /\ RowsAgree' /\ RoutingInv'
<1> DEFINE d == e.delegate
           o == e.outcome
           claimed == Claims(d, o)
           reclaimed == claimed /\ ~retain /\ (o \in Definitive \/ d \in fenced)
           settles == d \in inFlight \/ (terminationOutcome[d] = "unknown" /\ o \in Definitive)
<1> USE DEF IInv, RoutingInv, Known
<1>1. e.kind = "handoff" /\ d \in Id /\ o \in Outcome /\ d \in Known
  BY DEF ApplyHandoff, TypeOK, Event, QueueAgrees
<1>2. /\ UNCHANGED <<epoch, retain, dispatches, warned>>
      /\ queue' \subseteq queue /\ Record(e, "handoff")
      /\ inFlight' = inFlight \ {d}
  BY DEF ApplyHandoff, Pop
<1>3. ASSUME NEW x \in Id, x # d
      PROVE  /\ x \in routable' <=> x \in routable
             /\ x \in fenced' <=> x \in fenced
             /\ x \in handoffSeen' <=> x \in handoffSeen
             /\ x \in inFlight' <=> x \in inFlight
             /\ terminationKind'[x] = terminationKind[x]
             /\ terminationOutcome'[x] = terminationOutcome[x]
             /\ claims'[x] = claims[x] /\ Settled(x)' = Settled(x)
  <2>1. claims'[x] = claims[x]
    BY <1>3 DEF ApplyHandoff, TypeOK
  <2>2. terminationKind'[x] = terminationKind[x] /\ terminationOutcome'[x] = terminationOutcome[x]
    BY <1>3 DEF ApplyHandoff, TypeOK
  <2>3. QED
    BY <1>3, <2>1, <2>2 DEF ApplyHandoff, Settled, Announced
<1>4. d \in inFlight \/ settles => claimed
  <2>1. d \notin routable => terminationOutcome[d] = "none" /\ d \notin inFlight
    BY <1>1 DEF RoutingIsTight
  <2>2. QED
    BY <1>1, <2>1 DEF Claims, Definitive
<1>5. CASE ~claimed
  <2>1. /\ d \notin inFlight /\ claims' = claims
        /\ routable' = routable /\ fenced' = fenced /\ handoffSeen' = handoffSeen
        /\ terminationKind' = terminationKind /\ terminationOutcome' = terminationOutcome
    <3>1. terminationKind' = [terminationKind EXCEPT ![d] = @]
          /\ terminationOutcome' = [terminationOutcome EXCEPT ![d] = @]
      BY <1>4, <1>5 DEF ApplyHandoff
    <3>2. QED
      BY <1>4, <1>5, <3>1 DEF ApplyHandoff, TypeOK
  <2>2. UNCHANGED <<retain, dispatches, routing, claims, warned>>
    BY <1>2, <2>1 DEF routing
  <2>3. QED
    BY <1>1, <1>2, <2>2, RoutingUnmoved, QueueShrinks, RecordKeepsRows
<1>6. CASE claimed
  <2>1. d \in routable
    BY <1>6 DEF Claims
  <2>2. /\ claims'[d] = Append(claims[d], o)
        /\ claims[d] \in Seq(Claim) /\ o \in Claim
    BY <1>1, <1>6 DEF ApplyHandoff, TypeOK, Claim
  <2>3. /\ DOMAIN claims[d] = 1 .. Len(claims[d]) /\ Len(claims[d]) \in Nat
        /\ DOMAIN claims'[d] = 1 .. Len(claims[d]) + 1
        /\ \A i \in DOMAIN claims[d] : claims'[d][i] = claims[d][i]
        /\ claims'[d][Len(claims[d]) + 1] = o
    BY <2>2, AppendClaim
  <2>4. (Settled(d) => Settled(d)') /\ (o \in Definitive => Settled(d)')
    BY <2>3, SettledMeans
  \* What made the claim good bounds what was announced before it.
  <2>5. \A i \in DOMAIN claims[d] : Certainty(claims[d][i]) < Certainty(o)
    <3>1. CASE d \in inFlight
      BY <3>1 DEF FlightIsFresh
    <3>2. CASE d \notin inFlight /\ d \notin handoffSeen /\ terminationKind[d] = "deadline"
      BY <1>1, <2>1, <3>2, DelegatesAssumption DEF EndedAgrees, EndedOf, Certainty
    <3>3. CASE terminationOutcome[d] = "unknown" /\ o \in Definitive
      <4>1. d \notin inFlight
        BY <3>3, DelegatesAssumption DEF FlightIsFresh
      <4>2. QED
        BY <1>1, <2>1, <3>3, <4>1, DelegatesAssumption DEF EndedAgrees, EndedOf, Certainty, Definitive
    <3>4. QED
      BY <1>6, <3>1, <3>2, <3>3 DEF Claims
  <2>6. reclaimed => /\ routable' = routable \ {d} /\ fenced' = fenced \ {d}
                     /\ d \notin handoffSeen'
                     /\ terminationKind'[d] = "none" /\ terminationOutcome'[d] = "none"
    BY <1>1, <1>6 DEF ApplyHandoff, TypeOK
  <2>7. ~reclaimed => /\ routable' = routable /\ fenced' = fenced
                      /\ handoffSeen' = handoffSeen \cup {d}
                      /\ d \in inFlight => terminationKind'[d] = "handoff"
                      /\ d \notin inFlight => terminationKind'[d] = terminationKind[d]
                      /\ settles => terminationOutcome'[d] = o
                      /\ ~settles => terminationOutcome'[d] = terminationOutcome[d]
    <3>1. ~reclaimed => routable' = routable /\ fenced' = fenced
      BY <1>6 DEF ApplyHandoff
    <3>2. ~reclaimed => handoffSeen' = handoffSeen \cup {d}
      BY <1>6 DEF ApplyHandoff
    <3>3. ~reclaimed =>
            /\ d \in inFlight => terminationKind' = [terminationKind EXCEPT ![d] = "handoff"]
            /\ d \notin inFlight => terminationKind' = [terminationKind EXCEPT ![d] = @]
      BY <1>6 DEF ApplyHandoff
    <3>4. ~reclaimed =>
            /\ settles => terminationOutcome' = [terminationOutcome EXCEPT ![d] = o]
            /\ ~settles => terminationOutcome' = [terminationOutcome EXCEPT ![d] = @]
      BY <1>6 DEF ApplyHandoff
    <3>5. QED
      BY <1>1, <3>1, <3>2, <3>3, <3>4 DEF TypeOK
  <2>8. QueueAgrees' /\ RowsAgree'
    BY <1>1, <1>2, QueueShrinks, RecordKeepsRows
  <2>9. TablesAgree'
    <3>1. \A x \in Id \ Known : x # d /\ claims'[x] = <<>>
      BY <1>1, <1>3 DEF TablesAgree
    <3>2. /\ inFlight' \subseteq routable' /\ fenced' \subseteq routable'
          /\ routable' \subseteq Known
      BY <1>2, <2>6, <2>7 DEF TablesAgree
    <3>3. handoffSeen' \subseteq routable'
      BY <1>6, <2>1, <2>6, <2>7 DEF TablesAgree, ApplyHandoff
    <3>4. QED
      BY <1>2, <3>1, <3>2, <3>3 DEF TablesAgree
  <2>10. FlightIsFresh'
    BY <1>2, <1>3 DEF FlightIsFresh, TypeOK
  <2>11. EndedAgrees'
    <3>1. ASSUME NEW x \in routable' \ inFlight', x # d
          PROVE  EndedOf(x)'
      BY <1>3, <3>1 DEF EndedAgrees, EndedOf, TypeOK
    <3>2. ASSUME d \in routable'
          PROVE  EndedOf(d)'
      <4>1. ~reclaimed
        BY <2>6, <3>2
      <4>2. CASE d \in inFlight
        <5>1. DOMAIN claims'[d] = {1} /\ claims'[d][1] = o
          BY <2>3, <4>2 DEF FlightIsFresh
        <5>2. QED
          <6>1. /\ terminationKind'[d] = "handoff" /\ terminationOutcome'[d] = o
                /\ d \in handoffSeen'
            BY <2>7, <4>1, <4>2
          <6>2. o \in Definitive => Settled(d)'
            BY <2>4
          <6>3. o \in Outcome /\ Definitive' = Definitive
            BY <1>1 DEF Definitive
          <6>4. QED
            BY <5>1, <6>1, <6>2, <6>3 DEF EndedOf
      <4>3. CASE d \notin inFlight
        <5>1. EndedOf(d)
          BY <2>1, <4>3 DEF EndedAgrees, EndedOf
        <5>2. CASE o \in Definitive
          BY <1>1, <2>4, <2>7, <4>1, <4>3, <5>1, <5>2 DEF EndedOf, Definitive
        <5>3. CASE o = "unknown"
          <6>1. \A i \in DOMAIN claims[d] : claims[d][i] \in {"deadline", "unknown"}
            BY <1>6, <4>3, <5>1, <5>3 DEF Claims, EndedOf, Definitive
          <6>2. QED
            BY <2>3, <2>4, <2>7, <4>1, <4>3, <5>1, <5>3, <6>1 DEF EndedOf, Definitive
        <5>4. QED
          BY <1>1, <5>2, <5>3 DEF Definitive
      <4>4. QED
        BY <4>2, <4>3
    <3>3. QED
      BY <3>1, <3>2 DEF EndedAgrees, EndedOf
  <2>12. GoneWasSettled'
    <3>1. fenced' \subseteq warned'
      BY <1>2, <2>6, <2>7 DEF GoneWasSettled
    <3>2. ASSUME NEW x \in Known \ routable', x # d
          PROVE  Settled(x)' \/ x \in warned'
      <4>1. x \in Id
        BY KnownIds
      <4>2. QED
        BY <1>2, <1>3, <3>2, <4>1 DEF GoneWasSettled
    <3>3. ASSUME d \notin routable'
          PROVE  Settled(d)' \/ d \in warned'
      <4>1. reclaimed
        BY <2>1, <2>7, <3>3
      <4>2. QED
        BY <1>2, <2>4, <4>1 DEF GoneWasSettled
    <3>4. QED
      BY <1>2, <3>1, <3>2, <3>3 DEF GoneWasSettled
  <2>13. NoDuplicateWork'
    BY <1>2 DEF NoDuplicateWork
  <2>14. VerifiedBeforeRetry'
    <3>1. ASSUME NEW x \in Known, Settled(x)
          PROVE  Settled(x)'
      <4>1. x \in Id
        BY KnownIds
      <4>2. QED
        BY <1>3, <2>4, <3>1, <4>1
    <3>2. QED
      BY <1>2, <3>1 DEF VerifiedBeforeRetry
  <2>15. ClaimsGetMoreCertain'
    <3>1. ASSUME NEW x \in Id, x # d, NEW i \in DOMAIN claims'[x], NEW j \in DOMAIN claims'[x], i < j
          PROVE  Certainty(claims'[x][i]) < Certainty(claims'[x][j])
      BY <1>3, <3>1 DEF ClaimsGetMoreCertain
    <3>2. ASSUME NEW i \in DOMAIN claims'[d], NEW j \in DOMAIN claims'[d], i < j
          PROVE  Certainty(claims'[d][i]) < Certainty(claims'[d][j])
      <4>1. CASE j \in DOMAIN claims[d]
        BY <1>1, <2>3, <3>2, <4>1 DEF ClaimsGetMoreCertain
      <4>2. CASE j = Len(claims[d]) + 1
        BY <2>3, <2>5, <3>2, <4>2
      <4>3. QED
        BY <2>3, <4>1, <4>2
    <3>3. QED
      BY <3>1, <3>2 DEF ClaimsGetMoreCertain, Certainty
  <2>16. RoutingIsTight'
    <3>1. ASSUME NEW x \in Id \ routable'
          PROVE  /\ x \notin inFlight' \cup fenced' \cup handoffSeen'
                 /\ terminationKind'[x] = "none" /\ terminationOutcome'[x] = "none"
      BY <1>2, <1>3, <2>1, <2>6, <2>7 DEF RoutingIsTight
    <3>2. ASSUME ~retain, NEW x \in routable' \ inFlight'
          PROVE  terminationOutcome'[x] = "unknown" /\ ~(x \in fenced' /\ x \in handoffSeen')
      <4>1. CASE x # d
        BY <1>2, <1>3, <3>2, <4>1 DEF RoutingIsTight, TypeOK
      <4>2. CASE x = d
        <5>1. ~reclaimed /\ o = "unknown" /\ d \notin fenced
          BY <1>1, <1>6, <2>6, <3>2, <4>2 DEF Definitive
        <5>2. CASE d \in inFlight
          BY <2>7, <4>2, <5>1, <5>2
        <5>3. CASE d \notin inFlight
          <6>1. terminationOutcome[d] = "unknown" /\ ~settles
            BY <2>1, <3>2, <5>1, <5>3 DEF RoutingIsTight, Definitive
          <6>2. QED
            BY <2>7, <4>2, <5>1, <6>1
        <5>4. QED
          BY <5>2, <5>3
      <4>3. QED
        BY <4>1, <4>2
    <3>3. QED
      BY <1>2, <3>1, <3>2 DEF RoutingIsTight
  <2>17. QED
    BY <2>8, <2>9, <2>10, <2>11, <2>12, <2>13, <2>14, <2>15, <2>16
<1>7. QED
  BY <1>5, <1>6

\* Applying a deadline ends a delegate in flight and announces it once; it
\* does nothing to a delegate that has already ended.
LEMMA DeadlineStep ==
  ASSUME IInv, TypeOK', NEW e \in queue, ApplyDeadline(e)
  PROVE  QueueAgrees' /\ RowsAgree' /\ RoutingInv'
<1> DEFINE d == e.delegate
<1> USE DEF IInv, RoutingInv, Known
<1>1. e.kind = "deadline" /\ d \in Id /\ d \in Known
  BY DEF ApplyDeadline, TypeOK, Event, QueueAgrees
<1>2. /\ UNCHANGED <<epoch, retain, dispatches, warned, routable, fenced, handoffSeen>>
      /\ queue' \subseteq queue
  BY DEF ApplyDeadline, Pop
<1>3. CASE d \notin inFlight
  <2>1. UNCHANGED <<inFlight, terminationKind, terminationOutcome, claims, rows>>
    BY <1>3 DEF ApplyDeadline
  <2>2. RoutingInv'
    BY <1>2, <2>1, RoutingUnmoved DEF routing
  <2>3. QED
    BY <1>2, <2>1, <2>2, QueueShrinks, RowsUnmoved
<1>4. CASE d \in inFlight
  <2>1. /\ Record(e, "deadline_exceeded") /\ inFlight' = inFlight \ {d}
        /\ terminationKind' = [terminationKind EXCEPT ![d] = "deadline"]
        /\ terminationOutcome' = [terminationOutcome EXCEPT ![d] = "unknown"]
        /\ claims' = [claims EXCEPT ![d] = Append(@, "deadline")]
    BY <1>4 DEF ApplyDeadline
  <2>2. ASSUME NEW x \in Id, x # d
        PROVE  /\ terminationKind'[x] = terminationKind[x]
               /\ terminationOutcome'[x] = terminationOutcome[x]
               /\ claims'[x] = claims[x] /\ Settled(x)' = Settled(x)
    BY <2>1, <2>2 DEF TypeOK, Settled, Announced
  <2>3. /\ d \in routable /\ d \notin fenced /\ d \notin handoffSeen /\ claims[d] = <<>>
        /\ terminationKind'[d] = "deadline" /\ terminationOutcome'[d] = "unknown"
        /\ DOMAIN claims'[d] = {1} /\ claims'[d][1] = "deadline"
    <3>1. d \in routable /\ d \notin fenced /\ d \notin handoffSeen /\ claims[d] = <<>>
      BY <1>4 DEF TablesAgree, FlightIsFresh
    <3>2. terminationKind'[d] = "deadline" /\ terminationOutcome'[d] = "unknown"
      BY <1>1, <2>1 DEF TypeOK
    <3>3. claims'[d] = Append(claims[d], "deadline")
      BY <1>1, <2>1 DEF TypeOK
    <3>4. QED
      BY <3>1, <3>2, <3>3
  <2>4. ~Settled(d)
    BY <2>3, SettledMeans
  <2>5. QueueAgrees' /\ RowsAgree'
    BY <1>1, <1>2, <2>1, QueueShrinks, RecordKeepsRows
  <2>6. TablesAgree'
    <3>1. \A x \in Id \ Known : claims'[x] = <<>>
      BY <1>1, <2>2 DEF TablesAgree
    <3>2. QED
      BY <1>2, <2>1, <3>1 DEF TablesAgree
  <2>7. FlightIsFresh'
    BY <1>2, <2>1, <2>2 DEF FlightIsFresh, TypeOK
  <2>8. EndedAgrees'
    <3>1. ASSUME NEW x \in routable \ inFlight'
          PROVE  EndedOf(x)'
      <4>1. CASE x = d
        BY <2>3, <4>1, DelegatesAssumption DEF EndedOf, Definitive
      <4>2. CASE x # d
        BY <1>2, <2>1, <2>2, <3>1, <4>2 DEF EndedAgrees, EndedOf, TypeOK
      <4>3. QED
        BY <4>1, <4>2
    <3>2. QED
      BY <1>2, <3>1 DEF EndedAgrees
  <2>9. GoneWasSettled' /\ VerifiedBeforeRetry'
    <3>1. ASSUME NEW x \in Known
          PROVE  Settled(x) => Settled(x)'
      <4>1. x \in Id
        BY KnownIds
      <4>2. QED
        BY <2>2, <2>4, <4>1
    <3>2. QED
      BY <1>2, <3>1 DEF GoneWasSettled, VerifiedBeforeRetry
  <2>10. NoDuplicateWork'
    BY <1>2, <2>1 DEF NoDuplicateWork
  <2>11. ClaimsGetMoreCertain'
    BY <2>2, <2>3 DEF ClaimsGetMoreCertain
  <2>12. RoutingIsTight'
    <3>1. ASSUME NEW x \in Id \ routable
          PROVE  /\ x \notin inFlight' \cup fenced \cup handoffSeen
                 /\ terminationKind'[x] = "none" /\ terminationOutcome'[x] = "none"
      BY <2>1, <2>2, <2>3 DEF RoutingIsTight
    <3>2. ASSUME ~retain, NEW x \in routable \ inFlight'
          PROVE  terminationOutcome'[x] = "unknown" /\ ~(x \in fenced /\ x \in handoffSeen)
      BY <2>1, <2>2, <2>3, <3>2 DEF RoutingIsTight, TypeOK
    <3>3. QED
      BY <1>2, <3>1, <3>2 DEF RoutingIsTight
  <2>13. QED
    BY <2>5, <2>6, <2>7, <2>8, <2>9, <2>10, <2>11, <2>12
<1>5. QED
  BY <1>3, <1>4

\* Every step keeps the invariant, part by part.
LEMMA NextInv == IInv /\ [Next]_vars => IInv'
<1> SUFFICES ASSUME IInv, [Next]_vars PROVE IInv'
  OBVIOUS
<1>1. TypeOK'
  BY TypeStep DEF IInv
<1>2. QueueAgrees' /\ RowsAgree' /\ RoutingInv'
  BY <1>1, NextCases, QuietSteps, DispatchStep, RefuseStep, HandoffStep, DeadlineStep
<1>3. QED
  BY <1>1, <1>2 DEF IInv

\* The tables of the reducer always agree with one another, with the queue,
\* with memory and with what has been announced.
THEOREM InvariantHolds == Spec => []IInv
BY InitInv, NextInv, PTL DEF Spec

\* Two equal requests are never in flight together, for any set of requests,
\* any number of delegates and conversations.
THEOREM NoDuplicateWorkHolds == Spec => []NoDuplicateWork
<1>1. IInv => NoDuplicateWork
  BY DEF IInv, RoutingInv
<1>2. QED
  BY <1>1, InvariantHolds, PTL

\* Announcements about one run only get more certain, for any set of outcomes
\* and any order in which deadlines and repeated handoffs are applied.
THEOREM ClaimsGetMoreCertainHolds == Spec => []ClaimsGetMoreCertain
<1>1. IInv => ClaimsGetMoreCertain
  BY DEF IInv, RoutingInv
<1>2. QED
  BY <1>1, InvariantHolds, PTL

\* A mutating request runs again only after its earlier runs were settled or
\* were named in a warning.
THEOREM VerifiedBeforeRetryHolds == Spec => []VerifiedBeforeRetry
<1>1. IInv => VerifiedBeforeRetry
  BY DEF IInv, RoutingInv
<1>2. QED
  BY <1>1, InvariantHolds, PTL

\* The routing tables keep exactly what can still matter.
THEOREM RoutingIsTightHolds == Spec => []RoutingIsTight
<1>1. IInv => RoutingIsTight
  BY DEF IInv, RoutingInv
<1>2. QED
  BY <1>1, InvariantHolds, PTL

\* No row about a delegate of a cleared conversation is in memory.
THEOREM RowsAreCurrentHolds == Spec => []RowsAreCurrent
<1>1. IInv => RowsAreCurrent
  BY DEF IInv, RowsAgree, RowsAreCurrent
<1>2. QED
  BY <1>1, InvariantHolds, PTL

-----------------------------------------------------------------------------
(* What a step announces. *)

\* A handoff announces nothing, or its own outcome and about its own delegate.
LEMMA HandoffAnnounces ==
  ASSUME IInv, NEW e \in queue, ApplyHandoff(e)
  PROVE  /\ e.delegate \in Id /\ e.delegate \in Known /\ e.outcome \in Outcome
         /\ \A x \in Id : x # e.delegate => claims'[x] = claims[x]
         /\ \/ claims'[e.delegate] = claims[e.delegate] /\ e.delegate \notin inFlight
            \/ claims'[e.delegate] = Append(claims[e.delegate], e.outcome)
         /\ inFlight' = inFlight \ {e.delegate}
         /\ UNCHANGED <<dispatches, warned>>
<1> USE DEF IInv, RoutingInv
<1>1. e.kind = "handoff" /\ e.delegate \in Id /\ e.outcome \in Outcome /\ e.delegate \in Known
  BY DEF ApplyHandoff, TypeOK, Event, QueueAgrees
<1>2. inFlight' = inFlight \ {e.delegate} /\ UNCHANGED <<dispatches, warned>>
  BY DEF ApplyHandoff, Pop
<1>3. CASE Claims(e.delegate, e.outcome)
  <2>1. claims' = [claims EXCEPT ![e.delegate] = Append(@, e.outcome)]
    BY <1>3 DEF ApplyHandoff
  <2>2. QED
    BY <1>1, <1>2, <2>1 DEF TypeOK
<1>4. CASE ~Claims(e.delegate, e.outcome)
  <2>1. claims' = claims
    BY <1>4 DEF ApplyHandoff
  <2>2. e.delegate \notin inFlight
    BY <1>4 DEF Claims, TablesAgree
  <2>3. QED
    BY <1>1, <1>2, <2>1, <2>2
<1>5. QED
  BY <1>3, <1>4

\* A deadline announces itself exactly when its delegate is in flight.
LEMMA DeadlineAnnounces ==
  ASSUME IInv, NEW e \in queue, ApplyDeadline(e)
  PROVE  /\ e.delegate \in Id /\ e.delegate \in Known
         /\ e.ts = dispatches[e.delegate].deadline
         /\ \A x \in Id : x # e.delegate => claims'[x] = claims[x]
         /\ e.delegate \notin inFlight => claims' = claims /\ inFlight' = inFlight
         /\ e.delegate \in inFlight => /\ claims'[e.delegate] = <<"deadline">>
                                       /\ claims[e.delegate] = <<>>
                                       /\ inFlight' = inFlight \ {e.delegate}
         /\ UNCHANGED <<dispatches, warned>>
<1> USE DEF IInv, RoutingInv
<1>1. e.kind = "deadline" /\ e.delegate \in Id
  BY DEF ApplyDeadline, TypeOK, Event
<1>2. e.delegate \in Known /\ e.ts = dispatches[e.delegate].deadline
  BY <1>1 DEF QueueAgrees
<1>3. UNCHANGED <<dispatches, warned>>
  BY DEF ApplyDeadline, Pop
<1>4. CASE e.delegate \notin inFlight
  BY <1>1, <1>2, <1>3, <1>4 DEF ApplyDeadline
<1>5. CASE e.delegate \in inFlight
  <2>1. /\ claims' = [claims EXCEPT ![e.delegate] = Append(@, "deadline")]
        /\ inFlight' = inFlight \ {e.delegate}
    BY <1>5 DEF ApplyDeadline
  <2>2. claims[e.delegate] = <<>>
    BY <1>5 DEF FlightIsFresh
  <2>3. claims'[e.delegate] = Append(claims[e.delegate], "deadline")
    BY <1>1, <2>1 DEF TypeOK
  <2>4. claims'[e.delegate] = <<"deadline">>
    BY <2>2, <2>3
  <2>5. \A x \in Id : x # e.delegate => claims'[x] = claims[x]
    BY <2>1 DEF TypeOK
  <2>6. QED
    BY <1>1, <1>2, <1>3, <1>5, <2>1, <2>2, <2>4, <2>5
<1>6. QED
  BY <1>4, <1>5

\* Every other step announces nothing.
LEMMA OthersAnnounceNothing ==
  ASSUME [Next]_vars
  PROVE  \/ claims' = claims
         \/ \E e \in queue : ApplyHandoff(e) \/ ApplyDeadline(e)
BY NextCases DEF Tick, PostUserInput, ClearConversation, vars, Dispatch, RefuseUnresolved,
                 PostHandoff, ApplyUserInput

\* A deadline is never announced while a result of its delegate posted no later
\* than the deadline is still queued.
THEOREM TimelyHandoffWinsHolds == Spec => TimelyHandoffWins
<1>1. ASSUME IInv, [Next]_vars, NEW d \in Id, Len(claims'[d]) > Len(claims[d]),
             claims'[d][Len(claims'[d])] = "deadline",
             NEW f \in queue, f.kind = "handoff", f.delegate = d
      PROVE  f.ts > dispatches[d].deadline
  <2>1. PICK e \in queue : ApplyHandoff(e) \/ ApplyDeadline(e)
    BY <1>1, OthersAnnounceNothing DEF IInv, TypeOK
  <2>2. CASE ApplyHandoff(e)
    <3>1. d = e.delegate /\ claims'[d] = Append(claims[d], e.outcome) /\ e.outcome \in Outcome
      BY <1>1, <2>2, HandoffAnnounces DEF IInv, TypeOK
    <3>2. claims[d] \in Seq(Claim) /\ e.outcome \in Claim
      BY <3>1, <1>1 DEF IInv, TypeOK, Claim
    <3>3. Len(claims'[d]) = Len(claims[d]) + 1
      BY <3>1, <3>2
    <3>4. claims'[d][Len(claims'[d])] = e.outcome
      BY <3>1, <3>2, <3>3, AppendClaim
    <3>5. QED
      BY <1>1, <3>1, <3>4, DelegatesAssumption
  <2>3. CASE ApplyDeadline(e)
    <3>1. d = e.delegate /\ e.ts = dispatches[d].deadline
      BY <1>1, <2>3, DeadlineAnnounces DEF IInv, TypeOK
    <3>2. e.kind = "deadline" /\ Ready(e)
      BY <2>3 DEF ApplyDeadline, Pop
    <3>3. f # e /\ Before(e, f)
      BY <1>1, <3>2 DEF Ready
    <3>4. e.ts \in Nat /\ f.ts \in Nat
      BY <1>1 DEF IInv, TypeOK, Event
    <3>5. e.ts < f.ts
      BY <1>1, <3>2, <3>3 DEF Before, Rank
    <3>6. QED
      BY <3>1, <3>4, <3>5
  <2>4. QED
    BY <2>1, <2>2, <2>3
<1>2. IInv /\ [Next]_vars =>
        [\A d \in Id :
           /\ Len(claims'[d]) > Len(claims[d])
           /\ claims'[d][Len(claims'[d])] = "deadline"
           => \A e \in queue : e.kind = "handoff" /\ e.delegate = d
                => e.ts > dispatches[d].deadline]_vars
  BY <1>1
<1>3. QED
  BY <1>2, InvariantHolds, PTL DEF Spec, TimelyHandoffWins

=============================================================================
