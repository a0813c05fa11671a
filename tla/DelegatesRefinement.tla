------------------------- MODULE DelegatesRefinement -------------------------
(***************************************************************************)
(* The delegate tables implement WorkContract: every step of Delegates is,  *)
(* under the mapping AskedOf and StatusOf, a step of the contract or none.  *)
(***************************************************************************)
EXTENDS DelegatesProofs

\* The mapped state, delegate by delegate.
LEMMA Mapped ==
  /\ AskedOf = [d \in Id |-> AskedOf[d]] /\ AskedOf' = [d \in Id |-> AskedOf'[d]]
  /\ StatusOf = [d \in Id |-> StatusOf[d]] /\ StatusOf' = [d \in Id |-> StatusOf'[d]]
BY DEF AskedOf, StatusOf

\* The status of a delegate, read off the tables of the reducer.
LEMMA StatusCases ==
  ASSUME NEW d \in Id
  PROVE  /\ d \notin Known => StatusOf[d] = "none"
         /\ d \in Known => /\ AskedOf[d] = dispatches[d].request
                           /\ Settled(d) => StatusOf[d] = "settled"
                           /\ ~Settled(d) /\ d \in inFlight => StatusOf[d] = "running"
                           /\ ~Settled(d) /\ d \notin inFlight => StatusOf[d] = "lost"
         /\ d \notin Known' => StatusOf'[d] = "none"
         /\ d \in Known' => /\ AskedOf'[d] = dispatches'[d].request
                            /\ Settled(d)' => StatusOf'[d] = "settled"
                            /\ ~Settled(d)' /\ d \in inFlight' => StatusOf'[d] = "running"
                            /\ ~Settled(d)' /\ d \notin inFlight' => StatusOf'[d] = "lost"
BY DEF StatusOf, AskedOf, Known

\* A step that adds no delegate changes the status of those only whose
\* announcements or presence in flight it changes.
LEMMA OneStatus ==
  ASSUME UNCHANGED dispatches, NEW d \in Id,
         \A x \in Id : x # d =>
           claims'[x] = claims[x] /\ (x \in inFlight' <=> x \in inFlight)
  PROVE  /\ AskedOf' = AskedOf
         /\ StatusOf' = [StatusOf EXCEPT ![d] = StatusOf'[d]]
<1>1. AskedOf' = AskedOf
  BY DEF AskedOf
<1>2. ASSUME NEW x \in Id, x # d
      PROVE  StatusOf'[x] = StatusOf[x]
  BY <1>2 DEF StatusOf, Settled, Announced
<1>3. QED
  BY <1>1, <1>2, Mapped

\* The contract's initial states: nothing asked, nothing running.
LEMMA ContractInit == Init => Contract!Init
<1> SUFFICES ASSUME Init PROVE Contract!Init
  OBVIOUS
<1>1. dispatches = <<>> /\ Known = {}
  BY DEF Init, Known
<1>2. AskedOf \in [Id -> Request]
  BY <1>1, DelegatesAssumption DEF AskedOf, Known
<1>3. StatusOf = [w \in Id |-> "none"]
  BY <1>1 DEF StatusOf, Known
<1>4. QED
  BY <1>2, <1>3 DEF Contract!Init, Init

\* Steps that change neither delegates nor announcements are stutters.
LEMMA Stutters ==
  ASSUME UNCHANGED <<dispatches, inFlight, claims, warned>>
  PROVE  UNCHANGED Contract!contractVars
BY DEF Contract!contractVars, AskedOf, StatusOf, Settled, Announced

\* Dispatching starts a piece of work that the contract lets start.
LEMMA DispatchStarts ==
  ASSUME IInv, IInv', NEW r \in Request, Dispatch(r)
  PROVE  Contract!Start(Len(dispatches) + 1)
<1> DEFINE id == Len(dispatches) + 1
<1>1. /\ Known = 1 .. Len(dispatches) /\ Len(dispatches) \in Nat /\ id \in Id /\ id \notin Known
      /\ Known \subseteq Id
  BY DelegatesAssumption DEF IInv, TypeOK, Dispatch, Id, Known
<1>2. /\ dispatches' = Append(dispatches, [request |-> r, epoch |-> epoch,
                                           deadline |-> lastApplied + Budget])
      /\ inFlight' = inFlight \cup {id} /\ ~InFlightTwin(r)
      /\ r \in ReadOnly \/ Unresolved(r) = {}
      /\ UNCHANGED <<claims, warned>>
  BY DEF Dispatch
<1>3. /\ Known' = Known \cup {id} /\ dispatches'[id].request = r
      /\ \A d \in Known : dispatches'[d] = dispatches[d]
  BY <1>1, <1>2 DEF IInv, TypeOK, Known
<1>4. \A d : Settled(d)' <=> Settled(d)
  BY <1>2 DEF Settled, Announced
<1>5. ~Settled(id)
  BY <1>1, SettledMeans DEF IInv, RoutingInv, TablesAgree
<1>6. AskedOf' = [AskedOf EXCEPT ![id] = r]
  <2>1. \A x \in Id : x # id => AskedOf'[x] = AskedOf[x]
    BY <1>3 DEF AskedOf, Known
  <2>2. AskedOf'[id] = r
    BY <1>1, <1>3, StatusCases
  <2>3. QED
    BY <1>1, <2>1, <2>2, Mapped
<1>7. StatusOf' = [StatusOf EXCEPT ![id] = "running"]
  <2>1. ASSUME NEW x \in Id, x # id
        PROVE  StatusOf'[x] = StatusOf[x]
    BY <1>2, <1>3, <1>4, <2>1 DEF StatusOf, Known
  <2>2. StatusOf'[id] = "running"
    BY <1>1, <1>2, <1>3, <1>4, <1>5, StatusCases
  <2>3. QED
    BY <1>1, <2>1, <2>2, Mapped
<1>8. Contract!MayStart(r)
  <2>1. SUFFICES ASSUME NEW w \in Id, AskedOf[w] = r, StatusOf[w] # "none"
                 PROVE  /\ StatusOf[w] # "running"
                        /\ r \in ReadOnly \/ StatusOf[w] = "settled" \/ w \in warned
    BY DEF Contract!MayStart
  <2>2. w \in Known /\ dispatches[w].request = r
    BY <2>1, StatusCases
  <2>3. w \notin inFlight
    BY <1>2, <2>2 DEF InFlightTwin
  <2>4. StatusOf[w] # "running"
    BY <2>2, <2>3, StatusCases
  <2>5. ASSUME r \notin ReadOnly
        PROVE  StatusOf[w] = "settled" \/ w \in warned
    <3>1. CASE Settled(w)
      BY <2>2, <3>1, StatusCases
    <3>2. CASE ~Settled(w)
      <4>1. CASE w \notin routable \/ w \in fenced
        BY <2>2, <3>2, <4>1 DEF IInv, RoutingInv, GoneWasSettled
      <4>2. CASE w \in routable \ fenced
        BY <1>2, <2>2, <2>3, <2>5, <3>2, <4>2
           DEF IInv, RoutingInv, EndedAgrees, EndedOf, Unresolved, Definitive
      <4>3. QED
        BY <4>1, <4>2
    <3>3. QED
      BY <3>1, <3>2
  <2>6. QED
    BY <2>4, <2>5
<1>9. StatusOf[id] = "none"
  BY <1>1, StatusCases
<1>10. QED
  BY <1>2, <1>6, <1>7, <1>8, <1>9 DEF Contract!Start

\* A refusal warns about a run that is lost, or settled late.
LEMMA RefuseWarns ==
  ASSUME IInv, NEW r \in Request, NEW d \in routable, RefuseUnresolved(r, d)
  PROVE  d \in Id /\ Contract!Warn(d)
<1>1. /\ UNCHANGED <<dispatches, inFlight, claims>> /\ warned' = warned \cup {d}
  BY DEF RefuseUnresolved
<1>2. d \in Id /\ d \in Known /\ d \notin inFlight
  BY DEF RefuseUnresolved, Unresolved, IInv, RoutingInv, FlightIsFresh, TablesAgree, TypeOK
<1>3. StatusOf[d] \in {"lost", "settled"}
  BY <1>2, StatusCases
<1>4. AskedOf' = AskedOf /\ StatusOf' = StatusOf
  BY <1>1 DEF AskedOf, StatusOf, Settled, Announced
<1>5. QED
  BY <1>1, <1>2, <1>3, <1>4 DEF Contract!Warn

\* A handoff settles its run, loses sight of it, or changes nothing.
LEMMA HandoffMaps ==
  ASSUME IInv, IInv', NEW e \in queue, ApplyHandoff(e)
  PROVE  \/ UNCHANGED Contract!contractVars
         \/ e.delegate \in Id /\ (Contract!Settle(e.delegate) \/ Contract!Lose(e.delegate))
<1> DEFINE d == e.delegate
           o == e.outcome
<1>1. /\ d \in Id /\ d \in Known /\ o \in Outcome /\ inFlight' = inFlight \ {d}
      /\ UNCHANGED <<dispatches, warned>> /\ \A x \in Id : x # d => claims'[x] = claims[x]
  BY HandoffAnnounces
<1>2. /\ AskedOf' = AskedOf
      /\ StatusOf' = [StatusOf EXCEPT ![d] = StatusOf'[d]]
  BY <1>1, OneStatus
<1>3. d \in Known' /\ d \notin inFlight'
  BY <1>1 DEF Known
<1>4. CASE claims'[d] = claims[d] /\ d \notin inFlight
  <2>1. StatusOf'[d] = StatusOf[d]
    BY <1>1, <1>3, <1>4 DEF StatusOf, Settled, Announced, Known
  <2>2. QED
    BY <1>1, <1>2, <2>1, Mapped DEF Contract!contractVars
<1>5. CASE claims'[d] = Append(claims[d], o)
  <2>1. /\ DOMAIN claims[d] = 1 .. Len(claims[d]) /\ Len(claims[d]) \in Nat
        /\ DOMAIN claims'[d] = 1 .. Len(claims[d]) + 1
        /\ \A i \in DOMAIN claims[d] : claims'[d][i] = claims[d][i]
        /\ claims'[d][Len(claims[d]) + 1] = o
    BY <1>1, <1>5, AppendClaim DEF IInv, TypeOK, Claim
  \* Nothing is announced of a settled run.
  <2>2. ~Settled(d)
    <3>1. \A i \in DOMAIN claims[d] : Certainty(claims'[d][i]) < Certainty(o)
      BY <1>1, <2>1 DEF IInv, RoutingInv, ClaimsGetMoreCertain
    <3>2. \A i \in DOMAIN claims[d] : Certainty(claims[d][i]) < 2
      BY <1>1, <2>1, <3>1 DEF Certainty
    <3>3. \A c \in Definitive : Certainty(c) = 2
      BY DelegatesAssumption DEF Certainty, Definitive
    <3>4. QED
      BY <3>2, <3>3, SettledMeans
  <2>3. StatusOf[d] = IF d \in inFlight THEN "running" ELSE "lost"
    BY <1>1, <2>2, StatusCases
  <2>4. CASE o \in Definitive
    <3>1. Settled(d)'
      BY <2>1, <2>4, SettledMeans
    <3>2. StatusOf'[d] = "settled"
      BY <1>1, <1>3, <3>1, StatusCases
    <3>3. QED
      BY <1>1, <1>2, <2>3, <3>2 DEF Contract!Settle
  <2>5. CASE o = "unknown"
    <3>1. ~Settled(d)'
      BY <2>1, <2>2, <2>5, SettledMeans DEF Definitive
    <3>2. StatusOf'[d] = "lost"
      BY <1>1, <1>3, <3>1, StatusCases
    <3>3. CASE d \in inFlight
      BY <1>1, <1>2, <2>3, <3>2, <3>3 DEF Contract!Lose
    <3>4. CASE d \notin inFlight
      BY <1>1, <1>2, <2>3, <3>2, <3>4, Mapped DEF Contract!contractVars
    <3>5. QED
      BY <3>3, <3>4
  <2>6. QED
    BY <1>1, <2>4, <2>5 DEF Definitive
<1>6. QED
  BY <1>4, <1>5, HandoffAnnounces

\* A deadline loses sight of a run in flight, or changes nothing.
LEMMA DeadlineMaps ==
  ASSUME IInv, IInv', NEW e \in queue, ApplyDeadline(e)
  PROVE  \/ UNCHANGED Contract!contractVars
         \/ e.delegate \in Id /\ Contract!Lose(e.delegate)
<1> DEFINE d == e.delegate
<1>1. /\ d \in Id /\ d \in Known /\ UNCHANGED <<dispatches, warned>>
      /\ \A x \in Id : x # d => claims'[x] = claims[x]
  BY DeadlineAnnounces
<1>2. CASE d \notin inFlight
  BY <1>1, <1>2, DeadlineAnnounces, Stutters
<1>3. CASE d \in inFlight
  <2>1. claims'[d] = <<"deadline">> /\ claims[d] = <<>> /\ inFlight' = inFlight \ {d}
    BY <1>3, DeadlineAnnounces
  <2>2. ~Settled(d) /\ ~Settled(d)'
    BY <2>1, SettledMeans, DelegatesAssumption DEF Definitive
  <2>3. StatusOf[d] = "running" /\ StatusOf'[d] = "lost"
    BY <1>1, <1>3, <2>1, <2>2, StatusCases DEF Known
  <2>4. AskedOf' = AskedOf /\ StatusOf' = [StatusOf EXCEPT ![d] = "lost"]
    BY <1>1, <2>1, <2>3, OneStatus
  <2>5. QED
    BY <1>1, <2>3, <2>4 DEF Contract!Lose
<1>4. QED
  BY <1>2, <1>3

\* Every step of the reducer is a step of the contract or a stutter.
LEMMA ContractStep ==
  ASSUME IInv, IInv', [Next]_vars
  PROVE  [Contract!Next]_(Contract!contractVars)
<1>1. CASE Tick \/ PostUserInput \/ ClearConversation \/ UNCHANGED vars
  BY <1>1, Stutters DEF Tick, PostUserInput, ClearConversation, vars, routing
<1>2. CASE \E d \in Id, outcome \in Outcome : PostHandoff(d, outcome)
  BY <1>2, Stutters DEF PostHandoff, routing
<1>3. CASE \E e \in queue : ApplyUserInput(e)
  BY <1>3, Stutters DEF ApplyUserInput, Pop, routing
<1>4. ASSUME NEW r \in Request, Dispatch(r)
      PROVE  Contract!Next
  <2>1. Len(dispatches) + 1 \in Id
    BY <1>4, DelegatesAssumption DEF IInv, TypeOK, Dispatch, Id
  <2>2. QED
    BY <1>4, <2>1, DispatchStarts DEF Contract!Next
<1>5. ASSUME NEW r \in Request, NEW d \in routable, RefuseUnresolved(r, d)
      PROVE  Contract!Next
  BY <1>5, RefuseWarns DEF Contract!Next
<1>6. ASSUME NEW e \in queue, ApplyHandoff(e)
      PROVE  [Contract!Next]_(Contract!contractVars)
  BY <1>6, HandoffMaps DEF Contract!Next
<1>7. ASSUME NEW e \in queue, ApplyDeadline(e)
      PROVE  [Contract!Next]_(Contract!contractVars)
  BY <1>7, DeadlineMaps DEF Contract!Next
<1>8. QED
  BY <1>1, <1>2, <1>3, <1>4, <1>5, <1>6, <1>7, NextCases

\* Whatever is dispatched, queued, applied, fenced or cleared, the delegate
\* tables implement the contract for work, for every value of the constants.
THEOREM ImplementsContractHolds == Spec => ImplementsContract
<1>1. Init => Contract!Init
  BY ContractInit
<1>2. IInv /\ IInv' /\ [Next]_vars => [Contract!Next]_(Contract!contractVars)
  BY ContractStep
<1>3. QED
  BY <1>1, <1>2, InvariantHolds, PTL DEF Spec, ImplementsContract, Contract!Spec
=============================================================================
