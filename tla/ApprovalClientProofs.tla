------------------------ MODULE ApprovalClientProofs ------------------------
(***************************************************************************)
(* What the client does to the queue of permissions is what HostApproval   *)
(* allows its environment (ClientImplements), so that what was proved of   *)
(* HostApproval holds with the client: the invariant IInv is used here as  *)
(* an invariant of ClientSpec.                                             *)
(*                                                                         *)
(* The rest is about the cards the client says it has acknowledged.  The   *)
(* host must never wait to see one that the client takes for seen, unless  *)
(* the acknowledgement is under way or was forgotten with a connection     *)
(* (NoCardLost).  CardsAgree makes this inductive: an acknowledgement under *)
(* way is for the head or for nobody, because the line only moves up; while *)
(* one is under way the host takes the person to be present, so that it    *)
(* counts; and a client that asks to hide has forgotten what it has seen,  *)
(* so that the cards the host then parks are acknowledged again.           *)
(***************************************************************************)
EXTENDS ApprovalClient, HostApprovalProofs

\* A connection that is lost (onConnectionReleased) is a person who goes away,
\* unless they already were.
LEMMA DisconnectStep == Disconnect => [Next]_vars
BY DEF Disconnect, Next

\* A handled presentation.set moves the person once, or changes nothing.
LEMMA PresentedStep == Presented => [Next]_vars
<1> SUFFICES ASSUME Presented PROVE [Next]_vars
  OBVIOUS
<1>1. CASE client.asks = "background" /\ presented
  <2> GoAway BY <1>1 DEF Presented
  <2> QED BY DEF Next
<1>2. CASE client.asks = "shown" /\ ~presented
  <2> ComeBack BY <1>2 DEF Presented
  <2> QED BY DEF Next
<1>3. CASE /\ ~(client.asks = "background" /\ presented)
           /\ ~(client.asks = "shown" /\ ~presented)
  <2> UNCHANGED vars BY <1>3 DEF Presented
  <2> QED OBVIOUS
<1> QED BY <1>1, <1>2, <1>3

\* Every step of the conversation with its client (PersonalController,
\* desktop-session.ts, #setPresentation) is a step of HostApproval or none of its own.
THEOREM ClientImplements == ClientSpec => Spec
<1>1. ClientInit => Init
  BY DEF ClientInit
<1>2. ASSUME [ClientNext]_<<vars, clientVars>> PROVE [Next]_vars
  <2>1. CASE Hide
    BY <2>1 DEF Hide
  <2>2. CASE Show
    BY <2>2 DEF Show
  <2>3. CASE Presented
    BY <2>3, PresentedStep
  <2>4. CASE PresentationFails
    BY <2>4 DEF PresentationFails, Next
  <2>5. CASE Acknowledge
    BY <2>5 DEF Acknowledge
  <2>6. ASSUME NEW e \in Approval, Seen(e) PROVE [Next]_vars
    BY <2>6 DEF Seen, Next
  <2>7. CASE Disconnect
    BY <2>7, DisconnectStep
  <2>8. CASE Reconnect
    BY <2>8 DEF Reconnect
  <2>9. CASE Asking /\ UNCHANGED clientVars
    BY <2>9 DEF Next
  <2>10. CASE UNCHANGED <<vars, clientVars>>
    BY <2>10
  <2> QED BY <1>2, <2>1, <2>2, <2>3, <2>4, <2>5, <2>6, <2>7, <2>8, <2>9, <2>10
             DEF ClientNext
<1> QED BY <1>1, <1>2, PTL DEF ClientSpec, Spec

\* The undecided head of a desktop conversation has its one deadline, stopped exactly
\* while somebody who will release it parks it, however the connection comes and goes.
THEOREM ClientDeadline == ClientSpec => []DeadlineRunsUnlessParked
BY ClientImplements, DeadlineRunsUnlessParkedHolds, PTL

\* A request is in line exactly while its asker waits, client or none.
THEOREM ClientOpenIsWaiting == ClientSpec => []OpenIsWaiting
BY ClientImplements, OpenIsWaitingHolds, PTL

\* An approval does not run out behind a client that hid or lost its connection before
\* the card was acknowledged.
THEOREM ClientUnseenNeverExpires == ClientSpec => []UnseenNeverExpires
BY ClientImplements, UnseenNeverExpiresHolds, PTL

\* What was dropped is not spent, whenever its acknowledgement arrives.
THEOREM ClientRevokedNeverSpent == ClientSpec => []RevokedNeverSpent
BY ClientImplements, RevokedNeverSpentHolds, PTL

-----------------------------------------------------------------------------
(* The line, seen from the client. *)

\* Nobody joins the line but what is asked for now, and nobody who stays in it is to be
\* seen again.
LineMoves ==
  /\ issued' \in {issued, issued + 1}
  /\ \A e \in Entries(fifo') :
       \/ e = issued + 1 /\ issued' = e
       \/ e \in Entries(fifo) /\ (fifo'.awaiting[e] => fifo.awaiting[e])

\* A drop only shortens the line.
LEMMA DropMoves ==
  ASSUME IInv, issued' = issued, NEW b, NEW e, Droppable(b, e, issued),
         Entries(b) = Entries(fifo), \A x \in Approval : b.awaiting[x] <=> fifo.awaiting[x],
         fifo' = Drop(b, e)
  PROVE  LineMoves
<1>1. /\ Entries(fifo') = Entries(b) \ {e}
      /\ \A x \in Approval : fifo'.awaiting[x] <=> b.awaiting[x]
  BY Facts, DropSound
<1> QED BY <1>1, Facts DEF LineMoves

\* So does a head that runs out of time.
LEMMA ExpireMoves ==
  ASSUME IInv, issued' = issued, HeadPending(fifo), ~fifo.held[fifo.current],
         Expire(fifo.current)
  PROVE  LineMoves
<1> DEFINE e == fifo.current
           b == DropTimer(fifo, e)
<1>1. /\ Droppable(b, e, issued) /\ Entries(b) = Entries(fifo)
      /\ \A x \in Approval : b.awaiting[x] <=> fifo.awaiting[x]
  BY ExpireDrops
<1>2. fifo' = Drop(b, e)
  BY DEF Expire
<1> HIDE DEF b, e
<1> QED BY <1>1, <1>2, DropMoves

\* What a hold drops, a hold for a confirmation does not park for another reason.
LEMMA OpenProjectMoves ==
  ASSUME IInv, OpenProject
  PROVE  LineMoves
<1>1. project # "pending" /\ fifo' = Hold(fifo, "project") /\ issued' = issued
  BY DEF OpenProject, HoldFor
<1>2. /\ Entries(fifo') = Entries(fifo) \ Gone(fifo, fifo')
      /\ \A e \in Approval : fifo'.awaiting[e] <=> fifo.awaiting[e]
  <2>1. Sound(fifo, issued) /\ issued \in 0..MaxOffers
    BY Facts
  <2> QED BY <1>1, <2>1, HoldSound
<1> QED BY <1>1, <1>2, Facts DEF LineMoves

\* A release moves nobody.
LEMMA ReleaseMoves ==
  ASSUME IInv, NEW reason \in {"project", "background"}, reason = "project" => project # "pending",
         NEW awaitPresentation \in BOOLEAN, fifo' = Release(fifo, reason, awaitPresentation)
  PROVE  /\ fifo'.current = fifo.current /\ Entries(fifo') = Entries(fifo)
         /\ \A x \in Approval : fifo'.awaiting[x] <=>
              fifo.awaiting[x] /\ ~(reason = "background" /\ x = fifo.current /\ ~awaitPresentation)
<1>1. Sound(fifo, issued) /\ issued \in 0..MaxOffers
  BY Facts
<1> QED BY <1>1, ReleaseSound DEF SameLine

\* Time passes, and nobody moves.
LEMMA TickMoves ==
  ASSUME IInv, Tick
  PROVE  LineMoves
<1>1. /\ fifo'.current = fifo.current /\ fifo'.queue = fifo.queue
      /\ fifo'.awaiting = fifo.awaiting /\ issued' = issued
  BY Facts DEF Tick, Controller
<1> QED BY <1>1 DEF LineMoves, Entries, Waiting

\* The executors, the time and the person's answers (Asking) only move the line up.
LEMMA AskingMoves ==
  ASSUME IInv, Asking
  PROVE  LineMoves /\ presented' = presented
<1>1. presented' = presented
  BY DEF Asking, Offer, Consume, Withdraw, AcceptDecision, ClearConversation, TimerFires, Tick,
         OpenProject, SettleProject, PublishProject
<1> SUFFICES LineMoves
  BY <1>1
<1>2. ASSUME NEW w \in Work, Offer(w) PROVE LineMoves
  <2>1. /\ issued' = issued + 1 /\ Entries(fifo') = Entries(fifo) \cup {issued + 1}
        /\ \A x \in Approval : x # issued + 1 => (fifo'.awaiting[x] <=> fifo.awaiting[x])
    BY <1>2, OfferJoins
  <2> QED BY <2>1, Facts DEF LineMoves
<1>3. ASSUME NEW e \in Approval, Consume(e) PROVE LineMoves
  <2>1. issued' = issued
    BY <1>3 DEF Consume
  <2>2. CASE fifo.current = e /\ fifo.state[e] = "responding"
    <3>1. fifo' = Publish(PromoteNext([DropTimer(fifo, e) EXCEPT !.current = Null,
                                                                 !.holds = @ \ {"project"}]))
      BY <1>3, <2>2 DEF Consume
    <3>2. e # Null
      BY Numbers
    <3>3. fifo' = Drop(fifo, e) /\ e \in Entries(fifo)
      BY <2>2, <3>1, <3>2, ConsumeDrops
    <3>4. Droppable(fifo, e, issued)
      BY <3>3, Facts, SoundDroppable
    <3> QED BY <2>1, <3>3, <3>4, DropMoves
  <2>3. CASE ~(fifo.current = e /\ fifo.state[e] = "responding")
    <3>1. fifo' = fifo
      BY <1>3, <2>3 DEF Consume
    <3> QED BY <2>1, <3>1 DEF LineMoves
  <2> QED BY <2>2, <2>3
<1>4. ASSUME NEW e \in Approval, Withdraw(e) PROVE LineMoves
  <2>1. issued' = issued /\ e \in Entries(fifo) /\ fifo' = Drop(fifo, e)
    BY <1>4 DEF Withdraw
  <2>2. Droppable(fifo, e, issued)
    BY <2>1, Facts, SoundDroppable
  <2> QED BY <2>1, <2>2, DropMoves
<1>5. ASSUME NEW e \in Approval, NEW decision \in {"accept", "decline"}, AcceptDecision(e, decision)
      PROVE  LineMoves
  <2>1. issued' = issued /\ e = fifo.current /\ HeadPending(fifo)
    BY <1>5 DEF AcceptDecision
  <2>2. CASE HeadExpired(fifo)
    <3>1. ~fifo.held[fifo.current] /\ Expire(fifo.current)
      BY <1>5, <2>1, <2>2 DEF AcceptDecision, HeadExpired
    <3> QED BY <2>1, <3>1, ExpireMoves
  <2>3. CASE ~HeadExpired(fifo)
    <3>1. Entries(fifo') = Entries(fifo) /\ fifo'.awaiting = fifo.awaiting
      BY <1>5, <2>3, DecidedHead
    <3> QED BY <2>1, <3>1 DEF LineMoves
  <2> QED BY <2>2, <2>3
<1>6. CASE ClearConversation
  <2>1. fifo.current # Null /\ fifo' = Dropped(fifo, 1 + Len(fifo.queue)) /\ issued' = issued
    BY <1>6 DEF ClearConversation
  <2>2. Sound(fifo', issued) /\ fifo'.current = Null
    BY <2>1, Facts, DroppedSound
  <2>3. Entries(fifo') = {}
    BY <2>2, Facts, LineMembers DEF Sound, Orderly
  <2> QED BY <2>1, <2>3 DEF LineMoves
<1>7. CASE TimerFires
  <2>1. issued' = issued
    BY <1>7 DEF TimerFires
  <2> QED BY <1>7, <2>1, TimerIsHeads, ExpireMoves
<1>8. CASE Tick
  BY <1>8, TickMoves
<1>9. CASE OpenProject
  BY <1>9, OpenProjectMoves
<1>10. CASE SettleProject
  BY <1>10 DEF SettleProject, LineMoves
<1>11. CASE PublishProject
  <2>1. project = "over" /\ issued' = issued
        /\ fifo' = (IF fifo.current = Null THEN fifo ELSE Release(fifo, "project", FALSE))
    BY <1>11 DEF PublishProject
  <2>2. CASE fifo.current = Null
    BY <2>1, <2>2 DEF LineMoves
  <2>3. CASE fifo.current # Null
    <3>1. /\ Entries(fifo') = Entries(fifo)
          /\ \A x \in Approval : fifo'.awaiting[x] <=> fifo.awaiting[x]
      BY <2>1, <2>3, ReleaseMoves
    <3> QED BY <2>1, <3>1, Facts DEF LineMoves
  <2> QED BY <2>2, <2>3
<1> QED BY <1>1, <1>2, <1>3, <1>4, <1>5, <1>6, <1>7, <1>8, <1>9, <1>10, <1>11 DEF Asking

-----------------------------------------------------------------------------
(* The cards the client says it has acknowledged. *)

\* A card that waits and that the host has not seen.
Unseen(e) == e \in Entries(fifo) /\ fifo.awaiting[e]

\* Of a card that waits to be seen, the client believes that it was only while the
\* acknowledgement is under way, or after it was forgotten with a connection.
NoCardLost == \A e \in client.seen : Unseen(e) => e \in client.acks \cup forgotten

ClientTypeOK == client \in Renderer /\ forgotten \subseteq Approval

\* An acknowledgement under way is for the head, or for nobody who waits.
AckedIsHead == \A e \in client.acks : e \in Entries(fifo) => e = fifo.current

\* While one is under way the person is present for the host.
AcksReachHost == client.acks # {} => client.connected /\ presented
ShownIsPresented ==
  client.connected /\ client.mode = "shown" /\ client.asks = "none" => presented

\* The client asks for the mode it desires, and a hidden one remembers no card.
AsksDesired ==
  /\ client.asks # "none" => client.asks = client.desired
  /\ client.desired = "background" => client.mode = "background" /\ client.seen = {}

CardsAgree ==
  /\ ClientTypeOK /\ client.seen \cup client.acks \subseteq 1..issued
  /\ AckedIsHead /\ AcksReachHost /\ ShownIsPresented /\ AsksDesired /\ NoCardLost

\* The fields of the client.
LEMMA RendererFields ==
  ASSUME NEW c \in Renderer
  PROVE  /\ c.connected \in BOOLEAN /\ c.ready \in BOOLEAN
         /\ c.mode \in {"shown", "background"} /\ c.desired \in {"shown", "background"}
         /\ c.asks \in {"none", "shown", "background"}
         /\ c.seen \in SUBSET Approval /\ c.acks \in SUBSET Approval
BY DEF Renderer

\* The invariant's facts in the form the actions use.
LEMMA ClientFacts ==
  ASSUME IInv, CardsAgree
  PROVE  /\ client \in Renderer /\ forgotten \subseteq Approval
         /\ client.seen \subseteq 1..issued /\ client.acks \subseteq 1..issued
         /\ 1..issued \subseteq Approval /\ issued \in Nat
         /\ fifo.current # Null => fifo.current \in Entries(fifo) /\ fifo.current \in 1..issued
<1>1. issued \in 0..MaxOffers /\ Entries(fifo) \subseteq 1..issued
  BY Facts
<1>2. fifo.current # Null => fifo.current \in Entries(fifo)
  BY Facts, LineMembers
<1>3. issued \in Nat /\ 1..issued \subseteq Approval
  BY <1>1, ApprovalAssumption DEF Approval
<1> QED BY <1>1, <1>2, <1>3 DEF CardsAgree, ClientTypeOK

\* Who acknowledged the head acknowledged nobody else who waits, and while the line
\* moves up that stays so: it is in the order of asking.
LEMMA AskingKeepsCards ==
  ASSUME IInv, IInv', CardsAgree, Asking, UNCHANGED clientVars
  PROVE  CardsAgree'
<1>1. LineMoves /\ presented' = presented /\ client' = client /\ forgotten' = forgotten
  BY AskingMoves DEF clientVars
<1>2. /\ client \in Renderer /\ forgotten \subseteq Approval
      /\ client.seen \subseteq 1..issued /\ client.acks \subseteq 1..issued /\ issued \in Nat
  BY ClientFacts
<1>3. 1..issued \subseteq 1..issued'
  BY <1>1, <1>2 DEF LineMoves
<1>4. ASSUME NEW e \in 1..issued, e \in Entries(fifo')
      PROVE  e \in Entries(fifo) /\ (fifo'.awaiting[e] => fifo.awaiting[e])
  <2>1. e # issued + 1
    BY <1>2
  <2> QED BY <1>1, <1>4, <2>1 DEF LineMoves
<1>5. AckedIsHead'
  <2>1. SUFFICES ASSUME NEW e \in client.acks, e \in Entries(fifo') PROVE e = fifo'.current
    BY <1>1 DEF AckedIsHead
  <2>2. e \in 1..issued /\ e \in Entries(fifo) /\ e = fifo.current
    BY <1>2, <1>4, <2>1 DEF CardsAgree, AckedIsHead
  <2>3. /\ fifo' \in Controller /\ InLine(fifo', issued') /\ issued' \in 0..MaxOffers
        /\ Entries(fifo') \subseteq 1..issued'
    <3>1. issued' \in 0..MaxOffers /\ Sound(fifo, issued)'
      BY DEF IInv, TypeOK
    <3>2. fifo' \in Controller /\ InLine(fifo', issued')
      BY <3>1 DEF Sound, Orderly
    <3> QED BY <3>1, <3>2, LineMembers
  <2>4. fifo'.current # Null /\ fifo'.current \in Entries(fifo') /\ fifo'.current <= e
    <3>1. fifo'.current # Null
      BY <2>1, <2>3, LineMembers
    <3>2. /\ fifo'.current \in Entries(fifo') /\ fifo'.current \in Approval
          /\ Entries(fifo') = {fifo'.current} \cup ToSet(fifo'.queue)
      BY <2>3, <3>1, LineMembers
    <3>3. \A x \in ToSet(fifo'.queue) : fifo'.current < x
      BY <2>3 DEF InLine
    <3> QED BY <2>1, <2>2, <3>1, <3>2, <3>3 DEF Approval
  <2>5. fifo'.current \in Entries(fifo)
    <3>1. fifo'.current # issued + 1
      BY <1>2, <2>2, <2>3, <2>4
    <3> QED BY <1>1, <2>4, <3>1 DEF LineMoves
  <2>6. e <= fifo'.current
    <3>1. /\ fifo.current # Null /\ Entries(fifo) = {fifo.current} \cup ToSet(fifo.queue)
          /\ \A x \in ToSet(fifo.queue) : fifo.current < x
      BY <2>2, Facts, LineMembers, Numbers DEF InLine
    <3>2. fifo'.current \in Int /\ e \in Int
      BY <1>2, <2>2, <2>5, ClientFacts, Facts
    <3>3. fifo'.current = e \/ e < fifo'.current
      BY <2>2, <2>5, <3>1
    <3> QED BY <3>2, <3>3
  <2> QED BY <2>2, <2>3, <2>4, <2>6
<1>6. NoCardLost'
  BY <1>1, <1>2, <1>4 DEF CardsAgree, NoCardLost, Unseen
<1>7. AcksReachHost' /\ ShownIsPresented' /\ AsksDesired' /\ ClientTypeOK'
  BY <1>1 DEF CardsAgree, AcksReachHost, ShownIsPresented, AsksDesired, ClientTypeOK
<1>8. client'.seen \cup client'.acks \subseteq 1..issued'
  BY <1>1, <1>2, <1>3
<1> QED BY <1>5, <1>6, <1>7, <1>8 DEF CardsAgree

\* The person hides the client, which forgets what it has seen.
LEMMA HideKeepsCards ==
  ASSUME IInv, CardsAgree, Hide
  PROVE  CardsAgree'
<1>1. /\ client'.connected = client.connected /\ client'.mode = "background"
      /\ client'.desired = "background" /\ client'.seen = {} /\ client'.acks = client.acks
      /\ client'.asks \in {"none", "background"} /\ client' \in Renderer
      /\ forgotten' = {} /\ fifo' = fifo /\ issued' = issued /\ presented' = presented
  BY ClientFacts DEF Hide, Renderer, vars
<1>2. AckedIsHead' /\ AcksReachHost' /\ Entries(fifo') = Entries(fifo)
  BY <1>1 DEF CardsAgree, AckedIsHead, AcksReachHost
<1>3. ShownIsPresented' /\ AsksDesired' /\ NoCardLost' /\ ClientTypeOK'
  BY <1>1 DEF ShownIsPresented, AsksDesired, NoCardLost, ClientTypeOK
<1>4. client'.seen \cup client'.acks \subseteq 1..issued'
  BY <1>1, ClientFacts
<1> QED BY <1>2, <1>3, <1>4 DEF CardsAgree

\* The person calls the client back; the host has yet to agree.
LEMMA ShowKeepsCards ==
  ASSUME IInv, CardsAgree, Show
  PROVE  CardsAgree'
<1>1. /\ client'.connected = client.connected /\ client'.desired = "shown"
      /\ client'.seen = client.seen /\ client'.acks = client.acks
      /\ client'.asks = (IF client.connected THEN "shown" ELSE "none") /\ client' \in Renderer
      /\ forgotten' = forgotten /\ fifo' = fifo /\ issued' = issued /\ presented' = presented
  BY ClientFacts DEF Show, Renderer, vars
<1>2. AckedIsHead' /\ AcksReachHost' /\ NoCardLost'
  BY <1>1 DEF CardsAgree, AckedIsHead, AcksReachHost, NoCardLost, Unseen
<1>3. ShownIsPresented' /\ AsksDesired'
  BY <1>1 DEF ShownIsPresented, AsksDesired
<1>4. ClientTypeOK' /\ client'.seen \cup client'.acks \subseteq 1..issued'
  BY <1>1, ClientFacts DEF ClientTypeOK
<1> QED BY <1>2, <1>3, <1>4 DEF CardsAgree

\* The host has the answer of a presentation.set, before which it had every
\* acknowledgement.  Whoever hid has seen nothing; whoever is back changes no card.
LEMMA PresentedKeepsCards ==
  ASSUME IInv, CardsAgree, Presented
  PROVE  CardsAgree'
<1>1. /\ client.connected /\ client.asks # "none" /\ client.acks = {}
      /\ client'.connected = client.connected /\ client'.desired = client.desired
      /\ client'.mode = client.asks /\ client'.asks = "none"
      /\ client'.seen = client.seen /\ client'.acks = {} /\ client' \in Renderer
      /\ forgotten' = forgotten
  BY ClientFacts DEF Presented, Renderer
<1>2. client.asks = client.desired
      /\ (client.desired = "background" => client.mode = "background" /\ client.seen = {})
  BY <1>1 DEF CardsAgree, AsksDesired
<1>3. AckedIsHead' /\ AcksReachHost' /\ AsksDesired' /\ ClientTypeOK'
  BY <1>1, <1>2, ClientFacts DEF AckedIsHead, AcksReachHost, AsksDesired, ClientTypeOK
<1>4. issued' = issued
  BY DEF Presented, GoAway, ComeBack, HoldFor, vars
<1>5. client'.seen \cup client'.acks \subseteq 1..issued'
  BY <1>1, <1>4, ClientFacts
<1>6. ShownIsPresented' /\ NoCardLost'
  <2>1. CASE client.asks = "background"
    BY <1>1, <1>2, <2>1 DEF ShownIsPresented, NoCardLost
  <2>2. CASE client.asks = "shown" /\ ~presented
    <3>1. presented' /\ fifo' = Release(fifo, "background", TRUE)
      BY <2>2 DEF Presented, ComeBack
    <3>2. /\ Entries(fifo') = Entries(fifo)
          /\ \A x \in Approval : fifo'.awaiting[x] <=> fifo.awaiting[x]
      BY <3>1, ReleaseMoves
    <3> QED BY <1>1, <3>1, <3>2, ClientFacts
            DEF CardsAgree, ShownIsPresented, NoCardLost, Unseen
  <2>3. CASE client.asks = "shown" /\ presented
    <3>1. fifo' = fifo /\ presented' = presented
      BY <2>3 DEF Presented, vars
    <3> QED BY <1>1, <2>3, <3>1 DEF CardsAgree, ShownIsPresented, NoCardLost, Unseen
  <2> QED BY <1>1, <2>1, <2>2, <2>3, ClientFacts, RendererFields
<1> QED BY <1>3, <1>5, <1>6 DEF CardsAgree

\* ... and a client whose request failed hides itself.
LEMMA PresentationFailsKeepsCards ==
  ASSUME IInv, CardsAgree, PresentationFails
  PROVE  CardsAgree'
<1>1. /\ client'.connected = client.connected /\ client'.desired = client.desired
      /\ client'.mode = "background" /\ client'.asks = "none" /\ client'.seen = {}
      /\ client'.acks = client.acks /\ client.acks = {} /\ client' \in Renderer /\ forgotten' = {}
  BY ClientFacts DEF PresentationFails, Renderer
<1>2. AckedIsHead' /\ AcksReachHost' /\ ShownIsPresented' /\ AsksDesired' /\ NoCardLost'
      /\ ClientTypeOK'
  BY <1>1 DEF AckedIsHead, AcksReachHost, ShownIsPresented, AsksDesired, NoCardLost, ClientTypeOK
<1>3. client'.seen \cup client'.acks \subseteq 1..issued'
  BY <1>1
<1> QED BY <1>2, <1>3 DEF CardsAgree

\* The head is acknowledged; who was before is still remembered or no longer waits.
LEMMA AcknowledgeKeepsCards ==
  ASSUME IInv, CardsAgree, Acknowledge
  PROVE  CardsAgree'
<1> DEFINE e == fifo.current
<1>1. /\ client.connected /\ client.mode = "shown" /\ client.asks = "none" /\ e # Null
      /\ client'.connected = client.connected /\ client'.mode = client.mode
      /\ client'.desired = client.desired /\ client'.asks = client.asks
      /\ client'.seen = (client.seen \cap Entries(fifo)) \cup {e}
      /\ client'.acks = client.acks \cup {e}
      /\ fifo' = fifo /\ issued' = issued /\ presented' = presented /\ forgotten' = forgotten
  BY ClientFacts DEF Acknowledge, Renderer, vars
<1>2. e \in 1..issued /\ e \in Approval
  BY <1>1, ClientFacts
<1>3. client' \in Renderer
  <2>1. (client.seen \cap Entries(fifo)) \cup {e} \in SUBSET Approval
        /\ client.acks \cup {e} \in SUBSET Approval
    BY <1>2, ClientFacts
  <2>2. client' = [client EXCEPT !.seen = (client.seen \cap Entries(fifo)) \cup {e},
                                 !.acks = client.acks \cup {e}]
    BY DEF Acknowledge
  <2> QED BY <2>1, <2>2, ClientFacts DEF Renderer
<1>4. presented
  BY <1>1 DEF CardsAgree, ShownIsPresented
<1>5. AckedIsHead' /\ AcksReachHost' /\ ShownIsPresented'
  BY <1>1, <1>4 DEF CardsAgree, AckedIsHead, AcksReachHost, ShownIsPresented
<1>6. AsksDesired'
  BY <1>1 DEF CardsAgree, AsksDesired
<1>7. NoCardLost'
  BY <1>1 DEF CardsAgree, NoCardLost, Unseen
<1>8. ClientTypeOK' /\ client'.seen \cup client'.acks \subseteq 1..issued'
  BY <1>1, <1>2, <1>3, ClientFacts DEF ClientTypeOK
<1> QED BY <1>5, <1>6, <1>7, <1>8 DEF CardsAgree

\* An acknowledgement arrives: its card is the head, which the host now knows was seen,
\* or has left the line.
LEMMA SeenKeepsCards ==
  ASSUME IInv, CardsAgree, NEW e \in Approval, Seen(e)
  PROVE  CardsAgree'
<1>1. /\ e \in client.acks /\ client'.connected = client.connected /\ client'.mode = client.mode
      /\ client'.desired = client.desired /\ client'.asks = client.asks
      /\ client'.seen = client.seen /\ client'.acks = client.acks \ {e} /\ client' \in Renderer
      /\ forgotten' = forgotten
  BY ClientFacts DEF Seen, Renderer
<1>2. presented
  BY <1>1 DEF CardsAgree, AcksReachHost
<1>3. /\ issued' = issued /\ presented' = presented /\ fifo'.current = fifo.current
      /\ Entries(fifo') = Entries(fifo)
      /\ \A x \in Entries(fifo) : fifo'.awaiting[x] => fifo.awaiting[x] /\ x # e
  <2>1. CASE fifo.current = e
    <3>1. SeeCard
      BY <1>2, <2>1 DEF Seen
    <3>2. fifo' = Release(fifo, "background", FALSE) /\ issued' = issued /\ presented' = presented
      BY <3>1 DEF SeeCard
    <3>3. /\ fifo'.current = fifo.current /\ Entries(fifo') = Entries(fifo)
          /\ \A x \in Approval : fifo'.awaiting[x] <=> fifo.awaiting[x] /\ x # fifo.current
      BY <3>2, ReleaseMoves
    <3> QED BY <2>1, <3>2, <3>3, Facts
  <2>2. CASE fifo.current # e
    <3>1. UNCHANGED vars
      BY <2>2 DEF Seen
    <3>2. e \notin Entries(fifo)
      BY <1>1, <2>2 DEF CardsAgree, AckedIsHead
    <3> QED BY <3>1, <3>2 DEF vars
  <2> QED BY <2>1, <2>2
<1>4. AckedIsHead' /\ AcksReachHost' /\ ShownIsPresented' /\ AsksDesired'
  BY <1>1, <1>3 DEF CardsAgree, AckedIsHead, AcksReachHost, ShownIsPresented, AsksDesired
<1>5. NoCardLost'
  BY <1>1, <1>3 DEF CardsAgree, NoCardLost, Unseen
<1>6. ClientTypeOK' /\ client'.seen \cup client'.acks \subseteq 1..issued'
  BY <1>1, <1>3, ClientFacts DEF ClientTypeOK
<1> QED BY <1>4, <1>5, <1>6 DEF CardsAgree

\* A lost connection: what the client still remembers was forgotten by the host.
LEMMA DisconnectKeepsCards ==
  ASSUME IInv, CardsAgree, Disconnect
  PROVE  CardsAgree'
<1> DEFINE kept == (client.seen \ client.acks) \cap Entries(fifo)
<1>1. /\ client'.connected = FALSE /\ client'.mode = client.mode
      /\ client'.desired = client.desired /\ client'.asks = "none"
      /\ client'.seen = kept /\ client'.acks = {}
      /\ forgotten' = (forgotten \cup (client.seen \ client.acks)) \cap Entries(fifo)
  BY ClientFacts DEF Disconnect, Remembers, Renderer
<1>2. client' \in Renderer
  <2>1. kept \in SUBSET Approval
    BY ClientFacts
  <2>2. client' = [client EXCEPT !.connected = FALSE, !.ready = FALSE, !.asks = "none",
                                 !.seen = kept, !.acks = {}]
    BY DEF Disconnect, Remembers
  <2> HIDE DEF kept
  <2> QED BY <2>1, <2>2, ClientFacts DEF Renderer
<1>3. issued' = issued
  BY DEF Disconnect, GoAway, HoldFor, vars
<1>4. AckedIsHead' /\ AcksReachHost' /\ ShownIsPresented'
  BY <1>1 DEF AckedIsHead, AcksReachHost, ShownIsPresented
<1>5. AsksDesired'
  BY <1>1 DEF CardsAgree, AsksDesired
<1>6. NoCardLost'
  BY <1>1 DEF NoCardLost
<1>7. ClientTypeOK' /\ client'.seen \cup client'.acks \subseteq 1..issued'
  BY <1>1, <1>2, <1>3, ClientFacts DEF ClientTypeOK
<1> QED BY <1>4, <1>5, <1>6, <1>7 DEF CardsAgree

\* A new connection asks for the mode that was desired.
LEMMA ReconnectKeepsCards ==
  ASSUME IInv, CardsAgree, Reconnect
  PROVE  CardsAgree'
<1>1. /\ client'.connected = TRUE /\ client'.mode = client.mode
      /\ client'.desired = client.desired /\ client'.asks = client.desired
      /\ client'.seen = client.seen /\ client'.acks = client.acks /\ client' \in Renderer
      /\ forgotten' = forgotten /\ fifo' = fifo /\ issued' = issued /\ presented' = presented
  BY ClientFacts DEF Reconnect, Renderer, vars
<1>2. client.acks = {}
  BY DEF Reconnect, CardsAgree, AcksReachHost
<1>3. client.desired # "none"
  BY ClientFacts, RendererFields
<1>4. AckedIsHead' /\ AcksReachHost' /\ ShownIsPresented' /\ AsksDesired'
  BY <1>1, <1>2, <1>3 DEF CardsAgree, AckedIsHead, AcksReachHost, ShownIsPresented, AsksDesired
<1>5. NoCardLost'
  BY <1>1 DEF CardsAgree, NoCardLost, Unseen
<1>6. ClientTypeOK' /\ client'.seen \cup client'.acks \subseteq 1..issued'
  BY <1>1, ClientFacts DEF ClientTypeOK
<1> QED BY <1>4, <1>5, <1>6 DEF CardsAgree

\* Nothing is acknowledged at first.
LEMMA InitCards == ClientInit => CardsAgree
<1> SUFFICES ASSUME ClientInit PROVE CardsAgree
  OBVIOUS
<1>1. /\ client = [connected |-> TRUE, mode |-> "shown", desired |-> "shown",
                   ready |-> TRUE, asks |-> "none", seen |-> {}, acks |-> {}]
      /\ forgotten = {} /\ presented = TRUE
  BY DEF ClientInit, Init
<1>2. ClientTypeOK
  BY <1>1 DEF ClientTypeOK, Renderer
<1> QED BY <1>1, <1>2 DEF CardsAgree, AckedIsHead, AcksReachHost, ShownIsPresented, AsksDesired,
                          NoCardLost

\* Whatever the person, the host, the executors and the connection do next.
LEMMA NextCards == IInv /\ IInv' /\ CardsAgree /\ [ClientNext]_<<vars, clientVars>> => CardsAgree'
<1> SUFFICES ASSUME IInv, IInv', CardsAgree, [ClientNext]_<<vars, clientVars>> PROVE CardsAgree'
  OBVIOUS
<1>1. CASE Hide
  BY <1>1, HideKeepsCards
<1>2. CASE Show
  BY <1>2, ShowKeepsCards
<1>3. CASE Presented
  BY <1>3, PresentedKeepsCards
<1>4. CASE PresentationFails
  BY <1>4, PresentationFailsKeepsCards
<1>5. CASE Acknowledge
  BY <1>5, AcknowledgeKeepsCards
<1>6. ASSUME NEW e \in Approval, Seen(e) PROVE CardsAgree'
  BY <1>6, SeenKeepsCards
<1>7. CASE Disconnect
  BY <1>7, DisconnectKeepsCards
<1>8. CASE Reconnect
  BY <1>8, ReconnectKeepsCards
<1>9. CASE Asking /\ UNCHANGED clientVars
  BY <1>9, AskingKeepsCards
<1>10. CASE UNCHANGED <<vars, clientVars>>
  <2>1. UNCHANGED <<fifo, issued, presented, client, forgotten>>
    BY <1>10 DEF vars, clientVars
  <2> QED BY <2>1 DEF CardsAgree, ClientTypeOK, AckedIsHead, AcksReachHost, ShownIsPresented,
                      AsksDesired, NoCardLost, Unseen
<1> QED BY <1>1, <1>2, <1>3, <1>4, <1>5, <1>6, <1>7, <1>8, <1>9, <1>10 DEF ClientNext

\* The client and the host agree on the cards, through every hide, show, connection lost
\* and request overtaken.
THEOREM CardsAgreeHolds == ClientSpec => []CardsAgree
<1>1. ClientSpec => []IInv
  BY ClientImplements, InvariantHolds, PTL
<1> QED BY <1>1, InitCards, NextCards, PTL DEF ClientSpec

\* No card is lost between the two: the host waits to see one that the client takes for
\* seen only while the acknowledgement is under way, or after it was forgotten with a
\* connection (acknowledgeVisibleConfirmation, seenPresentations; awaitingPresentation).
THEOREM NoCardLostHolds == ClientSpec => []NoCardLost
<1>1. CardsAgree => NoCardLost
  BY DEF CardsAgree
<1> QED BY <1>1, CardsAgreeHolds, PTL
=============================================================================
