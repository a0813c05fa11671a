-------------------------- MODULE NotificationsProofs --------------------------
(***************************************************************************)
(* Proofs about Notifications, for any numbers of revisions, parts, routes, *)
(* accounts, confirmed resends and faults.                                 *)
(*                                                                         *)
(* The inductive invariant IInv holds the memory and the file to the same  *)
(* account of what may have landed, since either may be what the service   *)
(* goes on from: a part may have landed once more than the user confirmed  *)
(* only while a receipt, a request under way or an unknown fate says so.   *)
(***************************************************************************)
EXTENDS Notifications, FiniteSetTheorems, TLAPS

AtWork == {"probe", "check", "claim", "send"}

\* A delivery that agrees with itself and with the route of its outbox.
DeliveryAgrees(d, route) ==
  /\ d.route <= route /\ d.receipts <= PartsOf(d)
  /\ d.status = "accepted" => d.receipts = PartsOf(d)
  /\ d.status = "sending" => d.receipts < PartsOf(d)
  /\ d.receipts > 0 => d.prepared
  /\ d.status = "none" => d = NoDelivery

\* The delivery d of message m accounts for the part p.
Covered(d, p) == p <= d.receipts \/ (p = d.receipts + 1 /\ d.status \in {"sending", "unknown"})

\* What may have landed of the message m is what the delivery d says.
CountsAgree(d, m) ==
  /\ \A p \in 1..Parts : Landed(m, p) <= confirms[m] + (IF Covered(d, p) THEN 1 ELSE 0)
  /\ confirms[m] = 0 =>
       \A p \in 1..Parts, b \in Binding : landed[m][p][b] > 0 => b = d.binding

Sound(s) ==
  s \in Outbox /\ \A m \in Message : DeliveryAgrees(s.deliveries[m], s.route)
Counted(s) == \A m \in Message : CountsAgree(s.deliveries[m], m)

\* A message the memory knows is one the file knows.
FileKnows ==
  \A m \in Message : state.deliveries[m].status # "none" => disk.deliveries[m].status # "none"

PortsAgree ==
  /\ relay \in Relay
  /\ feed \in [revision : 0..Revisions, dismissed : BOOLEAN, dismissing : BOOLEAN,
               intents : SUBSET Message]
  /\ faults \in 0..MaxFaults
  /\ confirms \in [Message -> 0..MaxConfirms]
  /\ landed \in [Message -> [1..Parts -> [Binding -> Nat]]]

\* What the run knows of the delivery it works on.
RelayAgrees ==
  /\ relay.pc \in AtWork => relay.message \in Message /\ relay.route <= state.route
  /\ relay.pc = "clear" =>
       relay.message \in Message /\ state.deliveries[relay.message].status # "none"
  /\ relay.pc \in {"probe", "check", "claim"} =>
       Superseded(state) \/ Current.status \in Waiting \cup Ended
  /\ relay.pc \in {"check", "claim"} =>
       Superseded(state) \/ Current.invalidated \/ Current.prepared \/ Current.status \in Ended
  /\ relay.pc = "send" =>
       /\ Current.status = "sending" /\ Current.prepared /\ ~Superseded(state)
       /\ landed[relay.message][Current.receipts + 1][Current.binding] > 0

\* From the invalidation on, what the run may still claim is withdrawn.
Withdrawn(m) == state.deliveries[m].status = "none" \/ state.deliveries[m].invalidated
DismissalAgrees ==
  /\ feed.dismissing /\ relay.pc # "clear" => \A m \in Message : Withdrawn(m)
  /\ feed.dismissed /\ relay.pc = "claim" => Withdrawn(relay.message) \/ Superseded(state)

\* An intent that is gone left its message in the outbox.
IntentAgrees ==
  \A m \in 1..feed.revision :
    feed.dismissed \/ m \in feed.intents \/ state.deliveries[m].status # "none"

StoreAgrees == Sound(state) /\ Sound(disk) /\ Counted(state) /\ Counted(disk) /\ FileKnows
IInv == /\ StoreAgrees /\ PortsAgree /\ RelayAgrees /\ DismissalAgrees /\ IntentAgrees

-----------------------------------------------------------------------------
(* What a transaction may make of a delivery. *)

\* A delivery of which nothing can have landed but what the user confirmed.
Unsent(d) == d.receipts = 0 /\ d.status \notin {"sending", "unknown"}

\* e follows d: it accounts for as much, or there was nothing to account for.
Follows(d, e, route) ==
  /\ e \in Delivery /\ DeliveryAgrees(e, route)
  /\ \/ Unsent(d)
     \/ /\ e.binding = d.binding /\ e.receipts = d.receipts
        /\ d.status \in {"sending", "unknown"} => e.status \in {"sending", "unknown"}
  /\ d.status # "none" => e.status # "none"

Fine(t) ==
  t \in Outbox /\ \A m \in Message : Follows(state.deliveries[m], t.deliveries[m], t.route)

\* The counters are numbers.
LEMMA CountsTyped ==
  ASSUME PortsAgree, NEW m \in Message, NEW p \in 1..Parts
  PROVE  /\ landed[m][p]["nova"] \in Nat /\ landed[m][p]["im"] \in Nat
         /\ Landed(m, p) = landed[m][p]["nova"] + landed[m][p]["im"]
         /\ confirms[m] \in Nat
BY NotificationsAssumption DEF PortsAgree, Landed, Binding

\* What follows a delivery accounts for what may have landed.
LEMMA CountsFollow ==
  ASSUME PortsAgree, NEW m \in Message, NEW d \in Delivery, NEW e, NEW route,
         CountsAgree(d, m), Follows(d, e, route)
  PROVE  CountsAgree(e, m)
<1>1. CASE Unsent(d)
  <2>1. ASSUME NEW p \in 1..Parts
        PROVE  ~Covered(d, p) /\ Landed(m, p) <= confirms[m]
    BY <1>1, CountsTyped DEF Unsent, Covered, CountsAgree
  <2>2. ASSUME NEW p \in 1..Parts
        PROVE  Landed(m, p) <= confirms[m] + (IF Covered(e, p) THEN 1 ELSE 0)
    BY <2>1, CountsTyped
  <2>3. ASSUME confirms[m] = 0, NEW p \in 1..Parts, NEW b \in Binding, landed[m][p][b] > 0
        PROVE  FALSE
    BY <2>1, <2>3, CountsTyped DEF Binding
  <2> QED BY <2>2, <2>3 DEF CountsAgree
<1>2. CASE ~Unsent(d)
  <2>1. /\ e.binding = d.binding /\ e.receipts = d.receipts
        /\ d.status \in {"sending", "unknown"} => e.status \in {"sending", "unknown"}
    BY <1>2 DEF Follows
  <2>2. \A p \in 1..Parts : Covered(d, p) => Covered(e, p)
    BY <2>1 DEF Covered
  <2>3. ASSUME NEW p \in 1..Parts
        PROVE  Landed(m, p) <= confirms[m] + (IF Covered(e, p) THEN 1 ELSE 0)
    BY <2>2, CountsTyped DEF CountsAgree
  <2> QED BY <2>1, <2>3 DEF CountsAgree
<1> QED BY <1>1, <1>2

\* A transaction, saved or not, that leaves the record of what was sent alone.
LEMMA StoreKept ==
  ASSUME StoreAgrees, PortsAgree, NEW t, Fine(t), Saved(t) \/ Unsaved(t),
         UNCHANGED <<landed, confirms>>
  PROVE  StoreAgrees' /\ faults' \in 0..MaxFaults
<1>1. Sound(t) /\ Counted(t)
  <2>1. \A m \in Message : state.deliveries[m] \in Delivery
    BY DEF StoreAgrees, Sound, Outbox
  <2> QED BY <2>1, CountsFollow DEF Fine, Follows, StoreAgrees, Sound, Counted
<1>2. state' \in {state, t} /\ disk' \in {disk, t} /\ faults' \in 0..MaxFaults
      /\ (state' = t /\ t # state => disk' = t)
  BY NotificationsAssumption DEF Saved, Unsaved, PortsAgree
<1>3. Sound(state') /\ Sound(disk')
  BY <1>1, <1>2 DEF StoreAgrees
<1>4. Counted(state)' /\ Counted(disk)'
  BY <1>1, <1>2 DEF StoreAgrees, Counted, CountsAgree, Landed
<1>5. FileKnows'
  BY <1>2 DEF StoreAgrees, FileKnows, Fine, Follows
<1> QED BY <1>2, <1>3, <1>4, <1>5 DEF StoreAgrees

-----------------------------------------------------------------------------
(* The transactions. *)

\* A change of status follows, if it neither accepts nor forgets what is out.
LEMMA StatusFollows ==
  ASSUME NEW d \in Delivery, NEW route, DeliveryAgrees(d, route), d.status # "none",
         NEW x \in Status \ {"none", "accepted", "sending"},
         d.status \in {"sending", "unknown"} => x = "unknown"
  PROVE  Follows(d, [d EXCEPT !.status = x], route)
<1>1. [d EXCEPT !.status = x] \in Delivery
  BY DEF Delivery
<1> QED BY <1>1 DEF Follows, DeliveryAgrees, Delivery, PartsOf

\* A delivery left alone follows itself: the reads and the refusals.
LEMMA SameFollows ==
  ASSUME NEW d \in Delivery, NEW route, DeliveryAgrees(d, route)
  PROVE  Follows(d, d, route)
BY DEF Follows

\* So does a withdrawal.
LEMMA EraseFollows ==
  ASSUME NEW d \in Delivery, NEW route, DeliveryAgrees(d, route)
  PROVE  Follows(d, Erase(d), route)
<1>1. CASE d.status = "none"
  BY <1>1, SameFollows DEF Erase
<1>2. CASE d.status # "none"
  <2>1. Erase(d) = [d EXCEPT !.invalidated = TRUE,
                             !.status = IF d.status \in Waiting THEN "cancelled" ELSE d.status]
    BY <1>2 DEF Erase, Delivery
  <2>2. Erase(d) \in Delivery
    BY <2>1 DEF Delivery, Status, Ended, Waiting
  <2> QED BY <1>2, <2>1, <2>2 DEF Follows, DeliveryAgrees, Delivery, PartsOf, Waiting
<1> QED BY <1>1, <1>2

\* A new delivery on the route of its outbox.
LEMMA EnqueuedAgrees ==
  ASSUME NEW s \in Outbox, NEW b \in Binding
  PROVE  /\ Enqueued(s, b) \in Delivery /\ DeliveryAgrees(Enqueued(s, b), s.route)
         /\ Enqueued(s, b).status = "pending" /\ Enqueued(s, b).route = s.route
         /\ ~Enqueued(s, b).invalidated
<1> DEFINE u(d, a, r) == [d EXCEPT !.status = "pending", !.route = r, !.binding = b, !.account = a]
           e == u(NoDelivery, AccountOf(s, b), s.route)
<1>1. AccountOf(s, b) \in 0..MaxAccounts /\ s.route \in Route
  BY NotificationsAssumption DEF AccountOf, Outbox
<1>2. ASSUME NEW d \in Delivery, NEW a \in 0..MaxAccounts, NEW r \in Route
      PROVE  /\ u(d, a, r) \in Delivery /\ u(d, a, r).status = "pending" /\ u(d, a, r).route = r
             /\ u(d, a, r).receipts = d.receipts /\ u(d, a, r).invalidated = d.invalidated
  BY DEF Delivery, Status, Waiting
<1>3. NoDelivery \in Delivery /\ NoDelivery.receipts = 0 /\ ~NoDelivery.invalidated
  BY NotificationsAssumption DEF NoDelivery, Delivery, Status, Binding, Route
<1>4. Enqueued(s, b) = e
  BY DEF Enqueued
<1> HIDE DEF u
<1>5. /\ e \in Delivery /\ e.status = "pending" /\ e.route = s.route
      /\ e.receipts = 0 /\ ~e.invalidated
  BY <1>1, <1>2, <1>3
<1>6. DeliveryAgrees(e, s.route)
  BY <1>1, <1>5, NotificationsAssumption DEF DeliveryAgrees, PartsOf, Route
<1> QED BY <1>4, <1>5, <1>6

\* A transaction on one delivery.
LEMMA ChangeFine ==
  ASSUME Sound(state), NEW m \in Message, NEW d, Follows(state.deliveries[m], d, state.route)
  PROVE  /\ Fine(Change(state, m, d)) /\ Change(state, m, d).route = state.route
         /\ \A n \in Message : Change(state, m, d).deliveries[n]
                                 = IF n = m THEN d ELSE state.deliveries[n]
<1>1. d \in Delivery /\ state \in Outbox
  BY DEF Follows, Sound
<1>2. /\ Change(state, m, d) = [state EXCEPT !.deliveries = [state.deliveries EXCEPT ![m] = d]]
      /\ [state.deliveries EXCEPT ![m] = d] \in [Message -> Delivery]
  BY <1>1 DEF Change, Outbox
<1>3. Change(state, m, d) \in Outbox
  BY <1>1, <1>2 DEF Outbox
<1>4. Change(state, m, d).route = state.route
      /\ \A n \in Message : Change(state, m, d).deliveries[n]
                              = IF n = m THEN d ELSE state.deliveries[n]
  BY <1>1, <1>2 DEF Outbox
<1>5. \A n \in Message : state.deliveries[n] \in Delivery
  BY <1>1 DEF Outbox
<1> QED BY <1>3, <1>4, <1>5, SameFollows DEF Fine, Sound

\* A transaction that changes nothing is fine.
LEMMA SameFine == ASSUME Sound(state) PROVE Fine(state)
<1>1. \A n \in Message : state.deliveries[n] \in Delivery
  BY DEF Sound, Outbox
<1> QED BY <1>1, SameFollows DEF Fine, Sound

\* What is withdrawn stays so.
StaysWithdrawn(t) ==
  \A n \in Message : state.deliveries[n].status = "none" \/ state.deliveries[n].invalidated =>
                      t.deliveries[n].status = "none" \/ t.deliveries[n].invalidated

\* The end of a delivery that waits (#finish), unless it was moved or has ended.
LEMMA FinishFine ==
  ASSUME Sound(state), NEW m \in Message, NEW r, NEW x \in {"expired", "blocked"},
         state.deliveries[m].route = r => state.deliveries[m].status \in Waiting \cup Ended
  PROVE  Fine(Finish(state, m, r, x)) /\ StaysWithdrawn(Finish(state, m, r, x))
<1> DEFINE d == state.deliveries[m]
<1>1. CASE d.route # r \/ d.status \in Ended
  BY <1>1, SameFine DEF Finish, StaysWithdrawn
<1>2. CASE ~(d.route # r \/ d.status \in Ended)
  <2>1. Finish(state, m, r, x) = Change(state, m, [d EXCEPT !.status = x])
    BY <1>2 DEF Finish, Change
  <2>2. d \in Delivery /\ DeliveryAgrees(d, state.route) /\ d.status \in Waiting
    BY <1>2 DEF Sound, Outbox
  <2>3. Follows(d, [d EXCEPT !.status = x], state.route)
    BY <2>2, StatusFollows DEF Waiting, Status, Ended
  <2>4. [d EXCEPT !.status = x].invalidated = d.invalidated /\ d.status # "none"
    BY <2>2 DEF Delivery, Waiting
  <2> HIDE DEF d
  <2>5. Fine(Change(state, m, [d EXCEPT !.status = x]))
        /\ \A n \in Message : Change(state, m, [d EXCEPT !.status = x]).deliveries[n]
                               = IF n = m THEN [d EXCEPT !.status = x] ELSE state.deliveries[n]
    BY <2>3, ChangeFine DEF d
  <2> QED BY <2>1, <2>4, <2>5 DEF StaysWithdrawn, d
<1> QED BY <1>1, <1>2

\* What the transactions beside the run leave of a delivery.
Stays(d, e) ==
  /\ d.status = "none" => e.status = "none"
  /\ e.route = d.route \/ e.route > state.route
  /\ d.invalidated => e.invalidated
  /\ e.route = d.route => /\ d.prepared => e.prepared
                          /\ d.status \in Ended => e.status \in Ended
                          /\ d.status \in Waiting \cup Ended => e.status \in Waiting \cup Ended
  /\ d.status = "sending" =>
       /\ e.status = "sending" /\ e.route = d.route /\ e.receipts = d.receipts
       /\ e.binding = d.binding /\ e.prepared = d.prepared

Beside(t) ==
  /\ t.route >= state.route
  /\ \A m \in Message : Stays(state.deliveries[m], t.deliveries[m])

\* ... and leaves the run what it knows.
LEMMA SameBeside == ASSUME Sound(state) PROVE Beside(state)
BY NotificationsAssumption DEF Beside, Stays, Sound, Outbox, Route

\* The withdrawal of every message.
LEMMA InvalidateFine ==
  ASSUME Sound(state),
         NEW t, t = [state EXCEPT !.deliveries = [m \in Message |-> Erase(state.deliveries[m])]]
  PROVE  /\ Fine(t) /\ Beside(t)
         /\ \A m \in Message : t.deliveries[m].status = "none" \/ t.deliveries[m].invalidated
<1> DEFINE ds == [m \in Message |-> Erase(state.deliveries[m])]
<1>1. \A m \in Message : state.deliveries[m] \in Delivery
                         /\ DeliveryAgrees(state.deliveries[m], state.route)
  BY DEF Sound, Outbox
<1>2. \A m \in Message : Follows(state.deliveries[m], Erase(state.deliveries[m]), state.route)
  BY <1>1, EraseFollows
<1>3. ds \in [Message -> Delivery]
  BY <1>2 DEF Follows
<1>4. t \in Outbox /\ t.deliveries = ds /\ t.route = state.route
  BY <1>3 DEF Sound, Outbox
<1>5. ASSUME NEW m \in Message
      PROVE  /\ Stays(state.deliveries[m], Erase(state.deliveries[m]))
             /\ Erase(state.deliveries[m]).status = "none" \/ Erase(state.deliveries[m]).invalidated
  <2>1. state.deliveries[m] \in Delivery
    BY <1>1
  <2> QED BY <2>1 DEF Erase, Stays, Delivery, Waiting, Ended
<1>6. \A m \in Message : t.deliveries[m] = Erase(state.deliveries[m])
  BY <1>4
<1>7. state.route \in Route
  BY DEF Sound, Outbox
<1> HIDE DEF ds
<1> QED BY <1>2, <1>4, <1>5, <1>6, <1>7, NotificationsAssumption DEF Fine, Beside, Route

\* The change of the route.
LEMMA MoveFine ==
  ASSUME Sound(state), NEW b \in Binding, state.route < MaxRoutes
  PROVE  Fine(Move(state, b)) /\ Beside(Move(state, b))
<1> DEFINE t == [state EXCEPT !.primary = b, !.route = @ + 1]
           e(d) == IF ~Movable(d) THEN d
                   ELSE IF ~SameAccount(state, d) THEN [d EXCEPT !.status = "blocked"]
                   ELSE IF d.invalidated THEN [d EXCEPT !.status = "superseded"]
                   ELSE Enqueued(t, b)
           ds == [m \in Message |-> e(state.deliveries[m])]
<1>1. /\ t \in Outbox /\ t.route = state.route + 1 /\ state.route \in Nat
      /\ \A f \in [Message -> Delivery] : /\ [t EXCEPT !.deliveries = f] \in Outbox
                                          /\ [t EXCEPT !.deliveries = f].deliveries = f
                                          /\ [t EXCEPT !.deliveries = f].route = state.route + 1
  <2>1. \A s \in Outbox, f \in [Message -> Delivery] :
          /\ [s EXCEPT !.deliveries = f] \in Outbox /\ [s EXCEPT !.deliveries = f].deliveries = f
          /\ [s EXCEPT !.deliveries = f].route = s.route
    BY DEF Outbox
  <2>2. ASSUME NEW s \in Outbox, s.route < MaxRoutes
        PROVE  /\ [s EXCEPT !.primary = b, !.route = @ + 1] \in Outbox
               /\ [s EXCEPT !.primary = b, !.route = @ + 1].route = s.route + 1 /\ s.route \in Nat
    <3>1. s.route + 1 \in Route /\ s.route \in Nat
      BY <2>2, NotificationsAssumption DEF Outbox, Route
    <3>2. \A r \in Route : /\ [s EXCEPT !.primary = b, !.route = r] \in Outbox
                           /\ [s EXCEPT !.primary = b, !.route = r].route = r
      BY DEF Outbox
    <3> QED BY <3>1, <3>2
  <2>3. t \in Outbox /\ t.route = state.route + 1 /\ state.route \in Nat
    BY <2>2 DEF Sound
  <2> HIDE DEF t
  <2> QED BY <2>1, <2>3
<1>2. Move(state, b) = [t EXCEPT !.deliveries = ds]
  BY DEF Move
<1> HIDE DEF t
<1>3. ASSUME NEW m \in Message
      PROVE  LET d == state.deliveries[m] IN Follows(d, e(d), t.route) /\ Stays(d, e(d))
  <2> DEFINE d == state.deliveries[m]
  <2>1. d \in Delivery /\ DeliveryAgrees(d, state.route)
    BY DEF Sound, Outbox
  <2>2. DeliveryAgrees(d, t.route)
    BY <1>1, <2>1 DEF DeliveryAgrees, Delivery, Route
  <2>3. Stays(d, d)
    BY <2>1 DEF Stays
  <2>4. CASE ~Movable(d)
    BY <2>1, <2>2, <2>3, <2>4, SameFollows
  <2>5. CASE Movable(d)
    <3>1. d.status \in Waiting /\ d.receipts = 0
      BY <2>1, <2>5 DEF Movable, Uncertain, Delivery, Status, Waiting, Ended
    <3>2. ASSUME NEW x \in {"blocked", "superseded"}
          PROVE  Follows(d, [d EXCEPT !.status = x], t.route) /\ Stays(d, [d EXCEPT !.status = x])
      <4>1. Follows(d, [d EXCEPT !.status = x], t.route)
        BY <2>1, <2>2, <3>1, StatusFollows DEF Status, Waiting, Ended
      <4> QED BY <2>1, <3>1, <4>1 DEF Stays, Delivery, Waiting, Ended
    <3>3. CASE ~d.invalidated
      <4>1. Follows(d, Enqueued(t, b), t.route)
        BY <1>1, <2>1, <3>1, EnqueuedAgrees DEF Follows, Unsent, Waiting
      <4>2. Enqueued(t, b).route > state.route
        BY <1>1, EnqueuedAgrees
      <4>3. d.route <= state.route /\ d.route \in Nat
        BY <2>1 DEF DeliveryAgrees, Delivery, Route
      <4>4. Stays(d, Enqueued(t, b))
        BY <1>1, <3>1, <3>3, <4>2, <4>3 DEF Stays, Waiting
      <4> QED BY <2>5, <3>2, <3>3, <4>1, <4>4
    <3> QED BY <2>5, <3>2, <3>3
  <2> QED BY <2>4, <2>5
<1>4. \A m \in Message : e(state.deliveries[m]) \in Delivery
  BY <1>3 DEF Follows
<1>5. ds \in [Message -> Delivery] /\ \A m \in Message : ds[m] = e(state.deliveries[m])
  BY <1>4
<1> HIDE DEF e, ds
<1>6. Move(state, b).route = state.route + 1 /\ Move(state, b).deliveries = ds
      /\ Move(state, b) \in Outbox
  BY <1>1, <1>2, <1>5
<1>7. Fine(Move(state, b))
  BY <1>1, <1>3, <1>5, <1>6 DEF Fine
<1>8. Beside(Move(state, b))
  BY <1>1, <1>3, <1>5, <1>6 DEF Beside
<1> QED BY <1>7, <1>8

\* The next generation of the account.
LEMMA BindFine ==
  ASSUME Sound(state), state.account < MaxAccounts,
         NEW t, t = [state EXCEPT !.account = @ + 1]
  PROVE  Fine(t) /\ Beside(t)
<1>1. t \in Outbox /\ t.deliveries = state.deliveries /\ t.route = state.route
  BY NotificationsAssumption DEF Sound, Outbox
<1> QED BY <1>1, SameFine, SameBeside DEF Fine, Beside

\* The admission of a message.
LEMMA AdmitFine ==
  ASSUME Sound(state), NEW m \in Message
  PROVE  Fine(Admit(state, m)) /\ Admit(state, m).deliveries[m].status # "none"
         /\ Admit(state, m).route = state.route
<1>1. CASE state.deliveries[m].status # "none"
  BY <1>1, SameFine DEF Admit
<1>2. CASE state.deliveries[m].status = "none"
  <2> DEFINE e(n) == IF n = m THEN Enqueued(state, state.primary)
                     ELSE IF Movable(state.deliveries[n])
                          THEN [state.deliveries[n] EXCEPT !.status = "superseded"]
                          ELSE state.deliveries[n]
             ds == [n \in Message |-> e(n)]
  <2>1. state \in Outbox /\ state.primary \in Binding
    BY DEF Sound, Outbox
  <2>2. ASSUME NEW n \in Message
        PROVE  Follows(state.deliveries[n], e(n), state.route)
    <3> DEFINE d == state.deliveries[n]
    <3>1. d \in Delivery /\ DeliveryAgrees(d, state.route)
      BY DEF Sound, Outbox
    <3>2. CASE n = m
      <4>1. Unsent(d)
        BY <1>2, <3>1, <3>2, NotificationsAssumption DEF DeliveryAgrees, NoDelivery, Unsent
      <4> QED BY <2>1, <3>2, <4>1, EnqueuedAgrees DEF Follows
    <3>3. CASE n # m /\ Movable(d)
      <4>1. d.status \in Waiting
        BY <3>1, <3>3 DEF Movable, Uncertain, Delivery, Status, Waiting, Ended
      <4>2. Follows(d, [d EXCEPT !.status = "superseded"], state.route)
        BY <3>1, <4>1, StatusFollows DEF Status, Waiting, Ended
      <4> QED BY <3>3, <4>2
    <3>4. CASE n # m /\ ~Movable(d)
      BY <3>1, <3>4, SameFollows
    <3> QED BY <3>2, <3>3, <3>4
  <2>3. ds \in [Message -> Delivery] /\ \A n \in Message : ds[n] = e(n)
    BY <2>2 DEF Follows
  <2>4. Admit(state, m) = [state EXCEPT !.deliveries = ds]
    BY <1>2 DEF Admit
  <2>5. e(m).status # "none"
    BY <2>1, EnqueuedAgrees
  <2> HIDE DEF e, ds
  <2>6. Admit(state, m) \in Outbox /\ Admit(state, m).deliveries = ds
        /\ Admit(state, m).route = state.route
    BY <2>1, <2>3, <2>4 DEF Outbox
  <2> QED BY <2>2, <2>3, <2>5, <2>6 DEF Fine
<1> QED BY <1>1, <1>2

\* The restart: what was under way is of unknown fate.
LEMMA OpenFollows ==
  ASSUME StoreAgrees, PortsAgree, Restart
  PROVE  /\ StoreAgrees'
         /\ \A m \in Message : state.deliveries[m].status # "none" => state'.deliveries[m].status # "none"
<1> DEFINE e(m) == IF disk.deliveries[m].status = "sending"
                   THEN [disk.deliveries[m] EXCEPT !.status = "unknown"] ELSE disk.deliveries[m]
           ds == [m \in Message |-> e(m)]
<1>1. disk \in Outbox
  BY DEF StoreAgrees, Sound
<1>2. ASSUME NEW m \in Message
      PROVE  /\ Follows(disk.deliveries[m], e(m), disk.route)
             /\ disk.deliveries[m].status # "none" => e(m).status # "none"
  <2>1. disk.deliveries[m] \in Delivery /\ DeliveryAgrees(disk.deliveries[m], disk.route)
    BY DEF StoreAgrees, Sound, Outbox
  <2> QED BY <2>1, SameFollows, StatusFollows DEF Status, Follows
<1>3. ds \in [Message -> Delivery] /\ \A m \in Message : ds[m] = e(m)
  BY <1>2 DEF Follows
<1>4. Open(disk) = [disk EXCEPT !.deliveries = ds]
  BY DEF Open
<1>5. \A m \in Message : CountsAgree(e(m), m)
  <2>1. \A m \in Message : disk.deliveries[m] \in Delivery /\ CountsAgree(disk.deliveries[m], m)
    BY <1>1 DEF StoreAgrees, Counted, Outbox
  <2> HIDE DEF e
  <2> QED BY <1>2, <2>1, CountsFollow
<1> HIDE DEF e, ds
<1>6. Open(disk) \in Outbox /\ Open(disk).deliveries = ds /\ Open(disk).route = disk.route
  BY <1>1, <1>3, <1>4 DEF Outbox
<1>7. Sound(Open(disk)) /\ Counted(Open(disk))
  BY <1>2, <1>3, <1>5, <1>6 DEF Sound, Counted, Follows
<1>8. state' = Open(disk) /\ disk' = Open(disk) /\ UNCHANGED <<landed, confirms>>
  BY DEF Restart
<1>9. Counted(state)' /\ Counted(disk)'
  BY <1>7, <1>8 DEF Counted, CountsAgree, Landed
<1> QED BY <1>2, <1>3, <1>6, <1>7, <1>8, <1>9 DEF StoreAgrees, FileKnows

-----------------------------------------------------------------------------
(* Steps beside the run. *)

\* They leave the run what it knows of its delivery.
LEMMA BesideKeeps ==
  ASSUME IInv, NEW t, Sound(t), Beside(t), Saved(t) \/ Unsaved(t), UNCHANGED <<relay, landed>>,
         \A m \in Message : state.deliveries[m].status # "none" => t.deliveries[m].status # "none"
  PROVE  /\ RelayAgrees' /\ state'.route >= state.route
         /\ \A m \in Message : state.deliveries[m].status # "none" => state'.deliveries[m].status # "none"
         /\ \A m \in Message : Withdrawn(m) => Withdrawn(m)'
         /\ (relay.pc = "claim" /\ Superseded(state)) => Superseded(state)'
<1>1. Sound(state) /\ FileKnows /\ RelayAgrees /\ PortsAgree
  BY DEF IInv, StoreAgrees
<1>2. state' \in {state, t} /\ disk' \in {disk, t}
  BY DEF Saved, Unsaved
<1>3. Beside(state') /\ \A m \in Message : state'.deliveries[m] \in Delivery
  BY <1>1, <1>2, SameBeside DEF Sound, Outbox
<1>4. state \in Outbox /\ state'.route >= state.route /\ state.route \in Nat
      /\ state'.route \in Nat
      /\ \A m \in Message : /\ Stays(state.deliveries[m], state'.deliveries[m])
                            /\ state.deliveries[m].route <= state.route
                            /\ state.deliveries[m] \in Delivery
  <2>1. state' \in Outbox
    BY <1>1, <1>2 DEF Sound
  <2> QED BY <1>1, <1>3, <2>1, NotificationsAssumption DEF Sound, Beside, Outbox, Route, DeliveryAgrees
<1>5. \A m \in Message : state.deliveries[m].status # "none" => state'.deliveries[m].status # "none"
  BY <1>2
<1>6. \A m \in Message : Withdrawn(m) => Withdrawn(m)'
  BY <1>4 DEF Withdrawn, Stays
<1>7. relay \in Relay
  BY <1>1 DEF PortsAgree
<1>8. ASSUME relay.pc \in AtWork, Superseded(state)
      PROVE  Superseded(state)'
  BY <1>1, <1>4, <1>7, <1>8, NotificationsAssumption DEF Superseded, Stays, RelayAgrees, AtWork, Delivery, Route, Relay
<1>9. RelayAgrees'
  <2> DEFINE m == relay.message
             d == state.deliveries[m]
             e == state'.deliveries[m]
  <2>1. relay' = relay /\ landed' = landed
    OBVIOUS
  <2>2. relay.pc \in AtWork => m \in Message /\ relay.route <= state'.route
    BY <1>1, <1>4, <1>7, NotificationsAssumption DEF RelayAgrees, Relay, Route
  <2>3. relay.pc = "clear" => m \in Message /\ state'.deliveries[m].status # "none"
    BY <1>1, <1>5 DEF RelayAgrees
  <2>4. ASSUME relay.pc \in {"check", "claim"}
        PROVE  (Superseded(state) \/ Current.invalidated \/ Current.prepared
                 \/ Current.status \in Ended)'
    <3>1. m \in Message /\ Stays(d, e)
      BY <1>4, <2>2, <2>4 DEF AtWork
    <3>2. CASE Superseded(state)
      BY <1>8, <2>4, <3>2 DEF AtWork
    <3>3. CASE ~Superseded(state)
      <4>1. d.invalidated \/ d.prepared \/ d.status \in Ended
        BY <1>1, <2>4, <3>3 DEF RelayAgrees, Current
      <4> QED BY <2>1, <3>1, <3>3, <4>1 DEF Superseded, Current, Stays
    <3> QED BY <3>2, <3>3
  <2>5. ASSUME relay.pc \in {"probe", "check", "claim"}
         PROVE  (Superseded(state) \/ Current.status \in Waiting \cup Ended)'
    <3>1. m \in Message /\ Stays(d, e)
      BY <1>4, <2>2, <2>5 DEF AtWork
    <3>2. CASE Superseded(state)
      BY <1>8, <2>5, <3>2 DEF AtWork
    <3>3. CASE ~Superseded(state)
      <4>1. d.status \in Waiting \cup Ended
        BY <1>1, <2>5, <3>3 DEF RelayAgrees, Current
      <4> QED BY <2>1, <3>1, <3>3, <4>1 DEF Superseded, Current, Stays
    <3> QED BY <3>2, <3>3
  <2>6. ASSUME relay.pc = "send"
        PROVE  (/\ Current.status = "sending" /\ Current.prepared /\ ~Superseded(state)
                /\ landed[relay.message][Current.receipts + 1][Current.binding] > 0)'
    <3>1. m \in Message /\ Stays(d, e)
      BY <1>4, <2>2, <2>6 DEF AtWork
    <3> QED BY <1>1, <2>1, <2>6, <3>1 DEF RelayAgrees, Current, Superseded, Stays
  <2> QED BY <2>1, <2>2, <2>3, <2>4, <2>5, <2>6 DEF RelayAgrees
<1> QED BY <1>4, <1>5, <1>6, <1>8, <1>9 DEF AtWork

\* What a fine transaction makes is sound.
LEMMA FineSound == ASSUME NEW t, Fine(t)
                   PROVE  Sound(t)
BY DEF Fine, Follows, Sound

\* While the feed stays as it is, an intent that is gone still has its message.
LEMMA IntentsStay ==
  ASSUME IInv, feed'.revision = feed.revision, feed'.dismissed = feed.dismissed,
         feed'.intents = feed.intents,
         \A m \in Message : state.deliveries[m].status # "none" => state'.deliveries[m].status # "none"
  PROVE  IntentAgrees'
<1>1. 1..feed.revision \subseteq Message
  BY NotificationsAssumption DEF IInv, PortsAgree, Message
<1> QED BY <1>1 DEF IInv, IntentAgrees

\* A step beside the run that leaves the feed and the confirmations alone.
LEMMA BesideStep ==
  ASSUME IInv, NEW t, Fine(t), Beside(t), Saved(t) \/ Unsaved(t),
         UNCHANGED <<relay, feed, landed, confirms>>
  PROVE  IInv'
<1>1. StoreAgrees' /\ faults' \in 0..MaxFaults
  BY StoreKept DEF IInv
<1>2. /\ RelayAgrees'
      /\ \A m \in Message : state.deliveries[m].status # "none" => state'.deliveries[m].status # "none"
      /\ \A m \in Message : Withdrawn(m) => Withdrawn(m)'
      /\ relay.pc = "claim" /\ Superseded(state) => Superseded(state)'
  <2>1. Sound(t)
    BY FineSound
  <2>2. \A m \in Message : state.deliveries[m].status # "none" => t.deliveries[m].status # "none"
    BY DEF Fine, Follows
  <2> QED BY <2>1, <2>2, BesideKeeps
<1>3. PortsAgree'
  BY <1>1 DEF IInv, PortsAgree
<1>4. relay.pc = "claim" => relay.message \in Message
  BY DEF IInv, RelayAgrees, AtWork
<1>5. DismissalAgrees'
  BY <1>2, <1>4 DEF IInv, DismissalAgrees
<1>6. IntentAgrees'
  BY <1>2, IntentsStay
<1> QED BY <1>1, <1>2, <1>3, <1>5, <1>6 DEF IInv

\* configure: the move to another channel.
LEMMA ConfigureStep ==
  ASSUME IInv, NEW b \in Binding, Configure(b)
  PROVE  IInv'
<1>1. Fine(Move(state, b)) /\ Beside(Move(state, b))
  BY MoveFine DEF IInv, StoreAgrees, Configure
<1> QED BY <1>1, BesideStep DEF Configure

\* bind: another account behind the IM channel.
LEMMA BindStep ==
  ASSUME IInv, Bind
  PROVE  IInv'
<1> DEFINE t == [state EXCEPT !.account = @ + 1]
<1>1. Fine(t) /\ Beside(t)
  BY BindFine DEF IInv, StoreAgrees, Bind
<1>2. (Saved(t) \/ Unsaved(t)) /\ UNCHANGED <<relay, feed, landed, confirms>>
  BY DEF Bind
<1> HIDE DEF t
<1> QED BY <1>1, <1>2, BesideStep

\* invalidate, the first half of a dismissal: every message is withdrawn.
LEMMA InvalidateStep ==
  ASSUME IInv, Invalidate
  PROVE  IInv'
<1> DEFINE t == [state EXCEPT !.deliveries = [m \in Message |-> Erase(state.deliveries[m])]]
<1>1. /\ Fine(t) /\ Beside(t)
      /\ \A m \in Message : t.deliveries[m].status = "none" \/ t.deliveries[m].invalidated
  BY InvalidateFine DEF IInv, StoreAgrees
<1>2. /\ ~feed.dismissing /\ ~feed.dismissed
      /\ \/ Saved(t) /\ feed' = [feed EXCEPT !.dismissing = TRUE]
         \/ Unsaved(t) /\ UNCHANGED feed
      /\ UNCHANGED <<relay, landed, confirms>>
  BY DEF Invalidate
<1> HIDE DEF t
<1>3. StoreAgrees' /\ faults' \in 0..MaxFaults
  BY <1>1, <1>2, StoreKept DEF IInv
<1>4. /\ RelayAgrees'
      /\ \A m \in Message : state.deliveries[m].status # "none" => state'.deliveries[m].status # "none"
  BY <1>1, <1>2, BesideKeeps, FineSound DEF Fine, Follows
<1>5. PortsAgree' /\ feed'.dismissed = feed.dismissed /\ feed'.revision = feed.revision
      /\ feed'.intents = feed.intents
  BY <1>2, <1>3 DEF IInv, PortsAgree
<1>6. DismissalAgrees'
  BY <1>1, <1>2, <1>5 DEF DismissalAgrees, Saved, Withdrawn
<1>7. IntentAgrees'
  BY <1>4, <1>5, IntentsStay
<1> QED BY <1>3, <1>4, <1>5, <1>6, <1>7 DEF IInv

\* A resend; of a delivery of unknown fate the user confirms it.
LEMMA RetryStep ==
  ASSUME IInv, NEW m \in Message, Retry(m)
  PROVE  IInv'
<1> DEFINE d == state.deliveries[m]
           e == [d EXCEPT !.status = "pending"]
           t == Change(state, m, e)
<1>1. /\ d.status \in Waiting \cup {"unknown"}
      /\ Saved(t) \/ Unsaved(t)
      /\ d.status = "unknown" => confirms[m] < MaxConfirms
      /\ confirms' = [confirms EXCEPT ![m] = IF d.status = "unknown" THEN @ + 1 ELSE @]
      /\ UNCHANGED <<relay, feed, landed>>
  BY DEF Retry, Change
<1>2. /\ state \in Outbox /\ d \in Delivery /\ DeliveryAgrees(d, state.route)
      /\ Sound(state) /\ Sound(disk) /\ PortsAgree
      /\ \A n \in Message : state.deliveries[n] \in Delivery
  BY DEF IInv, StoreAgrees, Sound, Outbox
<1>3. e \in Delivery /\ DeliveryAgrees(e, state.route) /\ Stays(d, e) /\ e.status # "none"
  BY <1>1, <1>2 DEF Delivery, DeliveryAgrees, Stays, Status, Waiting, Ended, PartsOf
<1>4. /\ t \in Outbox /\ t.route = state.route
      /\ \A n \in Message : t.deliveries[n] = IF n = m THEN e ELSE state.deliveries[n]
  BY <1>2, <1>3 DEF Change, Outbox
<1> HIDE DEF e, t
<1>5. Sound(t) /\ Beside(t)
  <2>1. Beside(state)
    BY <1>2, SameBeside
  <2> QED BY <1>2, <1>3, <1>4, <2>1 DEF Sound, Beside
<1>6. /\ RelayAgrees'
      /\ \A n \in Message : state.deliveries[n].status # "none" => state'.deliveries[n].status # "none"
      /\ \A n \in Message : Withdrawn(n) => Withdrawn(n)'
      /\ relay.pc = "claim" /\ Superseded(state) => Superseded(state)'
  <2>1. \A n \in Message : state.deliveries[n].status # "none" => t.deliveries[n].status # "none"
    BY <1>3, <1>4
  <2> QED BY <1>1, <1>5, <2>1, BesideKeeps
<1>7. CASE d.status # "unknown"
  <2>1. Follows(d, e, state.route)
    BY <1>1, <1>2, <1>7, StatusFollows DEF e, Waiting, Status
  <2>2. Fine(t)
    BY <1>2, <2>1, ChangeFine DEF t
  <2>3. confirms' = confirms
    BY <1>1, <1>2, <1>7 DEF PortsAgree
  <2> QED BY <1>1, <1>5, <2>2, <2>3, BesideStep
<1>8. CASE d.status = "unknown"
  <2>1. /\ confirms'[m] = confirms[m] + 1 /\ confirms[m] \in Nat
        /\ \A n \in Message : n # m => confirms'[n] = confirms[n]
        /\ confirms' \in [Message -> 0..MaxConfirms]
    BY <1>1, <1>2, <1>8, NotificationsAssumption DEF PortsAgree
  <2>2. /\ state' \in {state, t} /\ disk' \in {disk, t} /\ faults' \in 0..MaxFaults
        /\ (state' = t /\ t # state => disk' = t)
    BY <1>1, <1>2, NotificationsAssumption DEF Saved, Unsaved, PortsAgree
  <2>3. ASSUME NEW s \in {state, disk, t}, NEW n \in Message
        PROVE  CountsAgree(s.deliveries[n], n)'
    <3>1. CASE n = m
      <4>1. ASSUME NEW p \in 1..Parts
            PROVE  Landed(m, p) <= confirms'[m]
        <5>1. Landed(m, p) <= confirms[m] + (IF Covered(d, p) THEN 1 ELSE 0)
          BY DEF IInv, StoreAgrees, Counted, CountsAgree
        <5> QED BY <1>2, <2>1, <5>1, CountsTyped
      <4>2. \A p \in 1..Parts : Landed(m, p) \in Nat
        BY <1>2, CountsTyped
      <4> QED BY <1>1, <2>1, <3>1, <4>1, <4>2 DEF CountsAgree, Landed
    <3>2. CASE n # m
      <4>1. CountsAgree(s.deliveries[n], n)
        BY <1>4, <3>2 DEF IInv, StoreAgrees, Counted
      <4> QED BY <1>1, <2>1, <3>2, <4>1 DEF CountsAgree, Landed
    <3> QED BY <3>1, <3>2
  <2>4. Counted(state)' /\ Counted(disk)'
    <3>1. \A n \in Message : CountsAgree(state.deliveries[n], n)' /\ CountsAgree(disk.deliveries[n], n)'
      BY <2>2, <2>3 DEF CountsAgree, Landed
    <3> QED BY <3>1 DEF Counted
  <2>5. Sound(state') /\ Sound(disk')
    BY <1>2, <1>5, <2>2
  <2>6. FileKnows'
    BY <1>3, <1>4, <2>2 DEF IInv, StoreAgrees, FileKnows
  <2>7. PortsAgree'
    BY <1>1, <1>2, <2>1, <2>2 DEF PortsAgree
  <2>8. relay.pc = "claim" => relay.message \in Message
    BY DEF IInv, RelayAgrees, AtWork
  <2>9. DismissalAgrees'
    BY <1>1, <1>6, <2>8 DEF IInv, DismissalAgrees
  <2>10. IntentAgrees'
    BY <1>1, <1>6, IntentsStay
  <2> QED BY <1>6, <2>4, <2>5, <2>6, <2>7, <2>9, <2>10 DEF IInv, StoreAgrees
<1> QED BY <1>7, <1>8

-----------------------------------------------------------------------------
(* The feed, and the steps of the run that write nothing. *)

\* The store stays as it is.
LEMMA StoreStays ==
  ASSUME IInv, UNCHANGED <<state, disk, landed, confirms>>
  PROVE  /\ StoreAgrees'
         /\ \A m \in Message : Withdrawn(m) => Withdrawn(m)'
BY DEF IInv, StoreAgrees, FileKnows, Sound, Counted, CountsAgree, Landed, Withdrawn

\* #commit of a revision: the new intent is written with it.
LEMMA ReviseStep ==
  ASSUME IInv, Revise
  PROVE  IInv'
<1>1. /\ UNCHANGED <<state, disk, relay, faults, landed, confirms>>
      /\ ~feed.dismissing /\ ~feed.dismissed /\ feed.revision + 1 \in Message
      /\ feed' = [feed EXCEPT !.revision = @ + 1, !.intents = @ \cup {feed.revision + 1}]
  BY NotificationsAssumption DEF Revise, IInv, PortsAgree, Message
<1>2. /\ feed \in [revision : 0..Revisions, dismissed : BOOLEAN, dismissing : BOOLEAN,
                   intents : SUBSET Message]
      /\ feed.revision + 1 \in 0..Revisions
  BY <1>1 DEF IInv, PortsAgree, Message
<1>3. /\ feed'.revision = feed.revision + 1 /\ feed'.intents = feed.intents \cup {feed.revision + 1}
      /\ ~feed'.dismissing /\ ~feed'.dismissed
      /\ feed' \in [revision : 0..Revisions, dismissed : BOOLEAN, dismissing : BOOLEAN,
                    intents : SUBSET Message]
  BY <1>1, <1>2
<1>4. PortsAgree'
  BY <1>1, <1>3 DEF IInv, PortsAgree
<1>5. RelayAgrees'
  BY <1>1 DEF IInv, RelayAgrees, Superseded, Current
<1>6. DismissalAgrees'
  BY <1>3 DEF DismissalAgrees
<1>7. IntentAgrees'
  <2>1. \A m \in 1..(feed.revision + 1) : m \in 1..feed.revision \/ m = feed.revision + 1
    BY <1>2
  <2> QED BY <1>1, <1>3, <2>1 DEF IInv, IntentAgrees
<1> QED BY <1>1, <1>4, <1>5, <1>6, <1>7, StoreStays DEF IInv

\* The second half of a dismissal: whatever a pass holds is withdrawn by now.
LEMMA CommitDismissalStep ==
  ASSUME IInv, CommitDismissal
  PROVE  IInv'
<1>1. UNCHANGED <<state, disk, relay, landed, confirms>> /\ feed.dismissing
  BY DEF CommitDismissal
<1>2. feed \in [revision : 0..Revisions, dismissed : BOOLEAN, dismissing : BOOLEAN,
                intents : SUBSET Message]
  BY DEF IInv, PortsAgree
<1>3. /\ feed' \in [revision : 0..Revisions, dismissed : BOOLEAN, dismissing : BOOLEAN,
                    intents : SUBSET Message]
      /\ feed'.revision = feed.revision /\ ~feed'.dismissing
      /\ feed'.dismissed \/ (feed'.dismissed = feed.dismissed /\ feed'.intents = feed.intents)
      /\ faults' \in 0..MaxFaults
  <2>1. faults \in 0..MaxFaults
    BY DEF IInv, PortsAgree
  <2>2. CASE faults < MaxFaults /\ faults' = faults + 1 /\ feed' = [feed EXCEPT !.dismissing = FALSE]
    <3>1. faults' \in 0..MaxFaults
      BY <2>1, <2>2, NotificationsAssumption
    <3>2. feed' = [feed EXCEPT !.dismissing = FALSE]
      BY <2>2
    <3> QED BY <1>2, <3>1, <3>2
  <2>3. CASE /\ feed' = [feed EXCEPT !.dismissing = FALSE, !.dismissed = TRUE, !.intents = {}]
             /\ UNCHANGED faults
    BY <1>2, <2>1, <2>3
  <2> QED BY <2>2, <2>3 DEF CommitDismissal
<1>4. PortsAgree'
  BY <1>1, <1>3 DEF IInv, PortsAgree
<1>5. RelayAgrees'
  BY <1>1 DEF IInv, RelayAgrees, Superseded, Current
<1>6. DismissalAgrees'
  BY <1>1, <1>3 DEF IInv, DismissalAgrees, Withdrawn, RelayAgrees, AtWork
<1>7. IntentAgrees'
  BY <1>1, <1>3 DEF IInv, IntentAgrees
<1> QED BY <1>1, <1>4, <1>5, <1>6, <1>7, StoreStays DEF IInv

\* What the run is when it goes on.
LEMMA RunForms ==
  ASSUME IInv
  PROVE  /\ Idle \in Relay /\ Idle.pc = "idle"
         /\ NextId \in Relay /\ NextId.pc = "dispatch"
         /\ \A pc \in {"probe", "check", "claim", "send"} :
              /\ At(pc) \in Relay /\ At(pc).pc = pc
              /\ At(pc).message = relay.message /\ At(pc).route = relay.route
         /\ \A ids \in SUBSET (Message \X Route) :
              [relay EXCEPT !.ids = ids] \in Relay /\ [relay EXCEPT !.ids = ids].pc = relay.pc
<1>1. relay \in Relay
  BY DEF IInv, PortsAgree
<1>2. Idle \in Relay /\ Idle.pc = "idle"
  BY NotificationsAssumption DEF Idle, Relay, Route
<1>3. NextId \in Relay /\ NextId.pc = "dispatch"
  <2>1. 0 \in Route
    BY NotificationsAssumption DEF Route
  <2> QED BY <1>1, <2>1 DEF NextId, Relay
<1> QED BY <1>1, <1>2, <1>3 DEF At, Relay

\* A step of the run: its place, what it knows, and what stays withdrawn.
LEMMA RunStep ==
  ASSUME IInv, StoreAgrees', relay' \in Relay, faults' \in 0..MaxFaults, UNCHANGED <<feed, confirms>>,
         landed' \in [Message -> [1..Parts -> [Binding -> Nat]]],
         RelayAgrees',
         relay.pc # "clear" \/ ~feed.dismissing,
         relay'.pc = "claim" => ~feed.dismissed,
         relay'.pc = "clear" \/ \A m \in Message : Withdrawn(m) => Withdrawn(m)',
         \A m \in Message : state.deliveries[m].status # "none" => state'.deliveries[m].status # "none"
  PROVE  IInv'
<1>1. PortsAgree'
  BY DEF IInv, PortsAgree
<1>2. DismissalAgrees'
  BY DEF IInv, DismissalAgrees
<1> QED BY <1>1, <1>2, IntentsStay DEF IInv

\* The steps that look for work.
LEMMA LookSteps ==
  ASSUME IInv, Flush \/ Dispatch \/ PassOver \/ \E m \in Message, r \in Route : Skip(m, r)
  PROVE  IInv'
<1> DEFINE todo == [Idle EXCEPT !.pc = "admit", !.todo = feed.intents]
           ids == {<<m, state.deliveries[m].route>> :
                     m \in {n \in Message : state.deliveries[n].status \in Waiting}}
<1>1. UNCHANGED <<state, disk, feed, faults, landed, confirms>>
  BY DEF Flush, Dispatch, PassOver, Skip
<1>2. relay \in Relay /\ feed.intents \in SUBSET Message /\ Idle \in Relay
  BY RunForms DEF IInv, PortsAgree
<1>3. todo \in Relay /\ todo.pc = "admit"
  <2>1. \A r \in Relay, is \in SUBSET Message :
          /\ [r EXCEPT !.pc = "admit", !.todo = is] \in Relay
          /\ [r EXCEPT !.pc = "admit", !.todo = is].pc = "admit"
    BY DEF Relay
  <2> QED BY <1>2, <2>1
<1>4. ids \in SUBSET (Message \X Route)
  BY DEF IInv, StoreAgrees, Sound, Outbox, Delivery
<1> HIDE DEF todo, ids
<1>5. /\ relay' \in Relay /\ relay'.pc \in {"idle", "admit", "dispatch"}
      /\ relay.pc \in {"idle", "admit", "dispatch"}
  <2>1. CASE Flush
    BY <1>3, <2>1 DEF Flush, todo
  <2>2. CASE Dispatch
    <3>1. relay' = [relay EXCEPT !.pc = "dispatch", !.ids = ids] /\ relay.pc = "admit"
      BY <2>2 DEF Dispatch, ids
    <3> QED BY <1>2, <1>4, <3>1 DEF Relay
  <2>3. CASE PassOver
    BY <1>3, <2>3, RunForms DEF PassOver, todo
  <2>4. CASE \E m \in Message, r \in Route : Skip(m, r)
    BY <1>2, <2>4 DEF Skip, Relay
  <2> QED BY <2>1, <2>2, <2>3, <2>4
<1>6. RelayAgrees'
  BY <1>5 DEF RelayAgrees, AtWork
<1>7. StoreAgrees' /\ \A m \in Message : Withdrawn(m) => Withdrawn(m)'
  BY <1>1, StoreStays
<1>8. faults \in 0..MaxFaults /\ landed \in [Message -> [1..Parts -> [Binding -> Nat]]]
  BY DEF IInv, PortsAgree
<1> QED BY <1>1, <1>5, <1>6, <1>7, <1>8, RunStep

\* The intent is deleted only when its message is in the outbox.
LEMMA ClearIntentStep ==
  ASSUME IInv, ClearIntent
  PROVE  IInv'
<1>1. /\ UNCHANGED <<state, disk, faults, landed, confirms>>
      /\ relay.pc = "clear" /\ ~feed.dismissing
      /\ feed' = [feed EXCEPT !.intents = @ \ {relay.message}]
      /\ relay' = [relay EXCEPT !.pc = "admit", !.message = 0]
  BY DEF ClearIntent
<1>2. /\ feed \in [revision : 0..Revisions, dismissed : BOOLEAN, dismissing : BOOLEAN,
                   intents : SUBSET Message]
      /\ relay \in Relay
  BY DEF IInv, PortsAgree
<1>3. /\ feed' \in [revision : 0..Revisions, dismissed : BOOLEAN, dismissing : BOOLEAN,
                    intents : SUBSET Message]
      /\ feed'.revision = feed.revision /\ feed'.dismissed = feed.dismissed
      /\ ~feed'.dismissing /\ feed'.intents = feed.intents \ {relay.message}
  BY <1>1, <1>2
<1>4. relay' \in Relay /\ relay'.pc = "admit"
  BY <1>1, <1>2 DEF Relay
<1>5. PortsAgree'
  BY <1>1, <1>3, <1>4 DEF IInv, PortsAgree
<1>6. RelayAgrees'
  BY <1>4 DEF RelayAgrees, AtWork
<1>7. DismissalAgrees'
  BY <1>3, <1>4 DEF DismissalAgrees
<1>8. IntentAgrees'
  BY <1>1, <1>3 DEF IInv, IntentAgrees, RelayAgrees
<1> QED BY <1>1, <1>5, <1>6, <1>7, <1>8, StoreStays DEF IInv

\* The process is started again from the file.
LEMMA RestartStep ==
  ASSUME IInv, Restart
  PROVE  IInv'
<1>1. /\ relay' = Idle /\ feed' = [feed EXCEPT !.dismissing = FALSE]
      /\ faults' \in 0..MaxFaults /\ UNCHANGED <<landed, confirms>>
  BY NotificationsAssumption DEF Restart, IInv, PortsAgree
<1>2. StoreAgrees'
      /\ \A m \in Message : state.deliveries[m].status # "none" => state'.deliveries[m].status # "none"
  BY OpenFollows DEF IInv
<1>3. feed \in [revision : 0..Revisions, dismissed : BOOLEAN, dismissing : BOOLEAN,
                intents : SUBSET Message]
  BY DEF IInv, PortsAgree
<1>4. /\ feed' \in [revision : 0..Revisions, dismissed : BOOLEAN, dismissing : BOOLEAN,
                    intents : SUBSET Message]
      /\ feed'.revision = feed.revision /\ feed'.dismissed = feed.dismissed
      /\ ~feed'.dismissing /\ feed'.intents = feed.intents
  BY <1>1, <1>3
<1>5. PortsAgree'
  BY <1>1, <1>4, RunForms DEF IInv, PortsAgree
<1>6. RelayAgrees' /\ DismissalAgrees'
  BY <1>1, <1>4, RunForms DEF RelayAgrees, DismissalAgrees, AtWork
<1> QED BY <1>2, <1>4, <1>5, <1>6, IntentsStay DEF IInv

-----------------------------------------------------------------------------
(* The transactions of the run. *)

\* A transaction of the run that sends nothing.
LEMMA TransactStep ==
  ASSUME IInv, NEW t, Fine(t), NEW next \in Relay, Then(t, next), UNCHANGED <<feed, landed, confirms>>,
         relay.pc \in {"admit", "dispatch", "probe", "check", "claim"},
         next.pc = "clear" \/ StaysWithdrawn(t),
         next.pc = "claim" => ~feed.dismissed,
         state' = t /\ relay' = next => RelayAgrees'
  PROVE  IInv'
<1>1. StoreAgrees' /\ faults' \in 0..MaxFaults
  BY StoreKept DEF IInv, Then
<1>2. /\ (state' = t /\ relay' = next) \/ (state' = state /\ relay' = Idle)
      /\ relay' \in Relay
  BY RunForms DEF Then, Saved, Unsaved
<1>3. RelayAgrees'
  <2>1. CASE relay' = Idle
    BY <2>1, RunForms DEF RelayAgrees, AtWork
  <2> QED BY <1>2, <2>1
<1>4. relay'.pc = "clear" \/ \A m \in Message : Withdrawn(m) => Withdrawn(m)'
  BY <1>2 DEF StaysWithdrawn, Withdrawn
<1>5. \A m \in Message : state.deliveries[m].status # "none" => state'.deliveries[m].status # "none"
  BY <1>2 DEF Fine, Follows
<1>6. landed \in [Message -> [1..Parts -> [Binding -> Nat]]]
  BY DEF IInv, PortsAgree
<1>7. relay'.pc = "claim" => ~feed.dismissed
  BY <1>2, RunForms
<1> QED BY <1>1, <1>2, <1>3, <1>4, <1>5, <1>6, <1>7, RunStep

\* publish: the message is in the outbox before its intent may be cleared.
LEMMA PublishIntentStep ==
  ASSUME IInv, PublishIntent
  PROVE  IInv'
<1>1. PICK m \in relay.todo :
        Then(Admit(state, m), [relay EXCEPT !.pc = "clear", !.message = m, !.todo = @ \ {m}])
  BY DEF PublishIntent
<1> DEFINE next == [relay EXCEPT !.pc = "clear", !.message = m, !.todo = @ \ {m}]
<1>2. relay.pc = "admit" /\ UNCHANGED <<feed, landed, confirms>> /\ relay \in Relay
  BY DEF PublishIntent, IInv, PortsAgree
<1>3. m \in Message
  BY <1>2 DEF Relay
<1>4. next \in Relay /\ next.pc = "clear" /\ next.message = m
  BY <1>2, <1>3 DEF Relay
<1>5. Then(Admit(state, m), next)
  BY <1>1
<1> HIDE DEF next
<1>6. Fine(Admit(state, m)) /\ Admit(state, m).deliveries[m].status # "none"
  BY <1>3, AdmitFine DEF IInv, StoreAgrees
<1>7. state' = Admit(state, m) /\ relay' = next => RelayAgrees'
  BY <1>3, <1>4, <1>6 DEF RelayAgrees, AtWork
<1> QED BY <1>2, <1>4, <1>5, <1>6, <1>7, TransactStep

\* The withdrawal of a message that is no longer valid.
LEMMA EraseFine ==
  ASSUME Sound(state), NEW m \in Message
  PROVE  LET t == Change(state, m, Erase(state.deliveries[m]))
         IN  Fine(t) /\ StaysWithdrawn(t)
<1> DEFINE d == state.deliveries[m]
           t == Change(state, m, Erase(d))
<1>1. d \in Delivery /\ DeliveryAgrees(d, state.route)
  BY DEF Sound, Outbox
<1>2. Fine(t) /\ \A n \in Message : t.deliveries[n] = IF n = m THEN Erase(d) ELSE state.deliveries[n]
  BY <1>1, EraseFollows, ChangeFine
<1>3. Erase(d).status = "none" \/ Erase(d).invalidated
  BY <1>1 DEF Erase, Delivery
<1> HIDE DEF t
<1>4. StaysWithdrawn(t)
  BY <1>2, <1>3 DEF StaysWithdrawn
<1> QED BY <1>2, <1>4 DEF t

\* Nothing changed: what was withdrawn is.
LEMMA SameWithdrawn == StaysWithdrawn(state)
BY DEF StaysWithdrawn

\* #deliver, up to the adapter.
LEMMA TakeStep ==
  ASSUME IInv, NEW m \in Message, NEW r \in Route, Take(m, r)
  PROVE  IInv'
<1> DEFINE rest == [relay EXCEPT !.ids = @ \ {<<m, r>>}]
           next == [rest EXCEPT !.pc = "probe", !.message = m, !.route = r]
<1>1. /\ relay.pc = "dispatch" /\ Deliverable(m, r) /\ UNCHANGED <<feed, landed, confirms>>
      /\ \/ Then(Finish(state, m, r, "expired"), rest)
         \/ Then(Change(state, m, Erase(state.deliveries[m])), rest)
         \/ Then(Finish(state, m, r, "blocked"), rest)
         \/ Saved(state) /\ relay' = next
  BY DEF Take
<1>2. relay \in Relay /\ Sound(state) /\ state.deliveries[m].route <= state.route
  BY DEF IInv, PortsAgree, StoreAgrees, Sound, DeliveryAgrees
<1>3. rest \in Relay /\ rest.pc = "dispatch"
  BY <1>1, <1>2 DEF Relay
<1>4. next \in Relay /\ next.pc = "probe" /\ next.message = m /\ next.route = r
  <2> HIDE DEF rest
  <2> QED BY <1>3 DEF Relay
<1> HIDE DEF rest, next
<1>5. state.deliveries[m].status \in Waiting \cup Ended /\ state.deliveries[m].route = r
  BY <1>1 DEF Deliverable
<1>6. relay' = rest => RelayAgrees'
  BY <1>3 DEF RelayAgrees, AtWork
<1>7. ASSUME NEW x \in {"expired", "blocked"}, Then(Finish(state, m, r, x), rest)
      PROVE  IInv'
  BY <1>1, <1>2, <1>3, <1>5, <1>6, <1>7, FinishFine, TransactStep
<1>8. CASE Then(Change(state, m, Erase(state.deliveries[m])), rest)
  BY <1>1, <1>2, <1>3, <1>6, <1>8, EraseFine, TransactStep
<1>9. CASE Saved(state) /\ relay' = next
  <2>1. state' = state
    BY <1>9 DEF Saved
  <2>2. RelayAgrees'
    BY <1>2, <1>4, <1>5, <1>9, <2>1 DEF RelayAgrees, AtWork, Superseded, Current
  <2>3. Then(state, next)
    BY <1>9 DEF Then
  <2> QED BY <1>1, <1>2, <1>4, <2>2, <2>3, SameFine, SameWithdrawn, TransactStep
<1> QED BY <1>1, <1>7, <1>8, <1>9

\* What the run may rely on between two of its transactions.
LEMMA AtDelivery ==
  ASSUME IInv, relay.pc \in {"probe", "check", "claim"}
  PROVE  /\ relay.message \in Message /\ relay \in Relay /\ Sound(state)
         /\ state.deliveries[relay.message] \in Delivery
         /\ DeliveryAgrees(state.deliveries[relay.message], state.route)
         /\ state.deliveries[relay.message].route = relay.route =>
              state.deliveries[relay.message].status \in Waiting \cup Ended
BY DEF IInv, PortsAgree, StoreAgrees, Sound, Outbox, RelayAgrees, AtWork, Superseded, Current

\* The run gives the delivery up, and goes on with the next one.
LEMMA EndStep ==
  ASSUME IInv, relay.pc \in {"probe", "check", "claim"}, UNCHANGED <<feed, landed, confirms>>,
         \/ \E x \in {"expired", "blocked"} :
              Then(Finish(state, relay.message, relay.route, x), NextId)
         \/ Then(Change(state, relay.message, Erase(Current)), NextId)
         \/ Saved(state) /\ relay' = NextId
  PROVE  IInv'
<1>1. NextId \in Relay /\ NextId.pc = "dispatch"
  BY RunForms
<1>2. relay' = NextId => RelayAgrees'
  BY <1>1 DEF RelayAgrees, AtWork
<1>3. ASSUME NEW x \in {"expired", "blocked"},
             Then(Finish(state, relay.message, relay.route, x), NextId)
      PROVE  IInv'
  BY <1>1, <1>2, <1>3, AtDelivery, FinishFine, TransactStep
<1>4. CASE Then(Change(state, relay.message, Erase(Current)), NextId)
  BY <1>1, <1>2, <1>4, AtDelivery, EraseFine, TransactStep DEF Current
<1>5. CASE Saved(state) /\ relay' = NextId
  <2>1. Then(state, NextId)
    BY <1>5 DEF Then
  <2> QED BY <1>1, <1>2, <2>1, AtDelivery, SameFine, SameWithdrawn, TransactStep
<1> QED BY <1>3, <1>4, <1>5

\* inspect and prepare: the parts are frozen unless the delivery was given up.
LEMMA ProbeStep ==
  ASSUME IInv, NEW usable \in BOOLEAN, Probe(usable)
  PROVE  IInv'
<1> DEFINE m == relay.message
           d == state.deliveries[m]
           e == [d EXCEPT !.prepared = TRUE]
<1>1. relay.pc = "probe" /\ UNCHANGED <<feed, landed, confirms>>
  BY DEF Probe
<1>2. CASE ~usable
  BY <1>1, <1>2, EndStep DEF Probe
<1>3. CASE usable
  <2>1. At("check") \in Relay /\ At("check").pc = "check" /\ At("check").message = m
        /\ At("check").route = relay.route
    BY RunForms
  <2>2. m \in Message /\ Sound(state) /\ d \in Delivery /\ DeliveryAgrees(d, state.route)
        /\ (d.route = relay.route => d.status \in Waiting \cup Ended)
        /\ relay.route <= state.route
    BY <1>1, AtDelivery DEF IInv, RelayAgrees, AtWork
  <2>3. CASE Superseded(state) \/ Current.invalidated \/ Current.status = "superseded"
    <3>1. Then(state, At("check"))
      BY <1>3, <2>3 DEF Probe
    <3>2. state' = state /\ relay' = At("check") => RelayAgrees'
      BY <2>1, <2>2, <2>3 DEF RelayAgrees, AtWork, Superseded, Current, Ended
    <3> QED BY <1>1, <2>1, <2>2, <3>1, <3>2, SameFine, SameWithdrawn, TransactStep
  <2>4. CASE ~(Superseded(state) \/ Current.invalidated \/ Current.status = "superseded")
    <3>1. Then(Change(state, m, e), At("check"))
      BY <1>3, <2>4 DEF Probe, Change
    <3>2. /\ e \in Delivery /\ e.prepared /\ e.status = d.status /\ e.route = d.route
          /\ e.binding = d.binding /\ e.receipts = d.receipts /\ e.invalidated = d.invalidated
      BY <2>2 DEF Delivery
    <3>3. d.status # "none" /\ d.status \notin {"sending", "unknown"}
      BY <2>2, <2>4 DEF Superseded, Waiting, Ended
    <3> HIDE DEF e
    <3>4. Follows(d, e, state.route)
      BY <2>2, <3>2, <3>3 DEF Follows, DeliveryAgrees, PartsOf
    <3>5. /\ Fine(Change(state, m, e)) /\ Change(state, m, e).route = state.route
          /\ \A n \in Message : Change(state, m, e).deliveries[n]
                                  = IF n = m THEN e ELSE state.deliveries[n]
      BY <2>2, <3>4, ChangeFine
    <3>6. StaysWithdrawn(Change(state, m, e))
      BY <3>2, <3>5 DEF StaysWithdrawn
    <3>7. state' = Change(state, m, e) /\ relay' = At("check") => RelayAgrees'
      <4> HAVE state' = Change(state, m, e) /\ relay' = At("check")
      <4>1. relay'.pc = "check" /\ relay'.message = m /\ relay'.route = relay.route
        BY <2>1
      <4>2. state'.deliveries[m] = e /\ state'.route = state.route
        BY <2>2, <3>5
      <4>3. Current' = e /\ (Superseded(state)' <=> e.route # relay.route)
        BY <4>1, <4>2 DEF Current, Superseded
      <4> QED BY <2>2, <3>2, <4>1, <4>2, <4>3 DEF RelayAgrees
    <3> QED BY <1>1, <2>1, <3>1, <3>5, <3>6, <3>7, TransactStep
  <2> QED BY <2>3, <2>4
<1> QED BY <1>2, <1>3

\* The head of the loop: only a message that is still valid goes on to a claim.
LEMMA CheckStep ==
  ASSUME IInv, NEW answer, Check(answer)
  PROVE  IInv'
<1>1. relay.pc = "check" /\ UNCHANGED <<feed, landed, confirms>>
  BY DEF Check
<1>2. CASE answer # "valid"
  BY <1>1, <1>2, EndStep DEF Check
<1>3. CASE answer = "valid"
  <2>1. ~Obsolete(relay.message) /\ Saved(state) /\ relay' = At("claim")
    BY <1>3 DEF Check
  <2>2. At("claim") \in Relay /\ At("claim").pc = "claim" /\ At("claim").message = relay.message
        /\ At("claim").route = relay.route
    BY RunForms
  <2>3. state' = state
    BY <2>1 DEF Saved
  <2>4. RelayAgrees'
    BY <1>1, <2>1, <2>2, <2>3 DEF IInv, RelayAgrees, AtWork, Superseded, Current
  <2>5. Then(state, At("claim")) /\ ~feed.dismissed
    BY <2>1 DEF Then, Obsolete
  <2> QED BY <1>1, <2>2, <2>4, <2>5, AtDelivery, SameFine, SameWithdrawn, TransactStep
<1> QED BY <1>2, <1>3

\* A claim that sends nothing.
LEMMA NoClaimStep ==
  ASSUME IInv, Claim, Superseded(Claimed(state)) \/ Claimed(state).deliveries[relay.message].status # "sending"
  PROVE  IInv'
<1> DEFINE m == relay.message
           d == state.deliveries[m]
           next == Claimed(state)
<1>1. relay.pc = "claim" /\ UNCHANGED <<feed, landed, confirms>> /\ Then(next, NextId)
  BY DEF Claim
<1>2. NextId \in Relay /\ NextId.pc = "dispatch"
  BY RunForms
<1>3. relay' = NextId => RelayAgrees'
  BY <1>2 DEF RelayAgrees, AtWork
<1>4. m \in Message /\ Sound(state) /\ d \in Delivery /\ DeliveryAgrees(d, state.route)
      /\ state \in Outbox
  BY <1>1, AtDelivery DEF Sound
<1>5. \/ next = state
      \/ \E x \in {"blocked", "superseded", "accepted", "sending"} :
           /\ next = Change(state, m, [d EXCEPT !.status = x]) /\ d.status \in Waiting
           /\ x = "accepted" => d.receipts = PartsOf(d)
           /\ x = "sending" => d.route = relay.route
  BY DEF Claimed, Superseded, Change
<1> HIDE DEF next
<1>6. CASE next = state
  BY <1>1, <1>2, <1>3, <1>4, <1>6, SameFine, SameWithdrawn, TransactStep
<1>7. ASSUME NEW x \in {"blocked", "superseded", "accepted", "sending"},
             next = Change(state, m, [d EXCEPT !.status = x]), d.status \in Waiting,
             x = "accepted" => d.receipts = PartsOf(d),
             x = "sending" => d.route = relay.route
      PROVE  IInv'
  <2> DEFINE e == [d EXCEPT !.status = x]
  <2>1. /\ e \in Delivery /\ e.status = x /\ e.route = d.route /\ e.prepared = d.prepared
        /\ e.binding = d.binding /\ e.receipts = d.receipts /\ e.invalidated = d.invalidated
    BY <1>4 DEF Delivery, Status, Ended, Waiting
  <2> HIDE DEF e
  <2>2. next.deliveries[m] = e
    <3>1. next = [state EXCEPT !.deliveries = [state.deliveries EXCEPT ![m] = e]]
      BY <1>7 DEF Change, e
    <3> QED BY <1>4, <2>1, <3>1 DEF Outbox
  <2>3. x # "sending"
    BY <1>7, <2>1, <2>2 DEF Superseded, next
  <2>4. Follows(d, e, state.route)
    BY <1>4, <1>7, <2>1, <2>3 DEF Follows, DeliveryAgrees, PartsOf, Waiting
  <2>5. Fine(next) /\ \A n \in Message : next.deliveries[n] = IF n = m THEN e ELSE state.deliveries[n]
    BY <1>4, <1>7, <2>4, ChangeFine DEF e
  <2>6. StaysWithdrawn(next)
    BY <1>7, <2>1, <2>5 DEF StaysWithdrawn, Waiting
  <2> QED BY <1>1, <1>2, <1>3, <2>5, <2>6, TransactStep
<1> QED BY <1>5, <1>6, <1>7

-----------------------------------------------------------------------------
(* The claim and the send. *)

\* The record counts.
LEMMA LandedTyped ==
  ASSUME PortsAgree
  PROVE  \A n \in Message, p \in 1..Parts, x \in Binding : landed[n][p][x] \in Nat
<1>1. landed \in [Message -> [1..Parts -> [Binding -> Nat]]]
  BY DEF PortsAgree
<1> QED BY <1>1

\* The record with one place of it set.
Recorded(m, q, b, v) == [landed EXCEPT ![m][q][b] = v]

\* The record of what may have landed, changed at one place.
LEMMA LandedMoves ==
  ASSUME PortsAgree, NEW m \in Message, NEW q \in 1..Parts, NEW b \in Binding, NEW v \in Nat,
         landed' = Recorded(m, q, b, v)
  PROVE  /\ landed' \in [Message -> [1..Parts -> [Binding -> Nat]]]
         /\ \A n \in Message, p \in 1..Parts, x \in Binding :
              landed'[n][p][x] = IF n = m /\ p = q /\ x = b THEN v ELSE landed[n][p][x]
<1> DEFINE f == [landed[m][q] EXCEPT ![b] = v]
           g == [landed[m] EXCEPT ![q] = f]
<1>1. landed \in [Message -> [1..Parts -> [Binding -> Nat]]]
  BY DEF PortsAgree
<1>2. landed[m] \in [1..Parts -> [Binding -> Nat]] /\ landed[m][q] \in [Binding -> Nat]
  BY <1>1
<1>3. f \in [Binding -> Nat] /\ \A x \in Binding : f[x] = IF x = b THEN v ELSE landed[m][q][x]
  BY <1>2
<1>4. landed' = [landed EXCEPT ![m] = g]
  BY DEF Recorded
<1> HIDE DEF f
<1>5. g \in [1..Parts -> [Binding -> Nat]] /\ \A p \in 1..Parts : g[p] = IF p = q THEN f ELSE landed[m][p]
  BY <1>2, <1>3
<1> HIDE DEF g
<1>6. landed' \in [Message -> [1..Parts -> [Binding -> Nat]]]
      /\ \A n \in Message : landed'[n] = IF n = m THEN g ELSE landed[n]
  BY <1>1, <1>4, <1>5
<1>7. ASSUME NEW n \in Message, NEW p \in 1..Parts, NEW x \in Binding
      PROVE  landed'[n][p][x] = IF n = m /\ p = q /\ x = b THEN v ELSE landed[n][p][x]
  <2>1. CASE n # m
    BY <1>6, <2>1
  <2>2. CASE n = m /\ p # q
    BY <1>5, <1>6, <2>2
  <2>3. CASE n = m /\ p = q
    BY <1>3, <1>5, <1>6, <2>3
  <2> QED BY <2>1, <2>2, <2>3
<1> QED BY <1>6, <1>7

\* A claim that is saved: the part it sends was not accounted for, and now is.
LEMMA ClaimCounts ==
  ASSUME PortsAgree, NEW m \in Message, NEW d \in Delivery, NEW e \in Delivery, CountsAgree(d, m),
         d.status \in Waiting, e.status = "sending", e.receipts = d.receipts, e.binding = d.binding,
         d.receipts + 1 \in 1..Parts,
         \A p \in 1..Parts, x \in Binding :
           landed'[m][p][x] = landed[m][p][x]
                                + (IF p = d.receipts + 1 /\ x = d.binding THEN 1 ELSE 0),
         UNCHANGED confirms
  PROVE  CountsAgree(e, m)'
<1> DEFINE q == d.receipts + 1
<1>1. d.receipts \in Nat /\ d.binding \in Binding /\ confirms[m] \in Nat
  BY NotificationsAssumption DEF Delivery, PortsAgree
<1>2. ASSUME NEW p \in 1..Parts
      PROVE  Landed(m, p)' <= confirms[m] + (IF Covered(e, p) THEN 1 ELSE 0)
  <2>1. /\ landed[m][p]["nova"] \in Nat /\ landed[m][p]["im"] \in Nat
        /\ Landed(m, p) = landed[m][p]["nova"] + landed[m][p]["im"]
    BY CountsTyped
  <2>2. Landed(m, p)' = Landed(m, p) + (IF p = q THEN 1 ELSE 0)
    <3>1. /\ landed'[m][p]["nova"] = landed[m][p]["nova"] + (IF p = q /\ "nova" = d.binding THEN 1 ELSE 0)
          /\ landed'[m][p]["im"] = landed[m][p]["im"] + (IF p = q /\ "im" = d.binding THEN 1 ELSE 0)
      BY DEF Binding
    <3>2. Landed(m, p)' = landed'[m][p]["nova"] + landed'[m][p]["im"]
      BY DEF Landed
    <3> QED BY <1>1, <2>1, <3>1, <3>2 DEF Binding
  <2>3. Landed(m, p) <= confirms[m] + (IF Covered(d, p) THEN 1 ELSE 0)
    BY DEF CountsAgree
  <2>4. Covered(d, p) = (p <= d.receipts) /\ Covered(e, p) = (p <= d.receipts \/ p = q)
    BY <1>1 DEF Covered, Waiting
  <2> HIDE DEF q
  <2>5. p = q => ~(p <= d.receipts)
    BY <1>1 DEF q
  <2>6. Landed(m, p) \in Nat
    BY <2>1
  <2> HIDE DEF Landed, Covered
  <2>7. CASE p = q
    <3>1. ~Covered(d, p) /\ Covered(e, p)
      BY <2>4, <2>5, <2>7
    <3> QED BY <1>1, <2>2, <2>3, <2>6, <2>7, <3>1
  <2>8. CASE p # q
    <3>1. Covered(d, p) = Covered(e, p)
      BY <2>4, <2>8
    <3> QED BY <1>1, <2>2, <2>3, <2>6, <2>8, <3>1
  <2> QED BY <2>7, <2>8
<1>3. ASSUME confirms[m] = 0, NEW p \in 1..Parts, NEW b \in Binding, landed'[m][p][b] > 0
      PROVE  b = d.binding
  <2>1. CASE p = q /\ b = d.binding
    BY <2>1
  <2>2. CASE ~(p = q /\ b = d.binding)
    <3>1. landed'[m][p][b] = landed[m][p][b] + 0
      BY <2>2
    <3>2. landed[m][p][b] \in Nat
      BY CountsTyped DEF Binding
    <3> QED BY <1>3, <3>1, <3>2 DEF CountsAgree
  <2> QED BY <2>1, <2>2
<1> QED BY <1>2, <1>3 DEF CountsAgree, Covered

\* A saved claim, in the record.
LEMMA ClaimStored ==
  ASSUME PortsAgree, StoreAgrees, NEW m \in Message, NEW d \in Delivery, NEW e \in Delivery,
         NEW q \in 1..Parts, q = d.receipts + 1, d = state.deliveries[m],
         d.status \in Waiting, e.status = "sending", e.receipts = d.receipts, e.binding = d.binding,
         \A n \in Message : state'.deliveries[n] = IF n = m THEN e ELSE state.deliveries[n],
         disk' = state', UNCHANGED confirms,
         \A n \in Message, p \in 1..Parts, x \in Binding :
           landed'[n][p][x] = IF n = m /\ p = q /\ x = d.binding THEN landed[n][p][x] + 1
                              ELSE landed[n][p][x]
  PROVE  Counted(state)' /\ Counted(disk)'
<1>0. \A n \in Message, p \in 1..Parts, x \in Binding : landed[n][p][x] \in Nat
  BY LandedTyped
<1>4. ASSUME NEW n \in Message
      PROVE  CountsAgree(state.deliveries[n], n)'
  <2>1. CountsAgree(state.deliveries[n], n)
    BY DEF StoreAgrees, Counted
  <2>2. CASE n = m
    <3>1. ASSUME NEW p \in 1..Parts, NEW x \in Binding
          PROVE  landed'[m][p][x] = landed[m][p][x] + (IF p = d.receipts + 1 /\ x = d.binding THEN 1 ELSE 0)
      <4>1. CASE p = q /\ x = d.binding
        BY <4>1
      <4>2. CASE ~(p = q /\ x = d.binding)
        <5>1. landed'[m][p][x] = landed[m][p][x]
          BY <4>2
        <5>2. landed[m][p][x] \in Nat
          BY <1>0
        <5> QED BY <4>2, <5>1, <5>2
      <4> QED BY <4>1, <4>2
    <3>2. CountsAgree(e, m)'
      BY <2>1, <2>2, <3>1, ClaimCounts
    <3> QED BY <2>2, <3>2 DEF CountsAgree, Landed, Covered
  <2>3. CASE n # m
    <3>1. \A p \in 1..Parts, x \in Binding : landed'[n][p][x] = landed[n][p][x]
      BY <2>3
    <3>2. state'.deliveries[n] = state.deliveries[n]
      BY <2>3
    <3> QED BY <2>1, <3>1, <3>2 DEF CountsAgree, Landed, Binding, Covered
  <2> QED BY <2>2, <2>3
<1>5. Counted(state)' /\ Counted(disk)'
  BY <1>4 DEF Counted
<1> QED BY <1>5

\* A claim that sends.
LEMMA ClaimStep ==
  ASSUME IInv, Claim, ~Superseded(Claimed(state)), Claimed(state).deliveries[relay.message].status = "sending"
  PROVE  IInv'
<1> DEFINE m == relay.message
           d == state.deliveries[m]
           e == [d EXCEPT !.status = "sending"]
           next == Claimed(state)
           q == d.receipts + 1
<1>1. relay.pc = "claim" /\ UNCHANGED <<feed, confirms>>
  BY DEF Claim
<1>2. m \in Message /\ Sound(state) /\ d \in Delivery /\ DeliveryAgrees(d, state.route)
      /\ state \in Outbox /\ (d.route = relay.route => d.status \in Waiting \cup Ended)
      /\ relay.route <= state.route
  BY <1>1, AtDelivery DEF Sound, IInv, RelayAgrees, AtWork
<1>3. /\ next = Change(state, m, e) /\ d.status \in Waiting /\ d.route = relay.route
      /\ ~d.invalidated /\ d.receipts # PartsOf(d)
  <2>1. ~(d.status = "sending" /\ d.route = relay.route)
    BY <1>2 DEF Waiting, Ended
  <2>2. CASE next = state
    BY <2>1, <2>2 DEF Superseded
  <2>3. CASE \E x \in {"blocked", "superseded", "accepted"} : next = Change(state, m, [d EXCEPT !.status = x])
    <3>1. PICK x \in {"blocked", "superseded", "accepted"} : next = Change(state, m, [d EXCEPT !.status = x])
      BY <2>3
    <3>2. [d EXCEPT !.status = x] \in Delivery /\ [d EXCEPT !.status = x].status = x
      BY <1>2 DEF Delivery, Status, Ended, Waiting
    <3>3. next = [state EXCEPT !.deliveries = [state.deliveries EXCEPT ![m] = [d EXCEPT !.status = x]]]
      BY <3>1 DEF Change
    <3>4. next.deliveries[m].status = x
      BY <1>2, <3>2, <3>3 DEF Outbox
    <3> QED BY <3>4
  <2>4. \/ next = state
        \/ \E x \in {"blocked", "superseded", "accepted"} : next = Change(state, m, [d EXCEPT !.status = x])
        \/ /\ next = Change(state, m, e) /\ d.status \in Waiting /\ d.route = relay.route
           /\ ~d.invalidated /\ d.receipts # PartsOf(d)
    BY DEF Claimed, Superseded, Change
  <2> QED BY <2>2, <2>3, <2>4
<1>4. /\ e \in Delivery /\ e.status = "sending" /\ e.route = d.route /\ e.prepared = d.prepared
      /\ e.binding = d.binding /\ e.receipts = d.receipts /\ e.invalidated = d.invalidated
  BY <1>2 DEF Delivery, Status, Ended, Waiting
<1>5. d.receipts \in Nat /\ PartsOf(d) \in 1..Parts /\ d.receipts < PartsOf(d) /\ q \in 1..Parts
  <2>1. d.receipts \in Nat /\ PartsOf(d) \in 1..Parts
    BY <1>2, NotificationsAssumption DEF Delivery, PartsOf
  <2>2. d.receipts < PartsOf(d)
    BY <1>2, <1>3, <2>1 DEF DeliveryAgrees
  <2> QED BY <2>1, <2>2, NotificationsAssumption
<1>6. d.prepared
  BY <1>1, <1>3 DEF IInv, RelayAgrees, Superseded, Current, Waiting, Ended
<1> HIDE DEF e, next
<1>7. Follows(d, e, state.route)
  BY <1>2, <1>3, <1>4, <1>5 DEF Follows, DeliveryAgrees, PartsOf, Waiting
<1>8. /\ Fine(next) /\ next.route = state.route
      /\ \A n \in Message : next.deliveries[n] = IF n = m THEN e ELSE state.deliveries[n]
  BY <1>2, <1>3, <1>7, ChangeFine
<1>9. \/ /\ Saved(next) /\ relay' = At("send")
         /\ landed' = [landed EXCEPT ![m][q][d.binding] = @ + 1]
      \/ Unsaved(next) /\ relay' = Idle /\ UNCHANGED landed
  BY DEF Claim, next, Current
<1>10. IInv /\ PortsAgree /\ StoreAgrees
  BY DEF IInv
<1>11. CASE Unsaved(next) /\ relay' = Idle /\ UNCHANGED landed
  <2>1. StaysWithdrawn(next)
    BY <1>2, <1>3, <1>4, <1>8 DEF StaysWithdrawn, Waiting
  <2>2. Idle \in Relay /\ Idle.pc = "idle" /\ Then(next, Idle)
    BY <1>11, RunForms DEF Then
  <2>3. relay' = Idle => RelayAgrees'
    BY <2>2 DEF RelayAgrees, AtWork
  <2> QED BY <1>1, <1>8, <1>11, <2>1, <2>2, <2>3, TransactStep
<1>12. CASE /\ Saved(next) /\ relay' = At("send")
            /\ landed' = [landed EXCEPT ![m][q][d.binding] = @ + 1]
  <2>2. state' = next /\ disk' = next /\ faults' = faults
    <3>1. next # state
      BY <1>2, <1>3, <1>4, <1>8 DEF Waiting
    <3> QED BY <1>12, <3>1 DEF Saved
  <2>3. /\ landed' \in [Message -> [1..Parts -> [Binding -> Nat]]]
        /\ \A n \in Message, p \in 1..Parts, x \in Binding :
             landed'[n][p][x] = IF n = m /\ p = q /\ x = d.binding THEN landed[n][p][x] + 1
                                ELSE landed[n][p][x]
    <3> DEFINE b == d.binding
               v == landed[m][q][b] + 1
    <3>1. landed' = Recorded(m, q, b, v)
      BY <1>12 DEF Recorded
    <3>2. b \in Binding
      BY <1>2 DEF Delivery
    <3>3. v \in Nat
      BY <1>2, <1>5, <1>10, <3>2, LandedTyped
    <3> HIDE DEF q, d, m, b, v
    <3>4. /\ landed' \in [Message -> [1..Parts -> [Binding -> Nat]]]
          /\ \A n \in Message, p \in 1..Parts, x \in Binding :
               landed'[n][p][x] = IF n = m /\ p = q /\ x = b THEN v ELSE landed[n][p][x]
      BY <1>2, <1>5, <1>10, <3>1, <3>2, <3>3, LandedMoves
    <3> QED BY <3>4 DEF b, v
  <2>7. Counted(state)' /\ Counted(disk)'
    <3>2. /\ \A n \in Message : state'.deliveries[n] = IF n = m THEN e ELSE state.deliveries[n]
          /\ disk' = state'
      BY <1>8, <2>2
    <3>3. q = d.receipts + 1 /\ d = state.deliveries[m]
      OBVIOUS
    <3>4. m \in Message /\ d \in Delivery /\ e \in Delivery /\ q \in 1..Parts
      BY <1>2, <1>4, <1>5
    <3>5. d.status \in Waiting /\ e.status = "sending" /\ e.receipts = d.receipts /\ e.binding = d.binding
      BY <1>3, <1>4
    <3>6. PortsAgree /\ StoreAgrees /\ UNCHANGED confirms
      BY <1>1, <1>10
    <3>7. \A n \in Message, p \in 1..Parts, x \in Binding :
             landed'[n][p][x] = IF n = m /\ p = q /\ x = d.binding THEN landed[n][p][x] + 1
                                ELSE landed[n][p][x]
      BY <2>3
    <3> HIDE DEF q, d, m
    <3> QED BY <3>2, <3>3, <3>4, <3>5, <3>6, <3>7, ClaimStored
  <2>4. StoreAgrees'
    <3>1. Sound(next)
      BY <1>8, FineSound
    <3>2. Sound(state)' /\ Sound(disk)'
      BY <2>2, <3>1 DEF Sound, DeliveryAgrees, PartsOf
    <3> QED BY <2>2, <2>7, <3>2 DEF StoreAgrees, FileKnows
  <2>5. At("send") \in Relay /\ At("send").pc = "send" /\ At("send").message = m
        /\ At("send").route = relay.route
    BY RunForms
  <2>6. state'.deliveries[m] = e /\ state'.route = state.route
    BY <1>2, <1>8, <2>2
  <2>8. RelayAgrees'
    <3>1. relay'.pc = "send" /\ relay'.message = m /\ relay'.route = relay.route
      BY <1>12, <2>5
    <3>2. m \in Message /\ relay.route <= state'.route
      BY <1>2, <2>6
    <3>3. Current' = e /\ ~Superseded(state)'
      BY <1>3, <1>4, <2>6, <3>1 DEF Current, Superseded
    <3>5. landed[m][q][d.binding] \in Nat /\ d.binding \in Binding
      BY <1>2, <1>5, <1>10, LandedTyped DEF Delivery
    <3>6. landed'[m][q][d.binding] = landed[m][q][d.binding] + 1
      BY <1>2, <1>5, <2>3, <3>5
    <3>7. landed'[m][q][d.binding] > 0
      <4>1. \A k \in Nat : k + 1 > 0
        OBVIOUS
      <4> QED BY <3>5, <3>6, <4>1
    <3>8. Current'.receipts + 1 = q /\ Current'.binding = d.binding
      BY <1>4, <3>3
    <3> HIDE DEF q, d, m
    <3>4. landed'[relay'.message][Current'.receipts + 1][Current'.binding] > 0
      BY <3>1, <3>7, <3>8
    <3> QED BY <1>4, <1>6, <3>1, <3>2, <3>3, <3>4 DEF RelayAgrees, AtWork
  <2>9. \A n \in Message : Withdrawn(n) => Withdrawn(n)'
    BY <1>2, <1>3, <1>4, <1>8, <2>2 DEF Withdrawn, Waiting
  <2>10. \A n \in Message : state.deliveries[n].status # "none" => state'.deliveries[n].status # "none"
    BY <1>8, <2>2 DEF Fine, Follows
  <2>11. faults' \in 0..MaxFaults
    BY <1>10, <2>2 DEF PortsAgree
  <2> QED BY <1>1, <1>12, <2>3, <2>4, <2>5, <2>8, <2>9, <2>10, <2>11, RunStep
<1> QED BY <1>9, <1>11, <1>12

\* What the run may rely on while the request is out.
LEMMA AtSend ==
  ASSUME IInv, relay.pc = "send"
  PROVE  LET m == relay.message
             d == state.deliveries[m]
         IN  /\ m \in Message /\ d \in Delivery /\ DeliveryAgrees(d, state.route)
             /\ d.status = "sending" /\ d.prepared /\ d.route = relay.route
             /\ d.receipts \in Nat /\ d.receipts < PartsOf(d) /\ d.receipts + 1 \in 1..Parts
             /\ landed[m][d.receipts + 1][d.binding] > 0
             /\ relay.route <= state.route /\ Sound(state) /\ state \in Outbox
<1> DEFINE m == relay.message
           d == state.deliveries[m]
<1>1. /\ m \in Message /\ d.status = "sending" /\ d.prepared /\ d.route = relay.route
      /\ landed[m][d.receipts + 1][d.binding] > 0 /\ relay.route <= state.route
  BY DEF IInv, RelayAgrees, AtWork, Superseded, Current
<1>2. Sound(state) /\ state \in Outbox
  BY DEF IInv, StoreAgrees, Sound
<1>3. d \in Delivery /\ DeliveryAgrees(d, state.route)
  BY <1>1, <1>2 DEF Sound, Outbox
<1>4. d.receipts \in Nat /\ PartsOf(d) \in 1..Parts
  BY <1>3, NotificationsAssumption DEF Delivery, PartsOf
<1>5. d.receipts < PartsOf(d)
  BY <1>1, <1>3 DEF DeliveryAgrees
<1>6. d.receipts + 1 \in 1..Parts
  BY <1>4, <1>5, NotificationsAssumption
<1> QED BY <1>1, <1>2, <1>3, <1>4, <1>5, <1>6

\* What an outcome makes of the delivery d, with the record it keeps of the send.
Answers(d, e, kind, route) ==
  /\ e \in Delivery /\ DeliveryAgrees(e, route) /\ e.status # "none"
  /\ d.invalidated => e.invalidated
  /\ IF kind \in {"retryable", "blocked"}
     THEN e.status \notin {"sending", "unknown"}
            /\ (\/ e.receipts = d.receipts /\ e.binding = d.binding
                \/ d.receipts = 0 /\ e.receipts = 0)
     ELSE e.binding = d.binding /\ \A p \in 1..Parts : Covered(d, p) => Covered(e, p)
  /\ kind = "accepted" => e.route = d.route /\ e.prepared = d.prepared

\* Every outcome of a send is such an answer.
LEMMA OutcomeAnswers ==
  ASSUME IInv, relay.pc = "send", NEW kind \in {"accepted", "retryable", "blocked", "unknown"}
  PROVE  \E e \in Delivery : /\ Answers(state.deliveries[relay.message], e, kind, state.route)
                             /\ Outcome(state, relay.message, kind) = Change(state, relay.message, e)
<1> DEFINE m == relay.message
           d == state.deliveries[m]
<1>1. /\ m \in Message /\ d \in Delivery /\ DeliveryAgrees(d, state.route)
      /\ d.status = "sending" /\ d.prepared /\ d.receipts \in Nat /\ d.receipts < PartsOf(d)
      /\ d.receipts + 1 \in 1..Parts /\ state \in Outbox
  BY AtSend
<1>2. CASE kind = "accepted"
  <2> DEFINE x == IF d.receipts + 1 = PartsOf(d) THEN "accepted"
                  ELSE IF d.invalidated THEN "cancelled" ELSE "pending"
             e == [d EXCEPT !.receipts = d.receipts + 1, !.status = x]
  <2>1. Outcome(state, m, kind) = Change(state, m, e)
    BY <1>2 DEF Outcome
  <2>2. d.receipts + 1 \in 0..Parts
    BY <1>1
  <2>3. x \in {"accepted", "cancelled", "pending"} /\ (x = "accepted" => d.receipts + 1 = PartsOf(d))
    OBVIOUS
  <2> HIDE DEF x
  <2>4. /\ e \in Delivery /\ e.status = x /\ e.route = d.route /\ e.prepared = d.prepared
        /\ e.binding = d.binding /\ e.receipts = d.receipts + 1 /\ e.invalidated = d.invalidated
    BY <1>1, <2>2, <2>3 DEF Delivery, Status, Ended, Waiting
  <2> HIDE DEF e
  <2>5. DeliveryAgrees(e, state.route)
    <3>1. PartsOf(e) = PartsOf(d)
      BY <2>4 DEF PartsOf
    <3>2. e.receipts <= PartsOf(e)
      <4>1. PartsOf(d) \in Nat
        BY NotificationsAssumption DEF PartsOf
      <4> QED BY <1>1, <2>4, <3>1, <4>1
    <3> QED BY <1>1, <2>3, <2>4, <3>1, <3>2 DEF DeliveryAgrees
  <2>6. \A p \in 1..Parts : Covered(d, p) => Covered(e, p)
    BY <1>1, <2>4 DEF Covered
  <2>7. Answers(d, e, kind, state.route)
    BY <1>2, <2>3, <2>4, <2>5, <2>6 DEF Answers
  <2> QED BY <2>1, <2>4, <2>7
<1>3. ASSUME NEW x \in {"cancelled", "retry_wait", "blocked", "unknown"},
             Outcome(state, m, kind) = Change(state, m, [d EXCEPT !.status = x]),
             kind # "accepted", kind \in {"retryable", "blocked"} => x # "unknown",
             kind = "unknown" => x = "unknown"
      PROVE  \E e \in Delivery : /\ Answers(d, e, kind, state.route)
                                 /\ Outcome(state, m, kind) = Change(state, m, e)
  <2> DEFINE e == [d EXCEPT !.status = x]
  <2>1. /\ e \in Delivery /\ e.status = x /\ e.route = d.route /\ e.prepared = d.prepared
        /\ e.binding = d.binding /\ e.receipts = d.receipts /\ e.invalidated = d.invalidated
    BY <1>1 DEF Delivery, Status, Ended, Waiting
  <2>2. Outcome(state, m, kind) = Change(state, m, e)
    BY <1>3
  <2> HIDE DEF e
  <2>3. DeliveryAgrees(e, state.route)
    BY <1>1, <2>1 DEF DeliveryAgrees, PartsOf
  <2>4. kind = "unknown" => \A p \in 1..Parts : Covered(d, p) => Covered(e, p)
    BY <1>3, <2>1 DEF Covered
  <2>5. Answers(d, e, kind, state.route)
    <3>1. e.status # "none" /\ (d.invalidated => e.invalidated) /\ kind # "accepted"
      BY <1>3, <2>1
    <3>2. CASE kind = "unknown"
      BY <2>1, <2>3, <2>4, <3>1, <3>2 DEF Answers
    <3>3. CASE kind \in {"retryable", "blocked"}
      <4>1. e.status \notin {"sending", "unknown"}
        BY <1>3, <2>1, <3>3
      <4>2. e \in Delivery /\ e.receipts = d.receipts /\ e.binding = d.binding
        BY <2>1
      <4> HIDE DEF d
      <4> QED BY <2>3, <3>1, <3>3, <4>1, <4>2 DEF Answers
    <3> QED BY <3>1, <3>2, <3>3
  <2> QED BY <2>1, <2>2, <2>5
<1>4. CASE kind = "retryable" /\ Outcome(state, m, kind) = Change(state, m, Enqueued(state, state.primary))
           /\ d.receipts = 0 /\ ~d.invalidated
  <2> DEFINE e == Enqueued(state, state.primary)
  <2>1. state.primary \in Binding
    BY <1>1 DEF Outbox
  <2>2. e \in Delivery /\ DeliveryAgrees(e, state.route) /\ e.status = "pending" /\ e.receipts = 0
    <3>1. Enqueued(state, state.primary).receipts = 0
      BY DEF Enqueued, NoDelivery
    <3> QED BY <1>1, <2>1, <3>1, EnqueuedAgrees
  <2> HIDE DEF e
  <2>3. Answers(d, e, kind, state.route)
    BY <1>4, <2>2 DEF Answers
  <2> QED BY <1>4, <2>2, <2>3 DEF e
<1>5. CASE kind = "retryable"
  <2>1. \/ d.invalidated /\ Outcome(state, m, kind) = Change(state, m, [d EXCEPT !.status = "cancelled"])
        \/ Outcome(state, m, kind) = Change(state, m, [d EXCEPT !.status = "retry_wait"])
        \/ Outcome(state, m, kind) = Change(state, m, [d EXCEPT !.status = "blocked"])
        \/ /\ Outcome(state, m, kind) = Change(state, m, Enqueued(state, state.primary))
           /\ ~(d.receipts > 0) /\ ~d.invalidated
    BY <1>5 DEF Outcome
  <2>2. ~(d.receipts > 0) => d.receipts = 0
    BY <1>1
  <2> QED BY <1>3, <1>4, <1>5, <2>1, <2>2
<1>6. CASE kind \in {"blocked", "unknown"}
  <2>1. Outcome(state, m, kind) = Change(state, m, [d EXCEPT !.status = kind])
    BY <1>6 DEF Outcome
  <2> QED BY <1>3, <1>6, <2>1
<1> QED BY <1>2, <1>5, <1>6

\* Nothing more is recorded: what accounted for it still does.
LEMMA LessLanded ==
  ASSUME PortsAgree, NEW m \in Message, NEW d, CountsAgree(d, m), UNCHANGED confirms,
         \A p \in 1..Parts, x \in Binding :
           landed'[m][p][x] \in Nat /\ landed'[m][p][x] <= landed[m][p][x]
  PROVE  CountsAgree(d, m)'
<1>1. ASSUME NEW p \in 1..Parts
      PROVE  Landed(m, p)' <= confirms[m] + (IF Covered(d, p) THEN 1 ELSE 0)
  <2>1. /\ landed[m][p]["nova"] \in Nat /\ landed[m][p]["im"] \in Nat
        /\ Landed(m, p) = landed[m][p]["nova"] + landed[m][p]["im"] /\ confirms[m] \in Nat
    BY CountsTyped
  <2>2. /\ landed'[m][p]["nova"] \in Nat /\ landed'[m][p]["nova"] <= landed[m][p]["nova"]
        /\ landed'[m][p]["im"] \in Nat /\ landed'[m][p]["im"] <= landed[m][p]["im"]
    BY DEF Binding
  <2>3. Landed(m, p)' = landed'[m][p]["nova"] + landed'[m][p]["im"]
    BY DEF Landed
  <2>4. Landed(m, p) <= confirms[m] + (IF Covered(d, p) THEN 1 ELSE 0)
    BY DEF CountsAgree
  <2> HIDE DEF Landed, Covered
  <2>5. Landed(m, p)' <= Landed(m, p) /\ Landed(m, p)' \in Nat /\ Landed(m, p) \in Nat
    BY <2>1, <2>2, <2>3
  <2>6. CASE Covered(d, p)
    BY <2>1, <2>4, <2>5, <2>6
  <2>7. CASE ~Covered(d, p)
    BY <2>1, <2>4, <2>5, <2>7
  <2> QED BY <2>6, <2>7
<1>2. ASSUME confirms[m] = 0, NEW p \in 1..Parts, NEW b \in Binding, landed'[m][p][b] > 0
      PROVE  b = d.binding
  <2>1. landed[m][p][b] \in Nat /\ landed'[m][p][b] <= landed[m][p][b] /\ landed'[m][p][b] \in Nat
    BY LandedTyped
  <2>2. landed[m][p][b] > 0
    BY <1>2, <2>1
  <2> QED BY <1>2, <2>2 DEF CountsAgree
<1> QED BY <1>1, <1>2 DEF CountsAgree, Covered

\* The answer to a send: the part that was not accepted is taken off the record.
LEMMA AnswerCounts ==
  ASSUME PortsAgree, NEW m \in Message, NEW d \in Delivery, NEW e \in Delivery, NEW kind, NEW route,
         CountsAgree(d, m), Answers(d, e, kind, route), d.status = "sending",
         NEW q \in 1..Parts, q = d.receipts + 1, landed[m][q][d.binding] > 0, UNCHANGED confirms,
         \A p \in 1..Parts, x \in Binding :
           landed'[m][p][x] = IF kind \in {"retryable", "blocked"} /\ p = q /\ x = d.binding
                              THEN landed[m][p][x] - 1 ELSE landed[m][p][x]
  PROVE  CountsAgree(e, m)'
<1>1. d.receipts \in Nat /\ confirms[m] \in Nat
  BY NotificationsAssumption DEF Delivery, PortsAgree
<1>2. ASSUME NEW p \in 1..Parts
      PROVE  /\ Landed(m, p) \in Nat /\ Landed(m, p)' \in Nat
             /\ Landed(m, p)' = IF kind \in {"retryable", "blocked"} /\ p = q
                                THEN Landed(m, p) - 1 ELSE Landed(m, p)
             /\ Landed(m, p) <= confirms[m] + (IF Covered(d, p) THEN 1 ELSE 0)
  <2>1. /\ landed[m][p]["nova"] \in Nat /\ landed[m][p]["im"] \in Nat
        /\ Landed(m, p) = landed[m][p]["nova"] + landed[m][p]["im"]
    BY CountsTyped
  <2>2. Landed(m, p)' = landed'[m][p]["nova"] + landed'[m][p]["im"]
    BY DEF Landed
  <2>3. Landed(m, p) <= confirms[m] + (IF Covered(d, p) THEN 1 ELSE 0)
    BY DEF CountsAgree
  <2>4. CASE kind \in {"retryable", "blocked"} /\ p = q
    <3>1. d.binding = "nova" \/ d.binding = "im"
      BY DEF Delivery, Binding
    <3>2. CASE d.binding = "nova"
      <4>1. landed'[m][p]["nova"] = landed[m][p]["nova"] - 1 /\ landed'[m][p]["im"] = landed[m][p]["im"]
            /\ landed[m][p]["nova"] > 0
        BY <2>4, <3>2 DEF Binding
      <4> QED BY <2>1, <2>2, <2>3, <2>4, <4>1
    <3>3. CASE d.binding = "im"
      <4>1. landed'[m][p]["im"] = landed[m][p]["im"] - 1 /\ landed'[m][p]["nova"] = landed[m][p]["nova"]
            /\ landed[m][p]["im"] > 0
        BY <2>4, <3>3 DEF Binding
      <4> QED BY <2>1, <2>2, <2>3, <2>4, <4>1
    <3> QED BY <3>1, <3>2, <3>3
  <2>5. CASE ~(kind \in {"retryable", "blocked"} /\ p = q)
    <3>1. landed'[m][p]["nova"] = landed[m][p]["nova"] /\ landed'[m][p]["im"] = landed[m][p]["im"]
      BY <2>5 DEF Binding
    <3> QED BY <2>1, <2>2, <2>3, <2>5, <3>1
  <2> QED BY <2>4, <2>5
<1>3. ASSUME NEW p \in 1..Parts, NEW b \in Binding, confirms[m] = 0, landed'[m][p][b] > 0
      PROVE  b = d.binding
  <2>1. landed[m][p][b] \in Nat /\ (landed'[m][p][b] = landed[m][p][b] \/ landed'[m][p][b] = landed[m][p][b] - 1)
    BY LandedTyped
  <2>2. landed[m][p][b] > 0
    BY <1>3, <2>1
  <2> QED BY <1>3, <2>2 DEF CountsAgree
<1>4. CASE kind \notin {"retryable", "blocked"}
  <2>1. e.binding = d.binding /\ \A p \in 1..Parts : Covered(d, p) => Covered(e, p)
    BY <1>4 DEF Answers
  <2>2. ASSUME NEW p \in 1..Parts
        PROVE  Landed(m, p)' <= confirms[m] + (IF Covered(e, p) THEN 1 ELSE 0)
    <3>1. Landed(m, p)' = Landed(m, p)
      BY <1>2, <1>4
    <3> QED BY <1>1, <1>2, <2>1, <3>1
  <2> QED BY <1>3, <2>1, <2>2 DEF CountsAgree, Covered
<1>5. CASE kind \in {"retryable", "blocked"}
  <2>1. /\ e.status \notin {"sending", "unknown"}
        /\ \/ e.receipts = d.receipts /\ e.binding = d.binding
           \/ d.receipts = 0 /\ e.receipts = 0
    BY <1>5 DEF Answers
  <2>2. ASSUME NEW p \in 1..Parts
        PROVE  Landed(m, p)' <= confirms[m] + (IF p <= d.receipts THEN 1 ELSE 0)
    <3>1. CASE p = q
      BY <1>1, <1>2, <1>5, <3>1
    <3>2. CASE p # q
      <4>1. Covered(d, p) = (p <= d.receipts)
        BY <3>2 DEF Covered
      <4>2. Landed(m, p)' = Landed(m, p)
        BY <1>2, <3>2
      <4> QED BY <1>1, <1>2, <4>1, <4>2
    <3> QED BY <3>1, <3>2
  <2>3. \A p \in 1..Parts : Covered(e, p) = (p <= d.receipts)
    BY <2>1 DEF Covered
  <2>4. ASSUME NEW p \in 1..Parts
        PROVE  Landed(m, p)' <= confirms[m] + (IF Covered(e, p) THEN 1 ELSE 0)
    BY <2>2, <2>3
  <2>5. ASSUME NEW p \in 1..Parts, NEW b \in Binding, confirms[m] = 0, landed'[m][p][b] > 0
        PROVE  b = e.binding
    <3>1. CASE e.binding = d.binding
      BY <1>3, <2>5, <3>1
    <3>2. CASE d.receipts = 0
      <4>1. ~(p <= d.receipts)
        BY <3>2
      <4>2. Landed(m, p)' = 0
        BY <1>2, <2>2, <2>5, <4>1
      <4>3. landed'[m][p]["nova"] \in Nat /\ landed'[m][p]["im"] \in Nat
        <5>1. landed'[m][p]["nova"] \in {landed[m][p]["nova"], landed[m][p]["nova"] - 1}
              /\ landed'[m][p]["im"] \in {landed[m][p]["im"], landed[m][p]["im"] - 1}
          BY DEF Binding
        <5>2. landed[m][p]["nova"] \in Nat /\ landed[m][p]["im"] \in Nat
          BY CountsTyped
        <5>3. \A b1 \in Binding : landed'[m][p][b1] = landed[m][p][b1] - 1 => p = q /\ b1 = d.binding
          <6>1. \A b1 \in Binding : landed[m][p][b1] \in Nat
            BY LandedTyped
          <6> QED BY <6>1
        <5>4. p = q => landed[m][p][d.binding] > 0
          OBVIOUS
        <5> QED BY <5>1, <5>2, <5>3, <5>4 DEF Binding
      <4>4. Landed(m, p)' = landed'[m][p]["nova"] + landed'[m][p]["im"]
        BY DEF Landed
      <4>5. b = "nova" \/ b = "im"
        BY DEF Binding
      <4> QED BY <2>5, <4>2, <4>3, <4>4, <4>5
    <3> QED BY <2>1, <3>1, <3>2
  <2> QED BY <2>4, <2>5 DEF CountsAgree, Covered
<1> QED BY <1>4, <1>5

\* The request ends: whatever is saved, in memory or in the file, accounts for it.
LEMMA SendStep ==
  ASSUME IInv, NEW kind \in {"accepted", "retryable", "blocked", "unknown"}, Send(kind)
  PROVE  IInv'
<1> DEFINE m == relay.message
           d == state.deliveries[m]
           q == d.receipts + 1
           u == [d EXCEPT !.status = "unknown"]
           next == Outcome(state, m, kind)
           lost == [state EXCEPT !.deliveries[m].status = "unknown"]
<1>1. relay.pc = "send" /\ UNCHANGED <<feed, confirms>> /\ PortsAgree /\ StoreAgrees
  BY DEF Send, IInv
<1>2. /\ m \in Message /\ d \in Delivery /\ DeliveryAgrees(d, state.route)
      /\ d.status = "sending" /\ d.prepared /\ d.route = relay.route
      /\ d.receipts \in Nat /\ d.receipts < PartsOf(d) /\ q \in 1..Parts
      /\ landed[m][q][d.binding] > 0
      /\ relay.route <= state.route /\ Sound(state) /\ state \in Outbox
  BY <1>1, AtSend
<1>3. PICK e \in Delivery : Answers(d, e, kind, state.route) /\ next = Change(state, m, e)
  BY <1>1, OutcomeAnswers
<1>4. /\ u \in Delivery /\ u.status = "unknown" /\ u.route = d.route /\ u.prepared = d.prepared
      /\ u.binding = d.binding /\ u.receipts = d.receipts /\ u.invalidated = d.invalidated
  BY <1>2 DEF Delivery, Status
<1>5. lost = Change(state, m, u)
  BY DEF Change
<1> HIDE DEF u, next, lost
\* What may be written is sound, and keeps what the run and the user know.
<1>6. ASSUME NEW c \in Delivery, DeliveryAgrees(c, state.route), c.status # "none"
      PROVE  /\ Sound(Change(state, m, c)) /\ Change(state, m, c).route = state.route
             /\ \A n \in Message : Change(state, m, c).deliveries[n] = IF n = m THEN c ELSE state.deliveries[n]
  <2>1. /\ Change(state, m, c) = [state EXCEPT !.deliveries = [state.deliveries EXCEPT ![m] = c]]
        /\ [state.deliveries EXCEPT ![m] = c] \in [Message -> Delivery]
    BY <1>2 DEF Change, Outbox
  <2>2. Change(state, m, c) \in Outbox /\ Change(state, m, c).route = state.route
        /\ \A n \in Message : Change(state, m, c).deliveries[n] = IF n = m THEN c ELSE state.deliveries[n]
    BY <1>2, <2>1 DEF Outbox
  <2> QED BY <1>2, <1>6, <2>2 DEF Sound
<1>7. /\ Sound(next) /\ next.route = state.route
      /\ \A n \in Message : next.deliveries[n] = IF n = m THEN e ELSE state.deliveries[n]
  BY <1>3, <1>6 DEF Answers
<1>8. DeliveryAgrees(u, state.route)
  BY <1>2, <1>4 DEF DeliveryAgrees, PartsOf
<1>9. /\ Sound(lost) /\ lost.route = state.route
      /\ \A n \in Message : lost.deliveries[n] = IF n = m THEN u ELSE state.deliveries[n]
  BY <1>4, <1>5, <1>6, <1>8
\* The record.
<1>10. /\ landed' \in [Message -> [1..Parts -> [Binding -> Nat]]]
       /\ \A n \in Message, p \in 1..Parts, x \in Binding :
            landed'[n][p][x] = IF kind \in {"retryable", "blocked"} /\ n = m /\ p = q /\ x = d.binding
                               THEN landed[n][p][x] - 1 ELSE landed[n][p][x]
  <2>1. CASE kind \in {"retryable", "blocked"}
    <3> DEFINE b == d.binding
               v == landed[m][q][b] - 1
    <3>1. landed' = Recorded(m, q, b, v)
      BY <2>1 DEF Recorded, Send, Current
    <3>2. b \in Binding
      BY <1>2 DEF Delivery
    <3>3. v \in Nat
      <4>1. landed[m][q][b] \in Nat /\ landed[m][q][b] > 0
        BY <1>1, <1>2, <3>2, LandedTyped
      <4>2. \A k \in Nat : k > 0 => k - 1 \in Nat
        OBVIOUS
      <4> QED BY <4>1, <4>2
    <3> HIDE DEF q, d, m, b, v
    <3>4. /\ landed' \in [Message -> [1..Parts -> [Binding -> Nat]]]
          /\ \A n \in Message, p \in 1..Parts, x \in Binding :
               landed'[n][p][x] = IF n = m /\ p = q /\ x = b THEN v ELSE landed[n][p][x]
      BY <1>1, <1>2, <3>1, <3>2, <3>3, LandedMoves
    <3> QED BY <2>1, <3>4 DEF b, v
  <2>2. CASE kind \notin {"retryable", "blocked"}
    BY <1>1, <2>2 DEF Send, PortsAgree
  <2> QED BY <2>1, <2>2
<1>11. \A n \in Message : \A c : CountsAgree(c, n) => CountsAgree(c, n)'
  <2>1. SUFFICES ASSUME NEW n \in Message, NEW c, CountsAgree(c, n)
                 PROVE  CountsAgree(c, n)'
    OBVIOUS
  <2>2. \A p \in 1..Parts, x \in Binding : landed[n][p][x] \in Nat
    BY <1>1, LandedTyped
  <2>3. \A p \in 1..Parts, x \in Binding : landed'[n][p][x] \in Nat
    <3>1. landed' \in [Message -> [1..Parts -> [Binding -> Nat]]]
      BY <1>10
    <3> QED BY <3>1
  <2>4. \A p \in 1..Parts, x \in Binding :
          landed'[n][p][x] = landed[n][p][x] \/ landed'[n][p][x] = landed[n][p][x] - 1
    <3> HIDE DEF q, d, m
    <3> QED BY <1>10
  <2>5. \A p \in 1..Parts, x \in Binding :
          landed'[n][p][x] \in Nat /\ landed'[n][p][x] <= landed[n][p][x]
    BY <2>2, <2>3, <2>4
  <2> QED BY <1>1, <2>1, <2>5, LessLanded
<1>12. ASSUME NEW n \in Message
       PROVE  /\ CountsAgree(state.deliveries[n], n) /\ CountsAgree(disk.deliveries[n], n)
              /\ CountsAgree(lost.deliveries[n], n)
              /\ \A c : c = next.deliveries[n] => CountsAgree(c, n)'
  <2>1. CountsAgree(state.deliveries[n], n) /\ CountsAgree(disk.deliveries[n], n)
    BY <1>1 DEF StoreAgrees, Counted
  <2>2. CASE n # m
    <3>1. lost.deliveries[n] = state.deliveries[n] /\ next.deliveries[n] = state.deliveries[n]
      BY <1>7, <1>9, <2>2
    <3> QED BY <1>11, <2>1, <3>1
  <2>3. CASE n = m
    <3>1. CountsAgree(d, m)
      BY <2>1, <2>3
    <3>2. lost.deliveries[n] = u /\ next.deliveries[n] = e
      BY <1>7, <1>9, <2>3
    <3>3. CountsAgree(u, m)
      <4>1. \A p \in 1..Parts : Covered(u, p) = Covered(d, p)
        BY <1>2, <1>4 DEF Covered
      <4> QED BY <1>4, <3>1, <4>1 DEF CountsAgree
    <3>4. CountsAgree(e, n)'
      <4>1. d \in Delivery /\ q \in 1..Parts /\ d.status = "sending" /\ q = d.receipts + 1
            /\ landed[n][q][d.binding] > 0
        BY <1>2, <2>3
      <4>2. PortsAgree /\ UNCHANGED confirms /\ Answers(d, e, kind, state.route) /\ CountsAgree(d, n)
        BY <1>1, <1>3, <2>1, <2>3
      <4>3. \A p \in 1..Parts, x \in Binding :
              landed'[n][p][x] = IF kind \in {"retryable", "blocked"} /\ p = q /\ x = d.binding
                                 THEN landed[n][p][x] - 1 ELSE landed[n][p][x]
        BY <1>10, <2>3
      <4> HIDE DEF q, d, m
      <4> QED BY <4>1, <4>2, <4>3, AnswerCounts
    <3>5. \A c : c = next.deliveries[n] => CountsAgree(c, n)'
      BY <3>2, <3>4 DEF CountsAgree, Covered, Landed
    <3>6. CountsAgree(lost.deliveries[n], n)
      BY <2>3, <3>2, <3>3 DEF CountsAgree
    <3> QED BY <2>1, <3>5, <3>6
  <2> QED BY <2>2, <2>3
\* The state after the step.
<1>13. /\ \/ state' = next /\ disk' \in {disk, next}
          \/ state' = lost /\ disk' = lost
          \/ state' = state /\ disk' \in {disk, next, lost}
       /\ next = state \/ state' # next \/ disk' = next
       /\ faults' \in 0..MaxFaults
       /\ \/ relay' = NextId
          \/ relay' = At("check") /\ state' = next /\ e.status = "pending" /\ kind = "accepted"
  <2>1. faults \in 0..MaxFaults /\ MaxFaults \in Nat
    BY <1>1, NotificationsAssumption DEF PortsAgree
  <2>2. next.deliveries[m] = e
    BY <1>2, <1>7
  <2>3. \/ /\ Saved(next)
           /\ relay' = IF next.deliveries[m].status = "pending" /\ kind = "accepted"
                       THEN At("check") ELSE NextId
        \/ /\ faults < MaxFaults /\ faults' = faults + 1
           /\ state' = lost /\ disk' = lost /\ relay' = NextId
        \/ /\ faults + 1 < MaxFaults /\ faults' = faults + 2
           /\ UNCHANGED state /\ disk' \in {disk, next, lost} /\ relay' = NextId
    BY DEF Send, next, lost
  <2>4. ASSUME Saved(next), relay' = IF next.deliveries[m].status = "pending" /\ kind = "accepted"
                                     THEN At("check") ELSE NextId
        PROVE  /\ state' = next /\ disk' \in {disk, next} /\ (next = state \/ disk' = next)
               /\ faults' \in 0..MaxFaults
               /\ \/ relay' = NextId
                  \/ relay' = At("check") /\ e.status = "pending" /\ kind = "accepted"
    BY <2>1, <2>2, <2>4 DEF Saved
  <2>5. CASE /\ faults < MaxFaults /\ faults' = faults + 1
             /\ state' = lost /\ disk' = lost /\ relay' = NextId
    <3>1. faults' \in 0..MaxFaults
      BY <2>1, <2>5
    <3> QED BY <2>5, <3>1
  <2>6. CASE /\ faults + 1 < MaxFaults /\ faults' = faults + 2
             /\ UNCHANGED state /\ disk' \in {disk, next, lost} /\ relay' = NextId
    <3>1. faults' \in 0..MaxFaults
      BY <2>1, <2>6
    <3> QED BY <2>6, <3>1
  <2> QED BY <2>3, <2>4, <2>5, <2>6
<1>14. Sound(state)' /\ Sound(disk)'
  <2>1. Sound(disk)
    BY <1>1 DEF StoreAgrees
  <2>2. state' \in {state, next, lost} /\ disk' \in {disk, next, lost}
    BY <1>13
  <2>3. \A s : Sound(s)' <=> Sound(s)
    BY DEF Sound, DeliveryAgrees, PartsOf
  <2> QED BY <1>2, <1>7, <1>9, <2>1, <2>2, <2>3
<1>15. Counted(state)' /\ Counted(disk)'
  <2>1. SUFFICES ASSUME NEW n \in Message
                 PROVE  CountsAgree(state.deliveries[n], n)' /\ CountsAgree(disk.deliveries[n], n)'
    BY DEF Counted
  <2>2. \A c \in {state.deliveries[n], disk.deliveries[n], lost.deliveries[n], next.deliveries[n]} :
          CountsAgree(c, n)'
    BY <1>11, <1>12
  <2>3. /\ state'.deliveries[n] \in {state.deliveries[n], lost.deliveries[n], next.deliveries[n]}
        /\ disk'.deliveries[n] \in {disk.deliveries[n], lost.deliveries[n], next.deliveries[n]}
    BY <1>13
  <2> QED BY <2>2, <2>3 DEF CountsAgree, Covered, Landed
<1>16. \A n \in Message : /\ (next.deliveries[n].status = "none") = (state.deliveries[n].status = "none")
                          /\ (lost.deliveries[n].status = "none") = (state.deliveries[n].status = "none")
                          /\ state.deliveries[n].invalidated =>
                               next.deliveries[n].invalidated /\ lost.deliveries[n].invalidated
  BY <1>2, <1>3, <1>4, <1>7, <1>9 DEF Answers
<1>17. FileKnows'
  <2>1. \A n \in Message : state.deliveries[n].status # "none" => disk.deliveries[n].status # "none"
    BY <1>1 DEF StoreAgrees, FileKnows
  <2> QED BY <1>13, <1>16, <2>1 DEF FileKnows
<1>18. relay' \in Relay /\ RelayAgrees'
  <2>1. CASE relay' = NextId
    <3>1. NextId \in Relay /\ NextId.pc = "dispatch"
      BY RunForms
    <3> QED BY <2>1, <3>1 DEF RelayAgrees, AtWork
  <2>2. CASE relay' = At("check") /\ state' = next /\ e.status = "pending" /\ kind = "accepted"
    <3>1. At("check") \in Relay /\ At("check").pc = "check" /\ At("check").message = m
          /\ At("check").route = relay.route
      BY RunForms
    <3>2. state'.deliveries[m] = e /\ state'.route = state.route
      BY <1>2, <1>7, <2>2
    <3>3. e.prepared /\ e.status \in Waiting
      BY <1>2, <1>3, <2>2 DEF Answers, Waiting
    <3>4. relay'.pc = "check" /\ relay'.message = m /\ relay'.route = relay.route
      BY <2>2, <3>1
    <3>5. Current' = e
      BY <3>2, <3>4 DEF Current
    <3> QED BY <1>2, <2>2, <3>1, <3>2, <3>3, <3>4, <3>5 DEF RelayAgrees, AtWork
  <2> QED BY <1>13, <2>1, <2>2
<1>19. relay'.pc # "claim"
  BY <1>13, RunForms
<1>20. StoreAgrees'
  BY <1>14, <1>15, <1>17 DEF StoreAgrees
<1>21. \A n \in Message : Withdrawn(n) => Withdrawn(n)'
  BY <1>13, <1>16 DEF Withdrawn
<1>22. \A n \in Message : state.deliveries[n].status # "none" => state'.deliveries[n].status # "none"
  BY <1>13, <1>16
<1>23. landed' \in [Message -> [1..Parts -> [Binding -> Nat]]] /\ faults' \in 0..MaxFaults
  BY <1>10, <1>13
<1> QED BY <1>1, <1>18, <1>19, <1>20, <1>21, <1>22, <1>23, RunStep

-----------------------------------------------------------------------------
(* The invariant, and what it gives. *)

\* The invariant holds of a fresh outbox.
LEMMA InitHolds ==
  ASSUME Init
  PROVE  IInv
<1> DEFINE ds == [m \in Message |-> NoDelivery]
<1>1. PICK b \in Binding : state = [primary |-> b, route |-> 0, account |-> 0, deliveries |-> ds]
  BY DEF Init
<1>2. /\ disk = state /\ relay = Idle /\ faults = 0
      /\ feed = [revision |-> 0, dismissed |-> FALSE, dismissing |-> FALSE, intents |-> {}]
      /\ landed = [m \in Message |-> [p \in 1..Parts |-> [x \in Binding |-> 0]]]
      /\ confirms = [m \in Message |-> 0]
  BY DEF Init
<1>3. NoDelivery \in Delivery /\ DeliveryAgrees(NoDelivery, 0)
  BY NotificationsAssumption
  DEF NoDelivery, Delivery, Status, Binding, Route, DeliveryAgrees, PartsOf
<1>4. ds \in [Message -> Delivery] /\ \A m \in Message : ds[m] = NoDelivery
  BY <1>3
<1> HIDE DEF ds
<1>5. /\ state \in Outbox /\ state.route = 0
      /\ \A m \in Message : state.deliveries[m] = NoDelivery
  BY <1>1, <1>4, NotificationsAssumption DEF Outbox, Route
<1>6. Sound(state) /\ Sound(disk)
  BY <1>2, <1>3, <1>5 DEF Sound
<1>7. \A m \in Message : CountsAgree(NoDelivery, m)
  <2>1. SUFFICES ASSUME NEW m \in Message PROVE CountsAgree(NoDelivery, m)
    OBVIOUS
  <2>2. \A p \in 1..Parts, x \in Binding : landed[m][p][x] = 0
    BY <1>2
  <2>3. \A p \in 1..Parts : Landed(m, p) = 0
    BY <2>2 DEF Landed, Binding
  <2>4. confirms[m] = 0
    BY <1>2
  <2> QED BY <2>2, <2>3, <2>4 DEF CountsAgree
<1>8. StoreAgrees
  BY <1>2, <1>5, <1>6, <1>7 DEF StoreAgrees, Counted, FileKnows
<1>9. Idle \in Relay /\ Idle.pc = "idle"
  BY NotificationsAssumption DEF Idle, Relay, Route
<1>10. landed \in [Message -> [1..Parts -> [Binding -> Nat]]]
  <2>1. [x \in Binding |-> 0] \in [Binding -> Nat]
    OBVIOUS
  <2> QED BY <1>2, <2>1
<1>11. PortsAgree
  BY <1>2, <1>9, <1>10, NotificationsAssumption DEF PortsAgree
<1>12. RelayAgrees /\ DismissalAgrees
  BY <1>2, <1>9 DEF RelayAgrees, DismissalAgrees, AtWork
<1>13. IntentAgrees
  BY <1>2 DEF IntentAgrees
<1> QED BY <1>8, <1>11, <1>12, <1>13 DEF IInv

\* ... when nothing happens,
LEMMA StutterHolds ==
  ASSUME IInv, UNCHANGED vars
  PROVE  IInv'
BY DEF vars, IInv, StoreAgrees, Sound, Counted, CountsAgree, Landed, FileKnows, PortsAgree,
       RelayAgrees, Superseded, Current, DismissalAgrees, Withdrawn, IntentAgrees

\* ... and after every step.
LEMMA NextHolds ==
  ASSUME IInv, Next
  PROVE  IInv'
<1>1. ASSUME Revise \/ Invalidate \/ CommitDismissal
      PROVE  IInv'
  BY <1>1, ReviseStep, InvalidateStep, CommitDismissalStep
<1>2. ASSUME NEW b \in Binding, Configure(b)
      PROVE  IInv'
  BY <1>2, ConfigureStep
<1>3. ASSUME NEW m \in Message, Retry(m)
      PROVE  IInv'
  BY <1>3, RetryStep
<1>4. ASSUME Bind \/ Restart \/ PublishIntent \/ ClearIntent
      PROVE  IInv'
  BY <1>4, BindStep, RestartStep, PublishIntentStep, ClearIntentStep
<1>5. ASSUME Flush \/ Dispatch \/ PassOver
      PROVE  IInv'
  BY <1>5, LookSteps
<1>6. ASSUME NEW m \in Message, NEW r \in Route, Skip(m, r) \/ Take(m, r)
      PROVE  IInv'
  BY <1>6, LookSteps, TakeStep
<1>7. ASSUME NEW usable \in BOOLEAN, Probe(usable)
      PROVE  IInv'
  BY <1>7, ProbeStep
<1>8. ASSUME NEW answer, Check(answer)
      PROVE  IInv'
  BY <1>8, CheckStep
<1>9. ASSUME Claim
      PROVE  IInv'
  BY <1>9, ClaimStep, NoClaimStep
<1>10. ASSUME NEW kind \in {"accepted", "retryable", "blocked", "unknown"}, Send(kind)
       PROVE  IInv'
  BY <1>10, SendStep
<1> QED BY <1>1, <1>2, <1>3, <1>4, <1>5, <1>6, <1>7, <1>8, <1>9, <1>10 DEF Next, Deliver

\* The memory and the file of the outbox account for every send that may have
\* been accepted, and the run knows what it needs to, whatever happens.
THEOREM InvariantHolds == Spec => []IInv
<1>1. Init => IInv
  BY InitHolds
<1>2. IInv /\ [Next]_vars => IInv'
  BY NextHolds, StutterHolds
<1> QED BY <1>1, <1>2, PTL DEF Spec

\* The state has its types, a delivery is accepted only with every receipt, and
\* a request is out only for a delivery that says so (publish, #deliver).
THEOREM TypeCorrect == Spec => []TypeOK
<1>1. IInv => TypeOK
  <2>1. SUFFICES ASSUME IInv PROVE TypeOK
    OBVIOUS
  <2>2. state \in Outbox /\ disk \in Outbox
    BY <2>1 DEF IInv, StoreAgrees, Sound
  <2>3. \A s \in {state, disk}, m \in Message :
          LET d == s.deliveries[m] IN
          /\ d.status = "accepted" => d.receipts = PartsOf(d)
          /\ d.receipts > 0 => d.prepared
          /\ d.status = "none" => d = NoDelivery
    BY <2>1 DEF IInv, StoreAgrees, Sound, DeliveryAgrees
  <2> QED BY <2>1, <2>2, <2>3 DEF TypeOK, IInv, PortsAgree, RelayAgrees
<1> QED BY <1>1, InvariantHolds, PTL

\* A part goes out again only after a certain refusal or a confirmation, and a
\* message reaches one channel unless the user confirmed (claim, open, configure).
THEOREM NeverSentBlindlyHolds == Spec => []NeverSentBlindly
<1>1. IInv => NeverSentBlindly
  <2>1. SUFFICES ASSUME IInv, NEW m \in Message
                 PROVE  /\ \A p \in 1..Parts : Landed(m, p) <= 1 + confirms[m]
                        /\ Cardinality(Channels(m)) <= 1 + confirms[m]
    BY DEF NeverSentBlindly
  <2>2. CountsAgree(state.deliveries[m], m) /\ confirms[m] \in Nat /\ PortsAgree
    BY <2>1, NotificationsAssumption DEF IInv, StoreAgrees, Counted, PortsAgree
  <2>3. ASSUME NEW p \in 1..Parts
        PROVE  Landed(m, p) <= 1 + confirms[m]
    <3>1. Landed(m, p) \in Nat
      BY <2>2, CountsTyped
    <3>2. Landed(m, p) <= confirms[m] + (IF Covered(state.deliveries[m], p) THEN 1 ELSE 0)
      BY <2>2 DEF CountsAgree
    <3> QED BY <2>2, <3>1, <3>2
  <2>4. Cardinality(Channels(m)) <= 1 + confirms[m]
    <3>1. IsFiniteSet(Binding) /\ Cardinality(Binding) = 2
      <4>1. IsFiniteSet({"nova"}) /\ Cardinality({"nova"}) = 1
        BY FS_Singleton
      <4>2. IsFiniteSet({"nova"} \cup {"im"}) /\ Cardinality({"nova"} \cup {"im"}) = 2
        BY <4>1, FS_AddElement
      <4>3. Binding = {"nova"} \cup {"im"}
        BY DEF Binding
      <4> QED BY <4>2, <4>3
    <3>2. Channels(m) \subseteq Binding
      BY DEF Channels
    <3>3. IsFiniteSet(Channels(m)) /\ Cardinality(Channels(m)) <= 2 /\ Cardinality(Channels(m)) \in Nat
      BY <3>1, <3>2, FS_Subset, FS_CardinalityType
    <3>4. CASE confirms[m] = 0
      <4>1. Channels(m) \subseteq {state.deliveries[m].binding}
        BY <2>2, <3>4 DEF Channels, CountsAgree
      <4>2. IsFiniteSet({state.deliveries[m].binding}) /\ Cardinality({state.deliveries[m].binding}) = 1
        BY FS_Singleton
      <4>3. Cardinality(Channels(m)) <= 1
        BY <4>1, <4>2, FS_Subset
      <4> QED BY <3>3, <3>4, <4>3
    <3>5. CASE confirms[m] # 0
      BY <2>2, <3>3, <3>5
    <3> QED BY <3>4, <3>5
  <2> QED BY <2>3, <2>4
<1> QED BY <1>1, InvariantHolds, PTL

\* No crash or failed write loses an intent that was committed with the item
\* (flushNotifications).
THEOREM IntentKeptHolds == Spec => []IntentKept
<1>1. IInv => IntentKept
  <2>1. SUFFICES ASSUME IInv, NEW m \in 1..feed.revision, ~feed.dismissed, m \notin feed.intents
                 PROVE  disk.deliveries[m].status # "none"
    BY DEF IntentKept
  <2>2. state.deliveries[m].status # "none"
    BY <2>1 DEF IInv, IntentAgrees
  <2>3. m \in Message
    BY <2>1, NotificationsAssumption DEF IInv, PortsAgree, Message
  <2> QED BY <2>1, <2>2, <2>3 DEF IInv, StoreAgrees, FileKnows
<1> QED BY <1>1, InvariantHolds, PTL

\* After the dismissal of the item is committed no part of it goes out (#commit,
\* invalidate, the claim).
THEOREM NothingAfterDismissalHolds == Spec => NothingAfterDismissal
<1>1. IInv /\ [Next]_vars => (relay'.pc = "send" /\ relay.pc # "send" => ~feed.dismissed)
  <2>1. SUFFICES ASSUME IInv, [Next]_vars, relay'.pc = "send", relay.pc # "send", feed.dismissed
                 PROVE  FALSE
    OBVIOUS
  <2>2. relay \in Relay /\ feed.intents \in SUBSET Message /\ Idle.pc = "idle" /\ NextId.pc = "dispatch"
        /\ At("check").pc = "check" /\ At("claim").pc = "claim"
    BY <2>1, RunForms DEF IInv, PortsAgree
  <2>3. Next /\ relay' # relay
    BY <2>1, <2>2 DEF vars
  <2>4. ~(Revise \/ Invalidate \/ CommitDismissal \/ Bind \/ Restart)
    BY <2>1, <2>2, <2>3 DEF Revise, Invalidate, CommitDismissal, Bind, Restart
  <2>5. (\A b \in Binding : ~Configure(b)) /\ \A m \in Message : ~Retry(m)
    BY <2>3 DEF Configure, Retry
  <2>6. ~Flush /\ ~PassOver
    <3>1. \A is : [Idle EXCEPT !.pc = "admit", !.todo = is].pc = "admit"
      BY DEF Idle
    <3> QED BY <2>1, <2>2, <3>1 DEF Flush, PassOver
  <2>7. ~PublishIntent
    <3>1. SUFFICES ASSUME PublishIntent PROVE FALSE
      OBVIOUS
    <3>2. PICK m \in relay.todo :
            Then(Admit(state, m), [relay EXCEPT !.pc = "clear", !.message = m, !.todo = @ \ {m}])
      BY <3>1 DEF PublishIntent
    <3>3. [relay EXCEPT !.pc = "clear", !.message = m, !.todo = @ \ {m}].pc = "clear"
      BY <2>2 DEF Relay
    <3> QED BY <2>1, <2>2, <3>2, <3>3 DEF Then
  <2>8. ~ClearIntent /\ ~Dispatch
    BY <2>1, <2>2 DEF ClearIntent, Dispatch, Relay
  <2>9. ASSUME NEW m \in Message, NEW r \in Route, Skip(m, r) \/ Take(m, r)
        PROVE  FALSE
    <3> DEFINE rest == [relay EXCEPT !.ids = @ \ {<<m, r>>}]
    <3>1. rest.pc = relay.pc /\ [rest EXCEPT !.pc = "probe", !.message = m, !.route = r].pc = "probe"
      BY <2>2 DEF Relay
    <3>2. relay' \in {rest, Idle, [rest EXCEPT !.pc = "probe", !.message = m, !.route = r]}
      BY <2>9 DEF Skip, Take, Then
    <3> QED BY <2>1, <2>2, <3>1, <3>2
  <2>10. (\A usable \in BOOLEAN : ~Probe(usable)) /\ \A answer : ~Check(answer)
    BY <2>1, <2>2 DEF Probe, Check, Then
  <2>11. \A kind : ~Send(kind)
    BY <2>1 DEF Send
  <2>12. ~Claim
    <3>1. SUFFICES ASSUME Claim PROVE FALSE
      OBVIOUS
    <3>2. relay.pc = "claim" /\ ~Superseded(Claimed(state)) /\ Claimed(state).deliveries[relay.message].status = "sending"
      BY <2>1, <2>2, <3>1 DEF Claim, Then
    <3>3. Withdrawn(relay.message) \/ Superseded(state)
      BY <2>1, <3>2 DEF IInv, DismissalAgrees
    <3>4. state.deliveries[relay.message].route = relay.route =>
            state.deliveries[relay.message].status \in Waiting \cup Ended
      BY <2>1, <3>2, AtDelivery
    <3>5. Claimed(state) = state
      BY <3>3 DEF Claimed, Withdrawn, Waiting
    <3> QED BY <3>2, <3>4, <3>5 DEF Superseded, Waiting, Ended
  <2> QED BY <2>3, <2>4, <2>5, <2>6, <2>7, <2>8, <2>9, <2>10, <2>11, <2>12 DEF Next, Deliver
<1> QED BY <1>1, InvariantHolds, PTL DEF Spec, NothingAfterDismissal
=============================================================================
