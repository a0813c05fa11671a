------------------------- MODULE HostApprovalProofs -------------------------
(***************************************************************************)
(* Proofs about HostApproval, for any numbers of works, of approvals and   *)
(* of entries in line, and any deadline.                                   *)
(*                                                                         *)
(* The inductive invariant IInv ties the four parties to the line that     *)
(* they park: approvals stand in it in the order in which they were asked  *)
(* for, who waits behind the head is undecided and not parked, and an      *)
(* outcome is open exactly while its approval waits undecided (Orderly);   *)
(* the pending decision and the controller agree on the head's deadline,   *)
(* which stands still exactly while somebody holds the head or its card    *)
(* has not been seen (TimerAgrees); an open confirmation, or an absent     *)
(* person, holds, and nobody else does (ProjectAgrees, PresenceAgrees).    *)
(* HistoryAgrees says why this answers the properties: what was revoked    *)
(* has left the line, what waits was not spent, and a card that was not    *)
(* seen is awaited, so that its head is parked and cannot expire.          *)
(*                                                                         *)
(* The private methods of the controller are operators from record to      *)
(* record, so there is one lemma per method that says when it leaves a     *)
(* sound controller, and one per action.  ClearConversation drops heads in *)
(* a loop: DroppedSound is an induction over the number of turns.          *)
(***************************************************************************)
EXTENDS HostApproval, TLAPS, SequenceTheorems, WellFoundedInduction

\* The approvals were asked for in the order in which they stand.
Increasing(q) == \A i, j \in DOMAIN q : i < j => q[i] < q[j]

\* The approvals asked for stand in line, the queue behind the head.
InLine(b, asked) ==
  /\ b.current = Null => b.queue = <<>>
  /\ Increasing(b.queue)
  /\ b.current <= asked
  /\ \A e \in ToSet(b.queue) : b.current < e /\ e <= asked

\* Who waits behind the head is undecided and was never parked.
Undecided(b, e) == b.state[e] = "pending" /\ ~b.held[e]
QueueAgrees(b, asked) ==
  /\ \A e \in ToSet(b.queue) : Undecided(b, e)
  /\ \A e \in Approval : e > asked => Undecided(b, e) /\ b.outcome[e] = "open" /\ ~b.awaiting[e]

\* The outcome of an approval that was asked for is open while it is undecided.
OutcomeAgrees(b, asked) ==
  \A e \in 1..asked : b.outcome[e] = "open" <=> e \in Entries(b) /\ b.state[e] = "pending"

\* The controller, its deadline aside.
Orderly(b, asked) ==
  b \in Controller /\ InLine(b, asked) /\ QueueAgrees(b, asked) /\ OutcomeAgrees(b, asked)

\* The head's deadline.
TimerAgrees(b) ==
  IF HeadPending(b)
  THEN /\ b.timer = [of |-> b.current, held |-> b.held[b.current], left |-> b.left]
       /\ b.held[b.current] <=> b.holds # {} \/ b.awaiting[b.current]
  ELSE b.timer.of = Null

\* Who holds will release.
ProjectHolds(b) == "project" \in b.holds => b.current # Null /\ project # "none"
ProjectAgrees(b) ==
  ProjectHolds(b) /\ (HeadPending(b) /\ project = "pending" => "project" \in b.holds)
\* An absent person holds.
PresenceAgrees(b) == "background" \in b.holds <=> ~presented

Sound(b, asked) == Orderly(b, asked) /\ TimerAgrees(b) /\ ProjectAgrees(b) /\ PresenceAgrees(b)

\* What the histories say of the approvals that wait, and of those that do not.
HistoryAgrees ==
  /\ expired \subseteq revoked /\ revoked \cap Entries(fifo) = {}
  /\ \A e \in Entries(fifo) : spent[e] = "none" /\ (e \in unseen => fifo.awaiting[e])
  /\ \A e \in Approval : e > issued => spent[e] = "none" /\ e \notin revoked \cup unseen

IInv ==
  TypeOK /\ Sound(fifo, issued) /\ HistoryAgrees /\ UnseenNeverExpires /\ RevokedNeverSpent

-----------------------------------------------------------------------------
(* Sequences. *)

\* Taking away the i-th element.
LEMMA RemoveAtFacts ==
  ASSUME NEW E, NEW q \in Seq(E), NEW i \in DOMAIN q
  PROVE  /\ RemoveAt(q, i) \in Seq(E)
         /\ Len(RemoveAt(q, i)) = Len(q) - 1
         /\ \A k \in 1..(Len(q) - 1) : RemoveAt(q, i)[k] = IF k < i THEN q[k] ELSE q[k + 1]
<1> DEFINE a == SubSeq(q, 1, i - 1)
           c == SubSeq(q, i + 1, Len(q))
<1>0. i \in 1..Len(q) /\ Len(q) \in Nat
  OBVIOUS
<1>1. a \in Seq(E) /\ Len(a) = i - 1 /\ \A k \in 1..(i - 1) : a[k] = q[k]
  OBVIOUS
<1>2. c \in Seq(E) /\ Len(c) = Len(q) - i /\ \A k \in 1..(Len(q) - i) : c[k] = q[i + k]
  OBVIOUS
<1>3. RemoveAt(q, i) = a \o c
  BY DEF RemoveAt
<1> HIDE DEF a, c
<1>4. a \o c \in Seq(E) /\ Len(a \o c) = Len(q) - 1
  BY <1>1, <1>2
<1>5. ASSUME NEW k \in 1..(Len(q) - 1)
      PROVE  (a \o c)[k] = IF k < i THEN q[k] ELSE q[k + 1]
  <2>1. CASE k < i
    BY <1>1, <1>2, <2>1
  <2>2. CASE ~(k < i)
    <3>1. k - (i - 1) \in 1..(Len(q) - i) /\ i + (k - (i - 1)) = k + 1
      BY <1>0, <2>2
    <3>2. (a \o c)[k] = c[k - Len(a)]
      <4>1. k \in 1..(Len(a) + Len(c)) /\ k > Len(a)
        BY <1>0, <1>1, <1>2, <2>2
      <4>2. a \in Seq(E) /\ c \in Seq(E)
        BY <1>1, <1>2
      <4> QED BY <4>1, <4>2, ConcatProperties
    <3>3. c[k - (i - 1)] = q[k + 1]
      BY <1>2, <3>1
    <3> QED BY <1>1, <2>2, <3>2, <3>3
  <2> QED BY <2>1, <2>2
<1> QED BY <1>3, <1>4, <1>5

\* The members of an increasing queue without one of them.
LEMMA WithoutFacts ==
  ASSUME NEW q \in Seq(Approval), Increasing(q), NEW e \in ToSet(q)
  PROVE  /\ Without(q, e) \in Seq(Approval) /\ Increasing(Without(q, e))
         /\ ToSet(Without(q, e)) = ToSet(q) \ {e}
<1> DEFINE i == CHOOSE i \in DOMAIN q : q[i] = e
           r == RemoveAt(q, i)
<1>1. i \in DOMAIN q /\ q[i] = e
  BY DEF ToSet
<1>2. Without(q, e) = r
  BY DEF Without
<1> HIDE DEF i
<1>3. r \in Seq(Approval) /\ Len(r) = Len(q) - 1
      /\ \A k \in 1..(Len(q) - 1) : r[k] = IF k < i THEN q[k] ELSE q[k + 1]
  BY <1>1, RemoveAtFacts
<1> HIDE DEF r
<1>4. \A k \in DOMAIN q : q[k] \in Approval
  OBVIOUS
<1>5. Increasing(r)
  <2>1. DOMAIN r = 1..(Len(q) - 1) /\ DOMAIN q = 1..Len(q) /\ Len(q) \in Nat
    BY <1>3
  <2>2. ASSUME NEW j \in 1..(Len(q) - 1), NEW k \in 1..(Len(q) - 1), j < k PROVE r[j] < r[k]
    <3> DEFINE from(n) == IF n < i THEN n ELSE n + 1
    <3>1. from(j) \in DOMAIN q /\ from(k) \in DOMAIN q /\ from(j) < from(k)
      BY <1>1, <2>1, <2>2
    <3>2. r[j] = q[from(j)] /\ r[k] = q[from(k)]
      BY <1>3
    <3> HIDE DEF from
    <3> QED BY <3>1, <3>2 DEF Increasing
  <2> QED BY <2>1, <2>2 DEF Increasing
<1>6. ASSUME NEW x \in ToSet(r) PROVE x \in ToSet(q) \ {e}
  <2>1. PICK k \in 1..(Len(q) - 1) : x = r[k]
    BY <1>3 DEF ToSet
  <2>2. x = (IF k < i THEN q[k] ELSE q[k + 1])
    BY <1>3, <2>1
  <2> QED BY <1>1, <1>4, <2>1, <2>2 DEF Increasing, ToSet, Approval
<1>7. ASSUME NEW x \in ToSet(q) \ {e} PROVE x \in ToSet(r)
  <2>1. PICK k \in DOMAIN q : x = q[k] /\ k # i
    BY <1>1 DEF ToSet
  <2>2. CASE k < i
    BY <1>1, <1>3, <2>1, <2>2 DEF ToSet
  <2>3. CASE k > i
    <3>1. k - 1 \in DOMAIN r /\ r[k - 1] = q[k]
      BY <1>1, <1>3, <2>1, <2>3
    <3> QED BY <2>1, <3>1 DEF ToSet
  <2> QED BY <1>1, <2>1, <2>2, <2>3
<1> QED BY <1>2, <1>3, <1>5, <1>6, <1>7

\* The members of an increasing queue without its first.
LEMMA TailFacts ==
  ASSUME NEW q \in Seq(Approval), Increasing(q), q # <<>>
  PROVE  /\ Head(q) \in Approval /\ Head(q) \in ToSet(q)
         /\ Tail(q) \in Seq(Approval) /\ Increasing(Tail(q)) /\ Len(Tail(q)) = Len(q) - 1
         /\ ToSet(Tail(q)) = ToSet(q) \ {Head(q)}
         /\ \A e \in ToSet(Tail(q)) : Head(q) < e
<1>1. Head(q) = q[1] /\ 1 \in DOMAIN q /\ Head(q) \in Approval
  OBVIOUS
<1>2. Tail(q) \in Seq(Approval) /\ Len(Tail(q)) = Len(q) - 1
      /\ \A k \in 1..(Len(q) - 1) : Tail(q)[k] = q[k + 1]
  OBVIOUS
<1>3. \A k \in DOMAIN q : q[k] \in Approval
  OBVIOUS
<1>4. Increasing(Tail(q))
  BY <1>2 DEF Increasing
<1>5. ASSUME NEW x \in ToSet(Tail(q)) PROVE x \in ToSet(q) /\ Head(q) < x
  <2>1. PICK k \in 1..(Len(q) - 1) : x = Tail(q)[k]
    BY <1>2 DEF ToSet
  <2>2. x = q[k + 1] /\ k + 1 \in DOMAIN q
    BY <1>2, <2>1
  <2> QED BY <1>1, <2>2 DEF Increasing, ToSet
<1>6. ASSUME NEW x \in ToSet(q), x # Head(q) PROVE x \in ToSet(Tail(q))
  <2>1. PICK k \in DOMAIN q : x = q[k] /\ k # 1
    BY <1>1, <1>6 DEF ToSet
  <2>2. k - 1 \in DOMAIN Tail(q) /\ Tail(q)[k - 1] = x
    BY <1>2, <2>1
  <2> QED BY <2>2 DEF ToSet
<1>7. Head(q) \in ToSet(q)
  BY <1>1 DEF ToSet
<1> QED BY <1>1, <1>2, <1>4, <1>5, <1>6, <1>7 DEF Approval

\* The members of a queue with one more at its end.
LEMMA AppendFacts ==
  ASSUME NEW q \in Seq(Approval), Increasing(q), NEW e \in Approval, \A x \in ToSet(q) : x < e
  PROVE  /\ Append(q, e) \in Seq(Approval) /\ Increasing(Append(q, e))
         /\ ToSet(Append(q, e)) = ToSet(q) \cup {e}
<1> DEFINE r == Append(q, e)
<1>1. r \in Seq(Approval) /\ Len(r) = Len(q) + 1 /\ r[Len(q) + 1] = e
      /\ \A k \in 1..Len(q) : r[k] = q[k]
  OBVIOUS
<1> HIDE DEF r
<1>2. \A k \in 1..Len(q) : q[k] \in ToSet(q)
  BY DEF ToSet
<1>3. Increasing(r)
  BY <1>1, <1>2 DEF Increasing
<1>4. ToSet(r) = ToSet(q) \cup {e}
  <2>1. DOMAIN r = 1..(Len(q) + 1) /\ DOMAIN q = 1..Len(q)
    BY <1>1
  <2>2. Len(q) + 1 \in DOMAIN r
    BY <2>1
  <2>3. ASSUME NEW x \in ToSet(q) PROVE x \in ToSet(r)
    BY <1>1, <2>1 DEF ToSet
  <2>4. e \in ToSet(r)
    BY <1>1, <2>2 DEF ToSet
  <2>5. ASSUME NEW x \in ToSet(r), x # e PROVE x \in ToSet(q)
    BY <1>1, <2>1, <2>5 DEF ToSet
  <2> QED BY <2>3, <2>4, <2>5
<1> QED BY <1>1, <1>3, <1>4 DEF r

\* The empty queue.
LEMMA EmptyFacts == <<>> \in Seq(Approval) /\ ToSet(<<>>) = {} /\ Increasing(<<>>)
BY DEF ToSet, Increasing

-----------------------------------------------------------------------------
(* What the private methods leave and change. *)

\* The fields of a controller.
LEMMA ControllerFields ==
  ASSUME NEW b \in Controller
  PROVE  /\ b.current \in Approval \cup {Null} /\ b.queue \in Seq(Approval)
         /\ b.holds \subseteq {"project", "background"} /\ b.left \in 0..TTL
         /\ b.timer \in [of : Approval \cup {Null}, held : BOOLEAN, left : 0..TTL]
         /\ b.state \in [Approval -> {"pending", "responding"}]
         /\ b.held \in [Approval -> BOOLEAN] /\ b.awaiting \in [Approval -> BOOLEAN]
         /\ b.outcome \in [Approval -> {"open", "accept", "decline"}]
BY DEF Controller

\* Approvals are numbered from one, a full TTL is a number of ticks.
LEMMA Numbers ==
  /\ Approval \subseteq Nat \ {0} /\ Null = 0 /\ Null \notin Approval /\ TTL \in 0..TTL
  /\ NoTimer \in [of : Approval \cup {Null}, held : BOOLEAN, left : 0..TTL]
  /\ NoTimer.of = Null
BY ApprovalAssumption DEF Approval, Null, NoTimer

\* Two controllers have the same line and decisions.
SameLine(b, c) ==
  /\ c.current = b.current /\ c.queue = b.queue
  /\ c.state = b.state /\ c.outcome = b.outcome

\* What StopTimer changes: the deadline that runs.
LEMMA StopTimerFields ==
  ASSUME NEW b \in Controller, NEW e
  PROVE  /\ StopTimer(b, e) \in Controller /\ SameLine(b, StopTimer(b, e))
         /\ StopTimer(b, e).holds = b.holds /\ StopTimer(b, e).left = b.left
         /\ StopTimer(b, e).held = b.held /\ StopTimer(b, e).awaiting = b.awaiting
         /\ StopTimer(b, e).timer = IF b.timer.of = e THEN [b.timer EXCEPT !.held = TRUE]
                                    ELSE b.timer
BY DEF StopTimer, Controller, SameLine

\* What DropTimer changes: the pending decision is given up.
LEMMA DropTimerFields ==
  ASSUME NEW b \in Controller, NEW e
  PROVE  /\ DropTimer(b, e) \in Controller /\ SameLine(b, DropTimer(b, e))
         /\ DropTimer(b, e).holds = b.holds /\ DropTimer(b, e).left = b.left
         /\ DropTimer(b, e).held = b.held /\ DropTimer(b, e).awaiting = b.awaiting
         /\ DropTimer(b, e).timer = IF b.timer.of = e THEN NoTimer ELSE b.timer
BY Numbers DEF DropTimer, Controller, SameLine

\* Two deadlines of the same fields.
LEMMA SameDeadline ==
  ASSUME NEW S, NEW t \in [of : S, held : BOOLEAN, left : 0..TTL],
         NEW u \in [of : S, held : BOOLEAN, left : 0..TTL],
         t.of = u.of, t.held = u.held, t.left = u.left
  PROVE  t = u
OBVIOUS

\* A timer that is stopped.
LEMMA StoppedTimer ==
  ASSUME NEW e \in Approval,
         NEW t \in [of : Approval \cup {Null}, held : BOOLEAN, left : 0..TTL],
         t = [of |-> e, held |-> FALSE, left |-> TTL]
  PROVE  t.of = e /\ [t EXCEPT !.held = TRUE] = [of |-> e, held |-> TRUE, left |-> TTL]
<1> DEFINE S == Approval \cup {Null}
           stopped == [t EXCEPT !.held = TRUE]
           new == [of |-> e, held |-> TRUE, left |-> TTL]
<1>1. t.of = e /\ t.left = TTL /\ TTL \in 0..TTL
  BY Numbers
<1>2. stopped \in [of : S, held : BOOLEAN, left : 0..TTL]
      /\ stopped.of = e /\ stopped.held = TRUE /\ stopped.left = TTL
  BY <1>1
<1>3. new \in [of : S, held : BOOLEAN, left : 0..TTL]
      /\ new.of = e /\ new.held = TRUE /\ new.left = TTL
  BY <1>1
<1> HIDE DEF stopped, new
<1>4. stopped = new
  BY <1>2, <1>3, SameDeadline
<1> QED BY <1>1, <1>4 DEF stopped, new

\* What Arm changes: the pending decision is the head's (#arm).
LEMMA ArmFields ==
  ASSUME NEW b \in Controller, NEW e \in Approval
  PROVE  /\ Arm(b, e) \in Controller /\ SameLine(b, Arm(b, e))
         /\ Arm(b, e).holds = b.holds /\ Arm(b, e).awaiting = b.awaiting
         /\ Arm(b, e).held = IF b.holds # {} \/ b.awaiting[e] THEN [b.held EXCEPT ![e] = TRUE]
                             ELSE b.held
         /\ Arm(b, e).left = TTL
         /\ Arm(b, e).timer =
              [of |-> e, held |-> b.holds # {} \/ b.awaiting[e], left |-> TTL]
<1> DEFINE armed == [b EXCEPT !.left = TTL, !.timer = [of |-> e, held |-> FALSE, left |-> TTL]]
           parked == [armed EXCEPT !.held[e] = TRUE]
<1>1. armed \in Controller /\ SameLine(b, armed) /\ armed.holds = b.holds
      /\ armed.awaiting = b.awaiting /\ armed.held = b.held /\ armed.left = TTL
      /\ armed.timer = [of |-> e, held |-> FALSE, left |-> TTL]
  BY Numbers DEF Controller, SameLine
<1> HIDE DEF armed
<1>2. parked \in Controller /\ SameLine(b, parked) /\ parked.holds = b.holds
      /\ parked.awaiting = b.awaiting /\ parked.held = [b.held EXCEPT ![e] = TRUE]
      /\ parked.left = TTL /\ parked.timer = armed.timer
  BY <1>1 DEF Controller, SameLine
<1> HIDE DEF parked
<1>3. CASE b.holds # {} \/ b.awaiting[e]
  <2>1. Arm(b, e) = StopTimer(parked, e)
    BY <1>3 DEF Arm, armed, parked
  <2>2. parked.timer = [of |-> e, held |-> FALSE, left |-> TTL]
    BY <1>1, <1>2
  <2>3. parked.timer.of = e /\ [parked.timer EXCEPT !.held = TRUE] = [of |-> e, held |-> TRUE, left |-> TTL]
    <3> DEFINE t == parked.timer
    <3>1. t \in [of : Approval \cup {Null}, held : BOOLEAN, left : 0..TTL]
      BY <1>2, ControllerFields
    <3>2. t = [of |-> e, held |-> FALSE, left |-> TTL]
      BY <2>2
    <3> HIDE DEF t
    <3>3. t.of = e /\ [t EXCEPT !.held = TRUE] = [of |-> e, held |-> TRUE, left |-> TTL]
      BY <3>1, <3>2, StoppedTimer
    <3> QED BY <3>3 DEF t
  <2>4. StopTimer(parked, e).timer = [of |-> e, held |-> TRUE, left |-> TTL]
    BY <1>2, <2>3, StopTimerFields
  <2>5. (b.holds # {} \/ b.awaiting[e]) = TRUE
    BY <1>3
  <2> DEFINE stopped == StopTimer(parked, e)
  <2>6. stopped \in Controller /\ SameLine(parked, stopped) /\ stopped.holds = parked.holds
        /\ stopped.left = parked.left /\ stopped.held = parked.held
        /\ stopped.awaiting = parked.awaiting
    <3>1. parked \in Controller
      BY <1>2
    <3> HIDE DEF parked, armed
    <3> QED BY <3>1, StopTimerFields
  <2>7. Arm(b, e) = stopped
    BY <2>1
  <2> HIDE DEF stopped
  <2>8. stopped.held = [b.held EXCEPT ![e] = TRUE] /\ stopped.awaiting = b.awaiting
        /\ stopped.left = TTL /\ stopped.holds = b.holds
    BY <1>2, <2>6
  <2>9. SameLine(b, stopped)
    BY <1>2, <2>6 DEF SameLine
  <2>10. stopped.timer = [of |-> e, held |-> TRUE, left |-> TTL]
    BY <2>4 DEF stopped
  <2> QED BY <1>3, <2>5, <2>6, <2>7, <2>8, <2>9, <2>10
<1>4. CASE ~(b.holds # {} \/ b.awaiting[e])
  <2>1. Arm(b, e) = armed
    BY <1>4 DEF Arm, armed
  <2> QED BY <1>1, <1>4, <2>1
<1> QED BY <1>3, <1>4

\* The head is gone, the next in line takes its place with a full TTL.
LEMMA PromoteNextFields ==
  ASSUME NEW b \in Controller, NEW c, c = PromoteNext(b)
  PROVE  /\ c \in Controller /\ c.holds = b.holds /\ c.awaiting = b.awaiting
         /\ c.state = b.state /\ c.outcome = b.outcome
         /\ b.queue = <<>> => c = b
         /\ b.queue # <<>> =>
              LET e == Head(b.queue) IN
              /\ c.current = e /\ c.queue = Tail(b.queue)
              /\ c.held = IF b.holds # {} \/ b.awaiting[e] THEN [b.held EXCEPT ![e] = TRUE]
                          ELSE b.held
              /\ c.left = TTL
              /\ c.timer = [of |-> e, held |-> b.holds # {} \/ b.awaiting[e], left |-> TTL]
<1>1. CASE b.queue = <<>>
  BY <1>1 DEF PromoteNext
<1>2. CASE b.queue # <<>>
  <2> DEFINE e == Head(b.queue)
             d == [b EXCEPT !.queue = Tail(@), !.current = e]
  <2>1. e \in Approval /\ Tail(b.queue) \in Seq(Approval)
    BY <1>2, ControllerFields
  <2>2. d \in Controller /\ d.holds = b.holds /\ d.awaiting = b.awaiting /\ d.state = b.state
        /\ d.outcome = b.outcome /\ d.held = b.held
        /\ d.current = e /\ d.queue = Tail(b.queue)
    BY <2>1 DEF Controller
  <2>3. [[b EXCEPT !.queue = Tail(@)] EXCEPT !.current = e] = d
    OBVIOUS
  <2>4. c = Arm(d, e)
    BY <1>2, <2>3 DEF PromoteNext, Promote
  <2> HIDE DEF d, e
  <2>5. c \in Controller /\ SameLine(d, c) /\ c.holds = d.holds /\ c.awaiting = d.awaiting
        /\ c.held = (IF d.holds # {} \/ d.awaiting[e] THEN [d.held EXCEPT ![e] = TRUE]
                     ELSE d.held)
        /\ c.left = TTL
        /\ c.timer = [of |-> e, held |-> d.holds # {} \/ d.awaiting[e], left |-> TTL]
    BY <2>1, <2>2, <2>4, ArmFields
  <2> QED BY <1>2, <2>2, <2>5 DEF SameLine, e
<1> QED BY <1>1, <1>2

\* What Park changes: the head's deadline stands still (hold).
LEMMA ParkFields ==
  ASSUME NEW b \in Controller, NEW reason \in {"project", "background"},
         NEW c, c = Park(b, reason)
  PROVE  /\ c \in Controller /\ SameLine(b, c) /\ c.left = b.left
         /\ c.holds = b.holds \cup {reason}
         /\ c.awaiting = [e \in Approval |->
                            b.awaiting[e] \/ (reason = "background" /\ e \in Entries(b))]
         /\ c.held = IF HeadPending(b) THEN [b.held EXCEPT ![b.current] = TRUE] ELSE b.held
         /\ c.timer = IF HeadPending(b) /\ b.timer.of = b.current
                      THEN [b.timer EXCEPT !.held = TRUE] ELSE b.timer
<1> DEFINE aw == [e \in Approval |-> b.awaiting[e] \/ (reason = "background" /\ e \in Entries(b))]
           d == [b EXCEPT !.holds = @ \cup {reason}, !.awaiting = aw]
           f == [d EXCEPT !.held[b.current] = TRUE]
<1>1. aw \in [Approval -> BOOLEAN]
  BY ControllerFields
<1>2. b.holds \cup {reason} \in SUBSET {"project", "background"}
  BY ControllerFields
<1> HIDE DEF aw
<1>3. d \in Controller /\ SameLine(b, d) /\ d.left = b.left /\ d.holds = b.holds \cup {reason}
      /\ d.awaiting = aw /\ d.held = b.held /\ d.timer = b.timer
  BY <1>1, <1>2 DEF Controller, SameLine
<1>4. d = [b EXCEPT !.holds = @ \cup {reason},
                    !.awaiting = [e \in Approval |->
                       @[e] \/ (reason = "background" /\ e \in Entries(b))]]
  BY DEF aw
<1> HIDE DEF d
<1>5. CASE HeadPending(b)
  <2>1. b.current \in Approval
    BY <1>5, ControllerFields DEF HeadPending
  <2>2. f \in Controller /\ SameLine(b, f) /\ f.left = b.left /\ f.holds = b.holds \cup {reason}
        /\ f.awaiting = aw /\ f.held = [b.held EXCEPT ![b.current] = TRUE] /\ f.timer = b.timer
    BY <1>3, <2>1 DEF Controller, SameLine
  <2>3. c = StopTimer(f, b.current)
    BY <1>4, <1>5 DEF Park
  <2> HIDE DEF f
  <2> QED BY <1>5, <2>2, <2>3, StopTimerFields DEF SameLine, aw
<1>6. CASE ~HeadPending(b)
  <2>1. c = d
    BY <1>4, <1>6 DEF Park
  <2> QED BY <1>3, <1>6, <2>1 DEF aw
<1> QED BY <1>5, <1>6

\* The timer of a head that is parked.
LEMMA ParkedTimer ==
  ASSUME NEW b \in Controller, NEW e \in Approval,
         b.timer = [of |-> e, held |-> b.held[e], left |-> b.left]
  PROVE  [b.timer EXCEPT !.held = TRUE] = [of |-> e, held |-> TRUE, left |-> b.left]
<1> DEFINE S == Approval \cup {Null}
           t == b.timer
           f == b.held[e]
           l == b.left
           stopped == [t EXCEPT !.held = TRUE]
           new == [of |-> e, held |-> TRUE, left |-> l]
<1>1. t = [of |-> e, held |-> f, left |-> l]
  OBVIOUS
<1>2. t \in [of : S, held : BOOLEAN, left : 0..TTL] /\ l \in 0..TTL
  BY ControllerFields
<1> HIDE DEF t, l, f
<1>3. t.of = e /\ t.left = l
  BY <1>1
<1>4. stopped \in [of : S, held : BOOLEAN, left : 0..TTL]
      /\ stopped.of = e /\ stopped.held = TRUE /\ stopped.left = l
  BY <1>2, <1>3
<1>5. new \in [of : S, held : BOOLEAN, left : 0..TTL]
      /\ new.of = e /\ new.held = TRUE /\ new.left = l
  BY <1>2
<1> HIDE DEF stopped, new
<1>6. stopped = new
  BY <1>4, <1>5, SameDeadline
<1> QED BY <1>6 DEF stopped, new, t, l

-----------------------------------------------------------------------------
(* The line of approvals. *)

\* Who waits is an approval that was asked for; the queue stands behind the head.
LEMMA LineMembers ==
  ASSUME NEW b \in Controller, NEW asked \in 0..MaxOffers, InLine(b, asked)
  PROVE  /\ ToSet(b.queue) \subseteq Approval /\ b.current \notin ToSet(b.queue)
         /\ Entries(b) \subseteq 1..asked /\ Entries(b) \subseteq Approval
         /\ b.current = Null => Entries(b) = {}
         /\ b.current # Null => b.current \in Approval /\ b.current \in Entries(b)
                                /\ Entries(b) = {b.current} \cup ToSet(b.queue)
<1>1. b.current \in Approval \cup {Null} /\ b.queue \in Seq(Approval)
  BY ControllerFields
<1>2. ToSet(b.queue) \subseteq Approval
  BY <1>1 DEF ToSet
<1>3. \A e \in ToSet(b.queue) : b.current < e /\ e <= asked
  BY DEF InLine
<1>4. Entries(b) \subseteq 1..asked
  BY <1>1, <1>2, <1>3, ApprovalAssumption DEF Entries, Waiting, InLine, Approval, Null
<1>5. b.current \notin ToSet(b.queue)
  BY <1>1, <1>2, <1>3 DEF Approval, Null
<1>6. b.current = Null => Entries(b) = {}
  BY EmptyFacts DEF Entries, Waiting, InLine
<1>7. b.current # Null => Entries(b) = {b.current} \cup ToSet(b.queue)
  BY <1>2, Numbers DEF Entries, Waiting
<1> QED BY <1>1, <1>2, <1>4, <1>5, <1>6, <1>7, ApprovalAssumption DEF Approval

\* A method that moves nobody and decides nothing leaves the line orderly.
LEMMA OrderlyLine ==
  ASSUME NEW asked \in 0..MaxOffers, NEW b, Orderly(b, asked), NEW d \in Controller,
         SameLine(b, d),
         \A e \in Approval : e # b.current => (d.held[e] <=> b.held[e]),
         \A e \in Approval : e > asked => ~d.awaiting[e]
  PROVE  Orderly(d, asked) /\ Entries(d) = Entries(b)
<1>1. b \in Controller /\ InLine(b, asked) /\ QueueAgrees(b, asked) /\ OutcomeAgrees(b, asked)
  BY DEF Orderly
<1>2. Entries(d) = Entries(b)
  BY DEF SameLine, Entries, Waiting
<1>3. InLine(d, asked)
  BY <1>1 DEF InLine, SameLine
<1>4. OutcomeAgrees(d, asked)
  BY <1>1, <1>2 DEF OutcomeAgrees, SameLine
<1>5. ToSet(b.queue) \subseteq Approval /\ b.current \notin ToSet(b.queue)
  BY <1>1, LineMembers
<1>6. \A e \in Approval : e > asked => e # b.current
  BY <1>1, ControllerFields DEF InLine, Approval, Null
<1>7. QueueAgrees(d, asked)
  BY <1>1, <1>5, <1>6 DEF QueueAgrees, Undecided, SameLine
<1> QED BY <1>2, <1>3, <1>4, <1>7 DEF Orderly

\* The line of b has moved up by one in c, and the new head has a full deadline.
Advanced(b, c, asked) ==
  /\ c \in Controller /\ InLine(c, asked) /\ QueueAgrees(c, asked)
  /\ Entries(c) = Entries(b) \ {b.current}
  /\ c.holds = b.holds \ {"project"} /\ c.awaiting = b.awaiting
  /\ c.state = b.state /\ c.outcome = b.outcome
  /\ b.queue = <<>> => c.current = Null /\ c.queue = <<>> /\ c.timer = b.timer
  /\ b.queue # <<>> =>
       /\ c.current # Null /\ Len(c.queue) = Len(b.queue) - 1
       /\ TimerAgrees(c) /\ c.timer.of = c.current

\* Once the head is gone the next in line, if any, has a full deadline.
LEMMA HeadGone ==
  ASSUME NEW b \in Controller, NEW asked \in 0..MaxOffers, InLine(b, asked), QueueAgrees(b, asked),
         b.current # Null,
         NEW c, c = PromoteNext([b EXCEPT !.current = Null, !.holds = @ \ {"project"}])
  PROVE  Advanced(b, c, asked)
<1> USE DEF Advanced
<1> DEFINE d == [b EXCEPT !.current = Null, !.holds = @ \ {"project"}]
<1>1. d \in Controller /\ d.current = Null /\ d.queue = b.queue
      /\ d.holds = b.holds \ {"project"} /\ d.awaiting = b.awaiting /\ d.state = b.state
      /\ d.outcome = b.outcome /\ d.held = b.held /\ d.timer = b.timer
  BY Numbers DEF Controller
<1>2. c = PromoteNext(d)
  OBVIOUS
<1> HIDE DEF d
<1>3. c \in Controller /\ c.holds = d.holds /\ c.awaiting = d.awaiting
      /\ c.state = d.state /\ c.outcome = d.outcome
  BY <1>1, <1>2, PromoteNextFields
<1>4. b.queue \in Seq(Approval) /\ Increasing(b.queue)
  BY ControllerFields DEF InLine
<1>5. ToSet(b.queue) \subseteq Approval /\ b.current \notin ToSet(b.queue)
      /\ Entries(b) = {b.current} \cup ToSet(b.queue)
  BY LineMembers
<1>6. CASE b.queue = <<>>
  <2>1. c = d
    <3>1. d.queue = <<>> => c = d
      BY <1>1, <1>2, PromoteNextFields
    <3> QED BY <1>1, <1>6, <3>1
  <2>2. InLine(c, asked)
    BY <1>1, <1>6, <2>1, EmptyFacts DEF InLine, Null
  <2>3. QueueAgrees(c, asked)
    BY <1>1, <2>1 DEF QueueAgrees, Undecided
  <2>4. Entries(c) = {}
    BY <1>1, <1>6, <2>1, EmptyFacts DEF Entries, Waiting
  <2>5. Entries(b) \ {b.current} = {}
    BY <1>5, <1>6, EmptyFacts
  <2> QED BY <1>1, <1>3, <1>6, <2>1, <2>2, <2>3, <2>4, <2>5
<1>7. CASE b.queue # <<>>
  <2> DEFINE e == Head(b.queue)
             parked == d.holds # {} \/ d.awaiting[e]
  <2>1. c.current = e /\ c.queue = Tail(b.queue) /\ c.left = TTL
        /\ c.held = (IF parked THEN [b.held EXCEPT ![e] = TRUE] ELSE b.held)
        /\ c.timer = [of |-> e, held |-> parked, left |-> TTL]
    <3>1. d.queue # <<>> /\ e = Head(d.queue)
      BY <1>1, <1>7
    <3> HIDE DEF e
    <3>2. c.current = e /\ c.queue = Tail(d.queue) /\ c.left = TTL
          /\ c.held = (IF parked THEN [d.held EXCEPT ![e] = TRUE] ELSE d.held)
      BY <1>1, <1>2, <3>1, PromoteNextFields
    <3>3. c.timer = [of |-> Head(d.queue),
                     held |-> d.holds # {} \/ d.awaiting[Head(d.queue)], left |-> TTL]
      <4>1. d \in Controller /\ c = PromoteNext(d) /\ d.queue # <<>>
        BY <1>1, <1>2, <3>1
      <4> QED BY <4>1, PromoteNextFields, Zenon
    <3>4. c.timer = [of |-> e, held |-> parked, left |-> TTL]
      BY <3>1, <3>3, Zenon
    <3> QED BY <1>1, <3>2, <3>4
  <2>2. e \in Approval /\ e \in ToSet(b.queue) /\ Tail(b.queue) \in Seq(Approval)
        /\ Increasing(Tail(b.queue)) /\ Len(Tail(b.queue)) = Len(b.queue) - 1
        /\ ToSet(Tail(b.queue)) = ToSet(b.queue) \ {e}
        /\ \A x \in ToSet(Tail(b.queue)) : e < x
    BY <1>4, <1>7, TailFacts
  <2> HIDE DEF e
  <2>3. \A x \in ToSet(b.queue) : b.current < x /\ x <= asked
    BY DEF InLine
  <2>4. InLine(c, asked)
    BY <2>1, <2>2, <2>3, Numbers DEF InLine
  <2>5. \A x \in Approval : x # e => (c.held[x] <=> b.held[x])
    BY <2>1, ControllerFields
  <2>6. e <= asked
    BY <2>2, <2>3
  <2>7. QueueAgrees(c, asked)
    BY <1>1, <1>3, <1>5, <2>1, <2>2, <2>5, <2>6 DEF QueueAgrees, Undecided, Approval
  <2>8. Entries(c) = Entries(b) \ {b.current}
    <3>1. Entries(c) = {e} \cup ToSet(Tail(b.queue))
      BY <1>5, <2>1, <2>2, Numbers DEF Entries, Waiting
    <3> QED BY <1>5, <2>2, <3>1
  <2>9. ~b.held[e] /\ b.state[e] = "pending"
    BY <2>2 DEF QueueAgrees, Undecided
  <2>10. c.held[e] <=> parked
    BY <2>1, <2>2, <2>9, ControllerFields
  <2>11. HeadPending(c)
    BY <1>1, <1>3, <2>1, <2>2, <2>9, Numbers DEF HeadPending
  <2>12. TimerAgrees(c)
    <3>1. c.held[e] = parked
      BY <1>3, <2>2, <2>10, ControllerFields
    <3>2. c.timer = [of |-> c.current, held |-> c.held[c.current], left |-> c.left]
      BY <2>1, <3>1
    <3>3. c.held[c.current] <=> c.holds # {} \/ c.awaiting[c.current]
      BY <1>3, <2>1, <2>10
    <3> QED BY <2>11, <3>2, <3>3 DEF TimerAgrees
  <2>13. c.timer.of = c.current
    BY <2>1
  <2>14. c.current # Null /\ Len(c.queue) = Len(b.queue) - 1
    BY <2>1, <2>2, Numbers
  <2>15. c.holds = b.holds \ {"project"} /\ c.awaiting = b.awaiting /\ c.state = b.state
         /\ c.outcome = b.outcome
    BY <1>1, <1>3
  <2> QED BY <1>3, <1>7, <2>4, <2>7, <2>8, <2>12, <2>13, <2>14, <2>15
<1> QED BY <1>6, <1>7

-----------------------------------------------------------------------------
(* The methods. *)

\* A head is parked, and with it who else is not seen.
LEMMA ParkSound ==
  ASSUME NEW asked \in 0..MaxOffers, NEW b, Orderly(b, asked), TimerAgrees(b),
         NEW reason \in {"project", "background"}, NEW c, c = Park(b, reason)
  PROVE  /\ Orderly(c, asked) /\ TimerAgrees(c) /\ SameLine(b, c) /\ Entries(c) = Entries(b)
         /\ c.holds = b.holds \cup {reason}
         /\ \A e \in Approval : c.awaiting[e] <=>
              b.awaiting[e] \/ (reason = "background" /\ e \in Entries(b))
<1> DEFINE e == b.current
<1>1. b \in Controller /\ InLine(b, asked) /\ QueueAgrees(b, asked)
  BY DEF Orderly
<1>2. c \in Controller /\ SameLine(b, c) /\ c.left = b.left /\ c.holds = b.holds \cup {reason}
      /\ c.awaiting = [x \in Approval |->
                         b.awaiting[x] \/ (reason = "background" /\ x \in Entries(b))]
      /\ c.held = (IF HeadPending(b) THEN [b.held EXCEPT ![e] = TRUE] ELSE b.held)
      /\ c.timer = (IF HeadPending(b) /\ b.timer.of = e THEN [b.timer EXCEPT !.held = TRUE]
                    ELSE b.timer)
  BY <1>1, ParkFields
<1>3. \A x \in Approval : c.awaiting[x] <=>
        b.awaiting[x] \/ (reason = "background" /\ x \in Entries(b))
  BY <1>2
<1>4. \A x \in Approval : x > asked => ~c.awaiting[x]
  <2>1. \A x \in Approval : x > asked => x \notin Entries(b)
    BY <1>1, LineMembers DEF Approval
  <2> QED BY <1>1, <1>3, <2>1 DEF QueueAgrees
<1>5. \A x \in Approval : x # e => (c.held[x] <=> b.held[x])
  BY <1>1, <1>2, ControllerFields
<1>6. Orderly(c, asked) /\ Entries(c) = Entries(b)
  BY <1>2, <1>4, <1>5, OrderlyLine
<1>7. c.current = e /\ (HeadPending(c) <=> HeadPending(b))
  BY <1>2 DEF HeadPending, SameLine
<1>8. TimerAgrees(c)
  <2>1. CASE HeadPending(b)
    <3>1. e \in Approval /\ b.timer = [of |-> e, held |-> b.held[e], left |-> b.left]
      BY <1>1, <2>1, ControllerFields DEF HeadPending, TimerAgrees
    <3>2. c.held = [b.held EXCEPT ![e] = TRUE] /\ c.timer = [b.timer EXCEPT !.held = TRUE]
      BY <1>2, <2>1, <3>1
    <3>3. c.held[e] = TRUE
      BY <1>1, <3>1, <3>2, ControllerFields
    <3>4. c.timer = [of |-> e, held |-> TRUE, left |-> b.left]
      BY <1>1, <3>1, <3>2, ParkedTimer
    <3> QED BY <1>2, <1>7, <2>1, <3>3, <3>4 DEF TimerAgrees
  <2>2. CASE ~HeadPending(b)
    BY <1>2, <1>7, <2>2 DEF TimerAgrees
  <2> QED BY <2>1, <2>2
<1> QED BY <1>2, <1>3, <1>6, <1>8

\* What #publish needs of the controller it publishes.
Publishable(b, asked) ==
  Orderly(b, asked) /\ TimerAgrees(b) /\ ProjectHolds(b) /\ PresenceAgrees(b)

\* #publish parks the head behind a pending confirmation and changes nothing else.
LEMMA PublishSound ==
  ASSUME NEW asked \in 0..MaxOffers, NEW b, Publishable(b, asked), NEW c, c = Publish(b)
  PROVE  /\ Sound(c, asked) /\ SameLine(b, c) /\ Entries(c) = Entries(b)
         /\ c.holds \subseteq b.holds \cup {"project"} /\ b.holds \subseteq c.holds
         /\ \A e \in Approval : c.awaiting[e] <=> b.awaiting[e]
         /\ project # "pending" => c = b
<1>1. b \in Controller /\ Orderly(b, asked) /\ InLine(b, asked) /\ QueueAgrees(b, asked)
      /\ TimerAgrees(b) /\ ProjectHolds(b) /\ PresenceAgrees(b)
  BY DEF Publishable, Orderly
<1>2. CASE ~(project = "pending" /\ HeadPending(b) /\ "project" \notin b.holds)
  <2>1. c = b
    BY <1>2 DEF Publish
  <2>2. ProjectAgrees(b)
    BY <1>1, <1>2 DEF ProjectAgrees
  <2> QED BY <1>1, <2>1, <2>2 DEF Sound, SameLine
<1>3. CASE project = "pending" /\ HeadPending(b) /\ "project" \notin b.holds
  <2>1. c = Park(b, "project")
    BY <1>3 DEF Publish
  <2>2. /\ Orderly(c, asked) /\ TimerAgrees(c) /\ SameLine(b, c) /\ Entries(c) = Entries(b)
        /\ c.holds = b.holds \cup {"project"}
        /\ \A e \in Approval : c.awaiting[e] <=>
             b.awaiting[e] \/ ("project" = "background" /\ e \in Entries(b))
    BY <1>1, <2>1, ParkSound
  <2>3. c.current # Null /\ c.current = b.current
    BY <1>3, <2>2 DEF HeadPending, SameLine
  <2>4. ProjectAgrees(c) /\ PresenceAgrees(c)
    BY <1>1, <1>3, <2>2, <2>3 DEF ProjectAgrees, ProjectHolds, PresenceAgrees
  <2> QED BY <1>3, <2>2, <2>4 DEF Sound
<1> QED BY <1>2, <1>3

\* An approval that is declined.
Declined(b, e) == [b EXCEPT !.outcome[e] = "decline"]

\* Fields of a controller that has decided against an approval.
LEMMA DeclinedFields ==
  ASSUME NEW b \in Controller, NEW e \in Approval, NEW c, c = Declined(b, e)
  PROVE  /\ c \in Controller /\ c.current = b.current /\ c.queue = b.queue /\ c.holds = b.holds
         /\ c.left = b.left /\ c.timer = b.timer /\ c.state = b.state /\ c.held = b.held
         /\ c.awaiting = b.awaiting /\ c.outcome = [b.outcome EXCEPT ![e] = "decline"]
BY DEF Controller, Declined

\* The steps of #drop: the approval is taken out, settled, then published.
Removed(b, e) ==
  IF b.current = e
  THEN PromoteNext([b EXCEPT !.current = Null, !.holds = @ \ {"project"}])
  ELSE [b EXCEPT !.queue = Without(@, e)]
Settled(b, e) ==
  IF b.state[e] = "pending"
  THEN Declined(DropTimer(Removed(b, e), e), e)
  ELSE DropTimer(Removed(b, e), e)

\* Drop, one assignment at a time (#drop, #detach).
LEMMA DropSteps ==
  ASSUME NEW b, NEW e \in Entries(b)
  PROVE  Drop(b, e) = Publish(Settled(b, e))
BY DEF Drop, Settled, Removed, Declined

\* The head makes way for the next in line.
LEMMA DroppedHead ==
  ASSUME NEW asked \in 0..MaxOffers, NEW b, Orderly(b, asked), ProjectHolds(b), PresenceAgrees(b),
         NEW e, e = b.current, e # Null, b.timer.of \in {Null, e},
         NEW d, d = Settled(b, e)
  PROVE  /\ Publishable(d, asked) /\ Entries(d) = Entries(b) \ {e}
         /\ d.awaiting = b.awaiting /\ d.state = b.state
         /\ b.queue = <<>> => d.current = Null
         /\ b.queue # <<>> => d.current # Null /\ Len(d.queue) = Len(b.queue) - 1
<1> DEFINE a == Removed(b, e)
           c == DropTimer(a, e)
<1>1. b \in Controller /\ InLine(b, asked) /\ QueueAgrees(b, asked) /\ OutcomeAgrees(b, asked)
  BY DEF Orderly
<1>2. e \in Approval /\ e \in Entries(b) /\ Entries(b) \subseteq 1..asked
      /\ Entries(b) \subseteq Approval
  BY <1>1, LineMembers
<1> HIDE DEF a
<1>3. /\ a \in Controller /\ InLine(a, asked) /\ QueueAgrees(a, asked)
      /\ Entries(a) = Entries(b) \ {e}
      /\ a.holds = b.holds \ {"project"} /\ a.awaiting = b.awaiting
      /\ a.state = b.state /\ a.outcome = b.outcome
      /\ b.queue = <<>> => a.current = Null /\ a.queue = <<>> /\ a.timer = b.timer
      /\ b.queue # <<>> =>
           /\ a.current # Null /\ Len(a.queue) = Len(b.queue) - 1
           /\ TimerAgrees(a) /\ a.timer.of = a.current
  <2>1. a = PromoteNext([b EXCEPT !.current = Null, !.holds = @ \ {"project"}])
    BY DEF a, Removed
  <2> HIDE DEF a
  <2>2. b.current # Null /\ b.current = e
    OBVIOUS
  <2>3. Advanced(b, a, asked)
    BY <1>1, <2>1, <2>2, HeadGone
  <2> QED BY <2>2, <2>3 DEF Advanced
<1>4. c = DropTimer(a, e)
  BY DEF a
<1> HIDE DEF c
<1>5. c \in Controller /\ SameLine(a, c) /\ c.holds = a.holds /\ c.left = a.left
      /\ c.held = a.held /\ c.awaiting = a.awaiting
      /\ c.timer = IF a.timer.of = e THEN NoTimer ELSE a.timer
  BY <1>3, <1>4, DropTimerFields
<1>6. TimerAgrees(c)
  <2>1. CASE b.queue = <<>>
    <3>1. c.timer.of = Null
      BY <1>3, <1>5, <2>1, Numbers
    <3>2. ~HeadPending(c)
      BY <1>3, <1>5, <2>1 DEF SameLine, HeadPending
    <3> QED BY <3>1, <3>2 DEF TimerAgrees
  <2>2. CASE b.queue # <<>>
    <3>1. a.current # e
      BY <1>2, <1>3, <2>2, LineMembers
    <3>2. c.timer = a.timer
      BY <1>3, <1>5, <2>2, <3>1
    <3> QED BY <1>3, <1>5, <2>2, <3>2 DEF TimerAgrees, HeadPending, SameLine
  <2> QED BY <2>1, <2>2
<1>7. /\ d \in Controller /\ d.current = c.current /\ d.queue = c.queue /\ d.holds = c.holds /\ d.left = c.left
      /\ d.timer = c.timer /\ d.state = c.state /\ d.held = c.held /\ d.awaiting = c.awaiting
      /\ \A x \in Approval : d.outcome[x] =
           IF x = e /\ b.state[e] = "pending" THEN "decline" ELSE b.outcome[x]
  <2>1. c.outcome = b.outcome /\ DOMAIN b.outcome = Approval
    BY <1>1, <1>3, <1>5, ControllerFields DEF SameLine
  <2>2. CASE b.state[e] = "pending"
    <3>1. d = Declined(c, e)
      BY <2>2 DEF Settled, c, a
    <3>2. /\ d \in Controller /\ d.current = c.current /\ d.queue = c.queue /\ d.holds = c.holds
          /\ d.left = c.left /\ d.timer = c.timer /\ d.state = c.state /\ d.held = c.held
          /\ d.awaiting = c.awaiting /\ d.outcome = [c.outcome EXCEPT ![e] = "decline"]
      BY <1>2, <1>5, <3>1, DeclinedFields
    <3> QED BY <1>2, <2>1, <2>2, <3>2
  <2>3. CASE b.state[e] # "pending"
    <3>1. d = c
      BY <2>3 DEF Settled, c, a
    <3> QED BY <1>5, <2>1, <2>3, <3>1
  <2> QED BY <2>2, <2>3
<1>8. Entries(d) = Entries(b) \ {e}
  BY <1>3, <1>5, <1>7 DEF Entries, Waiting, SameLine
<1>9. InLine(d, asked) /\ TimerAgrees(d)
  BY <1>3, <1>5, <1>6, <1>7 DEF InLine, TimerAgrees, HeadPending, SameLine
<1>10. QueueAgrees(d, asked)
  BY <1>1, <1>2, <1>3, <1>5, <1>7 DEF QueueAgrees, Undecided, SameLine
<1>11. OutcomeAgrees(d, asked)
  <2>1. 1..asked \subseteq Approval
    BY ApprovalAssumption DEF Approval
  <2>2. d.state = b.state
    BY <1>3, <1>5, <1>7 DEF SameLine
  <2> QED BY <1>1, <1>2, <1>7, <1>8, <2>1, <2>2 DEF OutcomeAgrees
<1>12. ProjectHolds(d) /\ PresenceAgrees(d)
  BY <1>3, <1>5, <1>7 DEF ProjectHolds, PresenceAgrees
<1> QED BY <1>3, <1>5, <1>7, <1>8, <1>9, <1>10, <1>11, <1>12 DEF Publishable, Orderly, SameLine

\* An approval behind the head leaves the queue.
LEMMA DroppedBehind ==
  ASSUME NEW asked \in 0..MaxOffers, NEW b, Orderly(b, asked), ProjectHolds(b), PresenceAgrees(b),
         TimerAgrees(b), NEW e \in Entries(b), e # b.current,
         NEW d, d = Settled(b, e)
  PROVE  /\ Publishable(d, asked) /\ Entries(d) = Entries(b) \ {e}
         /\ d.awaiting = b.awaiting /\ d.state = b.state /\ d.current = b.current
<1> DEFINE a == [b EXCEPT !.queue = Without(@, e)]
           c == DropTimer(a, e)
<1>1. b \in Controller /\ InLine(b, asked) /\ QueueAgrees(b, asked) /\ OutcomeAgrees(b, asked)
  BY DEF Orderly
<1>0. e \in Approval /\ e <= asked
  BY <1>1, LineMembers
<1>2. Entries(b) \subseteq 1..asked /\ Entries(b) \subseteq Approval
      /\ b.current # Null /\ b.current \in Approval /\ Entries(b) = {b.current} \cup ToSet(b.queue)
      /\ b.current \notin ToSet(b.queue)
  BY <1>1, LineMembers
<1>3. e \in ToSet(b.queue) /\ b.queue \in Seq(Approval) /\ Increasing(b.queue)
  BY <1>1, <1>2, ControllerFields DEF InLine
<1>4. Without(b.queue, e) \in Seq(Approval) /\ Increasing(Without(b.queue, e))
      /\ ToSet(Without(b.queue, e)) = ToSet(b.queue) \ {e}
  BY <1>3, WithoutFacts
<1>5. a \in Controller /\ a.queue = Without(b.queue, e) /\ a.current = b.current
      /\ a.holds = b.holds /\ a.left = b.left /\ a.timer = b.timer /\ a.state = b.state
      /\ a.held = b.held /\ a.awaiting = b.awaiting /\ a.outcome = b.outcome
  BY <1>1, <1>4 DEF Controller
<1> HIDE DEF a
<1>6. c \in Controller /\ SameLine(a, c) /\ c.holds = b.holds /\ c.left = b.left
      /\ c.held = b.held /\ c.awaiting = b.awaiting /\ c.timer = b.timer
  <2>1. b.timer.of # e
    <3>1. CASE HeadPending(b)
      <4>1. b.timer = [of |-> b.current, held |-> b.held[b.current], left |-> b.left]
        BY <3>1 DEF TimerAgrees
      <4> QED BY <4>1
    <3>2. CASE ~HeadPending(b)
      BY <1>2, <3>2, Numbers DEF TimerAgrees
    <3> QED BY <3>1, <3>2
  <2>2. DropTimer(a, e) = a
    BY <1>5, <2>1 DEF DropTimer
  <2> QED BY <1>5, <2>2 DEF SameLine
<1>7. d = Declined(c, e)
  <2>1. b.state[e] = "pending"
    BY <1>1, <1>3 DEF QueueAgrees, Undecided
  <2>2. Removed(b, e) = a
    BY DEF Removed, a
  <2> QED BY <2>1, <2>2 DEF Settled
<1> HIDE DEF c
<1>8. d \in Controller /\ d.current = c.current /\ d.queue = c.queue /\ d.holds = c.holds
      /\ d.left = c.left /\ d.timer = c.timer /\ d.state = c.state /\ d.held = c.held
      /\ d.awaiting = c.awaiting /\ d.outcome = [c.outcome EXCEPT ![e] = "decline"]
  BY <1>0, <1>6, <1>7, DeclinedFields
<1>9. \A x \in Approval : d.outcome[x] = IF x = e THEN "decline" ELSE b.outcome[x]
  <2>1. c.outcome = b.outcome /\ DOMAIN b.outcome = Approval
    BY <1>1, <1>5, <1>6, ControllerFields DEF SameLine
  <2>2. d.outcome = [c.outcome EXCEPT ![e] = "decline"]
    BY <1>8
  <2> QED BY <1>0, <2>1, <2>2
<1>10. d.queue = Without(b.queue, e) /\ d.current = b.current /\ d.state = b.state
  BY <1>5, <1>6, <1>8 DEF SameLine
<1>11. Entries(d) = Entries(b) \ {e}
  <2>1. Entries(d) = {b.current} \cup (ToSet(b.queue) \ {e})
    BY <1>2, <1>4, <1>10, Numbers DEF Entries, Waiting
  <2> QED BY <1>2, <2>1
<1>12. InLine(d, asked)
  BY <1>1, <1>2, <1>4, <1>10 DEF InLine
<1>13. TimerAgrees(d) /\ ProjectHolds(d) /\ PresenceAgrees(d)
  BY <1>6, <1>8, <1>10 DEF TimerAgrees, HeadPending, ProjectHolds, PresenceAgrees
<1>14. QueueAgrees(d, asked)
  <2>1. d.held = b.held /\ d.awaiting = b.awaiting /\ d.state = b.state
    BY <1>6, <1>8, <1>10
  <2>2. ToSet(d.queue) \subseteq ToSet(b.queue)
    BY <1>4, <1>10
  <2>3. \A x \in Approval : x > asked => d.outcome[x] = b.outcome[x]
    BY <1>0, <1>9 DEF Approval
  <2> QED BY <1>1, <2>1, <2>2, <2>3 DEF QueueAgrees, Undecided
<1>15. OutcomeAgrees(d, asked)
  <2>1. 1..asked \subseteq Approval
    BY ApprovalAssumption DEF Approval
  <2> QED BY <1>1, <1>2, <1>9, <1>10, <1>11, <2>1 DEF OutcomeAgrees
<1> QED BY <1>6, <1>8, <1>10, <1>11, <1>12, <1>13, <1>14, <1>15 DEF Publishable, Orderly

\* What a call of #drop needs, and what it leaves.
Droppable(b, e, asked) ==
  /\ Orderly(b, asked) /\ ProjectHolds(b) /\ PresenceAgrees(b) /\ e \in Entries(b)
  /\ IF e = b.current THEN b.timer.of \in {Null, e} ELSE TimerAgrees(b)

\* An approval leaves the line: what is left is sound, whoever it was (#drop).
LEMMA DropSound ==
  ASSUME NEW asked \in 0..MaxOffers, NEW b, NEW e, Droppable(b, e, asked), NEW c, c = Drop(b, e)
  PROVE  /\ Sound(c, asked) /\ Entries(c) = Entries(b) \ {e} /\ c.state = b.state
         /\ \A x \in Approval : c.awaiting[x] <=> b.awaiting[x]
         /\ e = b.current =>
              IF b.queue = <<>> THEN c.current = Null
              ELSE c.current # Null /\ Len(c.queue) = Len(b.queue) - 1
<1>1. Orderly(b, asked) /\ ProjectHolds(b) /\ PresenceAgrees(b) /\ e \in Entries(b)
      /\ b \in Controller /\ InLine(b, asked) /\ QueueAgrees(b, asked)
  BY DEF Droppable, Orderly
<1>2. e \in Approval /\ b.state[e] \in {"pending", "responding"}
  BY <1>1, LineMembers, ControllerFields
<1>3. c = Publish(Settled(b, e))
  BY <1>1, DropSteps
<1>4. CASE e = b.current
  <2> DEFINE d == Settled(b, e)
  <2>1. e # Null /\ b.timer.of \in {Null, e}
    BY <1>2, <1>4, Numbers DEF Droppable
  <2>2. c = Publish(d)
    BY <1>3
  <2>3. d = Settled(b, e)
    OBVIOUS
  <2> HIDE DEF d
  <2>4. /\ Publishable(d, asked) /\ Entries(d) = Entries(b) \ {e}
        /\ d.awaiting = b.awaiting /\ d.state = b.state
        /\ b.queue = <<>> => d.current = Null
        /\ b.queue # <<>> => d.current # Null /\ Len(d.queue) = Len(b.queue) - 1
    BY <1>1, <1>4, <2>1, <2>3, DroppedHead
  <2> QED BY <1>4, <2>2, <2>4, PublishSound DEF SameLine
<1>5. CASE e # b.current
  <2> DEFINE d == Settled(b, e)
  <2>1. TimerAgrees(b)
    BY <1>5 DEF Droppable
  <2>2. c = Publish(d)
    BY <1>3
  <2>3. d = Settled(b, e)
    OBVIOUS
  <2> HIDE DEF d
  <2>4. /\ Publishable(d, asked) /\ Entries(d) = Entries(b) \ {e}
        /\ d.awaiting = b.awaiting /\ d.state = b.state /\ d.current = b.current
    BY <1>1, <1>5, <2>1, <2>3, DroppedBehind
  <2> QED BY <1>5, <2>2, <2>4, PublishSound DEF SameLine
<1> QED BY <1>4, <1>5

\* A sound controller may lose any of its approvals.
LEMMA SoundDroppable ==
  ASSUME NEW asked \in 0..MaxOffers, NEW b, Sound(b, asked), NEW e \in Entries(b)
  PROVE  Droppable(b, e, asked)
<1>1. b.timer.of \in {Null, b.current}
  <2>1. CASE HeadPending(b)
    <3>1. b.timer = [of |-> b.current, held |-> b.held[b.current], left |-> b.left]
      BY <2>1 DEF Sound, TimerAgrees
    <3> QED BY <3>1
  <2>2. CASE ~HeadPending(b)
    BY <2>2 DEF Sound, TimerAgrees
  <2> QED BY <2>1, <2>2
<1> QED BY <1>1 DEF Sound, Droppable, ProjectAgrees

\* The head hold drops because its time was over.
Gone(b, c) == IF HeadExpired(b) /\ c.current # b.current THEN {b.current} ELSE {}

\* hold, called by whoever does not hold yet: a project confirmation that opens,
\* a person who goes away.
LEMMA HoldSound ==
  ASSUME NEW asked \in 0..MaxOffers, NEW b, Sound(b, asked),
         NEW reason \in {"project", "background"},
         reason = "project" => project # "pending", reason = "background" => presented,
         NEW c, c = Hold(b, reason)
  PROVE  /\ Orderly(c, asked) /\ TimerAgrees(c)
         /\ Entries(c) = Entries(b) \ Gone(b, c)
         /\ \A e \in Approval : b.awaiting[e] => c.awaiting[e]
         /\ reason = "background" =>
              /\ "background" \in c.holds /\ ProjectAgrees(c)
              /\ \A e \in Entries(c) : c.awaiting[e]
         /\ reason = "project" =>
              /\ (c.current # Null <=> "project" \in c.holds) /\ PresenceAgrees(c)
              /\ \A e \in Approval : c.awaiting[e] <=> b.awaiting[e]
<1> DEFINE d == IF HeadExpired(b) THEN Drop(b, b.current) ELSE b
<1>1. b \in Controller /\ Orderly(b, asked) /\ InLine(b, asked) /\ ProjectAgrees(b)
      /\ PresenceAgrees(b) /\ TimerAgrees(b)
  BY DEF Sound, Orderly
<1>2. /\ Sound(d, asked) /\ \A e \in Approval : d.awaiting[e] <=> b.awaiting[e]
      /\ Entries(d) = Entries(b) \ (IF HeadExpired(b) THEN {b.current} ELSE {})
      /\ HeadExpired(b) => d.current # b.current
  <2>1. CASE HeadExpired(b)
    <3>1. b.current # Null /\ b.current \in Entries(b) /\ d = Drop(b, b.current)
      BY <1>1, <2>1, LineMembers DEF HeadExpired, HeadPending
    <3> HIDE DEF d
    <3>2. /\ Sound(d, asked) /\ Entries(d) = Entries(b) \ {b.current}
          /\ \A x \in Approval : d.awaiting[x] <=> b.awaiting[x]
      BY <3>1, SoundDroppable, DropSound
    <3>3. d.current # b.current
      BY <3>1, <3>2 DEF Entries, Waiting
    <3> QED BY <2>1, <3>2, <3>3
  <2>2. CASE ~HeadExpired(b)
    BY <2>2
  <2> QED BY <2>1, <2>2
<1>3. c = IF reason \in b.holds \/ (b.current = Null /\ reason = "project") THEN b
          ELSE IF reason \in d.holds \/ (d.current = Null /\ reason = "project") THEN d
          ELSE Publish(Park(d, reason))
  BY DEF Hold
<1> HIDE DEF d
<1>4. Orderly(d, asked) /\ TimerAgrees(d) /\ ProjectAgrees(d) /\ PresenceAgrees(d)
  BY <1>2 DEF Sound
<1>5. CASE reason \in b.holds \/ (b.current = Null /\ reason = "project")
  <2>1. c = b
    BY <1>3, <1>5
  <2>2. reason = "project"
    BY <1>1, <1>5 DEF PresenceAgrees
  <2>3. Gone(b, c) = {}
    BY <2>1 DEF Gone
  <2> QED BY <1>1, <1>5, <2>1, <2>2, <2>3 DEF ProjectAgrees, ProjectHolds
<1>6. CASE /\ ~(reason \in b.holds \/ (b.current = Null /\ reason = "project"))
           /\ reason \in d.holds \/ (d.current = Null /\ reason = "project")
  <2>1. c = d
    BY <1>3, <1>6
  <2>2. reason = "project"
    BY <1>4, <1>6 DEF PresenceAgrees
  <2>3. Gone(b, c) = IF HeadExpired(b) THEN {b.current} ELSE {}
    BY <1>2, <2>1 DEF Gone
  <2> QED BY <1>2, <1>4, <1>6, <2>1, <2>2, <2>3 DEF ProjectAgrees, ProjectHolds
<1>7. CASE ~(reason \in b.holds \/ (b.current = Null /\ reason = "project"))
           /\ ~(reason \in d.holds \/ (d.current = Null /\ reason = "project"))
  <2> DEFINE p == Park(d, reason)
  <2>1. c = Publish(p)
    BY <1>3, <1>7
  <2>2. /\ Orderly(p, asked) /\ TimerAgrees(p) /\ SameLine(d, p) /\ Entries(p) = Entries(d)
        /\ p.holds = d.holds \cup {reason}
        /\ \A e \in Approval : p.awaiting[e] <=>
             d.awaiting[e] \/ (reason = "background" /\ e \in Entries(d))
    BY <1>4, ParkSound
  <2> HIDE DEF p
  <2>3. Gone(b, c) = IF HeadExpired(b) THEN {b.current} ELSE {}
    <3>1. c.current = p.current
      BY <2>1, <2>2, ParkFields DEF Publish, SameLine, Orderly
    <3> QED BY <1>2, <2>2, <3>1 DEF Gone, SameLine
  <2>4. CASE reason = "project"
    <3>1. c = p
      BY <2>1, <2>4 DEF Publish
    <3>2. PresenceAgrees(c) /\ "project" \in c.holds /\ c.current # Null
      BY <1>4, <1>7, <2>2, <2>4, <3>1 DEF PresenceAgrees, SameLine
    <3> QED BY <1>2, <2>2, <2>3, <2>4, <3>1, <3>2
  <2>5. CASE reason = "background"
    <3>1. ProjectHolds(p) /\ (HeadPending(p) /\ project = "pending" => "project" \in p.holds)
      BY <1>4, <2>2, <2>5 DEF ProjectAgrees, ProjectHolds, SameLine, HeadPending
    <3>2. c = p
      BY <2>1, <3>1 DEF Publish
    <3>3. Entries(c) \subseteq Approval
      BY <2>2, <3>2, LineMembers DEF Orderly
    <3>4. \A e \in Entries(c) : c.awaiting[e]
      BY <2>2, <2>5, <3>2, <3>3
    <3> QED BY <1>2, <2>2, <2>3, <2>5, <3>1, <3>2, <3>4 DEF ProjectAgrees
  <2> QED BY <2>4, <2>5
<1> QED BY <1>5, <1>6, <1>7

\* The steps of release.
Freed(b, reason, awaitPresentation) ==
  [b EXCEPT !.holds = @ \ {reason},
            !.awaiting = [x \in Approval |->
               @[x] /\ ~(reason = "background" /\ x = b.current /\ ~awaitPresentation)]]
Rearmed(b, e) ==
  [b EXCEPT !.held[e] = FALSE, !.left = TTL,
            !.timer = [of |-> e, held |-> FALSE, left |-> TTL]]

\* Release, one assignment at a time.
LEMMA ReleaseSteps ==
  ASSUME NEW b, NEW reason, NEW awaitPresentation, NEW f, f = Freed(b, reason, awaitPresentation)
  PROVE  Release(b, reason, awaitPresentation) =
           IF reason \notin b.holds /\ ~(reason = "background" /\ b.current # Null /\ b.awaiting[b.current])
           THEN b
           ELSE IF f.holds = {} /\ HeadPending(f) /\ f.held[b.current] /\ ~f.awaiting[b.current]
           THEN Publish(Rearmed(f, b.current)) ELSE f
BY DEF Release, Freed, Rearmed

\* Fields of a controller one of whose owners no longer holds the head.
LEMMA FreedFields ==
  ASSUME NEW b \in Controller, NEW reason, NEW awaitPresentation \in BOOLEAN,
         NEW c, c = Freed(b, reason, awaitPresentation)
  PROVE  /\ c \in Controller /\ SameLine(b, c) /\ c.left = b.left /\ c.timer = b.timer
         /\ c.held = b.held /\ c.holds = b.holds \ {reason}
         /\ \A x \in Approval : c.awaiting[x] <=>
              b.awaiting[x] /\ ~(reason = "background" /\ x = b.current /\ ~awaitPresentation)
<1> DEFINE aw == [x \in Approval |->
                    b.awaiting[x] /\ ~(reason = "background" /\ x = b.current /\ ~awaitPresentation)]
           hs == b.holds \ {reason}
<1>0. aw \in [Approval -> BOOLEAN]
  OBVIOUS
<1>1. \A x \in Approval : aw[x] <=>
        b.awaiting[x] /\ ~(reason = "background" /\ x = b.current /\ ~awaitPresentation)
  OBVIOUS
<1>2. hs \in SUBSET {"project", "background"} /\ hs = b.holds \ {reason}
  BY ControllerFields
<1>3. c = [b EXCEPT !.holds = hs, !.awaiting = aw]
  BY DEF Freed
<1> HIDE DEF aw, hs
<1>4. c \in Controller /\ SameLine(b, c) /\ c.left = b.left /\ c.timer = b.timer
      /\ c.held = b.held /\ c.holds = hs /\ c.awaiting = aw
  BY <1>0, <1>2, <1>3 DEF Controller, SameLine
<1> QED BY <1>1, <1>2, <1>4

\* Fields of a controller whose head has a full new deadline.
LEMMA RearmedFields ==
  ASSUME NEW b \in Controller, NEW e \in Approval, NEW c, c = Rearmed(b, e)
  PROVE  /\ c \in Controller /\ SameLine(b, c) /\ c.left = TTL
         /\ c.timer = [of |-> e, held |-> FALSE, left |-> TTL]
         /\ c.held = [b.held EXCEPT ![e] = FALSE] /\ c.holds = b.holds /\ c.awaiting = b.awaiting
BY Numbers DEF Rearmed, Controller, SameLine

\* release: by the host once a confirmation is over, when the person is back, or
\* when the head's card was seen.
LEMMA ReleaseSound ==
  ASSUME NEW asked \in 0..MaxOffers, NEW b, Sound(b, asked),
         NEW reason \in {"project", "background"}, reason = "project" => project # "pending",
         NEW awaitPresentation \in BOOLEAN,
         NEW c, c = Release(b, reason, awaitPresentation)
  PROVE  /\ Orderly(c, asked) /\ TimerAgrees(c) /\ SameLine(b, c) /\ Entries(c) = Entries(b)
         /\ c.holds = b.holds \ {reason}
         /\ \A x \in Approval : c.awaiting[x] <=>
              b.awaiting[x] /\ ~(reason = "background" /\ x = b.current /\ ~awaitPresentation)
<1> DEFINE e == b.current
           f == Freed(b, reason, awaitPresentation)
<1>1. b \in Controller /\ Orderly(b, asked) /\ InLine(b, asked) /\ QueueAgrees(b, asked)
      /\ ProjectAgrees(b) /\ TimerAgrees(b)
  BY DEF Sound, Orderly
<1>2. /\ f \in Controller /\ SameLine(b, f) /\ f.left = b.left /\ f.timer = b.timer
      /\ f.held = b.held /\ f.holds = b.holds \ {reason}
      /\ \A x \in Approval : f.awaiting[x] <=>
           b.awaiting[x] /\ ~(reason = "background" /\ x = b.current /\ ~awaitPresentation)
  BY <1>1, FreedFields
<1>3. c = IF reason \notin b.holds /\ ~(reason = "background" /\ e # Null /\ b.awaiting[e])
          THEN b
          ELSE IF f.holds = {} /\ HeadPending(f) /\ f.held[e] /\ ~f.awaiting[e]
          THEN Publish(Rearmed(f, e)) ELSE f
  BY ReleaseSteps
<1> HIDE DEF f
<1>4. Orderly(f, asked) /\ Entries(f) = Entries(b)
  <2>1. \A x \in Approval : x > asked => ~f.awaiting[x]
    BY <1>1, <1>2 DEF QueueAgrees
  <2> QED BY <1>1, <1>2, <2>1, OrderlyLine
<1>5. f.current = e /\ (HeadPending(f) <=> HeadPending(b)) /\ (HeadPending(b) => e \in Approval)
  BY <1>1, <1>2, ControllerFields DEF HeadPending, SameLine
<1>6. CASE reason \notin b.holds /\ ~(reason = "background" /\ e # Null /\ b.awaiting[e])
  <2>1. c = b
    BY <1>3, <1>6
  <2>2. \A x \in Approval : reason = "background" /\ x = e => ~b.awaiting[x]
    BY <1>6, Numbers
  <2> QED BY <1>1, <1>6, <2>1, <2>2 DEF SameLine
<1>7. CASE /\ ~(reason \notin b.holds /\ ~(reason = "background" /\ e # Null /\ b.awaiting[e]))
           /\ ~(f.holds = {} /\ HeadPending(f) /\ f.held[e] /\ ~f.awaiting[e])
  <2>1. c = f
    BY <1>3, <1>7
  <2>2. TimerAgrees(f)
    <3>1. CASE HeadPending(b)
      <4>1. b.held[e] <=> b.holds # {} \/ b.awaiting[e]
        BY <1>1, <3>1 DEF TimerAgrees
      <4>2. f.held[e] <=> f.holds # {} \/ f.awaiting[e]
        BY <1>2, <1>5, <1>7, <3>1, <4>1
      <4> QED BY <1>1, <1>2, <1>5, <3>1, <4>2 DEF TimerAgrees
    <3>2. CASE ~HeadPending(b)
      BY <1>1, <1>2, <1>5, <3>2 DEF TimerAgrees
    <3> QED BY <3>1, <3>2
  <2> QED BY <1>2, <1>4, <2>1, <2>2
<1>8. CASE /\ ~(reason \notin b.holds /\ ~(reason = "background" /\ e # Null /\ b.awaiting[e]))
           /\ f.holds = {} /\ HeadPending(f) /\ f.held[e] /\ ~f.awaiting[e]
  <2> DEFINE r == Rearmed(f, e)
  <2>1. /\ r \in Controller /\ SameLine(f, r) /\ r.left = TTL
        /\ r.timer = [of |-> e, held |-> FALSE, left |-> TTL]
        /\ r.held = [f.held EXCEPT ![e] = FALSE] /\ r.holds = f.holds /\ r.awaiting = f.awaiting
    BY <1>2, <1>5, <1>8, RearmedFields
  <2>2. c = Publish(r)
    BY <1>3, <1>8
  <2> HIDE DEF r
  <2>3. ~(project = "pending" /\ HeadPending(r))
    <3>1. HeadPending(r) => HeadPending(b)
      BY <1>5, <1>8
    <3>2. HeadPending(b) /\ project = "pending" => "project" \in b.holds /\ reason # "project"
      BY <1>1 DEF ProjectAgrees
    <3> QED BY <1>2, <1>8, <3>1, <3>2
  <2>4. c = r
    BY <2>2, <2>3 DEF Publish
  <2>5. e \in Approval /\ r.held[e] = FALSE
        /\ \A x \in Approval : x # e => (r.held[x] <=> f.held[x])
    BY <1>2, <1>5, <1>8, <2>1, ControllerFields
  <2>6. Orderly(r, asked) /\ Entries(r) = Entries(f)
    <3>1. \A x \in Approval : x > asked => ~r.awaiting[x]
      BY <1>4, <2>1 DEF Orderly, QueueAgrees
    <3>2. \A x \in Approval : x # f.current => (r.held[x] <=> f.held[x])
      BY <1>5, <2>5
    <3> QED BY <1>4, <2>1, <3>1, <3>2, OrderlyLine
  <2>7. r.current = e
    BY <1>5, <2>1 DEF SameLine
  <2>8. TimerAgrees(r)
    <3>1. HeadPending(r)
      BY <1>5, <1>8, <2>1, <2>7 DEF HeadPending, SameLine
    <3>2. r.held[e] = FALSE /\ r.left = TTL /\ r.holds = {} /\ ~r.awaiting[e]
      BY <1>8, <2>1, <2>5
    <3>3. r.timer = [of |-> r.current, held |-> r.held[r.current], left |-> r.left]
      BY <2>1, <2>7, <3>2
    <3> QED BY <2>7, <3>1, <3>2, <3>3 DEF TimerAgrees
  <2> QED BY <1>2, <1>4, <2>1, <2>4, <2>6, <2>8 DEF SameLine
<1> QED BY <1>6, <1>7, <1>8

-----------------------------------------------------------------------------
(* A conversation that is cleared: head after head is dropped. *)

\* A set of natural numbers has a least one.
LEMMA LeastNatural ==
  ASSUME NEW T, T \subseteq Nat, T # {}
  PROVE  \E n \in T : \A m \in T : ~(m < n)
<1>1. \E n \in T : \A m \in T : <<m, n>> \notin OpToRel(<, Nat)
  BY NatLessThanWellFounded, WFMin
<1>2. \A m, n \in T : <<m, n>> \in OpToRel(<, Nat) <=> m < n
  BY DEF OpToRel
<1> QED BY <1>1, <1>2

\* What holds of 0, and of a successor when of its predecessor, holds of all.
LEMMA NaturalSets ==
  ASSUME NEW S \in SUBSET Nat, 0 \in S, \A n \in S : n + 1 \in S
  PROVE  S = Nat
<1> SUFFICES ASSUME Nat \ S # {} PROVE FALSE
  OBVIOUS
<1>1. PICK n \in Nat \ S : \A m \in Nat \ S : ~(m < n)
  BY LeastNatural
<1>2. n - 1 \in S
  BY <1>1
<1> QED BY <1>1, <1>2

\* f holds the controllers that follow b while its heads are dropped, n of them.
Drops(f, b, n) ==
  /\ f \in [0..n -> Controller] /\ f[0] = b
  /\ \A i \in 1..n : f[i] = Drop(f[i - 1], f[i - 1].current)

\* How many wait.
Size(b) == IF b.current = Null THEN 0 ELSE 1 + Len(b.queue)

\* A head that is dropped makes the line one shorter.
LEMMA DropShortens ==
  ASSUME NEW asked \in 0..MaxOffers, NEW b, Sound(b, asked), b.current # Null,
         NEW c, c = Drop(b, b.current)
  PROVE  Sound(c, asked) /\ Size(c) = Size(b) - 1 /\ Size(b) \in Nat
<1>1. b \in Controller /\ InLine(b, asked)
  BY DEF Sound, Orderly
<1>2. b.current \in Entries(b) /\ b.queue \in Seq(Approval)
  BY <1>1, LineMembers, ControllerFields
<1>3. Droppable(b, b.current, asked)
  BY <1>2, SoundDroppable
<1>4. Sound(c, asked)
      /\ IF b.queue = <<>> THEN c.current = Null
         ELSE c.current # Null /\ Len(c.queue) = Len(b.queue) - 1
  BY <1>3, DropSound
<1> QED BY <1>2, <1>4 DEF Size

\* There is such a sequence of controllers, one shorter than the one before.
LEMMA DropsExist ==
  ASSUME NEW asked \in 0..MaxOffers, NEW b, Sound(b, asked), NEW n \in Nat, n <= Size(b)
  PROVE  \E f : Drops(f, b, n) /\ Sound(f[n], asked) /\ Size(f[n]) = Size(b) - n
<1> DEFINE Reaches(f, k) == Drops(f, b, k) /\ Sound(f[k], asked) /\ Size(f[k]) = Size(b) - k
           Good == {k \in Nat : k <= Size(b) => \E f : Reaches(f, k)}
<1>1. b \in Controller /\ Size(b) \in Nat
  <2>1. b \in Controller /\ b.queue \in Seq(Approval)
    BY ControllerFields DEF Sound, Orderly
  <2> QED BY <2>1 DEF Size
<1>2. 0 \in Good
  <2> DEFINE f == [i \in 0..0 |-> b]
  <2>1. f \in [0..0 -> Controller] /\ f[0] = b
    BY <1>1
  <2> HIDE DEF f
  <2>2. Reaches(f, 0)
    BY <1>1, <2>1 DEF Drops
  <2> QED BY <2>2
<1>3. ASSUME NEW k \in Nat, k \in Good, k + 1 <= Size(b)
      PROVE  k + 1 \in Good
  <2>1. PICK f : Reaches(f, k)
    BY <1>1, <1>3
  <2> DEFINE last == Drop(f[k], f[k].current)
             g == [i \in 0..(k + 1) |-> IF i = k + 1 THEN last ELSE f[i]]
  <2>2. f \in [0..k -> Controller] /\ f[0] = b
        /\ \A i \in 1..k : f[i] = Drop(f[i - 1], f[i - 1].current)
    BY <2>1 DEF Drops
  <2>3. f[k].current # Null
    BY <1>1, <1>3, <2>1 DEF Size
  <2>4. Sound(last, asked) /\ Size(last) = Size(b) - (k + 1)
    BY <1>1, <1>3, <2>1, <2>3, DropShortens
  <2>5. last \in Controller
    BY <2>4 DEF Sound, Orderly
  <2>6. g \in [0..(k + 1) -> Controller] /\ g[0] = b /\ g[k + 1] = last
    <3> HIDE DEF last
    <3> QED BY <1>3, <2>2, <2>5
  <2>7. ASSUME NEW i \in 1..(k + 1)
        PROVE  g[i] = Drop(g[i - 1], g[i - 1].current)
    <3>1. CASE i = k + 1
      <4>1. g[i - 1] = f[k] /\ g[i] = last
        BY <1>3, <3>1
      <4> QED BY <4>1
    <3>2. CASE i \in 1..k
      <4>1. g[i] = f[i] /\ g[i - 1] = f[i - 1]
        BY <1>3, <3>2
      <4> HIDE DEF g
      <4> QED BY <2>2, <3>2, <4>1
    <3> QED BY <3>1, <3>2
  <2> HIDE DEF g, last
  <2>8. Reaches(g, k + 1)
    BY <2>4, <2>6, <2>7 DEF Drops
  <2> QED BY <1>3, <2>8
<1>4. Good = Nat
  <2>1. \A k \in Good : k + 1 \in Good
    <3> SUFFICES ASSUME NEW k \in Good PROVE k + 1 \in Good
      OBVIOUS
    <3> QED BY <1>3
  <2>2. Good \in SUBSET Nat
    OBVIOUS
  <2> HIDE DEF Good
  <2> QED BY <1>2, <2>1, <2>2, NaturalSets
<1> QED BY <1>4

\* Two such sequences are the same.
LEMMA DropsUnique ==
  ASSUME NEW b, NEW n \in Nat, NEW f, NEW g, Drops(f, b, n),
         g[0] = b, \A i \in 1..n : g[i] = Drop(g[i - 1], g[i - 1].current)
  PROVE  g[n] = f[n]
<1> DEFINE Same == {k \in Nat : k <= n => g[k] = f[k]}
<1>1. 0 \in Same
  BY DEF Drops
<1>2. ASSUME NEW k \in Same PROVE k + 1 \in Same
  <2> SUFFICES ASSUME k + 1 <= n PROVE g[k + 1] = f[k + 1]
    OBVIOUS
  <2>1. k + 1 \in 1..n /\ (k + 1) - 1 = k /\ g[k] = f[k]
    BY <1>2
  <2>2. g[k + 1] = Drop(g[k], g[k].current) /\ f[k + 1] = Drop(f[k], f[k].current)
    BY <2>1 DEF Drops
  <2> QED BY <2>1, <2>2
<1>3. Same = Nat
  <2>1. Same \in SUBSET Nat
    OBVIOUS
  <2> HIDE DEF Same
  <2> QED BY <1>1, <1>2, <2>1, NaturalSets
<1> QED BY <1>3

\* Once as many heads as wait were dropped, nobody waits.
LEMMA DroppedSound ==
  ASSUME NEW asked \in 0..MaxOffers, NEW b, Sound(b, asked), b.current # Null,
         NEW c, c = Dropped(b, 1 + Len(b.queue))
  PROVE  Sound(c, asked) /\ c.current = Null
<1> DEFINE n == 1 + Len(b.queue)
           step(f, i) == IF i = 0 THEN b ELSE Drop(f[i - 1], f[i - 1].current)
           left == CHOOSE f : f = [i \in 0..n |-> step(f, i)]
<1>1. n \in Nat /\ n = Size(b) /\ b \in Controller
  BY ControllerFields DEF Sound, Orderly, Size
<1> HIDE DEF n
<1>2. PICK f : Drops(f, b, n) /\ Sound(f[n], asked) /\ Size(f[n]) = 0
  BY <1>1, DropsExist
<1>3. f = [i \in 0..n |-> step(f, i)]
  <2>1. f \in [0..n -> Controller]
    BY <1>2 DEF Drops
  <2>2. ASSUME NEW i \in 0..n PROVE f[i] = step(f, i)
    <3>1. CASE i = 0
      BY <1>2, <3>1 DEF Drops
    <3>2. CASE i \in 1..n
      BY <1>2, <3>2 DEF Drops
    <3> QED BY <1>1, <3>1, <3>2
  <2> HIDE DEF step
  <2> QED BY <2>1, <2>2
<1>4. left = [i \in 0..n |-> step(left, i)]
  <2> HIDE DEF step
  <2> QED BY <1>3
<1>5. c = left[n]
  BY DEF Dropped, n
<1> HIDE DEF left
<1>6. left[0] = b /\ \A i \in 1..n : left[i] = Drop(left[i - 1], left[i - 1].current)
  BY <1>1, <1>4
<1>7. c = f[n]
  BY <1>1, <1>2, <1>5, <1>6, DropsUnique
<1>8. Size(f[n]) = 0 => f[n].current = Null
  <2>1. f[n].queue \in Seq(Approval)
    BY <1>2, ControllerFields DEF Sound, Orderly
  <2> QED BY <2>1 DEF Size
<1> QED BY <1>2, <1>7, <1>8

-----------------------------------------------------------------------------
(* What every action keeps. *)

\* The invariant's facts in the form the actions use.
LEMMA Facts ==
  ASSUME IInv
  PROVE  /\ fifo \in Controller /\ Orderly(fifo, issued) /\ InLine(fifo, issued)
         /\ QueueAgrees(fifo, issued) /\ OutcomeAgrees(fifo, issued)
         /\ TimerAgrees(fifo) /\ ProjectAgrees(fifo) /\ ProjectHolds(fifo) /\ PresenceAgrees(fifo)
         /\ Sound(fifo, issued) /\ issued \in 0..MaxOffers
         /\ Entries(fifo) \subseteq 1..issued /\ Entries(fifo) \subseteq Approval
<1>1. issued \in 0..MaxOffers /\ Sound(fifo, issued)
  BY DEF IInv, TypeOK
<1> QED BY <1>1, LineMembers DEF Sound, Orderly, ProjectAgrees

\* A step that drops the approvals of G, those of X for lack of time, and
\* answers no executor.
LEMMA HistoryKept ==
  ASSUME IInv, issued' = issued, spent' = spent, NEW G \in SUBSET Entries(fifo),
         NEW X \in SUBSET G, revoked' = revoked \cup G, expired' = expired \cup X,
         Entries(fifo') = Entries(fifo) \ G, X \cap unseen = {},
         unseen' \subseteq unseen \cup Entries(fifo'),
         \A e \in Entries(fifo') : e \in unseen' => fifo'.awaiting[e]
  PROVE  HistoryAgrees' /\ UnseenNeverExpires' /\ RevokedNeverSpent'
         /\ revoked' \subseteq Approval /\ expired' \subseteq Approval /\ unseen' \subseteq Approval
<1>1. Entries(fifo) \subseteq 1..issued /\ Entries(fifo) \subseteq Approval /\ issued \in 0..MaxOffers
  BY Facts
<1>2. HistoryAgrees /\ UnseenNeverExpires /\ RevokedNeverSpent
      /\ revoked \subseteq Approval /\ expired \subseteq Approval /\ unseen \subseteq Approval
  BY DEF IInv, TypeOK
<1>3. expired' \subseteq revoked' /\ revoked' \cap Entries(fifo') = {}
  BY <1>2 DEF HistoryAgrees
<1>4. ASSUME NEW e \in Approval, e > issued'
      PROVE  spent'[e] = "none" /\ e \notin revoked' \cup unseen'
  <2>1. e \notin Entries(fifo)
    BY <1>1, <1>4
  <2> QED BY <1>2, <1>4, <2>1 DEF HistoryAgrees
<1>5. HistoryAgrees'
  <2>1. \A e \in Entries(fifo') : spent'[e] = "none" /\ (e \in unseen' => fifo'.awaiting[e])
    BY <1>2 DEF HistoryAgrees
  <2> QED BY <1>3, <1>4, <2>1 DEF HistoryAgrees
<1>6. UnseenNeverExpires'
  BY <1>2 DEF UnseenNeverExpires, HistoryAgrees
<1>7. RevokedNeverSpent'
  BY <1>2 DEF RevokedNeverSpent, HistoryAgrees
<1> QED BY <1>1, <1>2, <1>5, <1>6, <1>7

\* A head whose deadline runs was seen.
LEMMA RunningWasSeen ==
  ASSUME IInv, HeadPending(fifo), ~fifo.held[fifo.current]
  PROVE  fifo.current \in Entries(fifo) /\ fifo.current \notin unseen
<1>1. fifo.current \in Entries(fifo)
  BY Facts, LineMembers DEF HeadPending
<1>2. ~fifo.awaiting[fifo.current]
  BY Facts DEF TimerAgrees
<1> QED BY <1>1, <1>2 DEF IInv, HistoryAgrees

\* A sound controller loses one of its approvals.
LEMMA DropKept ==
  ASSUME IInv, issued' = issued, spent' = spent, project' = project, presented' = presented,
         workOf' = workOf, unseen' = unseen,
         NEW b, NEW e \in Entries(fifo), Droppable(b, e, issued), Entries(b) = Entries(fifo),
         \A x \in Approval : b.awaiting[x] <=> fifo.awaiting[x],
         fifo' = Drop(b, e), revoked' = revoked \cup {e},
         expired' = expired \/ (expired' = expired \cup {e} /\ e \notin unseen)
  PROVE  IInv'
<1>1. /\ Sound(fifo', issued) /\ Entries(fifo') = Entries(fifo) \ {e}
      /\ \A x \in Approval : fifo'.awaiting[x] <=> b.awaiting[x]
  BY Facts, DropSound
<1>2. Sound(fifo, issued)'
  BY <1>1 DEF Sound, ProjectAgrees, ProjectHolds, PresenceAgrees
<1>3. \A x \in Entries(fifo') : x \in unseen' => fifo'.awaiting[x]
  BY <1>1, Facts DEF IInv, HistoryAgrees
<1>4. HistoryAgrees' /\ UnseenNeverExpires' /\ RevokedNeverSpent'
      /\ revoked' \subseteq Approval /\ expired' \subseteq Approval /\ unseen' \subseteq Approval
  <2>1. PICK X \in SUBSET {e} : expired' = expired \cup X /\ X \cap unseen = {}
    <3>1. CASE expired' = expired
      <4>1. {} \in SUBSET {e} /\ expired' = expired \cup {} /\ {} \cap unseen = {}
        BY <3>1
      <4> QED BY <4>1
    <3>2. CASE expired' = expired \cup {e} /\ e \notin unseen
      <4>1. {e} \in SUBSET {e} /\ {e} \cap unseen = {}
        BY <3>2
      <4> QED BY <3>2, <4>1
    <3> QED BY <3>1, <3>2
  <2>2. {e} \in SUBSET Entries(fifo)
    OBVIOUS
  <2> QED BY <1>1, <1>3, <2>1, <2>2, HistoryKept
<1>5. fifo' \in Controller
  BY <1>1 DEF Sound, Orderly
<1> QED BY <1>2, <1>4, <1>5 DEF IInv, TypeOK

\* The deadline of e is taken away before e is dropped.
LEMMA ExpireDrops ==
  ASSUME IInv, HeadPending(fifo), ~fifo.held[fifo.current], NEW e, e = fifo.current,
         NEW b, b = DropTimer(fifo, e)
  PROVE  /\ e \in Entries(fifo) /\ e \notin unseen
         /\ Droppable(b, e, issued) /\ Entries(b) = Entries(fifo)
         /\ \A x \in Approval : b.awaiting[x] <=> fifo.awaiting[x]
<1>1. e \in Entries(fifo) /\ e \notin unseen
  BY RunningWasSeen
<1>2. /\ b \in Controller /\ SameLine(fifo, b) /\ b.holds = fifo.holds /\ b.held = fifo.held
      /\ b.awaiting = fifo.awaiting
      /\ b.timer = IF fifo.timer.of = e THEN NoTimer ELSE fifo.timer
  BY Facts, DropTimerFields
<1>3. b.timer.of \in {Null, e}
  <2>1. fifo.timer = [of |-> e, held |-> fifo.held[e], left |-> fifo.left]
    BY Facts DEF TimerAgrees
  <2> QED BY <1>2, <2>1, Numbers
<1>4. Orderly(b, issued) /\ Entries(b) = Entries(fifo)
  BY <1>2, Facts, OrderlyLine DEF QueueAgrees
<1>5. Droppable(b, e, issued)
  BY <1>1, <1>2, <1>3, <1>4, Facts DEF Droppable, ProjectHolds, PresenceAgrees, SameLine
<1> QED BY <1>1, <1>2, <1>4, <1>5

\* A head that runs out of time leaves the controller sound.
LEMMA ExpireKept ==
  ASSUME IInv, issued' = issued, spent' = spent, project' = project, presented' = presented,
         workOf' = workOf, unseen' = unseen,
         HeadPending(fifo), ~fifo.held[fifo.current], Expire(fifo.current)
  PROVE  IInv'
<1> DEFINE e == fifo.current
           b == DropTimer(fifo, e)
<1>1. /\ e \in Entries(fifo) /\ e \notin unseen
      /\ Droppable(b, e, issued) /\ Entries(b) = Entries(fifo)
      /\ \A x \in Approval : b.awaiting[x] <=> fifo.awaiting[x]
  BY ExpireDrops
<1>2. fifo' = Drop(b, e) /\ revoked' = revoked \cup {e} /\ expired' = expired \cup {e}
  BY DEF Expire
<1> HIDE DEF b, e
<1> QED BY <1>1, <1>2, DropKept

-----------------------------------------------------------------------------
(* The actions. *)

\* An approval is revoked from outside, wherever it stands in line (invalidate).
LEMMA WithdrawStep ==
  ASSUME IInv, NEW e \in Approval, Withdraw(e)
  PROVE  IInv'
<1>1. Droppable(fifo, e, issued) /\ e \in Entries(fifo)
  BY Facts, SoundDroppable DEF Withdraw
<1> QED BY <1>1, DropKept DEF Withdraw

\* The deadline that runs out is the head's, and the head is not parked.
LEMMA TimerIsHeads ==
  ASSUME IInv, TimerFires
  PROVE  HeadPending(fifo) /\ ~fifo.held[fifo.current] /\ Expire(fifo.current)
<1>1. HeadPending(fifo)
  BY Facts DEF TimerAgrees, TimerFires
<1>2. fifo.timer = [of |-> fifo.current, held |-> fifo.held[fifo.current], left |-> fifo.left]
  BY <1>1, Facts DEF TimerAgrees
<1>3. fifo.timer.of = fifo.current /\ ~fifo.held[fifo.current]
  <2>1. ~fifo.timer.held
    BY DEF TimerFires
  <2> QED BY <1>2, <2>1
<1> QED BY <1>1, <1>3 DEF TimerFires

\* The head expires: it was not parked, so its card had been seen.
LEMMA TimerFiresStep ==
  ASSUME IInv, TimerFires
  PROVE  IInv'
BY TimerIsHeads, ExpireKept DEF TimerFires

\* All heads are dropped, one after the other.
LEMMA ClearConversationStep ==
  ASSUME IInv, ClearConversation
  PROVE  IInv'
<1>1. fifo.current # Null /\ fifo' = Dropped(fifo, 1 + Len(fifo.queue))
      /\ revoked' = revoked \cup Entries(fifo) /\ project' = "none" /\ issued' = issued
      /\ spent' = spent /\ presented' = presented /\ workOf' = workOf /\ unseen' = unseen
      /\ expired' = expired
  BY DEF ClearConversation
<1>2. Sound(fifo', issued) /\ fifo'.current = Null
  BY <1>1, Facts, DroppedSound
<1>3. Entries(fifo') = {}
  BY <1>2, Facts, LineMembers DEF Sound, Orderly
<1>4. Sound(fifo, issued)'
  BY <1>1, <1>2 DEF Sound, ProjectAgrees, ProjectHolds, PresenceAgrees, HeadPending
<1>5. Entries(fifo') = Entries(fifo) \ Entries(fifo) /\ expired' = expired \cup {}
  BY <1>1, <1>3
<1>6. HistoryAgrees' /\ UnseenNeverExpires' /\ RevokedNeverSpent'
      /\ revoked' \subseteq Approval /\ expired' \subseteq Approval /\ unseen' \subseteq Approval
  BY <1>1, <1>3, <1>5, HistoryKept
<1>7. fifo' \in Controller
  BY <1>2 DEF Sound, Orderly
<1> QED BY <1>1, <1>4, <1>6, <1>7 DEF IInv, TypeOK

\* A confirmation is settled; it holds until its view is published.
LEMMA SettleProjectStep ==
  ASSUME IInv, SettleProject
  PROVE  IInv'
<1>1. project' = "over" /\ UNCHANGED <<fifo, issued, workOf, spent, presented, revoked, expired, unseen>>
  BY DEF SettleProject
<1>2. Sound(fifo, issued)'
  BY <1>1, Facts DEF Sound, ProjectAgrees, ProjectHolds, PresenceAgrees
<1>3. HistoryAgrees' /\ UnseenNeverExpires' /\ RevokedNeverSpent'
  BY <1>1 DEF IInv, HistoryAgrees, UnseenNeverExpires, RevokedNeverSpent
<1> QED BY <1>1, <1>2, <1>3 DEF IInv, TypeOK

\* The head was answered for: consuming it is the #drop of a decided approval.
LEMMA ConsumeDrops ==
  ASSUME IInv, NEW e, e = fifo.current, e # Null, fifo.state[e] = "responding",
         NEW c, c = Publish(PromoteNext([DropTimer(fifo, e) EXCEPT !.current = Null,
                                                                   !.holds = @ \ {"project"}]))
  PROVE  c = Drop(fifo, e) /\ e \in Entries(fifo)
<1> DEFINE a == Removed(fifo, e)
<1>1. e \in Entries(fifo) /\ e \in Approval
  BY Facts, LineMembers
<1>2. fifo.timer.of = Null
  BY Facts DEF TimerAgrees, HeadPending
<1>3. DropTimer(fifo, e) = fifo
  BY <1>2 DEF DropTimer
<1>4. a = PromoteNext([fifo EXCEPT !.current = Null, !.holds = @ \ {"project"}])
  BY DEF Removed
<1>5. c = Publish(a)
  BY <1>3, <1>4
<1> HIDE DEF a
<1>6. a.timer.of # e
  <2>1. /\ Entries(a) = Entries(fifo) \ {e} /\ a \in Controller
        /\ fifo.queue = <<>> => a.timer = fifo.timer
        /\ fifo.queue # <<>> => a.current # Null /\ a.timer.of = a.current
    BY <1>4, Facts, HeadGone DEF Advanced
  <2>2. a.current # e
    BY <2>1, Numbers DEF Entries, Waiting
  <2> QED BY <1>2, <2>1, <2>2
<1>7. Settled(fifo, e) = a
  BY <1>6 DEF Settled, DropTimer, a
<1> QED BY <1>1, <1>5, <1>7, DropSteps

\* An accepted answer is spent while it is the head's; any other answer is a refusal.
LEMMA ConsumeStep ==
  ASSUME IInv, NEW e \in Approval, Consume(e)
  PROVE  IInv'
<1>1. e <= issued /\ fifo.outcome[e] # "open" /\ spent[e] = "none"
      /\ UNCHANGED <<issued, workOf, project, presented, revoked, expired, unseen>>
  BY DEF Consume
<1>2. spent \in [Approval -> {"none", "accept", "decline"}]
      /\ fifo.outcome[e] \in {"accept", "decline"}
  BY <1>1, Facts, ControllerFields DEF IInv, TypeOK
<1>3. HistoryAgrees /\ UnseenNeverExpires /\ RevokedNeverSpent
      /\ issued \in 0..MaxOffers /\ revoked \subseteq Approval
  BY DEF IInv, TypeOK
<1>4. CASE fifo.current = e /\ fifo.state[e] = "responding"
  <2>1. spent' = [spent EXCEPT ![e] = fifo.outcome[e]]
    BY <1>4 DEF Consume
  <2>2. fifo' = Drop(fifo, e) /\ e \in Entries(fifo)
    <3>1. fifo' = Publish(PromoteNext([DropTimer(fifo, e) EXCEPT !.current = Null,
                                                                 !.holds = @ \ {"project"}]))
      BY <1>4 DEF Consume
    <3>2. e # Null
      BY Numbers
    <3> QED BY <1>4, <3>1, <3>2, ConsumeDrops
  <2>3. /\ Sound(fifo', issued) /\ Entries(fifo') = Entries(fifo) \ {e}
        /\ \A x \in Approval : fifo'.awaiting[x] <=> fifo.awaiting[x]
    BY <2>2, Facts, SoundDroppable, DropSound
  <2>4. Sound(fifo, issued)' /\ fifo' \in Controller
    BY <1>1, <2>3 DEF Sound, Orderly, ProjectAgrees, ProjectHolds, PresenceAgrees
  <2>5. \A x \in Approval : x # e => spent'[x] = spent[x]
    BY <1>2, <2>1
  <2>6. HistoryAgrees'
    <3>1. \A x \in Entries(fifo') : spent'[x] = "none" /\ (x \in unseen' => fifo'.awaiting[x])
      BY <1>1, <1>3, <2>3, <2>5, Facts DEF HistoryAgrees
    <3>2. \A x \in Approval : x > issued' => spent'[x] = "none" /\ x \notin revoked' \cup unseen'
      BY <1>1, <1>3, <2>5 DEF HistoryAgrees, Approval
    <3> QED BY <1>1, <1>3, <2>3, <3>1, <3>2 DEF HistoryAgrees
  <2>7. RevokedNeverSpent'
    BY <1>1, <1>3, <2>2, <2>5 DEF RevokedNeverSpent, HistoryAgrees
  <2>8. spent' \in [Approval -> {"none", "accept", "decline"}]
    BY <1>2, <2>1
  <2> QED BY <1>1, <2>4, <2>6, <2>7, <2>8 DEF IInv, TypeOK, UnseenNeverExpires
<1>5. CASE ~(fifo.current = e /\ fifo.state[e] = "responding")
  <2>1. spent' = [spent EXCEPT ![e] = "decline"] /\ fifo' = fifo
    BY <1>5 DEF Consume
  <2>2. \A x \in Approval : spent'[x] = IF x = e THEN "decline" ELSE spent[x]
    BY <1>2, <2>1
  <2>3. e \notin Entries(fifo)
    <3>1. SUFFICES ASSUME e \in Entries(fifo) PROVE FALSE
      OBVIOUS
    <3>2. fifo.state[e] # "pending"
      BY <1>1, <3>1, Facts DEF OutcomeAgrees, Approval
    <3>3. e \notin ToSet(fifo.queue)
      BY <3>2, Facts DEF QueueAgrees, Undecided
    <3>4. fifo.current = e
      BY <3>1, <3>3 DEF Entries, Waiting
    <3> QED BY <1>5, <3>2, <3>4, Facts, ControllerFields
  <2>4. Sound(fifo, issued)'
    BY <1>1, <2>1, Facts DEF Sound, ProjectAgrees, ProjectHolds, PresenceAgrees
  <2>5. HistoryAgrees'
    <3>1. \A x \in Entries(fifo') : spent'[x] = "none" /\ (x \in unseen' => fifo'.awaiting[x])
      BY <1>1, <1>3, <2>1, <2>2, <2>3, Facts DEF HistoryAgrees
    <3>2. \A x \in Approval : x > issued' => spent'[x] = "none" /\ x \notin revoked' \cup unseen'
      BY <1>1, <1>3, <2>2 DEF HistoryAgrees, Approval
    <3> QED BY <1>1, <1>3, <2>1, <3>1, <3>2 DEF HistoryAgrees
  <2>6. RevokedNeverSpent'
    BY <1>1, <1>3, <2>2 DEF RevokedNeverSpent
  <2>7. spent' \in [Approval -> {"none", "accept", "decline"}]
    BY <1>2, <2>1
  <2> QED BY <1>1, <2>1, <2>4, <2>5, <2>6, <2>7 DEF IInv, TypeOK, UnseenNeverExpires
<1> QED BY <1>4, <1>5

\* What is decided of the approvals changes.
Decides(b, st, out) == [b EXCEPT !.state = st, !.outcome = out]

\* Fields of a controller whose head is decided.
LEMMA DecidesFields ==
  ASSUME NEW b \in Controller, NEW st \in [Approval -> {"pending", "responding"}],
         NEW out \in [Approval -> {"open", "accept", "decline"}], NEW c, c = Decides(b, st, out)
  PROVE  /\ c \in Controller /\ c.current = b.current /\ c.queue = b.queue /\ c.holds = b.holds
         /\ c.timer = b.timer /\ c.held = b.held /\ c.awaiting = b.awaiting
         /\ c.state = st /\ c.outcome = out
BY DEF Controller, Decides

\* The head is answered.
AnsweredHead(b, e, decision) ==
  [DropTimer(b, e) EXCEPT !.state[e] = "responding", !.outcome[e] = decision]

\* Fields of a controller whose head was answered: its deadline is over.
LEMMA AnsweredFields ==
  ASSUME NEW b \in Controller, NEW e, NEW decision, NEW c, c = AnsweredHead(b, e, decision),
         e \in Approval, decision \in {"accept", "decline"}, b.timer.of = e
  PROVE  /\ c \in Controller /\ c.current = b.current /\ c.queue = b.queue /\ c.holds = b.holds
         /\ c.timer = NoTimer /\ c.held = b.held /\ c.awaiting = b.awaiting
         /\ c.state = [b.state EXCEPT ![e] = "responding"]
         /\ c.outcome = [b.outcome EXCEPT ![e] = decision]
<1> DEFINE d == DropTimer(b, e)
<1>1. d \in Controller /\ SameLine(b, d) /\ d.holds = b.holds /\ d.held = b.held
      /\ d.awaiting = b.awaiting /\ d.timer = NoTimer
  BY DropTimerFields
<1> HIDE DEF d
<1>2. d.state \in [Approval -> {"pending", "responding"}]
      /\ d.outcome \in [Approval -> {"open", "accept", "decline"}]
  BY <1>1, ControllerFields
<1> DEFINE st == [d.state EXCEPT ![e] = "responding"]
           out == [d.outcome EXCEPT ![e] = decision]
<1>3. st \in [Approval -> {"pending", "responding"}]
      /\ out \in [Approval -> {"open", "accept", "decline"}]
  BY <1>2
<1>4. c = Decides(d, st, out)
  BY DEF AnsweredHead, Decides, d, st, out
<1> HIDE DEF st, out
<1>5. /\ c \in Controller /\ c.current = d.current /\ c.queue = d.queue /\ c.holds = d.holds
      /\ c.timer = d.timer /\ c.held = d.held /\ c.awaiting = d.awaiting
      /\ c.state = st /\ c.outcome = out
  BY <1>1, <1>3, <1>4, DecidesFields
<1>6. d.state = b.state /\ d.outcome = b.outcome /\ d.current = b.current /\ d.queue = b.queue
  BY <1>1 DEF SameLine
<1> QED BY <1>1, <1>5, <1>6 DEF st, out

\* The head in time: it is decided, and nobody moves.
LEMMA DecidedHead ==
  ASSUME IInv, NEW e \in Approval, NEW decision \in {"accept", "decline"},
         AcceptDecision(e, decision), ~HeadExpired(fifo),
         NEW d, d = AnsweredHead(fifo, e, decision)
  PROVE  /\ fifo' = d /\ d \in Controller /\ d.current = fifo.current /\ d.queue = fifo.queue
         /\ d.holds = fifo.holds /\ d.timer = NoTimer /\ d.held = fifo.held
         /\ d.awaiting = fifo.awaiting /\ Entries(d) = Entries(fifo) /\ ~HeadPending(d)
         /\ \A x \in Approval : /\ d.state[x] = IF x = e THEN "responding" ELSE fifo.state[x]
                               /\ d.outcome[x] = IF x = e THEN decision ELSE fifo.outcome[x]
<1>1. e = fifo.current /\ HeadPending(fifo) /\ fifo' = Publish(d)
  BY DEF AcceptDecision, AnsweredHead
<1>2. fifo.timer.of = e
  <2>1. fifo.timer = [of |-> e, held |-> fifo.held[e], left |-> fifo.left]
    BY <1>1, Facts DEF TimerAgrees
  <2> QED BY <2>1
<1>3. /\ d \in Controller /\ d.current = fifo.current /\ d.queue = fifo.queue
      /\ d.holds = fifo.holds /\ d.timer = NoTimer /\ d.held = fifo.held
      /\ d.awaiting = fifo.awaiting /\ d.state = [fifo.state EXCEPT ![e] = "responding"]
      /\ d.outcome = [fifo.outcome EXCEPT ![e] = decision]
  <2>1. fifo \in Controller
    BY Facts
  <2> QED BY <1>2, <2>1, AnsweredFields
<1>4. \A x \in Approval : /\ d.state[x] = IF x = e THEN "responding" ELSE fifo.state[x]
                         /\ d.outcome[x] = IF x = e THEN decision ELSE fifo.outcome[x]
  BY <1>3, Facts, ControllerFields
<1>5. ~HeadPending(d)
  BY <1>1, <1>3, <1>4 DEF HeadPending
<1>6. fifo' = d
  BY <1>1, <1>5 DEF Publish
<1>7. Entries(d) = Entries(fifo)
  BY <1>3 DEF Entries, Waiting
<1> QED BY <1>3, <1>4, <1>5, <1>6, <1>7

\* The head is answered, parked or not.
LEMMA AcceptDecisionStep ==
  ASSUME IInv, NEW e \in Approval, NEW decision \in {"accept", "decline"},
         AcceptDecision(e, decision)
  PROVE  IInv'
<1>1. e = fifo.current /\ HeadPending(fifo)
      /\ UNCHANGED <<issued, workOf, spent, project, presented, unseen>>
  BY DEF AcceptDecision
<1>2. CASE HeadExpired(fifo)
  <2>1. ~fifo.held[fifo.current] /\ Expire(fifo.current)
    BY <1>1, <1>2 DEF AcceptDecision, HeadExpired
  <2> QED BY <1>1, <2>1, ExpireKept
<1>3. CASE ~HeadExpired(fifo)
  <2> DEFINE d == AnsweredHead(fifo, e, decision)
  <2>1. revoked' = revoked /\ expired' = expired
    BY <1>3 DEF AcceptDecision
  <2>2. /\ fifo' = d /\ d \in Controller /\ d.current = fifo.current /\ d.queue = fifo.queue
        /\ d.holds = fifo.holds /\ d.timer = NoTimer /\ d.held = fifo.held
        /\ d.awaiting = fifo.awaiting /\ Entries(d) = Entries(fifo) /\ ~HeadPending(d)
        /\ \A x \in Approval : /\ d.state[x] = IF x = e THEN "responding" ELSE fifo.state[x]
                              /\ d.outcome[x] = IF x = e THEN decision ELSE fifo.outcome[x]
    <3>1. d = AnsweredHead(fifo, e, decision)
      OBVIOUS
    <3> HIDE DEF d
    <3> QED BY <1>3, <3>1, DecidedHead
  <2> HIDE DEF d
  <2>3. /\ e \in Approval /\ e \notin ToSet(fifo.queue) /\ e <= issued
        /\ ToSet(fifo.queue) \subseteq Approval /\ e # Null
    BY <1>1, Facts, LineMembers, Numbers DEF InLine
  <2>4. Orderly(d, issued)
    <3>1. InLine(d, issued)
      BY <2>2, Facts DEF InLine
    <3>2. QueueAgrees(d, issued)
      <4>1. \A x \in ToSet(d.queue) : Undecided(d, x)
        BY <2>2, <2>3, Facts DEF QueueAgrees, Undecided
      <4>2. ASSUME NEW x \in Approval, x > issued
            PROVE  Undecided(d, x) /\ d.outcome[x] = "open" /\ ~d.awaiting[x]
        <5>1. x # e
          BY <2>3, <4>2, Facts DEF Approval
        <5> QED BY <2>2, <4>2, <5>1, Facts DEF QueueAgrees, Undecided
      <4> QED BY <4>1, <4>2 DEF QueueAgrees
    <3>3. OutcomeAgrees(d, issued)
      <4>1. 1..issued \subseteq Approval
        BY Facts, ApprovalAssumption DEF Approval
      <4> QED BY <2>2, <2>3, <4>1, Facts DEF OutcomeAgrees
    <3> QED BY <2>2, <3>1, <3>2, <3>3 DEF Orderly
  <2>5. TimerAgrees(d) /\ ProjectAgrees(d) /\ PresenceAgrees(d)
    BY <2>2, Facts, Numbers DEF TimerAgrees, ProjectAgrees, ProjectHolds, PresenceAgrees
  <2>6. Sound(fifo, issued)'
    BY <1>1, <2>2, <2>4, <2>5 DEF Sound, ProjectAgrees, ProjectHolds, PresenceAgrees
  <2>7. HistoryAgrees' /\ UnseenNeverExpires' /\ RevokedNeverSpent'
    BY <1>1, <2>1, <2>2 DEF IInv, HistoryAgrees, UnseenNeverExpires, RevokedNeverSpent
  <2> QED BY <1>1, <2>1, <2>2, <2>6, <2>7 DEF IInv, TypeOK
<1> QED BY <1>2, <1>3

\* Time passes for the head.
Ticked(b) ==
  [b EXCEPT !.left = IF @ > 0 THEN @ - 1 ELSE 0,
            !.timer.left = IF @ > 0 THEN @ - 1 ELSE 0]

\* Time passes for the head that is not parked.
LEMMA TickStep ==
  ASSUME IInv, Tick
  PROVE  IInv'
<1> DEFINE d == Ticked(fifo)
           less(n) == IF n > 0 THEN n - 1 ELSE 0
           ticked == [fifo.timer EXCEPT !.left = less(fifo.timer.left)]
<1>1. fifo' = d /\ UNCHANGED <<issued, workOf, spent, project, presented, revoked, expired, unseen>>
  BY DEF Tick, Ticked
<1>2. fifo.timer \in [of : Approval \cup {Null}, held : BOOLEAN, left : 0..TTL]
      /\ fifo.left \in 0..TTL
  BY Facts, ControllerFields
<1>3. \A n \in 0..TTL : less(n) \in 0..TTL
  BY ApprovalAssumption
<1> HIDE DEF less
<1>4. ticked \in [of : Approval \cup {Null}, held : BOOLEAN, left : 0..TTL]
      /\ ticked.of = fifo.timer.of /\ ticked.held = fifo.timer.held
      /\ ticked.left = less(fifo.timer.left)
  BY <1>2, <1>3
<1> HIDE DEF ticked
<1>5. d = [fifo EXCEPT !.left = less(fifo.left), !.timer = ticked]
  BY DEF Ticked, less, ticked
<1>6. less(fifo.left) \in 0..TTL
  BY <1>2, <1>3
<1> HIDE DEF d
<1>7. d \in Controller /\ SameLine(fifo, d) /\ d.left = less(fifo.left) /\ d.timer = ticked
      /\ d.holds = fifo.holds /\ d.held = fifo.held /\ d.awaiting = fifo.awaiting
  BY <1>4, <1>5, <1>6, Facts DEF Controller, SameLine
<1>8. Orderly(d, issued) /\ Entries(d) = Entries(fifo)
  BY <1>7, Facts, OrderlyLine DEF QueueAgrees
<1>9. d.current = fifo.current /\ (HeadPending(d) <=> HeadPending(fifo))
  BY <1>7 DEF HeadPending, SameLine
<1>10. TimerAgrees(d)
  <2>1. CASE HeadPending(fifo)
    <3> DEFINE e == fifo.current
               new == [of |-> e, held |-> d.held[e], left |-> d.left]
    <3>1. fifo.timer.of = e /\ fifo.timer.held = fifo.held[e] /\ fifo.timer.left = fifo.left
          /\ e \in Approval
      <4>1. fifo.timer = [of |-> e, held |-> fifo.held[e], left |-> fifo.left]
        BY <2>1, Facts DEF TimerAgrees
      <4>2. e \in Approval
        BY <2>1, Facts, ControllerFields DEF HeadPending
      <4> QED BY <4>1, <4>2
    <3>2. fifo.held[e] \in BOOLEAN
      BY <3>1, Facts, ControllerFields
    <3>3. new \in [of : Approval \cup {Null}, held : BOOLEAN, left : 0..TTL]
          /\ new.of = e /\ new.held = fifo.held[e] /\ new.left = less(fifo.left)
      BY <1>6, <1>7, <3>1, <3>2
    <3> HIDE DEF new
    <3>4. ticked = new
      BY <1>4, <3>1, <3>3, SameDeadline
    <3>5. d.timer = [of |-> d.current, held |-> d.held[d.current], left |-> d.left]
      BY <1>7, <1>9, <3>4 DEF new
    <3> QED BY <1>7, <1>9, <2>1, <3>5, Facts DEF TimerAgrees
  <2>2. CASE ~HeadPending(fifo)
    BY <1>4, <1>7, <1>9, <2>2, Facts DEF TimerAgrees
  <2> QED BY <2>1, <2>2
<1>11. ProjectAgrees(d) /\ PresenceAgrees(d)
  BY <1>7, <1>9, Facts DEF ProjectAgrees, ProjectHolds, PresenceAgrees
<1>12. Sound(fifo, issued)'
  BY <1>1, <1>8, <1>10, <1>11 DEF Sound, ProjectAgrees, ProjectHolds, PresenceAgrees
<1>13. HistoryAgrees' /\ UnseenNeverExpires' /\ RevokedNeverSpent'
  BY <1>1, <1>7, <1>8 DEF IInv, HistoryAgrees, UnseenNeverExpires, RevokedNeverSpent
<1> QED BY <1>1, <1>7, <1>12, <1>13 DEF IInv, TypeOK

\* The steps of offer: a place for the approval, at the head or at the end.
Noted(b, e, away) == [b EXCEPT !.awaiting[e] = away]
Headed(b, e) == [b EXCEPT !.current = e]
Joined(b, e) == [b EXCEPT !.queue = Append(@, e)]

\* Fields of a controller that has registered an approval.
LEMMA NotedFields ==
  ASSUME NEW b \in Controller, NEW e \in Approval, NEW away, away \in BOOLEAN,
         NEW c, c = Noted(b, e, away)
  PROVE  /\ c \in Controller /\ SameLine(b, c) /\ c.left = b.left /\ c.timer = b.timer
         /\ c.held = b.held /\ c.holds = b.holds
         /\ \A x \in Approval : c.awaiting[x] <=> IF x = e THEN away ELSE b.awaiting[x]
<1> DEFINE aw == [b.awaiting EXCEPT ![e] = away]
<1>1. aw \in [Approval -> BOOLEAN]
  BY ControllerFields
<1>2. c = [b EXCEPT !.awaiting = aw]
  BY DEF Noted
<1>3. \A x \in Approval : aw[x] <=> IF x = e THEN away ELSE b.awaiting[x]
  BY ControllerFields
<1> HIDE DEF aw
<1>4. c \in Controller /\ SameLine(b, c) /\ c.left = b.left /\ c.timer = b.timer
      /\ c.held = b.held /\ c.holds = b.holds /\ c.awaiting = aw
  BY <1>1, <1>2 DEF Controller, SameLine
<1> QED BY <1>3, <1>4

\* Fields of a controller whose line begins with a new approval.
LEMMA HeadedFields ==
  ASSUME NEW b \in Controller, NEW e \in Approval, NEW c, c = Headed(b, e)
  PROVE  /\ c \in Controller /\ c.current = e /\ c.queue = b.queue /\ c.state = b.state
         /\ c.outcome = b.outcome /\ c.held = b.held /\ c.holds = b.holds
         /\ c.awaiting = b.awaiting
BY DEF Headed, Controller

\* Another queue.
Lined(b, q) == [b EXCEPT !.queue = q]

\* Fields of a controller that has another queue.
LEMMA LinedFields ==
  ASSUME NEW b \in Controller, NEW q \in Seq(Approval), NEW c, c = Lined(b, q)
  PROVE  /\ c \in Controller /\ c.queue = q /\ c.current = b.current
         /\ c.state = b.state /\ c.outcome = b.outcome /\ c.held = b.held /\ c.holds = b.holds
         /\ c.awaiting = b.awaiting /\ c.left = b.left /\ c.timer = b.timer
BY DEF Lined, Controller

\* Fields of a controller whose line ends with a new approval.
LEMMA JoinedFields ==
  ASSUME NEW b \in Controller, NEW e \in Approval, NEW c, c = Joined(b, e)
  PROVE  /\ c \in Controller /\ c.queue = Append(b.queue, e) /\ c.current = b.current
         /\ c.state = b.state /\ c.outcome = b.outcome /\ c.held = b.held /\ c.holds = b.holds
         /\ c.awaiting = b.awaiting /\ c.left = b.left /\ c.timer = b.timer
<1> DEFINE q == Append(b.queue, e)
<1>1. q \in Seq(Approval)
  BY ControllerFields
<1>2. c = Lined(b, q)
  BY DEF Joined, Lined
<1> HIDE DEF q
<1>3. /\ c \in Controller /\ c.queue = q /\ c.current = b.current
      /\ c.state = b.state /\ c.outcome = b.outcome /\ c.held = b.held /\ c.holds = b.holds
      /\ c.awaiting = b.awaiting /\ c.left = b.left /\ c.timer = b.timer
  BY <1>1, <1>2, LinedFields
<1> QED BY <1>3 DEF q

\* The line with a new approval in it.
Newcomer(e) ==
  LET b == Noted(fifo, e, "background" \in fifo.holds)
  IN IF fifo.current = Null THEN Arm(Headed(b, e), e) ELSE Joined(b, e)

\* The approval that is asked for joins the line.
LEMMA NewcomerPublishable ==
  ASSUME IInv, NEW e \in Approval, e = issued + 1, NEW d, d = Newcomer(e)
  PROVE  /\ Publishable(d, e) /\ Entries(d) = Entries(fifo) \cup {e} /\ d.holds = fifo.holds
         /\ \A x \in Approval : d.awaiting[x] <=>
              IF x = e THEN "background" \in fifo.holds ELSE fifo.awaiting[x]
<1> DEFINE away == "background" \in fifo.holds
           b == Noted(fifo, e, away)
<1>1. away \in BOOLEAN /\ fifo \in Controller /\ e # Null
  BY Facts, Numbers
<1>2. /\ b \in Controller /\ SameLine(fifo, b) /\ b.left = fifo.left /\ b.timer = fifo.timer
      /\ b.held = fifo.held /\ b.holds = fifo.holds
      /\ \A x \in Approval : b.awaiting[x] <=> IF x = e THEN away ELSE fifo.awaiting[x]
  <2> HIDE DEF away
  <2>1. b = Noted(fifo, e, away)
    OBVIOUS
  <2> HIDE DEF b
  <2> QED BY <1>1, <2>1, NotedFields
<1>3. d = IF fifo.current = Null THEN Arm(Headed(b, e), e) ELSE Joined(b, e)
  BY DEF Newcomer
<1> HIDE DEF b, away
<1>4. /\ e > issued /\ issued \in Nat
      /\ \A x \in Entries(fifo) : x \in Nat /\ x <= issued /\ x < e /\ x # e
  BY Facts DEF Approval
<1>5. Undecided(fifo, e) /\ fifo.outcome[e] = "open"
  BY <1>4, Facts DEF QueueAgrees
<1>6. ASSUME d \in Controller, InLine(d, e), Entries(d) = Entries(fifo) \cup {e},
             d.state = fifo.state, d.outcome = fifo.outcome, d.awaiting = b.awaiting,
             \A x \in Approval : x # e => (d.held[x] <=> fifo.held[x]),
             \A x \in ToSet(d.queue) : Undecided(d, x)
      PROVE  Orderly(d, e)
  <2>1. ASSUME NEW x \in Approval, x > e
        PROVE  Undecided(d, x) /\ d.outcome[x] = "open" /\ ~d.awaiting[x]
    <3>1. x > issued /\ x # e
      BY <1>4, <2>1 DEF Approval
    <3> QED BY <1>2, <1>6, <3>1, Facts DEF QueueAgrees, Undecided
  <2>2. QueueAgrees(d, e)
    BY <1>6, <2>1 DEF QueueAgrees
  <2>3. OutcomeAgrees(d, e)
    <3> SUFFICES ASSUME NEW x \in 1..e
                 PROVE  d.outcome[x] = "open" <=> x \in Entries(d) /\ d.state[x] = "pending"
      BY DEF OutcomeAgrees
    <3>1. CASE x = e
      BY <1>5, <1>6, <3>1 DEF Undecided
    <3>2. CASE x # e
      <4>1. x \in 1..issued
        BY <1>4, <3>2 DEF Approval
      <4> QED BY <1>6, <3>2, <4>1, Facts DEF OutcomeAgrees
    <3> QED BY <3>1, <3>2
  <2> QED BY <1>6, <2>2, <2>3 DEF Orderly
<1>7. CASE fifo.current = Null
  <2> DEFINE h == Headed(b, e)
  <2>1. /\ h \in Controller /\ h.current = e /\ h.queue = b.queue /\ h.state = b.state
        /\ h.outcome = b.outcome /\ h.held = b.held /\ h.holds = b.holds
        /\ h.awaiting = b.awaiting
    BY <1>2, HeadedFields
  <2> DEFINE parked == h.holds # {} \/ h.awaiting[e]
  <2>2. d = Arm(h, e)
    BY <1>3, <1>7
  <2> HIDE DEF h
  <2>3. /\ d \in Controller /\ SameLine(h, d) /\ d.holds = h.holds /\ d.awaiting = h.awaiting
        /\ d.held = (IF parked THEN [h.held EXCEPT ![e] = TRUE] ELSE h.held)
        /\ d.left = TTL /\ d.timer = [of |-> e, held |-> parked, left |-> TTL]
    BY <2>1, <2>2, ArmFields
  <2>4. d.current = e /\ d.queue = <<>> /\ d.state = fifo.state /\ d.outcome = fifo.outcome
        /\ d.awaiting = b.awaiting /\ d.holds = fifo.holds
    BY <1>2, <1>7, <2>1, <2>3, Facts DEF SameLine, InLine
  <2>5. Entries(d) = {e} /\ Entries(fifo) = {}
    BY <1>1, <1>7, <2>4, EmptyFacts, LineMembers, Facts DEF Entries, Waiting
  <2>6. InLine(d, e)
    BY <1>1, <1>4, <2>4, EmptyFacts DEF InLine
  <2>7. ~h.held[e] /\ h.held \in [Approval -> BOOLEAN] /\ h.held = fifo.held
    BY <1>2, <1>5, <2>1, ControllerFields DEF Undecided
  <2>8. /\ d.held[e] <=> parked
        /\ \A x \in Approval : x # e => (d.held[x] <=> fifo.held[x])
    BY <2>3, <2>7
  <2>9. HeadPending(d)
    BY <1>1, <1>5, <2>4 DEF HeadPending, Undecided
  <2>10. TimerAgrees(d)
    <3>1. d.held[e] = parked
      BY <2>3, <2>8, ControllerFields
    <3>2. d.timer = [of |-> d.current, held |-> d.held[d.current], left |-> d.left]
      BY <2>3, <2>4, <3>1
    <3>3. d.held[d.current] <=> d.holds # {} \/ d.awaiting[d.current]
      BY <2>3, <2>4, <2>8
    <3> QED BY <2>9, <3>2, <3>3 DEF TimerAgrees
  <2>11. Orderly(d, e)
    <3>1. \A x \in ToSet(d.queue) : Undecided(d, x)
      BY <2>4, EmptyFacts
    <3>2. Entries(d) = Entries(fifo) \cup {e}
      BY <2>5
    <3> QED BY <1>6, <2>3, <2>4, <2>6, <2>8, <3>1, <3>2
  <2>12. ProjectHolds(d) /\ PresenceAgrees(d)
    BY <2>4, <1>7, Facts DEF ProjectHolds, PresenceAgrees
  <2> QED BY <1>2, <2>4, <2>5, <2>10, <2>11, <2>12 DEF Publishable, away
<1>8. CASE fifo.current # Null
  <2>1. d = Joined(b, e)
    BY <1>3, <1>8
  <2>2. /\ d \in Controller /\ d.queue = Append(b.queue, e) /\ d.current = b.current
        /\ d.state = b.state /\ d.outcome = b.outcome /\ d.held = b.held /\ d.holds = b.holds
        /\ d.awaiting = b.awaiting /\ d.left = b.left /\ d.timer = b.timer
    BY <1>2, <2>1, JoinedFields
  <2>3. /\ fifo.queue \in Seq(Approval) /\ Increasing(fifo.queue)
        /\ fifo.current \in Approval /\ Entries(fifo) = {fifo.current} \cup ToSet(fifo.queue)
    BY <1>8, Facts, ControllerFields, LineMembers DEF InLine
  <2>4. d.queue = Append(fifo.queue, e) /\ d.current = fifo.current /\ d.state = fifo.state
        /\ d.outcome = fifo.outcome
    BY <1>2, <2>2 DEF SameLine
  <2>5. \A x \in ToSet(fifo.queue) : x < e
    BY <1>4, <2>3
  <2>6. Increasing(d.queue) /\ ToSet(d.queue) = ToSet(fifo.queue) \cup {e}
    BY <2>3, <2>4, <2>5, AppendFacts
  <2>7. Entries(d) = Entries(fifo) \cup {e}
    BY <1>1, <2>3, <2>4, <2>6, Numbers DEF Entries, Waiting
  <2>8. InLine(d, e)
    <3>1. \A x \in ToSet(fifo.queue) : fifo.current < x /\ x <= issued
      BY Facts DEF InLine
    <3>2. fifo.current <= issued
      BY Facts DEF InLine
    <3>3. fifo.current < e /\ fifo.current <= e /\ e <= e
      BY <1>4, <2>3
    <3>4. \A x \in ToSet(d.queue) : fifo.current < x /\ x <= e
      BY <1>4, <2>3, <2>6, <3>1, <3>3
    <3> QED BY <1>8, <2>4, <2>6, <3>3, <3>4 DEF InLine
  <2>9. \A x \in ToSet(d.queue) : Undecided(d, x)
    BY <1>2, <1>5, <2>2, <2>4, <2>6, Facts DEF QueueAgrees, Undecided
  <2>10. Orderly(d, e)
    BY <1>2, <1>6, <2>2, <2>4, <2>7, <2>8, <2>9
  <2>11. TimerAgrees(d)
    <3>1. d.awaiting[fifo.current] <=> fifo.awaiting[fifo.current]
      BY <1>2, <1>4, <2>2, <2>3
    <3> QED BY <1>2, <2>2, <2>4, <3>1, Facts DEF TimerAgrees, HeadPending
  <2>12. ProjectHolds(d) /\ PresenceAgrees(d)
    BY <1>2, <2>2, <2>4, Facts DEF ProjectHolds, PresenceAgrees
  <2> QED BY <1>2, <2>2, <2>7, <2>10, <2>11, <2>12 DEF Publishable, away
<1> QED BY <1>7, <1>8

\* A work asks: its approval is the head, or the last in line.
LEMMA OfferJoins ==
  ASSUME IInv, NEW w \in Work, Offer(w), NEW e, e = issued + 1
  PROVE  /\ e \in Approval /\ e \in 0..MaxOffers /\ issued' = e
         /\ Sound(fifo', e) /\ Entries(fifo') = Entries(fifo) \cup {e}
         /\ \A x \in Approval : fifo'.awaiting[x] <=>
              IF x = e THEN "background" \in fifo.holds ELSE fifo.awaiting[x]
<1> DEFINE d == Newcomer(e)
<1>1. e \in Approval /\ issued' = e
  BY DEF Offer
<1>2. fifo' = Publish(d)
  <2> DEFINE b == [fifo EXCEPT !.awaiting[e] = "background" \in fifo.holds]
  <2>1. fifo' = Publish(IF b.current = Null THEN Promote(b, e)
                        ELSE [b EXCEPT !.queue = Append(@, e)])
    BY DEF Offer
  <2>2. b = Noted(fifo, e, "background" \in fifo.holds)
    BY DEF Noted
  <2>3. b.current = fifo.current
    BY Facts DEF Controller
  <2>4. Promote(b, e) = Arm(Headed(b, e), e)
    BY DEF Promote, Headed
  <2>5. [b EXCEPT !.queue = Append(@, e)] = Joined(b, e)
    BY DEF Joined
  <2> HIDE DEF b
  <2> QED BY <2>1, <2>2, <2>3, <2>4, <2>5 DEF Newcomer
<1>3. /\ Publishable(d, e) /\ Entries(d) = Entries(fifo) \cup {e} /\ d.holds = fifo.holds
      /\ \A x \in Approval : d.awaiting[x] <=>
           IF x = e THEN "background" \in fifo.holds ELSE fifo.awaiting[x]
  <2>1. d = Newcomer(e)
    OBVIOUS
  <2> HIDE DEF d
  <2> QED BY <1>1, <2>1, NewcomerPublishable
<1> HIDE DEF d
<1>4. e \in 0..MaxOffers
  BY <1>1, Facts DEF Approval
<1>5. /\ Sound(fifo', e) /\ Entries(fifo') = Entries(fifo) \cup {e}
      /\ \A x \in Approval : fifo'.awaiting[x] <=> d.awaiting[x]
  <2>1. /\ Sound(fifo', e) /\ Entries(fifo') = Entries(d)
        /\ \A x \in Approval : fifo'.awaiting[x] <=> d.awaiting[x]
    BY <1>2, <1>3, <1>4, PublishSound
  <2> QED BY <1>3, <2>1
<1> QED BY <1>1, <1>3, <1>4, <1>5

\* What is asked for is new to the histories.
LEMMA OfferStep ==
  ASSUME IInv, NEW w \in Work, Offer(w)
  PROVE  IInv'
<1> DEFINE e == issued + 1
<1>1. /\ workOf' = [workOf EXCEPT ![e] = w]
      /\ unseen' = (IF presented THEN unseen ELSE unseen \cup {e})
      /\ UNCHANGED <<spent, project, presented, revoked, expired>>
  BY DEF Offer
<1>2. /\ e \in Approval /\ e \in 0..MaxOffers /\ issued' = e /\ issued \in Nat
      /\ Sound(fifo', e) /\ Entries(fifo') = Entries(fifo) \cup {e}
      /\ \A x \in Approval : fifo'.awaiting[x] <=>
           IF x = e THEN "background" \in fifo.holds ELSE fifo.awaiting[x]
  BY OfferJoins, Facts
<1>3. Sound(fifo, issued)' /\ fifo' \in Controller
  BY <1>1, <1>2 DEF Sound, Orderly, ProjectAgrees, ProjectHolds, PresenceAgrees
<1>4. HistoryAgrees /\ UnseenNeverExpires /\ RevokedNeverSpent
  BY DEF IInv
<1>5. spent[e] = "none" /\ e \notin revoked \cup unseen /\ e \notin expired
  BY <1>1, <1>2, <1>4 DEF HistoryAgrees
<1>6. HistoryAgrees'
  <2>1. ASSUME NEW x \in Entries(fifo')
        PROVE  spent'[x] = "none" /\ (x \in unseen' => fifo'.awaiting[x])
    <3>1. CASE x = e
      BY <1>1, <1>2, <1>5, <3>1, Facts DEF PresenceAgrees
    <3>2. CASE x # e
      BY <1>1, <1>2, <1>4, <2>1, <3>2, Facts DEF HistoryAgrees
    <3> QED BY <3>1, <3>2
  <2>2. ASSUME NEW x \in Approval, x > issued'
        PROVE  spent'[x] = "none" /\ x \notin revoked' \cup unseen'
    <3>1. x > issued /\ x # e
      BY <1>1, <1>2, <2>2 DEF Approval
    <3> QED BY <1>1, <1>4, <2>2, <3>1 DEF HistoryAgrees
  <2> QED BY <1>1, <1>2, <1>4, <1>5, <2>1, <2>2 DEF HistoryAgrees
<1>7. UnseenNeverExpires' /\ RevokedNeverSpent'
  BY <1>1, <1>4, <1>5 DEF UnseenNeverExpires, RevokedNeverSpent
<1>8. workOf' \in [Approval -> Work \cup {Null}]
  BY <1>1 DEF IInv, TypeOK
<1> QED BY <1>1, <1>2, <1>3, <1>6, <1>7, <1>8 DEF IInv, TypeOK

\* A confirmation opens and parks the head, when there is one.
LEMMA OpenProjectStep ==
  ASSUME IInv, OpenProject
  PROVE  IInv'
<1> DEFINE gone == Gone(fifo, fifo')
<1>1. /\ project # "pending" /\ project' = "pending" /\ fifo' = Hold(fifo, "project")
      /\ revoked' = revoked \cup gone /\ expired' = expired \cup gone
      /\ UNCHANGED <<issued, workOf, spent, presented, unseen>>
  BY DEF OpenProject, HoldFor, Gone
<1>2. /\ Orderly(fifo', issued) /\ TimerAgrees(fifo') /\ PresenceAgrees(fifo')
      /\ Entries(fifo') = Entries(fifo) \ gone
      /\ \A e \in Approval : fifo.awaiting[e] => fifo'.awaiting[e]
      /\ fifo'.current # Null <=> "project" \in fifo'.holds
  <2>1. Sound(fifo, issued) /\ issued \in 0..MaxOffers
    BY Facts
  <2> QED BY <1>1, <2>1, HoldSound
<1>3. Sound(fifo, issued)' /\ fifo' \in Controller
  BY <1>1, <1>2 DEF Sound, Orderly, ProjectAgrees, ProjectHolds, PresenceAgrees, HeadPending
<1>4. gone \subseteq Entries(fifo) /\ gone \cap unseen = {}
  BY RunningWasSeen DEF Gone, HeadExpired
<1> HIDE DEF gone
<1>5. \A e \in Entries(fifo') : e \in unseen' => fifo'.awaiting[e]
  BY <1>1, <1>2, Facts DEF IInv, HistoryAgrees
<1>6. HistoryAgrees' /\ UnseenNeverExpires' /\ RevokedNeverSpent'
      /\ revoked' \subseteq Approval /\ expired' \subseteq Approval /\ unseen' \subseteq Approval
  BY <1>1, <1>2, <1>4, <1>5, HistoryKept
<1> QED BY <1>1, <1>3, <1>6 DEF IInv, TypeOK

\* The person goes away: all that waits is to be seen again.
LEMMA GoAwayStep ==
  ASSUME IInv, GoAway
  PROVE  IInv'
<1> DEFINE gone == Gone(fifo, fifo')
<1>1. /\ presented /\ presented' = FALSE /\ fifo' = Hold(fifo, "background")
      /\ revoked' = revoked \cup gone /\ expired' = expired \cup gone
      /\ unseen' = unseen \cup Entries(fifo')
      /\ UNCHANGED <<issued, workOf, spent, project>>
  BY DEF GoAway, HoldFor, Gone
<1>2. /\ Orderly(fifo', issued) /\ TimerAgrees(fifo') /\ ProjectAgrees(fifo')
      /\ Entries(fifo') = Entries(fifo) \ gone
      /\ "background" \in fifo'.holds /\ \A e \in Entries(fifo') : fifo'.awaiting[e]
  <2>1. Sound(fifo, issued) /\ issued \in 0..MaxOffers
    BY Facts
  <2> QED BY <1>1, <2>1, HoldSound
<1>3. Sound(fifo, issued)' /\ fifo' \in Controller
  BY <1>1, <1>2 DEF Sound, Orderly, ProjectAgrees, ProjectHolds, PresenceAgrees
<1>4. gone \subseteq Entries(fifo) /\ gone \cap unseen = {}
  BY RunningWasSeen DEF Gone, HeadExpired
<1> HIDE DEF gone
<1>5. HistoryAgrees' /\ UnseenNeverExpires' /\ RevokedNeverSpent'
      /\ revoked' \subseteq Approval /\ expired' \subseteq Approval /\ unseen' \subseteq Approval
  BY <1>1, <1>2, <1>4, HistoryKept
<1> QED BY <1>1, <1>3, <1>5 DEF IInv, TypeOK

\* A step that releases: nobody leaves the line, who was not seen stays parked.
LEMMA ReleaseKept ==
  ASSUME IInv, UNCHANGED <<issued, workOf, spent, revoked, expired>>,
         project' \in {"none", "pending", "over"}, presented' \in BOOLEAN,
         NEW reason \in {"project", "background"}, reason = "project" => project # "pending",
         NEW awaitPresentation \in BOOLEAN,
         fifo' = Release(fifo, reason, awaitPresentation), unseen' \subseteq unseen,
         reason = "background" /\ ~awaitPresentation => fifo.current \notin unseen',
         ("background" \in fifo.holds \ {reason}) <=> ~presented',
         ("project" \in fifo.holds \ {reason}) => project' # "none",
         project' = "pending" => project = "pending" /\ reason = "background"
  PROVE  IInv'
<1>1. /\ Orderly(fifo', issued) /\ TimerAgrees(fifo') /\ SameLine(fifo, fifo')
      /\ Entries(fifo') = Entries(fifo) /\ fifo'.holds = fifo.holds \ {reason}
      /\ \A x \in Approval : fifo'.awaiting[x] <=>
           fifo.awaiting[x] /\ ~(reason = "background" /\ x = fifo.current /\ ~awaitPresentation)
  <2>1. Sound(fifo, issued) /\ issued \in 0..MaxOffers
    BY Facts
  <2> QED BY <2>1, ReleaseSound
<1>2. fifo'.current = fifo.current /\ (HeadPending(fifo') <=> HeadPending(fifo))
  BY <1>1 DEF HeadPending, SameLine
<1>3. Sound(fifo, issued)' /\ fifo' \in Controller
  <2>1. PresenceAgrees(fifo)'
    BY <1>1 DEF PresenceAgrees
  <2>2. ProjectHolds(fifo)'
    BY <1>1, <1>2, Facts DEF ProjectHolds
  <2>3. HeadPending(fifo') /\ project' = "pending" => "project" \in fifo'.holds
    BY <1>1, <1>2, Facts DEF ProjectAgrees
  <2>4. ProjectAgrees(fifo)'
    BY <2>2, <2>3 DEF ProjectAgrees, HeadPending
  <2> QED BY <1>1, <2>1, <2>4 DEF Sound, Orderly
<1>4. \A e \in Entries(fifo') : e \in unseen' => fifo'.awaiting[e]
  BY <1>1, Facts DEF IInv, HistoryAgrees
<1>5. HistoryAgrees' /\ UnseenNeverExpires' /\ RevokedNeverSpent'
      /\ revoked' \subseteq Approval /\ expired' \subseteq Approval /\ unseen' \subseteq Approval
  <2>1. {} \in SUBSET Entries(fifo) /\ {} \in SUBSET {} /\ {} \cap unseen = {}
        /\ revoked' = revoked \cup {} /\ expired' = expired \cup {}
        /\ Entries(fifo') = Entries(fifo) \ {} /\ unseen' \subseteq unseen \cup Entries(fifo')
    BY <1>1
  <2> QED BY <1>4, <2>1, HistoryKept
<1> QED BY <1>3, <1>5 DEF IInv, TypeOK

\* The view of a settled confirmation releases the head.
LEMMA PublishProjectStep ==
  ASSUME IInv, PublishProject
  PROVE  IInv'
<1>1. /\ project = "over" /\ project' = "none"
      /\ fifo' = (IF fifo.current = Null THEN fifo ELSE Release(fifo, "project", FALSE))
      /\ UNCHANGED <<issued, workOf, spent, presented, revoked, expired, unseen>>
  BY DEF PublishProject
<1>2. CASE fifo.current = Null
  <2>1. fifo' = fifo
    BY <1>1, <1>2
  <2>2. Sound(fifo, issued)'
    BY <1>1, <1>2, <2>1, Facts DEF Sound, ProjectAgrees, ProjectHolds, PresenceAgrees, HeadPending
  <2>3. HistoryAgrees' /\ UnseenNeverExpires' /\ RevokedNeverSpent'
    BY <1>1, <2>1 DEF IInv, HistoryAgrees, UnseenNeverExpires, RevokedNeverSpent
  <2> QED BY <1>1, <2>1, <2>2, <2>3 DEF IInv, TypeOK
<1>3. CASE fifo.current # Null
  <2>1. fifo' = Release(fifo, "project", FALSE)
    BY <1>1, <1>3
  <2>2. ("background" \in fifo.holds \ {"project"}) <=> ~presented'
    BY <1>1, Facts DEF PresenceAgrees
  <2>3. presented' \in BOOLEAN
    BY <1>1 DEF IInv, TypeOK
  <2> QED BY <1>1, <2>1, <2>2, <2>3, ReleaseKept
<1> QED BY <1>2, <1>3

\* The person is back: the presentation mode holds no longer.
LEMMA ComeBackStep ==
  ASSUME IInv, ComeBack
  PROVE  IInv'
<1>1. /\ presented' = TRUE /\ fifo' = Release(fifo, "background", TRUE)
      /\ UNCHANGED <<issued, workOf, spent, project, revoked, expired, unseen>>
  BY DEF ComeBack
<1>2. ("background" \in fifo.holds \ {"background"}) <=> ~presented'
  BY <1>1
<1>3. ("project" \in fifo.holds \ {"background"}) => project' # "none"
  BY <1>1, Facts DEF ProjectHolds
<1>4. project' \in {"none", "pending", "over"}
  BY <1>1 DEF IInv, TypeOK
<1> QED BY <1>1, <1>2, <1>3, <1>4, ReleaseKept

\* The head's card is seen, so that its deadline begins.
LEMMA SeeCardStep ==
  ASSUME IInv, SeeCard
  PROVE  IInv'
<1>1. /\ presented /\ fifo' = Release(fifo, "background", FALSE)
      /\ unseen' = unseen \ {fifo.current}
      /\ UNCHANGED <<issued, workOf, spent, project, presented, revoked, expired>>
  BY DEF SeeCard
<1>2. ("background" \in fifo.holds \ {"background"}) <=> ~presented'
  BY <1>1
<1>3. ("project" \in fifo.holds \ {"background"}) => project' # "none"
  BY <1>1, Facts DEF ProjectHolds
<1>4. project' \in {"none", "pending", "over"} /\ presented' \in BOOLEAN
  BY <1>1 DEF IInv, TypeOK
<1>5. unseen' \subseteq unseen /\ fifo.current \notin unseen'
  BY <1>1
<1> QED BY <1>1, <1>2, <1>3, <1>4, <1>5, ReleaseKept

-----------------------------------------------------------------------------
(* The theorems. *)

\* An empty line.
LEMMA InitInv == Init => IInv
<1> SUFFICES ASSUME Init PROVE IInv
  OBVIOUS
<1>1. /\ fifo.current = Null /\ fifo.queue = <<>> /\ fifo.holds = {} /\ fifo.timer = NoTimer
      /\ fifo.state = [e \in Approval |-> "pending"] /\ fifo.held = [e \in Approval |-> FALSE]
      /\ fifo.awaiting = [e \in Approval |-> FALSE]
      /\ fifo.outcome = [e \in Approval |-> "open"]
      /\ issued = 0 /\ workOf = [e \in Approval |-> Null] /\ spent = [e \in Approval |-> "none"]
      /\ project = "none" /\ presented = TRUE /\ revoked = {} /\ expired = {} /\ unseen = {}
  BY DEF Init
<1>2. fifo \in Controller
  BY Numbers, EmptyFacts, ApprovalAssumption DEF Init, Controller
<1>3. TypeOK
  BY <1>1, <1>2, ApprovalAssumption DEF TypeOK
<1>4. Entries(fifo) = {}
  BY <1>1, EmptyFacts DEF Entries, Waiting
<1>5. InLine(fifo, issued)
  BY <1>1, EmptyFacts DEF InLine, Null
<1>6. QueueAgrees(fifo, issued)
  BY <1>1, EmptyFacts DEF QueueAgrees, Undecided
<1>7. OutcomeAgrees(fifo, issued)
  BY <1>1 DEF OutcomeAgrees
<1>8. TimerAgrees(fifo) /\ ProjectAgrees(fifo) /\ PresenceAgrees(fifo)
  BY <1>1, Numbers DEF TimerAgrees, HeadPending, ProjectAgrees, ProjectHolds, PresenceAgrees
<1>9. HistoryAgrees /\ UnseenNeverExpires /\ RevokedNeverSpent
  BY <1>1, <1>4 DEF HistoryAgrees, UnseenNeverExpires, RevokedNeverSpent
<1> QED BY <1>2, <1>3, <1>5, <1>6, <1>7, <1>8, <1>9 DEF IInv, Sound, Orderly

\* Every step of the four parties preserves the invariant.
LEMMA NextInv == IInv /\ [Next]_vars => IInv'
<1> SUFFICES ASSUME IInv, [Next]_vars PROVE IInv'
  OBVIOUS
<1>1. CASE UNCHANGED vars
  <2>1. UNCHANGED <<fifo, issued, workOf, spent, project, presented, revoked, expired, unseen>>
    BY <1>1 DEF vars
  <2>2. Sound(fifo, issued)'
    BY <2>1, Facts DEF Sound, ProjectAgrees, ProjectHolds, PresenceAgrees
  <2>3. HistoryAgrees' /\ UnseenNeverExpires' /\ RevokedNeverSpent'
    BY <2>1 DEF IInv, HistoryAgrees, UnseenNeverExpires, RevokedNeverSpent
  <2> QED BY <2>1, <2>2, <2>3 DEF IInv, TypeOK
<1>2. ASSUME NEW w \in Work, Offer(w) PROVE IInv'
  BY <1>2, OfferStep
<1>3. ASSUME NEW e \in Approval, Consume(e) PROVE IInv'
  BY <1>3, ConsumeStep
<1>4. ASSUME NEW e \in Approval, Withdraw(e) PROVE IInv'
  BY <1>4, WithdrawStep
<1>5. ASSUME NEW e \in Approval, NEW decision \in {"accept", "decline"}, AcceptDecision(e, decision)
      PROVE  IInv'
  BY <1>5, AcceptDecisionStep
<1>6. CASE ClearConversation
  BY <1>6, ClearConversationStep
<1>7. CASE TimerFires
  BY <1>7, TimerFiresStep
<1>8. CASE Tick
  BY <1>8, TickStep
<1>9. CASE OpenProject
  BY <1>9, OpenProjectStep
<1>10. CASE SettleProject
  BY <1>10, SettleProjectStep
<1>11. CASE PublishProject
  BY <1>11, PublishProjectStep
<1>12. CASE GoAway
  BY <1>12, GoAwayStep
<1>13. CASE ComeBack
  BY <1>13, ComeBackStep
<1>14. CASE SeeCard
  BY <1>14, SeeCardStep
<1> QED BY <1>1, <1>2, <1>3, <1>4, <1>5, <1>6, <1>7, <1>8, <1>9, <1>10, <1>11, <1>12, <1>13, <1>14
        DEF Next, Asking

\* The controller stays sound through every offer, answer, drop, hold, release
\* and tick.
THEOREM InvariantHolds == Spec => []IInv
<1> QED BY InitInv, NextInv, PTL DEF Spec

\* The fields of the controller keep their types.
THEOREM TypeCorrect == Spec => []TypeOK
<1>1. IInv => TypeOK
  BY DEF IInv
<1> QED BY <1>1, InvariantHolds, PTL

\* The undecided head has the one deadline, the controller and PendingDecision
\* agree on it, and it is stopped exactly while somebody who will release it
\* parks it (hold, release, #arm, #publish).
THEOREM DeadlineRunsUnlessParkedHolds == Spec => []DeadlineRunsUnlessParked
<1>1. IInv => DeadlineRunsUnlessParked
  BY Facts DEF DeadlineRunsUnlessParked, TimerAgrees, ProjectAgrees, ProjectHolds, PresenceAgrees
<1> QED BY <1>1, InvariantHolds, PTL

\* Whose asker still waits is in the queue or is the undecided head, in the order
\* of asking (offer, #drop, #promoteNext).
THEOREM OpenIsWaitingHolds == Spec => []OpenIsWaiting
<1>1. IInv => OpenIsWaiting
  <2> SUFFICES ASSUME IInv PROVE OpenIsWaiting
    OBVIOUS
  <2> DEFINE line == <<fifo.current>> \o fifo.queue
  <2>1. /\ fifo.current \in Approval \cup {Null} /\ fifo.queue \in Seq(Approval)
        /\ InLine(fifo, issued) /\ \A k \in DOMAIN fifo.queue : fifo.queue[k] \in ToSet(fifo.queue)
    BY Facts, ControllerFields DEF ToSet
  <2>2. ASSUME NEW i \in DOMAIN line, NEW j \in DOMAIN line, i < j
        PROVE  line[i] < line[j] /\ line[i] # Null
    <3>1. /\ i \in Nat /\ j - 1 \in DOMAIN fifo.queue /\ line[j] = fifo.queue[j - 1] /\ i >= 1
      BY <2>1, <2>2
    <3>2. fifo.queue # <<>>
      BY <3>1
    <3>3. CASE i = 1
      BY <2>1, <3>1, <3>2, <3>3 DEF InLine
    <3>4. CASE i > 1
      <4>1. i - 1 \in DOMAIN fifo.queue /\ line[i] = fifo.queue[i - 1] /\ i - 1 < j - 1
        BY <2>1, <2>2, <3>1, <3>4
      <4>2. fifo.queue[i - 1] \in Approval
        BY <2>1, <4>1
      <4> QED BY <2>1, <3>1, <4>1, <4>2, Numbers DEF InLine, Increasing
    <3> QED BY <3>1, <3>3, <3>4
  <2>3. \A e \in 1..issued :
          fifo.outcome[e] = "open" <=> e \in Entries(fifo) /\ fifo.state[e] = "pending"
    BY Facts DEF OutcomeAgrees
  <2> QED BY <2>2, <2>3 DEF OpenIsWaiting
<1> QED BY <1>1, InvariantHolds, PTL

\* An approval that waited while the person was away does not run out before its
\* own card was seen (hold, release, presentation.seen).
THEOREM UnseenNeverExpiresHolds == Spec => []UnseenNeverExpires
<1>1. IInv => UnseenNeverExpires
  BY DEF IInv
<1> QED BY <1>1, InvariantHolds, PTL

\* An approval that was dropped is never spent as an acceptance (consume).
THEOREM RevokedNeverSpentHolds == Spec => []RevokedNeverSpent
<1>1. IInv => RevokedNeverSpent
  BY DEF IInv
<1> QED BY <1>1, InvariantHolds, PTL

=============================================================================
