---------------------------- MODULE HostApproval ----------------------------
(***************************************************************************)
(* The queue of executor permissions (HostApprovalController of            *)
(* core/approval.ts) with the one deadline it owns (PendingDecision of     *)
(* core/pending-decision.ts).                                              *)
(*                                                                         *)
(* A running work asks, the person answers.  One approval, the head, is    *)
(* visible and has a deadline; the others wait behind it.  Two parties     *)
(* park the head, which stops its deadline: a project confirmation that    *)
(* holds the floor, and a person who is away (background).  An approval    *)
(* that was waiting while nobody looked stays parked until its own card    *)
(* has been seen.                                                          *)
(*                                                                         *)
(* The controller is one record, so that a method is the composition of    *)
(* the private methods it calls, as in the code.  Every method ends with   *)
(* #publish, whose observer parks a head behind a project confirmation     *)
(* (syncExecutorApproval).                                                 *)
(*                                                                         *)
(* Abstracted: what is asked, session-wide acceptance (an acceptance), the *)
(* voice isolation that decides which utterance may answer, a provider     *)
(* session that is not connected, the filter of a conversation's view.     *)
(***************************************************************************)
EXTENDS Integers, Sequences, SequencesExt

CONSTANTS
  Work,       (* the running works that ask                            *)
  Capacity,   (* approvals the controller holds at a time              *)
  TTL,        (* ticks a visible approval waits                        *)
  MaxOffers   (* bound: approvals asked for in all                     *)

ASSUME ApprovalAssumption ==
  /\ Work # {} /\ Capacity \in Nat \ {0} /\ TTL \in Nat \ {0} /\ MaxOffers \in Nat

Approval == 1..MaxOffers   (* numbered in the order they are asked for *)
Null == 0                  (* no approval, or a work not known yet     *)

VARIABLES
  fifo,       (* the controller, see Controller                                    *)
  issued,     (* approvals asked for so far                                        *)
  workOf,     (* the work that asked                                               *)
  spent,      (* what the transport answered its executor: "none" until it did     *)
  project,    (* project confirmation: "none", "pending" (or committing), "over"   *)
              (* (settled or expired, its view not yet published)                  *)
  presented,  (* the presentation mode is not "background"                         *)
  (* history, read by properties only                                              *)
  revoked,    (* approvals dropped                                                 *)
  expired,    (* approvals dropped because their time was over                     *)
  unseen      (* approvals that waited while the person was away, card not seen    *)

vars == <<fifo, issued, workOf, spent, project, presented, revoked, expired, unseen>>

Controller ==
  [current  : Approval \cup {Null},          (* the head                           *)
   queue    : Seq(Approval),
   holds    : SUBSET {"project", "background"},
   left     : 0..TTL,                        (* ticks to the head's expiresAt      *)
   timer    : [of : Approval \cup {Null}, held : BOOLEAN, left : 0..TTL],
                                             (* PendingDecision.#current           *)
   state    : [Approval -> {"pending", "responding"}],
   held     : [Approval -> BOOLEAN],
   awaiting : [Approval -> BOOLEAN],         (* awaitingPresentation               *)
   outcome  : [Approval -> {"open", "accept", "decline"}]]   (* offer()'s promise  *)

NoTimer == [of |-> Null, held |-> FALSE, left |-> 0]

Init ==
  /\ fifo = [current |-> Null, queue |-> <<>>, holds |-> {}, left |-> 0, timer |-> NoTimer,
             state |-> [e \in Approval |-> "pending"],
             held |-> [e \in Approval |-> FALSE], awaiting |-> [e \in Approval |-> FALSE],
             outcome |-> [e \in Approval |-> "open"]]
  /\ issued = 0 /\ workOf = [e \in Approval |-> Null]
  /\ spent = [e \in Approval |-> "none"]
  /\ project = "none" /\ presented = TRUE
  /\ revoked = {} /\ expired = {} /\ unseen = {}

Waiting(b) == {b.current} \cup ToSet(b.queue)
Entries(b) == Waiting(b) \ {Null}
HeadPending(b) == b.current # Null /\ b.state[b.current] = "pending"
HeadExpired(b) == HeadPending(b) /\ ~b.held[b.current] /\ b.left = 0

\* The queue once e has been spliced out of it (#drop's indexOf).
Without(queue, e) == RemoveAt(queue, CHOOSE i \in DOMAIN queue : queue[i] = e)

-----------------------------------------------------------------------------
(* PendingDecision and the private methods. *)

\* hold: the sleeping wait is aborted.
StopTimer(b, e) ==
  IF b.timer.of = e THEN [b EXCEPT !.timer.held = TRUE] ELSE b

\* consume
DropTimer(b, e) == IF b.timer.of = e THEN [b EXCEPT !.timer = NoTimer] ELSE b

\* #arm, with PendingDecision.offer: a head starts with a full TTL, parked if
\* anything holds.
Arm(b, e) ==
  LET armed == [b EXCEPT !.left = TTL,
                         !.timer = [of |-> e, held |-> FALSE, left |-> TTL]]
  IN IF b.holds # {} \/ b.awaiting[e]
     THEN StopTimer([armed EXCEPT !.held[e] = TRUE], e)
     ELSE armed

Promote(b, e) == Arm([b EXCEPT !.current = e], e)

PromoteNext(b) ==
  IF b.queue = <<>> THEN b ELSE Promote([b EXCEPT !.queue = Tail(@)], Head(b.queue))

ParkHeadOnly(b, reason) ==   \* seeded fault: going away leaves the queue as it was
  LET c == [b EXCEPT !.holds = @ \cup {reason},
                     !.awaiting = [e \in Approval |->
                        @[e] \/ (reason = "background" /\ e = b.current)]]
  IN IF HeadPending(b) THEN StopTimer([c EXCEPT !.held[b.current] = TRUE], b.current) ELSE c

\* The body of hold, for a head whose time is not over.
Park(b, reason) ==
  LET c == [b EXCEPT !.holds = @ \cup {reason},
                     !.awaiting = [e \in Approval |->
                        @[e] \/ (reason = "background" /\ e \in Entries(b))]]
  IN IF HeadPending(b) THEN StopTimer([c EXCEPT !.held[b.current] = TRUE], b.current) ELSE c

\* #publish as the host sees it: a head is parked while a project confirmation
\* is pending.  That head has only just become one: its time is not over.
Publish(b) ==
  IF project = "pending" /\ HeadPending(b) /\ "project" \notin b.holds
  THEN Park(b, "project") ELSE b

DropKeepsHold(b, e) ==   \* seeded fault: a dropped head leaves its project hold behind
  IF e \notin Entries(b) THEN b
  ELSE LET removed == IF b.current = e
                      THEN PromoteNext([b EXCEPT !.current = Null])
                      ELSE [b EXCEPT !.queue = Without(@, e)]
           settled == IF b.state[e] = "pending"
                      THEN [DropTimer(removed, e) EXCEPT !.outcome[e] = "decline"]
                      ELSE DropTimer(removed, e)
       IN Publish(settled)

DropUndecided(b, e) ==   \* seeded fault: the asker of a dropped approval is not told
  IF e \notin Entries(b) THEN b
  ELSE Publish(DropTimer(
         IF b.current = e
         THEN PromoteNext([b EXCEPT !.current = Null, !.holds = @ \ {"project"}])
         ELSE [b EXCEPT !.queue = Without(@, e)], e))

\* #drop: wherever the entry sits; one still undecided is declined.
Drop(b, e) ==
  IF e \notin Entries(b) THEN b
  ELSE LET removed == IF b.current = e
                      THEN PromoteNext([b EXCEPT !.current = Null,
                                                 !.holds = @ \ {"project"}])
                      ELSE [b EXCEPT !.queue = Without(@, e)]
           settled == IF b.state[e] = "pending"
                      THEN [DropTimer(removed, e) EXCEPT !.outcome[e] = "decline"]
                      ELSE DropTimer(removed, e)
       IN Publish(settled)

\* hold: a head whose time is over is dropped first.
Hold(b, reason) ==
  LET c == IF HeadExpired(b) THEN Drop(b, b.current) ELSE b
  IN IF reason \in b.holds \/ (b.current = Null /\ reason = "project") THEN b
     ELSE IF reason \in c.holds \/ (c.current = Null /\ reason = "project") THEN c
     ELSE Publish(Park(c, reason))

\* release: un-parked, with a full TTL, once nobody holds and the card was seen.
Release(b, reason, awaitPresentation) ==
  LET e == b.current
      c == [b EXCEPT !.holds = @ \ {reason},
                     !.awaiting = [x \in Approval |->
                        @[x] /\ ~(reason = "background" /\ x = e /\ ~awaitPresentation)]]
  IN IF reason \notin b.holds /\ ~(reason = "background" /\ e # Null /\ b.awaiting[e])
     THEN b
     ELSE IF c.holds = {} /\ HeadPending(c) /\ c.held[e] /\ ~c.awaiting[e]
     THEN Publish([c EXCEPT !.held[e] = FALSE, !.left = TTL,
                            !.timer = [of |-> e, held |-> FALSE, left |-> TTL]])
     ELSE c

-----------------------------------------------------------------------------
(* The executors' side. *)

\* offer: beyond the capacity, or while the same work already waits, it is
\* declined at once.
Offer(w) ==
  LET e == issued + 1
      b == [fifo EXCEPT !.awaiting[e] = "background" \in fifo.holds]
  IN /\ e \in Approval
     /\ Len(fifo.queue) + (IF fifo.current = Null THEN 0 ELSE 1) < Capacity
     /\ \A x \in Entries(fifo) : workOf[x] # w
     /\ issued' = e
     /\ workOf' = [workOf EXCEPT ![e] = w]
     /\ fifo' = Publish(IF b.current = Null THEN Promote(b, e)
                        ELSE [b EXCEPT !.queue = Append(@, e)])
     /\ unseen' = IF presented THEN unseen ELSE unseen \cup {e}
     /\ UNCHANGED <<spent, project, presented, revoked, expired>>

ConsumeStale(e) ==   \* seeded fault: an accepted answer is honoured whenever it arrives
  /\ e <= issued /\ fifo.outcome[e] # "open" /\ spent[e] = "none"
  /\ spent' = [spent EXCEPT ![e] = fifo.outcome[e]]
  /\ fifo' = IF fifo.current = e /\ fifo.state[e] = "responding"
             THEN Publish(PromoteNext([DropTimer(fifo, e) EXCEPT
                            !.current = Null, !.holds = @ \ {"project"}]))
             ELSE fifo
  /\ UNCHANGED <<issued, workOf, project, presented, revoked, expired, unseen>>

\* consume: the transport spends the answer it was given, if it still is the
\* head's; any other answer is a refusal.
Consume(e) ==
  /\ e <= issued /\ fifo.outcome[e] # "open" /\ spent[e] = "none"
  /\ IF fifo.current = e /\ fifo.state[e] = "responding"
     THEN /\ spent' = [spent EXCEPT ![e] = fifo.outcome[e]]
          /\ fifo' = Publish(PromoteNext([DropTimer(fifo, e) EXCEPT
                               !.current = Null, !.holds = @ \ {"project"}]))
     ELSE spent' = [spent EXCEPT ![e] = "decline"] /\ UNCHANGED fifo
  /\ UNCHANGED <<issued, workOf, project, presented, revoked, expired, unseen>>

\* An entry is dropped: its signal aborts or its work's turn ends
\* (invalidateWork), or, as the head, its provider session is gone (invalidate).
Withdraw(e) ==
  /\ e \in Entries(fifo)
  /\ fifo' = Drop(fifo, e)
  /\ revoked' = revoked \cup {e}
  /\ UNCHANGED <<issued, workOf, spent, project, presented, expired, unseen>>

\* Head after head is dropped, n of them.
Dropped(b, n) ==
  LET left[i \in 0..n] == IF i = 0 THEN b ELSE Drop(left[i - 1], left[i - 1].current)
  IN left[n]

\* A cleared conversation cancels its project confirmation, then drops head
\* after head while there is one (clearConversation of realtime/service.ts).
ClearConversation ==
  /\ fifo.current # Null
  /\ fifo' = Dropped(fifo, 1 + Len(fifo.queue))
  /\ revoked' = revoked \cup Entries(fifo)
  /\ project' = "none"
  /\ UNCHANGED <<issued, workOf, spent, presented, expired, unseen>>

-----------------------------------------------------------------------------
(* The deadline. *)

Expire(e) ==
  /\ fifo' = Drop(DropTimer(fifo, e), e)
  /\ revoked' = revoked \cup {e} /\ expired' = expired \cup {e}

TimerFires ==
  /\ fifo.timer.of # Null /\ ~fifo.timer.held /\ fifo.timer.left = 0
  /\ Expire(fifo.timer.of)
  /\ UNCHANGED <<issued, workOf, spent, project, presented, unseen>>

TickBelowZero ==   \* seeded fault: a deadline is read as a difference that may be negative
  /\ fifo.left > 0 \/ fifo.timer.left > 0
  /\ fifo' = [fifo EXCEPT !.left = @ - 1, !.timer.left = @ - 1]
  /\ UNCHANGED <<issued, workOf, spent, project, presented, revoked, expired, unseen>>

\* A timer may fire late: time does not wait for it.
Tick ==
  /\ fifo.left > 0 \/ fifo.timer.left > 0
  /\ fifo' = [fifo EXCEPT !.left = IF @ > 0 THEN @ - 1 ELSE 0,
                          !.timer.left = IF @ > 0 THEN @ - 1 ELSE 0]
  /\ UNCHANGED <<issued, workOf, spent, project, presented, revoked, expired, unseen>>

-----------------------------------------------------------------------------
(* The person and the host. *)

\* acceptDecision for the card of approval e.  One that is no longer the head's
\* changes nothing; one that comes too late drops the head.
AcceptDecision(e, decision) ==
  /\ e = fifo.current /\ HeadPending(fifo)
  /\ IF HeadExpired(fifo)
     THEN Expire(e)
     ELSE /\ fifo' = Publish([DropTimer(fifo, e) EXCEPT !.state[e] = "responding",
                                                        !.outcome[e] = decision])
          /\ UNCHANGED <<revoked, expired>>
  /\ UNCHANGED <<issued, workOf, spent, project, presented, unseen>>

\* The head an expired-then-parked call of hold drops counts as expired.
HoldFor(reason) ==
  /\ fifo' = Hold(fifo, reason)
  /\ LET gone == IF HeadExpired(fifo) /\ fifo'.current # fifo.current THEN {fifo.current} ELSE {}
     IN revoked' = revoked \cup gone /\ expired' = expired \cup gone
  /\ UNCHANGED <<issued, workOf, spent>>

\* A proposal opens (syncProjectConfirmationIsolation).
OpenProject ==
  /\ project # "pending" /\ project' = "pending"
  /\ HoldFor("project")
  /\ UNCHANGED <<presented, unseen>>

SettleProject ==
  /\ project = "pending" /\ project' = "over"
  /\ UNCHANGED <<fifo, issued, workOf, spent, presented, revoked, expired, unseen>>

\* #publishProjectView once the confirmation is over.
PublishProject ==
  /\ project = "over" /\ project' = "none"
  /\ fifo' = IF fifo.current = Null THEN fifo ELSE Release(fifo, "project", FALSE)
  /\ UNCHANGED <<issued, workOf, spent, presented, revoked, expired, unseen>>

\* The renderer goes to the background, or its connection drops.
GoAway ==
  /\ presented /\ presented' = FALSE
  /\ HoldFor("background")
  /\ unseen' = unseen \cup Entries(fifo')
  /\ UNCHANGED project

ComeBack ==
  /\ ~presented /\ presented' = TRUE
  /\ fifo' = Release(fifo, "background", TRUE)
  /\ UNCHANGED <<issued, workOf, spent, project, revoked, expired, unseen>>

\* presentation.seen for the card that is shown.
SeeCard ==
  /\ presented /\ fifo.current # Null
  /\ fifo' = Release(fifo, "background", FALSE)
  /\ unseen' = unseen \ {fifo.current}
  /\ UNCHANGED <<issued, workOf, spent, project, presented, revoked, expired>>

-----------------------------------------------------------------------------
\* The executors, the time and the person's answers.
Asking ==
  \/ \E w \in Work : Offer(w)
  \/ \E e \in Approval :
       \/ Consume(e) \/ Withdraw(e)
       \/ \E decision \in {"accept", "decline"} : AcceptDecision(e, decision)
  \/ ClearConversation \/ TimerFires \/ Tick
  \/ OpenProject \/ SettleProject \/ PublishProject

Next == Asking \/ GoAway \/ ComeBack \/ SeeCard

Spec == Init /\ [][Next]_vars

-----------------------------------------------------------------------------
(* The values the state takes. *)
TypeOK ==
  /\ fifo \in Controller
  /\ issued \in 0..MaxOffers /\ workOf \in [Approval -> Work \cup {Null}]
  /\ spent \in [Approval -> {"none", "accept", "decline"}]
  /\ project \in {"none", "pending", "over"} /\ presented \in BOOLEAN
  /\ revoked \subseteq Approval /\ expired \subseteq Approval /\ unseen \subseteq Approval

\* Through every hold, release and change of head: the undecided head, and
\* nothing else, has a deadline; the controller and the timer agree on it; and
\* it is stopped exactly while someone who will release it parks it, always
\* while a project confirmation is pending.
DeadlineRunsUnlessParked ==
  LET e == fifo.current IN
  IF HeadPending(fifo)
  THEN /\ fifo.timer = [of |-> e, held |-> fifo.held[e], left |-> fifo.left]
       /\ fifo.held[e] <=> fifo.holds # {} \/ fifo.awaiting[e]
       /\ project = "pending" => "project" \in fifo.holds
       /\ "project" \in fifo.holds => project # "none"
       /\ "background" \in fifo.holds <=> ~presented
  ELSE fifo.timer.of = Null

\* No request is lost or answered twice: one whose asker still waits for an
\* answer is in the queue or is the undecided head, and the queue is in the
\* order of asking (offer, #drop, #promoteNext).
OpenIsWaiting ==
  /\ \A e \in 1..issued :
       fifo.outcome[e] = "open" <=>
         e \in Entries(fifo) /\ fifo.state[e] = "pending"
  /\ LET line == <<fifo.current>> \o fifo.queue IN
       \A i, j \in DOMAIN line : i < j => line[i] < line[j] /\ line[i] # Null

\* An approval that was waiting while the person was away is never dropped for
\* lack of time before its own card was seen.
UnseenNeverExpires == expired \cap unseen = {}

\* An approval that was dropped, though already accepted, is never spent as an
\* acceptance (consume).
RevokedNeverSpent == \A e \in revoked : spent[e] # "accept"
=============================================================================
