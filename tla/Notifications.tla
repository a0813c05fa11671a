--------------------------- MODULE Notifications ---------------------------
(***************************************************************************)
(* The outbox of proactive messages (NotificationService of                *)
(* notifications/service.ts) with the part of the personal agent that      *)
(* feeds it: the intents committed with a feed item, the relay that admits *)
(* them and then dispatches (flushNotifications), the dismissal of the     *)
(* item, and the validity check before every part.                         *)
(*                                                                         *)
(* One feed item is revised and perhaps dismissed; a message is one of its *)
(* revisions.  All messages of an item share the coalescing key and the    *)
(* source, so a newer one supersedes an older one that is not uncertain.   *)
(* A message has at most one delivery that is not superseded: a successor  *)
(* is made only in the step that supersedes the one before.  The state     *)
(* keeps that last delivery; the route revision tells it from the others.  *)
(*                                                                         *)
(* Failures covered: a crash at any step, a write that fails before or     *)
(* after the file was replaced (BoundedJsonStore.write: the directory sync *)
(* comes after the rename), every outcome of an adapter.                   *)
(* Left out: the legacy second route, capacity, pruning, back-off times (a *)
(* delivery that waits for its time may be skipped by a pass), the status  *)
(* of a binding (an unavailable one answers like an unavailable channel).  *)
(***************************************************************************)
EXTENDS Integers, FiniteSets

CONSTANTS
  Revisions,   (* bound: revisions of the feed item                      *)
  Parts,       (* parts the IM adapter prepares for a message            *)
  MaxRoutes,   (* bound: explicit choices of a primary channel           *)
  MaxAccounts, (* bound: changes of the account behind the IM channel    *)
  MaxConfirms, (* bound: resends of an unknown delivery the user confirms *)
  MaxFaults    (* bound: failed writes and crashes                       *)

ASSUME NotificationsAssumption ==
  /\ Revisions \in Nat \ {0} /\ Parts \in Nat \ {0}
  /\ {MaxRoutes, MaxAccounts, MaxConfirms, MaxFaults} \subseteq Nat

Message == 1..Revisions
Binding == {"nova", "im"}
Route   == 0..MaxRoutes

VARIABLES
  state,     (* #state: what the service believes                             *)
  disk,      (* .notifications.json                                           *)
  relay,     (* the run of flushNotifications, with the #deliver under way    *)
  feed,      (* the item in PersonalStore, its intents, a dismissal under way *)
  faults,    (* failed writes and crashes so far                              *)
  (* history, read by properties only                                         *)
  landed,    (* sends the channel may have accepted, by message, part, binding *)
  confirms   (* resends of an unknown delivery the user confirmed             *)

vars == <<state, disk, relay, feed, faults, landed, confirms>>

Ended    == {"accepted", "cancelled", "expired", "superseded"}   (* terminal *)
Waiting  == {"pending", "retry_wait", "blocked"}
Status   == Ended \cup Waiting \cup {"none", "sending", "unknown"}

Delivery == [status : Status, route : Route, binding : Binding, account : 0..MaxAccounts,
             prepared : BOOLEAN, receipts : 0..Parts, invalidated : BOOLEAN]
NoDelivery == [status |-> "none", route |-> 0, binding |-> "nova", account |-> 0,
               prepared |-> FALSE, receipts |-> 0, invalidated |-> FALSE]

(* #state: parts get their receipts in order, the count is enough. *)
Outbox == [primary : Binding, route : Route, account : 0..MaxAccounts,
           deliveries : [Message -> Delivery]]

(* admit: publish the next of "todo"; clear: wait to delete its intent;     *)
(* dispatch: take the next of "ids"; probe: ask the adapter; check: ask     *)
(* whether the message is still valid; claim: it was; send: request out.    *)
Relay == [pc : {"idle", "admit", "clear", "dispatch", "probe", "check", "claim", "send"},
          todo : SUBSET Message, ids : SUBSET (Message \X Route),
          message : Message \cup {0}, route : Route]
Idle == [pc |-> "idle", todo |-> {}, ids |-> {}, message |-> 0, route |-> 0]

(* A fresh profile, or one whose user chose a channel before: its revision   *)
(* counts from there.                                                        *)
Init ==
  /\ \E b \in Binding : state = [primary |-> b, route |-> 0, account |-> 0,
              deliveries |-> [m \in Message |-> NoDelivery]]
  /\ disk = state
  /\ relay = Idle
  /\ feed = [revision |-> 0, dismissed |-> FALSE, dismissing |-> FALSE, intents |-> {}]
  /\ faults = 0
  /\ landed = [m \in Message |-> [p \in 1..Parts |-> [b \in Binding |-> 0]]]
  /\ confirms = [m \in Message |-> 0]

-----------------------------------------------------------------------------
(* The serialized transactions on #state. *)

\* #mutate: the file first, then the memory.  Nothing is written when nothing changed.
Saved(next) == state' = next /\ disk' = (IF next = state THEN disk ELSE next) /\ UNCHANGED faults

\* The write failed: the caller is told so, the file is the old or the new one.
Unsaved(next) ==
  /\ next # state /\ faults < MaxFaults /\ faults' = faults + 1
  /\ UNCHANGED state /\ disk' \in {disk, next}

Uncertain(d) == d.status \in {"sending", "unknown"} \/ d.receipts > 0
Movable(d) == d.status \notin Ended \cup {"none"} /\ ~Uncertain(d)
PartsOf(d) == IF d.binding = "nova" THEN 1 ELSE Parts   \* prepare of the two adapters
AccountOf(s, b) == IF b = "nova" THEN 0 ELSE s.account
SameAccount(s, d) == AccountOf(s, d.binding) = d.account

Enqueued(s, b) ==
  [NoDelivery EXCEPT !.status = "pending", !.route = s.route, !.binding = b,
                     !.account = AccountOf(s, b)]

Change(s, m, d) == [s EXCEPT !.deliveries[m] = d]

\* #erase; a request that is out, or of unknown fate, keeps its status.
Erase(d) ==
  IF d.status = "none" THEN d
  ELSE [d EXCEPT !.invalidated = TRUE, !.status = IF @ \in Waiting THEN "cancelled" ELSE @]

\* #finish, for the delivery the run works on.
Finish(s, m, r, status) ==
  IF s.deliveries[m].route # r \/ s.deliveries[m].status \in Ended THEN s
  ELSE [s EXCEPT !.deliveries[m].status = status]

MoveEverything(s, b) ==   \* seeded fault: a delivery of unknown fate moves to the new route
  LET t == [s EXCEPT !.primary = b, !.route = @ + 1] IN
  [t EXCEPT !.deliveries = [m \in Message |->
     LET d == s.deliveries[m] IN
     IF d.status \notin Waiting \cup {"unknown"} \/ d.receipts > 0 THEN d
     ELSE IF ~SameAccount(s, d) THEN [d EXCEPT !.status = "blocked"]
     ELSE Enqueued(t, b)]]

\* The transaction of configure: what is certainly unsent moves to the new route.
Move(s, b) ==
  LET t == [s EXCEPT !.primary = b, !.route = @ + 1] IN
  [t EXCEPT !.deliveries = [m \in Message |->
     LET d == s.deliveries[m] IN
     IF ~Movable(d) THEN d
     ELSE IF ~SameAccount(s, d) THEN [d EXCEPT !.status = "blocked"]
     ELSE IF d.invalidated THEN [d EXCEPT !.status = "superseded"]
     ELSE Enqueued(t, b)]]

\* The transaction of publish: dedupe, supersede, enqueue on the primary route.
Admit(s, m) ==
  IF s.deliveries[m].status # "none" THEN s
  ELSE [s EXCEPT !.deliveries = [n \in Message |->
          IF n = m THEN Enqueued(s, s.primary)
          ELSE IF Movable(s.deliveries[n])
               THEN [s.deliveries[n] EXCEPT !.status = "superseded"]
               ELSE s.deliveries[n]]]

-----------------------------------------------------------------------------
(* The feed item.  The host serializes its commits; a dismissal is under    *)
(* way from the invalidation of the outbox to the write of PersonalStore.   *)

\* #commit of a revision: the intent is written with the item.
Revise ==
  /\ ~feed.dismissing /\ ~feed.dismissed /\ feed.revision < Revisions
  /\ feed' = [feed EXCEPT !.revision = @ + 1, !.intents = @ \cup {feed.revision + 1}]
  /\ UNCHANGED <<state, disk, relay, faults, landed, confirms>>

\* #commit of a dismissal, up to the awaited invalidate.
Invalidate ==
  LET next == [state EXCEPT !.deliveries = [m \in Message |-> Erase(state.deliveries[m])]] IN
  /\ ~feed.dismissing /\ ~feed.dismissed /\ feed.revision > 0
  /\ \/ Saved(next) /\ feed' = [feed EXCEPT !.dismissing = TRUE]
     \/ Unsaved(next) /\ UNCHANGED feed
  /\ UNCHANGED <<relay, landed, confirms>>

\* ... and its end: the write of PersonalStore, which may fail.
CommitDismissal ==
  /\ feed.dismissing
  /\ \/ /\ feed' = [feed EXCEPT !.dismissing = FALSE, !.dismissed = TRUE, !.intents = {}]
        /\ UNCHANGED faults
     \/ /\ faults < MaxFaults /\ faults' = faults + 1
        /\ feed' = [feed EXCEPT !.dismissing = FALSE]
  /\ UNCHANGED <<state, disk, relay, landed, confirms>>

-----------------------------------------------------------------------------
(* What the user does in the settings. *)

Configure(b) ==
  /\ ~feed.dismissing /\ state.route < MaxRoutes
  /\ Saved(Move(state, b)) \/ Unsaved(Move(state, b))
  /\ UNCHANGED <<relay, feed, landed, confirms>>

\* bind, with the next generation of the IM account.
Bind ==
  LET next == [state EXCEPT !.account = @ + 1] IN
  /\ state.account < MaxAccounts
  /\ Saved(next) \/ Unsaved(next)
  /\ UNCHANGED <<relay, feed, landed, confirms>>

\* retry; of an unknown delivery only when the user confirms the duplicate.
Retry(m) ==
  LET d == state.deliveries[m]
      next == [state EXCEPT !.deliveries[m].status = "pending"]
  IN /\ ~d.invalidated /\ d.status \in Waiting \cup {"unknown"}
     /\ d.status = "unknown" => confirms[m] < MaxConfirms
     /\ Saved(next) \/ Unsaved(next)
     /\ confirms' = [confirms EXCEPT ![m] = IF d.status = "unknown" THEN @ + 1 ELSE @]
     /\ UNCHANGED <<relay, feed, landed>>

-----------------------------------------------------------------------------
(* flushNotifications: admit every intent, then dispatch; again while there *)
(* are intents.  A failure ends the run, the timer starts another.          *)

\* The run goes on at "next" when the transaction is saved, else it ends.
Then(s, next) == \/ Saved(s) /\ relay' = next
                 \/ Unsaved(s) /\ relay' = Idle

Flush ==
  /\ relay.pc = "idle"
  /\ relay' = [Idle EXCEPT !.pc = "admit", !.todo = feed.intents]
  /\ UNCHANGED <<state, disk, feed, faults, landed, confirms>>

PublishUnchecked ==   \* seeded fault: a failed publication is taken for a done one
  /\ relay.pc = "admit"
  /\ \E m \in relay.todo :
     /\ \A n \in relay.todo : m <= n
     /\ Saved(Admit(state, m)) \/ Unsaved(Admit(state, m))
     /\ relay' = [relay EXCEPT !.pc = "clear", !.message = m, !.todo = @ \ {m}]
  /\ UNCHANGED <<feed, landed, confirms>>

\* The oldest intent first: the intents of an item keep their order.
PublishIntent ==
  /\ relay.pc = "admit"
  /\ \E m \in relay.todo :
     /\ \A n \in relay.todo : m <= n
     /\ Then(Admit(state, m), [relay EXCEPT !.pc = "clear", !.message = m, !.todo = @ \ {m}])
  /\ UNCHANGED <<feed, landed, confirms>>

ClearUnserialized ==   \* seeded fault: the intent is deleted beside a commit under way
  /\ relay.pc = "clear"
  /\ feed' = [feed EXCEPT !.intents = @ \ {relay.message}]
  /\ relay' = [relay EXCEPT !.pc = "admit", !.message = 0]
  /\ UNCHANGED <<state, disk, faults, landed, confirms>>

\* The intent is deleted in a commit of its own, after the one under way.
ClearIntent ==
  /\ relay.pc = "clear" /\ ~feed.dismissing
  /\ feed' = [feed EXCEPT !.intents = @ \ {relay.message}]
  /\ relay' = [relay EXCEPT !.pc = "admit", !.message = 0]
  /\ UNCHANGED <<state, disk, faults, landed, confirms>>

Dispatch ==
  /\ relay.pc = "admit" /\ relay.todo = {}
  /\ relay' = [relay EXCEPT !.pc = "dispatch",
        !.ids = {<<m, state.deliveries[m].route>> :
                   m \in {n \in Message : state.deliveries[n].status \in Waiting}}]
  /\ UNCHANGED <<state, disk, feed, faults, landed, confirms>>

\* The pass is over: more intents, or the run ends.
PassOver ==
  /\ relay.pc = "dispatch" /\ relay.ids = {}
  /\ relay' = IF feed.intents = {} THEN Idle
              ELSE [Idle EXCEPT !.pc = "admit", !.todo = feed.intents]
  /\ UNCHANGED <<state, disk, feed, faults, landed, confirms>>

-----------------------------------------------------------------------------
(* #deliver *)

\* notificationValidity, but for the quiet hours: dismissed or revised since.
Obsolete(m) == feed.dismissed \/ m # feed.revision

Superseded(s) == s.deliveries[relay.message].route # relay.route
Current == state.deliveries[relay.message]
NextId == [relay EXCEPT !.pc = "dispatch", !.message = 0, !.route = 0]
At(pc) == [relay EXCEPT !.pc = pc]

Deliverable(m, r) ==
  LET d == state.deliveries[m] IN d.route = r /\ ~d.invalidated /\ d.status \in Waiting

\* The delivery changed since the pass began, its time has not come, or it is
\* deferred (quiet hours).
Skip(m, r) ==
  /\ relay.pc = "dispatch" /\ <<m, r>> \in relay.ids
  /\ relay' = [relay EXCEPT !.ids = @ \ {<<m, r>>}]
  /\ UNCHANGED <<state, disk, feed, faults, landed, confirms>>

\* Expired, invalid, bound to another account, or on to the adapter.
Take(m, r) ==
  LET rest == [relay EXCEPT !.ids = @ \ {<<m, r>>}] IN
  /\ relay.pc = "dispatch" /\ <<m, r>> \in relay.ids /\ Deliverable(m, r)
  /\ \/ Then(Finish(state, m, r, "expired"), rest)
     \/ /\ Obsolete(m)
        /\ Then(Change(state, m, Erase(state.deliveries[m])), rest)
     \/ /\ ~Obsolete(m) /\ ~SameAccount(state, state.deliveries[m])
        /\ Then(Finish(state, m, r, "blocked"), rest)
     \/ /\ ~Obsolete(m) /\ SameAccount(state, state.deliveries[m])
        /\ Saved(state)
        /\ relay' = [rest EXCEPT !.pc = "probe", !.message = m, !.route = r]
  /\ UNCHANGED <<feed, landed, confirms>>

\* inspect and prepare (Nova's own always succeed): the channel or the content is
\* not usable, or the parts are frozen unless the delivery was given up meanwhile.
Probe(usable) ==
  LET m == relay.message
      frozen == IF Superseded(state) \/ Current.invalidated \/ Current.status = "superseded"
                THEN state ELSE [state EXCEPT !.deliveries[m].prepared = TRUE]
  IN /\ relay.pc = "probe"
     /\ Current.binding = "nova" /\ ~Superseded(state) => usable
     /\ IF usable THEN Then(frozen, At("check"))
                  ELSE Then(Finish(state, m, relay.route, "blocked"), NextId)
     /\ UNCHANGED <<feed, landed, confirms>>

\* The head of the loop: given up, expired, invalid, deferred, or still valid.
Check(answer) ==
  LET m == relay.message IN
  /\ relay.pc = "check"
  /\ \/ /\ answer = "stop" /\ (Superseded(state) \/ Current.invalidated)
        /\ Saved(state) /\ relay' = NextId
     \/ /\ answer = "expired" /\ Then(Finish(state, m, relay.route, "expired"), NextId)
     \/ /\ answer = "invalid" /\ Obsolete(m) /\ ~Superseded(state)
        /\ Then(Change(state, m, Erase(Current)), NextId)
     \/ /\ answer = "defer" /\ ~Obsolete(m) /\ Saved(state) /\ relay' = NextId
     \/ /\ answer = "valid" /\ ~Obsolete(m) /\ ~Superseded(state) /\ ~Current.invalidated
        /\ Saved(state) /\ relay' = At("claim")
  /\ UNCHANGED <<feed, landed, confirms>>

\* The claim's transaction, by what it finds.
Claimed(s) ==
  LET m == relay.message
      d == s.deliveries[m]
  IN IF Superseded(s) \/ d.invalidated \/ d.status \notin Waiting THEN s
     ELSE IF ~SameAccount(s, d) THEN [s EXCEPT !.deliveries[m].status = "blocked"]
     ELSE IF d.route # s.route /\ ~Uncertain(d)
          THEN [s EXCEPT !.deliveries[m].status = "superseded"]
     ELSE IF d.receipts = PartsOf(d) THEN [s EXCEPT !.deliveries[m].status = "accepted"]
     ELSE [s EXCEPT !.deliveries[m].status = "sending"]

\* The claim is on disk before the part is sent; from here on it may be accepted.
Claim ==
  LET m == relay.message
      next == Claimed(state)
  IN /\ relay.pc = "claim"
     /\ IF ~Superseded(next) /\ next.deliveries[m].status = "sending"
        THEN \/ /\ Saved(next) /\ relay' = At("send")
                /\ landed' = [landed EXCEPT ![m][Current.receipts + 1][Current.binding] = @ + 1]
             \/ Unsaved(next) /\ relay' = Idle /\ UNCHANGED landed
        ELSE Then(next, NextId) /\ UNCHANGED landed
     /\ UNCHANGED <<feed, confirms>>

OutcomeOfAny(s, m, kind) ==   \* seeded fault: one receipt is taken for all of them
  LET d == s.deliveries[m] IN
  CASE kind = "accepted" ->
         Change(s, m, [d EXCEPT !.receipts = @ + 1, !.status = "accepted"])
    [] kind = "retryable" -> Change(s, m, [d EXCEPT !.status = "retry_wait"])
    [] OTHER -> Change(s, m, [d EXCEPT !.status = kind])

\* What the outcome of a send makes of the delivery.
Outcome(s, m, kind) ==
  LET d == s.deliveries[m] IN
  CASE kind = "accepted" ->
         Change(s, m, [d EXCEPT !.receipts = @ + 1,
           !.status = IF d.receipts + 1 = PartsOf(d) THEN "accepted"
                      ELSE IF d.invalidated THEN "cancelled" ELSE "pending"])
    [] kind = "retryable" ->
         IF d.invalidated THEN Change(s, m, [d EXCEPT !.status = "cancelled"])
         ELSE IF d.route = s.route \/ d.receipts > 0
              THEN Change(s, m, [d EXCEPT !.status = "retry_wait"])
         ELSE IF ~SameAccount(s, d) THEN Change(s, m, [d EXCEPT !.status = "blocked"])
         ELSE Change(s, m, Enqueued(s, s.primary))
    [] OTHER -> Change(s, m, [d EXCEPT !.status = kind])

\* Nova presents the message, finds that it is no longer the route, or fails.
Outcomes ==
  IF Current.binding = "im" THEN {"accepted", "retryable", "blocked", "unknown"}
  ELSE {"accepted", "unknown"} \cup (IF state.route # Current.route THEN {"retryable"} ELSE {})

\* The request ends and its outcome is saved.  A retryable or blocked one was
\* certainly not accepted.  If saving fails the delivery becomes unknown, if that
\* can be saved.
Send(kind) ==
  LET m == relay.message
      next == Outcome(state, m, kind)
      lost == [state EXCEPT !.deliveries[m].status = "unknown"]
  IN /\ relay.pc = "send" /\ kind \in Outcomes
     /\ \/ /\ Saved(next)
           /\ relay' = IF next.deliveries[m].status = "pending" /\ kind = "accepted"
                       THEN At("check") ELSE NextId
        \/ /\ faults < MaxFaults /\ faults' = faults + 1
           /\ state' = lost /\ disk' = lost /\ relay' = NextId
        \/ /\ faults + 1 < MaxFaults /\ faults' = faults + 2
           /\ UNCHANGED state /\ disk' \in {disk, next, lost} /\ relay' = NextId
     /\ landed' = IF kind \in {"retryable", "blocked"}
                  THEN [landed EXCEPT ![m][Current.receipts + 1][Current.binding] = @ - 1]
                  ELSE landed
     /\ UNCHANGED <<feed, confirms>>

-----------------------------------------------------------------------------
\* open: a send that was interrupted may have arrived.
Open(s) ==
  [s EXCEPT !.deliveries = [m \in Message |->
     IF s.deliveries[m].status = "sending"
     THEN [s.deliveries[m] EXCEPT !.status = "unknown"] ELSE s.deliveries[m]]]

\* The process ends and is started again.
Restart ==
  /\ faults < MaxFaults /\ faults' = faults + 1
  /\ state' = Open(disk) /\ disk' = Open(disk)
  /\ relay' = Idle /\ feed' = [feed EXCEPT !.dismissing = FALSE]
  /\ UNCHANGED <<landed, confirms>>

Deliver ==
  \/ \E m \in Message, r \in Route : Skip(m, r) \/ Take(m, r)
  \/ \E usable \in BOOLEAN : Probe(usable)
  \/ \E answer \in {"stop", "expired", "invalid", "defer", "valid"} : Check(answer)
  \/ Claim
  \/ \E kind \in {"accepted", "retryable", "blocked", "unknown"} : Send(kind)

Next ==
  \/ Revise \/ Invalidate \/ CommitDismissal
  \/ \E b \in Binding : Configure(b)
  \/ Bind
  \/ \E m \in Message : Retry(m)
  \/ Flush \/ PublishIntent \/ ClearIntent \/ Dispatch \/ PassOver
  \/ Deliver
  \/ Restart

Spec == Init /\ [][Next]_vars

-----------------------------------------------------------------------------
(* Types, and what a delivery may look like: accepted only with every        *)
(* receipt, receipts only for frozen parts, a request out only for a        *)
(* delivery that says so (publish, #deliver).                               *)
TypeOK ==
  /\ state \in Outbox /\ disk \in Outbox
  /\ relay \in Relay
  /\ feed \in [revision : 0..Revisions, dismissed : BOOLEAN, dismissing : BOOLEAN,
               intents : SUBSET Message]
  /\ \A s \in {state, disk}, m \in Message :
       LET d == s.deliveries[m] IN
       /\ d.status = "accepted" => d.receipts = PartsOf(d)
       /\ d.receipts > 0 => d.prepared
       /\ d.status = "none" => d = NoDelivery
  /\ relay.pc = "send" => Current.status = "sending" /\ ~Superseded(state)
  /\ faults \in 0..MaxFaults
  /\ confirms \in [Message -> 0..MaxConfirms]

Landed(m, p) == landed[m][p]["nova"] + landed[m][p]["im"]
Channels(m) == {b \in Binding : \E p \in 1..Parts : landed[m][p][b] > 0}

(* A part is sent once: it is sent again only when the send before was      *)
(* certainly not accepted, or when the user confirmed the possible          *)
(* duplicate.  A message reaches one channel, unless the user confirmed.    *)
(* Crashes, failed writes and changes of the route in any order do not      *)
(* change that (claim, open, configure, the outcome's transaction).         *)
NeverSentBlindly ==
  \A m \in Message :
    /\ \A p \in 1..Parts : Landed(m, p) <= 1 + confirms[m]
    /\ Cardinality(Channels(m)) <= 1 + confirms[m]

(* Once the dismissal of the item is committed no part of any of its        *)
(* messages goes out, though its intents may be read by a relay under way   *)
(* and its delivery claimed by a pass under way (#commit, invalidate, the   *)
(* relay's commit that deletes the intent, the claim).                      *)
NothingAfterDismissal ==
  [][relay'.pc = "send" /\ relay.pc # "send" => ~feed.dismissed]_vars

(* blocked preserves the message until the binding or content becomes       *)
(* usable: a message is given up only for a newer revision, or because it   *)
(* was withdrawn (the claim of a delivery whose route is no longer the      *)
(* primary one).                                                            *)
NothingGivenUp ==
  \A m \in Message :
    state.deliveries[m].status = "superseded" =>
      \/ state.deliveries[m].invalidated
      \/ \E n \in Message : n > m /\ state.deliveries[n].status # "none"

(* An intent committed with the item is not lost: it is deleted only when   *)
(* its message is in the outbox on disk, so that a crash or a failed write  *)
(* between the two leaves one of them (flushNotifications).                 *)
IntentKept ==
  \A m \in 1..feed.revision :
    feed.dismissed \/ m \in feed.intents \/ disk.deliveries[m].status # "none"
=============================================================================
