--------------------------- MODULE ApprovalClient ---------------------------
(***************************************************************************)
(* HostApproval with the desktop client that shows its cards: the          *)
(* renderer's connection and presentation mode (PersonalController) and    *)
(* the cards it has acknowledged (acknowledgeVisibleConfirmation).  Here    *)
(* the person is away or back because the client says so, or because its   *)
(* connection is gone, and a card is seen because it was acknowledged.     *)
(*                                                                         *)
(* The client acknowledges a card once.  It forgets that it did only when  *)
(* it hides itself, or when the acknowledgement fails.                     *)
(*                                                                         *)
(* One client.  The orb and the workbench are both "shown".  The view of    *)
(* the head is taken to arrive at once; what the client sends is handled   *)
(* in the order it was sent.  Both ends notice a lost connection in one     *)
(* step: the host queues the consequence before any later command.  A      *)
(* request overtaken by one to hide, or repeated after a reconnection, has *)
(* no effect of its own and is left out, and so is a window without the     *)
(* focus (its person is away).                                              *)
(***************************************************************************)
EXTENDS HostApproval

VARIABLES
  client,    (* see Renderer                                                   *)
  (* history, read by properties only                                          *)
  forgotten  (* waiting cards acknowledged over a connection lost since, while  *)
             (* the client still remembers that it acknowledged them            *)

clientVars == <<client, forgotten>>

Renderer ==
  [connected : BOOLEAN,
   mode      : {"shown", "background"},       (* presentationMode                      *)
   desired   : {"shown", "background"},       (* desiredPresentation                   *)
   ready     : BOOLEAN,                       (* presentationReady                     *)
   asks      : {"none", "shown", "background"}, (* the presentation.set under way      *)
   seen      : SUBSET Approval,               (* seenPresentations, of waiting cards   *)
   acks      : SUBSET Approval]               (* presentation.seen commands under way  *)

ClientInit ==
  /\ Init
  /\ client = [connected |-> TRUE, mode |-> "shown", desired |-> "shown",
               ready |-> TRUE, asks |-> "none", seen |-> {}, acks |-> {}]
  /\ forgotten = {}

-----------------------------------------------------------------------------
(* changePresentation: to hide takes effect before the host is asked, to show *)
(* once it has agreed.                                                        *)

Hide ==
  /\ client.mode = "shown" \/ client.asks = "shown"
  /\ client' = [client EXCEPT !.mode = "background", !.desired = "background",
                              !.seen = {}, !.ready = FALSE,
                              !.asks = IF client.connected THEN "background" ELSE "none"]
  /\ forgotten' = {}
  /\ UNCHANGED vars

Show ==
  /\ client.mode = "background" /\ client.asks = "none"
  /\ client' = IF client.connected
               THEN [client EXCEPT !.desired = "shown", !.asks = "shown", !.ready = FALSE]
               ELSE [client EXCEPT !.desired = "shown", !.mode = "shown"]
  /\ UNCHANGED <<vars, forgotten>>

\* The host handles presentation.set and the client has its answer.
Presented ==
  /\ client.connected /\ client.asks # "none" /\ client.acks = {}
  /\ client' = [client EXCEPT !.mode = client.asks, !.ready = TRUE, !.asks = "none"]
  /\ CASE client.asks = "background" /\ presented -> GoAway
       [] client.asks = "shown" /\ ~presented     -> ComeBack
       [] OTHER                                   -> UNCHANGED vars
  /\ UNCHANGED forgotten

\* It fails, or its answer does, twice when the client has just connected: the
\* client hides itself, and the host may think that it is shown.
PresentationFails ==
  /\ client.connected /\ client.asks = "shown" /\ client.acks = {}
  /\ client' = [client EXCEPT !.mode = "background", !.asks = "none", !.seen = {}]
  /\ forgotten' = {}
  /\ UNCHANGED vars \/ (~presented /\ ComeBack)

-----------------------------------------------------------------------------
(* The card. *)

\* acknowledgeVisibleConfirmation for the card that is shown.
Acknowledge ==
  /\ client.connected /\ client.ready /\ client.mode = "shown" /\ client.asks = "none"
  /\ fifo.current # Null /\ fifo.current \notin client.seen
  /\ client' = [client EXCEPT !.seen = (@ \cap Entries(fifo)) \cup {fifo.current},
                              !.acks = @ \cup {fifo.current}]
  /\ UNCHANGED <<vars, forgotten>>

\* The host handles presentation.seen; it counts for the head only.
Seen(e) ==
  /\ client.connected /\ e \in client.acks
  /\ client' = [client EXCEPT !.acks = @ \ {e}]
  /\ IF presented /\ fifo.current = e THEN SeeCard ELSE UNCHANGED vars
  /\ UNCHANGED forgotten

-----------------------------------------------------------------------------
(* The connection. *)

RemembersLost(c) == c.seen   \* seeded fault: a lost acknowledgement counts as made
\* An acknowledgement that was under way has failed.
Remembers(c) == c.seen \ c.acks

\* onConnectionReleased and disconnectPresentation of the host, disconnect of the
\* client: commands under way fail.
Disconnect ==
  /\ client.connected
  /\ client' = [client EXCEPT !.connected = FALSE, !.ready = FALSE, !.asks = "none",
                              !.seen = Remembers(client) \cap Entries(fifo), !.acks = {}]
  /\ forgotten' = (forgotten \cup (client.seen \ client.acks)) \cap Entries(fifo)
  /\ IF presented THEN GoAway ELSE UNCHANGED vars

\* connect: the client asks for the mode it had.
Reconnect ==
  /\ ~client.connected
  /\ client' = [client EXCEPT !.connected = TRUE, !.asks = client.desired]
  /\ UNCHANGED <<vars, forgotten>>

-----------------------------------------------------------------------------
ClientNext ==
  \/ Hide \/ Show \/ Presented \/ PresentationFails
  \/ Acknowledge \/ (\E e \in Approval : Seen(e))
  \/ Disconnect \/ Reconnect
  \/ Asking /\ UNCHANGED clientVars

\* As in HostApproval; of the client, it reconnects, its commands are handled and
\* it acknowledges the card it shows.  Nobody owes an answer.
ClientSpec ==
  /\ ClientInit /\ [][ClientNext]_<<vars, clientVars>>
  /\ WF_vars(Tick /\ UNCHANGED clientVars) /\ WF_vars(TimerFires /\ UNCHANGED clientVars)
  /\ WF_vars(PublishProject /\ UNCHANGED clientVars)
  /\ \A e \in Approval : WF_vars(Consume(e) /\ UNCHANGED clientVars)
  /\ WF_clientVars(Reconnect) /\ WF_clientVars(Presented) /\ WF_clientVars(Acknowledge)
  /\ \A e \in Approval : WF_clientVars(Seen(e))

-----------------------------------------------------------------------------
\* With the client shown and connected and no confirmation in the way, every
\* request is answered and its executor goes on.  The exception is a card that was
\* acknowledged before the connection was lost: the host waits for it to be seen
\* again, the client does not say so twice, and it and those behind it wait for
\* the person without a deadline (seenPresentations, awaitingPresentation).
Answered ==
  <>[](client.connected /\ client.mode = "shown" /\ project # "pending") =>
    \A e \in Approval :
      e <= issued ~> spent[e] # "none" \/ fifo.current \in forgotten
=============================================================================
