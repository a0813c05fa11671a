-------------------------- MODULE BlackboardSession --------------------------
(***************************************************************************)
(* Publishing Memory to its durable store (memory/blackboard-session.ts).   *)
(*                                                                          *)
(* One drain at a time writes, batch by batch, the rows that memory holds   *)
(* and the store does not.  A caller that asks for a flush while the drain  *)
(* runs asks it for another pass and waits for the whole drain.  A clear    *)
(* waits for the drain, then commits one clear whose receipt empties        *)
(* memory.  The store may fail at any receipt; nothing is written after     *)
(* that.                                                                    *)
(*                                                                          *)
(* Abstracted: channels and sequence numbers (memory is a set of rows),     *)
(* retention and summaries.  The store itself (blackboard-store.ts and its  *)
(* worker) is a set of rows that a receipt changes.                         *)
(***************************************************************************)
EXTENDS Integers, FiniteSets

CONSTANT BatchLimit   (* rows that fit in one batch *)

ASSUME BatchAssumption == BatchLimit \in Nat \ {0}

VARIABLES
  memory,      (* rows of the live projection                                 *)
  durable,     (* rows the store holds                                        *)
  requested,   (* #requested: another pass is wanted                          *)
  drain,       (* "none", "loop" (about to look for work) or "writing"        *)
  batch,       (* rows of the commit in flight                                *)
  clear,       (* clear in progress: "none", "gate" (the runtime waits for    *)
               (* the event being applied), "draining", "drained", "writing"  *)
  store,       (* "open", "closing" or "closed"                               *)
  failure      (* #failure is set, here or in the runtime: a commit failed, or *)
               (* a flush or a clear was refused by a closing session         *)

session == <<memory, durable, requested, drain, batch, clear, store, failure>>

SessionTypes(Row) ==
  /\ memory \subseteq Row /\ durable \subseteq Row /\ batch \subseteq Row
  /\ requested \in BOOLEAN /\ failure \in BOOLEAN
  /\ drain \in {"none", "loop", "writing"}
  /\ clear \in {"none", "gate", "draining", "drained", "writing"}
  /\ store \in {"open", "closing", "closed"}

SessionInit ==
  /\ memory = {} /\ durable = {} /\ batch = {}
  /\ requested = FALSE /\ failure = FALSE
  /\ drain = "none" /\ clear = "none" /\ store = "open"

\* flush is refused once the session is closing or has failed.
Refuses == failure \/ store # "open"

RequestFlushJoins ==   \* seeded fault: a flush joins the running drain and asks for nothing
  /\ requested' = IF drain = "none" THEN TRUE ELSE requested
  /\ drain' = IF drain = "none" THEN "loop" ELSE drain

\* #requestFlush
RequestFlush ==
  /\ requested' = TRUE
  /\ drain' = IF drain = "none" THEN "loop" ELSE drain

\* One pass of the drain: rows not yet in the store, at most BatchLimit of
\* them; a pass that leaves rows behind asks for another.
DrainPass ==
  /\ drain = "loop" /\ requested
  /\ LET new == memory \ durable IN
     IF new = {}
     THEN requested' = FALSE /\ UNCHANGED <<drain, batch>>
     ELSE \E rows \in SUBSET new :
            /\ Cardinality(rows) = IF Cardinality(new) < BatchLimit THEN Cardinality(new)
                                   ELSE BatchLimit
            /\ batch' = rows
            /\ requested' = (rows # new)
            /\ drain' = "writing"
  /\ UNCHANGED <<memory, durable, clear, store, failure>>

\* The receipt of a batch.
BatchWritten ==
  /\ drain = "writing"
  /\ durable' = durable \cup batch
  /\ batch' = {} /\ drain' = "loop"
  /\ UNCHANGED <<memory, requested, clear, store, failure>>

\* A drain with nothing more to do ends.
DrainEnds ==
  /\ drain = "loop" /\ ~requested
  /\ drain' = "none"
  /\ clear' = IF clear = "draining" THEN "drained" ELSE clear
  /\ UNCHANGED <<memory, durable, requested, batch, store, failure>>

BatchFailsKeepsClear ==   \* seeded fault: a failed drain leaves the clear waiting for it
  /\ drain = "writing"
  /\ durable' \in {durable, durable \cup batch}
  /\ batch' = {} /\ drain' = "none" /\ failure' = TRUE
  /\ UNCHANGED <<memory, requested, clear, store>>

\* The batch fails, written or not; a clear waiting for the drain fails too.
BatchFails ==
  /\ drain = "writing"
  /\ durable' \in {durable, durable \cup batch}
  /\ batch' = {} /\ drain' = "none" /\ failure' = TRUE
  /\ clear' = IF clear = "draining" THEN "none" ELSE clear
  /\ UNCHANGED <<memory, requested, store>>

StartClearAtOnce ==   \* seeded fault: the clear commits beside a running drain
  /\ clear = "gate" /\ ~Refuses
  /\ clear' = "drained"
  /\ UNCHANGED <<requested, drain, memory, durable, batch, store, failure>>

\* clear(): the rows of the old conversation are drained first.
StartClear ==
  /\ clear = "gate" /\ ~Refuses
  /\ RequestFlush
  /\ clear' = "draining"
  /\ UNCHANGED <<memory, durable, batch, store, failure>>

\* clear() on a session that is closing or has failed.
ClearRefused ==
  /\ clear = "gate" /\ Refuses
  /\ clear' = "none" /\ failure' = TRUE
  /\ UNCHANGED <<memory, durable, requested, drain, batch, store>>

CommitClear ==
  /\ clear = "drained"
  /\ clear' = "writing"
  /\ UNCHANGED <<memory, durable, requested, drain, batch, store, failure>>

ClearWritten ==
  /\ clear = "writing"
  /\ memory' = {} /\ durable' = {}
  /\ clear' = "none"
  /\ UNCHANGED <<requested, drain, batch, store, failure>>

ClearFails ==
  /\ clear = "writing"
  /\ durable' \in {durable, {}}
  /\ clear' = "none" /\ failure' = TRUE
  /\ UNCHANGED <<memory, requested, drain, batch, store>>

\* close() waits for a running clear, or else for one more drain.
BeginClose ==
  /\ store = "open"
  /\ store' = "closing"
  /\ IF clear \in {"draining", "drained", "writing"} \/ failure
     THEN UNCHANGED <<requested, drain>>
     ELSE RequestFlush
  /\ UNCHANGED <<memory, durable, batch, clear, failure>>

EndCloseAtOnce ==   \* seeded fault: close() does not wait for the drain it asked for
  /\ store = "closing"
  /\ clear \notin {"draining", "drained", "writing"}
  /\ store' = "closed"
  /\ UNCHANGED <<memory, durable, requested, drain, batch, clear, failure>>

EndClose ==
  /\ store = "closing" /\ drain = "none"
  /\ clear \notin {"draining", "drained", "writing"}
  /\ store' = "closed"
  /\ UNCHANGED <<memory, durable, requested, drain, batch, clear, failure>>
=============================================================================
