---------------------------- MODULE WorkContract ----------------------------
(***************************************************************************)
(* What the runtime promises about the work it hands to executors,          *)
(* whatever events are queued and in whatever order they are applied: a     *)
(* piece of work runs, may be lost sight of (its outcome is unknown), and   *)
(* is settled at most once; a request that changes the world is not started *)
(* again while an earlier run of it is running, nor while an earlier run    *)
(* is lost and nobody has been told so.                                     *)
(***************************************************************************)
EXTENDS Naturals

CONSTANTS
  Work,      (* identities of runs                                  *)
  Request,   (* what can be asked for                               *)
  ReadOnly   (* the requests that change nothing                    *)

VARIABLES
  asked,     (* the request of each run, meaningful once started    *)
  status,    (* "none", "running", "lost" or "settled"              *)
  warned     (* the runs whose loss a requester has been told about *)

contractVars == <<asked, status, warned>>

Init ==
  /\ asked \in [Work -> Request]
  /\ status = [w \in Work |-> "none"]
  /\ warned = {}

\* A request may start when no run of it is running and, if it changes the
\* world, no run of it is lost without warning.
MayStart(r) ==
  \A w \in Work : asked[w] = r /\ status[w] # "none" =>
    /\ status[w] # "running"
    /\ r \in ReadOnly \/ status[w] = "settled" \/ w \in warned

Start(w) ==
  /\ status[w] = "none"
  /\ \E r \in Request : MayStart(r) /\ asked' = [asked EXCEPT ![w] = r]
  /\ status' = [status EXCEPT ![w] = "running"]
  /\ UNCHANGED warned

Lose(w) ==
  /\ status[w] = "running"
  /\ status' = [status EXCEPT ![w] = "lost"]
  /\ UNCHANGED <<asked, warned>>

\* A warning may be superfluous: a runtime that retains its routing history
\* still warns about a timed-out run whose late result has settled it.
Warn(w) ==
  /\ status[w] \in {"lost", "settled"}
  /\ warned' = warned \cup {w}
  /\ UNCHANGED <<asked, status>>

Settle(w) ==
  /\ status[w] \in {"running", "lost"}
  /\ status' = [status EXCEPT ![w] = "settled"]
  /\ UNCHANGED <<asked, warned>>

Next == \E w \in Work : Start(w) \/ Lose(w) \/ Warn(w) \/ Settle(w)

Spec == Init /\ [][Next]_contractVars
=============================================================================
