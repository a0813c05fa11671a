----------------------------- MODULE DeviceLease -----------------------------
(***************************************************************************)
(* What the lock of a device promises to the runs that share it, however    *)
(* many hosts there are and wherever they crash: one run holds the device   *)
(* at a time, it takes the device only when nothing that an earlier run has *)
(* started can still act on it, and once a run has left the device in doubt *)
(* nobody takes it again.                                                   *)
(***************************************************************************)
CONSTANT Run

VARIABLES
  holders,   (* the runs of live hosts that hold the device   *)
  acting,    (* the runs whose device process may act on it   *)
  blocked    (* the device was left in doubt                  *)

leaseVars == <<holders, acting, blocked>>

Init == holders = {} /\ acting = {} /\ blocked = FALSE

Take(r) ==
  /\ holders = {} /\ acting = {} /\ ~blocked
  /\ holders' = {r}
  /\ UNCHANGED <<acting, blocked>>

Act(r) ==
  /\ r \in holders /\ acting = {}
  /\ acting' = {r}
  /\ UNCHANGED <<holders, blocked>>

Cease(r) ==
  /\ r \in acting
  /\ acting' = acting \ {r}
  /\ UNCHANGED <<holders, blocked>>

\* The run gives the device up, or its host crashes while a process it has
\* started may still be acting.
Leave(r) ==
  /\ r \in holders
  /\ holders' = holders \ {r}
  /\ blocked' \in {blocked, TRUE}
  /\ UNCHANGED acting

Next == \E r \in Run : Take(r) \/ Act(r) \/ Cease(r) \/ Leave(r)

Spec == Init /\ [][Next]_leaseVars
=============================================================================
