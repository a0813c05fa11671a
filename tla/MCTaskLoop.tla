----------------------------- MODULE MCTaskLoop -----------------------------
(* Both routes, two works, a message, two changes of control, one of the    *)
(* goal, one correction and one fault: every pair of the hard events can    *)
(* meet, and a step can be dispatched again after each of them.             *)
EXTENDS TaskLoop
=============================================================================
