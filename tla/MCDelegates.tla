---------------------------- MODULE MCDelegates ----------------------------
(* Delegates on a small instance: a mutating request and a readonly one.     *)
EXTENDS Delegates
=============================================================================
