-------------------------- MODULE MCNotifications --------------------------
(* Two revisions of one feed item, two parts, one change of route and of    *)
(* the account: every pair of the hard events can meet.                     *)
EXTENDS Notifications
=============================================================================
