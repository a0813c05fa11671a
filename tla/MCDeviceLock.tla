---------------------------- MODULE MCDeviceLock ----------------------------
(* DeviceLock with runs, and hosts, that differ by name only.                *)
EXTENDS DeviceLock, TLC

Symmetry == Permutations(Task) \cup Permutations(Host)
=============================================================================
