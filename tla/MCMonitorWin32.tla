-------------------------- MODULE MCMonitorWin32 ---------------------------
(* Model checking of MonitorWin32. *)
EXTENDS MonitorWin32, TLC

KeySymmetry == Permutations(Keys)

=============================================================================
