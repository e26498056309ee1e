----------------------------- MODULE MCMonitor -----------------------------
(* Bounds for the model checking of Monitor. *)
EXTENDS Monitor

AllResults == {-1, 0, 1}
OnlyContinue == {0}

=============================================================================
