---------------------------- MODULE MCHidDarwin ----------------------------
(* Values for the model checking of HidDarwin. *)
EXTENDS HidDarwin

AllTimeouts == {-1, 0, 1}

=============================================================================
