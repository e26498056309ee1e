-------------------------- MODULE MCAsyncReadWin32 --------------------------
(* AsyncReadWin32 on a small instance. *)
EXTENDS AsyncReadWin32

BothSystems == {"xp", "vista"}
BothTypes == {"hid", "serial"}

=============================================================================
