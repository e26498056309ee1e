------------------------------ MODULE Channel -------------------------------
(***************************************************************************)
(* What a read handle promises: the items that the device sends, bytes of  *)
(* a serial device or reports of a HID device, are read in order, each     *)
(* once, some at a time.  Closing the handle drops what has not been read. *)
(* This is the abstract specification that AsyncReadWin32 implements.      *)
(***************************************************************************)
EXTENDS Naturals, Sequences

VARIABLES
    sent, \* number of the last item sent; the items are numbered
    chan, \* items sent and not read yet
    got,  \* items read
    up    \* the handle is open

vars == <<sent, chan, got, up>>

Init ==
    /\ sent = 0
    /\ chan = <<>>
    /\ got = <<>>
    /\ up = FALSE

Open ==
    /\ ~up /\ sent = 0
    /\ up' = TRUE
    /\ UNCHANGED <<sent, chan, got>>

Put ==
    /\ up
    /\ sent' = sent + 1
    /\ chan' = Append(chan, sent + 1)
    /\ UNCHANGED <<got, up>>

Get(n) ==
    /\ up
    /\ n \in 1 .. Len(chan)
    /\ got' = got \o SubSeq(chan, 1, n)
    /\ chan' = SubSeq(chan, n + 1, Len(chan))
    /\ UNCHANGED <<sent, up>>

Close ==
    /\ up
    /\ up' = FALSE
    /\ chan' = <<>>
    /\ UNCHANGED <<sent, got>>

Next == Open \/ Put \/ Close \/ \E n \in 1 .. Len(chan) : Get(n)

Spec == Init /\ [][Next]_vars

=============================================================================
