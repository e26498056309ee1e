------------------------------ MODULE MCPosixIO ------------------------------
(* Model values for PosixIO.tla: moments on both sides of a whole second, and *)
(* descriptors with items of every size that the parser tells apart, in and   *)
(* between collections.                                                       *)
EXTENDS PosixIO

McItems ==
    {[tag |-> UsagePage, data |-> <<2, 255, 0, 0>>], [tag |-> Usage, data |-> <<4, 1>>],
     [tag |-> Collection, data |-> <<1>>], [tag |-> EndCollection, data |-> <<>>],
     [tag |-> ReportId, data |-> <<1>>], [tag |-> Long, data |-> <<4, 9>>]}
McNested ==
    {<<[tag |-> Usage, data |-> <<4, 1>>], [tag |-> Collection, data |-> <<1>>], x,
       [tag |-> EndCollection, data |-> <<>>], y>> : x \in McItems, y \in McItems}
McDescriptors == BoundedSeq(McItems, 1) \cup McNested
McEntries == {[desc |-> "dev", id |-> 1], [desc |-> "other", id |-> 2]}
McInstants == {0, 995, 1000, 2500}
McTimeouts == {-1, 0, 600}
=============================================================================
