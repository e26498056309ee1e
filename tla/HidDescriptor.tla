--------------------------- MODULE HidDescriptor ----------------------------
(***************************************************************************)
(* The parser of HID report descriptors of Linux (parse_descriptor() of    *)
(* hid_linux.c), and what its result means for a descriptor given as the   *)
(* sequence of its items.                                                  *)
(*                                                                         *)
(* Bytes are numbers; value[i] of the code is bytes[i + 1] here.           *)
(***************************************************************************)
EXTENDS Integers, Sequences, FiniteSets, SequencesExt

Long == 254
Collection == 160
EndCollection == 192
ReportId == 132
UsagePage == 4
Usage == 8

Byte == 0 .. 255
Word == 0 .. 2^16 - 1

-----------------------------------------------------------------------------
(* The parser. *)

ItemSize_3(type) == type % 4

\* The number of data bytes of a short item.
ItemSize(type) == IF type % 4 = 3 THEN 4 ELSE type % 4

\* (uint16_t)data of the item at i, whose data is little endian.
Data16(bytes, i, size) ==
    (IF size >= 1 THEN bytes[i + 2] ELSE 0) + (IF size >= 2 THEN 256 * bytes[i + 3] ELSE 0)

\* The end of a turn, i += size + 1.
Skip(s, size) == [s EXCEPT !.i = @ + size + 1, !.size = size]

\* A short item that is whole.  collection_depth is unsigned and wraps around
\* below 0; only its being 0 matters, so it is an integer here.
TakeItem(s, type, size, data) ==
    [i |-> s.i + size + 1,
     size |-> size,
     depth |-> s.depth + (IF type = Collection THEN 1 ELSE IF type = EndCollection THEN -1 ELSE 0),
     numbered |-> s.numbered \/ type = ReportId,
     page |-> IF type = UsagePage /\ s.depth = 0 THEN data ELSE s.page,
     usage |-> IF type = Usage /\ s.depth = 0 THEN data ELSE s.usage]

\* One turn of the loop, at s.i.  Of a long item whose size is missing the turn
\* skips as many bytes as the one before.
ParseItem(bytes, s) ==
    LET byte == bytes[s.i + 1]
        size == ItemSize(byte)
    IN  IF byte = Long THEN Skip(s, IF s.i + 1 < Len(bytes) THEN bytes[s.i + 2] + 2 ELSE s.size)
        ELSE IF s.i + size >= Len(bytes) THEN [s EXCEPT !.i = Len(bytes)]
        ELSE TakeItem(s, byte - (byte % 4), size, Data16(bytes, s.i, size))

\* What the loop knows after n turns; it takes at most one turn per byte.
Turns(bytes) ==
    LET turn[n \in 0 .. Len(bytes)] ==
            IF n = 0
            THEN [i |-> 0, size |-> 0, depth |-> 0, numbered |-> FALSE, page |-> 0, usage |-> 0]
            ELSE LET s == turn[n - 1]
                 IN  IF s.i < Len(bytes) THEN ParseItem(bytes, s) ELSE s
    IN  turn

parse_descriptor(bytes) ==
    LET last == Turns(bytes)[Len(bytes)]
    IN  [numbered |-> last.numbered, page |-> last.page, usage |-> last.usage]

-----------------------------------------------------------------------------
(* What a descriptor says, item by item: [tag, data], as in the HID           *)
(* specification.                                                             *)

\* A long item has up to 255 bytes of data, a short item 0, 1, 2 or 4.
WellFormed(item) ==
    IF item.tag = Long THEN Len(item.data) <= 255
    ELSE item.tag <= 248 /\ item.tag % 4 = 0 /\ Len(item.data) \in {0, 1, 2, 4}

Items == {item \in [tag : Byte, data : Seq(Byte)] : WellFormed(item)}

Encode(item) ==
    IF item.tag = Long
    THEN <<Long, Len(item.data), 0>> \o item.data
    ELSE <<item.tag + (IF Len(item.data) = 4 THEN 3 ELSE Len(item.data))>> \o item.data

\* The bytes of the first k items.
Encoded(items) ==
    LET bytes[k \in 0 .. Len(items)] ==
            IF k = 0 THEN <<>> ELSE bytes[k - 1] \o Encode(items[k])
    IN  bytes

EncodeAll(items) == Encoded(items)[Len(items)]

\* The number of items that are whole in the first n bytes.
Whole(items, n) ==
    CHOOSE m \in 0 .. Len(items) :
        /\ Len(Encoded(items)[m]) <= n
        /\ m = Len(items) \/ Len(Encoded(items)[m + 1]) > n

\* How many of the first n items have this tag.
Count(items, n, tag) == Cardinality({j \in 1 .. n : items[j].tag = tag})

\* How many collections are open before item i.
Depth(items, i) == Count(items, i - 1, Collection) - Count(items, i - 1, EndCollection)

\* The low 16 bits of the data of an item.
Value(data) ==
    (IF Len(data) > 0 THEN data[1] ELSE 0) + (IF Len(data) > 1 THEN 256 * data[2] ELSE 0)

\* The value that the last of the first m items with this tag outside of all
\* collections gives.
TopLevel(items, m, tag) ==
    LET S == {i \in 1 .. m : items[i].tag = tag /\ Depth(items, i) = 0}
    IN  IF S = {} THEN 0 ELSE Value(items[Max(S)].data)

\* What the first m items say.
Meaning(items, m) ==
    [numbered |-> \E i \in 1 .. m : items[i].tag = ReportId,
     page |-> TopLevel(items, m, UsagePage),
     usage |-> TopLevel(items, m, Usage)]

=============================================================================
