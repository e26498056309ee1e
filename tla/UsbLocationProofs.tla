------------------------- MODULE UsbLocationProofs --------------------------
(***************************************************************************)
(* That the list of controllers is filled once, with different numbers,    *)
(* whatever the threads; that the walk stays within its array; and that it *)
(* finds the location of a device that stays where it is, however other    *)
(* hubs and devices move.                                                  *)
(***************************************************************************)
EXTENDS UsbLocation, SequenceTheorems, WellFoundedInduction, TLAPS

\* A thread that looks for a location: it leaves room for the number of the
\* controller, which comes last.
WalkPcs == {"walk", "climb", "done", "ignored"}
Walks(S) == [pc : WalkPcs, dev : S, node : S, up : S, ports : S, disturbed : S]
Walking(w) ==
    /\ \E S : w \in Walks(S)
    /\ \E P : w.ports \in Seq(P)
    /\ w.pc \in {"walk", "climb"} => Len(w.ports) <= MaxLength - 1
    /\ w.pc = "done" => Len(w.ports) <= MaxLength

\* The thread that fills the list: the numbers given so far are those up to i, and
\* the controllers to come have none.
Listing(w) ==
    /\ w \in [pc : {"list"}, i : 0 .. MaxIndex, todo : SUBSET Controllers]
    /\ \A c \in Controllers : index[c] <= w.i
    /\ \A c \in w.todo : index[c] = 0

ThreadOK(w) == w \in {Idle, Ready} \/ Listing(w) \/ Walking(w)

AtOK == at \in [Hubs \cup Devices -> Sockets \cup {Nowhere}]

IndexOK ==
    /\ index \in [Controllers -> 0 .. MaxIndex]
    /\ \A c, d \in Controllers : index[c] = index[d] /\ index[c] # 0 => c = d

\* The thread that fills the list holds the lock, and no other does.
LockOK ==
    /\ lock \in Threads \cup {NoThread}
    /\ \A t \in Threads : thread[t].pc = "list" <=> lock = t

ThreadsOK ==
    /\ \E S : thread \in [Threads -> S]
    /\ \A t \in Threads : ThreadOK(thread[t])

Inv == platform \in Platforms /\ AtOK /\ IndexOK /\ LockOK /\ ThreadsOK

-----------------------------------------------------------------------------
(* The shapes of a thread. *)

\* What a pc says of the shape.
LEMMA PcShape ==
    ASSUME NEW w, ThreadOK(w)
    PROVE  /\ w.pc = "list" => Listing(w)
           /\ w.pc \in WalkPcs => Walking(w)
           /\ w.pc \in Pcs
           /\ w \in {Idle, Ready} \/ Walking(w) => w.pc # "list"
<1>1. w \in {Idle, Ready} => w.pc \in {"idle", "ready"}
  BY DEF Idle, Ready
<1>2. Listing(w) => w.pc = "list"
  BY DEF Listing
<1>3. Walking(w) => w.pc \in WalkPcs
  BY DEF Walking, Walks
<1> QED
  BY <1>1, <1>2, <1>3 DEF ThreadOK, WalkPcs, Pcs

\* The numbers of a location are a sequence, with room for at least one.
LEMMA Lengths ==
    ASSUME Inv
    PROVE  MaxLength \in Nat \ {0} /\ MaxDepth \in Nat
BY UsbAssumption DEF MaxLength

\* One turn of the walk: a record of the same shape.
LEMMA WalkShape ==
    ASSUME NEW w, Walking(w), NEW pc \in WalkPcs, NEW node, NEW up, NEW P,
           NEW ports \in Seq(P),
           pc \in {"walk", "climb"} => Len(ports) <= MaxLength - 1,
           pc = "done" => Len(ports) <= MaxLength,
           NEW v, v = [w EXCEPT !.pc = pc, !.node = node, !.up = up, !.ports = ports]
    PROVE  Walking(v)
<1>1. PICK S : w \in Walks(S)
  BY DEF Walking
<1>2. PICK T : T = S \cup {node, up, ports}
  OBVIOUS
<1>3. v \in Walks(T)
  BY <1>1, <1>2 DEF Walks
<1>4. v.pc = pc /\ v.ports = ports
  BY <1>1 DEF Walks
<1> QED
  BY <1>3, <1>4 DEF Walking

\* One thread, which does not fill the list, goes on to w.
LEMMA ThreadStep ==
    ASSUME Inv, NEW t \in Threads, thread[t].pc # "list",
           NEW w, w \in {Idle, Ready} \/ Walking(w),
           thread' = [thread EXCEPT ![t] = w], UNCHANGED <<platform, at, index, lock>>
    PROVE  Inv'
<1>1. PICK S : thread \in [Threads -> S]
  BY DEF Inv, ThreadsOK
<1>2. PICK T : T = S \cup {w}
  OBVIOUS
<1>3. thread' \in [Threads -> T]
  BY <1>1, <1>2
<1>4. thread'[t] = w /\ \A u \in Threads \ {t} : thread'[u] = thread[u]
  BY <1>1
<1>5. ThreadOK(w) /\ w.pc # "list"
  BY PcShape DEF ThreadOK
<1>6. \A u \in Threads : ThreadOK(thread[u])
  BY DEF Inv, ThreadsOK
<1>7. ASSUME NEW u \in Threads PROVE ThreadOK(thread[u])'
  <2>1. PICK v : v = thread'[u]
    OBVIOUS
  <2>2. ThreadOK(v)
    BY <1>4, <1>5, <1>6, <2>1
  <2> QED
    BY <2>1, <2>2 DEF ThreadOK, Listing, Walking, MaxLength
<1>8. ThreadsOK'
  BY <1>3, <1>7 DEF ThreadsOK
<1>9. LockOK'
  BY <1>4, <1>5 DEF Inv, LockOK
<1> QED
  BY <1>8, <1>9 DEF Inv, AtOK, IndexOK

-----------------------------------------------------------------------------
(* The walk. *)

\* A port number, if there is one, makes the sequence one longer.
LEMMA AddPortLength ==
    ASSUME NEW P, NEW ports \in Seq(P), NEW r
    PROVE  /\ AddPort(ports, r) \in Seq(P \cup {r})
           /\ Len(ports) \in Nat
           /\ Len(AddPort(ports, r)) \in {Len(ports), Len(ports) + 1}
<1>1. Len(ports) \in Nat /\ ports \in [1 .. Len(ports) -> P]
  BY LenProperties
<1>2. ports \in Seq(P \cup {r})
  <2>1. ports \in [1 .. Len(ports) -> P \cup {r}]
    BY <1>1
  <2> QED
    BY <1>1, <2>1, SeqDef
<1>3. Append(ports, r) \in Seq(P \cup {r}) /\ Len(Append(ports, r)) = Len(ports) + 1
  BY <1>2, AppendProperties
<1> QED
  BY <1>1, <1>2, <1>3 DEF AddPort

\* Turning a sequence around keeps its length.
LEMMA ReverseLength ==
    ASSUME NEW P, NEW s \in Seq(P)
    PROVE  Reverse(s) \in Seq(P) /\ Len(Reverse(s)) = Len(s)
<1>1. Len(s) \in Nat /\ \A i \in 1 .. Len(s) : s[i] \in P
  BY LenProperties, ElementOfSeq
<1>2. \A i \in 1 .. Len(s) : (Len(s) - i) + 1 \in 1 .. Len(s)
  BY <1>1
<1>3. Reverse(s) \in [1 .. Len(s) -> P]
  BY <1>1, <1>2 DEF Reverse
<1>4. Reverse(s) \in Seq(P)
  BY <1>1, <1>3, SeqDef
<1> QED
  BY <1>1, <1>3, <1>4, LenProperties

\* A device that is ignored.
LEMMA IgnoreStep ==
    ASSUME Inv, NEW t \in Threads, Walking(thread[t]), Ignore(t),
           UNCHANGED <<platform, at, index, lock>>
    PROVE  Inv'
<1>1. PICK w : w = thread[t]
  OBVIOUS
<1>2. PICK v : v = [w EXCEPT !.pc = "ignored"]
  OBVIOUS
<1>3. PICK S : w \in Walks(S)
  BY <1>1 DEF Walking
<1>4. v \in Walks(S) /\ v.pc = "ignored" /\ v.ports = w.ports
  BY <1>2, <1>3 DEF Walks, WalkPcs
<1>5. Walking(v)
  BY <1>1, <1>4 DEF Walking
<1>6. thread[t].pc # "list"
  BY <1>1, <1>3 DEF Walks, WalkPcs
<1>7. thread' = [thread EXCEPT ![t] = v]
  BY <1>1, <1>2 DEF Ignore
<1> QED
  BY <1>5, <1>6, <1>7, ThreadStep

\* A turn that goes on with w, or ends with it.
LEMMA TurnStep ==
    ASSUME Inv, NEW t \in Threads, Walking(thread[t]),
           NEW pc \in WalkPcs, NEW node, NEW up, NEW P, NEW ports \in Seq(P),
           pc \in {"walk", "climb"} => Len(ports) <= MaxLength - 1,
           pc = "done" => Len(ports) <= MaxLength,
           thread' = [thread EXCEPT ![t] = [thread[t] EXCEPT !.pc = pc, !.node = node,
                                                             !.up = up, !.ports = ports]],
           UNCHANGED <<platform, at, index, lock>>
    PROVE  Inv'
<1>1. PICK v : v = [thread[t] EXCEPT !.pc = pc, !.node = node, !.up = up, !.ports = ports]
  OBVIOUS
<1>2. Walking(v)
  BY <1>1, WalkShape
<1>3. thread[t].pc # "list"
  BY DEF Walking, Walks, WalkPcs
<1>4. thread' = [thread EXCEPT ![t] = v]
  BY <1>1
<1> QED
  BY <1>2, <1>3, <1>4, ThreadStep

\* The end at the root hub.
LEMMA FinishStep ==
    ASSUME Inv, NEW t \in Threads, Walking(thread[t]), NEW c, NEW P, NEW ports \in Seq(P),
           Len(ports) <= MaxLength - 1, Finish(t, c, ports),
           UNCHANGED <<platform, at, index, lock>>
    PROVE  Inv'
<1>1. CASE Ignore(t)
  BY <1>1, IgnoreStep
<1>2. CASE ~Ignore(t)
  <2>1. PICK n : n = find_controller(c)
    OBVIOUS
  <2>2. PICK r : r = Reverse(Append(ports, n))
    OBVIOUS
  <2>3. thread' = [thread EXCEPT ![t].pc = "done", ![t].ports = r]
    BY <1>2, <2>1, <2>2 DEF Finish
  <2>4. ports \in Seq(P \cup {n})
    <3>1. Len(ports) \in Nat /\ ports \in [1 .. Len(ports) -> P \cup {n}]
      BY LenProperties
    <3> QED
      BY <3>1, SeqDef
  <2>5. Append(ports, n) \in Seq(P \cup {n}) /\ Len(Append(ports, n)) = Len(ports) + 1
    BY <2>4, AppendProperties
  <2>6. r \in Seq(P \cup {n}) /\ Len(r) = Len(ports) + 1
    BY <2>2, <2>5, ReverseLength
  <2>7. Len(r) <= MaxLength
    BY <2>6, Lengths, LenProperties
  <2>8. PICK w : w = thread[t]
    OBVIOUS
  <2>9. PICK S : w \in Walks(S)
    BY <2>8 DEF Walking
  <2>10. [w EXCEPT !.pc = "done", !.ports = r]
           = [w EXCEPT !.pc = "done", !.node = w.node, !.up = w.up, !.ports = r]
    BY <2>9 DEF Walks
  <2>11. thread' = [thread EXCEPT ![t] =
                      [w EXCEPT !.pc = "done", !.node = w.node, !.up = w.up, !.ports = r]]
    BY <2>3, <2>8, <2>10
  <2>12. "done" \in WalkPcs
    BY DEF WalkPcs
  <2> QED
    BY <2>6, <2>7, <2>8, <2>11, <2>12, TurnStep
<1> QED
  BY <1>1, <1>2

\* What a walking thread is.
LEMMA WalkFacts ==
    ASSUME Inv, NEW t \in Threads, thread[t].pc \in WalkPcs
    PROVE  /\ Walking(thread[t]) /\ thread[t].pc # "list"
           /\ Len(thread[t].ports) \in Nat
           /\ \E P : thread[t].ports \in Seq(P)
<1>1. ThreadOK(thread[t])
  BY DEF Inv, ThreadsOK
<1>2. Walking(thread[t])
  BY <1>1, PcShape
<1>3. PICK P : thread[t].ports \in Seq(P)
  BY <1>2 DEF Walking
<1>4. Len(thread[t].ports) \in Nat
  BY <1>3, LenProperties
<1> QED
  BY <1>2, <1>3, <1>4 DEF WalkPcs

\* A turn that finds the port r and goes on to the parent.
LEMMA ClimbNext ==
    ASSUME Inv, NEW t \in Threads, Walking(thread[t]), NEW P, NEW ports \in Seq(P),
           Len(ports) <= MaxLength - 1,
           NEW v, v = [thread[t] EXCEPT !.pc = "climb", !.ports = ports],
           thread' = [thread EXCEPT ![t] = v],
           UNCHANGED <<platform, at, index, lock>>
    PROVE  Inv'
<1>1. PICK S : thread[t] \in Walks(S)
  BY DEF Walking
<1>2. v \in Walks(S \cup {ports}) /\ v.pc = "climb" /\ v.ports = ports
  BY <1>1 DEF Walks, WalkPcs
<1>3. Walking(v)
  BY <1>2 DEF Walking
<1>4. thread[t].pc # "list"
  BY <1>1 DEF Walks, WalkPcs
<1> QED
  BY <1>3, <1>4, ThreadStep

\* The turns of the loop in resolve_device_location(), on Windows and on OSX.
LEMMA WalkWin32Inv == ASSUME Inv, NEW t \in Threads, WalkWin32(t) PROVE Inv'
<1>1. /\ thread[t].pc = "walk" /\ platform # "darwin"
      /\ UNCHANGED <<platform, at, index, lock>>
  BY DEF WalkWin32
<1>2. Walking(thread[t]) /\ Len(thread[t].ports) \in Nat
  BY <1>1, WalkFacts DEF WalkPcs
<1>3. PICK P : thread[t].ports \in Seq(P)
  BY <1>1, WalkFacts DEF WalkPcs
<1>4. CASE Ignore(t)
  BY <1>1, <1>2, <1>4, IgnoreStep
<1>5. CASE ~Ignore(t)
  <2>1. RoomLeft(thread[t].ports)
    BY <1>5 DEF WalkWin32
  <2>2. PICK r : \/ Finish(t, thread[t].up, AddPort(thread[t].ports, r))
                 \/ thread' = [thread EXCEPT ![t].pc = "climb", ![t].ports = AddPort(@, r)]
    BY <1>5 DEF WalkWin32
  <2>3. PICK ports : ports = AddPort(thread[t].ports, r)
    OBVIOUS
  <2>4. ports \in Seq(P \cup {r}) /\ Len(ports) <= MaxDepth
    <3>1. /\ ports \in Seq(P \cup {r})
          /\ Len(ports) \in {Len(thread[t].ports), Len(thread[t].ports) + 1}
      BY <1>3, <2>3, AddPortLength
    <3>2. Len(thread[t].ports) < MaxDepth
      BY <2>1 DEF RoomLeft
    <3> QED
      BY <1>2, <3>1, <3>2, Lengths
  <2>5. Len(ports) <= MaxLength - 1
    BY <1>1, <2>4, Lengths, LenProperties DEF MaxLength
  <2>6. CASE Finish(t, thread[t].up, ports)
    BY <1>1, <1>2, <2>4, <2>5, <2>6, FinishStep
  <2>7. CASE thread' = [thread EXCEPT ![t].pc = "climb", ![t].ports = ports]
    <3>1. PICK v : v = [thread[t] EXCEPT !.pc = "climb", !.ports = ports]
      OBVIOUS
    <3>2. thread' = [thread EXCEPT ![t] = v]
      BY <2>7, <3>1
    <3> QED
      BY <1>1, <1>2, <2>4, <2>5, <3>1, <3>2, ClimbNext
  <2>8. \/ Finish(t, thread[t].up, ports)
        \/ thread' = [thread EXCEPT ![t].pc = "climb", ![t].ports = ports]
    BY <2>2, <2>3
  <2> QED
    BY <2>6, <2>7, <2>8
<1> QED
  BY <1>4, <1>5

LEMMA ClimbWin32Inv == ASSUME Inv, NEW t \in Threads, ClimbWin32(t) PROVE Inv'
<1>1. /\ thread[t].pc = "climb" /\ UNCHANGED <<platform, at, index, lock>>
  BY DEF ClimbWin32
<1>2. Walking(thread[t]) /\ Len(thread[t].ports) \in Nat
  BY <1>1, WalkFacts DEF WalkPcs
<1>3. PICK P : thread[t].ports \in Seq(P)
  BY <1>1, WalkFacts DEF WalkPcs
<1>4. Len(thread[t].ports) <= MaxLength - 1 /\ MaxLength \in Nat
  BY <1>1, <1>2, Lengths DEF Walking
<1>5. PICK w : w = thread[t]
  OBVIOUS
<1>6. PICK S : w \in Walks(S)
  BY <1>2, <1>5 DEF Walking
<1>7. CASE Plugged(w.up)
  <2>1. PICK up : up = Up(w.up)
    OBVIOUS
  <2>2. [w EXCEPT !.pc = "walk", !.node = w.up, !.up = up]
          = [w EXCEPT !.pc = "walk", !.node = w.up, !.up = up, !.ports = w.ports]
    BY <1>6 DEF Walks
  <2>3. thread' = [thread EXCEPT ![t] =
                     [w EXCEPT !.pc = "walk", !.node = w.up, !.up = up, !.ports = w.ports]]
    BY <1>5, <1>7, <2>1, <2>2 DEF ClimbWin32
  <2>4. "walk" \in WalkPcs
    BY DEF WalkPcs
  <2> QED
    BY <1>1, <1>2, <1>3, <1>4, <1>5, <2>3, <2>4, TurnStep
<1>8. CASE ~Plugged(w.up)
  <2>1. PICK pc \in {"ignored", "done"} : pc = IF w.ports = <<>> THEN "ignored" ELSE "done"
    OBVIOUS
  <2>2. PICK ports : ports = Reverse(w.ports)
    OBVIOUS
  <2>3. ports \in Seq(P) /\ Len(ports) <= MaxLength
    BY <1>2, <1>3, <1>4, <1>5, <2>2, ReverseLength
  <2>4. [w EXCEPT !.pc = pc, !.ports = ports]
          = [w EXCEPT !.pc = pc, !.node = w.node, !.up = w.up, !.ports = ports]
    BY <1>6 DEF Walks
  <2>5. thread' = [thread EXCEPT ![t] =
                     [w EXCEPT !.pc = pc, !.node = w.node, !.up = w.up, !.ports = ports]]
    BY <1>5, <1>8, <2>1, <2>2, <2>4 DEF ClimbWin32
  <2>6. pc \in WalkPcs /\ pc \notin {"walk", "climb"}
    BY <2>1 DEF WalkPcs
  <2> QED
    BY <1>1, <1>2, <1>5, <2>3, <2>5, <2>6, TurnStep
<1> QED
  BY <1>7, <1>8

LEMMA WalkDarwinInv == ASSUME Inv, NEW t \in Threads, WalkDarwin(t) PROVE Inv'
<1>1. /\ thread[t].pc = "walk" /\ platform = "darwin"
      /\ UNCHANGED <<platform, at, index, lock>>
  BY DEF WalkDarwin
<1>2. Walking(thread[t]) /\ Len(thread[t].ports) \in Nat
  BY <1>1, WalkFacts DEF WalkPcs
<1>3. PICK P : thread[t].ports \in Seq(P)
  BY <1>1, WalkFacts DEF WalkPcs
<1>4. CASE Ignore(t)
  BY <1>1, <1>2, <1>4, IgnoreStep
<1>5. CASE ~Ignore(t)
  <2>1. PICK r : /\ RoomLeft(AddPort(thread[t].ports, r))
                 /\ thread' = [thread EXCEPT ![t].pc = "climb", ![t].ports = AddPort(@, r)]
    BY <1>5 DEF WalkDarwin
  <2>2. PICK ports : ports = AddPort(thread[t].ports, r)
    OBVIOUS
  <2>3. ports \in Seq(P \cup {r}) /\ Len(ports) < MaxDepth
    BY <1>3, <2>1, <2>2, AddPortLength DEF RoomLeft
  <2>4. Len(ports) <= MaxLength - 1
    BY <1>1, <2>3, Lengths, LenProperties DEF MaxLength
  <2>5. PICK v : v = [thread[t] EXCEPT !.pc = "climb", !.ports = ports]
    OBVIOUS
  <2>6. thread' = [thread EXCEPT ![t] = v]
    BY <2>1, <2>2, <2>5
  <2> QED
    BY <1>1, <1>2, <2>3, <2>4, <2>5, <2>6, ClimbNext
<1> QED
  BY <1>4, <1>5

LEMMA ClimbDarwinInv == ASSUME Inv, NEW t \in Threads, ClimbDarwin(t) PROVE Inv'
<1>1. /\ thread[t].pc = "climb" /\ UNCHANGED <<platform, at, index, lock>>
  BY DEF ClimbDarwin
<1>2. Walking(thread[t]) /\ Len(thread[t].ports) \in Nat
  BY <1>1, WalkFacts DEF WalkPcs
<1>3. PICK P : thread[t].ports \in Seq(P)
  BY <1>1, WalkFacts DEF WalkPcs
<1>4. Len(thread[t].ports) <= MaxLength - 1 /\ MaxLength \in Nat
  BY <1>1, <1>2, Lengths DEF Walking
<1>5. CASE Ignore(t)
  BY <1>1, <1>2, <1>5, IgnoreStep
<1>6. CASE \E c : Finish(t, c, thread[t].ports)
  BY <1>1, <1>2, <1>3, <1>4, <1>6, FinishStep
<1>7. CASE \E node, up : thread' = [thread EXCEPT ![t].pc = "walk", ![t].node = node, ![t].up = up]
  <2>1. PICK node, up : thread' = [thread EXCEPT ![t].pc = "walk", ![t].node = node, ![t].up = up]
    BY <1>7
  <2>2. PICK w : w = thread[t]
    OBVIOUS
  <2>3. PICK S : w \in Walks(S)
    BY <1>2, <2>2 DEF Walking
  <2>4. [w EXCEPT !.pc = "walk", !.node = node, !.up = up]
          = [w EXCEPT !.pc = "walk", !.node = node, !.up = up, !.ports = w.ports]
    BY <2>3 DEF Walks
  <2>5. thread' = [thread EXCEPT ![t] =
                     [w EXCEPT !.pc = "walk", !.node = node, !.up = up, !.ports = w.ports]]
    BY <2>1, <2>2, <2>4
  <2>6. "walk" \in WalkPcs
    BY DEF WalkPcs
  <2> QED
    BY <1>1, <1>2, <1>3, <1>4, <2>2, <2>5, <2>6, TurnStep
<1> QED
  BY <1>5, <1>6, <1>7 DEF ClimbDarwin

\* The start of a walk and its end.
LEMMA LookupInv ==
    ASSUME Inv, NEW t \in Threads,
           Resolved(t) \/ \E d \in Devices \cup Functions : resolve_device_location(t, d)
    PROVE  Inv'
<1>1. CASE Resolved(t)
  BY <1>1, ThreadStep DEF Resolved
<1>2. ASSUME NEW d \in Devices \cup Functions, resolve_device_location(t, d) PROVE Inv'
  <2>1. PICK up : up = Up(d)
    OBVIOUS
  <2>2. PICK w : w = [pc |-> "walk", dev |-> d, node |-> d, up |-> up, ports |-> <<>>,
                      disturbed |-> FALSE]
    OBVIOUS
  <2>3. /\ thread' = [thread EXCEPT ![t] = w] /\ thread[t].pc # "list"
        /\ UNCHANGED <<platform, at, index, lock>>
    BY <1>2, <2>1, <2>2 DEF resolve_device_location
  <2>4. w.ports = <<>> /\ w \in Walks({d, up, <<>>, FALSE})
    BY <2>2 DEF Walks, WalkPcs
  <2>5. w.ports \in Seq({}) /\ Len(w.ports) = 0
    BY <2>4, EmptySeq
  <2>6. Walking(w)
    BY <2>4, <2>5, Lengths DEF Walking
  <2> QED
    BY <2>3, <2>6, ThreadStep
<1> QED
  BY <1>1, <1>2

-----------------------------------------------------------------------------
(* The list of controllers. *)

\* The thread that fills the list is the only one that does.
LEMMA OneLister ==
    ASSUME Inv, NEW t \in Threads, thread[t].pc = "list"
    PROVE  /\ Listing(thread[t]) /\ lock = t
           /\ \A u \in Threads \ {t} : thread[u] \in {Idle, Ready} \/ Walking(thread[u])
<1>1. \A u \in Threads : ThreadOK(thread[u]) /\ (thread[u].pc = "list" <=> lock = u)
  BY DEF Inv, ThreadsOK, LockOK
<1>2. Listing(thread[t]) /\ lock = t
  BY <1>1, PcShape
<1>3. \A u \in Threads : Listing(thread[u]) => thread[u].pc = "list"
  BY DEF Listing
<1> QED
  BY <1>1, <1>2, <1>3 DEF ThreadOK

\* A step of the lister, or by which a thread becomes the lister or stops being it.
LEMMA ListerStep ==
    ASSUME Inv, NEW t \in Threads, NEW w, thread' = [thread EXCEPT ![t] = w],
           UNCHANGED <<platform, at>>, IndexOK',
           \A u \in Threads \ {t} : thread[u] \in {Idle, Ready} \/ Walking(thread[u]),
           \/ w \in {Idle, Ready} /\ lock' = NoThread
           \/ w.pc = "list" /\ Listing(w)' /\ lock' = t
    PROVE  Inv'
<1>1. PICK S : thread \in [Threads -> S]
  BY DEF Inv, ThreadsOK
<1>2. PICK T : T = S \cup {w}
  OBVIOUS
<1>3. thread' \in [Threads -> T]
  BY <1>1, <1>2
<1>4. thread'[t] = w /\ \A u \in Threads \ {t} : thread'[u] = thread[u]
  BY <1>1
<1>5. ASSUME NEW u \in Threads \ {t}
      PROVE  ThreadOK(thread[u])' /\ thread'[u].pc # "list"
  <2>1. PICK v : v = thread[u] /\ v = thread'[u]
    BY <1>4
  <2>2. v \in {Idle, Ready} \/ Walking(v)
    BY <2>1
  <2>3. ThreadOK(v) /\ v.pc # "list"
    BY <2>2, PcShape DEF ThreadOK
  <2> QED
    BY <2>1, <2>2, <2>3 DEF ThreadOK, Walking, MaxLength
<1>6. CASE w \in {Idle, Ready} /\ lock' = NoThread
  <2>1. ThreadOK(thread[t])' /\ thread'[t].pc # "list"
    BY <1>4, <1>6 DEF ThreadOK, Idle, Ready
  <2>2. ThreadsOK'
    BY <1>3, <1>5, <2>1 DEF ThreadsOK
  <2>3. LockOK'
    BY <1>5, <1>6, <2>1, UsbAssumption DEF LockOK
  <2> QED
    BY <2>2, <2>3 DEF Inv, AtOK
<1>7. CASE w.pc = "list" /\ Listing(w)' /\ lock' = t
  <2>1. ThreadOK(thread[t])' /\ thread'[t].pc = "list"
    BY <1>4, <1>7 DEF ThreadOK, Listing
  <2>2. ThreadsOK'
    BY <1>3, <1>5, <2>1 DEF ThreadsOK
  <2>3. LockOK'
    BY <1>5, <1>7, <2>1 DEF LockOK
  <2> QED
    BY <2>2, <2>3 DEF Inv, AtOK
<1> QED
  BY <1>6, <1>7

\* The steps of populate_controllers().
LEMMA PopulateInv == ASSUME Inv, NEW t \in Threads, populate_controllers(t) PROVE Inv'
<1>1. /\ thread[t].pc = "idle" /\ lock = NoThread /\ UNCHANGED <<platform, at, index>>
  BY DEF populate_controllers
<1>2. CASE ~NoneListed
  BY <1>1, <1>2, ThreadStep DEF populate_controllers
<1>3. CASE NoneListed
  <2>1. PICK w : w = [pc |-> "list", i |-> 0, todo |-> Controllers]
    OBVIOUS
  <2>2. thread' = [thread EXCEPT ![t] = w] /\ lock' = t
    BY <1>3, <2>1 DEF populate_controllers
  <2>3. w.pc = "list" /\ w.i = 0 /\ w.todo = Controllers
    BY <2>1
  <2>4. w \in [pc : {"list"}, i : 0 .. MaxIndex, todo : SUBSET Controllers]
    BY <2>1, UsbAssumption
  <2>5. Listing(w)'
    BY <1>1, <1>3, <2>3, <2>4 DEF Listing, NoneListed
  <2>6. IndexOK'
    BY <1>1 DEF Inv, IndexOK
  <2>7. \A u \in Threads \ {t} : thread[u] \in {Idle, Ready} \/ Walking(thread[u])
    <3>1. \A u \in Threads : ThreadOK(thread[u]) /\ thread[u].pc # "list"
      BY <1>1, UsbAssumption DEF Inv, ThreadsOK, LockOK
    <3> QED
      BY <3>1 DEF ThreadOK, Listing
  <2> QED
    BY <1>1, <2>2, <2>3, <2>5, <2>6, <2>7, ListerStep
<1> QED
  BY <1>2, <1>3

\* A controller that is listed gets a number above those given, and had none.
LEMMA AddInv ==
    ASSUME Inv, NEW t \in Threads, add_controller(t)
    PROVE  Inv' /\ \A c \in Controllers : index[c] # 0 => index'[c] = index[c]
<1>1. /\ thread[t].pc = "list" /\ UNCHANGED <<platform, at, lock>>
  BY DEF add_controller
<1>2. PICK w : w = thread[t]
  OBVIOUS
<1>3. /\ Listing(w) /\ lock = t
      /\ \A u \in Threads \ {t} : thread[u] \in {Idle, Ready} \/ Walking(thread[u])
  BY <1>1, <1>2, OneLister
<1>4. /\ w \in [pc : {"list"}, i : 0 .. MaxIndex, todo : SUBSET Controllers]
      /\ \A c \in Controllers : index[c] <= w.i
      /\ \A c \in w.todo : index[c] = 0
  BY <1>3 DEF Listing
<1>5. w.i \in Nat /\ w.i + 1 \in 0 .. MaxIndex
  <2>1. w.i < LastIndex /\ LastIndex \in {MaxIndex, MaxIndex - 1} /\ MaxIndex \in Nat
    BY <1>2, UsbAssumption DEF add_controller, LastIndex
  <2>2. w.i \in 0 .. MaxIndex
    BY <1>4
  <2> QED
    BY <2>1, <2>2
<1>6. PICK c \in w.todo :
        /\ index' = [index EXCEPT ![c] = w.i + 1] \/ index' = index
        /\ thread' = [thread EXCEPT ![t].i = @ + 1, ![t].todo = @ \ {c}]
  BY <1>2 DEF add_controller
<1>7. PICK v : v = [w EXCEPT !.i = w.i + 1, !.todo = w.todo \ {c}]
  OBVIOUS
<1>8. thread' = [thread EXCEPT ![t] = v]
  BY <1>2, <1>6, <1>7
<1>9. /\ v \in [pc : {"list"}, i : 0 .. MaxIndex, todo : SUBSET Controllers]
      /\ v.pc = "list" /\ v.i = w.i + 1 /\ v.todo = w.todo \ {c}
  BY <1>4, <1>5, <1>7
<1>10. c \in Controllers /\ index[c] = 0
  BY <1>4
<1>11. index \in [Controllers -> 0 .. MaxIndex] /\ IndexOK
  BY DEF Inv, IndexOK
<1>12. \A e \in Controllers \ {c} : index'[e] = index[e]
  BY <1>6, <1>11
<1>13. index' \in [Controllers -> 0 .. MaxIndex] /\ index'[c] \in {0, w.i + 1}
  BY <1>5, <1>6, <1>10, <1>11
<1>14. \A e \in Controllers : index[e] \in Nat /\ index[e] <= w.i
  BY <1>4, <1>11
<1>15. ASSUME NEW d \in Controllers, NEW e \in Controllers, index'[d] = index'[e], index'[d] # 0
       PROVE  d = e
  <2>1. CASE d = c /\ e # c
    BY <1>5, <1>12, <1>13, <1>14, <1>15, <2>1
  <2>2. CASE d # c /\ e = c
    BY <1>5, <1>12, <1>13, <1>14, <1>15, <2>2
  <2>3. CASE d # c /\ e # c
    BY <1>11, <1>12, <1>15, <2>3 DEF IndexOK
  <2> QED
    BY <2>1, <2>2, <2>3
<1>16. IndexOK'
  BY <1>13, <1>15 DEF IndexOK
<1>17. \A e \in Controllers : index'[e] <= v.i
  BY <1>5, <1>9, <1>12, <1>13, <1>14
<1>18. \A e \in v.todo : index'[e] = 0
  BY <1>4, <1>9, <1>12
<1>19. Listing(v)'
  BY <1>9, <1>17, <1>18 DEF Listing
<1>20. Inv'
  BY <1>1, <1>3, <1>8, <1>9, <1>16, <1>19, ListerStep
<1> QED
  BY <1>10, <1>12, <1>20

\* The list stays as it is when it ends, by an error or not.
LEMMA EndsInv == ASSUME Inv, NEW t \in Threads, ListEnds(t) PROVE Inv'
<1>1. /\ thread[t].pc = "list" /\ lock' = NoThread /\ UNCHANGED <<platform, at, index>>
  BY DEF ListEnds
<1>2. \A u \in Threads \ {t} : thread[u] \in {Idle, Ready} \/ Walking(thread[u])
  BY <1>1, OneLister
<1>3. PICK w \in {Idle, Ready} : thread' = [thread EXCEPT ![t] = w]
  BY DEF ListEnds
<1>4. IndexOK'
  BY <1>1 DEF Inv, IndexOK
<1> QED
  BY <1>1, <1>2, <1>3, <1>4, ListerStep

-----------------------------------------------------------------------------
(* The tree of devices. *)

\* Whatever is plugged or unplugged, the walks keep their shape.
LEMMA TreeInv ==
    ASSUME Inv, NEW n \in Hubs \cup Devices, Plug(n) \/ Unplug(n)
    PROVE  Inv'
<1>1. UNCHANGED <<platform, index, lock>> /\ AtOK
  BY DEF Inv, Plug, Unplug
<1>2. AtOK'
  <2>1. CASE Plug(n)
    BY <1>1, <2>1 DEF Plug, AtOK
  <2>2. CASE Unplug(n)
    <3>1. PICK B : at' = [m \in DOMAIN at |-> IF m \in B THEN Nowhere ELSE at[m]]
      BY <2>2 DEF Unplug
    <3> QED
      BY <1>1, <3>1 DEF AtOK
  <2> QED
    BY <2>1, <2>2
<1>3. PICK S : thread \in [Threads -> S]
  BY DEF Inv, ThreadsOK
<1>4. \A t \in Threads : ThreadOK(thread[t])
  BY DEF Inv, ThreadsOK
<1>5. \A t \in Threads :
         \/ thread'[t] = thread[t]
         \/ /\ thread[t].pc \in WalkPcs
            /\ thread'[t] = [thread[t] EXCEPT !.disturbed = TRUE]
  BY DEF Plug, Unplug, WalkPcs
<1>6. \E T : thread' \in [Threads -> T]
  <2>1. CASE Plug(n)
    BY <1>3, <2>1 DEF Plug
  <2>2. CASE Unplug(n)
    <3>1. thread' = [t \in Threads |-> thread'[t]]
      BY <2>2 DEF Unplug
    <3>2. thread' \in [Threads -> {thread'[t] : t \in Threads}]
      BY <3>1
    <3> QED
      BY <3>2
  <2> QED
    BY <2>1, <2>2
<1>7. ASSUME NEW t \in Threads
      PROVE  ThreadOK(thread[t])' /\ thread'[t].pc = thread[t].pc
  <2>1. PICK w, v : w = thread[t] /\ v = thread'[t]
    OBVIOUS
  <2>2. CASE v = w
    <3>1. ThreadOK(w)
      BY <1>4, <2>1
    <3> QED
      BY <1>1, <2>1, <2>2, <3>1 DEF ThreadOK, Listing, Walking, MaxLength
  <2>3. CASE w.pc \in WalkPcs /\ v = [w EXCEPT !.disturbed = TRUE]
    <3>1. Walking(w)
      BY <1>4, <2>1, <2>3, PcShape
    <3>2. PICK R : w \in Walks(R)
      BY <3>1 DEF Walking
    <3>3. v \in Walks(R \cup {TRUE}) /\ v.pc = w.pc /\ v.ports = w.ports
      BY <2>3, <3>2 DEF Walks
    <3>4. Walking(v)
      BY <3>1, <3>3 DEF Walking
    <3> QED
      BY <1>1, <2>1, <3>3, <3>4 DEF ThreadOK, Walking, MaxLength
  <2> QED
    BY <1>5, <2>1, <2>2, <2>3
<1>8. ThreadsOK' /\ LockOK'
  BY <1>1, <1>6, <1>7 DEF ThreadsOK, LockOK, Inv
<1> QED
  BY <1>1, <1>2, <1>8 DEF Inv, IndexOK

-----------------------------------------------------------------------------
\* It holds at the start.
LEMMA InitInv == Init => Inv
<1> SUFFICES ASSUME Init PROVE Inv
  OBVIOUS
<1>1. thread \in [Threads -> {Idle}] /\ \A t \in Threads : thread[t].pc # "list"
  BY DEF Init, Idle
<1>2. ThreadsOK
  BY <1>1 DEF ThreadsOK, ThreadOK
<1>3. LockOK
  BY <1>1, UsbAssumption DEF LockOK, Init
<1> QED
  BY <1>2, <1>3, UsbAssumption DEF Init, Inv, AtOK, IndexOK

\* Every step preserves it.
LEMMA NextInv == ASSUME Inv, [Next]_vars PROVE Inv'
<1>1. CASE UNCHANGED vars
  BY <1>1 DEF vars, Inv, AtOK, IndexOK, LockOK, ThreadsOK, ThreadOK, Listing, Walking, MaxLength
<1>2. CASE \E n \in Hubs \cup Devices : Plug(n) \/ Unplug(n)
  BY <1>2, TreeInv
<1>3. ASSUME NEW t \in Threads, Populate(t) PROVE Inv'
  BY <1>3, PopulateInv, AddInv, EndsInv DEF Populate
<1>4. ASSUME NEW t \in Threads, Walk(t) PROVE Inv'
  BY <1>4, WalkWin32Inv, ClimbWin32Inv, WalkDarwinInv, ClimbDarwinInv, LookupInv DEF Walk
<1>5. ASSUME NEW t \in Threads, \E d \in Devices \cup Functions : resolve_device_location(t, d)
      PROVE  Inv'
  BY <1>5, LookupInv
<1> QED
  BY <1>1, <1>2, <1>3, <1>4, <1>5 DEF Next

\* Inv is an invariant of any number of threads, controllers, hubs and devices.
THEOREM Invariance == Spec => []Inv
BY InitInv, NextInv, PTL DEF Spec

\* Two controllers never share a number, although threads that enumerate for the
\* first time race and may fail half-way, and the ports that
\* resolve_device_location() finds stay within its array while hubs and devices
\* move under it.
THEOREM TypeCorrect == Spec => []TypeOK
<1>1. Inv => TypeOK
  <2> SUFFICES ASSUME Inv PROVE TypeOK
    OBVIOUS
  <2>1. ASSUME NEW n \in Nodes, Plugged(n) PROVE Up(n) \in Nodes \cup Controllers
    <3>1. CASE n \in Functions
      <4>1. Place(n) = [up |-> FunctionOf[n], port |-> 0] /\ FunctionOf[n] \in Devices
        BY <3>1, UsbAssumption DEF Place
      <4> QED
        BY <4>1 DEF Up, Nodes
    <3>2. CASE n \notin Functions
      <4>1. n \in Hubs \cup Devices /\ at[n] # Nowhere
        BY <2>1, <3>2, UsbAssumption DEF Nodes, Plugged
      <4>2. at[n] \in Sockets /\ Up(n) = at[n].up
        BY <3>2, <4>1 DEF Inv, AtOK, Up, Place
      <4> QED
        BY <4>2, UsbAssumption DEF Nodes
    <3> QED
      BY <3>1, <3>2
  <2>2. ASSUME NEW t \in Threads
        PROVE  /\ thread[t].pc \in Pcs
               /\ thread[t].pc \in {"walk", "climb"} => Len(thread[t].ports) <= MaxDepth
               /\ thread[t].pc = "done" => Len(thread[t].ports) <= MaxLength
    <3>1. ThreadOK(thread[t])
      BY DEF Inv, ThreadsOK
    <3>2. thread[t].pc \in Pcs
      BY <3>1, PcShape
    <3>3. CASE thread[t].pc \in {"walk", "climb", "done"}
      <4>1. Walking(thread[t]) /\ Len(thread[t].ports) \in Nat
        BY <3>3, WalkFacts DEF WalkPcs
      <4>2. MaxLength - 1 <= MaxDepth /\ MaxLength \in Nat /\ MaxDepth \in Nat
        BY Lengths, UsbAssumption DEF MaxLength
      <4>3. thread[t].pc \in {"walk", "climb"} => Len(thread[t].ports) <= MaxDepth
        BY <4>1, <4>2 DEF Walking
      <4>4. thread[t].pc = "done" => Len(thread[t].ports) <= MaxLength
        BY <4>1 DEF Walking
      <4> QED
        BY <3>2, <4>3, <4>4
    <3> QED
      BY <3>2, <3>3
  <2> QED
    BY <2>1, <2>2 DEF TypeOK, Inv, IndexOK, LockOK
<1> QED
  BY <1>1, Invariance, PTL

\* The number of a controller never changes once it has one: only one thread
\* fills the list, once, and gives each controller at most one number.
THEOREM ListFixedCorrect == Spec => ListFixed
<1>1. ASSUME Inv, [Next]_vars
      PROVE  [\A c \in Controllers : index[c] # 0 => index'[c] = index[c]]_vars
  <2> SUFFICES ASSUME Next
               PROVE  \A c \in Controllers : index[c] # 0 => index'[c] = index[c]
    BY <1>1
  <2>1. CASE \E t \in Threads : add_controller(t)
    BY <1>1, <2>1, AddInv
  <2>2. CASE ~\E t \in Threads : add_controller(t)
    <3>1. index' = index
      BY <2>2 DEF Next, Plug, Unplug, Populate, populate_controllers, ListEnds, Walk,
                  WalkWin32, ClimbWin32, WalkDarwin, ClimbDarwin, Resolved,
                  resolve_device_location
    <3> QED
      BY <3>1
  <2> QED
    BY <2>1, <2>2
<1> QED
  BY <1>1, Invariance, PTL DEF Spec, ListFixed

-----------------------------------------------------------------------------
(* The way to a node. *)

\* What Route is at n, given what f says of the node above.
RouteAt(f, n) ==
    IF n \in Controllers \/ ~Plugged(n) THEN [root |-> n, over |-> {n}, ports |-> <<>>]
    ELSE LET up == f[Up(n)]
             port == Place(n).port
         IN  [root |-> up.root, over |-> up.over \cup {n},
              ports |-> IF port = 0 THEN up.ports ELSE Append(up.ports, port)]

All == Nodes \cup Controllers

\* Each node is further from its controller than the one above.
Ranked(rank) == \A n \in Nodes : Plugged(n) => rank[Up(n)] < rank[n]

\* The plugged nodes are a forest: what is above a plugged node is plugged too,
\* and on no way does a node come twice.
Forest ==
    /\ AtOK
    /\ \A n \in Nodes : Plugged(n) => Plugged(Up(n))
    /\ \E K \in Nat : \E rank \in [All -> 0 .. K] : Ranked(rank)

\* A set of natural numbers that is not empty has a smallest element: induction,
\* in a form that names no predicate.
LEMMA SmallestOf ==
    ASSUME NEW S, S \subseteq Nat, S # {}
    PROVE  \E n \in S : \A m \in S : n <= m
<1>1. PICK n \in S : \A m \in S : ~(<<m, n>> \in OpToRel(<, Nat))
  BY NatLessThanWellFounded, WFMin, Zenon
<1>2. \A m \in S : ~(m < n)
  BY <1>1 DEF OpToRel
<1> QED
  BY <1>2

\* Of a set of nodes, one is nearest to its controller.
LEMMA Nearest ==
    ASSUME NEW K \in Nat, NEW rank \in [All -> 0 .. K], NEW B, B \subseteq All, B # {}
    PROVE  \E n \in B : \A m \in B : rank[n] <= rank[m]
<1>1. PICK R : R = {rank[n] : n \in B}
  OBVIOUS
<1>2. R \subseteq Nat /\ R # {}
  BY <1>1
<1>3. PICK r \in R : \A s \in R : r <= s
  BY <1>2, SmallestOf
<1> QED
  BY <1>1, <1>3

\* What is above a plugged node is a node or a controller.
LEMMA UpIn ==
    ASSUME AtOK, NEW n \in Nodes, Plugged(n)
    PROVE  /\ Up(n) \in All
           /\ n \in Functions => Up(n) = FunctionOf[n] /\ Up(n) \in Devices /\ Place(n).port = 0
           /\ n \in Hubs \cup Devices => /\ at[n] \in Sockets /\ Up(n) = at[n].up
                                         /\ Place(n) = at[n]
                                         /\ Up(n) \in Controllers \cup Hubs
                                         /\ Place(n).port \in Nat \ {0}
<1>1. CASE n \in Functions
  <2>1. Place(n) = [up |-> FunctionOf[n], port |-> 0] /\ FunctionOf[n] \in Devices
    BY <1>1, UsbAssumption DEF Place
  <2> QED
    BY <1>1, <2>1, UsbAssumption DEF Up, Nodes, All
<1>2. CASE n \notin Functions
  <2>1. n \in Hubs \cup Devices /\ at[n] # Nowhere
    BY <1>2, UsbAssumption DEF Nodes, Plugged
  <2>2. at[n] \in Sockets /\ Place(n) = at[n] /\ Up(n) = at[n].up
    BY <1>2, <2>1 DEF AtOK, Up, Place
  <2> QED
    BY <1>2, <2>2, UsbAssumption DEF Nodes, All
<1> QED
  BY <1>1, <1>2

\* The recursive definition of Route has a solution.
LEMMA RouteDef ==
    Forest => Route = [n \in All |-> RouteAt(Route, n)]
<1> SUFFICES ASSUME Forest PROVE Route = [n \in All |-> RouteAt(Route, n)]
  OBVIOUS
<1>0. PICK K \in Nat : \E rank \in [All -> 0 .. K] : Ranked(rank)
  BY DEF Forest
<1>1. PICK rank \in [All -> 0 .. K] : Ranked(rank)
  BY <1>0
<1> DEFINE Good(f, k) == \A n \in All : rank[n] < k => f[n] = RouteAt(f, n)
           Bad == {k \in Nat : ~\E f : Good(f, k)}
<1>2. ASSUME NEW f, NEW g, NEW n \in All, n \in Nodes /\ Plugged(n) => f[Up(n)] = g[Up(n)]
      PROVE  RouteAt(f, n) = RouteAt(g, n)
  BY <1>2 DEF RouteAt, All
<1>3. ASSUME NEW k \in Nat, NEW f, Good(f, k)
      PROVE  \E g : Good(g, k + 1)
  <2>1. PICK g : g = [n \in All |-> IF rank[n] < k THEN f[n] ELSE RouteAt(f, n)]
    OBVIOUS
  <2>2. ASSUME NEW n \in All, rank[n] < k + 1 PROVE g[n] = RouteAt(g, n)
    <3>1. RouteAt(f, n) = RouteAt(g, n)
      <4>1. ASSUME n \in Nodes, Plugged(n) PROVE f[Up(n)] = g[Up(n)]
        <5>1. Up(n) \in All
          BY <4>1, UpIn DEF Forest
        <5>2. rank[Up(n)] < rank[n]
          BY <1>1, <4>1 DEF Ranked
        <5>3. rank[Up(n)] \in Nat /\ rank[n] \in Nat
          BY <5>1
        <5>4. rank[Up(n)] < k
          BY <2>2, <5>2, <5>3
        <5> QED
          BY <2>1, <5>1, <5>4
      <4> QED
        BY <1>2, <4>1
    <3>2. CASE rank[n] < k
      <4>1. g[n] = f[n]
        BY <2>1, <3>2
      <4>2. f[n] = RouteAt(f, n)
        BY <1>3, <3>2
      <4> QED
        BY <3>1, <4>1, <4>2
    <3>3. CASE ~(rank[n] < k)
      BY <2>1, <3>1, <3>3
    <3> QED
      BY <3>2, <3>3
  <2> QED
    BY <2>2
<1>4. Bad = {}
  <2> SUFFICES ASSUME Bad # {} PROVE FALSE
    OBVIOUS
  <2>1. PICK k \in Bad : \A m \in Bad : k <= m
    BY SmallestOf
  <2>2. k # 0
    <3>1. \A n \in All : ~(rank[n] < 0)
      OBVIOUS
    <3> QED
      BY <3>1
  <2>3. k - 1 \in Nat /\ ~(k - 1 \in Bad)
    BY <2>1, <2>2
  <2>4. PICK f : Good(f, k - 1)
    BY <2>3
  <2>5. \E g : Good(g, (k - 1) + 1)
    BY <1>3, <2>3, <2>4
  <2> QED
    BY <2>1, <2>5
<1>5. PICK f : Good(f, K + 1)
  BY <1>4
<1>6. PICK g : g = [n \in All |-> f[n]]
  OBVIOUS
<1>7. g = [n \in All |-> RouteAt(g, n)]
  <2>1. ASSUME NEW n \in All PROVE f[n] = RouteAt(g, n)
    <3>1. f[n] = RouteAt(f, n)
      BY <1>5
    <3>2. n \in Nodes /\ Plugged(n) => f[Up(n)] = g[Up(n)]
      BY <1>6, UpIn DEF Forest
    <3> QED
      BY <1>2, <3>1, <3>2
  <2> QED
    BY <1>6, <2>1
<1> QED
  BY <1>7 DEF Route, RouteAt, All

\* The way to a node, in terms of the way to the one above it.
RouteStep(n) ==
    /\ n \in Controllers =>
         Route[n].root = n /\ Route[n].over = {n} /\ Route[n].ports = <<>>
    /\ n \in Nodes /\ Plugged(n) =>
         /\ Route[n].root = Route[Up(n)].root
         /\ Route[n].over = Route[Up(n)].over \cup {n}
         /\ Route[n].ports = IF Place(n).port = 0 THEN Route[Up(n)].ports
                             ELSE Append(Route[Up(n)].ports, Place(n).port)
    /\ n \in Nodes /\ ~Plugged(n) => Route[n].ports = <<>> /\ Route[n].over = {n}

\* These are the values of Route.
LEMMA RouteSteps ==
    Forest => \A n \in All : RouteStep(n)
<1> SUFFICES ASSUME Forest, NEW n \in All PROVE RouteStep(n)
  OBVIOUS
<1>1. Route[n] = RouteAt(Route, n)
  BY RouteDef
<1>2. n \in Nodes => n \notin Controllers
  BY UsbAssumption DEF Nodes
<1>3. CASE n \in Controllers \/ ~Plugged(n)
  BY <1>1, <1>2, <1>3 DEF RouteAt, RouteStep, Plugged
<1>4. CASE ~(n \in Controllers \/ ~Plugged(n))
  <2>1. PICK up, port : up = Route[Up(n)] /\ port = Place(n).port
    OBVIOUS
  <2>2. Route[n] = [root |-> up.root, over |-> up.over \cup {n},
                    ports |-> IF port = 0 THEN up.ports ELSE Append(up.ports, port)]
    BY <1>1, <1>4, <2>1 DEF RouteAt
  <2>3. /\ Route[n].root = up.root /\ Route[n].over = up.over \cup {n}
        /\ Route[n].ports = IF port = 0 THEN up.ports ELSE Append(up.ports, port)
    BY <2>2
  <2> QED
    BY <1>4, <2>1, <2>3 DEF RouteStep
<1> QED
  BY <1>3, <1>4

\* The same in the next state.
LEMMA RouteStepsNext ==
    Forest' => (\A n \in All : RouteStep(n))'
BY RouteSteps, PTL

\* A way starts at a controller, and the ports on it are numbers.
RouteType(n) ==
    /\ Plugged(n) => Route[n].root \in Controllers
    /\ Route[n].ports \in Seq(Nat)
    /\ n \in Route[n].over

\* By induction along the way.
LEMMA RouteTypes ==
    Forest => \A n \in All : RouteType(n)
<1> SUFFICES ASSUME Forest PROVE \A n \in All : RouteType(n)
  OBVIOUS
<1>1. PICK K \in Nat : \E rank \in [All -> 0 .. K] : Ranked(rank)
  BY DEF Forest
<1>2. PICK rank \in [All -> 0 .. K] : Ranked(rank)
  BY <1>1
<1> DEFINE Bad == {n \in All : ~RouteType(n)}
<1> SUFFICES ASSUME Bad # {} PROVE FALSE
  OBVIOUS
<1>3. PICK n \in Bad : \A m \in Bad : rank[n] <= rank[m]
  BY Nearest
<1>4. RouteStep(n)
  BY RouteSteps
<1>5. CASE n \in Nodes /\ Plugged(n)
  <2>1. Up(n) \in All /\ Plugged(Up(n)) /\ Place(n).port \in Nat
    BY <1>5, UpIn, UsbAssumption DEF Forest, Nodes
  <2>2. rank[Up(n)] < rank[n]
    BY <1>2, <1>5 DEF Ranked
  <2>3. RouteType(Up(n))
    <3>1. rank[Up(n)] \in Nat /\ rank[n] \in Nat
      BY <2>1
    <3> QED
      BY <1>3, <2>1, <2>2, <3>1
  <2>4. Append(Route[Up(n)].ports, Place(n).port) \in Seq(Nat)
    BY <2>1, <2>3, AppendProperties DEF RouteType
  <2>5. RouteType(n)
    BY <1>4, <1>5, <2>1, <2>3, <2>4 DEF RouteType, RouteStep
  <2> QED
    BY <2>5
<1>6. CASE ~(n \in Nodes /\ Plugged(n))
  <2>1. <<>> \in Seq(Nat)
    BY EmptySeq
  <2>2. n \in Controllers \/ (n \in Nodes /\ ~Plugged(n))
    BY <1>6 DEF All
  <2>3. RouteType(n)
    BY <1>4, <2>1, <2>2 DEF RouteType, RouteStep
  <2> QED
    BY <2>3
<1> QED
  BY <1>5, <1>6

\* The way to a node stays the same when it and those above it stay where they are.
Stays(n) ==
    /\ Plugged(n) /\ Plugged(n)'
    /\ n \in Nodes => Place(n)' = Place(n)

\* By induction along the way: the same equations have the same solution.
LEMMA RouteKept ==
    ASSUME Forest, Forest', NEW G, G \subseteq All,
           \A n \in G : Stays(n) /\ (n \in Nodes => Up(n) \in G)
    PROVE  \A n \in G : /\ Route'[n].root = Route[n].root /\ Route'[n].over = Route[n].over
                         /\ Route'[n].ports = Route[n].ports
<1>1. PICK K \in Nat : \E rank \in [All -> 0 .. K] : Ranked(rank)
  BY DEF Forest
<1>2. PICK rank \in [All -> 0 .. K] : Ranked(rank)
  BY <1>1
<1> DEFINE Same(n) == /\ Route'[n].root = Route[n].root /\ Route'[n].over = Route[n].over
                      /\ Route'[n].ports = Route[n].ports
           Bad == {n \in G : ~Same(n)}
<1> SUFFICES ASSUME Bad # {} PROVE FALSE
  OBVIOUS
<1>3. PICK n \in Bad : \A m \in Bad : rank[n] <= rank[m]
  BY Nearest
<1>4. n \in All /\ Stays(n)
  OBVIOUS
<1>5. RouteStep(n)
  BY <1>4, RouteSteps
<1>6. RouteStep(n)'
  <2>1. (\A m \in All : RouteStep(m))'
    BY RouteStepsNext
  <2> QED
    BY <1>4, <2>1 DEF All, Nodes
<1>7. CASE n \in Controllers
  BY <1>3, <1>5, <1>6, <1>7 DEF RouteStep
<1>8. CASE n \in Nodes
  <2>1. Up(n) \in G /\ rank[Up(n)] < rank[n]
    BY <1>2, <1>4, <1>8 DEF Ranked, Stays
  <2>2. rank[Up(n)] \in Nat /\ rank[n] \in Nat
    BY <1>4, <2>1
  <2>3. Same(Up(n))
    BY <1>3, <2>1, <2>2
  <2>4. Up(n)' = Up(n) /\ Place(n)'.port = Place(n).port
    BY <1>4, <1>8 DEF Stays, Up
  <2>5. Plugged(n) /\ Plugged(n)'
    BY <1>4 DEF Stays
  <2>6. PICK u, p : u = Up(n) /\ p = Place(n).port
    OBVIOUS
  <2>7. /\ Route[n].root = Route[u].root
        /\ Route[n].over = Route[u].over \cup {n}
        /\ Route[n].ports = IF p = 0 THEN Route[u].ports ELSE Append(Route[u].ports, p)
    BY <1>5, <1>8, <2>5, <2>6 DEF RouteStep
  <2>8. /\ Route'[n].root = Route'[u].root
        /\ Route'[n].over = Route'[u].over \cup {n}
        /\ Route'[n].ports = IF p = 0 THEN Route'[u].ports ELSE Append(Route'[u].ports, p)
    BY <1>6, <1>8, <2>4, <2>5, <2>6 DEF RouteStep, Nodes
  <2>9. Same(n)
    BY <2>3, <2>6, <2>7, <2>8
  <2> QED
    BY <2>9
<1> QED
  BY <1>4, <1>7, <1>8 DEF All

-----------------------------------------------------------------------------
(* Hubs and devices that come and go. *)

\* At the start nothing is plugged.
LEMMA ForestInit == Init => Forest
<1> SUFFICES ASSUME Init PROVE Forest
  OBVIOUS
<1>1. AtOK
  BY DEF Init, AtOK
<1>2. \A n \in Nodes : ~Plugged(n)
  BY UsbAssumption DEF Init, Plugged, Nodes
<1>3. [n \in All |-> 0] \in [All -> 0 .. 0]
  OBVIOUS
<1>4. Ranked([n \in All |-> 0])
  BY <1>2 DEF Ranked
<1> QED
  BY <1>1, <1>2, <1>3, <1>4 DEF Forest

\* Steps of the threads leave the tree alone.
LEMMA ForestSame ==
    ASSUME Forest, UNCHANGED at
    PROVE  Forest' /\ \A n \in All : Plugged(n) => Stays(n)
<1>1. \A n : Plugged(n)' = Plugged(n) /\ Place(n)' = Place(n) /\ Up(n)' = Up(n)
  BY DEF Plugged, Place, Up
<1>2. \A rank : Ranked(rank)' = Ranked(rank)
  BY <1>1 DEF Ranked, Nodes
<1>3. AtOK'
  BY DEF Forest, AtOK
<1> QED
  BY <1>1, <1>2, <1>3 DEF Forest, Stays, Nodes, All

\* What is plugged to a free port of a hub that is itself plugged leaves the rest
\* as it is.
LEMMA PlugForest ==
    ASSUME Forest, NEW n \in Hubs \cup Devices, Plug(n)
    PROVE  /\ Forest' /\ \A m \in All : Plugged(m) => Stays(m)
           /\ Plugged(n)'
           /\ \E u \in All : u = Up(n)' /\ Plugged(u) /\ Len(PathTo(u)) < MaxTier
           /\ \A m \in All :
                Plugged(m)' => Plugged(m) \/ m = n \/ (m \in Functions /\ FunctionOf[m] = n)
<1>1. PICK s \in Sockets : /\ Plugged(s.up) /\ Len(PathTo(s.up)) < MaxTier
                           /\ at' = [at EXCEPT ![n] = s]
  BY DEF Plug
<1>2. at[n] = Nowhere /\ ~Plugged(n)
  BY UsbAssumption DEF Plug, Plugged
<1>3. /\ AtOK /\ at'[n] = s /\ s # Nowhere /\ s.up \in Controllers \cup Hubs
      /\ \A m \in (Hubs \cup Devices) \ {n} : at'[m] = at[m]
  BY <1>1, UsbAssumption DEF Forest, AtOK
<1>4. AtOK'
  BY <1>1, <1>3 DEF AtOK
<1>5. ASSUME NEW m \in All, Plugged(m) PROVE Stays(m) /\ m # n
  <2>1. m # n
    BY <1>2, <1>5
  <2>2. CASE m \in Controllers
    BY <2>1, <2>2, UsbAssumption DEF Stays, Plugged, Nodes
  <2>3. CASE m \in Functions
    <3>1. at[FunctionOf[m]] # Nowhere /\ FunctionOf[m] \in Devices
      BY <1>5, <2>3, UsbAssumption DEF Plugged
    <3>2. at'[FunctionOf[m]] # Nowhere
      BY <1>2, <1>3, <3>1
    <3> QED
      BY <1>5, <2>1, <2>3, <3>2 DEF Stays, Plugged, Place
  <2>4. CASE m \in Hubs \cup Devices
    <3>1. at[m] # Nowhere /\ m \notin Functions
      BY <1>5, <2>4, UsbAssumption DEF Plugged
    <3>2. at'[m] = at[m]
      BY <1>3, <2>1, <2>4
    <3> QED
      BY <1>5, <2>1, <2>4, <3>1, <3>2 DEF Stays, Plugged, Place
  <2> QED
    BY <2>2, <2>3, <2>4 DEF All, Nodes
<1>6. Plugged(n)' /\ Up(n)' = s.up /\ s.up \in All /\ s.up # n /\ Plugged(s.up)'
  <2>1. Plugged(n)' /\ Up(n)' = s.up
    BY <1>3, UsbAssumption DEF Plugged, Up, Place
  <2>2. s.up \in All
    BY <1>3 DEF All, Nodes
  <2> QED
    BY <1>1, <1>5, <2>1, <2>2 DEF Stays
<1>7. ASSUME NEW m \in All, Plugged(m)', ~Plugged(m), m # n
      PROVE  m \in Functions /\ FunctionOf[m] = n
  <2>1. m \notin Controllers
    BY <1>7 DEF Plugged
  <2>2. m \notin Hubs \cup Devices
    BY <1>3, <1>7, UsbAssumption DEF Plugged
  <2>3. m \in Functions
    BY <2>1, <2>2 DEF All, Nodes
  <2>4. at'[FunctionOf[m]] # Nowhere /\ at[FunctionOf[m]] = Nowhere /\ FunctionOf[m] \in Devices
    BY <1>7, <2>3, <2>2, <2>1, UsbAssumption DEF Plugged
  <2> QED
    BY <1>3, <2>3, <2>4
<1>8. ASSUME NEW m \in Functions, FunctionOf[m] = n
      PROVE  Up(m)' = n
  BY <1>8 DEF Up, Place
<1>9. \A m \in Nodes : Plugged(m)' => Plugged(Up(m))'
  <2> SUFFICES ASSUME NEW m \in Nodes, Plugged(m)' PROVE Plugged(Up(m))'
    OBVIOUS
  <2>1. CASE Plugged(m)
    <3>1. Plugged(Up(m)) /\ Up(m) \in All
      BY <2>1, UpIn DEF Forest
    <3>2. PICK u : u = Up(m)
      OBVIOUS
    <3>3. Stays(m) /\ Stays(u)
      BY <1>5, <2>1, <3>1, <3>2 DEF All
    <3>4. Up(m)' = u
      BY <3>2, <3>3 DEF Stays, Up
    <3>5. Plugged(u)'
      BY <3>3 DEF Stays
    <3> QED
      BY <3>4, <3>5
  <2>2. CASE m = n
    BY <1>6, <2>2 DEF Plugged
  <2>3. CASE m \in Functions /\ FunctionOf[m] = n
    BY <1>6, <1>8, <2>3 DEF Plugged
  <2> QED
    BY <1>7, <2>1, <2>2, <2>3 DEF All
<1>10. (\E K \in Nat : \E rank \in [All -> 0 .. K] : Ranked(rank))'
  <2>1. PICK K \in Nat : \E rank \in [All -> 0 .. K] : Ranked(rank)
    BY DEF Forest
  <2>2. PICK rank \in [All -> 0 .. K] : Ranked(rank)
    BY <2>1
  <2>3. PICK r : r = [m \in All |-> IF m = n THEN rank[s.up] + 1
                                    ELSE IF m \in Functions /\ FunctionOf[m] = n
                                         THEN rank[s.up] + 2 ELSE rank[m]]
    OBVIOUS
  <2>4. \A m \in All : rank[m] \in 0 .. K
    OBVIOUS
  <2>5. r \in [All -> 0 .. K + 2]
    BY <1>6, <2>3, <2>4
  <2>6. ASSUME NEW m \in Nodes, Plugged(m)' PROVE r[Up(m)'] < r[m]
    <3>1. m \in All /\ n \in All /\ n \notin Functions /\ s.up \notin Functions
      BY <1>3, UsbAssumption DEF All, Nodes
    <3>2. r[s.up] = rank[s.up] /\ r[n] = rank[s.up] + 1 /\ rank[s.up] \in Nat
      BY <1>6, <2>3, <2>4, <3>1
    <3>3. CASE Plugged(m)
      <4>1. Plugged(Up(m)) /\ Up(m) \in All
        BY <3>3, UpIn DEF Forest
      <4>2. Stays(m) /\ m # n /\ Up(m) # n
        BY <1>5, <3>1, <3>3, <4>1
      <4>3. Up(m)' = Up(m)
        BY <4>2 DEF Stays, Up
      <4>4. \A k \in All : Plugged(k) /\ k \in Functions => FunctionOf[k] # n
        BY <1>2, UsbAssumption DEF Plugged
      <4>5. r[m] = rank[m] /\ r[Up(m)] = rank[Up(m)]
        BY <2>3, <3>1, <3>3, <4>1, <4>2, <4>4
      <4> QED
        BY <2>2, <3>3, <4>3, <4>5 DEF Ranked
    <3>4. CASE m = n
      BY <1>6, <3>2, <3>4
    <3>5. CASE m \in Functions /\ FunctionOf[m] = n
      <4>1. r[m] = rank[s.up] + 2
        BY <2>3, <3>1, <3>5
      <4> QED
        BY <1>8, <3>2, <3>5, <4>1
    <3> QED
      BY <1>7, <2>6, <3>1, <3>3, <3>4, <3>5
  <2>7. Ranked(r)'
    BY <2>6 DEF Ranked, Nodes
  <2>8. K + 2 \in Nat
    OBVIOUS
  <2> QED
    BY <2>5, <2>7, <2>8 DEF All, Nodes
<1>11. Forest'
  BY <1>4, <1>9, <1>10 DEF Forest, Nodes
<1>12. \E u \in All : u = Up(n)' /\ Plugged(u) /\ Len(PathTo(u)) < MaxTier
  BY <1>1, <1>6
<1>13. \A m \in All : Plugged(m) => Stays(m)
  BY <1>5
<1>14. \A m \in All : Plugged(m)' => Plugged(m) \/ m = n \/ (m \in Functions /\ FunctionOf[m] = n)
  BY <1>7
<1> QED
  BY <1>6, <1>11, <1>12, <1>13, <1>14

\* What is unplugged goes with all that is below it, and nothing else.
LEMMA UnplugForest ==
    ASSUME Forest, NEW n \in Hubs \cup Devices, Unplug(n)
    PROVE  /\ Forest'
           /\ \A m \in All : Plugged(m) /\ n \notin Route[m].over => Stays(m)
           /\ \A m \in All : Plugged(m)' => Plugged(m) /\ n \notin Route[m].over
<1>1. PICK B : B = Below(n)
  OBVIOUS
<1>2. at' = [m \in Hubs \cup Devices |-> IF m \in B THEN Nowhere ELSE at[m]] /\ AtOK
  BY <1>1 DEF Unplug, Forest, AtOK
<1>3. AtOK'
  BY <1>2 DEF AtOK
<1>4. \A m \in Nodes : m \in B <=> Plugged(m) /\ n \in Route[m].over
  BY <1>1 DEF Below
<1>5. ASSUME NEW m \in Functions
      PROVE  /\ FunctionOf[m] \in Devices /\ (Plugged(m) <=> Plugged(FunctionOf[m]))
             /\ Plugged(m) => (m \in B <=> FunctionOf[m] \in B)
  <2>1. /\ FunctionOf[m] \in Devices /\ FunctionOf[m] \notin Functions \cup Controllers
        /\ m \notin Hubs \cup Devices \cup Controllers
    BY UsbAssumption
  <2>2. Plugged(m) <=> Plugged(FunctionOf[m])
    BY <2>1 DEF Plugged
  <2>3. ASSUME Plugged(m) PROVE m \in B <=> FunctionOf[m] \in B
    <3>1. Up(m) = FunctionOf[m]
      BY DEF Up, Place
    <3>2. Route[m].over = Route[FunctionOf[m]].over \cup {m}
      BY <2>3, <3>1, RouteSteps DEF RouteStep, All, Nodes
    <3>3. n # m
      BY <2>1
    <3> QED
      BY <1>4, <2>1, <2>2, <2>3, <3>2, <3>3 DEF Nodes
  <2> QED
    BY <2>1, <2>2, <2>3
<1>6. ASSUME NEW m \in All, Plugged(m), n \notin Route[m].over PROVE Stays(m)
  <2>1. CASE m \in Controllers
    BY <2>1, <1>6, UsbAssumption DEF Stays, Plugged, Nodes
  <2>2. CASE m \in Hubs \cup Devices
    <3>1. m \notin B /\ m \notin Controllers /\ m \notin Functions /\ m \in Nodes
      BY <1>4, <1>6, <2>2, UsbAssumption DEF Nodes
    <3>2. at'[m] = at[m] /\ at[m] # Nowhere
      BY <1>2, <1>6, <2>2, <3>1 DEF Plugged
    <3> QED
      BY <1>6, <2>2, <3>1, <3>2 DEF Stays, Plugged, Place
  <2>3. CASE m \in Functions
    <3>1. m \notin B
      BY <1>4, <1>6, <2>3 DEF Nodes
    <3>2. FunctionOf[m] \notin B /\ FunctionOf[m] \in Devices
      BY <1>5, <1>6, <2>3, <3>1
    <3>3. m \notin Hubs \cup Devices \cup Controllers
      BY <2>3, UsbAssumption
    <3>4. at'[FunctionOf[m]] = at[FunctionOf[m]] /\ at[FunctionOf[m]] # Nowhere
      BY <1>2, <1>6, <2>3, <3>2, <3>3 DEF Plugged
    <3> QED
      BY <1>6, <2>3, <3>4 DEF Stays, Plugged, Place
  <2> QED
    BY <2>1, <2>2, <2>3 DEF All, Nodes
<1>7. ASSUME NEW m \in All, Plugged(m)' PROVE Plugged(m) /\ n \notin Route[m].over
  <2>1. CASE m \in Controllers
    <3>1. Route[m].over = {m}
      BY <2>1, RouteSteps DEF RouteStep, All
    <3> QED
      BY <2>1, <3>1, UsbAssumption DEF Plugged
  <2>2. CASE m \in Hubs \cup Devices
    <3>1. m \notin Controllers /\ m \notin Functions /\ m \in Nodes
      BY <2>2, UsbAssumption DEF Nodes
    <3>2. m \notin B /\ at[m] # Nowhere
      BY <1>2, <1>7, <2>2, <3>1 DEF Plugged
    <3> QED
      BY <1>4, <2>2, <3>1, <3>2 DEF Plugged
  <2>3. CASE m \in Functions
    <3>1. m \notin Hubs \cup Devices \cup Controllers /\ FunctionOf[m] \in Devices /\ m \in Nodes
      BY <2>3, UsbAssumption DEF Nodes
    <3>2. FunctionOf[m] \notin B /\ at[FunctionOf[m]] # Nowhere
      BY <1>2, <1>7, <2>3, <3>1 DEF Plugged
    <3>3. Plugged(m)
      BY <2>3, <3>2 DEF Plugged
    <3> QED
      BY <1>4, <1>5, <2>3, <3>1, <3>2, <3>3
  <2> QED
    BY <2>1, <2>2, <2>3 DEF All, Nodes
<1>8. ASSUME NEW m \in Nodes, Plugged(m)'
      PROVE  Plugged(m) /\ Up(m)' = Up(m) /\ Plugged(Up(m))'
  <2>1. m \in All /\ Plugged(m) /\ n \notin Route[m].over
    BY <1>7, <1>8 DEF All
  <2>2. Up(m) \in All /\ Plugged(Up(m))
    BY <2>1, UpIn DEF Forest
  <2>3. n \notin Route[Up(m)].over
    BY <1>8, <2>1, RouteSteps DEF RouteStep
  <2>4. PICK u : u = Up(m)
    OBVIOUS
  <2>5. Stays(m) /\ Stays(u)
    BY <1>6, <2>1, <2>2, <2>3, <2>4
  <2>6. Up(m)' = u
    BY <1>8, <2>4, <2>5 DEF Stays, Up
  <2>7. Plugged(u)'
    BY <2>5 DEF Stays
  <2> QED
    BY <2>1, <2>4, <2>6, <2>7
<1>9. (\E K \in Nat : \E rank \in [All -> 0 .. K] : Ranked(rank))'
  <2>1. PICK K \in Nat : \E rank \in [All -> 0 .. K] : Ranked(rank)
    BY DEF Forest
  <2>2. PICK rank \in [All -> 0 .. K] : Ranked(rank)
    BY <2>1
  <2>3. Ranked(rank)'
    BY <1>8, <2>2 DEF Ranked, Nodes
  <2> QED
    BY <2>3 DEF All, Nodes
<1>10. Forest'
  BY <1>3, <1>8, <1>9 DEF Forest, Nodes
<1> QED
  BY <1>6, <1>7, <1>10

-----------------------------------------------------------------------------
(* The walk of a device that stays. *)

\* A walk that has come to x is on the way to its device, and the ports that it has
\* found are those below x.
OnWay(w, x) ==
    /\ x \in All /\ Plugged(x)
    /\ Route[x].over \subseteq Route[w.dev].over
    /\ Route[x].root = Route[w.dev].root
    /\ Route[w.dev].ports = Route[x].ports \o Reverse(w.ports)

\* What a walk has found, as long as its device stays where it is.
WayOK(w) ==
    /\ w.dev \in Devices \cup Functions /\ Plugged(w.dev)
    /\ w.pc \in {"walk", "climb"} =>
         /\ w.node \in Nodes /\ Plugged(w.node) /\ w.up = Up(w.node)
         /\ Route[w.node].over \subseteq Route[w.dev].over
    /\ w.pc = "walk" => OnWay(w, w.node)
    /\ w.pc = "climb" => OnWay(w, w.up) /\ (platform # "darwin" => w.up \notin Controllers)
    /\ w.pc = "done" =>
         /\ index[Route[w.dev].root] # 0
         /\ w.ports = <<index[Route[w.dev].root]>> \o Route[w.dev].ports

WaysOK ==
    \A t \in Threads :
        thread[t].pc \in {"walk", "climb", "done"} /\ ~thread[t].disturbed => WayOK(thread[t])

\* No way is longer than USB allows.
Deep == \A n \in All : Plugged(n) => Len(Route[n].ports) <= MaxTier

-----------------------------------------------------------------------------
(* Turning sequences around. *)

\* Nothing to turn around.
LEMMA ReverseEmpty == Reverse(<<>>) = <<>>
<1>1. Reverse(<<>>) \in Seq({}) /\ Len(Reverse(<<>>)) = 0
  BY EmptySeq, ReverseLength
<1> QED
  BY <1>1, EmptySeq

\* What is added last comes first.
LEMMA ReverseAppend ==
    ASSUME NEW P, NEW s \in Seq(P), NEW x \in P
    PROVE  Reverse(Append(s, x)) = <<x>> \o Reverse(s)
<1>1. PICK a : a = Append(s, x)
  OBVIOUS
<1>2. PICK n \in Nat : n = Len(s)
  BY LenProperties
<1>3. /\ a \in Seq(P) /\ Len(a) = n + 1 /\ a[n + 1] = x
      /\ \A i \in 1 .. n : a[i] = s[i]
  BY <1>1, <1>2, AppendProperties
<1>4. /\ Reverse(a) \in Seq(P) /\ Len(Reverse(a)) = n + 1
      /\ Reverse(s) \in Seq(P) /\ Len(Reverse(s)) = n
  BY <1>2, <1>3, ReverseLength
<1>5. \A i \in 1 .. n + 1 : Reverse(a)[i] = a[((n + 1) - i) + 1]
  BY <1>3 DEF Reverse
<1>6. \A i \in 1 .. n : Reverse(s)[i] = s[(n - i) + 1]
  BY <1>2 DEF Reverse
<1>7. <<x>> \in Seq(P) /\ Len(<<x>>) = 1 /\ <<x>>[1] = x
  OBVIOUS
<1>8. PICK b : b = <<x>> \o Reverse(s)
  OBVIOUS
<1>9. /\ b \in Seq(P) /\ Len(b) = n + 1
      /\ \A i \in 1 .. n + 1 : b[i] = IF i <= 1 THEN <<x>>[i] ELSE Reverse(s)[i - 1]
  BY <1>4, <1>7, <1>8, ConcatProperties
<1>10. ASSUME NEW i \in 1 .. n + 1 PROVE Reverse(a)[i] = b[i]
  <2>1. CASE i = 1
    BY <1>3, <1>5, <1>7, <1>9, <2>1
  <2>2. CASE i # 1
    <3>1. i - 1 \in 1 .. n /\ ((n + 1) - i) + 1 \in 1 .. n /\ ((n + 1) - i) + 1 = (n - (i - 1)) + 1
      BY <2>2
    <3>2. b[i] = Reverse(s)[i - 1]
      BY <1>9, <2>2
    <3>3. Reverse(s)[i - 1] = s[(n - (i - 1)) + 1]
      BY <1>6, <3>1
    <3>4. Reverse(a)[i] = s[((n + 1) - i) + 1]
      BY <1>3, <1>5, <3>1
    <3> QED
      BY <3>1, <3>2, <3>3, <3>4
  <2> QED
    BY <2>1, <2>2
<1>11. Reverse(a) = b
  BY <1>4, <1>9, <1>10, SeqEqual
<1> QED
  BY <1>1, <1>8, <1>11

\* A port goes from the end of the way to the front of what is found.
LEMMA ShiftPort ==
    ASSUME NEW P, NEW a \in Seq(P), NEW b \in Seq(P), NEW r \in P
    PROVE  Append(a, r) \o Reverse(b) = a \o Reverse(Append(b, r))
<1>1. Reverse(b) \in Seq(P) /\ <<r>> \in Seq(P)
  BY ReverseLength
<1>2. Append(a, r) = a \o <<r>>
  BY AppendIsConcat
<1>3. (a \o <<r>>) \o Reverse(b) = a \o (<<r>> \o Reverse(b))
  BY <1>1, ConcatAssociative
<1>4. Reverse(Append(b, r)) = <<r>> \o Reverse(b)
  BY ReverseAppend
<1> QED
  BY <1>2, <1>3, <1>4

-----------------------------------------------------------------------------
(* The tree under a walk. *)

\* The way stays right as long as the nodes on it stay.
LEMMA WayNext ==
    ASSUME Forest, Forest', UNCHANGED platform, NEW w, WayOK(w),
           \A c \in Controllers : index[c] # 0 => index'[c] = index[c],
           NEW G, G \subseteq All, \A n \in G : Stays(n) /\ (n \in Nodes => Up(n) \in G),
           w.dev \in G, w.pc \in {"walk", "climb"} => w.node \in G
    PROVE  WayOK(w)'
<1>1. PICK dev, node, up, ports, pc :
        dev = w.dev /\ node = w.node /\ up = w.up /\ ports = w.ports /\ pc = w.pc
  OBVIOUS
<1>2. \A n \in G : /\ Route'[n].root = Route[n].root /\ Route'[n].over = Route[n].over
                   /\ Route'[n].ports = Route[n].ports
  BY RouteKept
<1>3. ASSUME NEW x \in G, OnWay(w, x) PROVE OnWay(w, x)'
  <2>1. Plugged(x)'
    BY DEF Stays
  <2> QED
    BY <1>2, <1>3, <2>1 DEF OnWay, All, Nodes
<1>4. dev \in Devices \cup Functions /\ Plugged(dev)'
  BY <1>1 DEF WayOK, Stays
<1>5. CASE pc \in {"walk", "climb"}
  <2>1. /\ node \in G /\ node \in Nodes /\ up = Up(node) /\ up \in G
        /\ Route[node].over \subseteq Route[dev].over
    BY <1>1, <1>5 DEF WayOK
  <2>2. Plugged(node)' /\ up = Up(node)'
    BY <2>1 DEF Stays, Up
  <2>3. Route'[node].over \subseteq Route'[dev].over
    BY <1>1, <1>2, <2>1
  <2>4. pc = "walk" => OnWay(w, node)'
    BY <1>1, <1>3, <2>1 DEF WayOK
  <2>5. pc = "climb" => OnWay(w, up)' /\ (platform' # "darwin" => up \notin Controllers)
    BY <1>1, <1>3, <2>1 DEF WayOK
  <2> QED
    BY <1>1, <1>4, <1>5, <2>1, <2>2, <2>3, <2>4, <2>5 DEF WayOK, Nodes
<1>6. CASE pc = "done"
  <2>1. Route'[dev].root = Route[dev].root /\ Route'[dev].ports = Route[dev].ports
    BY <1>1, <1>2
  <2>2. Route[dev].root \in Controllers
    <3>1. Plugged(dev) /\ dev \in All
      BY <1>1 DEF WayOK
    <3> QED
      BY <3>1, RouteTypes DEF RouteType
  <2>3. index'[Route[dev].root] = index[Route[dev].root]
    BY <1>1, <1>6, <2>2 DEF WayOK
  <2> QED
    BY <1>1, <1>4, <1>6, <2>1, <2>3 DEF WayOK
<1>7. CASE pc \notin {"walk", "climb", "done"}
  BY <1>1, <1>4, <1>7 DEF WayOK
<1> QED
  BY <1>5, <1>6, <1>7

\* The plugged nodes are such a set, as long as none is unplugged.
LEMMA PluggedClosed ==
    ASSUME Forest, \A n \in All : Plugged(n) => Stays(n),
           NEW G, G = {n \in All : Plugged(n)}
    PROVE  /\ G \subseteq All
           /\ \A n \in G : Stays(n) /\ (n \in Nodes => Up(n) \in G)
<1>1. ASSUME NEW n \in G, n \in Nodes PROVE Up(n) \in G
  BY <1>1, UpIn DEF Forest
<1> QED
  BY <1>1

\* The ways stay right in a step that unplugs nothing.
LEMMA WaySame ==
    ASSUME Forest, Forest', \A n \in All : Plugged(n) => Stays(n), UNCHANGED platform,
           \A c \in Controllers : index[c] # 0 => index'[c] = index[c],
           NEW w, WayOK(w)
    PROVE  WayOK(w)'
<1>1. PICK G : G = {n \in All : Plugged(n)}
  OBVIOUS
<1>2. /\ G \subseteq All
      /\ \A n \in G : Stays(n) /\ (n \in Nodes => Up(n) \in G)
  BY <1>1, PluggedClosed
<1>3. w.dev \in G /\ (w.pc \in {"walk", "climb"} => w.node \in G)
  BY <1>1 DEF WayOK, All, Nodes
<1> QED
  BY <1>2, <1>3, WayNext

\* A socket is used only where the way is not yet too long.
LEMMA DeepPlug ==
    ASSUME Forest, Forest', Deep, NEW n \in Hubs \cup Devices, Plug(n)
    PROVE  Deep'
<1>1. /\ \A m \in All : Plugged(m) => Stays(m)
      /\ \A m \in All :
           Plugged(m)' => Plugged(m) \/ m = n \/ (m \in Functions /\ FunctionOf[m] = n)
  BY PlugForest
<1>2. PICK u \in All : u = Up(n)' /\ Plugged(u) /\ Len(PathTo(u)) < MaxTier
  BY PlugForest
<1>3. PICK G : G = {m \in All : Plugged(m)}
  OBVIOUS
<1>4. \A m \in G : Route'[m].ports = Route[m].ports
  <2>1. /\ G \subseteq All
        /\ \A m \in G : Stays(m) /\ (m \in Nodes => Up(m) \in G)
    BY <1>1, <1>3, PluggedClosed
  <2> QED
    BY <2>1, RouteKept
<1>5. \A m \in All : RouteStep(m)'
  BY RouteStepsNext DEF All, Nodes
<1>6. \A m \in All : Route[m].ports \in Seq(Nat)
  BY RouteTypes DEF RouteType
<1>7. Plugged(n)' /\ n \in Nodes /\ n \in All /\ (Place(n).port)' \in Nat \ {0}
  <2>1. Plugged(n)' /\ n \in Nodes /\ n \in All /\ n \notin Functions
    BY PlugForest, UsbAssumption DEF Nodes, All
  <2>2. at'[n] \in Sockets /\ Place(n)' = at'[n]
    BY <2>1 DEF Plug, Forest, AtOK, Place
  <2> QED
    BY <2>1, <2>2, UsbAssumption
<1>8. Len(Route'[n].ports) <= MaxTier
  <2>1. PICK p \in Nat \ {0} : p = (Place(n).port)'
    BY <1>7
  <2>2. Route'[n].ports = Append(Route'[u].ports, p)
    BY <1>2, <1>5, <1>7, <2>1 DEF RouteStep, Nodes
  <2>3. Route'[u].ports = Route[u].ports /\ Route[u].ports \in Seq(Nat)
    BY <1>2, <1>3, <1>4, <1>6
  <2>4. Len(Route'[n].ports) = Len(Route[u].ports) + 1 /\ Len(Route[u].ports) \in Nat
    BY <2>2, <2>3, AppendProperties, LenProperties
  <2> QED
    BY <1>2, <2>4, UsbAssumption DEF PathTo
<1>9. ASSUME NEW m \in All, Plugged(m)' PROVE Len(Route'[m].ports) <= MaxTier
  <2>1. CASE Plugged(m)
    BY <1>3, <1>4, <2>1 DEF Deep
  <2>2. CASE m \in Functions /\ FunctionOf[m] = n
    <3>1. Up(m)' = n /\ (Place(m).port)' = 0
      BY <2>2 DEF Up, Place
    <3>2. Route'[m].ports = Route'[n].ports
      BY <1>5, <1>9, <2>2, <3>1 DEF RouteStep, Nodes
    <3> QED
      BY <1>8, <3>2
  <2> QED
    BY <1>1, <1>8, <1>9, <2>1, <2>2
<1> QED
  BY <1>9 DEF Deep, All, Nodes

\* The ways that remain are no longer than before.
LEMMA DeepKept ==
    ASSUME Forest, Forest', Deep, NEW G, G \subseteq All,
           \A n \in G : Stays(n) /\ (n \in Nodes => Up(n) \in G),
           \A n \in All : Plugged(n)' => n \in G
    PROVE  Deep'
<1>1. \A n \in G : Route'[n].ports = Route[n].ports /\ Plugged(n)
  BY RouteKept DEF Stays
<1> QED
  BY <1>1 DEF Deep, All, Nodes

-----------------------------------------------------------------------------
(* The turns of the loop. *)

LocationInv == Inv /\ Forest /\ Deep /\ WaysOK

\* The port of the device, or of that below which the function is, is on its way.
LEMMA DevPorts ==
    ASSUME Forest, NEW d \in Devices \cup Functions, Plugged(d)
    PROVE  Route[d].ports # <<>>
<1>1. ASSUME NEW e \in Devices, Plugged(e) PROVE Route[e].ports # <<>>
  <2>1. e \in Nodes /\ e \in All /\ Place(e).port \in Nat \ {0} /\ Up(e) \in All
    BY <1>1, UpIn, UsbAssumption DEF Nodes, All, Forest
  <2>2. Route[e].ports = Append(Route[Up(e)].ports, Place(e).port)
    BY <1>1, <2>1, RouteSteps DEF RouteStep
  <2>3. Route[Up(e)].ports \in Seq(Nat)
    BY <2>1, RouteTypes DEF RouteType
  <2> QED
    BY <2>1, <2>2, <2>3, AppendProperties
<1>2. CASE d \in Functions
  <2>1. d \in Nodes /\ d \in All
    BY <1>2 DEF Nodes, All
  <2>2. Up(d) \in Devices /\ Plugged(Up(d)) /\ Place(d).port = 0
    BY <1>2, <2>1, UpIn DEF Forest
  <2>3. Route[d].ports = Route[Up(d)].ports
    BY <2>1, <2>2, RouteSteps DEF RouteStep
  <2> QED
    BY <1>1, <2>2, <2>3
<1> QED
  BY <1>1, <1>2

\* A turn of the loop moves the port of the node to what is found.
LEMMA TurnWay ==
    ASSUME Forest, NEW w, WayOK(w), w.pc = "walk", NEW P, w.ports \in Seq(P),
           NEW v, v.dev = w.dev, v.ports = AddPort(w.ports, Place(w.node).port)
    PROVE  OnWay(v, w.up) /\ v.ports \in Seq(P \cup Nat)
<1>1. PICK n, u, r, d, b : n = w.node /\ u = w.up /\ r = Place(n).port /\ d = w.dev /\ b = w.ports
  OBVIOUS
<1>2. /\ n \in Nodes /\ n \in All /\ Plugged(n) /\ u = Up(n)
      /\ Route[n].over \subseteq Route[d].over
      /\ Route[n].root = Route[d].root
      /\ Route[d].ports = Route[n].ports \o Reverse(b)
  BY <1>1 DEF WayOK, OnWay
<1>3. u \in All /\ Plugged(u) /\ r \in Nat
  BY <1>1, <1>2, UpIn DEF Forest, Nodes
<1>4. /\ Route[n].root = Route[u].root
      /\ Route[n].over = Route[u].over \cup {n}
      /\ Route[n].ports = IF r = 0 THEN Route[u].ports ELSE Append(Route[u].ports, r)
  BY <1>1, <1>2, RouteSteps DEF RouteStep
<1>5. Route[u].ports \in Seq(Nat) /\ b \in Seq(P \cup Nat)
  BY <1>1, <1>3, RouteTypes, SeqMonotonic DEF RouteType
<1>6. Route[d].ports = Route[u].ports \o Reverse(AddPort(b, r))
  <2>1. CASE r = 0
    BY <1>2, <1>4, <2>1 DEF AddPort
  <2>2. CASE r # 0
    <3>1. PICK a : a = Route[u].ports
      OBVIOUS
    <3>2. a \in Seq(P \cup Nat) /\ b \in Seq(P \cup Nat) /\ r \in P \cup Nat
      BY <1>3, <1>5, <3>1, SeqMonotonic
    <3>3. Append(a, r) \o Reverse(b) = a \o Reverse(Append(b, r))
      BY <3>2, ShiftPort
    <3> QED
      BY <1>2, <1>4, <2>2, <3>1, <3>3 DEF AddPort
  <2> QED
    BY <2>1, <2>2
<1>7. AddPort(b, r) \in Seq(P \cup Nat)
  <2>1. Append(b, r) \in Seq(P \cup Nat)
    BY <1>3, <1>5, AppendProperties
  <2> QED
    BY <1>5, <2>1 DEF AddPort
<1>8. v.dev = d /\ v.ports = AddPort(b, r)
  BY <1>1
<1> QED
  BY <1>1, <1>2, <1>3, <1>4, <1>6, <1>7, <1>8 DEF OnWay

\* There is always room for the ports of a device that stays.
LEMMA Room ==
    ASSUME Forest, Deep, NEW w, NEW x, OnWay(w, x), w.dev \in All, Plugged(w.dev),
           NEW P, w.ports \in Seq(P)
    PROVE  RoomLeft(w.ports) /\ Len(w.ports) \in Nat
<1>1. PICK a, b, c : a = Route[x].ports /\ b = Reverse(w.ports) /\ c = Route[w.dev].ports
  OBVIOUS
<1>2. a \in Seq(Nat) /\ c = a \o b
  BY <1>1, RouteTypes DEF OnWay, RouteType
<1>3. b \in Seq(P) /\ Len(b) = Len(w.ports) /\ Len(w.ports) \in Nat
  BY <1>1, ReverseLength, LenProperties
<1>4. a \in Seq(Nat \cup P) /\ b \in Seq(Nat \cup P)
  BY <1>2, <1>3, SeqMonotonic
<1>5. Len(c) = Len(a) + Len(b) /\ Len(a) \in Nat
  BY <1>2, <1>4, ConcatProperties, LenProperties
<1>6. Len(c) <= MaxTier
  BY <1>1 DEF Deep
<1> QED
  BY <1>3, <1>5, <1>6, UsbAssumption DEF RoomLeft

\* At the controller everything is found.
LEMMA WayEnds ==
    ASSUME Forest, NEW w, NEW c \in Controllers, OnWay(w, c), NEW P, w.ports \in Seq(P),
           w.dev \in Devices \cup Functions, Plugged(w.dev), NEW k
    PROVE  /\ w.ports # <<>> /\ Route[w.dev].root = c
           /\ Reverse(Append(w.ports, k)) = <<k>> \o Route[w.dev].ports
<1>1. PICK b : b = w.ports
  OBVIOUS
<1>2. c \in All /\ Route[c].ports = <<>> /\ Route[c].root = c
  BY RouteSteps DEF All, RouteStep
<1>3. Reverse(b) \in Seq(P)
  BY <1>1, ReverseLength
<1>4. Route[w.dev].ports = Reverse(b) /\ Route[w.dev].root = c
  BY <1>1, <1>2, <1>3, ConcatEmptySeq DEF OnWay
<1>5. b # <<>>
  <2>1. Route[w.dev].ports # <<>>
    BY DevPorts
  <2> QED
    BY <1>4, <2>1, ReverseEmpty
<1>6. b \in Seq(P \cup {k}) /\ k \in P \cup {k}
  BY <1>1, SeqMonotonic
<1>7. Reverse(Append(b, k)) = <<k>> \o Reverse(b)
  BY <1>6, ReverseAppend
<1> QED
  BY <1>1, <1>4, <1>5, <1>7

\* Where a step of resolve_device_location() leads a device that stays.
Leads(t, v) ==
    /\ thread'[t] = v /\ v.dev = thread[t].dev
    /\ \/ v.pc \in {"walk", "climb", "done"} /\ WayOK(v)
       \/ v.pc = "ignored" /\ index[Route[v.dev].root] = 0

Undisturbed(t) == thread[t].pc \in WalkPcs /\ ~thread[t].disturbed

\* What is known of such a thread.
LEMMA UndisturbedFacts ==
    ASSUME LocationInv, NEW t \in Threads, thread[t].pc \in {"walk", "climb"}, Undisturbed(t)
    PROVE  /\ WayOK(thread[t]) /\ thread[t].dev \in All
           /\ \E S : thread[t] \in Walks(S)
           /\ \E P : thread[t].ports \in Seq(P)
           /\ \E S : thread \in [Threads -> S]
<1>1. WayOK(thread[t])
  BY DEF LocationInv, WaysOK, Undisturbed
<1>2. Walking(thread[t])
  BY WalkFacts DEF LocationInv, Undisturbed
<1> QED
  BY <1>1, <1>2 DEF Walking, WayOK, All, Nodes, LocationInv, Inv, ThreadsOK

\* The end of the walk at a controller.
LEMMA FinishWay ==
    ASSUME LocationInv, NEW t \in Threads, NEW S, thread[t] \in Walks(S),
           NEW c \in Controllers, NEW P, NEW ports \in Seq(P), Finish(t, c, ports),
           NEW w, w.dev = thread[t].dev, w.ports = ports, OnWay(w, c),
           w.dev \in Devices \cup Functions, Plugged(w.dev)
    PROVE  \E v : Leads(t, v)
<1>1. PICK k : k = find_controller(c)
  OBVIOUS
<1>2. /\ Forest /\ \E R : thread \in [Threads -> R]
  BY DEF LocationInv, Inv, ThreadsOK
<1>3. /\ ports # <<>> /\ Route[w.dev].root = c
      /\ Reverse(Append(ports, k)) = <<k>> \o Route[w.dev].ports
  BY <1>2, WayEnds
<1>4. PICK x : x = thread[t]
  OBVIOUS
<1>5. CASE k = 0
  <2>1. thread' = [thread EXCEPT ![t].pc = "ignored"]
    BY <1>1, <1>5 DEF Finish, Ignore
  <2>2. PICK v : v = [x EXCEPT !.pc = "ignored"]
    OBVIOUS
  <2>3. thread'[t] = v
    BY <1>2, <1>4, <2>1, <2>2
  <2>4. v.pc = "ignored" /\ v.dev = x.dev
    BY <1>4, <2>2 DEF Walks
  <2> QED
    BY <1>1, <1>3, <1>4, <1>5, <2>3, <2>4 DEF Leads, find_controller
<1>6. CASE k # 0
  <2>1. PICK r : r = Reverse(Append(ports, k))
    OBVIOUS
  <2>2. thread' = [thread EXCEPT ![t].pc = "done", ![t].ports = r]
    BY <1>1, <1>3, <1>6, <2>1 DEF Finish
  <2>3. PICK v : v = [x EXCEPT !.pc = "done", !.ports = r]
    OBVIOUS
  <2>4. thread'[t] = v
    BY <1>2, <1>4, <2>2, <2>3
  <2>5. v.pc = "done" /\ v.dev = x.dev /\ v.ports = r
    BY <1>4, <2>3 DEF Walks
  <2>6. index[Route[v.dev].root] # 0 /\ v.ports = <<index[Route[v.dev].root]>> \o Route[v.dev].ports
    BY <1>1, <1>3, <1>4, <1>6, <2>1, <2>5 DEF find_controller
  <2>7. WayOK(v)
    BY <1>4, <2>5, <2>6 DEF WayOK
  <2> QED
    BY <1>4, <2>4, <2>5, <2>7 DEF Leads
<1> QED
  BY <1>5, <1>6

\* A walk that goes on to the node above.
LEMMA ClimbWay ==
    ASSUME LocationInv, NEW t \in Threads, NEW w, w = thread[t], NEW S, w \in Walks(S),
           WayOK(w), w.pc = "walk", NEW ports,
           thread' = [thread EXCEPT ![t].pc = "climb", ![t].ports = ports],
           platform # "darwin" => w.up \notin Controllers,
           NEW x, x.dev = w.dev, x.ports = ports, OnWay(x, w.up)
    PROVE  \E v : Leads(t, v)
<1>1. PICK v : v = [w EXCEPT !.pc = "climb", !.ports = ports]
  OBVIOUS
<1>2. thread'[t] = v
  BY <1>1 DEF LocationInv, Inv, ThreadsOK
<1>3. /\ v.pc = "climb" /\ v.dev = w.dev /\ v.node = w.node /\ v.up = w.up /\ v.ports = ports
  BY <1>1 DEF Walks
<1>4. OnWay(v, w.up)
  BY <1>3 DEF OnWay
<1>5. WayOK(v)
  BY <1>3, <1>4 DEF WayOK
<1> QED
  BY <1>2, <1>3, <1>5 DEF Leads

\* With nothing but the device's own port as the answer.
LEMMA PortFound ==
    ASSUME QueryMayFail = FALSE, NEW w, WayOK(w), w.pc = "walk", NEW r \in FindPort(w)
    PROVE  r = Place(w.node).port
<1>1. Plugged(w.node) /\ Up(w.node) = w.up
  BY DEF WayOK
<1>2. find_device_port_vista(w.node) = {Place(w.node).port}
  BY <1>1 DEF find_device_port_vista
<1>3. find_device_port_xp(w.node, w.up) = {Place(w.node).port}
  BY <1>1 DEF find_device_port_xp
<1> QED
  BY <1>2, <1>3 DEF FindPort

\* A turn of the loop on Windows.
LEMMA WalkWin32Leads ==
    ASSUME LocationInv, QueryMayFail = FALSE, NEW t \in Threads, Undisturbed(t), WalkWin32(t)
    PROVE  \E v : Leads(t, v)
<1>1. PICK w : w = thread[t]
  OBVIOUS
<1>2. w.pc = "walk" /\ platform # "darwin" /\ Forest /\ Deep
  BY <1>1 DEF WalkWin32, LocationInv
<1>3. WayOK(w) /\ w.dev \in All /\ (\E S : w \in Walks(S)) /\ (\E P : w.ports \in Seq(P))
  BY <1>1, <1>2, UndisturbedFacts
<1>4. PICK S : w \in Walks(S)
  BY <1>3
<1>5. PICK P : w.ports \in Seq(P)
  BY <1>3
<1>6. /\ OnWay(w, w.node) /\ w.dev \in Devices \cup Functions /\ Plugged(w.dev)
      /\ w.node \in Nodes /\ Plugged(w.node) /\ w.up = Up(w.node)
  BY <1>2, <1>3 DEF WayOK
<1>7. RoomLeft(w.ports) /\ Plugged(w.up)
  BY <1>2, <1>3, <1>5, <1>6, Room DEF Forest
<1>8. PICK r \in FindPort(w) :
        IF r < 0 THEN Ignore(t)
        ELSE IF w.up \in Controllers THEN Finish(t, w.up, AddPort(w.ports, r))
        ELSE thread' = [thread EXCEPT ![t].pc = "climb", ![t].ports = AddPort(@, r)]
  BY <1>1, <1>7 DEF WalkWin32
<1>9. r = Place(w.node).port /\ ~(r < 0)
  <2>1. r = Place(w.node).port
    BY <1>2, <1>3, PortFound
  <2>2. Place(w.node).port \in Nat
    BY <1>2, <1>6, UpIn DEF Forest, Nodes
  <2> QED
    BY <2>1, <2>2
<1>10. PICK ports : ports = AddPort(w.ports, r)
  OBVIOUS
<1>11. PICK x : x = [dev |-> w.dev, ports |-> ports]
  OBVIOUS
<1>12. x.dev = w.dev /\ x.ports = ports
  BY <1>11
<1>13. OnWay(x, w.up) /\ ports \in Seq(P \cup Nat)
  BY <1>2, <1>3, <1>5, <1>9, <1>10, <1>12, TurnWay
<1>14. CASE w.up \in Controllers
  <2>1. Finish(t, w.up, ports)
    BY <1>8, <1>9, <1>10, <1>14
  <2> QED
    BY <1>1, <1>4, <1>6, <1>12, <1>13, <1>14, <2>1, FinishWay
<1>15. CASE w.up \notin Controllers
  <2>1. thread' = [thread EXCEPT ![t].pc = "climb", ![t].ports = ports]
    BY <1>1, <1>8, <1>9, <1>10, <1>15
  <2> QED
    BY <1>1, <1>2, <1>3, <1>4, <1>12, <1>13, <1>15, <2>1, ClimbWay
<1> QED
  BY <1>14, <1>15

\* A turn of the loop on OSX.
LEMMA WalkDarwinLeads ==
    ASSUME LocationInv, QueryMayFail = FALSE, NEW t \in Threads, Undisturbed(t), WalkDarwin(t)
    PROVE  \E v : Leads(t, v)
<1>1. PICK w : w = thread[t]
  OBVIOUS
<1>2. w.pc = "walk" /\ platform = "darwin" /\ Forest /\ Deep
  BY <1>1 DEF WalkDarwin, LocationInv
<1>3. WayOK(w) /\ w.dev \in All /\ (\E S : w \in Walks(S)) /\ (\E P : w.ports \in Seq(P))
  BY <1>1, <1>2, UndisturbedFacts
<1>4. PICK S : w \in Walks(S)
  BY <1>3
<1>5. PICK P : w.ports \in Seq(P)
  BY <1>3
<1>6. w.dev \in Devices \cup Functions /\ Plugged(w.dev)
  BY <1>2, <1>3 DEF WayOK
<1>7. PICK r \in FindPort(w) :
        IF ~RoomLeft(AddPort(w.ports, r)) THEN Ignore(t)
        ELSE thread' = [thread EXCEPT ![t].pc = "climb", ![t].ports = AddPort(@, r)]
  BY <1>1 DEF WalkDarwin
<1>8. r = Place(w.node).port
  BY <1>2, <1>3, PortFound
<1>9. PICK ports : ports = AddPort(w.ports, r)
  OBVIOUS
<1>10. PICK x : x = [dev |-> w.dev, ports |-> ports]
  OBVIOUS
<1>11. x.dev = w.dev /\ x.ports = ports
  BY <1>10
<1>12. OnWay(x, w.up) /\ ports \in Seq(P \cup Nat)
  BY <1>2, <1>3, <1>5, <1>8, <1>9, <1>11, TurnWay
<1>13. RoomLeft(ports)
  BY <1>2, <1>3, <1>6, <1>11, <1>12, Room
<1>14. thread' = [thread EXCEPT ![t].pc = "climb", ![t].ports = ports]
  BY <1>1, <1>7, <1>9, <1>13
<1> QED
  BY <1>1, <1>2, <1>3, <1>4, <1>11, <1>12, <1>14, ClimbWay

\* The next turn starts at the node above.
LEMMA NextTurn ==
    ASSUME LocationInv, NEW t \in Threads, NEW w, w = thread[t], NEW S, w \in Walks(S),
           WayOK(w), w.pc = "climb", NEW n, n = w.up, n \notin Controllers,
           NEW v, v = [w EXCEPT !.pc = "walk", !.node = n, !.up = Up(n)],
           thread' = [thread EXCEPT ![t] = v]
    PROVE  Leads(t, v)
<1>1. thread'[t] = v
  BY DEF LocationInv, Inv, ThreadsOK
<1>2. PICK u : u = Up(n)
  OBVIOUS
<1>3. v = [w EXCEPT !.pc = "walk", !.node = n, !.up = u]
  BY <1>2
<1>4. /\ v.pc = "walk" /\ v.dev = w.dev /\ v.node = n /\ v.up = u /\ v.ports = w.ports
  BY <1>3 DEF Walks
<1>5. OnWay(w, n) /\ w.dev \in Devices \cup Functions /\ Plugged(w.dev)
  BY DEF WayOK
<1>6. OnWay(v, n)
  BY <1>4, <1>5 DEF OnWay
<1>7. n \in Nodes /\ Plugged(n)
  BY <1>5 DEF OnWay, All
<1>8. Route[n].over \subseteq Route[v.dev].over
  BY <1>6 DEF OnWay
<1>9. WayOK(v)
  BY <1>2, <1>4, <1>5, <1>6, <1>7, <1>8 DEF WayOK
<1> QED
  BY <1>1, <1>4, <1>9 DEF Leads

\* The parent on Windows.
LEMMA ClimbWin32Leads ==
    ASSUME LocationInv, NEW t \in Threads, Undisturbed(t), ClimbWin32(t)
    PROVE  \E v : Leads(t, v)
<1>1. PICK w : w = thread[t]
  OBVIOUS
<1>2. w.pc = "climb" /\ platform # "darwin"
  BY <1>1 DEF ClimbWin32
<1>3. WayOK(w) /\ (\E S : w \in Walks(S))
  BY <1>1, <1>2, UndisturbedFacts
<1>4. PICK S : w \in Walks(S)
  BY <1>3
<1>5. Plugged(w.up) /\ w.up \notin Controllers
  BY <1>2, <1>3 DEF WayOK, OnWay
<1>6. PICK n : n = w.up
  OBVIOUS
<1>7. PICK v : v = [w EXCEPT !.pc = "walk", !.node = n, !.up = Up(n)]
  OBVIOUS
<1>8. thread' = [thread EXCEPT ![t] = v]
  BY <1>1, <1>5, <1>6, <1>7 DEF ClimbWin32
<1> QED
  BY <1>1, <1>2, <1>3, <1>4, <1>5, <1>6, <1>7, <1>8, NextTurn

\* The parent on OSX.
LEMMA ClimbDarwinLeads ==
    ASSUME LocationInv, NEW t \in Threads, Undisturbed(t), ClimbDarwin(t)
    PROVE  \E v : Leads(t, v)
<1>1. PICK w : w = thread[t]
  OBVIOUS
<1>2. w.pc = "climb"
  BY <1>1 DEF ClimbDarwin
<1>3. WayOK(w) /\ (\E S : w \in Walks(S)) /\ (\E P : w.ports \in Seq(P))
  BY <1>1, <1>2, UndisturbedFacts
<1>4. PICK S : w \in Walks(S)
  BY <1>3
<1>5. PICK P : w.ports \in Seq(P)
  BY <1>3
<1>6. /\ Plugged(w.node) /\ w.up = Up(w.node) /\ OnWay(w, w.up)
      /\ w.dev \in Devices \cup Functions /\ Plugged(w.dev)
  BY <1>2, <1>3 DEF WayOK
<1>7. PICK n : n = w.up
  OBVIOUS
<1>8. IF n \in Controllers THEN Finish(t, n, w.ports)
      ELSE thread' = [thread EXCEPT ![t].pc = "walk", ![t].node = n, ![t].up = Up(n)]
  BY <1>1, <1>6, <1>7 DEF ClimbDarwin
<1>9. CASE n \in Controllers
  BY <1>1, <1>4, <1>5, <1>6, <1>7, <1>8, <1>9, FinishWay
<1>10. CASE n \notin Controllers
  <2>1. PICK v : v = [w EXCEPT !.pc = "walk", !.node = n, !.up = Up(n)]
    OBVIOUS
  <2>2. thread' = [thread EXCEPT ![t] = v]
    BY <1>1, <1>8, <1>10, <2>1
  <2> QED
    BY <1>1, <1>2, <1>3, <1>4, <1>7, <1>10, <2>1, <2>2, NextTurn
<1> QED
  BY <1>9, <1>10

-----------------------------------------------------------------------------
(* The invariant of the walks. *)

\* A walk that was disturbed stays so.
LEMMA StaysDisturbed ==
    ASSUME Inv, NEW t \in Threads, thread[t].disturbed,
           WalkWin32(t) \/ ClimbWin32(t) \/ WalkDarwin(t) \/ ClimbDarwin(t)
    PROVE  thread'[t].disturbed
<1>1. PICK w : w = thread[t]
  OBVIOUS
<1>2. w.pc \in {"walk", "climb"}
  BY <1>1 DEF WalkWin32, ClimbWin32, WalkDarwin, ClimbDarwin
<1>3. Walking(w)
  BY <1>1, <1>2, WalkFacts DEF WalkPcs
<1>4. PICK S : w \in Walks(S)
  BY <1>3 DEF Walking
<1>5. PICK R : thread \in [Threads -> R]
  BY DEF Inv, ThreadsOK
<1>6. ASSUME NEW pc, NEW ports, thread' = [thread EXCEPT ![t].pc = pc, ![t].ports = ports]
      PROVE  thread'[t].disturbed = w.disturbed
  <2>1. thread'[t] = [w EXCEPT !.pc = pc, !.ports = ports]
    BY <1>1, <1>5, <1>6
  <2> QED
    BY <1>4, <2>1 DEF Walks
<1>7. ASSUME Ignore(t) PROVE thread'[t].disturbed = w.disturbed
  <2>1. thread'[t] = [w EXCEPT !.pc = "ignored"]
    BY <1>1, <1>5, <1>7 DEF Ignore
  <2> QED
    BY <1>4, <2>1 DEF Walks
<1>8. ASSUME NEW pc, NEW node, NEW up,
             thread' = [thread EXCEPT ![t].pc = pc, ![t].node = node, ![t].up = up]
      PROVE  thread'[t].disturbed = w.disturbed
  <2>1. thread'[t] = [w EXCEPT !.pc = pc, !.node = node, !.up = up]
    BY <1>1, <1>5, <1>8
  <2> QED
    BY <1>4, <2>1 DEF Walks
<1>9. ASSUME NEW c, NEW ports, Finish(t, c, ports) PROVE thread'[t].disturbed = w.disturbed
  BY <1>6, <1>7, <1>9 DEF Finish
<1>10. CASE WalkWin32(t)
  <2>1. \/ Ignore(t)
        \/ \E c, ports : Finish(t, c, ports)
        \/ \E r : thread' = [thread EXCEPT ![t].pc = "climb", ![t].ports = AddPort(@, r)]
    BY <1>10 DEF WalkWin32
  <2> QED
    BY <1>1, <1>6, <1>7, <1>9, <2>1
<1>11. CASE WalkDarwin(t)
  <2>1. \/ Ignore(t)
        \/ \E r : thread' = [thread EXCEPT ![t].pc = "climb", ![t].ports = AddPort(@, r)]
    BY <1>11 DEF WalkDarwin
  <2> QED
    BY <1>1, <1>6, <1>7, <2>1
<1>12. CASE ClimbDarwin(t)
  <2>1. \/ Ignore(t)
        \/ \E c, ports : Finish(t, c, ports)
        \/ \E node, up : thread' = [thread EXCEPT ![t].pc = "walk", ![t].node = node, ![t].up = up]
    BY <1>12 DEF ClimbDarwin
  <2> QED
    BY <1>1, <1>7, <1>8, <1>9, <2>1
<1>13. CASE ClimbWin32(t)
  <2>1. \/ \E node, up : thread'[t] = [w EXCEPT !.pc = "walk", !.node = node, !.up = up]
        \/ \E pc, ports : thread'[t] = [w EXCEPT !.pc = pc, !.ports = ports]
    BY <1>1, <1>5, <1>13 DEF ClimbWin32
  <2> QED
    BY <1>1, <1>4, <2>1 DEF Walks
<1> QED
  BY <1>1, <1>10, <1>11, <1>12, <1>13

\* A step of the threads, in which one thread changes: its way is right too.
LEMMA ThreadWays ==
    ASSUME LocationInv, Inv', UNCHANGED <<platform, at>>,
           \A c \in Controllers : index[c] # 0 => index'[c] = index[c],
           NEW t \in Threads, \A u \in Threads \ {t} : thread'[u] = thread[u],
           thread'[t].pc \in {"walk", "climb", "done"} /\ ~thread'[t].disturbed
               => WayOK(thread'[t])
    PROVE  LocationInv'
<1>1. Forest /\ Forest' /\ \A n \in All : Plugged(n) => Stays(n)
  BY ForestSame DEF LocationInv
<1>2. Deep'
  <2>1. PICK G : G = {n \in All : Plugged(n)}
    OBVIOUS
  <2>2. /\ G \subseteq All
        /\ \A n \in G : Stays(n) /\ (n \in Nodes => Up(n) \in G)
    BY <1>1, <2>1, PluggedClosed
  <2>3. \A n \in All : Plugged(n)' => n \in G
    BY <2>1 DEF Plugged
  <2> QED
    BY <1>1, <2>2, <2>3, DeepKept DEF LocationInv
<1>3. ASSUME NEW u \in Threads, thread'[u].pc \in {"walk", "climb", "done"}, ~thread'[u].disturbed
      PROVE  WayOK(thread[u])'
  <2>1. PICK v : v = thread'[u]
    OBVIOUS
  <2>2. WayOK(v)
    BY <1>3, <2>1 DEF LocationInv, WaysOK
  <2>3. WayOK(v)'
    BY <1>1, <2>2, WaySame
  <2> QED
    BY <2>1, <2>3 DEF WayOK, OnWay
<1> QED
  BY <1>1, <1>2, <1>3 DEF LocationInv, WaysOK

\* The steps of resolve_device_location() keep the invariant.
LEMMA WalkWays ==
    ASSUME LocationInv, QueryMayFail = FALSE, NEW t \in Threads,
           WalkWin32(t) \/ ClimbWin32(t) \/ WalkDarwin(t) \/ ClimbDarwin(t)
    PROVE  LocationInv'
<1>1. UNCHANGED <<platform, at, index, lock>> /\ thread[t].pc \in WalkPcs
  BY DEF WalkWin32, ClimbWin32, WalkDarwin, ClimbDarwin, WalkPcs
<1>2. Inv' /\ Inv
  BY WalkWin32Inv, ClimbWin32Inv, WalkDarwinInv, ClimbDarwinInv DEF LocationInv
<1>3. \A u \in Threads \ {t} : thread'[u] = thread[u]
  BY DEF WalkWin32, ClimbWin32, WalkDarwin, ClimbDarwin, Ignore, Finish, LocationInv, Inv, ThreadsOK
<1>4. CASE thread[t].disturbed
  <2>1. thread'[t].disturbed
    BY <1>2, <1>4, StaysDisturbed
  <2> QED
    BY <1>1, <1>2, <1>3, <2>1, ThreadWays
<1>5. CASE ~thread[t].disturbed
  <2>1. PICK v : Leads(t, v)
    BY <1>1, <1>5, WalkWin32Leads, ClimbWin32Leads, WalkDarwinLeads, ClimbDarwinLeads
       DEF Undisturbed
  <2>2. thread'[t] = v /\ (v.pc \in {"walk", "climb", "done"} => WayOK(v))
    BY <2>1 DEF Leads
  <2> QED
    BY <1>1, <1>2, <1>3, <2>2, ThreadWays
<1> QED
  BY <1>4, <1>5

\* A walk starts at its device.
LEMMA StartWays ==
    ASSUME LocationInv, NEW t \in Threads, NEW d \in Devices \cup Functions,
           resolve_device_location(t, d)
    PROVE  LocationInv'
<1>1. UNCHANGED <<platform, at, index, lock>> /\ Plugged(d) /\ Forest
  BY DEF resolve_device_location, LocationInv
<1>2. Inv'
  BY LookupInv DEF LocationInv
<1>3. PICK u : u = Up(d)
  OBVIOUS
<1>4. PICK v : v = [pc |-> "walk", dev |-> d, node |-> d, up |-> u, ports |-> <<>>,
                    disturbed |-> FALSE]
  OBVIOUS
<1>5. thread' = [thread EXCEPT ![t] = v]
  BY <1>3, <1>4 DEF resolve_device_location
<1>6. thread'[t] = v /\ \A s \in Threads \ {t} : thread'[s] = thread[s]
  BY <1>5 DEF LocationInv, Inv, ThreadsOK
<1>7. v.pc = "walk" /\ v.dev = d /\ v.node = d /\ v.up = u /\ v.ports = <<>>
  BY <1>4
<1>8. d \in Nodes /\ d \in All
  BY DEF Nodes, All
<1>9. Route[d].ports = Route[d].ports \o Reverse(<<>>)
  <2>1. Route[d].ports \in Seq(Nat)
    BY <1>1, <1>8, RouteTypes DEF RouteType
  <2> QED
    BY <2>1, ReverseEmpty, ConcatEmptySeq
<1>10. OnWay(v, d)
  BY <1>1, <1>7, <1>8, <1>9 DEF OnWay
<1>11. WayOK(v)
  BY <1>1, <1>3, <1>7, <1>8, <1>10 DEF WayOK
<1> QED
  BY <1>1, <1>2, <1>6, <1>11, ThreadWays

\* The list of controllers, and the end of a lookup.
LEMMA OtherWays ==
    ASSUME LocationInv, NEW t \in Threads, Populate(t) \/ Resolved(t)
    PROVE  LocationInv'
<1>1. Inv /\ \E R : thread \in [Threads -> R]
  BY DEF LocationInv, Inv, ThreadsOK
<1>2. Inv'
  BY <1>1, PopulateInv, AddInv, EndsInv, LookupInv DEF Populate
<1>3. \A c \in Controllers : index[c] # 0 => index'[c] = index[c]
  BY <1>1, AddInv DEF Populate, populate_controllers, ListEnds, Resolved
<1>4. UNCHANGED <<platform, at>>
  BY DEF Populate, populate_controllers, add_controller, ListEnds, Resolved
<1>5. \A u \in Threads \ {t} : thread'[u] = thread[u]
  BY <1>1 DEF Populate, populate_controllers, add_controller, ListEnds, Resolved
<1>6. thread'[t].pc \in {"idle", "ready", "list"}
  <2>1. CASE add_controller(t)
    <3>1. Listing(thread[t])
      BY <1>1, <2>1, OneLister DEF add_controller
    <3>2. PICK c : thread' = [thread EXCEPT ![t].i = @ + 1, ![t].todo = @ \ {c}]
      BY <2>1 DEF add_controller
    <3>3. PICK w, i, todo : w = thread[t] /\ i = w.i + 1 /\ todo = w.todo \ {c}
      OBVIOUS
    <3>4. thread'[t] = [w EXCEPT !.i = i, !.todo = todo]
      BY <1>1, <3>2, <3>3
    <3> QED
      BY <3>1, <3>3, <3>4 DEF Listing
  <2>2. CASE populate_controllers(t) \/ ListEnds(t) \/ Resolved(t)
    BY <1>1, <2>2 DEF populate_controllers, ListEnds, Resolved, Idle, Ready
  <2> QED
    BY <2>1, <2>2 DEF Populate
<1> QED
  BY <1>2, <1>3, <1>4, <1>5, <1>6, ThreadWays

\* The tree.
LEMMA PlugWays ==
    ASSUME LocationInv, NEW n \in Hubs \cup Devices, Plug(n)
    PROVE  LocationInv'
<1>1. Forest /\ Forest' /\ (\A m \in All : Plugged(m) => Stays(m)) /\ Inv'
  BY PlugForest, TreeInv DEF LocationInv
<1>2. Deep'
  BY <1>1, DeepPlug DEF LocationInv
<1>3. UNCHANGED <<platform, index, lock, thread>>
  BY DEF Plug
<1>4. ASSUME NEW t \in Threads, thread[t].pc \in {"walk", "climb", "done"}, ~thread[t].disturbed
      PROVE  WayOK(thread[t])'
  <2>1. PICK w : w = thread[t]
    OBVIOUS
  <2>2. WayOK(w)
    BY <1>4, <2>1 DEF LocationInv, WaysOK
  <2>3. WayOK(w)'
    BY <1>1, <1>3, <2>2, WaySame
  <2> QED
    BY <1>3, <2>1, <2>3
<1> QED
  BY <1>1, <1>2, <1>3, <1>4 DEF LocationInv, WaysOK

\* Who loses its device is disturbed; for the others all nodes on the way stay.
LEMMA UnplugWays ==
    ASSUME LocationInv, NEW n \in Hubs \cup Devices, Unplug(n)
    PROVE  LocationInv'
<1>1. /\ Forest /\ Forest' /\ Inv'
      /\ \A m \in All : Plugged(m) /\ n \notin Route[m].over => Stays(m)
      /\ \A m \in All : Plugged(m)' => Plugged(m) /\ n \notin Route[m].over
  BY UnplugForest, TreeInv DEF LocationInv
<1>2. PICK G : G = {m \in All : Plugged(m) /\ n \notin Route[m].over}
  OBVIOUS
<1>3. /\ G \subseteq All
      /\ \A m \in G : Stays(m) /\ (m \in Nodes => Up(m) \in G)
  <2>1. ASSUME NEW m \in G, m \in Nodes PROVE Up(m) \in G
    <3>1. Plugged(m) /\ m \in All /\ n \notin Route[m].over
      BY <1>2
    <3>2. Up(m) \in All /\ Plugged(Up(m))
      BY <1>1, <2>1, <3>1, UpIn DEF Forest
    <3>3. Route[m].over = Route[Up(m)].over \cup {m}
      BY <1>1, <2>1, <3>1, RouteSteps DEF RouteStep
    <3> QED
      BY <1>2, <3>1, <3>2, <3>3
  <2> QED
    BY <1>1, <1>2, <2>1
<1>4. Deep'
  <2>1. \A m \in All : Plugged(m)' => m \in G
    BY <1>1, <1>2
  <2> QED
    BY <1>1, <1>3, <2>1, DeepKept DEF LocationInv
<1>5. UNCHANGED <<platform, index, lock>>
  BY DEF Unplug
<1>6. ASSUME NEW t \in Threads, thread'[t].pc \in {"walk", "climb", "done"}, ~thread'[t].disturbed
      PROVE  WayOK(thread[t])'
  <2>1. PICK w : w = thread[t]
    OBVIOUS
  <2>2. thread'[t] = IF w.pc \in WalkPcs /\ w.dev \in Below(n)
                     THEN [w EXCEPT !.disturbed = TRUE] ELSE w
    BY <2>1 DEF Unplug, WalkPcs
  <2>3. CASE w.pc \in WalkPcs /\ w.dev \in Below(n)
    <3>1. Walking(w)
      BY <2>1, <2>3, WalkFacts DEF LocationInv
    <3>2. PICK S : w \in Walks(S)
      BY <3>1 DEF Walking
    <3>3. [w EXCEPT !.disturbed = TRUE].disturbed = TRUE
      BY <3>2 DEF Walks
    <3> QED
      BY <1>6, <2>2, <2>3, <3>3
  <2>4. CASE ~(w.pc \in WalkPcs /\ w.dev \in Below(n))
    <3>1. thread'[t] = w /\ WayOK(w) /\ w.dev \notin Below(n) /\ w.pc \in {"walk", "climb", "done"}
      BY <1>6, <2>1, <2>2, <2>4 DEF LocationInv, WaysOK, WalkPcs
    <3>2. w.dev \in Nodes /\ w.dev \in All /\ Plugged(w.dev) /\ n \notin Route[w.dev].over
      BY <3>1 DEF WayOK, Nodes, All, Below
    <3>3. w.dev \in G
      BY <1>2, <3>2
    <3>4. w.pc \in {"walk", "climb"} => w.node \in G
      BY <1>2, <3>1, <3>2 DEF WayOK, All
    <3>5. WayOK(w)'
      BY <1>1, <1>3, <1>5, <3>1, <3>3, <3>4, WayNext
    <3> QED
      BY <3>1, <3>5
  <2> QED
    BY <2>3, <2>4
<1> QED
  BY <1>1, <1>4, <1>6 DEF LocationInv, WaysOK

\* It holds at the start.
LEMMA LocationInit == Init => LocationInv
<1> SUFFICES ASSUME Init PROVE LocationInv
  OBVIOUS
<1>1. Inv /\ Forest
  BY InitInv, ForestInit
<1>2. WaysOK
  BY DEF Init, WaysOK, Idle
<1>3. Deep
  <2>1. ASSUME NEW n \in All, Plugged(n) PROVE Len(Route[n].ports) <= MaxTier
    <3>1. n \in Controllers
      BY <2>1, UsbAssumption DEF Init, Plugged, All, Nodes
    <3>2. Route[n].ports = <<>>
      BY <1>1, <3>1, RouteSteps DEF RouteStep, All
    <3> QED
      BY <3>2, UsbAssumption
  <2> QED
    BY <2>1 DEF Deep
<1> QED
  BY <1>1, <1>2, <1>3 DEF LocationInv

\* Every step preserves it.
LEMMA LocationNext ==
    ASSUME LocationInv, QueryMayFail = FALSE, [Next]_vars
    PROVE  LocationInv'
<1>1. CASE UNCHANGED vars
  <2>1. Inv'
    BY NextInv DEF LocationInv
  <2>2. CASE Threads = {}
    <3>1. Forest /\ Forest' /\ \A n \in All : Plugged(n) => Stays(n)
      BY <1>1, ForestSame DEF LocationInv, vars
    <3>2. PICK G : G = {n \in All : Plugged(n)}
      OBVIOUS
    <3>3. /\ G \subseteq All
          /\ \A n \in G : Stays(n) /\ (n \in Nodes => Up(n) \in G)
      BY <3>1, <3>2, PluggedClosed
    <3>4. \A n \in All : Plugged(n)' => n \in G
      BY <1>1, <3>2 DEF Plugged, vars
    <3>5. Deep'
      BY <3>1, <3>3, <3>4, DeepKept DEF LocationInv
    <3> QED
      BY <2>1, <2>2, <3>1, <3>5 DEF LocationInv, WaysOK
  <2>3. ASSUME NEW t \in Threads PROVE LocationInv'
    BY <1>1, <2>1, ThreadWays DEF vars, LocationInv, WaysOK
  <2> QED
    BY <2>2, <2>3
<1>2. CASE \E n \in Hubs \cup Devices : Plug(n) \/ Unplug(n)
  BY <1>2, PlugWays, UnplugWays
<1>3. ASSUME NEW t \in Threads, Populate(t) \/ Walk(t) PROVE LocationInv'
  BY <1>3, OtherWays, WalkWays DEF Walk
<1>4. ASSUME NEW t \in Threads, NEW d \in Devices \cup Functions, resolve_device_location(t, d)
      PROVE  LocationInv'
  BY <1>4, StartWays
<1> QED
  BY <1>1, <1>2, <1>3, <1>4 DEF Next

\* Whatever is plugged and unplugged elsewhere while the threads look for locations,
\* a device that stays where it is gets the number of its controller and the ports
\* on the way to it, unless the system fails to give a port (QueryMayFail), which
\* the walk cannot tell from a node without port.
THEOREM LocationCorrect ==
    ASSUME QueryMayFail = FALSE
    PROVE  Spec => []LocationRight
<1>1. LocationInv => LocationRight
  BY DEF LocationInv, WaysOK, WayOK, LocationRight, Root, PathTo
<1>2. LocationInv /\ [Next]_vars => LocationInv'
  BY LocationNext
<1> QED
  BY <1>1, <1>2, LocationInit, PTL DEF Spec

\* ... and it is not ignored unless its controller is not in the list: the walk
\* never runs out of room and never meets a hub that is gone.
THEOREM NotIgnoredCorrect ==
    ASSUME QueryMayFail = FALSE
    PROVE  Spec => NotIgnored
<1>1. LocationInv /\ [Next]_vars => LocationInv'
  BY LocationNext
<1>2. ASSUME LocationInv, [Next]_vars
      PROVE  [\A t \in Threads :
          thread[t].pc \in {"walk", "climb"} /\ thread'[t].pc = "ignored" /\ ~thread[t].disturbed
              => index[Root(thread[t].dev)] = 0]_vars
  <2> SUFFICES ASSUME Next, NEW t \in Threads, thread[t].pc \in {"walk", "climb"},
                      thread'[t].pc = "ignored", ~thread[t].disturbed
               PROVE  index[Root(thread[t].dev)] = 0
    BY <1>2
  <2>1. PICK R : thread \in [Threads -> R]
    BY <1>2 DEF LocationInv, Inv, ThreadsOK
  <2>2. CASE WalkWin32(t) \/ ClimbWin32(t) \/ WalkDarwin(t) \/ ClimbDarwin(t)
    <3>1. PICK v : Leads(t, v)
      BY <1>2, <2>2, WalkWin32Leads, ClimbWin32Leads, WalkDarwinLeads, ClimbDarwinLeads
         DEF Undisturbed, WalkPcs
    <3> QED
      BY <3>1 DEF Leads, Root
  <2>3. CASE \E n \in Hubs \cup Devices : Plug(n) \/ Unplug(n)
    <3>1. PICK w : w = thread[t]
      OBVIOUS
    <3>2. thread'[t] = w \/ thread'[t] = [w EXCEPT !.disturbed = TRUE]
      BY <2>3, <3>1 DEF Plug, Unplug
    <3>3. PICK S : w \in Walks(S)
      BY <1>2, <3>1, UndisturbedFacts DEF Undisturbed, WalkPcs
    <3>4. thread'[t].pc = w.pc
      BY <3>2, <3>3 DEF Walks
    <3> QED
      BY <3>1, <3>4
  <2>4. ASSUME NEW u \in Threads, NEW d \in Devices \cup Functions,
               Populate(u) \/ Resolved(u) \/ resolve_device_location(u, d)
        PROVE  FALSE
    <3>1. u # t
      BY <2>4 DEF Populate, populate_controllers, add_controller, ListEnds, Resolved,
                  resolve_device_location
    <3>2. thread'[t] = thread[t]
      BY <2>1, <2>4, <3>1 DEF Populate, populate_controllers, add_controller, ListEnds, Resolved,
                              resolve_device_location
    <3> QED
      BY <3>2
  <2>5. ASSUME NEW u \in Threads, Populate(u) \/ Resolved(u)
        PROVE  FALSE
    <3>1. u # t
      BY <2>5 DEF Populate, populate_controllers, add_controller, ListEnds, Resolved
    <3>2. thread'[t] = thread[t]
      BY <2>1, <2>5, <3>1 DEF Populate, populate_controllers, add_controller, ListEnds, Resolved
    <3> QED
      BY <3>2
  <2>6. ASSUME NEW u \in Threads \ {t},
               WalkWin32(u) \/ ClimbWin32(u) \/ WalkDarwin(u) \/ ClimbDarwin(u)
        PROVE  FALSE
    <3>1. thread'[t] = thread[t]
      BY <2>1, <2>6 DEF WalkWin32, ClimbWin32, WalkDarwin, ClimbDarwin, Ignore, Finish
    <3> QED
      BY <3>1
  <2> QED
    BY <2>2, <2>3, <2>4, <2>5, <2>6 DEF Next, Walk
<1> QED
  BY <1>1, <1>2, LocationInit, PTL DEF Spec, NotIgnored
=============================================================================
