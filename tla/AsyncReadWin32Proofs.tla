------------------------ MODULE AsyncReadWin32Proofs ------------------------
(***************************************************************************)
(* Handles of Windows: the buffer outlives the request on XP, the          *)
(* descriptor shows exactly what it should, and the handle implements      *)
(* Channel, for any number of threads, items, faults and sizes.            *)
(***************************************************************************)
EXTENDS AsyncReadWin32, SequenceTheorems, TLAPS

\* What the state of the request says of its event, thread and buffer.
RequestOK ==
    /\ Len(buf) <= BufSize
    /\ op = "done" => buf # <<>> /\ event
    /\ op = "pending" => pending_thread # None /\ ~event
    /\ op = "cancelled" => system = "vista" /\ handle = "freed"

\* h->len says whether the buffer holds data of the last request.
BufferOK ==
    /\ len > 0 => op = "done" /\ pending_thread = None
    /\ len < 0 => op \in {"none", "failed"}
    /\ handle = "open" /\ op = "done" /\ pending_thread = None => len > 0 /\ pos + len = Len(buf)

CallOK ==
    /\ call.pc # "idle" => handle = "open" /\ call.thread # None /\ call.size \in Sizes
    /\ call.pc = "finalize" => len = 0
    /\ call.pc = "copy" => len > 0

LifeOK ==
    /\ dev <=> handle = "open"
    /\ handle = "none" => op = "none" /\ ~event /\ sent = 0 /\ queue = <<>> /\ len = 0

EventOK == handle = "open" /\ event => op \in {"done", "failed"} \/ len < 0

Inv ==
    /\ TypeOK /\ RequestOK /\ BufferOK /\ CallOK /\ LifeOK /\ EventOK
    /\ BufferOutlivesRequest

Calls == [pc : {"idle", "finalize", "copy"}, thread : Threads \cup {None},
          size : Sizes \cup {0}, wait : BOOLEAN]

-----------------------------------------------------------------------------
LEMMA InitInv == Init => Inv
<1> SUFFICES ASSUME Init PROVE Inv
    OBVIOUS
<1>1. Idle \in Calls /\ Idle.pc = "idle"
    BY DEF Idle, Calls
<1>2. <<>> \in Seq(Nat) /\ Len(<<>>) = 0
    OBVIOUS
<1>3. plugged \in BOOLEAN /\ dev \in BOOLEAN /\ event \in BOOLEAN
    BY DEF Init
<1>6. TypeOK
    BY <1>1, <1>2, <1>3, AsyncAssumption DEF Init, TypeOK, Calls
<1>4. RequestOK /\ BufferOK /\ EventOK
    BY <1>2, AsyncAssumption DEF Init, RequestOK, BufferOK, EventOK
<1>5. CallOK /\ LifeOK /\ BufferOutlivesRequest
    BY <1>1 DEF Init, CallOK, LifeOK, BufferOutlivesRequest
<1> QED BY <1>6, <1>4, <1>5 DEF Inv

\* Steps of the device.
LEMMA DeviceInv == ASSUME Inv, DeviceSends \/ Unplug PROVE Inv'
<1> USE AsyncAssumption DEF Inv, fixed, life, request
<1>1. CASE DeviceSends
  <2>1. queue' \in Seq(Nat) /\ sent' \in 0 .. MaxData
    BY <1>1 DEF DeviceSends, TypeOK
  <2> QED
    BY <1>1, <2>1 DEF DeviceSends, TypeOK, RequestOK, BufferOK, CallOK, LifeOK, EventOK,
                      BufferOutlivesRequest, InFlight
<1>2. CASE Unplug
  <2>0. plugged' \in BOOLEAN
    BY <1>2 DEF Unplug
  <2>1. TypeOK'
    BY <1>2, <2>0 DEF Unplug, TypeOK
  <2> QED
    BY <1>2, <2>1 DEF Unplug, RequestOK, BufferOK, CallOK, LifeOK, EventOK,
                      BufferOutlivesRequest, InFlight
<1> QED BY <1>1, <1>2

\* The request ends.
LEMMA EndInv == ASSUME Inv, Completion \/ RequestFails PROVE Inv'
<1> USE AsyncAssumption DEF Inv, fixed, life, device
<1>1. CASE Completion
  <2> PICK n \in 1 .. Len(queue) : RequestCompletes(n)
    BY <1>1 DEF Completion
  <2>0. queue \in Seq(Nat) /\ n \in 1 .. Len(queue) /\ n <= BufSize
    BY DEF TypeOK, RequestCompletes, ReadSize
  <2>1. buf' \in Seq(Nat) /\ Len(buf') = n /\ buf' # <<>>
    <3>1. SubSeq(queue, 1, n) \in Seq(Nat) /\ Len(SubSeq(queue, 1, n)) = n
      BY <2>0
    <3> QED BY <2>0, <3>1 DEF RequestCompletes
  <2>2. queue' \in Seq(Nat)
    BY <2>0 DEF RequestCompletes
  <2>3. TypeOK'
    BY <2>1, <2>2 DEF RequestCompletes, TypeOK
  <2> QED
    BY <2>0, <2>1, <2>3
    DEF RequestCompletes, TypeOK, RequestOK, BufferOK, CallOK, LifeOK, EventOK,
        BufferOutlivesRequest, InFlight
<1>2. CASE RequestFails
  <2>1. faults' \in 0 .. MaxFaults
    BY <1>2 DEF RequestFails, Fault, Removed, TypeOK
  <2> QED
    BY <1>2, <2>1 DEF RequestFails, TypeOK, RequestOK, BufferOK, CallOK, LifeOK, EventOK,
                BufferOutlivesRequest, InFlight
<1> QED BY <1>1, <1>2

\* What starting a request does.
LEMMA StartStep ==
    ASSUME Inv, NEW t \in Threads, NEW r \in {-1, 0}, hs_win32_start_async_read(t, r)
    PROVE  /\ faults' \in 0 .. MaxFaults /\ buf' = buf /\ event' \in BOOLEAN
           /\ pending_thread' \in Threads \cup {None}
           /\ r = 0 => op' = "pending" /\ ~event' /\ pending_thread' # None
           /\ r = -1 => op' = "none" /\ (event' => event)
<1> USE AsyncAssumption
<1>1. CASE r = 0
  <2>1. Started(t)
    BY <1>1 DEF hs_win32_start_async_read
  <2>2. event' \in BOOLEAN /\ ~event'
    BY <2>1 DEF Started
  <2> QED BY <1>1, <2>1, <2>2 DEF Started, Inv, TypeOK
<1>2. CASE r = -1
  <2>1. StartFails
    BY <1>2 DEF hs_win32_start_async_read
  <2>2. faults' \in 0 .. MaxFaults
    BY <2>1 DEF StartFails, Fault, Removed, Inv, TypeOK
  <2>3. event' \in BOOLEAN /\ (event' => event)
    <3>1. event \in BOOLEAN
      BY DEF Inv, TypeOK
    <3>2. CASE event' = FALSE
      BY <3>2
    <3>3. CASE event' = event
      BY <3>1, <3>3
    <3> QED BY <2>1, <3>2, <3>3 DEF StartFails
  <2>4. buf' = buf /\ pending_thread' \in Threads \cup {None} /\ op' = "none"
    BY <2>1 DEF StartFails, Inv, TypeOK
  <2> QED BY <1>2, <2>2, <2>3, <2>4
<1> QED BY <1>1, <1>2

LEMMA OpenInv == ASSUME Inv, NEW t \in Threads, open_win32_device(t) PROVE Inv'
<1> PICK r \in {-1, 0} : hs_win32_start_async_read(t, r)
    BY DEF open_win32_device
<1>1. /\ faults' \in 0 .. MaxFaults /\ buf' = buf /\ event' \in BOOLEAN
      /\ pending_thread' \in Threads \cup {None}
      /\ op' \in {"none", "pending"} /\ ~event'
      /\ op' = "pending" => pending_thread' # None
    BY StartStep DEF open_win32_device, Inv, LifeOK
<1>2. /\ handle' = "open" /\ dev' = TRUE /\ refs' = 1 /\ len' = 0 /\ pos' = pos /\ call' = call
      /\ UNCHANGED <<fixed, device, got>>
    BY DEF open_win32_device, Inv, TypeOK, LifeOK
<1>3. dev' \in BOOLEAN /\ (dev' <=> handle' = "open")
    BY <1>2
<1>4. TypeOK'
    BY <1>1, <1>2, <1>3, AsyncAssumption DEF fixed, device, Inv, TypeOK
<1>5. LifeOK' /\ EventOK' /\ CallOK'
    BY <1>1, <1>2, <1>3 DEF LifeOK, EventOK, CallOK, Inv, open_win32_device
<1> QED
    BY <1>1, <1>2, <1>4, <1>5
    DEF fixed, device, Inv, RequestOK, BufferOK, BufferOutlivesRequest, InFlight

LEMMA ReadInv == ASSUME Inv, Read PROVE Inv'
<1> PICK t \in Threads, size \in Sizes, wait \in BOOLEAN : hs_read(t, size, wait)
    BY DEF Read
<1> DEFINE at(pc) == [pc |-> pc, thread |-> t, size |-> size, wait |-> wait]
<1>1. \A pc \in {"finalize", "copy"} :
          at(pc) \in Calls /\ at(pc).pc = pc /\ at(pc).thread = t /\ at(pc).size = size
    BY DEF Calls
<1>2. Idle \in Calls /\ Idle.pc = "idle" /\ t # None
    BY AsyncAssumption DEF Idle, Calls
<1>3. handle = "open" /\ UNCHANGED <<fixed, device, got, life, pos>>
    BY DEF hs_read
<1>4. CASE len < 0
  <2> PICK r \in {-1, 0} : /\ hs_win32_start_async_read(t, r) /\ len' = r
                           /\ call' = IF r < 0 THEN Idle ELSE at("finalize")
    BY <1>4 DEF hs_read, Inv, TypeOK
  <2> HIDE DEF at
  <2>1. /\ faults' \in 0 .. MaxFaults /\ buf' = buf /\ event' \in BOOLEAN
        /\ pending_thread' \in Threads \cup {None}
        /\ r = 0 => op' = "pending" /\ ~event' /\ pending_thread' # None
        /\ r = -1 => op' = "none" /\ (event' => event)
    BY StartStep
  <2>2. call' \in Calls /\ call'.pc # "copy" /\ (call'.pc # "idle" => r = 0 /\ call'.thread = t /\ call'.size = size)
    BY <1>1, <1>2
  <2>3. TypeOK'
    BY <1>3, <2>1, <2>2, AsyncAssumption DEF fixed, device, life, Inv, TypeOK, Calls
  <2> QED
    BY <1>2, <1>3, <2>1, <2>2, <2>3
    DEF fixed, device, life, Inv, TypeOK, RequestOK, BufferOK, CallOK, LifeOK, EventOK,
        BufferOutlivesRequest, InFlight
<1>5. CASE len >= 0
  <2>1. /\ call' = at(IF len > 0 THEN "copy" ELSE "finalize")
        /\ UNCHANGED <<request, len, faults>>
    BY <1>5 DEF hs_read, Inv, TypeOK
  <2> HIDE DEF at
  <2>2. /\ call' \in Calls /\ call'.thread = t /\ call'.size = size
        /\ call'.pc = IF len > 0 THEN "copy" ELSE "finalize"
    BY <1>1, <2>1
  <2> QED
    BY <1>2, <1>3, <1>5, <2>1, <2>2
    DEF fixed, device, life, request, Inv, TypeOK, RequestOK, BufferOK, CallOK, LifeOK, EventOK,
        BufferOutlivesRequest, InFlight, Calls
<1> QED BY <1>4, <1>5 DEF Inv, TypeOK

LEMMA FinalizeInv == ASSUME Inv, hs_win32_finalize_async_read PROVE Inv'
<1> USE AsyncAssumption DEF fixed, device, life
<1>0. Idle \in Calls /\ Idle.pc = "idle" /\ call \in Calls
    BY DEF Idle, Calls, Inv, TypeOK
<1>1. CASE /\ InFlight /\ len' = 0 /\ call' = Idle /\ UNCHANGED <<event, pos, pending_thread>>
    BY <1>0, <1>1
    DEF hs_win32_finalize_async_read, Inv, TypeOK, RequestOK, BufferOK, CallOK, LifeOK, EventOK,
        BufferOutlivesRequest, InFlight, Calls
<1>2. CASE op = "done" /\ len' = Len(buf) /\ pos' = 0 /\ call' = [call EXCEPT !.pc = "copy"]
           /\ pending_thread' = None /\ event' = event
  <2>1. /\ call' \in Calls /\ call'.pc = "copy" /\ call'.thread = call.thread
        /\ call'.size = call.size
    BY <1>0, <1>2 DEF Calls
  <2>2. Len(buf) \in 1 .. BufSize
    BY <1>2 DEF Inv, TypeOK, RequestOK
  <2> QED
    BY <1>2, <2>1, <2>2
    DEF hs_win32_finalize_async_read, Inv, TypeOK, RequestOK, BufferOK, CallOK, LifeOK, EventOK,
        BufferOutlivesRequest, InFlight, Calls
<1>3. CASE /\ op \in {"none", "failed"} /\ len' = (IF op = "failed" THEN -1 ELSE 0)
           /\ call' = Idle /\ pending_thread' = None /\ event' = event /\ UNCHANGED pos
    BY <1>0, <1>3
    DEF hs_win32_finalize_async_read, Inv, TypeOK, RequestOK, BufferOK, CallOK, LifeOK, EventOK,
        BufferOutlivesRequest, InFlight, Calls
<1> QED BY <1>1, <1>2, <1>3 DEF hs_win32_finalize_async_read, AfterWait, FailedResult

\* What ReadReturns takes is some of what the buffer holds.
LEMMA TakenSome ==
    ASSUME Inv, call.pc = "copy"
    PROVE  /\ Taken \in 1 .. len /\ len \in 1 .. BufSize /\ pos \in 0 .. BufSize
           /\ op = "done" /\ pending_thread = None /\ handle = "open" /\ pos + len = Len(buf)
           /\ call.thread \in Threads
<1>1. call.size \in Nat \ {0}
    BY AsyncAssumption DEF Inv, CallOK
<1> QED BY <1>1 DEF Inv, TypeOK, BufferOK, CallOK, Taken

LEMMA ReturnInv == ASSUME Inv, ReadReturns PROVE Inv'
<1> USE AsyncAssumption DEF fixed, device, life, request
<1>0. Idle \in Calls /\ Idle.pc = "idle"
    BY DEF Idle, Calls
<1>1. /\ Taken \in 1 .. len /\ len \in 1 .. BufSize /\ pos \in 0 .. BufSize
      /\ op = "done" /\ pending_thread = None /\ handle = "open" /\ pos + len = Len(buf)
      /\ call.thread \in Threads
    BY TakenSome DEF ReadReturns
<1>2. pos' \in 0 .. BufSize /\ pos' = pos + Taken
    BY <1>1 DEF ReadReturns, Inv, RequestOK
<1>3. got' \in Seq(Nat)
  <2>1. SubSeq(buf, pos + 1, pos + Taken) \in Seq(Nat)
    BY <1>1 DEF Inv, TypeOK
  <2> QED BY <2>1 DEF ReadReturns, Inv, TypeOK
<1>4. call' = Idle /\ UNCHANGED <<fixed, device, life>>
    BY DEF ReadReturns
<1>5. CASE Exhausted
  <2> PICK r \in {-1, 0} : hs_win32_start_async_read(call.thread, r) /\ len' = r
    BY <1>5 DEF ReadReturns
  <2>1. /\ faults' \in 0 .. MaxFaults /\ buf' = buf /\ event' \in BOOLEAN
        /\ pending_thread' \in Threads \cup {None}
        /\ r = 0 => op' = "pending" /\ ~event' /\ pending_thread' # None
        /\ r = -1 => op' = "none" /\ (event' => event)
    BY <1>1, StartStep
  <2> QED
    BY <1>0, <1>1, <1>2, <1>3, <1>4, <2>1
    DEF Inv, TypeOK, RequestOK, BufferOK, CallOK, LifeOK, EventOK,
        BufferOutlivesRequest, InFlight, Calls
<1>6. CASE ~Exhausted
  <2>1. len' = len - Taken /\ UNCHANGED <<request, faults>> /\ len # Taken
    BY <1>6 DEF ReadReturns, Exhausted
  <2>2. len' \in 1 .. BufSize /\ pos' + len' = Len(buf)
    BY <1>1, <1>2, <2>1
  <2>3. TypeOK'
    BY <1>0, <1>2, <1>3, <1>4, <2>1, <2>2 DEF Inv, TypeOK, Calls
  <2> QED
    BY <1>0, <1>1, <1>4, <2>1, <2>2, <2>3
    DEF Inv, RequestOK, BufferOK, CallOK, LifeOK, EventOK, BufferOutlivesRequest, InFlight
<1> QED BY <1>5, <1>6

LEMMA WriteInv == ASSUME Inv, NEW t \in Threads, WriteFails(t) PROVE Inv'
<1>1. faults' \in 0 .. MaxFaults
    BY AsyncAssumption DEF WriteFails, Fault, Removed, Inv, TypeOK
<1> QED
    BY <1>1 DEF WriteFails, CancelIo, fixed, device, life, Inv, TypeOK, RequestOK, BufferOK,
                CallOK, LifeOK, EventOK, BufferOutlivesRequest, InFlight

LEMMA CloseInv == ASSUME Inv, NEW t \in Threads, close_win32_device(t) PROVE Inv'
<1> USE AsyncAssumption DEF fixed, device
<1>1. /\ handle = "open" /\ call.pc = "idle" /\ refs' = 0 /\ dev' = FALSE
      /\ UNCHANGED <<fixed, device, got, buf, pos, len, pending_thread, call, faults>>
    BY DEF close_win32_device, DropReference, Inv, TypeOK, LifeOK
<1>2. handle' \in {"cleanup", "leaked", "freed"}
    BY DEF close_win32_device
<1>3. /\ op' \in {"none", "done", "failed", "pending", "cancelled"} /\ event' \in BOOLEAN
      /\ op = "done" <=> op' = "done"
      /\ op \in {"none", "failed"} => op' \in {"none", "failed"}
      /\ op' = "done" => event'
      /\ op' = "pending" => op = "pending" /\ ~event'
      /\ op' = "cancelled" => system = "vista" /\ handle' = "freed"
    BY <1>1 DEF close_win32_device, CancelIo, Inv, TypeOK, RequestOK
<1>4. system = "xp" /\ handle' = "freed" => op' \notin {"pending", "cancelled"}
    BY <1>1 DEF close_win32_device, CancelIo, OtherThread, Inv, TypeOK, RequestOK
<1>5. TypeOK'
    BY <1>1, <1>2, <1>3 DEF Inv, TypeOK
<1>6. BufferOK'
    BY <1>1, <1>2, <1>3 DEF Inv, BufferOK, TypeOK
<1> QED
    BY <1>1, <1>2, <1>3, <1>4, <1>5, <1>6
    DEF Inv, RequestOK, CallOK, LifeOK, EventOK, BufferOutlivesRequest, InFlight

LEMMA CleanupInv == ASSUME Inv, overlapped_cleanup_thread PROVE Inv'
<1> USE DEF fixed, device
<1>1. /\ handle = "cleanup" /\ handle' \in {"leaked", "freed"} /\ refs' = refs /\ dev' = FALSE
      /\ pending_thread' \in {pending_thread, None} /\ call.pc = "idle"
      /\ UNCHANGED <<fixed, device, got, op, event, buf, pos, len, call, faults>>
      /\ InFlight => handle' = "leaked" /\ pending_thread' = pending_thread
    BY DEF overlapped_cleanup_thread, DropReference, Inv, LifeOK, CallOK, TypeOK
<1>2. TypeOK'
    BY <1>1 DEF Inv, TypeOK
<1>3. RequestOK' /\ BufferOK'
    BY <1>1 DEF Inv, RequestOK, BufferOK, InFlight
<1> QED
    BY <1>1, <1>2, <1>3 DEF Inv, CallOK, LifeOK, EventOK, BufferOutlivesRequest, InFlight

LEMMA NextInv == ASSUME Inv, [Next]_vars PROVE Inv'
<1>1. CASE UNCHANGED vars
    BY <1>1 DEF vars, Inv, TypeOK, RequestOK, BufferOK, CallOK, LifeOK, EventOK,
                BufferOutlivesRequest, InFlight
<1> QED
    BY <1>1, DeviceInv, EndInv, OpenInv, ReadInv, FinalizeInv, ReturnInv, WriteInv, CloseInv,
       CleanupInv DEF Next

-----------------------------------------------------------------------------
(* Theorems. *)

THEOREM Invariance == Spec => []Inv
BY InitInv, NextInv, PTL DEF Spec

\* The state of a handle stays well formed: h->ptr and h->len stay within the
\* buffer, and close_win32_device() drops the reference on the device once.
THEOREM TypeCorrect == Spec => []TypeOK
<1>1. Inv => TypeOK
    BY DEF Inv
<1> QED BY <1>1, Invariance, PTL

\* On XP no request is in flight when the handle is freed, whichever threads read,
\* write and close it.
THEOREM BufferCorrect == Spec => []BufferOutlivesRequest
<1>1. Inv => BufferOutlivesRequest
    BY DEF Inv
<1> QED BY <1>1, Invariance, PTL

\* Between two reads the event of the handle is set when there is data, and only
\* when there is data or an error.
THEOREM DescriptorCorrect == Spec => []DescriptorExact
<1>1. ASSUME Inv PROVE DescriptorExact
  <2>1. Unread # <<>> => op = "done"
    BY DEF Unread
  <2> QED BY <1>1, <2>1 DEF DescriptorExact, Inv, RequestOK, EventOK
<1> QED BY <1>1, Invariance, PTL

-----------------------------------------------------------------------------
(* The refinement of Channel. *)

LEMMA UnreadType ==
    ASSUME Inv
    PROVE  /\ queue \in Seq(Nat) /\ chan \in Seq(Nat)
           /\ handle = "open" => Unread \in Seq(Nat) /\ chan = Unread \o queue
<1>1. buf \in Seq(Nat) /\ queue \in Seq(Nat) /\ pos \in Nat /\ len \in Int
    BY DEF Inv, TypeOK
<1>2. CASE handle = "open" /\ op = "done" /\ pending_thread = None
  <2>1. pos + 1 \in 1 .. Len(buf) /\ pos + len = Len(buf)
    BY <1>1, <1>2 DEF Inv, BufferOK
  <2>2. SubSeq(buf, pos + 1, pos + len) \in Seq(Nat)
    BY <1>1, <2>1
  <2> QED BY <1>1, <1>2, <2>2 DEF Unread, chan
<1>3. CASE handle = "open" /\ ~(op = "done" /\ pending_thread = None)
    BY <1>1, <1>3 DEF Unread, chan
<1>4. CASE handle # "open"
    BY <1>1, <1>4 DEF chan
<1> QED BY <1>2, <1>3, <1>4

\* No data is in the buffer while a request is in flight, has failed or was not
\* started.
LEMMA NothingUnread == ASSUME op # "done" PROVE Unread = <<>>
BY DEF Unread

\* A step that leaves the channel, what was read and what was sent as they are.
Silent == UNCHANGED <<sent, chan, got>> /\ (handle = "open" <=> handle' = "open")

LEMMA SilentStep == ASSUME Silent PROVE UNCHANGED ChannelOf!vars
BY DEF Silent, ChannelOf!vars

LEMMA DeviceRefines == ASSUME Inv, Inv', DeviceSends PROVE ChannelOf!Put
<1>1. handle = "open" /\ handle' = "open" /\ sent' = sent + 1 /\ got' = got
    BY DEF DeviceSends, life
<1>2. Unread' = Unread /\ queue' = Append(queue, sent + 1)
    BY DEF DeviceSends, request, Unread
<1>3. sent \in Nat /\ sent + 1 \in Nat
    BY DEF Inv, TypeOK
<1>4. chan = Unread \o queue /\ chan' = Unread \o Append(queue, sent + 1)
    BY <1>1, <1>2 DEF chan
<1>5. Unread \in Seq(Nat) /\ queue \in Seq(Nat)
    BY <1>1, UnreadType
<1>6. chan' = Append(chan, sent + 1)
    BY <1>3, <1>4, <1>5
<1> QED BY <1>1, <1>6 DEF ChannelOf!Put

LEMMA CompletionRefines == ASSUME Inv, Inv', Completion PROVE Silent
<1> PICK n \in 1 .. Len(queue) : RequestCompletes(n)
    BY DEF Completion
<1>1. UNCHANGED <<sent, got, handle>>
    BY DEF RequestCompletes, life
<1>2. CASE handle = "open"
  <2>1. queue \in Seq(Nat) /\ n \in 1 .. Len(queue)
    BY DEF Inv, TypeOK
  <2>2. Unread = <<>>
    BY NothingUnread DEF RequestCompletes
  <2>3. op' = "done" /\ pending_thread' # None
    BY DEF RequestCompletes, Inv, RequestOK
  <2>4. Unread' = SubSeq(queue, 1, n) /\ queue' = SubSeq(queue, n + 1, Len(queue))
    BY <2>3 DEF RequestCompletes, Unread
  <2>5. SubSeq(queue, 1, n) \o SubSeq(queue, n + 1, Len(queue)) = queue
    BY <2>1, ConcatAdjacentSubSeq, SubSeqFull
  <2> QED BY <1>1, <1>2, <2>1, <2>2, <2>4, <2>5 DEF Silent, chan
<1>3. CASE handle # "open"
    BY <1>1, <1>3 DEF Silent, chan
<1> QED BY <1>2, <1>3

\* Steps with no data in the buffer before and after.
LEMMA EmptyRefines ==
    ASSUME op # "done", op' # "done", UNCHANGED <<sent, got, handle, queue>>
    PROVE  Silent
BY NothingUnread DEF Silent, chan, Unread

LEMMA OpenRefines == ASSUME Inv, NEW t \in Threads, open_win32_device(t) PROVE ChannelOf!Open
<1>1. handle = "none" /\ handle' = "open" /\ UNCHANGED <<sent, queue, got>>
    BY DEF open_win32_device, device
<1>2. sent = 0 /\ queue = <<>>
    BY <1>1 DEF Inv, LifeOK
<1>3. op' # "done"
    BY DEF open_win32_device, hs_win32_start_async_read, Started, StartFails
<1>4. Unread' = <<>>
    BY <1>3 DEF Unread
<1>5. chan = <<>> /\ chan' = <<>>
    BY <1>1, <1>2, <1>4 DEF chan
<1> QED BY <1>1, <1>2, <1>5 DEF ChannelOf!Open

LEMMA ReadRefines == ASSUME Inv, Read PROVE Silent
<1> PICK t \in Threads, size \in Sizes, wait \in BOOLEAN : hs_read(t, size, wait)
    BY DEF Read
<1>1. UNCHANGED <<sent, got, handle, queue, pos>>
    BY DEF hs_read, device, life
<1>2. CASE len < 0
  <2>1. op # "done"
    BY <1>2 DEF Inv, BufferOK
  <2>2. op' # "done"
    <3>1. \E r \in {-1, 0} : hs_win32_start_async_read(t, r)
      BY <1>2 DEF hs_read, Inv, TypeOK
    <3> QED BY <3>1 DEF hs_win32_start_async_read, Started, StartFails
  <2> QED BY <1>1, <2>1, <2>2, EmptyRefines
<1>3. CASE len >= 0
  <2>1. UNCHANGED <<request, len>>
    BY <1>3 DEF hs_read, Inv, TypeOK
  <2> QED BY <1>1, <2>1 DEF request, Silent, chan, Unread
<1> QED BY <1>2, <1>3 DEF Inv, TypeOK

LEMMA FinalizeRefines == ASSUME Inv, hs_win32_finalize_async_read PROVE Silent
<1>1. UNCHANGED <<sent, got, handle, queue, op, buf>>
    BY DEF hs_win32_finalize_async_read, device, life
<1>2. CASE op # "done"
    BY <1>1, <1>2, EmptyRefines
<1>3. CASE op = "done"
  <2>1. len' = Len(buf) /\ pos' = 0 /\ pending_thread' = None /\ call.pc = "finalize"
    BY <1>3 DEF hs_win32_finalize_async_read, InFlight
  <2>2. pending_thread # None
    BY <1>3, <2>1 DEF Inv, BufferOK, CallOK
  <2>3. buf \in Seq(Nat)
    BY DEF Inv, TypeOK
  <2>4. Unread' = SubSeq(buf, 1, Len(buf)) /\ Unread = buf
    BY <1>1, <1>3, <2>1, <2>2, <2>3 DEF Unread
  <2>5. Unread' = Unread
    BY <2>3, <2>4, SubSeqFull
  <2> QED BY <1>1, <2>5 DEF Silent, chan
<1> QED BY <1>2, <1>3

\* Taking some of the first of two sequences leaves the rest of it in front.
LEMMA DropOfConcat ==
    ASSUME NEW a \in Seq(Nat), NEW b \in Seq(Nat), NEW n \in 1 .. Len(a)
    PROVE  SubSeq(a \o b, n + 1, Len(a) + Len(b)) = SubSeq(a, n + 1, Len(a)) \o b
<1> DEFINE c == a \o b
           d == SubSeq(a, n + 1, Len(a))
           l == SubSeq(c, n + 1, Len(a) + Len(b))
           r == d \o b
<1>1. /\ c \in Seq(Nat) /\ Len(c) = Len(a) + Len(b)
      /\ \A i \in 1 .. Len(a) + Len(b) : c[i] = IF i <= Len(a) THEN a[i] ELSE b[i - Len(a)]
    BY ConcatProperties
<1>2. /\ d \in Seq(Nat) /\ Len(d) = Len(a) - n
      /\ \A i \in 1 .. Len(a) - n : d[i] = a[n + i]
    OBVIOUS
<1> HIDE DEF c, d
<1>3. l \in Seq(Nat) /\ Len(l) = Len(a) + Len(b) - n
  <2>1. n + 1 \in Int /\ Len(c) \in Int /\ Len(a) \in Nat /\ Len(b) \in Nat
    BY <1>1
  <2>2. \A i \in n + 1 .. Len(c) : c[i] \in Nat
    BY <1>1
  <2> QED BY <1>1, <2>1, <2>2, SubSeqProperties
<1>4. \A i \in 1 .. Len(a) + Len(b) - n : l[i] = c[n + i]
    BY <1>1
<1>5. /\ r \in Seq(Nat) /\ Len(r) = Len(d) + Len(b)
      /\ \A i \in 1 .. Len(d) + Len(b) : r[i] = IF i <= Len(d) THEN d[i] ELSE b[i - Len(d)]
    BY <1>2, ConcatProperties
<1> HIDE DEF l, r
<1>6. Len(l) = Len(r)
    BY <1>2, <1>3, <1>5
<1>7. ASSUME NEW i \in 1 .. Len(l) PROVE l[i] = r[i]
  <2>1. i \in 1 .. Len(a) + Len(b) - n /\ Len(a) \in Nat /\ Len(b) \in Nat
    BY <1>3
  <2>2. PICK k \in 1 .. Len(a) + Len(b) : k = n + i
    BY <2>1
  <2>3. l[i] = c[k] /\ c[k] = IF k <= Len(a) THEN a[k] ELSE b[k - Len(a)]
    BY <1>1, <1>4, <2>1, <2>2
  <2>4. CASE i <= Len(a) - n
    <3>1. l[i] = a[k]
      BY <2>1, <2>2, <2>4, <2>3
    <3>2. r[i] = d[i] /\ d[i] = a[n + i]
      BY <1>2, <1>5, <2>1, <2>4
    <3> QED BY <2>2, <3>1, <3>2
  <2>5. CASE i > Len(a) - n
    <3>1. l[i] = b[k - Len(a)]
      BY <2>1, <2>2, <2>5, <2>3
    <3>2. r[i] = b[i - (Len(a) - n)]
      BY <1>2, <1>5, <2>1, <2>5
    <3>3. k - Len(a) = i - (Len(a) - n)
      BY <2>1, <2>2
    <3> QED BY <2>2, <3>1, <3>2, <3>3
  <2> QED BY <2>1, <2>4, <2>5
<1>8. l = r
    BY <1>3, <1>5, <1>6, <1>7, SeqEqual
<1> QED BY <1>8 DEF l, r, c, d

LEMMA ReturnRefines == ASSUME Inv, Inv', ReadReturns PROVE \E n \in 1 .. Len(chan) : ChannelOf!Get(n)
<1> DEFINE n == Taken
<1>1. /\ n \in 1 .. len /\ len \in 1 .. BufSize /\ pos \in 0 .. BufSize
      /\ op = "done" /\ pending_thread = None /\ handle = "open" /\ pos + len = Len(buf)
    BY TakenSome DEF ReadReturns
<1>2. /\ UNCHANGED <<sent, queue, handle>> /\ buf' = buf /\ pos' = pos + n
      /\ got' = got \o SubSeq(buf, pos + 1, pos + n)
    BY DEF ReadReturns, device, life, request, hs_win32_start_async_read, Started, StartFails
<1>3. buf \in Seq(Nat) /\ queue \in Seq(Nat)
    BY DEF Inv, TypeOK
<1> DEFINE u == SubSeq(buf, pos + 1, pos + len)
<1>4. Unread = u /\ chan = u \o queue
    BY <1>1 DEF Unread, chan
<1>5. chan' = SubSeq(buf, pos + n + 1, pos + len) \o queue
  <2>1. CASE n = len
    <3>1. op' # "done"
      BY <2>1 DEF ReadReturns, Exhausted, hs_win32_start_async_read, Started, StartFails
    <3>2. SubSeq(buf, pos + n + 1, pos + len) = <<>>
      BY <1>1, <2>1, SubSeqEmpty
    <3>3. Unread' = <<>>
      BY <3>1 DEF Unread
    <3> QED BY <1>1, <1>2, <3>2, <3>3 DEF chan
  <2>2. CASE n # len
    <3>1. len' = len - n /\ UNCHANGED <<op, pending_thread>>
      BY <2>2 DEF ReadReturns, Exhausted, request
    <3>2. pos' + len' = pos + len /\ pos' + 1 = pos + n + 1
      BY <1>1, <1>2, <3>1
    <3> QED BY <1>1, <1>2, <3>1, <3>2 DEF chan, Unread
  <2> QED BY <2>1, <2>2
<1> HIDE DEF n
<1>6. u \in Seq(Nat) /\ Len(u) = len
    BY <1>1, <1>3
<1>7. SubSeq(u, 1, n) = SubSeq(buf, pos + 1, pos + n)
    BY <1>1, <1>3
<1>8. SubSeq(u, n + 1, len) = SubSeq(buf, pos + n + 1, pos + len)
    BY <1>1, <1>3
<1> HIDE DEF u
<1>9. Len(chan) = len + Len(queue) /\ n \in 1 .. Len(chan)
  <2>1. Len(chan) = len + Len(queue) /\ Len(queue) \in Nat
    BY <1>3, <1>4, <1>6, ConcatProperties
  <2> QED BY <1>1, <2>1
<1>10. SubSeq(chan, 1, n) = SubSeq(u, 1, n)
    BY <1>1, <1>3, <1>4, <1>6
<1>11. SubSeq(chan, n + 1, Len(chan)) = SubSeq(u, n + 1, len) \o queue
    BY <1>1, <1>3, <1>4, <1>6, <1>9, DropOfConcat
<1>12. ChannelOf!Get(n)
    BY <1>1, <1>2, <1>5, <1>7, <1>8, <1>9, <1>10, <1>11 DEF ChannelOf!Get
<1> QED BY <1>9, <1>12

LEMMA CloseRefines == ASSUME Inv, NEW t \in Threads, close_win32_device(t) PROVE ChannelOf!Close
BY DEF close_win32_device, device, chan, ChannelOf!Close

\* Steps that do not concern the channel.
LEMMA OtherRefines ==
    ASSUME Inv, \/ Unplug \/ RequestFails \/ overlapped_cleanup_thread \/ UNCHANGED vars
                \/ \E t \in Threads : WriteFails(t)
    PROVE  Silent
<1>1. CASE Unplug \/ UNCHANGED vars
    BY <1>1 DEF Unplug, vars, life, request, Silent, chan, Unread
<1>2. CASE RequestFails
    BY <1>2, EmptyRefines DEF RequestFails, life, device
<1>3. CASE overlapped_cleanup_thread
    BY <1>3 DEF overlapped_cleanup_thread, device, Silent, chan
<1>4. ASSUME NEW t \in Threads, WriteFails(t) PROVE Silent
  <2>1. UNCHANGED <<sent, got, handle, queue, buf, pos, len, pending_thread>>
    BY <1>4 DEF WriteFails, device, life
  <2>2. op' = op \/ (op # "done" /\ op' # "done")
    BY <1>4 DEF WriteFails, CancelIo
  <2>3. CASE op' = op
    BY <2>1, <2>3 DEF Silent, chan, Unread
  <2> QED BY <2>1, <2>2, <2>3, EmptyRefines
<1> QED BY <1>1, <1>2, <1>3, <1>4

\* The handle gives the items in the order in which the device sent them, none
\* lost and none twice: AsyncReadWin32 implements Channel.
THEOREM Refinement == Spec => ImplementsChannel
<1>1. Init => ChannelOf!Init
    BY DEF Init, ChannelOf!Init, chan
<1>2. ASSUME Inv, Inv', [Next]_vars PROVE [ChannelOf!Next]_(ChannelOf!vars)
    BY <1>2, DeviceRefines, CompletionRefines, OpenRefines, ReadRefines, FinalizeRefines,
       ReturnRefines, CloseRefines, OtherRefines, SilentStep DEF Next, ChannelOf!Next
<1> QED BY <1>1, <1>2, Invariance, PTL DEF Spec, ImplementsChannel, ChannelOf!Spec

=============================================================================
