--------------------------- MODULE AsyncReadWin32 ---------------------------
(***************************************************************************)
(* Handles of Windows (device_win32.c, hid_win32.c, serial_win32.c).  A    *)
(* handle keeps one asynchronous read request: it is started when the      *)
(* handle is opened and again when a read has taken the last of the data   *)
(* it brought; its event is the descriptor of the handle.                  *)
(*                                                                         *)
(* The system is external.  ReadFile() resets the event and may fail at    *)
(* once; a request completes with data, or fails, and sets the event.      *)
(* CancelIo() ends the requests of the calling thread and waits for them;  *)
(* CancelIoEx() ends the requests of all threads and does not wait.  XP    *)
(* has no CancelIoEx().                                                    *)
(*                                                                         *)
(* Abstractions.  The items are numbered: a request brings one report of a *)
(* HID device, or at most BufSize bytes of a serial device.  A timeout     *)
(* that is not negative may expire at any moment.                          *)
(***************************************************************************)
EXTENDS Integers, Sequences, FiniteSets

CONSTANTS
    Threads,   \* threads of the application
    Systems,   \* "xp", "vista"
    Types,     \* "hid", "serial"
    BufSize,   \* READ_BUFFER_SIZE
    Sizes,     \* sizes of the application's buffers
    MaxData,   \* bound: items that the device sends
    MaxFaults, \* bound: calls of the system that fail while the device is there
    None       \* no thread

ASSUME AsyncAssumption ==
    /\ BufSize \in Nat \ {0}
    /\ Sizes \subseteq Nat \ {0}
    /\ MaxData \in Nat
    /\ MaxFaults \in Nat
    /\ None \notin Threads
    /\ Systems \subseteq {"xp", "vista"}
    /\ Types \subseteq {"hid", "serial"}

VARIABLES
    system, type,   \* fixed
    plugged,        \* the device is there
    queue,          \* items the driver has not given to a request
    sent, got,      \* number of items sent, items read
    handle,         \* "none", "open", "cleanup", "leaked", "freed"
    dev,            \* h->dev is not NULL
    refs,           \* references of the handle on the device
    op,             \* the request: "none", "pending", "cancelled", "done", "failed"
    event,          \* h->ov->hEvent is set
    buf,            \* what the last request wrote to h->buf
    pos, len,       \* h->ptr - h->buf, h->len
    pending_thread, \* h->pending_thread
    call,           \* the call in progress
    faults

fixed == <<system, type>>
device == <<plugged, queue, sent>>
life == <<handle, dev, refs>>
request == <<op, event, buf, pending_thread>>
vars == <<system, type, plugged, queue, sent, got, handle, dev, refs, op, event,
          buf, pos, len, pending_thread, call, faults>>

-----------------------------------------------------------------------------
Idle == [pc |-> "idle", thread |-> None, size |-> 0, wait |-> FALSE]

Init ==
    /\ system \in Systems /\ type \in Types
    /\ plugged = TRUE
    /\ queue = <<>>
    /\ sent = 0 /\ got = <<>>
    /\ handle = "none" /\ dev = FALSE /\ refs = 0
    /\ op = "none" /\ event = FALSE /\ buf = <<>> /\ pending_thread = None
    /\ pos = 0 /\ len = 0
    /\ call = Idle
    /\ faults = 0

InFlight == op \in {"pending", "cancelled"}

-----------------------------------------------------------------------------
(* The device and the system. *)

DeviceSends ==
    /\ plugged
    /\ handle = "open"
    /\ sent < MaxData
    /\ sent' = sent + 1
    /\ queue' = Append(queue, sent + 1)
    /\ UNCHANGED <<fixed, plugged, got, life, request, pos, len, call, faults>>

Unplug ==
    /\ plugged
    /\ plugged' = FALSE
    /\ UNCHANGED <<fixed, queue, sent, got, life, request, pos, len, call, faults>>

\* The size that ReadFile() is called with.
ReadSize == BufSize

\* A request completes with at least one item: the interval timeout of a serial
\* device runs from its first byte and there is no total one, and a HID report is
\* not empty.
RequestCompletes(n) ==
    /\ op = "pending"
    /\ n \in 1 .. Len(queue)
    /\ n <= IF type = "hid" THEN 1 ELSE ReadSize
    /\ op' = "done" /\ event' = TRUE
    /\ buf' = SubSeq(queue, 1, n)
    /\ queue' = SubSeq(queue, n + 1, Len(queue))
    /\ UNCHANGED <<fixed, plugged, sent, got, life, pos, len, pending_thread, call, faults>>

\* A failure that is not due to the removal of the device.
Fault == plugged /\ faults < MaxFaults /\ faults' = faults + 1
Removed == ~plugged /\ UNCHANGED faults

RequestFails ==
    /\ \/ op = "pending" /\ (Fault \/ Removed)
       \/ op = "cancelled" /\ UNCHANGED faults
    /\ op' = "failed" /\ event' = TRUE
    /\ UNCHANGED <<fixed, device, got, life, buf, pos, len, pending_thread, call>>

-----------------------------------------------------------------------------
(* _hs_win32_start_async_read(): result 0, or -1. *)

Started(t) ==
    /\ plugged
    /\ op' = "pending" /\ event' = FALSE
    /\ pending_thread' = t
    /\ UNCHANGED <<buf, faults>>

StartFails ==
    /\ Fault \/ Removed
    /\ op' = "none" /\ event' \in {FALSE, event}
    /\ UNCHANGED <<buf, pending_thread>>

hs_win32_start_async_read(t, r) == (r = 0 /\ Started(t)) \/ (r = -1 /\ StartFails)

\* The result of the first request is not looked at: h->len stays 0.  A handle
\* that cannot be opened is closed again.
open_win32_device(t) ==
    /\ handle = "none"
    /\ handle' = "open" /\ dev' = TRUE /\ refs' = refs + 1
    /\ \E r \in {-1, 0} : hs_win32_start_async_read(t, r)
    /\ UNCHANGED <<fixed, device, got, pos, len, call>>

-----------------------------------------------------------------------------
(* hs_hid_read() and hs_serial_read(). *)

\* A request that has failed is started again.  Data left from the last request
\* (of a serial device) is given without a look at the request.
hs_read(t, size, wait) ==
    /\ handle = "open"
    /\ call.pc = "idle"
    /\ LET at(pc) == [pc |-> pc, thread |-> t, size |-> size, wait |-> wait]
       IN  \/ /\ len < 0
              /\ \E r \in {-1, 0} :
                   /\ hs_win32_start_async_read(t, r)
                   /\ len' = r
                   /\ call' = IF r < 0 THEN Idle ELSE at("finalize")
           \/ /\ len >= 0
              /\ call' = at(IF len > 0 THEN "copy" ELSE "finalize")
              /\ UNCHANGED <<request, len, faults>>
    /\ UNCHANGED <<fixed, device, got, life, pos>>

AfterWait_reset == FALSE

\* The event is reset by hand, so that waiting for it leaves it as it is.
AfterWait == event

FailedResult_zero == 0

\* h->len after an error.
FailedResult == -1

\* Without a request there is nothing to wait for, and a result of 0 bytes.
hs_win32_finalize_async_read ==
    /\ call.pc = "finalize"
    /\ \/ /\ InFlight /\ ~call.wait
          /\ len' = 0
          /\ call' = Idle
          /\ UNCHANGED <<event, pos, pending_thread>>
       \/ /\ op = "done"
          /\ len' = Len(buf) /\ pos' = 0
          /\ call' = [call EXCEPT !.pc = "copy"]
          /\ pending_thread' = None
          /\ event' = AfterWait
       \/ /\ op \in {"none", "failed"}
          /\ len' = IF op = "failed" THEN FailedResult ELSE 0
          /\ call' = Idle
          /\ pending_thread' = None
          /\ event' = AfterWait
          /\ UNCHANGED pos
    /\ UNCHANGED <<fixed, device, got, life, op, buf, faults>>

Taken == IF call.size < len THEN call.size ELSE len

Exhausted_always == TRUE

\* The buffer has been read to its end.
Exhausted == len = Taken

\* The data is copied; when none is left the next request is started.
ReadReturns ==
    /\ call.pc = "copy"
    /\ got' = got \o SubSeq(buf, pos + 1, pos + Taken)
    /\ pos' = pos + Taken
    /\ \/ /\ Exhausted
          /\ \E r \in {-1, 0} : hs_win32_start_async_read(call.thread, r) /\ len' = r
       \/ /\ ~Exhausted
          /\ len' = len - Taken
          /\ UNCHANGED <<request, faults>>
    /\ call' = Idle
    /\ UNCHANGED <<fixed, device, life>>

-----------------------------------------------------------------------------
\* CancelIo() ends the requests that thread t has started.
CancelIo(t) ==
    IF op = "pending" /\ pending_thread = t
    THEN op' = "failed" /\ event' = TRUE
    ELSE UNCHANGED <<op, event>>

\* hs_hid_write(), hs_hid_get_feature_report() and hs_serial_write() fail and
\* cancel what the thread has under way, the read included.  One that succeeds
\* changes nothing here.
WriteFails(t) ==
    /\ handle = "open"
    /\ call.pc = "idle"
    /\ Fault \/ Removed
    /\ CancelIo(t)
    /\ UNCHANGED <<fixed, device, got, life, buf, pos, len, pending_thread, call>>

DropReference_keep == refs' = (IF dev THEN refs - 1 ELSE refs) /\ UNCHANGED dev

DropReference == refs' = (IF dev THEN refs - 1 ELSE refs) /\ dev' = FALSE

OtherThread_ignored(t) == FALSE
OtherThread(t) == pending_thread # t

\* On XP, with a request of another thread, a thread that frees the handle
\* later is started; when that fails the handle is leaked.
close_win32_device(t) ==
    /\ handle = "open"
    /\ call.pc = "idle"
    /\ DropReference
    /\ \/ /\ pending_thread = None
          /\ handle' = "freed"
          /\ UNCHANGED <<op, event>>
       \/ /\ pending_thread # None /\ system = "vista"
          /\ handle' = "freed"
          /\ op' = IF op = "pending" THEN "cancelled" ELSE op
          /\ UNCHANGED event
       \/ /\ pending_thread # None /\ system = "xp"
          /\ CancelIo(t)
          /\ handle' \in IF OtherThread(t) THEN {"cleanup", "leaked"} ELSE {"freed"}
    /\ UNCHANGED <<fixed, device, got, buf, pos, len, pending_thread, call, faults>>

\* The thread has waited for the event, or for five minutes.
overlapped_cleanup_thread ==
    /\ handle = "cleanup"
    /\ \/ /\ InFlight
          /\ handle' = "leaked"
          /\ UNCHANGED <<dev, refs, pending_thread>>
       \/ /\ ~InFlight
          /\ pending_thread' = None
          /\ DropReference
          /\ handle' = "freed"
    /\ UNCHANGED <<fixed, device, got, op, event, buf, pos, len, call, faults>>

-----------------------------------------------------------------------------
Read == \E t \in Threads, size \in Sizes, wait \in BOOLEAN : hs_read(t, size, wait)
Completion == \E n \in 1 .. Len(queue) : RequestCompletes(n)

Next ==
    \/ DeviceSends \/ Unplug \/ Completion \/ RequestFails
    \/ \E t \in Threads : open_win32_device(t) \/ WriteFails(t) \/ close_win32_device(t)
    \/ Read \/ hs_win32_finalize_async_read \/ ReadReturns
    \/ overlapped_cleanup_thread

Spec == Init /\ [][Next]_vars

\* Requests complete when there is data, calls go on, and the application reads
\* again and again.
FairSpec ==
    /\ Spec
    /\ WF_vars(Completion)
    /\ WF_vars(hs_win32_finalize_async_read)
    /\ WF_vars(ReadReturns)
    /\ WF_vars(Read)

-----------------------------------------------------------------------------
(* Properties. *)

\* Each variable has its type; the reference on the device, which
\* close_win32_device() may come to drop twice, is counted right.
TypeOK ==
    /\ system \in Systems /\ type \in Types
    /\ plugged \in BOOLEAN
    /\ queue \in Seq(Nat) /\ got \in Seq(Nat) /\ buf \in Seq(Nat)
    /\ sent \in 0 .. MaxData
    /\ handle \in {"none", "open", "cleanup", "leaked", "freed"}
    /\ dev \in BOOLEAN /\ refs = IF handle = "open" THEN 1 ELSE 0
    /\ op \in {"none", "pending", "cancelled", "done", "failed"}
    /\ event \in BOOLEAN
    /\ pos \in 0 .. BufSize /\ len \in -1 .. BufSize
    /\ pending_thread \in Threads \cup {None}
    /\ call \in [pc : {"idle", "finalize", "copy"}, thread : Threads \cup {None},
                 size : Sizes \cup {0}, wait : BOOLEAN]
    /\ faults \in 0 .. MaxFaults

\* Data that a request has brought and that has not been read.
Unread ==
    IF op # "done" THEN <<>>
    ELSE IF pending_thread # None THEN buf
    ELSE SubSeq(buf, pos + 1, pos + len)

\* The items on the way to the application, for the refinement mapping.
chan == IF handle = "open" THEN Unread \o queue ELSE <<>>

\* The handle gives the items in order, none lost and none twice, although
\* requests fail, are cancelled by failing writes, and are started again.
ChannelOf == INSTANCE Channel WITH up <- handle = "open"
ImplementsChannel == ChannelOf!Spec

\* Between two reads the descriptor of the handle shows that there is data, what
\* is left in the buffer included, and shows nothing else than data or an error.
DescriptorExact ==
    handle = "open" /\ call.pc = "idle" =>
        /\ Unread # <<>> => event
        /\ event => op \in {"done", "failed"} \/ len < 0

\* The buffer is not freed under a request on XP, whichever thread closes the
\* handle.
BufferOutlivesRequest == system = "xp" /\ handle = "freed" => ~InFlight

\* Every item is read in the end, although requests fail, unless the device is
\* gone, the handle is closed or the very first request could not be started.
DataRead ==
    \A n \in 1 .. MaxData :
        (sent >= n) ~> \/ \E i \in DOMAIN got : got[i] = n
                       \/ ~plugged \/ handle # "open"
                       \/ op = "none" /\ len = 0

=============================================================================
