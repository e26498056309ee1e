------------------------------ MODULE PosixIO -------------------------------
(***************************************************************************)
(* Handles and waiting on POSIX systems: open, read and write of hidraw    *)
(* devices (hid_linux.c) and of serial devices (device_posix.c,            *)
(* serial_posix.c), descriptor sets and hs_poll() (platform.c,             *)
(* platform_posix.c), and the timeouts they share, which are recomputed    *)
(* when a signal interrupts the wait.                                      *)
(*                                                                         *)
(* The kernel is external: poll() returns when a descriptor is ready, when *)
(* its time is over or when a signal comes, and time passes in jumps at    *)
(* any point.                                                              *)
(*                                                                         *)
(* Abstractions.  Time is in milliseconds.  Reports have one size; a read  *)
(* of serial data gives one byte or more, and only that it gave some is    *)
(* kept.  The flags of a terminal are left out.                            *)
(***************************************************************************)
EXTENDS HidDescriptor

CONSTANTS
    Kinds,       \* "hidraw", "hidraw26" (kernels 2.6.28 to 2.6.33), "serial", "serial_osx"
    Descriptors, \* report descriptors, as sequences of items
    ReportSize,  \* bytes of a report without its number
    Sizes,       \* sizes of the application's buffers
    Timeouts,    \* in milliseconds
    Instants,    \* the moments that the clock takes
    LastStart,   \* bound: no call is made after this moment
    Entries,     \* what is added to a descriptor set: [desc, id]
    MaxSet       \* entries of a descriptor set

ASSUME PosixAssumption ==
    /\ Kinds \subseteq {"hidraw", "hidraw26", "serial", "serial_osx"}
    /\ ReportSize \in Nat \ {0} /\ Sizes \subseteq Nat \ {0}
    /\ Descriptors \subseteq Seq(Items)
    /\ Timeouts \subseteq Int /\ Instants \subseteq Nat /\ 0 \in Instants
    /\ LastStart \in Nat /\ MaxSet \in Nat /\ Entries \subseteq [desc : {"dev", "other"}, id : Nat]

VARIABLES
    kind,   \* kind of the device, fixed
    now,    \* the time
    ready,  \* descriptors that are readable: "dev" of the handle, "other"
    gone,   \* the device has been unplugged
    handle, \* "closed", "opening", "open"
    refs,   \* references of the handle on the device
    hid,    \* numbered_reports, usage_page and usage
    set,    \* descriptor set: sequence of [desc, id]
    call    \* the call in progress

env == <<kind, now, ready, gone>>
vars == <<kind, now, ready, gone, handle, refs, hid, set, call>>

-----------------------------------------------------------------------------
IsHid == kind \in {"hidraw", "hidraw26"}
NoHid == [numbered |-> FALSE, page |-> 0, usage |-> 0]
Idle == [pc |-> "idle"]
Descs == {"dev", "other"}

Init ==
    /\ kind \in Kinds
    /\ now = 0
    /\ ready = {} /\ gone = FALSE
    /\ handle = "closed" /\ refs = 0
    /\ hid = NoHid
    /\ set = <<>>
    /\ call = Idle

TimePasses ==
    /\ \E t \in Instants : t > now /\ now' = t
    /\ UNCHANGED <<kind, ready, gone, handle, refs, hid, set, call>>

DataArrives(d) ==
    /\ d \notin ready
    /\ d = "dev" => handle = "open" /\ ~gone
    /\ ready' = ready \cup {d}
    /\ UNCHANGED <<kind, now, gone, handle, refs, hid, set, call>>

\* The application reads from its other descriptor.
OtherTaken ==
    /\ call.pc = "idle" /\ "other" \in ready
    /\ ready' = ready \ {"other"}
    /\ UNCHANGED <<kind, now, gone, handle, refs, hid, set, call>>

Unplug ==
    /\ ~gone
    /\ gone' = TRUE
    /\ ready' = ready \cup IF handle = "open" THEN {"dev"} ELSE {}
    /\ UNCHANGED <<kind, now, handle, refs, hid, set, call>>

-----------------------------------------------------------------------------
(* open_hidraw_device() and open_posix_device(). *)

OpenDevice ==
    /\ handle = "closed" /\ call.pc = "idle"
    /\ handle' = "opening" /\ refs' = refs + 1
    /\ call' = [pc |-> "open", retry |-> 4]
    /\ UNCHANGED <<env, hid, set>>

OpenError_leak ==
    /\ handle' = "closed" /\ call' = Idle
    /\ UNCHANGED refs

\* hs_handle_close() in the error path.
OpenError ==
    /\ handle' = "closed" /\ call' = Idle
    /\ refs' = refs - 1

\* open() has failed: with EBUSY it is tried again four times on OSX.  EINTR
\* starts over and changes nothing.
OpenFails ==
    /\ call.pc = "open"
    /\ \/ OpenError
       \/ /\ kind = "serial_osx" /\ call.retry > 0
          /\ call' = [call EXCEPT !.retry = @ - 1]
          /\ UNCHANGED <<handle, refs>>
    /\ UNCHANGED <<env, hid, set>>

\* The device is open; the report descriptor of a HID device, some items of
\* which the last byte may be missing, is read next.
OpenSucceeds ==
    /\ call.pc = "open" /\ ~gone
    /\ \/ /\ IsHid
          /\ \E items \in Descriptors, cut \in {0, 1} :
               call' = [pc |-> "parse", items |-> items, cut |-> cut]
          /\ UNCHANGED handle
       \/ ~IsHid /\ handle' = "open" /\ call' = Idle
    /\ UNCHANGED <<env, refs, hid, set>>

Bytes == LET all == EncodeAll(call.items)
         IN  SubSeq(all, 1, Len(all) - call.cut)

\* The ioctls for the descriptor, and parse_descriptor().
ReadDescriptor ==
    /\ call.pc = "parse"
    /\ \/ OpenError /\ UNCHANGED hid
       \/ /\ hid' = parse_descriptor(Bytes)
          /\ call' = [call EXCEPT !.pc = "parsed"]
          /\ UNCHANGED <<handle, refs>>
    /\ UNCHANGED <<env, set>>

OpenReturns ==
    /\ call.pc = "parsed"
    /\ handle' = "open" /\ call' = Idle
    /\ UNCHANGED <<env, refs, hid, set>>

CloseDevice ==
    /\ handle = "open" /\ call.pc = "idle"
    /\ handle' = "closed" /\ refs' = refs - 1 /\ hid' = NoHid
    /\ ready' = ready \ {"dev"}
    /\ UNCHANGED <<kind, now, gone, set, call>>

-----------------------------------------------------------------------------
(* The clock and the timeouts. *)

\* tv_sec * 1000 + tv_nsec / 10000000.
hs_millis(t) == (t \div 1000) * 1000 + (t % 1000) \div 10

hs_adjust_timeout_full(timeout, start, t) == timeout

hs_adjust_timeout(timeout, start, t) ==
    IF timeout < 0 THEN -1
    ELSE IF hs_millis(t) > start + timeout THEN 0
    ELSE start + timeout - hs_millis(t)

-----------------------------------------------------------------------------
(* hs_hid_read(), hs_serial_read() and hs_poll(): op is "read" or "poll". *)

Wait(op, timeout, size) ==
    [pc |-> "poll", op |-> op, timeout |-> timeout, size |-> size,
     begin |-> now, start |-> hs_millis(now), left |-> timeout, since |-> now, ret |-> 0]

hs_read(timeout, size) ==
    /\ handle = "open" /\ call.pc = "idle" /\ now <= LastStart
    /\ call' = [Wait("read", timeout, size) EXCEPT !.pc = IF timeout = 0 THEN "ready" ELSE "poll"]
    /\ UNCHANGED <<env, handle, refs, hid, set>>

hs_poll(timeout) ==
    /\ call.pc = "idle" /\ now <= LastStart
    /\ set # <<>>
    /\ call' = Wait("poll", timeout, 0)
    /\ UNCHANGED <<env, handle, refs, hid, set>>

\* poll() is entered, first or after a signal, with what is left of the timeout.
PollEnters ==
    /\ call.pc = "poll"
    /\ call' = [call EXCEPT !.pc = "wait", !.since = now,
                            !.left = hs_adjust_timeout(call.timeout, call.start, now)]
    /\ UNCHANGED <<env, handle, refs, hid, set>>

\* poll() also reports a descriptor that is closed (POLLNVAL).
Reported(d) == d \in ready \/ (d = "dev" /\ handle = "closed")

\* Whether a descriptor that the call waits for is reported.
SomeReported ==
    IF call.op = "read" THEN Reported("dev") ELSE \E i \in DOMAIN set : Reported(set[i].desc)

Return(r) == call' = [call EXCEPT !.pc = "return", !.ret = r]

\* A signal: poll() fails with EINTR.
PollInterrupted ==
    /\ call.pc = "wait"
    /\ ~SomeReported
    /\ call' = [call EXCEPT !.pc = "poll"]
    /\ UNCHANGED <<env, handle, refs, hid, set>>

PollFails ==
    /\ call.pc = "wait"
    /\ Return(-1)
    /\ UNCHANGED <<env, handle, refs, hid, set>>

PollTimesOut ==
    /\ call.pc = "wait"
    /\ ~SomeReported
    /\ call.left >= 0 /\ now >= call.since + call.left
    /\ Return(0)
    /\ UNCHANGED <<env, handle, refs, hid, set>>

\* hs_poll() gives the id of the first descriptor that is ready.
PollReady ==
    /\ call.pc = "wait"
    /\ SomeReported
    /\ \/ call.op = "read" /\ call' = [call EXCEPT !.pc = "ready"]
       \/ /\ call.op = "poll"
          /\ \E i \in DOMAIN set :
               /\ Reported(set[i].desc)
               /\ \A j \in 1 .. i - 1 : ~Reported(set[j].desc)
               /\ Return(set[i].id)
    /\ UNCHANGED <<env, handle, refs, hid, set>>

Least(a, b) == IF a < b THEN a ELSE b

\* read() from a hidraw device with room for n bytes: numbered reports come with
\* their number, and on old kernels with one byte more in front.
KernelRead(n) ==
    Least(n, ReportSize + (IF ~hid.numbered THEN 0 ELSE IF kind = "hidraw" THEN 1 ELSE 2))

detect_kernel26_byte_bug == kind = "hidraw26"

hs_hid_read_raw(size) == KernelRead(size)

\* The number of bytes that hs_hid_read() gives.
hs_hid_read(size) ==
    IF hid.numbered
    THEN IF detect_kernel26_byte_bug THEN KernelRead(size + 1) - 1 ELSE KernelRead(size)
    ELSE IF KernelRead(size - 1) > 0 THEN KernelRead(size - 1) + 1 ELSE 0

\* Without data the result is EAGAIN, which counts as 0 bytes.  Of a device that
\* is gone a read fails, or of a serial device gives 0 bytes.
ReadData ==
    /\ call.pc = "ready"
    /\ \/ gone /\ Return(-1) /\ UNCHANGED ready
       \/ gone /\ ~IsHid /\ Return(0) /\ UNCHANGED ready
       \/ ~gone /\ "dev" \notin ready /\ Return(0) /\ UNCHANGED ready
       \/ /\ ~gone /\ "dev" \in ready
          /\ IF IsHid THEN Return(hs_hid_read(call.size))
             ELSE \E n \in 1 .. call.size : Return(n)
          /\ ready' = ready \ {"dev"}
    /\ UNCHANGED <<kind, now, gone, handle, refs, hid, set>>

CallReturns ==
    /\ call.pc = "return"
    /\ call' = Idle
    /\ UNCHANGED <<env, handle, refs, hid, set>>

-----------------------------------------------------------------------------
(* hs_hid_write(), hs_hid_send_feature_report(), hs_serial_write() ("write"); *)
(* hs_hid_get_feature_report() ("feature").                                   *)

hs_write(op, size) ==
    /\ handle = "open" /\ call.pc = "idle" /\ now <= LastStart
    /\ op = "feature" => IsHid
    /\ call' = [Wait(op, -1, size) EXCEPT
                 !.pc = IF op = "write" /\ IsHid /\ size < 2 THEN "return" ELSE "transfer"]
    /\ UNCHANGED <<env, handle, refs, hid, set>>

\* write() and the ioctls start over after a signal.  hidraw writes a report or
\* fails.
hs_hid_write ==
    /\ call.pc = "transfer" /\ call.op = "write" /\ IsHid
    /\ Return(-1) \/ (~gone /\ Return(call.size))
    /\ UNCHANGED <<env, handle, refs, hid, set>>

\* ioctl(HIDIOCGFEATURE) with room for n bytes: the driver below hidraw gives the
\* report with or without its number in front.
KernelGetFeature(n) == {Least(n, ReportSize), Least(n, ReportSize + 1)}

\* The code puts the number in front in any case.
hs_hid_get_feature_report ==
    /\ call.pc = "transfer" /\ call.op = "feature"
    /\ Return(-1) \/ (~gone /\ \E r \in KernelGetFeature(call.size - 1) : Return(r + 1))
    /\ UNCHANGED <<env, handle, refs, hid, set>>

\* Once poll() says that it can, a serial device takes some bytes.
hs_serial_write ==
    /\ call.pc = "transfer" /\ call.op = "write" /\ ~IsHid
    /\ Return(-1) \/ (~gone /\ \E n \in 1 .. call.size : Return(n))
    /\ UNCHANGED <<env, handle, refs, hid, set>>

-----------------------------------------------------------------------------
(* Descriptor sets. *)

hs_descriptor_set_add(entry) ==
    /\ call.pc = "idle"
    /\ Len(set) < MaxSet
    /\ entry.desc = "dev" => handle = "open"
    /\ set' = Append(set, entry)
    /\ UNCHANGED <<env, handle, refs, hid, call>>

\* One turn of the loop that keeps the entries with another id.
Keep(kept, entry, id) == IF entry.id # id THEN Append(kept, entry) ELSE kept

\* What is kept of the first i entries.
Kept(entries, id) ==
    LET kept[i \in 0 .. Len(entries)] ==
            IF i = 0 THEN <<>> ELSE Keep(kept[i - 1], entries[i], id)
    IN  kept

hs_descriptor_set_remove(id) ==
    /\ call.pc = "idle"
    /\ set' = Kept(set, id)[Len(set)]
    /\ UNCHANGED <<env, handle, refs, hid, call>>

hs_descriptor_set_clear ==
    /\ call.pc = "idle"
    /\ set' = <<>>
    /\ UNCHANGED <<env, handle, refs, hid, call>>

-----------------------------------------------------------------------------
Opening == OpenSucceeds \/ OpenFails \/ ReadDescriptor \/ OpenReturns
Transfer == hs_hid_write \/ hs_hid_get_feature_report \/ hs_serial_write
Waiting == PollEnters \/ PollReady \/ ReadData \/ Transfer \/ CallReturns

Next ==
    \/ TimePasses \/ Unplug \/ OtherTaken \/ \E d \in Descs : DataArrives(d)
    \/ OpenDevice \/ Opening \/ CloseDevice
    \/ \E timeout \in Timeouts : hs_poll(timeout) \/ \E size \in Sizes : hs_read(timeout, size)
    \/ \E op \in {"write", "feature"}, size \in Sizes : hs_write(op, size)
    \/ Waiting \/ PollInterrupted \/ PollTimesOut \/ PollFails
    \/ \E entry \in Entries : hs_descriptor_set_add(entry) \/ hs_descriptor_set_remove(entry.id)
    \/ hs_descriptor_set_clear

Spec == Init /\ [][Next]_vars

\* Time goes on, calls go on, and signals do not interrupt every poll().
FairSpec ==
    /\ Spec
    /\ WF_vars(TimePasses)
    /\ WF_vars(Opening)
    /\ WF_vars(Waiting)
    /\ SF_vars(PollTimesOut)

-----------------------------------------------------------------------------
(* Properties. *)

Pcs == {"idle", "open", "parse", "parsed", "poll", "wait", "ready", "transfer", "return"}

\* Every variable has its type.  A handle keeps one reference on the device from
\* the start of hs_device_open() until it is closed or any error has ended it.
TypeOK ==
    /\ kind \in Kinds /\ now \in Nat /\ ready \subseteq Descs /\ gone \in BOOLEAN
    /\ handle \in {"closed", "opening", "open"}
    /\ refs = IF handle = "closed" THEN 0 ELSE 1
    /\ hid \in [numbered : BOOLEAN, page : Word, usage : Word]
    /\ set \in Seq(Entries) /\ Len(set) <= MaxSet
    /\ call.pc \in Pcs
    /\ call.pc \in {"poll", "wait", "ready", "transfer", "return"} =>
         call \in [pc : Pcs, op : {"read", "poll", "write", "feature"}, timeout : Int, size : Nat,
                   begin : Nat, start : Nat, left : Int, since : Nat, ret : Int]

\* Whatever the descriptor and wherever it is cut, parse_descriptor() finds
\* what its whole items say: whether reports are numbered, and the last usage
\* page and usage outside of all collections.
ParsedRight ==
    call.pc = "parsed" =>
        hid = Meaning(call.items, Whole(call.items, Len(Bytes)))

\* The size of what hs_hid_read() gives is that of the report with its number in
\* front (0 when reports are not numbered), cut to the size of the buffer,
\* whatever the kernel puts in front of a report.  A buffer of one byte is too
\* small for a report without number.  A feature report is not shorter, and never
\* longer than the buffer; the number may be there twice.
ReportWhole ==
    call.pc = "return" /\ call.op \in {"read", "feature"} /\ IsHid /\ call.ret > 0 =>
        /\ Least(call.size, ReportSize + 1) <= call.ret
        /\ call.ret <= Least(call.size, ReportSize + (IF call.op = "read" THEN 1 ELSE 2))

\* How far hs_millis() may be behind the time.
MaxLag == 900

\* However often signals interrupt a wait, the deadline that poll() is given
\* stays near the one that the application asked for.
DeadlineClose ==
    call.pc = "wait" /\ call.timeout >= 0 =>
        /\ call.left > 0 => call.since + call.left <= call.begin + call.timeout + MaxLag
        /\ call.since + call.left >= call.begin + call.timeout - MaxLag

\* An open() ends, with every error that is tried again, and a call that is given
\* a timeout returns in spite of signals.
CallsEnd ==
    /\ call.pc \in {"open", "parse", "parsed"} ~> call.pc = "idle"
    /\ (call.pc \in {"poll", "wait"} /\ call.timeout >= 0) ~> call.pc = "return"

\* "When timeout milliseconds have passed, the function returns 0" (platform.h):
\* a wait that times out has lasted that long.
NotEarly ==
    call.pc = "wait" /\ call.left = 0 => call.since >= call.begin + call.timeout

=============================================================================
