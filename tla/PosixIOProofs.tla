--------------------------- MODULE PosixIOProofs ----------------------------
(***************************************************************************)
(* That signals do not move the deadline of a wait, for every value of the *)
(* clock, every timeout and any number of signals, that a handle keeps     *)
(* exactly one reference on its device, that reports come whole, that the  *)
(* parser of descriptors finds what the items declare, however many they   *)
(* are and wherever the kernel cuts them, and the types.                   *)
(***************************************************************************)
EXTENDS PosixIO, TLAPS, WellFoundedInduction, FiniteSetTheorems

\* The calls in progress, by what they keep.
WaitPcs == {"poll", "wait", "ready", "transfer", "return"}
OpenCalls == [pc : {"open"}, retry : Nat]
ParseCalls == [pc : {"parse", "parsed"}, items : Descriptors, cut : {0, 1}]
WaitCalls(R) ==
    [pc : WaitPcs, op : {"read", "poll", "write", "feature"}, timeout : Int, size : Nat,
     begin : Nat, start : Nat, left : Int, since : Nat, ret : R]
IsWait(c) == \E R : c \in WaitCalls(R)
Shape == call \in {Idle} \cup OpenCalls \cup ParseCalls \/ IsWait(call)

\* A wait keeps the moment at which it began and the value of the clock then,
\* and poll() has been entered with what hs_adjust_timeout() gave.
WaitOK ==
    call.pc \in WaitPcs =>
        /\ call.start = hs_millis(call.begin)
        /\ call.pc = "wait" => call.left = hs_adjust_timeout(call.timeout, call.start, call.since)

\* The handle is being opened as long as an open() is in progress.
RefOK ==
    /\ handle \in {"closed", "opening", "open"}
    /\ refs = IF handle = "closed" THEN 0 ELSE 1
    /\ handle = "opening" <=> call.pc \in {"open", "parse", "parsed"}

Inv == now \in Nat /\ Shape /\ WaitOK /\ RefOK

-----------------------------------------------------------------------------
\* hs_millis() is never ahead of the time, and behind it by MaxLag at most.
LEMMA MillisLag ==
    ASSUME NEW t \in Nat
    PROVE  hs_millis(t) \in Nat /\ hs_millis(t) <= t /\ t <= hs_millis(t) + MaxLag
BY DEF hs_millis, MaxLag

LEMMA AdjustType ==
    ASSUME NEW timeout \in Int, NEW start \in Nat, NEW t \in Nat
    PROVE  hs_adjust_timeout(timeout, start, t) \in Int
BY MillisLag DEF hs_adjust_timeout

\* The lemmas on records keep the shape of a call out of later steps.
LEMMA WaitFields ==
    ASSUME NEW c, IsWait(c)
    PROVE  /\ c.pc \in WaitPcs /\ c.timeout \in Int /\ c.size \in Nat
           /\ c.begin \in Nat /\ c.start \in Nat
BY DEF IsWait, WaitCalls

LEMMA WaitShape ==
    ASSUME Inv, NEW op \in {"read", "poll", "write", "feature"}, NEW timeout \in Int,
           NEW size \in Nat, NEW pc \in {"poll", "ready", "transfer", "return"},
           call' = [Wait(op, timeout, size) EXCEPT !.pc = pc], UNCHANGED <<now, handle, refs>>,
           handle # "opening"
    PROVE  Inv'
<1>1. hs_millis(now) \in Nat
    BY MillisLag DEF Inv
<1>2. call' \in WaitCalls({0}) /\ call'.pc = pc
    BY <1>1 DEF Wait, WaitCalls, WaitPcs, Inv
<1>3. call'.start = hs_millis(now) /\ call'.begin = now
    BY DEF Wait
<1>4. now' \in Nat /\ Shape'
    BY <1>2 DEF Shape, Inv, IsWait
<1>5. WaitOK'
    BY <1>2, <1>3 DEF WaitOK, hs_millis
<1>6. RefOK'
    BY <1>2 DEF RefOK, Inv
<1> QED BY <1>4, <1>5, <1>6 DEF Inv

\* What a pc says of the shape of the call.
LEMMA PcShape ==
    ASSUME Inv
    PROVE  /\ call.pc \in WaitPcs => IsWait(call)
           /\ call.pc = "open" => call \in OpenCalls
           /\ call.pc \in {"parse", "parsed"} => call \in ParseCalls
           /\ call.pc = "idle" => call = Idle
<1>1. IsWait(call) => call.pc \in WaitPcs
    BY WaitFields
<1> QED BY <1>1 DEF Inv, Shape, Idle, OpenCalls, ParseCalls, WaitPcs

\* A wait goes on to another point of the code.
LEMMA StepShape ==
    ASSUME Inv, call.pc \in WaitPcs, NEW pc \in WaitPcs \ {"wait"}, NEW r,
           call' = [call EXCEPT !.pc = pc, !.ret = r], UNCHANGED <<now, handle, refs>>
    PROVE  Inv'
<1>1. PICK R : call \in WaitCalls(R)
    BY PcShape DEF IsWait
<1>2. call' \in WaitCalls(R \cup {r})
    BY <1>1 DEF WaitCalls
<1>3. call'.pc = pc /\ call'.start = call.start /\ call'.begin = call.begin
    BY <1>1 DEF WaitCalls
<1>4. IsWait(call')
    BY <1>2 DEF IsWait
<1>5. now' \in Nat /\ Shape'
    BY <1>4 DEF Shape, Inv
<1>6. WaitOK'
    BY <1>3 DEF WaitOK, Inv, hs_millis
<1>7. call.pc \notin {"open", "parse", "parsed"} /\ pc \notin {"open", "parse", "parsed"}
    BY DEF WaitPcs
<1>8. RefOK'
    BY <1>3, <1>7 DEF RefOK, Inv
<1> QED BY <1>5, <1>6, <1>8 DEF Inv

\* Steps that leave the call, the time and the handle alone.
LEMMA KeepInv ==
    ASSUME Inv, UNCHANGED <<handle, refs, call>>, now' \in Nat
    PROVE  Inv'
BY DEF Inv, Shape, WaitOK, RefOK, hs_adjust_timeout, hs_millis

LEMMA IdleNotOpening ==
    ASSUME Inv, call.pc = "idle"
    PROVE  handle # "opening"
BY DEF Inv, RefOK

-----------------------------------------------------------------------------
LEMMA InitInv == Init => Inv
BY DEF Init, Inv, Shape, Idle, WaitOK, RefOK, WaitPcs

LEMMA OpenInv == ASSUME Inv, OpenDevice \/ Opening \/ CloseDevice PROVE Inv'
<1> USE DEF env, Idle
<1>1. CASE OpenDevice
  <2>1. call' \in OpenCalls /\ call'.pc = "open"
    BY <1>1 DEF OpenDevice, OpenCalls
  <2>2. handle' = "opening" /\ refs' = 1 /\ now' = now
    BY <1>1 DEF OpenDevice, Inv, RefOK
  <2> QED BY <2>1, <2>2 DEF Inv, Shape, WaitOK, RefOK, WaitPcs
<1>2. ASSUME handle = "opening", OpenError, now' = now PROVE Inv'
  <2>1. call' = Idle /\ handle' = "closed" /\ refs' = 0
    BY <1>2 DEF OpenError, Inv, RefOK, WaitPcs
  <2> QED BY <1>2, <2>1 DEF Inv, Shape, WaitOK, RefOK, WaitPcs
<1>3. CASE OpenFails
  <2>1. call \in OpenCalls /\ handle = "opening" /\ now' = now
    BY <1>3, PcShape DEF OpenFails, Inv, RefOK
  <2>2. CASE OpenError
    BY <2>1, <2>2, <1>2
  <2>3. CASE ~OpenError
    <3>1. call.retry > 0 /\ call' = [call EXCEPT !.retry = @ - 1] /\ UNCHANGED <<handle, refs>>
      BY <1>3, <2>3 DEF OpenFails
    <3>2. call' \in OpenCalls
      BY <2>1, <3>1 DEF OpenCalls
    <3>3. call'.pc = "open"
      BY <3>2 DEF OpenCalls
    <3> QED BY <2>1, <3>1, <3>2, <3>3 DEF Inv, Shape, WaitOK, RefOK, WaitPcs
  <2> QED BY <2>2, <2>3
<1>4. CASE OpenSucceeds
  <2>1. handle = "opening" /\ now' = now /\ refs' = refs
    BY <1>4 DEF OpenSucceeds, Inv, RefOK
  <2>2. CASE call' = Idle /\ handle' = "open"
    BY <2>1, <2>2 DEF Inv, Shape, WaitOK, RefOK, WaitPcs
  <2>3. CASE /\ handle' = handle
             /\ \E items \in Descriptors, cut \in {0, 1} :
                  call' = [pc |-> "parse", items |-> items, cut |-> cut]
    <3>1. call' \in ParseCalls /\ call'.pc = "parse"
      BY <2>3 DEF ParseCalls
    <3> QED BY <2>1, <2>3, <3>1 DEF Inv, Shape, WaitOK, RefOK, WaitPcs
  <2> QED BY <1>4, <2>2, <2>3 DEF OpenSucceeds
<1>5. CASE ReadDescriptor
  <2>1. call \in ParseCalls /\ handle = "opening" /\ now' = now
    BY <1>5, PcShape DEF ReadDescriptor, Inv, RefOK
  <2>2. CASE OpenError
    BY <2>1, <2>2, <1>2
  <2>3. CASE call' = [call EXCEPT !.pc = "parsed"] /\ UNCHANGED <<handle, refs>>
    <3>1. call' \in ParseCalls /\ call'.pc = "parsed"
      BY <2>1, <2>3 DEF ParseCalls
    <3> QED BY <2>1, <2>3, <3>1 DEF Inv, Shape, WaitOK, RefOK, WaitPcs
  <2> QED BY <1>5, <2>2, <2>3 DEF ReadDescriptor
<1>6. CASE OpenReturns
  <2>1. handle = "opening" /\ now' = now /\ refs' = refs /\ call' = Idle /\ handle' = "open"
    BY <1>6 DEF OpenReturns, Inv, RefOK
  <2> QED BY <2>1 DEF Inv, Shape, WaitOK, RefOK, WaitPcs
<1>7. CASE CloseDevice
  <2>1. /\ handle = "open" /\ now' = now /\ refs' = 0 /\ call' = call /\ handle' = "closed"
        /\ call = Idle
    BY <1>7, PcShape DEF CloseDevice, Inv, RefOK
  <2> QED BY <2>1 DEF Inv, Shape, WaitOK, RefOK, WaitPcs
<1> QED BY <1>1, <1>3, <1>4, <1>5, <1>6, <1>7 DEF Opening

LEMMA BeginInv ==
    ASSUME Inv,
           \/ \E timeout \in Timeouts :
                 hs_poll(timeout) \/ \E size \in Sizes : hs_read(timeout, size)
           \/ \E op \in {"write", "feature"}, size \in Sizes : hs_write(op, size)
    PROVE  Inv'
<1> USE PosixAssumption DEF env
<1>1. CASE \E timeout \in Timeouts : hs_poll(timeout)
  <2> PICK timeout \in Timeouts : hs_poll(timeout)
    BY <1>1
  <2>1. call' = [Wait("poll", timeout, 0) EXCEPT !.pc = "poll"]
    BY DEF hs_poll, Wait
  <2>2. handle # "opening" /\ UNCHANGED <<now, handle, refs>> /\ timeout \in Int
    BY IdleNotOpening DEF hs_poll
  <2> QED BY <2>1, <2>2, WaitShape
<1>2. CASE \E timeout \in Timeouts, size \in Sizes : hs_read(timeout, size)
  <2> PICK timeout \in Timeouts, size \in Sizes : hs_read(timeout, size)
    BY <1>2
  <2>1. \E pc \in {"poll", "ready"} : call' = [Wait("read", timeout, size) EXCEPT !.pc = pc]
    BY DEF hs_read
  <2>2. /\ handle # "opening" /\ UNCHANGED <<now, handle, refs>>
        /\ timeout \in Int /\ size \in Nat
    BY IdleNotOpening DEF hs_read
  <2> QED BY <2>1, <2>2, WaitShape
<1>3. CASE \E op \in {"write", "feature"}, size \in Sizes : hs_write(op, size)
  <2> PICK op \in {"write", "feature"}, size \in Sizes : hs_write(op, size)
    BY <1>3
  <2>1. \E pc \in {"transfer", "return"} : call' = [Wait(op, -1, size) EXCEPT !.pc = pc]
    BY DEF hs_write
  <2>2. /\ handle # "opening" /\ UNCHANGED <<now, handle, refs>>
        /\ -1 \in Int /\ size \in Nat
    BY IdleNotOpening DEF hs_write
  <2> QED BY <2>1, <2>2, WaitShape
<1> QED BY <1>1, <1>2, <1>3

\* A result that a call returns.
LEMMA ReturnInv ==
    ASSUME Inv, call.pc \in WaitPcs, NEW r, Return(r), UNCHANGED <<now, handle, refs>>
    PROVE  Inv'
<1>1. call' = [call EXCEPT !.pc = "return", !.ret = r] /\ "return" \in WaitPcs \ {"wait"}
    BY DEF Return, WaitPcs
<1> QED BY <1>1, StepShape

LEMMA GotoInv ==
    ASSUME Inv, call.pc \in WaitPcs, NEW pc \in {"poll", "ready"},
           call' = [call EXCEPT !.pc = pc], UNCHANGED <<now, handle, refs>>
    PROVE  Inv'
<1>1. call' = [call EXCEPT !.pc = pc, !.ret = call.ret]
    BY PcShape DEF IsWait, WaitCalls
<1>2. pc \in WaitPcs \ {"wait"}
    BY DEF WaitPcs
<1> QED BY <1>1, <1>2, StepShape

LEMMA PollEntersInv == ASSUME Inv, PollEnters PROVE Inv'
<1>1. IsWait(call) /\ now \in Nat /\ UNCHANGED <<now, handle, refs>>
    BY PcShape DEF PollEnters, WaitPcs, Inv, env
<1> DEFINE left == hs_adjust_timeout(call.timeout, call.start, now)
<1>2. left \in Int
    BY <1>1, WaitFields, AdjustType
<1> HIDE DEF left
<1>3. call' = [call EXCEPT !.pc = "wait", !.since = now, !.left = left]
    BY DEF PollEnters, left
<1>4. PICK R : call \in WaitCalls(R)
    BY <1>1 DEF IsWait
<1>5. call' \in WaitCalls(R)
    BY <1>1, <1>2, <1>3, <1>4 DEF WaitCalls, WaitPcs
<1>6. /\ call'.pc = "wait" /\ call'.since = now /\ call'.left = left
      /\ call'.timeout = call.timeout /\ call'.start = call.start /\ call'.begin = call.begin
    BY <1>3, <1>4 DEF WaitCalls
<1>7. WaitOK'
    BY <1>1, <1>6 DEF WaitOK, WaitPcs, Inv, PollEnters, left, hs_adjust_timeout, hs_millis
<1>8. RefOK'
    BY <1>1, <1>6 DEF RefOK, Inv, PollEnters
<1>9. Shape'
    BY <1>5 DEF Shape, IsWait
<1> QED BY <1>1, <1>7, <1>8, <1>9 DEF Inv

LEMMA WaitingInv ==
    ASSUME Inv, Waiting \/ PollInterrupted \/ PollTimesOut \/ PollFails
    PROVE  Inv'
<1> USE DEF env
<1>1. CASE PollEnters
    BY <1>1, PollEntersInv
<1>2. CASE PollReady
  <2>1. call.pc \in WaitPcs /\ UNCHANGED <<now, handle, refs>>
    BY <1>2 DEF PollReady, WaitPcs
  <2>2. CASE call' = [call EXCEPT !.pc = "ready"]
    BY <2>1, <2>2, GotoInv
  <2>3. CASE \E i \in DOMAIN set : Return(set[i].id)
    BY <2>1, <2>3, ReturnInv
  <2> QED BY <1>2, <2>2, <2>3 DEF PollReady
<1>3. CASE ReadData
  <2>1. call.pc \in WaitPcs /\ UNCHANGED <<now, handle, refs>>
    BY <1>3 DEF ReadData, WaitPcs
  <2>2. \E r : Return(r)
    BY <1>3 DEF ReadData
  <2> QED BY <2>1, <2>2, ReturnInv
<1>4. CASE Transfer
  <2>1. call.pc \in WaitPcs /\ UNCHANGED <<now, handle, refs>>
    BY <1>4 DEF Transfer, hs_hid_write, hs_hid_get_feature_report, hs_serial_write, WaitPcs
  <2>2. \E r : Return(r)
    BY <1>4 DEF Transfer, hs_hid_write, hs_hid_get_feature_report, hs_serial_write
  <2> QED BY <2>1, <2>2, ReturnInv
<1>5. CASE CallReturns
  <2>1. /\ handle # "opening" /\ call' = Idle /\ UNCHANGED <<now, handle, refs>>
    BY <1>5 DEF CallReturns, Inv, RefOK
  <2> QED BY <2>1 DEF Inv, Shape, WaitOK, RefOK, WaitPcs, Idle
<1>6. CASE PollInterrupted
    BY <1>6, GotoInv DEF PollInterrupted, WaitPcs
<1>7. CASE PollTimesOut \/ PollFails
    BY <1>7, ReturnInv DEF PollTimesOut, PollFails, WaitPcs
<1> QED BY <1>1, <1>2, <1>3, <1>4, <1>5, <1>6, <1>7 DEF Waiting

LEMMA NextInv == ASSUME Inv, [Next]_vars PROVE Inv'
<1>1. CASE TimePasses
    BY <1>1, KeepInv, PosixAssumption DEF TimePasses
<1>2. CASE Unplug \/ OtherTaken \/ \E d \in Descs : DataArrives(d)
    BY <1>2, KeepInv DEF Unplug, OtherTaken, DataArrives, Inv
<1>3. CASE OpenDevice \/ Opening \/ CloseDevice
    BY <1>3, OpenInv
<1>4. CASE \/ \E timeout \in Timeouts :
               hs_poll(timeout) \/ \E size \in Sizes : hs_read(timeout, size)
           \/ \E op \in {"write", "feature"}, size \in Sizes : hs_write(op, size)
    BY <1>4, BeginInv
<1>5. CASE Waiting \/ PollInterrupted \/ PollTimesOut \/ PollFails
    BY <1>5, WaitingInv
<1>6. CASE \/ \E entry \in Entries :
               hs_descriptor_set_add(entry) \/ hs_descriptor_set_remove(entry.id)
           \/ hs_descriptor_set_clear
    BY <1>6, KeepInv DEF hs_descriptor_set_add, hs_descriptor_set_remove,
                         hs_descriptor_set_clear, env, Inv
<1>7. CASE UNCHANGED vars
    BY <1>7, KeepInv DEF vars, Inv
<1> QED BY <1>1, <1>2, <1>3, <1>4, <1>5, <1>6, <1>7 DEF Next

\* Inv is an invariant.
THEOREM Invariant == Spec => []Inv
BY InitInv, NextInv, PTL DEF Spec

\* What hs_adjust_timeout() gives at a moment is never far from what is left.
LEMMA AdjustClose ==
    ASSUME NEW timeout \in Nat, NEW begin \in Nat, NEW t \in Nat,
           NEW left, left = hs_adjust_timeout(timeout, hs_millis(begin), t)
    PROVE  /\ left > 0 => t + left <= begin + timeout + MaxLag
           /\ t + left >= begin + timeout - MaxLag
<1>1. /\ hs_millis(t) \in Nat /\ hs_millis(t) <= t /\ t <= hs_millis(t) + MaxLag
      /\ hs_millis(begin) \in Nat /\ hs_millis(begin) <= begin
      /\ begin <= hs_millis(begin) + MaxLag
    BY MillisLag
<1>2. MaxLag \in Nat
    BY DEF MaxLag
<1> QED BY <1>1, <1>2 DEF hs_adjust_timeout

\* However often signals interrupt a wait of hs_hid_read(), hs_serial_read() or
\* hs_poll(), whatever the timeout and whenever it began, poll() is entered with a
\* deadline within MaxLag of the one asked for.
THEOREM DeadlineCloseCorrect == Spec => []DeadlineClose
<1>1. ASSUME Inv PROVE DeadlineClose
  <2> SUFFICES ASSUME call.pc = "wait", call.timeout >= 0
               PROVE  /\ call.left > 0 =>
                            call.since + call.left <= call.begin + call.timeout + MaxLag
                      /\ call.since + call.left >= call.begin + call.timeout - MaxLag
    BY DEF DeadlineClose
  <2>1. IsWait(call)
    BY <1>1, PcShape DEF WaitPcs
  <2>2. call.timeout \in Nat /\ call.begin \in Nat /\ call.since \in Nat
    BY <2>1 DEF IsWait, WaitCalls
  <2>3. call.left = hs_adjust_timeout(call.timeout, hs_millis(call.begin), call.since)
    BY <1>1 DEF Inv, WaitOK, WaitPcs
  <2> QED BY <2>2, <2>3, AdjustClose
<1> QED BY <1>1, Invariant, PTL

\* From the start of open() to the end of hs_handle_close(), and on none of its
\* error paths, a handle holds exactly one reference on its device.
THEOREM OneReference == Spec => [](refs = IF handle = "closed" THEN 0 ELSE 1)
<1>1. Inv => refs = IF handle = "closed" THEN 0 ELSE 1
    BY DEF Inv, RefOK
<1> QED BY <1>1, Invariant, PTL

-----------------------------------------------------------------------------
\* The size that hs_hid_read() gives, whatever the kernel puts in front of a report.
LEMMA HidReadSize ==
    ASSUME NEW size \in Nat, IsHid, hs_hid_read(size) > 0
    PROVE  hs_hid_read(size) = Least(size, ReportSize + 1)
<1> USE PosixAssumption
<1>1. ReportSize \in Nat \ {0} /\ kind \in {"hidraw", "hidraw26"}
  BY DEF IsHid
<1>2. CASE hid.numbered /\ kind = "hidraw"
  <2>1. hs_hid_read(size) = KernelRead(size)
    BY <1>2 DEF hs_hid_read, detect_kernel26_byte_bug
  <2> QED
    BY <1>1, <1>2, <2>1 DEF KernelRead
<1>3. CASE hid.numbered /\ kind = "hidraw26"
  <2>1. hs_hid_read(size) = KernelRead(size + 1) - 1
    BY <1>3 DEF hs_hid_read, detect_kernel26_byte_bug
  <2>2. KernelRead(size + 1) = Least(size + 1, ReportSize + 2)
    BY <1>1, <1>3 DEF KernelRead
  <2> QED
    BY <1>1, <2>1, <2>2 DEF Least
<1>4. CASE ~hid.numbered
  <2>1. KernelRead(size - 1) = Least(size - 1, ReportSize)
    BY <1>1, <1>4 DEF KernelRead
  <2>2. hs_hid_read(size) = KernelRead(size - 1) + 1
    BY <1>4 DEF hs_hid_read
  <2> QED
    BY <1>1, <2>1, <2>2 DEF Least
<1> QED
  BY <1>1, <1>2, <1>3, <1>4

\* A result that is not above 0, that is not asked for a report, or that is the
\* size of a whole report.
LEMMA ReturnWhole ==
    ASSUME Inv, call.pc \in WaitPcs, NEW r, Return(r), kind' = kind,
           \/ ~(r > 0)
           \/ call.op \notin {"read", "feature"}
           \/ ~IsHid
           \/ r = Least(call.size, ReportSize + 1)
           \/ call.op = "feature" /\ r = Least(call.size, ReportSize + 2)
    PROVE  ReportWhole'
<1>1. PICK R : call \in WaitCalls(R)
  BY PcShape DEF IsWait
<1>2. call'.op = call.op /\ call'.size = call.size /\ call'.ret = r
  BY <1>1 DEF Return, WaitCalls
<1>3. call.size \in Nat /\ ReportSize \in Nat
  BY WaitFields, PcShape, PosixAssumption
<1> QED
  BY <1>2, <1>3 DEF ReportWhole, IsHid, Least

\* A step to any other point of the code.
LEMMA ElsewhereWhole == ASSUME call'.pc # "return" PROVE ReportWhole'
BY DEF ReportWhole

\* The end of a wait.
LEMMA WaitingWhole ==
    ASSUME Inv, Waiting \/ PollInterrupted \/ PollTimesOut \/ PollFails
    PROVE  ReportWhole'
<1> USE DEF env
<1>1. kind' = kind
  BY DEF Waiting, PollEnters, PollReady, ReadData, Transfer, CallReturns, PollInterrupted,
         PollTimesOut, PollFails, hs_hid_write, hs_hid_get_feature_report, hs_serial_write
<1>2. call.pc \in WaitPcs /\ IsWait(call)
  <2>1. call.pc \in WaitPcs
    BY DEF Waiting, PollEnters, PollReady, ReadData, Transfer, CallReturns, PollInterrupted,
           PollTimesOut, PollFails, hs_hid_write, hs_hid_get_feature_report,
           hs_serial_write, WaitPcs
  <2> QED
    BY <2>1, PcShape
<1>3. PICK R : call \in WaitCalls(R)
  BY <1>2 DEF IsWait
<1>4. call.size \in Nat
  BY <1>2, WaitFields
<1>5. CASE PollEnters \/ PollInterrupted
  <2>1. PICK left, since : \/ call' = [call EXCEPT !.pc = "wait", !.since = since, !.left = left]
                           \/ call' = [call EXCEPT !.pc = "poll"]
    BY <1>5 DEF PollEnters, PollInterrupted
  <2>2. call'.pc # "return"
    BY <1>3, <2>1 DEF WaitCalls
  <2> QED
    BY <2>2, ElsewhereWhole
<1>6. CASE PollReady
  <2>1. CASE call' = [call EXCEPT !.pc = "ready"]
    <3>1. call'.pc # "return"
      BY <1>3, <2>1 DEF WaitCalls
    <3> QED
      BY <3>1, ElsewhereWhole
  <2>2. CASE call.op = "poll" /\ \E i \in DOMAIN set : Return(set[i].id)
    BY <1>1, <1>2, <2>2, ReturnWhole
  <2> QED
    BY <1>6, <2>1, <2>2 DEF PollReady
<1>7. CASE ReadData
  <2>1. CASE Return(-1) \/ Return(0)
    <3>1. ~(-1 > 0) /\ ~(0 > 0)
      OBVIOUS
    <3> QED
      BY <1>1, <1>2, <2>1, <3>1, ReturnWhole
  <2>2. CASE IsHid /\ Return(hs_hid_read(call.size))
    <3>1. ~(hs_hid_read(call.size) > 0) \/ hs_hid_read(call.size) = Least(call.size, ReportSize + 1)
      BY <1>4, <2>2, HidReadSize
    <3> QED
      BY <1>1, <1>2, <2>2, <3>1, ReturnWhole
  <2>3. CASE ~IsHid /\ \E n \in 1 .. call.size : Return(n)
    BY <1>1, <1>2, <2>3, ReturnWhole
  <2> QED
    BY <1>7, <2>1, <2>2, <2>3 DEF ReadData
<1>8. CASE Transfer
  <2>1. PICK r : /\ Return(r)
                 /\ \/ r = -1
                    \/ call.op = "write"
                    \/ /\ call.op = "feature"
                       /\ \/ r = Least(call.size - 1, ReportSize) + 1
                          \/ r = Least(call.size - 1, ReportSize + 1) + 1
    BY <1>8 DEF Transfer, hs_hid_write, hs_hid_get_feature_report, hs_serial_write,
                KernelGetFeature
  <2>2. /\ Least(call.size - 1, ReportSize) + 1 = Least(call.size, ReportSize + 1)
        /\ Least(call.size - 1, ReportSize + 1) + 1 = Least(call.size, ReportSize + 2)
    BY <1>4, PosixAssumption DEF Least
  <2>3. r = -1 => ~(r > 0)
    OBVIOUS
  <2> QED
    BY <1>1, <1>2, <2>1, <2>2, <2>3, ReturnWhole
<1>9. CASE CallReturns
  BY <1>9, ElsewhereWhole DEF CallReturns, Idle
<1>10. CASE PollTimesOut \/ PollFails
  <2>1. Return(-1) \/ Return(0)
    BY <1>10 DEF PollTimesOut, PollFails
  <2>2. ~(-1 > 0) /\ ~(0 > 0)
    OBVIOUS
  <2> QED
    BY <1>1, <1>2, <2>1, <2>2, ReturnWhole
<1> QED
  BY <1>5, <1>6, <1>7, <1>8, <1>9, <1>10 DEF Waiting

\* What hs_hid_read() gives has the size of the report with its number in front,
\* or of the buffer: for every size of both, on every kernel, numbered or not.  What
\* hs_hid_get_feature_report() gives is as long, or one byte longer if it fits.
THEOREM ReportWholeCorrect == Spec => []ReportWhole
<1> USE DEF env
<1>1. Init => ReportWhole
  BY DEF Init, Idle, ReportWhole
<1>2. Inv /\ ReportWhole /\ [Next]_vars => ReportWhole'
  <2> SUFFICES ASSUME Inv, ReportWhole, [Next]_vars PROVE ReportWhole'
    OBVIOUS
  <2>1. ASSUME UNCHANGED <<kind, call>> PROVE ReportWhole'
    BY <2>1 DEF ReportWhole, IsHid, Least
  <2>2. CASE TimePasses \/ Unplug \/ OtherTaken \/ \E d \in Descs : DataArrives(d)
    BY <2>1, <2>2 DEF TimePasses, Unplug, OtherTaken, DataArrives
  <2>3. CASE OpenDevice \/ Opening \/ CloseDevice
    <3>1. CASE OpenDevice
      BY <3>1, ElsewhereWhole DEF OpenDevice
    <3>2. CASE call' = Idle
      BY <3>2, ElsewhereWhole DEF Idle
    <3>3. CASE OpenFails /\ call' = [call EXCEPT !.retry = @ - 1]
      <4>1. call.pc = "open" /\ call \in OpenCalls
        BY <3>3, PcShape DEF OpenFails
      <4>2. call'.pc = "open"
        BY <3>3, <4>1 DEF OpenCalls
      <4> QED
        BY <4>2, ElsewhereWhole
    <3>4. CASE \E items \in Descriptors, cut \in {0, 1} :
                 call' = [pc |-> "parse", items |-> items, cut |-> cut]
      BY <3>4, ElsewhereWhole
    <3>5. CASE ReadDescriptor /\ call' = [call EXCEPT !.pc = "parsed"]
      <4>1. call \in ParseCalls
        BY <3>5, PcShape DEF ReadDescriptor
      <4>2. call'.pc = "parsed"
        BY <3>5, <4>1 DEF ParseCalls
      <4> QED
        BY <4>2, ElsewhereWhole
    <3>6. CASE CloseDevice
      BY <2>1, <3>6 DEF CloseDevice
    <3> QED
      BY <2>3, <3>1, <3>2, <3>3, <3>4, <3>5, <3>6
         DEF Opening, OpenSucceeds, OpenFails, OpenError, ReadDescriptor, OpenReturns
  <2>4. CASE \E timeout \in Timeouts :
                hs_poll(timeout) \/ \E size \in Sizes : hs_read(timeout, size)
    <3>1. CASE \E timeout \in Timeouts : hs_poll(timeout)
      <4>1. call'.pc = "poll"
        BY <3>1 DEF hs_poll, Wait
      <4> QED
        BY <4>1, ElsewhereWhole
    <3>2. CASE \E timeout \in Timeouts, size \in Sizes : hs_read(timeout, size)
      <4>1. PICK timeout \in Timeouts, size \in Sizes, pc \in {"poll", "ready"} :
              call' = [Wait("read", timeout, size) EXCEPT !.pc = pc]
        BY <3>2 DEF hs_read
      <4>2. call'.pc = pc
        BY <4>1 DEF Wait
      <4> QED
        BY <4>2, ElsewhereWhole
    <3> QED
      BY <2>4, <3>1, <3>2
  <2>5. CASE \E op \in {"write", "feature"}, size \in Sizes : hs_write(op, size)
    <3>1. PICK op \in {"write", "feature"}, size \in Sizes : hs_write(op, size)
      BY <2>5
    <3>2. /\ call'.op = op
          /\ call'.pc = "return" => op = "write"
      BY <3>1 DEF hs_write, Wait
    <3> QED
      BY <3>2 DEF ReportWhole
  <2>6. CASE Waiting \/ PollInterrupted \/ PollTimesOut \/ PollFails
    BY <2>6, WaitingWhole
  <2>7. CASE \/ \E entry \in Entries :
                 hs_descriptor_set_add(entry) \/ hs_descriptor_set_remove(entry.id)
             \/ hs_descriptor_set_clear
    BY <2>1, <2>7 DEF hs_descriptor_set_add, hs_descriptor_set_remove,
                      hs_descriptor_set_clear
  <2>8. CASE UNCHANGED vars
    BY <2>1, <2>8 DEF vars
  <2> QED
    BY <2>2, <2>3, <2>4, <2>5, <2>6, <2>7, <2>8 DEF Next
<1> QED
  BY <1>1, <1>2, Invariant, PTL DEF Spec

-----------------------------------------------------------------------------
(* Induction. *)

\* The least element that a proof by induction starts from.
LEMMA SmallestOf ==
    ASSUME NEW S, S \subseteq Nat, S # {}
    PROVE  \E n \in S : \A m \in S : n <= m
<1>1. PICK n \in S : \A m \in S : ~(<<m, n>> \in OpToRel(<, Nat))
  BY NatLessThanWellFounded, WFMin, Zenon
<1>2. \A m \in S : ~(m < n)
  BY <1>1 DEF OpToRel
<1> QED
  BY <1>2

\* Induction over 0 .. N.
LEMMA Induction ==
    ASSUME NEW N \in Nat, NEW T, 0 \in T, \A n \in 1 .. N : n - 1 \in T => n \in T
    PROVE  \A n \in 0 .. N : n \in T
<1> SUFFICES ASSUME NEW w \in 0 .. N, w \notin T PROVE FALSE
  OBVIOUS
<1>1. PICK S : S = {n \in 0 .. N : n \notin T}
  OBVIOUS
<1>2. PICK k \in S : \A m \in S : k <= m
  <2>1. S \subseteq Nat /\ S # {}
    BY <1>1
  <2> QED
    BY <2>1, SmallestOf
<1>3. k \in 1 .. N /\ k - 1 \in 0 .. N /\ k - 1 \notin S
  BY <1>1, <1>2
<1> QED
  BY <1>1, <1>2, <1>3

\* f starts with a and goes from one value to the next by the steps of G.
Steps(G, N, S) == G \in [1 .. N -> [S -> S]]
Iterates(f, G, N, S, a) ==
    f \in [0 .. N -> S] /\ f[0] = a /\ \A n \in 1 .. N : f[n] = G[n][f[n - 1]]

\* A function can be defined by recursion over 0 .. N.
LEMMA Iterate ==
    ASSUME NEW N \in Nat, NEW S, NEW a \in S, NEW G, Steps(G, N, S)
    PROVE  \E f : Iterates(f, G, N, S, a)
<1> USE DEF Steps
<1> DEFINE Good(f, k) ==
             f \in [0 .. k -> S] /\ f[0] = a /\ \A n \in 1 .. k : f[n] = G[n][f[n - 1]]
           T == {k \in 0 .. N : \E f : Good(f, k)}
<1>1. 0 \in T
  <2>1. PICK f : f = [n \in 0 .. 0 |-> a]
    OBVIOUS
  <2>2. Good(f, 0)
    BY <2>1
  <2> QED
    BY <2>2
<1>2. ASSUME NEW k \in 1 .. N, k - 1 \in T PROVE k \in T
  <2>3. PICK f : Good(f, k - 1)
    BY <1>2
  <2>4. f[k - 1] \in S
    BY <2>3
  <2>5. PICK v \in S : v = G[k][f[k - 1]]
    BY <2>4
  <2>6. PICK g : g = [n \in 0 .. k |-> IF n = k THEN v ELSE f[n]]
    OBVIOUS
  <2>7. g \in [0 .. k -> S] /\ g[0] = a
    BY <2>3, <2>4, <2>6
  <2>8. ASSUME NEW n \in 1 .. k PROVE g[n] = G[n][g[n - 1]]
    <3>1. g[n - 1] = f[n - 1]
      BY <2>4, <2>6
    <3>2. CASE n = k
      BY <2>5, <2>6, <3>1, <3>2
    <3>3. CASE n # k
      <4>1. n \in 1 .. k - 1
        BY <3>3, <2>4
      <4>2. f[n] = G[n][f[n - 1]]
        BY <2>3, <4>1
      <4> QED
        BY <2>6, <3>1, <3>3, <4>2
    <3> QED
      BY <3>2, <3>3
  <2>9. Good(g, k)
    BY <2>7, <2>8
  <2> QED
    BY <2>9
<1>3. N \in T
  <2> HIDE DEF T
  <2>1. \A n \in 0 .. N : n \in T
    BY <1>1, <1>2, Induction
  <2> QED
    BY <2>1
<1> QED
  BY <1>3 DEF Iterates

\* There is only one.
Recurs(g, G, N, S, a) ==
    /\ g = [n \in 0 .. N |-> g[n]] /\ g[0] = a
    /\ \A n \in 1 .. N : g[n - 1] \in S => g[n] = G[n][g[n - 1]]
LEMMA IterateOnce ==
    ASSUME NEW N \in Nat, NEW S, NEW a, NEW G, NEW f, Iterates(f, G, N, S, a),
           NEW g, Recurs(g, G, N, S, a)
    PROVE  g = f
<1> USE DEF Iterates, Recurs
<1>1. PICK T : T = {n \in 0 .. N : g[n] = f[n]}
  OBVIOUS
<1>2. 0 \in T
  BY <1>1
<1>3. ASSUME NEW n \in 1 .. N, n - 1 \in T PROVE n \in T
  <2>1. g[n - 1] = f[n - 1] /\ f[n - 1] \in S
    BY <1>1, <1>3
  <2>2. f[n] = G[n][f[n - 1]] /\ g[n] = G[n][g[n - 1]]
    BY <2>1
  <2>3. g[n] = f[n]
    BY <2>1, <2>2
  <2> QED
    BY <1>1, <2>3
<1>4. \A n \in 0 .. N : n \in T
  BY <1>2, <1>3, Induction
<1> QED
  BY <1>1, <1>4

LEMMA ItemFields ==
    ASSUME NEW item \in Items
    PROVE  /\ item.tag \in Byte /\ item.data \in Seq(Byte) /\ Len(item.data) \in Byte
           /\ item.tag # Long =>
                item.tag <= 248 /\ item.tag % 4 = 0 /\ Len(item.data) \in {0, 1, 2, 4}
<1>1. item.tag \in Byte /\ item.data \in Seq(Byte) /\ WellFormed(item)
  BY DEF Items
<1>2. PICK len \in Nat : len = Len(item.data)
  BY <1>1
<1>3. IF item.tag = Long THEN len <= 255
      ELSE item.tag <= 248 /\ item.tag % 4 = 0 /\ len \in {0, 1, 2, 4}
  BY <1>1, <1>2 DEF WellFormed
<1>4. item.tag # Long => item.tag <= 248 /\ item.tag % 4 = 0 /\ Len(item.data) \in {0, 1, 2, 4}
  BY <1>2, <1>3
<1>5. len <= 255
  BY <1>3
<1>6. len \in Byte
  BY <1>5 DEF Byte
<1> QED
  BY <1>1, <1>2, <1>4, <1>6, Zenon

LEMMA EncodeType ==
    ASSUME NEW item \in Items
    PROVE  /\ Encode(item) \in Seq(Byte)
           /\ Len(Encode(item)) = Len(item.data) + IF item.tag = Long THEN 3 ELSE 1
<1>1. CASE item.tag = Long
  <2>1. <<Long, Len(item.data), 0>> \in Seq(Byte)
    BY ItemFields DEF Byte, Long
  <2>2. Encode(item) = <<Long, Len(item.data), 0>> \o item.data
    BY <1>1 DEF Encode
  <2> QED
    BY <1>1, <2>1, <2>2, ItemFields
<1>2. CASE item.tag # Long
  <2>1. PICK b : b = item.tag + (IF Len(item.data) = 4 THEN 3 ELSE Len(item.data))
    OBVIOUS
  <2>2. b \in Byte
    <3>1. PICK len \in Nat : len = Len(item.data)
      BY ItemFields
    <3>2. item.tag \in Byte /\ item.tag <= 248
      BY <1>2, ItemFields, Zenon
    <3>3. len \in {0, 1, 2, 4}
      BY <1>2, <3>1, ItemFields
    <3>4. b = item.tag + (IF len = 4 THEN 3 ELSE len)
      BY <2>1, <3>1
    <3> QED
      BY <3>2, <3>3, <3>4 DEF Byte
  <2>3. Encode(item) = <<b>> \o item.data
    BY <1>2, <2>1 DEF Encode
  <2> QED
    BY <1>2, <2>2, <2>3, ItemFields
<1> QED
  BY <1>1, <1>2

LEMMA EncodedDef ==
    ASSUME NEW items \in Seq(Items)
    PROVE  /\ Encoded(items) \in [0 .. Len(items) -> Seq(Byte)]
           /\ Encoded(items)[0] = <<>>
           /\ \A k \in 1 .. Len(items) :
                Encoded(items)[k] = Encoded(items)[k - 1] \o Encode(items[k])
<1>1. PICK N \in Nat : N = Len(items)
  OBVIOUS
<1>2. PICK S, a : S = Seq(Byte) /\ a = <<>> /\ a \in S
  <2>1. <<>> \in Seq(Byte)
    OBVIOUS
  <2> QED
    BY <2>1, Zenon
<1>3. ASSUME NEW n \in 1 .. N PROVE Encode(items[n]) \in S
  <2>1. items[n] \in Items
    BY <1>1
  <2> QED
    BY <1>2, <2>1, EncodeType
<1>4. PICK G : G = [n \in 1 .. N |-> [b \in S |-> b \o Encode(items[n])]]
  OBVIOUS
<1>5. Steps(G, N, S)
  <2>1. ASSUME NEW n \in 1 .. N, NEW b \in S PROVE b \o Encode(items[n]) \in S
    BY <1>2, <1>3
  <2> QED
    BY <1>4, <2>1 DEF Steps
<1>6. PICK f : Iterates(f, G, N, S, a)
  BY <1>2, <1>5, Iterate
<1> USE DEF Iterates
<1>7. \A n \in 1 .. N : f[n] = f[n - 1] \o Encode(items[n])
  <2> SUFFICES ASSUME NEW n \in 1 .. N PROVE f[n] = f[n - 1] \o Encode(items[n])
    OBVIOUS
  <2>1. f[n - 1] \in S
    BY <1>6
  <2> QED
    BY <1>4, <1>6, <2>1
<1>8. f = [k \in 0 .. N |-> IF k = 0 THEN <<>> ELSE f[k - 1] \o Encode(items[k])]
  <2>1. f = [k \in 0 .. N |-> f[k]]
    BY <1>6
  <2>2. ASSUME NEW k \in 0 .. N
        PROVE  f[k] = IF k = 0 THEN <<>> ELSE f[k - 1] \o Encode(items[k])
    <3>1. k # 0 => k \in 1 .. N
      OBVIOUS
    <3> QED
      BY <1>2, <1>6, <1>7, <3>1
  <2> QED
    BY <2>1, <2>2
<1>9. PICK g : g = Encoded(items)
  OBVIOUS
<1>10. g = [k \in 0 .. N |-> IF k = 0 THEN <<>> ELSE g[k - 1] \o Encode(items[k])]
  BY <1>1, <1>8, <1>9 DEF Encoded
<1>11. g = [k \in 0 .. N |-> g[k]] /\ g[0] = a
  BY <1>2, <1>6, <1>10
<1>12. \A n \in 1 .. N : g[n - 1] \in S => g[n] = G[n][g[n - 1]]
  <2> SUFFICES ASSUME NEW n \in 1 .. N, g[n - 1] \in S PROVE g[n] = G[n][g[n - 1]]
    OBVIOUS
  <2>1. n \in 0 .. N /\ n # 0
    OBVIOUS
  <2>2. g[n] = g[n - 1] \o Encode(items[n])
    BY <1>10, <2>1
  <2> QED
    BY <1>4, <2>2
<1>13. g = f
  <2> HIDE DEF Iterates
  <2>1. Recurs(g, G, N, S, a)
    BY <1>11, <1>12 DEF Recurs
  <2> QED
    BY <1>6, <2>1, IterateOnce
<1> QED
  BY <1>1, <1>2, <1>6, <1>7, <1>9, <1>13

-----------------------------------------------------------------------------
(* The parser. *)

\* What the loop of parse_descriptor() keeps.
States ==
    [i : Nat, size : Nat, depth : Int, numbered : BOOLEAN, page : Word, usage : Word]
SameResult(s, t) == t.numbered = s.numbered /\ t.page = s.page /\ t.usage = s.usage

LEMMA SizeType == ASSUME NEW b \in Byte PROVE ItemSize(b) \in 0 .. 4
BY DEF Byte, ItemSize

LEMMA DataType ==
    ASSUME NEW bytes \in Seq(Byte), NEW i \in Nat, NEW size \in 0 .. 4, i + size < Len(bytes)
    PROVE  Data16(bytes, i, size) \in Word
<1>1. size >= 1 => bytes[i + 2] \in Byte
  OBVIOUS
<1>2. size >= 2 => bytes[i + 3] \in Byte
  OBVIOUS
<1>3. PICK x, y : /\ x = IF size >= 1 THEN bytes[i + 2] ELSE 0
                  /\ y = IF size >= 2 THEN bytes[i + 3] ELSE 0
  OBVIOUS
<1>4. x \in 0 .. 255 /\ y \in 0 .. 255 /\ (~(size >= 2) => y = 0)
  BY <1>1, <1>2, <1>3 DEF Byte
<1>5. Data16(bytes, i, size) = x + (IF size >= 2 THEN 256 * y ELSE 0)
  BY <1>3, SMT DEF Data16
<1>6. PICK z \in Int : z = 256 * y /\ 0 <= z /\ z <= 65280
  BY <1>4, SMT
<1>7. PICK v \in Int : v = Data16(bytes, i, size) /\ 0 <= v /\ v <= 65535
  BY <1>4, <1>5, <1>6, SMT
<1>8. v \in Word
  BY <1>7, SMT DEF Word
<1> QED
  BY <1>7, <1>8

LEMMA SkipFields ==
    ASSUME NEW s \in States, NEW size \in Nat
    PROVE  /\ Skip(s, size) \in States /\ Skip(s, size).i = s.i + size + 1
           /\ Skip(s, size).depth = s.depth /\ SameResult(s, Skip(s, size))
<1>1. PICK i \in Nat : i = s.i + size + 1
  BY DEF States
<1>2. PICK t : t = [s EXCEPT !.i = i, !.size = size]
  OBVIOUS
<1>3. t = Skip(s, size)
  BY <1>1, <1>2 DEF Skip, States
<1>4. /\ t \in States /\ t.i = i /\ t.depth = s.depth
      /\ t.numbered = s.numbered /\ t.page = s.page /\ t.usage = s.usage
  BY <1>2 DEF States
<1> QED
  BY <1>1, <1>3, <1>4 DEF SameResult

LEMMA TakeType ==
    ASSUME NEW s \in States, NEW type, NEW size \in Nat, NEW data \in Word
    PROVE  TakeItem(s, type, size, data) \in States
<1>1. s.i + size + 1 \in Nat
  BY DEF States
<1>2. s.depth + (IF type = Collection THEN 1 ELSE IF type = EndCollection THEN -1 ELSE 0) \in Int
  BY DEF States
<1>3. (s.numbered \/ type = ReportId) \in BOOLEAN
  BY Zenon
<1>4. (IF type = UsagePage /\ s.depth = 0 THEN data ELSE s.page) \in Word
  BY DEF States
<1>5. (IF type = Usage /\ s.depth = 0 THEN data ELSE s.usage) \in Word
  BY DEF States
<1> QED
  BY <1>1, <1>2, <1>3, <1>4, <1>5, Zenon DEF TakeItem, States

\* A short item that is whole.
LEMMA ParseShort ==
    ASSUME NEW bytes \in Seq(Byte), NEW s \in States, s.i < Len(bytes),
           NEW b, b = bytes[s.i + 1], b # Long,
           NEW size, size = ItemSize(b), s.i + size < Len(bytes)
    PROVE  /\ ParseItem(bytes, s) \in States
           /\ ParseItem(bytes, s) = TakeItem(s, b - (b % 4), size, Data16(bytes, s.i, size))
<1>1. b \in Byte /\ s.i \in Nat
  BY DEF States
<1>2. size \in 0 .. 4
  BY <1>1, SizeType
<1>3. PICK data \in Word : data = Data16(bytes, s.i, size)
  BY <1>1, <1>2, DataType
<1>4. ~(s.i + size >= Len(bytes))
  BY <1>1, <1>2
<1>5. ParseItem(bytes, s) = TakeItem(s, b - (b % 4), size, data)
  BY <1>3, <1>4 DEF ParseItem
<1> QED
  BY <1>2, <1>3, <1>5, TakeType

\* A long item, of which at least the size is there.
LEMMA ParseLong ==
    ASSUME NEW bytes \in Seq(Byte), NEW s \in States, s.i + 1 < Len(bytes),
           bytes[s.i + 1] = Long
    PROVE  /\ bytes[s.i + 2] + 2 \in Nat
           /\ ParseItem(bytes, s) = Skip(s, bytes[s.i + 2] + 2)
<1>1. s.i \in Nat
  BY DEF States
<1>2. PICK b \in Byte : b = bytes[s.i + 2]
  BY <1>1
<1>3. b + 2 \in Nat
  BY DEF Byte
<1> QED
  BY <1>2, <1>3 DEF ParseItem

\* An item whose end is missing ends the loop and changes no result.
LEMMA ParseCut ==
    ASSUME NEW bytes \in Seq(Byte), NEW s \in States, s.i < Len(bytes),
           IF bytes[s.i + 1] = Long THEN s.i + 1 >= Len(bytes)
           ELSE s.i + ItemSize(bytes[s.i + 1]) >= Len(bytes)
    PROVE  /\ ParseItem(bytes, s) \in States /\ ParseItem(bytes, s).i >= Len(bytes)
           /\ SameResult(s, ParseItem(bytes, s))
<1>1. s.i \in Nat /\ s.size \in Nat /\ Len(bytes) \in Nat
  BY DEF States
<1>2. CASE bytes[s.i + 1] = Long
  <2>1. ~(s.i + 1 < Len(bytes))
    BY <1>1, <1>2
  <2>2. ParseItem(bytes, s) = Skip(s, s.size)
    BY <1>2, <2>1 DEF ParseItem
  <2>3. s.i + s.size + 1 >= Len(bytes)
    BY <1>1, <2>1
  <2> QED
    BY <1>1, <2>2, <2>3, SkipFields
<1>3. CASE bytes[s.i + 1] # Long
  <2>1. PICK t : t = [s EXCEPT !.i = Len(bytes)]
    OBVIOUS
  <2>2. ParseItem(bytes, s) = t
    BY <1>3, <2>1 DEF ParseItem
  <2>3. t \in States /\ t.i = Len(bytes) /\ SameResult(s, t)
    BY <1>1, <2>1 DEF States, SameResult
  <2> QED
    BY <1>1, <2>2, <2>3
<1> QED
  BY <1>2, <1>3

LEMMA ParseType ==
    ASSUME NEW bytes \in Seq(Byte), NEW s \in States, s.i < Len(bytes)
    PROVE  ParseItem(bytes, s) \in States
<1>1. s.i \in Nat /\ Len(bytes) \in Nat /\ bytes[s.i + 1] \in Byte
  BY DEF States
<1>2. ItemSize(bytes[s.i + 1]) \in 0 .. 4
  BY <1>1, SizeType
<1>3. CASE bytes[s.i + 1] = Long /\ s.i + 1 < Len(bytes)
  BY <1>3, ParseLong, SkipFields
<1>4. CASE bytes[s.i + 1] # Long /\ s.i + ItemSize(bytes[s.i + 1]) < Len(bytes)
  BY <1>4, ParseShort
<1>5. CASE IF bytes[s.i + 1] = Long THEN s.i + 1 >= Len(bytes)
           ELSE s.i + ItemSize(bytes[s.i + 1]) >= Len(bytes)
  BY <1>5, ParseCut
<1> QED
  BY <1>1, <1>2, <1>3, <1>4, <1>5

\* What the loop does is what its turns say.
Start == [i |-> 0, size |-> 0, depth |-> 0, numbered |-> FALSE, page |-> 0, usage |-> 0]

LEMMA TurnsDef ==
    ASSUME NEW bytes \in Seq(Byte)
    PROVE  /\ Turns(bytes) \in [0 .. Len(bytes) -> States]
           /\ Turns(bytes)[0] = Start
           /\ \A n \in 1 .. Len(bytes) :
                Turns(bytes)[n] = IF Turns(bytes)[n - 1].i < Len(bytes)
                                  THEN ParseItem(bytes, Turns(bytes)[n - 1])
                                  ELSE Turns(bytes)[n - 1]
<1>1. PICK N \in Nat : N = Len(bytes)
  OBVIOUS
<1>2. PICK S, a : S = States /\ a = Start /\ a \in S
  <2>1. Start \in States
    <3>1. 0 \in Word
      BY SMT DEF Word
    <3> QED
      BY <3>1 DEF Start, States
  <2> QED
    BY <2>1, Zenon
<1> DEFINE Turn(s) == IF s.i < N THEN ParseItem(bytes, s) ELSE s
<1>3. ASSUME NEW s \in S PROVE Turn(s) \in S
  BY <1>1, <1>2, ParseType
<1> HIDE DEF Turn
<1>4. PICK G : G = [n \in 1 .. N |-> [s \in S |-> Turn(s)]]
  OBVIOUS
<1>5. Steps(G, N, S)
  BY <1>3, <1>4 DEF Steps
<1>6. PICK f : Iterates(f, G, N, S, a)
  BY <1>2, <1>5, Iterate
<1> USE DEF Iterates
<1>7. ASSUME NEW n \in 1 .. N PROVE f[n] = Turn(f[n - 1])
  <2>1. f[n - 1] \in S
    BY <1>6
  <2> QED
    BY <1>4, <1>6, <2>1
<1>8. f = [n \in 0 .. N |-> IF n = 0 THEN Start ELSE Turn(f[n - 1])]
  <2>1. f = [n \in 0 .. N |-> f[n]]
    BY <1>6
  <2>2. ASSUME NEW n \in 0 .. N PROVE f[n] = IF n = 0 THEN Start ELSE Turn(f[n - 1])
    <3>1. n # 0 => n \in 1 .. N
      OBVIOUS
    <3> QED
      BY <1>2, <1>6, <1>7, <3>1
  <2> QED
    BY <2>1, <2>2
<1>9. PICK g : g = Turns(bytes)
  OBVIOUS
<1>10. g = [n \in 0 .. N |-> IF n = 0 THEN Start ELSE Turn(g[n - 1])]
  BY <1>1, <1>8, <1>9 DEF Turns, Turn, Start
<1>11. g = [n \in 0 .. N |-> g[n]] /\ g[0] = a
  BY <1>2, <1>10
<1>12. ASSUME NEW n \in 1 .. N, g[n - 1] \in S PROVE g[n] = G[n][g[n - 1]]
  <2>1. n \in 0 .. N /\ n # 0
    OBVIOUS
  <2>2. g[n] = Turn(g[n - 1])
    BY <1>10, <2>1
  <2> QED
    BY <1>4, <1>12, <2>2
<1>13. g = f
  <2> HIDE DEF Iterates
  <2>1. Recurs(g, G, N, S, a)
    BY <1>11, <1>12 DEF Recurs
  <2> QED
    BY <1>6, <2>1, IterateOnce
<1>14. \A n \in 1 .. N : g[n] = Turn(g[n - 1])
  BY <1>7, <1>13
<1> QED
  BY <1>1, <1>2, <1>6, <1>9, <1>13, <1>14 DEF Turn

-----------------------------------------------------------------------------
(* What the items say, one more item at a time. *)

LEMMA FirstFinite ==
    ASSUME NEW n \in Int, NEW S, S \subseteq 1 .. n
    PROVE  IsFiniteSet(S) /\ Cardinality(S) \in Nat
<1>1. IsFiniteSet(1 .. n)
  BY FS_Interval
<1>2. IsFiniteSet(S)
  BY <1>1, FS_Subset
<1> QED
  BY <1>2, FS_CardinalityType

LEMMA CountStep ==
    ASSUME NEW items, NEW tag, NEW k \in Nat \ {0}
    PROVE  /\ Count(items, k - 1, tag) \in Nat
           /\ Count(items, k, tag) =
                Count(items, k - 1, tag) + (IF items[k].tag = tag THEN 1 ELSE 0)
<1>1. PICK A, B : /\ A = {j \in 1 .. k - 1 : items[j].tag = tag}
                  /\ B = {j \in 1 .. k : items[j].tag = tag}
  OBVIOUS
<1>2. Count(items, k - 1, tag) = Cardinality(A) /\ Count(items, k, tag) = Cardinality(B)
  BY <1>1 DEF Count
<1>3. IsFiniteSet(A) /\ Cardinality(A) \in Nat
  <2>1. k - 1 \in Int /\ A \subseteq 1 .. k - 1
    BY <1>1
  <2> QED
    BY <2>1, FirstFinite
<1>4. CASE items[k].tag = tag
  <2>1. B = A \cup {k} /\ k \notin A
    BY <1>1, <1>4
  <2>2. Cardinality(A \cup {k}) = Cardinality(A) + 1
    BY <1>3, <2>1, FS_AddElement
  <2> QED
    BY <1>2, <1>3, <1>4, <2>1, <2>2
<1>5. CASE items[k].tag # tag
  <2>1. B = A
    BY <1>1, <1>5
  <2>2. Cardinality(A) + 0 = Cardinality(A)
    BY <1>3
  <2> QED
    BY <1>2, <1>3, <1>5, <2>1, <2>2, Zenon
<1> QED
  BY <1>4, <1>5

LEMMA DepthStep ==
    ASSUME NEW items, NEW k \in Nat \ {0}
    PROVE  /\ Depth(items, k) \in Int
           /\ Depth(items, k + 1) =
                Depth(items, k) + (IF items[k].tag = Collection THEN 1
                                   ELSE IF items[k].tag = EndCollection THEN -1 ELSE 0)
<1>1. PICK a \in Nat, b \in Nat : a = Count(items, k - 1, Collection)
                                  /\ b = Count(items, k - 1, EndCollection)
  BY CountStep
<1>2. /\ Count(items, k, Collection) = a + (IF items[k].tag = Collection THEN 1 ELSE 0)
      /\ Count(items, k, EndCollection) = b + (IF items[k].tag = EndCollection THEN 1 ELSE 0)
  BY <1>1, CountStep
<1>3. Depth(items, k) = a - b
  BY <1>1 DEF Depth
<1>4. Depth(items, k + 1) = Count(items, k, Collection) - Count(items, k, EndCollection)
  <2>1. (k + 1) - 1 = k
    OBVIOUS
  <2> QED
    BY <2>1 DEF Depth
<1>5. Collection # EndCollection
  BY DEF Collection, EndCollection
<1> QED
  BY <1>2, <1>3, <1>4, <1>5

LEMMA DepthStart == ASSUME NEW items PROVE Depth(items, 1) = 0
<1>1. ASSUME NEW tag PROVE Count(items, 1 - 1, tag) = 0
  <2>1. {j \in 1 .. 1 - 1 : items[j].tag = tag} = {}
    OBVIOUS
  <2> QED
    BY <2>1, FS_EmptySet DEF Count
<1> QED
  BY <1>1 DEF Depth

LEMMA TopLevelStart == ASSUME NEW items, NEW tag PROVE TopLevel(items, 0, tag) = 0
BY DEF TopLevel

LEMMA TopLevelStep ==
    ASSUME NEW items, NEW tag, NEW k \in Nat \ {0}
    PROVE  TopLevel(items, k, tag) =
             IF items[k].tag = tag /\ Depth(items, k) = 0 THEN Value(items[k].data)
             ELSE TopLevel(items, k - 1, tag)
<1> DEFINE At(i) == items[i].tag = tag /\ Depth(items, i) = 0
<1>1. PICK A, B : A = {i \in 1 .. k - 1 : At(i)} /\ B = {i \in 1 .. k : At(i)}
  OBVIOUS
<1>2. /\ TopLevel(items, k - 1, tag) = IF A = {} THEN 0 ELSE Value(items[Max(A)].data)
      /\ TopLevel(items, k, tag) = IF B = {} THEN 0 ELSE Value(items[Max(B)].data)
  BY <1>1 DEF TopLevel
<1> HIDE DEF At
<1>3. CASE At(k)
  <2>1. k \in B /\ \A y \in B : k >= y
    BY <1>1, <1>3
  <2>2. \A x \in B : (\A y \in B : x >= y) => x = k
    BY <1>1, <2>1
  <2>3. Max(B) = k
    BY <2>1, <2>2 DEF Max
  <2> QED
    BY <1>2, <1>3, <2>1, <2>3 DEF At
<1>4. CASE ~At(k)
  <2>1. B = A
    BY <1>1, <1>4
  <2> QED
    BY <1>2, <1>4, <2>1 DEF At
<1> QED
  BY <1>3, <1>4

-----------------------------------------------------------------------------
(* Where the items are. *)

\* The number of bytes of the first k items.
End(items, k) == Len(Encoded(items)[k])

LEMMA EncodedType ==
    ASSUME NEW items \in Seq(Items), NEW k \in 0 .. Len(items)
    PROVE  Encoded(items)[k] \in Seq(Byte) /\ End(items, k) \in Nat
<1>1. PICK N, f : N = Len(items) /\ f = Encoded(items)
  OBVIOUS
<1>2. f \in [0 .. N -> Seq(Byte)]
  BY <1>1, EncodedDef
<1>3. f[k] \in Seq(Byte)
  BY <1>1, <1>2
<1>4. Len(f[k]) \in Nat
  BY <1>3
<1> QED
  BY <1>1, <1>3, <1>4 DEF End

LEMMA EncodedAt ==
    ASSUME NEW items \in Seq(Items), NEW k \in 1 .. Len(items)
    PROVE  \E p \in Seq(Byte), e \in Seq(Byte) :
             /\ p = Encoded(items)[k - 1] /\ e = Encode(items[k]) /\ Encoded(items)[k] = p \o e
             /\ End(items, k - 1) = Len(p) /\ End(items, k) = Len(p) + Len(e)
<1>1. items[k] \in Items /\ k - 1 \in 0 .. Len(items)
  OBVIOUS
<1>2. PICK p \in Seq(Byte), e \in Seq(Byte) : p = Encoded(items)[k - 1] /\ e = Encode(items[k])
  BY <1>1, EncodedType, EncodeType
<1>3. Encoded(items)[k] = p \o e
  BY <1>2, EncodedDef
<1>4. Len(p \o e) = Len(p) + Len(e)
  OBVIOUS
<1>5. End(items, k - 1) = Len(p) /\ End(items, k) = Len(p) + Len(e)
  BY <1>2, <1>3, <1>4 DEF End
<1> QED
  BY <1>2, <1>3, <1>5

LEMMA EndStep ==
    ASSUME NEW items \in Seq(Items), NEW k \in 1 .. Len(items)
    PROVE  /\ End(items, k - 1) \in Nat
           /\ End(items, k) = End(items, k - 1) + Len(items[k].data)
                                + IF items[k].tag = Long THEN 3 ELSE 1
           /\ Len(items[k].data) \in Byte /\ items[k] \in Items
<1>1. items[k] \in Items
  OBVIOUS
<1>2. PICK p \in Seq(Byte), e \in Seq(Byte) :
           /\ p = Encoded(items)[k - 1] /\ e = Encode(items[k]) /\ Encoded(items)[k] = p \o e
           /\ End(items, k - 1) = Len(p) /\ End(items, k) = Len(p) + Len(e)
  BY EncodedAt
<1>3. PICK d : d = Len(items[k].data) /\ d \in Byte
  BY <1>1, ItemFields
<1>4. PICK h : h = IF items[k].tag = Long THEN 3 ELSE 1
  OBVIOUS
<1>5. d \in Nat /\ h \in Nat /\ Len(p) \in Nat
  BY <1>3, <1>4 DEF Byte
<1>6. Len(e) = d + h
  BY <1>1, <1>2, <1>3, <1>4, EncodeType
<1>7. Len(p) + (d + h) = Len(p) + d + h
  BY <1>5
<1> QED
  BY <1>1, <1>2, <1>3, <1>4, <1>5, <1>6, <1>7

\* The first items are where they are, whatever follows; every item takes a byte.
Starts(items, j, k) ==
    /\ End(items, j) <= End(items, k)
    /\ \A x \in 1 .. End(items, j) : Encoded(items)[k][x] = Encoded(items)[j][x]

LEMMA EncodedStarts ==
    ASSUME NEW items \in Seq(Items)
    PROVE  \A k \in 0 .. Len(items) :
             /\ End(items, k) \in Nat /\ End(items, k) >= k
             /\ \A j \in 0 .. k : Starts(items, j, k)
<1>1. PICK N \in Nat : N = Len(items)
  OBVIOUS
<1>2. PICK T : T = {k \in 0 .. N : /\ End(items, k) \in Nat /\ End(items, k) >= k
                                   /\ \A j \in 0 .. k : Starts(items, j, k)}
  OBVIOUS
<1>3. ASSUME NEW k PROVE End(items, k) \in Nat => Starts(items, k, k)
  BY DEF Starts
<1>4. 0 \in T
  <2>1. End(items, 0) = 0
    <3>1. Encoded(items)[0] = <<>>
      BY EncodedDef
    <3> QED
      BY <3>1 DEF End
  <2>2. \A j \in 0 .. 0 : j = 0
    OBVIOUS
  <2> QED
    BY <1>2, <1>3, <2>1, <2>2
<1>5. ASSUME NEW k \in 1 .. N, k - 1 \in T PROVE k \in T
  <2>1. /\ End(items, k - 1) \in Nat /\ End(items, k - 1) >= k - 1
        /\ \A j \in 0 .. k - 1 : Starts(items, j, k - 1)
    BY <1>2, <1>5
  <2>2. PICK d \in Nat : /\ d >= 1 /\ End(items, k) = End(items, k - 1) + d
    <3>1. PICK c, h : /\ c \in Byte /\ c = Len(items[k].data)
                      /\ h = IF items[k].tag = Long THEN 3 ELSE 1
      BY <1>1, EndStep
    <3>2. c \in Nat /\ h \in Nat /\ h >= 1
      BY <3>1 DEF Byte
    <3>3. End(items, k) = End(items, k - 1) + c + h
      BY <1>1, <3>1, EndStep
    <3>4. c + h \in Nat /\ c + h >= 1
      BY <3>2
    <3>5. End(items, k) = End(items, k - 1) + (c + h)
      BY <2>1, <3>2, <3>3
    <3> QED
      BY <3>4, <3>5
  <2>3. End(items, k) \in Nat /\ End(items, k) >= k
    BY <2>1, <2>2
  <2>4. Starts(items, k - 1, k)
    <3>1. PICK p \in Seq(Byte), e \in Seq(Byte) :
               /\ p = Encoded(items)[k - 1] /\ e = Encode(items[k]) /\ Encoded(items)[k] = p \o e
               /\ End(items, k - 1) = Len(p) /\ End(items, k) = Len(p) + Len(e)
      BY <1>1, EncodedAt
    <3>2. Encoded(items)[k] = p \o e
      BY <3>1
    <3>3. \A x \in 1 .. Len(p) : (p \o e)[x] = p[x]
      OBVIOUS
    <3>4. End(items, k - 1) = Len(p)
      BY <3>1 DEF End
    <3>5. \A x \in 1 .. End(items, k - 1) : Encoded(items)[k][x] = Encoded(items)[k - 1][x]
      BY <3>1, <3>2, <3>3, <3>4
    <3> QED
      BY <2>1, <2>2, <3>5 DEF Starts
  <2>5. ASSUME NEW j \in 0 .. k PROVE Starts(items, j, k)
    <3>1. CASE j = k
      BY <1>3, <2>3, <3>1
    <3>2. CASE j # k
      <4>1. Starts(items, j, k - 1)
        BY <2>1, <3>2
      <4>2. PICK a \in Nat : a = End(items, j)
        <5>1. j \in 0 .. Len(items)
          BY <1>1
        <5> QED
          BY <5>1, EncodedType
      <4>3. \A x \in 1 .. a : x \in 1 .. End(items, k - 1)
        BY <2>1, <4>1, <4>2 DEF Starts
      <4> QED
        BY <2>1, <2>2, <2>4, <4>1, <4>2, <4>3 DEF Starts
    <3> QED
      BY <3>1, <3>2
  <2> QED
    BY <1>2, <2>3, <2>5
<1>6. \A k \in 0 .. N : k \in T
  BY <1>4, <1>5, Induction
<1> QED
  BY <1>1, <1>2, <1>6

\* The bytes of an item.
LEMMA ItemBytes ==
    ASSUME NEW items \in Seq(Items), NEW k \in 1 .. Len(items),
           NEW x \in 1 .. Len(Encode(items[k]))
    PROVE  EncodeAll(items)[End(items, k - 1) + x] = Encode(items[k])[x]
<1>1. PICK p \in Seq(Byte), e \in Seq(Byte) :
           /\ p = Encoded(items)[k - 1] /\ e = Encode(items[k]) /\ Encoded(items)[k] = p \o e
           /\ End(items, k - 1) = Len(p) /\ End(items, k) = Len(p) + Len(e)
  BY EncodedAt
<1>2. Encoded(items)[k] = p \o e /\ x \in 1 .. Len(e)
  BY <1>1
<1>3. (p \o e)[Len(p) + x] = e[x] /\ Len(p) + x \in 1 .. Len(p \o e)
  BY <1>2
<1>4. End(items, k - 1) = Len(p) /\ End(items, k) = Len(p \o e)
  BY <1>1 DEF End
<1>5. PICK N \in Nat : N = Len(items)
  OBVIOUS
<1>6. Starts(items, k, N)
  BY <1>5, EncodedStarts
<1> QED
  BY <1>1, <1>2, <1>3, <1>4, <1>5, <1>6 DEF Starts, EncodeAll

-----------------------------------------------------------------------------
(* The parser follows the items. *)

LEMMA LowBits ==
    ASSUME NEW t \in Nat, NEW c \in 0 .. 3, t % 4 = 0
    PROVE  (t + c) % 4 = c
OBVIOUS

LEMMA ShortHead ==
    ASSUME NEW item \in Items, item.tag # Long, NEW b, b = Encode(item)[1]
    PROVE  /\ b # Long /\ ItemSize(b) = Len(item.data) /\ b - (b % 4) = item.tag
           /\ \A x \in 1 .. Len(item.data) : Encode(item)[x + 1] = item.data[x]
<1>1. PICK d \in Seq(Byte) : d = item.data
  BY ItemFields
<1>2. PICK len : len = Len(d)
  OBVIOUS
<1>3. len \in {0, 1, 2, 4}
  BY <1>1, <1>2, ItemFields
<1>4. PICK tag \in Byte : tag = item.tag /\ tag <= 248 /\ tag % 4 = 0
  BY ItemFields, Zenon
<1>5. PICK c \in 0 .. 3 : c = IF len = 4 THEN 3 ELSE len
  BY <1>3
<1>6. Encode(item) = <<tag + c>> \o d
  BY <1>1, <1>2, <1>4, <1>5 DEF Encode
<1>7. b = tag + c
  BY <1>6
<1>8. (tag + c) % 4 = c /\ tag + c # 254 /\ (tag + c) - c = tag
  <2>1. tag \in Nat
    BY DEF Byte
  <2>2. (tag + c) % 4 = c
    BY <1>4, <2>1, LowBits
  <2>3. tag + c # 254
    BY <1>4, <2>1
  <2> QED
    BY <2>1, <2>2, <2>3
<1>9. ItemSize(b) = len
  BY <1>3, <1>5, <1>7, <1>8 DEF ItemSize
<1>10. \A x \in 1 .. len : (<<tag + c>> \o d)[x + 1] = d[x]
  BY <1>2
<1> QED
  <2>1. b # Long
    BY <1>7, <1>8 DEF Long
  <2>2. b - (b % 4) = tag
    BY <1>7, <1>8
  <2> QED
    BY <1>1, <1>2, <1>4, <1>6, <1>9, <1>10, <2>1, <2>2

LEMMA LongHead ==
    ASSUME NEW item \in Items, item.tag = Long
    PROVE  Encode(item)[1] = Long /\ Encode(item)[2] = Len(item.data)
<1>1. PICK d, len : d \in Seq(Byte) /\ d = item.data /\ len = Len(item.data)
  BY ItemFields
<1>2. Encode(item) = <<Long, len, 0>> \o d
  BY <1>1 DEF Encode
<1> QED
  BY <1>1, <1>2

LEMMA DataIs ==
    ASSUME NEW bytes \in Seq(Byte), NEW i \in Nat, NEW d \in Seq(Byte), NEW len \in Nat,
           len = Len(d), len > 0 => bytes[i + 2] = d[1], len > 1 => bytes[i + 3] = d[2]
    PROVE  Data16(bytes, i, len) = Value(d)
<1>1. /\ len >= 1 <=> len > 0
      /\ len >= 2 <=> len > 1
  OBVIOUS
<1> QED
  BY <1>1 DEF Data16, Value

\* The first n bytes of the encoded items.
IsCut(bytes, items, n) ==
    /\ bytes \in Seq(Byte) /\ Len(bytes) = n
    /\ \A x \in 1 .. n : bytes[x] = EncodeAll(items)[x]

\* What the parser knows at the end of the first m items.
Agrees(s, items, m) ==
    /\ s \in States
    /\ s.i = End(items, m)
    /\ s.depth = Depth(items, m + 1)
    /\ s.numbered = \E j \in 1 .. m : items[j].tag = ReportId
    /\ s.page = TopLevel(items, m, UsagePage)
    /\ s.usage = TopLevel(items, m, Usage)

\* The bytes of item k that the parser finds at s.i.
LEMMA BytesAt ==
    ASSUME NEW items \in Seq(Items), NEW n \in Nat, NEW bytes, IsCut(bytes, items, n),
           NEW k \in 1 .. Len(items), NEW i \in Nat, i = End(items, k - 1),
           NEW x \in 1 .. Len(Encode(items[k])), i + x <= n
    PROVE  bytes[i + x] = Encode(items[k])[x]
<1>1. i + x \in 1 .. n
  <2>1. items[k] \in Items
    OBVIOUS
  <2>2. Len(Encode(items[k])) \in Nat
    BY <2>1, EncodeType
  <2> QED
    BY <2>2
<1>2. bytes[i + x] = EncodeAll(items)[i + x]
  BY <1>1 DEF IsCut
<1> QED
  BY <1>2, ItemBytes

LEMMA AgreesStep ==
    ASSUME NEW items \in Seq(Items), NEW n \in Nat, NEW bytes, IsCut(bytes, items, n),
           NEW k \in 1 .. Len(items), End(items, k) <= n, NEW s, Agrees(s, items, k - 1)
    PROVE  s.i < n /\ Agrees(ParseItem(bytes, s), items, k)
<1>1. PICK i \in Nat : i = s.i /\ i = End(items, k - 1)
  BY EndStep DEF Agrees
<1>2. PICK item \in Items, len \in Nat : item = items[k] /\ len = Len(item.data)
  <2>1. items[k] \in Items
    OBVIOUS
  <2> QED
    BY <2>1, ItemFields
<1>3. PICK h \in Nat : h >= 1 /\ h = IF item.tag = Long THEN 3 ELSE 1
  OBVIOUS
<1>4. End(items, k) = i + len + h /\ Len(Encode(item)) = len + h
  BY <1>1, <1>2, <1>3, EndStep, EncodeType
<1>5. i < n /\ i + len + h <= n
  BY <1>3, <1>4
<1>6. ASSUME NEW x \in 1 .. len + h PROVE bytes[i + x] = Encode(item)[x]
  <2>1. x \in 1 .. Len(Encode(items[k])) /\ i + x <= n
    BY <1>2, <1>4, <1>5
  <2> QED
    BY <1>1, <1>2, <2>1, BytesAt
<1>7. s \in States /\ bytes \in Seq(Byte) /\ Len(bytes) = n /\ bytes[i + 1] = Encode(item)[1]
  BY <1>3, <1>6 DEF Agrees, IsCut
<1>8. PICK t : t = ParseItem(bytes, s)
  OBVIOUS
<1>9. (k - 1) + 1 = k /\ k \in Nat \ {0}
  OBVIOUS
<1>10. s.depth = Depth(items, k)
  BY <1>9 DEF Agrees
<1>11. /\ t \in States /\ t.i = i + len + h
       /\ t.depth = s.depth + (IF item.tag = Collection THEN 1
                               ELSE IF item.tag = EndCollection THEN -1 ELSE 0)
       /\ t.numbered = (s.numbered \/ item.tag = ReportId)
       /\ t.page = IF item.tag = UsagePage /\ s.depth = 0 THEN Value(item.data) ELSE s.page
       /\ t.usage = IF item.tag = Usage /\ s.depth = 0 THEN Value(item.data) ELSE s.usage
  <2>1. CASE item.tag = Long
    <3>1. bytes[i + 1] = Long /\ bytes[i + 2] = len /\ i + 1 < n
      <4>1. h = 3 /\ 2 \in 1 .. len + h
        BY <1>3, <2>1
      <4>2. Encode(item)[1] = Long /\ Encode(item)[2] = len
        BY <1>2, <2>1, LongHead
      <4>3. bytes[i + 2] = Encode(item)[2]
        BY <1>6, <4>1
      <4>4. i + 1 < n
        BY <1>5, <4>1
      <4> QED
        BY <1>7, <4>2, <4>3, <4>4
    <3>2. t = Skip(s, len + 2)
      BY <1>1, <1>7, <1>8, <3>1, ParseLong
    <3>3. /\ t \in States /\ t.i = i + (len + 2) + 1 /\ t.depth = s.depth /\ SameResult(s, t)
      <4>1. PICK z \in Nat : z = len + 2
        OBVIOUS
      <4>2. t = Skip(s, z)
        BY <3>2, <4>1
      <4>3. /\ t \in States /\ t.i = s.i + z + 1 /\ t.depth = s.depth /\ SameResult(s, t)
        BY <1>7, <4>2, SkipFields
      <4> QED
        BY <1>1, <4>1, <4>3
    <3>4. /\ item.tag # Collection /\ item.tag # EndCollection /\ item.tag # ReportId
          /\ item.tag # UsagePage /\ item.tag # Usage
      BY <2>1 DEF Long, Collection, EndCollection, ReportId, UsagePage, Usage
    <3>5. t.i = i + len + h
      BY <1>3, <2>1, <3>3
    <3>6. s.depth + 0 = s.depth /\ s.numbered \in BOOLEAN
      BY <1>7 DEF States
    <3> QED
      BY <3>3, <3>4, <3>5, <3>6 DEF SameResult
  <2>2. CASE item.tag # Long
    <3>1. PICK b : b = bytes[i + 1] /\ b = Encode(item)[1]
      BY <1>7
    <3>2. /\ b # Long /\ ItemSize(b) = len /\ b - (b % 4) = item.tag
          /\ \A x \in 1 .. len : Encode(item)[x + 1] = item.data[x]
      BY <1>2, <2>2, <3>1, ShortHead
    <3>3. h = 1 /\ i + len < n
      BY <1>3, <1>5, <2>2
    <3>4. t = TakeItem(s, item.tag, len, Data16(bytes, i, len)) /\ t \in States
      <4>1. s.i < Len(bytes) /\ b = bytes[s.i + 1] /\ b # Long
            /\ len = ItemSize(b) /\ s.i + len < Len(bytes)
        BY <1>1, <1>5, <1>7, <3>1, <3>2, <3>3
      <4>2. /\ ParseItem(bytes, s) \in States
            /\ ParseItem(bytes, s) = TakeItem(s, b - (b % 4), len, Data16(bytes, s.i, len))
        BY <1>7, <4>1, ParseShort
      <4> QED
        BY <1>1, <1>8, <3>2, <4>2
    <3>5. Data16(bytes, i, len) = Value(item.data)
      <4>1. ASSUME NEW x \in 1 .. len PROVE bytes[i + (x + 1)] = item.data[x]
        <5>1. x + 1 \in 1 .. len + h
          BY <3>3
        <5>2. bytes[i + (x + 1)] = Encode(item)[x + 1]
          BY <1>6, <5>1
        <5> QED
          BY <3>2, <5>2
      <4>2. PICK d \in Seq(Byte) : d = item.data /\ len = Len(d)
        BY <1>2, ItemFields
      <4>3. /\ len > 0 => bytes[i + 2] = d[1]
            /\ len > 1 => bytes[i + 3] = d[2]
        <5>1. /\ len > 0 => 1 \in 1 .. len
              /\ len > 1 => 2 \in 1 .. len
          OBVIOUS
        <5>2. 1 + 1 = 2 /\ 2 + 1 = 3
          OBVIOUS
        <5> QED
          BY <4>1, <4>2, <5>1, <5>2
      <4>4. bytes \in Seq(Byte) /\ i \in Nat /\ len \in Nat /\ len = Len(d)
        BY <1>7, <4>2
      <4>5. Data16(bytes, i, len) = Value(d)
        BY <4>3, <4>4, DataIs
      <4> QED
        BY <4>2, <4>5
    <3> QED
      BY <1>1, <3>3, <3>4, <3>5 DEF TakeItem
  <2> QED
    BY <2>1, <2>2
<1>12. t.depth = Depth(items, k + 1)
  BY <1>2, <1>9, <1>10, <1>11, DepthStep
<1>13. t.numbered = \E j \in 1 .. k : items[j].tag = ReportId
  <2>1. s.numbered = \E j \in 1 .. k - 1 : items[j].tag = ReportId
    BY DEF Agrees
  <2>2. \A j \in 1 .. k : j \in 1 .. k - 1 \/ j = k
    OBVIOUS
  <2>3. k \in 1 .. k /\ \A j \in 1 .. k - 1 : j \in 1 .. k
    OBVIOUS
  <2> QED
    BY <1>2, <1>11, <2>1, <2>2, <2>3, Zenon
<1>14. t.page = TopLevel(items, k, UsagePage) /\ t.usage = TopLevel(items, k, Usage)
  BY <1>2, <1>9, <1>10, <1>11, TopLevelStep DEF Agrees
<1>15. Agrees(t, items, k)
  BY <1>4, <1>11, <1>12, <1>13, <1>14 DEF Agrees
<1> QED
  BY <1>1, <1>5, <1>8, <1>15

LEMMA AgreesStart == ASSUME NEW items \in Seq(Items) PROVE Agrees(Start, items, 0)
<1>1. Start \in States
  <2>1. 0 \in Word
    BY SMT DEF Word
  <2> QED
    BY <2>1 DEF Start, States
<1>2. End(items, 0) = 0
  <2>1. Encoded(items)[0] = <<>>
    BY EncodedDef
  <2> QED
    BY <2>1 DEF End
<1>3. Depth(items, 0 + 1) = 0
  BY DepthStart
<1>4. ~\E j \in 1 .. 0 : items[j].tag = ReportId
  OBVIOUS
<1>5. TopLevel(items, 0, UsagePage) = 0 /\ TopLevel(items, 0, Usage) = 0
  BY TopLevelStart
<1>6. /\ Start.i = 0 /\ Start.depth = 0 /\ Start.numbered = FALSE
      /\ Start.page = 0 /\ Start.usage = 0
  BY DEF Start
<1> QED
  BY <1>1, <1>2, <1>3, <1>4, <1>5, <1>6, Zenon DEF Agrees

LEMMA Follows ==
    ASSUME NEW items \in Seq(Items), NEW n \in Nat, NEW bytes, IsCut(bytes, items, n),
           NEW m \in 0 .. Len(items), End(items, m) <= n
    PROVE  m <= n /\ Agrees(Turns(bytes)[m], items, m)
<1>1. PICK T : T = {k \in 0 .. m : k <= n /\ Agrees(Turns(bytes)[k], items, k)}
  OBVIOUS
<1>2. bytes \in Seq(Byte) /\ Len(bytes) = n
  BY DEF IsCut
<1>3. 0 \in T
  <2>1. Turns(bytes)[0] = Start
    BY <1>2, TurnsDef
  <2> QED
    BY <1>1, <2>1, AgreesStart
<1>4. ASSUME NEW k \in 1 .. m, k - 1 \in T PROVE k \in T
  <2>1. Agrees(Turns(bytes)[k - 1], items, k - 1) /\ k \in 1 .. Len(items) /\ k \in 0 .. m
    BY <1>1, <1>4
  <2>2. End(items, k) <= n /\ k <= n
    <3>1. k \in 0 .. Len(items)
      BY <2>1
    <3>2. PICK a \in Nat, b \in Nat : a = End(items, k) /\ b = End(items, m) /\ a >= k /\ a <= b
      BY <2>1, <3>1, EncodedStarts DEF Starts
    <3> QED
      BY <2>1, <3>2
  <2>3. PICK s : s = Turns(bytes)[k - 1]
    OBVIOUS
  <2>4. s.i < n /\ Agrees(ParseItem(bytes, s), items, k)
    BY <2>1, <2>2, <2>3, AgreesStep
  <2>5. k \in 1 .. Len(bytes)
    BY <1>2, <2>2
  <2>6. Turns(bytes)[k] = IF s.i < n THEN ParseItem(bytes, s) ELSE s
    BY <1>2, <2>3, <2>5, TurnsDef
  <2> QED
    BY <1>1, <2>1, <2>2, <2>4, <2>6
<1>5. m \in Nat /\ m \in 0 .. m
  OBVIOUS
<1>6. \A k \in 0 .. m : k \in T
  BY <1>3, <1>4, <1>5, Induction
<1> QED
  BY <1>1, <1>5, <1>6

\* m items are whole in the first n bytes.
IsWhole(items, n, m) ==
    /\ m \in 0 .. Len(items) /\ End(items, m) <= n
    /\ m = Len(items) \/ End(items, m + 1) > n

\* After the items that are whole, the loop ends with the results it has.
LEMMA Stops ==
    ASSUME NEW items \in Seq(Items), NEW n \in Nat, n <= End(items, Len(items)),
           NEW bytes, IsCut(bytes, items, n), NEW m, IsWhole(items, n, m),
           NEW s, Agrees(s, items, m), s.i < n
    PROVE  ParseItem(bytes, s).i >= n /\ SameResult(s, ParseItem(bytes, s))
<1>1. m \in 0 .. Len(items) /\ bytes \in Seq(Byte) /\ Len(bytes) = n /\ s \in States
  BY DEF IsWhole, IsCut, Agrees
<1>2. PICK i \in Nat : i = s.i /\ i = End(items, m)
  BY <1>1, EncodedType DEF Agrees
<1>3. m # Len(items)
  BY <1>2
<1>4. PICK k \in 1 .. Len(items) : k = m + 1 /\ k - 1 = m
  BY <1>1, <1>3
<1>5. PICK item \in Items, len \in Nat : item = items[k] /\ len = Len(item.data)
  <2>1. items[k] \in Items
    OBVIOUS
  <2> QED
    BY <2>1, ItemFields
<1>6. PICK h \in Nat : h >= 1 /\ h = IF item.tag = Long THEN 3 ELSE 1
  OBVIOUS
<1>7. End(items, k) = i + len + h /\ Len(Encode(item)) = len + h
  BY <1>2, <1>4, <1>5, <1>6, EndStep, EncodeType
<1>8. i + len + h > n
  BY <1>3, <1>4, <1>7 DEF IsWhole
<1>9. ASSUME NEW x \in 1 .. len + h, i + x <= n PROVE bytes[i + x] = Encode(item)[x]
  <2>1. x \in 1 .. Len(Encode(items[k])) /\ i = End(items, k - 1)
    BY <1>2, <1>4, <1>5, <1>7
  <2> QED
    BY <1>5, <1>9, <2>1, BytesAt
<1>10. bytes[i + 1] = Encode(item)[1]
  <2>1. 1 \in 1 .. len + h /\ i + 1 <= n
    BY <1>2, <1>6
  <2> QED
    BY <1>9, <2>1
<1>11. CASE item.tag = Long /\ i + 1 < n
  <2>1. h = 3 /\ 2 \in 1 .. len + h /\ i + 2 <= n
    BY <1>6, <1>11
  <2>2. bytes[i + 1] = Long /\ bytes[i + 2] = len
    BY <1>5, <1>9, <1>10, <1>11, <2>1, LongHead
  <2>3. PICK z \in Nat : z = len + 2
    OBVIOUS
  <2>4. ParseItem(bytes, s) = Skip(s, z)
    BY <1>1, <1>2, <1>11, <2>2, <2>3, ParseLong
  <2>5. Skip(s, z).i = s.i + z + 1 /\ SameResult(s, Skip(s, z))
    BY <1>1, SkipFields
  <2>6. i + z + 1 >= n
    BY <1>8, <2>1, <2>3
  <2> QED
    BY <1>2, <2>4, <2>5, <2>6
<1>12. CASE item.tag = Long /\ ~(i + 1 < n)
  <2>1. bytes[s.i + 1] = Long /\ s.i + 1 >= Len(bytes)
    BY <1>1, <1>2, <1>5, <1>10, <1>12, LongHead
  <2> QED
    BY <1>1, <2>1, ParseCut
<1>13. CASE item.tag # Long
  <2>1. PICK b : b = bytes[i + 1] /\ b = Encode(item)[1]
    BY <1>10
  <2>2. b # Long /\ ItemSize(b) = len
    BY <1>5, <1>13, <2>1, ShortHead
  <2>3. i + len >= n
    BY <1>6, <1>8, <1>13
  <2>4. bytes[s.i + 1] # Long /\ s.i + ItemSize(bytes[s.i + 1]) >= Len(bytes)
    BY <1>1, <1>2, <2>1, <2>2, <2>3
  <2> QED
    BY <1>1, <2>4, ParseCut
<1> QED
  BY <1>11, <1>12, <1>13

LEMMA WholeIs ==
    ASSUME NEW items \in Seq(Items), NEW n \in Nat
    PROVE  IsWhole(items, n, Whole(items, n))
<1>1. PICK N \in Nat : N = Len(items)
  OBVIOUS
<1>2. PICK S : S = {m \in 0 .. N : m = N \/ End(items, m + 1) > n}
  OBVIOUS
<1>3. PICK m \in S : \A k \in S : m <= k
  <2>1. S \subseteq Nat /\ N \in S
    BY <1>2
  <2> QED
    BY <2>1, SmallestOf
<1>4. End(items, m) <= n
  <2>1. CASE m = 0
    <3>1. Encoded(items)[0] = <<>>
      BY EncodedDef
    <3> QED
      BY <2>1, <3>1 DEF End
  <2>2. CASE m # 0
    <3>1. m \in 0 .. N /\ m - 1 \in 0 .. N /\ m - 1 \notin S /\ (m - 1) + 1 = m /\ m - 1 # N
      BY <1>2, <1>3, <2>2
    <3>2. ~(End(items, m) > n)
      BY <1>2, <3>1
    <3>3. End(items, m) \in Nat
      BY <1>1, <3>1, EncodedType
    <3> QED
      BY <3>2, <3>3
  <2> QED
    BY <2>1, <2>2
<1>5. \E k \in 0 .. Len(items) : /\ End(items, k) <= n
                                 /\ k = Len(items) \/ End(items, k + 1) > n
  BY <1>1, <1>2, <1>3, <1>4
<1>6. Whole(items, n) = CHOOSE k \in 0 .. Len(items) :
                          /\ End(items, k) <= n
                          /\ k = Len(items) \/ End(items, k + 1) > n
  BY DEF Whole, End
<1> QED
  BY <1>5, <1>6, Zenon DEF IsWhole

\* parse_descriptor() gives what the items say that are whole, for every
\* descriptor and wherever it is cut.
THEOREM ParsesWholeItems ==
    ASSUME NEW items \in Seq(Items), NEW n \in 0 .. Len(EncodeAll(items))
    PROVE  parse_descriptor(SubSeq(EncodeAll(items), 1, n)) = Meaning(items, Whole(items, n))
<1>1. PICK m, bytes : m = Whole(items, n) /\ bytes = SubSeq(EncodeAll(items), 1, n)
  OBVIOUS
<1>2. n \in Nat /\ n <= End(items, Len(items))
  <2>1. End(items, Len(items)) = Len(EncodeAll(items))
    BY DEF End, EncodeAll
  <2> QED
    BY <2>1
<1>3. IsWhole(items, n, m)
  BY <1>1, <1>2, WholeIs
<1>4. IsCut(bytes, items, n)
  <2>1. PICK all \in Seq(Byte) : all = EncodeAll(items)
    <3>1. Len(items) \in 0 .. Len(items)
      OBVIOUS
    <3> QED
      BY <3>1, EncodedType DEF EncodeAll
  <2>2. n <= Len(all)
    BY <2>1
  <2>3. /\ SubSeq(all, 1, n) \in Seq(Byte) /\ Len(SubSeq(all, 1, n)) = n
        /\ \A x \in 1 .. n : SubSeq(all, 1, n)[x] = all[x]
    BY <1>2, <2>2
  <2> QED
    BY <1>1, <2>1, <2>3 DEF IsCut
<1>5. bytes \in Seq(Byte) /\ Len(bytes) = n /\ m \in 0 .. Len(items) /\ End(items, m) <= n
  BY <1>3, <1>4 DEF IsCut, IsWhole
<1>6. m <= n /\ Agrees(Turns(bytes)[m], items, m)
  BY <1>2, <1>4, <1>5, Follows
<1>7. PICK f, s : f = Turns(bytes) /\ s = f[m]
  OBVIOUS
<1>8. /\ f \in [0 .. n -> States]
      /\ \A k \in 1 .. n : f[k] = IF f[k - 1].i < n THEN ParseItem(bytes, f[k - 1]) ELSE f[k - 1]
  BY <1>5, <1>7, TurnsDef
<1> DEFINE Ended(k) == k > m => f[k].i >= n /\ SameResult(s, f[k])
<1>9. PICK T : T = {k \in 0 .. n : Ended(k)}
  OBVIOUS
<1>10. 0 \in T
  BY <1>2, <1>5, <1>9
<1>11. ASSUME NEW k \in 1 .. n, k - 1 \in T PROVE k \in T
  <2>1. f[k] = IF f[k - 1].i < n THEN ParseItem(bytes, f[k - 1]) ELSE f[k - 1]
    BY <1>8
  <2>2. f[k - 1] \in States
    BY <1>8
  <2>3. f[k - 1].i \in Nat
    BY <2>2 DEF States
  <2>4. CASE k <= m
    BY <1>5, <1>9, <2>4
  <2>5. CASE k = m + 1
    <3>1. k - 1 = m
      BY <1>5, <2>5
    <3>2. CASE s.i < n
      <4>1. ParseItem(bytes, s).i >= n /\ SameResult(s, ParseItem(bytes, s))
        BY <1>2, <1>3, <1>4, <1>6, <1>7, <3>2, Stops
      <4> QED
        BY <1>7, <1>9, <2>1, <3>1, <3>2, <4>1
    <3>3. CASE ~(s.i < n)
      BY <1>2, <1>7, <1>9, <2>1, <2>3, <3>1, <3>3 DEF SameResult
    <3> QED
      BY <3>2, <3>3
  <2>6. CASE k > m + 1
    <3>1. f[k - 1].i >= n /\ SameResult(s, f[k - 1])
      BY <1>5, <1>9, <1>11, <2>6
    <3>2. f[k] = f[k - 1]
      BY <1>2, <2>1, <2>3, <3>1
    <3> QED
      BY <1>9, <3>1, <3>2
  <2> QED
    BY <1>5, <2>4, <2>5, <2>6
<1>12. Ended(n)
  <2>1. \A k \in 0 .. n : k \in T
    BY <1>2, <1>10, <1>11, Induction
  <2> QED
    BY <1>2, <1>9, <2>1
<1>13. SameResult(s, f[n])
  <2>1. CASE n = m
    BY <1>7, <2>1 DEF SameResult
  <2>2. CASE n # m
    BY <1>2, <1>5, <1>6, <1>12, <2>2
  <2> QED
    BY <2>1, <2>2
<1>14. parse_descriptor(bytes) = [numbered |-> s.numbered, page |-> s.page, usage |-> s.usage]
  BY <1>5, <1>7, <1>13 DEF parse_descriptor, SameResult
<1> QED
  BY <1>1, <1>6, <1>7, <1>14 DEF Agrees, Meaning

-----------------------------------------------------------------------------
(* The other variables, and the report descriptor. *)

\* Parts of the invariant that speak of a variable each.
EnvOK == kind \in Kinds /\ ready \subseteq Descs /\ gone \in BOOLEAN
Results == [numbered : BOOLEAN, page : Word, usage : Word]
SetOK == set \in Seq(Entries) /\ Len(set) <= MaxSet
RetOK == call.pc \in WaitPcs => call.ret \in Int
More == EnvOK /\ hid \in Results /\ SetOK /\ RetOK /\ ParsedRight

LEMMA NoHidType == NoHid \in Results
<1>1. 0 \in Word
  BY SMT DEF Word
<1> QED
  BY <1>1 DEF NoHid, Results

LEMMA ResultType ==
    ASSUME NEW bytes \in Seq(Byte)
    PROVE  parse_descriptor(bytes) \in Results
<1>1. Turns(bytes)[Len(bytes)] \in States
  <2>1. PICK f, n : f = Turns(bytes) /\ n = Len(bytes) /\ n \in 0 .. n
    OBVIOUS
  <2>2. f \in [0 .. n -> States]
    BY <2>1, TurnsDef
  <2> QED
    BY <2>1, <2>2
<1>2. PICK s \in States : s = Turns(bytes)[Len(bytes)]
  BY <1>1
<1>3. s.numbered \in BOOLEAN /\ s.page \in Word /\ s.usage \in Word
  BY DEF States
<1>4. parse_descriptor(bytes) = [numbered |-> s.numbered, page |-> s.page, usage |-> s.usage]
  BY <1>2 DEF parse_descriptor
<1> QED
  BY <1>3, <1>4 DEF Results

\* The bytes that are read are the first ones of the descriptor.
LEMMA BytesAre ==
    ASSUME call \in ParseCalls
    PROVE  \E n \in 0 .. Len(EncodeAll(call.items)) :
             /\ Bytes = SubSeq(EncodeAll(call.items), 1, n)
             /\ Len(Bytes) = n /\ Bytes \in Seq(Byte) /\ call.items \in Seq(Items)
<1>1. call.items \in Seq(Items) /\ call.cut \in {0, 1}
  BY PosixAssumption DEF ParseCalls
<1>2. PICK all \in Seq(Byte) : all = EncodeAll(call.items)
  <2>1. PICK items \in Seq(Items) : items = call.items
    BY <1>1
  <2>2. Len(items) \in 0 .. Len(items)
    OBVIOUS
  <2> QED
    BY <2>1, <2>2, EncodedType DEF EncodeAll
<1>3. Bytes = SubSeq(all, 1, Len(all) - call.cut)
  BY <1>2 DEF Bytes
<1>4. PICK n \in 0 .. Len(all) : SubSeq(all, 1, Len(all) - call.cut) = SubSeq(all, 1, n)
  <2>1. CASE Len(all) - call.cut \in 0 .. Len(all)
    BY <2>1
  <2>2. CASE Len(all) - call.cut \notin 0 .. Len(all)
    <3>1. Len(all) - call.cut = -1
      BY <1>1, <2>2
    <3>2. SubSeq(all, 1, -1) = SubSeq(all, 1, 0)
      OBVIOUS
    <3> QED
      BY <3>1, <3>2
  <2> QED
    BY <2>1, <2>2
<1>5. Len(SubSeq(all, 1, n)) = n /\ SubSeq(all, 1, n) \in Seq(Byte)
  OBVIOUS
<1> QED
  BY <1>1, <1>2, <1>3, <1>4, <1>5

\* hs_descriptor_set_remove() keeps entries of the set, and adds none.
LEMMA KeptType ==
    ASSUME NEW s \in Seq(Entries), NEW id
    PROVE  Kept(s, id)[Len(s)] \in Seq(Entries) /\ Len(Kept(s, id)[Len(s)]) <= Len(s)
<1>1. PICK N \in Nat : N = Len(s)
  OBVIOUS
<1>2. PICK S, a : S = Seq(Entries) /\ a = <<>> /\ a \in S
  <2>1. <<>> \in Seq(Entries)
    OBVIOUS
  <2> QED
    BY <2>1, Zenon
<1> DEFINE Loop(n, q) == Keep(q, s[n], id)
<1>3. ASSUME NEW n \in 1 .. N, NEW q \in S
      PROVE  Loop(n, q) \in S /\ Len(q) \in Nat /\ Len(Loop(n, q)) <= Len(q) + 1
  <2>1. s[n] \in Entries /\ q \in Seq(Entries)
    BY <1>1, <1>2
  <2> QED
    BY <1>2, <2>1 DEF Keep
<1> HIDE DEF Loop
<1>4. PICK G : G = [n \in 1 .. N |-> [q \in S |-> Loop(n, q)]]
  OBVIOUS
<1>5. Steps(G, N, S)
  BY <1>3, <1>4 DEF Steps
<1>6. PICK f : Iterates(f, G, N, S, a)
  BY <1>2, <1>5, Iterate
<1> USE DEF Iterates
<1>7. ASSUME NEW n \in 1 .. N PROVE f[n] = Loop(n, f[n - 1]) /\ f[n - 1] \in S
  <2>1. f[n - 1] \in S
    BY <1>6
  <2> QED
    BY <1>4, <1>6, <2>1
<1>8. f = [n \in 0 .. N |-> IF n = 0 THEN <<>> ELSE Loop(n, f[n - 1])]
  <2>1. f = [n \in 0 .. N |-> f[n]]
    BY <1>6
  <2>2. ASSUME NEW n \in 0 .. N PROVE f[n] = IF n = 0 THEN <<>> ELSE Loop(n, f[n - 1])
    <3>1. n # 0 => n \in 1 .. N
      OBVIOUS
    <3> QED
      BY <1>2, <1>6, <1>7, <3>1
  <2> QED
    BY <2>1, <2>2
<1>9. PICK g : g = Kept(s, id)
  OBVIOUS
<1>10. g = [n \in 0 .. N |-> IF n = 0 THEN <<>> ELSE Loop(n, g[n - 1])]
  BY <1>1, <1>8, <1>9 DEF Kept, Loop
<1>11. g = [n \in 0 .. N |-> g[n]] /\ g[0] = a
  BY <1>2, <1>10
<1>12. ASSUME NEW n \in 1 .. N, g[n - 1] \in S PROVE g[n] = G[n][g[n - 1]]
  <2>1. n \in 0 .. N /\ n # 0
    OBVIOUS
  <2>2. g[n] = Loop(n, g[n - 1])
    BY <1>10, <2>1
  <2> QED
    BY <1>4, <1>12, <2>2
<1>13. g = f
  <2> HIDE DEF Iterates
  <2>1. Recurs(g, G, N, S, a)
    BY <1>11, <1>12 DEF Recurs
  <2> QED
    BY <1>6, <2>1, IterateOnce
<1>14. PICK T : T = {n \in 0 .. N : Len(f[n]) <= n}
  OBVIOUS
<1>15. 0 \in T
  BY <1>2, <1>6, <1>14
<1>16. ASSUME NEW n \in 1 .. N, n - 1 \in T PROVE n \in T
  <2>1. PICK q \in S, l \in Nat : q = f[n - 1] /\ l = Len(q)
    BY <1>3, <1>7
  <2>2. l <= n - 1
    BY <1>14, <1>16, <2>1
  <2>3. f[n] \in S /\ f[n] = Loop(n, q)
    BY <1>6, <1>7, <2>1
  <2>4. PICK m \in Nat : m = Len(f[n])
    BY <1>2, <2>3
  <2>5. m <= l + 1
    BY <1>3, <2>1, <2>3, <2>4
  <2> QED
    BY <1>14, <2>2, <2>4, <2>5
<1>17. N \in T
  <2>1. \A n \in 0 .. N : n \in T
    BY <1>15, <1>16, Induction
  <2> QED
    BY <2>1
<1> QED
  BY <1>1, <1>2, <1>6, <1>9, <1>13, <1>14, <1>17

-----------------------------------------------------------------------------
LEMMA InitMore == Init => More
<1> SUFFICES ASSUME Init PROVE More
  OBVIOUS
<1>1. EnvOK /\ hid \in Results
  BY NoHidType DEF Init, EnvOK
<1>2. SetOK
  BY PosixAssumption DEF Init, SetOK
<1>3. RetOK /\ ParsedRight
  BY DEF Init, Idle, RetOK, ParsedRight, WaitPcs
<1> QED
  BY <1>1, <1>2, <1>3 DEF More

LEMMA EnvStep == ASSUME EnvOK, [Next]_vars PROVE EnvOK'
<1> USE DEF env, EnvOK
<1>1. CASE TimePasses \/ Unplug \/ OtherTaken \/ \E d \in Descs : DataArrives(d)
  BY <1>1 DEF TimePasses, Unplug, OtherTaken, DataArrives, Descs
<1>2. CASE OpenDevice \/ Opening
  BY <1>2 DEF OpenDevice, Opening, OpenSucceeds, OpenFails, ReadDescriptor, OpenReturns
<1>3. CASE CloseDevice
  BY <1>3 DEF CloseDevice
<1>4. CASE \/ \E timeout \in Timeouts :
               hs_poll(timeout) \/ \E size \in Sizes : hs_read(timeout, size)
           \/ \E op \in {"write", "feature"}, size \in Sizes : hs_write(op, size)
  BY <1>4 DEF hs_poll, hs_read, hs_write
<1>5. CASE ReadData
  <2>1. UNCHANGED <<kind, gone>> /\ (ready' = ready \/ ready' = ready \ {"dev"})
    BY <1>5 DEF ReadData
  <2> QED
    BY <2>1
<1>6. CASE PollEnters \/ PollReady \/ Transfer \/ CallReturns \/ PollInterrupted
           \/ PollTimesOut \/ PollFails
  BY <1>6 DEF PollEnters, PollReady, Transfer, CallReturns, PollInterrupted, PollTimesOut,
              PollFails, hs_hid_write, hs_hid_get_feature_report, hs_serial_write
<1>7. CASE \/ \E entry \in Entries :
               hs_descriptor_set_add(entry) \/ hs_descriptor_set_remove(entry.id)
           \/ hs_descriptor_set_clear
  BY <1>7 DEF hs_descriptor_set_add, hs_descriptor_set_remove, hs_descriptor_set_clear
<1>8. CASE UNCHANGED vars
  BY <1>8 DEF vars
<1> QED
  BY <1>1, <1>2, <1>3, <1>4, <1>5, <1>6, <1>7, <1>8 DEF Next, Waiting

\* Only the operations on a set change it.
LEMMA SetStep == ASSUME SetOK, [Next]_vars PROVE SetOK'
<1>1. CASE UNCHANGED set
  BY <1>1 DEF SetOK
<1>2. CASE \E entry \in Entries : hs_descriptor_set_add(entry)
  <2>1. PICK entry \in Entries : hs_descriptor_set_add(entry)
    BY <1>2
  <2>2. set \in Seq(Entries) /\ Len(set) < MaxSet /\ set' = Append(set, entry)
    BY <2>1 DEF hs_descriptor_set_add, SetOK
  <2>3. set' \in Seq(Entries) /\ Len(set') = Len(set) + 1
    BY <2>2
  <2> QED
    BY <2>2, <2>3, PosixAssumption DEF SetOK
<1>3. CASE \E entry \in Entries : hs_descriptor_set_remove(entry.id)
  <2>1. PICK entry \in Entries : hs_descriptor_set_remove(entry.id)
    BY <1>3
  <2>2. PICK s, id : s \in Seq(Entries) /\ s = set /\ id = entry.id
    BY DEF SetOK
  <2>3. set' = Kept(s, id)[Len(s)]
    BY <2>1, <2>2 DEF hs_descriptor_set_remove
  <2>4. set' \in Seq(Entries) /\ Len(set') <= Len(s)
    BY <2>2, <2>3, KeptType
  <2>5. PICK a \in Nat, b \in Nat : a = Len(s) /\ b = Len(set')
    BY <2>4
  <2>6. a <= MaxSet
    BY <2>2, <2>5 DEF SetOK
  <2> QED
    BY <2>4, <2>5, <2>6, PosixAssumption DEF SetOK
<1>4. CASE hs_descriptor_set_clear
  BY <1>4, PosixAssumption DEF hs_descriptor_set_clear, SetOK
<1>5. CASE TimePasses \/ Unplug \/ OtherTaken \/ \E d \in Descs : DataArrives(d)
  BY <1>1, <1>5 DEF TimePasses, Unplug, OtherTaken, DataArrives
<1>6. CASE OpenDevice \/ Opening \/ CloseDevice
  BY <1>1, <1>6 DEF OpenDevice, Opening, OpenSucceeds, OpenFails, ReadDescriptor, OpenReturns,
                    CloseDevice
<1>7. CASE \/ \E timeout \in Timeouts :
               hs_poll(timeout) \/ \E size \in Sizes : hs_read(timeout, size)
           \/ \E op \in {"write", "feature"}, size \in Sizes : hs_write(op, size)
  BY <1>1, <1>7 DEF hs_poll, hs_read, hs_write
<1>8. CASE Waiting \/ PollInterrupted \/ PollTimesOut \/ PollFails
  BY <1>1, <1>8 DEF Waiting, PollEnters, PollReady, ReadData, Transfer, CallReturns,
                    PollInterrupted, PollTimesOut, PollFails, hs_hid_write,
                    hs_hid_get_feature_report, hs_serial_write
<1>9. CASE UNCHANGED vars
  BY <1>1, <1>9 DEF vars
<1> QED
  BY <1>2, <1>3, <1>4, <1>5, <1>6, <1>7, <1>8, <1>9 DEF Next

-----------------------------------------------------------------------------
\* The parts on the call and on what has been parsed, after a step that leaves
\* both alone, and after one that goes elsewhere.
CallOK == hid \in Results /\ RetOK /\ ParsedRight

LEMMA CallKept == ASSUME CallOK, UNCHANGED <<hid, call>> PROVE CallOK'
BY DEF CallOK, RetOK, ParsedRight, Bytes

LEMMA CallElsewhere ==
    ASSUME CallOK, hid' = hid, call'.pc # "parsed", call'.pc \in WaitPcs => call'.ret \in Int
    PROVE  CallOK'
BY DEF CallOK, RetOK, ParsedRight

LEMMA CallReturned ==
    ASSUME Inv, CallOK, call.pc \in WaitPcs, hid' = hid, NEW r \in Int, Return(r)
    PROVE  CallOK'
<1>1. PICK R : call \in WaitCalls(R)
  BY PcShape DEF IsWait
<1>2. call'.pc = "return" /\ call'.ret = r
  BY <1>1 DEF Return, WaitCalls
<1> QED
  BY <1>2, CallElsewhere

\* A wait that goes on.
LEMMA CallGoesOn ==
    ASSUME CallOK, call.pc \in WaitPcs, hid' = hid, call'.pc \in WaitPcs, call'.ret = call.ret
    PROVE  CallOK'
<1>1. call'.ret \in Int /\ call'.pc # "parsed"
  BY DEF CallOK, RetOK, WaitPcs
<1> QED
  BY <1>1, CallElsewhere

LEMMA OpenCallOK ==
    ASSUME Inv, CallOK, OpenDevice \/ Opening \/ CloseDevice
    PROVE  CallOK'
<1>1. CASE OpenDevice
  BY <1>1, CallElsewhere DEF OpenDevice, WaitPcs
<1>2. CASE hid' = hid /\ call' = Idle
  BY <1>2, CallElsewhere DEF Idle, WaitPcs
<1>3. CASE OpenFails /\ call' = [call EXCEPT !.retry = @ - 1]
  <2>1. call.pc = "open" /\ call \in OpenCalls /\ hid' = hid
    BY <1>3, PcShape DEF OpenFails
  <2>2. call'.pc = "open"
    BY <1>3, <2>1 DEF OpenCalls
  <2> QED
    BY <2>1, <2>2, CallElsewhere DEF WaitPcs
<1>4. CASE hid' = hid /\ \E items \in Descriptors, cut \in {0, 1} :
                           call' = [pc |-> "parse", items |-> items, cut |-> cut]
  BY <1>4, CallElsewhere DEF WaitPcs
<1>5. CASE /\ call.pc = "parse" /\ hid' = parse_descriptor(Bytes)
           /\ call' = [call EXCEPT !.pc = "parsed"]
  <2>1. call \in ParseCalls
    BY <1>5, PcShape
  <2>2. call'.pc = "parsed" /\ call'.items = call.items /\ call'.cut = call.cut
    BY <1>5, <2>1 DEF ParseCalls
  <2>3. PICK items, bytes : items = call.items /\ bytes = Bytes
    OBVIOUS
  <2>4. PICK n \in 0 .. Len(EncodeAll(items)) :
          /\ bytes = SubSeq(EncodeAll(items), 1, n) /\ Len(bytes) = n
          /\ bytes \in Seq(Byte) /\ items \in Seq(Items)
    BY <2>1, <2>3, BytesAre
  <2>5. parse_descriptor(bytes) = Meaning(items, Whole(items, n))
    BY <2>4, ParsesWholeItems
  <2>6. Bytes' = bytes
    BY <2>2, <2>3 DEF Bytes
  <2>7. ParsedRight'
    BY <1>5, <2>2, <2>3, <2>4, <2>5, <2>6 DEF ParsedRight
  <2>8. hid' \in Results
    BY <1>5, <2>3, <2>4, ResultType
  <2>9. RetOK'
    BY <2>2 DEF RetOK, WaitPcs
  <2> QED
    BY <2>7, <2>8, <2>9 DEF CallOK
<1>6. CASE CloseDevice
  <2>1. hid' \in Results /\ call' = call /\ call.pc = "idle"
    BY <1>6, NoHidType DEF CloseDevice
  <2> QED
    BY <2>1 DEF CallOK, RetOK, ParsedRight, WaitPcs
<1> QED
  BY <1>1, <1>2, <1>3, <1>4, <1>5, <1>6
     DEF Opening, OpenSucceeds, OpenFails, OpenError, ReadDescriptor, OpenReturns

LEMMA HidReadInt == ASSUME NEW size \in Nat PROVE hs_hid_read(size) \in Int
<1>1. \A n \in Int : KernelRead(n) \in Int
  BY PosixAssumption DEF KernelRead, Least
<1>2. size + 1 \in Int /\ size - 1 \in Int /\ size \in Int
  OBVIOUS
<1> QED
  BY <1>1, <1>2 DEF hs_hid_read

LEMMA WaitCallOK ==
    ASSUME Inv, CallOK, SetOK, Waiting \/ PollInterrupted \/ PollTimesOut \/ PollFails
    PROVE  CallOK'
<1> USE DEF env
<1>1. hid' = hid
  BY DEF Waiting, PollEnters, PollReady, ReadData, Transfer, CallReturns, PollInterrupted,
         PollTimesOut, PollFails, hs_hid_write, hs_hid_get_feature_report, hs_serial_write
<1>2. call.pc \in WaitPcs /\ call.size \in Nat
  <2>1. call.pc \in WaitPcs
    BY DEF Waiting, PollEnters, PollReady, ReadData, Transfer, CallReturns, PollInterrupted,
           PollTimesOut, PollFails, hs_hid_write, hs_hid_get_feature_report,
           hs_serial_write, WaitPcs
  <2> QED
    BY <2>1, PcShape, WaitFields
<1>3. CASE \E r \in Int : Return(r)
  BY <1>1, <1>2, <1>3, CallReturned
<1>4. CASE PollEnters \/ PollInterrupted
  <2>1. PICK R : call \in WaitCalls(R)
    BY <1>2, PcShape DEF IsWait
  <2>2. CASE PollEnters
    <3>1. call'.pc = "wait" /\ call'.ret = call.ret
      BY <2>1, <2>2 DEF PollEnters, WaitCalls
    <3> QED
      BY <1>1, <1>2, <3>1, CallGoesOn DEF WaitPcs
  <2>3. CASE PollInterrupted
    <3>1. call'.pc = "poll" /\ call'.ret = call.ret
      BY <2>1, <2>3 DEF PollInterrupted, WaitCalls
    <3> QED
      BY <1>1, <1>2, <3>1, CallGoesOn DEF WaitPcs
  <2> QED
    BY <1>4, <2>2, <2>3
<1>5. CASE PollReady
  <2>1. CASE call' = [call EXCEPT !.pc = "ready"]
    <3>1. PICK R : call \in WaitCalls(R)
      BY <1>2, PcShape DEF IsWait
    <3>2. call'.pc = "ready" /\ call'.ret = call.ret
      BY <2>1, <3>1 DEF WaitCalls
    <3> QED
      BY <1>1, <1>2, <3>2, CallGoesOn DEF WaitPcs
  <2>2. CASE \E i \in DOMAIN set : Return(set[i].id)
    <3>1. PICK i \in DOMAIN set : Return(set[i].id)
      BY <2>2
    <3>2. set[i] \in Entries
      BY DEF SetOK
    <3>3. set[i].id \in Int
      BY <3>2, PosixAssumption
    <3> QED
      BY <1>3, <3>1, <3>3
  <2> QED
    BY <1>5, <2>1, <2>2 DEF PollReady
<1>6. CASE ReadData
  <2>1. CASE Return(-1) \/ Return(0)
    <3>1. -1 \in Int /\ 0 \in Int
      OBVIOUS
    <3> QED
      BY <1>3, <2>1, <3>1
  <2>2. CASE Return(hs_hid_read(call.size))
    BY <1>2, <1>3, <2>2, HidReadInt
  <2>3. CASE \E n \in 1 .. call.size : Return(n)
    BY <1>2, <1>3, <2>3
  <2> QED
    BY <1>6, <2>1, <2>2, <2>3 DEF ReadData
<1>7. CASE Transfer
  <2>1. PICK r : /\ Return(r)
                 /\ \/ r = -1 \/ r = call.size \/ r \in 1 .. call.size
                    \/ r = Least(call.size - 1, ReportSize) + 1
                    \/ r = Least(call.size - 1, ReportSize + 1) + 1
    BY <1>7 DEF Transfer, hs_hid_write, hs_hid_get_feature_report, hs_serial_write,
                KernelGetFeature
  <2>2. /\ Least(call.size - 1, ReportSize) + 1 \in Int
        /\ Least(call.size - 1, ReportSize + 1) + 1 \in Int
    BY <1>2, PosixAssumption DEF Least
  <2>3. r \in Int
    BY <1>2, <2>1, <2>2
  <2> QED
    BY <1>3, <2>1, <2>3
<1>8. CASE CallReturns
  BY <1>1, <1>8, CallElsewhere DEF CallReturns, Idle, WaitPcs
<1>9. CASE PollTimesOut \/ PollFails
  <2>1. Return(-1) \/ Return(0)
    BY <1>9 DEF PollTimesOut, PollFails
  <2>2. -1 \in Int /\ 0 \in Int
    OBVIOUS
  <2> QED
    BY <1>3, <2>1, <2>2
<1> QED
  BY <1>4, <1>5, <1>6, <1>7, <1>8, <1>9 DEF Waiting

LEMMA NextMore == ASSUME Inv, More, [Next]_vars PROVE More'
<1>1. EnvOK' /\ SetOK'
  BY EnvStep, SetStep DEF More
<1>2. CallOK
  BY DEF More, CallOK
<1>3. ASSUME NEW op, NEW timeout, NEW size, NEW pc \in WaitPcs, hid' = hid,
             call' = [Wait(op, timeout, size) EXCEPT !.pc = pc]
      PROVE  CallOK'
  <2>1. call'.pc = pc /\ call'.ret = 0 /\ pc # "parsed"
    BY <1>3 DEF Wait, WaitPcs
  <2> QED
    BY <1>2, <1>3, <2>1, CallElsewhere
<1>4. CallOK'
  <2>1. CASE TimePasses \/ Unplug \/ OtherTaken \/ \E d \in Descs : DataArrives(d)
    BY <1>2, <2>1, CallKept DEF TimePasses, Unplug, OtherTaken, DataArrives
  <2>2. CASE OpenDevice \/ Opening \/ CloseDevice
    BY <1>2, <2>2, OpenCallOK
  <2>3. CASE \E timeout \in Timeouts : hs_poll(timeout)
    <3>1. PICK timeout \in Timeouts : hs_poll(timeout)
      BY <2>3
    <3>2. /\ call' = [Wait("poll", timeout, 0) EXCEPT !.pc = "poll"] /\ hid' = hid
          /\ "poll" \in WaitPcs
      BY <3>1 DEF hs_poll, Wait, WaitPcs
    <3> QED
      BY <1>3, <3>2
  <2>4. CASE \E timeout \in Timeouts, size \in Sizes : hs_read(timeout, size)
    <3>1. PICK timeout \in Timeouts, size \in Sizes : hs_read(timeout, size)
      BY <2>4
    <3>2. PICK pc \in WaitPcs : call' = [Wait("read", timeout, size) EXCEPT !.pc = pc]
      BY <3>1 DEF hs_read, WaitPcs
    <3>3. hid' = hid
      BY <3>1 DEF hs_read
    <3> QED
      BY <1>3, <3>2, <3>3
  <2>5. CASE \E op \in {"write", "feature"}, size \in Sizes : hs_write(op, size)
    <3>1. PICK op \in {"write", "feature"}, size \in Sizes : hs_write(op, size)
      BY <2>5
    <3>2. PICK pc \in WaitPcs : call' = [Wait(op, -1, size) EXCEPT !.pc = pc]
      BY <3>1 DEF hs_write, WaitPcs
    <3>3. hid' = hid
      BY <3>1 DEF hs_write
    <3> QED
      BY <1>3, <3>2, <3>3
  <2>6. CASE Waiting \/ PollInterrupted \/ PollTimesOut \/ PollFails
    BY <1>2, <2>6, WaitCallOK DEF More
  <2>7. CASE \/ \E entry \in Entries :
                 hs_descriptor_set_add(entry) \/ hs_descriptor_set_remove(entry.id)
             \/ hs_descriptor_set_clear
    BY <1>2, <2>7, CallKept DEF hs_descriptor_set_add, hs_descriptor_set_remove,
                                hs_descriptor_set_clear
  <2>8. CASE UNCHANGED vars
    BY <1>2, <2>8, CallKept DEF vars
  <2> QED
    BY <2>1, <2>2, <2>3, <2>4, <2>5, <2>6, <2>7, <2>8 DEF Next
<1> QED
  BY <1>1, <1>4 DEF More, CallOK

LEMMA MoreInvariant == Spec => []More
<1>1. Inv /\ More /\ [Next]_vars => More'
  BY NextMore
<1> QED
  BY <1>1, InitMore, Invariant, PTL DEF Spec

\* Every variable has its type, the results of parse_descriptor(), hs_hid_read()
\* and hs_descriptor_set_remove() included, and the handle its one reference.
THEOREM TypeCorrect == Spec => []TypeOK
<1>1. ASSUME Inv, More PROVE TypeOK
  <2>1. call.pc \in Pcs
    <3>1. CASE IsWait(call)
      BY <3>1, WaitFields DEF WaitPcs, Pcs
    <3>2. CASE call \in {Idle} \cup OpenCalls \cup ParseCalls
      BY <3>2 DEF Idle, OpenCalls, ParseCalls, Pcs
    <3> QED
      BY <1>1, <3>1, <3>2 DEF Inv, Shape
  <2>2. ASSUME call.pc \in WaitPcs
        PROVE  call \in [pc : Pcs, op : {"read", "poll", "write", "feature"}, timeout : Int,
                         size : Nat, begin : Nat, start : Nat, left : Int, since : Nat, ret : Int]
    <3>1. PICK R : call \in WaitCalls(R)
      BY <1>1, <2>2, PcShape DEF IsWait
    <3>2. call.ret \in Int
      BY <1>1, <2>2 DEF More, RetOK
    <3> QED
      BY <2>1, <3>1, <3>2 DEF WaitCalls
  <2>3. now \in Nat /\ RefOK /\ EnvOK /\ hid \in Results /\ SetOK
    BY <1>1 DEF Inv, More
  <2> QED
    BY <2>1, <2>2, <2>3 DEF TypeOK, RefOK, EnvOK, SetOK, Results, WaitPcs
<1> QED
  BY <1>1, Invariant, MoreInvariant, PTL

\* Whatever the items of a descriptor and their number, and whether or not the
\* last byte is missing, hs_device_open() keeps what the whole items say.
THEOREM ParsedRightCorrect == Spec => []ParsedRight
<1>1. More => ParsedRight
  BY DEF More
<1> QED
  BY <1>1, MoreInvariant, PTL

=============================================================================
