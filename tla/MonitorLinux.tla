---------------------------- MODULE MonitorLinux ----------------------------
(***************************************************************************)
(* The device monitor of Linux (monitor_linux.c): udev events received on  *)
(* a netlink socket, the enumeration that hs_monitor_new() does, and       *)
(* hs_monitor_refresh().                                                   *)
(*                                                                         *)
(* The kernel and udevd are external.  The kernel queues an event for each *)
(* change of a device; udevd takes the events of one device in order,      *)
(* those of different devices in any order, updates its database and then  *)
(* sends the event to the listening sockets.  A socket whose buffer is     *)
(* full loses the event and reports ENOBUFS at the next receive.           *)
(*                                                                         *)
(* Abstractions.  A device is its key, the sysfs path.  What the core does *)
(* with a device (Monitor) is a change of the table and a result.          *)
(***************************************************************************)
EXTENDS Integers, Sequences, FiniteSets

CONSTANTS
    Keys,       \* sysfs paths of devices of the subsystems that are watched
    Usable,     \* the ones that are hidraw or tty devices below a USB interface
    SockSize,   \* events that fit in the buffer of the socket
    MaxChanges, \* bound: changes of the devices
    MayFail     \* TRUE: allocations and callbacks may fail

ASSUME LinuxAssumption ==
    /\ Usable \subseteq Keys
    /\ SockSize \in Nat
    /\ MaxChanges \in Nat
    /\ MayFail \in BOOLEAN

VARIABLES
    present,   \* devices in sysfs and /dev
    kq,        \* for each device, the kernel events that udevd has not sent
    ruled,     \* devices whose first event is in the database, but not sent
    db,        \* devices that udevd has initialized
    receiving, \* the socket of monitor->monitor is bound
    sock,      \* events in the socket
    overrun,   \* the socket will report ENOBUFS
    devices,   \* keys in monitor->devices
    call,      \* where the application's thread is
    missed,    \* devices whose last event was lost, or whose arrival failed
    changes    \* changes so far

world == <<present, kq, changes>>
udevd == <<ruled, db>>
socket == <<receiving, sock, overrun>>
vars == <<present, kq, ruled, db, receiving, sock, overrun, devices, call, missed, changes>>

-----------------------------------------------------------------------------
Events == [act : {"add", "remove", "change"}, key : Keys]

\* pc of the call in progress, the entries of the enumeration that are left,
\* the events on the socket when the refresh began that are left, its result.
At(pc, todo, due, ret) == [pc |-> pc, todo |-> todo, due |-> due, ret |-> ret]

Init ==
    /\ present \in SUBSET Keys
    /\ kq = [k \in Keys |-> <<>>]
    /\ ruled = {}
    /\ db = present
    /\ receiving = FALSE
    /\ sock = <<>>
    /\ overrun = FALSE
    /\ devices = {}
    /\ call = At("closed", {}, 0, 0)
    /\ missed = {}
    /\ changes = 0

-----------------------------------------------------------------------------
(* The kernel and udevd. *)

Change(k, act) ==
    /\ changes < MaxChanges
    /\ changes' = changes + 1
    /\ kq' = [kq EXCEPT ![k] = Append(@, act)]
    /\ UNCHANGED <<udevd, socket, devices, call, missed>>

Plug(k) == k \notin present /\ present' = present \cup {k} /\ Change(k, "add")
Unplug(k) == k \in present /\ present' = present \ {k} /\ Change(k, "remove")
Alter(k) == k \in present /\ UNCHANGED present /\ Change(k, "change")

\* udevd applies its rules to the next event of device k.
UdevRules(k) ==
    /\ kq[k] # <<>>
    /\ k \notin ruled
    /\ ruled' = ruled \cup {k}
    /\ db' = CASE Head(kq[k]) = "add" -> db \cup {k}
               [] Head(kq[k]) = "remove" -> db \ {k}
               [] OTHER -> db
    /\ UNCHANGED <<world, socket, devices, call, missed>>

\* udevd sends the event to the sockets that are bound now.
UdevSends(k) ==
    /\ k \in ruled
    /\ ruled' = ruled \ {k}
    /\ kq' = [kq EXCEPT ![k] = Tail(@)]
    /\ \/ /\ receiving /\ Len(sock) < SockSize
          /\ sock' = Append(sock, [act |-> Head(kq[k]), key |-> k])
          /\ missed' = IF Head(kq[k]) = "change" THEN missed ELSE missed \ {k}
          /\ UNCHANGED overrun
       \/ /\ receiving /\ ~(Len(sock) < SockSize)
          /\ overrun' = TRUE
          /\ missed' = missed \cup {k}
          /\ UNCHANGED sock
       \/ /\ ~receiving
          /\ UNCHANGED <<sock, overrun, missed>>
    /\ UNCHANGED <<present, changes, db, receiving, devices, call>>

-----------------------------------------------------------------------------
(* Creation and release of the monitor. *)

hs_monitor_new_unbound ==
    /\ call.pc = "closed"
    /\ call' = At("scan", {}, 0, 0)
    /\ UNCHANGED <<world, udevd, socket, devices, missed>>

\* hs_monitor_new() up to hs_enumerate(): the socket is bound first.
hs_monitor_new ==
    /\ call.pc = "closed"
    /\ receiving' = TRUE
    /\ call' = At("scan", {}, 0, 0)
    /\ UNCHANGED <<world, udevd, sock, overrun, devices, missed>>

\* udev_enumerate_scan_devices() with the match is_initialized.
hs_enumerate ==
    /\ call.pc = "scan"
    /\ call' = At("enumerate", db \cap present, 0, 0)
    /\ UNCHANGED <<world, udevd, socket, devices, missed>>

read_device_information_any(k) == k \in present

\* The device is reported: it is of a known type, and still there.
read_device_information(k) == k \in Usable /\ k \in present

\* An entry of the list; one that is gone, or is of no interest, is skipped.
EnumerateDevice(k) ==
    /\ call.pc = "enumerate"
    /\ k \in call.todo
    /\ call' = [call EXCEPT !.todo = @ \ {k}]
    /\ devices' = IF read_device_information(k) THEN devices \cup {k} ELSE devices
    /\ UNCHANGED <<world, udevd, socket, missed>>

EnumerationEnds ==
    /\ call.pc = "enumerate"
    /\ call.todo = {}
    /\ call' = At("idle", {}, 0, 0)
    /\ UNCHANGED <<world, udevd, socket, devices, missed>>

\* The monitor is freed with its socket.
Release ==
    /\ receiving' = FALSE
    /\ sock' = <<>>
    /\ overrun' = FALSE
    /\ devices' = {}
    /\ missed' = {}
    /\ call' = At("closed", {}, 0, 0)
    /\ UNCHANGED <<world, udevd>>

hs_monitor_free == call.pc = "idle" /\ Release

\* An error of udev or of an allocation ends hs_monitor_new().
NewFails == MayFail /\ call.pc \in {"scan", "enumerate"} /\ Release

-----------------------------------------------------------------------------
(* hs_monitor_refresh(). *)

Readable_late == Len(sock) > 1

\* The descriptor of the monitor is readable.
Readable == sock # <<>> \/ overrun

hs_monitor_refresh ==
    /\ call.pc = "idle"
    /\ call' = At("refresh", {}, Len(sock), 0)
    /\ UNCHANGED <<world, udevd, socket, devices, missed>>

Taken == [call EXCEPT !.due = IF @ > 0 THEN @ - 1 ELSE 0]
TakenReturn(r) == [Taken EXCEPT !.pc = "idle", !.ret = r]

\* _hs_monitor_remove(): the callbacks' results do not count.
ProcessRemove(k) == devices \ {k}

Receive_stops(r) == IF Head(sock).key \notin Usable THEN TakenReturn(0) ELSE Taken

\* Where the loop goes when the event it took gave the result r.
Receive(r) == IF r < 0 THEN TakenReturn(r) ELSE Taken

\* The loop takes the next event from the socket.
ReceiveEvent(act) ==
    /\ call.pc = "refresh"
    /\ ~overrun
    /\ sock # <<>>
    /\ Head(sock).act = act
    /\ sock' = Tail(sock)

\* An "add" event; the arrival of a device that is gone again, or of no
\* interest, is ignored.
ProcessAdd ==
    /\ ReceiveEvent("add")
    /\ call' = Receive(0)
    /\ devices' = IF read_device_information(Head(sock).key)
                  THEN devices \cup {Head(sock).key} ELSE devices
    /\ UNCHANGED <<world, udevd, receiving, overrun, missed>>

\* An allocation fails while the device is examined, or a callback returns an
\* error when the device is in the table already.
AddFails ==
    /\ MayFail
    /\ ReceiveEvent("add")
    /\ call' = Receive(-1)
    /\ LET k == Head(sock).key
       IN  \/ missed' = missed \cup {k} /\ UNCHANGED devices
           \/ /\ read_device_information(k) /\ k \notin devices
              /\ devices' = devices \cup {k} /\ UNCHANGED missed
    /\ UNCHANGED <<world, udevd, receiving, overrun>>

ProcessOther ==
    /\ \/ ReceiveEvent("remove") /\ devices' = ProcessRemove(Head(sock).key)
       \/ ReceiveEvent("change") /\ UNCHANGED devices
    /\ call' = Receive(0)
    /\ UNCHANGED <<world, udevd, receiving, overrun, missed>>

\* The socket is empty, or reports the overrun with events still in it: only
\* ENOMEM makes the refresh fail.
RefreshReturns ==
    /\ call.pc = "refresh"
    /\ sock = <<>> \/ overrun
    /\ overrun' = FALSE
    /\ call' = [call EXCEPT !.pc = "idle", !.ret = 0]
    /\ UNCHANGED <<world, udevd, receiving, sock, devices, missed>>

\* udev has read an event but has no memory for the device: the event is lost.
RefreshFails ==
    /\ MayFail
    /\ \E act \in {"add", "remove", "change"} :
         /\ ReceiveEvent(act)
         /\ missed' = IF act = "change" THEN missed ELSE missed \cup {Head(sock).key}
    /\ call' = Receive(-1)
    /\ UNCHANGED <<world, udevd, receiving, overrun, devices>>

-----------------------------------------------------------------------------
Kernel == \E k \in Keys : Plug(k) \/ Unplug(k) \/ Alter(k)
Udev(k) == UdevRules(k) \/ UdevSends(k)
Creation == hs_enumerate \/ (\E k \in Keys : EnumerateDevice(k)) \/ EnumerationEnds
Refresh == ProcessAdd \/ ProcessOther \/ RefreshReturns
Failure == NewFails \/ AddFails \/ RefreshFails

Next ==
    \/ Kernel
    \/ \E k \in Keys : Udev(k)
    \/ hs_monitor_new \/ hs_monitor_free \/ hs_monitor_refresh
    \/ Creation \/ Refresh \/ Failure

Spec == Init /\ [][Next]_vars

\* udevd and the calls of the library go on, and the application refreshes
\* when the descriptor is readable.
FairSpec ==
    /\ Spec
    /\ \A k \in Keys : WF_vars(Udev(k))
    /\ WF_vars(Creation)
    /\ WF_vars(Refresh)
    /\ WF_vars(Readable /\ hs_monitor_refresh)

-----------------------------------------------------------------------------
(* Properties. *)

Pcs == {"closed", "scan", "enumerate", "idle", "refresh"}

TypeOK ==
    /\ present \subseteq Keys
    /\ kq \in [Keys -> Seq({"add", "remove", "change"})]
    /\ ruled \subseteq Keys
    /\ db \subseteq Keys
    /\ receiving \in BOOLEAN
    /\ sock \in Seq(Events)
    /\ overrun \in BOOLEAN
    /\ devices \subseteq Usable
    /\ call \in [pc : Pcs, todo : SUBSET Keys, due : Nat, ret : {-1, 0}]
    /\ missed \subseteq Keys
    /\ changes \in 0 .. MaxChanges

\* An event of device k that changes the table is on its way to the monitor.
Pending(k) ==
    \/ \E i \in DOMAIN kq[k] : kq[k][i] # "change"
    \/ \E i \in DOMAIN sock : sock[i].key = k /\ sock[i].act # "change"

\* The table is right for every device of which no event is under way,
\* although the enumeration and the events overlap in any order, devices
\* vanish before their arrival is processed, and errors end a refresh early.
\* Only a device whose event was lost may be wrong.
Accurate ==
    call.pc \in {"idle", "refresh"} =>
        \A k \in Usable \ missed : ~Pending(k) => (k \in devices <=> k \in present)

\* A refresh that reports success has processed every event that was pending
\* when it began, also those behind an event it ignores.  Only when the socket
\* has lost events may it return earlier, because it takes ENOBUFS for the end.
RefreshComplete ==
    call.pc = "idle" /\ call.ret = 0 /\ missed = {} => call.due = 0

\* When the devices stop changing, an application that refreshes when the
\* descriptor is readable has the right table from some moment on.
EventuallyAccurate ==
    <>[](call.pc = "idle" =>
            \A k \in Usable \ missed : k \in devices <=> k \in present)

=============================================================================
