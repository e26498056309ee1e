--------------------------- MODULE MonitorDarwin ----------------------------
(***************************************************************************)
(* The device monitor of OSX (monitor_darwin.c): IOKit notifications, the  *)
(* iterators that hold the services they are about, and                    *)
(* hs_monitor_refresh().                                                   *)
(*                                                                         *)
(* IOKit is external.  A notification has an iterator.  An object that     *)
(* arrives joins the iterator, and posts a message on the port only when   *)
(* the iterator is armed; the message disarms it.  IOIteratorNext() arms   *)
(* the iterator when it returns 0, and only then.                          *)
(*                                                                         *)
(* Abstractions.  A USB device is its session id, which is never used      *)
(* again, and has one service per device class (HID, serial).  What the    *)
(* core does with a device (Monitor) is a change of the table and a        *)
(* result.  The order in which an iterator gives its objects is left open. *)
(***************************************************************************)
EXTENDS Integers, Sequences, FiniteSets, SequencesExt

CONSTANTS
    Sessions,   \* session ids of USB devices
    LongIds,    \* the ones with 16 hexadecimal digits
    Classes,    \* the device classes
    Terminated, \* the notification of unplugged devices
    MayFail     \* TRUE: allocations, IOKit calls and callbacks may fail

ASSUME DarwinAssumption ==
    /\ LongIds \subseteq Sessions
    /\ Terminated \notin Classes
    /\ (Sessions \cup Classes \cup {Terminated}) \cap (Sessions \X Classes) = {}
    /\ MayFail \in BOOLEAN

VARIABLES
    services,   \* <<session, class>> of the services that exist
    gone,       \* sessions whose device has been unplugged
    pending,    \* objects in each iterator
    armed,      \* iterators that will post a message
    registered, \* iterators created (monitor->iterators)
    port,       \* messages on the notification port
    devices,    \* <<session, class>> of the devices in monitor->devices
    notify_ret, \* monitor->notify_ret
    call,       \* where the application's thread is
    excused     \* sessions unplugged during hs_monitor_new() or whose id could not
                \* be read, services skipped or whose examination failed, classes
                \* whose iterator an error left

iokit == <<services, gone>>
notes == <<pending, armed, registered, port>>
vars == <<services, gone, pending, armed, registered, port, devices, notify_ret, call, excused>>

-----------------------------------------------------------------------------
Iterators == Classes \cup {Terminated}

\* pc of the call in progress, the iterator it works on, its result.
At(pc, it, ret) == [pc |-> pc, it |-> it, ret |-> ret]
Closed == At("closed", "none", 0)

NoObjects == [i \in Iterators |-> {}]

Init ==
    /\ services \in SUBSET (Sessions \X Classes)
    /\ gone = {}
    /\ pending = NoObjects
    /\ armed = {}
    /\ registered = {}
    /\ port = <<>>
    /\ devices = {}
    /\ notify_ret = 0
    /\ call = Closed
    /\ excused = {}

-----------------------------------------------------------------------------
(* IOKit. *)

\* Object o arrives for the notification i.
Notify(i, o) ==
    \/ i \in registered /\ i \in armed
       /\ pending' = [pending EXCEPT ![i] = @ \cup {o}]
       /\ armed' = armed \ {i}
       /\ port' = Append(port, i)
    \/ i \in registered /\ i \notin armed
       /\ pending' = [pending EXCEPT ![i] = @ \cup {o}]
       /\ UNCHANGED <<armed, port>>
    \/ i \notin registered
       /\ UNCHANGED <<pending, armed, port>>

\* A driver matches an interface of the device and the service appears.
ServiceMatched(s, c) ==
    /\ s \notin gone
    /\ <<s, c>> \notin services
    /\ services' = services \cup {<<s, c>>}
    /\ Notify(c, <<s, c>>)
    /\ UNCHANGED <<gone, registered, devices, notify_ret, call, excused>>

Creating == call.pc \in {"register", "drain", "clear"}

\* Session s, if the table has a device of it.
InTable(s) == {t \in {s} : \E c \in Classes : <<t, c>> \in devices}

\* The device is unplugged; its services leave the registry with it.
DeviceTerminated(s) ==
    /\ s \notin gone
    /\ \E c \in Classes : <<s, c>> \in services
    /\ services' = services \ ({s} \X Classes)
    /\ gone' = gone \cup {s}
    /\ excused' = (excused \ ({s} \X Classes)) \cup (IF Creating THEN InTable(s) ELSE {})
    /\ Notify(Terminated, s)
    /\ UNCHANGED <<registered, devices, notify_ret, call>>

\* IOIteratorNext(i) gives an object, or 0 and arms the iterator.
NextObject(i, o) ==
    /\ o \in pending[i]
    /\ pending' = [pending EXCEPT ![i] = @ \ {o}]
    /\ UNCHANGED <<armed, registered, port>>

NoObject(i) ==
    /\ pending[i] = {}
    /\ armed' = armed \cup {i}
    /\ UNCHANGED <<pending, registered, port>>

-----------------------------------------------------------------------------
(* Creation and release of the monitor. *)

\* hs_monitor_new() up to the first notification.
hs_monitor_new ==
    /\ call.pc = "closed"
    /\ call' = At("register", "none", 0)
    /\ UNCHANGED <<iokit, notes, devices, notify_ret, excused>>

\* The services that exist are in the iterator from the start.  The classes
\* come first, the notification of terminated devices last.
add_notification(i) ==
    /\ call.pc = "register"
    /\ i \notin registered
    /\ i = Terminated => Classes \subseteq registered
    /\ registered' = registered \cup {i}
    /\ pending' = [pending EXCEPT ![i] = {x \in services : x[2] = i}]
    /\ call' = At(IF i = Terminated THEN "clear" ELSE "drain", i, 0)
    /\ UNCHANGED <<iokit, armed, port, devices, notify_ret, excused>>

\* 1: the device is reported.  0: it is skipped, because its service has left the
\* registry, or, although the service is there, because a property is missing or
\* its location or its node is not found.
process_darwin_device(x) ==
    (IF x \in services THEN {1} ELSE {}) \cup (IF MayFail \/ x \notin services THEN {0} ELSE {})

\* Object x of the iterator is examined with result r, and added if it is reported.
process_iterator_devices(x, r) ==
    /\ NextObject(call.it, x)
    /\ r \in process_darwin_device(x)
    /\ devices' = IF r = 1 THEN devices \cup {x} ELSE devices
    /\ excused' = IF r = 0 THEN excused \cup ({x} \cap services) ELSE excused

\* In hs_monitor_new().
DrainNext ==
    /\ call.pc = "drain"
    /\ \/ /\ \E x \in pending[call.it], r \in {0, 1} : process_iterator_devices(x, r)
          /\ UNCHANGED call
       \/ /\ NoObject(call.it)
          /\ call' = At("register", "none", 0)
          /\ UNCHANGED <<devices, excused>>
    /\ UNCHANGED <<iokit, notify_ret>>

clear_iterator_not ==
    /\ UNCHANGED notes
    /\ call' = At("idle", "none", 0)

clear_iterator ==
    \/ /\ \E s \in pending[call.it] : NextObject(call.it, s)
       /\ UNCHANGED call
    \/ /\ NoObject(call.it)
       /\ call' = At("idle", "none", 0)

\* The iterator of terminated devices is emptied, and hs_monitor_new() returns.
ClearTerminated ==
    /\ call.pc = "clear"
    /\ clear_iterator
    /\ UNCHANGED <<iokit, devices, notify_ret, excused>>

Release_port ==
    /\ pending' = NoObjects
    /\ armed' = {}
    /\ registered' = {}
    /\ devices' = {}
    /\ notify_ret' = 0
    /\ call' = Closed
    /\ excused' = {}
    /\ UNCHANGED <<iokit, port>>

\* The notifications go with the port.
Release ==
    /\ pending' = NoObjects
    /\ armed' = {}
    /\ registered' = {}
    /\ port' = <<>>
    /\ devices' = {}
    /\ notify_ret' = 0
    /\ call' = Closed
    /\ excused' = {}
    /\ UNCHANGED iokit

hs_monitor_free == call.pc = "idle" /\ Release

NewFails == MayFail /\ call.pc \in {"register", "drain"} /\ Release

-----------------------------------------------------------------------------
(* hs_monitor_refresh(). *)

\* kevent() sees a message on the port set.
Readable == port # <<>>

hs_monitor_refresh ==
    /\ call.pc = "idle"
    /\ call' = IF Readable THEN At("receive", "none", 0) ELSE At("idle", "none", 0)
    /\ UNCHANGED <<iokit, notes, devices, notify_ret, excused>>

\* mach_msg() and IODispatchCalloutFromMessage(): the callback of the iterator
\* that posted the message is called.
mach_msg ==
    /\ call.pc = "receive"
    /\ \/ /\ port # <<>>
          /\ port' = Tail(port)
          /\ call' = At(IF Head(port) = Terminated THEN "detached" ELSE "attached",
                        Head(port), 0)
       \/ /\ port = <<>>
          /\ call' = At("idle", "none", 0)
          /\ UNCHANGED port
    /\ UNCHANGED <<iokit, pending, armed, registered, devices, notify_ret, excused>>

Callout(pc, ret) ==
    /\ call' = [call EXCEPT !.pc = pc]
    /\ notify_ret' = ret

\* After an object of which nothing is reported the loop goes on.
Skip_return == Callout("dispatched", 0)
Skip == UNCHANGED <<call, notify_ret>>

darwin_devices_attached ==
    /\ call.pc = "attached"
    /\ \/ \E x \in pending[call.it] :
            \/ process_iterator_devices(x, 1) /\ UNCHANGED <<call, notify_ret>>
            \/ process_iterator_devices(x, 0) /\ Skip
       \/ /\ NoObject(call.it)
          /\ Callout("dispatched", 0)
          /\ UNCHANGED <<devices, excused>>
    /\ UNCHANGED iokit

\* The examination of a device fails, or a callback returns an error when the
\* device is in the table already: the iterator is left as it is.
AttachFails ==
    /\ MayFail
    /\ call.pc = "attached"
    /\ \E x \in pending[call.it] :
         /\ NextObject(call.it, x)
         /\ \/ devices' = devices /\ excused' = excused \cup {x, call.it}
            \/ /\ x \in services \ devices
               /\ devices' = devices \cup {x}
               /\ excused' = excused \cup {call.it}
    /\ Callout("dispatched", -1)
    /\ UNCHANGED iokit

\* The session id cannot be read, and the device stays.
SessionUnreadable(s) ==
    /\ MayFail
    /\ excused' = excused \cup InTable(s)
    /\ UNCHANGED devices

remove_device_first(s) ==
    \/ /\ LET known == {x \in devices : x[1] = s}
          IN  devices' = IF known = {} THEN devices ELSE devices \ {CHOOSE x \in known : TRUE}
       /\ UNCHANGED excused
    \/ SessionUnreadable(s)

\* _hs_monitor_remove() with the session as the key: every interface goes.  Of an
\* id with 16 digits the buffer holds 15, which is the key of no device.
remove_device(s) ==
    \/ /\ devices' = IF s \in LongIds THEN devices ELSE devices \ ({s} \X Classes)
       /\ UNCHANGED excused
    \/ SessionUnreadable(s)

darwin_devices_detached ==
    /\ call.pc = "detached"
    /\ \/ /\ \E s \in pending[call.it] : NextObject(call.it, s) /\ remove_device(s)
          /\ UNCHANGED <<call, notify_ret>>
       \/ /\ NoObject(call.it)
          /\ Callout("dispatched", notify_ret)
          /\ UNCHANGED <<devices, excused>>
    /\ UNCHANGED iokit

Dispatched_keep ==
    /\ call.pc = "dispatched"
    /\ call' = IF notify_ret # 0 THEN At("idle", "none", notify_ret)
                                 ELSE At("receive", "none", 0)
    /\ UNCHANGED <<iokit, notes, devices, notify_ret, excused>>

\* The callback has returned: an error ends the refresh.
Dispatched ==
    /\ call.pc = "dispatched"
    /\ call' = IF notify_ret # 0 THEN At("idle", "none", notify_ret)
                                 ELSE At("receive", "none", 0)
    /\ notify_ret' = 0
    /\ UNCHANGED <<iokit, notes, devices, excused>>

\* kevent() or mach_msg() fails.
RefreshFails ==
    /\ MayFail
    /\ call.pc \in {"idle", "receive"}
    /\ call' = At("idle", "none", -1)
    /\ UNCHANGED <<iokit, notes, devices, notify_ret, excused>>

-----------------------------------------------------------------------------
IOKit ==
    \/ \E s \in Sessions, c \in Classes : ServiceMatched(s, c)
    \/ \E s \in Sessions : DeviceTerminated(s)
Creation == (\E i \in Iterators : add_notification(i)) \/ DrainNext \/ ClearTerminated
Refresh == mach_msg \/ darwin_devices_attached \/ darwin_devices_detached \/ Dispatched
Failure == NewFails \/ AttachFails \/ RefreshFails

Next ==
    \/ IOKit
    \/ hs_monitor_new \/ hs_monitor_free \/ hs_monitor_refresh
    \/ Creation \/ Refresh \/ Failure

Spec == Init /\ [][Next]_vars

\* A call that has begun goes on, the application refreshes when the descriptor
\* is readable, and kevent() and mach_msg() do not fail every time.
FairSpec ==
    /\ Spec
    /\ WF_vars(Creation)
    /\ WF_vars(Refresh)
    /\ SF_vars(mach_msg)
    /\ WF_vars(Readable /\ hs_monitor_refresh)

-----------------------------------------------------------------------------
(* Properties. *)

Pcs == {"closed", "register", "drain", "clear", "idle", "receive", "attached", "detached",
        "dispatched"}

TypeOK ==
    /\ services \subseteq Sessions \X Classes
    /\ gone \subseteq Sessions
    /\ pending \in [Iterators -> SUBSET (Sessions \cup (Sessions \X Classes))]
    /\ armed \subseteq registered
    /\ registered \subseteq Iterators
    /\ port \in Seq(registered)
    /\ devices \subseteq Sessions \X Classes
    /\ notify_ret \in {-1, 0}
    /\ call \in [pc : Pcs, it : Iterators \cup {"none"}, ret : {-1, 0}]
    /\ excused \subseteq Sessions \cup (Sessions \X Classes) \cup Classes

Created == call.pc \in {"idle", "receive", "attached", "detached", "dispatched"}

\* A device in the table that has been unplugged is in the iterator of
\* terminated devices, and a service that is not in the table is in the
\* iterator of its class, so that no device is lost between the registrations,
\* the enumeration and the callouts.  The exceptions are a device unplugged
\* while the monitor is created, a device that process_darwin_device() skipped or
\* could not examine, and a device whose id remove_device() cannot read or is too
\* long for its buffer.
NothingLost ==
    Created =>
        \A s \in Sessions, c \in Classes :
            /\ <<s, c>> \in devices \ services /\ s \notin excused \cup LongIds => s \in pending[Terminated]
            /\ <<s, c>> \in services \ devices /\ <<s, c>> \notin excused => <<s, c>> \in pending[c]

\* Between two calls an iterator that holds objects has posted its message, and
\* one that is empty is armed, unless an error of a callback has ended the loop
\* over this iterator.
PendingSignalled ==
    call.pc = "idle" =>
        \A i \in Iterators \ excused :
            \/ Contains(port, i)
            \/ pending[i] = {} /\ i \in armed

\* An error is reported by the refresh it belongs to: none is left for a later
\* one, which would stop without reason.
NoStaleError == notify_ret # 0 => call.pc = "dispatched"

\* When the devices stop changing, an application that refreshes when the
\* descriptor is readable has the right table from some moment on, with the same
\* exceptions and but for the classes whose iterator an error left.
EventuallyAccurate ==
    <>[](call.pc = "idle" =>
            \A s \in Sessions \ LongIds, c \in Classes :
                {s, c, <<s, c>>} \cap excused = {} => (<<s, c>> \in devices <=> <<s, c>> \in services))

=============================================================================
