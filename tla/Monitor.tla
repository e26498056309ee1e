------------------------------ MODULE Monitor ------------------------------
(***************************************************************************)
(* The device monitor shared by all platforms (monitor.c) and the device   *)
(* objects it manages (device.c): the table of known devices, the list of  *)
(* event callbacks, the dispatch of an arrival or a removal to the         *)
(* callbacks, and the reference counts that decide when a device object is *)
(* freed.                                                                  *)
(*                                                                         *)
(* One thread runs the monitor functions; call.pc says where it is.  While *)
(* it is idle, or inside a callback, the application is in control and may *)
(* call the monitor and device functions.  hs_device_ref() and             *)
(* hs_device_unref() are thread-safe, so holders of a reference may use    *)
(* the device at any time.                                                 *)
(*                                                                         *)
(* Abstractions.  The hash table is the set of the devices linked in it    *)
(* (the order of a bucket is left open).  The callback list is the         *)
(* sequence of the ids of its nodes, and ListHead stands for the address   *)
(* of the list head, which ends the iteration.  Device details other than  *)
(* the key and the interface number are left out.                          *)
(***************************************************************************)
EXTENDS Integers, FiniteSets, Sequences, SequencesExt

CONSTANTS
    Devs,         \* addresses at which device objects can be allocated
    Keys,         \* platform keys (sysfs path, session id, device instance id)
    Ifaces,       \* USB interface numbers
    Results,      \* values a callback may return
    MaxCallbacks, \* bound: registrations in the life of one monitor
    MaxRefs,      \* bound: references, and handles, an application keeps on one device
    CarefulApp,   \* TRUE: no call that leaves the dispatch loop on a freed node
    Nil           \* no device, no key

ASSUME MonitorAssumption ==
    /\ Results \subseteq {-1, 0, 1}
    /\ MaxCallbacks \in Nat
    /\ MaxRefs \in Nat
    /\ CarefulApp \in BOOLEAN
    /\ Nil \notin Devs
    /\ Nil \notin Keys

VARIABLES
    live,        \* allocated device objects
    obj,         \* their fields: key, iface, state, monitor
    refcount,    \* dev->refcount
    devices,     \* device objects linked in monitor->devices
    callbacks,   \* ids in the order of monitor->callbacks
    callback_id, \* monitor->callback_id
    call,        \* where the monitor's thread is
    users,       \* references held by the application
    handles,     \* open handles, each holding a reference
    mirror,      \* devices the owner of a callback believes to be connected
    deaf         \* callbacks that an error of an earlier callback cut off

devVars == <<live, obj, refcount>>
appVars == <<users, handles>>
cbVars == <<callbacks, callback_id>>
obsVars == <<mirror, deaf>>
vars == <<live, obj, refcount, devices, callbacks, callback_id, call, users,
          handles, mirror, deaf>>

-----------------------------------------------------------------------------
Ids == 0 .. MaxCallbacks - 1
ListHead == -1
Blank == [key |-> Nil, iface |-> 0, state |-> "DISCONNECTED", monitor |-> FALSE]
Idle == [pc |-> "idle", op |-> "none", dev |-> Nil, todo |-> {},
         cur |-> ListHead, next |-> ListHead, ret |-> 0]

Init ==
    /\ live = {}
    /\ obj = [d \in Devs |-> Blank]
    /\ refcount = [d \in Devs |-> 0]
    /\ devices = {}
    /\ callbacks = <<>>
    /\ callback_id = 0
    /\ call = Idle
    /\ users = [d \in Devs |-> 0]
    /\ handles = [d \in Devs |-> 0]
    /\ mirror = [c \in Ids |-> {}]
    /\ deaf = {}

-----------------------------------------------------------------------------
(* Device objects (device.c). *)

hs_device_ref(d) == [refcount EXCEPT ![d] = @ + 1]

Dropped_early(S) == {d \in S : ~(refcount[d] > 2)}

\* The objects of S that hs_device_unref() frees when called on each of them.
Dropped(S) == {d \in S : ~(refcount[d] > 1)}

\* hs_device_unref() on every device of S; the surviving objects get the
\* fields o.
hs_device_unref(S, o) ==
    /\ refcount' = [d \in Devs |-> IF d \in S THEN refcount[d] - 1 ELSE refcount[d]]
    /\ live' = live \ Dropped(S)
    /\ obj' = [d \in Devs |-> IF d \in Dropped(S) THEN Blank ELSE o[d]]

\* The application is in control of the monitor's thread.
AppRuns == call.pc \in {"idle", "callback"}

\* Devices whose address the application holds: through a reference of its
\* own, or through the callback that is running, or by hs_monitor_list(), which
\* calls a function of the application for each device of the table.
Reachable(d) == \/ users[d] > 0
                \/ AppRuns /\ d \in devices
                \/ call.pc = "callback" /\ d = call.dev

UserRef(d) ==
    /\ Reachable(d)
    /\ users[d] < MaxRefs
    /\ users' = [users EXCEPT ![d] = @ + 1]
    /\ refcount' = hs_device_ref(d)
    /\ UNCHANGED <<live, obj, devices, cbVars, call, handles, obsVars>>

UserUnref(d) ==
    /\ users[d] > 0
    /\ users' = [users EXCEPT ![d] = @ - 1]
    /\ hs_device_unref({d}, obj)
    /\ UNCHANGED <<devices, cbVars, call, handles, obsVars>>

\* A device that is not online is refused.  The handle takes a reference; a
\* failed open releases it again, which leaves nothing changed.
hs_device_open(d) ==
    /\ Reachable(d)
    /\ handles[d] < MaxRefs
    /\ obj[d].state = "ONLINE"
    /\ handles' = [handles EXCEPT ![d] = @ + 1]
    /\ refcount' = hs_device_ref(d)
    /\ UNCHANGED <<live, obj, devices, cbVars, call, users, obsVars>>

hs_handle_close(d) ==
    /\ handles[d] > 0
    /\ handles' = [handles EXCEPT ![d] = @ - 1]
    /\ hs_device_unref({d}, obj)
    /\ UNCHANGED <<devices, cbVars, call, users, obsVars>>

-----------------------------------------------------------------------------
(* The callback list. *)

\* The place of node c in the list, where the list head is at 0.
Position(list, c) ==
    CHOOSE i \in 0 .. Len(list) : IF i = 0 THEN c = ListHead ELSE list[i] = c

\* node->next, where the successor of the last node is the list head.
NextNode(list, c) ==
    IF Position(list, c) = Len(list) THEN ListHead ELSE list[Position(list, c) + 1]

drop_callback(c) == RemoveAt(callbacks, Position(callbacks, c))

Online == {d \in devices : obj[d].state = "ONLINE"}

\* The owner of the new callback knows the devices online now, as a program
\* that lists the devices and then registers its callback.
hs_monitor_register_callback ==
    /\ AppRuns
    /\ callback_id < MaxCallbacks
    /\ callbacks' = Append(callbacks, callback_id)
    /\ callback_id' = callback_id + 1
    /\ mirror' = [mirror EXCEPT ![callback_id] = Online]
    /\ UNCHANGED <<devVars, devices, call, appVars, deaf>>

hs_monitor_deregister_callback(id) ==
    /\ AppRuns
    /\ Contains(callbacks, id)
    /\ CarefulApp => ~(call.pc = "callback" /\ id = call.next)
    /\ callbacks' = drop_callback(id)
    /\ deaf' = deaf \ {id}
    /\ UNCHANGED <<devVars, devices, callback_id, call, appVars, mirror>>

-----------------------------------------------------------------------------
(* trigger_callbacks(). *)

\* Back in the caller of trigger_callbacks(): _hs_monitor_add() returns r to
\* the platform code, which drops its reference; _hs_monitor_remove() ignores
\* r and unlinks the device.
Return(k, r) == [k EXCEPT !.pc = IF k.op = "add" THEN "unref" ELSE "unlink",
                          !.ret = IF k.op = "add" THEN r ELSE 0,
                          !.cur = ListHead, !.next = ListHead]

\* The loop reaches node c of the list: it reads c's successor and calls the
\* callback, whose owner looks at the state s of the device.  At the list head
\* the loop ends.
Visit(k, s, c, list) ==
    \/ /\ c = ListHead
       /\ call' = Return(k, 0)
       /\ UNCHANGED mirror
    \/ /\ c # ListHead
       /\ call' = [k EXCEPT !.pc = "callback", !.cur = c, !.next = NextNode(list, c)]
       /\ mirror' = [mirror EXCEPT ![c] = IF s = "ONLINE" THEN @ \cup {k.dev}
                                                         ELSE @ \ {k.dev}]

StartDispatch_skip(k, s) == Visit(k, s, ListHead, callbacks)

\* trigger_callbacks() is called for the event k, on a device in state s.
StartDispatch(k, s) == Visit(k, s, NextNode(callbacks, ListHead), callbacks)

\* Reading a callback that has been freed.
Crash == call' = [call EXCEPT !.pc = "crashed"] /\ UNCHANGED mirror

Advance_stale(list) ==
    \/ ~Contains(list, call.cur) /\ Crash
    \/ /\ Contains(list, call.cur)
       /\ Visit(call, obj[call.dev].state, NextNode(list, call.cur), list)

Advance_wrap(list) ==
    LET c == IF call.next = ListHead THEN NextNode(list, ListHead) ELSE call.next
    IN  Visit(call, obj[call.dev].state, c, list)

\* The next turn of the loop goes to the node saved as next before the
\* callback ran, which the callback may have freed.
Advance(list) ==
    LET freed == call.next # ListHead /\ ~Contains(list, call.next)
    IN  \/ freed /\ Crash
        \/ ~freed /\ Visit(call, obj[call.dev].state, call.next, list)

\* The callbacks the loop has not reached yet.
Unreached == {callbacks[i] : i \in {j \in DOMAIN callbacks :
                \E b \in 1 .. j : callbacks[b] = call.next}}

\* The callback returns 0: go on with the next one.
CallbackContinues ==
    /\ call.pc = "callback"
    /\ 0 \in Results
    /\ Advance(callbacks)
    /\ UNCHANGED <<devVars, devices, cbVars, appVars, deaf>>

\* A positive result takes the callback out of the list and the dispatch goes
\* on.  A callback that has deregistered itself already is freed twice.
CallbackLeaves ==
    /\ call.pc = "callback"
    /\ 1 \in Results
    /\ \/ /\ Contains(callbacks, call.cur)
          /\ callbacks' = drop_callback(call.cur)
          /\ deaf' = deaf \ {call.cur}
          /\ Advance(callbacks')
       \/ /\ ~Contains(callbacks, call.cur)
          /\ ~CarefulApp
          /\ Crash
          /\ UNCHANGED <<callbacks, deaf>>
    /\ UNCHANGED <<devVars, devices, callback_id, appVars>>

\* A negative result ends the loop at once.
CallbackFails ==
    /\ call.pc = "callback"
    /\ -1 \in Results
    /\ call' = Return(call, -1)
    /\ deaf' = deaf \cup Unreached
    /\ UNCHANGED <<devVars, devices, cbVars, appVars, mirror>>

-----------------------------------------------------------------------------
(* Arrival of a device. *)

\* The platform code builds a device object, with one reference of its own.
read_device_information(d, k, i) ==
    /\ call.pc = "idle"
    /\ d \notin live
    /\ live' = live \cup {d}
    /\ obj' = [obj EXCEPT ![d] = [Blank EXCEPT !.key = k, !.iface = i]]
    /\ refcount' = [refcount EXCEPT ![d] = 1]
    /\ call' = [Idle EXCEPT !.pc = "add", !.op = "add", !.dev = d]
    /\ UNCHANGED <<devices, cbVars, appVars, mirror, deaf>>

IsKnown_never(d) == FALSE

\* The lookup by key and interface that keeps a device from being added twice.
IsKnown(d) == \E e \in devices : obj[e].key = obj[d].key /\ obj[e].iface = obj[d].iface

hs_monitor_add ==
    /\ call.pc = "add"
    /\ \/ /\ IsKnown(call.dev)
          /\ call' = [call EXCEPT !.pc = "unref"]
          /\ UNCHANGED <<obj, refcount, devices, mirror>>
       \/ /\ ~IsKnown(call.dev)
          /\ obj' = [obj EXCEPT ![call.dev].state = "ONLINE",
                                ![call.dev].monitor = TRUE]
          /\ refcount' = hs_device_ref(call.dev)
          /\ devices' = devices \cup {call.dev}
          /\ StartDispatch(call, "ONLINE")
    /\ UNCHANGED <<live, cbVars, appVars, deaf>>

\* The platform code drops its own reference and goes back to its loop.
ReleaseDevice ==
    /\ call.pc = "unref"
    /\ hs_device_unref({call.dev}, obj)
    /\ call' = [Idle EXCEPT !.ret = call.ret]
    /\ UNCHANGED <<devices, cbVars, appVars, obsVars>>

-----------------------------------------------------------------------------
(* Removal of every device that has the key k. *)

Disconnect_silent(d) == obj

Disconnect(d) == [obj EXCEPT ![d].state = "DISCONNECTED"]

hs_monitor_remove(k) ==
    /\ call.pc = "idle"
    /\ \E d \in devices :
         /\ obj[d].key = k
         /\ obj' = Disconnect(d)
         /\ StartDispatch([Idle EXCEPT !.op = "remove", !.dev = d,
                                       !.todo = {e \in devices \ {d} : obj[e].key = k}],
                          Disconnect(d)[d].state)
    /\ UNCHANGED <<live, refcount, devices, cbVars, appVars, deaf>>

\* The callbacks have run: the device leaves the table, which drops its
\* reference, and the loop turns to the next device with this key.
UnlinkDevice ==
    /\ call.pc = "unlink"
    /\ devices' = devices \ {call.dev}
    /\ \/ /\ call.todo = {}
          /\ hs_device_unref({call.dev}, obj)
          /\ call' = Idle
          /\ UNCHANGED mirror
       \/ \E d \in call.todo :
            /\ hs_device_unref({call.dev}, Disconnect(d))
            /\ StartDispatch([call EXCEPT !.dev = d, !.todo = @ \ {d}],
                             Disconnect(d)[d].state)
    /\ UNCHANGED <<cbVars, appVars, deaf>>

-----------------------------------------------------------------------------
\* hs_monitor_free(): the callbacks are freed and every device of the table
\* is orphaned, then released.
hs_monitor_release ==
    /\ call.pc = "idle"
    /\ hs_device_unref(devices, [d \in Devs |-> IF d \in devices
                                    THEN [obj[d] EXCEPT !.monitor = FALSE] ELSE obj[d]])
    /\ devices' = {}
    /\ callbacks' = <<>>
    /\ call' = [Idle EXCEPT !.pc = "closed"]
    /\ mirror' = [c \in Ids |-> {}]
    /\ deaf' = {}
    /\ UNCHANGED <<callback_id, appVars>>

\* hs_monitor_new(): an empty table and an empty list.  The devices that
\* hs_monitor_new() enumerates enter as any other.
hs_monitor_init ==
    /\ call.pc = "closed"
    /\ callback_id' = 0
    /\ call' = Idle
    /\ UNCHANGED <<devVars, devices, callbacks, appVars, obsVars>>

-----------------------------------------------------------------------------
\* Steps of the monitor's thread inside a call, the return of a callback
\* included.
Library ==
    \/ hs_monitor_add
    \/ CallbackContinues
    \/ CallbackLeaves
    \/ CallbackFails
    \/ ReleaseDevice
    \/ UnlinkDevice

Application ==
    \/ \E d \in Devs : UserRef(d) \/ UserUnref(d) \/ hs_device_open(d) \/ hs_handle_close(d)
    \/ hs_monitor_register_callback
    \/ \E id \in Ids : hs_monitor_deregister_callback(id)
    \/ hs_monitor_release
    \/ hs_monitor_init

Platform ==
    \/ \E d \in Devs, k \in Keys, i \in Ifaces : read_device_information(d, k, i)
    \/ \E k \in Keys : hs_monitor_remove(k)

Next == Library \/ Application \/ Platform

Spec == Init /\ [][Next]_vars

\* A call of the library goes on once it has begun, and callbacks return.
FairSpec == Spec /\ WF_vars(Library)

-----------------------------------------------------------------------------
(* Properties. *)

Pcs == {"idle", "add", "callback", "unref", "unlink", "closed", "crashed"}
Nodes == Ids \cup {ListHead}

Objects == [key : Keys \cup {Nil}, iface : Ifaces \cup {0},
            state : {"ONLINE", "DISCONNECTED"}, monitor : BOOLEAN]
Calls == [pc : Pcs, op : {"none", "add", "remove"}, dev : Devs \cup {Nil},
          todo : SUBSET Devs, cur : Nodes, next : Nodes, ret : {-1, 0}]

TypeOK ==
    /\ live \subseteq Devs
    /\ obj \in [Devs -> Objects]
    /\ refcount \in [Devs -> Nat]
    /\ devices \subseteq Devs
    /\ callbacks \in Seq(Ids)
    /\ callback_id \in 0 .. MaxCallbacks
    /\ call \in Calls
    /\ users \in [Devs -> Nat]
    /\ handles \in [Devs -> Nat]
    /\ mirror \in [Ids -> SUBSET Devs]
    /\ deaf \subseteq Ids

\* The references that exist on a device: the table's, the one that the
\* platform code keeps until _hs_monitor_add() has returned, the
\* application's and the ones of open handles.
TableRef(d) == IF d \in devices THEN 1 ELSE 0
PlatformRef(d) == IF call.op = "add" /\ call.dev = d THEN 1 ELSE 0
Owners(d) == TableRef(d) + PlatformRef(d) + users[d] + handles[d]

\* dev->refcount is the number of the references that exist, and the object is
\* allocated exactly as long as there is one: hs_device_unref() frees no device
\* that the table, a callback, the application or a handle still uses, and
\* leaks none, in whatever order the owners let go.
RefcountExact ==
    \A d \in Devs : /\ refcount[d] = Owners(d)
                    /\ (d \in live) <=> (Owners(d) > 0)

\* However often the platform reports a device (events that repeat what the
\* enumeration found), the table holds one object for a key and an interface.
UniqueInTable ==
    \A d, e \in devices : obj[d].key = obj[e].key /\ obj[d].iface = obj[e].iface => d = e

\* Between two calls the owner of each registered callback knows the devices of
\* the table exactly, from the events alone, although callbacks come, go and
\* return errors during the dispatch: only a callback that a failing one cut
\* off from an event may be wrong.
MirrorAccurate ==
    call.pc = "idle" =>
        \A i \in DOMAIN callbacks :
            callbacks[i] \notin deaf => mirror[callbacks[i]] = devices

\* trigger_callbacks() never goes on from a callback that has been freed, when
\* callbacks deregister themselves or one another (except the one that is next
\* in the list), register new ones, or leave by their result.
SafeIteration == call.pc # "crashed"

\* A device object in the hands of the application is online only while it is
\* in the table: who keeps a reference sees the removal, and hs_device_open()
\* refuses the device from then on.
OnlineOnlyInTable ==
    \A d \in live : obj[d].state = "ONLINE" => d \in devices \/ ~obj[d].monitor

\* Every call of the monitor ends, although callbacks registered during the
\* dispatch are at the end of the list and are reached by it too, as long as the
\* callbacks do not go on registering new ones forever (MaxCallbacks).
RefreshReturns == (call.pc \notin {"idle", "closed"}) ~> (call.pc = "idle")

=============================================================================
