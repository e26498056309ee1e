---------------------------- MODULE UsbLocation -----------------------------
(***************************************************************************)
(* How devices get their location, "usb-<root hub>-<port>-...", on Windows *)
(* and on OSX: the list of host controllers that is filled once for all    *)
(* threads (populate_controllers()), and the walk from a device up to its  *)
(* root hub (resolve_device_location()) while devices come and go.         *)
(*                                                                         *)
(* The tree of devices belongs to the system and is external.              *)
(*                                                                         *)
(* Abstractions.  A controller and its root hub are one.  A location is    *)
(* the sequence of its numbers.  A function (an interface of a composite   *)
(* device, a HID node) is a node without port number.                      *)
(***************************************************************************)
EXTENDS Integers, Sequences, FiniteSets, SequencesExt

CONSTANTS
    Platforms,    \* of "vista", "xp", "darwin"
    Threads,      \* threads of the application
    Walkers,      \* bound: the threads that go on to look for locations
    Controllers,  \* host controllers
    Hubs, Devices,  \* what is plugged to ports
    Functions,    \* nodes below devices
    FunctionOf,   \* function -> its device
    Sockets,      \* the ports of hubs and root hubs: [up, port]
    MaxTier,      \* ports between a device and its controller, a limit of USB
    MaxDepth,     \* room for port numbers
    MaxIndex,     \* UINT8_MAX
    MayFail,      \* memory may be short, controllers may have no root hub
    QueryMayFail, \* the system may fail to give the port or the driver key of a node
    NoThread, Nowhere

ASSUME UsbAssumption ==
    /\ Platforms \subseteq {"vista", "xp", "darwin"}
    /\ Sockets \subseteq [up : Controllers \cup Hubs, port : Nat \ {0}] /\ IsFiniteSet(Sockets)
    /\ MaxTier \in Nat /\ MaxDepth \in Nat /\ MaxTier < MaxDepth /\ MaxIndex \in Nat
    /\ MayFail \in BOOLEAN /\ QueryMayFail \in BOOLEAN
    /\ NoThread \notin Threads /\ FunctionOf \in [Functions -> Devices]
    /\ Controllers \cap (Hubs \cup Devices) = {}
    /\ Functions \cap (Controllers \cup Hubs \cup Devices) = {} /\ Nowhere \notin Sockets

VARIABLES
    platform, \* fixed
    at,       \* hub or device -> [up, port], or Nowhere
    index,    \* controllers: controller -> its number, 0 if it is not listed
    lock,     \* controllers_lock
    thread    \* what each thread does

vars == <<platform, at, index, lock, thread>>

Nodes == Hubs \cup Devices \cup Functions

\* dev is the device whose location is looked for, node the one that the walk has
\* come to and up its parent; disturbed tells whether dev was unplugged meanwhile.
Idle == [pc |-> "idle"]
Ready == [pc |-> "ready"]

Init ==
    /\ platform \in Platforms
    /\ at = [n \in Hubs \cup Devices |-> Nowhere]
    /\ index = [c \in Controllers |-> 0]
    /\ lock = NoThread
    /\ thread = [t \in Threads |-> Idle]

-----------------------------------------------------------------------------
(* The tree of devices (external). *)

Place(n) == IF n \in Functions THEN [up |-> FunctionOf[n], port |-> 0] ELSE at[n]
Up(n) == Place(n).up

Plugged(n) ==
    \/ n \in Controllers
    \/ n \in Hubs \cup Devices /\ at[n] # Nowhere
    \/ n \in Functions /\ at[FunctionOf[n]] # Nowhere

\* The way to a plugged node: the controller, the nodes and the ports.
Route[n \in Nodes \cup Controllers] ==
    IF n \in Controllers \/ ~Plugged(n) THEN [root |-> n, over |-> {n}, ports |-> <<>>]
    ELSE LET up == Route[Up(n)]
             port == Place(n).port
         IN  [root |-> up.root, over |-> up.over \cup {n},
              ports |-> IF port = 0 THEN up.ports ELSE Append(up.ports, port)]

Root(n) == Route[n].root
PathTo(n) == Route[n].ports
Below(n) == {m \in Nodes : Plugged(m) /\ n \in Route[m].over}

Occupied(socket) == \E n \in Hubs \cup Devices : at[n] = socket

Plug(n) ==
    /\ at[n] = Nowhere
    /\ \E socket \in Sockets :
         /\ Plugged(socket.up) /\ ~Occupied(socket) /\ Len(PathTo(socket.up)) < MaxTier
         /\ at' = [at EXCEPT ![n] = socket]
    /\ UNCHANGED <<platform, index, lock, thread>>

Unplug(n) ==
    /\ at[n] # Nowhere
    /\ at' = [m \in DOMAIN at |-> IF m \in Below(n) THEN Nowhere ELSE at[m]]
    /\ thread' = [t \in Threads |->
         IF thread[t].pc \in {"walk", "climb", "done", "ignored"} /\ thread[t].dev \in Below(n)
         THEN [thread[t] EXCEPT !.disturbed = TRUE] ELSE thread[t]]
    /\ UNCHANGED <<platform, index, lock>>

-----------------------------------------------------------------------------
(* populate_controllers(), for hs_enumerate() and hs_monitor_new(). *)

NoneListed == \A c \in Controllers : index[c] = 0

\* The largest number that a controller gets.
LastIndex == IF platform = "darwin" THEN MaxIndex ELSE MaxIndex - 1

populate_controllers_again(t) ==
    /\ thread[t].pc = "idle" /\ lock = NoThread
    /\ lock' = t
    /\ thread' = [thread EXCEPT ![t] = [pc |-> "list", i |-> 0, todo |-> Controllers]]
    /\ UNCHANGED <<platform, at, index>>

populate_controllers(t) ==
    /\ thread[t].pc = "idle" /\ lock = NoThread
    /\ \/ /\ ~NoneListed
          /\ thread' = [thread EXCEPT ![t] = Ready]
          /\ UNCHANGED lock
       \/ /\ NoneListed
          /\ thread' = [thread EXCEPT ![t] = [pc |-> "list", i |-> 0, todo |-> Controllers]]
          /\ lock' = t
    /\ UNCHANGED <<platform, at, index>>

add_controller_count(t) ==
    /\ thread[t].pc = "list" /\ thread[t].i < LastIndex
    /\ \E c \in thread[t].todo :
         \/ /\ index' = [index EXCEPT ![c] = thread[t].i + 1]
            /\ thread' = [thread EXCEPT ![t].i = @ + 1, ![t].todo = @ \ {c}]
         \/ /\ MayFail /\ UNCHANGED index
            /\ thread' = [thread EXCEPT ![t].i = 0, ![t].todo = @ \ {c}]
    /\ UNCHANGED <<platform, at, lock>>

\* add_controller(), with the number of the controller in the enumeration.  One
\* that has no root hub is left out and leaves its number unused.
add_controller(t) ==
    /\ thread[t].pc = "list" /\ thread[t].i < LastIndex
    /\ \E c \in thread[t].todo :
         /\ \/ index' = [index EXCEPT ![c] = thread[t].i + 1]
            \/ MayFail /\ UNCHANGED index
         /\ thread' = [thread EXCEPT ![t].i = @ + 1, ![t].todo = @ \ {c}]
    /\ UNCHANGED <<platform, at, lock>>

\* The end of the list, or an error: what is listed by then stays.
ListEnds(t) ==
    /\ thread[t].pc = "list"
    /\ \/ /\ thread[t].todo = {} \/ thread[t].i = LastIndex
          /\ thread' = [thread EXCEPT ![t] = Ready]
       \/ /\ MayFail /\ thread[t].todo # {}
          /\ thread' = [thread EXCEPT ![t] = Idle]
    /\ lock' = NoThread
    /\ UNCHANGED <<platform, at, index>>

-----------------------------------------------------------------------------
(* resolve_device_location(). *)

resolve_device_location(t, d) ==
    /\ thread[t].pc = "ready" /\ Plugged(d)
    /\ thread' = [thread EXCEPT ![t] =
         [pc |-> "walk", dev |-> d, node |-> d, up |-> Up(d), ports |-> <<>>, disturbed |-> FALSE]]
    /\ UNCHANGED <<platform, at, index, lock>>

\* find_device_port_vista(), and the port property of IOKit.
find_device_port_vista(n) ==
    (IF Plugged(n) THEN {Place(n).port} ELSE {0}) \cup (IF QueryMayFail THEN {0} ELSE {})

\* The hub is asked for the driver key of the device on each of its ports.  When
\* none is that of the device the result is the one for the last port: 1 if it is
\* in use.  -1 stands for an error, and for a device whose own key is not found.
find_device_port_xp(n, hub) ==
    LET ports == {socket.port : socket \in {s \in Sockets : s.up = hub}}
        last == {IF ports # {} /\ Occupied([up |-> hub, port |-> Max(ports)]) THEN 1 ELSE 0}
    IN  (IF Plugged(n) /\ Up(n) = hub THEN {Place(n).port} ELSE last)
            \cup (IF QueryMayFail THEN last ELSE {})
            \cup (IF QueryMayFail \/ ~Plugged(n) THEN {-1} ELSE {})

FindPort(w) ==
    IF platform = "xp" THEN find_device_port_xp(w.node, w.up) ELSE find_device_port_vista(w.node)

AddPort(ports, r) == IF r = 0 THEN ports ELSE Append(ports, r)

Ignore(t) == thread' = [thread EXCEPT ![t].pc = "ignored"]

find_controller(c) == index[c]

\* The number of the controller comes last, and the whole is turned around.
Finish_unturned(t, c, ports) ==
    IF ports = <<>> \/ find_controller(c) = 0 THEN Ignore(t)
    ELSE thread' = [thread EXCEPT ![t].pc = "done", ![t].ports = Append(ports, find_controller(c))]

Finish(t, c, ports) ==
    IF ports = <<>> \/ find_controller(c) = 0 THEN Ignore(t)
    ELSE thread' = [thread EXCEPT ![t].pc = "done",
                                  ![t].ports = Reverse(Append(ports, find_controller(c)))]

RoomLeft_less(ports) == Len(ports) + 1 < MaxDepth

\* Windows looks before it finds a port, OSX afterwards.
RoomLeft(ports) == Len(ports) < MaxDepth

\* One turn of the loop on Windows, up to the test for the root hub.
WalkWin32(t) ==
    LET w == thread[t]
    IN  /\ w.pc = "walk" /\ platform # "darwin"
        /\ IF ~RoomLeft(w.ports) \/ ~Plugged(w.up) THEN Ignore(t)
           ELSE \E r \in FindPort(w) :
                  IF r < 0 THEN Ignore(t)
                  ELSE IF w.up \in Controllers THEN Finish(t, w.up, AddPort(w.ports, r))
                  ELSE thread' = [thread EXCEPT ![t].pc = "climb", ![t].ports = AddPort(@, r)]
        /\ UNCHANGED <<platform, at, index, lock>>

\* CM_Get_Parent().  When it fails the walk is over, without a controller.
ClimbWin32(t) ==
    LET w == thread[t]
    IN  /\ w.pc = "climb" /\ platform # "darwin"
        /\ thread' = [thread EXCEPT ![t] =
             IF Plugged(w.up) THEN [w EXCEPT !.pc = "walk", !.node = w.up, !.up = Up(w.up)]
             ELSE [w EXCEPT !.pc = IF w.ports = <<>> THEN "ignored" ELSE "done",
                            !.ports = Reverse(w.ports)]]
        /\ UNCHANGED <<platform, at, index, lock>>

WalkDarwin(t) ==
    LET w == thread[t]
    IN  /\ w.pc = "walk" /\ platform = "darwin"
        /\ \E r \in FindPort(w) :
             IF ~RoomLeft(AddPort(w.ports, r)) THEN Ignore(t)
             ELSE thread' = [thread EXCEPT ![t].pc = "climb", ![t].ports = AddPort(@, r)]
        /\ UNCHANGED <<platform, at, index, lock>>

\* get_parent_and_release(): a node that is gone has no parent.
ClimbDarwin(t) ==
    LET w == thread[t]
    IN  /\ w.pc = "climb" /\ platform = "darwin"
        /\ IF ~Plugged(w.node) THEN Ignore(t)
           ELSE IF Up(w.node) \in Controllers THEN Finish(t, Up(w.node), w.ports)
           ELSE thread' = [thread EXCEPT ![t].pc = "walk", ![t].node = Up(w.node),
                                         ![t].up = Up(Up(w.node))]
        /\ UNCHANGED <<platform, at, index, lock>>

\* The device is added to the monitor, or ignored.
Resolved(t) ==
    /\ thread[t].pc \in {"done", "ignored"}
    /\ thread' = [thread EXCEPT ![t] = Ready]
    /\ UNCHANGED <<platform, at, index, lock>>

-----------------------------------------------------------------------------
Populate(t) == populate_controllers(t) \/ add_controller(t) \/ ListEnds(t)
Walk(t) == WalkWin32(t) \/ ClimbWin32(t) \/ WalkDarwin(t) \/ ClimbDarwin(t) \/ Resolved(t)

Next ==
    \/ \E n \in Hubs \cup Devices : Plug(n) \/ Unplug(n)
    \/ \E t \in Threads : \/ Populate(t) \/ Walk(t)
                          \/ t \in Walkers /\ \E d \in Devices \cup Functions : resolve_device_location(t, d)

Spec == Init /\ [][Next]_vars

-----------------------------------------------------------------------------
(* Properties. *)

Pcs == {"idle", "list", "ready", "walk", "climb", "done", "ignored"}

\* The length of a location.  On Windows the number of the controller is added
\* without another look at the room: that it fits follows from MaxTier, for a
\* device that stays where it is (LocationRight).
MaxLength == IF platform = "darwin" THEN MaxDepth ELSE MaxDepth + 1

\* Each variable has its type, port numbers fit in the array of the code, and two
\* controllers never have the same number, so that locations differ.
TypeOK ==
    /\ platform \in Platforms
    /\ \A n \in Nodes : Plugged(n) => Up(n) \in Nodes \cup Controllers
    /\ index \in [Controllers -> 0 .. MaxIndex]
    /\ \A c, d \in Controllers : index[c] = index[d] /\ index[c] # 0 => c = d
    /\ lock \in Threads \cup {NoThread}
    /\ \A t \in Threads :
         /\ thread[t].pc \in Pcs
         /\ thread[t].pc \in {"walk", "climb"} => Len(thread[t].ports) <= MaxDepth
         /\ thread[t].pc = "done" => Len(thread[t].ports) <= MaxLength

\* A device that is not unplugged while its location is looked for gets the number
\* of its controller and the ports on the way to it, in this order.
LocationRight ==
    \A t \in Threads : thread[t].pc = "done" /\ ~thread[t].disturbed =>
        thread[t].ports = <<index[Root(thread[t].dev)]>> \o PathTo(thread[t].dev)

\* ... and is ignored only when its controller is not in the list.
NotIgnored ==
    [][\A t \in Threads :
         thread[t].pc \in {"walk", "climb"} /\ thread'[t].pc = "ignored" /\ ~thread[t].disturbed
             => index[Root(thread[t].dev)] = 0]_vars

\* However many threads enumerate, the number of a controller that is listed never
\* changes: the locations of devices that were found earlier stay right.
ListFixed == [][\A c \in Controllers : index[c] # 0 => index'[c] = index[c]]_vars

=============================================================================
