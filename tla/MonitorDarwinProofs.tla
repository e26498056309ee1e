------------------------ MODULE MonitorDarwinProofs -------------------------
(***************************************************************************)
(* Theorems about the module MonitorDarwin, for every set of devices and   *)
(* of device classes.                                                      *)
(***************************************************************************)
EXTENDS MonitorDarwin, SequenceTheorems, TLAPS

Objects == Sessions \cup (Sessions \X Classes)
Calls == [pc : Pcs, it : Iterators \cup {"none"}, ret : {-1, 0}]

\* The application's thread takes objects from an iterator.
Working == {"drain", "clear", "attached", "detached"}

\* The iterators that exist, and the one the thread works on.
PhaseOK ==
    /\ call.pc = "closed" => registered = {} /\ devices = {}
    /\ call.pc \in {"register", "drain"} => Terminated \notin registered
    /\ call.pc = "clear" \/ Created => registered = Iterators
    /\ call.pc \in {"drain", "attached"} => call.it \in Classes /\ call.it \in registered
    /\ call.pc \in {"clear", "detached"} => call.it = Terminated

\* What the iterators hold: services of the class, or unplugged devices, none
\* of which has a service.
ObjectsOK ==
    /\ \A c \in Classes : pending[c] \subseteq Sessions \X {c}
    /\ pending[Terminated] \subseteq gone
    /\ \A s \in gone, c \in Classes : <<s, c>> \notin services

\* A device in the table without its service is on its way out; none is so
\* while the monitor is created, because their iterator is cleared at the end.
RemovedOK ==
    \A s \in Sessions, c \in Classes :
        <<s, c>> \in devices /\ <<s, c>> \notin services =>
            \/ s \in excused \/ s \in LongIds
            \/ Created /\ s \in pending[Terminated]

\* A service is in the table or on its way there, from the moment the iterator
\* of its class exists.
AddedOK ==
    \A s \in Sessions, c \in Classes :
        c \in registered /\ <<s, c>> \in services =>
            \/ <<s, c>> \in devices \/ <<s, c>> \in excused
            \/ <<s, c>> \in pending[c]

\* Iterator i has posted its message, is empty and armed, or is being emptied.
Signalled(i) ==
    \/ Contains(port, i)
    \/ pending[i] = {} /\ i \in armed
    \/ call.pc \in Working /\ call.it = i

SignalOK == \A i \in registered : i \in excused \/ Signalled(i)

Inv == TypeOK /\ PhaseOK /\ ObjectsOK /\ RemovedOK /\ AddedOK /\ SignalOK /\ NoStaleError

-----------------------------------------------------------------------------
(* The port as a queue of iterators. *)

LEMMA PortAppend ==
    ASSUME NEW S, NEW q \in Seq(S), NEW e \in S
    PROVE  /\ Append(q, e) \in Seq(S)
           /\ \A i : Contains(Append(q, e), i) <=> Contains(q, i) \/ i = e
<1> DEFINE r == Append(q, e)
<1>1. Len(q) \in Nat
  BY LenProperties
<1>2. /\ r \in Seq(S) /\ Len(r) = Len(q) + 1
      /\ \A i \in 1 .. Len(q) : r[i] = q[i]
      /\ r[Len(q) + 1] = e
  BY AppendProperties
<1> HIDE DEF r
<1>3. ASSUME NEW i PROVE Contains(r, i) <=> Contains(q, i) \/ i = e
  <2>1. ASSUME Contains(q, i) \/ i = e PROVE Contains(r, i)
    <3>1. CASE i = e
      <4>1. Len(q) + 1 \in 1 .. Len(r)
        BY <1>1, <1>2
      <4> QED
        BY <1>2, <3>1, <4>1 DEF Contains
    <3>2. CASE Contains(q, i)
      <4>1. PICK n \in 1 .. Len(q) : q[n] = i
        BY <3>2 DEF Contains
      <4>2. n \in 1 .. Len(r) /\ r[n] = i
        BY <1>1, <1>2, <4>1
      <4> QED
        BY <4>2 DEF Contains
    <3> QED
      BY <2>1, <3>1, <3>2
  <2>2. ASSUME Contains(r, i) PROVE Contains(q, i) \/ i = e
    <3>1. PICK n \in 1 .. Len(r) : r[n] = i
      BY <2>2 DEF Contains
    <3>2. n \in 1 .. Len(q) \/ n = Len(q) + 1
      BY <1>1, <1>2
    <3> QED
      BY <1>2, <3>1, <3>2 DEF Contains
  <2> QED
    BY <2>1, <2>2
<1> QED
  BY <1>2, <1>3 DEF r

LEMMA PortTail ==
    ASSUME NEW S, NEW q \in Seq(S), q # <<>>
    PROVE  /\ Head(q) \in S /\ Tail(q) \in Seq(S)
           /\ \A i : Contains(q, i) => Contains(Tail(q), i) \/ i = Head(q)
<1> DEFINE r == Tail(q)
<1>1. Len(q) \in Nat
  BY LenProperties
<1>2. /\ Head(q) \in S /\ r \in Seq(S) /\ Head(q) = q[1] /\ Len(r) = Len(q) - 1
      /\ \A i \in 1 .. Len(r) : r[i] = q[i + 1]
  BY HeadTailProperties
<1> HIDE DEF r
<1>3. ASSUME NEW i, Contains(q, i), i # Head(q) PROVE Contains(r, i)
  <2>1. PICK n \in 1 .. Len(q) : q[n] = i
    BY <1>3 DEF Contains
  <2>2. n # 1
    BY <1>2, <1>3, <2>1
  <2>3. PICK m : m = n - 1
    OBVIOUS
  <2>4. m \in 1 .. Len(r) /\ m + 1 = n
    BY <1>1, <1>2, <2>2, <2>3
  <2>5. r[m] = i
    BY <1>2, <2>1, <2>4
  <2> QED
    BY <2>4, <2>5 DEF Contains
<1> QED
  BY <1>2, <1>3 DEF r

LEMMA PortGrows ==
    ASSUME NEW S, NEW T, S \subseteq T, NEW q \in Seq(S)
    PROVE  q \in Seq(T)
<1>1. PICK n \in Nat : q \in [1 .. n -> S]
  BY SeqDef
<1>2. q \in [1 .. n -> T]
  BY <1>1
<1> QED
  BY <1>2, SeqDef

-----------------------------------------------------------------------------
(* The steps of IOKit. *)

\* What a notification does to the iterators, armed or not.
LEMMA NotifyEffect ==
    ASSUME TypeOK, NEW i \in Iterators, NEW o \in Objects, Notify(i, o)
    PROVE  /\ pending' \in [Iterators -> SUBSET Objects]
           /\ \A j \in Iterators : j # i => pending'[j] = pending[j]
           /\ pending'[i] = IF i \in registered THEN pending[i] \cup {o} ELSE pending[i]
           /\ armed' \subseteq registered
           /\ port' \in Seq(registered)
           /\ \A j \in Iterators : j # i /\ j \in armed => j \in armed'
           /\ \A j \in Iterators : Contains(port, j) => Contains(port', j)
           /\ i \in registered /\ i \in armed => Contains(port', i)
<1>1. pending \in [Iterators -> SUBSET Objects] /\ armed \subseteq registered /\ port \in Seq(registered)
  BY DEF TypeOK, Objects
<1>2. CASE /\ i \in registered /\ i \in armed
           /\ pending' = [pending EXCEPT ![i] = @ \cup {o}]
           /\ armed' = armed \ {i}
           /\ port' = Append(port, i)
  <2>1. port' \in Seq(registered) /\ \A j : Contains(port', j) <=> Contains(port, j) \/ j = i
    BY <1>1, <1>2, PortAppend
  <2> QED
    BY <1>1, <1>2, <2>1
<1>3. CASE /\ i \in registered /\ i \notin armed
           /\ pending' = [pending EXCEPT ![i] = @ \cup {o}]
           /\ UNCHANGED <<armed, port>>
  BY <1>1, <1>3
<1>4. CASE i \notin registered /\ UNCHANGED <<pending, armed, port>>
  BY <1>1, <1>4
<1> QED
  BY <1>2, <1>3, <1>4 DEF Notify

\* An iterator that gets an object stays signalled.
LEMMA NotifySignals ==
    ASSUME Inv, NEW i \in Iterators, NEW o \in Objects, Notify(i, o), UNCHANGED <<registered, call>>,
           excused \cap registered \subseteq excused'
    PROVE  SignalOK'
<1> SUFFICES ASSUME NEW j \in registered, j \notin excused PROVE Signalled(j)'
  BY DEF SignalOK
<1>1. Signalled(j) /\ j \in Iterators
  BY DEF Inv, SignalOK, TypeOK
<1>2. TypeOK
  BY DEF Inv
<1>3. CASE Contains(port, j)
  BY <1>1, <1>2, <1>3, NotifyEffect DEF Signalled
<1>4. CASE pending[j] = {} /\ j \in armed
  BY <1>1, <1>2, <1>4, NotifyEffect DEF Signalled
<1>5. CASE call.pc \in Working /\ call.it = j
  BY <1>5 DEF Signalled
<1> QED
  BY <1>1, <1>3, <1>4, <1>5 DEF Signalled

LEMMA MatchedStep ==
    ASSUME Inv, NEW s \in Sessions, NEW c \in Classes, ServiceMatched(s, c)
    PROVE  Inv'
<1>1. /\ s \notin gone /\ services' = services \cup {<<s, c>>} /\ Notify(c, <<s, c>>)
      /\ UNCHANGED <<gone, registered, devices, notify_ret, call, excused>>
  BY DEF ServiceMatched
<1>2. c \in Iterators /\ <<s, c>> \in Objects /\ Terminated \in Iterators /\ Terminated \notin Classes
  BY DarwinAssumption DEF Iterators, Objects
<1>3. TypeOK
  BY DEF Inv
<1>4. /\ pending' \in [Iterators -> SUBSET Objects]
      /\ \A j \in Iterators : j # c => pending'[j] = pending[j]
      /\ pending'[c] = IF c \in registered THEN pending[c] \cup {<<s, c>>} ELSE pending[c]
      /\ armed' \subseteq registered
      /\ port' \in Seq(registered)
  BY <1>1, <1>2, <1>3, NotifyEffect
<1>5. TypeOK'
  BY <1>1, <1>3, <1>4 DEF TypeOK, Objects
<1>6. PhaseOK' /\ NoStaleError'
  BY <1>1 DEF Inv, PhaseOK, NoStaleError, Created
<1>7. ObjectsOK'
  <2>1. ASSUME NEW d \in Classes PROVE pending'[d] \subseteq Sessions \X {d}
    BY <1>4 DEF Inv, ObjectsOK, Iterators
  <2> QED
    BY <1>1, <1>2, <1>4, <2>1 DEF Inv, ObjectsOK
<1>8. RemovedOK'
  BY <1>1, <1>2, <1>4 DEF Inv, RemovedOK, Created
<1>9. AddedOK'
  BY <1>1, <1>2, <1>4 DEF Inv, AddedOK, Iterators
<1>10. SignalOK'
  BY <1>1, <1>2, NotifySignals
<1> QED
  BY <1>5, <1>6, <1>7, <1>8, <1>9, <1>10 DEF Inv

LEMMA TerminatedStep ==
    ASSUME Inv, NEW s \in Sessions, DeviceTerminated(s)
    PROVE  Inv'
<1>1. /\ services' = services \ ({s} \X Classes) /\ gone' = gone \cup {s}
      /\ excused' = (excused \ ({s} \X Classes)) \cup (IF Creating THEN InTable(s) ELSE {})
      /\ Notify(Terminated, s)
      /\ UNCHANGED <<registered, devices, notify_ret, call>>
  BY DEF DeviceTerminated
<1>2. Terminated \in Iterators /\ Terminated \notin Classes /\ s \in Objects
  BY DarwinAssumption DEF Iterators, Objects
<1>3. TypeOK
  BY DEF Inv
<1>4. /\ pending' \in [Iterators -> SUBSET Objects]
      /\ \A j \in Iterators : j # Terminated => pending'[j] = pending[j]
      /\ pending'[Terminated] =
            IF Terminated \in registered THEN pending[Terminated] \cup {s} ELSE pending[Terminated]
      /\ armed' \subseteq registered
      /\ port' \in Seq(registered)
  BY <1>1, <1>2, <1>3, NotifyEffect
<1>5. /\ InTable(s) \subseteq {s}
      /\ \A t \in Sessions \cup Iterators : t \in excused => t \in excused'
      /\ \A t \in Sessions, d \in Classes : t # s /\ <<t, d>> \in excused => <<t, d>> \in excused'
  <2>1. \A t \in Sessions \cup Iterators : t \in excused => t \notin {s} \X Classes
    BY <1>3, DarwinAssumption DEF TypeOK, Iterators
  <2> QED
    BY <1>1, <2>1 DEF InTable
<1>6. TypeOK'
  <2>1. excused' \subseteq Sessions \cup (Sessions \X Classes) \cup Classes
    BY <1>1, <1>3, <1>5 DEF TypeOK
  <2> QED
    BY <1>1, <1>3, <1>4, <2>1 DEF TypeOK, Objects
<1>7. PhaseOK' /\ NoStaleError'
  BY <1>1 DEF Inv, PhaseOK, NoStaleError, Created
<1>8. ObjectsOK'
  <2>1. ASSUME NEW d \in Classes PROVE pending'[d] \subseteq Sessions \X {d}
    BY <1>2, <1>4 DEF Inv, ObjectsOK, Iterators
  <2>2. pending'[Terminated] \subseteq gone'
    BY <1>1, <1>4 DEF Inv, ObjectsOK
  <2>3. \A t \in gone', d \in Classes : <<t, d>> \notin services'
    BY <1>1 DEF Inv, ObjectsOK
  <2> QED
    BY <2>1, <2>2, <2>3 DEF ObjectsOK
<1>9. RemovedOK'
  <2> SUFFICES ASSUME NEW t \in Sessions, NEW d \in Classes, <<t, d>> \in devices, <<t, d>> \notin services'
               PROVE  \/ t \in excused' \/ t \in LongIds
                      \/ Created /\ t \in pending'[Terminated]
    BY <1>1 DEF RemovedOK, Created
  <2>1. CASE t = s
    <3>1. Creating \/ Created
      BY DEF Inv, PhaseOK, TypeOK, Creating, Created, Pcs
    <3>2. Created => Terminated \in registered
      BY <1>2 DEF Inv, PhaseOK
    <3>3. t \in InTable(s)
      BY <2>1 DEF InTable
    <3> QED
      BY <1>1, <1>4, <2>1, <3>1, <3>2, <3>3
  <2>2. CASE t # s
    BY <1>1, <1>4, <1>5, <2>2 DEF Inv, RemovedOK
  <2> QED
    BY <2>1, <2>2
<1>10. AddedOK'
  <2>1. \A t \in Sessions, d \in Classes : <<t, d>> \in services' => t # s /\ <<t, d>> \in services
    BY <1>1
  <2> QED
    BY <1>1, <1>2, <1>4, <1>5, <2>1 DEF Inv, AddedOK, Iterators
<1>11. SignalOK'
  <2>1. excused \cap registered \subseteq excused'
    BY <1>3, <1>5 DEF TypeOK
  <2> QED
    BY <1>1, <1>2, <2>1, NotifySignals
<1> QED
  BY <1>6, <1>7, <1>8, <1>9, <1>10, <1>11 DEF Inv

-----------------------------------------------------------------------------
(* The steps of hs_monitor_new() and hs_monitor_free(). *)

\* The thread, at work on iterator i, takes an object from it and goes on; only
\* an error may end its loop early, and excuses the iterator.
LEMMA TakeEffect ==
    ASSUME Inv, NEW i \in Iterators, NEW o, NextObject(i, o), call.pc \in Working, call.it = i,
           excused \subseteq excused', UNCHANGED call \/ i \in excused',
           call'.pc \in Working => call'.it = i
    PROVE  /\ pending' \in [Iterators -> SUBSET Objects]
           /\ pending'[i] = pending[i] \ {o} /\ o \in pending[i]
           /\ \A j \in Iterators : j # i => pending'[j] = pending[j]
           /\ UNCHANGED <<armed, registered, port>>
           /\ SignalOK'
<1>1. /\ pending \in [Iterators -> SUBSET Objects] /\ o \in pending[i]
      /\ pending' = [pending EXCEPT ![i] = @ \ {o}]
      /\ UNCHANGED <<armed, registered, port>>
  BY DEF Inv, TypeOK, Objects, NextObject
<1>2. /\ pending' \in [Iterators -> SUBSET Objects]
      /\ pending'[i] = pending[i] \ {o}
      /\ \A j \in Iterators : j # i => pending'[j] = pending[j]
  BY <1>1
<1>3. SignalOK'
  <2> SUFFICES ASSUME NEW j \in registered, j \notin excused' PROVE Signalled(j)'
    BY <1>1 DEF SignalOK
  <2>1. Signalled(j) /\ j \in Iterators
    BY DEF Inv, SignalOK, TypeOK
  <2>2. CASE j = i
    BY <2>2 DEF Signalled
  <2>3. CASE j # i
    BY <1>1, <1>2, <2>1, <2>3 DEF Signalled
  <2> QED
    BY <2>2, <2>3
<1> QED
  BY <1>1, <1>2, <1>3

\* The thread finds iterator i empty, which arms it, and leaves it.
LEMMA EmptyEffect ==
    ASSUME Inv, NEW i \in registered, NoObject(i), call.pc \in Working, call.it = i,
           call'.pc \notin Working, UNCHANGED excused
    PROVE  /\ UNCHANGED <<pending, registered, port>>
           /\ pending[i] = {} /\ armed' \subseteq registered
           /\ SignalOK'
<1>1. /\ UNCHANGED <<pending, registered, port>>
      /\ pending[i] = {} /\ armed' = armed \cup {i} /\ armed \subseteq registered
  BY DEF Inv, TypeOK, NoObject
<1>2. SignalOK'
  <2> SUFFICES ASSUME NEW j \in registered, j \notin excused PROVE Signalled(j)'
    BY <1>1 DEF SignalOK
  <2>1. Signalled(j)
    BY DEF Inv, SignalOK
  <2> QED
    BY <1>1, <2>1 DEF Signalled
<1> QED
  BY <1>1, <1>2

\* A step that leaves IOKit, the iterators and the table alone, and leaves no
\* iterator either.
LEMMA IdleStep ==
    ASSUME Inv, NEW pc \in Pcs, NEW r \in {-1, 0}, call' = At(pc, "none", r),
           pc # "closed", pc \notin Working, call.pc \notin Working,
           pc = "register" => call.pc = "closed",
           pc # "register" => Created /\ Created',
           notify_ret' \in {-1, 0}, notify_ret' # 0 => pc = "dispatched",
           UNCHANGED <<services, gone, pending, armed, registered, port, devices, excused>>
    PROVE  Inv'
<1>1. call' \in Calls /\ call'.pc = pc
  BY DEF At, Calls, Pcs
<1>2. TypeOK'
  BY <1>1 DEF Inv, TypeOK, Calls
<1>3. PhaseOK' /\ NoStaleError'
  BY <1>1 DEF Inv, PhaseOK, NoStaleError, Created, Working
<1>4. ObjectsOK' /\ AddedOK'
  BY DEF Inv, ObjectsOK, AddedOK
<1>5. RemovedOK'
  BY DEF Inv, RemovedOK, PhaseOK
<1>6. SignalOK'
  BY DEF Inv, SignalOK, Signalled
<1> QED
  BY <1>2, <1>3, <1>4, <1>5, <1>6 DEF Inv

LEMMA RegisterStep ==
    ASSUME Inv, NEW i \in Iterators, add_notification(i)
    PROVE  Inv'
<1>1. /\ call.pc = "register" /\ i \notin registered
      /\ i = Terminated => Classes \subseteq registered
      /\ registered' = registered \cup {i}
      /\ pending' = [pending EXCEPT ![i] = {x \in services : x[2] = i}]
      /\ call' = At(IF i = Terminated THEN "clear" ELSE "drain", i, 0)
      /\ UNCHANGED <<services, gone, armed, port, devices, notify_ret, excused>>
  BY DEF add_notification, iokit
<1>2. /\ Terminated \in Iterators /\ Terminated \notin Classes
      /\ i # Terminated => i \in Classes
  BY DarwinAssumption DEF Iterators
<1>3. /\ services \subseteq Sessions \X Classes /\ pending \in [Iterators -> SUBSET Objects]
      /\ port \in Seq(registered)
  BY DEF Inv, TypeOK, Objects
<1>4. /\ pending' \in [Iterators -> SUBSET Objects]
      /\ pending'[i] = {x \in services : x[2] = i}
      /\ \A j \in Iterators : j # i => pending'[j] = pending[j]
  BY <1>1, <1>3 DEF Objects
<1>5. /\ call' \in Calls /\ call'.it = i
      /\ call'.pc = IF i = Terminated THEN "clear" ELSE "drain"
  BY <1>1 DEF At, Calls, Pcs
<1>6. TypeOK'
  <2>1. port \in Seq(registered')
    BY <1>1, <1>3, PortGrows
  <2> QED
    BY <1>1, <1>4, <1>5, <2>1 DEF Inv, TypeOK, Calls, Objects
<1>7. PhaseOK'
  BY <1>1, <1>2, <1>5 DEF Inv, PhaseOK, Created, TypeOK, Iterators
<1>8. NoStaleError'
  BY <1>1, <1>5 DEF Inv, NoStaleError
<1>9. ObjectsOK'
  <2>1. ASSUME NEW c \in Classes PROVE pending'[c] \subseteq Sessions \X {c}
    <3>1. CASE c = i
      BY <1>3, <1>4, <3>1
    <3>2. CASE c # i
      BY <1>4, <3>2 DEF Inv, ObjectsOK, Iterators
    <3> QED
      BY <3>1, <3>2
  <2>2. pending'[Terminated] \subseteq gone
    <3>1. \A x \in services : x[2] # Terminated
      BY <1>2, <1>3
    <3> QED
      BY <1>2, <1>4, <3>1 DEF Inv, ObjectsOK
  <2> QED
    BY <1>1, <2>1, <2>2 DEF Inv, ObjectsOK
<1>10. RemovedOK'
  <2>1. ~Created
    BY <1>1 DEF Created
  <2> QED
    BY <1>1, <2>1 DEF Inv, RemovedOK
<1>11. AddedOK'
  <2> SUFFICES ASSUME NEW s \in Sessions, NEW c \in Classes, c \in registered', <<s, c>> \in services
               PROVE  <<s, c>> \in devices \/ <<s, c>> \in excused \/ <<s, c>> \in pending'[c]
    BY <1>1 DEF AddedOK
  <2>1. CASE c = i
    BY <1>4, <2>1
  <2>2. CASE c # i
    BY <1>1, <1>4, <2>2 DEF Inv, AddedOK, Iterators
  <2> QED
    BY <2>1, <2>2
<1>12. SignalOK'
  <2> SUFFICES ASSUME NEW j \in registered', j \notin excused PROVE Signalled(j)'
    BY <1>1 DEF SignalOK
  <2>1. CASE j = i
    BY <1>5, <2>1 DEF Signalled, Working
  <2>2. CASE j # i
    <3>1. j \in registered /\ j \in Iterators /\ Signalled(j)
      BY <1>1, <2>2 DEF Inv, SignalOK, TypeOK
    <3> QED
      BY <1>1, <1>4, <2>2, <3>1 DEF Signalled, Working
  <2> QED
    BY <2>1, <2>2
<1> QED
  BY <1>6, <1>7, <1>8, <1>9, <1>10, <1>11, <1>12 DEF Inv

\* A service x is taken from its iterator: if it still exists it joins the table
\* or is excused.
LEMMA AttachEffect ==
    ASSUME Inv, NEW i \in Classes, NEW x, NextObject(i, x), call.pc \in Working, call.it = i,
           devices \subseteq devices', devices' \subseteq devices \cup ({x} \cap services),
           excused \subseteq excused', excused' \subseteq excused \cup {x, i},
           x \in services => x \in devices' \cup excused',
           UNCHANGED call \/ i \in excused',
           call'.pc \in Working => call'.it = i,
           Created <=> Created',
           UNCHANGED <<services, gone>>
    PROVE  /\ pending' \in [Iterators -> SUBSET Objects]
           /\ x \in Sessions \X {i}
           /\ UNCHANGED <<armed, registered, port>>
           /\ devices' \subseteq Sessions \X Classes
           /\ excused' \subseteq Sessions \cup (Sessions \X Classes) \cup Classes
           /\ ObjectsOK' /\ RemovedOK' /\ AddedOK' /\ SignalOK'
<1>1. i \in Iterators /\ Terminated \in Iterators /\ i # Terminated
  BY DarwinAssumption DEF Iterators
<1>2. /\ pending' \in [Iterators -> SUBSET Objects]
      /\ pending'[i] = pending[i] \ {x} /\ x \in pending[i]
      /\ \A j \in Iterators : j # i => pending'[j] = pending[j]
      /\ UNCHANGED <<armed, registered, port>>
      /\ SignalOK'
  BY <1>1, TakeEffect
<1>3. x \in Sessions \X {i}
  BY <1>2 DEF Inv, ObjectsOK
<1>4. /\ devices' \subseteq Sessions \X Classes
      /\ excused' \subseteq Sessions \cup (Sessions \X Classes) \cup Classes
  BY <1>3 DEF Inv, TypeOK
<1>5. ObjectsOK'
  <2>1. ASSUME NEW c \in Classes PROVE pending'[c] \subseteq Sessions \X {c}
    BY <1>2 DEF Inv, ObjectsOK, Iterators
  <2> QED
    BY <1>1, <1>2, <2>1 DEF Inv, ObjectsOK
<1>6. RemovedOK'
  <2>1. pending'[Terminated] = pending[Terminated]
    BY <1>1, <1>2
  <2>2. \A y : y \in devices' /\ y \notin services => y \in devices
    OBVIOUS
  <2> QED
    BY <1>1, <2>1, <2>2 DEF Inv, RemovedOK
<1>7. AddedOK'
  <2> SUFFICES ASSUME NEW s \in Sessions, NEW c \in Classes, c \in registered, <<s, c>> \in services
               PROVE  <<s, c>> \in devices' \/ <<s, c>> \in excused' \/ <<s, c>> \in pending'[c]
    BY <1>2 DEF AddedOK
  <2>1. <<s, c>> \in devices \/ <<s, c>> \in excused \/ <<s, c>> \in pending[c]
    BY DEF Inv, AddedOK
  <2>2. CASE <<s, c>> = x
    BY <2>2
  <2>3. CASE <<s, c>> # x
    BY <1>1, <1>2, <2>1, <2>3 DEF Iterators
  <2> QED
    BY <2>2, <2>3
<1> QED
  BY <1>2, <1>3, <1>4, <1>5, <1>6, <1>7

\* What process_iterator_devices() does with one service.
LEMMA ExamineEffect ==
    ASSUME NEW x, NEW r \in {0, 1}, process_iterator_devices(x, r)
    PROVE  /\ NextObject(call.it, x)
           /\ devices \subseteq devices' /\ devices' \subseteq devices \cup ({x} \cap services)
           /\ excused \subseteq excused' /\ excused' \subseteq excused \cup {x}
           /\ x \in services => x \in devices' \cup excused'
BY DEF process_iterator_devices, process_darwin_device

LEMMA DrainStep ==
    ASSUME Inv, DrainNext
    PROVE  Inv'
<1> DEFINE i == call.it
<1>1. /\ call.pc = "drain" /\ i \in Classes /\ i \in registered /\ i \in Iterators
      /\ call.pc \in Working /\ ~Created
      /\ UNCHANGED <<services, gone, notify_ret>>
  BY DEF DrainNext, iokit, Inv, PhaseOK, Working, Created, Iterators
<1>2. ASSUME NEW x \in pending[i], NEW r \in {0, 1}, process_iterator_devices(x, r),
             UNCHANGED call
      PROVE  Inv'
  <2>1. /\ pending' \in [Iterators -> SUBSET Objects]
        /\ UNCHANGED <<armed, registered, port>>
        /\ devices' \subseteq Sessions \X Classes
        /\ excused' \subseteq Sessions \cup (Sessions \X Classes) \cup Classes
        /\ ObjectsOK' /\ RemovedOK' /\ AddedOK' /\ SignalOK'
    <3>1. /\ call'.pc \in Working => call'.it = i
          /\ Created <=> Created'
      BY <1>2 DEF Created
    <3>2. /\ NextObject(i, x)
          /\ devices \subseteq devices' /\ devices' \subseteq devices \cup ({x} \cap services)
          /\ excused \subseteq excused' /\ excused' \subseteq excused \cup {x, i}
          /\ x \in services => x \in devices' \cup excused'
      BY <1>2, ExamineEffect
    <3> QED
      BY <1>1, <1>2, <3>1, <3>2, AttachEffect
  <2>2. TypeOK'
    BY <1>1, <1>2, <2>1 DEF Inv, TypeOK, Objects
  <2>3. PhaseOK' /\ NoStaleError'
    BY <1>1, <1>2, <2>1 DEF Inv, PhaseOK, NoStaleError, Created
  <2> QED
    BY <2>1, <2>2, <2>3 DEF Inv
<1>3. CASE NoObject(i) /\ call' = At("register", "none", 0) /\ UNCHANGED <<devices, excused>>
  <2>1. call' \in Calls /\ call'.pc = "register"
    BY <1>3 DEF At, Calls, Pcs
  <2>2. /\ UNCHANGED <<pending, registered, port>>
        /\ pending[i] = {} /\ armed' \subseteq registered
        /\ SignalOK'
    <3>1. call'.pc \notin Working
      BY <2>1 DEF Working
    <3> QED
      BY <1>1, <1>3, <3>1, EmptyEffect
  <2>3. TypeOK'
    BY <1>1, <1>3, <2>1, <2>2 DEF Inv, TypeOK, Calls
  <2>4. PhaseOK' /\ NoStaleError'
    BY <1>1, <1>3, <2>1, <2>2 DEF Inv, PhaseOK, NoStaleError, Created
  <2>5. ObjectsOK' /\ RemovedOK' /\ AddedOK'
    BY <1>1, <1>3, <2>2 DEF Inv, ObjectsOK, RemovedOK, AddedOK
  <2> QED
    BY <2>2, <2>3, <2>4, <2>5 DEF Inv
<1> QED
  BY <1>2, <1>3 DEF DrainNext

LEMMA ClearStep ==
    ASSUME Inv, ClearTerminated
    PROVE  Inv'
<1> DEFINE i == Terminated
<1>1. /\ call.pc = "clear" /\ call.it = i /\ i \in registered /\ i \in Iterators
      /\ call.pc \in Working /\ ~Created /\ registered = Iterators /\ i \notin Classes
      /\ UNCHANGED <<services, gone, devices, notify_ret, excused>>
  BY DarwinAssumption DEF ClearTerminated, iokit, Inv, PhaseOK, Working, Created, Iterators
<1>2. ASSUME NEW s \in pending[i], NextObject(i, s), UNCHANGED call
      PROVE  Inv'
  <2>1. /\ pending' \in [Iterators -> SUBSET Objects]
        /\ pending'[i] = pending[i] \ {s}
        /\ \A j \in Iterators : j # i => pending'[j] = pending[j]
        /\ UNCHANGED <<armed, registered, port>>
        /\ SignalOK'
    BY <1>1, <1>2, TakeEffect
  <2>2. TypeOK'
    BY <1>1, <1>2, <2>1 DEF Inv, TypeOK, Objects
  <2>3. PhaseOK' /\ NoStaleError'
    BY <1>1, <1>2, <2>1 DEF Inv, PhaseOK, NoStaleError, Created
  <2>4. ObjectsOK' /\ RemovedOK' /\ AddedOK'
    BY <1>1, <2>1 DEF Inv, ObjectsOK, RemovedOK, AddedOK, Iterators
  <2> QED
    BY <2>1, <2>2, <2>3, <2>4 DEF Inv
<1>3. CASE NoObject(i) /\ call' = At("idle", "none", 0)
  <2>1. call' \in Calls /\ call'.pc = "idle"
    BY <1>3 DEF At, Calls, Pcs
  <2>2. /\ UNCHANGED <<pending, registered, port>>
        /\ pending[i] = {} /\ armed' \subseteq registered
        /\ SignalOK'
    <3>1. call'.pc \notin Working
      BY <2>1 DEF Working
    <3> QED
      BY <1>1, <1>3, <3>1, EmptyEffect
  <2>3. TypeOK'
    BY <1>1, <1>3, <2>1, <2>2 DEF Inv, TypeOK, Calls
  <2>4. PhaseOK' /\ NoStaleError'
    BY <1>1, <1>3, <2>1, <2>2 DEF Inv, PhaseOK, NoStaleError, Created
  <2>5. ObjectsOK' /\ RemovedOK' /\ AddedOK'
    BY <1>1, <1>3, <2>2 DEF Inv, ObjectsOK, RemovedOK, AddedOK
  <2> QED
    BY <2>2, <2>3, <2>4, <2>5 DEF Inv
<1> QED
  BY <1>1, <1>2, <1>3 DEF ClearTerminated, clear_iterator

LEMMA ReleaseStep ==
    ASSUME Inv, Release
    PROVE  Inv'
<1>1. /\ pending' = NoObjects /\ armed' = {} /\ registered' = {} /\ port' = <<>>
      /\ devices' = {} /\ notify_ret' = 0 /\ excused' = {}
      /\ UNCHANGED <<services, gone>>
      /\ call' \in Calls /\ call'.pc = "closed"
  BY DEF Release, iokit, Closed, At, Calls, Pcs
<1>2. pending' \in [Iterators -> SUBSET Objects] /\ \A j \in Iterators : pending'[j] = {}
  BY <1>1 DEF NoObjects
<1>3. TypeOK'
  BY <1>1, <1>2, EmptySeq DEF Inv, TypeOK, Calls, Objects
<1>4. PhaseOK' /\ NoStaleError' /\ RemovedOK' /\ AddedOK' /\ SignalOK'
  BY <1>1 DEF PhaseOK, NoStaleError, RemovedOK, AddedOK, SignalOK, Created
<1>5. ObjectsOK'
  BY <1>1, <1>2 DEF Inv, ObjectsOK, Iterators
<1> QED
  BY <1>3, <1>4, <1>5 DEF Inv

-----------------------------------------------------------------------------
(* The steps of hs_monitor_refresh(). *)

\* A message is received: the callback works on the iterator that posted it.
LEMMA MessageStep ==
    ASSUME Inv, mach_msg
    PROVE  Inv'
<1>1. /\ call.pc = "receive" /\ registered = Iterators /\ notify_ret = 0
      /\ UNCHANGED <<services, gone, pending, armed, registered, devices, notify_ret, excused>>
  BY DEF mach_msg, iokit, Inv, PhaseOK, NoStaleError, Created
<1>2. CASE port = <<>> /\ call' = At("idle", "none", 0) /\ UNCHANGED port
  <2>1. Created /\ Created'
    BY <1>1, <1>2 DEF Created, At
  <2> QED
    BY <1>1, <1>2, <2>1, IdleStep DEF Working, Pcs
<1>3. CASE /\ port # <<>> /\ port' = Tail(port)
           /\ call' = At(IF Head(port) = Terminated THEN "detached" ELSE "attached", Head(port), 0)
  <2>1. /\ Head(port) \in registered /\ port' \in Seq(registered)
        /\ \A i : Contains(port, i) => Contains(port', i) \/ i = Head(port)
    BY <1>3, PortTail DEF Inv, TypeOK
  <2>2. /\ call' \in Calls /\ call'.it = Head(port)
        /\ call'.pc = IF Head(port) = Terminated THEN "detached" ELSE "attached"
    BY <1>1, <1>3, <2>1 DEF At, Calls, Pcs
  <2>3. TypeOK'
    BY <1>1, <2>1, <2>2 DEF Inv, TypeOK, Calls
  <2>4. PhaseOK' /\ NoStaleError'
    BY <1>1, <2>1, <2>2 DEF Inv, PhaseOK, NoStaleError, Created, Iterators
  <2>5. ObjectsOK' /\ AddedOK'
    BY <1>1 DEF Inv, ObjectsOK, AddedOK
  <2>6. RemovedOK'
    BY <1>1, <2>2 DEF Inv, RemovedOK, Created
  <2>7. SignalOK'
    <3> SUFFICES ASSUME NEW i \in registered, i \notin excused PROVE Signalled(i)'
      BY <1>1 DEF SignalOK
    <3>1. Signalled(i) /\ call.pc \notin Working
      BY <1>1 DEF Inv, SignalOK, Working
    <3> QED
      BY <1>1, <2>1, <2>2, <3>1 DEF Signalled, Working
  <2> QED
    BY <2>3, <2>4, <2>5, <2>6, <2>7 DEF Inv
<1> QED
  BY <1>2, <1>3 DEF mach_msg

LEMMA AttachedStep ==
    ASSUME Inv, darwin_devices_attached \/ AttachFails
    PROVE  Inv'
<1> DEFINE i == call.it
<1>1. /\ call.pc = "attached" /\ i \in Classes /\ i \in registered /\ i \in Iterators
      /\ call.pc \in Working /\ Created /\ registered = Iterators /\ call \in Calls
      /\ UNCHANGED <<services, gone>>
  BY DEF darwin_devices_attached, AttachFails, iokit, Inv, PhaseOK, Working, Created, Iterators,
     TypeOK, Calls
<1>2. ASSUME NEW x \in pending[i], NEW r \in {0, 1}, process_iterator_devices(x, r),
             UNCHANGED <<call, notify_ret>>
      PROVE  Inv'
  <2>1. /\ pending' \in [Iterators -> SUBSET Objects]
        /\ UNCHANGED <<armed, registered, port>>
        /\ devices' \subseteq Sessions \X Classes
        /\ excused' \subseteq Sessions \cup (Sessions \X Classes) \cup Classes
        /\ ObjectsOK' /\ RemovedOK' /\ AddedOK' /\ SignalOK'
    <3>1. (call'.pc \in Working => call'.it = i) /\ (Created <=> Created')
      BY <1>2 DEF Created
    <3>2. /\ NextObject(i, x)
          /\ devices \subseteq devices' /\ devices' \subseteq devices \cup ({x} \cap services)
          /\ excused \subseteq excused' /\ excused' \subseteq excused \cup {x, i}
          /\ x \in services => x \in devices' \cup excused'
      BY <1>2, ExamineEffect
    <3> QED
      BY <1>1, <1>2, <3>1, <3>2, AttachEffect
  <2>2. TypeOK'
    BY <1>1, <1>2, <2>1 DEF Inv, TypeOK, Objects
  <2>3. PhaseOK' /\ NoStaleError'
    BY <1>1, <1>2, <2>1 DEF Inv, PhaseOK, NoStaleError, Created
  <2> QED
    BY <2>1, <2>2, <2>3 DEF Inv
<1>3. ASSUME NEW r, Callout("dispatched", r)
      PROVE  /\ call' \in Calls /\ call'.pc = "dispatched" /\ call'.it = i /\ Created'
             /\ call'.pc \notin Working /\ notify_ret' = r
  BY <1>1, <1>3 DEF Callout, Calls, Pcs, Created, Working
<1>4. CASE NoObject(i) /\ Callout("dispatched", 0) /\ UNCHANGED <<devices, excused>>
  <2>1. /\ UNCHANGED <<pending, registered, port>>
        /\ pending[i] = {} /\ armed' \subseteq registered
        /\ SignalOK'
    BY <1>1, <1>3, <1>4, EmptyEffect
  <2>2. TypeOK'
    BY <1>1, <1>3, <1>4, <2>1 DEF Inv, TypeOK, Calls
  <2>3. PhaseOK' /\ NoStaleError'
    BY <1>1, <1>3, <1>4, <2>1 DEF Inv, PhaseOK, NoStaleError, Created
  <2>4. ObjectsOK' /\ RemovedOK' /\ AddedOK'
    BY <1>1, <1>3, <1>4, <2>1 DEF Inv, ObjectsOK, RemovedOK, AddedOK
  <2> QED
    BY <2>1, <2>2, <2>3, <2>4 DEF Inv
<1>5. ASSUME NEW x \in pending[i], NextObject(i, x), Callout("dispatched", -1),
             \/ UNCHANGED devices /\ excused' = excused \cup {x, i}
             \/ x \in services /\ devices' = devices \cup {x} /\ excused' = excused \cup {i}
      PROVE  Inv'
  <2>1. /\ pending' \in [Iterators -> SUBSET Objects]
        /\ x \in Sessions \X {i}
        /\ UNCHANGED <<armed, registered, port>>
        /\ devices' \subseteq Sessions \X Classes
        /\ excused' \subseteq Sessions \cup (Sessions \X Classes) \cup Classes
        /\ ObjectsOK' /\ RemovedOK' /\ AddedOK' /\ SignalOK'
    <3>1. /\ devices \subseteq devices' /\ devices' \subseteq devices \cup ({x} \cap services)
          /\ excused \subseteq excused' /\ excused' \subseteq excused \cup {x, i}
          /\ i \in excused' /\ (x \in services => x \in devices' \cup excused')
      BY <1>5
    <3> QED
      BY <1>1, <1>3, <1>5, <3>1, AttachEffect
  <2>2. TypeOK'
    BY <1>1, <1>3, <1>5, <2>1 DEF Inv, TypeOK, Objects, Calls
  <2>3. PhaseOK' /\ NoStaleError'
    BY <1>1, <1>3, <1>5, <2>1 DEF Inv, PhaseOK, NoStaleError, Created
  <2> QED
    BY <2>1, <2>2, <2>3 DEF Inv
<1>6. CASE darwin_devices_attached
  BY <1>2, <1>4, <1>6 DEF darwin_devices_attached, Skip
<1>7. CASE AttachFails
  BY <1>5, <1>7 DEF AttachFails
<1> QED
  BY <1>6, <1>7

LEMMA DetachedStep ==
    ASSUME Inv, darwin_devices_detached
    PROVE  Inv'
<1> DEFINE i == Terminated
<1>1. /\ call.pc = "detached" /\ call.it = i /\ i \in registered /\ i \in Iterators /\ i \notin Classes
      /\ call.pc \in Working /\ Created /\ registered = Iterators /\ call \in Calls
      /\ UNCHANGED <<services, gone>>
  BY DarwinAssumption DEF darwin_devices_detached, iokit, Inv, PhaseOK, Working, Created, Iterators,
     TypeOK, Calls
<1>2. ASSUME NEW s \in pending[i], NextObject(i, s), remove_device(s),
             UNCHANGED <<call, notify_ret>>
      PROVE  Inv'
  <2>1. /\ devices' \subseteq devices /\ \A y \in devices : y \notin devices' => y \in {s} \X Classes
        /\ excused \subseteq excused' /\ excused' \subseteq excused \cup {s}
        /\ \A c \in Classes : <<s, c>> \in devices' => s \in excused' \/ s \in LongIds
        /\ s \in Sessions
    <3>1. InTable(s) \subseteq {s} /\ \A c \in Classes : <<s, c>> \in devices => s \in InTable(s)
      BY DEF InTable
    <3>2. s \in Sessions
      BY <1>2 DEF Inv, ObjectsOK, TypeOK
    <3> QED
      BY <1>2, <3>1, <3>2 DEF remove_device, SessionUnreadable
  <2>2. /\ pending' \in [Iterators -> SUBSET Objects]
        /\ pending'[i] = pending[i] \ {s}
        /\ \A j \in Iterators : j # i => pending'[j] = pending[j]
        /\ UNCHANGED <<armed, registered, port>>
        /\ SignalOK'
    BY <1>1, <1>2, <2>1, TakeEffect
  <2>3. TypeOK'
    BY <1>1, <1>2, <2>1, <2>2 DEF Inv, TypeOK, Objects
  <2>4. PhaseOK' /\ NoStaleError'
    BY <1>1, <1>2, <2>2 DEF Inv, PhaseOK, NoStaleError, Created
  <2>5. ObjectsOK'
    BY <1>1, <2>2 DEF Inv, ObjectsOK, Iterators
  <2>6. RemovedOK'
    <3> SUFFICES ASSUME NEW t \in Sessions, NEW c \in Classes, <<t, c>> \in devices', <<t, c>> \notin services
                 PROVE  t \in excused' \/ t \in LongIds \/ (Created /\ t \in pending'[i])
      BY <1>1, <1>2 DEF RemovedOK, Created
    <3>1. t \in excused \/ t \in LongIds \/ t \in pending[i]
      BY <2>1 DEF Inv, RemovedOK
    <3>2. t = s => t \in excused' \/ t \in LongIds
      BY <2>1
    <3> QED
      BY <1>1, <2>1, <2>2, <3>1, <3>2
  <2>7. AddedOK'
    <3>1. s \in gone
      BY <1>2 DEF Inv, ObjectsOK
    <3>2. \A c \in Classes : <<s, c>> \notin services
      BY <3>1 DEF Inv, ObjectsOK
    <3>3. \A y \in services : y \in devices => y \in devices'
      BY <2>1, <3>2
    <3> QED
      BY <1>1, <2>1, <2>2, <3>3 DEF Inv, AddedOK, Iterators
  <2> QED
    BY <2>2, <2>3, <2>4, <2>5, <2>6, <2>7 DEF Inv
<1>3. CASE NoObject(i) /\ Callout("dispatched", notify_ret) /\ UNCHANGED <<devices, excused>>
  <2>1. /\ call' \in Calls /\ call'.pc = "dispatched" /\ Created'
        /\ call'.pc \notin Working /\ notify_ret' = notify_ret
    BY <1>1, <1>3 DEF Callout, Calls, Pcs, Created, Working
  <2>2. /\ UNCHANGED <<pending, registered, port>>
        /\ pending[i] = {} /\ armed' \subseteq registered
        /\ SignalOK'
    BY <1>1, <1>3, <2>1, EmptyEffect
  <2>3. TypeOK'
    BY <1>1, <1>3, <2>1, <2>2 DEF Inv, TypeOK, Calls
  <2>4. PhaseOK' /\ NoStaleError'
    BY <1>1, <1>3, <2>1, <2>2 DEF Inv, PhaseOK, NoStaleError, Created
  <2>5. ObjectsOK' /\ RemovedOK' /\ AddedOK'
    BY <1>1, <1>3, <2>1, <2>2 DEF Inv, ObjectsOK, RemovedOK, AddedOK
  <2> QED
    BY <2>2, <2>3, <2>4, <2>5 DEF Inv
<1> QED
  BY <1>1, <1>2, <1>3 DEF darwin_devices_detached

\* The steps of a call between two callouts.
LEMMA CallStep ==
    ASSUME Inv, hs_monitor_new \/ hs_monitor_refresh \/ Dispatched \/ RefreshFails
    PROVE  Inv'
<1>1. /\ UNCHANGED <<services, gone, pending, armed, registered, port, devices, excused>>
      /\ notify_ret \in {-1, 0}
  BY DEF hs_monitor_new, hs_monitor_refresh, Dispatched, RefreshFails, iokit, notes, Inv, TypeOK
<1>2. CASE hs_monitor_new
  <2>1. /\ call.pc = "closed" /\ call' = At("register", "none", 0)
        /\ notify_ret' = 0
    BY <1>2 DEF hs_monitor_new, Inv, NoStaleError
  <2> QED
    BY <1>1, <2>1, IdleStep DEF Working, Pcs
<1>3. CASE hs_monitor_refresh
  <2>1. PICK pc \in {"receive", "idle"} : call' = At(pc, "none", 0)
    BY <1>3 DEF hs_monitor_refresh
  <2>2. call.pc = "idle" /\ notify_ret' = 0 /\ Created /\ Created'
    BY <1>3, <2>1 DEF hs_monitor_refresh, Inv, NoStaleError, Created, At
  <2> QED
    BY <1>1, <2>1, <2>2, IdleStep DEF Working, Pcs
<1>4. CASE Dispatched
  <2>1. PICK pc \in {"receive", "idle"}, r \in {-1, 0} : call' = At(pc, "none", r)
    BY <1>1, <1>4 DEF Dispatched
  <2>2. call.pc = "dispatched" /\ notify_ret' = 0 /\ Created /\ Created'
    BY <1>4, <2>1 DEF Dispatched, Created, At
  <2> QED
    BY <1>1, <2>1, <2>2, IdleStep DEF Working, Pcs
<1>5. CASE RefreshFails
  <2>1. /\ call.pc \in {"idle", "receive"} /\ call' = At("idle", "none", -1)
        /\ notify_ret' = 0 /\ Created /\ Created'
    BY <1>5 DEF RefreshFails, Inv, NoStaleError, Created, At
  <2> QED
    BY <1>1, <2>1, IdleStep DEF Working, Pcs
<1> QED
  BY <1>2, <1>3, <1>4, <1>5

-----------------------------------------------------------------------------
(* The theorems. *)

LEMMA InvInit == Init => Inv
<1> SUFFICES ASSUME Init PROVE Inv
  OBVIOUS
<1>1. call \in Calls /\ call.pc = "closed"
  BY DEF Init, Closed, At, Calls, Pcs
<1>2. pending \in [Iterators -> SUBSET Objects] /\ \A j \in Iterators : pending[j] = {}
  BY DEF Init, NoObjects
<1>3. TypeOK
  BY <1>1, <1>2, EmptySeq DEF Init, TypeOK, Calls, Objects
<1>4. PhaseOK /\ NoStaleError /\ RemovedOK /\ AddedOK /\ SignalOK
  BY <1>1 DEF Init, PhaseOK, NoStaleError, RemovedOK, AddedOK, SignalOK, Created
<1>5. ObjectsOK
  BY <1>2 DEF Init, ObjectsOK, Iterators
<1> QED
  BY <1>3, <1>4, <1>5 DEF Inv

LEMMA InvStep == Inv /\ [Next]_vars => Inv'
<1> SUFFICES ASSUME Inv, [Next]_vars PROVE Inv'
  OBVIOUS
<1>1. CASE IOKit
  BY <1>1, MatchedStep, TerminatedStep DEF IOKit
<1>2. CASE Creation
  BY <1>2, RegisterStep, DrainStep, ClearStep DEF Creation
<1>3. CASE hs_monitor_free \/ NewFails
  BY <1>3, ReleaseStep DEF hs_monitor_free, NewFails
<1>4. CASE hs_monitor_new \/ hs_monitor_refresh \/ Dispatched \/ RefreshFails
  BY <1>4, CallStep
<1>5. CASE mach_msg
  BY <1>5, MessageStep
<1>6. CASE darwin_devices_attached \/ AttachFails
  BY <1>6, AttachedStep
<1>7. CASE darwin_devices_detached
  BY <1>7, DetachedStep
<1>8. CASE UNCHANGED vars
  <2>1. UNCHANGED <<services, gone, pending, armed, registered, port, devices, notify_ret, call,
                    excused>>
    BY <1>8 DEF vars
  <2>2. TypeOK'
    BY <2>1 DEF Inv, TypeOK
  <2>3. PhaseOK' /\ ObjectsOK' /\ RemovedOK' /\ AddedOK' /\ SignalOK' /\ NoStaleError'
    BY <2>1 DEF Inv, PhaseOK, ObjectsOK, RemovedOK, AddedOK, SignalOK, Signalled, NoStaleError, Created
  <2> QED
    BY <2>2, <2>3 DEF Inv
<1> QED
  BY <1>1, <1>2, <1>3, <1>4, <1>5, <1>6, <1>7, <1>8 DEF Next, Refresh, Failure

\* What holds at every moment of the monitor's life.
THEOREM Invariance == Spec => []Inv
<1>1. Init => Inv
  BY InvInit
<1>2. Inv /\ [Next]_vars => Inv'
  BY InvStep
<1> QED
  BY <1>1, <1>2, PTL DEF Spec

\* Every variable keeps its type; in particular only iterators that exist are
\* armed or have messages on the port.
THEOREM TypeCorrect == Spec => []TypeOK
<1>1. Inv => TypeOK
  BY DEF Inv
<1> QED
  BY <1>1, Invariance, PTL

\* A device that the table lacks, or has in vain, is in the iterator that will
\* bring it to the notice of hs_monitor_refresh(), unless it was skipped, could
\* not be read or was unplugged while the monitor was created.
THEOREM NothingLostCorrect == Spec => []NothingLost
<1>1. ASSUME Inv PROVE NothingLost
  <2> SUFFICES ASSUME Created, NEW s \in Sessions, NEW c \in Classes
      PROVE  /\ <<s, c>> \in devices \ services /\ s \notin excused \cup LongIds =>
                  s \in pending[Terminated]
             /\ <<s, c>> \in services \ devices /\ <<s, c>> \notin excused => <<s, c>> \in pending[c]
    BY DEF NothingLost
  <2>1. c \in registered
    BY <1>1 DEF Inv, PhaseOK, Iterators
  <2> QED
    BY <1>1, <2>1 DEF Inv, RemovedOK, AddedOK
<1> QED
  BY <1>1, Invariance, PTL

\* Between two calls no iterator holds objects in silence: the descriptor of
\* the monitor is readable, or the iterator is armed, or an error left it.
THEOREM SignalCorrect == Spec => []PendingSignalled
<1>1. ASSUME Inv PROVE PendingSignalled
  <2> SUFFICES ASSUME call.pc = "idle", NEW i \in Iterators \ excused
               PROVE  Contains(port, i) \/ (pending[i] = {} /\ i \in armed)
    BY DEF PendingSignalled
  <2>1. i \in registered
    BY <1>1 DEF Inv, PhaseOK, Created
  <2>2. Signalled(i)
    BY <1>1, <2>1 DEF Inv, SignalOK
  <2> QED
    BY <2>2 DEF Signalled, Working
<1> QED
  BY <1>1, Invariance, PTL

\* No refresh reports the error of an earlier one.
THEOREM ErrorCorrect == Spec => []NoStaleError
<1>1. Inv => NoStaleError
  BY DEF Inv
<1> QED
  BY <1>1, Invariance, PTL

=============================================================================
