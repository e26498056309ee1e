--------------------------- MODULE MonitorProofs ---------------------------
(***************************************************************************)
(* Theorems about the module Monitor, for every set of devices, keys and   *)
(* interfaces and every number of callbacks.                               *)
(***************************************************************************)
EXTENDS Monitor, SequenceTheorems, TLAPS

\* The event in progress: which device it is about, and that the table holds the
\* device as long as callbacks are told of it.
EventOK ==
    /\ call.op = "none" <=> call.pc \in {"idle", "closed"}
    /\ call.pc \in {"add", "unref"} => call.op = "add"
    /\ call.pc = "unlink" => call.op = "remove"
    /\ call.op = "add" => call.dev \in Devs
    /\ call.pc = "add" => call.dev \notin devices
    /\ call.pc = "callback" => call.dev \in devices
    /\ call.op = "remove" => /\ call.dev \in devices
                             /\ call.todo \subseteq devices \ {call.dev}
                             /\ obj[call.dev].state = "DISCONNECTED"

-----------------------------------------------------------------------------
(* The callback list. *)

\* A node of the list, or its head, is found.
LEMMA PositionFound ==
    ASSUME NEW list \in Seq(Ids), NEW c, c = ListHead \/ Contains(list, c)
    PROVE  /\ Position(list, c) \in 0 .. Len(list)
           /\ Position(list, c) = 0 => c = ListHead
           /\ Position(list, c) # 0 => list[Position(list, c)] = c
<1> DEFINE P(i) == IF i = 0 THEN c = ListHead ELSE list[i] = c
<1>1. \E i \in 0 .. Len(list) : P(i)
  <2>1. CASE c = ListHead
    <3>1. 0 \in 0 .. Len(list) /\ P(0)
      BY <2>1, LenProperties
    <3> QED
      BY <3>1
  <2>2. CASE Contains(list, c)
    <3>1. PICK i \in 1 .. Len(list) : list[i] = c
      BY <2>2 DEF Contains
    <3>2. i \in 0 .. Len(list) /\ P(i)
      BY <3>1, LenProperties
    <3> QED
      BY <3>2
  <2> QED
    BY <2>1, <2>2
<1>2. Position(list, c) = CHOOSE i \in 0 .. Len(list) : P(i)
  BY DEF Position
<1>3. Position(list, c) \in 0 .. Len(list) /\ P(Position(list, c))
  BY <1>1, <1>2
<1> QED
  BY <1>3

\* The successor of a node is a node of the list or the list head.
LEMMA NextNodeFound ==
    ASSUME NEW list \in Seq(Ids), NEW c, c = ListHead \/ Contains(list, c)
    PROVE  /\ NextNode(list, c) \in Nodes
           /\ NextNode(list, c) = ListHead \/ Contains(list, NextNode(list, c))
<1> DEFINE p == Position(list, c)
<1>1. p \in 0 .. Len(list) /\ Len(list) \in Nat
  BY PositionFound, LenProperties
<1>2. CASE p = Len(list)
  BY <1>2 DEF NextNode, Nodes
<1>3. CASE p # Len(list)
  <2>1. p + 1 \in 1 .. Len(list)
    BY <1>1, <1>3
  <2>2. NextNode(list, c) = list[p + 1]
    BY <1>3 DEF NextNode
  <2> QED
    BY <2>1, <2>2, ElementOfSeq DEF Contains, Nodes
<1> QED
  BY <1>2, <1>3

\* Taking a node out leaves a list of nodes.
LEMMA DropCallback ==
    ASSUME callbacks \in Seq(Ids), NEW c \in Ids, Contains(callbacks, c)
    PROVE  drop_callback(c) \in Seq(Ids)
<1> DEFINE p == Position(callbacks, c)
<1>1. p \in 1 .. Len(callbacks) /\ Len(callbacks) \in Nat
  BY PositionFound, LenProperties DEF Ids, ListHead
<1>2. SubSeq(callbacks, 1, p - 1) \in Seq(Ids)
  BY <1>1, SubSeqProperties
<1>3. SubSeq(callbacks, p + 1, Len(callbacks)) \in Seq(Ids)
  BY <1>1, SubSeqProperties
<1> QED
  BY <1>2, <1>3, ConcatProperties DEF drop_callback, RemoveAt

\* The loop of trigger_callbacks() stays with its event: it calls a callback, or
\* returns to the function that called it.
LEMMA VisitStep ==
    ASSUME mirror \in [Ids -> SUBSET Devs],
           NEW k \in Calls, k.dev \in Devs, k.op \in {"add", "remove"},
           NEW s, NEW list \in Seq(Ids), NEW c, c = ListHead \/ Contains(list, c),
           Visit(k, s, c, list)
    PROVE  /\ call' \in Calls
           /\ call'.op = k.op /\ call'.dev = k.dev /\ call'.todo = k.todo
           /\ \/ call'.pc = "callback"
              \/ call'.pc = "unref" /\ k.op = "add"
              \/ call'.pc = "unlink" /\ k.op = "remove"
           /\ mirror' \in [Ids -> SUBSET Devs]
<1>1. CASE c = ListHead
  <2>1. call' = Return(k, 0) /\ mirror' = mirror
    BY <1>1 DEF Visit
  <2>2. call' \in Calls
    BY <2>1 DEF Return, Calls, Pcs, Nodes
  <2> QED
    BY <2>1, <2>2 DEF Return, Calls
<1>2. CASE c # ListHead
  <2>1. c \in Ids
    BY <1>2, ElementOfSeq DEF Contains
  <2>2. NextNode(list, c) \in Nodes
    BY <1>2, NextNodeFound
  <2>3. /\ call' = [k EXCEPT !.pc = "callback", !.cur = c, !.next = NextNode(list, c)]
        /\ mirror' = [mirror EXCEPT ![c] = IF s = "ONLINE" THEN @ \cup {k.dev}
                                                         ELSE @ \ {k.dev}]
    BY <1>2 DEF Visit
  <2>4. call' \in Calls
    BY <2>1, <2>2, <2>3 DEF Calls, Pcs, Nodes
  <2>5. mirror' \in [Ids -> SUBSET Devs]
    BY <2>1, <2>3
  <2> QED
    BY <2>3, <2>4, <2>5 DEF Calls
<1> QED
  BY <1>1, <1>2

\* The same of its first turn.
LEMMA StartStep ==
    ASSUME mirror \in [Ids -> SUBSET Devs], callbacks \in Seq(Ids),
           NEW k \in Calls, k.dev \in Devs, k.op \in {"add", "remove"},
           NEW s, StartDispatch(k, s)
    PROVE  /\ call' \in Calls
           /\ call'.op = k.op /\ call'.dev = k.dev /\ call'.todo = k.todo
           /\ \/ call'.pc = "callback"
              \/ call'.pc = "unref" /\ k.op = "add"
              \/ call'.pc = "unlink" /\ k.op = "remove"
           /\ mirror' \in [Ids -> SUBSET Devs]
<1>1. NextNode(callbacks, ListHead) = ListHead
      \/ Contains(callbacks, NextNode(callbacks, ListHead))
  BY NextNodeFound
<1>2. Visit(k, s, NextNode(callbacks, ListHead), callbacks)
  BY DEF StartDispatch
<1> QED
  BY <1>1, <1>2, VisitStep

\* The same of its later turns, unless it finds its next node freed.
LEMMA AdvanceStep ==
    ASSUME mirror \in [Ids -> SUBSET Devs],
           call \in Calls, call.dev \in Devs, call.op \in {"add", "remove"},
           NEW list \in Seq(Ids), Advance(list)
    PROVE  /\ call' \in Calls
           /\ call'.op = call.op /\ call'.dev = call.dev /\ call'.todo = call.todo
           /\ \/ call'.pc \in {"callback", "crashed"}
              \/ call'.pc = "unref" /\ call.op = "add"
              \/ call'.pc = "unlink" /\ call.op = "remove"
           /\ mirror' \in [Ids -> SUBSET Devs]
<1>1. CASE Crash
  BY <1>1 DEF Crash, Calls, Pcs
<1>2. CASE (call.next = ListHead \/ Contains(list, call.next))
           /\ Visit(call, obj[call.dev].state, call.next, list)
  BY <1>2, VisitStep
<1> QED
  BY <1>1, <1>2 DEF Advance

-----------------------------------------------------------------------------
(* References. *)

\* Every reference counts once.
LEMMA OneEach ==
    ASSUME NEW d
    PROVE  /\ TableRef(d) \in {0, 1} /\ (TableRef(d) = 1 <=> d \in devices)
           /\ PlatformRef(d) \in {0, 1}
           /\ PlatformRef(d) = 1 <=> (call.op = "add" /\ call.dev = d)
BY DEF TableRef, PlatformRef

\* A step that neither takes nor drops a reference.
LEMMA KeepRefs ==
    ASSUME RefcountExact, UNCHANGED <<live, refcount, devices, users, handles>>,
           \A d \in Devs : (call'.op = "add" /\ call'.dev = d)
                              <=> (call.op = "add" /\ call.dev = d)
    PROVE  RefcountExact'
<1> SUFFICES ASSUME NEW d \in Devs
             PROVE  /\ refcount'[d] = Owners(d)'
                    /\ (d \in live') <=> (Owners(d)' > 0)
  BY DEF RefcountExact
<1>1. TableRef(d)' = TableRef(d)
  BY DEF TableRef
<1>2. PlatformRef(d)' = PlatformRef(d)
  BY DEF PlatformRef
<1>3. Owners(d)' = Owners(d)
  BY <1>1, <1>2 DEF Owners
<1> QED
  BY <1>3 DEF RefcountExact

\* hs_device_ref() on an object that is allocated, by a new owner.
LEMMA TakeRef ==
    ASSUME TypeOK, RefcountExact, NEW d \in Devs, d \in live,
           refcount' = hs_device_ref(d), live' = live,
           Owners(d)' = Owners(d) + 1,
           \A e \in Devs \ {d} : Owners(e)' = Owners(e)
    PROVE  RefcountExact' /\ refcount' \in [Devs -> Nat]
<1>1. \A e \in Devs : /\ refcount[e] = Owners(e)
                      /\ (e \in live) <=> (Owners(e) > 0)
                      /\ refcount[e] \in Nat
  BY DEF TypeOK, RefcountExact
<1>2. refcount' = [refcount EXCEPT ![d] = @ + 1] /\ refcount \in [Devs -> Nat]
  BY DEF hs_device_ref, TypeOK
<1>3. ASSUME NEW e \in Devs
      PROVE  /\ refcount'[e] = Owners(e)'
             /\ (e \in live') <=> (Owners(e)' > 0)
  <2>1. CASE e = d
    BY <1>1, <1>2, <2>1
  <2>2. CASE e # d
    BY <1>1, <1>2, <2>2
  <2> QED
    BY <2>1, <2>2
<1>4. refcount' \in [Devs -> Nat]
  BY <1>2
<1> QED
  BY <1>3, <1>4 DEF RefcountExact

\* hs_device_unref() on objects of which one owner each lets go.
LEMMA DropRefs ==
    ASSUME TypeOK, RefcountExact, NEW S \in SUBSET Devs,
           NEW o \in [Devs -> Objects], hs_device_unref(S, o),
           \A e \in S : Owners(e) > 0 /\ Owners(e)' = Owners(e) - 1,
           \A e \in Devs \ S : Owners(e)' = Owners(e)
    PROVE  /\ RefcountExact'
           /\ refcount' \in [Devs -> Nat]
           /\ live' \subseteq Devs
           /\ obj' \in [Devs -> Objects]
<1>1. \A e \in Devs : /\ refcount[e] = Owners(e)
                      /\ (e \in live) <=> (Owners(e) > 0)
                      /\ refcount[e] \in Nat
  BY DEF TypeOK, RefcountExact
<1>2. /\ refcount' = [d \in Devs |-> IF d \in S THEN refcount[d] - 1 ELSE refcount[d]]
      /\ live' = live \ Dropped(S)
      /\ obj' = [d \in Devs |-> IF d \in Dropped(S) THEN Blank ELSE o[d]]
  BY DEF hs_device_unref
<1>3. \A e : e \in Dropped(S) <=> e \in S /\ ~(refcount[e] > 1)
  BY DEF Dropped
<1>4. ASSUME NEW e \in Devs
      PROVE  /\ refcount'[e] = Owners(e)'
             /\ refcount'[e] \in Nat
             /\ (e \in live') <=> (Owners(e)' > 0)
  <2>1. CASE e \in S
    BY <1>1, <1>2, <1>3, <2>1
  <2>2. CASE e \notin S
    BY <1>1, <1>2, <1>3, <2>2
  <2> QED
    BY <2>1, <2>2
<1>5. RefcountExact'
  BY <1>4 DEF RefcountExact
<1>6. refcount' \in [Devs -> Nat]
  BY <1>2, <1>4
<1>7. live' \subseteq Devs
  BY <1>2 DEF TypeOK
<1>8. Blank \in Objects
  BY DEF Blank, Objects
<1>9. obj' \in [Devs -> Objects]
  BY <1>2, <1>8
<1> QED
  BY <1>5, <1>6, <1>7, <1>9

-----------------------------------------------------------------------------
(* The inductive invariant: the count is exact only together with what the  *)
(* monitor's thread knows of its device, and is a natural number only       *)
(* because it is exact.                                                     *)

IInv == TypeOK /\ RefcountExact /\ EventOK

\* It holds of a monitor that was just created.
LEMMA InitIInv == Init => IInv
<1> SUFFICES ASSUME Init PROVE IInv
  OBVIOUS
<1>1. call = Idle /\ Idle \in Calls /\ Blank \in Objects
  BY DEF Init, Idle, Blank, Calls, Objects, Pcs, Nodes, ListHead
<1>2. TypeOK
  <2>1. callbacks \in Seq(Ids)
    BY DEF Init
  <2> QED
    BY <1>1, <2>1, MonitorAssumption DEF Init, TypeOK
<1>3. EventOK
  BY <1>1 DEF EventOK, Idle
<1>4. RefcountExact
  <2>1. ASSUME NEW d \in Devs PROVE Owners(d) = 0
    <3>1. TableRef(d) = 0 /\ PlatformRef(d) = 0
      BY <1>1 DEF Init, Idle, TableRef, PlatformRef
    <3> QED
      BY <3>1 DEF Owners, Init
  <2> QED
    BY <2>1 DEF RefcountExact, Init
<1> QED
  BY <1>2, <1>3, <1>4 DEF IInv

\* The application can reach allocated objects only.
LEMMA ReachableLive ==
    ASSUME IInv, NEW d \in Devs, Reachable(d)
    PROVE  d \in live
<1>1. users[d] > 0 \/ d \in devices
  BY DEF Reachable, EventOK, IInv
<1>2. users[d] \in Nat /\ handles[d] \in Nat
  BY DEF IInv, TypeOK
<1>3. Owners(d) > 0
  BY <1>1, <1>2, OneEach DEF Owners
<1> QED
  BY <1>3 DEF IInv, RefcountExact

\* The application's references and handles.
LEMMA ReferenceIInv ==
    ASSUME IInv, NEW d \in Devs,
           UserRef(d) \/ UserUnref(d) \/ hs_device_open(d) \/ hs_handle_close(d)
    PROVE  IInv'
<1>1. /\ call' = call /\ devices' = devices
      /\ callbacks' = callbacks /\ callback_id' = callback_id
      /\ mirror' = mirror /\ deaf' = deaf
  BY DEF UserRef, UserUnref, hs_device_open, hs_handle_close, cbVars, obsVars
<1>2. /\ TypeOK /\ RefcountExact /\ EventOK
      /\ users \in [Devs -> Nat] /\ handles \in [Devs -> Nat]
      /\ obj \in [Devs -> Objects] /\ live \subseteq Devs
  BY DEF IInv, TypeOK
<1>3. \A e : TableRef(e)' = TableRef(e) /\ PlatformRef(e)' = PlatformRef(e)
  BY <1>1 DEF TableRef, PlatformRef
<1>4. \A e : TableRef(e) \in Nat /\ PlatformRef(e) \in Nat
  BY OneEach
<1>5. /\ RefcountExact' /\ refcount' \in [Devs -> Nat] /\ live' \subseteq Devs
      /\ obj' \in [Devs -> Objects]
      /\ users' \in [Devs -> Nat] /\ handles' \in [Devs -> Nat]
      /\ \A e \in Devs : obj'[e] = obj[e] \/ obj'[e] = Blank
  <2>1. CASE UserRef(d) \/ hs_device_open(d)
    <3>1. /\ refcount' = hs_device_ref(d) /\ live' = live /\ obj' = obj
          /\ \/ users' = [users EXCEPT ![d] = @ + 1] /\ handles' = handles
             \/ handles' = [handles EXCEPT ![d] = @ + 1] /\ users' = users
      BY <2>1 DEF UserRef, hs_device_open
    <3>2. d \in live
      BY <2>1, ReachableLive DEF UserRef, hs_device_open
    <3>3. Owners(d)' = Owners(d) + 1
      BY <1>2, <1>3, <1>4, <3>1 DEF Owners
    <3>4. \A e \in Devs \ {d} : Owners(e)' = Owners(e)
      BY <1>2, <1>3, <3>1 DEF Owners
    <3>5. RefcountExact' /\ refcount' \in [Devs -> Nat]
      BY <1>2, <3>1, <3>2, <3>3, <3>4, TakeRef
    <3> QED
      BY <1>2, <3>1, <3>5
  <2>2. CASE UserUnref(d) \/ hs_handle_close(d)
    <3>1. /\ hs_device_unref({d}, obj)
          /\ \/ users[d] > 0 /\ users' = [users EXCEPT ![d] = @ - 1] /\ handles' = handles
             \/ handles[d] > 0 /\ handles' = [handles EXCEPT ![d] = @ - 1] /\ users' = users
      BY <2>2 DEF UserUnref, hs_handle_close
    <3>2. Owners(d) > 0 /\ Owners(d)' = Owners(d) - 1
      BY <1>2, <1>3, <1>4, <3>1 DEF Owners
    <3>3. \A e \in Devs \ {d} : Owners(e)' = Owners(e)
      BY <1>2, <1>3, <3>1 DEF Owners
    <3>4. /\ RefcountExact' /\ refcount' \in [Devs -> Nat]
          /\ live' \subseteq Devs /\ obj' \in [Devs -> Objects]
      BY <1>2, <3>1, <3>2, <3>3, DropRefs
    <3>5. users' \in [Devs -> Nat] /\ handles' \in [Devs -> Nat]
      BY <1>2, <3>1
    <3>6. \A e \in Devs : obj'[e] = obj[e] \/ obj'[e] = Blank
      BY <3>1 DEF hs_device_unref
    <3> QED
      BY <3>4, <3>5, <3>6
  <2> QED
    BY <2>1, <2>2
<1>6. TypeOK'
  BY <1>1, <1>2, <1>5 DEF TypeOK
<1>7. EventOK'
  <2>1. ASSUME call.op = "remove" PROVE obj'[call.dev].state = "DISCONNECTED"
    <3>1. call.dev \in Devs /\ obj[call.dev].state = "DISCONNECTED"
      BY <1>2, <2>1 DEF EventOK, TypeOK
    <3>2. Blank.state = "DISCONNECTED"
      BY DEF Blank
    <3>3. obj'[call.dev] = obj[call.dev] \/ obj'[call.dev] = Blank
      BY <1>5, <3>1
    <3> QED
      BY <3>1, <3>2, <3>3
  <2> QED
    BY <1>1, <1>2, <2>1 DEF EventOK
<1> QED
  BY <1>5, <1>6, <1>7 DEF IInv

\* Registration and deregistration.
LEMMA ListIInv ==
    ASSUME IInv,
           \/ hs_monitor_register_callback
           \/ \E id \in Ids : hs_monitor_deregister_callback(id)
    PROVE  IInv'
<1>1. /\ call' = call /\ devices' = devices /\ live' = live /\ obj' = obj
      /\ refcount' = refcount /\ users' = users /\ handles' = handles
  BY DEF hs_monitor_register_callback, hs_monitor_deregister_callback,
         devVars, appVars
<1>2. TypeOK /\ RefcountExact /\ EventOK /\ callbacks \in Seq(Ids)
  BY DEF IInv, TypeOK
<1>3. /\ callbacks' \in Seq(Ids) /\ callback_id' \in 0 .. MaxCallbacks
      /\ mirror' \in [Ids -> SUBSET Devs] /\ deaf' \subseteq Ids
  <2>1. CASE hs_monitor_register_callback
    <3>1. callback_id \in Ids /\ callback_id + 1 \in 0 .. MaxCallbacks
      BY <1>2, <2>1, MonitorAssumption DEF TypeOK, Ids, hs_monitor_register_callback
    <3>2. callbacks' \in Seq(Ids)
      BY <1>2, <2>1, <3>1, AppendProperties DEF hs_monitor_register_callback
    <3>3. Online \subseteq Devs
      BY <1>2 DEF Online, TypeOK
    <3> QED
      BY <1>2, <2>1, <3>1, <3>2, <3>3 DEF TypeOK, hs_monitor_register_callback
  <2>2. CASE \E id \in Ids : hs_monitor_deregister_callback(id)
    BY <1>2, <2>2, DropCallback DEF TypeOK, hs_monitor_deregister_callback
  <2> QED
    BY <2>1, <2>2
<1>4. TypeOK'
  BY <1>1, <1>2, <1>3 DEF TypeOK
<1>5. RefcountExact'
  BY <1>1, <1>2, KeepRefs
<1>6. EventOK'
  BY <1>1, <1>2 DEF EventOK
<1> QED
  BY <1>4, <1>5, <1>6 DEF IInv

\* The return of a callback.
LEMMA CallbackIInv ==
    ASSUME IInv, CallbackContinues \/ CallbackLeaves \/ CallbackFails
    PROVE  IInv'
<1>1. /\ devices' = devices /\ live' = live /\ obj' = obj /\ refcount' = refcount
      /\ users' = users /\ handles' = handles /\ callback_id' = callback_id
  BY DEF CallbackContinues, CallbackLeaves, CallbackFails, devVars, appVars, cbVars
<1>2. TypeOK /\ RefcountExact /\ EventOK /\ callbacks \in Seq(Ids) /\ call \in Calls
      /\ mirror \in [Ids -> SUBSET Devs] /\ call.pc = "callback"
  BY DEF IInv, TypeOK, CallbackContinues, CallbackLeaves, CallbackFails
<1>3. call.dev \in devices /\ call.dev \in Devs /\ call.op \in {"add", "remove"}
  BY <1>2 DEF EventOK, TypeOK, Calls
<1>4. /\ callbacks' \in Seq(Ids) /\ deaf' \subseteq Ids
      /\ call' \in Calls
      /\ mirror' \in [Ids -> SUBSET Devs]
      /\ call'.op = call.op /\ call'.dev = call.dev /\ call'.todo = call.todo
      /\ \/ call'.pc \in {"callback", "crashed"}
         \/ call'.pc = "unref" /\ call.op = "add"
         \/ call'.pc = "unlink" /\ call.op = "remove"
  <2>1. CASE CallbackContinues
    <3>1. Advance(callbacks) /\ callbacks' = callbacks /\ deaf' = deaf
      BY <2>1 DEF CallbackContinues, cbVars
    <3> QED
      BY <1>2, <1>3, <3>1, AdvanceStep DEF TypeOK
  <2>2. CASE CallbackLeaves
    <3>1. deaf' \subseteq Ids
      BY <1>2, <2>2 DEF CallbackLeaves, TypeOK
    <3>2. CASE Contains(callbacks, call.cur)
      <4>1. callbacks' = drop_callback(call.cur) /\ Advance(callbacks')
        BY <2>2, <3>2 DEF CallbackLeaves
      <4>2. call.cur \in Ids
        BY <1>2, <3>2, ElementOfSeq DEF Contains
      <4>3. callbacks' \in Seq(Ids)
        BY <1>2, <3>2, <4>1, <4>2, DropCallback
      <4> QED
        BY <1>2, <1>3, <3>1, <4>1, <4>3, AdvanceStep
    <3>3. CASE ~Contains(callbacks, call.cur)
      <4>1. Crash /\ callbacks' = callbacks
        BY <2>2, <3>3 DEF CallbackLeaves
      <4> QED
        BY <1>2, <1>3, <3>1, <4>1 DEF Crash, Calls, Pcs
    <3> QED
      BY <3>2, <3>3
  <2>3. CASE CallbackFails
    <3>1. call' = Return(call, -1) /\ mirror' = mirror /\ callbacks' = callbacks
      BY <2>3 DEF CallbackFails, cbVars
    <3>2. call' \in Calls
      BY <1>2, <3>1 DEF Return, Calls, Pcs, Nodes
    <3>3. Unreached \subseteq Ids
      BY <1>2, ElementOfSeq DEF Unreached
    <3>4. deaf' \subseteq Ids
      BY <1>2, <2>3, <3>3 DEF CallbackFails, TypeOK
    <3> QED
      BY <1>2, <1>3, <3>1, <3>2, <3>4 DEF Return, Calls
  <2> QED
    BY <2>1, <2>2, <2>3
<1>5. TypeOK'
  BY <1>1, <1>2, <1>4 DEF TypeOK
<1>6. RefcountExact'
  BY <1>1, <1>2, <1>4, KeepRefs
<1>7. EventOK'
  BY <1>1, <1>2, <1>3, <1>4 DEF EventOK
<1> QED
  BY <1>5, <1>6, <1>7 DEF IInv

\* The fields that the monitor sets.
LEMMA SetField ==
    ASSUME NEW x \in Objects
    PROVE  /\ [x EXCEPT !.state = "ONLINE"] \in Objects
           /\ [x EXCEPT !.state = "DISCONNECTED"] \in Objects
           /\ [x EXCEPT !.monitor = TRUE] \in Objects
           /\ [x EXCEPT !.monitor = FALSE] \in Objects
BY DEF Objects

\* _hs_monitor_remove() marks one device.
LEMMA DisconnectObject ==
    ASSUME obj \in [Devs -> Objects], NEW d \in Devs
    PROVE  /\ Disconnect(d) \in [Devs -> Objects]
           /\ Disconnect(d)[d].state = "DISCONNECTED"
           /\ \A e \in Devs \ {d} : Disconnect(d)[e] = obj[e]
<1>1. [obj[d] EXCEPT !.state = "DISCONNECTED"] \in Objects
  BY SetField
<1>2. [obj[d] EXCEPT !.state = "DISCONNECTED"].state = "DISCONNECTED"
  <2>1. obj[d] \in Objects
    OBVIOUS
  <2> QED
    BY <2>1 DEF Objects
<1> QED
  BY <1>1, <1>2 DEF Disconnect

\* A device object is built.
LEMMA ArrivalIInv ==
    ASSUME IInv, NEW d \in Devs, NEW k \in Keys, NEW i \in Ifaces,
           read_device_information(d, k, i)
    PROVE  IInv'
<1>1. /\ TypeOK /\ RefcountExact /\ EventOK /\ call.pc = "idle" /\ d \notin live
      /\ live' = live \cup {d} /\ refcount' = [refcount EXCEPT ![d] = 1]
      /\ obj' = [obj EXCEPT ![d] = [Blank EXCEPT !.key = k, !.iface = i]]
      /\ call' = [Idle EXCEPT !.pc = "add", !.op = "add", !.dev = d]
      /\ devices' = devices /\ callbacks' = callbacks
      /\ callback_id' = callback_id /\ users' = users /\ handles' = handles
      /\ mirror' = mirror /\ deaf' = deaf
  BY DEF IInv, read_device_information, cbVars, appVars
<1>2. /\ call' \in Calls /\ call'.op = "add" /\ call'.pc = "add"
      /\ call'.dev = d /\ call'.todo = {}
  BY <1>1 DEF Idle, Calls, Pcs, Nodes, ListHead
<1>3. [Blank EXCEPT !.key = k, !.iface = i] \in Objects
  BY DEF Blank, Objects
<1>4. obj' \in [Devs -> Objects]
  BY <1>1, <1>3 DEF TypeOK
<1>5. \A e : PlatformRef(e) = 0
  BY <1>1 DEF PlatformRef, EventOK
<1>6. \A e : TableRef(e)' = TableRef(e)
  BY <1>1 DEF TableRef
<1>7. \A e \in Devs : users[e] \in Nat /\ handles[e] \in Nat /\ TableRef(e) \in {0, 1}
  BY <1>1, OneEach DEF TypeOK
<1>8. Owners(d) = 0 /\ TableRef(d) = 0
  <2>1. ~(Owners(d) > 0)
    BY <1>1 DEF RefcountExact
  <2> QED
    BY <1>5, <1>7, <2>1 DEF Owners
<1>9. d \notin devices
  BY <1>8 DEF TableRef
<1>10. TypeOK'
  BY <1>1, <1>2, <1>4 DEF TypeOK
<1>11. RefcountExact'
  <2>1. ASSUME NEW e \in Devs
        PROVE  /\ refcount'[e] = Owners(e)'
               /\ (e \in live') <=> (Owners(e)' > 0)
    <3>1. CASE e = d
      <4>1. PlatformRef(e)' = 1
        BY <1>2, <3>1 DEF PlatformRef
      <4>2. Owners(e)' = 1
        BY <1>1, <1>5, <1>6, <1>7, <1>8, <3>1, <4>1 DEF Owners
      <4> QED
        BY <1>1, <3>1, <4>2 DEF TypeOK
    <3>2. CASE e # d
      <4>1. PlatformRef(e)' = 0
        BY <1>2, <3>2 DEF PlatformRef
      <4>2. Owners(e)' = Owners(e)
        BY <1>1, <1>5, <1>6, <4>1 DEF Owners
      <4> QED
        BY <1>1, <3>2, <4>2 DEF TypeOK, RefcountExact
    <3> QED
      BY <3>1, <3>2
  <2> QED
    BY <2>1 DEF RefcountExact
<1>12. EventOK'
  BY <1>1, <1>2, <1>9 DEF EventOK
<1> QED
  BY <1>10, <1>11, <1>12 DEF IInv

\* A device object is added to the table, or known already.
LEMMA AddIInv ==
    ASSUME IInv, hs_monitor_add
    PROVE  IInv'
<1>0. PICK d \in Devs : d = call.dev
  BY DEF IInv, EventOK, hs_monitor_add, ReleaseDevice
<1>1. /\ TypeOK /\ RefcountExact /\ EventOK /\ call.pc = "add" /\ call.op = "add"
      /\ d = call.dev /\ d \notin devices /\ call \in Calls
      /\ live' = live /\ callbacks' = callbacks
      /\ callback_id' = callback_id /\ users' = users /\ handles' = handles
      /\ deaf' = deaf
  BY <1>0 DEF IInv, hs_monitor_add, cbVars, appVars, EventOK, TypeOK
<1>2. CASE IsKnown(d)
  <2>1. /\ call' = [call EXCEPT !.pc = "unref"]
        /\ UNCHANGED <<obj, refcount, devices, mirror>>
    BY <1>1, <1>2 DEF hs_monitor_add
  <2>2. /\ call' \in Calls /\ call'.pc = "unref" /\ call'.op = "add"
        /\ call'.dev = d
    BY <1>1, <2>1 DEF Calls, Pcs
  <2>3. TypeOK'
    BY <1>1, <2>1, <2>2 DEF TypeOK
  <2>4. RefcountExact'
    BY <1>1, <2>1, <2>2, KeepRefs
  <2>5. EventOK'
    BY <1>1, <2>1, <2>2 DEF EventOK
  <2> QED
    BY <2>3, <2>4, <2>5 DEF IInv
<1>3. CASE ~IsKnown(d)
  <2>1. /\ obj' = [obj EXCEPT ![d].state = "ONLINE", ![d].monitor = TRUE]
        /\ refcount' = hs_device_ref(d)
        /\ devices' = devices \cup {d}
        /\ StartDispatch(call, "ONLINE")
    BY <1>1, <1>3 DEF hs_monitor_add
  <2>2. /\ call' \in Calls
        /\ call'.op = "add" /\ call'.dev = d
        /\ call'.pc = "callback" \/ call'.pc = "unref"
        /\ mirror' \in [Ids -> SUBSET Devs]
    BY <1>1, <2>1, StartStep DEF TypeOK
  <2>3. \A e \in Devs : PlatformRef(e)' = PlatformRef(e) /\ PlatformRef(e) \in Nat
    BY <1>1, <2>2 DEF PlatformRef
  <2>4. /\ TableRef(d) = 0 /\ TableRef(d)' = 1
        /\ \A e \in Devs \ {d} : TableRef(e)' = TableRef(e)
    BY <1>1, <2>1 DEF TableRef
  <2>5. users[d] \in Nat /\ handles[d] \in Nat /\ PlatformRef(d) = 1
    BY <1>1 DEF TypeOK, PlatformRef
  <2>6. Owners(d)' = Owners(d) + 1 /\ Owners(d) > 0
    BY <1>1, <2>3, <2>4, <2>5 DEF Owners
  <2>7. \A e \in Devs \ {d} : Owners(e)' = Owners(e)
    BY <1>1, <2>3, <2>4 DEF Owners
  <2>8. RefcountExact' /\ refcount' \in [Devs -> Nat]
    <3>1. d \in live
      BY <1>1, <2>6 DEF RefcountExact
    <3> QED
      BY <1>1, <2>1, <2>6, <2>7, <3>1, TakeRef
  <2>9. obj' \in [Devs -> Objects]
    <3> DEFINE o == [obj EXCEPT ![d].state = "ONLINE"]
    <3>1. obj \in [Devs -> Objects]
      BY <1>1 DEF TypeOK
    <3>2. o \in [Devs -> Objects]
      BY <3>1, SetField
    <3>3. [o[d] EXCEPT !.monitor = TRUE] \in Objects
      BY <3>2, SetField
    <3>4. [o EXCEPT ![d].monitor = TRUE] \in [Devs -> Objects]
      BY <3>2, <3>3
    <3> QED
      BY <2>1, <3>4
  <2>10. TypeOK'
    BY <1>1, <2>1, <2>2, <2>8, <2>9 DEF TypeOK
  <2>11. EventOK'
    BY <1>1, <2>1, <2>2 DEF EventOK
  <2> QED
    BY <2>8, <2>10, <2>11 DEF IInv
<1> QED
  BY <1>2, <1>3

\* The platform code drops its reference.
LEMMA ReleaseIInv ==
    ASSUME IInv, ReleaseDevice
    PROVE  IInv'
<1>0. PICK d \in Devs : d = call.dev
  BY DEF IInv, EventOK, hs_monitor_add, ReleaseDevice
<1>1. /\ TypeOK /\ RefcountExact /\ EventOK /\ call.pc = "unref" /\ call.op = "add"
      /\ d = call.dev /\ call \in Calls
      /\ hs_device_unref({d}, obj) /\ call' = [Idle EXCEPT !.ret = call.ret]
      /\ devices' = devices /\ callbacks' = callbacks
      /\ callback_id' = callback_id /\ users' = users /\ handles' = handles
      /\ mirror' = mirror /\ deaf' = deaf
  BY <1>0 DEF IInv, ReleaseDevice, cbVars, appVars, obsVars, EventOK, TypeOK
<1>2. call' \in Calls /\ call'.pc = "idle" /\ call'.op = "none"
  BY <1>1 DEF Idle, Calls, Pcs, Nodes, ListHead
<1>3. \A e \in Devs : TableRef(e)' = TableRef(e) /\ TableRef(e) \in Nat
  BY <1>1 DEF TableRef
<1>4. /\ PlatformRef(d) = 1 /\ PlatformRef(d)' = 0
      /\ \A e \in Devs \ {d} : PlatformRef(e)' = PlatformRef(e)
  BY <1>1, <1>2 DEF PlatformRef
<1>5. users[d] \in Nat /\ handles[d] \in Nat
  BY <1>1 DEF TypeOK
<1>6. Owners(d) > 0 /\ Owners(d)' = Owners(d) - 1
  BY <1>1, <1>3, <1>4, <1>5 DEF Owners
<1>7. \A e \in Devs \ {d} : Owners(e)' = Owners(e)
  BY <1>1, <1>3, <1>4 DEF Owners
<1>8. /\ RefcountExact' /\ refcount' \in [Devs -> Nat]
      /\ live' \subseteq Devs /\ obj' \in [Devs -> Objects]
  <2>1. obj \in [Devs -> Objects]
    BY <1>1 DEF TypeOK
  <2> QED
    BY <1>1, <1>6, <1>7, <2>1, DropRefs
<1>9. TypeOK'
  BY <1>1, <1>2, <1>8 DEF TypeOK
<1>10. EventOK'
  BY <1>2 DEF EventOK
<1> QED
  BY <1>8, <1>9, <1>10 DEF IInv

\* A device is marked as disconnected and its removal announced.
LEMMA RemoveIInv ==
    ASSUME IInv, NEW k \in Keys, hs_monitor_remove(k)
    PROVE  IInv'
<1>1. PICK d \in devices :
        /\ obj[d].key = k
        /\ obj' = Disconnect(d)
        /\ StartDispatch([Idle EXCEPT !.op = "remove", !.dev = d,
                                      !.todo = {e \in devices \ {d} : obj[e].key = k}],
                         Disconnect(d)[d].state)
  BY DEF hs_monitor_remove
<1> DEFINE todo == {e \in devices \ {d} : obj[e].key = k}
           event == [Idle EXCEPT !.op = "remove", !.dev = d, !.todo = todo]
<1>2. /\ TypeOK /\ RefcountExact /\ EventOK /\ call.op = "none" /\ d \in Devs
      /\ live' = live /\ refcount' = refcount /\ devices' = devices
      /\ callbacks' = callbacks /\ callback_id' = callback_id
      /\ users' = users /\ handles' = handles /\ deaf' = deaf
  BY DEF IInv, hs_monitor_remove, cbVars, appVars, EventOK, TypeOK
<1>3. /\ event \in Calls /\ event.op = "remove" /\ event.dev = d /\ event.todo = todo
  <2>1. todo \in SUBSET Devs
    BY <1>2 DEF TypeOK
  <2> HIDE DEF todo
  <2> QED
    BY <1>2, <2>1 DEF Idle, Calls, Pcs, Nodes, ListHead
<1>4. mirror \in [Ids -> SUBSET Devs] /\ callbacks \in Seq(Ids)
  BY <1>2 DEF TypeOK
<1>5. StartDispatch(event, Disconnect(d)[d].state)
  BY <1>1
<1> HIDE DEF event
<1>6. /\ call' \in Calls /\ call'.op = "remove" /\ call'.dev = d /\ call'.todo = todo
      /\ call'.pc = "callback" \/ call'.pc = "unlink"
      /\ mirror' \in [Ids -> SUBSET Devs]
  BY <1>2, <1>3, <1>4, <1>5, StartStep
<1>7. obj' \in [Devs -> Objects] /\ obj'[d].state = "DISCONNECTED"
  BY <1>1, <1>2, DisconnectObject DEF TypeOK
<1>8. TypeOK'
  BY <1>2, <1>6, <1>7 DEF TypeOK
<1>9. RefcountExact'
  BY <1>2, <1>6, KeepRefs
<1>10. EventOK'
  BY <1>2, <1>6, <1>7 DEF EventOK
<1> QED
  BY <1>8, <1>9, <1>10 DEF IInv

\* A device that is disconnected leaves the table.
LEMMA UnlinkIInv ==
    ASSUME IInv, UnlinkDevice
    PROVE  IInv'
<1>0. PICK d \in Devs : d = call.dev
  BY DEF IInv, EventOK, TypeOK, UnlinkDevice
<1>1. /\ TypeOK /\ RefcountExact /\ EventOK /\ call.pc = "unlink" /\ call.op = "remove"
      /\ d = call.dev /\ d \in devices /\ call \in Calls
      /\ devices' = devices \ {d} /\ callbacks' = callbacks
      /\ callback_id' = callback_id /\ users' = users /\ handles' = handles
      /\ deaf' = deaf
      /\ call.todo \subseteq devices \ {d}
  BY <1>0 DEF IInv, UnlinkDevice, cbVars, appVars, EventOK, TypeOK
<1>2. /\ obj \in [Devs -> Objects] /\ mirror \in [Ids -> SUBSET Devs]
      /\ callbacks \in Seq(Ids) /\ devices \subseteq Devs
      /\ users[d] \in Nat /\ handles[d] \in Nat
  BY <1>1 DEF TypeOK
<1>3. ASSUME NEW o \in [Devs -> Objects], hs_device_unref({d}, o), call'.op # "add"
      PROVE  /\ RefcountExact' /\ refcount' \in [Devs -> Nat]
             /\ live' \subseteq Devs /\ obj' \in [Devs -> Objects]
  <2>1. \A e \in Devs : PlatformRef(e) = 0 /\ PlatformRef(e)' = 0
    BY <1>1, <1>3 DEF PlatformRef
  <2>2. /\ TableRef(d) = 1 /\ TableRef(d)' = 0
        /\ \A e \in Devs \ {d} : TableRef(e)' = TableRef(e)
    BY <1>1 DEF TableRef
  <2>3. Owners(d) > 0 /\ Owners(d)' = Owners(d) - 1
    BY <1>1, <1>2, <2>1, <2>2 DEF Owners
  <2>4. \A e \in Devs \ {d} : Owners(e)' = Owners(e)
    BY <1>1, <2>1, <2>2 DEF Owners
  <2> QED
    BY <1>1, <1>3, <2>3, <2>4, DropRefs
<1>4. CASE /\ hs_device_unref({d}, obj)
           /\ call' = Idle
           /\ UNCHANGED mirror
  <2>1. call' \in Calls /\ call'.pc = "idle" /\ call'.op = "none"
    BY <1>4 DEF Idle, Calls, Pcs, Nodes, ListHead
  <2>2. /\ RefcountExact' /\ refcount' \in [Devs -> Nat]
        /\ live' \subseteq Devs /\ obj' \in [Devs -> Objects]
    BY <1>2, <1>3, <1>4, <2>1
  <2>3. TypeOK'
    BY <1>1, <1>2, <1>4, <2>1, <2>2 DEF TypeOK
  <2>4. EventOK'
    BY <2>1 DEF EventOK
  <2> QED
    BY <2>2, <2>3, <2>4 DEF IInv
<1>5. ASSUME NEW e \in call.todo, hs_device_unref({d}, Disconnect(e)),
             StartDispatch([call EXCEPT !.dev = e, !.todo = @ \ {e}],
                           Disconnect(e)[e].state)
      PROVE  IInv'
  <2> DEFINE event == [call EXCEPT !.dev = e, !.todo = @ \ {e}]
  <2>1. e \in devices /\ e # d /\ e \in Devs
    BY <1>1, <1>2
  <2>2. /\ event \in Calls /\ event.op = "remove" /\ event.dev = e
        /\ event.todo = call.todo \ {e}
    BY <1>1, <2>1 DEF Calls
  <2>3. StartDispatch(event, Disconnect(e)[e].state)
    BY <1>5
  <2> HIDE DEF event
  <2>4. /\ call' \in Calls /\ call'.op = "remove" /\ call'.dev = e
        /\ call'.todo = call.todo \ {e}
        /\ call'.pc = "callback" \/ call'.pc = "unlink"
        /\ mirror' \in [Ids -> SUBSET Devs]
    BY <1>2, <2>1, <2>2, <2>3, StartStep
  <2>5. /\ Disconnect(e) \in [Devs -> Objects]
        /\ Disconnect(e)[e].state = "DISCONNECTED"
    BY <1>2, <2>1, DisconnectObject
  <2>6. /\ RefcountExact' /\ refcount' \in [Devs -> Nat]
        /\ live' \subseteq Devs /\ obj' \in [Devs -> Objects]
    BY <1>3, <1>5, <2>4, <2>5
  <2>7. obj'[e] = Disconnect(e)[e]
    BY <1>5, <2>1 DEF hs_device_unref, Dropped
  <2>8. TypeOK'
    BY <1>1, <1>2, <2>4, <2>6 DEF TypeOK
  <2>9. EventOK'
    BY <1>1, <2>1, <2>4, <2>5, <2>7 DEF EventOK
  <2> QED
    BY <2>6, <2>8, <2>9 DEF IInv
<1> QED
  BY <1>1, <1>4, <1>5 DEF UnlinkDevice

\* The monitor is freed, or created.
LEMMA LifeIInv ==
    ASSUME IInv, hs_monitor_release \/ hs_monitor_init
    PROVE  IInv'
<1>1. /\ TypeOK /\ RefcountExact /\ EventOK /\ obj \in [Devs -> Objects]
      /\ devices \subseteq Devs
  BY DEF IInv, TypeOK
<1>2. CASE hs_monitor_release
  <2> DEFINE o == [d \in Devs |-> IF d \in devices
                                  THEN [obj[d] EXCEPT !.monitor = FALSE] ELSE obj[d]]
  <2>1. /\ hs_device_unref(devices, o) /\ devices' = {} /\ callbacks' = <<>>
        /\ call' = [Idle EXCEPT !.pc = "closed"]
        /\ mirror' = [c \in Ids |-> {}] /\ deaf' = {}
        /\ callback_id' = callback_id /\ users' = users /\ handles' = handles
        /\ call.op = "none"
    BY <1>1, <1>2 DEF hs_monitor_release, appVars, EventOK
  <2>2. call' \in Calls /\ call'.pc = "closed" /\ call'.op = "none"
    BY <2>1 DEF Idle, Calls, Pcs, Nodes, ListHead
  <2>3. o \in [Devs -> Objects]
    BY <1>1, SetField
  <2>4. \A e \in Devs : PlatformRef(e) = 0 /\ PlatformRef(e)' = 0
    BY <2>1, <2>2 DEF PlatformRef
  <2>5. /\ \A e \in devices : TableRef(e) = 1 /\ TableRef(e)' = 0
        /\ \A e \in Devs \ devices : TableRef(e)' = TableRef(e)
    BY <2>1 DEF TableRef
  <2>6. \A e \in Devs : users[e] \in Nat /\ handles[e] \in Nat
    BY <1>1 DEF TypeOK
  <2>7. \A e \in devices : Owners(e) > 0 /\ Owners(e)' = Owners(e) - 1
    BY <1>1, <2>1, <2>4, <2>5, <2>6 DEF Owners
  <2>8. \A e \in Devs \ devices : Owners(e)' = Owners(e)
    BY <2>1, <2>4, <2>5 DEF Owners
  <2> HIDE DEF o
  <2>9. /\ RefcountExact' /\ refcount' \in [Devs -> Nat]
        /\ live' \subseteq Devs /\ obj' \in [Devs -> Objects]
    BY <1>1, <2>1, <2>3, <2>7, <2>8, DropRefs
  <2>10. TypeOK'
    <3>1. callbacks' \in Seq(Ids)
      BY <2>1
    <3> QED
      BY <1>1, <2>1, <2>2, <2>9, <3>1 DEF TypeOK
  <2>11. EventOK'
    BY <2>2 DEF EventOK
  <2> QED
    BY <2>9, <2>10, <2>11 DEF IInv
<1>3. CASE hs_monitor_init
  <2>1. /\ callback_id' = 0 /\ call' = Idle /\ call.op = "none"
        /\ live' = live /\ obj' = obj /\ refcount' = refcount
        /\ devices' = devices /\ callbacks' = callbacks
        /\ users' = users /\ handles' = handles
        /\ mirror' = mirror /\ deaf' = deaf
    BY <1>1, <1>3 DEF hs_monitor_init, devVars, appVars, obsVars, EventOK
  <2>2. call' \in Calls /\ call'.pc = "idle" /\ call'.op = "none"
    BY <2>1 DEF Idle, Calls, Pcs, Nodes, ListHead
  <2>3. TypeOK'
    BY <1>1, <2>1, <2>2, MonitorAssumption DEF TypeOK
  <2>4. RefcountExact'
    BY <1>1, <2>1, <2>2, KeepRefs
  <2>5. EventOK'
    BY <2>2 DEF EventOK
  <2> QED
    BY <2>3, <2>4, <2>5 DEF IInv
<1> QED
  BY <1>2, <1>3

\* A step that changes nothing.
LEMMA StutterIInv ==
    ASSUME IInv, UNCHANGED vars
    PROVE  IInv'
<1>1. /\ live' = live /\ obj' = obj /\ refcount' = refcount /\ devices' = devices
      /\ callbacks' = callbacks /\ callback_id' = callback_id /\ call' = call
      /\ users' = users /\ handles' = handles /\ mirror' = mirror /\ deaf' = deaf
  BY DEF vars
<1>2. TypeOK' /\ EventOK'
  BY <1>1 DEF IInv, TypeOK, EventOK
<1>3. RefcountExact'
  BY <1>1, KeepRefs DEF IInv
<1> QED
  BY <1>2, <1>3 DEF IInv

\* The invariant holds in every state: each function of monitor.c and device.c
\* preserves it.
THEOREM Inductive == Spec => []IInv
<1>1. Init => IInv
  BY InitIInv
<1>2. IInv /\ [Next]_vars => IInv'
  <2> SUFFICES ASSUME IInv, [Next]_vars PROVE IInv'
    OBVIOUS
  <2>1. CASE Library
    BY <2>1, AddIInv, CallbackIInv, ReleaseIInv, UnlinkIInv DEF Library
  <2>2. CASE Application
    BY <2>2, ReferenceIInv, ListIInv, LifeIInv DEF Application
  <2>3. CASE Platform
    BY <2>3, ArrivalIInv, RemoveIInv DEF Platform
  <2>4. CASE UNCHANGED vars
    BY <2>4, StutterIInv
  <2> QED
    BY <2>1, <2>2, <2>3, <2>4 DEF Next
<1> QED
  BY <1>1, <1>2, PTL DEF Spec

\* The model's state is always well formed: hs_device_unref() never takes a
\* count below zero, and the dispatch loop stays within the list.
THEOREM TypeCorrect == Spec => []TypeOK
BY Inductive, PTL DEF IInv

\* hs_device_ref() and hs_device_unref() count the references of the table, the
\* platform code, the application and the open handles exactly: no device is
\* freed while it is used, and none is leaked, for any number of devices.
THEOREM RefcountCorrect == Spec => []RefcountExact
BY Inductive, PTL DEF IInv

-----------------------------------------------------------------------------
(* What the objects show: the identity of a device never changes, and its   *)
(* state is that of the table.                                              *)

\* An object that hs_device_unref() does not free keeps its fields.
LEMMA Survivor ==
    ASSUME NEW S, NEW o, hs_device_unref(S, o), NEW d \in Devs, d \in live'
    PROVE  d \in live /\ obj'[d] = o[d]
BY DEF hs_device_unref

\* What a step can do to an object: build it, free it, or set its state and its
\* monitor.
LEMMA ObjectStep ==
    ASSUME IInv, Next, NEW d \in Devs, d \in live'
    PROVE  \/ /\ d \in live
              /\ obj'[d].key = obj[d].key /\ obj'[d].iface = obj[d].iface
              /\ \/ d \in devices'
                 \/ /\ obj'[d].state \in {obj[d].state, "DISCONNECTED"}
                    /\ obj'[d].monitor \in {obj[d].monitor, FALSE}
           \/ obj'[d].state = "DISCONNECTED" /\ d \notin live
<1>1. obj \in [Devs -> Objects] /\ devices \subseteq Devs /\ EventOK
      /\ callbacks \in Seq(Ids)
  BY DEF IInv, TypeOK
<1>2. CASE UNCHANGED <<live, obj>>
  BY <1>2
<1>3. ASSUME NEW S, hs_device_unref(S, obj)
      PROVE  d \in live /\ obj'[d] = obj[d]
  BY <1>3, Survivor
<1>4. ASSUME NEW e \in Devs, d \in live, obj'[d] = Disconnect(e)[d]
      PROVE  /\ obj'[d].key = obj[d].key /\ obj'[d].iface = obj[d].iface
             /\ obj'[d].state \in {obj[d].state, "DISCONNECTED"}
             /\ obj'[d].monitor = obj[d].monitor
  <2>1. obj[d] \in Objects
    BY <1>1
  <2> QED
    BY <1>1, <1>4, <2>1 DEF Disconnect, Objects
<1>5. CASE hs_monitor_add
  <2>1. CASE IsKnown(call.dev)
    BY <1>2, <1>5, <2>1 DEF hs_monitor_add
  <2>2. CASE ~IsKnown(call.dev)
    <3>1. PICK e \in Devs : e = call.dev
      BY <1>1, <1>5 DEF EventOK, hs_monitor_add
    <3>2. /\ obj' = [obj EXCEPT ![e].state = "ONLINE", ![e].monitor = TRUE]
          /\ live' = live /\ devices' = devices \cup {e}
      BY <1>5, <2>2, <3>1 DEF hs_monitor_add
    <3>3. obj[d] \in Objects
      BY <1>1
    <3>4. obj'[d].key = obj[d].key /\ obj'[d].iface = obj[d].iface
      BY <1>1, <3>2, <3>3 DEF Objects
    <3>5. CASE d = e
      BY <3>2, <3>4, <3>5
    <3>6. CASE d # e
      BY <1>1, <3>2, <3>4, <3>6
    <3> QED
      BY <3>5, <3>6
  <2> QED
    BY <2>1, <2>2
<1>6. CASE ReleaseDevice
  BY <1>3, <1>6 DEF ReleaseDevice
<1>7. CASE UnlinkDevice
  <2>1. PICK S : \/ hs_device_unref(S, obj)
                 \/ \E e \in call.todo : hs_device_unref(S, Disconnect(e))
    BY <1>7 DEF UnlinkDevice
  <2>2. CASE hs_device_unref(S, obj)
    BY <1>3, <2>2
  <2>3. ASSUME NEW e \in call.todo, hs_device_unref(S, Disconnect(e))
        PROVE  e \in Devs /\ d \in live /\ obj'[d] = Disconnect(e)[d]
    <3>1. e \in Devs
      BY <1>1, <1>7, <2>3 DEF EventOK, UnlinkDevice
    <3> QED
      BY <2>3, <3>1, Survivor
  <2> QED
    BY <1>4, <2>1, <2>2, <2>3
<1>8. CASE \E k \in Keys : hs_monitor_remove(k)
  <2>1. PICK e \in devices : obj' = Disconnect(e) /\ live' = live
    BY <1>8 DEF hs_monitor_remove
  <2> QED
    BY <1>1, <1>4, <2>1
<1>9. CASE \E e \in Devs, k \in Keys, i \in Ifaces : read_device_information(e, k, i)
  <2>1. PICK e \in Devs, k \in Keys, i \in Ifaces : read_device_information(e, k, i)
    BY <1>9
  <2>2. /\ e \notin live /\ live' = live \cup {e}
        /\ obj' = [obj EXCEPT ![e] = [Blank EXCEPT !.key = k, !.iface = i]]
    BY <2>1 DEF read_device_information
  <2>3. [Blank EXCEPT !.key = k, !.iface = i].state = "DISCONNECTED"
    BY DEF Blank
  <2>4. CASE d = e
    BY <1>1, <2>2, <2>3, <2>4
  <2>5. CASE d # e
    BY <1>1, <2>2, <2>5
  <2> QED
    BY <2>4, <2>5
<1>10. CASE hs_monitor_release
  <2> DEFINE o == [e \in Devs |-> IF e \in devices
                                  THEN [obj[e] EXCEPT !.monitor = FALSE] ELSE obj[e]]
  <2>1. hs_device_unref(devices, o)
    BY <1>10 DEF hs_monitor_release
  <2>2. o[d] \in {obj[d], [obj[d] EXCEPT !.monitor = FALSE]}
    OBVIOUS
  <2> HIDE DEF o
  <2>3. d \in live /\ obj'[d] = o[d]
    BY <2>1, Survivor
  <2>4. obj[d] \in Objects
    BY <1>1
  <2> DEFINE orphan == [obj[d] EXCEPT !.monitor = FALSE]
  <2>5. /\ orphan.key = obj[d].key /\ orphan.iface = obj[d].iface
        /\ orphan.state = obj[d].state /\ orphan.monitor = FALSE
    BY <2>4 DEF Objects
  <2>6. obj'[d] = obj[d] \/ obj'[d] = orphan
    BY <2>2, <2>3
  <2> HIDE DEF orphan
  <2> QED
    BY <2>3, <2>5, <2>6
<1>11. CASE \/ CallbackContinues \/ CallbackLeaves \/ CallbackFails
            \/ hs_monitor_register_callback \/ hs_monitor_init
            \/ \E id \in Ids : hs_monitor_deregister_callback(id)
   BY <1>2, <1>11 DEF CallbackContinues, CallbackLeaves, CallbackFails,
     hs_monitor_register_callback, hs_monitor_init, hs_monitor_deregister_callback,
     devVars
<1>12. CASE \E e \in Devs : UserRef(e) \/ hs_device_open(e)
  BY <1>2, <1>12 DEF UserRef, hs_device_open
<1>13. CASE \E e \in Devs : UserUnref(e) \/ hs_handle_close(e)
  BY <1>3, <1>13 DEF UserUnref, hs_handle_close
<1> QED
  BY <1>5, <1>6, <1>7, <1>8, <1>9, <1>10, <1>11, <1>12, <1>13
     DEF Next, Library, Application, Platform

\* What a step can do to the table.
LEMMA TableStep ==
    ASSUME IInv, Next
    PROVE  \/ devices' = devices
           \/ /\ hs_monitor_add
              /\ ~IsKnown(call.dev)
              /\ devices' = devices \cup {call.dev}
           \/ /\ devices' = devices \ {call.dev}
              /\ obj[call.dev].state = "DISCONNECTED"
           \/ hs_monitor_release /\ devices' = {}
<1>1. EventOK
  BY DEF IInv
<1>2. CASE Library
  BY <1>1, <1>2 DEF Library, hs_monitor_add, CallbackContinues, CallbackLeaves,
     CallbackFails, ReleaseDevice, UnlinkDevice, EventOK
<1>3. CASE Application
  BY <1>3 DEF Application, UserRef, UserUnref, hs_device_open, hs_handle_close,
     hs_monitor_register_callback, hs_monitor_deregister_callback,
     hs_monitor_release, hs_monitor_init
<1>4. CASE Platform
  BY <1>4 DEF Platform, read_device_information, hs_monitor_remove
<1> QED
  BY <1>2, <1>3, <1>4 DEF Next

\* A device of the table is allocated.
LEMMA TableLive == IInv => devices \subseteq live /\ devices \subseteq Devs
<1> SUFFICES ASSUME IInv, NEW d \in devices PROVE d \in live /\ d \in Devs
  OBVIOUS
<1>1. d \in Devs /\ users[d] \in Nat /\ handles[d] \in Nat
  BY DEF IInv, TypeOK
<1>2. Owners(d) > 0
  BY <1>1, OneEach DEF Owners
<1> QED
  BY <1>1, <1>2 DEF IInv, RefcountExact

\* The fields by which _hs_monitor_add() looks a device up stay those it was
\* built with, so no later step can make two devices of the table the same.
THEOREM UniqueCorrect == Spec => []UniqueInTable
<1>1. Init => UniqueInTable
  BY DEF Init, UniqueInTable
<1>2. IInv /\ IInv' /\ UniqueInTable /\ [Next]_vars => UniqueInTable'
  <2> SUFFICES ASSUME IInv, IInv', UniqueInTable, [Next]_vars,
                      NEW d \in devices', NEW e \in devices',
                      obj'[d].key = obj'[e].key, obj'[d].iface = obj'[e].iface
               PROVE  d = e
    BY DEF UniqueInTable
  <2>1. CASE UNCHANGED vars
    BY <2>1 DEF vars, UniqueInTable
  <2>2. CASE Next
    <3>1. devices \subseteq live
      BY TableLive
    <3>2. (devices \subseteq live /\ devices \subseteq Devs)'
      BY TableLive, PTL
    <3>3. /\ d \in live => obj'[d].key = obj[d].key /\ obj'[d].iface = obj[d].iface
          /\ e \in live => obj'[e].key = obj[e].key /\ obj'[e].iface = obj[e].iface
      BY <2>2, <3>2, ObjectStep
    <3>4. CASE d \in devices /\ e \in devices
      BY <3>1, <3>3, <3>4 DEF UniqueInTable
    <3>5. CASE d \notin devices \/ e \notin devices
      <4>1. /\ hs_monitor_add /\ ~IsKnown(call.dev)
            /\ devices' = devices \cup {call.dev}
        BY <2>2, <3>5, TableStep
      <4>2. live' = live
        BY <4>1 DEF hs_monitor_add
      <4> QED
        BY <3>2, <3>3, <3>5, <4>1, <4>2 DEF IsKnown
    <3> QED
      BY <3>4, <3>5
  <2> QED
    BY <2>1, <2>2
<1> QED
  BY <1>1, <1>2, Inductive, PTL DEF Spec

\* A device leaves the table only after its object was marked as disconnected,
\* or orphaned by hs_monitor_free(), so that an object kept by the application
\* is never taken for a device that is still there.
THEOREM OnlineCorrect == Spec => []OnlineOnlyInTable
<1>1. Init => OnlineOnlyInTable
  BY DEF Init, OnlineOnlyInTable
<1>2. IInv /\ IInv' /\ OnlineOnlyInTable /\ [Next]_vars => OnlineOnlyInTable'
  <2> SUFFICES ASSUME IInv, IInv', OnlineOnlyInTable, [Next]_vars,
                      NEW d \in live', obj'[d].state = "ONLINE", d \notin devices'
               PROVE  ~obj'[d].monitor
    BY DEF OnlineOnlyInTable
  <2>1. CASE UNCHANGED vars
    BY <2>1 DEF vars, OnlineOnlyInTable
  <2>2. CASE Next
    <3>1. d \in Devs /\ obj \in [Devs -> Objects]
      BY DEF IInv, TypeOK
    <3>2. /\ d \in live /\ obj[d].state = "ONLINE"
          /\ obj'[d].monitor \in {obj[d].monitor, FALSE}
      BY <2>2, <3>1, ObjectStep
    <3>3. CASE d \notin devices
      BY <3>2, <3>3 DEF OnlineOnlyInTable
    <3>4. CASE d \in devices
      <4>1. hs_monitor_release
        BY <2>2, <3>2, <3>4, TableStep
      <4> DEFINE o == [e \in Devs |-> IF e \in devices
                                      THEN [obj[e] EXCEPT !.monitor = FALSE] ELSE obj[e]]
      <4>2. hs_device_unref(devices, o)
        BY <4>1 DEF hs_monitor_release
      <4>3. o[d] = [obj[d] EXCEPT !.monitor = FALSE]
        BY <3>1, <3>4
      <4> HIDE DEF o
      <4>4. obj'[d] = o[d]
        BY <3>1, <4>2, Survivor
      <4>5. obj[d] \in Objects
        BY <3>1
      <4> QED
        BY <4>3, <4>4, <4>5 DEF Objects
    <3> QED
      BY <3>3, <3>4
  <2> QED
    BY <2>1, <2>2
<1> QED
  BY <1>1, <1>2, Inductive, PTL DEF Spec

-----------------------------------------------------------------------------
(* The iteration of trigger_callbacks() over a list that changes under it.  *)

\* The nodes of a list are distinct, and registered before the n-th registration.
Distinct(list, n) ==
    \A i \in 1 .. Len(list) : /\ list[i] < n
                              /\ \A j \in 1 .. Len(list) : list[i] = list[j] => i = j

\* While a callback runs, the node saved as the next one is not the callback's
\* own and is still in the list.
IterOK ==
    /\ Distinct(callbacks, callback_id)
    /\ call.pc = "closed" => callbacks = <<>>
    /\ call.pc = "callback" => /\ call.next # call.cur
                               /\ call.next = ListHead \/ Contains(callbacks, call.next)
    /\ call.pc # "crashed"

\* The successor of a node is another one.
LEMMA NextNodeOther ==
    ASSUME NEW list \in Seq(Ids), NEW n, Distinct(list, n), NEW c \in Ids,
           Contains(list, c)
    PROVE  NextNode(list, c) # c
<1> DEFINE p == Position(list, c)
<1>1. p \in 1 .. Len(list) /\ Len(list) \in Nat /\ list[p] = c
  BY PositionFound, LenProperties DEF Ids, ListHead
<1>2. c # ListHead
  BY DEF Ids, ListHead
<1>3. CASE p = Len(list)
  BY <1>2, <1>3 DEF NextNode
<1>4. CASE p # Len(list)
  <2>1. p + 1 \in 1 .. Len(list) /\ p + 1 # p
    BY <1>1, <1>4
  <2>2. list[p + 1] # list[p]
    BY <1>1, <2>1 DEF Distinct
  <2> QED
    BY <1>1, <1>4, <2>2 DEF NextNode
<1> QED
  BY <1>3, <1>4

\* Taking a node out moves those behind it one place forward.
LEMMA DropShifts ==
    ASSUME callbacks \in Seq(Ids), NEW c \in Ids, Contains(callbacks, c)
    PROVE  \E p \in 1 .. Len(callbacks) :
             /\ Len(callbacks) \in Nat /\ callbacks[p] = c
             /\ Len(drop_callback(c)) = Len(callbacks) - 1
             /\ \A i \in 1 .. Len(callbacks) - 1 :
                  drop_callback(c)[i] = callbacks[IF i < p THEN i ELSE i + 1]
<1> DEFINE p == Position(callbacks, c)
           n == Len(callbacks)
           a == SubSeq(callbacks, 1, p - 1)
           b == SubSeq(callbacks, p + 1, n)
           r == drop_callback(c)
<1>1. p \in 1 .. n /\ n \in Nat /\ callbacks[p] = c
  BY PositionFound, LenProperties DEF Ids, ListHead
<1>2. a \in Seq(Ids) /\ Len(a) = p - 1 /\ \A i \in 1 .. p - 1 : a[i] = callbacks[i]
  <2>1. \A i \in 1 .. p - 1 : callbacks[i] \in Ids
    BY <1>1, ElementOfSeq
  <2> QED
    BY <1>1, <2>1, SubSeqProperties
<1>3. b \in Seq(Ids) /\ Len(b) = n - p /\ \A i \in 1 .. n - p : b[i] = callbacks[p + i]
  <2>1. \A i \in p + 1 .. n : callbacks[i] \in Ids
    BY <1>1, ElementOfSeq
  <2> QED
    BY <1>1, <2>1, SubSeqProperties
<1>4. r = a \o b
  BY DEF drop_callback, RemoveAt
<1> HIDE DEF a, b, p, n
<1>5. Len(r) = n - 1
  <2>1. Len(a \o b) = Len(a) + Len(b)
    BY <1>2, <1>3, ConcatProperties
  <2> QED
    BY <1>1, <1>2, <1>3, <1>4, <2>1
<1>6. \A i \in 1 .. n - 1 : r[i] = callbacks[IF i < p THEN i ELSE i + 1]
  <2> SUFFICES ASSUME NEW i \in 1 .. n - 1
               PROVE  r[i] = callbacks[IF i < p THEN i ELSE i + 1]
    OBVIOUS
  <2>1. r[i] = IF i <= Len(a) THEN a[i] ELSE b[i - Len(a)]
    BY <1>1, <1>2, <1>3, <1>4, ConcatProperties
  <2>2. CASE i < p
    BY <1>1, <1>2, <2>1, <2>2
  <2>3. CASE ~(i < p)
    BY <1>1, <1>2, <1>3, <2>1, <2>3
  <2> QED
    BY <2>2, <2>3
<1> QED
  BY <1>1, <1>5, <1>6 DEF r, n

\* Taking a node out leaves the other nodes, each once.
LEMMA DropKeeps ==
    ASSUME callbacks \in Seq(Ids), NEW c \in Ids, Contains(callbacks, c)
    PROVE  /\ \A n : Distinct(callbacks, n) => Distinct(drop_callback(c), n)
           /\ \A x : Contains(callbacks, x) /\ x # c => Contains(drop_callback(c), x)
<1> DEFINE n == Len(callbacks)
           r == drop_callback(c)
<1>0. PICK p \in 1 .. n :
        /\ n \in Nat /\ callbacks[p] = c
        /\ Len(r) = n - 1
        /\ \A i \in 1 .. n - 1 : r[i] = callbacks[IF i < p THEN i ELSE i + 1]
  BY DropShifts
<1>1. p \in 1 .. n /\ n \in Nat /\ callbacks[p] = c
  BY <1>0
<1>2. Len(r) = n - 1
  BY <1>0
<1>3. \A i \in 1 .. n - 1 : r[i] = callbacks[IF i < p THEN i ELSE i + 1]
  BY <1>0
<1> HIDE DEF n
<1> HIDE DEF r
<1>4. ASSUME NEW m, Distinct(callbacks, m)
      PROVE  Distinct(r, m)
  <2>1. \A i \in 1 .. n : /\ callbacks[i] < m
                          /\ \A j \in 1 .. n : callbacks[i] = callbacks[j] => i = j
    BY <1>4 DEF Distinct, n
  <2>2. \A i \in 1 .. n - 1 : (IF i < p THEN i ELSE i + 1) \in 1 .. n
    BY <1>1
  <2>3. \A i, j \in 1 .. n - 1 :
          (IF i < p THEN i ELSE i + 1) = (IF j < p THEN j ELSE j + 1) => i = j
    BY <1>1
  <2> QED
    BY <1>2, <1>3, <2>1, <2>2, <2>3 DEF Distinct
<1>5. ASSUME NEW x, Contains(callbacks, x), x # c
      PROVE  Contains(r, x)
  <2>1. PICK i \in 1 .. n : callbacks[i] = x
    BY <1>5 DEF Contains, n
  <2>2. CASE i < p
    <3>1. i \in 1 .. n - 1 /\ r[i] = x
      BY <1>1, <1>3, <2>1, <2>2
    <3> QED
      BY <1>2, <3>1 DEF Contains
  <2>3. CASE ~(i < p)
    <3>1. i > p
      BY <1>1, <1>5, <2>1, <2>3
    <3>2. i - 1 \in 1 .. n - 1 /\ ~(i - 1 < p) /\ (i - 1) + 1 = i
      BY <1>1, <3>1
    <3>3. r[i - 1] = callbacks[i]
      BY <1>3, <3>2
    <3> QED
      BY <1>2, <2>1, <3>2, <3>3 DEF Contains
  <2> QED
    BY <2>2, <2>3
<1> QED
  BY <1>4, <1>5 DEF r

\* Going to a node of the list, the loop saves another node of the list, or the
\* end.
LEMMA VisitSaves ==
    ASSUME NEW k \in Calls, NEW s, NEW list \in Seq(Ids), NEW n, Distinct(list, n),
           NEW c, c = ListHead \/ Contains(list, c), Visit(k, s, c, list)
    PROVE  /\ call'.pc \notin {"closed", "crashed"}
           /\ call'.pc = "callback" =>
                /\ call'.next # call'.cur
                /\ call'.next = ListHead \/ Contains(list, call'.next)
<1>1. CASE c = ListHead
  <2>1. call' = Return(k, 0)
    BY <1>1 DEF Visit
  <2> QED
    BY <2>1 DEF Return, Calls
<1>2. CASE c # ListHead
  <2>1. call' = [k EXCEPT !.pc = "callback", !.cur = c, !.next = NextNode(list, c)]
    BY <1>2 DEF Visit
  <2>2. /\ call'.pc = "callback" /\ call'.cur = c
        /\ call'.next = NextNode(list, c)
    BY <2>1 DEF Calls
  <2>3. c \in Ids
    BY <1>2, ElementOfSeq DEF Contains
  <2> QED
    BY <1>2, <2>2, <2>3, NextNodeFound, NextNodeOther
<1> QED
  BY <1>1, <1>2

\* The same of the first turn of the loop.
LEMMA StartSaves ==
    ASSUME NEW k \in Calls, NEW s, callbacks \in Seq(Ids), NEW n,
           Distinct(callbacks, n), StartDispatch(k, s)
    PROVE  /\ call'.pc \notin {"closed", "crashed"}
           /\ call'.pc = "callback" =>
                /\ call'.next # call'.cur
                /\ call'.next = ListHead \/ Contains(callbacks, call'.next)
<1>1. NextNode(callbacks, ListHead) = ListHead
      \/ Contains(callbacks, NextNode(callbacks, ListHead))
  BY NextNodeFound
<1>2. Visit(k, s, NextNode(callbacks, ListHead), callbacks)
  BY DEF StartDispatch
<1> QED
  BY <1>1, <1>2, VisitSaves

\* Registering and deregistering, during a dispatch or not.
LEMMA ListIter ==
    ASSUME CarefulApp, IInv, IterOK,
           \/ hs_monitor_register_callback
           \/ \E id \in Ids : hs_monitor_deregister_callback(id)
    PROVE  IterOK'
<1>1. /\ callbacks \in Seq(Ids) /\ callback_id \in Nat /\ call' = call
      /\ Len(callbacks) \in Nat /\ call.pc \in {"idle", "callback"}
      /\ \A i \in 1 .. Len(callbacks) : callbacks[i] \in Nat
  <2>1. callbacks \in Seq(Ids) /\ callback_id \in 0 .. MaxCallbacks
    BY DEF IInv, TypeOK
  <2>2. \A i \in 1 .. Len(callbacks) : callbacks[i] \in Ids
    BY <2>1, ElementOfSeq
  <2>3. call' = call /\ call.pc \in {"idle", "callback"}
    BY DEF hs_monitor_register_callback, hs_monitor_deregister_callback, AppRuns
  <2> QED
    BY <2>1, <2>2, <2>3, LenProperties DEF Ids
<1>2. CASE hs_monitor_register_callback
  <2>1. /\ callbacks' = Append(callbacks, callback_id)
        /\ callback_id' = callback_id + 1 /\ callback_id \in Ids
    BY <1>1, <1>2, MonitorAssumption DEF hs_monitor_register_callback, Ids
  <2>2. /\ Len(callbacks') = Len(callbacks) + 1
        /\ \A i \in 1 .. Len(callbacks) : callbacks'[i] = callbacks[i]
        /\ callbacks'[Len(callbacks) + 1] = callback_id
    BY <1>1, <2>1, AppendProperties
  <2>3. Distinct(callbacks', callback_id')
    <3>1. \A i \in 1 .. Len(callbacks) :
            /\ callbacks[i] < callback_id
            /\ \A j \in 1 .. Len(callbacks) : callbacks[i] = callbacks[j] => i = j
      BY DEF IterOK, Distinct
    <3>2. ASSUME NEW i \in 1 .. Len(callbacks')
          PROVE  callbacks'[i] < callback_id'
      <4>1. CASE i \in 1 .. Len(callbacks)
        BY <1>1, <2>1, <2>2, <3>1, <4>1
      <4>2. CASE i = Len(callbacks) + 1
        BY <1>1, <2>1, <2>2, <4>2
      <4> QED
        BY <1>1, <2>2, <4>1, <4>2
    <3>3. ASSUME NEW i \in 1 .. Len(callbacks'), NEW j \in 1 .. Len(callbacks'),
                 callbacks'[i] = callbacks'[j]
          PROVE  i = j
      <4>1. CASE i \in 1 .. Len(callbacks) /\ j \in 1 .. Len(callbacks)
        BY <2>2, <3>1, <3>3, <4>1
      <4>2. CASE i \in 1 .. Len(callbacks) /\ j = Len(callbacks) + 1
        BY <1>1, <2>2, <3>1, <3>3, <4>2
      <4>3. CASE i = Len(callbacks) + 1 /\ j \in 1 .. Len(callbacks)
        BY <1>1, <2>2, <3>1, <3>3, <4>3
      <4>4. CASE i = Len(callbacks) + 1 /\ j = Len(callbacks) + 1
        BY <4>4
      <4> QED
        BY <1>1, <2>2, <4>1, <4>2, <4>3, <4>4
    <3> QED
      BY <3>2, <3>3 DEF Distinct
  <2>4. ASSUME NEW x, Contains(callbacks, x) PROVE Contains(callbacks', x)
    <3>1. PICK i \in 1 .. Len(callbacks) : callbacks[i] = x
      BY <2>4 DEF Contains
    <3>2. i \in 1 .. Len(callbacks') /\ callbacks'[i] = x
      BY <1>1, <2>2, <3>1
    <3> QED
      BY <3>2 DEF Contains
  <2> QED
    BY <1>1, <2>3, <2>4 DEF IterOK
<1>3. ASSUME NEW id \in Ids, hs_monitor_deregister_callback(id)
      PROVE  IterOK'
  <2>1. /\ callbacks' = drop_callback(id) /\ Contains(callbacks, id)
        /\ callback_id' = callback_id
        /\ call.pc = "callback" => id # call.next
    BY <1>3 DEF hs_monitor_deregister_callback
  <2>2. Distinct(callbacks', callback_id')
    BY <1>1, <2>1, DropKeeps DEF IterOK
  <2>3. call.pc = "callback" =>
            call.next = ListHead \/ Contains(callbacks', call.next)
    BY <1>1, <2>1, DropKeeps DEF IterOK
  <2> QED
    BY <1>1, <2>2, <2>3 DEF IterOK
<1> QED
  BY <1>2, <1>3

\* The turns of the loop.
LEMMA LoopIter ==
    ASSUME CarefulApp, IInv, IterOK,
           CallbackContinues \/ CallbackLeaves \/ CallbackFails
    PROVE  IterOK'
<1>1. /\ callbacks \in Seq(Ids) /\ call \in Calls /\ call.pc = "callback"
      /\ callback_id' = callback_id /\ Distinct(callbacks, callback_id)
      /\ call.next # call.cur
      /\ call.next = ListHead \/ Contains(callbacks, call.next)
  BY DEF IInv, TypeOK, IterOK, CallbackContinues, CallbackLeaves, CallbackFails, cbVars
<1>2. ASSUME callbacks' \in Seq(Ids), Distinct(callbacks', callback_id),
             call.next = ListHead \/ Contains(callbacks', call.next), Advance(callbacks')
      PROVE  IterOK'
  <2>1. Visit(call, obj[call.dev].state, call.next, callbacks')
    BY <1>2 DEF Advance
  <2>2. /\ call'.pc \notin {"closed", "crashed"}
        /\ call'.pc = "callback" =>
             /\ call'.next # call'.cur
             /\ call'.next = ListHead \/ Contains(callbacks', call'.next)
    BY <1>1, <1>2, <2>1, VisitSaves
  <2> QED
    BY <1>1, <1>2, <2>2 DEF IterOK
<1>3. CASE CallbackContinues
  <2>1. Advance(callbacks) /\ callbacks' = callbacks
    BY <1>3 DEF CallbackContinues, cbVars
  <2> QED
    BY <1>1, <1>2, <2>1
<1>4. CASE CallbackLeaves
  <2>1. /\ Contains(callbacks, call.cur) /\ callbacks' = drop_callback(call.cur)
        /\ Advance(callbacks')
    BY <1>4 DEF CallbackLeaves
  <2>2. call.cur \in Ids
    BY <1>1, <2>1, ElementOfSeq DEF Contains
  <2>3. /\ callbacks' \in Seq(Ids) /\ Distinct(callbacks', callback_id)
        /\ call.next = ListHead \/ Contains(callbacks', call.next)
    BY <1>1, <2>1, <2>2, DropCallback, DropKeeps
  <2> QED
    BY <1>2, <2>1, <2>3
<1>5. CASE CallbackFails
  <2>1. call' = Return(call, -1) /\ callbacks' = callbacks
    BY <1>5 DEF CallbackFails, cbVars
  <2>2. call'.pc \in {"unref", "unlink"}
    BY <1>1, <2>1 DEF Return, Calls
  <2> QED
    BY <1>1, <2>1, <2>2 DEF IterOK
<1> QED
  BY <1>3, <1>4, <1>5

\* The start of an event, and everything outside the dispatch.
LEMMA EventIter ==
    ASSUME CarefulApp, IInv, IterOK,
           \/ hs_monitor_add \/ UnlinkDevice \/ ReleaseDevice
           \/ \E k \in Keys : hs_monitor_remove(k)
           \/ \E d \in Devs, k \in Keys, i \in Ifaces : read_device_information(d, k, i)
    PROVE  IterOK'
<1>1. /\ callbacks \in Seq(Ids) /\ call \in Calls /\ devices \subseteq Devs
      /\ callbacks' = callbacks /\ callback_id' = callback_id
      /\ Distinct(callbacks, callback_id) /\ EventOK
  BY DEF IInv, TypeOK, IterOK, hs_monitor_add, UnlinkDevice, ReleaseDevice,
         hs_monitor_remove, read_device_information, cbVars
<1>2. ASSUME NEW k \in Calls, NEW s, StartDispatch(k, s)
      PROVE  IterOK'
  <2>1. /\ call'.pc \notin {"closed", "crashed"}
        /\ call'.pc = "callback" =>
             /\ call'.next # call'.cur
             /\ call'.next = ListHead \/ Contains(callbacks, call'.next)
    BY <1>1, <1>2, StartSaves
  <2> QED
    BY <1>1, <2>1 DEF IterOK
<1>3. ASSUME call'.pc \in {"idle", "add", "unref"}
      PROVE  IterOK'
  BY <1>1, <1>3 DEF IterOK
<1>4. CASE hs_monitor_add
  <2>1. CASE IsKnown(call.dev)
    <3>1. call' = [call EXCEPT !.pc = "unref"]
      BY <1>4, <2>1 DEF hs_monitor_add
    <3>2. call'.pc = "unref"
      BY <1>1, <3>1 DEF Calls
    <3> QED
      BY <1>3, <3>2
  <2>2. CASE ~IsKnown(call.dev)
    BY <1>1, <1>2, <1>4, <2>2 DEF hs_monitor_add
  <2> QED
    BY <2>1, <2>2
<1>5. CASE UnlinkDevice
  <2>1. CASE call' = Idle
    BY <1>3, <2>1 DEF Idle
  <2>2. ASSUME NEW d \in call.todo,
               StartDispatch([call EXCEPT !.dev = d, !.todo = @ \ {d}],
                             Disconnect(d)[d].state)
        PROVE  IterOK'
    <3> DEFINE event == [call EXCEPT !.dev = d, !.todo = @ \ {d}]
    <3>1. event \in Calls
      BY <1>1 DEF Calls
    <3>2. StartDispatch(event, Disconnect(d)[d].state)
      BY <2>2
    <3> HIDE DEF event
    <3> QED
      BY <1>2, <3>1, <3>2
  <2> QED
    BY <1>5, <2>1, <2>2 DEF UnlinkDevice
<1>6. CASE ReleaseDevice
  <2>1. call'.pc = "idle"
    BY <1>6 DEF ReleaseDevice, Idle
  <2> QED
    BY <1>3, <2>1
<1>7. CASE \E k \in Keys : hs_monitor_remove(k)
  <2>1. PICK k \in Keys, d \in devices :
          StartDispatch([Idle EXCEPT !.op = "remove", !.dev = d,
                                     !.todo = {e \in devices \ {d} : obj[e].key = k}],
                        Disconnect(d)[d].state)
    BY <1>7 DEF hs_monitor_remove
  <2> DEFINE todo == {e \in devices \ {d} : obj[e].key = k}
             event == [Idle EXCEPT !.op = "remove", !.dev = d, !.todo = todo]
  <2>2. todo \in SUBSET Devs /\ d \in Devs
    BY <1>1
  <2>3. StartDispatch(event, Disconnect(d)[d].state)
    BY <2>1
  <2> HIDE DEF todo
  <2>4. event \in Calls
    BY <2>2 DEF Idle, Calls, Pcs, Nodes, ListHead
  <2> HIDE DEF event
  <2> QED
    BY <1>2, <2>3, <2>4
<1>8. CASE \E d \in Devs, k \in Keys, i \in Ifaces : read_device_information(d, k, i)
  <2>1. call'.pc = "add"
    BY <1>8 DEF read_device_information, Idle
  <2> QED
    BY <1>3, <2>1
<1> QED
  BY <1>4, <1>5, <1>6, <1>7, <1>8

\* Each step of a careful application and of the library keeps the saved node in
\* the list.
LEMMA IterAlways == Spec => [](CarefulApp => IterOK)
<1> DEFINE Inv == CarefulApp => IterOK
<1>1. Init => Inv
  <2> SUFFICES ASSUME Init PROVE IterOK
    OBVIOUS
  <2>1. callbacks = <<>> /\ call.pc = "idle"
    BY DEF Init, Idle
  <2> QED
    BY <2>1 DEF IterOK, Distinct
<1>2. IInv /\ Inv /\ [Next]_vars => Inv'
  <2> SUFFICES ASSUME CarefulApp, IInv, IterOK, [Next]_vars PROVE IterOK'
    OBVIOUS
  <2>1. ASSUME UNCHANGED <<callbacks, callback_id, call>> PROVE IterOK'
    BY <2>1 DEF IterOK, Distinct, Contains
  <2>2. CASE UNCHANGED vars
    BY <2>1, <2>2 DEF vars
  <2>3. CASE Library
    BY <2>3, LoopIter, EventIter DEF Library
  <2>4. CASE Platform
    BY <2>4, EventIter DEF Platform
  <2>5. CASE \/ hs_monitor_register_callback
             \/ \E id \in Ids : hs_monitor_deregister_callback(id)
    BY <2>5, ListIter
  <2>6. CASE \E d \in Devs : UserRef(d) \/ UserUnref(d) \/ hs_device_open(d)
                             \/ hs_handle_close(d)
    BY <2>1, <2>6 DEF UserRef, UserUnref, hs_device_open, hs_handle_close, cbVars
  <2>8. CASE hs_monitor_release
    <3>1. callbacks' = <<>> /\ call'.pc = "closed"
      BY <2>8 DEF hs_monitor_release, Idle
    <3> QED
      BY <3>1 DEF IterOK, Distinct
  <2>9. CASE hs_monitor_init
    <3>1. callbacks = <<>> /\ callbacks' = callbacks /\ call'.pc = "idle"
      BY <2>9 DEF hs_monitor_init, Idle, IterOK
    <3> QED
      BY <3>1 DEF IterOK, Distinct
  <2> QED
    BY <2>2, <2>3, <2>4, <2>5, <2>6, <2>8, <2>9 DEF Next, Application
<1> QED
  BY <1>1, <1>2, Inductive, PTL DEF Spec

\* The loop of trigger_callbacks() never follows a pointer into a freed callback,
\* for any number of callbacks that register others, deregister themselves or
\* others, leave by their result or fail, provided that no callback deregisters
\* the one saved as next, nor itself before it returns a positive value.
THEOREM IterationCorrect == Spec => [](CarefulApp => SafeIteration)
<1>1. (CarefulApp => IterOK) => (CarefulApp => SafeIteration)
  BY DEF IterOK, SafeIteration
<1> QED
  BY <1>1, IterAlways, PTL

-----------------------------------------------------------------------------
(* What the owners of the callbacks know.                                   *)

\* The loop, which is to go on from node n, has yet to reach the i-th node.
Ahead(list, n, i) == \E b \in 1 .. i : list[b] = n

\* The owners of the callbacks in list, other than those of df, know that the
\* devices of T are connected.
Settled(list, m, df, T) ==
    \A i \in 1 .. Len(list) : list[i] \notin df => m[list[i]] = T

\* The same while the loop tells them of d: those it has yet to reach may be
\* wrong about d, and about d only.
Knows(list, n, m, df, T, d) ==
    \A i \in 1 .. Len(list) : list[i] \notin df =>
        /\ m[list[i]] \ {d} = T \ {d}
        /\ ~Ahead(list, n, i) => m[list[i]] = T

\* The devices the owners are to know of: one that is being removed is no longer
\* among them, although the table holds it.
Told == IF call.op = "remove" THEN devices \ {call.dev} ELSE devices

MirrorOK ==
    /\ call.pc = "callback" => Knows(callbacks, call.next, mirror, deaf, Told, call.dev)
    /\ call.pc \notin {"callback", "closed", "crashed"}
          => Settled(callbacks, mirror, deaf, Told)

\* Every device of the table is online, except the one that is being removed.
TableOnline ==
    \A d \in devices : obj[d].state = "ONLINE" \/ (call.op = "remove" /\ d = call.dev)

\* At the end of the list nobody is left to reach.
LEMMA EndSettled ==
    ASSUME NEW list \in Seq(Ids), NEW m, NEW df, NEW T, NEW d
    PROVE  Knows(list, ListHead, m, df, T, d) <=> Settled(list, m, df, T)
<1>1. ASSUME NEW i \in 1 .. Len(list) PROVE ~Ahead(list, ListHead, i)
  <2>1. ASSUME NEW b \in 1 .. i PROVE list[b] # ListHead
    <3>1. b \in 1 .. Len(list)
      BY LenProperties
    <3>2. list[b] \in Ids
      BY <3>1, ElementOfSeq
    <3> QED
      BY <3>2 DEF Ids, ListHead
  <2> QED
    BY <2>1 DEF Ahead
<1> QED
  BY <1>1 DEF Knows, Settled

\* Behind a node of the list, the loop has its successor yet to reach.
LEMMA AheadNext ==
    ASSUME NEW list \in Seq(Ids), NEW n, Distinct(list, n), NEW c \in Ids,
           Contains(list, c), NEW i \in 1 .. Len(list), Ahead(list, c, i), list[i] # c
    PROVE  Ahead(list, NextNode(list, c), i)
<1> DEFINE p == Position(list, c)
<1>1. p \in 1 .. Len(list) /\ Len(list) \in Nat /\ list[p] = c
  BY PositionFound, LenProperties DEF Ids, ListHead
<1>2. PICK b \in 1 .. i : list[b] = c
  BY DEF Ahead
<1>3. b = p
  BY <1>1, <1>2 DEF Distinct
<1>4. p + 1 \in 1 .. i /\ p # Len(list)
  BY <1>1, <1>2, <1>3
<1>5. NextNode(list, c) = list[p + 1]
  BY <1>4 DEF NextNode
<1> QED
  BY <1>4, <1>5 DEF Ahead

\* A turn of the loop corrects the owner of the callback it calls.
LEMMA VisitKnows ==
    ASSUME mirror \in [Ids -> SUBSET Devs], NEW k \in Calls, NEW s,
           NEW list \in Seq(Ids), NEW n, Distinct(list, n),
           NEW c, c = ListHead \/ Contains(list, c), NEW df, NEW T,
           k.dev \in T <=> s = "ONLINE", k.op \in {"add", "remove"},
           Knows(list, c, mirror, df, T, k.dev), Visit(k, s, c, list)
    PROVE  /\ call'.pc = "callback" => Knows(list, call'.next, mirror', df, T, k.dev)
           /\ call'.pc # "callback" => Settled(list, mirror', df, T)
<1>1. CASE c = ListHead
  <2>1. call' = Return(k, 0) /\ mirror' = mirror
    BY <1>1 DEF Visit
  <2>2. call'.pc # "callback"
    BY <2>1 DEF Return, Calls
  <2> QED
    BY <1>1, <2>1, <2>2, EndSettled
<1>2. CASE c # ListHead
  <2>1. c \in Ids /\ Contains(list, c)
    BY <1>2, ElementOfSeq DEF Contains
  <2>2. /\ call' = [k EXCEPT !.pc = "callback", !.cur = c, !.next = NextNode(list, c)]
        /\ mirror' = [mirror EXCEPT ![c] = IF s = "ONLINE" THEN @ \cup {k.dev}
                                                         ELSE @ \ {k.dev}]
    BY <1>2 DEF Visit
  <2>3. call'.pc = "callback" /\ call'.next = NextNode(list, c)
    BY <2>2 DEF Calls
  <2>4. ASSUME NEW i \in 1 .. Len(list), list[i] \notin df
        PROVE  /\ mirror'[list[i]] \ {k.dev} = T \ {k.dev}
               /\ ~Ahead(list, NextNode(list, c), i) => mirror'[list[i]] = T
    <3>1. list[i] \in Ids
      BY ElementOfSeq
    <3>2. /\ mirror[list[i]] \ {k.dev} = T \ {k.dev}
          /\ ~Ahead(list, c, i) => mirror[list[i]] = T
      BY <2>4 DEF Knows
    <3>3. CASE list[i] = c
      <4>1. mirror'[c] = IF s = "ONLINE" THEN mirror[c] \cup {k.dev}
                                         ELSE mirror[c] \ {k.dev}
        BY <2>1, <2>2
      <4>2. mirror'[c] = T
        BY <3>2, <3>3, <4>1
      <4> QED
        BY <3>3, <4>2
    <3>4. CASE list[i] # c
      <4>1. mirror'[list[i]] = mirror[list[i]]
        BY <2>2, <3>1, <3>4
      <4>2. Ahead(list, c, i) => Ahead(list, NextNode(list, c), i)
        BY <2>1, <3>4, AheadNext
      <4> QED
        BY <3>2, <4>1, <4>2
    <3> QED
      BY <3>3, <3>4
  <2>5. Knows(list, NextNode(list, c), mirror', df, T, k.dev)
    BY <2>4 DEF Knows
  <2> QED
    BY <2>3, <2>5
<1> QED
  BY <1>1, <1>2

\* When the loop starts, every owner is behind it and knows all but this event.
LEMMA StartKnows ==
    ASSUME mirror \in [Ids -> SUBSET Devs], callbacks \in Seq(Ids),
           NEW k \in Calls, NEW s, NEW n, Distinct(callbacks, n), NEW S, NEW T,
           k.dev \in T <=> s = "ONLINE", k.op \in {"add", "remove"},
           Settled(callbacks, mirror, deaf, S), S \ {k.dev} = T \ {k.dev},
           StartDispatch(k, s)
    PROVE  /\ call'.pc = "callback"
                => Knows(callbacks, call'.next, mirror', deaf, T, k.dev)
           /\ call'.pc # "callback" => Settled(callbacks, mirror', deaf, T)
<1> DEFINE c == NextNode(callbacks, ListHead)
<1>1. c = ListHead \/ Contains(callbacks, c)
  BY NextNodeFound
<1>2. ASSUME NEW i \in 1 .. Len(callbacks) PROVE Ahead(callbacks, c, i)
  <2>1. Position(callbacks, ListHead) = 0
    <3>1. PICK p : p = Position(callbacks, ListHead)
      OBVIOUS
    <3>2. p \in 0 .. Len(callbacks) /\ (p # 0 => callbacks[p] = ListHead)
      BY <3>1, PositionFound
    <3>3. CASE p # 0
      <4>1. p \in 1 .. Len(callbacks)
        BY <3>2, <3>3, LenProperties
      <4>2. callbacks[p] \in Ids
        BY <4>1, ElementOfSeq
      <4> QED
        BY <3>2, <3>3, <4>2 DEF Ids, ListHead
    <3> QED
      BY <3>1, <3>3
  <2>2. Len(callbacks) # 0 /\ 1 \in 1 .. i
    BY LenProperties
  <2>3. c = callbacks[1]
    BY <2>1, <2>2 DEF NextNode
  <2> QED
    BY <2>2, <2>3 DEF Ahead
<1>3. Knows(callbacks, c, mirror, deaf, T, k.dev)
  BY <1>2 DEF Knows, Settled
<1>4. Visit(k, s, c, callbacks)
  BY DEF StartDispatch
<1> HIDE DEF c
<1> QED
  BY <1>1, <1>3, <1>4, VisitKnows

\* Taking out a node other than the saved one leaves the others where they are
\* with respect to the loop.
LEMMA DropKnows ==
    ASSUME callbacks \in Seq(Ids), NEW c \in Ids, Contains(callbacks, c),
           NEW x, Distinct(callbacks, x), NEW n, n # c, NEW m, NEW T, NEW d,
           Knows(callbacks, n, m, deaf, T, d)
    PROVE  Knows(drop_callback(c), n, m, deaf \ {c}, T, d)
<1> DEFINE l == Len(callbacks)
           r == drop_callback(c)
<1>1. PICK p \in 1 .. l :
        /\ l \in Nat /\ callbacks[p] = c
        /\ Len(r) = l - 1
        /\ \A i \in 1 .. l - 1 : r[i] = callbacks[IF i < p THEN i ELSE i + 1]
  BY DropShifts
<1>2. \A i, j \in 1 .. l : callbacks[i] = callbacks[j] => i = j
  BY DEF Distinct
<1>3. \A i \in 1 .. l : callbacks[i] \notin deaf =>
        /\ m[callbacks[i]] \ {d} = T \ {d}
        /\ ~Ahead(callbacks, n, i) => m[callbacks[i]] = T
  BY DEF Knows
<1> HIDE DEF l, r
<1>4. ASSUME NEW j \in 1 .. l - 1, r[j] \notin deaf \ {c}
      PROVE  /\ m[r[j]] \ {d} = T \ {d}
             /\ ~Ahead(r, n, j) => m[r[j]] = T
  <2>1. PICK i \in 1 .. l : i = (IF j < p THEN j ELSE j + 1)
    BY <1>1
  <2>2. r[j] = callbacks[i] /\ i # p
    BY <1>1, <2>1
  <2>3. callbacks[i] \notin deaf
    BY <1>1, <1>2, <1>4, <2>2
  <2>4. ASSUME Ahead(callbacks, n, i) PROVE Ahead(r, n, j)
    <3>1. PICK b \in 1 .. i : callbacks[b] = n
      BY <2>4 DEF Ahead
    <3>2. b # p
      BY <1>1, <3>1
    <3>3. PICK a : a = (IF b < p THEN b ELSE b - 1)
      OBVIOUS
    <3>4. a \in 1 .. j /\ a \in 1 .. l - 1 /\ b = (IF a < p THEN a ELSE a + 1)
      BY <1>1, <2>1, <3>1, <3>2, <3>3
    <3>5. r[a] = n
      BY <1>1, <3>1, <3>4
    <3> QED
      BY <3>4, <3>5 DEF Ahead
  <2> QED
    BY <1>3, <2>2, <2>3, <2>4
<1> QED
  BY <1>1, <1>4 DEF Knows, r

\* Registering a callback, whose owner knows the devices online now, changes
\* nothing for the others.
LEMMA AppendKnows ==
    ASSUME IInv, callback_id \in Ids, Distinct(callbacks, callback_id),
           NEW n, NEW T, NEW d, Knows(callbacks, n, mirror, deaf, T, d),
           mirror' = [mirror EXCEPT ![callback_id] = T]
    PROVE  Knows(Append(callbacks, callback_id), n, mirror', deaf, T, d)
<1> DEFINE l == Len(callbacks)
           r == Append(callbacks, callback_id)
<1>1. /\ callbacks \in Seq(Ids) /\ mirror \in [Ids -> SUBSET Devs] /\ l \in Nat
      /\ callback_id \in Nat
  BY LenProperties DEF IInv, TypeOK, Ids
<1>2. /\ Len(r) = l + 1 /\ r[l + 1] = callback_id
      /\ \A i \in 1 .. l : r[i] = callbacks[i]
  BY <1>1, AppendProperties
<1>3. \A i \in 1 .. l : callbacks[i] \in Ids /\ callbacks[i] # callback_id
  <2>1. \A i \in 1 .. l : callbacks[i] \in Ids /\ callbacks[i] < callback_id
    BY <1>1, ElementOfSeq DEF Distinct
  <2> QED
    BY <1>1, <2>1 DEF Ids
<1>4. mirror'[callback_id] = T /\ \A x \in Ids \ {callback_id} : mirror'[x] = mirror[x]
  BY <1>1
<1>5. \A i \in 1 .. l : callbacks[i] \notin deaf =>
        /\ mirror[callbacks[i]] \ {d} = T \ {d}
        /\ ~Ahead(callbacks, n, i) => mirror[callbacks[i]] = T
  BY DEF Knows
<1> HIDE DEF l, r
<1>6. ASSUME NEW i \in 1 .. l + 1, r[i] \notin deaf
      PROVE  /\ mirror'[r[i]] \ {d} = T \ {d}
             /\ ~Ahead(r, n, i) => mirror'[r[i]] = T
  <2>1. CASE i = l + 1
    BY <1>2, <1>4, <2>1
  <2>2. CASE i \in 1 .. l
    <3>1. r[i] = callbacks[i] /\ mirror'[r[i]] = mirror[callbacks[i]]
      BY <1>2, <1>3, <1>4, <2>2
    <3>2. \A b \in 1 .. i : r[b] = callbacks[b]
      BY <1>1, <1>2, <2>2
    <3>3. Ahead(r, n, i) <=> Ahead(callbacks, n, i)
      BY <3>2 DEF Ahead
    <3> QED
      BY <1>5, <1>6, <2>2, <3>1, <3>3
  <2> QED
    BY <1>1, <2>1, <2>2
<1> QED
  BY <1>2, <1>6 DEF Knows, r

\* The devices that hs_monitor_register_callback() finds online are those the
\* owners are to know of.
LEMMA OnlineTold ==
    ASSUME IInv, TableOnline
    PROVE  Online = Told
<1>1. call.op = "remove" => obj[call.dev].state = "DISCONNECTED"
  BY DEF IInv, EventOK
<1>2. \A d \in devices : obj[d].state = "ONLINE" <=> ~(call.op = "remove" /\ d = call.dev)
  BY <1>1 DEF TableOnline
<1> QED
  BY <1>2 DEF Online, Told

\* Registration and deregistration, during a dispatch or not.
LEMMA ListMirror ==
    ASSUME CarefulApp, IInv, IterOK, TableOnline, MirrorOK,
           \/ hs_monitor_register_callback
           \/ \E id \in Ids : hs_monitor_deregister_callback(id)
    PROVE  MirrorOK'
<1>1. /\ callbacks \in Seq(Ids) /\ Distinct(callbacks, callback_id)
      /\ call.pc \in {"idle", "callback"}
      /\ call' = call /\ devices' = devices
  BY DEF IInv, TypeOK, IterOK, hs_monitor_register_callback,
         hs_monitor_deregister_callback, AppRuns
<1>2. Told' = Told
  BY <1>1 DEF Told
<1> DEFINE n == IF call.pc = "callback" THEN call.next ELSE ListHead
<1>3. Knows(callbacks, n, mirror, deaf, Told, call.dev)
  BY <1>1, EndSettled DEF MirrorOK
<1>4. ASSUME callbacks' \in Seq(Ids),
             Knows(callbacks', n, mirror', deaf', Told, call.dev)
      PROVE  MirrorOK'
  <2>1. CASE call.pc = "callback"
    BY <1>1, <1>2, <1>4, <2>1 DEF MirrorOK
  <2>2. CASE call.pc # "callback"
    <3>1. Settled(callbacks', mirror', deaf', Told)
      BY <1>4, <2>2, EndSettled
    <3> QED
      BY <1>1, <1>2, <2>2, <3>1 DEF MirrorOK
  <2> QED
    BY <2>1, <2>2
<1>5. CASE hs_monitor_register_callback
  <2>1. /\ callbacks' = Append(callbacks, callback_id) /\ deaf' = deaf
        /\ mirror' = [mirror EXCEPT ![callback_id] = Told]
    BY <1>5, OnlineTold DEF hs_monitor_register_callback
  <2>2. callback_id \in Ids
    <3>1. callback_id \in 0 .. MaxCallbacks /\ callback_id < MaxCallbacks
      BY <1>5 DEF hs_monitor_register_callback, IInv, TypeOK
    <3> QED
      BY <3>1, MonitorAssumption DEF Ids
  <2>3. callbacks' \in Seq(Ids)
    BY <1>1, <2>1, <2>2, AppendProperties
  <2> HIDE DEF n
  <2>4. Knows(callbacks', n, mirror', deaf', Told, call.dev)
    BY <1>1, <1>3, <2>1, <2>2, AppendKnows
  <2> QED
    BY <1>4, <2>3, <2>4
<1>6. ASSUME NEW id \in Ids, hs_monitor_deregister_callback(id)
      PROVE  MirrorOK'
  <2>1. /\ callbacks' = drop_callback(id) /\ Contains(callbacks, id)
        /\ deaf' = deaf \ {id} /\ mirror' = mirror
        /\ call.pc = "callback" => id # call.next
    BY <1>6 DEF hs_monitor_deregister_callback
  <2>2. n # id
    BY <2>1 DEF Ids, ListHead
  <2> HIDE DEF n
  <2>3. callbacks' \in Seq(Ids)
    BY <1>1, <2>1, DropCallback
  <2>4. Knows(callbacks', n, mirror', deaf', Told, call.dev)
    BY <1>1, <1>3, <2>1, <2>2, DropKnows
  <2> QED
    BY <1>4, <2>3, <2>4
<1> QED
  BY <1>5, <1>6

\* The turns of the loop, and its end by an error, which leaves the callbacks that
\* were not reached with what they knew.
LEMMA LoopMirror ==
    ASSUME CarefulApp, IInv, IterOK, TableOnline, MirrorOK,
           CallbackContinues \/ CallbackLeaves \/ CallbackFails
    PROVE  MirrorOK'
<1>1. /\ callbacks \in Seq(Ids) /\ call \in Calls /\ call.pc = "callback"
      /\ mirror \in [Ids -> SUBSET Devs] /\ devices' = devices
      /\ Distinct(callbacks, callback_id)
      /\ call.next # call.cur
      /\ call.next = ListHead \/ Contains(callbacks, call.next)
      /\ Knows(callbacks, call.next, mirror, deaf, Told, call.dev)
  BY DEF IInv, TypeOK, IterOK, MirrorOK, CallbackContinues, CallbackLeaves, CallbackFails
<1>2. call.op \in {"add", "remove"} /\ call.dev \in devices /\ call.dev \in Devs
  BY <1>1 DEF IInv, TypeOK, EventOK, Calls
<1>3. call.dev \in Told <=> obj[call.dev].state = "ONLINE"
  BY <1>2, OnlineTold DEF Online
<1>4. ASSUME callbacks' \in Seq(Ids), Distinct(callbacks', callback_id),
             call.next = ListHead \/ Contains(callbacks', call.next),
             Knows(callbacks', call.next, mirror, deaf', Told, call.dev),
             Advance(callbacks')
      PROVE  MirrorOK'
  <2>1. Visit(call, obj[call.dev].state, call.next, callbacks')
    BY <1>4 DEF Advance
  <2>2. /\ call'.pc = "callback"
             => Knows(callbacks', call'.next, mirror', deaf', Told, call.dev)
        /\ call'.pc # "callback" => Settled(callbacks', mirror', deaf', Told)
    BY <1>1, <1>2, <1>3, <1>4, <2>1, VisitKnows
  <2>3. call'.op = call.op /\ call'.dev = call.dev
    BY <1>1, <1>2, <1>4, <2>1, VisitStep
  <2>4. Told' = Told
    BY <1>1, <2>3 DEF Told
  <2> QED
    BY <2>2, <2>3, <2>4 DEF MirrorOK
<1>5. CASE CallbackContinues
  <2>1. Advance(callbacks) /\ callbacks' = callbacks /\ deaf' = deaf
    BY <1>5 DEF CallbackContinues, cbVars
  <2> QED
    BY <1>1, <1>4, <2>1
<1>6. CASE CallbackLeaves
  <2>1. /\ Contains(callbacks, call.cur) /\ callbacks' = drop_callback(call.cur)
        /\ deaf' = deaf \ {call.cur} /\ Advance(callbacks')
    BY <1>6 DEF CallbackLeaves
  <2>2. call.cur \in Ids
    BY <1>1, <2>1, ElementOfSeq DEF Contains
  <2>3. /\ callbacks' \in Seq(Ids) /\ Distinct(callbacks', callback_id)
        /\ call.next = ListHead \/ Contains(callbacks', call.next)
    BY <1>1, <2>1, <2>2, DropCallback, DropKeeps
  <2>4. Knows(callbacks', call.next, mirror, deaf', Told, call.dev)
    BY <1>1, <2>1, <2>2, DropKnows
  <2> QED
    BY <1>4, <2>1, <2>3, <2>4
<1>7. CASE CallbackFails
  <2>1. /\ call' = Return(call, -1) /\ callbacks' = callbacks /\ mirror' = mirror
        /\ deaf' = deaf \cup Unreached
    BY <1>7 DEF CallbackFails, cbVars
  <2>2. /\ call'.pc \in {"unref", "unlink"}
        /\ call'.op = call.op /\ call'.dev = call.dev
    BY <1>1, <2>1 DEF Return, Calls
  <2>3. Told' = Told
    BY <1>1, <2>2 DEF Told
  <2>4. DOMAIN callbacks = 1 .. Len(callbacks)
    BY <1>1, LenProperties
  <2>5. ASSUME NEW i \in 1 .. Len(callbacks), callbacks[i] \notin deaf'
        PROVE  mirror[callbacks[i]] = Told
    <3>1. callbacks[i] \notin deaf /\ callbacks[i] \notin Unreached
      BY <2>1, <2>5
    <3>2. ~Ahead(callbacks, call.next, i)
      BY <2>4, <3>1 DEF Unreached, Ahead
    <3> QED
      BY <1>1, <3>1, <3>2 DEF Knows
  <2>6. Settled(callbacks', mirror', deaf', Told')
    BY <2>1, <2>3, <2>5 DEF Settled
  <2> QED
    BY <2>2, <2>6 DEF MirrorOK
<1> QED
  BY <1>5, <1>6, <1>7

\* The start of an event, when every owner knows the table, and its end.
LEMMA EventMirror ==
    ASSUME IInv, IterOK, MirrorOK,
           \/ hs_monitor_add \/ UnlinkDevice \/ ReleaseDevice
           \/ \E k \in Keys : hs_monitor_remove(k)
           \/ \E d \in Devs, k \in Keys, i \in Ifaces : read_device_information(d, k, i)
    PROVE  MirrorOK'
<1>1. /\ callbacks \in Seq(Ids) /\ call \in Calls /\ devices \subseteq Devs
      /\ mirror \in [Ids -> SUBSET Devs] /\ obj \in [Devs -> Objects]
      /\ Distinct(callbacks, callback_id) /\ EventOK
      /\ callbacks' = callbacks /\ deaf' = deaf
  BY DEF IInv, TypeOK, IterOK, hs_monitor_add, UnlinkDevice, ReleaseDevice,
         hs_monitor_remove, read_device_information, cbVars, obsVars
<1>2. call.pc \in {"idle", "add", "unref", "unlink"}
  BY DEF hs_monitor_add, UnlinkDevice, ReleaseDevice, hs_monitor_remove,
         read_device_information
<1>3. Settled(callbacks, mirror, deaf, Told)
  BY <1>2 DEF MirrorOK
<1>4. ASSUME mirror' = mirror, call'.pc \in {"idle", "add", "unref"}, Told' = Told
      PROVE  MirrorOK'
  BY <1>1, <1>3, <1>4 DEF MirrorOK
<1>5. ASSUME NEW k \in Calls, k.dev \in Devs, k.op \in {"add", "remove"},
             NEW s, StartDispatch(k, s),
             devices' = Told \cup {k.dev},
             s = "ONLINE" <=> k.op = "add"
      PROVE  MirrorOK'
  <2>1. call'.op = k.op /\ call'.dev = k.dev
    BY <1>1, <1>5, StartStep
  <2>2. Told' = IF k.op = "remove" THEN devices' \ {k.dev} ELSE devices'
    BY <2>1 DEF Told
  <2>3. Told \ {k.dev} = Told' \ {k.dev}
    BY <1>5, <2>2
  <2>4. k.dev \in Told' <=> s = "ONLINE"
    BY <1>5, <2>2
  <2>5. PICK T : T = Told'
    OBVIOUS
  <2>6. /\ call'.pc = "callback"
             => Knows(callbacks, call'.next, mirror', deaf, T, k.dev)
        /\ call'.pc # "callback" => Settled(callbacks, mirror', deaf, T)
    BY <1>1, <1>3, <1>5, <2>3, <2>4, <2>5, StartKnows
  <2> QED
    BY <1>1, <2>1, <2>5, <2>6 DEF MirrorOK
<1>6. ASSUME NEW d \in Devs PROVE Disconnect(d)[d].state = "DISCONNECTED"
  BY <1>1, DisconnectObject
<1>7. CASE hs_monitor_add
  <2>1. call.pc = "add" /\ call.op = "add" /\ call.dev \in Devs /\ Told = devices
    BY <1>1, <1>7 DEF hs_monitor_add, EventOK, Told
  <2>2. CASE IsKnown(call.dev)
    <3>1. call' = [call EXCEPT !.pc = "unref"] /\ mirror' = mirror /\ devices' = devices
      BY <1>7, <2>2 DEF hs_monitor_add
    <3>2. call'.pc = "unref" /\ call'.op = "add"
      BY <1>1, <2>1, <3>1 DEF Calls
    <3>3. Told' = Told
      BY <2>1, <3>1, <3>2 DEF Told
    <3> QED
      BY <1>4, <3>1, <3>2, <3>3
  <2>3. CASE ~IsKnown(call.dev)
    <3>1. StartDispatch(call, "ONLINE") /\ devices' = devices \cup {call.dev}
      BY <1>7, <2>3 DEF hs_monitor_add
    <3> QED
      BY <1>1, <1>5, <2>1, <3>1
  <2> QED
    BY <2>2, <2>3
<1>8. CASE UnlinkDevice
  <2>1. /\ call.op = "remove" /\ Told = devices \ {call.dev} /\ devices' = Told
        /\ call.todo \subseteq devices \ {call.dev}
    BY <1>1, <1>8 DEF UnlinkDevice, EventOK, Told
  <2>2. CASE call' = Idle /\ mirror' = mirror
    <3>1. call'.pc = "idle" /\ Told' = Told
      BY <2>1, <2>2 DEF Idle, Told
    <3> QED
      BY <1>4, <2>2, <3>1
  <2>3. ASSUME NEW d \in call.todo,
               StartDispatch([call EXCEPT !.dev = d, !.todo = @ \ {d}],
                             Disconnect(d)[d].state)
        PROVE  MirrorOK'
    <3>1. PICK event : event = [call EXCEPT !.dev = d, !.todo = @ \ {d}]
      OBVIOUS
    <3>2. d \in Devs /\ d \in Told
      BY <1>1, <2>1
    <3>3. event \in Calls /\ event.dev = d /\ event.op = "remove"
      BY <1>1, <2>1, <3>1, <3>2 DEF Calls
    <3>4. StartDispatch(event, "DISCONNECTED")
      BY <1>6, <2>3, <3>1, <3>2
    <3> QED
      BY <1>5, <2>1, <3>2, <3>3, <3>4
  <2> QED
    BY <1>8, <2>2, <2>3 DEF UnlinkDevice
<1>9. CASE ReleaseDevice
  <2>1. /\ call'.pc = "idle" /\ call'.op = "none" /\ call.op = "add"
        /\ mirror' = mirror /\ devices' = devices
    BY <1>1, <1>9 DEF ReleaseDevice, Idle, EventOK, obsVars
  <2>2. Told' = Told
    BY <2>1 DEF Told
  <2> QED
    BY <1>4, <2>1, <2>2
<1>10. CASE \E k \in Keys : hs_monitor_remove(k)
  <2>1. PICK k \in Keys, d \in devices :
          StartDispatch([Idle EXCEPT !.op = "remove", !.dev = d,
                                     !.todo = {e \in devices \ {d} : obj[e].key = k}],
                        Disconnect(d)[d].state)
    BY <1>10 DEF hs_monitor_remove
  <2>2. PICK todo : todo = {e \in devices \ {d} : obj[e].key = k}
    OBVIOUS
  <2>3. PICK event : event = [Idle EXCEPT !.op = "remove", !.dev = d, !.todo = todo]
    OBVIOUS
  <2>4. todo \in SUBSET Devs /\ d \in Devs
    BY <1>1, <2>2
  <2>5. event \in Calls /\ event.dev = d /\ event.op = "remove"
    BY <2>3, <2>4 DEF Idle, Calls, Pcs, Nodes, ListHead
  <2>6. StartDispatch(event, "DISCONNECTED")
    BY <1>6, <2>1, <2>2, <2>3, <2>4
  <2>7. call.op = "none" /\ devices' = devices
    BY <1>1, <1>10 DEF hs_monitor_remove, EventOK
  <2>8. devices' = Told \cup {event.dev}
    BY <2>5, <2>7 DEF Told
  <2> QED
    BY <1>5, <2>4, <2>5, <2>6, <2>8
<1>11. CASE \E d \in Devs, k \in Keys, i \in Ifaces : read_device_information(d, k, i)
  <2>1. /\ call'.pc = "add" /\ call'.op = "add" /\ call.op = "none"
        /\ mirror' = mirror /\ devices' = devices
    BY <1>1, <1>11 DEF read_device_information, Idle, EventOK
  <2>2. Told' = Told
    BY <2>1 DEF Told
  <2> QED
    BY <1>4, <2>1, <2>2
<1> QED
  BY <1>7, <1>8, <1>9, <1>10, <1>11

\* An arrival sets the device online as it enters the table, a removal sets it
\* offline as its callbacks are told, and nothing else touches the state.
LEMMA TableOnlineNext ==
    ASSUME IInv, IInv', TableOnline, Next
    PROVE  TableOnline'
<1>1. /\ callbacks \in Seq(Ids) /\ call \in Calls /\ devices \subseteq Devs
      /\ mirror \in [Ids -> SUBSET Devs] /\ obj \in [Devs -> Objects] /\ EventOK
      /\ devices \subseteq live
  BY TableLive DEF IInv, TypeOK
<1>2. (devices \subseteq live /\ devices \subseteq Devs)'
  BY TableLive, PTL
<1>3. ASSUME \A d \in devices' : d \in devices /\ obj'[d] = obj[d],
             \/ call.op # "remove"
             \/ call.dev \notin devices'
             \/ call'.op = "remove" /\ call'.dev = call.dev
      PROVE  TableOnline'
  BY <1>3 DEF TableOnline
<1>4. ASSUME NEW e \in Devs, \A d \in devices' : d \in devices /\ obj'[d] = Disconnect(e)[d],
             call'.op = "remove", call'.dev = e,
             call.op # "remove" \/ call.dev \notin devices'
      PROVE  TableOnline'
  <2>1. ASSUME NEW d \in devices', d # e PROVE obj'[d].state = "ONLINE"
    <3>1. d \in Devs /\ obj'[d] = Disconnect(e)[d] /\ d \in devices
      BY <1>2, <1>4, <2>1
    <3>2. Disconnect(e)[d] = obj[d]
      BY <1>1, <2>1, <3>1, DisconnectObject
    <3> QED
      BY <1>4, <2>1, <3>1, <3>2 DEF TableOnline
  <2> QED
    BY <1>4, <2>1 DEF TableOnline
<1>5. CASE hs_monitor_add
  <2>1. call.pc = "add" /\ call.op = "add" /\ call.dev \in Devs
    BY <1>1, <1>5 DEF hs_monitor_add, EventOK
  <2>2. CASE IsKnown(call.dev)
    BY <1>3, <1>5, <2>1, <2>2 DEF hs_monitor_add
  <2>3. CASE ~IsKnown(call.dev)
    <3>1. PICK e \in Devs : e = call.dev
      BY <2>1
    <3>2. /\ obj' = [obj EXCEPT ![e].state = "ONLINE", ![e].monitor = TRUE]
          /\ devices' = devices \cup {e}
      BY <1>5, <2>3, <3>1 DEF hs_monitor_add
    <3>3. ASSUME NEW d \in devices' PROVE obj'[d].state = "ONLINE"
      <4>1. obj[d] \in Objects /\ d \in Devs
        BY <1>1, <1>2
      <4>2. CASE d = e
        BY <1>1, <3>2, <4>1, <4>2 DEF Objects
      <4>3. CASE d # e
        BY <1>1, <2>1, <3>2, <4>1, <4>3 DEF TableOnline
      <4> QED
        BY <4>2, <4>3
    <3> QED
      BY <3>3 DEF TableOnline
  <2> QED
    BY <2>2, <2>3
<1>6. CASE CallbackContinues \/ CallbackLeaves \/ CallbackFails
  <2>1. /\ devices' = devices /\ obj' = obj /\ call.pc = "callback"
    BY <1>6 DEF CallbackContinues, CallbackLeaves, CallbackFails, devVars
  <2>2. call.op \in {"add", "remove"} /\ call.dev \in Devs
    BY <1>1, <2>1 DEF EventOK, Calls
  <2>3. callbacks' \in Seq(Ids)
    BY DEF IInv, TypeOK
  <2>4. Advance(callbacks') \/ Crash \/ call' = Return(call, -1)
    BY <1>6 DEF CallbackContinues, CallbackLeaves, CallbackFails, cbVars
  <2>5. call'.op = call.op /\ call'.dev = call.dev
    <3>1. CASE Advance(callbacks')
      BY <1>1, <2>2, <2>3, <3>1, AdvanceStep
    <3>2. CASE Crash
      BY <1>1, <3>2 DEF Crash, Calls
    <3>3. CASE call' = Return(call, -1)
      BY <1>1, <3>3 DEF Return, Calls
    <3> QED
      BY <2>4, <3>1, <3>2, <3>3
  <2> QED
    BY <1>3, <2>1, <2>5
<1>7. CASE ReleaseDevice
  <2>1. /\ hs_device_unref({call.dev}, obj) /\ devices' = devices /\ call.op = "add"
    BY <1>1, <1>7 DEF ReleaseDevice, EventOK
  <2> QED
    BY <1>2, <1>3, <2>1, Survivor
<1>8. CASE UnlinkDevice
  <2>1. /\ call.op = "remove" /\ devices' = devices \ {call.dev}
        /\ call.todo \subseteq devices
    BY <1>1, <1>8 DEF UnlinkDevice, EventOK
  <2>2. CASE hs_device_unref({call.dev}, obj)
    BY <1>2, <1>3, <2>1, <2>2, Survivor
  <2>3. ASSUME NEW d \in call.todo,
               hs_device_unref({call.dev}, Disconnect(d)),
               StartDispatch([call EXCEPT !.dev = d, !.todo = @ \ {d}],
                             Disconnect(d)[d].state)
        PROVE  TableOnline'
    <3>1. PICK event : event = [call EXCEPT !.dev = d, !.todo = @ \ {d}]
      OBVIOUS
    <3>2. d \in Devs
      BY <1>1, <2>1
    <3>3. event \in Calls /\ event.dev = d /\ event.op = "remove"
      BY <1>1, <2>1, <3>1, <3>2 DEF Calls
    <3>4. call'.op = "remove" /\ call'.dev = d
      BY <1>1, <2>3, <3>1, <3>2, <3>3, StartStep
    <3> QED
      BY <1>2, <1>4, <2>1, <2>3, <3>2, <3>4, Survivor
  <2> QED
    BY <1>8, <2>2, <2>3 DEF UnlinkDevice
<1>9. CASE \E k \in Keys : hs_monitor_remove(k)
  <2>1. PICK k \in Keys, d \in devices :
          /\ obj' = Disconnect(d)
          /\ StartDispatch([Idle EXCEPT !.op = "remove", !.dev = d,
                                        !.todo = {e \in devices \ {d} : obj[e].key = k}],
                           Disconnect(d)[d].state)
    BY <1>9 DEF hs_monitor_remove
  <2>2. PICK todo : todo = {e \in devices \ {d} : obj[e].key = k}
    OBVIOUS
  <2>3. PICK event : event = [Idle EXCEPT !.op = "remove", !.dev = d, !.todo = todo]
    OBVIOUS
  <2>4. todo \in SUBSET Devs /\ d \in Devs
    BY <1>1, <2>2
  <2>5. event \in Calls /\ event.dev = d /\ event.op = "remove"
    BY <2>3, <2>4 DEF Idle, Calls, Pcs, Nodes, ListHead
  <2>6. call'.op = "remove" /\ call'.dev = d
    BY <1>1, <2>1, <2>2, <2>3, <2>4, <2>5, StartStep
  <2>7. call.op = "none" /\ devices' = devices
    BY <1>1, <1>9 DEF hs_monitor_remove, EventOK
  <2> QED
    BY <1>4, <2>1, <2>4, <2>6, <2>7
<1>10. CASE \E d \in Devs, k \in Keys, i \in Ifaces : read_device_information(d, k, i)
  <2>1. PICK e \in Devs, k \in Keys, i \in Ifaces : read_device_information(e, k, i)
    BY <1>10
  <2>2. /\ obj' = [obj EXCEPT ![e] = [Blank EXCEPT !.key = k, !.iface = i]]
        /\ e \notin live /\ devices' = devices /\ call.op = "none"
    BY <1>1, <2>1 DEF read_device_information, EventOK
  <2>3. \A d \in devices : obj'[d] = obj[d]
    BY <1>1, <2>2
  <2> QED
    BY <1>3, <2>2, <2>3
<1>11. CASE \E d \in Devs : UserRef(d) \/ UserUnref(d) \/ hs_device_open(d)
                            \/ hs_handle_close(d)
  <2>1. /\ devices' = devices /\ call' = call
        /\ obj' = obj \/ \E S : hs_device_unref(S, obj)
    BY <1>11 DEF UserRef, UserUnref, hs_device_open, hs_handle_close
  <2>2. \A d \in devices : obj'[d] = obj[d]
    BY <1>2, <2>1, Survivor
  <2> QED
    BY <1>3, <2>1, <2>2
<1>12. CASE \/ hs_monitor_register_callback
            \/ \E id \in Ids : hs_monitor_deregister_callback(id)
  BY <1>3, <1>12 DEF hs_monitor_register_callback, hs_monitor_deregister_callback,
     devVars
<1>13. CASE hs_monitor_release
  BY <1>13 DEF hs_monitor_release, TableOnline
<1>14. CASE hs_monitor_init
  <2>1. call.op = "none" /\ obj' = obj /\ devices' = devices
    BY <1>1, <1>14 DEF hs_monitor_init, EventOK, devVars
  <2> QED
    BY <1>3, <2>1
<1> QED
  BY <1>5, <1>6, <1>7, <1>8, <1>9, <1>10, <1>11, <1>12, <1>13, <1>14
     DEF Next, Library, Application, Platform

\* The owner of each registered callback follows the table from the events alone,
\* for any number of callbacks and devices: a dispatch reaches every callback of
\* the list once, those registered while it runs included, unless a callback
\* fails, and then only those behind it miss the event.  The application is
\* careful as in IterationCorrect.
THEOREM MirrorCorrect == Spec => [](CarefulApp => MirrorAccurate)
<1> DEFINE Safe == CarefulApp => IterOK
           Inv == TableOnline /\ (CarefulApp => MirrorOK)
<1>1. Init => Inv
  <2> SUFFICES ASSUME Init PROVE TableOnline /\ MirrorOK
    OBVIOUS
  <2>1. callbacks = <<>> /\ call.pc = "idle" /\ devices = {}
    BY DEF Init, Idle
  <2> QED
    BY <2>1 DEF TableOnline, MirrorOK, Settled
<1>2. IInv /\ IInv' /\ Safe /\ Inv /\ [Next]_vars => Inv'
  <2> SUFFICES ASSUME IInv, IInv', Safe, Inv, [Next]_vars PROVE Inv'
    OBVIOUS
  <2>1. TableOnline'
    <3>1. CASE UNCHANGED vars
      BY <3>1 DEF vars, TableOnline
    <3> QED
      BY <3>1, TableOnlineNext
  <2>2. ASSUME CarefulApp PROVE MirrorOK'
    <3>1. IterOK /\ MirrorOK /\ TableOnline
      BY <2>2
    <3>2. ASSUME UNCHANGED <<callbacks, call, devices, mirror, deaf>> PROVE MirrorOK'
      BY <3>1, <3>2 DEF MirrorOK, Knows, Ahead, Settled, Told
    <3>3. CASE UNCHANGED vars
      BY <3>2, <3>3 DEF vars
    <3>4. CASE Library
      BY <2>2, <3>1, <3>4, LoopMirror, EventMirror DEF Library
    <3>5. CASE Platform
      BY <3>1, <3>5, EventMirror DEF Platform
    <3>6. CASE \/ hs_monitor_register_callback
               \/ \E id \in Ids : hs_monitor_deregister_callback(id)
      BY <2>2, <3>1, <3>6, ListMirror
    <3>7. CASE \E d \in Devs : UserRef(d) \/ UserUnref(d) \/ hs_device_open(d)
                               \/ hs_handle_close(d)
      BY <3>2, <3>7 DEF UserRef, UserUnref, hs_device_open, hs_handle_close,
         cbVars, obsVars
    <3>8. CASE hs_monitor_release
      BY <3>8 DEF hs_monitor_release, Idle, MirrorOK
    <3>9. CASE hs_monitor_init
      <4>1. callbacks' = <<>> /\ call'.pc = "idle"
        BY <3>1, <3>9 DEF hs_monitor_init, Idle, IterOK
      <4> QED
        BY <4>1 DEF MirrorOK, Settled
    <3> QED
      BY <3>3, <3>4, <3>5, <3>6, <3>7, <3>8, <3>9 DEF Next, Application
  <2> QED
    BY <2>1, <2>2
<1>3. IInv /\ Inv => (CarefulApp => MirrorAccurate)
  <2> SUFFICES ASSUME IInv, MirrorOK, call.pc = "idle" PROVE MirrorAccurate
    BY DEF MirrorAccurate
  <2>1. callbacks \in Seq(Ids) /\ call.op = "none"
    BY DEF IInv, TypeOK, EventOK
  <2>2. Told = devices /\ DOMAIN callbacks = 1 .. Len(callbacks)
    BY <2>1, LenProperties DEF Told
  <2> QED
    BY <2>2 DEF MirrorOK, Settled, MirrorAccurate
<1> QED
  BY <1>1, <1>2, <1>3, Inductive, IterAlways, PTL DEF Spec

=============================================================================
