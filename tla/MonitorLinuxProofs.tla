------------------------- MODULE MonitorLinuxProofs -------------------------
(***************************************************************************)
(* Theorems about the module MonitorLinux, for every set of devices, every *)
(* size of the socket and every number of changes.                         *)
(***************************************************************************)
EXTENDS MonitorLinux, SequenceTheorems, TLAPS

Acts == {"add", "remove", "change"}

\* Some action of q adds or removes the device.
AnySignal(q) == \E i \in DOMAIN q : q[i] # "change"

\* The last action of q that adds or removes device k leaves it as S says.
LastAgrees(q, k, S) ==
    \A i \in DOMAIN q :
        q[i] # "change" /\ (\A j \in DOMAIN q : j > i => q[j] = "change") =>
            (q[i] = "add" <=> k \in S)

\* The events s as device k sees them: those of the others change nothing.
ViewOf(s, k) == [i \in DOMAIN s |-> IF s[i].key = k THEN s[i].act ELSE "change"]

\* The socket exists during the life of the monitor.
SocketOK ==
    /\ receiving <=> call.pc # "closed"
    /\ call.pc = "closed" => sock = <<>> /\ ~overrun /\ missed = {}
    /\ call.pc \in {"closed", "scan"} => devices = {}

\* A refresh stops before its last event only when the full socket lost some.
RefreshOK ==
    /\ overrun => missed # {} /\ ~(Len(sock) < SockSize)
    /\ call.pc = "refresh" => call.due <= Len(sock)
    /\ call.pc = "idle" /\ call.ret = 0 /\ call.due > 0 =>
            missed # {} /\ ~(Len(sock) < SockSize)

\* The last event of the kernel's queue says whether the device is there.
KernelOK == \A k \in Keys : LastAgrees(kq[k], k, present)

\* The database of udevd is right for the devices without events to apply.
DbOK ==
    \A k \in Keys :
        /\ k \in ruled =>
              /\ kq[k] # <<>>
              /\ ~AnySignal(Tail(kq[k])) => (k \in db <=> k \in present)
        /\ k \notin ruled /\ ~AnySignal(kq[k]) => (k \in db <=> k \in present)

\* When the kernel's queue holds no event of a device, the last event of the
\* device in the socket says whether it is there.
SockOK ==
    \A k \in Usable \ missed :
        ~AnySignal(kq[k]) => LastAgrees(ViewOf(sock, k), k, present)

\* Without events on their way the table is right; during the enumeration, it
\* is so but for the entries that are left.
TableOK ==
    \A k \in Usable \ missed :
        ~AnySignal(kq[k]) /\ ~AnySignal(ViewOf(sock, k)) =>
            /\ call.pc = "enumerate" =>
                  /\ k \in devices => k \in present
                  /\ k \in present => k \in devices \/ k \in call.todo
            /\ call.pc \in {"idle", "refresh"} => (k \in devices <=> k \in present)

Inv == TypeOK /\ SocketOK /\ RefreshOK /\ KernelOK /\ DbOK /\ SockOK /\ TableOK

-----------------------------------------------------------------------------
(* Queues of actions. *)

\* An action at the end of a queue is its last one, unless it is a "change".
LEMMA AppendAct ==
    ASSUME NEW q \in Seq(Acts), NEW a \in Acts, NEW k, NEW S
    PROVE  /\ Append(q, a) \in Seq(Acts) /\ Append(q, a) # <<>>
           /\ AnySignal(Append(q, a)) <=> AnySignal(q) \/ a # "change"
           /\ a # "change" => (LastAgrees(Append(q, a), k, S) <=> (a = "add" <=> k \in S))
           /\ a = "change" /\ LastAgrees(q, k, S) => LastAgrees(Append(q, a), k, S)
<1> DEFINE r == Append(q, a)
<1>1. Len(q) \in Nat /\ DOMAIN q = 1 .. Len(q)
  BY LenProperties
<1>2. /\ r \in Seq(Acts) /\ r # <<>> /\ Len(r) = Len(q) + 1 /\ DOMAIN r = 1 .. Len(r)
      /\ \A i \in 1 .. Len(q) : r[i] = q[i]
      /\ r[Len(q) + 1] = a
  BY AppendProperties, LenProperties
<1> HIDE DEF r
<1>3. AnySignal(r) <=> AnySignal(q) \/ a # "change"
  <2>1. ASSUME AnySignal(r) PROVE AnySignal(q) \/ a # "change"
    <3>1. PICK i \in DOMAIN r : r[i] # "change"
      BY <2>1 DEF AnySignal
    <3>2. i = Len(q) + 1 \/ i \in 1 .. Len(q)
      BY <1>1, <1>2
    <3> QED
      BY <1>1, <1>2, <3>1, <3>2 DEF AnySignal
  <2>2. ASSUME AnySignal(q) PROVE AnySignal(r)
    <3>1. PICK i \in DOMAIN q : q[i] # "change"
      BY <2>2 DEF AnySignal
    <3>2. i \in DOMAIN r /\ r[i] = q[i]
      BY <1>1, <1>2
    <3> QED
      BY <3>1, <3>2 DEF AnySignal
  <2>3. ASSUME a # "change" PROVE AnySignal(r)
    <3>1. Len(q) + 1 \in DOMAIN r
      BY <1>1, <1>2
    <3> QED
      BY <1>2, <2>3, <3>1 DEF AnySignal
  <2> QED
    BY <2>1, <2>2, <2>3
<1>4. ASSUME a # "change" PROVE LastAgrees(r, k, S) <=> (a = "add" <=> k \in S)
  <2>1. PICK n : n = Len(q) + 1
    OBVIOUS
  <2>2. /\ n \in DOMAIN r /\ r[n] = a
        /\ \A i \in DOMAIN r : i # n => n > i
        /\ \A j \in DOMAIN r : ~(j > n)
    BY <1>1, <1>2, <2>1
  <2> QED
    BY <1>4, <2>2 DEF LastAgrees
<1>5. ASSUME a = "change", LastAgrees(q, k, S) PROVE LastAgrees(r, k, S)
  <2> SUFFICES ASSUME NEW i \in DOMAIN r, r[i] # "change",
                      \A j \in DOMAIN r : j > i => r[j] = "change"
               PROVE  r[i] = "add" <=> k \in S
    BY DEF LastAgrees
  <2>1. i \in DOMAIN q /\ r[i] = q[i]
    BY <1>1, <1>2, <1>5
  <2>2. \A j \in DOMAIN q : j \in DOMAIN r /\ r[j] = q[j]
    BY <1>1, <1>2
  <2> QED
    BY <1>5, <2>1, <2>2 DEF LastAgrees
<1>6. /\ r \in Seq(Acts) /\ r # <<>>
      /\ AnySignal(r) <=> AnySignal(q) \/ a # "change"
      /\ a # "change" => (LastAgrees(r, k, S) <=> (a = "add" <=> k \in S))
      /\ a = "change" /\ LastAgrees(q, k, S) => LastAgrees(r, k, S)
  BY <1>2, <1>3, <1>4, <1>5
<1> QED
  BY <1>6 DEF r

\* The last action stays the last one when the first is taken.
LEMMA TailAct ==
    ASSUME NEW q \in Seq(Acts), q # <<>>, NEW k, NEW S
    PROVE  /\ Head(q) \in Acts /\ Tail(q) \in Seq(Acts)
           /\ AnySignal(q) <=> Head(q) # "change" \/ AnySignal(Tail(q))
           /\ LastAgrees(q, k, S) => LastAgrees(Tail(q), k, S)
           /\ Head(q) # "change" /\ ~AnySignal(Tail(q)) /\ LastAgrees(q, k, S)
                 => (Head(q) = "add" <=> k \in S)
<1> DEFINE r == Tail(q)
<1>1. Len(q) \in Nat /\ Len(q) > 0 /\ DOMAIN q = 1 .. Len(q)
  BY LenProperties, EmptySeq
<1>2. /\ Head(q) \in Acts /\ r \in Seq(Acts) /\ Head(q) = q[1]
      /\ Len(r) = Len(q) - 1 /\ DOMAIN r = 1 .. Len(r)
      /\ \A i \in 1 .. Len(r) : r[i] = q[i + 1]
  BY HeadTailProperties, LenProperties
<1> HIDE DEF r
<1>3. \A i \in DOMAIN r : i + 1 \in DOMAIN q /\ r[i] = q[i + 1]
  BY <1>1, <1>2
<1>4. ASSUME NEW i \in DOMAIN q, i # 1
      PROVE  i - 1 \in DOMAIN r /\ r[i - 1] = q[i]
  <2>1. i - 1 \in 1 .. Len(r) /\ (i - 1) + 1 = i
    BY <1>1, <1>2, <1>4
  <2> QED
    BY <1>2, <2>1
<1>5. 1 \in DOMAIN q
  BY <1>1
<1>6. AnySignal(q) <=> Head(q) # "change" \/ AnySignal(r)
  BY <1>2, <1>3, <1>4, <1>5 DEF AnySignal
<1>7. ASSUME LastAgrees(q, k, S) PROVE LastAgrees(r, k, S)
  <2> SUFFICES ASSUME NEW i \in DOMAIN r, r[i] # "change",
                      \A j \in DOMAIN r : j > i => r[j] = "change"
               PROVE  r[i] = "add" <=> k \in S
    BY DEF LastAgrees
  <2>1. PICK n : n = i + 1
    OBVIOUS
  <2>2. n \in DOMAIN q /\ q[n] = r[i]
    BY <1>3, <2>1
  <2>3. ASSUME NEW j \in DOMAIN q, j > n PROVE q[j] = "change"
    <3>1. j # 1 /\ j - 1 > i
      BY <1>1, <1>2, <2>1, <2>3
    <3> QED
      BY <1>4, <3>1
  <2> QED
    BY <1>7, <2>2, <2>3 DEF LastAgrees
<1>8. ASSUME Head(q) # "change", ~AnySignal(r), LastAgrees(q, k, S)
      PROVE  Head(q) = "add" <=> k \in S
  <2>1. \A j \in DOMAIN q : j > 1 => q[j] = "change"
    BY <1>1, <1>4, <1>8 DEF AnySignal
  <2> QED
    BY <1>2, <1>5, <1>8, <2>1 DEF LastAgrees
<1>9. /\ Head(q) \in Acts /\ r \in Seq(Acts)
      /\ AnySignal(q) <=> Head(q) # "change" \/ AnySignal(r)
      /\ LastAgrees(q, k, S) => LastAgrees(r, k, S)
      /\ Head(q) # "change" /\ ~AnySignal(r) /\ LastAgrees(q, k, S)
            => (Head(q) = "add" <=> k \in S)
  BY <1>2, <1>6, <1>7, <1>8
<1> QED
  BY <1>9 DEF r

\* The first action stays the first when one is added behind it.
LEMMA TailAppend ==
    ASSUME NEW q \in Seq(Acts), q # <<>>, NEW a \in Acts
    PROVE  AnySignal(Tail(Append(q, a))) <=> AnySignal(Tail(q)) \/ a # "change"
<1> DEFINE r == Append(q, a)
           t == Tail(q)
           u == Tail(r)
<1>1. Len(q) \in Nat /\ Len(q) > 0
  BY LenProperties, EmptySeq
<1>2. /\ r \in Seq(Acts) /\ r # <<>> /\ Len(r) = Len(q) + 1
      /\ \A i \in 1 .. Len(q) : r[i] = q[i]
      /\ r[Len(q) + 1] = a
  BY AppendProperties
<1>3. /\ t \in Seq(Acts) /\ Len(t) = Len(q) - 1 /\ DOMAIN t = 1 .. Len(t)
      /\ \A i \in 1 .. Len(t) : t[i] = q[i + 1]
  BY HeadTailProperties, LenProperties
<1> HIDE DEF r, t
<1>4. /\ u \in Seq(Acts) /\ Len(u) = Len(r) - 1 /\ DOMAIN u = 1 .. Len(u)
      /\ \A i \in 1 .. Len(u) : u[i] = r[i + 1]
  BY <1>2, HeadTailProperties, LenProperties
<1> HIDE DEF u
<1>5. \A i \in DOMAIN t : i \in DOMAIN u /\ u[i] = t[i]
  BY <1>1, <1>2, <1>3, <1>4
<1>6. Len(q) \in DOMAIN u /\ u[Len(q)] = a
  BY <1>1, <1>2, <1>4
<1>7. \A i \in DOMAIN u : i \in DOMAIN t \/ i = Len(q)
  BY <1>1, <1>2, <1>3, <1>4
<1>8. AnySignal(u) <=> AnySignal(t) \/ a # "change"
  BY <1>5, <1>6, <1>7 DEF AnySignal
<1> QED
  BY <1>8 DEF u, t, r

\* A view is a queue of actions, which follows the socket.
LEMMA ViewAppend ==
    ASSUME NEW s \in Seq(Events), NEW e \in Events, NEW k
    PROVE  /\ ViewOf(s, k) \in Seq(Acts)
           /\ ViewOf(Append(s, e), k) =
                 Append(ViewOf(s, k), IF e.key = k THEN e.act ELSE "change")
<1> DEFINE r == Append(s, e)
           a == IF e.key = k THEN e.act ELSE "change"
           v == ViewOf(s, k)
           w == ViewOf(r, k)
           x == Append(v, a)
<1>1. Len(s) \in Nat /\ DOMAIN s = 1 .. Len(s) /\ \A i \in 1 .. Len(s) : s[i] \in Events
  BY LenProperties, ElementOfSeq
<1>2. /\ r \in Seq(Events) /\ Len(r) = Len(s) + 1
      /\ \A i \in 1 .. Len(s) : r[i] = s[i]
      /\ r[Len(s) + 1] = e
      /\ DOMAIN r = 1 .. Len(r) /\ \A i \in 1 .. Len(r) : r[i] \in Events
  BY AppendProperties, LenProperties, ElementOfSeq
<1> HIDE DEF r
<1>3. a \in Acts
  BY DEF Events, Acts
<1>4. v \in [1 .. Len(s) -> Acts] /\ w \in [1 .. Len(r) -> Acts]
  BY <1>1, <1>2 DEF ViewOf, Events, Acts
<1>5. v \in Seq(Acts) /\ Len(v) = Len(s) /\ w \in Seq(Acts) /\ Len(w) = Len(r)
  BY <1>1, <1>2, <1>4, SeqDef, LenProperties
<1>6. /\ \A i \in 1 .. Len(s) : v[i] = IF s[i].key = k THEN s[i].act ELSE "change"
      /\ \A i \in 1 .. Len(r) : w[i] = IF r[i].key = k THEN r[i].act ELSE "change"
  BY <1>1, <1>2 DEF ViewOf
<1> HIDE DEF v, w, a
<1>7. /\ x \in Seq(Acts) /\ Len(x) = Len(v) + 1
      /\ \A i \in 1 .. Len(v) : x[i] = v[i]
      /\ x[Len(v) + 1] = a
  <2>1. v \in Seq(Acts)
    BY <1>5
  <2> QED
    BY <1>3, <2>1, AppendProperties
<1> HIDE DEF x
<1>8. ASSUME NEW i \in 1 .. Len(w) PROVE w[i] = x[i]
  <2>1. CASE i \in 1 .. Len(s)
    BY <1>1, <1>2, <1>5, <1>6, <1>7, <2>1
  <2>2. CASE i = Len(s) + 1
    BY <1>1, <1>2, <1>5, <1>6, <1>7, <2>2 DEF a
  <2> QED
    BY <1>1, <1>2, <1>5, <2>1, <2>2
<1>9. w = x
  BY <1>1, <1>2, <1>5, <1>7, <1>8, SeqEqual
<1> QED
  BY <1>5, <1>9 DEF w, x, v, a, r

\* An empty socket says nothing of a device.
LEMMA ViewEmpty ==
    ASSUME NEW k, NEW S
    PROVE  LastAgrees(ViewOf(<<>>, k), k, S)
<1>1. DOMAIN ViewOf(<<>>, k) = {}
  BY DEF ViewOf
<1> QED
  BY <1>1 DEF LastAgrees

\* Taking an event from the socket takes one from each view.
LEMMA ViewTail ==
    ASSUME NEW s \in Seq(Events), s # <<>>, NEW k
    PROVE  /\ Head(s) \in Events /\ Tail(s) \in Seq(Events) /\ Len(Tail(s)) = Len(s) - 1
           /\ ViewOf(s, k) \in Seq(Acts) /\ ViewOf(s, k) # <<>>
           /\ Head(ViewOf(s, k)) = IF Head(s).key = k THEN Head(s).act ELSE "change"
           /\ ViewOf(Tail(s), k) = Tail(ViewOf(s, k))
<1> DEFINE r == Tail(s)
           v == ViewOf(s, k)
           w == ViewOf(r, k)
           x == Tail(v)
<1>1. /\ Len(s) \in Nat /\ Len(s) > 0 /\ DOMAIN s = 1 .. Len(s)
      /\ \A i \in 1 .. Len(s) : s[i] \in Events
  BY LenProperties, ElementOfSeq, EmptySeq
<1>2. /\ Head(s) \in Events /\ Head(s) = s[1]
      /\ r \in Seq(Events) /\ Len(r) = Len(s) - 1
      /\ \A i \in 1 .. Len(r) : r[i] = s[i + 1]
      /\ DOMAIN r = 1 .. Len(r) /\ \A i \in 1 .. Len(r) : r[i] \in Events
  BY HeadTailProperties, LenProperties, ElementOfSeq
<1> HIDE DEF r
<1>4. v \in [1 .. Len(s) -> Acts] /\ w \in [1 .. Len(r) -> Acts]
  BY <1>1, <1>2 DEF ViewOf, Events, Acts
<1>3. Len(r) \in Nat
  BY <1>1, <1>2
<1>5. v \in Seq(Acts) /\ Len(v) = Len(s) /\ w \in Seq(Acts) /\ Len(w) = Len(r)
  <2> HIDE DEF v, w
  <2>1. v \in Seq(Acts) /\ w \in Seq(Acts)
    <3>1. v \in Seq(Acts)
      BY <1>1, <1>4, SeqDef
    <3>2. w \in Seq(Acts)
      BY <1>3, <1>4, SeqDef
    <3> QED
      BY <3>1, <3>2
  <2>2. DOMAIN v = 1 .. Len(s) /\ DOMAIN w = 1 .. Len(r)
    BY <1>4
  <2> QED
    BY <1>1, <1>3, <2>1, <2>2, LenProperties
<1>6. /\ \A i \in 1 .. Len(s) : v[i] = IF s[i].key = k THEN s[i].act ELSE "change"
      /\ \A i \in 1 .. Len(r) : w[i] = IF r[i].key = k THEN r[i].act ELSE "change"
  BY <1>1, <1>2 DEF ViewOf
<1> HIDE DEF v, w
<1>7. v # <<>>
  BY <1>1, <1>5, EmptySeq
<1>8. /\ x \in Seq(Acts) /\ Len(x) = Len(v) - 1 /\ Head(v) = v[1]
      /\ \A i \in 1 .. Len(x) : x[i] = v[i + 1]
  BY <1>5, <1>7, HeadTailProperties
<1> HIDE DEF x
<1>9. ASSUME NEW i \in 1 .. Len(w) PROVE w[i] = x[i]
  <2>1. i \in 1 .. Len(r) /\ i \in 1 .. Len(x) /\ i + 1 \in 1 .. Len(s)
    BY <1>1, <1>2, <1>5, <1>8
  <2> QED
    BY <1>2, <1>6, <1>8, <2>1
<1>10. w = x
  BY <1>1, <1>2, <1>5, <1>8, <1>9, SeqEqual
<1>11. Head(v) = IF Head(s).key = k THEN Head(s).act ELSE "change"
  BY <1>1, <1>2, <1>6, <1>8
<1> QED
  BY <1>2, <1>5, <1>7, <1>10, <1>11 DEF w, x, v, r

-----------------------------------------------------------------------------
(* Type correctness. *)

LEMMA TypeInit == Init => TypeOK
<1> SUFFICES ASSUME Init PROVE TypeOK
  OBVIOUS
<1>1. receiving \in BOOLEAN /\ overrun \in BOOLEAN
  BY DEF Init
<1>2. call \in [pc : Pcs, todo : SUBSET Keys, due : Nat, ret : {-1, 0}]
  BY DEF Init, At, Pcs
<1>3. kq \in [Keys -> Seq({"add", "remove", "change"})] /\ sock \in Seq(Events)
  BY EmptySeq DEF Init
<1>4. /\ present \subseteq Keys /\ ruled \subseteq Keys /\ db \subseteq Keys
      /\ devices \subseteq Usable /\ missed \subseteq Keys /\ changes \in 0 .. MaxChanges
  BY LinuxAssumption DEF Init
<1> QED
  BY <1>1, <1>2, <1>3, <1>4 DEF TypeOK

\* The fields of the state that a step may change, each typed on its own.
LEMMA TypeCall ==
    ASSUME TypeOK, [Next]_vars
    PROVE  call' \in [pc : Pcs, todo : SUBSET Keys, due : Nat, ret : {-1, 0}]
<1> DEFINE Calls == [pc : Pcs, todo : SUBSET Keys, due : Nat, ret : {-1, 0}]
<1> USE DEF TypeOK, Pcs, At
<1>1. CASE UNCHANGED call
  BY <1>1
<1>2. CASE hs_monitor_new \/ hs_monitor_free \/ NewFails \/ EnumerationEnds
  BY <1>2 DEF hs_monitor_new, hs_monitor_free, NewFails, Release, EnumerationEnds
<1>3. CASE hs_monitor_refresh
  BY <1>3, LenProperties DEF hs_monitor_refresh
<1>4. CASE hs_enumerate
  BY <1>4 DEF hs_enumerate
<1>5. ASSUME NEW k \in Keys, EnumerateDevice(k) PROVE call' \in Calls
  BY <1>5 DEF EnumerateDevice
<1>6. ASSUME NEW r \in {-1, 0} PROVE Receive(r) \in Calls
  <2>1. Taken \in Calls
    <3>1. (IF call.due > 0 THEN call.due - 1 ELSE 0) \in Nat
      OBVIOUS
    <3> QED
      BY <3>1 DEF Taken
  <2> QED
    BY <2>1 DEF Receive, TakenReturn
<1>7. CASE ProcessAdd \/ ProcessOther \/ AddFails \/ RefreshFails
  BY <1>6, <1>7 DEF ProcessAdd, ProcessOther, AddFails, RefreshFails
<1>8. CASE RefreshReturns
  BY <1>8 DEF RefreshReturns
<1>9. CASE Kernel \/ \E k \in Keys : Udev(k)
  <2>1. UNCHANGED call
    BY <1>9 DEF Kernel, Plug, Unplug, Alter, Change, Udev, UdevRules, UdevSends
  <2> QED
    BY <2>1
<1> QED
  BY <1>1, <1>2, <1>3, <1>4, <1>5, <1>7, <1>8, <1>9
     DEF Next, vars, Creation, Refresh, Failure

LEMMA TypeQueues ==
    ASSUME TypeOK, DbOK, [Next]_vars
    PROVE  /\ kq' \in [Keys -> Seq({"add", "remove", "change"})]
           /\ sock' \in Seq(Events)
<1> USE DEF TypeOK
<1>1. ASSUME NEW k \in Keys, NEW a \in Acts, Change(k, a)
      PROVE  UNCHANGED sock /\ kq' \in [Keys -> Seq(Acts)]
  BY <1>1, AppendProperties DEF Change, socket, Acts
<1>2. ASSUME NEW k \in Keys, kq[k] # <<>>
      PROVE  Head(kq[k]) \in Acts /\ Tail(kq[k]) \in Seq(Acts)
  BY <1>2, HeadTailProperties DEF Acts
<1>3. CASE Kernel
  <2>1. PICK k \in Keys : \E a \in Acts : Change(k, a)
    BY <1>3 DEF Kernel, Plug, Unplug, Alter, Acts
  <2> QED
    BY <1>1, <2>1 DEF Acts
<1>4. ASSUME NEW k \in Keys, UdevRules(k) PROVE UNCHANGED <<kq, sock>>
  BY <1>4 DEF UdevRules, world, socket
<1>5. ASSUME NEW k \in Keys, UdevSends(k), kq[k] # <<>>
      PROVE  kq' \in [Keys -> Seq(Acts)] /\ sock' \in Seq(Events)
  <2>1. kq' \in [Keys -> Seq(Acts)]
    BY <1>2, <1>5 DEF UdevSends, Acts
  <2>2. PICK e \in Events : e = [act |-> Head(kq[k]), key |-> k]
    BY <1>2, <1>5 DEF Events, Acts
  <2>3. sock' = sock \/ sock' = Append(sock, e)
    BY <1>5, <2>2 DEF UdevSends
  <2>4. sock \in Seq(Events) /\ Append(sock, e) \in Seq(Events)
    BY AppendProperties
  <2> QED
    BY <2>1, <2>3, <2>4
<1>6. ASSUME NEW k \in Keys, Udev(k)
      PROVE  kq' \in [Keys -> Seq(Acts)] /\ sock' \in Seq(Events)
  <2>1. CASE UdevRules(k)
    BY <1>4, <2>1 DEF Acts
  <2>2. CASE UdevSends(k)
    BY <1>5, <2>2 DEF UdevSends, DbOK
  <2> QED
    BY <1>6, <2>1, <2>2 DEF Udev
<1>7. CASE sock # <<>> /\ sock' = Tail(sock) /\ UNCHANGED kq
  BY <1>7, HeadTailProperties
<1>8. CASE sock' = <<>> /\ UNCHANGED kq
  BY <1>8, EmptySeq
<1>9. CASE UNCHANGED <<sock, kq>>
  BY <1>9
<1>10. ASSUME Creation \/ hs_monitor_new \/ hs_monitor_refresh \/ RefreshReturns
       PROVE  UNCHANGED <<sock, kq>>
  BY <1>10 DEF Creation, hs_enumerate, EnumerateDevice, EnumerationEnds, hs_monitor_new,
     hs_monitor_refresh, RefreshReturns, world, socket
<1>11. ASSUME ProcessAdd \/ ProcessOther \/ AddFails \/ RefreshFails
       PROVE  sock # <<>> /\ sock' = Tail(sock) /\ UNCHANGED kq
  BY <1>11 DEF ProcessAdd, ProcessOther, AddFails, RefreshFails, ReceiveEvent, world
<1>12. ASSUME hs_monitor_free \/ NewFails PROVE sock' = <<>> /\ UNCHANGED kq
  BY <1>12 DEF hs_monitor_free, NewFails, Release, world
<1> QED
  BY <1>3, <1>6, <1>7, <1>8, <1>9, <1>10, <1>11, <1>12
     DEF Next, vars, Refresh, Failure, Acts

LEMMA TypeSets ==
    ASSUME TypeOK, [Next]_vars
    PROVE  /\ present' \subseteq Keys /\ ruled' \subseteq Keys /\ db' \subseteq Keys
           /\ changes' \in 0 .. MaxChanges
<1> USE DEF TypeOK
<1>1. ASSUME NEW k \in Keys, Plug(k) \/ Unplug(k) \/ Alter(k)
      PROVE  /\ present' \subseteq Keys /\ UNCHANGED <<ruled, db>>
             /\ changes' \in 0 .. MaxChanges
  <2>1. changes < MaxChanges /\ changes' = changes + 1 /\ UNCHANGED <<ruled, db>>
    BY <1>1 DEF Plug, Unplug, Alter, Change, udevd
  <2>2. changes' \in 0 .. MaxChanges
    BY <2>1, LinuxAssumption
  <2> QED
    BY <1>1, <2>1, <2>2 DEF Plug, Unplug, Alter
<1>2. ASSUME NEW k \in Keys, Udev(k)
      PROVE  ruled' \subseteq Keys /\ db' \subseteq Keys /\ UNCHANGED <<present, changes>>
  BY <1>2 DEF Udev, UdevRules, UdevSends, world
<1>3. ASSUME \/ hs_monitor_new \/ hs_monitor_free \/ hs_monitor_refresh
             \/ Creation \/ Refresh \/ Failure
      PROVE  UNCHANGED <<present, changes, ruled, db>>
  BY <1>3 DEF hs_monitor_new, hs_monitor_free, hs_monitor_refresh, Creation, hs_enumerate,
     EnumerateDevice, EnumerationEnds, Refresh, ProcessAdd, ProcessOther, RefreshReturns,
     Failure, NewFails, AddFails, RefreshFails, Release, world, udevd
<1> QED
  BY <1>1, <1>2, <1>3 DEF Next, Kernel, vars

LEMMA TypeTable ==
    ASSUME TypeOK, [Next]_vars
    PROVE  devices' \subseteq Usable /\ missed' \subseteq Keys
<1> USE DEF TypeOK
<1>1. ASSUME NEW k \in Keys, Plug(k) \/ Unplug(k) \/ Alter(k) PROVE UNCHANGED <<devices, missed>>
  BY <1>1 DEF Plug, Unplug, Alter, Change
<1>2. ASSUME NEW k \in Keys, Udev(k) PROVE UNCHANGED devices /\ missed' \subseteq Keys
  BY <1>2 DEF Udev, UdevRules, UdevSends
<1>3. ASSUME hs_monitor_new \/ hs_monitor_refresh \/ hs_enumerate \/ EnumerationEnds \/ RefreshReturns
      PROVE  UNCHANGED <<devices, missed>>
  BY <1>3 DEF hs_monitor_new, hs_monitor_refresh, hs_enumerate, EnumerationEnds, RefreshReturns
<1>4. ASSUME hs_monitor_free \/ NewFails PROVE devices' = {} /\ missed' = {}
  BY <1>4 DEF hs_monitor_free, NewFails, Release
<1>5. ASSUME NEW k \in Keys, EnumerateDevice(k)
      PROVE  devices' \subseteq Usable /\ UNCHANGED missed
  BY <1>5 DEF EnumerateDevice, read_device_information
<1>6. ASSUME sock # <<>> PROVE Head(sock).key \in Keys
  <2>1. Head(sock) \in Events
    BY <1>6, HeadTailProperties
  <2> QED
    BY <2>1 DEF Events
<1>7. ASSUME ProcessAdd \/ ProcessOther \/ AddFails \/ RefreshFails
      PROVE  devices' \subseteq Usable /\ missed' \subseteq Keys
  BY <1>6, <1>7 DEF ProcessAdd, ProcessOther, AddFails, RefreshFails, ReceiveEvent,
     ProcessRemove, read_device_information
<1> QED
  BY <1>1, <1>2, <1>3, <1>4, <1>5, <1>7 DEF Next, Kernel, Creation, Refresh, Failure, vars

LEMMA TypeFlags ==
    ASSUME TypeOK, [Next]_vars
    PROVE  receiving' \in BOOLEAN /\ overrun' \in BOOLEAN
<1> USE DEF TypeOK
<1>1. ASSUME NEW k \in Keys, Plug(k) \/ Unplug(k) \/ Alter(k) PROVE UNCHANGED <<receiving, overrun>>
  BY <1>1 DEF Plug, Unplug, Alter, Change, socket
<1>2. ASSUME NEW k \in Keys, Udev(k)
      PROVE  UNCHANGED receiving /\ (overrun' = TRUE \/ UNCHANGED overrun)
  BY <1>2 DEF Udev, UdevRules, UdevSends, socket
<1>3. ASSUME hs_monitor_new \/ hs_monitor_refresh \/ Creation
      PROVE  (receiving' = TRUE \/ UNCHANGED receiving) /\ UNCHANGED overrun
  BY <1>3 DEF hs_monitor_new, hs_monitor_refresh, Creation, hs_enumerate, EnumerateDevice,
     EnumerationEnds, socket
<1>4. ASSUME hs_monitor_free \/ NewFails PROVE receiving' = FALSE /\ overrun' = FALSE
  BY <1>4 DEF hs_monitor_free, NewFails, Release
<1>5. ASSUME Refresh \/ AddFails \/ RefreshFails
      PROVE  UNCHANGED receiving /\ (overrun' = FALSE \/ UNCHANGED overrun)
  BY <1>5 DEF Refresh, ProcessAdd, ProcessOther, RefreshReturns, AddFails, RefreshFails
<1> QED
  BY <1>1, <1>2, <1>3, <1>4, <1>5 DEF Next, Kernel, Failure, vars

LEMMA TypeStep == Inv /\ [Next]_vars => TypeOK'
<1> SUFFICES ASSUME Inv, [Next]_vars PROVE TypeOK'
  OBVIOUS
<1>1. TypeOK /\ DbOK
  BY DEF Inv
<1>2. call' \in [pc : Pcs, todo : SUBSET Keys, due : Nat, ret : {-1, 0}]
  BY <1>1, TypeCall
<1>3. kq' \in [Keys -> Seq({"add", "remove", "change"})] /\ sock' \in Seq(Events)
  BY <1>1, TypeQueues
<1>4. receiving' \in BOOLEAN /\ overrun' \in BOOLEAN
  BY <1>1, TypeFlags
<1>5. /\ present' \subseteq Keys /\ ruled' \subseteq Keys /\ db' \subseteq Keys
      /\ changes' \in 0 .. MaxChanges /\ devices' \subseteq Usable /\ missed' \subseteq Keys
  BY <1>1, TypeSets, TypeTable
<1> QED
  BY <1>2, <1>3, <1>4, <1>5 DEF TypeOK

-----------------------------------------------------------------------------
(* The steps of the kernel and of udevd. *)

\* A change of a device is the last action of its queue.
LEMMA KernelStep ==
    ASSUME Inv, NEW d \in Keys, Plug(d) \/ Unplug(d) \/ Alter(d)
    PROVE  SocketOK' /\ RefreshOK' /\ KernelOK' /\ DbOK' /\ SockOK' /\ TableOK'
<1>1. PICK a \in Acts :
        /\ kq' = [kq EXCEPT ![d] = Append(@, a)]
        /\ a = "change" => UNCHANGED present
        /\ a # "change" => (a = "add" <=> d \in present')
        /\ \A k \in Keys : k # d => (k \in present' <=> k \in present)
  BY DEF Plug, Unplug, Alter, Change, Acts
<1>2. UNCHANGED <<ruled, db, receiving, sock, overrun, devices, call, missed>>
  BY DEF Plug, Unplug, Alter, Change, udevd, socket
<1>3. kq \in [Keys -> Seq(Acts)]
  BY DEF Inv, TypeOK, Acts
<1>4. /\ kq'[d] = Append(kq[d], a) /\ kq[d] \in Seq(Acts)
      /\ \A k \in Keys : k # d => kq'[k] = kq[k]
  BY <1>1, <1>3
<1>5. SocketOK' /\ RefreshOK'
  BY <1>2 DEF Inv, SocketOK, RefreshOK
<1>6. ASSUME NEW k \in Keys PROVE LastAgrees(kq'[k], k, present')
  <2>1. CASE k = d
    <3>1. LastAgrees(kq[d], d, present)
      BY DEF Inv, KernelOK
    <3> QED
      BY <1>1, <1>4, <2>1, <3>1, AppendAct
  <2>2. CASE k # d
    <3>1. LastAgrees(kq[k], k, present) /\ kq'[k] = kq[k] /\ (k \in present' <=> k \in present)
      BY <1>1, <1>4, <2>2 DEF Inv, KernelOK
    <3> QED
      BY <3>1 DEF LastAgrees
  <2> QED
    BY <2>1, <2>2
<1>7. /\ AnySignal(kq'[d]) <=> AnySignal(kq[d]) \/ a # "change"
      /\ kq'[d] # <<>>
      /\ kq[d] # <<>> => (AnySignal(Tail(kq'[d])) <=> AnySignal(Tail(kq[d])) \/ a # "change")
  BY <1>4, AppendAct, TailAppend
<1>8. DbOK'
  <2> SUFFICES ASSUME NEW k \in Keys
      PROVE  /\ k \in ruled' =>
                  /\ kq'[k] # <<>>
                  /\ ~AnySignal(Tail(kq'[k])) => (k \in db' <=> k \in present')
             /\ k \notin ruled' /\ ~AnySignal(kq'[k]) => (k \in db' <=> k \in present')
    BY DEF DbOK
  <2>1. CASE k = d
    BY <1>1, <1>2, <1>7, <2>1 DEF Inv, DbOK
  <2>2. CASE k # d
    BY <1>1, <1>2, <1>4, <2>2 DEF Inv, DbOK
  <2> QED
    BY <2>1, <2>2
<1>9. ASSUME NEW k \in Keys, ~AnySignal(kq'[k])
      PROVE  ~AnySignal(kq[k]) /\ (k \in present' <=> k \in present)
  BY <1>1, <1>4, <1>7, <1>9
<1>10. Usable \subseteq Keys
  BY LinuxAssumption
<1>11. SockOK'
  <2> SUFFICES ASSUME NEW k \in Usable \ missed, ~AnySignal(kq'[k])
               PROVE  LastAgrees(ViewOf(sock, k), k, present')
    BY <1>2 DEF SockOK
  <2>1. LastAgrees(ViewOf(sock, k), k, present) /\ (k \in present' <=> k \in present)
    BY <1>9, <1>10 DEF Inv, SockOK
  <2> QED
    BY <2>1 DEF LastAgrees
<1>12. TableOK'
  BY <1>2, <1>9, <1>10 DEF Inv, TableOK
<1> QED
  BY <1>5, <1>6, <1>8, <1>11, <1>12 DEF KernelOK

\* udevd brings the database up to the next event of a device.
LEMMA RulesStep ==
    ASSUME Inv, NEW d \in Keys, UdevRules(d)
    PROVE  SocketOK' /\ RefreshOK' /\ KernelOK' /\ DbOK' /\ SockOK' /\ TableOK'
<1>1. /\ UNCHANGED <<present, kq, receiving, sock, overrun, devices, call, missed>>
      /\ kq[d] # <<>> /\ d \notin ruled /\ ruled' = ruled \cup {d}
      /\ \A k \in Keys : k # d => (k \in db' <=> k \in db)
  BY DEF UdevRules, world, socket
<1>2. SocketOK' /\ RefreshOK' /\ KernelOK' /\ SockOK' /\ TableOK'
  BY <1>1 DEF Inv, SocketOK, RefreshOK, KernelOK, SockOK, TableOK
<1>3. kq[d] \in Seq(Acts) /\ LastAgrees(kq[d], d, present)
  BY DEF Inv, TypeOK, KernelOK, Acts
<1>4. ASSUME ~AnySignal(Tail(kq[d])) PROVE d \in db' <=> d \in present
  <2>1. CASE Head(kq[d]) = "change"
    <3>1. ~AnySignal(kq[d])
      BY <1>1, <1>3, <1>4, <2>1, TailAct
    <3>2. UNCHANGED db
      BY <2>1 DEF UdevRules
    <3> QED
      BY <1>1, <3>1, <3>2 DEF Inv, DbOK
  <2>2. CASE Head(kq[d]) # "change"
    <3>1. Head(kq[d]) \in Acts /\ (Head(kq[d]) = "add" <=> d \in present)
      BY <1>1, <1>3, <1>4, <2>2, TailAct
    <3> QED
      BY <2>2, <3>1 DEF UdevRules, Acts
  <2> QED
    BY <2>1, <2>2
<1>5. DbOK'
  BY <1>1, <1>4 DEF Inv, DbOK
<1> QED
  BY <1>2, <1>5

\* udevd moves the first event of a device to the end of the socket.
LEMMA SendsStep ==
    ASSUME Inv, NEW d \in Keys, UdevSends(d)
    PROVE  SocketOK' /\ RefreshOK' /\ KernelOK' /\ DbOK' /\ SockOK' /\ TableOK'
<1>1. /\ d \in ruled /\ ruled' = ruled \ {d} /\ kq' = [kq EXCEPT ![d] = Tail(@)]
      /\ UNCHANGED <<present, db, receiving, devices, call>>
  BY DEF UdevSends
<1>2. kq \in [Keys -> Seq(Acts)] /\ sock \in Seq(Events) /\ kq[d] # <<>>
  BY <1>1 DEF Inv, TypeOK, Acts, DbOK
<1>3. /\ kq'[d] = Tail(kq[d]) /\ kq[d] \in Seq(Acts)
      /\ \A k \in Keys : k # d => kq'[k] = kq[k]
  BY <1>1, <1>2
<1>4. KernelOK'
  <2> SUFFICES ASSUME NEW k \in Keys PROVE LastAgrees(kq'[k], k, present)
    BY <1>1 DEF KernelOK
  <2>1. CASE k = d
    BY <1>2, <1>3, <2>1, TailAct DEF Inv, KernelOK
  <2>2. CASE k # d
    BY <1>3, <2>2 DEF Inv, KernelOK
  <2> QED
    BY <2>1, <2>2
<1>5. DbOK'
  BY <1>1, <1>3 DEF Inv, DbOK
<1>6. /\ Head(kq[d]) \in Acts
      /\ AnySignal(kq[d]) <=> Head(kq[d]) # "change" \/ AnySignal(kq'[d])
      /\ Head(kq[d]) # "change" /\ ~AnySignal(kq'[d]) => (Head(kq[d]) = "add" <=> d \in present)
  <2>1. LastAgrees(kq[d], d, present)
    BY DEF Inv, KernelOK
  <2> QED
    BY <1>2, <1>3, <2>1, TailAct
<1>7. Usable \subseteq Keys
  BY LinuxAssumption
<1>8. Len(sock) \in Nat
  BY <1>2, LenProperties
<1>9. PICK e \in Events : e = [act |-> Head(kq[d]), key |-> d]
  BY <1>6 DEF Events, Acts
<1>10. CASE receiving /\ Len(sock) < SockSize
  <2>1. /\ sock' = Append(sock, e) /\ UNCHANGED overrun
        /\ missed' = IF e.act = "change" THEN missed ELSE missed \ {d}
    BY <1>9, <1>10 DEF UdevSends
  <2>2. Len(sock') = Len(sock) + 1
    BY <1>2, <2>1, AppendProperties
  <2>3. SocketOK'
    BY <1>1, <1>10, <2>1 DEF Inv, SocketOK
  <2>4. RefreshOK'
    <3>1. call.due \in Nat
      BY DEF Inv, TypeOK
    <3>2. call.pc = "refresh" => call.due <= Len(sock')
      BY <1>8, <2>2, <3>1 DEF Inv, RefreshOK
    <3> QED
      BY <1>1, <1>10, <2>1, <3>2 DEF Inv, RefreshOK
  <2>5. ASSUME NEW k \in Keys
        PROVE  /\ ViewOf(sock, k) \in Seq(Acts)
               /\ ViewOf(sock', k) = Append(ViewOf(sock, k), IF k = d THEN e.act ELSE "change")
    BY <1>2, <1>9, <2>1, ViewAppend
  <2>6. ASSUME NEW k \in Usable \ missed', ~AnySignal(kq'[k])
        PROVE  LastAgrees(ViewOf(sock', k), k, present)
    <3>1. CASE k = d /\ e.act # "change"
      <4>1. /\ ViewOf(sock, d) \in Seq(Acts) /\ e.act \in Acts
            /\ ViewOf(sock', d) = Append(ViewOf(sock, d), e.act)
        BY <1>6, <1>9, <2>5
      <4>2. e.act = "add" <=> d \in present
        BY <1>6, <1>9, <2>6, <3>1
      <4> QED
        BY <3>1, <4>1, <4>2, AppendAct
    <3>2. CASE ~(k = d /\ e.act # "change")
      <4>1. k \in Usable \ missed /\ ~AnySignal(kq[k])
        BY <1>3, <1>6, <1>7, <1>9, <2>1, <2>6, <3>2
      <4>2. /\ ViewOf(sock', k) = Append(ViewOf(sock, k), "change")
            /\ ViewOf(sock, k) \in Seq(Acts)
        BY <1>7, <2>5, <3>2
      <4>3. LastAgrees(ViewOf(sock, k), k, present)
        BY <4>1 DEF Inv, SockOK
      <4> QED
        BY <4>2, <4>3, AppendAct DEF Acts
    <3> QED
      BY <3>1, <3>2
  <2>7. ASSUME NEW k \in Usable \ missed', ~AnySignal(kq'[k]), ~AnySignal(ViewOf(sock', k))
        PROVE  k \in Usable \ missed /\ ~AnySignal(kq[k]) /\ ~AnySignal(ViewOf(sock, k))
    <3>1. PICK a \in Acts : a = IF k = d THEN e.act ELSE "change"
      BY <1>6, <1>9 DEF Acts
    <3>2. ViewOf(sock, k) \in Seq(Acts) /\ ViewOf(sock', k) = Append(ViewOf(sock, k), a)
      BY <1>7, <2>5, <3>1
    <3>3. a = "change" /\ ~AnySignal(ViewOf(sock, k))
      BY <2>7, <3>2, AppendAct
    <3>4. k = d => e.act = "change" /\ Head(kq[d]) = "change"
      BY <1>9, <3>1, <3>3
    <3>5. ~AnySignal(kq[k])
      BY <1>3, <1>6, <1>7, <2>7, <3>4
    <3>6. k \notin missed
      BY <2>1, <2>7, <3>4
    <3> QED
      BY <3>3, <3>5, <3>6
  <2>8. SockOK' /\ TableOK'
    BY <1>1, <2>6, <2>7 DEF Inv, SockOK, TableOK
  <2> QED
    BY <1>4, <1>5, <2>3, <2>4, <2>8
<1>11. CASE receiving /\ ~(Len(sock) < SockSize)
  <2>1. overrun' /\ missed' = missed \cup {d} /\ UNCHANGED sock
    BY <1>11 DEF UdevSends
  <2>2. SocketOK' /\ RefreshOK'
    BY <1>1, <1>11, <2>1 DEF Inv, SocketOK, RefreshOK
  <2>3. SockOK' /\ TableOK'
    BY <1>1, <1>3, <1>7, <2>1 DEF Inv, SockOK, TableOK
  <2> QED
    BY <1>4, <1>5, <2>2, <2>3
<1>12. CASE ~receiving
  <2>1. UNCHANGED <<sock, overrun, missed>> /\ call.pc = "closed" /\ sock = <<>>
    BY <1>12 DEF UdevSends, Inv, SocketOK
  <2>2. SocketOK' /\ RefreshOK'
    BY <1>1, <2>1 DEF Inv, SocketOK, RefreshOK
  <2>3. SockOK' /\ TableOK'
    BY <1>1, <2>1, ViewEmpty DEF SockOK, TableOK
  <2> QED
    BY <1>4, <1>5, <2>2, <2>3
<1> QED
  BY <1>10, <1>11, <1>12

-----------------------------------------------------------------------------
(* The steps of the library. *)

\* The kernel and udevd are not concerned.
LEMMA WorldFrame ==
    ASSUME Inv, UNCHANGED <<present, kq, ruled, db>>
    PROVE  KernelOK' /\ DbOK'
BY DEF Inv, KernelOK, DbOK

LEMMA CreationStep ==
    ASSUME Inv, hs_monitor_new \/ Creation
    PROVE  SocketOK' /\ RefreshOK' /\ KernelOK' /\ DbOK' /\ SockOK' /\ TableOK'
<1>1. UNCHANGED <<present, kq, ruled, db, sock, overrun, missed>>
  BY DEF hs_monitor_new, Creation, hs_enumerate, EnumerateDevice, EnumerationEnds,
     world, udevd, socket
<1>2. KernelOK' /\ DbOK'
  BY <1>1, WorldFrame
<1>3. SockOK'
  BY <1>1 DEF Inv, SockOK
<1>4. /\ Usable \subseteq Keys
      /\ call \in [pc : Pcs, todo : SUBSET Keys, due : Nat, ret : {-1, 0}]
  BY LinuxAssumption DEF Inv, TypeOK
<1>5. CASE hs_monitor_new
  <2>1. receiving' /\ call.pc = "closed" /\ call' = At("scan", {}, 0, 0) /\ UNCHANGED devices
    BY <1>5 DEF hs_monitor_new
  <2>2. SocketOK' /\ RefreshOK' /\ TableOK'
    BY <1>1, <2>1 DEF Inv, SocketOK, RefreshOK, TableOK, At
  <2> QED
    BY <1>2, <1>3, <2>2
<1>6. CASE hs_enumerate
  <2>1. /\ call.pc = "scan" /\ call' = At("enumerate", db \cap present, 0, 0)
        /\ UNCHANGED <<receiving, devices>>
    BY <1>6 DEF hs_enumerate, socket
  <2>2. SocketOK' /\ RefreshOK'
    BY <1>1, <2>1 DEF Inv, SocketOK, RefreshOK, At
  <2>3. ASSUME NEW k \in Usable \ missed, ~AnySignal(kq[k]) PROVE k \in db <=> k \in present
    <3>1. CASE k \in ruled
      <4>1. kq[k] # <<>> /\ kq[k] \in Seq(Acts)
        BY <1>4, <3>1 DEF Inv, TypeOK, DbOK, Acts
      <4>2. ~AnySignal(Tail(kq[k]))
        BY <2>3, <4>1, TailAct
      <4> QED
        BY <1>4, <3>1, <4>2 DEF Inv, DbOK
    <3>2. CASE k \notin ruled
      BY <1>4, <2>3, <3>2 DEF Inv, DbOK
    <3> QED
      BY <3>1, <3>2
  <2>4. devices = {}
    BY <2>1 DEF Inv, SocketOK
  <2>5. TableOK'
    BY <1>1, <2>1, <2>3, <2>4 DEF TableOK, At
  <2> QED
    BY <1>2, <1>3, <2>2, <2>5
<1>7. ASSUME NEW d \in Keys, EnumerateDevice(d) PROVE SocketOK' /\ RefreshOK' /\ TableOK'
  <2>1. /\ call.pc = "enumerate" /\ call'.pc = "enumerate" /\ call'.todo = call.todo \ {d}
        /\ call'.due = call.due /\ UNCHANGED receiving
        /\ devices' = IF read_device_information(d) THEN devices \cup {d} ELSE devices
    BY <1>4, <1>7 DEF EnumerateDevice, socket
  <2>2. SocketOK' /\ RefreshOK'
    BY <1>1, <2>1 DEF Inv, SocketOK, RefreshOK
  <2>3. TableOK'
    BY <1>1, <2>1 DEF Inv, TableOK, read_device_information
  <2> QED
    BY <2>2, <2>3
<1>8. CASE EnumerationEnds
  <2>1. /\ call.pc = "enumerate" /\ call.todo = {} /\ call' = At("idle", {}, 0, 0)
        /\ UNCHANGED <<receiving, devices>>
    BY <1>8 DEF EnumerationEnds, socket
  <2>2. SocketOK' /\ RefreshOK'
    BY <1>1, <2>1 DEF Inv, SocketOK, RefreshOK, At
  <2>3. TableOK'
    BY <1>1, <2>1 DEF Inv, TableOK, At
  <2> QED
    BY <1>2, <1>3, <2>2, <2>3
<1> QED
  BY <1>2, <1>3, <1>5, <1>6, <1>7, <1>8 DEF Creation

LEMMA ReleaseStep ==
    ASSUME Inv, Release
    PROVE  SocketOK' /\ RefreshOK' /\ KernelOK' /\ DbOK' /\ SockOK' /\ TableOK'
<1>1. /\ UNCHANGED <<present, kq, ruled, db>> /\ call' = At("closed", {}, 0, 0)
      /\ ~receiving' /\ sock' = <<>> /\ ~overrun' /\ devices' = {} /\ missed' = {}
  BY DEF Release, world, udevd
<1>2. KernelOK' /\ DbOK'
  BY <1>1, WorldFrame
<1>3. SocketOK' /\ RefreshOK' /\ TableOK'
  BY <1>1 DEF SocketOK, RefreshOK, TableOK, At
<1>4. SockOK'
  BY <1>1, ViewEmpty DEF SockOK
<1> QED
  BY <1>2, <1>3, <1>4

LEMMA RefreshBounds ==
    ASSUME Inv, hs_monitor_refresh \/ RefreshReturns
    PROVE  SocketOK' /\ RefreshOK' /\ KernelOK' /\ DbOK' /\ SockOK' /\ TableOK'
<1>1. UNCHANGED <<present, kq, ruled, db, receiving, sock, devices, missed>>
  BY DEF hs_monitor_refresh, RefreshReturns, world, udevd, socket
<1>2. KernelOK' /\ DbOK'
  BY <1>1, WorldFrame
<1>3. SockOK'
  BY <1>1 DEF Inv, SockOK
<1>4. /\ call \in [pc : Pcs, todo : SUBSET Keys, due : Nat, ret : {-1, 0}]
      /\ sock \in Seq(Events) /\ Len(sock) \in Nat
  BY LenProperties DEF Inv, TypeOK
<1>5. CASE hs_monitor_refresh
  <2>1. call.pc = "idle" /\ call' = At("refresh", {}, Len(sock), 0) /\ UNCHANGED overrun
    BY <1>5 DEF hs_monitor_refresh, socket
  <2>2. SocketOK' /\ RefreshOK'
    BY <1>1, <1>4, <2>1 DEF Inv, SocketOK, RefreshOK, At
  <2>3. TableOK'
    BY <1>1, <2>1 DEF Inv, TableOK, At
  <2> QED
    BY <1>2, <1>3, <2>2, <2>3
<1>6. CASE RefreshReturns
  <2>1. /\ call.pc = "refresh" /\ call'.pc = "idle" /\ call'.due = call.due
        /\ sock = <<>> \/ overrun
        /\ ~overrun'
    BY <1>4, <1>6 DEF RefreshReturns
  <2>2. SocketOK'
    BY <1>1, <2>1 DEF Inv, SocketOK
  <2>3. ASSUME call.due > 0 PROVE missed # {} /\ ~(Len(sock) < SockSize)
    <3>1. sock # <<>>
      <4>1. Len(sock) # 0
        BY <1>4, <2>1, <2>3 DEF Inv, RefreshOK
      <4> QED
        BY <1>4, <4>1, EmptySeq
    <3> QED
      BY <2>1, <3>1 DEF Inv, RefreshOK
  <2>4. RefreshOK'
    BY <1>1, <2>1, <2>3 DEF RefreshOK
  <2>5. TableOK'
    BY <1>1, <2>1 DEF Inv, TableOK
  <2> QED
    BY <1>2, <1>3, <2>2, <2>4, <2>5
<1> QED
  BY <1>5, <1>6

\* The event that a refresh takes from the socket.  A device without other
\* events on their way becomes what its event says, unless it is missed.
LEMMA TakeStep ==
    ASSUME Inv, NEW a \in Acts, ReceiveEvent(a), NEW r \in {-1, 0}, call' = Receive(r),
           UNCHANGED <<present, kq, ruled, db, receiving, overrun>>,
           missed \subseteq missed',
           \A k \in Usable \ missed' :
               IF k = Head(sock).key /\ a # "change"
               THEN (a = "add" <=> k \in present) => (k \in devices' <=> k \in present)
               ELSE k \in devices' <=> k \in devices
    PROVE  SocketOK' /\ RefreshOK' /\ KernelOK' /\ DbOK' /\ SockOK' /\ TableOK'
<1>1. /\ call.pc = "refresh" /\ sock # <<>> /\ Head(sock).act = a
      /\ ~overrun /\ sock' = Tail(sock)
  BY DEF ReceiveEvent
<1>2. KernelOK' /\ DbOK'
  BY WorldFrame
<1>3. /\ call \in [pc : Pcs, todo : SUBSET Keys, due : Nat, ret : {-1, 0}]
      /\ sock \in Seq(Events) /\ Len(sock) \in Nat /\ Usable \subseteq Keys
  BY LenProperties, LinuxAssumption DEF Inv, TypeOK
<1>4. Len(sock') = Len(sock) - 1 /\ Len(sock) > 0
  BY <1>1, <1>3, ViewTail, EmptySeq
<1>5. /\ call'.pc \in {"idle", "refresh"}
      /\ call'.pc = "idle" => call'.ret # 0
      /\ call'.due = IF call.due > 0 THEN call.due - 1 ELSE 0
  BY <1>3, <1>1 DEF Receive, TakenReturn, Taken
<1>6. SocketOK'
  BY <1>1, <1>5 DEF Inv, SocketOK
<1>7. RefreshOK'
  <2>1. call'.due <= Len(sock')
    BY <1>1, <1>3, <1>4, <1>5 DEF Inv, RefreshOK
  <2> QED
    BY <1>1, <1>5, <2>1 DEF RefreshOK
<1>8. ASSUME NEW k \in Usable \ missed', ~AnySignal(kq[k])
      PROVE  /\ LastAgrees(ViewOf(sock', k), k, present)
             /\ ~AnySignal(ViewOf(sock', k)) => (k \in devices' <=> k \in present)
  <2> DEFINE v == ViewOf(sock, k)
  <2>1. /\ v \in Seq(Acts) /\ v # <<>> /\ ViewOf(sock', k) = Tail(v)
        /\ Head(v) = IF Head(sock).key = k THEN a ELSE "change"
    BY <1>1, <1>3, ViewTail
  <2>2. LastAgrees(v, k, present)
    BY <1>8 DEF Inv, SockOK
  <2>3. ~AnySignal(v) => (k \in devices <=> k \in present)
    BY <1>1, <1>8 DEF Inv, TableOK
  <2> HIDE DEF v
  <2>4. /\ LastAgrees(Tail(v), k, present)
        /\ AnySignal(v) <=> Head(v) # "change" \/ AnySignal(Tail(v))
        /\ Head(v) # "change" /\ ~AnySignal(Tail(v)) => (Head(v) = "add" <=> k \in present)
    BY <2>1, <2>2, TailAct
  <2>5. ASSUME ~AnySignal(Tail(v)) PROVE k \in devices' <=> k \in present
    <3>1. CASE k = Head(sock).key /\ a # "change"
      BY <2>1, <2>4, <2>5, <3>1
    <3>2. CASE ~(k = Head(sock).key /\ a # "change")
      BY <2>1, <2>3, <2>4, <2>5, <3>2
    <3> QED
      BY <3>1, <3>2
  <2> QED
    BY <2>1, <2>4, <2>5
<1>9. SockOK' /\ TableOK'
  BY <1>5, <1>8 DEF SockOK, TableOK
<1> QED
  BY <1>2, <1>6, <1>7, <1>9

LEMMA RefreshStep ==
    ASSUME Inv, ProcessAdd \/ ProcessOther \/ AddFails \/ RefreshFails
    PROVE  SocketOK' /\ RefreshOK' /\ KernelOK' /\ DbOK' /\ SockOK' /\ TableOK'
<1>1. UNCHANGED <<present, kq, ruled, db, receiving, overrun>>
  BY DEF ProcessAdd, ProcessOther, AddFails, RefreshFails, world, udevd
<1>2. CASE ProcessAdd
  <2>1. /\ ReceiveEvent("add") /\ call' = Receive(0) /\ missed' = missed
        /\ \A k \in Usable \ missed' :
              IF k = Head(sock).key
              THEN k \in present => k \in devices'
              ELSE k \in devices' <=> k \in devices
    BY <1>2 DEF ProcessAdd, read_device_information
  <2> QED
    BY <1>1, <2>1, TakeStep DEF Acts
<1>3. CASE AddFails
  <2>1. /\ ReceiveEvent("add") /\ call' = Receive(-1) /\ missed \subseteq missed'
        /\ \A k \in Usable \ missed' :
              IF k = Head(sock).key
              THEN k \in present => k \in devices'
              ELSE k \in devices' <=> k \in devices
    BY <1>3 DEF AddFails, read_device_information
  <2> QED
    BY <1>1, <2>1, TakeStep DEF Acts
<1>4. CASE ProcessOther
  <2>1. call' = Receive(0) /\ missed' = missed
    BY <1>4 DEF ProcessOther
  <2>2. CASE ReceiveEvent("remove") /\ devices' = ProcessRemove(Head(sock).key)
    BY <1>1, <2>1, <2>2, TakeStep DEF Acts, ProcessRemove
  <2>3. CASE ReceiveEvent("change") /\ UNCHANGED devices
    BY <1>1, <2>1, <2>3, TakeStep DEF Acts
  <2> QED
    BY <1>4, <2>2, <2>3 DEF ProcessOther
<1>5. CASE RefreshFails
  <2>1. PICK a \in Acts :
          /\ ReceiveEvent(a)
          /\ missed' = IF a = "change" THEN missed ELSE missed \cup {Head(sock).key}
    BY <1>5 DEF RefreshFails, Acts
  <2>2. call' = Receive(-1) /\ UNCHANGED devices
    BY <1>5 DEF RefreshFails
  <2> QED
    BY <1>1, <2>1, <2>2, TakeStep
<1> QED
  BY <1>2, <1>3, <1>4, <1>5

-----------------------------------------------------------------------------
(* The theorems. *)

LEMMA InvInit == Init => Inv
<1> SUFFICES ASSUME Init PROVE Inv
  OBVIOUS
<1>1. TypeOK
  BY TypeInit
<1>2. SocketOK /\ RefreshOK
  BY DEF Init, SocketOK, RefreshOK, At
<1>3. \A k \in Keys : kq[k] = <<>>
  BY DEF Init
<1>4. KernelOK
  BY <1>3 DEF KernelOK, LastAgrees
<1>5. DbOK
  BY DEF Init, DbOK
<1>6. SockOK
  BY ViewEmpty DEF Init, SockOK
<1>7. TableOK
  BY DEF Init, TableOK, At
<1> QED
  BY <1>1, <1>2, <1>4, <1>5, <1>6, <1>7 DEF Inv

LEMMA InvStep == Inv /\ [Next]_vars => Inv'
<1> SUFFICES ASSUME Inv, [Next]_vars PROVE Inv'
  OBVIOUS
<1>1. TypeOK'
  BY TypeStep
<1> SUFFICES SocketOK' /\ RefreshOK' /\ KernelOK' /\ DbOK' /\ SockOK' /\ TableOK'
  BY <1>1 DEF Inv
<1>2. CASE Kernel
  BY <1>2, KernelStep DEF Kernel
<1>3. CASE \E k \in Keys : Udev(k)
  BY <1>3, RulesStep, SendsStep DEF Udev
<1>4. CASE hs_monitor_new \/ Creation
  BY <1>4, CreationStep
<1>5. CASE hs_monitor_free \/ NewFails
  BY <1>5, ReleaseStep DEF hs_monitor_free, NewFails
<1>6. CASE hs_monitor_refresh \/ RefreshReturns
  BY <1>6, RefreshBounds
<1>7. CASE ProcessAdd \/ ProcessOther \/ AddFails \/ RefreshFails
  BY <1>7, RefreshStep
<1>8. CASE UNCHANGED vars
  <2>1. UNCHANGED <<present, kq, ruled, db, receiving, sock, overrun, devices, call, missed>>
    BY <1>8 DEF vars
  <2> QED
    BY <2>1 DEF Inv, SocketOK, RefreshOK, KernelOK, DbOK, SockOK, TableOK
<1> QED
  BY <1>2, <1>3, <1>4, <1>5, <1>6, <1>7, <1>8 DEF Next, Refresh, Failure

\* What holds at every moment of the monitor's life: the queues of the kernel,
\* of the socket and of the refresh end with what is true of each device.
THEOREM Invariance == Spec => []Inv
<1>1. Init => Inv
  BY InvInit
<1>2. Inv /\ [Next]_vars => Inv'
  BY InvStep
<1> QED
  BY <1>1, <1>2, PTL DEF Spec

\* Every variable keeps its type.
THEOREM TypeCorrect == Spec => []TypeOK
<1>1. Inv => TypeOK
  BY DEF Inv
<1> QED
  BY <1>1, Invariance, PTL

\* In whatever order the enumeration, the events and the errors come, the
\* table of hs_monitor_refresh() is right for every device of which no event
\* is on its way and none was lost.
THEOREM AccurateCorrect == Spec => []Accurate
<1>1. ASSUME Inv PROVE Accurate
  <2> SUFFICES ASSUME call.pc \in {"idle", "refresh"}, NEW k \in Usable \ missed, ~Pending(k)
               PROVE  k \in devices <=> k \in present
    BY DEF Accurate
  <2>1. ~AnySignal(kq[k])
    BY DEF Pending, AnySignal
  <2>2. ~AnySignal(ViewOf(sock, k))
    <3>1. \A i \in DOMAIN sock : sock[i].key = k => sock[i].act = "change"
      BY DEF Pending
    <3>2. DOMAIN ViewOf(sock, k) = DOMAIN sock
      BY DEF ViewOf
    <3>3. \A i \in DOMAIN sock : ViewOf(sock, k)[i] = "change"
      BY <3>1 DEF ViewOf
    <3> QED
      BY <3>2, <3>3 DEF AnySignal
  <2> QED
    BY <1>1, <2>1, <2>2 DEF Inv, TableOK
<1> QED
  BY <1>1, Invariance, PTL

\* A refresh that reports success has taken every event that was in the socket
\* when it began, unless the socket lost events.
THEOREM RefreshCorrect == Spec => []RefreshComplete
<1>1. ASSUME Inv PROVE RefreshComplete
  <2>1. call.due \in Nat
    BY <1>1 DEF Inv, TypeOK
  <2> QED
    BY <1>1, <2>1 DEF Inv, RefreshOK, RefreshComplete
<1> QED
  BY <1>1, Invariance, PTL

=============================================================================
