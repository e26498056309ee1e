------------------------ MODULE MonitorWin32Proofs -------------------------
(***************************************************************************)
(* Theorems about the module MonitorWin32, for every set of devices and    *)
(* every number of changes.                                                *)
(***************************************************************************)
EXTENDS MonitorWin32, SequenceTheorems, TLAPS

\* The list of hs_monitor_refresh() is in use only inside that function.
Refreshing == main \in {"process", "cleanup", "crashed"}

\* Where the two threads can be at the same time: the application waits for the
\* event until the thread listens or has failed, and goes on without the thread
\* only when a wait has failed.
Phases ==
    /\ thread = "created" => /\ main \in {"waiting", "free", "join", "release", "none"}
                             /\ IF main = "waiting" THEN ~event ELSE unwaited
    /\ thread = "running" => /\ main # "enumerated"
                             /\ hwnd \/ main = "none"
                             /\ main \in {"none", "release"} => unwaited
    /\ main \in {"none", "enumerated"} => ~event
    /\ main \in {"none", "enumerated", "waiting", "ready"} => ~drained
    /\ ~Refreshing => local = <<>>

\* Lists l and n, one after the other, hold what follows the first d elements of p.
Track(l, n, p, d) ==
    /\ Len(l) + Len(n) = Len(p) - d
    /\ \A i \in 1 .. Len(l) : l[i] = p[d + i]
    /\ \A i \in 1 .. Len(n) : n[i] = p[d + Len(l) + i]

\* The notification at each place of the two lists is the one posted there.
Tracked == Track(local, notifications, posted, done)

\* From the first empty list on, the event stays set while either list holds a
\* notification.
Shown == drained /\ (local # <<>> \/ notifications # <<>>) => event

\* Message or notification e is about device k.
Of(e, k) == e # WM_CLOSE /\ e.key = k

\* Some element of q after the first n is about k.
Names(q, n, k) == \E i \in n + 1 .. Len(q) : Of(q[i], k)

\* The last element of q that is about k, if it is after the first n, says
\* whether k is in S.
LastSays(q, n, k, S) ==
    \A i \in n + 1 .. Len(q) :
        Of(q[i], k) /\ (\A j \in i + 1 .. Len(q) : ~Of(q[j], k)) =>
            (q[i].event = "ADDED" <=> k \in S)

\* The queues are empty while nobody feeds them, and the thread is asked to end
\* only by hs_monitor_free().
QueuesOK ==
    /\ thread # "running" =>
          msgs = <<>> \/ (thread = "created" /\ main \in {"join", "release", "none"})
    /\ main \notin {"join", "release", "none"} => \A i \in 1 .. Len(msgs) : msgs[i] # WM_CLOSE
    /\ main \in {"none", "enumerated"} => posted = <<>> /\ done = 0

\* Whether device k is plugged in is said by the last message about it, or by
\* the last notification if there is no message, or else by the table.
FollowsDevice(k) ==
    /\ Names(msgs, 0, k) => LastSays(msgs, 0, k, present)
    /\ ~Names(msgs, 0, k) /\ Names(posted, done, k) => LastSays(posted, done, k, present)
    /\ ~Names(msgs, 0, k) /\ ~Names(posted, done, k) => (k \in table <=> k \in present)

\* ... for every device whose changes were all notified to the monitor.
Follows ==
    main \in {"enumerated", "waiting", "ready", "idle", "process", "cleanup"} =>
        \A k \in Keys : k \in stale \/ FollowsDevice(k)

-----------------------------------------------------------------------------
(* The two lists as sequences. *)

\* Posting adds to the end of both.
LEMMA TrackAppend ==
    ASSUME NEW S, NEW l \in Seq(S), NEW n \in Seq(S), NEW p \in Seq(S), NEW d \in Nat,
           NEW x \in S, Track(l, n, p, d)
    PROVE  Track(l, Append(n, x), Append(p, x), d)
<1> DEFINE n1 == Append(n, x)
           p1 == Append(p, x)
<1>1. Len(l) \in Nat /\ Len(n) \in Nat /\ Len(p) \in Nat
  BY LenProperties
<1>2. /\ Len(n1) = Len(n) + 1
      /\ \A i \in 1 .. Len(n) : n1[i] = n[i]
      /\ n1[Len(n) + 1] = x
  BY AppendProperties
<1>3. /\ Len(p1) = Len(p) + 1
      /\ \A i \in 1 .. Len(p) : p1[i] = p[i]
      /\ p1[Len(p) + 1] = x
  BY AppendProperties
<1> HIDE DEF n1, p1
<1>4. Len(l) + Len(n1) = Len(p1) - d
  BY <1>1, <1>2, <1>3 DEF Track
<1>5. ASSUME NEW i \in 1 .. Len(l) PROVE l[i] = p1[d + i]
  <2>1. d + i \in 1 .. Len(p)
    BY <1>1 DEF Track
  <2> QED
    BY <1>3, <2>1 DEF Track
<1>6. ASSUME NEW i \in 1 .. Len(n1) PROVE n1[i] = p1[d + Len(l) + i]
  <2>1. CASE i \in 1 .. Len(n)
    <3>1. d + Len(l) + i \in 1 .. Len(p)
      BY <1>1, <2>1 DEF Track
    <3> QED
      BY <1>2, <1>3, <2>1, <3>1 DEF Track
  <2>2. CASE i = Len(n) + 1
    <3>1. Len(l) + Len(n) = Len(p) - d
      BY DEF Track
    <3>2. d + Len(l) + i = Len(p) + 1
      BY <1>1, <2>2, <3>1
    <3> QED
      BY <1>2, <1>3, <2>2, <3>2
  <2> QED
    BY <1>1, <1>2, <2>1, <2>2
<1>7. Track(l, n1, p1, d)
  BY <1>4, <1>5, <1>6 DEF Track
<1> QED
  BY <1>7 DEF n1, p1

\* Processing takes the first of l.
LEMMA TrackTail ==
    ASSUME NEW S, NEW l \in Seq(S), NEW n \in Seq(S), NEW p \in Seq(S), NEW d \in Nat,
           l # <<>>, Track(l, n, p, d)
    PROVE  Track(Tail(l), n, p, d + 1)
<1> DEFINE t == Tail(l)
<1>1. Len(l) \in Nat /\ Len(n) \in Nat /\ Len(p) \in Nat
  BY LenProperties
<1>2. Len(t) = Len(l) - 1 /\ \A i \in 1 .. Len(t) : t[i] = l[i + 1]
  BY HeadTailProperties
<1> HIDE DEF t
<1>3. ASSUME NEW i \in 1 .. Len(t) PROVE t[i] = p[(d + 1) + i]
  <2>1. i + 1 \in 1 .. Len(l) /\ d + (i + 1) = (d + 1) + i
    BY <1>1, <1>2
  <2> QED
    BY <1>2, <2>1 DEF Track
<1>4. (d + 1) + Len(t) = d + Len(l) /\ Len(t) + Len(n) = Len(p) - (d + 1)
  BY <1>1, <1>2 DEF Track
<1>5. Track(t, n, p, d + 1)
  BY <1>3, <1>4 DEF Track
<1> QED
  BY <1>5 DEF t

\* Joined, the lists are the rest of p.
LEMMA TrackConcat ==
    ASSUME NEW S, NEW l \in Seq(S), NEW n \in Seq(S), NEW p \in Seq(S), NEW d \in Nat,
           Track(l, n, p, d)
    PROVE  /\ Track(<<>>, l \o n, p, d)
           /\ l \o n = SubSeq(p, d + 1, Len(p))
<1> DEFINE a == l \o n
           b == SubSeq(p, d + 1, Len(p))
<1>1. Len(l) \in Nat /\ Len(n) \in Nat /\ Len(p) \in Nat
  BY LenProperties
<1>2. /\ a \in Seq(S)
      /\ Len(a) = Len(l) + Len(n)
      /\ \A i \in 1 .. Len(l) + Len(n) : a[i] =
            IF i <= Len(l) THEN l[i] ELSE n[i - Len(l)]
  BY ConcatProperties
<1>3. \A i \in d + 1 .. Len(p) : p[i] \in S
  BY <1>1, ElementOfSeq
<1>4. /\ b \in Seq(S)
      /\ Len(b) = IF d + 1 <= Len(p) THEN Len(p) - (d + 1) + 1 ELSE 0
      /\ \A i \in 1 .. Len(p) - (d + 1) + 1 : b[i] = p[(d + 1) + i - 1]
  <2>1. d + 1 \in Int /\ Len(p) \in Int
    BY <1>1
  <2> QED
    BY <1>3, <2>1, SubSeqProperties
<1> HIDE DEF a, b
<1>5. ASSUME NEW i \in 1 .. Len(a) PROVE a[i] = p[d + i]
  <2>1. CASE i \in 1 .. Len(l)
    <3>1. a[i] = l[i]
      BY <1>1, <1>2, <2>1
    <3> QED
      BY <2>1, <3>1 DEF Track
  <2>2. CASE i - Len(l) \in 1 .. Len(n)
    <3>1. a[i] = n[i - Len(l)]
      <4>1. i \in 1 .. Len(l) + Len(n) /\ ~(i <= Len(l))
        BY <1>1, <1>2, <2>2
      <4> QED
        BY <1>2, <4>1
    <3>2. d + Len(l) + (i - Len(l)) = d + i
      BY <1>1, <1>2
    <3> QED
      BY <2>2, <3>1, <3>2 DEF Track
  <2> QED
    BY <1>1, <1>2, <2>1, <2>2
<1>6. Len(a) = Len(p) - d
  BY <1>1, <1>2 DEF Track
<1>7. Len(a) = Len(b)
  BY <1>1, <1>2, <1>4, <1>6
<1>8. ASSUME NEW i \in 1 .. Len(a) PROVE a[i] = b[i]
  <2>1. i \in 1 .. Len(p) - (d + 1) + 1 /\ (d + 1) + i - 1 = d + i
    BY <1>1, <1>6
  <2> QED
    BY <1>4, <1>5, <2>1
<1>9. a = b
  BY <1>2, <1>4, <1>7, <1>8, SeqEqual
<1>10. Track(<<>>, a, p, d)
  <2>1. Len(<<>>) = 0
    OBVIOUS
  <2>2. \A i \in 1 .. Len(a) : d + Len(<<>>) + i = d + i
    BY <1>2, <1>1, <2>1
  <2> QED
    BY <1>1, <1>5, <1>6, <2>1, <2>2 DEF Track
<1> QED
  BY <1>9, <1>10 DEF a, b

\* Taking over the whole list.
LEMMA TrackTake ==
    ASSUME NEW S, NEW n \in Seq(S), NEW p \in Seq(S), NEW d \in Nat,
           Track(<<>>, n, p, d)
    PROVE  Track(n, <<>>, p, d)
<1>1. Len(<<>>) = 0 /\ Len(n) \in Nat
  BY LenProperties
<1>2. Len(n) = Len(p) - d
  BY <1>1 DEF Track
<1>3. ASSUME NEW i \in 1 .. Len(n) PROVE n[i] = p[d + i]
  <2>1. d + Len(<<>>) + i = d + i
    BY <1>1
  <2> QED
    BY <2>1 DEF Track
<1> QED
  BY <1>1, <1>2, <1>3 DEF Track

-----------------------------------------------------------------------------
(* Types. *)

\* The first message is a device message unless it is WM_CLOSE.
LEMMA HeadMessage ==
    ASSUME TypeOK, msgs # <<>>, Head(msgs) # WM_CLOSE
    PROVE  Head(msgs) \in Events /\ Head(msgs).key \in Keys
<1>1. Head(msgs) \in Events
  BY HeadTailProperties DEF TypeOK
<1> QED
  BY <1>1 DEF Events

\* The types hold of a program without a monitor.
LEMMA TypeInit == Init => TypeOK
<1> SUFFICES ASSUME Init PROVE TypeOK
  OBVIOUS
<1>1. /\ msgs \in Seq(Events \cup {WM_CLOSE})
      /\ notifications \in Seq(Events)
      /\ local \in Seq(Events)
      /\ posted \in Seq(Events)
  BY DEF Init
<1>2. done \in 0 .. Len(posted) /\ changes \in 0 .. MaxChanges
  BY MonitorWin32Assumption DEF Init
<1> QED
  BY <1>1, <1>2 DEF Init, TypeOK

\* Every step of either thread keeps the types.
LEMMA TypeNext == TypeOK /\ Tracked /\ [Next]_vars => TypeOK'
<1> SUFFICES ASSUME TypeOK, Tracked, [Next]_vars PROVE TypeOK'
  OBVIOUS
<1> USE DEF TypeOK, world, shared, ghosts
<1>1. ASSUME NEW k \in Keys, DeviceChange(k) PROVE TypeOK'
  <2>1. msgs' \in Seq(Events \cup {WM_CLOSE})
    <3> DEFINE m == [event |-> IF k \in present THEN "REMOVED" ELSE "ADDED", key |-> k]
    <3>1. m \in Events
      BY DEF Events
    <3>2. msgs' = Append(msgs, m) \/ msgs' = msgs
      BY <1>1 DEF DeviceChange
    <3> HIDE DEF m
    <3>3. msgs \in Seq(Events \cup {WM_CLOSE}) /\ m \in Events \cup {WM_CLOSE}
      BY <3>1
    <3> QED
      BY ONLY <3>2, <3>3, AppendProperties
  <2>2. changes' \in 0 .. MaxChanges
    BY <1>1, MonitorWin32Assumption DEF DeviceChange
  <2> QED
    BY <1>1, <2>1, <2>2 DEF DeviceChange
<1>2. CASE monitor_thread
  BY <1>2 DEF monitor_thread, At
<1>3. CASE ThreadStartFails
  <2>1. msgs' \in Seq(Events \cup {WM_CLOSE})
    BY <1>3 DEF ThreadStartFails
  <2> QED
    BY <1>3, <2>1 DEF ThreadStartFails, ThreadFails
<1>4. CASE GetMessageFails
  <2>1. msgs' \in Seq(Events \cup {WM_CLOSE})
    BY <1>4 DEF GetMessageFails
  <2> QED
    BY <1>4, <2>1 DEF GetMessageFails, ErrorOverwritten, ThreadFails, Keyed
<1>5. CASE window_proc
  <2>1. Head(msgs) \in Events /\ Head(msgs).key \in Keys
    BY <1>5, HeadMessage DEF window_proc
  <2>2. msgs' \in Seq(Events \cup {WM_CLOSE})
    BY <1>5, HeadTailProperties DEF window_proc
  <2>3. notifications' \in Seq(Events) /\ posted' \in Seq(Events) /\ done' \in 0 .. Len(posted')
    <3>1. CASE UNCHANGED <<notifications, posted>>
      BY <1>5, <3>1 DEF window_proc
    <3>2. CASE /\ notifications' = Append(notifications, Head(msgs))
               /\ posted' = Append(posted, Head(msgs))
      BY <1>5, <2>1, <3>2 DEF window_proc
    <3> QED
      BY <1>5, <3>1, <3>2 DEF window_proc, post_device_event
  <2> QED
    BY <1>5, <2>1, <2>2, <2>3 DEF window_proc, post_device_event
<1>6. CASE CloseWindow
  BY <1>6 DEF CloseWindow, At
<1>7. CASE hs_enumerate
  BY <1>7 DEF hs_enumerate
<1>8. CASE hs_monitor_new
  BY <1>8 DEF hs_monitor_new
<1>9. CASE wait_event
  BY <1>9 DEF wait_event
<1>10. CASE MonitorReady
  BY <1>10 DEF MonitorReady
<1>11. CASE hs_monitor_free
  <2>1. msgs' \in Seq(Events \cup {WM_CLOSE})
    <3>1. msgs' \in {msgs, Append(msgs, WM_CLOSE)}
      BY <1>11 DEF hs_monitor_free, PostClose
    <3>2. Append(msgs, WM_CLOSE) \in Seq(Events \cup {WM_CLOSE})
      BY AppendProperties
    <3> QED
      BY <3>1, <3>2
  <2> QED
    BY <1>11, <2>1 DEF hs_monitor_free
<1>12. CASE ReleaseMonitor
  <2>1. notifications' \in Seq(Events) /\ posted' \in Seq(Events) /\ done' \in 0 .. Len(posted')
    BY <1>12 DEF ReleaseMonitor
  <2> QED
    BY <1>12, <2>1 DEF ReleaseMonitor
<1>13. CASE hs_monitor_refresh
  <2>1. notifications' \in Seq(Events) /\ local' \in Seq(Events)
    BY <1>13 DEF hs_monitor_refresh, TakeOver
  <2> QED
    BY <1>13, <2>1 DEF hs_monitor_refresh
<1>14. CASE ArrivalOfMissingDevice
  BY <1>14 DEF ArrivalOfMissingDevice
<1>15. ASSUME local # <<>>, NEW r \in {0, -1}, ProcessedWith(r), posted' = posted
       PROVE  /\ local' \in Seq(Events)
              /\ done' \in 0 .. Len(posted')
              /\ main' \in {"process", "cleanup"}
              /\ Head(local).key \in Keys
  <2>1. Head(local) \in Events /\ Tail(local) \in Seq(Events)
    BY <1>15, HeadTailProperties
  <2>2. Len(local) \in Nat /\ Len(local) # 0 /\ Len(notifications) \in Nat /\ Len(posted) \in Nat
    BY <1>15, LenProperties, EmptySeq
  <2>3. done + 1 <= Len(posted)
    BY <2>2 DEF Tracked, Track
  <2> QED
    BY <1>15, <2>1, <2>2, <2>3 DEF ProcessedWith, Events
<1>16. CASE process_arrival_notification
  BY <1>15, <1>16 DEF process_arrival_notification, process_win32_device
<1>17. CASE ProcessRemoval
  BY <1>15, <1>17 DEF ProcessRemoval
<1>18. CASE RefreshReturns
  <2>1. notifications' \in Seq(Events) /\ local' \in Seq(Events)
    BY <1>18 DEF RefreshReturns, PutBack
  <2> QED
    BY <1>18, <2>1 DEF RefreshReturns, ResetEvent
<1>19. CASE UNCHANGED vars
  BY <1>19 DEF vars
<1>20. CASE CreateWindow
  BY <1>20 DEF CreateWindow
<1>21. CASE WaitFails
  BY <1>21 DEF WaitFails
<1>22. CASE JoinFails
  BY <1>22 DEF JoinFails
<1> QED
  BY <1>1, <1>2, <1>3, <1>4, <1>5, <1>6, <1>7, <1>8, <1>9, <1>10, <1>11, <1>12, <1>13,
     <1>14, <1>16, <1>17, <1>18, <1>19, <1>20, <1>21, <1>22 DEF Next, Thread, InCall, Application

\* Phases is inductive.
LEMMA PhasesNext == TypeOK /\ Phases /\ [Next]_vars => Phases'
<1> SUFFICES ASSUME TypeOK, Phases, [Next]_vars PROVE Phases'
  OBVIOUS
<1> USE DEF TypeOK, Phases, Refreshing, world, shared, ghosts
<1>1. ASSUME NEW k \in Keys, DeviceChange(k) PROVE Phases'
  BY <1>1 DEF DeviceChange
<1>2. CASE monitor_thread
  BY <1>2 DEF monitor_thread, At
<1>3. CASE ThreadStartFails
  BY <1>3 DEF ThreadStartFails, ThreadFails, At
<1>4. CASE GetMessageFails
  BY <1>4 DEF GetMessageFails, ErrorOverwritten, ThreadFails, At
<1>5. CASE window_proc
  BY <1>5 DEF window_proc, post_device_event, At
<1>6. CASE CloseWindow
  BY <1>6 DEF CloseWindow, At
<1>7. CASE hs_enumerate
  BY <1>7 DEF hs_enumerate
<1>8. CASE hs_monitor_new
  BY <1>8 DEF hs_monitor_new
<1>9. CASE wait_event
  BY <1>9 DEF wait_event
<1>10. CASE MonitorReady
  BY <1>10 DEF MonitorReady
<1>11. CASE hs_monitor_free
  BY <1>11 DEF hs_monitor_free, PostClose
<1>12. CASE ReleaseMonitor
  BY <1>12 DEF ReleaseMonitor, ThreadJoined
<1>13. CASE hs_monitor_refresh
  BY <1>13 DEF hs_monitor_refresh, TakeOver
<1>14. CASE ArrivalOfMissingDevice
  BY <1>14 DEF ArrivalOfMissingDevice
<1>15. CASE process_arrival_notification
  BY <1>15 DEF process_arrival_notification, process_win32_device, ProcessedWith
<1>16. CASE ProcessRemoval
  BY <1>16 DEF ProcessRemoval, ProcessedWith
<1>17. CASE RefreshReturns
  BY <1>17 DEF RefreshReturns, PutBack, ResetEvent
<1>18. CASE UNCHANGED vars
  BY <1>18 DEF vars
<1>19. CASE CreateWindow
  BY <1>19 DEF CreateWindow, At
<1>20. CASE WaitFails
  BY <1>20 DEF WaitFails
<1>21. CASE JoinFails
  BY <1>21 DEF JoinFails
<1> QED
  BY <1>1, <1>2, <1>3, <1>4, <1>5, <1>6, <1>7, <1>8, <1>9, <1>10, <1>11, <1>12, <1>13,
     <1>14, <1>15, <1>16, <1>17, <1>18, <1>19, <1>20, <1>21 DEF Next, Thread, InCall, Application

\* Shown is inductive.
LEMMA ShownNext == TypeOK /\ Phases /\ Shown /\ [Next]_vars => Shown'
<1> SUFFICES ASSUME TypeOK, Phases, Shown, [Next]_vars PROVE Shown'
  OBVIOUS
<1> USE DEF TypeOK, Phases, Shown, Refreshing, world, shared, ghosts
<1>1. ASSUME NEW k \in Keys, DeviceChange(k) PROVE Shown'
  BY <1>1 DEF DeviceChange
<1>2. CASE monitor_thread
  BY <1>2 DEF monitor_thread, At
<1>3. CASE ThreadStartFails
  BY <1>3 DEF ThreadStartFails, ThreadFails, At
<1>4. CASE GetMessageFails
  BY <1>4 DEF GetMessageFails, ErrorOverwritten, ThreadFails, At
<1>5. CASE window_proc
  BY <1>5 DEF window_proc, post_device_event, At
<1>6. CASE CloseWindow
  BY <1>6 DEF CloseWindow, At
<1>7. CASE hs_enumerate
  BY <1>7 DEF hs_enumerate
<1>8. CASE hs_monitor_new
  BY <1>8 DEF hs_monitor_new
<1>9. CASE wait_event
  BY <1>9 DEF wait_event
<1>10. CASE MonitorReady
  BY <1>10 DEF MonitorReady
<1>11. CASE hs_monitor_free
  BY <1>11 DEF hs_monitor_free, PostClose
<1>12. CASE ReleaseMonitor
  BY <1>12 DEF ReleaseMonitor, ThreadJoined
<1>13. CASE hs_monitor_refresh
  BY <1>13 DEF hs_monitor_refresh, TakeOver
<1>14. CASE ArrivalOfMissingDevice
  BY <1>14 DEF ArrivalOfMissingDevice
<1>15. CASE process_arrival_notification
  BY <1>15 DEF process_arrival_notification, process_win32_device, ProcessedWith
<1>16. CASE ProcessRemoval
  BY <1>16 DEF ProcessRemoval, ProcessedWith
<1>17. CASE RefreshReturns
  BY <1>17 DEF RefreshReturns, PutBack, ResetEvent
<1>18. CASE UNCHANGED vars
  BY <1>18 DEF vars
<1>19. CASE CreateWindow
  BY <1>19 DEF CreateWindow, At
<1>20. CASE WaitFails
  BY <1>20 DEF WaitFails
<1>21. CASE JoinFails
  BY <1>21 DEF JoinFails
<1> QED
  BY <1>1, <1>2, <1>3, <1>4, <1>5, <1>6, <1>7, <1>8, <1>9, <1>10, <1>11, <1>12, <1>13,
     <1>14, <1>15, <1>16, <1>17, <1>18, <1>19, <1>20, <1>21 DEF Next, Thread, InCall, Application

\* Processing the first notification of hs_monitor_refresh()'s list.
LEMMA ProcessedTracked ==
    ASSUME TypeOK, Tracked, local # <<>>, NEW r \in {0, -1}, ProcessedWith(r),
           UNCHANGED <<notifications, posted>>
    PROVE  Tracked'
<1>1. /\ local \in Seq(Events) /\ notifications \in Seq(Events)
      /\ posted \in Seq(Events) /\ done \in Nat
  BY DEF TypeOK
<1>2. Track(Tail(local), notifications, posted, done + 1)
  BY <1>1, TrackTail DEF Tracked
<1> QED
  BY <1>2 DEF ProcessedWith, Tracked

\* Tracked is inductive.
LEMMA TrackedNext == TypeOK /\ Phases /\ Tracked /\ [Next]_vars => Tracked'
<1> SUFFICES ASSUME TypeOK, Phases, Tracked, [Next]_vars PROVE Tracked'
  OBVIOUS
<1> USE DEF Tracked, world, shared, ghosts
<1>0. /\ local \in Seq(Events) /\ notifications \in Seq(Events)
      /\ posted \in Seq(Events) /\ done \in Nat
  BY DEF TypeOK
<1>1. ASSUME NEW k \in Keys, DeviceChange(k) PROVE Tracked'
  BY <1>1 DEF DeviceChange
<1>2. CASE monitor_thread
  BY <1>2 DEF monitor_thread, At
<1>3. CASE ThreadStartFails
  BY <1>3 DEF ThreadStartFails, ThreadFails, At
<1>4. CASE GetMessageFails
  BY <1>4 DEF GetMessageFails, ErrorOverwritten, ThreadFails, At
<1>5. CASE window_proc
  <2>1. CASE UNCHANGED <<notifications, posted>>
    BY <1>5, <2>1 DEF window_proc
  <2>2. CASE post_device_event(Head(msgs)) /\ posted' = Append(posted, Head(msgs))
    <3>1. Head(msgs) \in Events
      BY <1>5, HeadMessage DEF window_proc
    <3>2. Track(local, Append(notifications, Head(msgs)), Append(posted, Head(msgs)), done)
      BY <1>0, <3>1, TrackAppend
    <3> QED
      BY <1>5, <2>2, <3>2 DEF window_proc, post_device_event
  <2> QED
    BY <1>5, <2>1, <2>2 DEF window_proc
<1>6. CASE CloseWindow
  BY <1>6 DEF CloseWindow, At
<1>7. CASE hs_enumerate
  BY <1>7 DEF hs_enumerate
<1>8. CASE hs_monitor_new
  BY <1>8 DEF hs_monitor_new
<1>9. CASE wait_event
  BY <1>9 DEF wait_event
<1>10. CASE MonitorReady
  BY <1>10 DEF MonitorReady
<1>11. CASE hs_monitor_free
  BY <1>11 DEF hs_monitor_free, PostClose
<1>12. CASE ReleaseMonitor
  <2>1. local = <<>>
    BY <1>12 DEF ReleaseMonitor, ThreadJoined, Phases, Refreshing
  <2> QED
    BY <1>12, <2>1 DEF ReleaseMonitor, Track
<1>13. CASE hs_monitor_refresh
  <2>1. local = <<>>
    BY <1>13 DEF hs_monitor_refresh, Phases, Refreshing
  <2>2. Track(notifications, <<>>, posted, done)
    BY <1>0, <2>1, TrackTake
  <2> QED
    BY <1>13, <2>2 DEF hs_monitor_refresh, TakeOver
<1>14. CASE ArrivalOfMissingDevice
  BY <1>14 DEF ArrivalOfMissingDevice
<1>15. CASE process_arrival_notification
  BY <1>15, ProcessedTracked DEF process_arrival_notification, process_win32_device
<1>16. CASE ProcessRemoval
  BY <1>16, ProcessedTracked DEF ProcessRemoval
<1>17. CASE RefreshReturns
  BY <1>0, <1>17, TrackConcat DEF RefreshReturns, PutBack
<1>18. CASE UNCHANGED vars
  BY <1>18 DEF vars
<1>19. CASE CreateWindow
  BY <1>19 DEF CreateWindow, At
<1>20. CASE WaitFails
  BY <1>20 DEF WaitFails
<1>21. CASE JoinFails
  BY <1>21 DEF JoinFails
<1> QED
  BY <1>1, <1>2, <1>3, <1>4, <1>5, <1>6, <1>7, <1>8, <1>9, <1>10, <1>11, <1>12, <1>13,
     <1>14, <1>15, <1>16, <1>17, <1>18, <1>19, <1>20, <1>21 DEF Next, Thread, InCall, Application

-----------------------------------------------------------------------------
(* What the queues say of a device. *)

LEMMA AppendNames ==
    ASSUME NEW T, NEW q \in Seq(T), NEW e \in T, NEW n \in 0 .. Len(q), NEW k, NEW S
    PROVE  /\ Names(Append(q, e), n, k) <=> Names(q, n, k) \/ Of(e, k)
           /\ Of(e, k) /\ (e.event = "ADDED" <=> k \in S) => LastSays(Append(q, e), n, k, S)
           /\ ~Of(e, k) /\ LastSays(q, n, k, S) => LastSays(Append(q, e), n, k, S)
<1> DEFINE r == Append(q, e)
<1>1. Len(q) \in Nat
  BY LenProperties
<1>2. /\ Len(r) = Len(q) + 1
      /\ \A i \in 1 .. Len(q) : r[i] = q[i]
      /\ r[Len(q) + 1] = e
  BY AppendProperties
<1> HIDE DEF r
<1>3. PICK m : m = Len(q) + 1
  OBVIOUS
<1>4. /\ m \in n + 1 .. Len(r) /\ r[m] = e
      /\ \A i \in n + 1 .. Len(r) : i = m \/ (i \in n + 1 .. Len(q) /\ m \in i + 1 .. Len(r))
      /\ \A i \in n + 1 .. Len(q) : i \in n + 1 .. Len(r) /\ r[i] = q[i]
  BY <1>1, <1>2, <1>3
<1>5. Names(r, n, k) <=> Names(q, n, k) \/ Of(e, k)
  BY <1>4 DEF Names
<1>6. ASSUME Of(e, k), e.event = "ADDED" <=> k \in S PROVE LastSays(r, n, k, S)
  BY <1>4, <1>6 DEF LastSays
<1>7. ASSUME ~Of(e, k), LastSays(q, n, k, S) PROVE LastSays(r, n, k, S)
  <2> SUFFICES ASSUME NEW i \in n + 1 .. Len(r), Of(r[i], k),
                      \A j \in i + 1 .. Len(r) : ~Of(r[j], k)
               PROVE  r[i].event = "ADDED" <=> k \in S
    BY DEF LastSays
  <2>1. i \in n + 1 .. Len(q) /\ r[i] = q[i]
    BY <1>4, <1>7
  <2>2. \A j \in i + 1 .. Len(q) : j \in i + 1 .. Len(r) /\ r[j] = q[j]
    BY <1>1, <1>2, <2>1
  <2> QED
    BY <1>7, <2>1, <2>2 DEF LastSays
<1> QED
  BY <1>5, <1>6, <1>7 DEF r

LEMMA NextNames ==
    ASSUME NEW T, NEW q \in Seq(T), NEW n \in Nat, n < Len(q), NEW k, NEW S
    PROVE  /\ Names(q, n, k) <=> Of(q[n + 1], k) \/ Names(q, n + 1, k)
           /\ LastSays(q, n, k, S) => LastSays(q, n + 1, k, S)
           /\ Of(q[n + 1], k) /\ ~Names(q, n + 1, k) /\ LastSays(q, n, k, S) =>
                 (q[n + 1].event = "ADDED" <=> k \in S)
<1>1. Len(q) \in Nat
  BY LenProperties
<1>2. PICK m : m = n + 1
  OBVIOUS
<1>3. /\ m \in n + 1 .. Len(q)
      /\ \A i \in n + 1 .. Len(q) : i = m \/ i \in m + 1 .. Len(q)
      /\ \A i \in m + 1 .. Len(q) : i \in n + 1 .. Len(q)
  BY <1>1, <1>2
<1>4. Names(q, n, k) <=> Of(q[m], k) \/ Names(q, m, k)
  BY <1>3 DEF Names
<1>5. LastSays(q, n, k, S) => LastSays(q, m, k, S)
  BY <1>3 DEF LastSays
<1>6. Of(q[m], k) /\ ~Names(q, m, k) /\ LastSays(q, n, k, S) => (q[m].event = "ADDED" <=> k \in S)
  BY <1>3 DEF LastSays, Names
<1> QED
  BY <1>2, <1>4, <1>5, <1>6

LEMMA TailNames ==
    ASSUME NEW T, NEW q \in Seq(T), q # <<>>, NEW k, NEW S
    PROVE  /\ Names(q, 0, k) <=> Of(Head(q), k) \/ Names(Tail(q), 0, k)
           /\ LastSays(q, 0, k, S) => LastSays(Tail(q), 0, k, S)
           /\ Of(Head(q), k) /\ ~Names(Tail(q), 0, k) /\ LastSays(q, 0, k, S) =>
                 (Head(q).event = "ADDED" <=> k \in S)
<1> DEFINE r == Tail(q)
<1>1. Len(q) \in Nat /\ 0 < Len(q)
  BY LenProperties, EmptySeq
<1>2. /\ Head(q) = q[1] /\ Len(r) = Len(q) - 1
      /\ \A i \in 1 .. Len(r) : r[i] = q[i + 1]
  BY HeadTailProperties
<1> HIDE DEF r
<1>3. \A i \in 1 .. Len(r) : i + 1 \in 2 .. Len(q) /\ r[i] = q[i + 1]
  BY <1>1, <1>2
<1>4. ASSUME NEW i \in 2 .. Len(q) PROVE i - 1 \in 1 .. Len(r) /\ r[i - 1] = q[i]
  <2>1. i - 1 \in 1 .. Len(r) /\ (i - 1) + 1 = i
    BY <1>1, <1>2
  <2> QED
    BY <1>2, <2>1
<1>5. Names(q, 1, k) <=> Names(r, 0, k)
  <2>1. Names(q, 1, k) <=> \E i \in 2 .. Len(q) : Of(q[i], k)
    BY DEF Names
  <2>2. Names(r, 0, k) <=> \E i \in 1 .. Len(r) : Of(r[i], k)
    BY DEF Names
  <2> QED
    BY <1>3, <1>4, <2>1, <2>2
<1>6. ASSUME LastSays(q, 1, k, S) PROVE LastSays(r, 0, k, S)
  <2> SUFFICES ASSUME NEW i \in 1 .. Len(r), Of(r[i], k),
                      \A j \in i + 1 .. Len(r) : ~Of(r[j], k)
               PROVE  r[i].event = "ADDED" <=> k \in S
    BY DEF LastSays
  <2>1. PICK m : m = i + 1
    OBVIOUS
  <2>2. m \in 1 + 1 .. Len(q) /\ q[m] = r[i]
    BY <1>3, <2>1
  <2>3. ASSUME NEW j \in m + 1 .. Len(q) PROVE ~Of(q[j], k)
    <3>1. j \in 2 .. Len(q) /\ j - 1 \in i + 1 .. Len(r)
      BY <1>1, <1>2, <2>1
    <3> QED
      BY <1>4, <3>1
  <2> QED
    BY <1>6, <2>2, <2>3 DEF LastSays
<1>7. /\ Names(q, 0, k) <=> Of(q[1], k) \/ Names(q, 1, k)
      /\ LastSays(q, 0, k, S) => LastSays(q, 1, k, S)
      /\ Of(q[1], k) /\ ~Names(q, 1, k) /\ LastSays(q, 0, k, S) =>
            (q[1].event = "ADDED" <=> k \in S)
  <2>1. 0 \in Nat /\ 0 + 1 = 1
    OBVIOUS
  <2> QED
    BY <1>1, <2>1, NextNames
<1> QED
  BY <1>2, <1>5, <1>6, <1>7 DEF r

\* QueuesOK is inductive.
LEMMA QueuesNext == TypeOK /\ Phases /\ QueuesOK /\ [Next]_vars => QueuesOK'
<1> SUFFICES ASSUME TypeOK, Phases, QueuesOK, [Next]_vars PROVE QueuesOK'
  OBVIOUS
<1> USE DEF TypeOK, Phases, QueuesOK, Refreshing, world, shared, ghosts
<1>1. ASSUME NEW k \in Keys, DeviceChange(k) PROVE QueuesOK'
  <2>1. CASE thread # "running"
    BY <1>1, <2>1 DEF DeviceChange
  <2>2. CASE thread = "running"
    <3>1. PICK e \in Events : msgs' = Append(msgs, e)
      BY <1>1, <2>2 DEF DeviceChange, Events
    <3>2. e # WM_CLOSE /\ e \in Events \cup {WM_CLOSE}
      BY DEF Events, WM_CLOSE
    <3>3. /\ Len(msgs) \in Nat /\ Len(msgs') = Len(msgs) + 1
          /\ \A i \in 1 .. Len(msgs) : msgs'[i] = msgs[i]
          /\ msgs'[Len(msgs) + 1] = e
      BY <3>1, <3>2, AppendProperties, LenProperties
    <3>4. \A i \in 1 .. Len(msgs') : i \in 1 .. Len(msgs) \/ i = Len(msgs) + 1
      BY <3>3
    <3> QED
      BY <1>1, <2>2, <3>2, <3>3, <3>4 DEF DeviceChange
  <2> QED
    BY <2>1, <2>2
<1>2. CASE monitor_thread
  BY <1>2 DEF monitor_thread, At
<1>3. CASE ThreadStartFails
  BY <1>3 DEF ThreadStartFails, ThreadFails, At
<1>4. CASE GetMessageFails
  BY <1>4 DEF GetMessageFails, ErrorOverwritten, ThreadFails, At
<1>5. CASE window_proc
  <2>1. Len(msgs) \in Nat /\ Len(msgs') = Len(msgs) - 1
        /\ \A i \in 1 .. Len(msgs') : msgs'[i] = msgs[i + 1]
    BY <1>5, HeadTailProperties, LenProperties DEF window_proc
  <2>2. \A i \in 1 .. Len(msgs') : i + 1 \in 1 .. Len(msgs)
    BY <2>1
  <2> QED
    BY <1>5, <2>1, <2>2 DEF window_proc, At
<1>6. CASE CloseWindow
  BY <1>6 DEF CloseWindow, At
<1>7. CASE hs_enumerate
  BY <1>7 DEF hs_enumerate
<1>8. CASE hs_monitor_new
  BY <1>8 DEF hs_monitor_new
<1>9. CASE wait_event
  BY <1>9 DEF wait_event
<1>10. CASE MonitorReady
  BY <1>10 DEF MonitorReady
<1>11. CASE hs_monitor_free
  BY <1>11 DEF hs_monitor_free, PostClose
<1>12. CASE ReleaseMonitor
  BY <1>12 DEF ReleaseMonitor, ThreadJoined
<1>13. CASE hs_monitor_refresh
  BY <1>13 DEF hs_monitor_refresh, TakeOver
<1>14. CASE ArrivalOfMissingDevice
  BY <1>14 DEF ArrivalOfMissingDevice
<1>15. CASE process_arrival_notification
  BY <1>15 DEF process_arrival_notification, process_win32_device, ProcessedWith
<1>16. CASE ProcessRemoval
  BY <1>16 DEF ProcessRemoval, ProcessedWith
<1>17. CASE RefreshReturns
  BY <1>17 DEF RefreshReturns, PutBack, ResetEvent
<1>18. CASE UNCHANGED vars
  BY <1>18 DEF vars
<1>19. CASE CreateWindow
  BY <1>19 DEF CreateWindow, At
<1>20. CASE WaitFails
  BY <1>20 DEF WaitFails
<1>21. CASE JoinFails
  BY <1>21 DEF JoinFails
<1> QED
  BY <1>1, <1>2, <1>3, <1>4, <1>5, <1>6, <1>7, <1>8, <1>9, <1>10, <1>11, <1>12, <1>13,
     <1>14, <1>15, <1>16, <1>17, <1>18, <1>19, <1>20, <1>21 DEF Next, Thread, InCall, Application

\* A change of a device is its last message, or nobody is told.
LEMMA ChangeFollows ==
    ASSUME TypeOK, Follows, NEW d \in Keys, DeviceChange(d)
    PROVE  Follows'
<1>1. /\ UNCHANGED <<main, posted, done, table>>
      /\ \A k \in Keys : k # d => (k \in present' <=> k \in present)
      /\ \A k \in Keys : k # d => (k \in stale' <=> k \in stale)
  BY DEF DeviceChange, shared
<1> SUFFICES ASSUME main \in {"enumerated", "waiting", "ready", "idle", "process", "cleanup"},
                    NEW k \in Keys, k \notin stale'
             PROVE  FollowsDevice(k)'
  BY <1>1 DEF Follows
<1>2. CASE thread # "running"
  <2>1. UNCHANGED msgs /\ k # d
    BY <1>2 DEF DeviceChange
  <2>2. FollowsDevice(k) /\ (k \in present' <=> k \in present)
    BY <1>1, <2>1 DEF Follows
  <2> QED
    BY <1>1, <2>1, <2>2 DEF FollowsDevice, LastSays
<1>3. CASE thread = "running"
  <2>1. PICK e \in Events : msgs' = Append(msgs, e) /\ e.key = d
                            /\ (e.event = "ADDED" <=> d \in present')
    BY <1>3 DEF DeviceChange, Events
  <2>2. e # WM_CLOSE /\ e \in Events \cup {WM_CLOSE} /\ msgs \in Seq(Events \cup {WM_CLOSE})
    BY DEF Events, WM_CLOSE, TypeOK
  <2>3. 0 \in 0 .. Len(msgs)
    BY <2>2, LenProperties
  <2>4. CASE k = d
    <3>1. Of(e, d)
      BY <2>1, <2>2 DEF Of
    <3>2. Names(msgs', 0, d) /\ LastSays(msgs', 0, d, present')
      BY <2>1, <2>2, <2>3, <3>1, AppendNames
    <3> QED
      BY <2>4, <3>2 DEF FollowsDevice
  <2>5. CASE k # d
    <3>1. ~Of(e, k)
      BY <2>1, <2>5 DEF Of
    <3>2. /\ Names(msgs', 0, k) <=> Names(msgs, 0, k)
          /\ LastSays(msgs, 0, k, present) => LastSays(msgs', 0, k, present)
      BY <2>1, <2>2, <2>3, <3>1, AppendNames
    <3>3. FollowsDevice(k) /\ (k \in present' <=> k \in present)
      BY <1>1, <2>5 DEF Follows
    <3>4. LastSays(msgs', 0, k, present) => LastSays(msgs', 0, k, present')
      BY <3>3 DEF LastSays
    <3>5. LastSays(posted, done, k, present) => LastSays(posted, done, k, present')
      BY <3>3 DEF LastSays
    <3> QED
      BY <1>1, <3>2, <3>3, <3>4, <3>5 DEF FollowsDevice
  <2> QED
    BY <2>4, <2>5
<1> QED
  BY <1>2, <1>3

\* A message becomes the last notification, or its device is given up.
LEMMA PostFollows ==
    ASSUME TypeOK, Follows, window_proc
    PROVE  Follows'
<1>1. /\ UNCHANGED <<main, present, done, table>>
      /\ msgs # <<>> /\ Head(msgs) # WM_CLOSE /\ msgs' = Tail(msgs)
      /\ msgs \in Seq(Events \cup {WM_CLOSE}) /\ posted \in Seq(Events) /\ done \in 0 .. Len(posted)
  BY DEF window_proc, world, TypeOK
<1>2. Head(msgs) \in Events
  BY <1>1, HeadMessage
<1>3. /\ stale \subseteq stale'
      /\ posted' = posted => Head(msgs).key \in stale'
      /\ posted' # posted => posted' = Append(posted, Head(msgs))
  <2>1. CASE /\ posted' = Append(posted, Head(msgs)) /\ UNCHANGED stale
    <3>1. Len(posted) \in Nat /\ Len(posted') = Len(posted) + 1
      BY <1>1, <1>2, <2>1, AppendProperties, LenProperties
    <3> QED
      BY <2>1, <3>1
  <2>2. CASE stale' = stale \cup {Head(msgs).key} /\ UNCHANGED posted
    BY <2>2
  <2> QED
    BY <2>1, <2>2 DEF window_proc
<1> SUFFICES ASSUME main \in {"enumerated", "waiting", "ready", "idle", "process", "cleanup"},
                    NEW k \in Keys, k \notin stale'
             PROVE  FollowsDevice(k)'
  BY <1>1 DEF Follows
<1>4. FollowsDevice(k)
  BY <1>3 DEF Follows
<1>5. /\ Names(msgs, 0, k) <=> Of(Head(msgs), k) \/ Names(msgs', 0, k)
      /\ LastSays(msgs, 0, k, present) => LastSays(msgs', 0, k, present)
      /\ Of(Head(msgs), k) /\ ~Names(msgs', 0, k) /\ LastSays(msgs, 0, k, present) =>
            (Head(msgs).event = "ADDED" <=> k \in present)
  BY <1>1, TailNames
<1>6. CASE posted' = posted
  <2>1. ~Of(Head(msgs), k)
    BY <1>3, <1>6 DEF Of
  <2> QED
    BY <1>1, <1>4, <1>5, <1>6, <2>1 DEF FollowsDevice
<1>7. CASE posted' = Append(posted, Head(msgs))
  <2>1. /\ Names(posted', done, k) <=> Names(posted, done, k) \/ Of(Head(msgs), k)
        /\ Of(Head(msgs), k) /\ (Head(msgs).event = "ADDED" <=> k \in present) =>
              LastSays(posted', done, k, present)
        /\ ~Of(Head(msgs), k) /\ LastSays(posted, done, k, present) =>
              LastSays(posted', done, k, present)
    BY <1>1, <1>2, <1>7, AppendNames
  <2> QED
    BY <1>1, <1>4, <1>5, <2>1 DEF FollowsDevice
<1> QED
  BY <1>3, <1>6, <1>7

\* hs_monitor_refresh() processes a notification.
LEMMA ProcessFollows ==
    ASSUME TypeOK, Tracked, Follows, process_arrival_notification \/ ProcessRemoval
    PROVE  Follows'
<1> DEFINE e == Head(local)
<1>1. /\ UNCHANGED <<present, msgs, posted>> /\ done' = done + 1
      /\ main = "process" /\ local # <<>>
  BY DEF process_arrival_notification, process_win32_device, ProcessRemoval, ProcessedWith, world
<1>2. /\ local \in Seq(Events) /\ posted \in Seq(Events) /\ done \in Nat
      /\ Len(local) \in Nat /\ Len(notifications) \in Nat /\ Len(posted) \in Nat
  BY LenProperties DEF TypeOK
<1>3. e \in Events /\ e = local[1] /\ Len(local) # 0
  BY <1>1, <1>2, HeadTailProperties, EmptySeq
<1>4. e = posted[done + 1] /\ done < Len(posted)
  BY <1>2, <1>3 DEF Tracked, Track
<1>5. e # WM_CLOSE /\ e.key \in Keys /\ e.event \in {"ADDED", "REMOVED"}
  BY <1>3 DEF Events, WM_CLOSE
<1> HIDE DEF e
<1>6. /\ stale \subseteq stale'
      /\ \A k \in Keys : k # e.key => (k \in table' <=> k \in table)
      /\ \/ e.key \in stale'
         \/ e.event = "ADDED" /\ e.key \in present /\ e.key \in table'
         \/ e.event = "REMOVED" /\ e.key \notin table'
  <2>1. CASE process_arrival_notification
    BY <2>1 DEF e, process_arrival_notification, process_win32_device
  <2>2. CASE ProcessRemoval
    BY <2>2 DEF e, ProcessRemoval
  <2> QED
    BY <2>1, <2>2
<1> SUFFICES ASSUME NEW k \in Keys, k \notin stale' PROVE FollowsDevice(k)'
  BY DEF Follows
<1>7. FollowsDevice(k)
  BY <1>1, <1>6 DEF Follows
<1>8. /\ Names(posted, done, k) <=> Of(e, k) \/ Names(posted, done + 1, k)
      /\ LastSays(posted, done, k, present) => LastSays(posted, done + 1, k, present)
      /\ Of(e, k) /\ ~Names(posted, done + 1, k) /\ LastSays(posted, done, k, present) =>
            (e.event = "ADDED" <=> k \in present)
  BY <1>2, <1>4, NextNames
<1>9. Of(e, k) <=> k = e.key
  BY <1>5 DEF Of
<1>10. ASSUME ~Names(msgs, 0, k), ~Names(posted, done + 1, k) PROVE k \in table' <=> k \in present
  <2>1. CASE k = e.key
    BY <1>5, <1>6, <1>7, <1>8, <1>9, <1>10, <2>1 DEF FollowsDevice
  <2>2. CASE k # e.key
    BY <1>6, <1>7, <1>8, <1>9, <1>10, <2>2 DEF FollowsDevice
  <2> QED
    BY <2>1, <2>2
<1>11. FollowsDevice(k)'
  BY <1>1, <1>7, <1>8, <1>10 DEF FollowsDevice
<1> QED
  BY <1>11

\* Follows is inductive.
LEMMA FollowsNext == TypeOK /\ Phases /\ Tracked /\ QueuesOK /\ Follows /\ [Next]_vars => Follows'
<1> SUFFICES ASSUME TypeOK, Phases, Tracked, QueuesOK, Follows, [Next]_vars PROVE Follows'
  OBVIOUS
<1> USE DEF world, shared, ghosts
<1>1. ASSUME NEW k \in Keys, DeviceChange(k) PROVE Follows'
  BY <1>1, ChangeFollows
<1>2. ASSUME UNCHANGED <<present, msgs, posted, done, table, stale>>,
             \/ main' = main
             \/ main \in {"enumerated", "waiting", "ready", "idle", "process", "cleanup"}
             \/ main' \notin {"enumerated", "waiting", "ready", "idle", "process", "cleanup"}
      PROVE  Follows'
  BY <1>2 DEF Follows, FollowsDevice
<1>3. CASE CreateWindow \/ monitor_thread
  BY <1>2, <1>3 DEF CreateWindow, monitor_thread
<1>4. CASE GetMessageFails
  <2>1. /\ UNCHANGED <<present, main, posted, done, table>>
        /\ msgs' = <<>> /\ stale' = stale \cup Keyed(msgs)
    BY <1>4 DEF GetMessageFails
  <2> SUFFICES ASSUME main \in {"enumerated", "waiting", "ready", "idle", "process", "cleanup"},
                      NEW k \in Keys, k \notin stale'
               PROVE  FollowsDevice(k)'
    BY <2>1 DEF Follows
  <2>2. FollowsDevice(k) /\ k \notin Keyed(msgs)
    BY <2>1 DEF Follows
  <2>3. ~Names(msgs, 0, k) /\ ~Names(msgs', 0, k)
    <3>1. DOMAIN msgs = 1 .. Len(msgs)
      BY LenProperties DEF TypeOK
    <3>2. ~Names(msgs, 0, k)
      BY <2>2, <3>1 DEF Keyed, Names, Of
    <3>3. 1 .. Len(<<>>) = {}
      OBVIOUS
    <3>4. ~Names(<<>>, 0, k)
      BY <3>3 DEF Names
    <3> QED
      BY <2>1, <3>2, <3>4
  <2> QED
    BY <2>1, <2>2, <2>3 DEF FollowsDevice
<1>5. CASE window_proc
  BY <1>5, PostFollows
<1>6. CASE CloseWindow
  <2>1. main \in {"join", "release", "none"} /\ UNCHANGED main
    <3>1. Len(msgs) \in Nat /\ Len(msgs) # 0 /\ Head(msgs) = msgs[1] /\ msgs[1] = WM_CLOSE
      BY <1>6, LenProperties, EmptySeq, HeadTailProperties DEF CloseWindow, TypeOK
    <3>2. 1 \in 1 .. Len(msgs)
      BY <3>1
    <3> QED
      BY <1>6, <3>1, <3>2 DEF CloseWindow, QueuesOK
  <2> QED
    BY <2>1 DEF Follows
<1>7. CASE hs_enumerate
  <2>1. /\ msgs' = <<>> /\ posted' = <<>> /\ done' = 0 /\ present' = present
        /\ table' = present \ stale'
    BY <1>7 DEF hs_enumerate, QueuesOK
  <2>2. \A k : ~Names(<<>>, 0, k)
    <3>1. 1 .. Len(<<>>) = {}
      OBVIOUS
    <3> QED
      BY <3>1 DEF Names
  <2> QED
    BY <2>1, <2>2 DEF Follows, FollowsDevice
<1>8. CASE hs_monitor_new \/ wait_event \/ MonitorReady
  BY <1>2, <1>8 DEF hs_monitor_new, wait_event, MonitorReady
<1>9. CASE \/ hs_monitor_free \/ ReleaseMonitor \/ ArrivalOfMissingDevice
           \/ WaitFails \/ JoinFails
  <2>1. main' \in {"free", "join", "release", "none", "crashed"}
    BY <1>9 DEF hs_monitor_free, ReleaseMonitor, ArrivalOfMissingDevice, WaitFails, JoinFails
  <2> QED
    BY <2>1 DEF Follows
<1>10. CASE hs_monitor_refresh \/ RefreshReturns
  BY <1>2, <1>10 DEF hs_monitor_refresh, RefreshReturns
<1>11. CASE process_arrival_notification \/ ProcessRemoval
  BY <1>11, ProcessFollows
<1>12. CASE UNCHANGED vars
  BY <1>2, <1>12 DEF vars
<1>13. CASE ThreadStartFails
  <2>1. UNCHANGED <<present, posted, done, table, stale, main>> /\ msgs' = <<>>
    BY <1>13 DEF ThreadStartFails
  <2>2. CASE main \in {"join", "release", "none"}
    BY <2>1, <2>2 DEF Follows
  <2>3. CASE msgs = <<>>
    BY <1>2, <2>1, <2>3
  <2> QED
    BY <1>13, <2>2, <2>3 DEF ThreadStartFails, At, QueuesOK
<1> QED
  BY <1>1, <1>3, <1>4, <1>5, <1>6, <1>7, <1>8, <1>9, <1>10, <1>11, <1>12, <1>13
     DEF Next, Thread, InCall, Application

-----------------------------------------------------------------------------
(* The theorems. *)

\* The inductive invariant holds at the start.
LEMMA InvInit == Init => TypeOK /\ Phases /\ Shown /\ Tracked
<1> SUFFICES ASSUME Init PROVE TypeOK /\ Phases /\ Shown /\ Tracked
  OBVIOUS
<1>1. TypeOK
  BY TypeInit
<1>2. Phases /\ Shown
  BY DEF Init, Phases, Shown, Refreshing
<1>3. Tracked
  <2>1. local = <<>> /\ notifications = <<>> /\ posted = <<>> /\ done = 0
    BY DEF Init
  <2> QED
    BY <2>1 DEF Tracked, Track
<1> QED
  BY <1>1, <1>2, <1>3

\* The inductive invariant holds in every state.
LEMMA InvAlways == Spec => [](TypeOK /\ Phases /\ Shown /\ Tracked)
<1>1. TypeOK /\ Phases /\ Shown /\ Tracked /\ [Next]_vars
        => (TypeOK /\ Phases /\ Shown /\ Tracked)'
  BY TypeNext, PhasesNext, ShownNext, TrackedNext
<1> QED
  BY <1>1, InvInit, PTL DEF Spec

\* TypeOK holds in every reachable state; that no more notifications are processed
\* than were posted depends on the order in which they are handed over.
THEOREM TypeCorrect == Spec => []TypeOK
BY InvAlways, PTL

\* hs_monitor_refresh() processes the posted notifications in order, none twice and
\* none left out, whenever an error stops it.
THEOREM NotificationsCorrect == Spec => []NotificationsInOrder
<1>1. ASSUME TypeOK, Tracked PROVE NotificationsInOrder
  <2>1. /\ local \in Seq(Events) /\ notifications \in Seq(Events)
        /\ posted \in Seq(Events) /\ done \in Nat
    BY <1>1 DEF TypeOK
  <2> QED
    BY <1>1, <2>1, TrackConcat DEF Tracked, NotificationsInOrder
<1> QED
  BY <1>1, InvAlways, PTL

\* Once a refresh has emptied the list, the event is set whenever a notification
\* is waiting.
THEOREM EventCorrect == Spec => []PendingSignalled
<1>1. Shown => PendingSignalled
  BY DEF Shown, PendingSignalled
<1> QED
  BY <1>1, InvAlways, PTL

\* hs_monitor_free() leaves no thread behind that uses the monitor, unless a call of
\* WaitForSingleObject() has failed.
THEOREM FreeCorrect == Spec => []ThreadDoneBeforeFree
<1>1. TypeOK /\ Phases => ThreadDoneBeforeFree
  BY DEF TypeOK, Phases, ThreadDoneBeforeFree
<1> QED
  BY <1>1, InvAlways, PTL

\* When nothing is on its way, the table is right for every device whose changes
\* were all notified and that was not skipped, in whatever way the threads
\* alternate and errors occur.
THEOREM ConvergesCorrect == Spec => []Converges
<1>1. Init => QueuesOK /\ Follows
  BY DEF Init, QueuesOK, Follows
<1>2. TypeOK /\ Phases /\ Tracked /\ QueuesOK /\ Follows /\ [Next]_vars => (QueuesOK /\ Follows)'
  BY QueuesNext, FollowsNext
<1>3. ASSUME TypeOK, Phases, Tracked, Follows PROVE Converges
  <2> SUFFICES ASSUME main = "idle", msgs = <<>>, notifications = <<>>,
                      NEW k \in Keys \ stale
               PROVE  k \in table <=> k \in present
    BY DEF Converges
  <2>1. local = <<>> /\ Len(<<>>) = 0
    BY <1>3 DEF Phases, Refreshing
  <2>2. done + 1 .. Len(posted) = {} /\ 0 + 1 .. Len(msgs) = {}
    <3>1. done \in Nat /\ Len(posted) \in Nat
      BY <1>3, LenProperties DEF TypeOK
    <3>2. Len(posted) = done
      BY <1>3, <2>1, <3>1 DEF Tracked, Track
    <3> QED
      BY <2>1, <3>1, <3>2
  <2>3. ~Names(msgs, 0, k) /\ ~Names(posted, done, k)
    BY <2>2 DEF Names
  <2> QED
    BY <1>3, <2>3 DEF Follows, FollowsDevice
<1> QED
  BY <1>1, <1>2, <1>3, InvAlways, PTL DEF Spec

=============================================================================
