-------------------------- MODULE HidDarwinProofs --------------------------
(***************************************************************************)
(* Theorems about the module HidDarwin, for every pool size, every number  *)
(* of reports and every set of timeouts.                                   *)
(***************************************************************************)
EXTENDS HidDarwin, SequenceTheorems, TLAPS

\* The device thread exists only while the handle does, and from its start on
\* it can be stopped through the shutdown source.
Phases ==
    /\ app.pc = "closed" => thread_ret = 0
    /\ thread = "created" => app.pc = "opening" /\ thread_ret = 0
    /\ thread \in {"starting", "running", "fire", "stopped"}
          => shutdown # "none" /\ app.pc \notin {"closed", "free"}

\* A report that waits is signalled in every phase of the handle; the error of
\* the report callback once the opener has consumed the start-up result.
Wakeup ==
    /\ reports # <<>> => Signalled
    /\ InUse /\ thread_ret < 0 => Signalled

\* Two bytes in the pipe, the one the thread is about to write included.
SignalledTwice == bytes > 1 \/ (bytes > 0 /\ thread = "fire")

\* The removal adds a signal of its own: a reader that saw the device before it
\* was removed may still take one signal, and only for a report or an error that
\* had one.
Removal ==
    /\ InUse \/ app.pc = "opening" => (~hid => Signalled)
    /\ app.pc \in {"poll", "read"} /\ (reports # <<>> \/ thread_ret < 0)
          => (~hid => SignalledTwice)
    /\ thread = "created" => hid

IInv == TypeOK /\ Phases /\ Wakeup /\ Removal

-----------------------------------------------------------------------------
\* Taking the first report leaves one less.
LEMMA TailLength ==
    ASSUME NEW s \in Seq(Nat), s # <<>>
    PROVE  Len(s) \in Nat /\ Len(Tail(s)) = Len(s) - 1
BY HeadTailProperties, LenProperties

\* The types hold of a handle that was never opened.
LEMMA TypeInit == Init => TypeOK
<1> SUFFICES ASSUME Init PROVE TypeOK
  OBVIOUS
<1>1. app \in Calls
  BY DEF Init, Calls
<1>2. reports \in Seq(Nat)
  BY DEF Init
<1> QED
  BY <1>1, <1>2 DEF Init, TypeOK

\* Every step of either thread keeps the types.
LEMMA TypeNext == TypeOK /\ [Next]_vars => TypeOK'
<1> SUFFICES ASSUME TypeOK, [Next]_vars PROVE TypeOK'
  OBVIOUS
<1> USE DEF TypeOK, queueVars, runVars
<1>1. CASE open_hid_device
  <2>1. app' \in Calls
    BY <1>1 DEF Calls, NoResult, open_hid_device
  <2> QED
    BY <1>1, <2>1 DEF open_hid_device
<1>2. CASE device_thread_start
  BY <1>2 DEF device_thread_start, StartFails
<1>3. CASE OpenReturns
  <2>1. app' \in Calls
    BY <1>3 DEF Calls, NoResult, OpenReturns
  <2> QED
    BY <1>3, <2>1 DEF OpenReturns
<1>4. CASE CFRunLoopRun
  BY <1>4 DEF CFRunLoopRun
<1>5. CASE hid_report_callback
  <2>1. reports' \in Seq(Nat)
    <3>1. reports' \in {reports, Append(reports, arrived + 1)}
      BY <1>5 DEF hid_report_callback, Enqueue
    <3>2. Append(reports, arrived + 1) \in Seq(Nat)
      BY AppendProperties
    <3> QED
      BY <3>1, <3>2
  <2> QED
    BY <1>5, <2>1 DEF hid_report_callback, FireIf, Take
<1>6. CASE hid_removal_callback
  BY <1>6 DEF hid_removal_callback, RemovalFires, FireIf
<1>7. CASE fire_device_event
  BY <1>7 DEF fire_device_event
<1>8. CASE CFRunLoopStop
  BY <1>8 DEF CFRunLoopStop
<1>9. CASE device_thread_end
  BY <1>9 DEF device_thread_end
<1>10. ASSUME NEW t \in Timeouts, hs_hid_read(t) PROVE TypeOK'
  <2>1. app' \in Calls
    BY <1>10 DEF Calls, NoResult, hs_hid_read
  <2> QED
    BY <1>10, <2>1 DEF hs_hid_read
<1>11. CASE PollReturns
  <2>1. app' \in Calls
    BY <1>11 DEF Calls, NoResult, PollReturns, Goto, Answer
  <2> QED
    BY <1>11, <2>1 DEF PollReturns, Goto, Answer
<1>12. CASE ReadReport
  <2>1. app' \in Calls
    BY <1>12 DEF Calls, NoResult, ReadReport, Answer, NothingToRead, reset_device_event
  <2>2. reports' \in Seq(Nat) /\ last' \in Nat
    <3>1. \/ reports' = reports /\ last' = last
          \/ reports # <<>> /\ reports' = Tail(reports) /\ last' = Head(reports)
      BY <1>12 DEF ReadReport
    <3>2. reports # <<>> => Tail(reports) \in Seq(Nat) /\ Head(reports) \in Nat
      BY HeadTailProperties
    <3> QED
      BY <3>1, <3>2
  <2>3. bytes' \in Nat
    BY <1>12 DEF ReadReport, NothingToRead, reset_device_event
  <2>4. thread_ret' \in {-1, 0, 1} /\ free' \in Nat
    BY <1>12 DEF ReadReport
  <2> QED
    BY <1>12, <2>1, <2>2, <2>3, <2>4 DEF ReadReport
<1>13. CASE send_report
  <2>1. app' \in Calls
    BY <1>13 DEF Calls, NoResult, send_report
  <2> QED
    BY <1>13, <2>1 DEF send_report
<1>14. CASE IOHIDDeviceSetReport
  <2>1. app' \in Calls
    BY <1>14 DEF Calls, NoResult, IOHIDDeviceSetReport, Answer
  <2> QED
    BY <1>14, <2>1 DEF IOHIDDeviceSetReport, Answer
<1>15. CASE hs_hid_get_feature_report
  <2>1. app' \in Calls
    BY <1>15 DEF Calls, NoResult, hs_hid_get_feature_report
  <2> QED
    BY <1>15, <2>1 DEF hs_hid_get_feature_report
<1>16. CASE hs_handle_close
  <2>1. app' \in Calls
    BY <1>16 DEF Calls, NoResult, hs_handle_close
  <2> QED
    BY <1>16, <2>1 DEF hs_handle_close
<1>17. CASE close_hid_device
  <2>1. app' \in Calls
    BY <1>17 DEF Calls, NoResult, close_hid_device, StopThread, Goto
  <2> QED
    BY <1>17, <2>1 DEF close_hid_device, StopThread, Goto
<1>18. CASE ReleaseHandle
  <2>1. app' \in Calls
    BY <1>18 DEF Calls, NoResult, ReleaseHandle, Goto, pthread_join
  <2>2. reports' \in Seq(Nat)
    BY <1>18 DEF ReleaseHandle
  <2> QED
    BY <1>18, <2>1, <2>2 DEF ReleaseHandle
<1>19. CASE UNCHANGED vars
  BY <1>19 DEF vars
<1> QED
  BY <1>1, <1>2, <1>3, <1>4, <1>5, <1>6, <1>7, <1>8, <1>9, <1>10, <1>11, <1>12, <1>13,
     <1>14, <1>15, <1>16, <1>17, <1>18, <1>19 DEF Next, Thread, InCall, Application

\* Phases is inductive.
LEMMA PhasesNext == TypeOK /\ Phases /\ [Next]_vars => Phases'
<1> SUFFICES ASSUME TypeOK, Phases, [Next]_vars PROVE Phases'
  OBVIOUS
<1> USE DEF TypeOK, Calls, Phases, runVars
<1>1. CASE open_hid_device
  BY <1>1 DEF open_hid_device
<1>2. CASE device_thread_start
  BY <1>2 DEF device_thread_start, StartFails
<1>3. CASE OpenReturns
  BY <1>3 DEF OpenReturns
<1>4. CASE CFRunLoopRun
  BY <1>4 DEF CFRunLoopRun
<1>5. CASE hid_report_callback
  BY <1>5 DEF hid_report_callback, FireIf
<1>6. CASE hid_removal_callback
  BY <1>6 DEF hid_removal_callback, RemovalFires, FireIf
<1>7. CASE fire_device_event
  BY <1>7 DEF fire_device_event
<1>8. CASE CFRunLoopStop
  BY <1>8 DEF CFRunLoopStop
<1>9. CASE device_thread_end
  BY <1>9 DEF device_thread_end
<1>10. ASSUME NEW t \in Timeouts, hs_hid_read(t) PROVE Phases'
  BY <1>10 DEF hs_hid_read
<1>11. CASE PollReturns
  BY <1>11 DEF PollReturns, Goto, Answer
<1>12. CASE ReadReport
  BY <1>12 DEF ReadReport, Answer
<1>13. CASE send_report
  BY <1>13 DEF send_report
<1>14. CASE IOHIDDeviceSetReport
  BY <1>14 DEF IOHIDDeviceSetReport, Answer
<1>15. CASE hs_hid_get_feature_report
  BY <1>15 DEF hs_hid_get_feature_report
<1>16. CASE hs_handle_close
  BY <1>16 DEF hs_handle_close
<1>17. CASE close_hid_device
  BY <1>17 DEF close_hid_device, StopThread, Goto
<1>18. CASE ReleaseHandle
  BY <1>18 DEF ReleaseHandle, Goto, pthread_join
<1>19. CASE UNCHANGED vars
  BY <1>19 DEF vars
<1> QED
  BY <1>1, <1>2, <1>3, <1>4, <1>5, <1>6, <1>7, <1>8, <1>9, <1>10, <1>11, <1>12, <1>13,
     <1>14, <1>15, <1>16, <1>17, <1>18, <1>19 DEF Next, Thread, InCall, Application

\* PoolBound is inductive.
LEMMA PoolNext == TypeOK /\ PoolBound /\ [Next]_vars => PoolBound'
<1> SUFFICES ASSUME TypeOK, PoolBound, [Next]_vars PROVE PoolBound'
  OBVIOUS
<1> USE DEF TypeOK, PoolBound, queueVars
<1>1. CASE open_hid_device
  BY <1>1 DEF open_hid_device
<1>2. CASE device_thread_start
  BY <1>2 DEF device_thread_start, StartFails
<1>3. CASE OpenReturns
  BY <1>3 DEF OpenReturns
<1>4. CASE CFRunLoopRun
  BY <1>4 DEF CFRunLoopRun
<1>5. CASE hid_report_callback
  <2>1. CASE Take /\ Enqueue(arrived + 1)
    <3>1. Len(reports') = Len(reports) + 1
      BY <2>1 DEF Enqueue
    <3> QED
      BY <2>1, <3>1, HidDarwinAssumption DEF Take
  <2>2. CASE UNCHANGED queueVars
    BY <2>2
  <2> QED
    BY <1>5, <2>1, <2>2 DEF hid_report_callback
<1>6. CASE hid_removal_callback
  BY <1>6 DEF hid_removal_callback, RemovalFires, FireIf
<1>7. CASE fire_device_event
  BY <1>7 DEF fire_device_event
<1>8. CASE CFRunLoopStop
  BY <1>8 DEF CFRunLoopStop
<1>9. CASE device_thread_end
  BY <1>9 DEF device_thread_end
<1>10. ASSUME NEW t \in Timeouts, hs_hid_read(t) PROVE PoolBound'
  BY <1>10 DEF hs_hid_read
<1>11. CASE PollReturns
  BY <1>11 DEF PollReturns, Goto, Answer
<1>12. CASE ReadReport
  <2>1. CASE UNCHANGED <<reports, free>>
    BY <1>12, <2>1 DEF ReadReport
  <2>2. CASE reports # <<>> /\ reports' = Tail(reports) /\ free' = free + 1
    <3>1. Len(reports') = Len(reports) - 1 /\ Len(reports) \in Nat
      <4>1. reports \in Seq(Nat) /\ reports # <<>> /\ reports' = Tail(reports)
        BY <2>2
      <4> HIDE DEF TypeOK, PoolBound
      <4> QED
        BY ONLY <4>1, TailLength
    <3>2. allocated' = allocated
      BY <1>12 DEF ReadReport
    <3>3. free \in Nat /\ allocated \in Nat /\ MaxReports \in Nat
      BY HidDarwinAssumption
    <3> HIDE DEF TypeOK
    <3> QED
      BY <2>2, <3>1, <3>2, <3>3
  <2> QED
    BY <1>12, <2>1, <2>2 DEF ReadReport
<1>13. CASE send_report
  BY <1>13 DEF send_report
<1>14. CASE IOHIDDeviceSetReport
  BY <1>14 DEF IOHIDDeviceSetReport, Answer
<1>15. CASE hs_hid_get_feature_report
  BY <1>15 DEF hs_hid_get_feature_report
<1>16. CASE hs_handle_close
  BY <1>16 DEF hs_handle_close
<1>17. CASE close_hid_device
  BY <1>17 DEF close_hid_device, StopThread, Goto
<1>18. CASE ReleaseHandle
  <2>1. reports' = <<>> /\ free' = 0 /\ allocated' = 0
    BY <1>18 DEF ReleaseHandle
  <2> QED
    BY <2>1, HidDarwinAssumption
<1>19. CASE UNCHANGED vars
  BY <1>19 DEF vars
<1> QED
  BY <1>1, <1>2, <1>3, <1>4, <1>5, <1>6, <1>7, <1>8, <1>9, <1>10, <1>11, <1>12, <1>13,
     <1>14, <1>15, <1>16, <1>17, <1>18, <1>19 DEF Next, Thread, InCall, Application

\* Wakeup is inductive.
LEMMA WakeupNext == TypeOK /\ Phases /\ Wakeup /\ [Next]_vars => Wakeup'
<1> SUFFICES ASSUME TypeOK, Phases, Wakeup, [Next]_vars PROVE Wakeup'
  OBVIOUS
<1> USE DEF TypeOK, Calls, Phases, Wakeup, Signalled, InUse, queueVars
<1>1. CASE open_hid_device
  BY <1>1 DEF open_hid_device
<1>2. CASE device_thread_start
  BY <1>2 DEF device_thread_start, StartFails
<1>3. CASE OpenReturns
  BY <1>3 DEF OpenReturns
<1>4. CASE CFRunLoopRun
  BY <1>4 DEF CFRunLoopRun
<1>5. CASE hid_report_callback
  BY <1>5 DEF hid_report_callback, FireIf, Take, Enqueue
<1>6. CASE hid_removal_callback
  BY <1>6 DEF hid_removal_callback, RemovalFires, FireIf
<1>7. CASE fire_device_event
  BY <1>7 DEF fire_device_event
<1>8. CASE CFRunLoopStop
  BY <1>8 DEF CFRunLoopStop
<1>9. CASE device_thread_end
  BY <1>9 DEF device_thread_end
<1>10. ASSUME NEW t \in Timeouts, hs_hid_read(t) PROVE Wakeup'
  BY <1>10 DEF hs_hid_read
<1>11. CASE PollReturns
  BY <1>11 DEF PollReturns, Goto, Answer
<1>12. CASE ReadReport
  <2>1. CASE thread_ret < 0
    <3>1. /\ thread' = thread /\ thread_ret' = 0 /\ reports' = reports
          /\ reset_device_event(reports)
      BY <1>12, <2>1 DEF ReadReport
    <3>2. reports' # <<>> => bytes' = bytes
      BY <3>1 DEF reset_device_event
    <3> QED
      BY <3>1, <3>2
  <2>2. CASE thread_ret >= 0 /\ reports = <<>>
    BY <1>12, <2>2 DEF ReadReport, Answer
  <2>3. CASE thread_ret >= 0 /\ reports # <<>>
    <3>1. /\ thread' = thread /\ thread_ret' = thread_ret /\ reports' = Tail(reports)
          /\ reset_device_event(Tail(reports))
      BY <1>12, <2>3 DEF ReadReport
    <3>2. reports' # <<>> => bytes' = bytes
      BY <3>1 DEF reset_device_event
    <3> QED
      BY <2>3, <3>1, <3>2
  <2> QED
    BY <2>1, <2>2, <2>3
<1>13. CASE send_report
  BY <1>13 DEF send_report
<1>14. CASE IOHIDDeviceSetReport
  BY <1>14 DEF IOHIDDeviceSetReport, Answer
<1>15. CASE hs_hid_get_feature_report
  BY <1>15 DEF hs_hid_get_feature_report
<1>16. CASE hs_handle_close
  BY <1>16 DEF hs_handle_close
<1>17. CASE close_hid_device
  BY <1>17 DEF close_hid_device, StopThread, Goto
<1>18. CASE ReleaseHandle
  BY <1>18 DEF ReleaseHandle, Goto, pthread_join
<1>19. CASE UNCHANGED vars
  BY <1>19 DEF vars
<1> QED
  BY <1>1, <1>2, <1>3, <1>4, <1>5, <1>6, <1>7, <1>8, <1>9, <1>10, <1>11, <1>12, <1>13,
     <1>14, <1>15, <1>16, <1>17, <1>18, <1>19 DEF Next, Thread, InCall, Application

\* Reading a report takes one byte from the pipe at most.
LEMMA ReadTakesOneByte ==
    ASSUME TypeOK, ReadReport, thread_ret >= 0, reports # <<>>
    PROVE  bytes' \in Nat /\ bytes' >= bytes - 1
<1>1. bytes \in Nat /\ thread_ret \in Int
  BY DEF TypeOK
<1>2. reset_device_event(Tail(reports))
  BY <1>1 DEF ReadReport
<1> QED
  BY <1>1, <1>2 DEF reset_device_event

\* Removal is inductive.
LEMMA RemovalNext == TypeOK /\ Phases /\ Wakeup /\ Removal /\ [Next]_vars => Removal'
<1> SUFFICES ASSUME TypeOK, Phases, Wakeup, Removal, [Next]_vars PROVE Removal'
  OBVIOUS
<1> USE DEF TypeOK, Calls, Phases, Wakeup, Removal, Signalled, SignalledTwice, InUse, queueVars
<1>1. CASE open_hid_device
  BY <1>1 DEF open_hid_device
<1>2. CASE device_thread_start
  BY <1>2 DEF device_thread_start, StartFails
<1>3. CASE OpenReturns
  BY <1>3 DEF OpenReturns
<1>4. CASE CFRunLoopRun
  BY <1>4 DEF CFRunLoopRun
<1>5. CASE hid_report_callback
  BY <1>5 DEF hid_report_callback, FireIf, Take, Enqueue
<1>6. CASE hid_removal_callback
  BY <1>6 DEF hid_removal_callback, RemovalFires, FireIf
<1>7. CASE fire_device_event
  BY <1>7 DEF fire_device_event
<1>8. CASE CFRunLoopStop
  BY <1>8 DEF CFRunLoopStop
<1>9. CASE device_thread_end
  BY <1>9 DEF device_thread_end
<1>10. ASSUME NEW t \in Timeouts, hs_hid_read(t) PROVE Removal'
  BY <1>10 DEF hs_hid_read
<1>11. CASE PollReturns
  BY <1>11 DEF PollReturns, Goto, Answer
<1>12. CASE ReadReport
  <2>1. CASE thread_ret < 0
    BY <1>12, <2>1 DEF ReadReport, Answer, reset_device_event
  <2>2. CASE thread_ret >= 0 /\ reports = <<>>
    BY <1>12, <2>2 DEF ReadReport, Answer, NothingToRead
  <2>3. CASE thread_ret >= 0 /\ reports # <<>>
    <3>1. app'.pc = "open" /\ hid' = hid /\ thread' = thread
      BY <1>12, <2>3 DEF ReadReport, Answer
    <3>2. bytes' \in Nat /\ bytes' >= bytes - 1
      BY <1>12, <2>3, ReadTakesOneByte
    <3>3. app.pc = "read"
      BY <1>12 DEF ReadReport
    <3> QED
      BY <2>3, <3>1, <3>2, <3>3
  <2> QED
    BY <2>1, <2>2, <2>3
<1>13. CASE send_report
  BY <1>13 DEF send_report
<1>14. CASE IOHIDDeviceSetReport
  BY <1>14 DEF IOHIDDeviceSetReport, Answer
<1>15. CASE hs_hid_get_feature_report
  BY <1>15 DEF hs_hid_get_feature_report
<1>16. CASE hs_handle_close
  BY <1>16 DEF hs_handle_close
<1>17. CASE close_hid_device
  BY <1>17 DEF close_hid_device, StopThread, Goto
<1>18. CASE ReleaseHandle
  BY <1>18 DEF ReleaseHandle, Goto, pthread_join
<1>19. CASE UNCHANGED vars
  BY <1>19 DEF vars
<1> QED
  BY <1>1, <1>2, <1>3, <1>4, <1>5, <1>6, <1>7, <1>8, <1>9, <1>10, <1>11, <1>12, <1>13,
     <1>14, <1>15, <1>16, <1>17, <1>18, <1>19 DEF Next, Thread, InCall, Application

\* No report that was read comes from the future.
Order == InOrder /\ last <= arrived

\* Order is inductive: reports enter at the end, with the highest number, and
\* leave at the front.
LEMMA OrderNext == TypeOK /\ Order /\ [Next]_vars => Order'
<1> SUFFICES ASSUME TypeOK, Order, [Next]_vars PROVE Order'
  OBVIOUS
<1>1. reports \in Seq(Nat) /\ arrived \in Nat /\ last \in Nat
  BY DEF TypeOK
<1>2. CASE UNCHANGED <<reports, last, arrived>>
  BY <1>2 DEF Order, InOrder
<1>3. CASE hid_report_callback
  <2>1. arrived' = arrived + 1 /\ last' = last
    BY <1>3 DEF hid_report_callback
  <2>2. CASE UNCHANGED reports
    BY <1>1, <2>1, <2>2 DEF Order, InOrder
  <2>3. CASE Enqueue(arrived + 1)
    <3>1. /\ Len(reports') = Len(reports) + 1
          /\ \A i \in 1 .. Len(reports) : reports'[i] = reports[i] /\ reports[i] \in Nat
          /\ reports'[Len(reports) + 1] = arrived + 1
      BY <1>1, <2>3 DEF Enqueue
    <3>2. Len(reports) \in Nat
      BY <1>1, LenProperties
    <3>3. \A i \in 1 .. Len(reports') : i \in 1 .. Len(reports) \/ i = Len(reports) + 1
      BY <3>1, <3>2
    <3>4. \A i \in 1 .. Len(reports') : last < reports'[i] /\ reports'[i] <= arrived + 1
      <4> SUFFICES ASSUME NEW i \in 1 .. Len(reports')
                   PROVE  last < reports'[i] /\ reports'[i] <= arrived + 1
        OBVIOUS
      <4>1. CASE i \in 1 .. Len(reports)
        <5>1. last < reports[i] /\ reports[i] <= arrived /\ reports[i] \in Nat
          BY <3>1, <4>1 DEF Order, InOrder
        <5>2. reports'[i] = reports[i]
          BY <3>1, <4>1
        <5> QED
          BY <1>1, <5>1, <5>2
      <4>2. CASE i = Len(reports) + 1
        BY <1>1, <3>1, <4>2 DEF Order
      <4> QED
        BY <3>3, <4>1, <4>2
    <3>5. \A i, j \in 1 .. Len(reports') : i < j => reports'[i] < reports'[j]
      <4> SUFFICES ASSUME NEW i \in 1 .. Len(reports'), NEW j \in 1 .. Len(reports'), i < j
                   PROVE  reports'[i] < reports'[j]
        OBVIOUS
      <4>1. i \in 1 .. Len(reports)
        BY <3>1, <3>2
      <4>2. CASE j \in 1 .. Len(reports)
        BY <3>1, <4>1, <4>2 DEF Order, InOrder
      <4>3. CASE j = Len(reports) + 1
        BY <1>1, <3>1, <4>1, <4>3 DEF Order, InOrder
      <4> QED
        BY <3>3, <4>2, <4>3
    <3> QED
      BY <1>1, <2>1, <3>4, <3>5 DEF Order, InOrder
  <2> QED
    BY <1>3, <2>2, <2>3 DEF hid_report_callback, queueVars
<1>4. CASE ReadReport
  <2>1. CASE UNCHANGED <<reports, last>>
    BY <1>2, <1>4, <2>1 DEF ReadReport
  <2>2. CASE reports # <<>> /\ reports' = Tail(reports) /\ last' = Head(reports)
    <3>1. /\ Len(reports') = Len(reports) - 1
          /\ Len(reports) \in Nat
          /\ \A i \in 1 .. Len(reports) - 1 : reports'[i] = reports[i + 1]
          /\ last' = reports[1]
          /\ 1 \in 1 .. Len(reports)
          /\ \A i \in 1 .. Len(reports) : reports[i] \in Nat
      BY <1>1, <2>2, HeadTailProperties, LenProperties, EmptySeq
    <3>2. arrived' = arrived
      BY <1>4 DEF ReadReport
    <3>3. \A i \in 1 .. Len(reports') : i + 1 \in 1 .. Len(reports)
      BY <3>1
    <3>4. \A i \in 1 .. Len(reports') : last' < reports'[i] /\ reports'[i] <= arrived
      <4> SUFFICES ASSUME NEW i \in 1 .. Len(reports')
                   PROVE  last' < reports'[i] /\ reports'[i] <= arrived
        OBVIOUS
      <4>1. i + 1 \in 1 .. Len(reports) /\ 1 < i + 1 /\ reports'[i] = reports[i + 1]
        BY <3>1, <3>3
      <4> QED
        BY <3>1, <4>1 DEF Order, InOrder
    <3>5. \A i, j \in 1 .. Len(reports') : i < j => reports'[i] < reports'[j]
      <4> SUFFICES ASSUME NEW i \in 1 .. Len(reports'), NEW j \in 1 .. Len(reports'), i < j
                   PROVE  reports'[i] < reports'[j]
        OBVIOUS
      <4>1. i + 1 \in 1 .. Len(reports) /\ reports'[i] = reports[i + 1]
        BY <3>1, <3>3
      <4>2. j + 1 \in 1 .. Len(reports) /\ reports'[j] = reports[j + 1]
        BY <3>1, <3>3
      <4>3. i + 1 < j + 1
        BY <3>1
      <4> QED
        BY <4>1, <4>2, <4>3 DEF Order, InOrder
    <3>6. last' <= arrived
      BY <3>1 DEF Order, InOrder
    <3> QED
      BY <3>2, <3>4, <3>5, <3>6 DEF Order, InOrder
  <2> QED
    BY <1>4, <2>1, <2>2 DEF ReadReport
<1>5. CASE ReleaseHandle
  BY <1>5 DEF ReleaseHandle, Order, InOrder
<1>6. CASE \E t \in Timeouts : hs_hid_read(t)
  BY <1>2, <1>6 DEF hs_hid_read, queueVars
<1>7. CASE device_thread_start \/ CFRunLoopRun \/ hid_removal_callback
           \/ fire_device_event \/ CFRunLoopStop \/ device_thread_end
  BY <1>2, <1>7 DEF device_thread_start, CFRunLoopRun, hid_removal_callback,
     fire_device_event, CFRunLoopStop, device_thread_end, queueVars
<1>8. CASE open_hid_device \/ OpenReturns \/ PollReturns \/ send_report
           \/ IOHIDDeviceSetReport \/ hs_hid_get_feature_report
           \/ hs_handle_close \/ close_hid_device \/ UNCHANGED vars
  BY <1>2, <1>8 DEF open_hid_device, OpenReturns, PollReturns, send_report,
     IOHIDDeviceSetReport, hs_hid_get_feature_report, hs_handle_close,
     close_hid_device, queueVars, vars
<1> QED
  BY <1>3, <1>4, <1>5, <1>6, <1>7, <1>8 DEF Next, Thread, InCall, Application

-----------------------------------------------------------------------------
(* The theorems. *)

\* The inductive invariant holds at the start.
LEMMA InvInit == Init => IInv /\ PoolBound /\ Order
<1> SUFFICES ASSUME Init PROVE IInv /\ PoolBound /\ Order
  OBVIOUS
<1>1. TypeOK
  BY TypeInit
<1>2. Phases /\ Wakeup /\ Removal
  BY DEF Init, Phases, Wakeup, Removal, InUse
<1>3. PoolBound
  <2>1. reports = <<>> /\ free = 0 /\ allocated = 0
    BY DEF Init
  <2> QED
    BY <2>1, HidDarwinAssumption DEF PoolBound
<1>4. Order
  BY DEF Init, Order, InOrder
<1> QED
  BY <1>1, <1>2, <1>3, <1>4 DEF IInv

\* TypeOK holds in every reachable state.
THEOREM TypeCorrect == Spec => []TypeOK
<1>1. Init => TypeOK
  BY TypeInit
<1>2. TypeOK /\ [Next]_vars => TypeOK'
  BY TypeNext
<1> QED
  BY <1>1, <1>2, PTL DEF Spec

\* The inductive invariant holds in every state.
LEMMA InvAlways == Spec => []IInv
<1>1. Init => IInv
  BY InvInit
<1>2. IInv /\ [Next]_vars => IInv'
  BY TypeNext, PhasesNext, WakeupNext, RemovalNext DEF IInv
<1> QED
  BY <1>1, <1>2, PTL DEF Spec

\* Reports and errors of the report callback always show on the descriptor of a
\* handle in use: fire_device_event(), outside the mutex, loses no wakeup.
THEOREM WakeupCorrect == Spec => []NoLostWakeup
<1>1. IInv => NoLostWakeup
  BY DEF IInv, Wakeup, NoLostWakeup
<1> QED
  BY <1>1, InvAlways, PTL

\* The removal always shows on the descriptor of a handle in use.
THEOREM RemovalCorrect == Spec => []RemovalSignalled
<1>1. IInv => RemovalSignalled
  BY DEF IInv, Removal, RemovalSignalled
<1> QED
  BY <1>1, InvAlways, PTL

\* The device thread has ended before close_hid_device() frees the handle.
THEOREM CloseCorrect == Spec => []ThreadDoneBeforeFree
<1>1. IInv => ThreadDoneBeforeFree
  BY DEF IInv, TypeOK, Phases, ThreadDoneBeforeFree
<1> QED
  BY <1>1, InvAlways, PTL

\* The pool of reports keeps to its limit and loses no report, whatever the limit.
THEOREM PoolCorrect == Spec => []PoolBound
<1>1. Init => PoolBound
  BY InvInit
<1>2. TypeOK /\ PoolBound /\ [Next]_vars => PoolBound'
  BY PoolNext
<1> QED
  BY <1>1, <1>2, TypeCorrect, PTL DEF Spec

\* Reports are read in order and none is read twice.
THEOREM OrderCorrect == Spec => []InOrder
<1>1. Init => Order
  BY InvInit
<1>2. TypeOK /\ Order /\ [Next]_vars => Order'
  BY OrderNext
<1>3. Order => InOrder
  BY DEF Order
<1> QED
  BY <1>1, <1>2, <1>3, TypeCorrect, PTL DEF Spec

\* The queue of reports keeps its limit and its order, for every limit.
THEOREM ReportsCorrect == Spec => []ReportsRight
BY PoolCorrect, OrderCorrect, PTL DEF ReportsRight

=============================================================================
