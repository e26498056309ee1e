--------------------------- MODULE MonitorWin32 ----------------------------
(***************************************************************************)
(* The device monitor of Windows (monitor_win32.c): a background thread    *)
(* owns a window, takes device messages from its message queue and puts    *)
(* them on a list of notifications; the application polls a manual-reset   *)
(* event and calls hs_monitor_refresh(), which works the list off.         *)
(*                                                                         *)
(* Sections under monitor->mutex are one step.  The table of devices and   *)
(* the callbacks are those of the module Monitor; here the table is the    *)
(* set of the keys it holds.  A device has one interface, and its key is   *)
(* its device instance id, which extract_device_id() gets back from the    *)
(* name in the message.                                                    *)
(***************************************************************************)
EXTENDS Integers, Sequences

CONSTANTS
    Keys,       \* devices that are plugged and unplugged
    MaxChanges, \* bound: arrivals and removals
    MayFail     \* TRUE: memory, calls of the system and callbacks may fail

ASSUME MonitorWin32Assumption == MaxChanges \in Nat /\ MayFail \in BOOLEAN

VARIABLES
    present,       \* devices that are plugged in
    changes,       \* arrivals and removals so far
    msgs,          \* message queue of the monitor's window
    thread,        \* where the background thread is
    hwnd,          \* monitor->hwnd is not NULL
    notifications, \* monitor->notifications
    event,         \* monitor->event is set
    ret,           \* monitor->ret
    table,         \* keys in monitor->devices
    main,          \* where the application's thread is in the library
    local,         \* the list of hs_monitor_refresh()
    posted,        \* every notification posted so far
    done,          \* how many of them were processed
    stale,         \* keys whose last change was never notified, or that were skipped
    drained,       \* a call of hs_monitor_refresh() has emptied the list
    unwaited       \* a wait for the background thread has failed

world == <<present, changes>>
shared == <<notifications, event, ret>>
ghosts == <<posted, done, stale, drained, unwaited>>
vars == <<present, changes, msgs, thread, hwnd, notifications, event, ret, table,
          main, local, posted, done, stale, drained, unwaited>>

Events == [event : {"ADDED", "REMOVED"}, key : Keys]
WM_CLOSE == [event |-> "CLOSE"]

Init ==
    /\ present \in SUBSET Keys
    /\ changes = 0
    /\ msgs = <<>>
    /\ thread = "none"
    /\ hwnd = FALSE
    /\ notifications = <<>>
    /\ event = FALSE
    /\ ret = 0
    /\ table = {}
    /\ main = "none"
    /\ local = <<>>
    /\ posted = <<>>
    /\ done = 0
    /\ stale = {}
    /\ drained = FALSE
    /\ unwaited = FALSE

-----------------------------------------------------------------------------
\* A device arrives or leaves.  Windows sends a message to a window that has
\* asked for device notifications.
DeviceChange(k) ==
    /\ changes < MaxChanges
    /\ changes' = changes + 1
    /\ present' = IF k \in present THEN present \ {k} ELSE present \cup {k}
    /\ \/ /\ thread = "running"
          /\ msgs' = Append(msgs, [event |-> IF k \in present THEN "REMOVED" ELSE "ADDED",
                                   key |-> k])
          /\ stale' = stale \ {k}
       \/ /\ thread # "running"
          /\ stale' = stale \cup {k}
          /\ UNCHANGED msgs
    /\ UNCHANGED <<thread, hwnd, shared, table, main, local, posted, done, drained, unwaited>>

-----------------------------------------------------------------------------
(* The background thread. *)

\* The thread is at pc.  Once the monitor has been freed under it, what it does
\* is undefined, and no more steps of it are modelled.
At(pc) == thread = pc /\ main # "none"

CreateWindow ==
    /\ At("created")
    /\ ~hwnd
    /\ hwnd' = TRUE
    /\ UNCHANGED <<world, msgs, thread, shared, table, main, local, ghosts>>

\* The window has asked for notifications.
monitor_thread ==
    /\ At("created")
    /\ hwnd
    /\ thread' = "running"
    /\ event' = TRUE
    /\ UNCHANGED <<world, msgs, hwnd, notifications, ret, table, main, local, ghosts>>

ThreadFails_silent == thread' = "exited" /\ UNCHANGED <<ret, event>>

\* The thread ends with an error and destroys its window, if it has one.
ThreadFails == thread' = "exited" /\ ret' = -1 /\ event' = TRUE

\* ... before it listens, with or without a window.
ThreadStartFails ==
    /\ At("created")
    /\ ThreadFails
    /\ msgs' = <<>>
    /\ UNCHANGED <<world, hwnd, notifications, table, main, local, ghosts>>

Keyed(s) == {k \in Keys : \E i \in DOMAIN s : s[i] # WM_CLOSE /\ s[i].key = k}

\* The store of the error without the mutex falls between the load and the
\* reset of monitor->ret in hs_monitor_refresh(), which clears it unseen.
ErrorOverwritten == /\ main = "process"
                    /\ thread' = "exited"
                    /\ event' = TRUE
                    /\ UNCHANGED ret

GetMessageFails ==
    /\ MayFail
    /\ At("running")
    /\ ThreadFails \/ ErrorOverwritten
    /\ msgs' = <<>>
    /\ stale' = stale \cup Keyed(msgs)
    /\ UNCHANGED <<world, hwnd, notifications, table, main, local, posted, done, drained, unwaited>>

\* The notification goes to the end of the list and the event is set.
post_device_event(n) ==
    /\ notifications' = Append(notifications, n)
    /\ event' = TRUE

\* WM_DEVICECHANGE.  If there is no memory the error is kept for
\* hs_monitor_refresh().
window_proc ==
    /\ At("running")
    /\ msgs # <<>>
    /\ Head(msgs) # WM_CLOSE
    /\ msgs' = Tail(msgs)
    /\ \/ /\ post_device_event(Head(msgs))
          /\ posted' = Append(posted, Head(msgs))
          /\ UNCHANGED <<ret, stale>>
       \/ /\ MayFail
          /\ ret' = -1
          /\ event' = TRUE
          /\ stale' = stale \cup {Head(msgs).key}
          /\ UNCHANGED <<notifications, posted>>
    /\ UNCHANGED <<world, thread, hwnd, table, main, local, done, drained, unwaited>>

\* WM_CLOSE destroys the window and ends the thread.
CloseWindow ==
    /\ At("running")
    /\ msgs # <<>>
    /\ Head(msgs) = WM_CLOSE
    /\ msgs' = <<>>
    /\ thread' = "exited"
    /\ UNCHANGED <<world, hwnd, shared, table, main, local, ghosts>>

-----------------------------------------------------------------------------
(* hs_monitor_new() and hs_monitor_free(). *)

\* The devices present are enumerated into the table, but for those of which
\* process_win32_device() cannot find everything and which it skips; no callback
\* can be registered yet.  A failure up to here gives everything back.
hs_enumerate ==
    /\ main = "none"
    /\ thread \in {"none", "exited"}
    /\ \E skipped \in SUBSET present :
         /\ skipped # {} => MayFail
         /\ table' = present \ skipped
         /\ stale' = skipped
    /\ main' = "enumerated"
    /\ unwaited' = FALSE
    /\ UNCHANGED <<world, msgs, thread, hwnd, shared, local, posted, done, drained>>

hs_monitor_new ==
    /\ main = "enumerated"
    /\ thread' = "created"
    /\ main' = "waiting"
    /\ UNCHANGED <<world, msgs, hwnd, shared, table, local, ghosts>>

\* The thread has set the event.  Its error is looked at outside the mutex ...
wait_event ==
    /\ main = "waiting"
    /\ event
    /\ main' = IF ret < 0 THEN "free" ELSE "ready"
    /\ UNCHANGED <<world, msgs, thread, hwnd, shared, table, local, ghosts>>

\* ... and then the event is reset.
MonitorReady ==
    /\ main = "ready"
    /\ event' = FALSE
    /\ main' = "idle"
    /\ UNCHANGED <<world, msgs, thread, hwnd, notifications, ret, table, local, ghosts>>

\* WaitForSingleObject() fails, wherever the thread is.
WaitFails ==
    /\ MayFail
    /\ main = "waiting"
    /\ main' = "free"
    /\ unwaited' = TRUE
    /\ UNCHANGED <<world, msgs, thread, hwnd, shared, table, local, posted, done, stale, drained>>

\* PostMessage() reaches the window while it exists.
PostClose == msgs' = IF thread \in {"created", "running"} THEN Append(msgs, WM_CLOSE) ELSE msgs

\* A thread that has not got as far as a window is not waited for.
hs_monitor_free ==
    /\ main \in {"idle", "free"}
    /\ table' = {}
    /\ \/ hwnd /\ PostClose /\ main' = "join"
       \/ ~hwnd /\ main' = "release" /\ UNCHANGED msgs
    /\ UNCHANGED <<world, thread, hwnd, shared, local, ghosts>>

ThreadJoined_not == main = "join"

ThreadJoined == main = "join" /\ thread = "exited"

\* Whether the wait for the thread succeeds is not looked at.
JoinFails ==
    /\ MayFail
    /\ main = "join"
    /\ main' = "release"
    /\ unwaited' = TRUE
    /\ UNCHANGED <<world, msgs, thread, hwnd, shared, table, local, posted, done, stale, drained>>

ReleaseMonitor ==
    /\ ThreadJoined \/ main = "release"
    /\ main' = "none"
    /\ hwnd' = FALSE
    /\ notifications' = <<>>
    /\ event' = FALSE
    /\ ret' = 0
    /\ posted' = <<>>
    /\ done' = 0
    /\ drained' = FALSE
    /\ UNCHANGED <<world, msgs, thread, table, local, stale, unwaited>>

-----------------------------------------------------------------------------
(* hs_monitor_refresh(). *)

\* The list is spliced into the one of hs_monitor_refresh() and left empty.
TakeOver == local' = notifications /\ notifications' = <<>>

\* Under the mutex, all notifications and the error are taken over.
hs_monitor_refresh ==
    /\ main = "idle"
    /\ TakeOver
    /\ ret' = 0
    /\ main' = IF ret < 0 THEN "cleanup" ELSE "process"
    /\ UNCHANGED <<world, msgs, thread, hwnd, event, table, ghosts>>

\* After a notification: an error ends the loop.
ProcessedWith(r) ==
    /\ local' = Tail(local)
    /\ done' = done + 1
    /\ main' = IF r < 0 THEN "cleanup" ELSE "process"

\* A device node that does not exist any more is to be ignored, but the
\* warning reads dev->key from the null pointer dev.
ArrivalOfMissingDevice ==
    /\ main = "process"
    /\ local # <<>>
    /\ Head(local).event = "ADDED"
    /\ Head(local).key \notin present
    /\ main' = "crashed"
    /\ UNCHANGED <<world, msgs, thread, hwnd, shared, table, local, ghosts>>

\* process_win32_device() fails or does not accept the device k, which is then
\* not added.
process_win32_device(k) ==
    /\ MayFail
    /\ stale' = stale \cup {k}
    /\ \E r \in {0, -1} : ProcessedWith(r)
    /\ UNCHANGED table

\* The device is examined and added, unless the table has it; a callback may
\* return an error for a new device.
process_arrival_notification ==
    /\ main = "process"
    /\ local # <<>>
    /\ Head(local).event = "ADDED"
    /\ Head(local).key \in present
    /\ \/ /\ table' = table \cup {Head(local).key}
          /\ \E r \in {0, -1} : /\ r < 0 => MayFail /\ Head(local).key \notin table
                                /\ ProcessedWith(r)
          /\ UNCHANGED stale
       \/ process_win32_device(Head(local).key)
    /\ UNCHANGED <<world, msgs, thread, hwnd, shared, posted, drained, unwaited>>

ProcessRemoval_missed ==
    /\ main = "process"
    /\ local # <<>>
    /\ Head(local).event = "REMOVED"
    /\ ProcessedWith(0)
    /\ UNCHANGED <<world, msgs, thread, hwnd, shared, table, posted, stale, drained, unwaited>>

\* _hs_monitor_remove() has no error to return.
ProcessRemoval ==
    /\ main = "process"
    /\ local # <<>>
    /\ Head(local).event = "REMOVED"
    /\ table' = table \ {Head(local).key}
    /\ ProcessedWith(0)
    /\ UNCHANGED <<world, msgs, thread, hwnd, shared, posted, stale, drained, unwaited>>

PutBack_drop == notifications

\* What an error left over goes back in front of the list.
PutBack == local \o notifications

ResetEvent_always(list) == event' = FALSE

\* The event is reset when no notification is waiting.
ResetEvent(list) == event' = IF list = <<>> THEN FALSE ELSE event

RefreshReturns ==
    /\ main = "cleanup" \/ (main = "process" /\ local = <<>>)
    /\ notifications' = PutBack
    /\ local' = <<>>
    /\ ResetEvent(notifications')
    /\ main' = "idle"
    /\ drained' = (drained \/ notifications' = <<>>)
    /\ UNCHANGED <<world, msgs, thread, hwnd, ret, table, posted, done, stale, unwaited>>

-----------------------------------------------------------------------------
Thread ==
    \/ CreateWindow
    \/ monitor_thread
    \/ ThreadStartFails
    \/ GetMessageFails
    \/ window_proc
    \/ CloseWindow

\* The steps of a function of the library that has been called.
InCall ==
    \/ hs_monitor_new
    \/ wait_event
    \/ MonitorReady
    \/ main = "free" /\ hs_monitor_free
    \/ ReleaseMonitor
    \/ ArrivalOfMissingDevice
    \/ process_arrival_notification
    \/ ProcessRemoval
    \/ RefreshReturns

Application ==
    \/ hs_enumerate
    \/ hs_monitor_refresh
    \/ main = "idle" /\ hs_monitor_free

Next == Thread \/ InCall \/ Application \/ WaitFails \/ JoinFails \/ \E k \in Keys : DeviceChange(k)

Spec == Init /\ [][Next]_vars

\* Both threads are scheduled; GetMessage() and the waits need not fail, and the
\* application need not call anything.
FairSpec ==
    /\ Spec
    /\ WF_vars(CreateWindow \/ monitor_thread \/ ThreadStartFails)
    /\ WF_vars(window_proc \/ CloseWindow)
    /\ WF_vars(InCall)

\* An application that refreshes whenever it finds the event set.
Polling == WF_vars(event /\ hs_monitor_refresh)

-----------------------------------------------------------------------------
(* Properties. *)

TypeOK ==
    /\ present \subseteq Keys
    /\ changes \in 0 .. MaxChanges
    /\ msgs \in Seq(Events \cup {WM_CLOSE})
    /\ thread \in {"none", "created", "running", "exited"}
    /\ hwnd \in BOOLEAN
    /\ notifications \in Seq(Events)
    /\ event \in BOOLEAN
    /\ ret \in {-1, 0}
    /\ table \subseteq Keys
    /\ main \in {"none", "enumerated", "waiting", "ready", "idle", "process",
                 "cleanup", "crashed", "free", "join", "release"}
    /\ local \in Seq(Events)
    /\ posted \in Seq(Events)
    /\ done \in 0 .. Len(posted)
    /\ stale \subseteq Keys
    /\ drained \in BOOLEAN
    /\ unwaited \in BOOLEAN

\* No notification is lost, repeated or overtaken: those not processed yet are,
\* in the order of posting, the ones hs_monitor_refresh() has in hand followed by
\* those on the list, although the lists are spliced back and forth while the
\* thread goes on posting, and an error can stop the processing at any of them.
NotificationsInOrder ==
    local \o notifications = SubSeq(posted, done + 1, Len(posted))

\* From the first refresh on that empties the list, a notification on the list
\* shows on the event, whichever way the posting thread and hs_monitor_refresh()
\* alternate.
PendingSignalled == drained /\ notifications # <<>> => event

\* When all messages and notifications are worked off, the table holds exactly
\* the devices that are plugged in, except for those whose last change was never
\* notified (it came when no window was listening, or memory ran out) and those
\* that process_win32_device() skipped.
Converges ==
    main = "idle" /\ msgs = <<>> /\ notifications = <<>>
        => \A k \in Keys \ stale : k \in table <=> k \in present

\* The background thread never runs on a monitor that has been freed, whenever it
\* fails and however far it is when hs_monitor_free() is called, unless
\* WaitForSingleObject() has failed in hs_monitor_new() or hs_monitor_free().
ThreadDoneBeforeFree == main = "none" /\ ~unwaited => thread \in {"none", "exited"}

\* hs_monitor_new() returns, whether or not the thread gets its window, and
\* hs_monitor_free() returns, also after the thread has died.
CallsEnd ==
    /\ (main \in {"enumerated", "waiting"}) ~> (main \in {"idle", "none"})
    /\ (main \in {"free", "join", "release"}) ~> (main = "none")

\* An application that polls the event gets every notification processed, once a
\* refresh has emptied the list for the first time, unless it closes the monitor
\* or dies: errors of callbacks and of the thread only delay them.
PendingProcessed ==
    Polling => \A n \in 1 .. MaxChanges :
        (drained /\ n <= Len(posted))
            ~> (done >= n \/ main \notin {"idle", "process", "cleanup"})

\* What process_arrival_notification() says of a missing device node: a warning
\* is logged, "Device node '%s' does not exist", and 0 is returned.
MissingDeviceIgnored == main # "crashed"

=============================================================================
