----------------------------- MODULE HidDarwin -----------------------------
(***************************************************************************)
(* A HID device handle on OSX (hid_darwin.c).  IOKit hands input reports   *)
(* and the removal of the device to a background thread, which runs a      *)
(* CoreFoundation run loop.  The reports go through a bounded pool and a   *)
(* list to the application, and a pipe tells the application, which may    *)
(* poll it, that there is something to read.                               *)
(*                                                                         *)
(* The application uses a handle from one thread at a time.  What is done  *)
(* between a lock and the unlock of h->mutex is one step; what the code    *)
(* reads or does outside the lock (h->hid, the pipe, the run loop) is a    *)
(* step of its own.  A report is its number in the order of arrival; its   *)
(* bytes, and their truncation to the size of a buffer, are left out.      *)
(***************************************************************************)
EXTENDS Integers, Sequences

CONSTANTS
    MaxReports,  \* reports a handle may allocate (64 in the code)
    MaxArrivals, \* bound: input reports in the life of a handle
    Timeouts     \* timeouts given to hs_hid_read(): negative, zero, positive

ASSUME HidDarwinAssumption ==
    /\ MaxReports \in Nat \ {0}
    /\ MaxArrivals \in Nat
    /\ Timeouts \subseteq Int

VARIABLES
    app,        \* where the application is, its timeout and its last result
    thread,     \* where the device thread is
    hid,        \* h->hid is not NULL
    loop,       \* h->loop is not NULL
    shutdown,   \* h->shutdown: no source, a source, a signalled source
    thread_ret, \* h->thread_ret
    reports,    \* h->reports
    free,       \* length of h->free_reports
    allocated,  \* h->allocated_reports
    bytes,      \* bytes in the pipe
    arrived,    \* reports that came from the device
    last,       \* last report given to the application
    misuse      \* IOKit was called on a device that is gone

queueVars == <<reports, free, allocated>>
runVars == <<loop, shutdown>>
vars == <<app, thread, hid, loop, shutdown, thread_ret, reports, free,
          allocated, bytes, arrived, last, misuse>>

NoResult == 9 \* the call has not returned

Init ==
    /\ app = [pc |-> "closed", timeout |-> 0, res |-> 0]
    /\ thread = "none"
    /\ hid = FALSE
    /\ loop = FALSE
    /\ shutdown = "none"
    /\ thread_ret = 0
    /\ reports = <<>>
    /\ free = 0
    /\ allocated = 0
    /\ bytes = 0
    /\ arrived = 0
    /\ last = 0
    /\ misuse = FALSE

Goto(pc) == app' = [app EXCEPT !.pc = pc]
Answer(r) == app' = [app EXCEPT !.pc = "open", !.res = r]

-----------------------------------------------------------------------------
(* Opening. *)

\* The device is opened, the callbacks and the pipe are set up, and the device
\* thread is created; the opener waits for it on h->cond.  An error before the
\* thread runs gives everything back.
open_hid_device ==
    /\ app.pc = "closed"
    /\ thread \in {"none", "exited"}
    /\ app' = [pc |-> "opening", timeout |-> 0, res |-> NoResult]
    /\ thread' = "created"
    /\ hid' = TRUE
    /\ UNCHANGED <<runVars, thread_ret, queueVars, bytes, arrived, last, misuse>>

\* CFRunLoopSourceCreate() fails.
StartFails == thread' = "exited" /\ thread_ret' = -1 /\ UNCHANGED shutdown

\* The thread gets the mutex when the opener waits, and is ready once it has
\* a source to be stopped with.
device_thread_start ==
    /\ thread = "created"
    /\ loop' = TRUE
    /\ \/ /\ shutdown' = "created"
          /\ thread_ret' = 1
          /\ thread' = "starting"
       \/ StartFails
    /\ UNCHANGED <<app, hid, queueVars, bytes, arrived, last, misuse>>

\* The opener is awake again.  A handle whose thread failed is closed.
OpenReturns ==
    /\ app.pc = "opening"
    /\ thread_ret # 0
    /\ thread_ret' = 0
    /\ app' = IF thread_ret < 0 THEN [app EXCEPT !.pc = "closing", !.res = thread_ret]
                                ELSE [app EXCEPT !.pc = "open", !.res = 0]
    /\ UNCHANGED <<thread, hid, runVars, queueVars, bytes, arrived, last, misuse>>

-----------------------------------------------------------------------------
(* The device thread. *)

CFRunLoopRun ==
    /\ thread = "starting"
    /\ thread' = "running"
    /\ UNCHANGED <<app, hid, runVars, thread_ret, queueVars, bytes, arrived, last, misuse>>

\* Where a callback of the run loop goes on when it has released the mutex.
FireIf(fire) == thread' = IF fire THEN "fire" ELSE "running"

Take_leak ==
    \/ free > 0 /\ free' = free /\ UNCHANGED allocated
    \/ free = 0 /\ allocated < MaxReports /\ allocated' = allocated + 1 /\ UNCHANGED free

\* A report of the pool: one that was read already, or a new one.
Take ==
    \/ free > 0 /\ free' = free - 1 /\ UNCHANGED allocated
    \/ free = 0 /\ allocated < MaxReports /\ allocated' = allocated + 1 /\ UNCHANGED free

Enqueue(r) == reports' = Append(reports, r)

\* An input report.  It is dropped when all reports of the pool are waiting to
\* be read, and a failed allocation is kept for hs_hid_read() to return.
hid_report_callback ==
    /\ thread = "running"
    /\ hid
    /\ arrived < MaxArrivals
    /\ arrived' = arrived + 1
    /\ FireIf(reports = <<>>)
    /\ \/ /\ Take
          /\ Enqueue(arrived + 1)
          /\ UNCHANGED thread_ret
       \/ /\ free = 0
          /\ allocated = MaxReports
          /\ UNCHANGED <<queueVars, thread_ret>>
       \/ /\ free = 0
          /\ allocated < MaxReports
          /\ thread_ret' = -1
          /\ UNCHANGED queueVars
    /\ UNCHANGED <<app, hid, runVars, bytes, last, misuse>>

RemovalFires == FireIf(TRUE)

hid_removal_callback ==
    /\ thread = "running"
    /\ hid
    /\ hid' = FALSE
    /\ shutdown' = "signalled"
    /\ loop' = FALSE
    /\ RemovalFires
    /\ UNCHANGED <<app, thread_ret, queueVars, bytes, arrived, last, misuse>>

\* The callback, which has given the mutex back, writes to the pipe.
fire_device_event ==
    /\ thread = "fire"
    /\ bytes' = bytes + 1
    /\ thread' = "running"
    /\ UNCHANGED <<app, hid, runVars, thread_ret, queueVars, arrived, last, misuse>>

\* The run loop performs the signalled shutdown source, which stops it.
CFRunLoopStop ==
    /\ thread = "running"
    /\ shutdown = "signalled"
    /\ shutdown' = "created"
    /\ thread' = "stopped"
    /\ UNCHANGED <<app, hid, loop, thread_ret, queueVars, bytes, arrived, last, misuse>>

\* The device is unscheduled, if it is still there, and the thread ends.
device_thread_end ==
    /\ thread = "stopped"
    /\ loop' = FALSE
    /\ thread' = "exited"
    /\ UNCHANGED <<app, hid, shutdown, thread_ret, queueVars, bytes, arrived, last, misuse>>

-----------------------------------------------------------------------------
(* Reading. *)

\* The descriptor is polled unless the timeout is zero.
hs_hid_read(timeout) ==
    /\ app.pc = "open"
    /\ app' = [timeout |-> timeout,
               pc |-> IF ~hid THEN "open" ELSE IF timeout = 0 THEN "read" ELSE "poll",
               res |-> IF ~hid THEN -1 ELSE NoResult]
    /\ UNCHANGED <<thread, hid, runVars, thread_ret, queueVars, bytes, arrived, last, misuse>>

\* poll() returns because of a byte in the pipe, of the timeout or of an error.
PollReturns ==
    /\ app.pc = "poll"
    /\ \/ bytes > 0 /\ Goto("read")
       \/ app.timeout > 0 /\ Answer(0)
       \/ Answer(-1)
    /\ UNCHANGED <<thread, hid, runVars, thread_ret, queueVars, bytes, arrived, last, misuse>>

reset_device_event_always(left) == bytes' = IF bytes > 0 THEN bytes - 1 ELSE 0

\* One byte is taken from the pipe, if there is one, once no report is left.
reset_device_event(left) ==
    bytes' = IF left = <<>> /\ bytes > 0 THEN bytes - 1 ELSE bytes

NothingToRead_reset == reset_device_event(reports)

\* Without a report the pipe is left alone.
NothingToRead == UNCHANGED bytes

\* The part of hs_hid_read() under the mutex: an error of the report callback,
\* the first report, or nothing.
ReadReport ==
    /\ app.pc = "read"
    /\ \/ /\ thread_ret < 0
          /\ Answer(thread_ret)
          /\ thread_ret' = 0
          /\ reset_device_event(reports)
          /\ UNCHANGED <<reports, free, last>>
       \/ /\ thread_ret >= 0
          /\ reports = <<>>
          /\ Answer(0)
          /\ NothingToRead
          /\ UNCHANGED <<thread_ret, reports, free, last>>
       \/ /\ thread_ret >= 0
          /\ reports # <<>>
          /\ Answer(1)
          /\ reports' = Tail(reports)
          /\ free' = free + 1
          /\ last' = Head(reports)
          /\ reset_device_event(Tail(reports))
          /\ UNCHANGED thread_ret
    /\ UNCHANGED <<thread, hid, runVars, allocated, arrived, misuse>>

-----------------------------------------------------------------------------
(* Other uses of h->hid. *)

\* send_report() and hs_hid_parse_descriptor() look at h->hid first, outside
\* the mutex ...
send_report ==
    /\ app.pc = "open"
    /\ \/ ~hid /\ app' = [pc |-> "open", timeout |-> 0, res |-> -1]
       \/ hid /\ app' = [pc |-> "open", timeout |-> 0, res |-> 0] \* nothing to send
       \/ hid /\ app' = [pc |-> "use", timeout |-> 0, res |-> NoResult]
    /\ UNCHANGED <<thread, hid, runVars, thread_ret, queueVars, bytes, arrived, last, misuse>>

\* ... and use it later; the call succeeds or fails.
IOHIDDeviceSetReport ==
    /\ app.pc = "use"
    /\ \E r \in {-1, 1} : Answer(r)
    /\ misuse' = (misuse \/ ~hid)
    /\ UNCHANGED <<thread, hid, runVars, thread_ret, queueVars, bytes, arrived, last>>

\* This one does not look.
hs_hid_get_feature_report ==
    /\ app.pc = "open"
    /\ \E r \in {-1, 1} : app' = [pc |-> "open", timeout |-> 0, res |-> r]
    /\ misuse' = (misuse \/ ~hid)
    /\ UNCHANGED <<thread, hid, runVars, thread_ret, queueVars, bytes, arrived, last>>

-----------------------------------------------------------------------------
(* Closing. *)

hs_handle_close ==
    /\ app.pc = "open"
    /\ app' = [pc |-> "closing", timeout |-> 0, res |-> 0]
    /\ UNCHANGED <<thread, hid, runVars, thread_ret, queueVars, bytes, arrived, last, misuse>>

\* Stopping the run loop itself has no effect unless it is running.
StopThread_direct ==
    IF loop /\ thread \in {"running", "fire"} THEN shutdown' = "signalled" ELSE UNCHANGED shutdown

\* The source stays signalled until the run loop gets to it.
StopThread == IF loop THEN shutdown' = "signalled" ELSE UNCHANGED shutdown

\* A handle that has a shutdown source has a thread to stop.
close_hid_device ==
    /\ app.pc = "closing"
    /\ \/ /\ shutdown # "none"
          /\ StopThread
          /\ Goto("join")
       \/ /\ shutdown = "none"
          /\ UNCHANGED shutdown
          /\ Goto("free")
    /\ UNCHANGED <<thread, hid, loop, thread_ret, queueVars, bytes, arrived, last, misuse>>

pthread_join_skip == app.pc = "join"

pthread_join == app.pc = "join" /\ thread = "exited"

\* Everything the handle owns is released.
ReleaseHandle ==
    /\ pthread_join \/ app.pc = "free"
    /\ Goto("closed")
    /\ hid' = FALSE
    /\ loop' = FALSE
    /\ shutdown' = "none"
    /\ thread_ret' = 0
    /\ reports' = <<>>
    /\ free' = 0
    /\ allocated' = 0
    /\ bytes' = 0
    /\ arrived' = 0
    /\ last' = 0
    /\ UNCHANGED <<thread, misuse>>

-----------------------------------------------------------------------------
Thread ==
    \/ device_thread_start
    \/ CFRunLoopRun
    \/ hid_report_callback
    \/ hid_removal_callback
    \/ fire_device_event
    \/ CFRunLoopStop
    \/ device_thread_end

\* The steps of a library function once it has been called.
InCall ==
    \/ OpenReturns
    \/ PollReturns
    \/ ReadReport
    \/ IOHIDDeviceSetReport
    \/ close_hid_device
    \/ ReleaseHandle

Application ==
    \/ open_hid_device
    \/ \E t \in Timeouts : hs_hid_read(t)
    \/ send_report
    \/ hs_hid_get_feature_report
    \/ hs_handle_close

Next == Thread \/ InCall \/ Application

Spec == Init /\ [][Next]_vars

\* Both threads are scheduled.  The device need not send anything or go away,
\* and a poll() without a byte may wait forever; the run loop looks at its
\* sources between two callbacks.
FairSpec ==
    /\ Spec
    /\ WF_vars(device_thread_start)
    /\ WF_vars(CFRunLoopRun)
    /\ WF_vars(fire_device_event)
    /\ SF_vars(CFRunLoopStop)
    /\ WF_vars(device_thread_end)
    /\ WF_vars(OpenReturns)
    /\ WF_vars(app.pc = "poll" /\ bytes > 0 /\ PollReturns)
    /\ WF_vars(ReadReport)
    /\ WF_vars(IOHIDDeviceSetReport)
    /\ WF_vars(close_hid_device)
    /\ WF_vars(ReleaseHandle)

-----------------------------------------------------------------------------
(* Properties. *)

Calls == [pc : {"closed", "opening", "open", "poll", "read", "use", "closing",
                "join", "free"},
          timeout : Timeouts \cup {0}, res : {-1, 0, 1, NoResult}]

TypeOK ==
    /\ app \in Calls
    /\ thread \in {"none", "created", "starting", "running", "fire", "stopped", "exited"}
    /\ hid \in BOOLEAN
    /\ loop \in BOOLEAN
    /\ shutdown \in {"none", "created", "signalled"}
    /\ thread_ret \in {-1, 0, 1}
    /\ reports \in Seq(Nat)
    /\ free \in Nat
    /\ allocated \in Nat
    /\ bytes \in Nat
    /\ arrived \in Nat
    /\ last \in Nat
    /\ misuse \in BOOLEAN

\* The application has the handle.
InUse == app.pc \in {"open", "poll", "read", "use"}

\* There is a byte in the pipe, or the device thread is about to write one.
Signalled == bytes > 0 \/ thread = "fire"

\* Whatever hs_hid_read() could return at once, a report or the error of a failed
\* allocation, shows on the descriptor, although the callback writes to the pipe
\* after it has released the mutex and a reader may come in between.
NoLostWakeup == InUse /\ (reports # <<>> \/ thread_ret < 0) => Signalled

\* The removal of the device shows on the descriptor as long as the handle is
\* open, so that who waits learns of it: no read that began before the removal
\* takes the last byte out of the pipe.
RemovalSignalled == InUse /\ ~hid => Signalled

\* A report of the pool is either waiting to be read or free, and the handle
\* never allocates more than the limit.
PoolBound == allocated = Len(reports) + free /\ allocated <= MaxReports

\* Reports are read in the order in which the device sent them, none of them
\* twice, whatever is dropped at the limit.
InOrder ==
    /\ \A i \in 1 .. Len(reports) : last < reports[i] /\ reports[i] <= arrived
    /\ \A i, j \in 1 .. Len(reports) : i < j => reports[i] < reports[j]

\* The queue of reports keeps its limit and its order, together.
ReportsRight == PoolBound /\ InOrder

\* The device thread never runs on a handle that has been freed: closing waits
\* for it, and a handle without a shutdown source has no thread left.
ThreadDoneBeforeFree == app.pc \in {"closed", "free"} => thread \in {"none", "exited"}

\* Opening ends, whether or not the thread can be started; closing ends, even if
\* it comes before the thread is in its run loop or after the removal has stopped
\* it; and a reader that waits without a timeout is woken by the removal.
CallsEnd ==
    /\ (app.pc = "opening") ~> (app.pc \in {"open", "closed"})
    /\ (app.pc \in {"closing", "join", "free"}) ~> (app.pc = "closed")
    /\ (app.pc = "poll" /\ ~hid) ~> (app.pc # "poll")

\* What hid.h says of every function on a handle: it returns a result "or a
\* negative error code", also when the device is gone.
NeverUsesReleasedDevice == ~misuse

=============================================================================
