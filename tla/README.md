# TLA+ models of libhs

libhs enumerates, monitors and talks to HID and serial devices on Linux, OSX and
Windows.  This directory holds TLA+ models of the parts of the library where
order, concurrency or failure decide whether it is correct, the TLC
configurations that check them on small instances, and proofs checked by TLAPS.
`PROJECT.json` says which definition models which lines of which file.

Paths below are relative to the repository: `src/` is the library's source,
`include/hs/` its public headers.

## 1. The system

| Part | Files | State | Operations |
|---|---|---|---|
| Monitor core | `monitor.c`, `monitor_priv.h`, `list.h` | hash table of devices, list of callbacks, `callback_id` | register, deregister, `_hs_monitor_add`, `_hs_monitor_remove`, `trigger_callbacks`, list, init, release |
| Device objects | `device.c`, `device_priv.h` | `refcount`, `state`, key, interface, monitor | ref, unref, open, close, getters |
| Linux monitor | `monitor_linux.c` | udev monitor | enumerate, refresh |
| OSX monitor | `monitor_darwin.c` | notification port, iterators, `notify_ret`, list of controllers | attach and detach callbacks, refresh |
| Windows monitor | `monitor_win32.c` | window thread, `notifications`, `event`, `ret`, list of controllers | `window_proc`, `post_device_event`, refresh, new, free |
| HID on OSX | `hid_darwin.c` | device thread, run loop, report pool and list, pipe | open, close, read, write, feature reports |
| HID on Linux | `hid_linux.c` | descriptor | read, write, descriptor parser |
| HID and serial on Windows | `device_win32.c`, `hid_win32.c`, `serial_win32.c` | overlapped read, its buffer, `ptr`/`len`, event | start, finalize, cancel, read, write |
| POSIX handles, serial | `device_posix.c`, `serial_posix.c` | descriptor | open with retries, read, write, settings |
| Hash table | `htable.c`, `htable.h` | buckets of linked nodes | add, insert, remove, foreach |
| Errors and log | `common.c` | stack of masked errors, last message | mask, unmask, error, log |
| Descriptor sets and time | `platform*.c` | set of descriptors | add, remove, poll, `hs_millis`, `hs_adjust_timeout` |
| Compatibility | `compat.c`, `compat.h`, `util.h` | none | C library replacements |

How they interact.  The platform monitors build a device object and hand it to
`_hs_monitor_add()`, or hand a key to `_hs_monitor_remove()`; the core changes
the table and calls the application's callbacks, which may call the library
again.  Device objects are shared between the table, the platform code, the
application and open handles by reference counts.  On OSX a HID handle has a
thread of its own, on Windows the monitor has one; they share lists with the
application under a mutex and announce changes on a descriptor (a pipe, an
event) that the application may poll.

What is hard here, and what has to hold:

* *Callbacks that change the list they are called from.*  The dispatch loop must
  never touch a freed node, must end, and every callback must be able to follow
  the table from the events it gets.
* *Reference counts with four kinds of owners.*  The count is exact, nothing is
  freed early or leaked, and who keeps a device after its removal sees it
  disconnected.
* *Two threads and a descriptor.*  What can be read shows on the descriptor,
  reports and notifications keep their order, none is lost except where the code
  says so, and the thread is gone before the memory it uses.
* *Failure in the middle.*  A thread that cannot start, an allocation that fails
  and a callback that returns an error must not leave anybody waiting, and must
  not lose what has not been handled.
* *The world changes while we look.*  Devices come and go between enumeration
  and registration, between a notification and its processing, and while the
  library walks up the tree of hubs.
* *Lost and late events.*  A socket that overflows, an iterator that is not
  drained, a request that fails or is cancelled: what is not lost must be
  handled in the end.
* *Waiting with a deadline.*  Signals interrupt a wait, and the clock and the
  remaining time have to be right across seconds.

`PROJECT.json` lists these as hazards, each at the line where it bites, with
the properties that are about it.

## 2. Modules

Each module is one component and is checked through an `MC` module that gives
its constants values.  External parts (the kernel, udevd, IOKit, the Windows API)
are modelled from how the library uses them and are marked in `PROJECT.json`.

### Monitor

`monitor.c` and `device.c`.  One thread runs the monitor; `call` is where it is
(`pc`), the event in progress (`op`, `dev`, the devices `todo`) and the two
pointers of the dispatch loop (`cur`, `next`).  `live`, `obj` and `refcount` are
the heap of device objects, at addresses that are used again; `users` and
`handles` count the references of the application.  The table is the set
`devices`, the callback list the sequence `callbacks` of node ids.

Actions carry the names of the functions; a function that calls callbacks is cut
where the application gets control: `hs_monitor_add` up to the first callback,
`CallbackContinues`, `CallbackLeaves` and `CallbackFails` for the return of a
callback with zero, a positive and a negative value, `UnlinkDevice` for the part
of `_hs_monitor_remove()` after the callbacks, `ReleaseDevice` for the reference
that the platform code drops.  In between, inside a callback too, the
application may register, deregister, open, close, ref and unref, and may get at
any device of the table by listing it (`Reachable`).
`read_device_information` stands for the platform code that builds an object; it
may report the same device any number of times.

`mirror[c]` is what the owner of callback `c` believes to be connected, computed
only from what the callback is told; `deaf` are the callbacks that an error of
an earlier callback has cut off from an event.

### HidDarwin

`hid_darwin.c`: the opener, reader and closer of a handle (`app`) and the device
thread (`thread`).  A section under `h->mutex` is one step, everything outside
it (looking at `h->hid`, `poll()`, writing to the pipe, the run loop) a step of
its own: `fire_device_event` comes after the callback has released the mutex.
`reports` is the list, `free` and `allocated` the pool, `bytes` the pipe,
`shutdown` the run-loop source (`"signalled"` until the loop gets to it).
Reports are numbered by arrival.  Failures before the thread exists undo
everything and change no state; they are not separate actions.

### MonitorWin32

`monitor_win32.c`: the window's message queue (`msgs`), the background thread,
the list `notifications` with the manual-reset `event` and `ret`, and
`hs_monitor_refresh()`, which takes the whole list over (`local`), works it off
and puts back what an error left.  `present` is what is plugged in; a
`DeviceChange` sends a message only when a window is listening.  The thread has a
window (`CreateWindow`) before it listens (`monitor_thread`), and may fail on either
side.  The enumeration may skip devices that are present (`skipped`).  The waits of
`hs_monitor_new()` and `hs_monitor_free()` for the thread may fail (`WaitFails`,
`JoinFails`); once the monitor has been freed under the thread, no more steps of
the thread are modelled (`At`), and no monitor is made.  `PostMessage()` is
assumed to succeed while the window exists.  `posted`, `done`, `stale`, `drained`
and `unwaited` are history: every notification, how many were processed, the devices
whose last change was never notified or that were skipped, whether a refresh has ever
emptied the list, and whether a wait for the thread has failed.

### MonitorLinux

`monitor_linux.c`.  The kernel queues an event for each change (`kq`), udevd
brings its database up to date (`UdevRules`) and later sends the event
(`UdevSends`) to the socket, which holds `SockSize` events and remembers that it
lost some (`overrun`).  `hs_monitor_new` binds the socket, `hs_enumerate` takes
the list of initialized devices and `EnumerateDevice` examines one entry of it,
so that events come in between.  A refresh takes one event per step.  `ProcessAdd`
and `ProcessOther` are its normal turns, `AddFails` and `RefreshFails` the errors,
`RefreshReturns` its end: an empty socket, or ENOBUFS, which the code takes for
one.  `missed` are the devices whose last event was lost.  `read_device_information`
stands for everything that looks at attributes: it tells whether a device is one
that is reported and is still there.

### MonitorDarwin

`monitor_darwin.c`.  An iterator holds the objects of a notification (`pending`).
It posts a message on `port` for an object only when it is `armed`, and only
an `IOIteratorNext()` that finds it empty arms it.  `add_notification`,
`DrainNext` and `ClearTerminated` are `hs_monitor_new()`, in the order of the
code; `mach_msg`, the two callbacks and `Dispatched` are the refresh, one object
per step.  Session ids of 16 hexadecimal digits (`LongIds`) do not fit in the
buffer of `remove_device()`.  `process_darwin_device` may skip a service although it
is in the registry, and the id of an unplugged device may be unreadable
(`SessionUnreadable`).  `excused` says what these, an error, or an unplug during
the creation may have left wrong.

### UsbLocation

The list of host controllers and the walk from a device up to its root hub, on
Windows (Vista and XP differ in how a port is found) and OSX.  `at` is the tree of
hubs and devices, which changes between any two steps of a walk.  A location is a
sequence of numbers; the walk collects them in reverse, and `Finish` adds the
number of the controller and turns the whole around.

### AsyncReadWin32 and Channel

`device_win32.c`, `hid_win32.c` and `serial_win32.c`.  `op` is the one request of a
handle, `event` its manual-reset event, which is the descriptor of the handle;
`buf`, `pos` and `len` are the buffer and what is left of it.  A read may fail, a
write that fails cancels the read of the same thread, and on XP the handle may
be left to a cleanup thread.  `Channel` says what a handle promises; the
refinement maps its channel to the unread part of the buffer followed by what
the driver still holds (`ChannelOf`).  A request completes with at least one byte:
`device_win32.c:103` sets an interval timeout and no total one, so that a serial
read waits for a first byte, and a HID report has one.  After an empty completion
`hid_win32.c:88` and `serial_win32.c:156` would return without starting a request.

### PosixIO and HidDescriptor

`hid_linux.c`, `device_posix.c`, `serial_posix.c`, `platform.c` and
`platform_posix.c`: opening, reading, writing, closing, descriptor sets and
`hs_poll()`.  A wait is cut at `poll()`: `PollEnters` computes the remaining time
with `hs_adjust_timeout()`, and a signal (`PollInterrupted`) goes back to it.  Time
passes at any point.  `HidDescriptor` holds `parse_descriptor()`, byte by byte as in
the code, and what a descriptor means item by item (`Meaning`), the reference that
the parser is compared with.

The modules share no variables: where two components meet (a platform monitor
and the core), the one module has in one step what the other has in several.

## 3. Runs

| Run | Checks |
|---|---|
| `monitor` | `RefcountExact`, `UniqueInTable`, `MirrorAccurate`, `SafeIteration`, `OnlineOnlyInTable`; `RefreshReturns`: every call ends although callbacks register callbacks, as long as they do so finitely often (`MaxCallbacks`) |
| `hid_darwin` | `NoLostWakeup`, `RemovalSignalled`, `ReportsRight` (pool and order), `ThreadDoneBeforeFree`; `CallsEnd`: opening and closing end, the removal wakes a reader |
| `monitor_win32` | `NotificationsInOrder`, `PendingSignalled`, `Converges`, `ThreadDoneBeforeFree`; `CallsEnd` (creating and freeing), `PendingProcessed` |
| `monitor_linux` | `Accurate`: the table is right for every device of which no event is under way; `RefreshComplete`: success means that what was pending is processed; `EventuallyAccurate`, `TypeOK` |
| `monitor_darwin` | `NothingLost`, `PendingSignalled`, `NoStaleError`, `EventuallyAccurate`, `TypeOK` |
| `async_win32` | `ImplementsChannel` (refinement), `DescriptorExact`, `BufferOutlivesRequest`, `DataRead`, `TypeOK` (with the reference on the device) |
| `posix_io` | `ParsedRight`, `ReportWhole`, `DeadlineClose`, `CallsEnd`, `TypeOK` (with the reference on the device) |
| `usb_location` | `LocationRight`, `NotIgnored`, `ListFixed`, `TypeOK` (with the numbers of controllers) |

Four further runs each check a sentence of the documentation, or what a function
plainly intends, and TLC finds a behaviour of the code that contradicts it:

| Run | What happens |
|---|---|
| `monitor_deregister_next` | a callback deregisters the next one; the loop goes on from the freed node |
| `hid_darwin_removed` | IOKit is called with the reference that the removal callback released |
| `monitor_win32_missing` | the arrival of a device that is gone dereferences a null pointer |
| `posix_clock` | `hs_millis()` divides nanoseconds by 10^7: it counts 100 per second and then jumps by 900, so that an interrupted wait ends up to 900 ms too early |

Because of the first one the run `monitor` and the theorem about it have
`CarefulApp`: no callback deregisters the callback saved as next, and none that
deregistered itself returns a positive value.  Everything else that the
documentation allows is in.  Because of the last one `DeadlineClose` allows
the deadline to be off by `MaxLag`, 900 ms, and not more however many signals
come.

### Other disagreements

The models have these behaviours too.  No run is spent on them; the properties
are worded so that they allow them.

* `monitor.h:51` and `:172`: a non-zero result of a callback stops the refresh and
  is returned.  A positive one takes the callback out and is not returned, and a
  removal ignores all results (`CallbackLeaves`, `UnlinkDevice`).
* `monitor_devices.c:43` (example): a device shown by `hs_monitor_list()` is always
  online.  In a removal callback it is not (`hs_monitor_remove`).
* `hid.h:75` and `:83`: a negative timeout waits indefinitely, 0 is a timeout.  A
  woken read on OSX that finds nothing returns 0 (`NothingToRead`).
* `monitor.h:113`: the descriptor shows pending events.  `hs_monitor_new()` of
  Windows resets the event after notifications may have come (`MonitorReady`), so
  `PendingSignalled` and `PendingProcessed` hold from the first refresh that empties
  the list on; on OSX an error of a callback leaves an iterator that announces
  nothing (`AttachFails`), and a later refresh does not find what is in it.
* `monitor.h:184`: the list is current when the monitor is created.  On Windows a
  change between the enumeration and the registration is missed (`stale`), on OSX
  an unplug before the last notification is registered (`excused`).
* `monitor_darwin.c:479`: a session id of 16 digits is cut, and the device is never
  removed (`LongIds`).
* `device_win32.c:155`: on Vista and later the buffer is freed although the
  cancelled request may still be in flight; `BufferOutlivesRequest` is about XP.
* `device_win32.c:114`: when the first request of a handle cannot be started, no
  read ever starts one (`h->len` is 0, not an error), although the comment at
  `hid_win32.c:81` wants a restart; `DataRead` leaves this case out.
* `monitor_win32.c:1115`, `:1167` and `:1191`: when `WaitForSingleObject()` fails,
  `hs_monitor_new()` or `hs_monitor_free()` frees the monitor although the thread may
  still use it (`WaitFails`, `JoinFails`); `ThreadDoneBeforeFree` leaves this out.
* `monitor.h:184` again: a device that is there but of which a property, the location
  or the node cannot be found is skipped and never looked at again, on Windows
  (`stale`) and OSX (`excused`); an unplugged device of OSX whose session id cannot be
  read stays in the list.
* `hid.h:114`: the size of a feature report is that of the report + 1.  The code
  adds 1 to what `ioctl()` gives; drivers that count the number (usbhid does) make
  it + 2 on Linux (`KernelGetFeature`, `ReportWhole`).
* `hid.h:46`: the *primary* usage.  With several top-level collections the parser
  gives the last one (`TopLevel`).
* `device.h:120`: the location has every port.  When the system cannot give the
  port of a hub (`QueryMayFail`), or on XP when a device has just gone, the number
  is left out or is 1; on XP the device may also be ignored.
* `monitor_win32.c:398`: the warning says that a location which is too deep is
  ignored.  On Windows the room is looked at before a port is added and not again
  before the number of the controller, so that after `MAX_USB_DEPTH` ports that
  number comes behind the array; on OSX the test follows the port.  No USB tree is
  that deep, and a device that stays where it is gets a location that fits
  (`LocationRight`); only hubs that are rearranged during a walk lead there.  The
  attempt to prove the bound showed this; `MaxLength` states what holds.

### Bounds

* `monitor`: two device objects, one key, two interfaces, three registrations,
  one application reference and one handle per device, callback results
  -1, 0 and 1.  Two objects of one key and two interfaces give duplicates,
  composite devices and a removal loop of two turns; three callbacks give a
  current, a next and a later one.  Addresses are used again, so that two
  objects suffice for stale references.
* `hid_darwin`: a pool of 2 in place of 64 and 5 reports, so that
  the pool fills, overflows and is used again; negative, zero and positive
  timeouts.  The handle can be closed and opened again.
* `monitor_win32`: two devices, 4 changes (3 in the run that finds a
  contradiction), every failure allowed.  One device that comes, goes and
  comes again while the other one's notification fails fits.  A monitor can be
  freed and made again.
* `monitor_linux`: two devices that are reported and one that is not, 4 changes,
  a socket for 2 events: it overflows with an event that matters, and with one
  that does not in front.
* `monitor_darwin`: three devices with two interfaces, one of them with a long id;
  a session id is not used again, so that the changes are bounded.
* `async_win32`: two threads, XP and Vista, HID and serial, a buffer of 2 items,
  reads of 1 and 2 items, 3 items sent, 2 failures: partial reads, a failure
  followed by a failure to restart, and every order of threads.
* `posix_io`: the moments 0, 995, 1000 and 2500 ms, on both sides of a whole
  second, timeouts -1, 0 and 600; reports of 2 bytes and buffers of 1 and 4;
  descriptors of up to five items, nested, with every size of data, whole or
  with the last byte missing; two entries in a descriptor set, of which one may
  be a handle that is closed meanwhile.  No call is made after 995, so that each
  can end.
* `usb_location`: three controllers and two numbers for them (`MaxIndex` 2 in
  place of 255), two hubs that can trade places, a device with a function; room for
  3 numbers, of which USB needs 2 for ports (8 and 6 in reality).  Two threads fill the list; one goes
  on to look for locations, because a walk writes nothing that is shared.

Deadlock is not checked for `monitor_win32` and `async_win32`: changes are bounded,
a program that crashes stops, and so does one that has closed its handle.

### Fairness

* Monitor: weak fairness of a call in progress, the return of callbacks included
  (`Library`).  One thread runs it and nothing in it waits.
* HidDarwin: weak fairness of each step of a started function and of the thread
  (the scheduler runs both), but none of the device: no report and no removal
  ever has to come, and `poll()` without a byte may wait forever.  Strong
  fairness of the run loop's stop: reports may keep coming, and the run loop
  looks at its signalled sources between two callbacks.
* MonitorWin32: weak fairness of both threads, which never forces
  `GetMessage()` or a wait to fail.  `PendingProcessed` assumes
  `Polling` in addition: an application that calls `hs_monitor_refresh()` when it
  finds the event set, which is the use that `monitor.h` describes.
* MonitorLinux, MonitorDarwin: weak fairness of udevd, of a call in progress without
  its failures, and of a refresh when the descriptor is readable.  On OSX strong
  fairness of `mach_msg()`: it and `kevent()` may fail, but not every time.
* AsyncReadWin32: weak fairness of a request for which there is data, of a call in
  progress, and of reading, for `DataRead` only.  Faults are bounded.
* PosixIO: weak fairness of time and of a call in progress; strong fairness of
  the end of a wait, because signals may interrupt `poll()` at the very moment of
  its timeout often, but not always.

## 4. Proofs

TLAPS proves the following for all values of the constants, from the named
assumptions in the modules (types of the bounds; `Nil` is no device and no key;
what else is assumed is said below).

* **MonitorProofs**.  `RefcountExact` is not inductive alone: that the platform's
  reference exists exactly while an arrival is in progress, and the table's while
  the device is linked, depends on where the call is.  The invariant is
  `TypeOK /\ RefcountExact /\ EventOK`, where `EventOK` ties the program counter
  to the event: a device that is being added is not in the table, one that
  callbacks are told of is, and the devices still to be removed are in it.
  Theorems: `TypeCorrect`, `RefcountCorrect`, `UniqueCorrect`, `OnlineCorrect`, and
  `IterationCorrect`, which says `CarefulApp => SafeIteration`, and `MirrorCorrect`,
  `CarefulApp => MirrorAccurate`.  `IterationCorrect` rests on `IterOK`: ids in the
  list are distinct, the saved next node differs from the current one and is in the
  list, and every other change of the list keeps it there.  `MirrorAccurate` speaks
  of the time between two calls; `MirrorOK` extends it into the dispatch: the owners
  of the callbacks from the saved node on (`Ahead`) may be wrong about the device of
  the event and about nothing else, all others are right (`Knows`).  One lemma each
  shows what the start of the loop, a turn, an added and a removed callback do to
  `Knows`.  `TableOnline`, that every device of the table is online but the one that
  is being removed, is needed for callbacks registered during a dispatch.  Without
  `CarefulApp` the saved node may be gone, and an error would not tell who was cut
  off.
* **HidDarwinProofs**.  `RemovalSignalled` is the interesting one: a reader that
  saw the device before the removal may still take a byte.  The invariant adds
  `Removal`: while such a reader can still find a report or an error there are two
  signals.  `Phases` says when the thread exists.  Theorems: `TypeCorrect`,
  `WakeupCorrect`, `RemovalCorrect`, `CloseCorrect`, `PoolCorrect`, `OrderCorrect`,
  `ReportsCorrect`.
* **MonitorWin32Proofs**.  `NotificationsInOrder` is an equation between sequences,
  and its proof goes through `Tracked`, the same by indices, with a lemma for each
  way the lists change (post, take over, process, put back).  `Shown` extends
  `PendingSignalled` to the notifications in hand.  `Phases` says where the two threads
  can be at the same time: past its wait without a thread that listens or has failed,
  or done with the monitor before the thread has ended, the application is only when a
  wait has failed (`unwaited`), which `ThreadDoneBeforeFree` names as its exception.
  `QueuesOK` says when the queues are empty.  `Converges` needs to know
  where the last word on a device is: `Follows` says that it is the last message
  about it, else the last notification, else the table.  Theorems: `TypeCorrect`,
  `NotificationsCorrect`, `EventCorrect`, `FreeCorrect`, `ConvergesCorrect`.
* **MonitorLinuxProofs**.  An event passes through the kernel's queue, udevd and the
  socket, and the enumeration reads the database of udevd in between.  The invariant
  has a part for each stage: the last event of the kernel's queue is true of the
  device (`KernelOK`); without such an event the database is right (`DbOK`) and the
  last event in the socket is true (`SockOK`); without an event there either, the
  table is right, but for the entries that the enumeration has still to read
  (`TableOK`).  `SocketOK` and `RefreshOK` tie the calls to the socket and its
  overruns.  Theorems: `TypeCorrect`, `AccurateCorrect`, `RefreshCorrect`.
* **MonitorDarwinProofs**.  `RemovedOK` and `AddedOK` say of every device and service
  where it is found if the table is not right about it, also while the monitor is
  created, and `SignalOK` that every iterator has posted its message, is empty and
  armed, or is being emptied.  `PhaseOK` and `ObjectsOK` say which iterators exist
  and what they hold.  Assumed is that session ids and classes are no pairs.  Theorems: `TypeCorrect`, `NothingLostCorrect`,
  `SignalCorrect`, `ErrorCorrect`.
* **AsyncReadWin32Proofs**.  The invariant ties the request to its event, its thread
  and its buffer (`RequestOK`), and `h->len` to the request (`BufferOK`).  The
  refinement maps what the device has sent and no read has returned to the channel;
  its proof shows for each action which step of `Channel`, or none, it is.  Theorems:
  `TypeCorrect`, `BufferCorrect`, `DescriptorCorrect`, `Refinement`.
* **UsbLocationProofs**.  The thread that fills the list holds the lock and is alone
  (`LockOK`); the numbers given so far are at most its count, and the controllers to
  come have none (`Listing`).  `Walking` keeps room for the number of the
  controller.  `LocationRight` is about a walk that goes up a tree which changes
  meanwhile.  `Forest` says that what is above a plugged node is plugged and that a
  rank decreases on the way up; from it follows, by induction on the rank, that the
  equation of the recursive `Route` has a solution and what it is, and that plugging
  or unplugging a node changes only the ways below it.  `WaysOK` ties the walk to the
  way: the ports found so far, turned around, are the end of the way to the device,
  and what is left of it is the way to the node where the walk stands.  With `Deep`, that no
  way is longer than USB allows, the walk never runs out of room.  Assumed are that
  controllers, hubs, devices and functions are different things and that `Nowhere`
  is no socket.  Theorems: `TypeCorrect`, `ListFixedCorrect`, and `LocationCorrect` and
  `NotIgnoredCorrect`, which have the hypothesis `QueryMayFail = FALSE`: a walk cannot
  tell a failed query from a node without a port (section 3).
* **PosixIOProofs**.  `DeadlineClose` holds of the values that a wait keeps, so the
  invariant says where they come from: `WaitOK`, that `start` is `hs_millis()` of the
  moment at which the call began and `left` what `hs_adjust_timeout()` gave when
  poll() was last entered; `Shape`, the fields that a call has at each point; and
  `RefOK`, the reference and the state of the handle.  `MillisLag` bounds how far
  `hs_millis()` is behind the time, and `AdjustClose` carries the bound over to the
  deadline.  `ReportWhole` follows from what `hs_hid_read()` gives in each case
  (`HidReadSize`) and from the two answers of the kernel for a feature report.

  The parser reads bytes, `Meaning` speaks of items.  `ParsesWholeItems` says that they
  agree for every sequence of well-formed items, long ones included, cut after any
  number of bytes.  `Agrees` relates what the loop knows to the first `m` items: `i` is
  the end of their bytes, the depth, the flag and the last usages outside of
  collections are theirs.  `AgreesStep` is one turn at a whole item, `Follows` the
  induction over the turns, `Stops` the turn at the cut, after which nothing changes
  any more, and `WholeIs` that `Whole` is the number of items before it.
  `ParsedRight` is the same for a handle, and with `KeptType`, what
  `hs_descriptor_set_remove()` keeps, gives the types (`More`).  Assumed of the
  descriptors is that they are sequences of well-formed items.  Theorems:
  `DeadlineCloseCorrect`, `OneReference`, `ReportWholeCorrect`, `ParsesWholeItems`,
  `ParsedRightCorrect`, `TypeCorrect`.

Recursive functions and induction.  The induction theorems of the library take a
predicate as a parameter, which the provers cannot instantiate.  Where an argument
goes over the turns of a loop or the height of a tree, the proofs use instead that a set
of natural numbers that is not empty has a smallest element, applied to the set of
counterexamples (`SmallestOf`, from `WFMin`).  That a recursive definition has a solution is
proved the same way: each initial part has exactly one (`Iterate`, `IterateOnce`).

All safety invariants and action properties that the runs check are proved, under the
hypotheses named above (`CarefulApp`, `QueryMayFail = FALSE`).
Only model-checked are the liveness properties: fairness and ENABLED are out of the
reach of the provers.

## 5. Not modelled

* The bytes of reports, strings and paths; formatting of messages and the log.
* What a platform asks a device for (udev attributes, string descriptors, IOKit
  properties): one step that reports the device, skips it or fails.
* Serial settings (`hs_serial_set_attributes()`): tables of constants and one call
  of the system.
* The hash table: sequential code behind the set of `Monitor`.
* The stack of masked errors: it decides only which errors are logged.
* `platform_win32.c`, `platform_darwin.c`, `compat.c`: single calls of the system
  and replacements for C library functions.
* Memory and handles that only one thread sees and whose loss has no other effect.
* A callback that calls `hs_monitor_refresh()` or `hs_monitor_free()`: no document
  allows it.

The data races that are part of the models are those whose outcome matters
(`h->hid`, `monitor->ret`, the pipe, the event), each as a choice between its
outcomes.

## 6. Plan

What is left:

1. The hash table, with nodes and pointers, as an implementation of the set that
   `Monitor` uses.
