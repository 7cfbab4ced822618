# SeaBreeze and the STS daemon in TLA+

This directory holds TLA+ specifications of the parts of this repository that
keep state and have concurrency or failure to cope with, the TLC
configurations that check small instances of them, and proofs for TLAPS.
Every definition is translated from the source; `PROJECT.json` lists, under
`map`, the lines each one stands for. Paths below are relative to `src/`.

## The system

The repository has two layers that matter here.

*SeaBreeze* (`SeaBreeze/`) is a library that finds Ocean Optics spectrometers
on USB, network and RS232 and offers their features. *The STS daemon*
(`daemons/STS-Dev-Kit/`) links the library and serves clients over TCP: it sets
parameters, takes spectra, and runs timed sequences of acquisitions that it
saves to files.

    client --TCP--> Connection -> RequestHandler -> OceanHandler -> Sequence -+
                       (io thread: io_service::run)                 |         |
                                                       Spectrometer |  timer  |
                                                            |       v handlers
                                         Submit -> ActiveObject's queue (128 jobs)
                                                            |
                                   worker thread, one per spectrometer: Run
                                                            |
      SeaBreezeWrapper (older API) or                       |
      SeaBreeze API  (SeaBreezeAPI_Impl: adapters by ID)  <-+
         -> DeviceAdapter -> Device -> OOIUSBInterface -> USB -> NativeUSBLinux
         -> features -> OBP exchanges -> transfer helpers     (table, handles)

| part | state it keeps | operations | interacts with | module |
|---|---|---|---|---|
| `ActiveObject` | circular buffer, count of unread entries, mutex, two condition variables, thread | `Send`, `Run`, destructor | io thread (sender), worker, main thread (destructor) | `ActiveObject` |
| `Sequence` + `FileManager` | state, maximum, count, timer; save mode, running flag, output stream | start, pause, resume, stop, set maximum, set save mode, save spectrum; timer handler `GetSpectrum`; job `SaveSequenceEntry` | io thread calls it, worker calls it back, no lock in between | `StsSequence` |
| connections and requests (`BaseConnectionHandler`, `Connection`, `RequestHandler`, `OceanHandler`, `main`) | free connections, pending accept, response buffer, maps of spectrometers and sequences | accept, read, dispatch, respond, shut down | io thread and every worker | `StsDaemon` |
| `Spectrometer` (daemon) | its copies of the settings, wavelengths, spectrum, status | one handler per command | worker only, through `Submit`; library below | `StsSpectrometer` |
| OBP exchanges and transfer helpers | the exchange in progress, a buffer, what is left on the bus | query, command, spectrum | device, bus | `ObpTransaction` |
| device registry (`SeaBreezeAPI_Impl.cpp` 59-323 and what it calls) | adapters, the counter of IDs, openedBus, USB descriptor | probe, open, close, add a location, shut down | discovery thread, worker threads | `DeviceRegistry` |
| `SeaBreezeWrapper` | fixed table of open devices | open, close, use, shut down | one caller; native layer | `SeaBreezeWrapper` |
| native USB (`NativeUSBLinux.c`) | static table of enumerated devices, count, next ID, handles | `USBProbeDevices`, `USBOpen`, `USBClose`, transfers | bus (libusb 0.1), holders of handles | `UsbNative` |
| OOI exchanges | none beyond the exchange | fixed-length transfers | transports | - |
| opening of sockets and serial ports | socket or port | open, close | operating system | - |
| features of the API | none beyond the device | one exchange each | protocols | - |
| `heliospectraSTSdaemon` | polling loop, command file | | wrapper | - |

What is hard in it:

* *Concurrency.* Two threads change a `Sequence` without a lock; a condition
  variable is notified after its mutex is released; the io thread and every
  worker fill one response buffer and share one list of connections; one thread
  may probe while others use the devices found.
* *Ordering.* Timer completions, requests and jobs reach the sequence in queues
  of their own; jobs queued before a stop or a new start run after it; the
  daemon destroys its sequences before the workers that use them; a request for
  a spectrum and the read of it are two calls.
* *The environment.* Devices are attached, removed and exchanged between any two
  calls, while the native table and libusb's snapshot are only refreshed by a
  probe; a read is short or fails, a client leaves in the middle of a request.
* *Copies.* A setting lives in the device, in the library and in the daemon, and
  an exchange can fail between the three.
* *Limits.* The queue of jobs blocks the io thread when it is full; the table of
  devices makes a probe fail half way.
* *Ownership by hand.* Handles, adapters, connections and timers are freed by
  one part while another still has the pointer.

The properties that make each part correct: the active object runs every job
once and in order and loses no wake-up; a sequence never saves more than its
maximum, never reuses a number, never falls silent, ends, and has its file open
while it runs; the daemon has each connection in one place and one
accept on its way, serves every request and ends with all jobs done; the copies
of a setting agree as far as they can and no spectrum has the wrong length; an
exchange leaves the bus empty and returns the device's own verdict; the native
table is consistent and its handles live exactly as long as they are held; the
registry has one adapter per device, IDs that keep their meaning, and no handle
that leaks; an index of the wrapper stays on its device. `PROJECT.json` lists
the hazards, each at its line, with the properties that watch it.

## The modules

How they are composed: `JobQueue` is the promise `ActiveObject` implements, and
the queue between the two threads of `StsSequence` and between those of
`StsDaemon`. `ObpRpc` is the promise `ObpTransaction` implements, and the
exchanges of `StsSpectrometer` are its outcomes. `DeviceRegistry` and
`SeaBreezeWrapper` both EXTEND `UsbNative` and call its actions.

### `JobQueue` and `ActiveObject`

`JobQueue` is the promise: a bounded first-in first-out queue and one worker.
`ActiveObject` is the code. `m_container` is the circular buffer, newest entry
first; entries already read stay in it until they are overwritten, which is why
`m_unread` says how many are waiting and the oldest of them is at
`m_unread - 1`. What happens under the lock is one action (`Push`, `PushWait`,
`Pop`, `PopWait`); the notification after the unlock is another
(`NotifyNotEmpty`, `NotifyNotFull`), so other threads run in between.
`condition_variable::wait` with a predicate may wake spuriously; that only leads
back to the test of the predicate and to sleep, so it adds no reachable state.
The destructor (`Destroy`, then as any sender, then `Join`) starts when no
thread is inside `Send`, which is how the daemon uses it: `io_service::run` has
returned by then. `ImplementsQueue` is the refinement: the waiting part of the
buffer, read backwards, is the abstract queue.

### `StsSequence`

`Sequence.cpp` with its `FileManager`, between the io thread and the worker.
The io thread takes handlers from `ioq`, each a request or a completion of a
timer wait; the worker takes jobs from `jobs`, which is the abstract queue of
`JobQueue` (its refinement is proved, so the buffer does not return here). Every
access to a field the other thread can see is a step: starting is six steps,
`++m_acquisitionCount` is a load and a store, a stop on the worker reads the
timer pointer and then uses it. `FileManager::OnAcquisition` is six: the call
with its number, the test of the mode, the open, the write, the second test and
the close (`OnAcquisition` to `CloseSequenceNumber`), with the steps of `OnStart`,
`OnStop` and `SetSaveMode` on the io thread between any two. A job that is still
queued when a sequence is stopped saves its acquisition later, even into a new
sequence, with the number it was given before. The io thread reads the mode
together with what it does by it, since only that thread changes it. Two threads
inside the `ofstream` at a time is undefined in C++; here its operations take
effect one at a time, in either order.

The timer follows boost::asio: `cancel`, `expires_at` and `expires_from_now`
complete the pending wait with `operation_aborted`, whose handler is posted
behind those already there; destroying the timer does the same, and leaves
handlers with a dangling pointer (`"dangling"`). The code's handler does not
look at its error code, so an aborted wait is treated as one that elapsed.
Use of a null or destroyed timer sets `fault`, after which the program has no
behaviour. `saved`, `last`, `limit` and `crossed` are histories for the
properties; `crossed` says that the mode was changed in the middle of an
`OnAcquisition`. `FileFollowsSequence` is promised until then: a client that is
allowed to set the mode, since the sequence is stopped, can set it while a late
acquisition is being saved, and the file then stays open or is closed under the
next sequence (`SingleFileAppends` below).

Left out: responses and result codes, the cached spectrum, file names, the
settings no modelled step reads. `StartRefused` is the refusal of an interval
that is too short, as a free choice. A file whose stream is closed opens.

### `StsDaemon`

`BaseConnectionHandler`, `Connection`, `RequestHandler`, `OceanHandler` and the
end of `main`. A connection is a number (`Connections`), `peer` the client its
socket leads to; `free` is `m_connection`, `accepting` the connection of the
pending `async_accept`, `posted` a posted `QueueAcceptConnection`. `thread`
says where the io thread (`Io`) and each worker are and with which job. The io
thread accepts, blocks in the read of the request, and then answers, submits
(blocking while the queue is full) or closes, and posts the next accept.
`NotifyResponse` is four steps on whichever thread: fill the one
`m_responseBuffer`, write it, close the socket, and push the connection to the
list. A response written while another thread is between its fill and its write
is either response or a mixture (`InBuffer`), or its resize has moved the bytes
under the other's copy or write (`BufferShared`). That, two threads inside
`push_back` or `pop_front` at a time, a save or an entry that runs on a destroyed
sequence, and a device that is closed while a worker is in an exchange with it
(`DeviceInUse`) are undefined and end the behaviour (`fault`); the last and the
resize may also go unnoticed. What is checked of the daemon is therefore checked
up to the first such fault, and `NoDestroyedSequence` below is one that happens.
To execute a job and to answer it are two calls of the worker; they are one step
(`Execute`) up to the fill of the buffer, since nothing another thread does can
be seen between them. A client may leave at any time;
a read then throws and takes the daemon down, a write may throw, which on a
worker aborts the process.

Taking it down is `Stop` (a signal) or an exception of the io thread, then
`DestroySequences`, `CloseDevices`, and for each spectrometer `SendDone` and
`Join`, in the order of `OceanHandler`'s members. `TimerFires` stands for a
running sequence; what a sequence does is `StsSequence`'s matter. Parsing is a
choice of the request's kind and target; the forks of `main` are left out.

### `StsSpectrometer`

The handlers of the daemon's `Spectrometer` and the save of an entry, one after
the other on the worker. `device` has the settings of the instrument, `factor`
that of the library's pixel binning feature, `sts` the daemon's members. Every
exchange is `ok`, `refused`, `undelivered` or `unconfirmed` (the device has
acted, and the answer did not come), so a change that has three parts can fail
in any of them. `Restart` starts the daemon again, with or without a power cycle
of the device. Averaging and boxcar are done on symbolic pixels: a pixel's value
is the set of device pixels that went into it, and `Old` is whatever was in the
memory before, so that reading behind the sliding window or beyond an array
shows. `inStep` is false once a reply was not read to its end. The calls then go
on, each fails or is refused, also those of a daemon started again, until the
device is powered off. That is short of what can happen: a call may also take an
older reply for its own, which only `ObpTransaction` has, and which the
properties here say nothing about. `SetDefaultPixelBinningFactor` is not in the
daemon's map of commands (`Spectrometer.cpp:108`); it stands for any program that
has set the default the device starts with.

### `ObpTransaction` and `ObpRpc`

`ObpRpc` is the promise: one request at a time, an answer or a failure, and
while nothing has gone wrong the answer is that to the last request.
`ObpTransaction` is `queryDevice`, `sendCommandToDevice` and the transfer of a
spectrum over the three transfer helpers. A reply is cut into cells: 44 bytes of
header, 20 bytes of payload each, 20 bytes of checksum and footer. The first
read of an exchange asks for two cells, the second for the rest of an extended
payload; a spectrum is read in one piece into a buffer that keeps what the last
exchange left in it (`Into`). A USB read ends with the packet that ends a reply
(`UsbTaken`), the loops of RS232 and TCP go on until they have all they asked
for (`StreamTaken`). Faults: a write that throws, before or after the request got
through; a write that is cut short, which the code notices and ignores, and the
device drops; a reply that is lost, or cut short at the end of a cell; a read
that throws; a TCP read that returns early and whose short count the code
ignores. A cut inside a cell is not modelled apart: inside the header it leaves
a message that does not parse and nothing behind it, as a lost reply does; after
it, one without its trailer, as a cut at the end of a cell does. The device may refuse any request.

### `UsbNative`

`NativeUSBLinux.c`. A location on the bus holds a product or nothing
(`attached`); `tree` is libusb's snapshot, which only `USBProbeDevices`
refreshes. `USBProbeDevices` is one action with two outcomes: `ProbeFits` (new
devices get entries, entries of the product that were not seen are purged and
their handles freed, marks are cleared, the count is recomputed) and `ProbeFull`
(the loop stops at the first new device without a free slot; what was marked
stays marked). `USBOpen`, `USBClose` and `Transfer` keep the table's pointers.
A handle that is used after it was freed sets `fault`. Searches end at
`device_count` valid entries, as in the code, and never assume it is exact.

Abstractions: a native call is one step (the library has no lock, so two threads
inside it at once are outside its contract); one vendor ID; `max_devices` is
left out since callers pass the table's own bound of 127; freed memory is not
given out again, so that a dangling handle is recognised; `usb_reset` does not
change what is attached. On Linux a location is the bus and device number, which
the kernel assigns in rising order and uses again when they wrap; that is when
one location comes to hold another product.

### `DeviceRegistry`

Extends `UsbNative` with the adapters of `SeaBreezeAPI_Impl` and the path of
`open` and `close` through `DeviceAdapter`, `Device`, `OOIUSBInterface` and
`USB`. `probeDevices` is a sequence of actions, one per device type
(`ProbeType`) and one per adapter deleted (`Verify`), so the bus and a worker can
act in between. `openDevice` is two actions: `setLocation`, which replaces the
USB object and closes the old one, and the open proper, which can fail and then
leaves an `openedBus` of before as it is. `getDeviceByID` is a step of its own
(`WorkerCalls`): an adapter deleted after it is used by `UseDeleted`, which ends
the behaviour. Network and RS232 devices are only counted, since they share the
counter of IDs. A worker is a thread with one call at a time, on any device.

### `SeaBreezeWrapper`

Extends `UsbNative` with `devices[]` and `openSpectrometer`, which counts
devices type by type up to the index (`Count`), counts those of the type again
(`Recount`), lists them (`Locate`), and opens the device twice: `Device::open`,
whose result is ignored (`DeviceOpen`), then `USB::open`, which closes what it
has (`ReopenCloses`, `Reopen`); what was open under the index is closed when the
new device is stored (`Store`). The bus may change between any two of these. The
functions for features look the device up and make one exchange, `UseSpectrometer`.
`fresh`, `steady` and `settled` record since when the bus has not changed, for
the properties. A type is fresh once a probe for it has succeeded on a table
without marks (`Marked`): a probe that fails on a full table leaves entries
marked, and the next one of their product keeps and reports them though the
device has gone. Without that condition TLC finds a violation of `SweepOpensAll`
with six changes of a bus of three locations and a table of two entries.

## The runs

| run | instance | shows |
|---|---|---|
| `active_object` | 3 senders, 4 jobs, capacity 2, fair | jobs in order and once, no lost wake-up, drained destructor, refinement of `JobQueue`, every job accepted runs, the destructor returns |
| `sts_any` | a client that sends anything at any time, maxima 1 and 2, queue of 1, 3 requests, 5 acquisitions, a file per acquisition to begin with, fair | the maximum, the numbering, an active sequence has a wait, ends, and every request is answered |
| `sts_careful` | a client that looks before it sends, no maximum, queue of 2, 6 requests, 4 acquisitions | no timer fault, the file follows the sequence while no mode is set in the middle of a save, acquisitions are paced by the interval |
| `sts_daemon` | 2 clients, 1 spectrometer, queue of 1, 3 connections, 1 failed accept, 1 entry of a sequence, fair | connections exclusive and recycled, one accept on its way, requests served, the daemon ends, drained |
| `sts_spectrometer` | 8 pixels, factors 0 and 1, boxcar 0 and 1, 1 or 2 scans, 1 fault, 1 restart | the copies agree, success is in force, spectra have the right length, the sliding window computes the boxcar |
| `obp` | 4 calls, 1 fault of any kind, each bus; a short and a long query, a command, a spectrum; fair | exchanges in step, results are verdicts, answers genuine, calls return, refinement of `ObpRpc` |
| `registry_any` | 2 types, 2 locations, table of 2, discovery and a worker together, removal at any time, 1 change of the bus, 2 opens, 3 IDs | handles owned, one adapter per device, IDs keep their meaning |
| `registry_careful` | the same with one thread, 3 changes of the bus, no removal while open | two calm probes make the registry exact; a probe reports what is there and nothing that has gone, and never takes away an open device |
| `wrapper` | 3 locations, 2 types, table of 2, 3 indexes, 2 changes of the bus, 4 opens | table consistent, handles owned, an index names its device, a sweep opens all, an open index stays |
| `sts_stopped_has_no_wait`, `daemon_response_own`, `obp_spectrum_returned_once` | | counterexamples, see Findings |

The bounds, and why they are enough. *Queues of 1 and 2 for 128*: the code
depends on the queue being empty, full or in between; with more jobs (four) than
room and three senders, two threads sleep at once and the ring is overwritten;
a queue of one makes the io thread block as often as it can. *Three requests*:
any pair of commands can be in the io thread's queue together with a timer's
completion while a third has just been run. *A file per acquisition to begin
with* (`MultipleSpec`): the mode in which an acquisition takes the most steps; a
client may set the other one, and `sts_careful` starts with either; the safety
properties are proved for both. *Maximum of 2*: jobs can be queued
below, at and above it. *Two clients, three connections*: a connection is used,
recycled and used again by another client while a third request is under way.
*Eight pixels, factor 1, width 1*: the window of three is filled, slides and
stops, with both readout lengths. *Four calls, one fault*: a spectrum before the
fault, the exchange it hits, and two after it; with two faults the payload of a
query can be made up of two replies, which no code could tell. *Table of 2,
three locations, two products*: the table overflows with an entry that has gone
still in it, and a location changes its product. *Hotplugs, Opens, Requests,
Acquisitions, MaxDeviceID, MaxCalls, MaxFaults, MaxRestarts, MaxRequests,
MaxAcceptErrors, MaxEntries* bound counters that have no bound in the code;
their values let a device be removed, replaced and opened again, and (with three
changes in `registry_careful`) let both types be stale at the same time. The
initial bus of the registry runs is arbitrary, so one change is already one more
than what a run starts from; `MCInit` of the wrapper fixes a bus with two
devices, which the changes then fill or rearrange. With a single calm probe
`RegistryExact` fails, so its precondition is needed and is met.

`CHECK_DEADLOCK FALSE` is set where a run may stop: when nobody sends any more,
when a bound is used up, or when the behaviour ended in a fault.

*Fairness*, in `active_object`, `sts_any`, `sts_daemon` and `obp` only: a thread
inside `Send`, the destructor or `Run` goes on (the scheduler stops no thread for
good, and every lock section is finite); the io thread and the workers go on; a
timer that is not cancelled expires; a client that has connected sends its
request or leaves, since the io thread blocks in its read until one happens; the
device answers, and a read that can be served returns. No fairness is assumed of
clients otherwise: nobody has to connect, send a request or destroy an object,
and nothing has to fail. A sender that waits for room is woken by the worker,
which is weakly fair; with several senders a woken one may find the room taken
and sleep again, and the run shows that it gets in since jobs are finite.
`Starved` in `CallsReturn` names the reads that wait for cells nobody will send.

## The proofs

All hold for every value of the constants; the assumptions are the named
`ASSUME`s of the modules, which TLC evaluates in every run. Each invariant was
checked with TLC before it was proved. Listed are the theorems; the lemmas are
one per action, and under it one per part of the invariant it can disturb.

`ActiveObjectProofs`, for any senders, jobs and capacity:

* `TypeCorrect`: `TypeOK` is inductive only together with `Hands` (what a thread
  holds fits where it is) and `Alone` (once the owner is in the destructor all
  others are idle); the three are `Control`.
* `JobsInOrderOnce` and `DestructorDrains`: the inductive invariant `IInv` adds
  `InOrderOnce`, that `Done` can only be the last message accepted (`DoneLast`),
  and that a worker that has finished has executed it (`Ended`). The lemmas about
  the ring (`PushFrontProperties`, `NewestReversed`, `PushWaiting`, `PopWaiting`)
  say what a push and a pop do to the waiting part, which is where the index
  arithmetic is.
* `WakeupsKept`: one awake sender does not cover several free places, so the
  invariant counts (`Announced`): while senders sleep, the free places are no
  more than the senders about to use one, plus the one whose announcement is
  under way.
* `RefinesQueue`: initial states map to initial states; `Push` maps to `Accept`,
  `Pop` to `Take`, `Execute` to `Finish`, and every other step stutters.

`StsSequenceProofs`, for any clients, maxima, capacity and bounds:

* `TypeCorrect`.
* `MaximumNeverExceeded` and `NumbersAreNew`: the maximum is tested, the number
  taken, the file written and the count stored in separate steps, and can be changed or the count reset in between.
  `CountCovers` relates what is saved to the count, or to the copy the worker is
  about to store; `TestedFits` says that an acquisition that passed the test
  still fits after a reset or a new maximum; `LimitCovers` that the loosest
  maximum since the reset covers the present one. That a stored count may be one
  from before the reset does no harm, because it is never too small; that is the
  heart of the argument.
* `ActiveNeverSilent`: needs only that the io thread never cancels for a pause
  while the state is ACTIVE (`PausedMeanwhile`), since only the io thread makes
  it ACTIVE.
* `CarefulNeverFault`, `FileKept` and `IntervalPaces`, under the hypothesis
  `OneAtATime` (no maximum, and one client that looks before it sends), which
  is what `sts_careful` runs. The invariant `Calm` says that a request is in one
  place at a time (`Sole`), that the one in the queue still suits the state when
  it is taken (`AsksRight`), and that an active sequence has one wait or one
  completion that is due and never both (`TimerCalm`). `FileCalm` says what the
  stream is at each place of the two halves of `OnStart` and `OnStop`, and
  `StreamCalm` at each place of a save on the worker: while no mode is set in the
  middle of one (`crossed`), the worker opens a stream only where the io thread
  leaves it closed. `FileKept` is about the behaviours up to then. A wait
  may end between a pause and its cancel; that is why `TimerCalm` excepts it.

`StsDaemonProofs`, for any clients, spectrometers, capacity and bounds:

* `DaemonTypeCorrect`, `ConnectionsAreExclusive`, `AcceptsAreChained`,
  `EndIsDrained`. The inductive invariant adds what a thread can have in hand
  where it is (`HandsOK`), that jobs carry a connection exactly when somebody
  waits for their response (`QueueJobs`), that no thread has a connection that
  was not made (`Made`), that a client with an open socket waits for nothing
  else (`PeersConnected`), what main has come to (`StageOK`), and that `m_done`
  is the last job of a worker and only the destructor sends it (`DoneLast`).
  Exclusiveness is pairwise over the four places a connection can be in; a step
  moves one connection from one place to another, and the lemmas are about such
  moves (`Enqueues` and its like).
* `ConnectionsAreRecycled`: no connection that was made is lost while the daemon
  runs: each is free, on its way, or with a thread or a job that will give it
  back. `Held` says which of the places has a connection; the argument follows
  the one connection a step moves, and is the other half of exclusiveness.

`StsSpectrometerProofs`, for any ranges, number of pixels and largest factor:

* `SpectrometerTypeCorrect`, `SuccessInForce` (inductive with the type: the
  library and the daemon take a new factor together or not at all) and
  `DeviceAgreed`, with `StepCalm`: until the first fault the device sends no more
  than the library reads, so every exchange is in step.
* `SpectraWhole`: what is read has the length the daemon's vector has, since a
  reply of another binning is refused and the copies agree.
* `BoxcarRight`: after `k` turns of the loop (`Sliding`) the window still has the
  `2 * width` newest pixels, each at its place modulo the size of the window, and
  `k` pixels are done; the next turn (`TurnSlides`) reads a pixel that no turn has
  overwritten and puts it in the one place the others do not need
  (`PlacesDiffer`, `PlacesFilled`). The turns are a recursive function (`Turns`),
  whose existence (`LoopExists`) and values follow by induction on their number;
  the library's induction rule takes an operator the provers cannot instantiate,
  so the step is made on the least number for which the claim fails
  (`LeastNumber`).

`UsbNativeProofs`, for any locations, products and size of the table:

* `UsbTypeCorrect` and `TableStaysConsistent`. Three counts must come out right:
  new devices take free slots and fresh IDs in order, the probe that finds the
  table full has filled it, and the count after a purge is that of the entries.
  `RankInjective` and `RankOnto` say that ranking a finite set of numbers is a
  bijection to `1 .. n`; `ScanFacts` and `ScanDiffers` use it on slots and on
  IDs; `FullFacts` that a failed probe leaves no free slot.
* `ReportsAreExact`, under `TableFitsBus`: no more locations than entries. The
  code's table has 127 entries, as many as a USB bus has addresses; a machine with
  several busses could exceed it. Then no mark outlives a probe (`Unmarked`), so
  no probe fails (`ProbeFitsBus`), and what a probe does can be said device by
  device (`ScanMarks`, `ProbeDoes`). The hypothesis is needed: with 3 locations
  and 2 entries TLC finds a failed probe whose marks save an entry from the next
  purge, and a device that has gone is reported.
* `HeldHandlesLive`, under `~SurpriseRemoval` (no device goes away or is exchanged
  while it is open): every handle the callers hold is that of a live entry, and a
  freed one is never used. `InUsePresent` is the half that the bus contributes: a
  device in use is at its location, so no probe purges it. Marks of a failed probe
  only save entries (`ProbeKeeps`, `FullKeeps`), so no room in the table is needed.

`DeviceRegistryProofs`, for any bus, types and both ways of calling:

* `RegistryTypeCorrect`, `NoHandleLeaks`, `OneAdapterEach`, `MeaningKept`, with
  the invariant of the native layer, that no ID is ahead of the counter
  (`IDsGivenOut`), and that the adapter a worker is about to open has let go of
  its old handle (`Control`).
* `UsesNativeLayer`: every behaviour of the registry is one of `UsbNative`, so
  what is proved of the layer holds under it.
* `RegistryBecomesExact`, under `TableFitsBus`: two probes in a row on a bus that
  stays the same leave exactly one adapter per device. What the first of them
  leaves behind differs by device type and by how far the probe has come
  (`Done`): after it the table is right for the types it has been through
  (`TableRight`), every device of those has an adapter (`AllFound`) and no adapter
  is without a device (`NoneLost`); that the second probe of a type finds nothing
  to do is what makes the order of the types harmless.
* `OpenDevicesStay`, under `TableFitsBus` and `~SurpriseRemoval`: no probe takes
  away an adapter whose device is open, also not one between `setLocation` and the
  open proper. `NoFreedHandleUsed`, under `~SurpriseRemoval` alone: no call reaches
  a freed handle. They hold for concurrent workers too, which no run has together with
  careful removal.

`SeaBreezeWrapperProofs`, for any bus, types and number of indexes:

* `WrapperTypeCorrect`, `NoDescriptorLeaks`, `IndexKeepsDevice`. The invariant
  adds where the exemplar of `openSpectrometer` has a handle: from the first open
  to the close before the second, and from the second until it is stored.
  `InstanceFound` shows that the device `Locate` takes exists: the IDs found are
  as many as their entries, so one of them has the rank asked for.
* `WrapperUsesNativeLayer` and, from it and `TableStaysConsistent`,
  `WrapperKeepsTable`.
* `IndexesNameDevices`, without any hypothesis, and `NoDeviceLeftOut`, under
  `~SurpriseRemoval`. Once every type is fresh and the table fits, a probe drops
  nothing and adds entries of its own type only (`Grows`, `ProbeGrows`). What is
  counted of the types before, `UpTo`, therefore stays as it is once these are
  `Complete`, which is what the loop of `openSpectrometer` has established for all
  types it has passed (`CallPlaced`, `FoundCount`); the entry of the instance it
  takes then has exactly `index` entries before it (`InstanceNamed`), and keeps
  them through every later probe (`Names`, `NamesGrow`), open and close
  (`QuietIndex`). A sweep that has run out has counted no more entries than its
  index (`Swept`); each open index below has an entry of its own, so every entry
  is taken (`SweptAll`). An open device that leaves breaks the last step, since its
  index keeps a handle without an entry.

`ObpTransactionProofs`, for any message types, lengths of replies, calls and faults:

* `ObpTypeCorrect`, inductive together with `Tracked`: every cell on the bus and
  in the buffers is blank or of a reply to a request that was made.
* `ExchangesInSync`, `ResultsAreVerdicts` and `RefinesRpc`, for callers that read a
  spectrum they asked for before anything else (`Symmetric`, a hypothesis of the
  three). `OnItsWay` says what the bus has while nothing has gone wrong: the last
  request, or the whole of its reply, or what is left of it after the header.
  `HeaderRead`, `RestRead` and `SpectrumRead` then show that a read takes exactly
  that, on each bus (`OneReplyTaken`), and what the host makes of it. They rest on
  `LengthAssumption`: an acknowledgement has no payload, since
  `sendCommandToDevice` reads 64 bytes only, and a spectrum has some, by which
  the transfer tells it from a refusal.
* `SuccessesWereGiven`, without any hypothesis: success is reported only for an
  answer the device gave to a request that was made, an acknowledgement for a
  command and data for the rest. `GivenInv` ties every cell to the verdict of its
  request; a verdict never changes since requests wait in the order they were
  made and without an answer (`Unanswered`).
* `AnswersAreGenuine`, for callers as above and at most one fault: moreover the
  payload of a query is of one reply. After the fault the bus may have lost the
  first cells of a reply, but every header on it is followed by its own payload
  and trailer (`Intact`), and a host that missed the second cell of a reply reads
  a payload cell where it looks for the trailer (`RestOnBus`); or the reply that
  is read was cut short, and nothing else is on its way (`CutShort`). With two
  faults both can happen to one query and the theorem is false, as TLC shows.

*Model-checked only*: all liveness, which is out of the prover's reach
(`AcceptedRuns`, `DestructorReturns`, `SequenceEnds`, `RequestsAnswered`,
`RequestsServed`, `StopEnds`, `CallsReturn`).

## Findings

* `sts_stopped_has_no_wait`: the worker's stop cancels the timer first and sets
  the state last. In between the io thread can run the aborted wait's handler,
  which finds the sequence active and arms the timer again.
* `daemon_response_own`: the io thread and a worker, or two workers, are both
  between the fill of the one `m_responseBuffer` and its write; a client gets the
  response to another one's request.
* `obp_spectrum_returned_once`: over TCP a spectrum is asked for and read. The
  next request for one is sent, and its read returns early; the short count is
  ignored, the buffer of the exchange still has the previous reply, which parses,
  and the spectrum the caller has already is returned again as the new one. In the
  run the other query's reply is shorter than a spectrum, so no reply of another
  length plays a part.

Other disagreements found while modelling. Each is stated as a property of its
module; a configuration that lists it as its only property shows the violation.

| property | with | what happens |
|---|---|---|
| `UsbNative!DiscoversAll` | `UsbSpec` or `registry_any` | a device at a location where the table has another product is not discovered (`NativeUSB.h`) |
| `DeviceRegistry!FreedHandleUnused` | `registry_any` | a probe after an open device was unplugged frees the handle and then closes it again through the adapter |
| `DeviceRegistry!DeletedAdapterUnused` | `registry_any` | a probe deletes an adapter that a worker's call is using, in the division of threads `SeaBreezeAPI.h` advises |
| `StsSequence!SingleFileAppends` | `sts_careful` | a late acquisition of a stopped sequence has opened its file when the client sets single-file mode and starts: the start opens an open stream, or the worker closes the file of the new sequence, and what is written goes nowhere (`FileManager.cpp:60`, 83) |
| `StsDaemon!NoDestroyedSequence` | `sts_daemon` | a job that saves is still queued when the daemon is taken down, and runs on a sequence that has been destroyed (`OceanHandler.h:74`) |
| `StsSpectrometer!AnsweredTimeIsSet` | `sts_spectrometer` | the device refuses an integration time, nobody looks at the refusal, and the daemon answers with success (`OBPSpectrometerProtocol.cpp:339`) |
| `StsSequence!PacedByTimer` | `sts_any` | resuming a running sequence aborts the wait, and each aborted wait re-arms the timer, aborts again and submits an acquisition |
| `StsSpectrometer!SpectrumIsCurrent` | `sts_spectrometer` | with binning `GET_SPECTRUM` slides the boxcar over the whole of `m_spectrum`, so its last pixels come from an earlier acquisition (`Spectrometer.cpp:406`) |

Noticed while reading, outside of what a property here could state:
`Spectrometer::GetPixelBinningFactor` answers with the factor as a control
character and not as a digit; `m_resultCode` is read before anything sets it
(`Spectrometer` has no initialiser for it, modelled as a choice); a failed
acquisition of a sequence is saved as an entry of zeros with a number of its own
(`failed` in `saved`); `SET_INTEGRATION_TIME` caches the time before the device
has accepted it; `seabreeze_get_error_string_maximum_length` looks at 8 of the 10
messages. Comments of `Sequence.h` the code does not follow: line 324 calls the
count that of saved acquisitions, but it goes on when a late job saves nothing;
line 229 says a pause is ignored unless a sequence runs, but it sets the state;
line 219 says `SAVE_SPECTRUM` is ignored while a sequence runs, but it is
carried out. When the table of the native layer is full with an entry that has
gone, a probe for a new device of that product fails before it purges, and so
does every later one (`NativeUSBLinux.c:315`); hence `FitsTable` in the
properties of the wrapper. Such a failure also leaves its marks behind, and a
later probe that succeeds reports a device that has gone; hence `Marked`.

## What is not modelled

* *Features of the devices and their dispatch* (`vendors/OceanOptics/features`,
  most of `DeviceAdapter.cpp`, `SeaBreezeAPI_Impl.cpp` and `SeaBreezeWrapper.cpp`,
  and the headers in front of them): one function per feature and bus that looks
  a device up by its ID or index, finds the feature, makes one exchange and
  copies an error code. The look-up is in `DeviceRegistry` (`WorkerCalls`) and
  `SeaBreezeWrapper` (`UseSpectrometer`), the exchange in `ObpTransaction`; what
  is left is formatting without state. This is the bulk of the repository's
  lines, together with the tables of device types, the samples, and the C# tools
  in `util/`; what the map covers is therefore a small share of all lines, and
  most of those with state that outlives a call.
* *OOI exchanges*: fixed-length transfers with neither headers nor
  acknowledgements, nothing but the `Transfer` that `ObpTransaction` has.
* *Opening of sockets and serial ports*: a file descriptor opened and closed by
  one thread.
* *Windows and macOS native layers*: other implementations of `NativeUSB.h`.
* *`heliospectraSTSdaemon`*: one thread that reads a command file and polls.
* *File names, configuration files, user interfaces, installers.* The width of a
  number in a file name (`Sequence.cpp:166`) and the interval in microseconds
  (`Sequence.cpp:417`) are arithmetic edges of settings nothing else depends on;
  `PROJECT.json` lists them as hazards without a property.

`PROJECT.json` gives the reason for each part.
