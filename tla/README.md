# A formal model of the Sweep SDK

The Sweep SDK drives Scanse's Sweep, a rotating laser range finder on a serial
line.  `libsweep` (C++ with a C interface) talks the sensor's protocol and
collects its readings into scans of one rotation each; `sweeppy`, `sweepjs` and
`jsweep` make it available to Python, Node.js and Java.  This directory holds
TLA+ modules that model the library, its bindings, its serial ports and the
sensor at the other end of the line, an abstract specification of its interface
that two of the modules implement, configurations with which TLC checks them,
and theorems that TLAPS proves.  `PROJECT.json` maps each definition to the lines
it models and lists runs, mutants, hazards, findings and theorems.

    tlc -workers 2 -config SweepDevice.cfg SweepDevice.tla
    tlapm ScanQueueProofs.tla

## 1. The system

| part | source | state | operations |
|------|--------|-------|------------|
| scan queue | `libsweep/include/queue.hpp` | container, mutex, condition variable | `enqueue`, `dequeue`, `clear` |
| scan assembly | `sweep_device_accumulate_scans`, `sweep.cc` 99-137 | the readings of the scan under way | reads packets until told to stop |
| device, sessions | `sweep.cc` | `is_scanning`, `stop_thread`, the queue, detached workers | construct, destruct, start, stop, `get_scan`, motor speed, sample rate, reset |
| protocol | `protocol.cc`, `protocol.hpp` | none | commands, responses, checksums, number formats |
| serial ports | `unix/serial.cc`, `win/serial.cc` | handles of the operating system, bytes received | construct, read all, write all, flush, destruct |
| the sensor | outside of the repository, `libsweep/doc/serial_protocol_spec.md` | streaming?, motor speed, motor stable? | answers commands, streams packets |
| Python binding | `sweeppy/__init__.py`, `app.py` | C objects it owns; queue between two threads | with block, scan generator, pipeline |
| Node.js binding | `sweepjs/sweepjs.cc` | wrapped object, requests in flight, `shared_ptr` | `scan(callback)`, start, stop |
| C++ header | `sweep.hpp` | `unique_ptr` of device and scan, a temporary per error | wrappers |
| Java binding | `jsweep` | handle, thread-local error slot | wrappers |
| dummy library | `dummy.cc` | flags and a counter, unprotected | the API without a device |

*How they interact.*  The client calls the API from its own thread.
`start_scanning` creates and detaches a worker that reads the serial port and
fills the queue; `get_scan`, usually in another thread, blocks on the queue.
`stop_scanning` raises a flag, tells the sensor to stop with a `DX` command,
sleeps 35 ms, and then reads the same port itself.  Nothing joins the worker.
Python runs this in two threads with a queue and a sentinel between them; Node.js
waits in threads of libuv's pool and calls back in the JavaScript thread.

*What is hard.*

- Client and worker share the port: a byte one of them takes is lost to the
  other, and no read has a timeout.  A flag and a sleep keep them apart.
- The stream of packets does not stop at once, so responses must be found among
  what is left of it.
- The queue's wakeups, with several readers, and its behaviour at capacity.
- The boundary between two rotations when packets carry error flags.
- Steps of a call that fail while the following ones are done all the same.
- Lifetimes: the device against the detached worker, requests in flight, errors
  and scans handed across languages.
- A sensor that is slow (motor), deaf (reset) or gone (cable).

*What makes each part correct* is stated as properties, section 3.

## 2. The modules

| module | models | main correspondence |
|--------|--------|---------------------|
| `ScanWindow` | what the queue promises | a window over the numbered scans |
| `ScanQueue`, `MCScanQueue` | `queue.hpp`, one action per step between lock operations | `pc`: where each thread is; the mutex and the wait set are explicit, wakeups may be spurious |
| `ScanAssembly`, `MCScanAssembly` | the worker's loop over an arbitrary stream | a reading is its rotation and number; `emitted`, `good` and `intact` are history |
| `SerialLine` | read, write and flush of the port, and the sensor | a byte is its message and its position in it; `rx` is the port's buffer, `sensor` the device |
| `SweepDevice` (extends `SerialLine`) | the device object and its threads | a call is the list of its steps (`api.todo`), each with the phases write, sleep, read |
| `Codec` | checksums and number formats, packets on a noisy line | operators named like the functions |
| `Session` | what the API promises its callers | `phase` of the device, the call under way, the sessions whose scans may be got |
| `Dummy` | `dummy.cc` | one step per access to a field that threads share |
| `SerialPort` | both `serial.cc` | one step per system call; `system` says which port; `handles` and numbered bytes |
| `SweepPy` | `__init__.py` under `app.py` | one program counter per thread; `owned`: C objects not destructed |
| `SweepNode` | `sweepjs.cc` | `request[r]`: where each `AsyncScanWorker` is; `holders`: who shares the device |
| `Wrappers` | `sweep.hpp` and `SweepDevice.java` | `binding` says which; a method is call, check, message, destruct, throw |
| `ScanQueueProofs`, `PacketProofs` (of `ScanAssembly` and `Codec`), `SweepDeviceProofs`, `DummyProofs`, `SerialPortProofs`, `SweepPyProofs`, `SweepNodeProofs`, `WrappersProofs` | theorems | section 5 |

`SweepDevice` uses the queue as `ScanWindow` describes it, one step per
operation; that this is all one can see of `queue.hpp` is the refinement
`ScanQueue` => `ScanWindow`.  It leaves open which packets complete a scan, and
when a worker has no room left; that is `ScanAssembly`.  `SerialLine` has the port
as the protocol sees it, without its handles and system calls: these are
`SerialPort`.  It takes a response for good if its bytes are those of one message of
the expected kind, in order; noise may have changed the value it carries, as far as
the code accepts that (`Misread`, section 4).  What the checksum of a scan packet is
worth, byte by byte, is `Codec`.

`Session` is to `sweep.cc` and `dummy.cc` what `sweep.h` is: both libraries
are built behind the same header.  `SweepDevice` and `Dummy` each have a mapping of
their state to its variables and the property `SessionSpec` that every behaviour
maps to one of `Session`'s.  It says that calls do not overlap and are made under
the assertions at their beginning; that a construct which fails leaves nothing or
a device that counts as scanning; that a start forgets the scans of the session
before, always leaves the device scanning, and may fail all the same; that a scan becomes
available while scanning only, and is of the session under way; that a stop which
fails leaves scanning on; and that nobody waits for a scan when destruct begins.

`SweepPy`, `SweepNode` and `Wrappers` see libsweep as its results: scans, errors,
and a `construct` that may return a device together with an error.

Operators that start with the comment `Bug:` are not part of the model.  Each is
a plausible mistake, and `PROJECT.json` says which definition it replaces and
which property then fails; every property of every passing run has one.

## 3. The runs

Passing runs:

| run | question | bounds | distinct states |
|-----|----------|--------|------|
| `ScanQueue` | is it a window, without lost wakeups, with any number of sleepers served? | 2 writers, 3 readers, 1 clearer, capacity 2, 5 scans | 6,243 |
| `ScanAssembly` | is nothing lost with any flags, and is a scan a rotation as long as sync packets are intact? | buffer of 4, 7 packets | 81,235 |
| `SweepDevice` | do client, worker and sensor agree through two sessions, with speed changes, resets and a motor that may be off or slow? is it a `Session`? | 2 sessions, queue of 2, two packets unread, 2 polls, up to 2 negative; speeds 0 and 5 | 274,068 |
| `SweepFaults` | who reads the port, and who waits for ever, while the cable is pulled, packets and responses are garbled or altered, the motor is off or slow, a worker's buffer fills, no thread can be created? | 2 sessions, queue of 1, one packet unread, 2 polls, up to 2 negative; speeds 0 and 5; four kinds of queries; shorter messages | 307,932 |
| `SerialPort` | whose bytes are whose, which handles are left, which calls end, on either system? | 2 threads, messages of 1 and 3 bytes, 4 bytes, 2 exceptions | 363,280 |
| `Dummy` | is it a `Session` too, and what does the race on its counter do? | 2 readers, 2 sessions, 4 scans | 247,070 |
| `Codec` | is a clean packet accepted and a glitch noticed? | bytes 0, 1, 254, 255; one glitch | 183,400 |
| `SweepPy` | does the pipeline lose nothing, release everything and shut down, with errors at any call? | 6 scans before the timer | 445 |
| `SweepNode` | does the binding answer, keep and release the device, with errors and stops at any time? | 3 requests, 2 threads, 2 starts, a queue of 2, 4 scans before none is dropped any more | 131,816 |
| `Wrappers` | who destructs what, and who throws whose error, in C++ and Java? | 2 threads, 3 errors, 2 scans | 5,883 |

A property stands in the run that exercises it most: `OneWorker` and
`NoUseAfterFree` in `SweepFaults`, whose sessions include those of a working device;
`CallsReturn` in `SweepDevice`, where motor and reset are commanded, and in
`SweepFaults`, where everything goes wrong.  The capacity of the queue, its order
and that it keeps the newest are part of `WindowSpec`; that no scan of an old
session is delivered is part of `SessionSpec`.  The type invariants of `ScanQueue`,
`ScanAssembly`, `Codec`, `SweepNode` and `Dummy` are theorems and not checked again.

Why these bounds are enough: capacity 2 and five scans make the queue run full,
overflow and run empty in every order; three readers are the least for a wakeup to
be stolen while another sleeper remains.  Four samples and seven packets make the
buffer fill up, and give complete rotations before and after one with an error.  Two
sessions are the least for a worker, a scan or a byte of one to disturb the next.
`MaxBacklog` 14 is two packets: the host reads in the middle of one with another
behind it.  Lengths of messages are the real ones, as it matters how they divide one
another.  `SweepFaults` alone has shorter ones, 3, 2, 1 and 4 for 7, 6, 5 and 9:
temporal properties of the real lengths take too long with that many faults, and
what decides who waits is their order, above all that a packet is longer than the
response to DX, so that a worker can take all of the response and go on waiting.
Two polls with two negative answers are the least for a motor that is given up on
and one that just makes it, and speeds 0 and 5 for one that has to be started first.
The two invariants of that run are theorems for every length and bound (section 5).
The limits of 20 polls and 20 scans in the queue are 2 or 3 and 1 or 2: the same
guards at smaller numbers.  Four bytes and messages of three let two readers of a
port share one message and start another; two exceptions leave one handle behind and
then meet it.  In the wrappers an error after another one, of the same or of the
other thread, needs three.

Runs that find a property violated, each a finding in `PROJECT.json`:

| run | property | what happens |
|-----|----------|--------------|
| `ScanAssemblySplit` | `EveryScanIsRotation` | a sync packet with the error flag cuts the scan one reading early |
| `NodeAbort` | `NeverAborts` | stop while a request waits for a thread: assertion in `get_scan` |

The passing runs state the same questions with their limits: `ScanIsRotation`
while no packet carried both flags, `CallsReturn` and `LiveReaderServed` unless the
sensor refused to stream for the session (`Starved`), `RequestAnswered` unless scanning ended or an
assertion failed.

Deadlock checking is off everywhere: a program that has destructed its device,
an empty queue with all readers asleep, or a worker that ended is at rest.
That nobody rests who should not is what the liveness properties say.

## 4. Assumptions

*Fairness.*  Threads that can run are run by the operating system: weak fairness
of each thread's steps.  A mutex and `notify_one` are fair only in that somebody
goes on.  The sensor sends, answers and stabilizes.  It has strong fairness for
answering, since between two packets it looks at its commands, and the rotation
ends at some point: strong fairness of `WorkerCompletesScan` while packets keep
coming.  No call of the client, no unplugging and no garbage collection is fair:
nobody has to do it.  Only in `SweepPy` does the timer have to fire.

*`Grace`.*  `stop_scanning` sleeps 35 ms "to allow time for the device to
register the stop cmd", for slow hosts "to buffer the stop response" and for the
device's logging (sweep.cc 288-291).  `Grace = TRUE` takes the comment at its
word: when the sleep ends the sensor has acted on `DX`, its bytes have arrived,
and the worker has read what was there.  It is an assumption about time, which
the model does not have.

*`Trailing`.*  A streaming sensor finishes at least one packet after the flag is
raised and before it acts on `DX`: packets come at least every 2 ms (500 per
second), and `write_command` pauses 2 ms before it writes (protocol.cc 37-38).
The worker, blocked in a read, therefore wakes up and sees the flag.

*`AwaitsReset`.*  The client calls nothing while the sensor resets.

*The client* obeys the assertions of the API: it starts only when not scanning,
queries only when not scanning, destructs when no reader waits.  One thread of
it calls, one more reads scans.

*The sensor* follows `serial_protocol_spec.md`; it is powered on in any state,
streaming or not, as `construct` expects.  A reset returns it to a state it may
be powered on in.

*The flags.*  `is_scanning` is a plain `bool` two threads use; the model reads
and writes it in single steps.  The worker reads it once, after its creation.

*Noise.*  In `SerialLine` bytes of different messages, or of none, are never taken for
a message.  For a scan packet `Codec` says what that is worth: any one altered byte is
noticed, except 0 for 255.  A response may also be taken for one with another value.
Those to MI, MZ and LI have no checksum, and only their command bytes are compared
(protocol.cc 112-152): the model lets noise change their value whenever there is
noise.  That of DS, DX, MS and LR is a sum of two bytes of which six bits are kept
(protocol.cc 9-15), so that two altered bytes may cancel out: `ChecksumsHold = FALSE`
lets noise change those values, too, as in `SweepFaults`.  An altered
value is a success or a refusal; one that is not made of digits ends an
assertion build (protocol.hpp) and is another number otherwise.

*`ThreadsRunOut`.*  `std::thread` may throw (sweep.cc 272): the flags then say that the
device is scanning, and the sensor streams, without a worker.  A reader of such a
session waits for ever, and no property says otherwise; calls must return.

*What the assumptions are worth.*  Each is a constant or a condition, and the
code depends on it; these are not runs of their own, but one change in a
configuration shows them:

- `SweepFaults.cfg` with `Grace = FALSE`: a worker that is scheduled only after a
  stop is through begins with `is_scanning` false and its assertion (sweep.cc
  102) fails: `NoUseAfterFree`; and the next start lowers the flag it has not seen
  yet: `OneWorker`.
- `SweepDevice.cfg` with `AwaitsReset = FALSE`: the command after a reset is lost
  while the sensor "cannot receive commands" (serial_protocol_spec.md 335), and
  its response is awaited without a timeout: `CallsReturn`.
- `SweepFaults.cfg` with `ReaderServed`: the worker that lost its port queues one
  exception and is gone; whoever asks after it was taken waits for ever.
- `NoUseAfterFree` without its condition `plugged`: if the write of `DX` fails, stop
  returns at once and destruct frees the device while its worker has not looked
  at the flag.
- `LiveReaderServed` without its exception `Full`: a worker that has met no sync
  in 4096 samples ends without a word, and its reader waits for ever.
- `CallsReturn` and `LiveReaderServed` without their exception `Starved`.
  `start_scanning` goes on after the wait for the motor or DS has failed (sweep.cc
  261-264) and spawns a worker on a sensor that does not stream.  There are two ways
  to get there: a motor that outlasts the polls (12), or one that stands still and is
  not started because the response to MI was lost or altered, so that the speed read
  is not 0 (13).  A reader of that session waits for ever.  At the next stop the
  worker, blocked in `device_read` for the bytes of a packet, may take those of the
  response to the first `DX` away, and the read in `stop_scanning` waits for more of a
  silent sensor, in spite of the comment on that read: "But we are guaranteed to read
  at least as many bytes as the length of a stop response" (sweep.cc 296).
- `SweepPy.cfg` and `SweepNode.cfg` with `StopMayFail = TRUE`: `construct` returns
  a device together with an error when its stop fails (sweep.cc 217-222), and
  neither binding keeps it: `Released`, `DeviceReleased`.
- A motor that outlasts the polls (`Slow`): `NoSpuriousError`, `HostAndSensorAgree` and
  `ReaderServed` except it, for the same reason: the call reports an error, and the
  device counts as scanning.
- `ShutsDown` without its exception `scanner = "raised"`: app.py puts the sentinel
  inside of the loop over `get_scans`, so that an exception ends the scanner
  without it, and the counter waits for ever, in spite of the "cleanly shutdown
  the pipeline" of sweeppy/README.md 26.
- `Wrappers.cfg` with `GoesOn = TRUE`: a Java thread that goes on after an exception.
  `maybeThrow` destructs the error and leaves its pointer in the thread's slot;
  JNA writes it to native memory before the next call and reads it back after it,
  and as libsweep stores into it in case of an error only, the next call that
  succeeds throws the old error, on freed memory, and destructs it again:
  `ErrorsLive`, `ThrowsWhatFailed`.  What JNA does is not in the repository, which
  is why this is an assumption and not a finding.

*The ports.*  The assertions after a read or write of the wrong length are
compiled out, as otherwise the exceptions that follow them could not be.  A
`ReadFile` on a handle that was not opened for overlapped operation has the port
to itself and is over when it has all bytes or its time is: `waiting_on_read` is
never set.

*The dummy library.*  An `int32_t` that threads race on is loaded and stored whole,
and the compiler may use a value it has loaded before.

## 5. The proofs

For every value of the constants, from the named assumptions of the modules.

`ScanQueueProofs`: the inductive invariant joins the type invariant with who
holds the mutex (a thread inside of a critical section is the holder, and only
one is), that the container is the window `lo+1 .. hi`, bounded by the capacity,
and that a reader at `pop` has seen it non-empty under the mutex it has not left
since.  Without the mutex part no fact about the container survives the step of
another thread.  From it follow the type, the bound, that the newest are held,
that no empty queue is popped, the order of delivery (an action property), and
the refinement `ImplementsWindow`: the initial state maps to the window's, every
step to one of its steps or to a stutter.  `WakeupsKept` is about
cardinalities: while a reader sleeps, there are no more elements than readers
awake and notifications still to come.  That statement is inductive relative to
the invariant above, and each step's case counts which of the three changed.

`PacketProofs`, of `ScanAssembly`: the invariant says that the loop test leaves room for the
reading to come, that scans and buffer put together are the good readings, and
how rotations and packet numbers grow along them.  `ScansAreRotations` adds that,
as long as `intact` holds, the buffer is exactly the good readings of the
current rotation: without it nothing is known of what the next sync packet cuts
off.

`PacketProofs`, of `Codec`: arithmetic of the conversions, and `GlitchNoticed`: two sums that
differ in one summand are equal modulo 255 only if that summand went from 0 to
255 or back.  The invariant keeps that all bytes but one are as they were sent.

`SweepNodeProofs`: `Ownership` says who holds the `shared_ptr`, the wrapped object
and the requests in flight and nobody else, and that the device is live while
somebody does: from it that the device outlives its users, and, if `construct`
returns a device or an error but not both, that it is released with the last.
`Order` says that the queue grows and is newer than whatever was taken from it;
`NewerThanSeen` alone is not inductive, as it says nothing of scans nobody has
taken yet.

`DummyProofs`: the refinement `ImplementsSession`, for any number of readers.  Its
invariant says that a call under way began under its assertions and that they
still hold, which is not the case of the assertions of a reader: one that began
while scanning may be overtaken by a stop, and `Session`'s `Leave` is what lets
it return.  `NumbersNeverRunAhead` needs the readers that have asked and are not
counted yet: each may store its number plus one, so the counter plus their
number never passes the scans asked for, whatever the order of loads and stores.

`SerialPortProofs`: the invariant says which values each thread holds at which
step (`Shape`), that the bytes in its hands are of the request it serves, that no
two of the places a byte can be in overlap, and which handles each step has opened
(`Leaks`).  From it the type, that every byte written is in exactly one place
(`EveryByteAccounted`), that a read returns all bytes or an exception
(`FullReads`), and the handles.  The attempt to prove the first of these showed
that it counted a set of places, in which a byte that is in two of them would have
gone unnoticed; it now says that the places are disjoint.

`WrappersProofs`: what objects there are follows from the methods alone (`Base`),
whatever the client does.  What the slots of errors hold does so in C++, and in Java
as long as no thread goes on after an exception (`Careful`), as its slot keeps the
pointer of an error that has been destructed: then each error is owed its destruct by
exactly the thread that is about to throw it (`Slots`, `Owed`).

`SweepDeviceProofs` is about the device, its threads and the sensor together.  The
unconditional half of the invariant (`Types`, `Control`) says that what is left of a
call is a lawful list of steps, and with which flags each step is reached.  The
other half holds as long as the pause of `stop_scanning` is long enough (`Grace`,
which is needed in the one step `SleepEnds`): `Line` is the conversation of client
and sensor, that is, for each step of a call, what may be on its way: nothing
(`Quiet`), no command (`Calm`), a DX (`Sleeping`), or one command and so much of its
response as is not read yet (`Asked`); `Workers` says that no worker is left where a
stop has come so far that its next read would take another's bytes.  Neither is
inductive without the other: that the response is read whole needs that no worker
reads, and that no worker is left needs that the sensor has fallen silent.  They hold
with unplugging, noise, resets at any time and full buffers.  From them follow
`WorkersAreOne`, `FreedIsUnused` and `NothingOnTheWay`, the part of
`HostAndSensorAgree` that is true of a slow motor and of noise too.

`ImplementsSession`: a device that stays plugged in implements `Session`.  The
invariant for it (`Served`) says that what is left of a call still is what the call
means, that the queue holds scans of this session only, and that a stop that is
about to lower the flag has had no error.  The device has to stay plugged in because
a worker that survives a stop which failed for the loss of the port queues its error
after the stop is over.

`ReportsAreTrue` (the property `SuccessMeansDone`): the invariant (`Reported`) adds
that no byte on its way, of a response that the client waits for, says that the
sensor has done what it has not (`Sincere`), and what a call has to show for each of
its steps that is over (`Done`). It needs no assumption on resets or the motor, and
of noise only that a checksum notices what it does to a response (`ChecksumsHold`),
as an altered status could make a success of a refusal: a response that is garbled,
or lost, can end a call with an error or not at all, but not with a success.

`CallsSucceed` (the property `NoSpuriousError`) and `HostAgreesWithSensor` are about
the bytes themselves. Their hypotheses are `Grace`, a line without noise, a thread
for each worker (`ThreadsRunOut` is false), and that a packet is longer than the
header of a response (7 and 6 bytes in `protocol.hpp`: otherwise a worker could read
the response to DX as a packet); that the motor becomes stable before it is given up
on, and that the device is connected, is part of the properties. What is read of a
message, what waits in the port and what the sensor has still to send is one
sequence (`Contents`), which reading, arriving and sending leave as it is, so that
only four steps have to be looked at: a command acted on, a packet begun, a message
completed, a flush. The invariant (`Fine`) says of it that it is the one response
the client waits for, with a value that is true (`Replied`); whole packets from
where the worker is, after the response to DS if that is not read yet (`Streaming`);
or whole packets and the response to the first DX (`Ebbing`), all of which is gone
when the line is flushed. It also has to say that DS and MS are only sent to a motor
that is ready and stays so (`Motor`), as the sensor refuses them otherwise. The
second theorem needs in addition that the client waits for a reset to be over before
its next call (`AwaitsReset`), and with it that at most one command to reset is on
its way (`OneReset`). Without waiting two of them may be, and a command sent after
them is lost; then its call waits for ever, but no call fails.

`SweepPyProofs`: how many scans the scanner has taken and not put is known from
where it is (`Working`), until the sentinel has taken the place of the scan it drops
(`Told`).  That everything is released needs that `construct`, when it fails, returns
no device (`EverythingIsReleased`); otherwise the device is all that stays
behind (`OnlyTheDeviceIsLeft`).

Only model-checked: everything temporal with fairness (`SleepersAreServed`,
`CallsReturn`, `ReaderServed`, `LiveReaderServed`, `CallsEnd`, `ShutsDown`,
`RequestAnswered`), which is out of the prover's reach.

## 6. What is not modelled

- Time.  Sleeps are steps; `Grace` and `Trailing` stand for what they achieve.
- The settings of a serial port (termios, DCB): what they say, not that a step
  fails.
- Accessors of scans and errors, version queries: no state.
- The getters and setters of the Python and Node.js bindings: each wraps one
  call and changes no state of the binding.
- The contents of the scans of the dummy library, which depend on its counter.
- `sweep-ctl` and the examples: clients without state of their own.

## 7. The plan

1. Done: queue, assembly, device on the line, codec, both serial ports, the dummy
   library, the session both libraries implement, and all bindings, with proofs about
   each of them.
2. Done: every invariant and every action property without fairness is a theorem.
3. Left: what the hazards without a property are about (their notes in
   `PROJECT.json` say why none covers them), and liveness, which stays with TLC.
