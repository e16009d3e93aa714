---------------------------- MODULE SweepDevice -----------------------------
(***************************************************************************)
(* The device object of libsweep/src/sweep.cc and the threads that share   *)
(* it: the client, which constructs, starts, stops, configures and         *)
(* destructs the device; one detached worker per call of start_scanning;   *)
(* and a reader in get_scan.  Client and workers read the same serial      *)
(* port, with nothing but the stop flag and sleeps to keep them apart.     *)
(*                                                                         *)
(* A call of the client is the list of the steps still to do; a step that  *)
(* sends a command goes through a write, a sleep (after the first DX only) *)
(* and a read.  The queue is ScanWindow's: put, take, clear in one step    *)
(* each.  How packets become scans is in ScanAssembly: here a packet may   *)
(* or may not complete one.                                                *)
(***************************************************************************)
EXTENDS SerialLine

CONSTANTS MaxSessions,      \* bound: how many times scanning is started
          MaxSpeedChanges,  \* bound: how many times the client sets the speed
          MaxSize,          \* capacity of the queue, 20 in the source
          MaxTries,         \* polls of the motor before giving up, 20 in the source
          MayFill,          \* may a worker get SWEEP_MAX_SAMPLES readings and no sync?
          Requests,         \* bound: the calls of one command that the client makes
          AwaitsReset,      \* does the client call nothing while the sensor resets?
          ThreadsRunOut,    \* may the system refuse to create a thread?
          Grace             \* do the 35 ms of stop_scanning suffice? (see SleepEnds)

ASSUME DeviceAssumption ==
  /\ {MaxSessions, MaxSpeedChanges} \subseteq Nat
  /\ {MaxSize, MaxTries} \subseteq Nat \ {0}
  /\ Requests \subseteq {"MI", "MZ", "LI", "LR", "RR"}
  /\ {MayFill, AwaitsReset, ThreadsRunOut, Grace} \subseteq BOOLEAN

Sessions == 1 .. MaxSessions

VARIABLES object,       \* the sweep_device: "none", "live" or "freed"
          is_scanning, stop_thread, scan_queue,
          api,          \* the client's call: its name, the steps left, the phase of the first
                        \* of them, the bytes read, hz, polls of the motor, errors constructed
          worker,       \* where the worker of each session is
          buffer,       \* the bytes each worker has read of a packet
          sessions,     \* how many workers have been created
          getter,       \* the reader: "idle" or "waiting" in get_scan
          changes       \* how many times the speed has been set

deviceVars == <<object, is_scanning, stop_thread, scan_queue, worker, buffer, sessions, changes>>
vars == <<deviceVars, api, getter, lineVars>>

Init ==
  /\ LineInit
  /\ object = "none" /\ is_scanning = FALSE /\ stop_thread = FALSE /\ scan_queue = <<>>
  /\ api = [call |-> "none", todo |-> <<>>, phase |-> "run", got |-> <<>>,
            hz |-> 0, tries |-> 0, errors |-> 0]
  /\ worker = [w \in Sessions |-> "none"]
  /\ buffer = [w \in Sessions |-> <<>>]
  /\ sessions = 0 /\ getter = "idle" /\ changes = 0

-----------------------------------------------------------------------------
\* The calls of the client, one at a time.
\* Bug: one DX and no flush.
StopOnce == <<"raise", "DX1", "lower">>

StopSteps == <<"raise", "DX1", "flush", "DX2", "lower">>
StartSteps == <<"adjust", "wait", "DS", "clear", "spawn">>

Call(name, steps, hz) ==
  /\ api.todo = <<>>
  /\ AwaitsReset => ~sensor.resetting /\ <<"RR", 0>> \notin {sensor.inbox[i] : i \in 1 .. Len(sensor.inbox)}
  /\ api' = [api EXCEPT !.call = name, !.todo = steps, !.hz = hz, !.errors = 0]

\* Opens and flushes the port; the new device counts as scanning.
sweep_device_construct ==
  /\ object = "none" /\ plugged
  /\ Call("construct", StopSteps, 0)
  /\ object' = "live" /\ is_scanning' = TRUE /\ stop_thread' = FALSE
  /\ rx' = <<>>
  /\ UNCHANGED <<scan_queue, worker, buffer, sessions, changes, getter, sensor, plugged>>

\* The port cannot be opened: an error and no device.
ConstructFails ==
  /\ object = "none" /\ ~plugged /\ api.todo = <<>>
  /\ api' = [api EXCEPT !.call = "construct", !.errors = 1]
  /\ UNCHANGED <<deviceVars, getter, lineVars>>

\* Bug: scanning is started although it is under way.
StartAgain ==
  /\ object = "live" /\ sessions < MaxSessions
  /\ Call("start", StartSteps, 0)
  /\ UNCHANGED <<deviceVars, getter, lineVars>>

sweep_device_start_scanning ==
  /\ object = "live" /\ ~is_scanning /\ sessions < MaxSessions
  /\ Call("start", StartSteps, 0)
  /\ UNCHANGED <<deviceVars, getter, lineVars>>

sweep_device_stop_scanning ==
  /\ object = "live"
  /\ Call("stop", StopSteps, 0)
  /\ UNCHANGED <<deviceVars, getter, lineVars>>

\* Bug: the device is freed without being stopped.
DestructUnstopped ==
  /\ object = "live" /\ getter = "idle"
  /\ Call("destruct", <<"free">>, 0)
  /\ UNCHANGED <<deviceVars, getter, lineVars>>

sweep_device_destruct ==
  /\ object = "live" /\ getter = "idle"
  /\ Call("destruct", Append(StopSteps, "free"), 0)
  /\ UNCHANGED <<deviceVars, getter, lineVars>>

sweep_device_set_motor_speed(hz) ==
  /\ object = "live" /\ ~is_scanning /\ changes < MaxSpeedChanges
  /\ Call("set_motor_speed", <<"wait", "MS">>, hz)
  /\ changes' = changes + 1
  /\ UNCHANGED <<object, is_scanning, stop_thread, scan_queue, worker, buffer, sessions,
                 getter, lineVars>>

\* The calls that send one command.
Request(cmd) ==
  /\ cmd \in Requests
  /\ object = "live" /\ ~is_scanning
  /\ Call(cmd, <<cmd>>, 0)
  /\ UNCHANGED <<deviceVars, getter, lineVars>>

sweep_device_get_motor_ready == Request("MZ")
sweep_device_get_motor_speed == Request("MI")
sweep_device_get_sample_rate == Request("LI")
sweep_device_set_sample_rate == Request("LR")
sweep_device_reset == Request("RR")

-----------------------------------------------------------------------------
\* The steps of a call.
Step == api.todo[1]
AtStep(s) == api.todo # <<>> /\ Step = s
CommandOf == [adjust |-> "MI", wait |-> "MZ", MS |-> "MS", DS |-> "DS", DX1 |-> "DX",
              DX2 |-> "DX", MI |-> "MI", MZ |-> "MZ", LI |-> "LI", LR |-> "LR", RR |-> "RR"]
AtCommand == api.todo # <<>> /\ Step \in DOMAIN CommandOf

Go(steps, errors) ==
  api' = [api EXCEPT !.todo = steps, !.phase = "run", !.got = <<>>, !.tries = 0,
                     !.errors = @ + errors]
Proceed == Go(Tail(api.todo), 0)

\* Bug: giving up ends the call and constructs no error.
PollGivesUp(errors) ==
  \/ /\ api.tries + 1 < MaxTries
     /\ api' = [api EXCEPT !.phase = "run", !.got = <<>>, !.tries = @ + 1, !.errors = @ + errors]
  \/ /\ api.tries + 1 >= MaxTries
     /\ Go(<<>>, errors)

\* The motor is polled again, or given up on with an error of its own.
PollAgain(errors) ==
  \/ /\ api.tries + 1 < MaxTries
     /\ api' = [api EXCEPT !.phase = "run", !.got = <<>>, !.tries = @ + 1, !.errors = @ + errors]
  \/ /\ api.tries + 1 >= MaxTries
     /\ Go(Tail(api.todo), errors + 1)

\* Inside stop_scanning an exception ends the call, except that destruct still
\* frees the device.  Elsewhere the step that failed has its own handler, which
\* constructs an error and lets start_scanning go on.
Fail ==
  \/ /\ Step \in {"DX1", "flush", "DX2"}
     /\ Go(IF api.call = "destruct" THEN <<"free">> ELSE <<>>, 1)
  \/ Step = "wait" /\ PollAgain(1)
  \/ /\ Step \notin {"DX1", "flush", "DX2", "wait"}
     /\ Go(Tail(api.todo), 1)

\* The first response to DX may be garbage: any exception of that read is ignored.
FailRead == IF Step = "DX1" THEN Proceed ELSE Fail

\* Bug: the worker is not told to stop.
FlagForgotten ==
  /\ AtStep("raise")
  /\ sensor' = [sensor EXCEPT !.trailed = FALSE]
  /\ Proceed
  /\ UNCHANGED <<deviceVars, getter, rx, plugged>>

RaiseFlag ==
  /\ AtStep("raise")
  /\ stop_thread' = TRUE
  /\ sensor' = [sensor EXCEPT !.trailed = FALSE]
  /\ Proceed
  /\ UNCHANGED <<object, is_scanning, scan_queue, worker, buffer, sessions, changes, getter,
                 rx, plugged>>

write_command ==
  /\ AtCommand /\ api.phase = "run"
  /\ \/ /\ device_write(CommandOf[Step], IF Step = "MS" THEN api.hz ELSE 0)
        /\ \/ Step = "RR" /\ Proceed
           \/ Step = "DX1" /\ api' = [api EXCEPT !.phase = "sleep"]
           \/ Step \notin {"RR", "DX1"} /\ api' = [api EXCEPT !.phase = "read"]
     \/ ~plugged /\ Fail /\ UNCHANGED lineVars
  /\ UNCHANGED <<deviceVars, getter>>

\* The 35 ms are over.  With Grace they were enough: the sensor has acted on
\* the command, its bytes have arrived, and every worker has read what there is.
Settled ==
  /\ sensor.inbox = <<>> /\ sensor.sending = <<>>
  /\ \A w \in Sessions : \/ worker[w] \in {"none", "dead", "full"}
                         \/ worker[w] = "read" /\ rx = <<>> /\ plugged

SleepEnds ==
  /\ api.phase = "sleep"
  /\ Grace => Settled
  /\ api' = [api EXCEPT !.phase = "read"]
  /\ UNCHANGED <<deviceVars, getter, lineVars>>

Need == Length(CommandOf[Step])

\* The status codes that make a response an error.
Refusals == CASE Step = "MS" -> {11, 12} [] Step = "DS" -> {12, 13} [] Step = "LR" -> {11}
              [] OTHER -> {}

\* What the caller of read_response_... makes of a valid response.
Interpret(status) ==
  \/ Step = "adjust" /\ status = 0 /\ api' = [api EXCEPT !.todo = <<"wait", "MS">> \o Tail(@),
                                                       !.phase = "run", !.got = <<>>, !.hz = 5]
  \/ Step = "wait" /\ status # 0 /\ PollAgain(0)
  \/ status \in Refusals /\ Fail
  \/ /\ status \notin Refusals
     /\ Step = "adjust" => status # 0
     /\ Step = "wait" => status = 0
     /\ Proceed

\* Bug: a port that is gone is waited for.
ReadForever ==
  /\ AtCommand /\ api.phase = "read"
  /\ plugged /\ rx # <<>>
  /\ rx' = AfterRead(api.got, Need)
  /\ LET bytes == Received(api.got, Need)
     IN  \/ Len(bytes) < Need /\ api' = [api EXCEPT !.got = bytes]
         \/ /\ Len(bytes) = Need /\ IsResponse(bytes, CommandOf[Step])
            /\ Interpret(bytes[1][2])
         \/ /\ Len(bytes) = Need /\ ~IsResponse(bytes, CommandOf[Step])
            /\ FailRead
  /\ UNCHANGED <<deviceVars, getter, sensor, plugged>>

read_response ==
  /\ AtCommand /\ api.phase = "read"
  /\ \/ /\ plugged /\ rx # <<>>
        /\ rx' = AfterRead(api.got, Need)
        /\ LET bytes == Received(api.got, Need)
           IN  \/ Len(bytes) < Need /\ api' = [api EXCEPT !.got = bytes]
               \/ /\ Len(bytes) = Need /\ IsResponse(bytes, CommandOf[Step])
                  /\ Interpret(bytes[1][2])
               \/ /\ Len(bytes) = Need /\ ~IsResponse(bytes, CommandOf[Step])
                  /\ FailRead
     \/ ~plugged /\ FailRead /\ UNCHANGED rx
  /\ UNCHANGED <<deviceVars, getter, sensor, plugged>>

\* Bug: what is left of the stream is not thrown away.
FlushNothing ==
  /\ AtStep("flush") /\ Proceed
  /\ UNCHANGED <<deviceVars, getter, lineVars>>

Flush ==
  /\ AtStep("flush")
  /\ \/ device_flush /\ Proceed
     \/ ~plugged /\ Fail /\ UNCHANGED lineVars
  /\ UNCHANGED <<deviceVars, getter>>

LowerScanning ==
  /\ AtStep("lower")
  /\ is_scanning' = FALSE
  /\ Proceed
  /\ UNCHANGED <<object, stop_thread, scan_queue, worker, buffer, sessions, changes, getter, lineVars>>

\* Bug: the scans of the last session stay.
ClearNothing ==
  /\ AtStep("clear") /\ Proceed
  /\ UNCHANGED <<deviceVars, getter, lineVars>>

ClearQueue ==
  /\ AtStep("clear")
  /\ scan_queue' = <<>>
  /\ Proceed
  /\ UNCHANGED <<object, is_scanning, stop_thread, worker, buffer, sessions, changes, getter, lineVars>>

\* The flags are set, then the worker is created and detached.  If it cannot be
\* created the flags stay as they are.
SpawnWorker ==
  /\ AtStep("spawn")
  /\ is_scanning' = TRUE /\ stop_thread' = FALSE
  /\ sessions' = sessions + 1
  /\ \/ worker' = [worker EXCEPT ![sessions + 1] = "born"] /\ Proceed
     \/ ThreadsRunOut /\ Fail /\ UNCHANGED worker
  /\ UNCHANGED <<object, scan_queue, buffer, changes, getter, lineVars>>

FreeDevice ==
  /\ AtStep("free")
  /\ object' = "freed"
  /\ Proceed
  /\ UNCHANGED <<is_scanning, stop_thread, scan_queue, worker, buffer, sessions, changes, getter, lineVars>>

ApiStep == \/ RaiseFlag \/ write_command \/ SleepEnds \/ read_response \/ Flush
           \/ LowerScanning \/ ClearQueue \/ SpawnWorker \/ FreeDevice

ApiCall == \/ sweep_device_construct \/ ConstructFails \/ sweep_device_start_scanning
           \/ sweep_device_stop_scanning \/ sweep_device_destruct
           \/ \E hz \in Speeds : sweep_device_set_motor_speed(hz)
           \/ sweep_device_get_motor_ready \/ sweep_device_get_motor_speed
           \/ sweep_device_get_sample_rate \/ sweep_device_set_sample_rate \/ sweep_device_reset

-----------------------------------------------------------------------------
\* The worker of session w, sweep_device_accumulate_scans.
\* Bug: full only when the capacity is exceeded.
EnqueueOneTooMany(w, what) ==
  scan_queue' = Append(IF Len(scan_queue) > MaxSize THEN Tail(scan_queue) ELSE scan_queue,
                       [session |-> w, what |-> what])

Enqueue(w, what) ==
  scan_queue' = Append(IF Len(scan_queue) >= MaxSize THEN Tail(scan_queue) ELSE scan_queue,
                       [session |-> w, what |-> what])

WorkerBegins(w) ==
  /\ worker[w] = "born"
  /\ worker' = [worker EXCEPT ![w] = "test"]
  /\ UNCHANGED <<object, is_scanning, stop_thread, scan_queue, buffer, sessions, changes, api, getter, lineVars>>

WorkerTests(w) ==
  /\ worker[w] = "test"
  /\ worker' = [worker EXCEPT ![w] = IF stop_thread THEN "dead" ELSE "read"]
  /\ UNCHANGED <<object, is_scanning, stop_thread, scan_queue, buffer, sessions, changes, api, getter, lineVars>>

\* One read() of a worker that is after the bytes of a packet.
WorkerReads(w, bytes) ==
  /\ worker[w] = "read" /\ plugged /\ rx # <<>>
  /\ bytes = Received(buffer[w], ScanLen)
  /\ rx' = AfterRead(buffer[w], ScanLen)
  /\ UNCHANGED <<object, is_scanning, stop_thread, sessions, changes, api, getter, sensor, plugged>>

WorkerReadsPart(w) ==
  LET bytes == Received(buffer[w], ScanLen)
  IN  /\ WorkerReads(w, bytes)
      /\ Len(bytes) < ScanLen
      /\ buffer' = [buffer EXCEPT ![w] = bytes]
      /\ UNCHANGED <<worker, scan_queue>>

WorkerReadsPacket(w) ==
  /\ WorkerReads(w, Packet)
  /\ buffer' = [buffer EXCEPT ![w] = <<>>]
  /\ worker' = [worker EXCEPT ![w] = "test"]
  /\ UNCHANGED scan_queue

\* Bug: the scan is not put into the queue.
ScanDropped(w) ==
  /\ WorkerReads(w, Packet)
  /\ buffer' = [buffer EXCEPT ![w] = <<>>]
  /\ worker' = [worker EXCEPT ![w] = "test"]
  /\ UNCHANGED scan_queue

\* The buffer of samples is full and there is no sync in it: the loop ends, and
\* with it the worker, without a word.
WorkerFills(w) ==
  /\ MayFill
  /\ WorkerReads(w, Packet)
  /\ buffer' = [buffer EXCEPT ![w] = <<>>]
  /\ worker' = [worker EXCEPT ![w] = "full"]
  /\ UNCHANGED scan_queue

WorkerCompletesScan(w) ==
  /\ WorkerReads(w, Packet)
  /\ buffer' = [buffer EXCEPT ![w] = <<>>]
  /\ worker' = [worker EXCEPT ![w] = "test"]
  /\ Enqueue(w, "scan")

\* The bytes are no packet: the exception is queued and the worker is dead.
WorkerReadsGarbage(w) ==
  LET bytes == Received(buffer[w], ScanLen)
  IN  /\ WorkerReads(w, bytes)
      /\ Len(bytes) = ScanLen /\ bytes # Packet
      /\ buffer' = [buffer EXCEPT ![w] = <<>>]
      /\ worker' = [worker EXCEPT ![w] = "dead"]
      /\ Enqueue(w, "error")

\* Bug: the worker dies without a word.
DiesSilently(w) ==
  /\ worker[w] = "read" /\ ~plugged
  /\ buffer' = [buffer EXCEPT ![w] = <<>>]
  /\ worker' = [worker EXCEPT ![w] = "dead"]
  /\ UNCHANGED <<object, is_scanning, stop_thread, scan_queue, sessions, changes, api, getter, lineVars>>

WorkerLosesPort(w) ==
  /\ worker[w] = "read" /\ ~plugged
  /\ buffer' = [buffer EXCEPT ![w] = <<>>]
  /\ worker' = [worker EXCEPT ![w] = "dead"]
  /\ Enqueue(w, "error")
  /\ UNCHANGED <<object, is_scanning, stop_thread, sessions, changes, api, getter, lineVars>>

WorkerStep(w) == \/ WorkerBegins(w) \/ WorkerTests(w) \/ WorkerReadsPart(w)
                 \/ WorkerReadsPacket(w) \/ WorkerCompletesScan(w) \/ WorkerReadsGarbage(w)
                 \/ WorkerLosesPort(w) \/ WorkerFills(w)

-----------------------------------------------------------------------------
\* sweep_device_get_scan in another thread of the client, which has the device
\* from the end of construct to the beginning of destruct.
GetScan ==
  /\ getter = "idle" /\ object = "live" /\ is_scanning
  /\ api.call \in {"construct", "destruct"} => api.todo = <<>>
  /\ getter' = "waiting"
  /\ UNCHANGED <<deviceVars, api, lineVars>>

\* A scan is returned, or the exception of the worker becomes an error.
GetterTakes ==
  /\ getter = "waiting" /\ scan_queue # <<>>
  /\ scan_queue' = Tail(scan_queue)
  /\ getter' = "idle"
  /\ UNCHANGED <<object, is_scanning, stop_thread, worker, buffer, sessions, changes, api, lineVars>>

Sensor == SensorNext /\ UNCHANGED <<deviceVars, api, getter>>

Next == \/ ApiCall \/ ApiStep
        \/ \E w \in Sessions : WorkerStep(w)
        \/ GetScan \/ GetterTakes
        \/ Sensor

Spec == Init /\ [][Next]_vars

Answers == Respond /\ UNCHANGED <<deviceVars, api, getter>>
Sends == (StartPacket \/ Transmit \/ Stabilize \/ Restart) /\ UNCHANGED <<deviceVars, api, getter>>

\* Threads that can run do run, the sensor answers and sends, rotations end and
\* motors stabilize.  Nobody has to call anything.
Fairness ==
  /\ WF_vars(ApiStep)
  /\ SF_vars(Answers) /\ WF_vars(Sends)
  /\ \A w \in Sessions : WF_vars(WorkerStep(w)) /\ SF_vars(WorkerCompletesScan(w))
  /\ WF_vars(GetterTakes)

FairSpec == Spec /\ Fairness

-----------------------------------------------------------------------------
\* The shape of the state.
TypeOK ==
  /\ object \in {"none", "live", "freed"}
  /\ {is_scanning, stop_thread, plugged} \subseteq BOOLEAN
  /\ scan_queue \in Seq([session : Sessions, what : {"scan", "error"}])
  /\ Len(scan_queue) <= MaxSize
  /\ api.todo \in Seq({"raise", "flush", "lower", "clear", "spawn", "free"} \cup DOMAIN CommandOf)
  /\ api.phase \in {"run", "sleep", "read"}
  /\ api.got \in Seq(Byte) /\ api.errors \in Nat /\ api.tries \in 0 .. MaxTries
  /\ worker \in [Sessions -> {"none", "born", "test", "read", "dead", "full"}]
  /\ buffer \in [Sessions -> Seq(Byte)]
  /\ sessions \in 0 .. MaxSessions /\ changes \in 0 .. MaxSpeedChanges
  /\ getter \in {"idle", "waiting"}
  /\ sensor \in SensorState
  /\ rx \in Seq(Byte)

Alive == {w \in Sessions : worker[w] \in {"born", "test", "read"}}
Idle == api.todo = <<>>

\* The motor has been polled in vain so often that a call may have given up on it.
Slow == sensor.unready >= MaxTries

\* A worker has ended because it had no room for a further sample.
Full == \E w \in Sessions : worker[w] = "full"

\* Two workers never share the port: the worker of one session is gone before
\* that of the next begins, although nobody joins it.
OneWorker == \A v, w \in Alive : v = w

\* No worker outlives the device object it works on, unless the stop inside of
\* destruct failed; and its session has not been stopped before it begins, as
\* its assertion demands.
NoUseAfterFree ==
  /\ object = "freed" /\ plugged => Alive = {}
  /\ \A w \in Sessions : worker[w] = "born" => is_scanning

\* Between calls a device that is not scanning is silent, with nothing left on
\* the way from which the next response could be misread; one that is scanning
\* is streaming, so the next stop finds what it expects.
HostAndSensorAgree ==
  Idle /\ object = "live" /\ plugged /\ ~Slow =>
    IF is_scanning THEN sensor.streaming
    ELSE /\ ~sensor.streaming /\ sensor.sending = <<>> /\ rx = <<>>
         /\ sensor.inbox \in {<<>>, << <<"RR", 0>> >>}

\* With the device connected and the motor stable before it is given up on, no
\* call fails: every response is found at its place in the stream.
NoSpuriousError ==
  plugged /\ ~Slow =>
    api.errors = 0 /\ \A i \in 1 .. Len(scan_queue) : scan_queue[i].what = "scan"

\* What a call reports is what it did: scanning that was started without an
\* error is under way, a speed set without an error is set, and a stop without
\* an error leaves no worker behind.
SuccessMeansDone ==
  Idle /\ api.errors = 0 /\ plugged =>
    CASE api.call = "start" -> is_scanning /\ sensor.streaming
      [] api.call = "set_motor_speed" -> sensor.speed = api.hz
      [] api.call \in {"construct", "stop"} -> ~is_scanning /\ Alive = {}
      [] OTHER -> TRUE

\* A worker has been spawned although the sensor refused DS and does not stream.
Starved == Alive # {} /\ plugged /\ ~sensor.streaming

\* At the beginning of a call; the calls that stop are at it until the flag is up.
Begun == ~Idle /\ (api.call \in {"construct", "stop", "destruct"} => AtStep("raise"))

\* Every call of the client returns, whatever becomes of responses and cable, but
\* for the stop of a session whose worker waits on a sensor that refused DS.
CallsReturn == Begun /\ ~Starved ~> Idle

\* A reader that waits is served, or the session is stopped under it, unless
\* the motor was given up on or a rotation had too many samples.
ReaderServed == getter = "waiting" ~> (getter = "idle" \/ stop_thread \/ Slow \/ Full)

\* Even if the device is lost: a reader that waits while the worker is alive, on
\* a sensor that did not refuse DS, gets a scan or the worker's error.
LiveReaderServed ==
  getter = "waiting" /\ Alive # {} /\ ~Starved ~> (getter = "idle" \/ stop_thread \/ Full)

\* To its callers the device is what Session promises: construct leaves a quiet
\* device or an error, start ends in a session of which no scan existed before,
\* no scan becomes available after a stop that succeeded.
Phase == CASE object = "none" \/ (api.call = "construct" /\ ~Idle) -> "none"
           [] object = "freed" -> "freed"
           [] OTHER -> IF is_scanning THEN "scanning" ELSE "idle"

Promise == INSTANCE Session WITH
  Readers <- {"getter"},
  phase <- Phase,
  call <- IF Idle THEN "none" ELSE api.call,
  failed <- Idle /\ api.errors > 0,
  session <- sessions,
  offered <- {scan_queue[i].session : i \in 1 .. Len(scan_queue)},
  waiting <- IF getter = "waiting" THEN {"getter"} ELSE {}

SessionSpec == Promise!Spec
=============================================================================
