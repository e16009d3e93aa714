-------------------------- MODULE SweepDeviceProofs --------------------------
(***************************************************************************)
(* No two workers of a device share its port, and none outlives it, for    *)
(* any number of sessions, any sensor and any lengths of the messages.     *)
(*                                                                         *)
(* Nobody joins a worker: that it is gone when the next one begins follows *)
(* from what the client and the sensor have said to each other.  Quiet,    *)
(* Calm, Still, Sleeping and Asked are the states of this conversation and *)
(* Line says at which step of a call it is in which.  A worker that is     *)
(* still alive after the first DX waits on a line on which nothing will    *)
(* come anymore (Silent), and with it waits the client.                    *)
(*                                                                         *)
(* That no call fails is about the bytes.  Fine says of each of these      *)
(* states what is on the line: the one response a client waits for         *)
(* (Replied), the packets a worker reads, none of them cut (Stream), or    *)
(* the end of an interrupted stream, which is flushed.                     *)
(***************************************************************************)
EXTENDS SweepDevice, TLAPS, SequenceTheorems

\* The steps of a call, and which may come after which.
Stopping == {"raise", "DX1", "flush", "DX2", "lower", "free"}
Asking == {"adjust", "wait", "MS", "DS", "MI", "MZ", "LI", "LR", "RR"}
Starting == {"clear", "spawn"}

StepNames == Stopping \cup Asking \cup Starting

MayFollow(s, next) ==
  CASE s = "raise" -> next = "DX1"
    [] s = "DX1" -> next = "flush"
    [] s = "flush" -> next = "DX2"
    [] s = "DX2" -> next = "lower"
    [] s = "lower" -> next = "free"
    [] s \in {"adjust", "MS"} -> next = "wait"
    [] s = "wait" -> next \in {"MS", "DS"}
    [] s = "DS" -> next = "clear"
    [] s = "clear" -> next = "spawn"
    [] OTHER -> FALSE

Calls == {"none", "construct", "start", "stop", "destruct", "set_motor_speed",
          "MI", "MZ", "LI", "LR", "RR"}

ApiState == [call : Calls, todo : Seq(StepNames), phase : {"run", "sleep", "read"},
             got : Seq(Byte), hz : 0 .. 10, tries : 0 .. MaxTries, errors : Nat]

\* The step that is next, and what the client does about it.
First == IF api.todo = <<>> THEN "none" ELSE Step
At(steps, phase) == First \in steps /\ api.phase = phase

\* A list of steps in which each may follow the one before it, and which does
\* not end where something must come.
Unfinished == {"DX1", "flush", "DS", "clear"}
Lawful(steps) ==
  /\ \A i \in 1 .. Len(steps) - 1 : MayFollow(steps[i], steps[i + 1])
  /\ \A i \in 1 .. Len(steps) : steps[i] \in Unfinished => i # Len(steps)

Control ==
  /\ Lawful(api.todo)
  /\ \A i \in 1 .. Len(api.todo) : api.todo[i] \in Asking \cup Starting => ~is_scanning
  /\ \A i \in 1 .. Len(api.todo) : api.todo[i] = "spawn" => sessions < MaxSessions
  /\ api.todo # <<>> => object = "live"
  /\ api.phase = "sleep" => First = "DX1"
  /\ api.phase = "read" => First \in DOMAIN CommandOf \ {"RR"} /\ Len(api.got) < Need
  /\ api.phase # "read" => api.got = <<>>

-----------------------------------------------------------------------------
\* What is on the line.
Waiting(i) == sensor.inbox[i][1]
Pending == 1 .. Len(sensor.inbox)

\* Nothing: the sensor is silent, and has at most been told to reset itself.
Quiet == /\ rx = <<>> /\ sensor.sending = <<>> /\ ~sensor.streaming
         /\ \A i \in Pending : Waiting(i) = "RR"

\* No command.
Calm == sensor.inbox = <<>> /\ ~sensor.resetting

\* What had to be sent has been sent.
Still == sensor.inbox = <<>> /\ sensor.sending = <<>> /\ ~sensor.streaming

\* DX is on its way to a sensor that streams, or it does not stream.
Sleeping ==
  IF sensor.streaming THEN ~sensor.resetting /\ Len(sensor.inbox) = 1 /\ Waiting(1) = "DX"
  ELSE \A i \in Pending : Waiting(i) \in {"RR", "DX"}

\* A command has been written: it has not been acted on yet, or the response is
\* under way, or it is lost because the sensor was to reset itself before.
Unanswered(cmd) ==
  /\ rx = <<>> /\ sensor.sending = <<>> /\ api.got = <<>> /\ ~sensor.streaming
  /\ sensor.inbox # <<>> /\ Waiting(Len(sensor.inbox)) = cmd
  /\ \A i \in 1 .. Len(sensor.inbox) - 1 : Waiting(i) = "RR"

Answered(cmd) ==
  /\ Calm /\ ~sensor.streaming
  /\ Len(api.got) + Len(rx) + Len(sensor.sending) = Length(cmd)

Asked(cmd) == Unanswered(cmd) \/ Answered(cmd) \/ (Quiet /\ api.got = <<>>)

Line ==
  /\ sensor.resetting => sensor.inbox = <<>>
  /\ object # "freed" /\ At({"none", "raise", "DX1"}, "run") =>
       IF object = "none" \/ is_scanning THEN Calm ELSE Quiet
  /\ At({"DX1"}, "sleep") => Sleeping
  /\ At({"DX1"}, "read") \/ At({"flush"}, "run") => Still
  /\ At({"DX2", "lower"} \cup Asking, "run") => Quiet
  /\ At({"DX2"} \cup Asking, "read") =>
       Asked(CommandOf[First]) \/ (First = "DS" /\ sensor.streaming /\ Calm)
  /\ At(Starting, "run") => Calm

-----------------------------------------------------------------------------
\* Where a stop is, no worker is left, or none that will ever get a byte.
Silent == rx = <<>> /\ \A w \in Alive : worker[w] = "read"

Workers ==
  /\ \A w \in Alive : w = sessions
  /\ ~is_scanning => Alive = {}
  /\ plugged /\ At({"DX1"}, "read") => Alive = {} \/ Silent
  /\ plugged /\ (First \in {"flush", "DX2", "free"} \/ object = "freed") => Alive = {}
  /\ First = "lower" => Alive = {}

Types == TypeOK /\ api \in ApiState /\ \A w \in Sessions : Len(buffer[w]) < ScanLen

Talk == (plugged => Line) /\ Workers

IInv == Types /\ Control /\ (Grace => Talk)

-----------------------------------------------------------------------------
\* Commands and messages.
Responding == Commands \ {"RR"}

LEMMA Lengths == \A c \in Responding \cup {"scan"} : Length(c) \in Nat /\ Length(c) > 0
BY LineAssumption DEF Length, Responding, Commands

LEMMA CommandsOfSteps ==
  /\ DOMAIN CommandOf = Asking \cup {"DX1", "DX2"}
  /\ \A s \in DOMAIN CommandOf : CommandOf[s] \in Commands /\ (CommandOf[s] = "RR" <=> s = "RR")
  /\ \A s \in DOMAIN CommandOf : CommandOf[s] = "DX" <=> s \in {"DX1", "DX2"}
  /\ \A s \in DOMAIN CommandOf : CommandOf[s] = "DS" <=> s = "DS"
BY DEF CommandOf, Asking, Commands

LEMMA Message ==
  ASSUME NEW c \in Responding \cup {"scan"}, NEW v \in Nat
  PROVE  Bytes(c, v) \in Seq(Byte) /\ Len(Bytes(c, v)) = Length(c)
<1>1. Length(c) \in Nat
  BY Lengths
<1>2. \A i \in 1 .. Length(c) : <<c, v, i>> \in Byte
  BY <1>1 DEF Byte, Responding
<1>3. Bytes(c, v) \in [1 .. Length(c) -> Byte]
  BY <1>2 DEF Bytes
<1>4. QED
  BY <1>1, <1>3, SeqDef

LEMMA Noise ==
  ASSUME NEW s \in Seq(Byte)
  PROVE  LET n == [i \in DOMAIN s |-> <<"noise", 0, i>>] IN n \in Seq(Byte) /\ Len(n) = Len(s)
<1> DEFINE n == [i \in DOMAIN s |-> <<"noise", 0, i>>]
<1>1. Len(s) \in Nat /\ DOMAIN s = 1 .. Len(s)
  OBVIOUS
<1>2. \A i \in 1 .. Len(s) : <<"noise", 0, i>> \in Byte
  BY <1>1 DEF Byte
<1>3. n \in [1 .. Len(s) -> Byte]
  BY <1>1, <1>2
<1>4. QED
  BY <1>1, <1>3, SeqDef

\* What the sensor is after it has acted on a command.
Acted(before, after, cmd) ==
  /\ after \in SensorState
  /\ IF cmd = "RR"
       THEN /\ after.inbox = <<>> /\ after.sending = <<>> /\ after.resetting
            /\ after.streaming = before.streaming
       ELSE /\ after.inbox = Tail(before.inbox) /\ Len(after.sending) = Length(cmd)
            /\ after.resetting = before.resetting
            /\ cmd = "DX" => ~after.streaming
            /\ cmd \notin {"DS", "DX"} => after.streaming = before.streaming

LEMMA ActsOn ==
  ASSUME sensor \in SensorState, sensor.inbox # <<>>, sensor.sending = <<>>,
         NEW cmd \in Commands, NEW arg \in 0 .. 10,
         cmd = "MZ" /\ ~sensor.ready => sensor.unready < MaxUnready
  PROVE  Acted(sensor, ActOn(cmd, arg), cmd)
<1>1. /\ sensor.inbox \in Seq(Commands \X (0 .. 10)) /\ sensor.sending \in Seq(Byte)
      /\ sensor.streaming \in BOOLEAN /\ sensor.speed \in 0 .. 10 /\ sensor.ready \in BOOLEAN
      /\ sensor.unready \in 0 .. MaxUnready /\ sensor.trailed \in BOOLEAN /\ sensor.resetting \in BOOLEAN
      /\ Tail(sensor.inbox) \in Seq(Commands \X (0 .. 10)) /\ <<>> \in Seq(Commands \X (0 .. 10))
      /\ <<>> \in Seq(Byte)
  BY DEF SensorState
<1>2. Answer(cmd) \in Nat
  BY <1>1 DEF Answer
<1> DEFINE message == Bytes(cmd, Answer(cmd))
           done == [sensor EXCEPT !.inbox = Tail(@), !.sending = message]
<1>3. CASE cmd = "RR"
  <2>1. ActOn(cmd, arg) = [sensor EXCEPT !.inbox = <<>>, !.resetting = TRUE]
    BY <1>3 DEF ActOn
  <2>2. [sensor EXCEPT !.inbox = <<>>, !.resetting = TRUE] \in SensorState
    BY <1>1 DEF SensorState
  <2>3. QED
    BY <1>3, <2>1, <2>2 DEF Acted, SensorState
<1>4. CASE cmd # "RR"
  <2>1. message \in Seq(Byte) /\ Len(message) = Length(cmd)
    BY <1>2, <1>4, Message DEF Responding
  <2> HIDE DEF message
  <2>2. /\ done \in SensorState /\ done.inbox = Tail(sensor.inbox) /\ done.sending = message
        /\ done.resetting = sensor.resetting /\ done.streaming = sensor.streaming
        /\ done.speed = sensor.speed /\ done.ready = sensor.ready /\ done.unready = sensor.unready
    BY <1>1, <2>1 DEF SensorState
  <2>3. ActOn(cmd, arg) = CASE cmd = "DS" -> [done EXCEPT !.streaming = @ \/ Answer(cmd) = 0]
        [] cmd = "DX" -> [done EXCEPT !.streaming = FALSE]
        [] cmd = "MZ" /\ ~sensor.ready -> [done EXCEPT !.unready = @ + 1]
        [] cmd = "MS" /\ sensor.ready -> [done EXCEPT !.speed = arg,
                                                   !.ready = (arg = sensor.speed)]
        [] cmd = "RR" -> [sensor EXCEPT !.inbox = <<>>, !.resetting = TRUE]
        [] OTHER -> done
    BY DEF ActOn, message
  <2> HIDE DEF done
  <2>4. CASE cmd = "DS"
    <3>1. ActOn(cmd, arg) = [done EXCEPT !.streaming = (done.streaming \/ Answer(cmd) = 0)]
      BY <2>3, <2>4
    <3>2. (done.streaming \/ Answer(cmd) = 0) \in BOOLEAN
      OBVIOUS
    <3>3. QED
      BY <1>4, <2>1, <2>2, <2>4, <3>1, <3>2 DEF Acted, SensorState
  <2>5. CASE cmd = "DX"
    <3>1. ActOn(cmd, arg) = [done EXCEPT !.streaming = FALSE]
      BY <2>3, <2>5
    <3>2. QED
      BY <1>4, <2>1, <2>2, <2>5, <3>1 DEF Acted, SensorState
  <2>6. CASE cmd = "MZ" /\ ~sensor.ready
    <3>1. ActOn(cmd, arg) = [done EXCEPT !.unready = sensor.unready + 1]
      BY <2>2, <2>3, <2>6
    <3>2. sensor.unready + 1 \in 0 .. MaxUnready
      BY <1>1, <2>6, LineAssumption
    <3>3. QED
      BY <1>4, <2>1, <2>2, <2>6, <3>1, <3>2 DEF Acted, SensorState
  <2>7. CASE cmd = "MS" /\ sensor.ready
    <3>1. ActOn(cmd, arg) = [done EXCEPT !.speed = arg, !.ready = (arg = sensor.speed)]
      BY <2>3, <2>7
    <3>2. QED
      BY <1>4, <2>1, <2>2, <2>7, <3>1 DEF Acted, SensorState
  <2>8. CASE cmd \notin {"DS", "DX"} /\ ~(cmd = "MZ" /\ ~sensor.ready) /\ ~(cmd = "MS" /\ sensor.ready)
    <3>1. ActOn(cmd, arg) = done
      BY <1>4, <2>3, <2>8
    <3>2. QED
      BY <1>4, <2>1, <2>2, <2>8, <3>1 DEF Acted
  <2>9. QED
    BY <2>4, <2>5, <2>6, <2>7, <2>8
<1>5. QED
  BY <1>3, <1>4

\* What noise makes of the response is as long as it was.
LEMMA AlteredActs ==
  ASSUME NEW before, NEW after, NEW cmd \in Commands, Acted(before, after, cmd),
         NEW bytes \in Altered(cmd, after.sending)
  PROVE  Acted(before, [after EXCEPT !.sending = bytes], cmd)
<1> DEFINE n == [i \in DOMAIN after.sending |-> <<"noise", 0, i>>]
<1>1. after \in SensorState /\ after.sending \in Seq(Byte)
  BY DEF Acted, SensorState
<1>2. CASE bytes = n
  <2>1. n \in Seq(Byte) /\ Len(n) = Len(after.sending)
    BY <1>1, Noise
  <2>2. after.sending = <<>> => n = <<>>
    BY <1>1, <2>1, EmptySeq
  <2> HIDE DEF n
  <2>3. QED
    BY <1>1, <1>2, <2>1, <2>2 DEF Acted, SensorState
<1>3. CASE \E v \in Misread(cmd) : bytes = Bytes(cmd, v)
  <2>1. PICK v \in Misread(cmd) : bytes = Bytes(cmd, v)
    BY <1>3
  <2>2. v \in Nat /\ cmd # "RR"
    BY DEF Misread
  <2>3. bytes \in Seq(Byte) /\ Len(bytes) = Length(cmd)
    BY <2>1, <2>2, Message DEF Responding
  <2>4. QED
    BY <1>1, <2>2, <2>3 DEF Acted, SensorState
<1>4. QED
  BY <1>2, <1>3 DEF Altered

-----------------------------------------------------------------------------
\* The sensor, as long as it is connected: it acts on a command, puts a packet on
\* the wire, sends a byte, or changes nothing that the client could notice.
Acts == /\ sensor.inbox # <<>> /\ sensor.sending = <<>>
        /\ Acted(sensor, sensor', Waiting(1)) /\ rx' = rx

Streams == /\ sensor.streaming /\ sensor'.streaming /\ rx' = rx
           /\ sensor'.inbox = sensor.inbox /\ sensor'.resetting = sensor.resetting

Sends1 == /\ sensor.sending # <<>>
          /\ Len(rx') = Len(rx) + 1 /\ Len(sensor'.sending) = Len(sensor.sending) - 1
          /\ sensor'.inbox = sensor.inbox /\ sensor'.resetting = sensor.resetting
          /\ sensor'.streaming = sensor.streaming

Settles == /\ rx' = rx /\ sensor'.inbox = sensor.inbox /\ sensor'.sending = sensor.sending
           /\ sensor'.streaming = sensor.streaming
           /\ sensor'.resetting => sensor.resetting

LineTypes == sensor \in SensorState /\ rx \in Seq(Byte) /\ plugged \in BOOLEAN

LEMMA SensorDoes ==
  ASSUME LineTypes, SensorNext
  PROVE  /\ LineTypes'
         /\ ~plugged' \/ (plugged' = plugged /\ (Acts \/ Streams \/ Sends1 \/ Settles))
<1>1. /\ sensor.inbox \in Seq(Commands \X (0 .. 10)) /\ sensor.sending \in Seq(Byte)
      /\ sensor.streaming \in BOOLEAN /\ sensor.speed \in 0 .. 10 /\ sensor.ready \in BOOLEAN
      /\ sensor.unready \in 0 .. MaxUnready /\ sensor.trailed \in BOOLEAN /\ sensor.resetting \in BOOLEAN
      /\ rx \in Seq(Byte)
  BY DEF LineTypes, SensorState
<1>2. CASE Respond
  <2> DEFINE cmd == Head(sensor.inbox)[1]
             arg == Head(sensor.inbox)[2]
  <2>1. /\ sensor.inbox # <<>> /\ sensor.sending = <<>> /\ UNCHANGED <<rx, plugged>>
        /\ cmd = "MZ" /\ ~sensor.ready => sensor.unready < MaxUnready
        /\ \/ sensor' = ActOn(cmd, arg)
           \/ \E bytes \in Altered(cmd, ActOn(cmd, arg).sending) :
                sensor' = [ActOn(cmd, arg) EXCEPT !.sending = bytes]
    BY <1>2 DEF Respond
  <2>2. cmd \in Commands /\ arg \in 0 .. 10 /\ cmd = Waiting(1)
    <3>1. Head(sensor.inbox) = sensor.inbox[1] /\ Head(sensor.inbox) \in Commands \X (0 .. 10)
      BY <1>1, <2>1
    <3>2. QED
      BY <3>1 DEF Waiting
  <2> HIDE DEF cmd, arg
  <2>3. Acted(sensor, ActOn(cmd, arg), cmd)
    BY <2>1, <2>2, ActsOn DEF LineTypes
  <2>4. Acted(sensor, sensor', cmd)
    BY <2>1, <2>2, <2>3, AlteredActs
  <2>5. Acts
    BY <2>1, <2>2, <2>4 DEF Acts
  <2>6. QED
    BY <2>1, <2>5 DEF LineTypes, Acts, Acted
<1>3. CASE StartPacket
  <2>1. PICK checksum \in {0, 1} :
          /\ sensor.streaming /\ UNCHANGED <<rx, plugged>>
          /\ sensor' = [sensor EXCEPT !.sending = Bytes("scan", checksum), !.trailed = TRUE]
    BY <1>3 DEF StartPacket
  <2>2. Bytes("scan", checksum) \in Seq(Byte)
    BY Message
  <2>3. QED
    BY <1>1, <2>1, <2>2 DEF LineTypes, SensorState, Streams
<1>4. CASE Transmit
  <2>1. /\ sensor.sending # <<>> /\ rx' = Append(rx, Head(sensor.sending))
        /\ sensor' = [sensor EXCEPT !.sending = Tail(sensor.sending)] /\ UNCHANGED plugged
    BY <1>4 DEF Transmit
  <2>2. /\ Head(sensor.sending) \in Byte /\ Tail(sensor.sending) \in Seq(Byte)
        /\ Len(Tail(sensor.sending)) = Len(sensor.sending) - 1
        /\ rx' \in Seq(Byte) /\ Len(rx') = Len(rx) + 1
    BY <1>1, <2>1
  <2>3. QED
    BY <1>1, <2>1, <2>2 DEF LineTypes, SensorState, Sends1
<1>5. CASE Stabilize
  BY <1>1, <1>5 DEF Stabilize, LineTypes, SensorState, Settles
<1>6. CASE Restart
  <2>1. PICK hz \in Speeds, r \in {MaxUnready = 0, TRUE} :
          sensor' = [sensor EXCEPT !.resetting = FALSE, !.speed = hz, !.ready = r]
    BY <1>6 DEF Restart
  <2>2. hz \in 0 .. 10 /\ r \in BOOLEAN /\ UNCHANGED <<rx, plugged>>
    BY <1>6, LineAssumption DEF Restart
  <2>3. QED
    BY <1>1, <2>1, <2>2 DEF LineTypes, SensorState, Settles
<1>7. CASE Unplug
  <2>1. <<>> \in Seq(Commands \X (0 .. 10)) /\ <<>> \in Seq(Byte)
    OBVIOUS
  <2>2. /\ sensor' = [sensor EXCEPT !.inbox = <<>>, !.sending = <<>>, !.streaming = FALSE]
        /\ plugged' = FALSE /\ rx' = <<>>
    BY <1>7 DEF Unplug
  <2>3. [sensor EXCEPT !.inbox = <<>>, !.sending = <<>>, !.streaming = FALSE] \in SensorState
    BY <1>1, <2>1 DEF SensorState, LineTypes
  <2>4. QED
    BY <2>1, <2>2, <2>3 DEF LineTypes
<1>8. QED
  BY <1>2, <1>3, <1>4, <1>5, <1>6, <1>7 DEF SensorNext

\* What the sensor does leads from one state of the conversation to another, or
\* to the next state of it.
SensorMoves == Acts \/ Streams \/ Sends1 \/ Settles

LEMMA InboxIs ==
  ASSUME LineTypes
  PROVE  /\ Len(sensor.inbox) \in Nat /\ (sensor.inbox = <<>> <=> Len(sensor.inbox) = 0)
         /\ (sensor.sending = <<>> <=> Len(sensor.sending) = 0) /\ Len(sensor.sending) \in Nat
         /\ (rx = <<>> <=> Len(rx) = 0) /\ Len(rx) \in Nat
         /\ sensor.streaming \in BOOLEAN /\ sensor.resetting \in BOOLEAN
BY EmptySeq, LenProperties DEF LineTypes, SensorState

LEMMA TailOfInbox ==
  ASSUME LineTypes, sensor.inbox # <<>>
  PROVE  /\ Len(Tail(sensor.inbox)) = Len(sensor.inbox) - 1
         /\ \A i \in 1 .. Len(Tail(sensor.inbox)) : Tail(sensor.inbox)[i] = sensor.inbox[i + 1]
BY DEF LineTypes, SensorState

LEMMA SensorKeepsQuiet ==
  ASSUME LineTypes, LineTypes', SensorMoves, Quiet PROVE Quiet'
<1>1. CASE Acts
  <2>1. 1 \in Pending
    BY <1>1, InboxIs DEF Acts, Pending
  <2>2. Waiting(1) = "RR"
    BY <2>1 DEF Quiet
  <2>3. sensor'.inbox = <<>> /\ sensor'.sending = <<>> /\ ~sensor'.streaming /\ rx' = rx
    BY <1>1, <2>2 DEF Acts, Acted, Quiet
  <2>4. Len(sensor'.inbox) = 0
    BY <2>3
  <2>5. QED
    BY <2>3, <2>4 DEF Quiet, Pending
<1>2. CASE Streams \/ Sends1
  BY <1>2 DEF Streams, Sends1, Quiet
<1>3. CASE Settles
  BY <1>3 DEF Settles, Quiet, Pending, Waiting
<1>4. QED
  BY <1>1, <1>2, <1>3 DEF SensorMoves

LEMMA SensorKeepsCalm ==
  ASSUME LineTypes, LineTypes', SensorMoves, Calm PROVE Calm'
BY DEF SensorMoves, Acts, Streams, Sends1, Settles, Calm, LineTypes, SensorState

LEMMA SensorKeepsStill ==
  ASSUME LineTypes, LineTypes', SensorMoves, Still PROVE Still' /\ rx' = rx
BY DEF SensorMoves, Acts, Streams, Sends1, Settles, Still, LineTypes, SensorState

LEMMA SensorKeepsSleeping ==
  ASSUME LineTypes, LineTypes', SensorMoves, Sleeping PROVE Sleeping'
<1>1. CASE Acts
  <2>1. 1 \in Pending /\ Len(sensor.inbox) \in Nat /\ sensor.inbox # <<>>
    BY <1>1, InboxIs DEF Acts, Pending
  <2>2. CASE Waiting(1) = "RR"
    <3>1. sensor'.inbox = <<>> /\ sensor'.streaming = sensor.streaming /\ ~sensor.streaming
      BY <1>1, <2>2 DEF Acts, Acted, Sleeping
    <3>2. Len(sensor'.inbox) = 0
      BY <3>1
    <3>3. QED
      BY <3>1, <3>2 DEF Sleeping, Pending
  <2>3. CASE Waiting(1) = "DX"
    <3>1. sensor'.inbox = Tail(sensor.inbox) /\ ~sensor'.streaming
      BY <1>1, <2>3 DEF Acts, Acted
    <3>2. \A i \in 1 .. Len(sensor'.inbox) : sensor'.inbox[i] = sensor.inbox[i + 1] /\ i + 1 \in Pending
      BY <2>1, <3>1, TailOfInbox DEF Pending
    <3>3. \A i \in Pending : Waiting(i) \in {"RR", "DX"}
      <4>1. CASE sensor.streaming
        <5>1. Pending = 1 .. 1
          BY <4>1 DEF Sleeping, Pending
        <5>2. QED
          BY <2>3, <5>1
      <4>2. CASE ~sensor.streaming
        BY <4>2 DEF Sleeping
      <4>3. QED
        BY <4>1, <4>2
    <3>4. QED
      BY <3>1, <3>2, <3>3 DEF Sleeping, Pending, Waiting
  <2>4. QED
    BY <2>1, <2>2, <2>3 DEF Sleeping, Pending
<1>2. CASE Streams \/ Sends1 \/ Settles
  BY <1>2, InboxIs DEF Streams, Sends1, Settles, Sleeping, Pending, Waiting
<1>3. QED
  BY <1>1, <1>2 DEF SensorMoves

LEMMA SensorKeepsAsked ==
  ASSUME LineTypes, LineTypes', SensorMoves, NEW cmd \in Responding, Asked(cmd), api' = api,
         sensor.resetting => sensor.inbox = <<>>, api.got \in Seq(Byte)
  PROVE  Asked(cmd)' \/ (cmd = "DS" /\ sensor'.streaming /\ Calm')
<1>1. CASE Quiet /\ api.got = <<>>
  BY <1>1, SensorKeepsQuiet DEF Asked
<1>2. CASE Answered(cmd)
  <2>1. Calm' /\ ~sensor'.streaming
    BY <1>2, SensorKeepsCalm DEF Answered, SensorMoves, Acts, Streams, Sends1, Settles, Calm
  <2>2. Len(api'.got) + Len(rx') + Len(sensor'.sending) = Length(cmd)
    <3>1. CASE Sends1
      <4>1. Len(api.got) + Len(rx) + Len(sensor.sending) = Length(cmd) /\ Length(cmd) \in Nat
        BY <1>2, Lengths DEF Answered
      <4>2. Len(rx') + Len(sensor'.sending) = Len(rx) + Len(sensor.sending)
        <5>1. Len(rx) \in Nat /\ Len(sensor.sending) \in Nat
          BY InboxIs
        <5>2. Len(rx') = Len(rx) + 1 /\ Len(sensor'.sending) = Len(sensor.sending) - 1
          BY <3>1 DEF Sends1
        <5>3. \A a, b \in Nat : (a + 1) + (b - 1) = a + b
          OBVIOUS
        <5>4. QED
          BY <5>1, <5>2, <5>3
      <4>3. /\ Len(api.got) \in Nat /\ Len(rx) \in Nat /\ Len(sensor.sending) \in Nat
            /\ Len(rx') \in Nat /\ Len(sensor'.sending) \in Nat
        <5>1. rx' \in Seq(Byte) /\ sensor'.sending \in Seq(Byte)
          BY DEF LineTypes, SensorState
        <5>2. QED
          BY <5>1, InboxIs, LenProperties
      <4>4. PICK g, r, m, r1, m1 \in Nat :
              /\ g = Len(api.got) /\ r = Len(rx) /\ m = Len(sensor.sending)
              /\ r1 = Len(rx') /\ m1 = Len(sensor'.sending)
        BY <4>3
      <4>5. g + r1 + m1 = g + r + m
        <5>1. r1 + m1 = r + m
          BY <4>2, <4>4
        <5>2. QED
          BY <5>1
      <4>6. QED
        BY <4>1, <4>4, <4>5
    <3>2. CASE Settles
      BY <1>2, <3>2 DEF Settles, Answered
    <3>3. QED
      BY <1>2, <3>1, <3>2 DEF SensorMoves, Acts, Streams, Answered, Calm
  <2>3. QED
    BY <2>1, <2>2 DEF Asked, Answered
<1>3. CASE Unanswered(cmd)
  <2>1. CASE Acts
    <3>1. Len(sensor.inbox) \in Nat /\ Len(sensor.inbox) # 0 /\ ~sensor.resetting
      BY <1>3, InboxIs DEF Unanswered
    <3>2. CASE Len(sensor.inbox) = 1
      <4>1. Waiting(1) = cmd /\ cmd # "RR"
        BY <1>3, <3>2 DEF Unanswered, Responding
      <4>2. /\ sensor'.inbox = Tail(sensor.inbox) /\ Len(sensor'.sending) = Length(cmd)
            /\ ~sensor'.resetting /\ rx' = rx /\ (cmd # "DS" => ~sensor'.streaming)
        BY <1>3, <2>1, <3>1, <4>1 DEF Acts, Acted, Unanswered
      <4>3. Len(sensor'.inbox) = 0
        BY <3>1, <3>2, <4>2, TailOfInbox, InboxIs
      <4>4. sensor'.inbox = <<>>
        BY <4>3, EmptySeq DEF LineTypes, SensorState
      <4>5. Calm'
        BY <4>2, <4>4 DEF Calm
      <4>6. CASE ~sensor'.streaming
        <5>1. Len(api'.got) = 0 /\ Len(rx') = 0 /\ Length(cmd) \in Nat
          BY <1>3, <4>2, InboxIs, Lengths DEF Unanswered
        <5>2. Len(api'.got) + Len(rx') + Len(sensor'.sending) = Length(cmd)
          BY <4>2, <5>1
        <5>3. QED
          BY <4>5, <4>6, <5>2 DEF Asked, Answered
      <4>7. QED
        BY <4>2, <4>5, <4>6
    <3>3. CASE Len(sensor.inbox) # 1
      <4>1. Waiting(1) = "RR"
        <5>1. \A n \in Nat : n # 0 /\ n # 1 => 1 \in 1 .. n - 1
          OBVIOUS
        <5>2. QED
          BY <1>3, <3>1, <3>3, <5>1 DEF Unanswered
      <4>2. /\ sensor'.inbox = <<>> /\ sensor'.sending = <<>> /\ ~sensor'.streaming /\ rx' = <<>>
            /\ api'.got = <<>>
        BY <1>3, <2>1, <4>1 DEF Acts, Acted, Unanswered
      <4>3. Len(sensor'.inbox) = 0
        BY <4>2
      <4>4. QED
        BY <4>2, <4>3 DEF Asked, Quiet, Pending
    <3>4. QED
      BY <3>2, <3>3
  <2>2. CASE Streams \/ Sends1
    BY <1>3, <2>2 DEF Streams, Sends1, Unanswered
  <2>3. CASE Settles
    BY <1>3, <2>3 DEF Settles, Unanswered, Asked, Waiting
  <2>4. QED
    BY <2>1, <2>2, <2>3 DEF SensorMoves
<1>4. QED
  BY <1>1, <1>2, <1>3 DEF Asked

Asks == At({"DX2"} \cup Asking, "read")

LEMMA AskedForResponse ==
  ASSUME Control, Asks
  PROVE  CommandOf[First] \in Responding
BY CommandsOfSteps DEF Control, Asks, At, Responding

LEMMA SensorKeepsLine ==
  ASSUME LineTypes, LineTypes', SensorMoves, Line, Control, api.got \in Seq(Byte),
         UNCHANGED <<object, is_scanning, api>>
  PROVE  Line'
<1>1. /\ \A steps, phase : At(steps, phase)' <=> At(steps, phase)
      /\ First' = First /\ Asks' = Asks
  BY DEF At, First, Step, Asks
<1>2. (sensor.resetting => sensor.inbox = <<>>)'
  BY DEF SensorMoves, Acts, Acted, Streams, Sends1, Settles, Line
<1>3. object' # "freed" /\ At({"none", "raise", "DX1"}, "run")' =>
        IF object' = "none" \/ is_scanning' THEN Calm' ELSE Quiet'
  <2>1. CASE object = "none" \/ is_scanning
    BY <1>1, <2>1, SensorKeepsCalm DEF Line
  <2>2. CASE ~(object = "none" \/ is_scanning)
    BY <1>1, <2>2, SensorKeepsQuiet DEF Line
  <2>3. QED
    BY <2>1, <2>2
<1>4. At({"DX1"}, "sleep")' => Sleeping'
  BY <1>1, SensorKeepsSleeping DEF Line
<1>5. At({"DX1"}, "read")' \/ At({"flush"}, "run")' => Still'
  BY <1>1, SensorKeepsStill DEF Line
<1>6. At({"DX2", "lower"} \cup Asking, "run")' => Quiet'
  BY <1>1, SensorKeepsQuiet DEF Line
<1>7. At(Starting, "run")' => Calm'
  BY <1>1, SensorKeepsCalm DEF Line
<1>8. Asks' => Asked(CommandOf[First])' \/ (First' = "DS" /\ sensor'.streaming /\ Calm')
  <2> SUFFICES ASSUME Asks
               PROVE  Asked(CommandOf[First])' \/ (First' = "DS" /\ sensor'.streaming /\ Calm')
    BY <1>1
  <2>1. CASE Asked(CommandOf[First])
    <3> DEFINE cmd == CommandOf[First]
    <3>1. cmd \in Responding /\ (cmd = "DS" => First = "DS") /\ cmd' = cmd
      BY <1>1, AskedForResponse, CommandsOfSteps DEF Control, Asks, At
    <3>2. sensor.resetting => sensor.inbox = <<>>
      BY DEF Line
    <3> HIDE DEF cmd
    <3>3. Asked(cmd)' \/ (cmd = "DS" /\ sensor'.streaming /\ Calm')
      <4>1. Asked(cmd)
        BY <2>1 DEF cmd
      <4>2. PICK c \in Responding : c = cmd
        BY <3>1
      <4>3. Asked(c)' \/ (c = "DS" /\ sensor'.streaming /\ Calm')
        BY <3>2, <4>1, <4>2, SensorKeepsAsked
      <4>4. Asked(c)' <=> Asked(cmd)'
        BY <3>1, <4>2 DEF Asked, Unanswered, Answered
      <4>5. QED
        BY <4>2, <4>3, <4>4
    <3>4. QED
      BY <1>1, <3>1, <3>3 DEF cmd
  <2>2. CASE First = "DS" /\ sensor.streaming /\ Calm
    <3>1. Calm'
      BY <2>2, SensorKeepsCalm
    <3>2. sensor'.streaming
      BY <2>2 DEF SensorMoves, Acts, Streams, Sends1, Settles, Calm
    <3>3. QED
      BY <1>1, <2>2, <3>1, <3>2
  <2>3. QED
    BY <2>1, <2>2 DEF Line, Asks
<1>9. QED
  BY <1>2, <1>3, <1>4, <1>5, <1>6, <1>7, <1>8 DEF Line, Asks

LEMMA SensorKeeps ==
  ASSUME IInv, Sensor PROVE IInv'
<1>1. /\ UNCHANGED <<object, is_scanning, stop_thread, scan_queue, worker, buffer, sessions, changes>>
      /\ UNCHANGED <<api, getter>> /\ SensorNext
  BY DEF Sensor, deviceVars
<1>2. LineTypes /\ api \in ApiState /\ api.got \in Seq(Byte)
  BY DEF IInv, Types, TypeOK, ApiState, LineTypes
<1>3. LineTypes' /\ (~plugged' \/ (plugged' = plugged /\ SensorMoves))
  BY <1>1, <1>2, SensorDoes DEF SensorMoves
<1>4. Types'
  BY <1>1, <1>3 DEF IInv, Types, TypeOK, LineTypes
<1>5. Control'
  BY <1>1 DEF IInv, Control, First, Step, Need
<1>6. Grace /\ plugged' => Line'
  BY <1>1, <1>2, <1>3, SensorKeepsLine DEF IInv, Talk
<1>7. Grace => Workers'
  <2> SUFFICES ASSUME Grace PROVE Workers'
    OBVIOUS
  <2>1. Alive' = Alive
    BY <1>1 DEF Alive
  <2>2. First' = First /\ \A steps, phase : At(steps, phase)' <=> At(steps, phase)
    BY <1>1 DEF At, First, Step
  <2>3. ASSUME plugged', At({"DX1"}, "read"), Silent PROVE Silent'
    <3>1. SensorMoves /\ Still
      BY <1>2, <1>3, <2>3 DEF IInv, Talk, Line, LineTypes
    <3>2. rx' = rx
      BY <1>2, <1>3, <3>1, SensorKeepsStill
    <3>3. QED
      BY <1>1, <2>1, <2>3, <3>2 DEF Silent
  <2>4. plugged' => plugged
    BY <1>2, <1>3 DEF LineTypes
  <2>5. QED
    BY <1>1, <2>1, <2>2, <2>3, <2>4 DEF IInv, Talk, Workers
<1>8. QED
  BY <1>4, <1>5, <1>6, <1>7 DEF IInv, Talk

-----------------------------------------------------------------------------
\* The client makes a call: what it is to do.
Plan(p, kind) ==
  /\ p \in Seq(StepNames) /\ p # <<>> /\ Lawful(p)
  /\ \A i \in 1 .. Len(p) : p[i] \in kind

LEMMA StopPlan == Plan(StopSteps, Stopping) /\ StopSteps[1] = "raise" /\ Len(StopSteps) = 5
<1>1. StopSteps \in Seq(StepNames) /\ Len(StopSteps) = 5
  BY DEF StopSteps, StepNames, Stopping
<1>2. /\ StopSteps[1] = "raise" /\ StopSteps[2] = "DX1" /\ StopSteps[3] = "flush"
      /\ StopSteps[4] = "DX2" /\ StopSteps[5] = "lower"
  BY DEF StopSteps
<1>3. \A i \in 1 .. 4 : MayFollow(StopSteps[i], StopSteps[i + 1])
  BY <1>2 DEF MayFollow
<1>4. \A i \in 1 .. 5 : StopSteps[i] \in Stopping
  BY <1>2 DEF Stopping
<1>5. StopSteps # <<>>
  BY <1>1
<1>6. QED
  BY <1>1, <1>2, <1>3, <1>4, <1>5 DEF Plan, Lawful, Unfinished

LEMMA DestructPlan == Plan(Append(StopSteps, "free"), Stopping) /\ Append(StopSteps, "free")[1] = "raise"
<1> DEFINE p == Append(StopSteps, "free")
<1>1. /\ StopSteps \in Seq(StepNames) /\ Len(StopSteps) = 5 /\ StopSteps[5] = "lower"
      /\ \A i \in 1 .. 4 : MayFollow(StopSteps[i], StopSteps[i + 1])
      /\ \A i \in 1 .. 5 : StopSteps[i] \in Stopping
  BY StopPlan DEF Plan, Lawful, StopSteps
<1>1a. "free" \in StepNames
  BY DEF StepNames, Stopping
<1>1b. /\ p \in Seq(StepNames) /\ Len(p) = Len(StopSteps) + 1 /\ p[Len(StopSteps) + 1] = "free"
       /\ \A i \in 1 .. Len(StopSteps) : p[i] = StopSteps[i]
  <2>1. PICK q \in Seq(StepNames) : q = StopSteps
    BY <1>1
  <2>2. PICK e \in StepNames : e = "free"
    BY <1>1a
  <2>3. /\ Append(q, e) \in Seq(StepNames) /\ Len(Append(q, e)) = Len(q) + 1
        /\ Append(q, e)[Len(q) + 1] = e /\ \A i \in 1 .. Len(q) : Append(q, e)[i] = q[i]
    OBVIOUS
  <2>4. QED
    BY <2>1, <2>2, <2>3
<1>2. p \in Seq(StepNames) /\ Len(p) = 6 /\ p[6] = "free"
  BY <1>1, <1>1b
<1>3. \A i \in 1 .. 5 : p[i] = StopSteps[i]
  BY <1>1, <1>1b
<1> HIDE DEF p
<1>4. \A i \in 1 .. 5 : MayFollow(p[i], p[i + 1])
  <2>1. ASSUME NEW i \in 1 .. 4 PROVE MayFollow(p[i], p[i + 1])
    <3>1. p[i] = StopSteps[i] /\ p[i + 1] = StopSteps[i + 1]
      BY <1>3
    <3>2. QED
      BY <1>1, <3>1
  <2>2. MayFollow(p[5], p[6])
    BY <1>1, <1>2, <1>3 DEF MayFollow
  <2>3. QED
    BY <2>1, <2>2
<1>5. \A i \in 1 .. 6 : p[i] \in Stopping
  BY <1>1, <1>2, <1>3 DEF Stopping
<1>6. p # <<>>
  BY <1>2
<1>7. p[1] = "raise"
  BY <1>3, StopPlan
<1>8. QED
  BY <1>2, <1>4, <1>5, <1>6, <1>7 DEF Plan, Lawful, Unfinished, p

LEMMA StartPlan == Plan(StartSteps, Asking \cup Starting) /\ StartSteps[1] = "adjust"
<1>1. StartSteps \in Seq(StepNames) /\ Len(StartSteps) = 5
  BY DEF StartSteps, StepNames, Asking, Starting
<1>2. /\ StartSteps[1] = "adjust" /\ StartSteps[2] = "wait" /\ StartSteps[3] = "DS"
      /\ StartSteps[4] = "clear" /\ StartSteps[5] = "spawn"
  BY DEF StartSteps
<1>3. \A i \in 1 .. 4 : MayFollow(StartSteps[i], StartSteps[i + 1])
  BY <1>2 DEF MayFollow
<1>4. \A i \in 1 .. 5 : StartSteps[i] \in Asking \cup Starting
  BY <1>2 DEF Asking, Starting
<1>5. StartSteps # <<>>
  BY <1>1
<1>6. QED
  BY <1>1, <1>2, <1>3, <1>4, <1>5 DEF Plan, Lawful, Unfinished

LEMMA SpeedPlan == Plan(<<"wait", "MS">>, Asking) /\ <<"wait", "MS">>[1] = "wait"
<1> DEFINE p == <<"wait", "MS">>
<1>1. p \in Seq(StepNames) /\ Len(p) = 2 /\ p[1] = "wait" /\ p[2] = "MS" /\ p # <<>>
  BY DEF StepNames, Asking
<1> HIDE DEF p
<1>2. \A i \in 1 .. 1 : MayFollow(p[i], p[i + 1])
  BY <1>1 DEF MayFollow
<1>3. \A i \in 1 .. 2 : p[i] \in Asking
  BY <1>1 DEF Asking
<1>4. QED
  BY <1>1, <1>2, <1>3 DEF Plan, Lawful, Unfinished, p

LEMMA RequestPlan ==
  ASSUME NEW cmd \in Requests PROVE Plan(<<cmd>>, Asking) /\ <<cmd>>[1] = cmd
<1>1. cmd \in Asking /\ cmd \in StepNames /\ cmd \notin Unfinished
  BY DeviceAssumption DEF Asking, StepNames, Unfinished
<1>2. <<cmd>> \in Seq(StepNames) /\ Len(<<cmd>>) = 1 /\ <<cmd>>[1] = cmd /\ <<cmd>> # <<>>
  BY <1>1
<1>3. \A i \in 1 .. 1 : <<cmd>>[i] \in Asking
  BY <1>1, <1>2
<1>4. \A i \in 1 .. Len(<<cmd>>) - 1 : FALSE
  BY <1>2
<1>5. QED
  BY <1>1, <1>2, <1>3, <1>4 DEF Plan, Lawful

Started(kind) ==
  /\ api' \in ApiState /\ api'.phase = "run" /\ api'.got = <<>>
  /\ api.todo = <<>> /\ First = "none" /\ api.phase = "run"
  /\ Lawful(api'.todo)
  /\ \A i \in 1 .. Len(api'.todo) : api'.todo[i] \in kind
  /\ First' \in kind /\ api'.todo # <<>>

LEMMA CallStarts ==
  ASSUME Types, Control, NEW name \in Calls, NEW kind, NEW steps, Plan(steps, kind),
         NEW hz \in 0 .. 10, Call(name, steps, hz)
  PROVE  Started(kind) /\ First' = steps[1]
<1>1. api.todo = <<>> /\ api' = [api EXCEPT !.call = name, !.todo = steps, !.hz = hz, !.errors = 0]
  BY DEF Call
<1>2. First = "none" /\ api \in ApiState
  BY <1>1 DEF First, Types
<1>3. "none" \notin DOMAIN CommandOf \ {"RR"}
  BY CommandsOfSteps DEF Asking
<1>4. api.phase = "run" /\ api.got = <<>>
  BY <1>2, <1>3 DEF Control, ApiState
<1>5. /\ api' \in ApiState /\ api'.todo = steps /\ api'.phase = api.phase /\ api'.got = api.got
  BY <1>1, <1>2 DEF ApiState, Plan
<1>6. First' = steps[1] /\ steps[1] \in kind
  <2>1. First' = steps[1]
    BY <1>5 DEF First, Step, Plan
  <2>2. Len(steps) \in Nat /\ Len(steps) # 0
    BY EmptySeq DEF Plan
  <2>3. \A n \in Nat : n # 0 => 1 \in 1 .. n
    OBVIOUS
  <2>4. QED
    BY <2>1, <2>2, <2>3 DEF Plan
<1>7. QED
  BY <1>1, <1>2, <1>4, <1>5, <1>6 DEF Started, Plan

LEMMA Disjoint ==
  /\ \A s \in Asking \cup Starting : s \notin Stopping
  /\ \A s \in StepNames : s # "none"
BY DEF Asking, Starting, Stopping, StepNames

LEMMA ConstructKeeps == ASSUME IInv, sweep_device_construct PROVE IInv'
<1>1. /\ object = "none" /\ plugged /\ object' = "live" /\ is_scanning' = TRUE /\ stop_thread' = FALSE
      /\ rx' = <<>>
      /\ UNCHANGED <<scan_queue, worker, buffer, sessions, changes, getter, sensor, plugged>>
  BY DEF sweep_device_construct
<1>2. Started(Stopping) /\ First' = "raise"
  BY StopPlan, CallStarts DEF sweep_device_construct, Calls, IInv
<1>3. Types'
  <2>1. rx' \in Seq(Byte) /\ object' \in {"none", "live", "freed"}
    BY <1>1
  <2>2. QED
    BY <1>1, <1>2, <2>1 DEF Started, IInv, Types, TypeOK, ApiState, CommandOf, StepNames, Stopping,
                            Asking, Starting
<1>4. Control'
  BY <1>1, <1>2, Disjoint DEF Started, Control, Starting
<1>5. Grace => Line'
  <2> SUFFICES ASSUME Grace PROVE Line'
    OBVIOUS
  <2>1. Calm /\ (sensor.resetting => sensor.inbox = <<>>)
    BY <1>1, <1>2 DEF Started, IInv, Talk, Line, At
  <2>2. QED
    BY <1>1, <1>2, <2>1 DEF Started, Line, At, Calm, Asking, Starting
<1>6. Grace => Workers'
  BY <1>1, <1>2 DEF Started, IInv, Talk, Workers, Alive, At
<1>7. QED
  BY <1>3, <1>4, <1>5, <1>6 DEF IInv, Talk

LEMMA StopKeeps ==
  ASSUME IInv, sweep_device_stop_scanning \/ sweep_device_destruct PROVE IInv'
<1>1. /\ object = "live"
      /\ UNCHANGED <<object, is_scanning, stop_thread, scan_queue, worker, buffer, sessions, changes>>
      /\ UNCHANGED <<getter, sensor, rx, plugged>>
  BY DEF sweep_device_stop_scanning, sweep_device_destruct, deviceVars, lineVars
<1>2. Started(Stopping) /\ First' = "raise"
  <2>1. CASE sweep_device_stop_scanning
    BY <2>1, StopPlan, CallStarts DEF sweep_device_stop_scanning, Calls, IInv
  <2>2. CASE sweep_device_destruct
    <3>1. PICK steps : steps = Append(StopSteps, "free")
      OBVIOUS
    <3>2. Plan(steps, Stopping) /\ steps[1] = "raise" /\ Call("destruct", steps, 0)
      BY <2>2, <3>1, DestructPlan DEF sweep_device_destruct
    <3>3. QED
      BY <3>2, CallStarts DEF Calls, IInv
  <2>3. QED
    BY <2>1, <2>2
<1>3. Types'
  BY <1>1, <1>2 DEF Started, IInv, Types, TypeOK, ApiState, CommandOf, StepNames, Stopping,
                    Asking, Starting
<1>4. Control'
  BY <1>1, <1>2, Disjoint DEF Started, Control, Starting
<1>5. Grace /\ plugged => Line'
  <2> SUFFICES ASSUME Grace, plugged PROVE Line'
    OBVIOUS
  <2>1. /\ IF is_scanning THEN Calm ELSE Quiet
        /\ sensor.resetting => sensor.inbox = <<>>
    BY <1>1, <1>2 DEF Started, IInv, Talk, Line, At
  <2>2. QED
    BY <1>1, <1>2, <2>1 DEF Started, Line, At, Calm, Quiet, Pending, Waiting, Asking, Starting
<1>6. Grace => Workers'
  BY <1>1, <1>2 DEF Started, IInv, Talk, Workers, Alive, At
<1>7. QED
  BY <1>1, <1>3, <1>4, <1>5, <1>6 DEF IInv, Talk

LEMMA AskKeeps ==
  ASSUME IInv,
         \/ sweep_device_start_scanning
         \/ \E hz \in Speeds : sweep_device_set_motor_speed(hz)
         \/ \E cmd \in Requests : Request(cmd)
  PROVE  IInv'
<1>1. /\ object = "live" /\ ~is_scanning
      /\ UNCHANGED <<object, is_scanning, stop_thread, scan_queue, worker, buffer, sessions>>
      /\ changes' = changes \/ (changes < MaxSpeedChanges /\ changes' = changes + 1)
      /\ UNCHANGED <<getter, sensor, rx, plugged>>
  BY DEF sweep_device_start_scanning, sweep_device_set_motor_speed, Request, deviceVars, lineVars
<1>2. /\ Started(Asking \cup Starting) /\ First' \in Asking
      /\ sessions < MaxSessions \/ Started(Asking)
  <2>1. ASSUME sweep_device_start_scanning PROVE Started(Asking \cup Starting) /\ First' \in Asking
    BY <2>1, StartPlan, CallStarts DEF sweep_device_start_scanning, Calls, IInv, Asking
  <2>2. ASSUME NEW hz \in Speeds, sweep_device_set_motor_speed(hz) PROVE Started(Asking)
    <3>1. Plan(<<"wait", "MS">>, Asking) /\ hz \in 0 .. 10 /\ Call("set_motor_speed", <<"wait", "MS">>, hz)
      BY <2>2, SpeedPlan, LineAssumption DEF sweep_device_set_motor_speed
    <3>2. QED
      BY <3>1, CallStarts DEF Calls, IInv
  <2>3. ASSUME NEW cmd \in Requests, Request(cmd) PROVE Started(Asking)
    <3>1. Plan(<<cmd>>, Asking) /\ cmd \in Calls /\ Call(cmd, <<cmd>>, 0)
      BY <2>3, RequestPlan, DeviceAssumption DEF Request, Calls
    <3>2. QED
      BY <3>1, CallStarts DEF IInv
  <2>4. Started(Asking) => Started(Asking \cup Starting) /\ First' \in Asking
    BY DEF Started
  <2>5. sweep_device_start_scanning => sessions < MaxSessions
    BY DEF sweep_device_start_scanning
  <2>6. QED
    BY <2>1, <2>2, <2>3, <2>4, <2>5
<1>3. Types'
  <2>1. changes' \in 0 .. MaxSpeedChanges
    BY <1>1, DeviceAssumption DEF IInv, Types, TypeOK
  <2>2. QED
    BY <1>1, <1>2, <2>1 DEF Started, IInv, Types, TypeOK, ApiState, CommandOf, StepNames, Stopping,
                            Asking, Starting
<1>4. Control'
  BY <1>1, <1>2 DEF Started, Control, Asking
<1>5. Grace /\ plugged => Line'
  <2> SUFFICES ASSUME Grace, plugged PROVE Line'
    OBVIOUS
  <2>1. Quiet /\ (sensor.resetting => sensor.inbox = <<>>)
    BY <1>1, <1>2 DEF Started, IInv, Talk, Line, At
  <2>2. Quiet' /\ (sensor.resetting => sensor.inbox = <<>>)'
    BY <1>1, <2>1 DEF Quiet, Pending, Waiting
  <2>3. First' \notin {"none", "raise", "DX1", "flush"} \cup Starting /\ api'.phase = "run"
    BY <1>2 DEF Started, Asking, Starting
  <2>4. QED
    BY <1>1, <2>2, <2>3 DEF Line, At
<1>6. Grace => Workers'
  BY <1>1, <1>2 DEF Started, IInv, Talk, Workers, Alive, At, Asking
<1>7. QED
  BY <1>1, <1>3, <1>4, <1>5, <1>6 DEF IInv, Talk

\* A construct that finds no port has changed nothing but its own result.
LEMMA ConstructFailsKeeps == ASSUME IInv, ConstructFails PROVE IInv'
<1>1. /\ UNCHANGED <<deviceVars, getter, lineVars>> /\ ~plugged
      /\ api' = [api EXCEPT !.call = "construct", !.errors = 1] /\ api \in ApiState
  BY DEF ConstructFails, IInv, Types
<1>2. /\ api' \in ApiState /\ api'.todo = api.todo /\ api'.phase = api.phase /\ api'.got = api.got
      /\ api'.tries = api.tries /\ api'.errors \in Nat /\ First' = First
  BY <1>1 DEF ApiState, Calls, First, Step
<1>3. Types'
  BY <1>1, <1>2 DEF IInv, Types, TypeOK, deviceVars, lineVars
<1>4. Control'
  BY <1>1, <1>2 DEF IInv, Control, deviceVars, Need, Step
<1>5. Grace => Workers'
  BY <1>1, <1>2 DEF IInv, Talk, Workers, Alive, At, deviceVars, lineVars
<1>6. QED
  BY <1>1, <1>3, <1>4, <1>5 DEF IInv, Talk, lineVars

LEMMA ApiCallKeeps == ASSUME IInv, ApiCall PROVE IInv'
<1>1. \A cmd : Request(cmd) => cmd \in Requests
  BY DEF Request
<1>2. QED
  BY <1>1, ConstructKeeps, ConstructFailsKeeps, StopKeeps, AskKeeps
     DEF ApiCall, sweep_device_get_motor_ready, sweep_device_get_motor_speed,
         sweep_device_get_sample_rate, sweep_device_set_sample_rate, sweep_device_reset

-----------------------------------------------------------------------------
\* The client takes a step of its call: it goes on to the next one, polls the
\* motor again, polls it for the first time, or ends the call.
Further == api'.todo = Tail(api.todo)
Again == First = "wait" /\ api'.todo = api.todo
Adjusted == First = "adjust" /\ api'.todo = <<"wait", "MS">> \o Tail(api.todo)
Aborted == First \in {"DX1", "flush", "DX2"} /\ api'.todo \in {<<>>, <<"free">>}

Goes == /\ api'.phase = "run" /\ api'.got = <<>>
        /\ api' \in ApiState
        /\ Further \/ Again \/ Adjusted \/ Aborted

\* Which step is the next one then.
Follows ==
  \/ First' = "none" /\ First \notin Unfinished
  \/ First' \in StepNames /\ MayFollow(First, First')
  \/ First' = "wait" /\ First \in {"adjust", "wait"}
  \/ First' \in {"none", "free"} /\ Aborted /\ ~Further

LEMMA TailOfTodo ==
  ASSUME NEW steps \in Seq(StepNames), steps # <<>>, Lawful(steps)
  PROVE  /\ Tail(steps) \in Seq(StepNames) /\ Lawful(Tail(steps))
         /\ Len(Tail(steps)) = Len(steps) - 1
         /\ \A i \in 1 .. Len(Tail(steps)) : i + 1 \in 1 .. Len(steps) /\ Tail(steps)[i] = steps[i + 1]
         /\ IF Tail(steps) = <<>> THEN Len(steps) = 1 /\ steps[1] \notin Unfinished
            ELSE Tail(steps)[1] = steps[2] /\ MayFollow(steps[1], steps[2]) /\ steps[2] \in StepNames
<1>1. PICK n \in Nat : n = Len(steps)
  OBVIOUS
<1>2. n # 0 /\ Tail(steps) \in Seq(StepNames) /\ Len(Tail(steps)) = n - 1
  BY <1>1, EmptySeq
<1>3. \A i \in 1 .. n - 1 : i + 1 \in 1 .. n /\ Tail(steps)[i] = steps[i + 1]
  BY <1>1, <1>2
<1>4. \A i \in 1 .. n : steps[i] \in StepNames
  BY <1>1
<1>5. Lawful(Tail(steps))
  <2>1. ASSUME NEW i \in 1 .. (n - 1) - 1 PROVE MayFollow(Tail(steps)[i], Tail(steps)[i + 1])
    <3>1. i \in 1 .. n - 1 /\ i + 1 \in 1 .. n - 1
      BY <1>2
    <3>2. Tail(steps)[i] = steps[i + 1] /\ Tail(steps)[i + 1] = steps[(i + 1) + 1]
      BY <1>3, <3>1
    <3>3. QED
      BY <1>1, <3>1, <3>2 DEF Lawful
  <2>2. ASSUME NEW i \in 1 .. n - 1, Tail(steps)[i] \in Unfinished PROVE i # n - 1
    <3>1. steps[i + 1] \in Unfinished /\ i + 1 \in 1 .. n
      BY <1>3, <2>2
    <3>2. i + 1 # n
      BY <1>1, <3>1 DEF Lawful
    <3>3. QED
      BY <3>2
  <2>3. QED
    BY <1>2, <2>1, <2>2 DEF Lawful
<1>6. IF Tail(steps) = <<>> THEN n = 1 /\ steps[1] \notin Unfinished
      ELSE Tail(steps)[1] = steps[2] /\ MayFollow(steps[1], steps[2]) /\ steps[2] \in StepNames
  <2>1. CASE Tail(steps) = <<>>
    <3>1. n = 1
      <4>1. n - 1 = 0
        BY <1>2, <2>1
      <4>2. QED
        BY <4>1
    <3>2. steps[1] \notin Unfinished
      BY <1>1, <3>1 DEF Lawful
    <3>3. QED
      BY <2>1, <3>1, <3>2
  <2>2. CASE Tail(steps) # <<>>
    <3>1. n - 1 # 0
      BY <1>2, <2>2, EmptySeq
    <3>2. 1 \in 1 .. n - 1 /\ 2 \in 1 .. n
      BY <1>2, <3>1
    <3>3. QED
      BY <1>1, <1>3, <1>4, <2>2, <3>2 DEF Lawful
  <2>3. QED
    BY <2>1, <2>2
<1>7. QED
  BY <1>1, <1>2, <1>3, <1>5, <1>6

LEMMA AdjustedTodo ==
  ASSUME NEW p, NEW steps \in Seq(StepNames), steps # <<>>, Lawful(steps), steps[1] = "adjust",
         p = <<"wait", "MS">> \o Tail(steps)
  PROVE  /\ p \in Seq(StepNames) /\ p # <<>> /\ Lawful(p) /\ p[1] = "wait"
         /\ \A i \in 1 .. Len(p) : \/ p[i] \in {"wait", "MS"}
                                   \/ \E j \in 1 .. Len(steps) : p[i] = steps[j]
<1> DEFINE two == <<"wait", "MS">>
<1>1. PICK rest \in Seq(StepNames) : rest = Tail(steps)
  BY TailOfTodo
<1>2. PICK n \in Nat : n = Len(rest)
  OBVIOUS
<1>3. two \in Seq(StepNames) /\ Len(two) = 2 /\ two[1] = "wait" /\ two[2] = "MS"
  BY DEF StepNames, Asking
<1>4. p = two \o rest
  BY <1>1
<1> HIDE DEF two
<1>4a. PICK q \in Seq(StepNames) : q = two
  BY <1>3
<1>4b. /\ q \o rest \in Seq(StepNames) /\ Len(q \o rest) = Len(q) + Len(rest)
       /\ \A i \in 1 .. Len(q) : (q \o rest)[i] = q[i]
       /\ \A i \in 1 .. Len(rest) : (q \o rest)[Len(q) + i] = rest[i]
  OBVIOUS
<1>5. p \in Seq(StepNames) /\ Len(p) = 2 + n /\ p[1] = "wait" /\ p[2] = "MS"
  <2>1. p \in Seq(StepNames) /\ Len(p) = 2 + n
    BY <1>2, <1>3, <1>4, <1>4a, <1>4b
  <2>2. p[1] = q[1] /\ p[2] = q[2]
    BY <1>3, <1>4, <1>4a, <1>4b
  <2>3. QED
    BY <1>3, <1>4a, <2>1, <2>2
<1>6. \A i \in 1 .. n : p[2 + i] = rest[i]
  BY <1>2, <1>3, <1>4, <1>4a, <1>4b
<1>7. ASSUME NEW i \in 3 .. n + 2 PROVE i - 2 \in 1 .. n /\ p[i] = rest[i - 2]
  <2>1. i - 2 \in 1 .. n /\ 2 + (i - 2) = i
    BY <1>2
  <2>2. QED
    BY <1>6, <2>1
<1>8. Lawful(p)
  <2>1. ASSUME NEW i \in 1 .. (2 + n) - 1 PROVE MayFollow(p[i], p[i + 1])
    <3>1. CASE i = 1
      BY <1>5, <3>1 DEF MayFollow
    <3>2. CASE i = 2
      <4>1. 1 \in 1 .. n
        BY <3>2
      <4>2. rest[1] = steps[2] /\ MayFollow(steps[1], steps[2])
        <5>1. rest # <<>>
          BY <1>2, <4>1
        <5>2. QED
          BY <1>1, <5>1, TailOfTodo
      <4>3. rest[1] = "wait"
        BY <4>2 DEF MayFollow
      <4>4. p[3] = rest[1]
        <5>1. 3 \in 3 .. n + 2 /\ 3 - 2 = 1
          BY <4>1
        <5>2. QED
          BY <1>7, <5>1
      <4>5. QED
        BY <1>5, <3>2, <4>3, <4>4 DEF MayFollow
    <3>3. CASE i \notin {1, 2}
      <4>1. i \in 3 .. n + 2 /\ i + 1 \in 3 .. n + 2 /\ i - 2 \in 1 .. n - 1 /\ (i + 1) - 2 = (i - 2) + 1
        BY <3>3
      <4>2. p[i] = rest[i - 2] /\ p[i + 1] = rest[(i - 2) + 1]
        BY <1>7, <4>1
      <4>3. MayFollow(rest[i - 2], rest[(i - 2) + 1])
        BY <1>1, <1>2, <4>1, TailOfTodo DEF Lawful
      <4>4. QED
        BY <4>2, <4>3
    <3>4. QED
      BY <3>1, <3>2, <3>3
  <2>2. ASSUME NEW i \in 1 .. 2 + n, p[i] \in Unfinished PROVE i # 2 + n
    <3>1. CASE i \in {1, 2}
      BY <1>5, <2>2, <3>1 DEF Unfinished
    <3>2. CASE i \notin {1, 2}
      <4>1. i \in 3 .. n + 2
        BY <3>2
      <4>2. rest[i - 2] \in Unfinished /\ i - 2 \in 1 .. n
        BY <1>7, <2>2, <4>1
      <4>3. i - 2 # n
        BY <1>1, <1>2, <4>2, TailOfTodo DEF Lawful
      <4>4. QED
        BY <4>3
    <3>3. QED
      BY <3>1, <3>2
  <2>3. QED
    BY <1>5, <2>1, <2>2 DEF Lawful
<1>9. ASSUME NEW i \in 1 .. 2 + n
      PROVE  p[i] \in {"wait", "MS"} \/ \E j \in 1 .. Len(steps) : p[i] = steps[j]
  <2>1. CASE i \in {1, 2}
    BY <1>5, <2>1
  <2>2. CASE i \notin {1, 2}
    <3>1. i \in 3 .. n + 2
      BY <2>2
    <3>2. i - 2 \in 1 .. n /\ p[i] = rest[i - 2]
      BY <1>7, <3>1
    <3>3. (i - 2) + 1 \in 1 .. Len(steps) /\ rest[i - 2] = steps[(i - 2) + 1]
      BY <1>1, <1>2, <3>2, TailOfTodo
    <3>4. QED
      BY <3>2, <3>3
  <2>3. QED
    BY <2>1, <2>2
<1>10. p # <<>>
  BY <1>5
<1>11. QED
  BY <1>5, <1>8, <1>9, <1>10

\* Wherever it goes, the steps that are left are lawful.
LEMMA GoesLawfully ==
  ASSUME Types, Control, api.todo # <<>>, Goes
  PROVE  /\ Lawful(api'.todo) /\ Follows
         /\ \A i \in 1 .. Len(api'.todo) :
              \/ \E j \in 1 .. Len(api.todo) : api'.todo[i] = api.todo[j]
              \/ First = "adjust" /\ api'.todo[i] \in {"wait", "MS"}
              \/ api'.todo[i] = "free"
<1>1. PICK steps \in Seq(StepNames) : steps = api.todo
  BY DEF Types, ApiState
<1>2. Lawful(steps) /\ steps # <<>> /\ First = steps[1]
  BY <1>1 DEF Control, First, Step
<1>3. CASE Further
  <2>1. PICK rest \in Seq(StepNames) : rest = api'.todo /\ rest = Tail(steps)
    BY <1>1, <1>2, <1>3, TailOfTodo DEF Further
  <2>2. Follows
    <3>1. CASE rest = <<>>
      <4>1. First' = "none"
        BY <2>1, <3>1 DEF First
      <4>2. QED
        BY <1>2, <2>1, <3>1, <4>1, TailOfTodo DEF Follows
    <3>2. CASE rest # <<>>
      <4>1. First' = rest[1]
        BY <2>1, <3>2 DEF First, Step
      <4>2. QED
        BY <1>2, <2>1, <3>2, <4>1, TailOfTodo DEF Follows
    <3>3. QED
      BY <3>1, <3>2
  <2>3. \A i \in 1 .. Len(rest) : i + 1 \in 1 .. Len(steps) /\ rest[i] = steps[i + 1]
    BY <1>2, <2>1, TailOfTodo
  <2>4. QED
    BY <1>1, <1>2, <2>1, <2>2, <2>3, TailOfTodo
<1>4. CASE Again
  BY <1>1, <1>2, <1>4 DEF Again, Follows, First, Step
<1>5. CASE Adjusted
  <2>1. PICK p : p = api'.todo /\ p = <<"wait", "MS">> \o Tail(steps)
    BY <1>1, <1>5 DEF Adjusted
  <2>2. /\ p \in Seq(StepNames) /\ p # <<>> /\ Lawful(p) /\ p[1] = "wait"
        /\ \A i \in 1 .. Len(p) : \/ p[i] \in {"wait", "MS"}
                                  \/ \E j \in 1 .. Len(steps) : p[i] = steps[j]
    <3>1. steps[1] = "adjust" /\ steps # <<>> /\ Lawful(steps)
      BY <1>2, <1>5 DEF Adjusted
    <3>2. QED
      BY ONLY <2>1, <3>1, steps \in Seq(StepNames), AdjustedTodo
  <2>3. First' = "wait"
    BY <2>1, <2>2 DEF First, Step
  <2>4. QED
    BY <1>1, <1>5, <2>1, <2>2, <2>3 DEF Adjusted, Follows
<1>6. CASE Aborted /\ ~Further
  <2>1. CASE api'.todo = <<>>
    <3>1. First' = "none" /\ Len(api'.todo) = 0
      BY <2>1 DEF First
    <3>2. QED
      BY <1>6, <2>1, <3>1 DEF Follows, Lawful
  <2>2. CASE api'.todo = <<"free">>
    <3>1. Len(<<"free">>) = 1 /\ <<"free">>[1] = "free" /\ <<"free">> # <<>>
      OBVIOUS
    <3>2. First' = "free"
      BY <2>2, <3>1 DEF First, Step
    <3>3. Lawful(<<"free">>)
      BY <3>1 DEF Lawful, Unfinished
    <3>4. QED
      BY <1>6, <2>2, <3>1, <3>2, <3>3 DEF Follows
  <2>3. QED
    BY <1>6, <2>1, <2>2 DEF Aborted
<1>7. QED
  BY <1>3, <1>4, <1>5, <1>6 DEF Goes

LEMMA FirstIsOne ==
  ASSUME Types, api.todo # <<>>
  PROVE  1 \in 1 .. Len(api.todo) /\ First = api.todo[1] /\ First \in StepNames
<1>1. PICK steps \in Seq(StepNames) : steps = api.todo
  BY DEF Types, ApiState
<1>2. Len(steps) \in Nat /\ Len(steps) # 0
  BY <1>1, EmptySeq
<1>3. \A n \in Nat : n # 0 => 1 \in 1 .. n
  OBVIOUS
<1>4. 1 \in 1 .. Len(steps) /\ steps[1] \in StepNames
  BY <1>2, <1>3
<1>5. QED
  BY <1>1, <1>4 DEF First, Step

LEMMA GoesInControl ==
  ASSUME Types, Control, api.todo # <<>>, Goes, UNCHANGED <<object, sessions>>,
         is_scanning' = is_scanning \/ ~is_scanning'
  PROVE  Control' /\ Follows
<1>1. First = api.todo[1] /\ 1 \in 1 .. Len(api.todo)
  BY FirstIsOne
<1>2. First = "adjust" => ~is_scanning
  BY <1>1 DEF Control, Asking
<1>3. \A i \in 1 .. Len(api'.todo) : api'.todo[i] \in Asking \cup Starting => ~is_scanning'
  BY <1>2, GoesLawfully DEF Control, Asking, Starting
<1>4. \A i \in 1 .. Len(api'.todo) : api'.todo[i] = "spawn" => sessions < MaxSessions
  BY GoesLawfully DEF Control
<1>5. QED
  BY <1>3, <1>4, GoesLawfully DEF Goes, Control

LEMMA NotToLower ==
  ASSUME Follows, First = "DX2" => Aborted PROVE First' # "lower"
<1>1. CASE First = "DX2"
  <2>1. api'.todo = <<>> => First' = "none"
    BY DEF First
  <2>2. <<"free">> # <<>> /\ <<"free">>[1] = "free"
    OBVIOUS
  <2>3. api'.todo = <<"free">> => First' = "free"
    BY <2>2 DEF First, Step
  <2>4. QED
    BY <1>1, <2>1, <2>3 DEF Aborted
<1>2. CASE First # "DX2"
  BY <1>2 DEF Follows, MayFollow
<1>3. QED
  BY <1>1, <1>2

-----------------------------------------------------------------------------
\* One read(): no byte is lost, and none beyond what is missing is taken.
LEMMA ReadBytes ==
  ASSUME NEW got \in Seq(Byte), NEW need \in Nat, Len(got) < need, rx \in Seq(Byte)
  PROVE  LET bytes == Received(got, need)
             after == AfterRead(got, need)
         IN  /\ bytes \in Seq(Byte) /\ after \in Seq(Byte)
             /\ Len(bytes) + Len(after) = Len(got) + Len(rx) /\ Len(bytes) <= need
             /\ Len(bytes) = need \/ after = <<>>
<1>1. PICK g, r \in Nat : g = Len(got) /\ r = Len(rx)
  OBVIOUS
<1> DEFINE n == IF Len(rx) < need - Len(got) THEN Len(rx) ELSE need - Len(got)
           bytes == Received(got, need)
           after == AfterRead(got, need)
<1>2. PICK m \in Nat : m = n
  <2>1. need - g \in Nat /\ n = IF r < need - g THEN r ELSE need - g
    BY <1>1
  <2> HIDE DEF n
  <2>2. n \in Nat
    BY <2>1
  <2>3. QED
    BY <2>2
<1>3. m <= r /\ g + m <= need /\ (m = r \/ g + m = need)
  BY <1>1, <1>2
<1>4. bytes = got \o SubSeq(rx, 1, m)
  BY <1>2 DEF Received
<1>5. PICK taken \in Seq(Byte) : taken = SubSeq(rx, 1, m) /\ Len(taken) = m
  <2>1. \A i \in 1 .. m : rx[i] \in Byte
    BY <1>1, <1>3
  <2>2. 1 \in Int /\ m \in Int /\ (IF 1 <= m THEN m - 1 + 1 ELSE 0) = m
    OBVIOUS
  <2>3. SubSeq(rx, 1, m) \in Seq(Byte) /\ Len(SubSeq(rx, 1, m)) = m
    BY <2>1, <2>2, SubSeqProperties
  <2>4. QED
    BY <2>3
<1>6. bytes \in Seq(Byte) /\ Len(bytes) = g + m
  BY <1>1, <1>4, <1>5
<1>7. after = SubSeq(rx, m + 1, r)
  <2>1. Len(bytes) - Len(got) + 1 = m + 1
    BY <1>1, <1>6
  <2>2. QED
    BY <1>1, <2>1 DEF AfterRead
<1>8. after \in Seq(Byte) /\ Len(after) = r - m
  <2>1. m + 1 \in 1 .. Len(rx) + 1 /\ r \in m .. Len(rx)
    BY <1>1, <1>3
  <2>2. QED
    BY <1>1, <1>3, <1>7, <2>1, SubSeqProperties
<1> HIDE DEF bytes, after, n
<1>9. Len(bytes) + Len(after) = g + r /\ Len(bytes) <= need
  BY <1>3, <1>6, <1>8
<1>10. Len(bytes) = need \/ after = <<>>
  <2>1. CASE m = r
    <3>1. Len(after) = 0
      BY <1>8, <2>1
    <3>2. QED
      BY <1>8, <3>1, EmptySeq
  <2>2. CASE g + m = need
    BY <1>6, <2>2
  <2>3. QED
    BY <1>3, <2>1, <2>2
<1>11. QED
  BY <1>1, <1>6, <1>8, <1>9, <1>10 DEF bytes, after

-----------------------------------------------------------------------------
\* The ways in which a step ends.
LEMMA GoIsGoing ==
  ASSUME Types, NEW steps \in Seq(StepNames), NEW errors \in Nat, Go(steps, errors)
  PROVE  /\ api' \in ApiState /\ api'.phase = "run" /\ api'.got = <<>> /\ api'.todo = steps
<1>1. <<>> \in Seq(Byte) /\ 0 \in 0 .. MaxTries
  BY DeviceAssumption
<1>2. api.errors + errors \in Nat
  BY DEF Types, ApiState
<1>3. QED
  BY <1>1, <1>2 DEF Go, Types, ApiState

LEMMA ProceedGoes ==
  ASSUME Types, Control, api.todo # <<>>, NEW errors \in Nat, Go(Tail(api.todo), errors)
  PROVE  Goes /\ Further
<1>1. Tail(api.todo) \in Seq(StepNames)
  BY TailOfTodo DEF Types, ApiState, Control
<1>2. QED
  BY <1>1, GoIsGoing DEF Goes, Further

LEMMA PollAgainGoes ==
  ASSUME Types, Control, api.todo # <<>>, First = "wait", NEW errors \in Nat, PollAgain(errors)
  PROVE  Goes
<1>1. CASE api.tries + 1 < MaxTries /\ api' = [api EXCEPT !.phase = "run", !.got = <<>>, !.tries = @ + 1, !.errors = @ + errors]
  <2>1. api.tries + 1 \in 0 .. MaxTries /\ api.errors + errors \in Nat /\ <<>> \in Seq(Byte)
    BY <1>1, DeviceAssumption DEF Types, ApiState
  <2>2. QED
    BY <1>1, <2>1 DEF Goes, Again, Types, ApiState
<1>2. CASE Go(Tail(api.todo), errors + 1)
  BY <1>2, ProceedGoes
<1>3. QED
  BY <1>1, <1>2 DEF PollAgain

LEMMA FailGoes ==
  ASSUME Types, Control, api.todo # <<>>, Fail
  PROVE  Goes /\ (First \in {"DX1", "flush", "DX2"} => Aborted)
<1>1. First = Step
  BY DEF First
<1>2. CASE /\ Step \in {"DX1", "flush", "DX2"}
           /\ Go(IF api.call = "destruct" THEN <<"free">> ELSE <<>>, 1)
  <2>1. <<"free">> \in Seq(StepNames) /\ <<>> \in Seq(StepNames)
    BY DEF StepNames, Stopping
  <2>2. PICK steps \in Seq(StepNames) : steps \in {<<>>, <<"free">>} /\ Go(steps, 1)
    BY <1>2, <2>1
  <2>3. QED
    BY <1>1, <1>2, <2>2, GoIsGoing DEF Goes, Aborted
<1>3. CASE Step = "wait" /\ PollAgain(1)
  BY <1>1, <1>3, PollAgainGoes
<1>4. CASE Step \notin {"DX1", "flush", "DX2", "wait"} /\ Go(Tail(api.todo), 1)
  BY <1>1, <1>4, ProceedGoes
<1>5. QED
  BY <1>2, <1>3, <1>4 DEF Fail

LEMMA FailReadGoes ==
  ASSUME Types, Control, api.todo # <<>>, FailRead
  PROVE  /\ Goes
         /\ First = "DX1" => Further
         /\ First = "DX2" => Aborted
<1>1. First = Step
  BY DEF First
<1>2. CASE Step = "DX1"
  BY <1>1, <1>2, ProceedGoes DEF FailRead, Proceed
<1>3. CASE Step # "DX1"
  BY <1>1, <1>3, FailGoes DEF FailRead
<1>4. QED
  BY <1>2, <1>3

LEMMA InterpretGoes ==
  ASSUME Types, Control, api.todo # <<>>, NEW status, Interpret(status)
  PROVE  Goes /\ (First \in {"DX1", "DX2"} => Further)
<1>1. First = Step
  BY DEF First
<1>2. CASE /\ Step = "adjust"
           /\ api' = [api EXCEPT !.todo = <<"wait", "MS">> \o Tail(@),
                                 !.phase = "run", !.got = <<>>, !.hz = 5]
  <2>1. <<"wait", "MS">> \o Tail(api.todo) \in Seq(StepNames)
    <3>1. PICK p : p = <<"wait", "MS">> \o Tail(api.todo)
      OBVIOUS
    <3>2. api.todo \in Seq(StepNames) /\ Lawful(api.todo) /\ api.todo[1] = "adjust"
      BY <1>2 DEF Types, ApiState, Control, Step
    <3>3. p \in Seq(StepNames)
      BY ONLY <3>1, <3>2, api.todo # <<>>, AdjustedTodo
    <3>4. QED
      BY <3>1, <3>3
  <2>2. PICK p \in Seq(StepNames) : p = <<"wait", "MS">> \o Tail(api.todo)
    BY <2>1
  <2>3. api' = [api EXCEPT !.todo = p, !.phase = "run", !.got = <<>>, !.hz = 5]
    BY <1>2, <2>2
  <2>4. <<>> \in Seq(Byte)
    OBVIOUS
  <2>5. api' \in ApiState /\ api'.todo = p /\ api'.phase = "run" /\ api'.got = <<>>
    <3>1. 5 \in 0 .. 10 /\ api \in ApiState
      BY DEF Types
    <3>2. QED
      BY <2>3, <2>4, <3>1 DEF ApiState
  <2>6. QED
    BY <1>1, <1>2, <2>2, <2>5 DEF Goes, Adjusted
<1>3. CASE Step = "wait" /\ PollAgain(0)
  BY <1>1, <1>3, PollAgainGoes
<1>4. CASE status \in Refusals /\ Fail
  <2>1. First \notin {"DX1", "DX2"}
    BY <1>1, <1>4 DEF Refusals
  <2>2. QED
    BY <1>4, <2>1, FailGoes
<1>5. CASE Proceed
  BY <1>5, ProceedGoes DEF Proceed
<1>6. QED
  BY <1>2, <1>3, <1>4, <1>5 DEF Interpret

-----------------------------------------------------------------------------
\* What is left to show of a step: the types of what it writes, what is on the
\* line, and where the workers are.
LEMMA NothingOnTheLine ==
  ASSUME Quiet', Calm', api'.phase = "run" PROVE Line'
BY DEF Line, At, Quiet, Calm, Still

LEMMA WorkersStay ==
  ASSUME Workers, UNCHANGED <<worker, sessions>>,
         Alive = {} \/ (~plugged' /\ First' # "lower" /\ is_scanning' = is_scanning)
  PROVE  Workers'
<1>1. Alive' = Alive
  BY DEF Alive
<1>2. QED
  BY <1>1 DEF Workers

LEMMA ApiTypes ==
  ASSUME Types, api' \in ApiState, sensor' \in SensorState, rx' \in Seq(Byte),
         UNCHANGED <<object, is_scanning, stop_thread, scan_queue, worker, buffer, sessions,
                     changes, getter, plugged>>
  PROVE  Types'
BY DEF Types, TypeOK, ApiState, CommandOf, StepNames, Stopping, Asking, Starting

LEMMA PhaseIsRun ==
  ASSUME Control, Types, First \notin DOMAIN CommandOf \ {"RR"} PROVE api.phase = "run"
BY CommandsOfSteps DEF Control, Types, ApiState

LEMMA RaiseFlagKeeps == ASSUME IInv, RaiseFlag PROVE IInv'
<1>1. /\ First = "raise" /\ api.todo # <<>> /\ object = "live"
      /\ sensor' = [sensor EXCEPT !.trailed = FALSE] /\ stop_thread' = TRUE
      /\ UNCHANGED <<object, is_scanning, scan_queue, worker, buffer, sessions, changes, getter>>
      /\ UNCHANGED <<rx, plugged>>
  BY DEF RaiseFlag, AtStep, First, IInv, Control
<1>2. api.phase = "run"
  BY <1>1, PhaseIsRun, CommandsOfSteps DEF Asking, IInv
<1>3. Goes
  BY <1>1, ProceedGoes DEF RaiseFlag, Proceed, IInv
<1>4. Control' /\ Follows
  BY <1>1, <1>3, GoesInControl DEF IInv
<1>5. First' \in {"none", "DX1"} /\ api'.phase = "run"
  BY <1>1, <1>3, <1>4 DEF Goes, Follows, MayFollow, Aborted
<1>6. Types'
  <2>1. sensor' \in SensorState
    BY <1>1 DEF IInv, Types, TypeOK, SensorState
  <2>2. api' \in ApiState
    BY <1>3 DEF Goes
  <2>3. QED
    BY <1>1, <2>1, <2>2 DEF IInv, Types, TypeOK, ApiState, CommandOf, StepNames, Stopping, Asking,
                            Starting
<1>7. Grace /\ plugged' => Line'
  <2> SUFFICES ASSUME Grace, plugged PROVE Line'
    BY <1>1
  <2>1. /\ IF is_scanning THEN Calm ELSE Quiet
        /\ sensor.resetting => sensor.inbox = <<>>
    BY <1>1, <1>2 DEF IInv, Talk, Line, At
  <2>2. /\ sensor'.inbox = sensor.inbox /\ sensor'.sending = sensor.sending
        /\ sensor'.streaming = sensor.streaming /\ sensor'.resetting = sensor.resetting
    BY <1>1 DEF IInv, Types, TypeOK, SensorState
  <2>3. /\ IF is_scanning THEN Calm' ELSE Quiet'
        /\ sensor'.resetting => sensor'.inbox = <<>>
    BY <1>1, <2>1, <2>2 DEF Calm, Quiet, Pending, Waiting
  <2>4. QED
    BY <1>1, <1>5, <2>3 DEF Line, At, Asking, Starting
<1>8. Grace => Workers'
  BY <1>1, <1>5 DEF IInv, Talk, Workers, Alive, At
<1>9. QED
  BY <1>4, <1>6, <1>7, <1>8 DEF IInv, Talk

\* A command is written.
LEMMA Written ==
  ASSUME LineTypes, sensor.resetting => sensor.inbox = <<>>,
         NEW cmd \in Commands, NEW arg \in 0 .. 10, device_write(cmd, arg)
  PROVE  /\ sensor' \in SensorState /\ rx' = rx /\ plugged' /\ plugged
         /\ sensor'.resetting => sensor'.inbox = <<>>
         /\ sensor'.sending = sensor.sending /\ sensor'.streaming = sensor.streaming
         /\ sensor'.resetting = sensor.resetting
         /\ sensor.resetting => sensor'.inbox = sensor.inbox
         /\ ~sensor.resetting =>
              /\ sensor'.inbox # <<>> /\ Len(sensor'.inbox) = Len(sensor.inbox) + 1
              /\ \A i \in Pending : sensor'.inbox[i] = sensor.inbox[i]
              /\ sensor'.inbox[Len(sensor.inbox) + 1][1] = cmd
<1>1. plugged' = plugged /\ plugged /\ rx' = rx
  BY DEF device_write
<1>2. CASE sensor.resetting
  <2>1. sensor' = sensor
    BY <1>2 DEF device_write
  <2>2. QED
    BY <1>1, <1>2, <2>1 DEF LineTypes
<1>3. CASE ~sensor.resetting
  <2>1. PICK box \in Seq(Commands \X (0 .. 10)) : box = sensor.inbox
    BY DEF LineTypes, SensorState
  <2>2. PICK e \in Commands \X (0 .. 10) : e = <<cmd, arg>> /\ e[1] = cmd
    <3>1. <<cmd, arg>> \in Commands \X (0 .. 10) /\ <<cmd, arg>>[1] = cmd
      OBVIOUS
    <3>2. QED
      BY <3>1
  <2>3. /\ Append(box, e) \in Seq(Commands \X (0 .. 10)) /\ Append(box, e) # <<>>
        /\ Len(Append(box, e)) = Len(box) + 1 /\ Append(box, e)[Len(box) + 1] = e
        /\ \A i \in 1 .. Len(box) : Append(box, e)[i] = box[i]
    OBVIOUS
  <2>4. PICK longer \in Seq(Commands \X (0 .. 10)) : longer = Append(box, e)
    BY <2>3
  <2>5. sensor' = [sensor EXCEPT !.inbox = longer]
    BY <1>3, <2>1, <2>2, <2>4 DEF device_write
  <2>6. /\ sensor' \in SensorState /\ sensor'.inbox = longer /\ sensor'.sending = sensor.sending
        /\ sensor'.streaming = sensor.streaming /\ sensor'.resetting = sensor.resetting
    BY <2>5 DEF LineTypes, SensorState
  <2>7. QED
    BY <1>1, <1>3, <2>1, <2>2, <2>3, <2>4, <2>6 DEF Pending
<1>4. QED
  BY <1>2, <1>3

LEMMA WrittenFromQuiet ==
  ASSUME LineTypes, Quiet, sensor.resetting => sensor.inbox = <<>>, api'.got = <<>>,
         NEW cmd \in Commands, NEW arg \in 0 .. 10, device_write(cmd, arg)
  PROVE  /\ cmd = "RR" => Quiet'
         /\ Asked(cmd)'
<1>1. PICK n \in Nat : n = Len(sensor.inbox)
  BY InboxIs
<1>2. CASE sensor.resetting
  <2>1. Quiet'
    BY <1>2, Written DEF Quiet, Pending, Waiting
  <2>2. QED
    BY <2>1 DEF Asked
<1>3. CASE ~sensor.resetting
  <2>1. /\ sensor'.inbox # <<>> /\ Len(sensor'.inbox) = n + 1 /\ rx' = rx
        /\ \A i \in 1 .. n : sensor'.inbox[i] = sensor.inbox[i]
        /\ sensor'.inbox[n + 1][1] = cmd
        /\ sensor'.sending = sensor.sending /\ sensor'.streaming = sensor.streaming
    BY <1>1, <1>3, Written DEF Pending
  <2>2. \A i \in 1 .. n : sensor'.inbox[i][1] = "RR"
    BY <1>1, <2>1 DEF Quiet, Pending, Waiting
  <2>3. (n + 1) - 1 = n /\ \A i \in 1 .. n + 1 : i = n + 1 \/ i \in 1 .. n
    OBVIOUS
  <2>4. cmd = "RR" => Quiet'
    BY <2>1, <2>2, <2>3 DEF Quiet, Pending, Waiting
  <2>5. Unanswered(cmd)'
    BY <2>1, <2>2, <2>3 DEF Unanswered, Quiet, Waiting
  <2>6. QED
    BY <2>4, <2>5 DEF Asked
<1>4. QED
  BY <1>2, <1>3

LEMMA WrittenDX ==
  ASSUME LineTypes, Quiet \/ Calm, sensor.resetting => sensor.inbox = <<>>,
         NEW arg \in 0 .. 10, device_write("DX", arg)
  PROVE  Sleeping'
<1>0. "DX" \in Commands
  BY DEF Commands
<1>1. PICK n \in Nat : n = Len(sensor.inbox) /\ (sensor.inbox = <<>> <=> n = 0)
  BY InboxIs
<1>2. CASE sensor.resetting
  <2>1. sensor'.inbox = <<>> /\ sensor'.streaming = sensor.streaming /\ ~sensor.streaming
    BY <1>0, <1>2, Written DEF Quiet, Calm
  <2>2. Len(sensor'.inbox) = 0
    BY <2>1
  <2>3. QED
    BY <2>1, <2>2 DEF Sleeping, Pending
<1>3. CASE ~sensor.resetting
  <2>1. /\ Len(sensor'.inbox) = n + 1 /\ ~sensor'.resetting
        /\ \A i \in 1 .. n : sensor'.inbox[i] = sensor.inbox[i]
        /\ sensor'.inbox[n + 1][1] = "DX" /\ sensor'.streaming = sensor.streaming
    BY <1>0, <1>1, <1>3, Written DEF Pending
  <2>2. \A i \in 1 .. n + 1 : i = n + 1 \/ i \in 1 .. n
    OBVIOUS
  <2>3. CASE Quiet
    <3>1. \A i \in 1 .. n : sensor'.inbox[i][1] = "RR"
      BY <1>1, <2>1, <2>3 DEF Quiet, Pending, Waiting
    <3>2. QED
      BY <2>1, <2>2, <2>3, <3>1 DEF Sleeping, Quiet, Pending, Waiting
  <2>4. CASE Calm
    <3>1. n = 0
      BY <1>1, <2>4 DEF Calm
    <3>2. QED
      BY <2>1, <2>2, <3>1 DEF Sleeping, Pending, Waiting
  <2>5. QED
    BY <2>3, <2>4
<1>4. QED
  BY <1>2, <1>3

LEMMA CommandOfFirst ==
  ASSUME AtCommand
  PROVE  /\ First = Step /\ First \in Asking \cup {"DX1", "DX2"} /\ api.todo # <<>>
         /\ CommandOf[First] \in Commands /\ (CommandOf[First] = "RR" <=> First = "RR")
         /\ First # "RR" => Need \in Nat /\ Need > 0 /\ Need = Length(CommandOf[First])
<1>1. First = Step /\ First \in DOMAIN CommandOf /\ api.todo # <<>>
  BY DEF AtCommand, First
<1>2. CommandOf[First] \in Commands /\ (CommandOf[First] = "RR" <=> First = "RR")
  BY <1>1, CommandsOfSteps
<1>3. ASSUME First # "RR" PROVE Need \in Nat /\ Need > 0 /\ Need = Length(CommandOf[First])
  BY <1>1, <1>2, <1>3, Lengths DEF Need, Responding
<1>4. QED
  BY <1>1, <1>2, <1>3, CommandsOfSteps

LEMMA PhaseChanges ==
  ASSUME Types, Control, AtCommand, First # "RR", api.got = <<>>, NEW p \in {"sleep", "read"},
         api' = [api EXCEPT !.phase = p], p = "sleep" => First = "DX1",
         UNCHANGED <<object, is_scanning, sessions>>
  PROVE  /\ Control' /\ api' \in ApiState /\ First' = First /\ api'.phase = p /\ api'.got = <<>>
<1>1. /\ api' \in ApiState /\ api'.todo = api.todo /\ api'.got = <<>> /\ api'.phase = p
  BY DEF Types, ApiState
<1>2. First' = First /\ Need' = Need
  BY <1>1 DEF First, Step, Need
<1>3. First \in DOMAIN CommandOf \ {"RR"} /\ Len(api'.got) < Need
  BY <1>1, CommandOfFirst, CommandsOfSteps
<1>4. QED
  BY <1>1, <1>2, <1>3 DEF Control

LEMMA WriteKeeps == ASSUME IInv, write_command PROVE IInv'
<1>1. /\ AtCommand /\ First = Step /\ First \in Asking \cup {"DX1", "DX2"} /\ api.todo # <<>>
      /\ object = "live" /\ api.phase = "run" /\ api.got = <<>>
      /\ UNCHANGED <<object, is_scanning, stop_thread, scan_queue, worker, buffer, sessions, changes>>
      /\ UNCHANGED getter
  BY CommandOfFirst DEF write_command, deviceVars, IInv, Control
<1>2. LineTypes /\ Types /\ Control
  BY DEF IInv, Types, TypeOK, LineTypes
<1>3. First \in Asking => Alive = {} \/ ~Grace
  <2>1. First = api.todo[1] /\ 1 \in 1 .. Len(api.todo)
    BY <1>1, <1>2, FirstIsOne
  <2>2. QED
    BY <2>1 DEF IInv, Control, Talk, Workers
<1>4. CASE ~plugged /\ Fail /\ UNCHANGED lineVars
  <2>1. Goes /\ (First \in {"DX1", "flush", "DX2"} => Aborted)
    BY <1>1, <1>2, <1>4, FailGoes
  <2>2. Control' /\ Follows
    BY <1>1, <1>2, <2>1, GoesInControl
  <2>3. First' # "lower"
    BY <2>1, <2>2, NotToLower
  <2>4. Types'
    <3>1. UNCHANGED <<sensor, rx, plugged>> /\ api' \in ApiState
      BY <1>4, <2>1 DEF lineVars, Goes
    <3>2. QED
      BY <1>1, <1>2, <3>1, ApiTypes DEF LineTypes
  <2>5. Grace => Workers'
    BY <1>1, <1>4, <2>3, WorkersStay DEF lineVars, IInv, Talk
  <2>6. QED
    BY <1>4, <2>2, <2>4, <2>5 DEF IInv, Talk, lineVars
<1> DEFINE cmd == CommandOf[First]
           arg == IF Step = "MS" THEN api.hz ELSE 0
<1>5. ASSUME device_write(cmd, arg)
      PROVE  /\ plugged /\ plugged' /\ rx' = rx /\ sensor' \in SensorState
             /\ api' \in ApiState => Types'
  <2>1. cmd \in Commands /\ arg \in 0 .. 10
    BY <1>1, <1>2, CommandOfFirst DEF Types, ApiState
  <2>2. rx' = rx /\ plugged' = plugged /\ plugged /\ sensor' \in SensorState
    <3>1. CASE sensor.resetting
      BY <1>2, <1>5, <3>1 DEF device_write, LineTypes
    <3>2. CASE ~sensor.resetting
      <4>1. PICK box \in Seq(Commands \X (0 .. 10)) : box = sensor.inbox
        BY <1>2 DEF LineTypes, SensorState
      <4>2. <<cmd, arg>> \in Commands \X (0 .. 10)
        BY <2>1
      <4>3. PICK longer \in Seq(Commands \X (0 .. 10)) : longer = Append(box, <<cmd, arg>>)
        BY <4>2, AppendProperties
      <4>4. sensor' = [sensor EXCEPT !.inbox = longer]
        BY <1>5, <3>2, <4>1, <4>3 DEF device_write
      <4>5. QED
        BY <1>2, <1>5, <4>4 DEF device_write, LineTypes, SensorState
    <3>3. QED
      BY <3>1, <3>2
  <2>3. QED
    BY <1>1, <1>2, <2>2, ApiTypes DEF LineTypes
<1>6. ASSUME device_write(cmd, arg), Grace
      PROVE  /\ sensor.resetting => sensor.inbox = <<>>
             /\ (sensor.resetting => sensor.inbox = <<>>)'
             /\ First # "DX1" => Quiet
             /\ First = "DX1" => Quiet \/ Calm
             /\ cmd \in Commands /\ arg \in 0 .. 10
  <2>1. cmd \in Commands /\ arg \in 0 .. 10
    BY <1>1, <1>2, CommandOfFirst DEF Types, ApiState
  <2>2. Line
    BY <1>5, <1>6 DEF IInv, Talk
  <2>3. /\ sensor.resetting => sensor.inbox = <<>>
        /\ First # "DX1" => Quiet
        /\ First = "DX1" => Quiet \/ Calm
    BY <1>1, <2>2 DEF Line, At
  <2>4. (sensor.resetting => sensor.inbox = <<>>)'
    BY <1>2, <1>6, <2>1, <2>3, Written
  <2>5. QED
    BY <2>1, <2>3, <2>4
<1> HIDE DEF cmd, arg
<1>7. CASE device_write(cmd, arg) /\ Step = "RR" /\ Proceed
  <2>1. Goes /\ Control' /\ Follows /\ First = "RR"
    BY <1>1, <1>2, <1>7, ProceedGoes, GoesInControl DEF Proceed
  <2>2. First' = "none" /\ api'.phase = "run"
    BY <2>1 DEF Goes, Follows, MayFollow, Aborted
  <2>3. Types'
    BY <1>5, <1>7, <2>1 DEF Goes
  <2>4. Grace => Line'
    <3> SUFFICES ASSUME Grace PROVE Line'
      OBVIOUS
    <3>1. Quiet'
      <4>1. Quiet /\ cmd = "RR" /\ api'.got = <<>>
        BY <1>6, <1>7, <2>1, CommandsOfSteps, CommandOfFirst, <1>1 DEF cmd, Goes
      <4>2. QED
        BY <1>2, <1>6, <1>7, <4>1, WrittenFromQuiet
    <3>2. ~is_scanning' /\ object' = "live"
      <4>1. First = api.todo[1] /\ 1 \in 1 .. Len(api.todo)
        BY <1>1, <1>2, FirstIsOne
      <4>2. QED
        BY <1>1, <1>2, <2>1, <4>1 DEF Control, Asking
    <3>3. QED
      BY <1>6, <1>7, <2>2, <3>1, <3>2 DEF Line, At, Asking, Starting
  <2>5. Grace => Workers'
    BY <1>1, <1>3, <2>1, WorkersStay DEF IInv, Talk, Asking
  <2>6. QED
    BY <2>1, <2>3, <2>4, <2>5 DEF IInv, Talk
<1>8. CASE device_write(cmd, arg) /\ Step = "DX1" /\ api' = [api EXCEPT !.phase = "sleep"]
  <2>1. Control' /\ api' \in ApiState /\ First' = "DX1" /\ api'.phase = "sleep"
    BY <1>1, <1>2, <1>8, PhaseChanges
  <2>2. Types'
    BY <1>5, <1>8, <2>1
  <2>3. Grace => Line'
    <3> SUFFICES ASSUME Grace PROVE Line'
      OBVIOUS
    <3>1. cmd = "DX"
      BY <1>1, <1>8 DEF cmd, CommandOf
    <3>2. Sleeping'
      BY <1>1, <1>2, <1>6, <1>8, <3>1, WrittenDX
    <3>3. QED
      BY <1>6, <1>8, <2>1, <3>2 DEF Line, At, Asking, Starting
  <2>4. Grace => Workers'
    BY <1>1, <2>1 DEF IInv, Talk, Workers, Alive, At
  <2>5. QED
    BY <2>1, <2>2, <2>3, <2>4 DEF IInv, Talk
<1>9. CASE device_write(cmd, arg) /\ Step \notin {"RR", "DX1"} /\ api' = [api EXCEPT !.phase = "read"]
  <2>1. Control' /\ api' \in ApiState /\ First' = First /\ api'.phase = "read" /\ api'.got = <<>>
    BY <1>1, <1>2, <1>9, PhaseChanges
  <2>2. Types'
    BY <1>5, <1>9, <2>1
  <2>3. Grace => Line'
    <3> SUFFICES ASSUME Grace PROVE Line'
      OBVIOUS
    <3>1. Quiet
      BY <1>1, <1>6, <1>9
    <3>2. PICK c \in Commands : c = cmd
      BY <1>6, <1>9
    <3>2a. Asked(c)'
      BY <1>2, <1>6, <1>9, <2>1, <3>1, <3>2, WrittenFromQuiet
    <3>3. Asked(CommandOf[First])'
      BY <2>1, <3>2, <3>2a DEF cmd, Asked, Unanswered, Answered
    <3>4. QED
      BY <1>1, <1>6, <1>9, <2>1, <3>3 DEF Line, At
  <2>4. Grace => Workers'
    BY <1>1, <1>5, <1>9, <2>1 DEF IInv, Talk, Workers, Alive, At
  <2>5. QED
    BY <2>1, <2>2, <2>3, <2>4 DEF IInv, Talk
<1>10. QED
  BY <1>1, <1>4, <1>7, <1>8, <1>9 DEF write_command, cmd, arg

\* The 35 ms are over.
LEMMA SleepEndsKeeps == ASSUME IInv, SleepEnds PROVE IInv'
<1>1. /\ First = "DX1" /\ api.phase = "sleep" /\ api.got = <<>> /\ Types /\ Control
      /\ api' = [api EXCEPT !.phase = "read"] /\ (Grace => Settled)
      /\ UNCHANGED <<object, is_scanning, stop_thread, scan_queue, worker, buffer, sessions, changes>>
      /\ UNCHANGED <<getter, sensor, rx, plugged>>
  BY DEF SleepEnds, deviceVars, lineVars, IInv, Control
<1>2. AtCommand /\ api.todo # <<>>
  BY <1>1, CommandsOfSteps DEF AtCommand, First
<1>3. Control' /\ api' \in ApiState /\ First' = "DX1" /\ api'.phase = "read"
  BY <1>1, <1>2, PhaseChanges
<1>4. Types'
  BY <1>1, <1>3, ApiTypes DEF Types, TypeOK
<1>5. Grace /\ plugged' => Line'
  <2> SUFFICES ASSUME Grace, plugged PROVE Line'
    BY <1>1
  <2>1. Sleeping /\ (sensor.resetting => sensor.inbox = <<>>)
    BY <1>1 DEF IInv, Talk, Line, At
  <2>2. Len(sensor.inbox) = 0
    BY <1>1 DEF Settled
  <2>3. Still
    BY <1>1, <2>1, <2>2 DEF Sleeping, Settled, Still
  <2>4. QED
    BY <1>1, <1>3, <2>1, <2>3 DEF Line, At, Still, Asking, Starting
<1>6. Grace => Workers'
  <2> SUFFICES ASSUME Grace PROVE Workers'
    OBVIOUS
  <2>1. Alive = {} \/ Silent
    BY <1>1 DEF Settled, Silent, Alive
  <2>2. Alive' = Alive /\ (Silent => Silent')
    BY <1>1 DEF Alive, Silent
  <2>3. QED
    BY <1>1, <1>3, <2>1, <2>2 DEF IInv, Talk, Workers, At, Control
<1>7. QED
  BY <1>3, <1>4, <1>5, <1>6 DEF IInv, Talk

\* The client reads what has come of a response: nobody else is reading, and the
\* response is what comes.
LEMMA ReadsAlone ==
  ASSUME IInv, Grace, plugged, AtCommand, api.phase = "read", rx # <<>>
  PROVE  /\ Alive = {} /\ (sensor.resetting => sensor.inbox = <<>>)
         /\ First = "DX1" => Still
         /\ First # "DX1" =>
              \/ Answered(CommandOf[First])
              \/ First = "DS" /\ sensor.streaming /\ Calm
<1>1. First \in Asking \cup {"DX1", "DX2"} /\ First = api.todo[1] /\ 1 \in 1 .. Len(api.todo)
  BY CommandOfFirst, FirstIsOne DEF IInv
<1>2. Line /\ Workers
  BY DEF IInv, Talk
<1>3. Alive = {}
  <2>1. CASE First = "DX1"
    BY <1>2, <2>1 DEF Workers, Silent, At
  <2>2. CASE First = "DX2"
    BY <1>2, <2>2 DEF Workers
  <2>3. CASE First \in Asking
    BY <1>1, <1>2, <2>3 DEF Workers, IInv, Control
  <2>4. QED
    BY <1>1, <2>1, <2>2, <2>3
<1>4. First = "DX1" => Still
  BY <1>2 DEF Line, At
<1>5. First # "DX1" => Asked(CommandOf[First]) \/ (First = "DS" /\ sensor.streaming /\ Calm)
  BY <1>1, <1>2 DEF Line, At
<1>6. ~Unanswered(CommandOf[First]) /\ ~Quiet
  BY DEF Unanswered, Quiet
<1>7. QED
  BY <1>2, <1>3, <1>4, <1>5, <1>6 DEF Asked, Line

\* The response is complete.
LEMMA ReadComplete ==
  ASSUME IInv, Goes, Follows, Grace, plugged, AtCommand, api.phase = "read", rx # <<>>,
         First = "DX1" => Further, rx' \in Seq(Byte),
         Len(rx') + Length(CommandOf[First]) = Len(api.got) + Len(rx),
         UNCHANGED <<object, is_scanning, sensor, plugged>>
  PROVE  Line'
<1>1. api'.phase = "run"
  BY DEF Goes
<1>2. CASE First = "DX1"
  <2>1. First' = "flush"
    BY <1>2 DEF Follows, Unfinished, MayFollow
  <2>2. Still' /\ (sensor.resetting => sensor.inbox = <<>>)'
    BY <1>2, ReadsAlone DEF Still
  <2>3. QED
    BY <1>1, <2>1, <2>2 DEF Line, At, Asking, Starting
<1>3. CASE First # "DX1" /\ Answered(CommandOf[First])
  <2>1. LineTypes
    BY DEF IInv, Types, TypeOK, LineTypes
  <2>2. CommandOf[First] \in Responding
    BY CommandOfFirst DEF Responding, IInv, Control
  <2>3. PICK n, g, r, m, r1 \in Nat : /\ n = Length(CommandOf[First]) /\ g = Len(api.got)
                                      /\ r = Len(rx) /\ m = Len(sensor.sending) /\ r1 = Len(rx')
    <3>1. Length(CommandOf[First]) \in Nat /\ Len(api.got) \in Nat
      BY <2>2, Lengths DEF IInv, Types, TypeOK
    <3>2. Len(rx) \in Nat /\ Len(sensor.sending) \in Nat /\ Len(rx') \in Nat
      BY <2>1, InboxIs
    <3>3. QED
      BY <3>1, <3>2
  <2>4. g + r + m = n /\ r1 + n = g + r
    BY <1>3, <2>3 DEF Answered
  <2>5. m = 0 /\ r1 = 0
    BY <2>4
  <2>6. sensor.sending = <<>> /\ rx' = <<>>
    BY <2>1, <2>3, <2>5, InboxIs, EmptySeq
  <2>7. Calm /\ ~sensor.streaming
    BY <1>3 DEF Answered
  <2>8. Len(sensor'.inbox) = 0
    BY <2>7 DEF Calm
  <2>9. Quiet' /\ Calm'
    BY <2>6, <2>7, <2>8 DEF Quiet, Calm, Pending
  <2>10. QED
    BY <1>1, <2>9, NothingOnTheLine
<1>4. CASE First = "DS" /\ sensor.streaming /\ Calm
  <2>1. First' = "clear"
    BY <1>4 DEF Follows, Unfinished, MayFollow, Aborted
  <2>2. Calm'
    BY <1>4 DEF Calm
  <2>3. QED
    BY <1>1, <2>1, <2>2 DEF Line, At, Calm, Asking, Starting
<1>5. QED
  BY <1>2, <1>3, <1>4, ReadsAlone

LEMMA ReadKeeps == ASSUME IInv, read_response PROVE IInv'
<1> DEFINE bytes == Received(api.got, Need)
<1>1. /\ AtCommand /\ First \in Asking \cup {"DX1", "DX2"} /\ First # "RR" /\ api.todo # <<>>
      /\ api.phase = "read" /\ api.got \in Seq(Byte) /\ Len(api.got) < Need /\ Types /\ Control
      /\ UNCHANGED <<object, is_scanning, stop_thread, scan_queue, worker, buffer, sessions, changes>>
      /\ UNCHANGED <<getter, sensor, plugged>> /\ LineTypes
  BY CommandOfFirst DEF read_response, deviceVars, IInv, Control, Types, TypeOK, LineTypes
<1>2. Need \in Nat /\ Need = Length(CommandOf[First])
  BY <1>1, CommandOfFirst
<1>3. CASE ~plugged /\ FailRead /\ UNCHANGED rx
  <2>1. Goes /\ (First = "DX2" => Aborted)
    BY <1>1, <1>3, FailReadGoes
  <2>2. Control' /\ Follows
    BY <1>1, <2>1, GoesInControl
  <2>3. Types'
    BY <1>1, <1>3, <2>1, ApiTypes DEF Goes, LineTypes
  <2>4. Grace => Workers'
    BY <1>1, <1>3, <2>1, <2>2, NotToLower, WorkersStay DEF IInv, Talk
  <2>5. QED
    BY <1>1, <1>3, <2>2, <2>3, <2>4 DEF IInv, Talk
<1>4. ASSUME plugged, rx # <<>>, rx' = AfterRead(api.got, Need)
      PROVE  /\ bytes \in Seq(Byte) /\ rx' \in Seq(Byte)
             /\ Len(bytes) + Len(rx') = Len(api.got) + Len(rx)
             /\ api' \in ApiState => Types'
  <2>1. /\ bytes \in Seq(Byte) /\ rx' \in Seq(Byte)
        /\ Len(bytes) + Len(rx') = Len(api.got) + Len(rx)
    BY <1>1, <1>2, <1>4, ReadBytes DEF LineTypes
  <2>2. QED
    BY <1>1, <2>1, ApiTypes DEF LineTypes
<1>5. ASSUME plugged, rx # <<>>, Grace, UNCHANGED <<worker, sessions>> PROVE Workers'
  BY <1>1, <1>5, ReadsAlone, WorkersStay DEF IInv, Talk
<1>6. CASE /\ plugged /\ rx # <<>> /\ rx' = AfterRead(api.got, Need)
           /\ Len(bytes) < Need /\ api' = [api EXCEPT !.got = bytes]
  <2>1. api' \in ApiState /\ api'.got = bytes /\ api'.todo = api.todo /\ api'.phase = "read"
    BY <1>1, <1>4, <1>6 DEF Types, ApiState
  <2> HIDE DEF bytes
  <2>2. First' = First /\ Need' = Need
    BY <2>1 DEF First, Step, Need
  <2>3. Control'
    BY <1>1, <1>6, <2>1, <2>2 DEF Control
  <2>4. Grace => Line'
    <3> SUFFICES ASSUME Grace PROVE Line'
      OBVIOUS
    <3>1. /\ sensor.resetting => sensor.inbox = <<>>
          /\ First = "DX1" => Still
          /\ First # "DX1" => \/ Answered(CommandOf[First])
                              \/ First = "DS" /\ sensor.streaming /\ Calm
      BY <1>1, <1>6, ReadsAlone
    <3>2. ASSUME Answered(CommandOf[First]) PROVE Answered(CommandOf[First])'
      <4>1. PICK g, r, m, b, r1 \in Nat : /\ g = Len(api.got) /\ r = Len(rx) /\ m = Len(sensor.sending)
                                          /\ b = Len(bytes) /\ r1 = Len(rx')
        <5>1. Len(api.got) \in Nat /\ Len(bytes) \in Nat /\ Len(rx') \in Nat
          BY <1>1, <1>4, <1>6
        <5>2. Len(rx) \in Nat /\ Len(sensor.sending) \in Nat
          BY <1>1, InboxIs
        <5>3. QED
          BY <5>1, <5>2
      <4>2. g + r + m = Need /\ b + r1 = g + r
        BY <1>2, <1>4, <1>6, <3>2, <4>1 DEF Answered
      <4>3. b + r1 + m = Need
        BY <4>2
      <4>4. Len(api'.got) + Len(rx') + Len(sensor'.sending) = Length(CommandOf[First])
        BY <1>1, <1>2, <2>1, <4>1, <4>3
      <4>5. QED
        BY <1>1, <2>2, <3>2, <4>4 DEF Answered, Calm
    <3>3. First # "DX1" => Asked(CommandOf[First])' \/ (First' = "DS" /\ sensor'.streaming /\ Calm')
      BY <1>1, <2>2, <3>1, <3>2 DEF Asked, Calm
    <3>4. First = "DX1" => Still'
      BY <1>1, <3>1, <1>6 DEF Still
    <3>5. (sensor.resetting => sensor.inbox = <<>>)'
      BY <1>1, <3>1
    <3>6. QED
      BY <1>1, <2>1, <2>2, <3>3, <3>4, <3>5 DEF Line, At, Asking
  <2>5. QED
    BY <1>1, <1>4, <1>5, <1>6, <2>1, <2>3, <2>4 DEF IInv, Talk
<1>7. CASE /\ plugged /\ rx # <<>> /\ rx' = AfterRead(api.got, Need) /\ Len(bytes) = Need
           /\ (Interpret(bytes[1][2]) \/ FailRead)
  <2>1. Goes /\ (First = "DX1" => Further)
    <3>1. PICK status : status = bytes[1][2]
      OBVIOUS
    <3>2. Interpret(status) \/ FailRead
      BY <1>7, <3>1
    <3>3. QED
      BY <1>1, <3>2, FailReadGoes, InterpretGoes
  <2>2. Control' /\ Follows
    BY <1>1, <2>1, GoesInControl
  <2>3. Types'
    BY <1>4, <1>7, <2>1 DEF Goes
  <2>4. Len(rx') + Length(CommandOf[First]) = Len(api.got) + Len(rx)
    <3>1. PICK b, r1 \in Nat : b = Len(bytes) /\ r1 = Len(rx')
      BY <1>4, <1>7
    <3>2. b + r1 = r1 + b
      OBVIOUS
    <3>3. QED
      BY <1>2, <1>4, <1>7, <3>1, <3>2
  <2>5. Grace => Line'
    BY <1>1, <1>4, <1>7, <2>1, <2>2, <2>4, ReadComplete
  <2>6. QED
    BY <1>1, <1>5, <1>7, <2>2, <2>3, <2>5 DEF IInv, Talk
<1>8. QED
  BY <1>3, <1>6, <1>7 DEF read_response

-----------------------------------------------------------------------------
\* The steps that neither write nor read.
LEMMA FlushKeeps == ASSUME IInv, Flush PROVE IInv'
<1>1. /\ First = "flush" /\ api.todo # <<>> /\ Types /\ Control /\ LineTypes
      /\ UNCHANGED <<object, is_scanning, stop_thread, scan_queue, worker, buffer, sessions, changes>>
      /\ UNCHANGED getter
  BY DEF Flush, AtStep, First, IInv, deviceVars, Types, TypeOK, LineTypes
<1>2. api.phase = "run"
  BY <1>1, PhaseIsRun, CommandsOfSteps DEF Asking
<1>3. CASE ~plugged /\ Fail /\ UNCHANGED lineVars
  <2>1. Goes
    BY <1>1, <1>3, FailGoes
  <2>2. Control' /\ Follows
    BY <1>1, <2>1, GoesInControl
  <2>3. Types'
    BY <1>1, <1>3, <2>1, ApiTypes DEF Goes, LineTypes, lineVars
  <2>4. Grace => Workers'
    BY <1>1, <1>3, <2>2, NotToLower, WorkersStay DEF IInv, Talk, lineVars
  <2>5. QED
    BY <1>3, <2>2, <2>3, <2>4 DEF IInv, Talk, lineVars
<1>4. CASE device_flush /\ Proceed
  <2>1. Goes
    BY <1>1, <1>4, ProceedGoes DEF Proceed
  <2>2. Control' /\ Follows
    BY <1>1, <2>1, GoesInControl
  <2>3. plugged /\ plugged' = plugged /\ sensor' = sensor /\ rx' = <<>> /\ rx' \in Seq(Byte)
    BY <1>4 DEF device_flush
  <2>4. Types'
    BY <1>1, <2>1, <2>3, ApiTypes DEF Goes, LineTypes
  <2>5. Grace => Line'
    <3> SUFFICES ASSUME Grace PROVE Line'
      OBVIOUS
    <3>1. Still /\ (sensor.resetting => sensor.inbox = <<>>)
      BY <1>1, <1>2, <2>3 DEF IInv, Talk, Line, At
    <3>2. Len(sensor'.inbox) = 0
      BY <2>3, <3>1 DEF Still
    <3>3. Quiet'
      BY <2>3, <3>1, <3>2 DEF Still, Quiet, Pending
    <3>4. First' \in {"DX2", "none", "free"} /\ api'.phase = "run"
      BY <1>1, <2>1, <2>2 DEF Goes, Follows, MayFollow
    <3>5. First' # "none" \/ Calm'
      <4>1. First' = "none" => Aborted /\ ~Further
        BY <1>1, <2>2 DEF Follows, Unfinished, MayFollow, StepNames, Stopping, Asking, Starting
      <4>2. Further
        BY <1>1, <1>4, ProceedGoes DEF Proceed
      <4>3. QED
        BY <4>1, <4>2
    <3>6. QED
      BY <1>1, <2>3, <3>1, <3>3, <3>4, <3>5 DEF Line, At, Asking, Starting
  <2>6. Grace => Workers'
    <3> SUFFICES ASSUME Grace PROVE Workers'
      OBVIOUS
    <3>1. Alive = {}
      BY <1>1, <2>3 DEF IInv, Talk, Workers
    <3>2. QED
      BY <1>1, <3>1, WorkersStay DEF IInv, Talk
  <2>7. QED
    BY <2>2, <2>4, <2>5, <2>6 DEF IInv, Talk
<1>5. QED
  BY <1>3, <1>4 DEF Flush

LEMMA LowerKeeps == ASSUME IInv, LowerScanning PROVE IInv'
<1>1. /\ First = "lower" /\ api.todo # <<>> /\ Types /\ Control /\ is_scanning' = FALSE
      /\ object = "live" /\ (Grace => Workers)
      /\ UNCHANGED <<object, stop_thread, scan_queue, worker, buffer, sessions, changes, getter>>
      /\ UNCHANGED <<sensor, rx, plugged>>
  BY DEF LowerScanning, AtStep, First, IInv, Talk, lineVars, Control
<1>2. api.phase = "run"
  BY <1>1, PhaseIsRun, CommandsOfSteps DEF Asking
<1>3. Goes /\ Control' /\ Follows
  BY <1>1, ProceedGoes, GoesInControl DEF LowerScanning, Proceed
<1>4. First' \in {"none", "free"} /\ api'.phase = "run" /\ api' \in ApiState
  BY <1>1, <1>3 DEF Goes, Follows, MayFollow, Aborted
<1>5. Types'
  BY <1>1, <1>4 DEF Types, TypeOK, ApiState, CommandOf, StepNames, Stopping, Asking, Starting
<1>6. Grace /\ plugged' => Line'
  <2> SUFFICES ASSUME Grace, plugged PROVE Line'
    BY <1>1
  <2>1. Quiet /\ (sensor.resetting => sensor.inbox = <<>>)
    BY <1>1, <1>2 DEF IInv, Talk, Line, At
  <2>2. Quiet' /\ (sensor.resetting => sensor.inbox = <<>>)'
    BY <1>1, <2>1 DEF Quiet, Pending, Waiting
  <2>3. QED
    BY <1>1, <1>4, <2>2 DEF Line, At, Asking, Starting
<1>7. Grace => Workers'
  <2>1. Grace => Alive = {}
    BY <1>1 DEF Workers
  <2>2. QED
    BY <1>1, <2>1, WorkersStay
<1>8. QED
  BY <1>3, <1>5, <1>6, <1>7 DEF IInv, Talk

LEMMA ClearKeeps == ASSUME IInv, ClearQueue PROVE IInv'
<1>1. /\ First = "clear" /\ api.todo # <<>> /\ Types /\ Control /\ scan_queue' = <<>>
      /\ object = "live" /\ (Grace => Workers)
      /\ UNCHANGED <<object, is_scanning, stop_thread, worker, buffer, sessions, changes, getter>>
      /\ UNCHANGED <<sensor, rx, plugged>>
  BY DEF ClearQueue, AtStep, First, IInv, Talk, lineVars, Control
<1>2. api.phase = "run"
  BY <1>1, PhaseIsRun, CommandsOfSteps DEF Asking
<1>3. Goes /\ Control' /\ Follows
  BY <1>1, ProceedGoes, GoesInControl DEF ClearQueue, Proceed
<1>4. First' = "spawn" /\ api'.phase = "run" /\ api' \in ApiState
  BY <1>1, <1>3 DEF Goes, Follows, MayFollow, Unfinished, Aborted
<1>5. Types'
  <2>1. /\ scan_queue' \in Seq([session : Sessions, what : {"scan", "error"}])
        /\ Len(scan_queue') <= MaxSize
    BY <1>1, DeviceAssumption
  <2>2. QED
    BY <1>1, <1>4, <2>1 DEF Types, TypeOK, ApiState, CommandOf, StepNames, Stopping, Asking, Starting
<1>6. Grace /\ plugged' => Line'
  <2> SUFFICES ASSUME Grace, plugged PROVE Line'
    BY <1>1
  <2>1. Calm
    BY <1>1, <1>2 DEF IInv, Talk, Line, At, Starting
  <2>2. QED
    BY <1>1, <1>4, <2>1 DEF Line, At, Calm, Asking
<1>7. Grace => Workers'
  <2>1. ~is_scanning
    BY <1>1, FirstIsOne DEF Control, Starting
  <2>2. QED
    BY <1>1, <2>1, WorkersStay DEF Workers
<1>8. QED
  BY <1>3, <1>5, <1>6, <1>7 DEF IInv, Talk

\* Nothing is left to do after these two.
LEMMA LastStep ==
  ASSUME Types, Control, api.todo # <<>>, First \in {"spawn", "free"},
         NEW errors \in Nat, Go(Tail(api.todo), errors)
  PROVE  /\ api'.todo = <<>> /\ First' = "none" /\ api'.phase = "run" /\ api'.got = <<>>
         /\ api' \in ApiState
<1>1. PICK steps \in Seq(StepNames) : steps = api.todo
  BY DEF Types, ApiState
<1>2. First = steps[1] /\ Lawful(steps) /\ steps # <<>>
  BY <1>1 DEF First, Step, Control
<1>3. Goes /\ Further
  BY ProceedGoes
<1>4. Tail(steps) = <<>>
  <2> SUFFICES ASSUME Tail(steps) # <<>> PROVE FALSE
    OBVIOUS
  <2>1. MayFollow(steps[1], steps[2])
    BY <1>2, TailOfTodo
  <2>2. QED
    BY <1>2, <2>1 DEF MayFollow
<1>5. QED
  BY <1>1, <1>3, <1>4 DEF Goes, Further, First

\* A worker is created, or the system has no thread for it.
LEMMA SpawnGoes ==
  ASSUME SpawnWorker
  PROVE  /\ First = "spawn" /\ api.todo # <<>>
         /\ \/ Proceed /\ worker' = [worker EXCEPT ![sessions + 1] = "born"]
            \/ ThreadsRunOut /\ Go(Tail(api.todo), 1) /\ worker' = worker
         /\ \E errors \in {0, 1} : Go(Tail(api.todo), errors)
<1>1. AtStep("spawn") /\ (Fail => Go(Tail(api.todo), 1))
  BY DEF SpawnWorker, AtStep, Fail
<1>2. QED
  BY <1>1 DEF SpawnWorker, AtStep, First, Proceed

LEMMA SpawnKeeps == ASSUME IInv, SpawnWorker PROVE IInv'
<1>1. /\ First = "spawn" /\ api.todo # <<>> /\ Types /\ Control
      /\ is_scanning' = TRUE /\ stop_thread' = FALSE /\ sessions' = sessions + 1
      /\ worker' \in {worker, [worker EXCEPT ![sessions + 1] = "born"]}
      /\ object = "live" /\ (Grace => Workers)
      /\ UNCHANGED <<object, scan_queue, buffer, changes, getter>>
      /\ UNCHANGED <<sensor, rx, plugged>>
  BY SpawnGoes DEF SpawnWorker, IInv, Talk, lineVars, Control
<1>2. api.phase = "run"
  BY <1>1, PhaseIsRun, CommandsOfSteps DEF Asking
<1>3. /\ api'.todo = <<>> /\ First' = "none" /\ api'.phase = "run" /\ api'.got = <<>>
      /\ api' \in ApiState
  BY <1>1, SpawnGoes, LastStep
<1>4. ~is_scanning /\ sessions < MaxSessions
  BY <1>1, FirstIsOne DEF Control, Starting
<1>5. sessions' \in 0 .. MaxSessions /\ sessions' \in Sessions
  BY <1>1, <1>4, DeviceAssumption DEF Types, TypeOK, Sessions
<1>6. Types'
  <2>1. worker' \in [Sessions -> {"none", "born", "test", "read", "dead", "full"}]
    BY <1>1 DEF Types, TypeOK
  <2>2. QED
    BY <1>1, <1>3, <1>5, <2>1 DEF Types, TypeOK, ApiState, CommandOf, StepNames, Stopping, Asking,
                                  Starting
<1>7. Control'
  <2>1. Len(api'.todo) = 0
    BY <1>3
  <2>2. QED
    BY <1>3, <2>1 DEF Control, Lawful
<1>8. Grace /\ plugged' => Line'
  <2> SUFFICES ASSUME Grace, plugged PROVE Line'
    BY <1>1
  <2>1. Calm
    BY <1>1, <1>2 DEF IInv, Talk, Line, At, Starting
  <2>2. QED
    BY <1>1, <1>3, <2>1 DEF Line, At, Calm, Asking, Starting
<1>9. Grace => Workers'
  <2> SUFFICES ASSUME Grace PROVE Workers'
    OBVIOUS
  <2>1. Alive = {}
    BY <1>1, <1>4 DEF Workers
  <2>2. \A w \in Alive' : w = sessions'
    BY <1>1, <2>1 DEF Alive, Types, TypeOK
  <2>3. QED
    BY <1>1, <1>3, <2>2 DEF Workers, At
<1>10. QED
  BY <1>6, <1>7, <1>8, <1>9 DEF IInv, Talk

LEMMA FreeKeeps == ASSUME IInv, FreeDevice PROVE IInv'
<1>1. /\ First = "free" /\ api.todo # <<>> /\ Types /\ Control /\ object' = "freed"
      /\ (Grace => Workers) /\ Proceed
      /\ UNCHANGED <<is_scanning, stop_thread, scan_queue, worker, buffer, sessions, changes, getter>>
      /\ UNCHANGED <<sensor, rx, plugged>>
  BY DEF FreeDevice, AtStep, First, IInv, Talk, lineVars
<1>2. /\ api'.todo = <<>> /\ First' = "none" /\ api'.phase = "run" /\ api'.got = <<>>
      /\ api' \in ApiState
  BY <1>1, LastStep DEF Proceed
<1>3. Types'
  BY <1>1, <1>2 DEF Types, TypeOK, ApiState, CommandOf, StepNames, Stopping, Asking, Starting
<1>4. Control'
  <2>1. Len(api'.todo) = 0
    BY <1>2
  <2>2. QED
    BY <1>2, <2>1 DEF Control, Lawful
<1>5. Grace /\ plugged' => Line'
  <2> SUFFICES ASSUME Grace, plugged PROVE Line'
    BY <1>1
  <2>1. sensor.resetting => sensor.inbox = <<>>
    BY DEF IInv, Talk, Line
  <2>2. QED
    BY <1>1, <1>2, <2>1 DEF Line, At, Asking, Starting
<1>6. Grace => Workers'
  <2>1. Alive' = Alive
    BY <1>1 DEF Alive
  <2>2. QED
    BY <1>1, <1>2, <2>1 DEF Workers, At
<1>7. QED
  BY <1>3, <1>4, <1>5, <1>6 DEF IInv, Talk

LEMMA ApiStepKeeps == ASSUME IInv, ApiStep PROVE IInv'
BY RaiseFlagKeeps, WriteKeeps, SleepEndsKeeps, ReadKeeps, FlushKeeps, LowerKeeps, ClearKeeps,
   SpawnKeeps, FreeKeeps DEF ApiStep

-----------------------------------------------------------------------------
\* The workers.
LEMMA EnqueueTypes ==
  ASSUME Types, NEW w \in Sessions, NEW what \in {"scan", "error"}, Enqueue(w, what)
  PROVE  /\ scan_queue' \in Seq([session : Sessions, what : {"scan", "error"}])
         /\ Len(scan_queue') <= MaxSize
<1> DEFINE S == [session : Sessions, what : {"scan", "error"}]
<1>1. PICK q \in Seq(S) : q = scan_queue /\ Len(q) <= MaxSize
  BY DEF Types, TypeOK
<1>2. PICK e \in S : e = [session |-> w, what |-> what]
  OBVIOUS
<1>3. PICK n, m \in Nat : n = Len(q) /\ m = MaxSize /\ m # 0
  BY <1>1, DeviceAssumption
<1> HIDE DEF S
<1>4. CASE n >= m
  <2>1. q # <<>>
    <3>1. n # 0
      BY <1>3, <1>4
    <3>2. QED
      BY <1>3, <3>1
  <2>2. PICK rest \in Seq(S) : rest = Tail(q) /\ Len(rest) = n - 1
    <3>1. Tail(q) \in Seq(S) /\ Len(Tail(q)) = Len(q) - 1
      BY <2>1
    <3>2. QED
      BY <1>3, <3>1
  <2>3. Append(rest, e) \in Seq(S) /\ Len(Append(rest, e)) = n
    BY <1>3, <2>2
  <2>4. scan_queue' = Append(rest, e)
    BY <1>1, <1>2, <1>3, <1>4, <2>2 DEF Enqueue
  <2>5. QED
    BY <1>1, <1>3, <2>3, <2>4 DEF S
<1>5. CASE ~(n >= m)
  <2>1. Append(q, e) \in Seq(S) /\ Len(Append(q, e)) = n + 1
    BY <1>3
  <2>2. scan_queue' = Append(q, e)
    BY <1>1, <1>2, <1>3, <1>5 DEF Enqueue
  <2>3. n + 1 <= m
    BY <1>3, <1>5
  <2>4. QED
    BY <1>3, <2>1, <2>2, <2>3 DEF S
<1>6. QED
  BY <1>4, <1>5

\* What a worker does: it is alive, it changes nobody else's place, and it only
\* reads from a port at which there is something.
Works(w) ==
  /\ w \in Alive
  /\ worker[w] # "read" \/ ~plugged \/ rx # <<>>
  /\ UNCHANGED <<object, is_scanning, stop_thread, sessions, changes, api, getter, sensor, plugged>>
  /\ \E s \in {"test", "read", "dead", "full"} : worker' = [worker EXCEPT ![w] = s]

LEMMA WorkerDoes ==
  ASSUME Types, NEW w \in Sessions, WorkerStep(w)
  PROVE  Works(w) /\ Types'
<1> USE DEF Works, Alive
<1>1. /\ LineTypes /\ worker \in [Sessions -> {"none", "born", "test", "read", "dead", "full"}]
      /\ buffer \in [Sessions -> Seq(Byte)] /\ \A v \in Sessions : Len(buffer[v]) < ScanLen
      /\ ScanLen \in Nat /\ ScanLen > 0
  <2>1. ScanLen \in Nat /\ ScanLen > 0
    BY LineAssumption
  <2>2. QED
    BY <2>1 DEF Types, TypeOK, LineTypes
<1>2. ASSUME Works(w), rx' \in Seq(Byte),
             \/ UNCHANGED buffer
             \/ \E b \in Seq(Byte) : Len(b) < ScanLen /\ buffer' = [buffer EXCEPT ![w] = b],
             \/ UNCHANGED scan_queue
             \/ \E what \in {"scan", "error"} : Enqueue(w, what)
      PROVE  Types'
  <2>1. worker' \in [Sessions -> {"none", "born", "test", "read", "dead", "full"}]
    BY <1>1, <1>2
  <2>2. /\ scan_queue' \in Seq([session : Sessions, what : {"scan", "error"}])
        /\ Len(scan_queue') <= MaxSize
    BY <1>2, EnqueueTypes DEF Types, TypeOK
  <2>3. buffer' \in [Sessions -> Seq(Byte)] /\ \A v \in Sessions : Len(buffer'[v]) < ScanLen
    BY <1>1, <1>2
  <2>4. QED
    BY <1>2, <2>1, <2>2, <2>3 DEF Types, TypeOK
<1>3. <<>> \in Seq(Byte) /\ Len(<<>>) < ScanLen
  BY <1>1
<1>4. CASE WorkerBegins(w)
  <2>1. Works(w)
    BY <1>4 DEF WorkerBegins, lineVars
  <2>2. QED
    BY <1>1, <1>2, <1>4, <2>1 DEF WorkerBegins, lineVars, LineTypes
<1>5. CASE WorkerTests(w)
  <2>1. Works(w)
    BY <1>5 DEF WorkerTests, lineVars
  <2>2. QED
    BY <1>1, <1>2, <1>5, <2>1 DEF WorkerTests, lineVars, LineTypes
<1>6. CASE WorkerLosesPort(w)
  <2>1. Works(w)
    BY <1>6 DEF WorkerLosesPort, lineVars
  <2>2. QED
    BY <1>1, <1>2, <1>3, <1>6, <2>1 DEF WorkerLosesPort, lineVars, LineTypes
<1>7. ASSUME NEW bytes, WorkerReads(w, bytes)
      PROVE  /\ w \in Alive /\ rx # <<>> /\ rx' \in Seq(Byte) /\ bytes \in Seq(Byte)
             /\ UNCHANGED <<object, is_scanning, stop_thread, sessions, changes, api, getter>>
             /\ UNCHANGED <<sensor, plugged>>
  <2>1. buffer[w] \in Seq(Byte) /\ Len(buffer[w]) < ScanLen
    BY <1>1
  <2>2. rx' \in Seq(Byte) /\ bytes \in Seq(Byte)
    BY <1>1, <1>7, <2>1, ReadBytes DEF WorkerReads, LineTypes
  <2>3. QED
    BY <1>7, <2>2 DEF WorkerReads
<1>8. ASSUME NEW bytes, WorkerReads(w, bytes), NEW s \in {"test", "dead", "full"},
             worker' = [worker EXCEPT ![w] = s], buffer' = [buffer EXCEPT ![w] = <<>>],
             \/ UNCHANGED scan_queue
             \/ \E what \in {"scan", "error"} : Enqueue(w, what)
      PROVE  Works(w) /\ Types'
  <2>1. Works(w)
    BY <1>7, <1>8
  <2>2. QED
    BY <1>2, <1>3, <1>7, <1>8, <2>1
<1>9. CASE WorkerReadsPart(w)
  <2>1. PICK bytes : /\ WorkerReads(w, bytes) /\ Len(bytes) < ScanLen
                     /\ buffer' = [buffer EXCEPT ![w] = bytes] /\ UNCHANGED <<worker, scan_queue>>
    BY <1>9 DEF WorkerReadsPart
  <2>2. worker' = [worker EXCEPT ![w] = "read"]
    BY <1>1, <2>1 DEF WorkerReads
  <2>3. Works(w)
    BY <1>7, <2>1, <2>2
  <2>4. QED
    BY <1>2, <1>7, <2>1, <2>3
<1>10. CASE WorkerReadsPacket(w) \/ WorkerFills(w) \/ WorkerCompletesScan(w)
  BY <1>8, <1>10 DEF WorkerReadsPacket, WorkerFills, WorkerCompletesScan
<1>11. CASE WorkerReadsGarbage(w)
  BY <1>8, <1>11 DEF WorkerReadsGarbage
<1>12. QED
  BY <1>4, <1>5, <1>6, <1>9, <1>10, <1>11 DEF WorkerStep

\* Where the client is while a worker does something: between calls, or in a stop
\* that has not got as far as to read.
LEMMA WorksMeanwhile ==
  ASSUME IInv, Grace, plugged, NEW w \in Sessions, Works(w)
  PROVE  First \in {"none", "raise", "DX1"} /\ api.phase # "read" /\ is_scanning /\ object # "freed"
<1>1. Types /\ Control /\ w \in Alive
  BY DEF IInv, Works
<1>2. /\ is_scanning /\ First \notin {"flush", "DX2", "free", "lower"} /\ object # "freed"
      /\ ~(At({"DX1"}, "read") /\ ~Silent)
  BY <1>1 DEF IInv, Talk, Workers
<1>3. First \notin Asking \cup Starting
  <2>1. CASE api.todo = <<>>
    BY <2>1 DEF First, Asking, Starting
  <2>2. CASE api.todo # <<>>
    BY <1>1, <1>2, <2>2, FirstIsOne DEF Control
  <2>3. QED
    BY <2>1, <2>2
<1>4. First \in {"none", "raise", "DX1"}
  <2>1. First = "none" \/ First \in StepNames
    BY <1>1, FirstIsOne DEF First
  <2>2. QED
    BY <1>2, <1>3, <2>1 DEF StepNames, Stopping
<1>5. api.phase = "read" => First = "DX1"
  BY <1>1, <1>4, CommandsOfSteps DEF Control, Asking
<1>6. ~Silent
  BY <1>1 DEF Works, Silent
<1>7. QED
  BY <1>2, <1>4, <1>5, <1>6 DEF At

LEMMA WorkerKeeps == ASSUME IInv, NEW w \in Sessions, WorkerStep(w) PROVE IInv'
<1>1. Types /\ Control /\ Works(w) /\ Types'
  BY WorkerDoes DEF IInv
<1>2. /\ UNCHANGED <<object, is_scanning, stop_thread, sessions, api, sensor, plugged>>
      /\ w \in Alive /\ First' = First /\ Need' = Need
      /\ \A steps, phase : At(steps, phase)' <=> At(steps, phase)
  BY <1>1 DEF Works, First, Step, Need, At
<1>3. Control'
  BY <1>1, <1>2 DEF Control
<1>4. Grace /\ plugged => First \in {"none", "raise", "DX1"} /\ api.phase # "read" /\ is_scanning
                         /\ object # "freed"
  BY <1>1, WorksMeanwhile DEF IInv
<1>5. Grace /\ plugged' => Line'
  <2> SUFFICES ASSUME Grace, plugged PROVE Line'
    BY <1>2
  <2>1. Line
    BY DEF IInv, Talk
  <2>2. (Calm => Calm') /\ (Sleeping => Sleeping')
    BY <1>2 DEF Calm, Sleeping, Pending, Waiting
  <2>3. (sensor.resetting => sensor.inbox = <<>>)'
    BY <1>2, <2>1 DEF Line
  <2>4. ~At({"DX2", "lower"} \cup Asking, "run") /\ ~At(Starting, "run")
    BY <1>4 DEF At, Asking, Starting
  <2>5. ~At({"DX2"} \cup Asking, "read") /\ ~At({"DX1"}, "read") /\ ~At({"flush"}, "run")
    BY <1>4 DEF At
  <2>6. At({"none", "raise", "DX1"}, "run") => Calm
    BY <1>4, <2>1 DEF Line
  <2>7. At({"DX1"}, "sleep") => Sleeping
    BY <2>1 DEF Line
  <2>8. QED
    BY <1>2, <1>4, <2>2, <2>3, <2>4, <2>5, <2>6, <2>7 DEF Line
<1>6. Grace => Workers'
  <2> SUFFICES ASSUME Grace PROVE Workers'
    OBVIOUS
  <2>1. \A v \in Alive' : v \in Alive
    <3>1. \A v \in Sessions : v # w => worker'[v] = worker[v]
      BY <1>1 DEF Works, Types, TypeOK
    <3>2. QED
      BY <1>2, <3>1 DEF Alive
  <2>2. Workers
    BY DEF IInv, Talk
  <2>3. Alive = {} => Alive' = {}
    BY <2>1
  <2>4. ~(plugged /\ At({"DX1"}, "read"))
    BY <1>4 DEF At
  <2>5. QED
    BY <1>2, <2>1, <2>2, <2>3, <2>4 DEF Workers
<1>7. QED
  BY <1>1, <1>3, <1>5, <1>6 DEF IInv, Talk

-----------------------------------------------------------------------------
\* The reader, and steps that change nothing.
LEMMA Unnoticed ==
  ASSUME IInv, Types',
         UNCHANGED <<object, is_scanning, worker, sessions, api, sensor, rx, plugged>>
  PROVE  IInv'
<1>1. /\ First' = First /\ Need' = Need /\ Alive' = Alive /\ (Silent <=> Silent')
      /\ \A steps, phase : At(steps, phase)' <=> At(steps, phase)
  BY DEF First, Step, Need, At, Alive, Silent
<1>2. Control'
  BY <1>1 DEF IInv, Control
<1>3. Grace => Workers'
  BY <1>1 DEF IInv, Talk, Workers
<1>4. Grace /\ plugged' => Line'
  <2>1. (Calm <=> Calm') /\ (Quiet <=> Quiet') /\ (Still <=> Still') /\ (Sleeping <=> Sleeping')
    BY DEF Calm, Quiet, Still, Sleeping, Pending, Waiting
  <2>2. Asked(CommandOf[First]) <=> Asked(CommandOf[First])'
    BY <1>1, <2>1 DEF Asked, Unanswered, Answered, Waiting
  <2>3. Grace /\ plugged => Line
    BY DEF IInv, Talk
  <2>4. QED
    BY <1>1, <2>1, <2>2, <2>3 DEF Line
<1>5. QED
  BY <1>2, <1>3, <1>4 DEF IInv, Talk

LEMMA ReaderKeeps == ASSUME IInv, GetScan \/ GetterTakes PROVE IInv'
<1>1. CASE GetScan
  <2>1. UNCHANGED <<deviceVars, api, lineVars>> /\ getter' = "waiting"
    BY <1>1 DEF GetScan
  <2>2. Types'
    BY <2>1 DEF deviceVars, lineVars, IInv, Types, TypeOK
  <2>3. QED
    BY <2>1, <2>2, Unnoticed DEF deviceVars, lineVars
<1>2. CASE GetterTakes
  <2>1. PICK q \in Seq([session : Sessions, what : {"scan", "error"}]) :
          q = scan_queue /\ q # <<>> /\ Len(q) <= MaxSize
    BY <1>2 DEF GetterTakes, IInv, Types, TypeOK
  <2>2. /\ Tail(q) \in Seq([session : Sessions, what : {"scan", "error"}])
        /\ Len(Tail(q)) = Len(q) - 1
    BY <2>1
  <2>3. Len(Tail(q)) <= MaxSize
    <3>1. PICK n, m \in Nat : n = Len(q) /\ m = MaxSize
      BY DeviceAssumption
    <3>2. QED
      BY <2>1, <2>2, <3>1
  <2>4. UNCHANGED <<object, is_scanning, stop_thread, worker, buffer, sessions, changes, api, lineVars>>
    BY <1>2 DEF GetterTakes
  <2>5. Types'
    BY <1>2, <2>1, <2>2, <2>3, <2>4 DEF GetterTakes, lineVars, IInv, Types, TypeOK
  <2>6. QED
    BY <2>4, <2>5, Unnoticed DEF lineVars
<1>3. QED
  BY <1>1, <1>2

LEMMA Initially == Init => IInv
<1> SUFFICES ASSUME Init PROVE IInv
  OBVIOUS
<1> DEFINE Boxes == Seq(Commands \X (0 .. 10))
<1>1. <<>> \in Boxes /\ <<>> \in Seq(Byte) /\ <<>> \in Seq(StepNames)
      /\ <<>> \in Seq([session : Sessions, what : {"scan", "error"}]) /\ Len(<<>>) = 0
  OBVIOUS
<1>2. sensor \in SensorState /\ sensor.inbox = <<>> /\ ~sensor.resetting
      /\ rx = <<>> /\ plugged = TRUE
  <2>1. PICK s \in BOOLEAN, hz \in Speeds, r \in {MaxUnready = 0, TRUE} :
          sensor = [inbox |-> <<>>, sending |-> <<>>, streaming |-> s, speed |-> hz,
                    ready |-> r, unready |-> 0, trailed |-> FALSE, resetting |-> FALSE]
    BY DEF Init, LineInit
  <2>2. hz \in 0 .. 10 /\ r \in BOOLEAN /\ 0 \in 0 .. MaxUnready
    <3>1. hz \in 0 .. 10 /\ 0 \in 0 .. MaxUnready
      BY LineAssumption
    <3>2. r \in BOOLEAN
      OBVIOUS
    <3>3. QED
      BY <3>1, <3>2
  <2>3. QED
    BY <1>1, <2>1, <2>2 DEF SensorState, Init, LineInit
<1>3. /\ object = "none" /\ is_scanning = FALSE /\ stop_thread = FALSE /\ scan_queue = <<>>
      /\ api = [call |-> "none", todo |-> <<>>, phase |-> "run", got |-> <<>>,
                hz |-> 0, tries |-> 0, errors |-> 0]
      /\ worker = [w \in Sessions |-> "none"] /\ buffer = [w \in Sessions |-> <<>>]
      /\ sessions = 0 /\ getter = "idle" /\ changes = 0
  BY DEF Init
<1>4. api \in ApiState
  BY <1>1, <1>3, DeviceAssumption DEF ApiState, Calls
<1>5. Types
  <2>1. /\ sessions \in 0 .. MaxSessions /\ changes \in 0 .. MaxSpeedChanges /\ 0 <= MaxSize
        /\ 0 < ScanLen
    BY <1>3, DeviceAssumption, LineAssumption
  <2>2. /\ api.todo \in Seq({"raise", "flush", "lower", "clear", "spawn", "free"} \cup DOMAIN CommandOf)
        /\ api.phase \in {"run", "sleep", "read"}
        /\ api.got \in Seq(Byte) /\ api.errors \in Nat /\ api.tries \in 0 .. MaxTries
    BY <1>1, <1>3, DeviceAssumption
  <2>3. QED
    BY <1>1, <1>2, <1>3, <1>4, <2>1, <2>2 DEF Types, TypeOK
<1>6. First = "none" /\ Alive = {}
  BY <1>3 DEF First, Alive
<1>7. Control
  BY <1>1, <1>3, <1>6 DEF Control, Lawful
<1>8. Line
  BY <1>2, <1>3, <1>6 DEF Line, At, Calm, Asking, Starting
<1>9. Workers
  BY <1>3, <1>6 DEF Workers, At
<1>10. QED
  BY <1>5, <1>7, <1>8, <1>9 DEF IInv, Talk

LEMMA StepKeeps == IInv /\ [Next]_vars => IInv'
<1> SUFFICES ASSUME IInv, [Next]_vars PROVE IInv'
  OBVIOUS
<1>1. CASE UNCHANGED vars
  <2>1. UNCHANGED <<deviceVars, api, getter, lineVars>>
    BY <1>1 DEF vars
  <2>2. Types'
    BY <2>1 DEF deviceVars, lineVars, IInv, Types, TypeOK
  <2>3. QED
    BY <2>1, <2>2, Unnoticed DEF deviceVars, lineVars
<1>2. QED
  BY <1>1, ApiCallKeeps, ApiStepKeeps, WorkerKeeps, ReaderKeeps, SensorKeeps DEF Next

LEMMA Inductive == Spec => []IInv
BY Initially, StepKeeps, PTL DEF Spec

-----------------------------------------------------------------------------
\* The shape of the state: in particular the queue never holds more than its
\* capacity, and no motor is polled more often than the limit.
THEOREM TypeCorrect == Spec => []TypeOK
<1>1. IInv => TypeOK
  BY DEF IInv, Types
<1>2. QED
  BY <1>1, Inductive, PTL

\* start_scanning creates a worker without having joined the one before it.  If
\* the pause after the first DX is long enough, that one is gone all the same.
THEOREM WorkersAreOne == Spec => [](Grace => OneWorker)
<1>1. IInv => (Grace => OneWorker)
  BY DEF IInv, Talk, Workers, OneWorker
<1>2. QED
  BY <1>1, Inductive, PTL

\* destruct frees what a worker points to without having joined it.  If the
\* pause is long enough, no worker is left, and none has yet to begin when its
\* session has been stopped.
THEOREM FreedIsUnused == Spec => [](Grace => NoUseAfterFree)
<1>1. IInv => (Grace => NoUseAfterFree)
  BY DEF IInv, Talk, Workers, NoUseAfterFree, Alive
<1>2. QED
  BY <1>1, Inductive, PTL

\* Between calls a device that is connected and not scanning is silent, and the
\* next response to come is that to the next command; no worker is left to take
\* bytes of it.
SilentBetweenCalls ==
  Idle /\ object = "live" /\ plugged /\ ~is_scanning =>
    Alive = {} /\ ~sensor.streaming /\ sensor.sending = <<>> /\ rx = <<>>

THEOREM NothingOnTheWay == Spec => [](Grace => SilentBetweenCalls)
<1>1. IInv => (Grace => SilentBetweenCalls)
  <2> SUFFICES ASSUME IInv, Grace, Idle, object = "live", plugged, ~is_scanning
               PROVE  Alive = {} /\ ~sensor.streaming /\ sensor.sending = <<>> /\ rx = <<>>
    BY DEF SilentBetweenCalls
  <2>1. First = "none"
    BY DEF First, Idle
  <2>2. api.phase = "run"
    BY <2>1, PhaseIsRun, CommandsOfSteps DEF IInv, Asking
  <2>3. QED
    BY <2>1, <2>2 DEF IInv, Talk, Line, Workers, At, Quiet
<1>2. QED
  BY <1>1, Inductive, PTL


-----------------------------------------------------------------------------
(* ---- the promise of the API ---- *)

\* The steps that are left, and the sessions of the scans in the queue.
ToDo == {api.todo[i] : i \in 1 .. Len(api.todo)}
Queued == {scan_queue[i].session : i \in 1 .. Len(scan_queue)}
Constructing == ~Idle /\ api.call = "construct"

\* A call and what is left of it to do.
Means(call, steps) ==
  \/ call \in {"construct", "stop"} /\ steps \subseteq Stopping \ {"free"} /\ "lower" \in steps
  \/ call = "destruct" /\ steps \subseteq Stopping /\ "free" \in steps
  \/ call = "start" /\ steps \subseteq Asking \cup Starting /\ "spawn" \in steps
  \/ call \in Promise!Settings /\ steps \subseteq Asking

\* While scanning the queue holds nothing of an earlier session, and a stop that
\* gets as far as to lower the flag has had no error.
Served ==
  /\ Idle \/ Means(api.call, ToDo)
  /\ object = "none" \/ Constructing => sessions = 0 /\ scan_queue = <<>>
  /\ Constructing => is_scanning
  /\ is_scanning => Queued \subseteq {sessions}
  /\ First = "spawn" => scan_queue = <<>>
  /\ First \in Stopping \ {"free"} => api.errors = 0

LEMMA ToDoIs ==
  ASSUME Types
  PROVE  /\ Idle <=> ToDo = {}
         /\ ~Idle => First \in ToDo /\ First \in StepNames
         /\ Idle => First = "none"
<1>1. PICK steps \in Seq(StepNames) : steps = api.todo
  BY DEF Types, ApiState
<1>2. CASE steps = <<>>
  BY <1>1, <1>2 DEF ToDo, Idle, First
<1>3. CASE steps # <<>>
  BY <1>1, <1>3, FirstIsOne DEF ToDo, Idle
<1>4. QED
  BY <1>2, <1>3

LEMMA QueuedIs ==
  ASSUME Types
  PROVE  (scan_queue = <<>> <=> Queued = {}) /\ Queued \subseteq Sessions
<1> DEFINE S == [session : Sessions, what : {"scan", "error"}]
<1>1. PICK q \in Seq(S) : q = scan_queue
  BY DEF Types, TypeOK
<1>2. \A e \in S : e.session \in Sessions
  OBVIOUS
<1> HIDE DEF S
<1>3. PICK n \in Nat : n = Len(q) /\ \A i \in 1 .. n : q[i] \in S
  OBVIOUS
<1>4. Queued = {q[i].session : i \in 1 .. n}
  BY <1>1, <1>3 DEF Queued
<1>5. q = <<>> <=> n = 0
  BY <1>3, EmptySeq
<1>6. n # 0 => 1 \in 1 .. n
  BY <1>3
<1>7. n = 0 => Queued = {}
  BY <1>4
<1>8. n # 0 => Queued # {}
  BY <1>4, <1>6
<1>9. Queued \subseteq Sessions
  BY <1>2, <1>3, <1>4
<1>10. QED
  BY <1>1, <1>5, <1>7, <1>8, <1>9

\* How the phase, the call and the outcome that the caller sees come from the state.
Doing == IF Idle THEN "none" ELSE api.call
Failed == Idle /\ api.errors > 0
Waits == IF getter = "waiting" THEN {"getter"} ELSE {}

LEMMA PhaseIs ==
  ASSUME Types, Control
  PROVE  Phase = IF object = "none" \/ Constructing THEN "none"
                 ELSE IF object = "freed" THEN "freed"
                 ELSE IF is_scanning THEN "scanning" ELSE "idle"
<1>1. Constructing => object = "live"
  BY DEF Control, Constructing, Idle
<1>2. CASE object = "none" \/ Constructing
  BY <1>1, <1>2 DEF Phase, Constructing
<1>3. CASE ~(object = "none" \/ Constructing)
  BY <1>3 DEF Phase, Constructing
<1>4. QED
  BY <1>2, <1>3

LEMMA Seen ==
  ASSUME UNCHANGED <<Phase, Doing, Failed, sessions, Queued, getter>>
  PROVE  UNCHANGED Promise!svars
BY DEF Promise!svars, Doing, Failed, Queued

LEMMA Unseen ==
  ASSUME UNCHANGED <<object, is_scanning, scan_queue, sessions, getter>>,
         api'.call = api.call, Idle' <=> Idle, Idle => api'.errors = api.errors
  PROVE  UNCHANGED Promise!svars
<1>1. UNCHANGED <<Phase, Doing, Queued>>
  BY DEF Phase, Doing, Queued
<1>2. Failed' = Failed
  <2>1. CASE Idle
    BY <2>1 DEF Failed
  <2>2. CASE ~Idle
    BY <2>2 DEF Failed
  <2>3. QED
    BY <2>1, <2>2
<1>3. QED
  BY <1>1, <1>2, Seen

\* The steps that are left after a step: all but the one just done, and when a
\* stationary motor was found, to wait for it once more and to start it.
LEMMA TodoFurther ==
  ASSUME Types, Control, api.todo # <<>>, Further
  PROVE  /\ ToDo' \subseteq ToDo /\ ToDo \subseteq ToDo' \cup {First}
         /\ api'.todo = <<>> <=> ToDo' = {}
         /\ api'.todo # <<>> => First' \in ToDo' /\ MayFollow(First, First')
<1>1. PICK steps \in Seq(StepNames) : steps = api.todo /\ steps # <<>> /\ Lawful(steps)
  BY DEF Types, ApiState, Control
<1>2. PICK rest \in Seq(StepNames) : rest = Tail(steps) /\ rest = api'.todo
  BY <1>1, TailOfTodo DEF Further
<1>3. PICK n \in Nat : n = Len(steps) /\ n # 0 /\ Len(rest) = n - 1
  BY <1>1, <1>2, EmptySeq, TailOfTodo
<1>4. /\ \A i \in 1 .. n - 1 : i + 1 \in 1 .. n /\ rest[i] = steps[i + 1]
      /\ rest # <<>> => rest[1] = steps[2] /\ MayFollow(steps[1], steps[2])
  BY <1>1, <1>2, <1>3, TailOfTodo
<1>5. First = steps[1]
  BY <1>1 DEF First, Step
<1>6. ToDo = {steps[i] : i \in 1 .. n} /\ ToDo' = {rest[i] : i \in 1 .. n - 1}
  BY <1>1, <1>2, <1>3 DEF ToDo
<1>7. ToDo' \subseteq ToDo
  BY <1>4, <1>6
<1>8. ASSUME NEW i \in 1 .. n PROVE steps[i] \in ToDo' \cup {First}
  <2>1. CASE i = 1
    BY <1>5, <2>1
  <2>2. CASE i # 1
    <3>1. i - 1 \in 1 .. n - 1 /\ (i - 1) + 1 = i
      BY <1>3, <2>2
    <3>2. QED
      BY <1>4, <1>6, <3>1
  <2>3. QED
    BY <2>1, <2>2
<1>9. rest = <<>> <=> n - 1 = 0
  BY <1>2, <1>3, EmptySeq
<1>10. n - 1 # 0 => 1 \in 1 .. n - 1
  BY <1>3
<1>11. n - 1 = 0 => ToDo' = {}
  BY <1>6
<1>12. rest # <<>> => First' = rest[1]
  BY <1>2 DEF First, Step
<1>13. rest # <<>> => First' \in ToDo' /\ MayFollow(First, First')
  BY <1>4, <1>5, <1>6, <1>9, <1>10, <1>12
<1>14. QED
  BY <1>2, <1>6, <1>7, <1>8, <1>9, <1>11, <1>13

LEMMA TodoAdjusted ==
  ASSUME Types, Control, api.todo # <<>>, Adjusted
  PROVE  /\ ToDo' \subseteq ToDo \cup {"wait", "MS"} /\ ToDo \subseteq ToDo' \cup {First}
         /\ api'.todo # <<>> /\ First' = "wait" /\ ToDo' # {}
<1>1. PICK steps \in Seq(StepNames) : steps = api.todo /\ steps # <<>> /\ Lawful(steps)
  BY DEF Types, ApiState, Control
<1>2. PICK rest \in Seq(StepNames) : rest = Tail(steps)
  BY <1>1, TailOfTodo
<1>3. PICK n, m \in Nat : n = Len(steps) /\ m = Len(rest) /\ n # 0 /\ m = n - 1
  BY <1>1, <1>2, EmptySeq, TailOfTodo
<1>4. \A i \in 1 .. m : rest[i] = steps[i + 1]
  BY <1>1, <1>2, <1>3, TailOfTodo
<1>5. First = steps[1]
  BY <1>1 DEF First, Step
<1>6. PICK two \in Seq(StepNames) : two = <<"wait", "MS">> /\ Len(two) = 2
  <2>1. <<"wait", "MS">> \in Seq(StepNames) /\ Len(<<"wait", "MS">>) = 2
    BY DEF StepNames, Asking
  <2>2. QED
    BY <2>1
<1>7. PICK p \in Seq(StepNames) : p = api'.todo /\ p = two \o rest
  <2>1. two \o rest \in Seq(StepNames)
    OBVIOUS
  <2>2. QED
    BY <1>1, <1>2, <1>6, <2>1 DEF Adjusted
<1>8. /\ Len(p) = 2 + m /\ \A i \in 1 .. m : p[2 + i] = rest[i]
      /\ p[1] = two[1] /\ p[2] = two[2]
  <2>1. /\ Len(two \o rest) = Len(two) + Len(rest)
        /\ \A i \in 1 .. Len(two) : (two \o rest)[i] = two[i]
        /\ \A i \in 1 .. Len(rest) : (two \o rest)[Len(two) + i] = rest[i]
    OBVIOUS
  <2>2. QED
    BY <1>3, <1>6, <1>7, <2>1
<1>9. p[1] = "wait" /\ p[2] = "MS"
  BY <1>6, <1>8
<1>10. ToDo = {steps[i] : i \in 1 .. n} /\ ToDo' = {p[i] : i \in 1 .. 2 + m}
  BY <1>1, <1>3, <1>7, <1>8 DEF ToDo
<1>11. ASSUME NEW i \in 1 .. 2 + m PROVE p[i] \in ToDo \cup {"wait", "MS"}
  <2>1. CASE i \in {1, 2}
    BY <1>9, <2>1
  <2>2. CASE i \notin {1, 2}
    <3>1. i - 2 \in 1 .. m /\ 2 + (i - 2) = i /\ (i - 2) + 1 \in 1 .. n
      BY <1>3, <2>2
    <3>2. PICK j \in 1 .. m : j = i - 2
      BY <3>1
    <3>3. p[i] = steps[j + 1] /\ j + 1 \in 1 .. n
      <4>1. p[2 + j] = rest[j] /\ rest[j] = steps[j + 1]
        BY <1>4, <1>8
      <4>2. QED
        BY <3>1, <3>2, <4>1
    <3>4. QED
      BY <1>10, <3>3
  <2>3. QED
    BY <2>1, <2>2
<1>12. ASSUME NEW i \in 1 .. n PROVE steps[i] \in ToDo' \cup {First}
  <2>1. CASE i = 1
    BY <1>5, <2>1
  <2>2. CASE i # 1
    <3>1. PICK j \in 1 .. m : j + 1 = i
      <4>1. i - 1 \in 1 .. m /\ (i - 1) + 1 = i
        BY <1>3, <2>2
      <4>2. QED
        BY <4>1
    <3>2. p[2 + j] = steps[j + 1] /\ 2 + j \in 1 .. 2 + m
      <4>1. p[2 + j] = rest[j] /\ rest[j] = steps[j + 1]
        BY <1>4, <1>8
      <4>2. QED
        BY <1>3, <4>1
    <3>3. QED
      BY <1>10, <3>1, <3>2
  <2>3. QED
    BY <2>1, <2>2
<1>13. 1 \in 1 .. 2 + m
  BY <1>3
<1>14. p # <<>> /\ First' = "wait"
  <2>1. p # <<>>
    BY <1>3, <1>8
  <2>2. QED
    BY <1>7, <1>9, <2>1 DEF First, Step
<1>15. QED
  BY <1>7, <1>10, <1>11, <1>12, <1>13, <1>14

\* A step is done and the call goes on with the next one or is over; or it is cut
\* short with an error.
Onward == /\ Goes /\ api'.call = api.call /\ (Further \/ Again \/ Adjusted)
          /\ First \in Stopping => api'.errors = api.errors

CutShort == /\ Goes /\ api'.call = api.call /\ First \in {"DX1", "flush", "DX2"}
            /\ api'.todo = IF api.call = "destruct" THEN <<"free">> ELSE <<>>
            /\ api'.errors > 0

\* What is left still is what the call means.
LEMMA MeansOn ==
  ASSUME NEW call, NEW steps, NEW left, NEW first, Means(call, steps), first \in steps,
         left # {}, left \subseteq steps \cup {"wait", "MS"}, steps \subseteq left \cup {first},
         first = "adjust" \/ left \subseteq steps,
         first = "lower" => "free" \in left, first \notin {"spawn", "free"}
  PROVE  Means(call, left)
BY DEF Means, Stopping, Asking, Starting, Promise!Settings

\* Which step is the last one of which call.
LEMMA MeansEnds ==
  ASSUME NEW call, NEW steps, NEW first, Means(call, steps), steps = {first}
  PROVE  \/ first = "lower" /\ call \in {"construct", "stop"}
         \/ first = "free" /\ call = "destruct"
         \/ first = "spawn" /\ call = "start"
         \/ first \in Asking /\ call \in Promise!Settings
BY DEF Means

LEMMA OnwardMeans ==
  ASSUME Types, Control, Served, ~Idle, Onward
  PROVE  /\ Idle' => /\ ToDo = {First}
                     /\ \/ First = "lower" /\ api.call \in {"construct", "stop"}
                        \/ First = "free" /\ api.call = "destruct"
                        \/ First = "spawn" /\ api.call = "start"
                        \/ First \in Asking /\ api.call \in Promise!Settings
         /\ ~Idle' => Means(api.call, ToDo')
         /\ First \in {"spawn", "free"} => Idle'
         /\ First = "lower" => (Idle' <=> api.call # "destruct")
<1>1. api.todo # <<>> /\ First \in ToDo /\ Means(api.call, ToDo) /\ (Idle' <=> api'.todo = <<>>)
  BY ToDoIs DEF Served, Idle
<1>2. CASE Again
  <2>1. ToDo' = ToDo /\ First = "wait" /\ ~Idle'
    BY <1>1, <1>2 DEF Again, ToDo
  <2>2. QED
    BY <1>1, <2>1
<1>3. CASE Adjusted
  <2>1. /\ ToDo' \subseteq ToDo \cup {"wait", "MS"} /\ ToDo \subseteq ToDo' \cup {First}
        /\ api'.todo # <<>> /\ First = "adjust" /\ ToDo' # {}
    BY <1>1, <1>3, TodoAdjusted DEF Adjusted
  <2>2. Means(api.call, ToDo')
    BY <1>1, <2>1, MeansOn
  <2>3. QED
    BY <1>1, <2>1, <2>2
<1>4. CASE Further
  <2>1. /\ ToDo' \subseteq ToDo /\ ToDo \subseteq ToDo' \cup {First}
        /\ api'.todo = <<>> <=> ToDo' = {}
        /\ api'.todo # <<>> => First' \in ToDo' /\ MayFollow(First, First')
    BY <1>1, <1>4, TodoFurther
  <2>2. First = "lower" /\ ~Idle' => "free" \in ToDo'
    BY <1>1, <2>1 DEF MayFollow
  <2>3. First \in {"spawn", "free"} => Idle'
    BY <1>1, <2>1 DEF MayFollow
  <2>4. ~Idle' => Means(api.call, ToDo')
    <3> SUFFICES ASSUME ~Idle' PROVE Means(api.call, ToDo')
      OBVIOUS
    <3>1. ToDo' # {} /\ First \notin {"spawn", "free"} /\ (First = "lower" => "free" \in ToDo')
      BY <1>1, <2>1, <2>2, <2>3
    <3>2. QED
      BY <1>1, <2>1, <3>1, MeansOn
  <2>5. Idle' => ToDo = {First}
    BY <1>1, <2>1
  <2>6. ASSUME First = "lower" PROVE Idle' <=> api.call # "destruct"
    <3>1. CASE Idle'
      BY <1>1, <2>5, <2>6, <3>1, MeansEnds DEF Asking
    <3>2. CASE ~Idle'
      BY <1>1, <2>1, <2>2, <2>6, <3>2 DEF Means, Asking, Starting
    <3>3. QED
      BY <3>1, <3>2
  <2>7. QED
    BY <1>1, <2>3, <2>4, <2>5, <2>6, MeansEnds
<1>5. QED
  BY <1>2, <1>3, <1>4 DEF Onward

LEMMA ProceedIsOnward ==
  ASSUME Types, Control, ~Idle, Proceed PROVE Onward /\ Further
<1>1. Goes /\ Further
  BY ProceedGoes DEF Proceed, Idle
<1>2. api'.call = api.call /\ api'.errors = api.errors
  BY DEF Proceed, Go, Types, ApiState
<1>3. QED
  BY <1>1, <1>2 DEF Onward

LEMMA SpawnIsOnward ==
  ASSUME Types, Control, ~Idle, SpawnWorker
  PROVE  /\ Onward /\ Further
         /\ api'.errors \in Nat /\ (api'.errors = 0 => api.errors = 0)
<1>1. PICK errors \in {0, 1} : Go(Tail(api.todo), errors)
  BY SpawnGoes
<1>2. Goes /\ Further
  BY <1>1, ProceedGoes DEF Idle
<1>3. /\ api'.call = api.call /\ api'.errors = api.errors + errors /\ api.errors \in Nat
  BY <1>1 DEF Go, Types, ApiState
<1>4. First \notin Stopping
  BY SpawnGoes DEF Stopping
<1>5. QED
  BY <1>2, <1>3, <1>4 DEF Onward

LEMMA PollAgainIsOnward ==
  ASSUME Types, Control, ~Idle, First = "wait", NEW errors \in Nat, PollAgain(errors)
  PROVE  Onward
<1>1. Goes
  BY PollAgainGoes DEF Idle
<1>2. api'.call = api.call /\ (Further \/ Again)
  BY DEF PollAgain, Go, Types, ApiState, Further, Again
<1>3. QED
  BY <1>1, <1>2 DEF Onward, Stopping

LEMMA FailEnds ==
  ASSUME Types, Control, ~Idle, First \notin {"raise", "lower", "free"}, Fail
  PROVE  Onward \/ CutShort
<1>1. First = Step /\ api.todo # <<>>
  BY DEF First, Idle
<1>2. Goes
  BY <1>1, FailGoes
<1>3. CASE /\ Step \in {"DX1", "flush", "DX2"}
           /\ Go(IF api.call = "destruct" THEN <<"free">> ELSE <<>>, 1)
  <2>1. /\ api'.call = api.call /\ api'.errors = api.errors + 1 /\ api.errors \in Nat
        /\ api'.todo = IF api.call = "destruct" THEN <<"free">> ELSE <<>>
    BY <1>3 DEF Go, Types, ApiState
  <2>2. QED
    BY <1>1, <1>2, <1>3, <2>1 DEF CutShort
<1>4. CASE Step = "wait" /\ PollAgain(1)
  BY <1>1, <1>4, PollAgainIsOnward
<1>5. CASE Step \notin {"DX1", "flush", "DX2", "wait"} /\ Go(Tail(api.todo), 1)
  <2>1. api'.call = api.call /\ Further
    BY <1>5 DEF Go, Types, ApiState, Further
  <2>2. First \notin Stopping
    BY <1>1, <1>5 DEF Stopping
  <2>3. QED
    BY <1>2, <2>1, <2>2 DEF Onward
<1>6. QED
  BY <1>3, <1>4, <1>5 DEF Fail

LEMMA FailReadEnds ==
  ASSUME Types, Control, ~Idle, First \notin {"raise", "lower", "free"}, FailRead
  PROVE  Onward \/ CutShort
BY ProceedIsOnward, FailEnds DEF FailRead

LEMMA InterpretEnds ==
  ASSUME Types, Control, ~Idle, First \notin {"raise", "lower", "free"},
         NEW status, Interpret(status)
  PROVE  Onward \/ CutShort
<1>1. First = Step /\ api.todo # <<>>
  BY DEF First, Idle
<1>2. CASE /\ Step = "adjust"
           /\ api' = [api EXCEPT !.todo = <<"wait", "MS">> \o Tail(@),
                                 !.phase = "run", !.got = <<>>, !.hz = 5]
  <2>1. PICK p : /\ p = <<"wait", "MS">> \o Tail(api.todo)
                 /\ api' = [api EXCEPT !.todo = p, !.phase = "run", !.got = <<>>, !.hz = 5]
    BY <1>2
  <2>2. api'.call = api.call /\ api'.todo = p
    BY <2>1 DEF Types, ApiState
  <2>3. Goes
    BY <1>1, InterpretGoes
  <2>4. QED
    BY <1>1, <1>2, <2>1, <2>2, <2>3 DEF Onward, Adjusted, Stopping
<1>3. CASE Step = "wait" /\ PollAgain(0)
  BY <1>1, <1>3, PollAgainIsOnward
<1>4. CASE Fail
  BY <1>4, FailEnds
<1>5. CASE Proceed
  BY <1>5, ProceedIsOnward
<1>6. QED
  BY <1>2, <1>3, <1>4, <1>5 DEF Interpret

\* A step that is seen by nobody, or after which the caller has the answer.
Keeps == Served' /\ (Promise!Next \/ UNCHANGED Promise!svars)

LEMMA OnwardKeeps ==
  ASSUME IInv, Types', Served, ~Idle, Onward, First \notin {"lower", "clear", "spawn", "free"},
         UNCHANGED <<object, is_scanning, scan_queue, sessions, getter>>
  PROVE  Keeps
<1>1. /\ Types /\ Control /\ api.todo # <<>> /\ api'.call = api.call /\ Follows /\ object = "live"
  BY GoesLawfully DEF IInv, Onward, Idle, Control
<1>2. UNCHANGED <<Queued, Waits>>
  BY DEF Queued, Waits
<1>3. CASE Idle'
  <2>1. First \in Asking /\ api.call \in Promise!Settings
    BY <1>1, <1>3, OnwardMeans
  <2>2. ~Constructing /\ ~Constructing' /\ First' = "none"
    BY <1>3, <2>1 DEF Constructing, Promise!Settings, First, Idle
  <2>3. Served'
    BY <1>1, <1>2, <1>3, <2>2 DEF Served, Stopping
  <2>4. Phase' = Phase
    BY <2>2 DEF Phase, Constructing
  <2>5. Promise!Configured
    <3>1. (api'.errors > 0) \in BOOLEAN
      OBVIOUS
    <3>2. Failed' \in BOOLEAN /\ Doing = api.call /\ Doing' = "none"
      BY <1>3, <3>1 DEF Failed, Doing
    <3>3. QED
      BY <1>2, <2>1, <2>4, <3>2 DEF Promise!Configured, Promise!End, Doing, Failed, Queued, Waits
  <2>6. QED
    BY <2>3, <2>5 DEF Keeps, Promise!Next
<1>4. CASE ~Idle'
  <2>1. Means(api.call, ToDo')
    BY <1>1, <1>4, OnwardMeans
  <2>2. Constructing' <=> Constructing
    BY <1>1, <1>4 DEF Constructing
  <2>3. First' # "spawn"
    BY <1>1 DEF Follows, MayFollow
  <2>4. First' \in Stopping \ {"free"} => First \in Stopping \ {"free"}
    BY <1>1 DEF Follows, MayFollow, Stopping
  <2>5. Served'
    BY <1>1, <1>2, <2>1, <2>2, <2>3, <2>4 DEF Served, Onward
  <2>6. UNCHANGED Promise!svars
    BY <1>1, <1>4, Unseen
  <2>7. QED
    BY <2>5, <2>6 DEF Keeps
<1>5. QED
  BY <1>3, <1>4

LEMMA CutShortKeeps ==
  ASSUME IInv, Types', Served, ~Idle, CutShort,
         UNCHANGED <<object, is_scanning, scan_queue, sessions, getter>>
  PROVE  Keeps
<1>1. /\ Types /\ Control /\ api'.call = api.call /\ object = "live"
      /\ api.call \in {"construct", "stop", "destruct"}
  <2>1. First \in ToDo /\ First \in {"DX1", "flush", "DX2"} /\ Means(api.call, ToDo)
    BY ToDoIs DEF CutShort, Served, IInv
  <2>2. api.call \in {"construct", "stop", "destruct"}
    BY <2>1 DEF Means, Asking, Starting
  <2>3. QED
    BY <2>2 DEF IInv, CutShort, Control, Idle
<1>2. UNCHANGED <<Queued, Waits>>
  BY DEF Queued, Waits
<1>3. CASE api.call = "destruct"
  <2>1. api'.todo = <<"free">> /\ Len(<<"free">>) = 1 /\ <<"free">>[1] = "free" /\ <<"free">> # <<>>
    BY <1>3 DEF CutShort
  <2>2. First' = "free" /\ ToDo' = {"free"} /\ ~Idle'
    BY <2>1 DEF First, Step, ToDo, Idle
  <2>3. Means(api'.call, ToDo') /\ ~Constructing'
    BY <1>1, <1>3, <2>2 DEF Means, Stopping, Constructing
  <2>4. Served'
    BY <1>1, <1>2, <2>2, <2>3 DEF Served
  <2>5. UNCHANGED Promise!svars
    BY <1>1, <2>2, Unseen
  <2>6. QED
    BY <2>4, <2>5 DEF Keeps
<1>4. CASE api.call # "destruct"
  <2>1. Idle' /\ First' = "none" /\ Failed' /\ ~Constructing' /\ Doing' = "none" /\ Doing = api.call
    BY <1>4 DEF CutShort, Idle, First, Failed, Constructing, Doing
  <2>2. Served'
    BY <1>1, <1>2, <2>1 DEF Served, Stopping
  <2>3. Phase' = IF is_scanning THEN "scanning" ELSE "idle"
    BY <1>1, <2>1 DEF Phase, Constructing
  <2>4. CASE api.call = "construct"
    <3>1. is_scanning
      BY <2>4 DEF Served, Constructing
    <3>2. Promise!Constructed
      BY <1>2, <2>1, <2>3, <2>4, <3>1
         DEF Promise!Constructed, Promise!End, Doing, Failed, Queued, Waits
    <3>3. QED
      BY <2>2, <3>2 DEF Keeps, Promise!Next
  <2>5. CASE api.call = "stop"
    <3>1. Phase = IF is_scanning THEN "scanning" ELSE "idle"
      BY <1>1, <2>5 DEF Phase
    <3>2. Promise!Stopped
      BY <1>2, <2>1, <2>3, <2>5, <3>1
         DEF Promise!Stopped, Promise!End, Doing, Failed, Queued, Waits
    <3>3. QED
      BY <2>2, <3>2 DEF Keeps, Promise!Next
  <2>6. QED
    BY <1>1, <1>4, <2>4, <2>5
<1>5. QED
  BY <1>3, <1>4

\* The steps of a call.
LEMMA LowerIsPromised == ASSUME IInv, Types', Served, LowerScanning PROVE Keeps
<1>1. /\ Types /\ Control /\ ~Idle /\ First = "lower" /\ Proceed /\ is_scanning' = FALSE
      /\ UNCHANGED <<object, scan_queue, sessions, getter>> /\ object = "live" /\ api.errors = 0
  BY DEF LowerScanning, AtStep, First, Idle, IInv, Control, Served, Stopping
<1>2. Onward /\ Further /\ api'.call = api.call /\ api'.errors = 0
  BY <1>1, ProceedIsOnward DEF Onward, Stopping
<1>3. UNCHANGED <<Queued, Waits>>
  BY <1>1 DEF Queued, Waits
<1>4. First' \in {"none", "free"}
  <2>1. Follows
    BY <1>1, <1>2, GoesLawfully DEF Onward, Idle
  <2>2. QED
    BY <1>1, <2>1 DEF Follows, MayFollow, Aborted
<1>5. CASE Idle'
  <2>1. api.call \in {"construct", "stop"}
    BY <1>1, <1>2, <1>5, OnwardMeans DEF Asking
  <2>2. ~Constructing' /\ Doing = api.call /\ Doing' = "none" /\ ~Failed'
    BY <1>1, <1>2, <1>5 DEF Constructing, Doing, Failed
  <2>3. Phase' = "idle"
    BY <1>1, <2>2 DEF Phase, Constructing
  <2>4. Served'
    BY <1>1, <1>4, <1>5, <2>2 DEF Served, Stopping
  <2>5. CASE api.call = "construct"
    <3>1. Promise!Constructed
      BY <1>1, <1>3, <2>2, <2>3, <2>5
         DEF Promise!Constructed, Promise!End, Doing, Failed, Queued, Waits
    <3>2. QED
      BY <2>4, <3>1 DEF Keeps, Promise!Next
  <2>6. CASE api.call = "stop"
    <3>1. Promise!Stopped
      BY <1>1, <1>3, <2>2, <2>3, <2>6
         DEF Promise!Stopped, Promise!End, Doing, Failed, Queued, Waits
    <3>2. QED
      BY <2>4, <3>1 DEF Keeps, Promise!Next
  <2>7. QED
    BY <2>1, <2>5, <2>6
<1>6. CASE ~Idle'
  <2>1. api.call = "destruct" /\ Means(api'.call, ToDo')
    BY <1>1, <1>2, <1>6, OnwardMeans
  <2>2. ~Constructing /\ ~Constructing' /\ First' = "free"
    <3>1. First' = "free"
      BY <1>1, <1>2, <1>6, TodoFurther DEF Idle, MayFollow
    <3>2. QED
      BY <1>2, <2>1, <3>1 DEF Constructing
  <2>3. Phase' = "idle" /\ Phase = IF is_scanning THEN "scanning" ELSE "idle"
    BY <1>1, <2>2 DEF Phase, Constructing
  <2>4. Served'
    BY <1>1, <2>1, <2>2 DEF Served
  <2>5. Doing' = "destruct" /\ Doing = "destruct" /\ Failed' = Failed
    BY <1>1, <1>2, <1>6, <2>1 DEF Doing, Failed
  <2>6. CASE is_scanning
    <3>1. Promise!Quiet
      BY <1>1, <1>3, <2>3, <2>5, <2>6 DEF Promise!Quiet, Doing, Failed, Queued, Waits
    <3>2. QED
      BY <2>4, <3>1 DEF Keeps, Promise!Next
  <2>7. CASE ~is_scanning
    <3>1. UNCHANGED Promise!svars
      BY <1>1, <1>3, <2>3, <2>5, <2>7, Seen
    <3>2. QED
      BY <2>4, <3>1 DEF Keeps
  <2>8. QED
    BY <2>6, <2>7
<1>7. QED
  BY <1>5, <1>6

LEMMA ClearIsPromised == ASSUME IInv, Types', Served, ClearQueue PROVE Keeps
<1>1. /\ Types /\ Control /\ ~Idle /\ First = "clear" /\ Proceed /\ scan_queue' = <<>>
      /\ UNCHANGED <<object, is_scanning, sessions, getter>> /\ object = "live"
  BY DEF ClearQueue, AtStep, First, Idle, IInv, Control
<1>2. Onward /\ api'.call = api.call
  BY <1>1, ProceedIsOnward DEF Onward
<1>3. api.call = "start"
  <2>1. First \in ToDo /\ Means(api.call, ToDo)
    BY <1>1, ToDoIs DEF Served
  <2>2. QED
    BY <1>1, <2>1 DEF Means, Stopping, Asking
<1>4. ~Idle' /\ Means(api.call, ToDo')
  BY <1>1, <1>2, OnwardMeans DEF Asking
<1>5. First' = "spawn"
  <2>1. Follows
    BY <1>1, <1>2, GoesLawfully DEF Onward, Idle
  <2>2. QED
    BY <1>1, <2>1 DEF Follows, MayFollow, Aborted, Unfinished
<1>6. Queued' = {} /\ Waits' = Waits
  BY <1>1 DEF Queued, Waits
<1>7. Served'
  BY <1>1, <1>2, <1>3, <1>4, <1>5, <1>6 DEF Served, Constructing, Stopping
<1>8. Phase' = Phase /\ Doing = "start" /\ Doing' = "start" /\ Failed' = Failed
  BY <1>1, <1>2, <1>3, <1>4 DEF Phase, Doing, Failed
<1>9. Promise!Forget
  BY <1>1, <1>6, <1>8 DEF Promise!Forget, Doing, Failed, Queued, Waits
<1>10. QED
  BY <1>7, <1>9 DEF Keeps, Promise!Next

LEMMA SpawnIsPromised == ASSUME IInv, Types', Served, SpawnWorker PROVE Keeps
<1>1. /\ Types /\ Control /\ ~Idle /\ First = "spawn" /\ scan_queue = <<>>
      /\ is_scanning' = TRUE /\ sessions' = sessions + 1
      /\ UNCHANGED <<object, scan_queue, getter>> /\ object = "live"
  BY DEF SpawnWorker, AtStep, First, Idle, IInv, Control, Served
<1>2. Onward /\ api'.call = api.call
  BY <1>1, SpawnIsOnward DEF Onward
<1>3. Idle' /\ api.call = "start"
  BY <1>1, <1>2, OnwardMeans DEF Asking
<1>4. Queued = {} /\ Queued' = {} /\ Waits' = Waits /\ First' = "none" /\ ~Constructing'
  BY <1>1, <1>3 DEF Queued, Waits, First, Idle, Constructing
<1>5. Served'
  BY <1>1, <1>3, <1>4 DEF Served, Stopping
<1>6. Phase' = "scanning" /\ Doing = "start" /\ Doing' = "none" /\ Failed' \in BOOLEAN
  <2>1. (api'.errors > 0) \in BOOLEAN
    OBVIOUS
  <2>2. QED
    BY <1>1, <1>3, <1>4, <2>1 DEF Phase, Constructing, Doing, Failed
<1>7. Promise!Started
  BY <1>1, <1>4, <1>6 DEF Promise!Started, Promise!End, Doing, Failed, Queued, Waits
<1>8. QED
  BY <1>5, <1>7 DEF Keeps, Promise!Next

LEMMA FreeIsPromised == ASSUME IInv, Types', Served, FreeDevice PROVE Keeps
<1>1. /\ Types /\ Control /\ ~Idle /\ First = "free" /\ Proceed /\ object' = "freed"
      /\ UNCHANGED <<is_scanning, scan_queue, sessions, getter>> /\ object = "live"
  BY DEF FreeDevice, AtStep, First, Idle, IInv, Control
<1>2. Onward /\ api'.call = api.call
  BY <1>1, ProceedIsOnward DEF Onward
<1>3. Idle' /\ api.call = "destruct"
  BY <1>1, <1>2, OnwardMeans DEF Asking
<1>4. UNCHANGED <<Queued, Waits>> /\ First' = "none" /\ ~Constructing'
  BY <1>1, <1>3 DEF Queued, Waits, First, Idle, Constructing
<1>5. Served'
  BY <1>1, <1>3, <1>4 DEF Served, Stopping
<1>6. Phase' = "freed" /\ Doing = "destruct" /\ Doing' = "none" /\ Failed' \in BOOLEAN
  <2>1. (api'.errors > 0) \in BOOLEAN
    OBVIOUS
  <2>2. QED
    BY <1>1, <1>3, <1>4, <2>1 DEF Phase, Constructing, Doing, Failed
<1>7. Promise!Destructed
  BY <1>1, <1>4, <1>6 DEF Promise!Destructed, Promise!End, Doing, Failed, Queued, Waits
<1>8. QED
  BY <1>5, <1>7 DEF Keeps, Promise!Next

LEMMA ApiStepIsPromised == ASSUME IInv, Types', Served, ApiStep PROVE Keeps
<1>1. CASE RaiseFlag
  <2>1. /\ ~Idle /\ First = "raise" /\ Proceed
        /\ UNCHANGED <<object, is_scanning, scan_queue, sessions, getter>>
    BY <1>1 DEF RaiseFlag, AtStep, First, Idle
  <2>2. Onward
    BY <2>1, ProceedIsOnward DEF IInv
  <2>3. QED
    BY <2>1, <2>2, OnwardKeeps
<1>2. CASE Flush
  <2>1. /\ ~Idle /\ First = "flush" /\ (Proceed \/ Fail)
        /\ UNCHANGED <<object, is_scanning, scan_queue, sessions, getter>>
    BY <1>2 DEF Flush, AtStep, First, Idle, deviceVars
  <2>2. Onward \/ CutShort
    BY <2>1, ProceedIsOnward, FailEnds DEF IInv
  <2>3. QED
    BY <2>1, <2>2, OnwardKeeps, CutShortKeeps
<1>3. ASSUME AtCommand, UNCHANGED <<deviceVars, getter>>
      PROVE  /\ ~Idle /\ First \in Asking \cup {"DX1", "DX2"}
             /\ UNCHANGED <<object, is_scanning, scan_queue, sessions, getter>>
             /\ Onward \/ CutShort => Keeps
             /\ api'.todo = api.todo /\ api'.call = api.call /\ api'.errors = api.errors => Keeps
  <2>1. /\ ~Idle /\ First \in Asking \cup {"DX1", "DX2"}
        /\ UNCHANGED <<object, is_scanning, scan_queue, sessions, getter>>
    BY <1>3, CommandOfFirst DEF deviceVars, Idle
  <2>2. Onward \/ CutShort => Keeps
    BY <2>1, OnwardKeeps, CutShortKeeps DEF Asking
  <2>3. ASSUME api'.todo = api.todo, api'.call = api.call, api'.errors = api.errors PROVE Keeps
    <3>1. First' = First /\ ToDo' = ToDo /\ (Idle' <=> Idle)
      BY <2>3 DEF First, Step, ToDo, Idle
    <3>2. UNCHANGED Promise!svars
      BY <2>1, <2>3, <3>1, Unseen
    <3>3. Served'
      BY <2>1, <2>3, <3>1 DEF Served, Constructing, Queued
    <3>4. QED
      BY <3>2, <3>3 DEF Keeps
  <2>4. QED
    BY <2>1, <2>2, <2>3
<1>4. CASE write_command
  <2>1. /\ AtCommand /\ UNCHANGED <<deviceVars, getter>>
        /\ \/ Proceed \/ Fail
           \/ \E p \in {"sleep", "read"} : api' = [api EXCEPT !.phase = p]
    BY <1>4 DEF write_command
  <2>2. CASE Proceed \/ Fail
    BY <1>3, <2>1, <2>2, ProceedIsOnward, FailEnds DEF IInv, Asking
  <2>3. CASE \E p \in {"sleep", "read"} : api' = [api EXCEPT !.phase = p]
    BY <1>3, <2>1, <2>3 DEF IInv, Types, ApiState
  <2>4. QED
    BY <2>1, <2>2, <2>3
<1>5. CASE SleepEnds
  <2>1. AtCommand /\ UNCHANGED <<deviceVars, getter>> /\ api' = [api EXCEPT !.phase = "read"]
    <3>1. api.phase = "sleep" /\ First = "DX1" /\ Control /\ Types
      BY <1>5 DEF SleepEnds, IInv, Control
    <3>2. AtCommand
      BY <3>1, CommandsOfSteps DEF First, AtCommand
    <3>3. QED
      BY <1>5, <3>2 DEF SleepEnds
  <2>2. QED
    BY <1>3, <2>1 DEF IInv, Types, ApiState
<1>6. CASE read_response
  <2>1. PICK bytes :
          /\ AtCommand /\ UNCHANGED <<deviceVars, getter>>
          /\ FailRead \/ Interpret(bytes[1][2]) \/ api' = [api EXCEPT !.got = bytes]
    BY <1>6 DEF read_response
  <2>2. CASE FailRead \/ Interpret(bytes[1][2])
    BY <1>3, <2>1, <2>2, FailReadEnds, InterpretEnds DEF IInv, Asking
  <2>3. CASE api' = [api EXCEPT !.got = bytes]
    BY <1>3, <2>1, <2>3 DEF IInv, Types, ApiState
  <2>4. QED
    BY <2>1, <2>2, <2>3
<1>7. QED
  BY <1>1, <1>2, <1>4, <1>5, <1>6, LowerIsPromised, ClearIsPromised, SpawnIsPromised,
     FreeIsPromised DEF ApiStep

\* The calls.
Steps(plan) == {plan[i] : i \in 1 .. Len(plan)}

LEMMA StopMeans ==
  /\ \A call \in {"construct", "stop"} : Means(call, Steps(StopSteps))
  /\ Means("destruct", Steps(Append(StopSteps, "free")))
<1>1. /\ Len(StopSteps) = 5 /\ StopSteps[1] = "raise" /\ StopSteps[2] = "DX1"
      /\ StopSteps[3] = "flush" /\ StopSteps[4] = "DX2" /\ StopSteps[5] = "lower"
  BY DEF StopSteps
<1>2. Steps(StopSteps) \subseteq Stopping \ {"free"}
  <2>1. \A i \in 1 .. 5 : StopSteps[i] \in Stopping \ {"free"}
    BY <1>1 DEF Stopping
  <2>2. QED
    BY <1>1, <2>1 DEF Steps
<1>3. "lower" \in Steps(StopSteps)
  BY <1>1 DEF Steps
<1>4. Steps(Append(StopSteps, "free")) \subseteq Stopping
  BY DestructPlan DEF Plan, Steps
<1>5. "free" \in Steps(Append(StopSteps, "free"))
  <2>1. PICK q \in Seq(StepNames) : q = StopSteps
    BY StopPlan DEF Plan
  <2>2. PICK e \in StepNames : e = "free"
    BY DEF StepNames, Stopping
  <2>3. PICK p : p = Append(q, e)
    OBVIOUS
  <2>4. /\ Len(Append(q, e)) = Len(q) + 1 /\ Append(q, e)[Len(q) + 1] = e
    OBVIOUS
  <2>5. Len(q) + 1 = 6
    <3>1. Len(q) = 5
      BY <1>1, <2>1
    <3>2. QED
      BY <3>1
  <2>6. Len(p) = 6 /\ p[6] = "free"
    BY <2>2, <2>3, <2>4, <2>5
  <2>7. "free" \in Steps(p)
    BY <2>6 DEF Steps
  <2>8. QED
    BY <2>1, <2>2, <2>3, <2>7
<1>6. QED
  BY <1>2, <1>3, <1>4, <1>5 DEF Means

LEMMA AskMeans ==
  /\ Means("start", Steps(StartSteps))
  /\ Means("set_motor_speed", Steps(<<"wait", "MS">>))
  /\ \A cmd \in Requests : Means(cmd, Steps(<<cmd>>)) /\ cmd \in Promise!Settings
<1>1. "spawn" \in Steps(StartSteps)
  <2>1. Len(StartSteps) = 5 /\ StartSteps[5] = "spawn"
    BY DEF StartSteps
  <2>2. QED
    BY <2>1 DEF Steps
<1>2. Steps(StartSteps) \subseteq Asking \cup Starting
  BY StartPlan DEF Plan, Steps
<1>3. Steps(<<"wait", "MS">>) \subseteq Asking
  BY SpeedPlan DEF Plan, Steps
<1>4. ASSUME NEW cmd \in Requests PROVE Steps(<<cmd>>) \subseteq Asking /\ cmd \in Promise!Settings
  BY RequestPlan, DeviceAssumption DEF Plan, Steps, Promise!Settings
<1>5. QED
  BY <1>1, <1>2, <1>3, <1>4 DEF Means, Promise!Settings

LEMMA CallIsPromised ==
  ASSUME IInv, Types', Served, NEW name \in Calls \ {"none"}, NEW steps, NEW kind,
         Plan(steps, kind), steps[1] # "spawn", NEW hz \in 0 .. 10, Call(name, steps, hz),
         Means(name, Steps(steps)), object' = "live", UNCHANGED <<scan_queue, sessions, getter>>,
         \/ name = "construct" /\ object = "none" /\ is_scanning' = TRUE
         \/ /\ name # "construct" /\ object = "live" /\ is_scanning' = is_scanning
            /\ name \in Promise!Settings \cup {"start"} => ~is_scanning
            /\ name = "destruct" => getter = "idle"
  PROVE  Keeps
<1>1. Types /\ Control /\ First' = steps[1] /\ Idle /\ ~Idle'
  BY CallStarts DEF IInv, Started, Idle
<1>2. api'.call = name /\ api'.todo = steps /\ api'.errors = 0
  BY DEF Call, IInv, Types, ApiState
<1>3. ToDo' = Steps(steps)
  BY <1>2 DEF ToDo, Steps
<1>4. UNCHANGED <<Queued, Waits>> /\ ~Constructing /\ (Constructing' <=> name = "construct")
  BY <1>1, <1>2 DEF Queued, Waits, Constructing
<1>5. name = "construct" => sessions = 0 /\ Queued = {} /\ scan_queue = <<>>
  BY <1>1, QueuedIs DEF Served
<1>6. Served'
  BY <1>1, <1>2, <1>3, <1>4, <1>5 DEF Served
<1>7. Phase' = Phase
  BY <1>1, <1>4 DEF Phase, Constructing
<1>8. Promise!Allowed(name)
  <2>1. CASE name = "construct"
    BY <2>1 DEF Promise!Allowed, Phase, Promise!Settings
  <2>2. CASE name # "construct"
    <3>1. Phase = IF is_scanning THEN "scanning" ELSE "idle"
      BY <1>1, <2>2 DEF Phase
    <3>2. CASE name \in Promise!Settings \cup {"start"}
      BY <2>2, <3>1, <3>2 DEF Promise!Allowed, Promise!Settings
    <3>3. CASE name = "stop"
      BY <2>2, <3>1, <3>3 DEF Promise!Allowed, Promise!Settings
    <3>4. CASE name = "destruct"
      BY <2>2, <3>1, <3>4 DEF Promise!Allowed, Promise!Settings
    <3>5. QED
      BY <2>2, <3>2, <3>3, <3>4 DEF Means
  <2>3. QED
    BY <2>1, <2>2
<1>9. Doing = "none" /\ Doing' = name /\ Failed' = FALSE
  BY <1>1, <1>2 DEF Doing, Failed
<1>10. Promise!Begin(name)
  BY <1>4, <1>7, <1>8, <1>9 DEF Promise!Begin, Doing, Failed, Queued, Waits
<1>11. name \in Promise!Settings \cup {"construct", "start", "stop", "destruct"}
  BY DEF Means
<1>12. QED
  BY <1>6, <1>10, <1>11 DEF Keeps, Promise!Next

LEMMA ApiCallIsPromised == ASSUME IInv, Types', Served, plugged, ApiCall PROVE Keeps
<1>1. CASE sweep_device_construct
  BY <1>1, StopPlan, StopMeans, CallIsPromised DEF sweep_device_construct, Calls
<1>2. CASE sweep_device_stop_scanning
  <2>1. UNCHANGED <<object, is_scanning, scan_queue, sessions, getter>>
    BY <1>2 DEF sweep_device_stop_scanning, deviceVars
  <2>2. QED
    BY <1>2, <2>1, StopPlan, StopMeans, CallIsPromised
       DEF sweep_device_stop_scanning, Calls, Promise!Settings
<1>3. CASE sweep_device_destruct
  <2>1. UNCHANGED <<object, is_scanning, scan_queue, sessions, getter>>
    BY <1>3 DEF sweep_device_destruct, deviceVars
  <2>2. PICK steps : steps = Append(StopSteps, "free")
    OBVIOUS
  <2>3. /\ Plan(steps, Stopping) /\ steps[1] = "raise" /\ Means("destruct", Steps(steps))
        /\ Call("destruct", steps, 0) /\ object = "live" /\ getter = "idle"
    BY <1>3, <2>2, DestructPlan, StopMeans DEF sweep_device_destruct
  <2>4. QED
    BY <2>1, <2>3, CallIsPromised DEF Calls, Promise!Settings
<1>4. CASE sweep_device_start_scanning
  <2>1. UNCHANGED <<object, is_scanning, scan_queue, sessions, getter>>
    BY <1>4 DEF sweep_device_start_scanning, deviceVars
  <2>2. QED
    BY <1>4, <2>1, StartPlan, AskMeans, CallIsPromised DEF sweep_device_start_scanning, Calls
<1>5. ASSUME NEW hz \in Speeds, sweep_device_set_motor_speed(hz) PROVE Keeps
  <2>1. /\ UNCHANGED <<object, is_scanning, scan_queue, sessions, getter>> /\ hz \in 0 .. 10
        /\ object = "live" /\ ~is_scanning /\ Call("set_motor_speed", <<"wait", "MS">>, hz)
    BY <1>5, LineAssumption DEF sweep_device_set_motor_speed
  <2>2. PICK steps : steps = <<"wait", "MS">>
    OBVIOUS
  <2>3. /\ Plan(steps, Asking) /\ steps[1] = "wait" /\ Means("set_motor_speed", Steps(steps))
        /\ Call("set_motor_speed", steps, hz)
    BY <2>1, <2>2, SpeedPlan, AskMeans
  <2>4. QED
    BY <2>1, <2>3, CallIsPromised DEF Calls
<1>6. ASSUME NEW cmd \in Requests, Request(cmd) PROVE Keeps
  <2>1. /\ UNCHANGED <<object, is_scanning, scan_queue, sessions, getter>>
        /\ object = "live" /\ ~is_scanning
        /\ cmd \in Calls \ {"none", "construct", "destruct"} /\ cmd # "spawn"
    BY <1>6, DeviceAssumption DEF Request, deviceVars, Calls
  <2>2. PICK steps : steps = <<cmd>>
    OBVIOUS
  <2>3. /\ Plan(steps, Asking) /\ steps[1] = cmd /\ Means(cmd, Steps(steps))
        /\ Call(cmd, steps, 0)
    BY <1>6, <2>2, RequestPlan, AskMeans DEF Request
  <2>4. QED
    BY <2>1, <2>3, CallIsPromised
<1>7. QED
  BY <1>1, <1>2, <1>3, <1>4, <1>5, <1>6
     DEF ApiCall, ConstructFails, Request, sweep_device_get_motor_ready, sweep_device_get_motor_speed,
         sweep_device_get_sample_rate, sweep_device_set_sample_rate, sweep_device_reset

\* The workers, the reader and the sensor.
LEMMA EnqueueQueues ==
  ASSUME Types, NEW w \in Sessions, NEW what \in {"scan", "error"}, Enqueue(w, what)
  PROVE  Queued' \subseteq Queued \cup {w} /\ w \in Queued' /\ scan_queue' # <<>>
<1> DEFINE S == [session : Sessions, what : {"scan", "error"}]
<1>1. PICK q \in Seq(S) : q = scan_queue
  BY DEF Types, TypeOK
<1>2. PICK e \in S : e = [session |-> w, what |-> what] /\ e.session = w
  <2>1. [session |-> w, what |-> what] \in S /\ [session |-> w, what |-> what].session = w
    OBVIOUS
  <2>2. QED
    BY <2>1
<1> HIDE DEF S
<1>3. PICK rest \in Seq(S) :
        /\ scan_queue' = Append(rest, e)
        /\ \A i \in 1 .. Len(rest) : \E j \in 1 .. Len(q) : rest[i] = q[j]
  <2>1. CASE Len(q) >= MaxSize
    <3>1. q # <<>>
      <4>1. PICK n, m \in Nat : n = Len(q) /\ m = MaxSize /\ m # 0
        BY DeviceAssumption
      <4>2. n # 0
        BY <2>1, <4>1
      <4>3. QED
        BY <4>1, <4>2
    <3>2. /\ Tail(q) \in Seq(S) /\ Len(Tail(q)) = Len(q) - 1
          /\ \A i \in 1 .. Len(Tail(q)) : i + 1 \in 1 .. Len(q) /\ Tail(q)[i] = q[i + 1]
      BY <3>1
    <3>3. scan_queue' = Append(Tail(q), e)
      BY <1>1, <1>2, <2>1 DEF Enqueue
    <3>4. QED
      BY <3>2, <3>3
  <2>2. CASE ~(Len(q) >= MaxSize)
    <3>1. scan_queue' = Append(q, e)
      BY <1>1, <1>2, <2>2 DEF Enqueue
    <3>2. QED
      BY <3>1
  <2>3. QED
    BY <2>1, <2>2
<1>4. PICK n \in Nat : n = Len(rest)
  OBVIOUS
<1>5. PICK p \in Seq(S) : p = scan_queue' /\ Len(p) = n + 1 /\ p[n + 1] = e
                          /\ \A i \in 1 .. n : p[i] = rest[i]
  <2>1. /\ Append(rest, e) \in Seq(S) /\ Len(Append(rest, e)) = Len(rest) + 1
        /\ Append(rest, e)[Len(rest) + 1] = e
        /\ \A i \in 1 .. Len(rest) : Append(rest, e)[i] = rest[i]
    OBVIOUS
  <2>2. QED
    BY <1>3, <1>4, <2>1
<1>6. Queued' = {p[i].session : i \in 1 .. n + 1} /\ n + 1 \in 1 .. n + 1
  BY <1>4, <1>5 DEF Queued
<1>7. ASSUME NEW i \in 1 .. n + 1 PROVE p[i].session \in Queued \cup {w}
  <2>1. CASE i = n + 1
    BY <1>2, <1>5, <2>1
  <2>2. CASE i # n + 1
    <3>1. i \in 1 .. n
      BY <2>2
    <3>2. PICK j \in 1 .. Len(q) : p[i] = q[j]
      BY <1>3, <1>4, <1>5, <3>1
    <3>3. QED
      BY <1>1, <3>2 DEF Queued
  <2>3. QED
    BY <2>1, <2>2
<1>8. w \in Queued'
  BY <1>2, <1>5, <1>6
<1>9. p # <<>>
  BY <1>5
<1>10. QED
  BY <1>5, <1>6, <1>7, <1>8, <1>9

LEMMA WorkerIsPromised ==
  ASSUME IInv, Grace, plugged, Served, NEW w \in Sessions, WorkerStep(w) PROVE Keeps
<1>1. /\ Types /\ Control /\ Works(w) /\ Types' /\ Workers
      /\ UNCHANGED <<object, is_scanning, sessions, api, getter>>
  BY WorkerDoes DEF IInv, Talk, Works
<1>2. UNCHANGED scan_queue \/ \E what \in {"scan", "error"} : Enqueue(w, what)
  BY DEF WorkerStep, WorkerBegins, WorkerTests, WorkerReadsPart, WorkerReadsPacket, WorkerFills,
         WorkerCompletesScan, WorkerReadsGarbage, WorkerLosesPort
<1>3. w = sessions /\ is_scanning /\ object = "live" /\ ~Constructing
  <2>1. w = sessions /\ is_scanning /\ object # "freed"
    BY <1>1 DEF Workers, Works
  <2>2. sessions # 0
    BY <2>1 DEF Sessions
  <2>3. QED
    BY <1>1, <2>1, <2>2 DEF Served, Types, TypeOK
<1>4. Phase = "scanning" /\ UNCHANGED <<Phase, Doing, Failed, Waits>> /\ (Constructing' <=> Constructing)
  <2>1. Phase = "scanning"
    BY <1>3 DEF Phase, Constructing
  <2>2. UNCHANGED <<Phase, Doing, Failed, Waits>> /\ (Constructing' <=> Constructing)
    BY <1>1 DEF Phase, Doing, Failed, Waits, Constructing, Idle
  <2>3. QED
    BY <2>1, <2>2
<1>5. First' = First /\ ToDo' = ToDo /\ (Idle' <=> Idle)
  BY <1>1 DEF First, Step, ToDo, Idle
<1>6. First # "spawn"
  BY <1>1, <1>3, FirstIsOne DEF Control, First, Starting
<1>7. CASE UNCHANGED scan_queue
  <2>1. Served'
    BY <1>1, <1>4, <1>5, <1>7 DEF Served, Queued
  <2>2. UNCHANGED Promise!svars
    BY <1>1, <1>4, <1>7, Seen DEF Queued
  <2>3. QED
    BY <2>1, <2>2 DEF Keeps
<1>8. CASE \E what \in {"scan", "error"} : Enqueue(w, what)
  <2>1. Queued' = {sessions}
    BY <1>1, <1>3, <1>8, EnqueueQueues DEF Served
  <2>2. Served'
    BY <1>1, <1>3, <1>4, <1>5, <1>6, <2>1 DEF Served
  <2>3. Promise!Offer
    BY <1>1, <1>4, <2>1 DEF Promise!Offer, Doing, Failed, Queued, Waits
  <2>4. QED
    BY <2>2, <2>3 DEF Keeps, Promise!Next
<1>9. QED
  BY <1>2, <1>7, <1>8

LEMMA ReaderIsPromised ==
  ASSUME IInv, Types', Served, GetScan \/ GetterTakes PROVE Keeps
<1>1. UNCHANGED <<object, is_scanning, sessions, api>> /\ Types /\ Control
  BY DEF GetScan, GetterTakes, deviceVars, IInv
<1>2. /\ UNCHANGED <<Phase, Doing, Failed>> /\ (Constructing' <=> Constructing)
      /\ First' = First /\ ToDo' = ToDo /\ (Idle' <=> Idle)
  BY <1>1 DEF Phase, Doing, Failed, Constructing, Idle, First, Step, ToDo
<1>3. CASE GetScan
  <2>1. /\ getter = "idle" /\ object = "live" /\ is_scanning /\ getter' = "waiting"
        /\ (api.call \in {"construct", "destruct"} => Idle) /\ scan_queue' = scan_queue
    BY <1>3 DEF GetScan, deviceVars, Idle
  <2>2. Waits' = {"getter"} /\ Waits = {} /\ Queued' = Queued
    BY <2>1 DEF Waits, Queued
  <2>3. Phase = "scanning" /\ Doing \notin {"construct", "destruct"}
    BY <2>1 DEF Phase, Doing
  <2>4. Served'
    BY <1>1, <1>2, <2>1, <2>2 DEF Served
  <2>5. Promise!Ask("getter")
    BY <1>1, <1>2, <2>2, <2>3 DEF Promise!Ask, Doing, Failed, Queued, Waits
  <2>6. QED
    BY <2>4, <2>5 DEF Keeps, Promise!Next
<1>4. CASE GetterTakes
  <2>1. getter = "waiting" /\ scan_queue # <<>> /\ scan_queue' = Tail(scan_queue) /\ getter' = "idle"
    BY <1>4 DEF GetterTakes
  <2>2. Queued' \subseteq Queued
    <3> DEFINE S == [session : Sessions, what : {"scan", "error"}]
    <3>1. PICK q \in Seq(S) : q = scan_queue /\ q # <<>>
      BY <1>1, <2>1 DEF Types, TypeOK
    <3> HIDE DEF S
    <3>2. \A i \in 1 .. Len(Tail(q)) : i + 1 \in 1 .. Len(q) /\ Tail(q)[i] = q[i + 1]
      BY <3>1
    <3>3. QED
      BY <2>1, <3>1, <3>2 DEF Queued
  <2>3. Queued # {} /\ Waits = {"getter"} /\ Waits' = {}
    BY <1>1, <2>1, QueuedIs DEF Waits
  <2>4. Served'
    BY <1>1, <1>2, <2>1, <2>2 DEF Served
  <2>5. Promise!Deliver("getter")
    BY <1>1, <1>2, <2>2, <2>3 DEF Promise!Deliver, Doing, Failed, Queued, Waits
  <2>6. QED
    BY <2>4, <2>5 DEF Keeps, Promise!Next
<1>5. QED
  BY <1>3, <1>4

LEMMA UnseenKeeps ==
  ASSUME IInv, Served, UNCHANGED <<object, is_scanning, scan_queue, sessions, api, getter>>
  PROVE  Keeps
<1>1. /\ First' = First /\ ToDo' = ToDo /\ (Idle' <=> Idle) /\ Queued' = Queued
      /\ (Constructing' <=> Constructing)
  BY DEF First, Step, ToDo, Idle, Queued, Constructing
<1>2. Served'
  BY <1>1 DEF Served
<1>3. UNCHANGED Promise!svars
  BY <1>1, Unseen
<1>4. QED
  BY <1>2, <1>3 DEF Keeps

LEMMA InitiallyPromised == Init => Served /\ Promise!Init
<1> SUFFICES ASSUME Init PROVE Served /\ Promise!Init
  OBVIOUS
<1>1. /\ Idle /\ First = "none" /\ Queued = {} /\ Phase = "none" /\ Doing = "none" /\ ~Failed
      /\ Waits = {} /\ ~Constructing /\ sessions = 0 /\ scan_queue = <<>> /\ is_scanning = FALSE
  BY DEF Init, Idle, First, Queued, Phase, Doing, Failed, Waits, Constructing
<1>2. Served
  BY <1>1 DEF Served, Stopping
<1>3. Promise!Init
  BY <1>1 DEF Promise!Init, Doing, Failed, Queued, Waits
<1>4. QED
  BY <1>2, <1>3

LEMMA StepIsPromised ==
  IInv /\ IInv' /\ Served /\ Grace /\ plugged /\ [Next]_vars => Served' /\ [Promise!Next]_(Promise!svars)
<1> SUFFICES ASSUME IInv, IInv', Served, Grace, plugged, [Next]_vars PROVE Keeps
  BY DEF Keeps, Promise!svars
<1>1. Types'
  BY DEF IInv
<1>2. CASE Sensor \/ UNCHANGED vars
  BY <1>2, UnseenKeeps DEF Sensor, vars, deviceVars
<1>3. QED
  BY <1>1, <1>2, ApiCallIsPromised, ApiStepIsPromised, WorkerIsPromised, ReaderIsPromised DEF Next

\* A device that is not unplugged keeps the promise of the API in every call and
\* under every reader, as long as the pause of stop_scanning is long enough:
\* whatever the sensor answers, and whether or not it is reset meanwhile.
THEOREM ImplementsSession == Grace => (Spec /\ []plugged => SessionSpec)
<1> SUFFICES ASSUME Grace PROVE Spec /\ []plugged => SessionSpec
  OBVIOUS
<1>1. IInv /\ IInv' /\ Served /\ plugged /\ [Next]_vars => Served' /\ [Promise!Next]_(Promise!svars)
  BY StepIsPromised
<1>2. QED
  BY Inductive, InitiallyPromised, <1>1, PTL DEF Spec, SessionSpec, Promise!Spec

\* Only the sensor's side can end the connection.
LEMMA StaysPlugged == ~MayUnplug => (Spec => []plugged)
<1> SUFFICES ASSUME ~MayUnplug PROVE Spec => []plugged
  OBVIOUS
<1>1. Init => plugged
  BY DEF Init, LineInit
<1>2. IInv /\ plugged /\ [Next]_vars => plugged'
  <2> SUFFICES ASSUME IInv, plugged, [Next]_vars PROVE plugged' = plugged
    OBVIOUS
  <2>1. CASE ApiCall
    BY <2>1 DEF ApiCall, ConstructFails, lineVars, sweep_device_construct, sweep_device_start_scanning,
        sweep_device_stop_scanning, sweep_device_destruct, sweep_device_set_motor_speed, Request,
        sweep_device_get_motor_ready, sweep_device_get_motor_speed, sweep_device_get_sample_rate,
        sweep_device_set_sample_rate, sweep_device_reset
  <2>2. CASE ApiStep
    BY <2>2 DEF ApiStep, lineVars, RaiseFlag, write_command, device_write, SleepEnds, read_response,
        Flush, device_flush, LowerScanning, ClearQueue, SpawnWorker, FreeDevice
  <2>3. CASE \E w \in Sessions : WorkerStep(w)
    BY <2>3, WorkerDoes DEF IInv, Works
  <2>4. CASE GetScan \/ GetterTakes \/ UNCHANGED vars
    BY <2>4 DEF GetScan, GetterTakes, vars, lineVars
  <2>5. CASE Sensor
    BY <2>5 DEF Sensor, SensorNext, Respond, StartPacket, Transmit, Stabilize, Restart, Unplug
  <2>6. QED
    BY <2>1, <2>2, <2>3, <2>4, <2>5 DEF Next
<1>3. QED
  BY Inductive, <1>1, <1>2, PTL DEF Spec

\* In particular where the device cannot be unplugged at all.
THEOREM ImplementsSessionPlugged == Grace /\ ~MayUnplug => (Spec => SessionSpec)
<1> SUFFICES ASSUME Grace, ~MayUnplug PROVE Spec => SessionSpec
  OBVIOUS
<1>1. Spec => []plugged
  BY StaysPlugged
<1>2. Spec /\ []plugged => SessionSpec
  BY ImplementsSession
<1>3. QED
  BY <1>1, <1>2, PTL

-----------------------------------------------------------------------------
(* ---- what the steps do, byte by byte ---- *)

\* The sensor after it has acted on a command, in full.
Obeyed(after, cmd, arg) ==
  LET spins == cmd = "MS" /\ sensor.ready
      polled == cmd = "MZ" /\ ~sensor.ready
  IN  /\ Acted(sensor, after, cmd)
      /\ after.speed = IF spins THEN arg ELSE sensor.speed
      /\ after.ready = IF spins THEN (arg = sensor.speed) ELSE sensor.ready
      /\ after.unready = IF polled THEN sensor.unready + 1 ELSE sensor.unready
      /\ cmd = "DS" => after.streaming = (sensor.streaming \/ Answer(cmd) = 0)

LEMMA ActsInFull ==
  ASSUME sensor \in SensorState, sensor.inbox # <<>>, sensor.sending = <<>>,
         NEW cmd \in Commands, NEW arg \in 0 .. 10,
         cmd = "MZ" /\ ~sensor.ready => sensor.unready < MaxUnready
  PROVE  /\ Obeyed(ActOn(cmd, arg), cmd, arg)
         /\ cmd # "RR" => ActOn(cmd, arg).sending = Bytes(cmd, Answer(cmd))
<1>1. Acted(sensor, ActOn(cmd, arg), cmd)
  BY ActsOn
<1> DEFINE message == Bytes(cmd, Answer(cmd))
           done == [sensor EXCEPT !.inbox = Tail(@), !.sending = message]
<1>2. CASE cmd = "RR"
  <2>1. ActOn(cmd, arg) = [sensor EXCEPT !.inbox = <<>>, !.resetting = TRUE]
    BY <1>2 DEF ActOn
  <2>2. QED
    BY <1>1, <1>2, <2>1 DEF Obeyed, SensorState
<1>3. CASE cmd # "RR"
  <2> HIDE DEF message
  <2>1. /\ done.sending = message /\ done.streaming = sensor.streaming
        /\ done.speed = sensor.speed /\ done.ready = sensor.ready /\ done.unready = sensor.unready
        /\ DOMAIN done = DOMAIN sensor
    BY DEF SensorState
  <2>2. ActOn(cmd, arg) = CASE cmd = "DS" -> [done EXCEPT !.streaming = @ \/ Answer(cmd) = 0]
        [] cmd = "DX" -> [done EXCEPT !.streaming = FALSE]
        [] cmd = "MZ" /\ ~sensor.ready -> [done EXCEPT !.unready = @ + 1]
        [] cmd = "MS" /\ sensor.ready -> [done EXCEPT !.speed = arg,
                                                   !.ready = (arg = sensor.speed)]
        [] cmd = "RR" -> [sensor EXCEPT !.inbox = <<>>, !.resetting = TRUE]
        [] OTHER -> done
    BY DEF ActOn, message
  <2>3. DOMAIN sensor = {"inbox", "sending", "streaming", "speed", "ready", "unready", "trailed", "resetting"}
    BY DEF SensorState
  <2> HIDE DEF done
  <2>4. CASE cmd = "DS"
    <3>1. ActOn(cmd, arg) = [done EXCEPT !.streaming = (done.streaming \/ Answer(cmd) = 0)]
      BY <2>2, <2>4
    <3>2. QED
      BY <1>1, <2>1, <2>3, <2>4, <3>1 DEF Obeyed, message
  <2>5. CASE cmd = "DX"
    <3>1. ActOn(cmd, arg) = [done EXCEPT !.streaming = FALSE]
      BY <2>2, <2>5
    <3>2. QED
      BY <1>1, <2>1, <2>3, <2>5, <3>1 DEF Obeyed, message
  <2>6. CASE cmd = "MZ" /\ ~sensor.ready
    <3>1. ActOn(cmd, arg) = [done EXCEPT !.unready = sensor.unready + 1]
      BY <2>1, <2>2, <2>6
    <3>2. QED
      BY <1>1, <2>1, <2>3, <2>6, <3>1 DEF Obeyed, message
  <2>7. CASE cmd = "MS" /\ sensor.ready
    <3>1. ActOn(cmd, arg) = [done EXCEPT !.speed = arg, !.ready = (arg = sensor.speed)]
      BY <2>2, <2>7
    <3>2. QED
      BY <1>1, <2>1, <2>3, <2>7, <3>1 DEF Obeyed, message
  <2>8. CASE cmd \notin {"DS", "DX"} /\ ~(cmd = "MZ" /\ ~sensor.ready) /\ ~(cmd = "MS" /\ sensor.ready)
    <3>1. ActOn(cmd, arg) = done
      BY <1>3, <2>2, <2>8
    <3>2. QED
      BY <1>1, <1>3, <2>1, <2>8, <3>1 DEF Obeyed, message
  <2>9. QED
    BY <2>4, <2>5, <2>6, <2>7, <2>8
<1>4. QED
  BY <1>2, <1>3

\* What noise makes of a message, as far as checksums hold: something that is not
\* accepted, or a response that has no checksum.
Noisy(bytes) == \A i \in 1 .. Len(bytes) : bytes[i][1] \in {"noise", "MI", "MZ", "LI"}

LEMMA AlteredIsNoisy ==
  ASSUME NEW after \in SensorState, NEW cmd \in Commands, NEW bytes \in Altered(cmd, after.sending),
         ChecksumsHold
  PROVE  Noisy(bytes)
<1> DEFINE n == [i \in DOMAIN after.sending |-> <<"noise", 0, i>>]
<1>1. CASE bytes = n
  <2>1. after.sending \in Seq(Byte)
    BY DEF SensorState
  <2>2. Len(n) = Len(after.sending) /\ DOMAIN after.sending = 1 .. Len(after.sending)
    BY <2>1, Noise
  <2>3. \A i \in 1 .. Len(n) : n[i] = <<"noise", 0, i>>
    BY <2>2
  <2>4. QED
    BY <1>1, <2>3 DEF Noisy
<1>2. CASE \E v \in Misread(cmd) : bytes = Bytes(cmd, v)
  <2>1. PICK v \in Misread(cmd) : bytes = Bytes(cmd, v)
    BY <1>2
  <2>2. v \in Nat /\ cmd \in {"MI", "MZ", "LI"}
    BY DEF Misread
  <2>3. Len(bytes) = Length(cmd)
    BY <2>1, <2>2, Message DEF Responding, Commands
  <2>4. \A i \in 1 .. Length(cmd) : bytes[i] = <<cmd, v, i>>
    BY <2>1 DEF Bytes
  <2>5. QED
    BY <2>2, <2>3, <2>4 DEF Noisy
<1>3. QED
  BY <1>1, <1>2 DEF Altered

\* What the sensor, while it is connected, does in one step.
Responds ==
  /\ sensor.inbox # <<>> /\ sensor.sending = <<>> /\ rx' = rx
  /\ Obeyed(sensor', Waiting(1), sensor.inbox[1][2])
  /\ Waiting(1) # "RR" =>
       \/ sensor'.sending = Bytes(Waiting(1), Answer(Waiting(1)))
       \/ MayCorrupt /\ (ChecksumsHold => Noisy(sensor'.sending))

Begins ==
  /\ sensor.streaming /\ sensor.sending = <<>> /\ rx' = rx
  /\ \E c \in IF MayCorrupt THEN {0, 1} ELSE {0} : sensor'.sending = Bytes("scan", c)
  /\ UNCHANGED <<sensor.inbox, sensor.streaming, sensor.resetting,
                 sensor.speed, sensor.ready, sensor.unready>>

Transmits ==
  /\ sensor.sending # <<>> /\ rx' = Append(rx, Head(sensor.sending))
  /\ sensor'.sending = Tail(sensor.sending)
  /\ UNCHANGED <<sensor.inbox, sensor.streaming, sensor.resetting,
                 sensor.speed, sensor.ready, sensor.unready>>

Stabilizes ==
  /\ rx' = rx /\ sensor'.ready = TRUE
  /\ UNCHANGED <<sensor.inbox, sensor.sending, sensor.streaming, sensor.resetting,
                 sensor.speed, sensor.unready>>

Restarts ==
  /\ rx' = rx /\ sensor.resetting /\ ~sensor'.resetting
  /\ UNCHANGED <<sensor.inbox, sensor.sending, sensor.streaming, sensor.unready>>

LEMMA SensorDoesInFull ==
  ASSUME LineTypes, SensorNext, plugged'
  PROVE  Responds \/ Begins \/ Transmits \/ Stabilizes \/ Restarts
<1>1. /\ sensor.inbox \in Seq(Commands \X (0 .. 10)) /\ sensor.sending \in Seq(Byte)
      /\ sensor \in SensorState
      /\ DOMAIN sensor = {"inbox", "sending", "streaming", "speed", "ready", "unready", "trailed", "resetting"}
  BY DEF LineTypes, SensorState
<1>2. CASE Respond
  <2> DEFINE cmd == Head(sensor.inbox)[1]
             arg == Head(sensor.inbox)[2]
  <2>1. /\ sensor.inbox # <<>> /\ sensor.sending = <<>> /\ UNCHANGED <<rx, plugged>>
        /\ cmd = "MZ" /\ ~sensor.ready => sensor.unready < MaxUnready
        /\ \/ sensor' = ActOn(cmd, arg)
           \/ MayCorrupt /\ \E bytes \in Altered(cmd, ActOn(cmd, arg).sending) :
                              sensor' = [ActOn(cmd, arg) EXCEPT !.sending = bytes]
    BY <1>2 DEF Respond
  <2>2. cmd \in Commands /\ arg \in 0 .. 10 /\ cmd = Waiting(1) /\ arg = sensor.inbox[1][2]
    <3>1. Head(sensor.inbox) = sensor.inbox[1] /\ Head(sensor.inbox) \in Commands \X (0 .. 10)
      BY <1>1, <2>1
    <3>2. QED
      BY <3>1 DEF Waiting
  <2> HIDE DEF cmd, arg
  <2>3. Obeyed(ActOn(cmd, arg), cmd, arg) /\ (cmd # "RR" => ActOn(cmd, arg).sending = Bytes(cmd, Answer(cmd)))
    BY <1>1, <2>1, <2>2, ActsInFull
  <2>4. CASE sensor' = ActOn(cmd, arg)
    BY <2>1, <2>2, <2>3, <2>4 DEF Responds
  <2>5. CASE MayCorrupt /\ \E bytes \in Altered(cmd, ActOn(cmd, arg).sending) :
                             sensor' = [ActOn(cmd, arg) EXCEPT !.sending = bytes]
    <3>1. ActOn(cmd, arg) \in SensorState /\ Acted(sensor, ActOn(cmd, arg), cmd)
      BY <2>3 DEF Obeyed, Acted
    <3> DEFINE acted == ActOn(cmd, arg)
    <3>2. PICK bytes \in Altered(cmd, acted.sending) : sensor' = [acted EXCEPT !.sending = bytes]
      BY <2>5
    <3>3. Acted(sensor, sensor', cmd)
      BY <2>2, <3>1, <3>2, AlteredActs
    <3> HIDE DEF acted
    <3>4. /\ sensor'.speed = acted.speed /\ sensor'.ready = acted.ready /\ sensor'.sending = bytes
          /\ sensor'.unready = acted.unready /\ sensor'.streaming = acted.streaming
      BY <3>1, <3>2 DEF SensorState, acted
    <3>5. ChecksumsHold => Noisy(sensor'.sending)
      BY <2>2, <3>1, <3>2, <3>4, AlteredIsNoisy DEF acted
    <3>6. Obeyed(sensor', cmd, arg)
      BY <2>3, <3>3, <3>4 DEF Obeyed, acted
    <3>7. QED
      BY <2>1, <2>2, <2>5, <3>5, <3>6 DEF Responds
  <2>6. QED
    BY <2>1, <2>4, <2>5
<1>3. CASE StartPacket
  <2>1. PICK c \in IF MayCorrupt THEN {0, 1} ELSE {0} :
          /\ sensor.streaming /\ sensor.sending = <<>> /\ rx' = rx
          /\ sensor' = [sensor EXCEPT !.sending = Bytes("scan", c), !.trailed = TRUE]
    BY <1>3 DEF StartPacket
  <2>2. QED
    BY <1>1, <2>1 DEF Begins
<1>4. CASE Transmit
  BY <1>1, <1>4 DEF Transmit, Transmits
<1>5. CASE Stabilize
  BY <1>1, <1>5 DEF Stabilize, Stabilizes
<1>6. CASE Restart
  <2>1. PICK hz \in Speeds, r \in {MaxUnready = 0, TRUE} :
          sensor' = [sensor EXCEPT !.resetting = FALSE, !.speed = hz, !.ready = r]
    BY <1>6 DEF Restart
  <2>2. sensor.resetting /\ rx' = rx
    BY <1>6 DEF Restart
  <2>3. QED
    BY <1>1, <2>1, <2>2 DEF Restarts
<1>7. CASE Unplug
  BY <1>7 DEF Unplug
<1>8. QED
  BY <1>2, <1>3, <1>4, <1>5, <1>6, <1>7 DEF SensorNext

\* Which byte is where after one read().
LEMMA ReadPlaces ==
  ASSUME NEW got \in Seq(Byte), NEW need \in Nat, Len(got) < need, rx \in Seq(Byte)
  PROVE  LET bytes == Received(got, need)
             after == AfterRead(got, need)
         IN  /\ \A i \in 1 .. Len(got) : bytes[i] = got[i]
             /\ \A i \in 1 .. Len(bytes) : i > Len(got) =>
                  i - Len(got) \in 1 .. Len(rx) /\ bytes[i] = rx[i - Len(got)]
             /\ \A j \in 1 .. Len(after) :
                  j + (Len(bytes) - Len(got)) \in 1 .. Len(rx)
                  /\ after[j] = rx[j + (Len(bytes) - Len(got))]
             /\ Len(bytes) >= Len(got)
<1>1. PICK g, r \in Nat : g = Len(got) /\ r = Len(rx)
  OBVIOUS
<1> DEFINE n == IF Len(rx) < need - Len(got) THEN Len(rx) ELSE need - Len(got)
           bytes == Received(got, need)
           after == AfterRead(got, need)
<1>2. PICK m \in Nat : m = n /\ m <= r
  <2>1. need - g \in Nat /\ n = IF r < need - g THEN r ELSE need - g
    BY <1>1
  <2> HIDE DEF n
  <2>2. n \in Nat /\ n <= r
    BY <2>1
  <2>3. QED
    BY <2>2
<1>3. bytes = got \o SubSeq(rx, 1, m)
  BY <1>2 DEF Received
<1>4. PICK taken \in Seq(Byte) : /\ taken = SubSeq(rx, 1, m) /\ Len(taken) = m
                                 /\ \A i \in 1 .. m : taken[i] = rx[i]
  <2>1. \A i \in 1 .. m : rx[i] \in Byte
    BY <1>1, <1>2
  <2>2. 1 \in Int /\ m \in Int /\ (IF 1 <= m THEN m - 1 + 1 ELSE 0) = m
    OBVIOUS
  <2>3. /\ SubSeq(rx, 1, m) \in Seq(Byte) /\ Len(SubSeq(rx, 1, m)) = m
        /\ \A i \in 1 .. m - 1 + 1 : SubSeq(rx, 1, m)[i] = rx[1 + i - 1]
    BY <2>1, <2>2, SubSeqProperties
  <2>4. m - 1 + 1 = m /\ \A i \in 1 .. m : 1 + i - 1 = i
    OBVIOUS
  <2>5. QED
    BY <2>3, <2>4
<1>5. /\ Len(bytes) = g + m
      /\ \A i \in 1 .. g : bytes[i] = got[i]
      /\ \A i \in g + 1 .. g + m : bytes[i] = taken[i - g]
  <2>1. /\ Len(got \o taken) = Len(got) + Len(taken)
        /\ \A i \in 1 .. Len(got) : (got \o taken)[i] = got[i]
        /\ \A i \in Len(got) + 1 .. Len(got) + Len(taken) : (got \o taken)[i] = taken[i - Len(got)]
    BY ConcatProperties
  <2>2. QED
    BY <1>1, <1>3, <1>4, <2>1
<1>6. after = SubSeq(rx, m + 1, r)
  <2>1. Len(bytes) - Len(got) + 1 = m + 1
    BY <1>1, <1>5
  <2>2. QED
    BY <1>1, <2>1 DEF AfterRead
<1>7. Len(after) = r - m /\ \A j \in 1 .. r - m : after[j] = rx[m + j]
  <2>1. m + 1 \in 1 .. Len(rx) + 1 /\ r \in m .. Len(rx)
    BY <1>1, <1>2
  <2>2. \A i \in 1 .. r : rx[i] \in Byte
    BY <1>1
  <2>3. /\ m + 1 \in Int /\ r \in Int /\ r - (m + 1) + 1 = r - m
        /\ m + 1 <= r \/ r - m = 0
    BY <1>2
  <2>4. \A i \in m + 1 .. r : rx[i] \in Byte
    BY <2>2
  <2>5. /\ Len(SubSeq(rx, m + 1, r)) = r - m
        /\ \A j \in 1 .. r - (m + 1) + 1 : SubSeq(rx, m + 1, r)[j] = rx[(m + 1) + j - 1]
    BY <2>3, <2>4, SubSeqProperties
  <2>6. \A j \in 1 .. r - m : (m + 1) + j - 1 = m + j
    OBVIOUS
  <2>7. QED
    BY <1>6, <2>3, <2>5, <2>6
<1> HIDE DEF bytes, after, n
<1>8. \A i \in 1 .. Len(bytes) : i > Len(got) => i - Len(got) \in 1 .. Len(rx) /\ bytes[i] = rx[i - Len(got)]
  <2> SUFFICES ASSUME NEW i \in 1 .. g + m, i > g
               PROVE  i - g \in 1 .. r /\ bytes[i] = rx[i - g]
    BY <1>1, <1>5
  <2>1. i \in g + 1 .. g + m /\ i - g \in 1 .. m /\ i - g \in 1 .. r
    BY <1>2
  <2>2. QED
    BY <1>4, <1>5, <2>1
<1>9. /\ \A j \in 1 .. Len(after) : j + (Len(bytes) - Len(got)) \in 1 .. Len(rx)
                                    /\ after[j] = rx[j + (Len(bytes) - Len(got))]
  <2> SUFFICES ASSUME NEW j \in 1 .. r - m
               PROVE  j + m \in 1 .. r /\ after[j] = rx[j + m]
    BY <1>1, <1>5, <1>7
  <2>1. j + m \in 1 .. r /\ j + m = m + j
    BY <1>2
  <2>2. QED
    BY <1>7, <2>1
<1>10. QED
  BY <1>1, <1>5, <1>8, <1>9 DEF bytes, after

-----------------------------------------------------------------------------
(* ---- what a call reports is what it did ---- *)

\* What is left of a set_motor_speed, and of a start_scanning.
SpeedTodos == {<<>>, <<"MS">>, <<"wait", "MS">>}
StartTodos == {<<>>, <<"spawn">>, <<"clear", "spawn">>, <<"DS", "clear", "spawn">>,
               <<"wait", "DS", "clear", "spawn">>, <<"MS", "wait", "DS", "clear", "spawn">>,
               <<"wait", "MS", "wait", "DS", "clear", "spawn">>,
               <<"adjust", "wait", "DS", "clear", "spawn">>}

\* The status that a response to MS or DS may carry as the sensor is now.
MayCarry == CASE First = "MS" -> IF sensor.speed = api.hz THEN {0, 12} ELSE {12}
              [] First = "DS" -> IF sensor.streaming THEN {0, 12, 13} ELSE {12, 13}
              [] OTHER -> Nat
Truthful(bytes) == \A i \in 1 .. Len(bytes) : bytes[i][1] = First => bytes[i][2] \in MayCarry

\* A response with a checksum says what the sensor has answered or is not accepted.
Trusted == MayCorrupt => ChecksumsHold

\* No byte of a response says that something was done that was not done.
Sincere ==
  /\ At({"MS", "DS"}, "read") => Truthful(api.got) /\ Truthful(rx) /\ Truthful(sensor.sending)
  /\ At({"MS"}, "read") => \A i \in Pending : Waiting(i) = "MS" => sensor.inbox[i][2] = api.hz

Done ==
  /\ api.call = "set_motor_speed" => api.todo \in SpeedTodos
  /\ api.call = "start" => api.todo \in StartTodos
  /\ Idle /\ api.call = "start" => is_scanning
  /\ Idle /\ api.call \in {"construct", "stop"} /\ api.errors = 0 => ~is_scanning
  /\ api.call = "start" /\ First \in Starting \cup {"none"} /\ api.errors = 0 => sensor.streaming
  /\ api.call = "set_motor_speed" /\ Idle /\ api.errors = 0 => Calm /\ sensor.speed = api.hz
  /\ object = "freed" => api.call = "destruct"

Reported == Sincere /\ Done

LEMMA SpeedGoesOn ==
  ASSUME api.todo \in SpeedTodos, api.todo # <<>>, Further \/ Again \/ Adjusted
  PROVE  /\ api'.todo \in SpeedTodos
         /\ api'.todo = <<>> => First = "MS"
         /\ First \in {"wait", "MS"}
<1>1. /\ <<"MS">>[1] = "MS" /\ Tail(<<"MS">>) = <<>> /\ <<"MS">> # <<>>
      /\ <<"wait", "MS">>[1] = "wait" /\ Tail(<<"wait", "MS">>) = <<"MS">> /\ <<"wait", "MS">> # <<>>
  OBVIOUS
<1>2. CASE api.todo = <<"MS">>
  BY <1>1, <1>2 DEF First, Step, Further, Again, Adjusted, SpeedTodos
<1>3. CASE api.todo = <<"wait", "MS">>
  BY <1>1, <1>3 DEF First, Step, Further, Again, Adjusted, SpeedTodos
<1>4. QED
  BY <1>2, <1>3 DEF SpeedTodos

\* Where a start is when it has found the motor stationary.
LEMMA Readjusted ==
  <<"wait", "MS">> \o <<"wait", "DS", "clear", "spawn">> = <<"wait", "MS", "wait", "DS", "clear", "spawn">>
<1> DEFINE head == <<"wait", "MS">>
           t4 == <<"wait", "DS", "clear", "spawn">>
           t6 == <<"wait", "MS", "wait", "DS", "clear", "spawn">>
<1>1. head \in Seq(StepNames) /\ Len(head) = 2
  BY DEF StepNames, Stopping, Asking, Starting
<1>2. t4 \in Seq(StepNames) /\ Len(t4) = 4
  BY DEF StepNames, Stopping, Asking, Starting
<1>3. t6 \in Seq(StepNames) /\ Len(t6) = 6
  BY DEF StepNames, Stopping, Asking, Starting
<1>4. head[1] = t6[1] /\ head[2] = t6[2]
  OBVIOUS
<1>5. t4[1] = t6[3] /\ t4[2] = t6[4] /\ t4[3] = t6[5] /\ t4[4] = t6[6]
  OBVIOUS
<1> HIDE DEF head, t4, t6
<1>6. PICK whole \in Seq(StepNames) :
        /\ whole = head \o t4 /\ Len(whole) = 6
        /\ \A i \in 1 .. 6 : whole[i] = IF i <= 2 THEN head[i] ELSE t4[i - 2]
  <2>1. /\ head \o t4 \in Seq(StepNames) /\ Len(head \o t4) = Len(head) + Len(t4)
        /\ \A i \in 1 .. Len(head) + Len(t4) :
             (head \o t4)[i] = IF i <= Len(head) THEN head[i] ELSE t4[i - Len(head)]
    BY <1>1, <1>2, ConcatProperties
  <2>2. Len(head) + Len(t4) = 6 /\ Len(head) = 2
    BY <1>1, <1>2
  <2>3. QED
    BY <2>1, <2>2
<1>7. /\ whole[1] = head[1] /\ whole[2] = head[2] /\ whole[3] = t4[1]
      /\ whole[4] = t4[2] /\ whole[5] = t4[3] /\ whole[6] = t4[4]
  <2>1. \A i \in 1 .. 6 : whole[i] = IF i <= 2 THEN head[i] ELSE t4[i - 2]
    BY <1>6
  <2>2. QED
    BY ONLY <2>1
<1>8. \A i \in 1 .. 6 : i \in {1, 2, 3, 4, 5, 6}
  OBVIOUS
<1>9. \A i \in 1 .. 6 : whole[i] = t6[i]
  BY <1>4, <1>5, <1>7, <1>8
<1>10. whole = t6
  BY <1>3, <1>6, <1>9, SeqEqual
<1>11. QED
  BY <1>6, <1>10 DEF head, t4, t6

LEMMA StartGoesOn ==
  ASSUME api.todo \in StartTodos, api.todo # <<>>, Further \/ Again \/ Adjusted
  PROVE  /\ api'.todo \in StartTodos
         /\ api'.todo = <<>> => First = "spawn"
         /\ First \in {"adjust", "wait", "MS", "DS", "clear", "spawn"}
         /\ First' = "clear" => First = "DS"
         /\ First' = "spawn" => First = "clear"
<1> DEFINE t1 == <<"spawn">>
           t2 == <<"clear", "spawn">>
           t3 == <<"DS", "clear", "spawn">>
           t4 == <<"wait", "DS", "clear", "spawn">>
           t5 == <<"MS", "wait", "DS", "clear", "spawn">>
           t6 == <<"wait", "MS", "wait", "DS", "clear", "spawn">>
           t7 == <<"adjust", "wait", "DS", "clear", "spawn">>
<1>1. /\ t1[1] = "spawn" /\ t2[1] = "clear" /\ t3[1] = "DS" /\ t4[1] = "wait"
      /\ t5[1] = "MS" /\ t6[1] = "wait" /\ t7[1] = "adjust"
  OBVIOUS
<1>2. t1 # <<>> /\ t2 # <<>> /\ t3 # <<>> /\ t4 # <<>> /\ t5 # <<>> /\ t6 # <<>> /\ t7 # <<>>
  OBVIOUS
<1>3. Tail(t1) = <<>> /\ Tail(t2) = t1 /\ Tail(t3) = t2 /\ Tail(t4) = t3
  OBVIOUS
<1>4. Tail(t5) = t4 /\ Tail(t6) = t5 /\ Tail(t7) = t4
  OBVIOUS
<1>5. <<"wait", "MS">> \o t4 = t6
  BY Readjusted
<1>6. StartTodos = {<<>>, t1, t2, t3, t4, t5, t6, t7}
  BY DEF StartTodos
<1> HIDE DEF t1, t2, t3, t4, t5, t6, t7
<1>7. First = api.todo[1] /\ (api'.todo # <<>> => First' = api'.todo[1]) /\ (api'.todo = <<>> => First' = "none")
  BY DEF First, Step
<1>8. CASE Further
  BY <1>1, <1>2, <1>3, <1>4, <1>6, <1>7, <1>8 DEF Further
<1>9. CASE Again
  BY <1>1, <1>2, <1>6, <1>7, <1>9 DEF Again
<1>10. CASE Adjusted
  <2>1. api.todo = t7
    BY <1>1, <1>6, <1>7, <1>10 DEF Adjusted
  <2>2. api'.todo = t6
    BY <1>4, <1>5, <1>10, <2>1 DEF Adjusted
  <2>3. QED
    BY <1>1, <1>2, <1>6, <1>7, <2>1, <2>2
<1>11. QED
  BY <1>8, <1>9, <1>10

\* A step is done.  What it has to show for the call that ends with it.
LEMMA StepReports ==
  ASSUME IInv, Served, Reported, ~Idle, Onward \/ CutShort,
         api'.errors = 0 => api.errors = 0,
         sensor'.streaming = sensor.streaming,
         First = "MS" /\ api'.errors = 0 =>
           Calm' /\ sensor'.speed = api'.hz,
         First = "DS" /\ api'.errors = 0 => sensor'.streaming,
         First = "lower" => ~is_scanning',
         First = "spawn" => is_scanning',
         object' = "freed" => api.call = "destruct"
  PROVE  Reported'
<1>1. /\ Types /\ Control /\ api.todo # <<>> /\ First \in ToDo /\ Means(api.call, ToDo) /\ Done
      /\ Goes /\ Follows /\ api'.call = api.call /\ (Idle' <=> api'.todo = <<>>)
  BY ToDoIs, GoesLawfully DEF IInv, Served, Idle, Onward, CutShort, Reported
<1>2. Sincere'
  BY <1>1 DEF Sincere, At, Goes
<1>3. ASSUME api.call = "set_motor_speed"
      PROVE  api'.todo \in SpeedTodos /\ (Idle' => First = "MS")
  <2>1. api.todo \in SpeedTodos
    BY <1>1, <1>3 DEF Done
  <2>2. First \in {"wait", "MS"}
    <3>1. <<"MS">>[1] = "MS" /\ <<"wait", "MS">>[1] = "wait"
      OBVIOUS
    <3>2. QED
      BY <1>1, <2>1, <3>1 DEF SpeedTodos, First, Step
  <2>3. QED
    BY <1>1, <2>1, <2>2, SpeedGoesOn DEF Onward, CutShort
<1>4. ASSUME api.call = "start"
      PROVE  /\ api'.todo \in StartTodos /\ (Idle' => First = "spawn")
             /\ First' = "clear" => First = "DS"
             /\ First' = "spawn" => First = "clear"
  <2>1. api.todo \in StartTodos /\ First \in Asking \cup Starting
    BY <1>1, <1>4 DEF Done, Means, Promise!Settings
  <2>2. First \notin {"DX1", "flush", "DX2"}
    BY <2>1 DEF Asking, Starting
  <2>3. QED
    BY <1>1, <2>1, <2>2, StartGoesOn DEF Onward, CutShort
<1>5. Idle' /\ api'.call = "start" => is_scanning'
  BY <1>1, <1>4
<1>6. Idle' /\ api'.call \in {"construct", "stop"} /\ api'.errors = 0 => ~is_scanning'
  <2> SUFFICES ASSUME Idle', api.call \in {"construct", "stop"}, api'.errors = 0 PROVE First = "lower"
    BY <1>1
  <2>1. Onward
    BY DEF CutShort
  <2>2. QED
    BY <1>1, <2>1, OnwardMeans DEF Promise!Settings
<1>7. ASSUME api'.call = "start", First' \in Starting \cup {"none"}, api'.errors = 0
      PROVE  sensor'.streaming
  <2>1. CASE First' = "clear"
    BY <1>1, <1>4, <1>7, <2>1
  <2>2. CASE First' \in {"spawn", "none"}
    <3>1. First' = "none" => Idle'
      <4>1. PICK left \in Seq(StepNames) : left = api'.todo
        BY <1>1 DEF Goes, ApiState
      <4>2. left # <<>> => First' \in StepNames
        <5>1. left # <<>> => 1 \in 1 .. Len(left) /\ left[1] \in StepNames
          BY EmptySeq
        <5>2. QED
          BY <4>1, <5>1 DEF First, Step
      <4>3. QED
        BY <1>1, <4>1, <4>2 DEF StepNames, Stopping, Asking, Starting
    <3>2. First \in Starting /\ api.errors = 0
      BY <1>1, <1>4, <1>7, <2>2, <3>1 DEF Starting
    <3>3. QED
      BY <1>1, <1>7, <3>2 DEF Done
  <2>3. QED
    BY <1>7, <2>1, <2>2 DEF Starting
<1>8. api'.call = "set_motor_speed" /\ Idle' /\ api'.errors = 0 => Calm' /\ sensor'.speed = api'.hz
  BY <1>1, <1>3
<1>9. Done'
  BY <1>1, <1>3, <1>4, <1>5, <1>6, <1>7, <1>8 DEF Done
<1>10. QED
  BY <1>2, <1>9 DEF Reported

\* What a step that ends leaves of the number of errors.
LEMMA GoCounts ==
  ASSUME Types, NEW steps, NEW errors \in Nat, Go(steps, errors)
  PROVE  /\ api'.errors = api.errors + errors /\ api.errors \in Nat
         /\ api'.hz = api.hz /\ api'.tries = 0
BY DEF Go, Types, ApiState

LEMMA PollCounts ==
  ASSUME Types, NEW errors \in Nat, PollAgain(errors)
  PROVE  /\ api'.errors \in {api.errors + errors, api.errors + errors + 1} /\ api.errors \in Nat
         /\ api'.hz = api.hz
<1>1. CASE api' = [api EXCEPT !.phase = "run", !.got = <<>>, !.tries = @ + 1, !.errors = @ + errors]
  BY <1>1 DEF Types, ApiState
<1>2. CASE Go(Tail(api.todo), errors + 1)
  BY <1>2, GoCounts
<1>3. QED
  BY <1>1, <1>2 DEF PollAgain

LEMMA FailCounts ==
  ASSUME Types, Fail PROVE api'.errors \in Nat /\ api'.errors # 0
<1>1. CASE Step = "wait" /\ PollAgain(1)
  BY <1>1, PollCounts
<1>2. CASE \E steps : Go(steps, 1)
  BY <1>2, GoCounts
<1>3. QED
  BY <1>1, <1>2 DEF Fail

LEMMA InterpretCounts ==
  ASSUME Types, NEW status, Interpret(status), api'.errors = 0
  PROVE  /\ api.errors = 0
         /\ Step \notin {"adjust", "wait"} => status \notin Refusals /\ Proceed /\ api'.hz = api.hz
<1>1. CASE /\ Step = "adjust" /\ status = 0
           /\ api' = [api EXCEPT !.todo = <<"wait", "MS">> \o Tail(@),
                                 !.phase = "run", !.got = <<>>, !.hz = 5]
  BY <1>1 DEF Types, ApiState
<1>2. CASE Step = "wait" /\ PollAgain(0)
  BY <1>2, PollCounts
<1>3. CASE status \in Refusals /\ Fail
  BY <1>3, FailCounts
<1>4. CASE status \notin Refusals /\ Proceed
  <2>1. api'.errors = api.errors + 0 /\ api.errors \in Nat /\ api'.hz = api.hz
    BY <1>4, GoCounts DEF Proceed
  <2>2. QED
    BY <1>4, <2>1
<1>5. QED
  BY <1>1, <1>2, <1>3, <1>4 DEF Interpret

\* One read() of the client: what it has, and what it makes of it.
Reads(bytes) ==
  /\ bytes \in Seq(Byte) /\ rx' \in Seq(Byte)
  /\ Len(bytes) + Len(rx') = Len(api.got) + Len(rx) /\ Len(bytes) >= Len(api.got)
  /\ \A i \in 1 .. Len(api.got) : bytes[i] = api.got[i]
  /\ \A i \in 1 .. Len(bytes) : i > Len(api.got) =>
       i - Len(api.got) \in 1 .. Len(rx) /\ bytes[i] = rx[i - Len(api.got)]
  /\ \A j \in 1 .. Len(rx') :
       j + (Len(bytes) - Len(api.got)) \in 1 .. Len(rx)
       /\ rx'[j] = rx[j + (Len(bytes) - Len(api.got))]

LEMMA ClientReads ==
  ASSUME IInv, plugged, read_response
  PROVE  /\ AtCommand /\ First = Step /\ First \in Asking \cup {"DX1", "DX2"} /\ First # "RR"
         /\ ~Idle /\ api.phase = "read" /\ api.got \in Seq(Byte) /\ Len(api.got) < Need
         /\ rx # <<>> /\ Need \in Nat /\ Need = Length(CommandOf[First])
         /\ UNCHANGED <<deviceVars, getter, sensor, plugged>>
         /\ \E bytes : /\ Reads(bytes)
                       /\ \/ Len(bytes) < Need /\ api' = [api EXCEPT !.got = bytes]
                          \/ /\ Len(bytes) = Need /\ IsResponse(bytes, CommandOf[First])
                             /\ Interpret(bytes[1][2])
                          \/ /\ Len(bytes) = Need /\ ~IsResponse(bytes, CommandOf[First])
                             /\ FailRead
<1>1. /\ AtCommand /\ First = Step /\ First \in Asking \cup {"DX1", "DX2"} /\ First # "RR"
      /\ ~Idle /\ api.phase = "read" /\ api.got \in Seq(Byte) /\ Len(api.got) < Need
      /\ UNCHANGED <<deviceVars, getter, sensor, plugged>> /\ rx # <<>> /\ rx \in Seq(Byte)
  BY CommandOfFirst DEF read_response, IInv, Control, Types, TypeOK, Idle
<1>2. Need \in Nat /\ Need = Length(CommandOf[First])
  BY <1>1, CommandOfFirst
<1> DEFINE bytes == Received(api.got, Need)
<1>3. /\ rx' = AfterRead(api.got, Need)
      /\ \/ Len(bytes) < Need /\ api' = [api EXCEPT !.got = bytes]
         \/ /\ Len(bytes) = Need /\ IsResponse(bytes, CommandOf[First])
            /\ Interpret(bytes[1][2])
         \/ /\ Len(bytes) = Need /\ ~IsResponse(bytes, CommandOf[First])
            /\ FailRead
  BY <1>1 DEF read_response
<1>4. Reads(bytes)
  <2>1. /\ bytes \in Seq(Byte) /\ rx' \in Seq(Byte)
        /\ Len(bytes) + Len(rx') = Len(api.got) + Len(rx)
    BY <1>1, <1>2, <1>3, ReadBytes
  <2>2. /\ \A i \in 1 .. Len(api.got) : bytes[i] = api.got[i]
        /\ \A i \in 1 .. Len(bytes) : i > Len(api.got) =>
             i - Len(api.got) \in 1 .. Len(rx) /\ bytes[i] = rx[i - Len(api.got)]
        /\ \A j \in 1 .. Len(rx') :
             j + (Len(bytes) - Len(api.got)) \in 1 .. Len(rx)
             /\ rx'[j] = rx[j + (Len(bytes) - Len(api.got))]
        /\ Len(bytes) >= Len(api.got)
    BY <1>1, <1>2, <1>3, ReadPlaces
  <2> HIDE DEF bytes
  <2>3. QED
    BY <2>1, <2>2 DEF Reads
<1> HIDE DEF bytes
<1>5. QED
  BY <1>1, <1>2, <1>3, <1>4

\* Bytes that were true of the line are true of what was read of it.
LEMMA ReadsTruth ==
  ASSUME NEW bytes, Reads(bytes), api.got \in Seq(Byte), Truthful(api.got), Truthful(rx)
  PROVE  /\ Truthful(bytes)
         /\ \A j \in 1 .. Len(rx') : rx'[j][1] = First => rx'[j][2] \in MayCarry
<1>0. Len(api.got) \in Nat /\ Len(bytes) \in Nat
  BY DEF Reads
<1>1. PICK g, b \in Nat : g = Len(api.got) /\ b = Len(bytes)
  BY <1>0
<1>2. ASSUME NEW i \in 1 .. b, bytes[i][1] = First PROVE bytes[i][2] \in MayCarry
  <2>1. CASE i <= g
    <3>1. i \in 1 .. g
      BY <1>1, <2>1
    <3>2. QED
      BY <1>1, <1>2, <3>1 DEF Reads, Truthful
  <2>2. CASE i > g
    BY <1>1, <1>2, <2>2 DEF Reads, Truthful
  <2>3. QED
    BY <1>1, <2>1, <2>2
<1>3. Truthful(bytes)
  BY <1>1, <1>2 DEF Truthful
<1>4. ASSUME NEW j \in 1 .. Len(rx'), rx'[j][1] = First PROVE rx'[j][2] \in MayCarry
  <2>1. j + (Len(bytes) - Len(api.got)) \in 1 .. Len(rx) /\ rx'[j] = rx[j + (Len(bytes) - Len(api.got))]
    BY DEF Reads
  <2>2. QED
    BY <1>4, <2>1 DEF Truthful
<1>5. QED
  BY <1>3, <1>4

\* What a valid response of the kind says is what one of its bytes says.
LEMMA FirstByte ==
  ASSUME NEW bytes, NEW c \in Responding, IsResponse(bytes, c)
  PROVE  bytes[1] = <<c, bytes[1][2], 1>> /\ Len(bytes) = Length(c) /\ bytes[1][1] = c
<1>1. PICK v : v = bytes[1][2] /\ bytes = Bytes(c, v)
  BY DEF IsResponse
<1>2. PICK n \in Nat : n = Length(c) /\ n > 0
  BY Lengths
<1>3. bytes = [i \in 1 .. n |-> <<c, v, i>>]
  BY <1>1, <1>2 DEF Bytes
<1>4. bytes[1] = <<c, v, 1>> /\ 1 \in 1 .. n
  BY <1>2, <1>3
<1>5. Len(bytes) = n
  BY <1>2, <1>3
<1>6. QED
  BY <1>1, <1>2, <1>4, <1>5

LEMMA ReadReports ==
  ASSUME IInv, Grace, plugged, Served, Reported, read_response PROVE Reported'
<1>1. PICK bytes :
        /\ AtCommand /\ First = Step /\ First \in Asking \cup {"DX1", "DX2"} /\ First # "RR"
        /\ ~Idle /\ api.phase = "read" /\ api.got \in Seq(Byte) /\ Len(api.got) < Need
        /\ rx # <<>> /\ UNCHANGED <<deviceVars, getter, sensor, plugged>>
        /\ Reads(bytes)
        /\ \/ Len(bytes) < Need /\ api' = [api EXCEPT !.got = bytes]
           \/ IsResponse(bytes, CommandOf[First]) /\ Interpret(bytes[1][2])
           \/ FailRead
  BY ClientReads
<1>2. Types /\ Control /\ api \in ApiState
  BY DEF IInv, Types
<1>3. First \in {"MS", "DS"} =>
        /\ Truthful(bytes) /\ Truthful(sensor.sending)
        /\ \A j \in 1 .. Len(rx') : rx'[j][1] = First => rx'[j][2] \in MayCarry
  BY <1>1, ReadsTruth DEF Reported, Sincere, At
<1>4. object' = "freed" => api.call = "destruct"
  BY <1>1 DEF deviceVars, Reported, Done
<1>5. CASE api' = [api EXCEPT !.got = bytes]
  <2>1. /\ api'.got = bytes /\ api'.todo = api.todo /\ api'.phase = "read" /\ api'.hz = api.hz
        /\ api'.call = api.call /\ api'.errors = api.errors
    BY <1>1, <1>2, <1>5 DEF ApiState
  <2>2. First' = First /\ MayCarry' = MayCarry /\ (Idle' <=> Idle)
    BY <1>1, <2>1 DEF First, Step, MayCarry, Idle
  <2>3. Sincere'
    BY <1>1, <1>3, <2>1, <2>2 DEF Sincere, Truthful, At, Pending, Waiting, Reported
  <2>4. Done'
    BY <1>1, <2>1, <2>2 DEF Done, Reported, deviceVars, Calm
  <2>5. QED
    BY <2>3, <2>4 DEF Reported
<1>6. CASE FailRead
  <2>1. Onward \/ CutShort
    BY <1>1, <1>2, <1>6, FailReadEnds DEF Asking
  <2>2. First # "DX1" => api'.errors \in Nat /\ api'.errors # 0
    BY <1>1, <1>2, <1>6, FailCounts DEF FailRead
  <2>3. First = "DX1" => api'.errors = api.errors + 0 /\ api.errors \in Nat
    BY <1>1, <1>2, <1>6, GoCounts DEF FailRead, Proceed
  <2>4. api'.errors = 0 => api.errors = 0 /\ First \notin {"MS", "DS"}
    BY <2>2, <2>3
  <2>5. First \notin {"lower", "spawn"}
    BY <1>1 DEF Asking
  <2>6. QED
    BY <1>1, <1>4, <2>1, <2>4, <2>5, StepReports
<1>7. CASE IsResponse(bytes, CommandOf[First]) /\ Interpret(bytes[1][2])
  <2>1. PICK status : status = bytes[1][2]
    OBVIOUS
  <2>2. Onward \/ CutShort
    BY <1>1, <1>2, <1>7, <2>1, InterpretEnds DEF Asking
  <2>3. api'.errors = 0 =>
          /\ api.errors = 0
          /\ First \in {"MS", "DS"} => status \notin Refusals /\ api'.hz = api.hz
    BY <1>1, <1>2, <1>7, <2>1, InterpretCounts
  <2>4. First \in {"MS", "DS"} => status \in MayCarry
    <3> SUFFICES ASSUME First \in {"MS", "DS"} PROVE status \in MayCarry
      OBVIOUS
    <3>1. CommandOf[First] = First /\ First \in Responding
      BY DEF CommandOf, Responding, Commands
    <3>2. bytes[1][1] = First /\ Len(bytes) = Length(First) /\ 1 \in 1 .. Length(First)
      BY <1>7, <3>1, FirstByte, Lengths
    <3>3. QED
      BY <1>3, <2>1, <3>2 DEF Truthful
  <2>5. First = "MS" /\ api'.errors = 0 => Calm' /\ sensor'.speed = api'.hz
    <3> SUFFICES ASSUME First = "MS", api'.errors = 0 PROVE Calm' /\ sensor'.speed = api'.hz
      OBVIOUS
    <3>1. Answered(CommandOf[First])
      BY <1>1, ReadsAlone
    <3>2. status \in {0, 12} /\ status \notin {11, 12} /\ (sensor.speed # api.hz => status = 12)
      BY <1>1, <2>3, <2>4 DEF MayCarry, Refusals
    <3>3. QED
      BY <1>1, <2>3, <3>1, <3>2 DEF Answered, Calm
  <2>6. First = "DS" /\ api'.errors = 0 => sensor'.streaming
    <3> SUFFICES ASSUME First = "DS", api'.errors = 0 PROVE sensor'.streaming
      OBVIOUS
    <3>1. status \notin {12, 13} /\ (~sensor.streaming => status \in {12, 13})
      BY <1>1, <2>3, <2>4 DEF MayCarry, Refusals
    <3>2. QED
      BY <1>1, <3>1
  <2>7. First \notin {"lower", "spawn"}
    BY <1>1 DEF Asking
  <2>8. QED
    BY <1>1, <1>4, <2>2, <2>3, <2>5, <2>6, <2>7, StepReports
<1>8. QED
  BY <1>1, <1>5, <1>6, <1>7

\* The command is written, and nothing of its response is there yet.
LEMMA PhaseReports ==
  ASSUME IInv, Grace, plugged, Reported, AtCommand, api.phase = "run",
         NEW p \in {"sleep", "read"}, api' = [api EXCEPT !.phase = p],
         p = "sleep" <=> First = "DX1", First # "RR",
         device_write(CommandOf[First], IF First = "MS" THEN api.hz ELSE 0),
         UNCHANGED <<deviceVars, getter>>
  PROVE  Reported'
<1>1. /\ Types /\ Control /\ LineTypes /\ api \in ApiState
      /\ sensor.resetting => sensor.inbox = <<>>
  BY DEF IInv, Types, TypeOK, LineTypes, Talk, Line
<1>2. /\ First \in Asking \cup {"DX1", "DX2"} /\ CommandOf[First] \in Commands /\ ~Idle
      /\ First \in {"MS", "DS"} => CommandOf[First] = First
  BY CommandOfFirst DEF CommandOf, Idle
<1>3. PICK arg \in 0 .. 10 : arg = IF First = "MS" THEN api.hz ELSE 0
  BY <1>1 DEF ApiState
<1>4. /\ api'.todo = api.todo /\ api'.call = api.call /\ api'.errors = api.errors
      /\ api'.hz = api.hz /\ api'.phase = p /\ api'.got = api.got
  BY <1>1 DEF ApiState
<1>5. First' = First /\ ~Idle'
  BY <1>2, <1>4 DEF First, Step, Idle
<1>6. device_write(CommandOf[First], arg)
  BY <1>3
<1>7. /\ rx' = rx /\ sensor'.sending = sensor.sending /\ sensor'.streaming = sensor.streaming
      /\ sensor.resetting => sensor'.inbox = sensor.inbox
      /\ ~sensor.resetting =>
           /\ Len(sensor'.inbox) = Len(sensor.inbox) + 1
           /\ \A i \in Pending : sensor'.inbox[i] = sensor.inbox[i]
  BY <1>1, <1>2, <1>6, Written
<1>8. First \in {"MS", "DS"} => Quiet /\ api.got = <<>>
  BY <1>1 DEF IInv, Talk, Line, At, Control, Asking
<1>9. At({"MS", "DS"}, "read")' => Truthful(api.got)' /\ Truthful(rx)' /\ Truthful(sensor.sending)'
  <2> SUFFICES ASSUME First \in {"MS", "DS"}
               PROVE  Truthful(api.got)' /\ Truthful(rx)' /\ Truthful(sensor.sending)'
    BY <1>5 DEF At
  <2>1. api'.got = <<>> /\ rx' = <<>> /\ sensor'.sending = <<>>
    BY <1>4, <1>7, <1>8 DEF Quiet
  <2>2. Len(api'.got) = 0 /\ Len(rx') = 0 /\ Len(sensor'.sending) = 0
    BY <2>1
  <2>3. QED
    BY <2>2 DEF Truthful
<1>10. At({"MS"}, "read")' => (\A i \in Pending : Waiting(i) = "MS" => sensor.inbox[i][2] = api.hz)'
  <2> SUFFICES ASSUME First = "MS", NEW i \in 1 .. Len(sensor'.inbox), sensor'.inbox[i][1] = "MS"
               PROVE  sensor'.inbox[i][2] = api.hz
    BY <1>4, <1>5 DEF At, Pending, Waiting
  <2>1. PICK n \in Nat : n = Len(sensor.inbox)
    BY <1>1, InboxIs
  <2>2. \A j \in 1 .. n : sensor.inbox[j][1] # "MS"
    BY <1>8, <2>1 DEF Quiet, Pending, Waiting
  <2>3. ~sensor.resetting /\ i \in 1 .. n + 1
    BY <1>7, <2>1, <2>2
  <2>4. i = n + 1
    BY <1>7, <2>1, <2>2, <2>3 DEF Pending
  <2>5. sensor'.inbox = Append(sensor.inbox, <<"MS", arg>>)
    BY <1>1, <1>2, <1>6, <2>3 DEF device_write, LineTypes, SensorState
  <2>6. Append(sensor.inbox, <<"MS", arg>>)[n + 1] = <<"MS", arg>>
    <3>1. PICK box \in Seq(Commands \X (0 .. 10)) : box = sensor.inbox
      BY <1>1 DEF LineTypes, SensorState
    <3>2. Append(box, <<"MS", arg>>)[Len(box) + 1] = <<"MS", arg>>
      OBVIOUS
    <3>3. QED
      BY <2>1, <3>1, <3>2
  <2>7. QED
    BY <1>3, <2>4, <2>5, <2>6
<1>11. Sincere'
  BY <1>9, <1>10 DEF Sincere
<1>12. Done'
  BY <1>2, <1>4, <1>5, <1>7 DEF Done, Reported, deviceVars, Asking, Starting
<1>13. QED
  BY <1>11, <1>12 DEF Reported

LEMMA WriteReports ==
  ASSUME IInv, Grace, plugged, Served, Reported, write_command PROVE Reported'
<1>1. /\ AtCommand /\ api.phase = "run" /\ UNCHANGED <<deviceVars, getter>> /\ First = Step
      /\ First \in Asking \cup {"DX1", "DX2"} /\ ~Idle
  BY CommandOfFirst DEF write_command, Idle
<1>2. /\ device_write(CommandOf[First], IF First = "MS" THEN api.hz ELSE 0)
      /\ \/ First = "RR" /\ Proceed
         \/ First = "DX1" /\ api' = [api EXCEPT !.phase = "sleep"]
         \/ First \notin {"RR", "DX1"} /\ api' = [api EXCEPT !.phase = "read"]
  BY <1>1 DEF write_command
<1>3. CASE First = "RR" /\ Proceed
  <2>1. Onward /\ api'.errors = api.errors + 0 /\ api.errors \in Nat
    BY <1>1, <1>3, ProceedIsOnward, GoCounts DEF Proceed, IInv
  <2>2. sensor'.streaming = sensor.streaming
    <3>1. /\ LineTypes /\ "RR" \in Commands /\ CommandOf[First] = "RR" /\ 0 \in 0 .. 10
          /\ sensor.resetting => sensor.inbox = <<>>
      BY <1>3 DEF IInv, Types, TypeOK, LineTypes, Talk, Line, Commands, CommandOf
    <3>2. device_write("RR", 0)
      <4>1. (IF First = "MS" THEN api.hz ELSE 0) = 0
        BY <1>3
      <4>2. QED
        BY <1>2, <3>1, <4>1
    <3>3. QED
      BY <3>1, <3>2, Written
  <2>3. QED
    BY <1>1, <1>3, <2>1, <2>2, StepReports DEF deviceVars, Reported, Done
<1>4. CASE First = "DX1" /\ api' = [api EXCEPT !.phase = "sleep"]
  BY <1>1, <1>2, <1>4, PhaseReports
<1>5. CASE First \notin {"RR", "DX1"} /\ api' = [api EXCEPT !.phase = "read"]
  BY <1>1, <1>2, <1>5, PhaseReports
<1>6. QED
  BY <1>2, <1>3, <1>4, <1>5

\* Nothing that a report is about changes.
LEMMA NothingToReport ==
  ASSUME Types, Reported, UNCHANGED <<object, is_scanning, sensor, rx>>,
         \/ api' = api
         \/ First \notin {"MS", "DS"} /\ ~Idle /\ api' = [api EXCEPT !.phase = "read"]
  PROVE  Reported'
<1>1. /\ api'.todo = api.todo /\ api'.call = api.call /\ api'.errors = api.errors
      /\ api'.hz = api.hz /\ api'.got = api.got
  BY DEF Types, ApiState
<1>2. First' = First /\ (Idle' <=> Idle) /\ (Calm' <=> Calm)
  BY <1>1 DEF First, Step, Idle, Calm
<1>3. Done'
  BY <1>1, <1>2 DEF Done, Reported
<1>4. CASE api' = api
  <2>1. /\ MayCarry' = MayCarry /\ \A i : Waiting(i)' = Waiting(i)
        /\ \A steps, phase : At(steps, phase)' <=> At(steps, phase)
    BY <1>2, <1>4 DEF MayCarry, Waiting, At
  <2>2. Sincere'
    BY <1>2, <1>4, <2>1 DEF Sincere, Reported, Truthful, Pending
  <2>3. QED
    BY <1>3, <2>2 DEF Reported
<1>5. CASE First \notin {"MS", "DS"}
  <2>1. Sincere'
    BY <1>2, <1>5 DEF Sincere, At
  <2>2. QED
    BY <1>3, <2>1 DEF Reported
<1>6. QED
  BY <1>3, <1>4, <1>5 DEF Reported

LEMMA ApiStepReports ==
  ASSUME IInv, IInv', Grace, plugged, Served, Reported, ApiStep PROVE Reported'
<1>1. Types /\ Control /\ api \in ApiState /\ sensor \in SensorState
  BY DEF IInv, Types, TypeOK
<1>2. ASSUME ~Idle, Proceed, First \notin {"MS", "DS"}, sensor'.streaming = sensor.streaming,
             First = "lower" => ~is_scanning', First = "spawn" => is_scanning',
             object' = "freed" => api.call = "destruct"
      PROVE  Reported'
  <2>1. Onward /\ api'.errors = api.errors + 0 /\ api.errors \in Nat
    BY <1>1, <1>2, ProceedIsOnward, GoCounts DEF Proceed
  <2>2. QED
    BY <1>2, <2>1, StepReports
<1>3. object = "freed" => api.call = "destruct"
  BY DEF Reported, Done
<1>4. CASE RaiseFlag
  <2>1. /\ ~Idle /\ First = "raise" /\ Proceed /\ object' = object
        /\ sensor' = [sensor EXCEPT !.trailed = FALSE]
    BY <1>4 DEF RaiseFlag, AtStep, First, Idle
  <2>2. sensor'.streaming = sensor.streaming
    BY <1>1, <2>1 DEF SensorState
  <2>3. QED
    BY <1>2, <1>3, <2>1, <2>2
<1>5. CASE SleepEnds
  <2>1. /\ First = "DX1" /\ api.phase = "sleep" /\ api' = [api EXCEPT !.phase = "read"]
        /\ UNCHANGED <<object, is_scanning, sensor, rx>>
    BY <1>1, <1>5 DEF SleepEnds, deviceVars, lineVars, Control
  <2>2. ~Idle
    BY <2>1 DEF First, Idle
  <2>3. QED
    BY <1>1, <2>1, <2>2, NothingToReport
<1>6. CASE Flush
  <2>1. ~Idle /\ First = "flush" /\ Proceed /\ object' = object /\ sensor' = sensor
    BY <1>6 DEF Flush, AtStep, First, Idle, deviceVars, device_flush
  <2>2. QED
    BY <1>2, <1>3, <2>1
<1>7. CASE LowerScanning
  <2>1. ~Idle /\ First = "lower" /\ Proceed /\ object' = object /\ sensor' = sensor /\ ~is_scanning'
    BY <1>7 DEF LowerScanning, AtStep, First, Idle, lineVars
  <2>2. QED
    BY <1>2, <1>3, <2>1
<1>8. CASE ClearQueue
  <2>1. ~Idle /\ First = "clear" /\ Proceed /\ object' = object /\ sensor' = sensor
    BY <1>8 DEF ClearQueue, AtStep, First, Idle, lineVars
  <2>2. QED
    BY <1>2, <1>3, <2>1
<1>9. CASE SpawnWorker
  <2>1. ~Idle /\ First = "spawn" /\ object' = object /\ sensor' = sensor /\ is_scanning'
    BY <1>9 DEF SpawnWorker, AtStep, First, Idle, lineVars
  <2>2. Onward /\ (api'.errors = 0 => api.errors = 0)
    BY <1>1, <1>9, <2>1, SpawnIsOnward
  <2>3. QED
    BY <1>3, <2>1, <2>2, StepReports
<1>10. CASE FreeDevice
  <2>1. ~Idle /\ First = "free" /\ Proceed /\ sensor' = sensor
    BY <1>10 DEF FreeDevice, AtStep, First, Idle, lineVars
  <2>2. "free" \in ToDo /\ Means(api.call, ToDo)
    BY <1>1, <2>1, ToDoIs DEF Served
  <2>3. api.call = "destruct"
    BY <2>2 DEF Means, Asking, Starting
  <2>4. QED
    BY <1>2, <2>1, <2>3
<1>11. QED
  BY <1>4, <1>5, <1>6, <1>7, <1>8, <1>9, <1>10, WriteReports, ReadReports DEF ApiStep

\* A call begins, with nothing to report yet.
LEMMA CallReports ==
  ASSUME IInv, NEW name \in Calls, NEW kind, NEW steps, Plan(steps, kind), NEW hz \in 0 .. 10,
         Call(name, steps, hz), object' = "live",
         name = "set_motor_speed" => steps \in SpeedTodos,
         name = "start" => steps \in StartTodos /\ steps[1] = "adjust"
  PROVE  Reported'
<1>1. Types /\ Control /\ Started(kind) /\ First' = steps[1]
  BY CallStarts DEF IInv
<1>2. api'.call = name /\ api'.todo = steps /\ api'.phase = "run" /\ ~Idle'
  BY <1>1 DEF Started, Call, Idle, Types, ApiState
<1>3. Sincere'
  BY <1>2 DEF Sincere, At
<1>4. Done'
  BY <1>1, <1>2 DEF Done, Starting
<1>5. QED
  BY <1>3, <1>4 DEF Reported

LEMMA ApiCallReports ==
  ASSUME IInv, plugged, ApiCall PROVE Reported'
<1>1. CASE sweep_device_construct
  BY <1>1, StopPlan, CallReports DEF sweep_device_construct, Calls
<1>2. CASE sweep_device_stop_scanning
  BY <1>2, StopPlan, CallReports DEF sweep_device_stop_scanning, deviceVars, Calls
<1>3. CASE sweep_device_destruct
  <2>1. PICK steps : steps = Append(StopSteps, "free")
    OBVIOUS
  <2>2. Plan(steps, Stopping) /\ Call("destruct", steps, 0) /\ object' = "live"
    BY <1>3, <2>1, DestructPlan DEF sweep_device_destruct, deviceVars
  <2>3. QED
    BY <2>2, CallReports DEF Calls
<1>4. CASE sweep_device_start_scanning
  <2>1. StartSteps \in StartTodos
    BY DEF StartSteps, StartTodos
  <2>2. QED
    BY <1>4, <2>1, StartPlan, CallReports DEF sweep_device_start_scanning, deviceVars, Calls
<1>5. ASSUME NEW hz \in Speeds, sweep_device_set_motor_speed(hz) PROVE Reported'
  <2>1. PICK steps : steps = <<"wait", "MS">>
    OBVIOUS
  <2>2. Plan(steps, Asking) /\ steps \in SpeedTodos
    BY <2>1, SpeedPlan DEF SpeedTodos
  <2>3. Call("set_motor_speed", steps, hz) /\ object' = "live" /\ hz \in 0 .. 10
    BY <1>5, <2>1, LineAssumption DEF sweep_device_set_motor_speed
  <2>4. QED
    BY <2>2, <2>3, CallReports DEF Calls
<1>6. ASSUME NEW cmd \in Requests, Request(cmd) PROVE Reported'
  <2>1. PICK steps : steps = <<cmd>>
    OBVIOUS
  <2>2. Plan(steps, Asking) /\ Call(cmd, steps, 0) /\ object' = "live"
    BY <1>6, <2>1, RequestPlan DEF Request, deviceVars
  <2>3. cmd \in Calls /\ cmd \notin {"set_motor_speed", "start"}
    BY DeviceAssumption DEF Calls
  <2>4. QED
    BY <2>2, <2>3, CallReports
<1>7. QED
  BY <1>1, <1>2, <1>3, <1>4, <1>5, <1>6
     DEF ApiCall, ConstructFails, Request, sweep_device_get_motor_ready, sweep_device_get_motor_speed,
         sweep_device_get_sample_rate, sweep_device_set_sample_rate, sweep_device_reset

\* The sensor, while the client waits for the response to MS or DS.
LEMMA AskedOnLine ==
  ASSUME IInv, Grace, plugged, At({"MS", "DS"}, "read")
  PROVE  /\ sensor.resetting => sensor.inbox = <<>>
         /\ api.got \in Seq(Byte)
         /\ \/ /\ Unanswered(First) /\ sensor.inbox \in Seq(Commands \X (0 .. 10))
            \/ Answered(First)
            \/ Quiet /\ api.got = <<>>
            \/ First = "DS" /\ sensor.streaming /\ Calm
<1>1. First \in {"MS", "DS"} /\ CommandOf[First] = First /\ api.phase = "read"
  BY DEF At, CommandOf
<1>2. /\ Asked(First) \/ (First = "DS" /\ sensor.streaming /\ Calm)
      /\ sensor.resetting => sensor.inbox = <<>>
  BY <1>1 DEF IInv, Talk, Line, At, Asking
<1>3. api.got \in Seq(Byte) /\ sensor.inbox \in Seq(Commands \X (0 .. 10))
  BY DEF IInv, Types, ApiState, TypeOK, SensorState
<1>4. QED
  BY <1>2, <1>3 DEF Asked

LEMMA SensorIsSincere ==
  ASSUME IInv, Grace, Trusted, plugged, plugged', Sincere, Sensor PROVE Sincere'
<1>1. LineTypes /\ LineTypes' /\ Types
  BY SensorDoes DEF Sensor, IInv, Types, TypeOK, LineTypes
<1>2. Responds \/ Begins \/ Transmits \/ Stabilizes \/ Restarts
  BY <1>1, SensorDoesInFull DEF Sensor
<1>3. /\ api' = api /\ First' = First
      /\ \A steps, phase : At(steps, phase)' <=> At(steps, phase)
  BY DEF Sensor, First, Step, At
<1> SUFFICES ASSUME At({"MS", "DS"}, "read") PROVE Sincere'
  BY <1>3 DEF Sincere, At
<1>4. First \in {"MS", "DS"} /\ Truthful(api.got) /\ Truthful(rx) /\ Truthful(sensor.sending)
  BY DEF Sincere, At
<1>5. /\ sensor.resetting => sensor.inbox = <<>>
      /\ \/ Unanswered(First)
         \/ Answered(First)
         \/ Quiet /\ api.got = <<>>
         \/ First = "DS" /\ sensor.streaming /\ Calm
  BY AskedOnLine
<1>6. First = "MS" => \A i \in Pending : Waiting(i) = "MS" => sensor.inbox[i][2] = api.hz
  BY DEF Sincere, At
<1>7. CASE Responds
  <2>1. sensor.inbox # <<>> /\ sensor.sending = <<>> /\ rx' = rx /\ 1 \in Pending
    BY <1>1, <1>7, InboxIs DEF Responds, Pending
  <2>2. rx = <<>> /\ api.got = <<>> /\ ~sensor.streaming
    BY <1>5, <2>1 DEF Unanswered, Answered, Quiet, Calm
  <2>3. Len(rx') = 0 /\ Len(api'.got) = 0
    BY <1>3, <2>1, <2>2
  <2>4. Truthful(rx)' /\ Truthful(api.got)'
    BY <2>3 DEF Truthful
  <2>5. CASE Waiting(1) = "RR"
    <3>1. sensor'.inbox = <<>> /\ sensor'.sending = <<>>
      BY <1>7, <2>5 DEF Responds, Obeyed, Acted, Waiting
    <3>2. Len(sensor'.inbox) = 0 /\ Len(sensor'.sending) = 0
      BY <3>1
    <3>3. Truthful(sensor.sending)' /\ Pending' = {}
      BY <3>2 DEF Truthful, Pending
    <3>4. QED
      BY <2>4, <3>3 DEF Sincere
  <2>6. CASE Waiting(1) # "RR"
    <3>1. Unanswered(First)
      BY <1>5, <2>1, <2>6 DEF Quiet, Answered, Calm
    <3>2. PICK n \in Nat : n = Len(sensor.inbox)
      BY <1>1, InboxIs
    <3>3. n = 1
      <4>1. n # 0 /\ (1 \in 1 .. n - 1 => Waiting(1) = "RR")
        BY <1>1, <2>1, <3>1, <3>2, InboxIs DEF Unanswered
      <4>2. n # 0 /\ 1 \notin 1 .. n - 1 => n = 1
        OBVIOUS
      <4>3. QED
        BY <2>6, <4>1, <4>2
    <3>4. Waiting(1) = First
      BY <3>1, <3>2, <3>3 DEF Unanswered
    <3>5. /\ Obeyed(sensor', First, sensor.inbox[1][2]) /\ sensor.inbox[1][1] = First
          /\ \/ sensor'.sending = Bytes(First, Answer(First))
             \/ Noisy(sensor'.sending)
      BY <1>7, <2>6, <3>4 DEF Responds, Waiting, Trusted
    <3>6. Pending' = {}
      <4>1. sensor'.inbox = Tail(sensor.inbox)
        BY <2>6, <3>4, <3>5 DEF Obeyed, Acted
      <4>2. Len(sensor'.inbox) = 0
        BY <1>1, <2>1, <3>2, <3>3, <4>1, TailOfInbox
      <4>3. QED
        BY <4>2 DEF Pending
    <3>7. CASE Noisy(sensor'.sending)
      <4>1. Truthful(sensor.sending)'
        BY <1>3, <1>4, <3>7 DEF Truthful, Noisy
      <4>2. QED
        BY <2>4, <3>6, <4>1 DEF Sincere
    <3>8. CASE sensor'.sending = Bytes(First, Answer(First))
      <4>1. Answer(First) \in MayCarry'
        <5>1. CASE First = "MS"
          <6>1. sensor.inbox[1][2] = api.hz
            BY <1>6, <2>1, <3>5, <5>1 DEF Waiting
          <6>2. sensor.ready => sensor'.speed = api'.hz
            BY <1>3, <3>5, <5>1, <6>1 DEF Obeyed
          <6>3. Answer("MS") = IF sensor.ready THEN 0 ELSE 12
            BY DEF Answer
          <6>4. QED
            BY <1>3, <5>1, <6>2, <6>3 DEF MayCarry
        <5>2. CASE First = "DS"
          <6>1. Answer("DS") \in {0, 12, 13}
            BY DEF Answer
          <6>2. Answer("DS") = 0 => sensor'.streaming
            BY <3>5, <5>2 DEF Obeyed
          <6>3. QED
            BY <1>3, <5>2, <6>1, <6>2 DEF MayCarry
        <5>3. QED
          BY <1>4, <5>1, <5>2
      <4>2. PICK v : v = Answer(First)
        OBVIOUS
      <4>3. PICK k \in Nat : k = Length(First)
        BY <1>4, Lengths DEF Responding, Commands
      <4>4. sensor'.sending = [i \in 1 .. k |-> <<First, v, i>>]
        BY <3>8, <4>2, <4>3 DEF Bytes
      <4>5. Len(sensor'.sending) = k /\ \A i \in 1 .. k : sensor'.sending[i][2] = v
        BY <4>4
      <4>6. Truthful(sensor.sending)'
        BY <4>1, <4>2, <4>5 DEF Truthful
      <4>7. QED
        BY <2>4, <3>6, <4>6 DEF Sincere
    <3>9. QED
      BY <3>5, <3>7, <3>8
  <2>7. QED
    BY <2>5, <2>6
<1>8. ASSUME UNCHANGED <<sensor.speed, sensor.streaming, sensor.inbox>>,
             Truthful(rx'), Truthful(sensor'.sending)
      PROVE  Sincere'
  <2>1. MayCarry' = MayCarry /\ Pending' = Pending /\ \A i : Waiting(i)' = Waiting(i)
    BY <1>3, <1>8 DEF MayCarry, Pending, Waiting
  <2>2. Truthful(api.got)' /\ Truthful(rx)' /\ Truthful(sensor.sending)'
    BY <1>3, <1>4, <1>8, <2>1 DEF Truthful
  <2>3. QED
    BY <1>3, <1>6, <1>8, <2>1, <2>2 DEF Sincere, At
<1>9. CASE Begins
  <2>1. PICK c \in Nat : sensor'.sending = Bytes("scan", c)
    BY <1>9 DEF Begins
  <2>2. PICK k \in Nat : k = Length("scan")
    BY Lengths
  <2>3. sensor'.sending = [i \in 1 .. k |-> <<"scan", c, i>>]
    BY <2>1, <2>2 DEF Bytes
  <2>4. Len(sensor'.sending) = k /\ \A i \in 1 .. k : sensor'.sending[i][1] = "scan"
    BY <2>3
  <2>5. Truthful(sensor'.sending)
    BY <1>4, <2>4 DEF Truthful
  <2>6. QED
    BY <1>4, <1>8, <1>9, <2>5 DEF Begins
<1>10. CASE Transmits
  <2>1. PICK s, r \in Seq(Byte) : s = sensor.sending /\ r = rx
    BY <1>1 DEF LineTypes, SensorState
  <2>2. s # <<>> /\ rx' = Append(r, Head(s)) /\ sensor'.sending = Tail(s) /\ Head(s) = s[1]
    BY <1>10, <2>1 DEF Transmits
  <2>3. PICK n, m \in Nat : n = Len(s) /\ m = Len(r) /\ n # 0
    BY <2>1, <2>2, EmptySeq
  <2>4. /\ Len(Tail(s)) = n - 1 /\ \A i \in 1 .. n - 1 : Tail(s)[i] = s[i + 1]
        /\ Len(Append(r, Head(s))) = m + 1 /\ Append(r, Head(s))[m + 1] = s[1]
        /\ \A i \in 1 .. m : Append(r, Head(s))[i] = r[i]
    BY <2>2, <2>3
  <2>5. 1 \in 1 .. n /\ \A i \in 1 .. n - 1 : i + 1 \in 1 .. n
    BY <2>3
  <2>6. Truthful(sensor'.sending)
    BY <1>4, <2>1, <2>2, <2>3, <2>4, <2>5 DEF Truthful
  <2>7. \A i \in 1 .. m + 1 : i \in 1 .. m \/ i = m + 1
    OBVIOUS
  <2>8. Truthful(rx')
    BY <1>4, <2>1, <2>2, <2>3, <2>4, <2>5, <2>7 DEF Truthful
  <2>9. QED
    BY <1>8, <1>10, <2>6, <2>8 DEF Transmits
<1>11. CASE Stabilizes
  BY <1>4, <1>8, <1>11 DEF Stabilizes
<1>12. CASE Restarts
  <2>1. rx = <<>> /\ sensor.sending = <<>> /\ api.got = <<>> /\ sensor.inbox = <<>>
    BY <1>5, <1>12 DEF Restarts, Unanswered, Answered, Calm, Quiet
  <2>2. /\ Len(rx') = 0 /\ Len(sensor'.sending) = 0 /\ Len(api'.got) = 0 /\ Len(sensor'.inbox) = 0
    BY <1>3, <1>12, <2>1 DEF Restarts
  <2>3. QED
    BY <2>2 DEF Sincere, Truthful, Pending
<1>13. QED
  BY <1>2, <1>7, <1>9, <1>10, <1>11, <1>12

LEMMA SensorReports ==
  ASSUME IInv, Grace, Trusted, plugged, plugged', Reported, Sensor PROVE Reported'
<1>1. LineTypes /\ LineTypes' /\ Types /\ Control
  BY SensorDoes DEF Sensor, IInv, Types, TypeOK, LineTypes
<1>2. /\ Responds \/ Begins \/ Transmits \/ Stabilizes \/ Restarts
      /\ SensorMoves
  BY <1>1, SensorDoesInFull, SensorDoes DEF Sensor, SensorMoves
<1>3. UNCHANGED <<api, object, is_scanning>> /\ First' = First /\ (Idle' <=> Idle)
  BY DEF Sensor, deviceVars, First, Step, Idle
<1>4. Calm => Calm' /\ sensor'.speed = sensor.speed /\ sensor'.streaming = sensor.streaming
  <2>1. Calm => ~Responds /\ ~Restarts
    BY DEF Calm, Responds, Restarts
  <2>2. Begins \/ Transmits \/ Stabilizes =>
          sensor'.speed = sensor.speed /\ sensor'.streaming = sensor.streaming
    BY DEF Begins, Transmits, Stabilizes
  <2>3. QED
    BY <1>1, <1>2, <2>1, <2>2, SensorKeepsCalm
<1>5. ASSUME api.call = "start", First \in Starting \cup {"none"}, api.errors = 0
      PROVE  sensor'.streaming
  <2>1. sensor.streaming
    BY <1>5 DEF Reported, Done
  <2>2. api.phase = "run"
    BY <1>1, <1>5, PhaseIsRun, CommandsOfSteps DEF Starting, Asking
  <2>3. CASE First \in Starting
    <3>1. Calm
      BY <2>2, <2>3 DEF IInv, Talk, Line, At
    <3>2. QED
      BY <1>4, <2>1, <3>1
  <2>4. CASE First = "none"
    <3>1. Idle
      BY <1>1, <2>4, ToDoIs DEF StepNames, Stopping, Asking, Starting
    <3>2. is_scanning /\ object # "freed"
      BY <1>5, <3>1 DEF Reported, Done
    <3>3. Calm
      BY <2>2, <2>4, <3>2 DEF IInv, Talk, Line, At
    <3>4. QED
      BY <1>4, <2>1, <3>3
  <2>5. QED
    BY <1>5, <2>3, <2>4
<1>6. Done'
  BY <1>3, <1>4, <1>5 DEF Done, Reported
<1>7. QED
  BY <1>6, SensorIsSincere DEF Reported

\* A worker does not touch what the client waits for, since there is none then.
LEMMA WorkerReports ==
  ASSUME IInv, Grace, Reported, NEW w \in Sessions, WorkerStep(w) PROVE Reported'
<1>1. Works(w) /\ Types /\ Control
  BY WorkerDoes DEF IInv
<1>2. /\ api' = api /\ sensor' = sensor /\ First' = First /\ (Idle' <=> Idle)
      /\ UNCHANGED <<object, is_scanning>>
  BY <1>1 DEF Works, First, Step, Idle
<1>3. First \notin {"MS", "DS"}
  <2> SUFFICES ASSUME First \in {"MS", "DS"} PROVE FALSE
    OBVIOUS
  <2>1. api.todo # <<>>
    BY DEF First
  <2>2. First = api.todo[1] /\ 1 \in 1 .. Len(api.todo)
    BY <1>1, <2>1, FirstIsOne
  <2>3. ~is_scanning
    BY <1>1, <2>2 DEF Control, Asking
  <2>4. QED
    BY <1>1, <2>3 DEF Works, IInv, Talk, Workers
<1>4. Sincere'
  BY <1>2, <1>3 DEF Sincere, At
<1>5. Done'
  BY <1>2 DEF Done, Reported, Calm
<1>6. QED
  BY <1>4, <1>5 DEF Reported

LEMMA StepIsReported ==
  IInv /\ IInv' /\ Served /\ Grace /\ Trusted /\ plugged /\ plugged' /\ Reported /\ [Next]_vars => Reported'
<1> SUFFICES ASSUME IInv, IInv', Served, Grace, Trusted, plugged, plugged', Reported, [Next]_vars
             PROVE  Reported'
  OBVIOUS
<1>1. CASE GetScan \/ GetterTakes \/ UNCHANGED vars
  <2>1. UNCHANGED <<object, is_scanning, sensor, rx, api>> /\ Types
    BY <1>1 DEF GetScan, GetterTakes, vars, deviceVars, lineVars, IInv
  <2>2. QED
    BY <2>1, NothingToReport
<1>2. QED
  BY <1>1, ApiCallReports, ApiStepReports, WorkerReports, SensorReports DEF Next

\* A device that is gone stays gone.
LEMMA StaysGone == IInv /\ plugged' /\ [Next]_vars => plugged
<1> SUFFICES ASSUME IInv, plugged', [Next]_vars PROVE plugged
  OBVIOUS
<1>1. CASE ApiCall
  BY <1>1 DEF ApiCall, ConstructFails, lineVars, sweep_device_construct, sweep_device_start_scanning,
      sweep_device_stop_scanning, sweep_device_destruct, sweep_device_set_motor_speed, Request,
      sweep_device_get_motor_ready, sweep_device_get_motor_speed, sweep_device_get_sample_rate,
      sweep_device_set_sample_rate, sweep_device_reset
<1>2. CASE ApiStep
  BY <1>2 DEF ApiStep, lineVars, RaiseFlag, write_command, device_write, SleepEnds, read_response,
      Flush, device_flush, LowerScanning, ClearQueue, SpawnWorker, FreeDevice
<1>3. CASE \E w \in Sessions : WorkerStep(w)
  BY <1>3, WorkerDoes DEF IInv, Works
<1>4. CASE GetScan \/ GetterTakes \/ UNCHANGED vars
  BY <1>4 DEF GetScan, GetterTakes, vars, lineVars
<1>5. CASE Sensor
  <2>1. LineTypes
    BY DEF IInv, Types, TypeOK, LineTypes
  <2>2. QED
    BY <1>5, <2>1, SensorDoes DEF Sensor
<1>6. QED
  BY <1>1, <1>2, <1>3, <1>4, <1>5 DEF Next

LEMMA InitiallyReported == Init => Reported
<1> SUFFICES ASSUME Init PROVE Reported
  OBVIOUS
<1>1. Idle /\ First = "none" /\ api.call = "none" /\ api.phase = "run" /\ object = "none"
  BY DEF Init, Idle, First
<1>2. QED
  BY <1>1 DEF Reported, Sincere, Done, At

\* What a call of the device reports is what it did: after a start without an
\* error the device is scanning and the sensor streams, after a set_motor_speed
\* without one the sensor has that speed, and after a construct or stop without
\* one no worker is left.  It holds whatever the sensor answers, when responses
\* are garbled, the motor is given up on or the sensor is reset meanwhile, as long
\* as the pause of stop_scanning is long enough.
THEOREM ReportsAreTrue ==
  Grace /\ (MayCorrupt => ChecksumsHold) => (Spec => []SuccessMeansDone)
<1> SUFFICES ASSUME Grace, Trusted PROVE Spec => []SuccessMeansDone
  BY DEF Trusted
<1> DEFINE J == plugged => Served /\ Reported
<1>1. Init => J
  BY InitiallyPromised, InitiallyReported
<1>2. IInv /\ IInv' /\ J /\ [Next]_vars => J'
  BY StaysGone, StepIsPromised, StepIsReported
<1>3. IInv /\ J => SuccessMeansDone
  <2> SUFFICES ASSUME IInv, Served, Reported, Idle, api.errors = 0, plugged PROVE SuccessMeansDone
    BY DEF SuccessMeansDone
  <2>1. First = "none"
    BY DEF First, Idle
  <2>2. ~is_scanning => Alive = {}
    BY DEF IInv, Talk, Workers
  <2>3. QED
    BY <2>1, <2>2 DEF SuccessMeansDone, Reported, Done
<1> HIDE DEF J
<1>4. QED
  BY Inductive, <1>1, <1>2, <1>3, PTL DEF Spec

-----------------------------------------------------------------------------
(* ---- where each byte of the stream is ---- *)

\* The numbers of bytes that whole packets have.
Whole == {q * ScanLen : q \in Nat}

LEMMA WholeNumbers ==
  /\ 0 \in Whole /\ Whole \subseteq Nat
  /\ \A K \in Whole : K + ScanLen \in Whole /\ (K < ScanLen => K = 0)
  /\ \A K \in Whole : K # 0 => K - ScanLen \in Whole /\ K >= ScanLen
<1>1. ScanLen \in Nat /\ ScanLen > 0
  BY LineAssumption
<1>2. 0 \in Whole
  <2>1. 0 * ScanLen = 0
    BY <1>1
  <2>2. QED
    BY <2>1 DEF Whole
<1>3. ASSUME NEW q \in Nat
      PROVE  /\ q * ScanLen \in Nat /\ q * ScanLen + ScanLen \in Whole
             /\ q # 0 => q * ScanLen - ScanLen \in Whole /\ q * ScanLen >= ScanLen
             /\ q = 0 => q * ScanLen = 0
  <2>1. q * ScanLen \in Nat /\ (q = 0 => q * ScanLen = 0)
    BY <1>1
  <2>2. (q + 1) * ScanLen = q * ScanLen + ScanLen /\ q + 1 \in Nat
    BY <1>1
  <2>3. ASSUME q # 0 PROVE q * ScanLen - ScanLen \in Whole /\ q * ScanLen >= ScanLen
    <3>1. PICK p \in Nat : q = p + 1
      BY <2>3
    <3>2. p * ScanLen \in Nat
      BY <1>1
    <3>3. q * ScanLen = p * ScanLen + ScanLen
      BY <1>1, <3>1
    <3>4. q * ScanLen - ScanLen = p * ScanLen /\ q * ScanLen >= ScanLen
      BY <1>1, <3>2, <3>3
    <3>5. QED
      BY <3>4 DEF Whole
  <2>4. QED
    BY <2>1, <2>2, <2>3 DEF Whole
<1>4. ASSUME NEW K \in Whole
      PROVE  /\ K \in Nat /\ K + ScanLen \in Whole /\ (K < ScanLen => K = 0)
             /\ K # 0 => K - ScanLen \in Whole /\ K >= ScanLen
  <2>1. PICK q \in Nat : K = q * ScanLen
    BY DEF Whole
  <2>2. /\ K \in Nat /\ K + ScanLen \in Whole /\ (q = 0 => K = 0)
        /\ q # 0 => K - ScanLen \in Whole /\ K >= ScanLen
    BY <1>3, <2>1
  <2>3. QED
    BY <1>1, <2>2
<1>5. QED
  BY <1>2, <1>4

\* What a reader sees from the first byte of a message on: what it has read of it,
\* what waits in the port, and what the sensor has still to send.
Spread(f, r, s) ==
  [k \in 1 .. Len(f) + Len(r) + Len(s) |->
     IF k <= Len(f) THEN f[k]
     ELSE IF k <= Len(f) + Len(r) THEN r[k - Len(f)] ELSE s[k - Len(f) - Len(r)]]
Contents(f) == Spread(f, rx, sensor.sending)

\* A byte is sent, or received: nothing moves.
LEMMA SpreadSends ==
  ASSUME NEW f \in Seq(Byte), NEW r \in Seq(Byte), NEW s \in Seq(Byte), s # <<>>
  PROVE  Spread(f, Append(r, Head(s)), Tail(s)) = Spread(f, r, s)
<1>1. PICK l, m, n \in Nat : l = Len(f) /\ m = Len(r) /\ n = Len(s) /\ n # 0
  BY EmptySeq
<1>2. PICK r2, s2 \in Seq(Byte) :
        /\ r2 = Append(r, Head(s)) /\ s2 = Tail(s) /\ Len(r2) = m + 1 /\ Len(s2) = n - 1
        /\ \A i \in 1 .. m : r2[i] = r[i]
        /\ r2[m + 1] = s[1]
        /\ \A i \in 1 .. n - 1 : s2[i] = s[i + 1]
  <2>1. /\ Append(r, Head(s)) \in Seq(Byte) /\ Len(Append(r, Head(s))) = m + 1
        /\ \A i \in 1 .. m : Append(r, Head(s))[i] = r[i]
        /\ Append(r, Head(s))[m + 1] = s[1]
    BY <1>1
  <2>2. /\ Tail(s) \in Seq(Byte) /\ Len(Tail(s)) = n - 1
        /\ \A i \in 1 .. n - 1 : Tail(s)[i] = s[i + 1]
    BY <1>1
  <2>3. QED
    BY <2>1, <2>2
<1>3. PICK t \in Nat : t = l + m + n /\ t = l + (m + 1) + (n - 1)
  BY <1>1
<1>4. ASSUME NEW k \in 1 .. t
      PROVE  (IF k <= l THEN f[k] ELSE IF k <= l + (m + 1) THEN r2[k - l] ELSE s2[k - l - (m + 1)])
             = (IF k <= l THEN f[k] ELSE IF k <= l + m THEN r[k - l] ELSE s[k - l - m])
  <2>1. CASE k <= l
    BY <2>1
  <2>2. CASE k > l /\ k <= l + m
    <3>1. k - l \in 1 .. m /\ k <= l + (m + 1)
      BY <2>2
    <3>2. QED
      BY <1>1, <1>2, <2>2, <3>1
  <2>3. CASE k = l + m + 1
    <3>1. k - l = m + 1 /\ k - l - m = 1 /\ ~(k <= l) /\ ~(k <= l + m) /\ k <= l + (m + 1)
      BY <2>3
    <3>2. QED
      BY <1>2, <3>1
  <2>4. CASE k > l + m + 1
    <3>1. /\ k - l - (m + 1) \in 1 .. n - 1 /\ (k - l - (m + 1)) + 1 = k - l - m
          /\ ~(k <= l) /\ ~(k <= l + m) /\ ~(k <= l + (m + 1))
      BY <1>3, <2>4
    <3>2. QED
      BY <1>2, <3>1
  <2>5. QED
    BY <2>1, <2>2, <2>3, <2>4
<1>5. Spread(f, r2, s2) =
        [k \in 1 .. t |-> IF k <= l THEN f[k] ELSE IF k <= l + (m + 1) THEN r2[k - l]
                          ELSE s2[k - l - (m + 1)]]
  BY <1>1, <1>2, <1>3 DEF Spread
<1>6. Spread(f, r, s) =
        [k \in 1 .. t |-> IF k <= l THEN f[k] ELSE IF k <= l + m THEN r[k - l] ELSE s[k - l - m]]
  BY <1>1, <1>3 DEF Spread
<1>7. Spread(f, r2, s2) = Spread(f, r, s)
  BY <1>4, <1>5, <1>6
<1>8. QED
  BY <1>2, <1>7

\* One read: so many bytes of what waits have been added to what has been read.
Taken(f, r, b, r2) ==
  /\ Len(b) + Len(r2) = Len(f) + Len(r) /\ Len(b) >= Len(f)
  /\ \A i \in 1 .. Len(f) : b[i] = f[i]
  /\ \A i \in 1 .. Len(b) : i > Len(f) => i - Len(f) \in 1 .. Len(r) /\ b[i] = r[i - Len(f)]
  /\ \A j \in 1 .. Len(r2) : r2[j] = r[j + (Len(b) - Len(f))]

LEMMA SpreadReads ==
  ASSUME NEW f \in Seq(Byte), NEW r \in Seq(Byte), NEW s \in Seq(Byte),
         NEW b \in Seq(Byte), NEW r2 \in Seq(Byte), Taken(f, r, b, r2)
  PROVE  Spread(b, r2, s) = Spread(f, r, s)
<1>0. /\ Len(b) + Len(r2) = Len(f) + Len(r) /\ Len(b) >= Len(f)
      /\ \A i \in 1 .. Len(f) : b[i] = f[i]
      /\ \A i \in 1 .. Len(b) : i > Len(f) => i - Len(f) \in 1 .. Len(r) /\ b[i] = r[i - Len(f)]
      /\ \A j \in 1 .. Len(r2) : r2[j] = r[j + (Len(b) - Len(f))]
  BY DEF Taken
<1>1. PICK l, m, n, p, q \in Nat : /\ l = Len(f) /\ m = Len(r) /\ n = Len(s) /\ p = Len(b) /\ q = Len(r2)
                                   /\ p + q = l + m /\ p >= l
  BY <1>0
<1>2. PICK t \in Nat : t = l + m + n /\ t = p + q + n
  <2>1. PICK v \in Nat : v = l + m
    OBVIOUS
  <2>2. p + q = v
    BY <1>1, <2>1
  <2>3. l + m + n = v + n /\ p + q + n = v + n
    BY <2>1, <2>2
  <2>4. QED
    BY <2>3
<1>3. ASSUME NEW k \in 1 .. t
      PROVE  (IF k <= p THEN b[k] ELSE IF k <= p + q THEN r2[k - p] ELSE s[k - p - q])
             = (IF k <= l THEN f[k] ELSE IF k <= l + m THEN r[k - l] ELSE s[k - l - m])
  <2>1. CASE k <= l
    <3>1. k \in 1 .. l /\ k <= p
      BY <1>1, <2>1
    <3>2. QED
      BY <1>0, <1>1, <2>1, <3>1
  <2>2. CASE k > l /\ k <= p
    <3>1. k \in 1 .. p /\ k <= l + m /\ ~(k <= l)
      BY <1>1, <2>2
    <3>2. b[k] = r[k - l]
      BY <1>0, <1>1, <2>2, <3>1
    <3>3. QED
      BY <2>2, <3>1, <3>2
  <2>3. CASE k > p /\ k <= p + q
    <3>1. k - p \in 1 .. q /\ (k - p) + (p - l) = k - l /\ k <= l + m /\ ~(k <= l) /\ ~(k <= p)
      BY <1>1, <2>3
    <3>2. r2[k - p] = r[k - l]
      BY <1>0, <1>1, <3>1
    <3>3. QED
      BY <2>3, <3>1, <3>2
  <2>4. CASE k > p + q
    <3>1. p + q = l + m /\ p >= l
      BY <1>1
    <3>2. k - p - q = k - (p + q) /\ k - l - m = k - (l + m)
      OBVIOUS
    <3>3. ~(k <= p) /\ ~(k <= p + q) /\ ~(k <= l) /\ ~(k <= l + m)
      BY <2>4, <3>1
    <3>4. QED
      BY <3>1, <3>2, <3>3
  <2>5. QED
    BY <2>1, <2>2, <2>3, <2>4
<1>4. Spread(b, r2, s) =
        [k \in 1 .. t |-> IF k <= p THEN b[k] ELSE IF k <= p + q THEN r2[k - p] ELSE s[k - p - q]]
  BY <1>1, <1>2 DEF Spread
<1>5. Spread(f, r, s) =
        [k \in 1 .. t |-> IF k <= l THEN f[k] ELSE IF k <= l + m THEN r[k - l] ELSE s[k - l - m]]
  BY <1>1, <1>2 DEF Spread
<1>6. QED
  BY <1>3, <1>4, <1>5

\* A message is put on the wire behind what is there.
LEMMA SpreadAdds ==
  ASSUME NEW f \in Seq(Byte), NEW r \in Seq(Byte), NEW s \in Seq(Byte)
  PROVE  /\ Len(Spread(f, r, <<>>)) = Len(f) + Len(r)
         /\ Len(Spread(f, r, s)) = Len(f) + Len(r) + Len(s)
         /\ \A k \in 1 .. Len(f) + Len(r) : Spread(f, r, s)[k] = Spread(f, r, <<>>)[k]
         /\ \A i \in 1 .. Len(s) : Spread(f, r, s)[Len(f) + Len(r) + i] = s[i]
<1>1. PICK l, m, n \in Nat : l = Len(f) /\ m = Len(r) /\ n = Len(s)
  OBVIOUS
<1>2. PICK e \in Seq(Byte) : e = <<>> /\ Len(e) = 0
  <2>1. <<>> \in Seq(Byte) /\ Len(<<>>) = 0
    OBVIOUS
  <2>2. QED
    BY <2>1
<1>3. PICK u, t \in Nat : u = l + m /\ t = u + n
  BY <1>1
<1>4. Spread(f, r, s) =
        [k \in 1 .. t |-> IF k <= l THEN f[k] ELSE IF k <= u THEN r[k - l] ELSE s[k - l - m]]
  BY <1>1, <1>3 DEF Spread
<1>5. Spread(f, r, e) =
        [k \in 1 .. u |-> IF k <= l THEN f[k] ELSE IF k <= u THEN r[k - l] ELSE e[k - l - m]]
  <2>1. u + 0 = u
    OBVIOUS
  <2>2. QED
    BY <1>1, <1>2, <1>3, <2>1 DEF Spread
<1>6. Len(Spread(f, r, e)) = u /\ Len(Spread(f, r, s)) = t
  BY <1>4, <1>5
<1>7. \A k \in 1 .. u : k \in 1 .. t /\ k <= u
  BY <1>3
<1>8. \A k \in 1 .. u : Spread(f, r, s)[k] = Spread(f, r, e)[k]
  BY <1>4, <1>5, <1>7
<1>9. \A i \in 1 .. n : u + i \in 1 .. t /\ ~(u + i <= u) /\ ~(u + i <= l) /\ (u + i) - l - m = i
  BY <1>1, <1>3
<1>10. \A i \in 1 .. n : Spread(f, r, s)[u + i] = s[i]
  BY <1>4, <1>9
<1>11. QED
  BY <1>1, <1>2, <1>3, <1>6, <1>8, <1>10

\* A message has been read as a whole: the next one begins behind it.
LEMMA SpreadCuts ==
  ASSUME NEW b \in Seq(Byte), NEW r \in Seq(Byte), NEW s \in Seq(Byte)
  PROVE  /\ Len(Spread(b, r, s)) = Len(b) + Len(Spread(<<>>, r, s))
         /\ Len(Spread(<<>>, r, s)) = Len(r) + Len(s)
         /\ \A i \in 1 .. Len(b) : Spread(b, r, s)[i] = b[i]
         /\ \A k \in 1 .. Len(r) + Len(s) : Spread(<<>>, r, s)[k] = Spread(b, r, s)[Len(b) + k]
<1>1. PICK l, m, n \in Nat : l = Len(b) /\ m = Len(r) /\ n = Len(s)
  OBVIOUS
<1>2. PICK e \in Seq(Byte) : e = <<>> /\ Len(e) = 0
  <2>1. <<>> \in Seq(Byte) /\ Len(<<>>) = 0
    OBVIOUS
  <2>2. QED
    BY <2>1
<1>3. PICK u, t \in Nat : /\ u = m + n /\ t = l + u
                          /\ l + m + n = t /\ 0 + m + n = u /\ 0 + m = m
  <2>1. /\ m + n \in Nat /\ l + (m + n) \in Nat /\ l + m + n = l + (m + n)
        /\ 0 + m + n = m + n /\ 0 + m = m
    OBVIOUS
  <2>2. QED
    BY <2>1
<1>4. Spread(b, r, s) =
        [k \in 1 .. t |-> IF k <= l THEN b[k] ELSE IF k <= l + m THEN r[k - l] ELSE s[k - l - m]]
  BY <1>1, <1>3 DEF Spread
<1>5. Spread(e, r, s) =
        [k \in 1 .. u |-> IF k <= 0 THEN e[k] ELSE IF k <= m THEN r[k - 0] ELSE s[k - 0 - m]]
  BY <1>1, <1>2, <1>3 DEF Spread
<1>6. Len(Spread(b, r, s)) = t /\ Len(Spread(e, r, s)) = u
  BY <1>4, <1>5
<1>7. \A i \in 1 .. l : i \in 1 .. t /\ i <= l
  BY <1>3
<1>8. \A i \in 1 .. l : Spread(b, r, s)[i] = b[i]
  BY <1>4, <1>7
<1>9. ASSUME NEW k \in 1 .. u PROVE Spread(e, r, s)[k] = Spread(b, r, s)[l + k]
  <2>1. /\ l + k \in 1 .. t /\ ~(l + k <= l) /\ ~(k <= 0)
        /\ l + k <= l + m <=> k <= m
        /\ (l + k) - l = k /\ k - 0 = k /\ (l + k) - l - m = k - 0 - m
    BY <1>1, <1>3
  <2>2. Spread(b, r, s)[l + k] = IF k <= m THEN r[k] ELSE s[k - 0 - m]
    BY <1>4, <2>1
  <2>3. Spread(e, r, s)[k] = IF k <= m THEN r[k] ELSE s[k - 0 - m]
    BY <1>5, <2>1
  <2>4. QED
    BY <2>2, <2>3
<1>10. QED
  BY <1>1, <1>2, <1>3, <1>6, <1>8, <1>9

-----------------------------------------------------------------------------
(* ---- a stream of whole packets ---- *)

\* A response to DS of H bytes, or none of it, and then K bytes of packets.
Streamed(s, H, K) ==
  /\ \A k \in 1 .. H : s[k] = <<"DS", 0, k>>
  /\ \A k \in 1 .. K : \E i \in 1 .. ScanLen : s[H + k] = <<"scan", 0, i>> /\ k - i \in Whole

IsStream(s, H) == \E K \in Whole : Len(s) = H + K /\ Streamed(s, H, K)

\* The same, as it ends: behind the packets is the response to DX.
IsEbb(s) == \E K \in Whole : Len(s) = K + HeaderLen /\ Streamed(s, 0, K)

LEMMA StreamBegins ==
  ASSUME NEW s, s = Bytes("DS", 0) PROVE IsStream(s, HeaderLen)
<1>1. Length("DS") = HeaderLen /\ HeaderLen \in Nat /\ 0 \in Whole
  BY LineAssumption, WholeNumbers DEF Length
<1>2. s = [i \in 1 .. HeaderLen |-> <<"DS", 0, i>>]
  BY <1>1 DEF Bytes
<1>3. Len(s) = HeaderLen + 0 /\ \A i \in 1 .. HeaderLen : s[i] = <<"DS", 0, i>>
  BY <1>1, <1>2
<1>4. QED
  BY <1>1, <1>3 DEF IsStream, Streamed

\* One more packet.
LEMMA StreamGrows ==
  ASSUME NEW s, NEW H \in Nat, IsStream(s, H), NEW s2, Len(s2) = Len(s) + ScanLen,
         \A k \in 1 .. Len(s) : s2[k] = s[k],
         \A i \in 1 .. ScanLen : s2[Len(s) + i] = <<"scan", 0, i>>
  PROVE  IsStream(s2, H)
<1>1. PICK K \in Whole : Len(s) = H + K /\ Streamed(s, H, K)
  BY DEF IsStream
<1>2. K \in Nat /\ K + ScanLen \in Whole /\ ScanLen \in Nat
  BY WholeNumbers, LineAssumption
<1>3. Len(s2) = H + (K + ScanLen)
  BY <1>1, <1>2
<1>4. \A k \in 1 .. H : k \in 1 .. Len(s)
  BY <1>1, <1>2
<1>5. \A k \in 1 .. H : s2[k] = <<"DS", 0, k>>
  BY <1>1, <1>4 DEF Streamed
<1>6. ASSUME NEW k \in 1 .. K + ScanLen
      PROVE  \E i \in 1 .. ScanLen : s2[H + k] = <<"scan", 0, i>> /\ k - i \in Whole
  <2>1. CASE k <= K
    <3>1. k \in 1 .. K /\ H + k \in 1 .. Len(s)
      BY <1>1, <1>2, <2>1
    <3>2. QED
      BY <1>1, <3>1 DEF Streamed
  <2>2. CASE k > K
    <3>1. PICK i \in 1 .. ScanLen : i = k - K
      BY <1>2, <2>2
    <3>2. H + k = Len(s) + i /\ k - i = K
      BY <1>1, <1>2, <3>1
    <3>3. QED
      BY <3>1, <3>2
  <2>3. QED
    BY <1>2, <2>1, <2>2
<1>7. QED
  BY <1>2, <1>3, <1>5, <1>6 DEF IsStream, Streamed

\* The response to DX follows.
LEMMA StreamEnds ==
  ASSUME NEW s, IsStream(s, 0), NEW s2, Len(s2) = Len(s) + HeaderLen,
         \A k \in 1 .. Len(s) : s2[k] = s[k]
  PROVE  IsEbb(s2)
<1>1. PICK K \in Whole : Len(s) = 0 + K /\ Streamed(s, 0, K)
  BY DEF IsStream
<1>2. K \in Nat /\ Len(s) = K
  BY <1>1, WholeNumbers
<1>3. \A k \in 1 .. K : 0 + k = k
  BY <1>2
<1>4. Streamed(s2, 0, K)
  <2>1. ASSUME NEW k \in 1 .. K
        PROVE  \E i \in 1 .. ScanLen : s2[0 + k] = <<"scan", 0, i>> /\ k - i \in Whole
    <3>1. PICK i \in 1 .. ScanLen : s[0 + k] = <<"scan", 0, i>> /\ k - i \in Whole
      BY <1>1 DEF Streamed
    <3>2. s2[0 + k] = s[0 + k]
      BY <1>2, <1>3
    <3>3. QED
      BY <3>1, <3>2
  <2>2. QED
    BY <2>1 DEF Streamed
<1>5. QED
  BY <1>2, <1>4 DEF IsEbb

\* Where a whole packet can be read, it is one; and what follows it is a stream again.
LEMMA PacketsFirst ==
  ASSUME NEW s, NEW K \in Whole, Streamed(s, 0, K), K # 0
  PROVE  /\ \A i \in 1 .. ScanLen : s[i] = <<"scan", 0, i>>
         /\ \A s2 : (\A k \in 1 .. K - ScanLen : s2[k] = s[ScanLen + k]) => Streamed(s2, 0, K - ScanLen)
<1>1. K \in Nat /\ K - ScanLen \in Whole /\ K >= ScanLen /\ ScanLen \in Nat /\ ScanLen > 0
  BY WholeNumbers, LineAssumption
<1>2. \A k \in 1 .. K : \E i \in 1 .. ScanLen : s[k] = <<"scan", 0, i>> /\ k - i \in Whole
  <2>1. \A k \in 1 .. K : 0 + k = k
    BY <1>1
  <2>2. QED
    BY <2>1 DEF Streamed
<1>3. ASSUME NEW k \in 1 .. ScanLen PROVE s[k] = <<"scan", 0, k>>
  <2>1. k \in 1 .. K
    BY <1>1
  <2>2. PICK i \in 1 .. ScanLen : s[k] = <<"scan", 0, i>> /\ k - i \in Whole
    BY <1>2, <2>1
  <2>3. k - i < ScanLen
    BY <1>1
  <2>4. k - i = 0
    BY <2>2, <2>3, WholeNumbers
  <2>5. QED
    BY <1>1, <2>2, <2>4
<1>4. ASSUME NEW s2, \A k \in 1 .. K - ScanLen : s2[k] = s[ScanLen + k]
      PROVE  Streamed(s2, 0, K - ScanLen)
  <2>1. ASSUME NEW k \in 1 .. K - ScanLen
        PROVE  \E i \in 1 .. ScanLen : s2[0 + k] = <<"scan", 0, i>> /\ k - i \in Whole
    <3>1. ScanLen + k \in 1 .. K /\ 0 + k = k
      BY <1>1
    <3>2. PICK i \in 1 .. ScanLen : s[ScanLen + k] = <<"scan", 0, i>> /\ (ScanLen + k) - i \in Whole
      BY <1>2, <3>1
    <3>3. (ScanLen + k) - i # 0 /\ ((ScanLen + k) - i) - ScanLen = k - i
      BY <1>1
    <3>4. k - i \in Whole
      BY <3>2, <3>3, WholeNumbers
    <3>5. QED
      BY <1>4, <3>1, <3>2, <3>4
  <2>2. QED
    BY <2>1 DEF Streamed
<1>5. QED
  BY <1>3, <1>4

LEMMA StreamRead ==
  ASSUME NEW s, Len(s) >= ScanLen, HeaderLen < ScanLen, IsStream(s, 0) \/ IsEbb(s)
  PROVE  /\ \A i \in 1 .. ScanLen : s[i] = <<"scan", 0, i>>
         /\ \A s2 : Len(s2) = Len(s) - ScanLen /\ (\A k \in 1 .. Len(s2) : s2[k] = s[ScanLen + k]) =>
              (IsStream(s, 0) => IsStream(s2, 0)) /\ (IsEbb(s) => IsEbb(s2))
<1>1. ScanLen \in Nat /\ ScanLen > 0 /\ HeaderLen \in Nat
  BY LineAssumption
<1>2. ASSUME NEW K \in Whole, Len(s) = K \/ Len(s) = K + HeaderLen, Streamed(s, 0, K)
      PROVE  /\ K # 0 /\ K - ScanLen \in Whole /\ K \in Nat
             /\ \A i \in 1 .. ScanLen : s[i] = <<"scan", 0, i>>
             /\ \A s2 : (\A k \in 1 .. K - ScanLen : s2[k] = s[ScanLen + k]) => Streamed(s2, 0, K - ScanLen)
  <2>1. K \in Nat /\ K # 0
    BY <1>1, <1>2, WholeNumbers
  <2>2. QED
    BY <1>2, <2>1, PacketsFirst, WholeNumbers
<1>3. ASSUME IsStream(s, 0)
      PROVE  /\ \A i \in 1 .. ScanLen : s[i] = <<"scan", 0, i>>
             /\ \A s2 : Len(s2) = Len(s) - ScanLen /\ (\A k \in 1 .. Len(s2) : s2[k] = s[ScanLen + k]) =>
                  IsStream(s2, 0)
  <2>1. PICK K \in Whole : Len(s) = 0 + K /\ Streamed(s, 0, K)
    BY <1>3 DEF IsStream
  <2>2. K \in Nat /\ Len(s) = K
    BY <2>1, WholeNumbers
  <2>3. /\ K - ScanLen \in Whole
        /\ \A i \in 1 .. ScanLen : s[i] = <<"scan", 0, i>>
        /\ \A s2 : (\A k \in 1 .. K - ScanLen : s2[k] = s[ScanLen + k]) => Streamed(s2, 0, K - ScanLen)
    BY <1>2, <2>1, <2>2
  <2>4. K - ScanLen = 0 + (K - ScanLen)
    BY <1>1, <2>2
  <2>5. ASSUME NEW s2, Len(s2) = Len(s) - ScanLen, \A k \in 1 .. Len(s2) : s2[k] = s[ScanLen + k]
        PROVE  IsStream(s2, 0)
    BY <2>2, <2>3, <2>4, <2>5 DEF IsStream
  <2>6. QED
    BY <2>3, <2>5
<1>4. ASSUME IsEbb(s)
      PROVE  /\ \A i \in 1 .. ScanLen : s[i] = <<"scan", 0, i>>
             /\ \A s2 : Len(s2) = Len(s) - ScanLen /\ (\A k \in 1 .. Len(s2) : s2[k] = s[ScanLen + k]) =>
                  IsEbb(s2)
  <2>1. PICK K \in Whole : Len(s) = K + HeaderLen /\ Streamed(s, 0, K)
    BY <1>4 DEF IsEbb
  <2>2. /\ K - ScanLen \in Whole /\ K \in Nat
        /\ \A i \in 1 .. ScanLen : s[i] = <<"scan", 0, i>>
        /\ \A s2 : (\A k \in 1 .. K - ScanLen : s2[k] = s[ScanLen + k]) => Streamed(s2, 0, K - ScanLen)
    BY <1>2, <2>1
  <2>3. K - ScanLen \in Nat
    BY <2>2, WholeNumbers
  <2>4. ASSUME NEW s2, Len(s2) = Len(s) - ScanLen, \A k \in 1 .. Len(s2) : s2[k] = s[ScanLen + k]
        PROVE  IsEbb(s2)
    <3>1. Len(s2) = (K - ScanLen) + HeaderLen
      BY <1>1, <2>1, <2>2, <2>4
    <3>2. \A k \in 1 .. K - ScanLen : k \in 1 .. Len(s2)
      BY <1>1, <2>3, <3>1
    <3>3. Streamed(s2, 0, K - ScanLen)
      BY <2>2, <2>4, <3>2
    <3>4. QED
      BY <2>2, <3>1, <3>3 DEF IsEbb
  <2>5. QED
    BY <2>2, <2>4
<1>5. QED
  BY <1>3, <1>4

\* The response to DS has been read.
LEMMA HeaderRead ==
  ASSUME NEW s, IsStream(s, HeaderLen)
  PROVE  /\ \A i \in 1 .. HeaderLen : s[i] = <<"DS", 0, i>>
         /\ \A s2 : Len(s) = HeaderLen + Len(s2) /\ Len(s2) \in Nat
                    /\ (\A k \in 1 .. Len(s2) : s2[k] = s[HeaderLen + k]) => IsStream(s2, 0)
<1>1. PICK K \in Whole : Len(s) = HeaderLen + K /\ Streamed(s, HeaderLen, K)
  BY DEF IsStream
<1>2. HeaderLen \in Nat /\ K \in Nat
  BY WholeNumbers, LineAssumption
<1>3. ASSUME NEW s2, Len(s) = HeaderLen + Len(s2), Len(s2) \in Nat,
             \A k \in 1 .. Len(s2) : s2[k] = s[HeaderLen + k]
      PROVE  IsStream(s2, 0)
  <2>1. Len(s2) = K /\ K = 0 + K
    BY <1>1, <1>2, <1>3
  <2>2. \A k \in 1 .. K : 0 + k = k
    BY <1>2
  <2>3. Streamed(s2, 0, K)
    <3>1. ASSUME NEW k \in 1 .. K
          PROVE  \E i \in 1 .. ScanLen : s2[0 + k] = <<"scan", 0, i>> /\ k - i \in Whole
      <4>1. PICK i \in 1 .. ScanLen : s[HeaderLen + k] = <<"scan", 0, i>> /\ k - i \in Whole
        BY <1>1 DEF Streamed
      <4>2. s2[0 + k] = s[HeaderLen + k]
        BY <1>3, <2>1, <2>2
      <4>3. QED
        BY <4>1, <4>2
    <3>2. QED
      BY <3>1 DEF Streamed
  <2>4. QED
    BY <2>1, <2>3 DEF IsStream
<1>4. QED
  BY <1>1, <1>3 DEF Streamed

-----------------------------------------------------------------------------
(* ---- the stream as the sensor and its readers go on ---- *)

\* What comes after so many bytes of a message is a response to DS, if any of it
\* is left, and whole packets; or whole packets and the response to DX.
Streaming(f, H) == sensor.streaming /\ IsStream(Contents(f), H)
Ebbing(f) == ~sensor.streaming /\ sensor.inbox = <<>> /\ IsEbb(Contents(f))

LEMMA MessageAdds ==
  ASSUME NEW f \in Seq(Byte), NEW r \in Seq(Byte), NEW c \in Responding \cup {"scan"}, NEW v \in Nat
  PROVE  /\ Len(Spread(f, r, Bytes(c, v))) = Len(Spread(f, r, <<>>)) + Length(c)
         /\ \A k \in 1 .. Len(Spread(f, r, <<>>)) : Spread(f, r, Bytes(c, v))[k] = Spread(f, r, <<>>)[k]
         /\ \A i \in 1 .. Length(c) : Spread(f, r, Bytes(c, v))[Len(Spread(f, r, <<>>)) + i] = <<c, v, i>>
<1>1. PICK n \in Nat : n = Length(c)
  BY Lengths
<1>2. PICK s \in Seq(Byte) : s = Bytes(c, v) /\ Len(s) = n
  BY <1>1, Message
<1>3. \A i \in 1 .. n : s[i] = <<c, v, i>>
  BY <1>1, <1>2 DEF Bytes
<1>4. PICK u, before, after : u \in Nat /\
        u = Len(f) + Len(r) /\ before = Spread(f, r, <<>>) /\ after = Spread(f, r, s)
  OBVIOUS
<1>5. /\ Len(before) = Len(f) + Len(r)
      /\ Len(after) = Len(f) + Len(r) + Len(s)
      /\ \A k \in 1 .. Len(f) + Len(r) : after[k] = before[k]
      /\ \A i \in 1 .. Len(s) : after[Len(f) + Len(r) + i] = s[i]
  <2>1. /\ Len(Spread(f, r, <<>>)) = Len(f) + Len(r)
        /\ Len(Spread(f, r, s)) = Len(f) + Len(r) + Len(s)
        /\ \A k \in 1 .. Len(f) + Len(r) : Spread(f, r, s)[k] = Spread(f, r, <<>>)[k]
        /\ \A i \in 1 .. Len(s) : Spread(f, r, s)[Len(f) + Len(r) + i] = s[i]
    BY ONLY f \in Seq(Byte), r \in Seq(Byte), s \in Seq(Byte), SpreadAdds
  <2>2. QED
    BY ONLY <1>4, <2>1
<1>6. /\ Len(before) = u /\ Len(after) = u + n
      /\ \A k \in 1 .. u : after[k] = before[k]
      /\ \A i \in 1 .. n : after[u + i] = s[i]
  BY ONLY <1>2, <1>4, <1>5
<1>7. /\ Len(after) = Len(before) + Length(c)
      /\ \A k \in 1 .. Len(before) : after[k] = before[k]
      /\ \A i \in 1 .. Length(c) : after[Len(before) + i] = <<c, v, i>>
  BY ONLY <1>1, <1>3, <1>6
<1>8. QED
  BY <1>2, <1>4, <1>7

\* The sensor goes on streaming.
LEMMA StreamFlows ==
  ASSUME LineTypes, ~MayCorrupt, NEW f \in Seq(Byte), NEW H \in Nat, Streaming(f, H),
         Begins \/ Transmits \/ Stabilizes \/ Restarts
  PROVE  sensor'.streaming /\ IsStream(Spread(f, rx', sensor'.sending), H)
<1>1. PICK r, s \in Seq(Byte) : r = rx /\ s = sensor.sending
  BY DEF LineTypes, SensorState
<1>2. sensor.streaming /\ IsStream(Spread(f, r, s), H)
  BY <1>1 DEF Streaming, Contents
<1>3. CASE Begins
  <2>1. s = <<>> /\ rx' = r /\ sensor'.sending = Bytes("scan", 0) /\ sensor'.streaming
    BY <1>1, <1>2, <1>3 DEF Begins
  <2>2. /\ Len(Spread(f, r, Bytes("scan", 0))) = Len(Spread(f, r, <<>>)) + Length("scan")
        /\ \A k \in 1 .. Len(Spread(f, r, <<>>)) : Spread(f, r, Bytes("scan", 0))[k] = Spread(f, r, <<>>)[k]
        /\ \A i \in 1 .. Length("scan") :
             Spread(f, r, Bytes("scan", 0))[Len(Spread(f, r, <<>>)) + i] = <<"scan", 0, i>>
    <3>1. "scan" \in Responding \cup {"scan"} /\ 0 \in Nat
      OBVIOUS
    <3>2. QED
      BY ONLY <3>1, f \in Seq(Byte), r \in Seq(Byte), MessageAdds
  <2>3. Length("scan") = ScanLen
    BY DEF Length
  <2>4. PICK before, after : before = Spread(f, r, <<>>) /\ after = Spread(f, r, Bytes("scan", 0))
    OBVIOUS
  <2>5. IsStream(before, H)
    BY <1>2, <2>1, <2>4
  <2>6. IsStream(after, H)
    BY <2>2, <2>3, <2>4, <2>5, StreamGrows
  <2>7. QED
    BY <2>1, <2>4, <2>6
<1>4. CASE Transmits
  BY <1>1, <1>2, <1>4, SpreadSends DEF Transmits
<1>5. CASE Stabilizes \/ Restarts
  BY <1>1, <1>2, <1>5 DEF Stabilizes, Restarts
<1>6. QED
  BY <1>3, <1>4, <1>5

\* What is left of a box that holds one thing.
LEMMA TailOfOne ==
  ASSUME NEW S, NEW box \in Seq(S), Len(box) = 1 PROVE Tail(box) = <<>>
<1>1. Tail(box) \in Seq(S) /\ Len(Tail(box)) = 0
  OBVIOUS
<1>2. QED
  BY <1>1, EmptySeq

\* The sensor acts on DX: its response is the last that comes.
LEMMA StreamTurns ==
  ASSUME LineTypes, ~MayCorrupt, NEW f \in Seq(Byte), Streaming(f, 0),
         Responds, Waiting(1) = "DX", Len(sensor.inbox) = 1
  PROVE  ~sensor'.streaming /\ sensor'.inbox = <<>> /\ IsEbb(Spread(f, rx', sensor'.sending))
<1>1. PICK r \in Seq(Byte) : r = rx /\ rx' = r /\ sensor.sending = <<>>
  BY DEF LineTypes, Responds
<1>2. PICK before : before = Spread(f, r, <<>>) /\ IsStream(before, 0)
  BY <1>1 DEF Streaming, Contents
<1>3. sensor'.sending = Bytes("DX", 0)
  <2>1. Answer("DX") = 0
    BY DEF Answer
  <2>2. QED
    BY <2>1 DEF Responds
<1>4. "DX" \in Responding /\ Length("DX") = HeaderLen
  BY DEF Responding, Commands, Length
<1>5. PICK after : after = Spread(f, r, Bytes("DX", 0))
  OBVIOUS
<1>6. /\ Len(after) = Len(before) + HeaderLen
      /\ \A k \in 1 .. Len(before) : after[k] = before[k]
  BY <1>2, <1>4, <1>5, MessageAdds
<1>7. IsEbb(after)
  BY <1>2, <1>6, StreamEnds
<1>8. ~sensor'.streaming /\ sensor'.inbox = <<>>
  <2>1. Acted(sensor, sensor', "DX") /\ sensor.inbox # <<>>
    BY DEF Responds, Obeyed
  <2>2. sensor'.inbox = Tail(sensor.inbox) /\ ~sensor'.streaming
    BY <2>1 DEF Acted
  <2>3. PICK S, box : S = Commands \X (0 .. 10) /\ box = sensor.inbox /\ box \in Seq(S) /\ Len(box) = 1
    BY DEF LineTypes, SensorState
  <2>4. Tail(box) = <<>>
    BY <2>3, TailOfOne
  <2>5. QED
    BY <2>2, <2>3, <2>4
<1>9. QED
  BY <1>1, <1>3, <1>5, <1>7, <1>8

\* What is on its way after DX comes as it is.
LEMMA EbbFlows ==
  ASSUME LineTypes, NEW f \in Seq(Byte), Ebbing(f),
         Responds \/ Begins \/ Transmits \/ Stabilizes \/ Restarts
  PROVE  ~sensor'.streaming /\ sensor'.inbox = <<>> /\ IsEbb(Spread(f, rx', sensor'.sending))
<1>1. PICK r, s \in Seq(Byte) : r = rx /\ s = sensor.sending
  BY DEF LineTypes, SensorState
<1>2. ~sensor.streaming /\ sensor.inbox = <<>> /\ IsEbb(Spread(f, r, s))
  BY <1>1 DEF Ebbing, Contents
<1>3. CASE Transmits
  BY <1>1, <1>2, <1>3, SpreadSends DEF Transmits
<1>4. CASE Stabilizes \/ Restarts
  BY <1>1, <1>2, <1>4 DEF Stabilizes, Restarts
<1>5. QED
  BY <1>2, <1>3, <1>4 DEF Responds, Begins

\* A message alone on the line.
LEMMA OnlyMessage ==
  ASSUME NEW c \in Responding, NEW v \in Nat
  PROVE  Spread(<<>>, <<>>, Bytes(c, v)) = Bytes(c, v)
<1>1. PICK n \in Nat : n = Length(c)
  BY Lengths
<1>2. PICK s \in Seq(Byte) : s = Bytes(c, v) /\ Len(s) = n
  BY <1>1, Message
<1>3. PICK e \in Seq(Byte) : e = <<>> /\ Len(e) = 0
  <2>1. <<>> \in Seq(Byte) /\ Len(<<>>) = 0
    OBVIOUS
  <2>2. QED
    BY <2>1
<1>4. Spread(e, e, s) = [k \in 1 .. n |-> IF k <= 0 THEN e[k] ELSE IF k <= 0 THEN e[k - 0] ELSE s[k - 0 - 0]]
  <2>1. 0 + 0 = 0 /\ 0 + n = n
    OBVIOUS
  <2>2. QED
    BY <1>2, <1>3, <2>1 DEF Spread
<1>5. \A k \in 1 .. n : ~(k <= 0) /\ k - 0 - 0 = k
  OBVIOUS
<1>6. Spread(e, e, s) = [k \in 1 .. n |-> s[k]]
  BY <1>4, <1>5
<1>7. [k \in 1 .. n |-> s[k]] = [i \in 1 .. n |-> <<c, v, i>>]
  BY <1>1, <1>2 DEF Bytes
<1>8. QED
  BY <1>1, <1>2, <1>3, <1>6, <1>7 DEF Bytes

-----------------------------------------------------------------------------
(* ---- who reads it ---- *)

\* The bytes of a message that are read as a whole are the message.
LEMMA WholeMessage ==
  ASSUME NEW c \in Responding \cup {"scan"}, NEW v \in Nat, NEW b \in Seq(Byte), Len(b) = Length(c),
         \A i \in 1 .. Length(c) : b[i] = <<c, v, i>>
  PROVE  b = Bytes(c, v)
<1>1. PICK m \in Seq(Byte) : m = Bytes(c, v) /\ Len(m) = Length(c)
  BY Message
<1>2. \A i \in 1 .. Len(m) : m[i] = <<c, v, i>>
  BY <1>1 DEF Bytes
<1>3. Len(b) = Len(m) /\ \A i \in 1 .. Len(m) : b[i] = m[i]
  BY <1>1, <1>2
<1>4. b = m
  BY ONLY <1>3, b \in Seq(Byte), m \in Seq(Byte), SeqEqual
<1>5. QED
  BY <1>1, <1>4

\* A response, alone on the line, that the client has read as a whole.
LEMMA ReplyIsRead ==
  ASSUME NEW c \in Responding, NEW v \in Nat, NEW b \in Seq(Byte), NEW r \in Seq(Byte), NEW s \in Seq(Byte),
         Spread(b, r, s) = Bytes(c, v), Len(b) = Length(c)
  PROVE  b = Bytes(c, v) /\ IsResponse(b, c) /\ b[1][2] = v
<1>1. PICK n \in Nat : n = Length(c) /\ n > 0
  BY Lengths
<1>2. \A i \in 1 .. n : Bytes(c, v)[i] = <<c, v, i>>
  BY <1>1 DEF Bytes
<1>3. \A i \in 1 .. n : Spread(b, r, s)[i] = b[i]
  <2>1. \A i \in 1 .. Len(b) : Spread(b, r, s)[i] = b[i]
    BY SpreadCuts
  <2>2. QED
    BY <1>1, <2>1
<1>4. \A i \in 1 .. n : b[i] = <<c, v, i>>
  BY <1>2, <1>3
<1>5. b = Bytes(c, v)
  BY <1>1, <1>4, WholeMessage
<1>6. b[1][2] = v
  BY <1>1, <1>4
<1>7. QED
  BY <1>5, <1>6 DEF IsResponse

\* What the client reads is the beginning of what was on its way.
LEMMA ClientsView ==
  ASSUME LineTypes, api.got \in Seq(Byte), NEW b \in Seq(Byte), Reads(b)
  PROVE  Spread(b, rx', sensor.sending) = Contents(api.got)
<1>1. PICK r, s, f \in Seq(Byte) : r = rx /\ s = sensor.sending /\ f = api.got
  BY DEF LineTypes, SensorState
<1>2. PICK r2 \in Seq(Byte) : r2 = rx'
  BY DEF Reads
<1>3. Taken(f, r, b, r2)
  BY <1>1, <1>2 DEF Reads, Taken
<1>4. Spread(b, r2, s) = Spread(f, r, s)
  BY <1>3, SpreadReads
<1>5. QED
  BY <1>1, <1>2, <1>4 DEF Contents

\* The response to DS, with packets behind it, that has been read as a whole.
LEMMA StartIsRead ==
  ASSUME NEW b \in Seq(Byte), NEW r \in Seq(Byte), NEW s \in Seq(Byte),
         IsStream(Spread(b, r, s), HeaderLen), Len(b) = HeaderLen
  PROVE  b = Bytes("DS", 0) /\ IsResponse(b, "DS") /\ b[1][2] = 0 /\ IsStream(Spread(<<>>, r, s), 0)
<1>1. HeaderLen \in Nat /\ HeaderLen > 0 /\ Length("DS") = HeaderLen /\ "DS" \in Responding
  BY LineAssumption DEF Length, Responding, Commands
<1>2. PICK all, rest : all = Spread(b, r, s) /\ rest = Spread(<<>>, r, s)
  OBVIOUS
<1>3. /\ Len(all) = HeaderLen + Len(rest) /\ Len(rest) \in Nat
      /\ \A i \in 1 .. HeaderLen : all[i] = b[i]
      /\ \A k \in 1 .. Len(rest) : rest[k] = all[HeaderLen + k]
  <2>1. /\ Len(all) = Len(b) + Len(rest)
        /\ Len(rest) = Len(r) + Len(s)
        /\ \A i \in 1 .. Len(b) : all[i] = b[i]
        /\ \A k \in 1 .. Len(r) + Len(s) : rest[k] = all[Len(b) + k]
    <3>1. /\ Len(Spread(b, r, s)) = Len(b) + Len(Spread(<<>>, r, s))
          /\ Len(Spread(<<>>, r, s)) = Len(r) + Len(s)
          /\ \A i \in 1 .. Len(b) : Spread(b, r, s)[i] = b[i]
          /\ \A k \in 1 .. Len(r) + Len(s) : Spread(<<>>, r, s)[k] = Spread(b, r, s)[Len(b) + k]
      BY ONLY b \in Seq(Byte), r \in Seq(Byte), s \in Seq(Byte), SpreadCuts
    <3>2. QED
      BY ONLY <1>2, <3>1
  <2>2. Len(r) + Len(s) \in Nat
    OBVIOUS
  <2>3. QED
    BY <2>1, <2>2
<1>4. IsStream(all, HeaderLen)
  BY <1>2
<1>5. /\ \A i \in 1 .. HeaderLen : all[i] = <<"DS", 0, i>>
      /\ IsStream(rest, 0)
  BY <1>3, <1>4, HeaderRead
<1>6. \A i \in 1 .. HeaderLen : b[i] = <<"DS", 0, i>>
  BY <1>3, <1>5
<1>7. b = Bytes("DS", 0)
  BY <1>1, <1>6, WholeMessage
<1>8. b[1][2] = 0
  BY <1>1, <1>6
<1>9. QED
  BY <1>2, <1>5, <1>7, <1>8 DEF IsResponse

\* A worker that has so many bytes reads on.
LEMMA WorkersView ==
  ASSUME LineTypes, HeaderLen < ScanLen, NEW f \in Seq(Byte), Len(f) < ScanLen,
         NEW b, b = Received(f, ScanLen), rx' = AfterRead(f, ScanLen),
         IsStream(Contents(f), 0) \/ IsEbb(Contents(f))
  PROVE  /\ b \in Seq(Byte) /\ rx' \in Seq(Byte)
         /\ Spread(b, rx', sensor.sending) = Contents(f)
         /\ Len(b) = ScanLen =>
              /\ b = Packet
              /\ IsStream(Contents(f), 0) => IsStream(Spread(<<>>, rx', sensor.sending), 0)
              /\ IsEbb(Contents(f)) => IsEbb(Spread(<<>>, rx', sensor.sending))
<1>1. ScanLen \in Nat /\ ScanLen > 0 /\ Length("scan") = ScanLen
  BY LineAssumption DEF Length
<1>2. PICK r, s \in Seq(Byte) : r = rx /\ s = sensor.sending
  BY DEF LineTypes, SensorState
<1>3. PICK r2 \in Seq(Byte) : r2 = AfterRead(f, ScanLen) /\ b \in Seq(Byte) /\ Len(b) + Len(r2) = Len(f) + Len(r)
  BY <1>1, <1>2, ReadBytes
<1>4. Taken(f, r, b, r2)
  <2>1. /\ Len(b) >= Len(f)
        /\ \A i \in 1 .. Len(f) : b[i] = f[i]
        /\ \A i \in 1 .. Len(b) : i > Len(f) => i - Len(f) \in 1 .. Len(r) /\ b[i] = r[i - Len(f)]
        /\ \A j \in 1 .. Len(r2) : r2[j] = r[j + (Len(b) - Len(f))]
    <3>1. LET bytes == Received(f, ScanLen)
              after == AfterRead(f, ScanLen)
          IN  /\ \A i \in 1 .. Len(f) : bytes[i] = f[i]
              /\ \A i \in 1 .. Len(bytes) : i > Len(f) =>
                   i - Len(f) \in 1 .. Len(rx) /\ bytes[i] = rx[i - Len(f)]
              /\ \A j \in 1 .. Len(after) :
                   j + (Len(bytes) - Len(f)) \in 1 .. Len(rx)
                   /\ after[j] = rx[j + (Len(bytes) - Len(f))]
              /\ Len(bytes) >= Len(f)
      <4>1. rx \in Seq(Byte) /\ f \in Seq(Byte) /\ ScanLen \in Nat /\ Len(f) < ScanLen
        BY <1>1, <1>2
      <4>2. QED
        BY ONLY <4>1, ReadPlaces
    <3>2. b = Received(f, ScanLen) /\ r2 = AfterRead(f, ScanLen) /\ r = rx
      BY <1>2, <1>3
    <3>3. QED
      BY ONLY <3>1, <3>2
  <2>2. QED
    BY <1>3, <2>1 DEF Taken
<1>5. Spread(b, r2, s) = Spread(f, r, s)
  BY <1>3, <1>4, SpreadReads
<1>6. Contents(f) = Spread(f, r, s)
  BY <1>2 DEF Contents
<1>7. ASSUME Len(b) = ScanLen
      PROVE  /\ b = Packet
             /\ IsStream(Contents(f), 0) => IsStream(Spread(<<>>, r2, s), 0)
             /\ IsEbb(Contents(f)) => IsEbb(Spread(<<>>, r2, s))
  <2>1. PICK all, rest : all = Spread(b, r2, s) /\ rest = Spread(<<>>, r2, s)
    OBVIOUS
  <2>2. /\ Len(all) = ScanLen + Len(rest) /\ Len(rest) \in Nat
        /\ \A i \in 1 .. ScanLen : all[i] = b[i]
        /\ \A k \in 1 .. Len(rest) : rest[k] = all[ScanLen + k]
    <3>0. PICK b2 \in Seq(Byte) : b2 = b
      BY <1>3
    <3>1. /\ Len(all) = Len(b2) + Len(rest)
          /\ Len(rest) = Len(r2) + Len(s)
          /\ \A i \in 1 .. Len(b2) : all[i] = b2[i]
          /\ \A k \in 1 .. Len(r2) + Len(s) : rest[k] = all[Len(b2) + k]
      <4>1. /\ Len(Spread(b2, r2, s)) = Len(b2) + Len(Spread(<<>>, r2, s))
            /\ Len(Spread(<<>>, r2, s)) = Len(r2) + Len(s)
            /\ \A i \in 1 .. Len(b2) : Spread(b2, r2, s)[i] = b2[i]
            /\ \A k \in 1 .. Len(r2) + Len(s) : Spread(<<>>, r2, s)[k] = Spread(b2, r2, s)[Len(b2) + k]
        BY SpreadCuts
      <4>2. QED
        BY <2>1, <3>0, <4>1
    <3>2. Len(r2) + Len(s) \in Nat
      OBVIOUS
    <3>3. QED
      BY <1>7, <3>0, <3>1, <3>2
  <2>3. Len(all) >= ScanLen /\ Len(rest) = Len(all) - ScanLen
    BY <1>1, <2>2
  <2>4. IsStream(all, 0) \/ IsEbb(all)
    BY <1>5, <1>6, <2>1
  <2>5. /\ \A i \in 1 .. ScanLen : all[i] = <<"scan", 0, i>>
        /\ (IsStream(all, 0) => IsStream(rest, 0)) /\ (IsEbb(all) => IsEbb(rest))
    BY <2>2, <2>3, <2>4, StreamRead
  <2>6. \A i \in 1 .. ScanLen : b[i] = <<"scan", 0, i>>
    BY <2>2, <2>5
  <2>7. b = Packet
    BY <1>1, <1>3, <1>7, <2>6, WholeMessage DEF Packet
  <2>8. QED
    BY <1>5, <1>6, <2>1, <2>5, <2>7
<1>8. QED
  BY <1>2, <1>3, <1>5, <1>6, <1>7

-----------------------------------------------------------------------------
(* ---- no call fails ---- *)

\* The sensor does not reset itself, and has not been told to.
Undisturbed == ~sensor.resetting /\ \A i \in Pending : Waiting(i) # "RR"

\* What the response to a step may say.
Meant(v) ==
  /\ First = "adjust" => v = sensor.speed
  /\ First = "wait" => IF v = 0 THEN sensor.ready ELSE api.tries + 1 <= sensor.unready
  /\ First \notin {"adjust", "wait", "MI", "MZ"} => v = 0

Clean == api.errors = 0 /\ \A i \in 1 .. Len(scan_queue) : scan_queue[i].what = "scan"

\* The response that is on its way is that to the command, alone or, after DS, with
\* packets behind it.
Replied ==
  /\ At({"DX2"} \cup Asking, "read") /\ First # "DS" /\ Answered(CommandOf[First]) =>
       \E v \in Nat : Contents(api.got) = Bytes(CommandOf[First], v) /\ Meant(v)
  /\ At({"DS"}, "read") => Unanswered("DS") \/ Streaming(api.got, HeaderLen)

\* What is left of a start when the sensor is to be told to stream, and when it
\* had to be set going before.
Launching == {<<"DS", "clear", "spawn">>, <<"wait", "DS", "clear", "spawn">>}
Adjusting == {<<"MS", "wait", "DS", "clear", "spawn">>,
              <<"wait", "MS", "wait", "DS", "clear", "spawn">>}

\* DS and MS are only sent to a motor that is ready for them and stays so.
Motor ==
  /\ api.tries <= sensor.unready
  /\ First \in {"MS", "DS"} \/ (First = "wait" /\ api.call = "start") => Undisturbed
  /\ At({"MS", "DS"}, "run") => sensor.ready
  /\ At({"MS", "DS"}, "read") /\ Unanswered(CommandOf[First]) => sensor.ready
  /\ api.call = "start" /\ api.todo \in Adjusting => api.hz = 5
  /\ api.call = "start" /\ api.todo \in Launching => sensor.speed # 0

\* While a device scans, it streams, and what it streams is packets from where its
\* worker is.
Stream ==
  /\ \A w \in Sessions : worker[w] # "read" => buffer[w] = <<>>
  /\ Idle /\ object = "live" /\ is_scanning => sensor.streaming
  /\ First \in Starting => Streaming(<<>>, 0)
  /\ \A w \in Alive : /\ At({"none", "raise", "DX1"}, "run") => Streaming(buffer[w], 0)
                      /\ At({"DX1"}, "sleep") => Streaming(buffer[w], 0) \/ Ebbing(buffer[w])

Fine == Clean /\ Replied /\ Motor /\ Stream

\* What waits for a sensor that is not disturbed.
LEMMA UndisturbedLine ==
  ASSUME LineTypes, Undisturbed
  PROVE  /\ Quiet => sensor.inbox = <<>>
         /\ \A cmd : Unanswered(cmd) => Len(sensor.inbox) = 1 /\ Waiting(1) = cmd /\ 1 \in Pending
<1>1. PICK n \in Nat : n = Len(sensor.inbox) /\ (sensor.inbox = <<>> <=> n = 0)
  BY InboxIs
<1>2. \A i \in 1 .. n : Waiting(i) # "RR"
  BY <1>1 DEF Undisturbed, Pending
<1>3. n # 0 => 1 \in 1 .. n /\ (n # 1 => 1 \in 1 .. n - 1)
  OBVIOUS
<1>4. Quiet => sensor.inbox = <<>>
  <2> SUFFICES ASSUME Quiet, n # 0 PROVE FALSE
    BY <1>1
  <2>1. Waiting(1) = "RR"
    BY <1>1, <1>3 DEF Quiet, Pending
  <2>2. QED
    BY <1>2, <1>3, <2>1
<1>5. ASSUME NEW cmd, Unanswered(cmd)
      PROVE  Len(sensor.inbox) = 1 /\ Waiting(1) = cmd /\ 1 \in Pending
  <2>1. n # 0 /\ (n # 1 => Waiting(1) = "RR")
    BY <1>1, <1>3, <1>5 DEF Unanswered
  <2>2. n = 1
    BY <1>2, <1>3, <2>1
  <2>3. QED
    BY <1>1, <1>3, <1>5, <2>2 DEF Unanswered, Pending
<1>6. QED
  BY <1>4, <1>5

\* And what may wait while the client is at one of the steps to set it going.
LEMMA UndisturbedFirst ==
  ASSUME LineTypes, Control, Line, api \in ApiState, Undisturbed, First \in {"wait", "MS", "DS"}
  PROVE  \/ sensor.inbox = <<>>
         \/ /\ api.phase = "read" /\ Unanswered(CommandOf[First])
            /\ Len(sensor.inbox) = 1 /\ Waiting(1) = CommandOf[First]
<1>1. First \in Asking /\ First # "DX1"
  BY DEF Asking
<1>2. CASE api.phase = "read"
  <2>1. Asked(CommandOf[First]) \/ (First = "DS" /\ sensor.streaming /\ Calm)
    BY <1>1, <1>2 DEF Line, At
  <2>2. CASE Unanswered(CommandOf[First])
    BY <1>2, <2>2, UndisturbedLine
  <2>3. QED
    BY <2>1, <2>2, UndisturbedLine DEF Asked, Answered, Calm
<1>3. CASE api.phase = "run"
  <2>1. Quiet
    BY <1>1, <1>3 DEF Line, At
  <2>2. QED
    BY <2>1, UndisturbedLine
<1>4. api.phase \in {"run", "sleep", "read"} /\ (api.phase = "sleep" => First = "DX1")
  BY DEF ApiState, Control
<1>5. QED
  BY <1>1, <1>2, <1>3, <1>4

\* The one command that waits is acted on.
LEMMA LastIsActedOn ==
  ASSUME LineTypes, Responds, Len(sensor.inbox) = 1, Waiting(1) # "RR"
  PROVE  /\ sensor'.inbox = <<>> /\ sensor'.resetting = sensor.resetting
         /\ Acted(sensor, sensor', Waiting(1))
<1>1. Acted(sensor, sensor', Waiting(1)) /\ sensor.inbox # <<>>
  BY DEF Responds, Obeyed
<1>2. sensor'.inbox = Tail(sensor.inbox) /\ sensor'.resetting = sensor.resetting
  BY <1>1 DEF Acted
<1>3. PICK S, box : S = Commands \X (0 .. 10) /\ box = sensor.inbox /\ box \in Seq(S) /\ Len(box) = 1
  BY DEF LineTypes, SensorState
<1>4. Tail(box) = <<>>
  BY <1>3, TailOfOne
<1>5. QED
  BY <1>1, <1>2, <1>3, <1>4

\* Where DS is the next command, the call is a start.
LEMMA LaunchIs ==
  ASSUME IInv, Served, Reported, First = "DS"
  PROVE  api.call = "start" /\ api.todo = <<"DS", "clear", "spawn">> /\ api.todo \in Launching
<1>1. Types /\ Control /\ api.todo # <<>> /\ api.todo \in Seq(StepNames)
  BY DEF IInv, Types, ApiState, First
<1>2. First = api.todo[1] /\ First \in ToDo /\ 1 \in 1 .. Len(api.todo)
  BY <1>1, FirstIsOne, ToDoIs DEF Idle
<1>3. "clear" \in ToDo
  <2>1. IF Tail(api.todo) = <<>> THEN Len(api.todo) = 1 /\ api.todo[1] \notin Unfinished
        ELSE Tail(api.todo)[1] = api.todo[2] /\ MayFollow(api.todo[1], api.todo[2]) /\ api.todo[2] \in StepNames
    BY <1>1, TailOfTodo DEF Control
  <2>2. Tail(api.todo) # <<>> /\ MayFollow("DS", api.todo[2])
    BY <1>2, <2>1 DEF Unfinished
  <2>3. api.todo[2] = "clear"
    BY <2>2 DEF MayFollow
  <2>4. Len(Tail(api.todo)) = Len(api.todo) - 1 /\ Tail(api.todo) \in Seq(StepNames)
    BY <1>1, TailOfTodo DEF Control
  <2>5. 2 \in 1 .. Len(api.todo)
    <3>1. PICK m, n \in Nat : m = Len(Tail(api.todo)) /\ n = Len(api.todo) /\ m # 0
      BY <1>1, <2>2, <2>4, EmptySeq
    <3>2. m = n - 1
      BY <2>4, <3>1
    <3>3. \A p, q \in Nat : p # 0 /\ p = q - 1 => 2 \in 1 .. q
      OBVIOUS
    <3>4. QED
      BY <3>1, <3>2, <3>3
  <2>6. QED
    BY <2>3, <2>5 DEF ToDo
<1>4. Means(api.call, ToDo)
  BY <1>1 DEF Served, Idle
<1>5. api.call = "start"
  <2>1. "DS" \notin Stopping /\ "clear" \notin Asking
    BY DEF Stopping, Asking
  <2>2. QED
    BY <1>2, <1>3, <1>4, <2>1 DEF Means
<1>6. api.todo \in StartTodos
  BY <1>5 DEF Reported, Done
<1>7. api.todo = <<"DS", "clear", "spawn">>
  BY <1>1, <1>2, <1>6 DEF StartTodos
<1>8. QED
  BY <1>5, <1>7 DEF Launching

\* What the sensor does, while nothing is garbled.
LEMMA SensorSteps ==
  ASSUME IInv, Grace, plugged, plugged', ~MayCorrupt, Sensor
  PROVE  /\ LineTypes /\ LineTypes' /\ Types /\ Control /\ Line /\ Workers /\ api \in ApiState /\ api.got \in Seq(Byte)
         /\ Responds \/ Begins \/ Transmits \/ Stabilizes \/ Restarts
         /\ Responds /\ Waiting(1) # "RR" => sensor'.sending = Bytes(Waiting(1), Answer(Waiting(1)))
         /\ UNCHANGED deviceVars /\ UNCHANGED <<api, getter>> /\ First' = First /\ (Idle' <=> Idle) /\ Alive' = Alive
         /\ \A steps, phase : At(steps, phase)' <=> At(steps, phase)
         /\ SensorMoves
<1>1. LineTypes /\ LineTypes' /\ Types /\ Control /\ Line /\ Workers
  BY SensorDoes DEF Sensor, IInv, Types, TypeOK, LineTypes, Talk
<1>2. /\ Responds \/ Begins \/ Transmits \/ Stabilizes \/ Restarts
      /\ SensorMoves
  BY <1>1, SensorDoesInFull, SensorDoes DEF Sensor, SensorMoves
<1>3. Responds /\ Waiting(1) # "RR" => sensor'.sending = Bytes(Waiting(1), Answer(Waiting(1)))
  BY DEF Responds
<1>4. UNCHANGED deviceVars /\ UNCHANGED <<api, getter>>
  BY DEF Sensor
<1>5. First' = First /\ (Idle' <=> Idle) /\ Alive' = Alive
  BY <1>4 DEF First, Step, Idle, Alive, deviceVars
<1>6. \A steps, phase : At(steps, phase)' <=> At(steps, phase)
  BY <1>4, <1>5 DEF At
<1>7. api \in ApiState /\ api.got \in Seq(Byte)
  BY <1>1 DEF Types, ApiState
<1>8. QED
  BY <1>1, <1>2, <1>3, <1>4, <1>5, <1>6, <1>7

LEMMA SensorKeepsMotor ==
  ASSUME IInv, Grace, plugged, plugged', ~MayCorrupt, Sensor, Motor PROVE Motor'
<1>1. /\ LineTypes /\ LineTypes' /\ Types /\ Control /\ Line /\ api \in ApiState
      /\ Responds \/ Begins \/ Transmits \/ Stabilizes \/ Restarts
      /\ api' = api /\ First' = First
      /\ \A steps, phase : At(steps, phase)' <=> At(steps, phase)
  BY SensorSteps
<1>2. api'.tries <= sensor'.unready
  <2>1. api.tries \in Nat /\ sensor.unready \in Nat /\ sensor'.unready \in Nat /\ api.tries <= sensor.unready
    BY <1>1, DeviceAssumption, LineAssumption DEF ApiState, LineTypes, SensorState, Motor
  <2>2. sensor'.unready = sensor.unready \/ sensor'.unready = sensor.unready + 1
    BY <1>1 DEF Responds, Obeyed, Begins, Transmits, Stabilizes, Restarts
  <2>3. QED
    BY <1>1, <2>1, <2>2
<1>3. CASE ~(First \in {"MS", "DS"} \/ (First = "wait" /\ api.call = "start"))
  <2>1. ~At({"MS", "DS"}, "run") /\ ~At({"MS", "DS"}, "read")
    BY <1>3 DEF At
  <2>2. ~(api.call = "start" /\ api.todo \in Launching)
    <3>1. ASSUME api.todo \in Launching PROVE First \in {"DS", "wait"}
      BY <3>1 DEF Launching, First, Step
    <3>2. QED
      BY <1>3, <3>1
  <2>3. QED
    BY <1>1, <1>2, <1>3, <2>1, <2>2 DEF Motor
<1>4. CASE First \in {"MS", "DS"} \/ (First = "wait" /\ api.call = "start")
  <2>1. Undisturbed /\ First \in {"wait", "MS", "DS"}
    BY <1>4 DEF Motor
  <2>2. \/ sensor.inbox = <<>>
        \/ /\ api.phase = "read" /\ Unanswered(CommandOf[First])
           /\ Len(sensor.inbox) = 1 /\ Waiting(1) = CommandOf[First]
    BY <1>1, <2>1, UndisturbedFirst
  <2>3. CommandOf[First] = IF First = "wait" THEN "MZ" ELSE First
    BY <2>1 DEF CommandOf
  <2>4. ~Restarts
    BY <2>1 DEF Undisturbed, Restarts
  <2>5. CASE Responds
    <3>1. /\ api.phase = "read" /\ Unanswered(CommandOf[First])
          /\ Len(sensor.inbox) = 1 /\ Waiting(1) = CommandOf[First] /\ Waiting(1) # "RR"
      BY <2>1, <2>2, <2>3, <2>5 DEF Responds
    <3>2. sensor'.inbox = <<>> /\ sensor'.resetting = sensor.resetting
      BY <1>1, <2>5, <3>1, LastIsActedOn
    <3>3. Pending' = {} /\ ~sensor'.resetting
      BY <2>1, <3>2 DEF Pending, Undisturbed
    <3>4. Undisturbed'
      BY <3>3 DEF Undisturbed
    <3>5. ~At({"MS", "DS"}, "run")' /\ \A cmd : ~Unanswered(cmd)'
      BY <1>1, <3>1, <3>2 DEF At, Unanswered
    <3>6. First # "MS" => sensor'.speed = sensor.speed
      BY <2>1, <2>3, <2>5, <3>1 DEF Responds, Obeyed
    <3>7. api.todo \in Launching => First # "MS"
      BY DEF Launching, First, Step
    <3>8. QED
      BY <1>1, <1>2, <3>4, <3>5, <3>6, <3>7 DEF Motor
  <2>6. CASE ~Responds
    <3>1. /\ sensor'.inbox = sensor.inbox /\ sensor'.resetting = sensor.resetting
          /\ sensor'.speed = sensor.speed /\ (sensor.ready => sensor'.ready)
      BY <1>1, <2>4, <2>6 DEF Begins, Transmits, Stabilizes
    <3>2. Undisturbed'
      BY <2>1, <3>1 DEF Undisturbed, Pending, Waiting
    <3>3. Unanswered(CommandOf[First])' /\ At({"MS", "DS"}, "read") => sensor.ready
      <4> SUFFICES ASSUME Unanswered(CommandOf[First])', At({"MS", "DS"}, "read") PROVE sensor.ready
        OBVIOUS
      <4>1. sensor'.inbox # <<>>
        BY DEF Unanswered
      <4>2. Unanswered(CommandOf[First])
        BY <2>2, <3>1, <4>1
      <4>3. QED
        BY <4>2 DEF Motor
    <3>4. At({"MS", "DS"}, "read")' /\ Unanswered(CommandOf[First])' => sensor'.ready
      BY <1>1, <3>1, <3>3
    <3>5. QED
      BY <1>1, <1>2, <3>1, <3>2, <3>4 DEF Motor
  <2>7. QED
    BY <2>5, <2>6
<1>5. QED
  BY <1>3, <1>4

LEMMA SensorKeepsReplied ==
  ASSUME IInv, Grace, plugged, plugged', ~MayCorrupt, Sensor, Served, Reported, Motor, Replied PROVE Replied'
<1>1. /\ LineTypes /\ LineTypes' /\ Types /\ Control /\ Line /\ api \in ApiState /\ api.got \in Seq(Byte)
      /\ Responds \/ Begins \/ Transmits \/ Stabilizes \/ Restarts
      /\ Responds /\ Waiting(1) # "RR" => sensor'.sending = Bytes(Waiting(1), Answer(Waiting(1)))
      /\ api' = api /\ First' = First
      /\ \A steps, phase : At(steps, phase)' <=> At(steps, phase)
      /\ SensorMoves
  BY SensorSteps
<1>2. PICK f \in Seq(Byte) : f = api.got /\ f = api'.got
  BY <1>1
<1>3. PICK r, s \in Seq(Byte) : r = rx /\ s = sensor.sending
  BY <1>1 DEF LineTypes, SensorState
<1>4. Contents(api.got) = Spread(f, r, s) /\ Contents(api.got)' = Spread(f, rx', sensor'.sending)
  BY <1>2, <1>3 DEF Contents
<1>5. Transmits => Contents(api.got)' = Contents(api.got)
  BY <1>2, <1>3, <1>4, SpreadSends DEF Transmits
<1>6. ASSUME At({"DX2"} \cup Asking, "read"), First # "DS", Answered(CommandOf[First])'
      PROVE  \E v \in Nat : Contents(api.got)' = Bytes(CommandOf[First], v) /\ Meant(v)'
  <2>1. PICK cmd \in Responding : cmd = CommandOf[First]
    BY <1>1, <1>6, AskedForResponse DEF Asks
  <2>2. Asked(cmd)
    BY <1>1, <1>6, <2>1 DEF Line
  <2>3. Answered(cmd)'
    BY <1>1, <1>6, <2>1
  <2>4. CASE Quiet /\ api.got = <<>>
    <3>1. Quiet'
      BY <1>1, <2>4, SensorKeepsQuiet
    <3>2. rx' = <<>> /\ sensor'.sending = <<>> /\ api'.got = <<>>
      BY <1>1, <2>4, <3>1 DEF Quiet
    <3>3. Len(rx') = 0 /\ Len(sensor'.sending) = 0 /\ Len(api'.got) = 0
      BY <3>2
    <3>4. Length(cmd) = 0
      BY <2>3, <3>3 DEF Answered
    <3>5. QED
      BY <3>4, Lengths
  <2>5. CASE Answered(cmd)
    <3>1. PICK v \in Nat : Contents(api.got) = Bytes(cmd, v) /\ Meant(v)
      BY <1>6, <2>1, <2>5 DEF Replied
    <3>2. ~Responds /\ ~Begins /\ ~Restarts
      BY <2>5 DEF Answered, Calm, Responds, Begins, Restarts
    <3>3. /\ Contents(api.got)' = Contents(api.got)
          /\ sensor'.speed = sensor.speed /\ sensor'.unready = sensor.unready
          /\ sensor.ready => sensor'.ready
      <4>1. CASE Transmits
        BY <1>5, <4>1 DEF Transmits
      <4>2. CASE Stabilizes
        <5>1. rx' = r /\ sensor'.sending = s
          BY <1>3, <4>2 DEF Stabilizes
        <5>2. QED
          BY <1>4, <4>2, <5>1 DEF Stabilizes
      <4>3. QED
        BY <1>1, <3>2, <4>1, <4>2
    <3>4. Meant(v)'
      BY <1>1, <3>1, <3>3 DEF Meant
    <3>5. QED
      BY <2>1, <3>1, <3>3, <3>4
  <2>6. CASE Unanswered(cmd)
    <3>1. sensor.inbox # <<>> /\ f = <<>> /\ r = <<>> /\ s = <<>>
      BY <1>2, <1>3, <2>6 DEF Unanswered
    <3>2. sensor'.inbox = <<>> /\ ~sensor'.resetting
      BY <2>3 DEF Answered, Calm
    <3>3. Responds
      BY <1>1, <3>1, <3>2 DEF Begins, Transmits, Stabilizes, Restarts
    <3>4. Waiting(1) # "RR"
      BY <3>2, <3>3 DEF Responds, Obeyed, Acted
    <3>5. Len(sensor.inbox) = 1 /\ Waiting(1) = cmd
      <4>1. PICK n \in Nat : n = Len(sensor.inbox) /\ n # 0
        BY <1>1, <3>1, InboxIs
      <4>2. \A k \in Nat : k # 0 /\ k # 1 => 1 \in 1 .. k - 1
        OBVIOUS
      <4>3. n = 1
        BY <2>6, <3>4, <4>1, <4>2 DEF Unanswered
      <4>4. QED
        BY <2>6, <4>1, <4>3 DEF Unanswered
    <3>6. PICK v \in Nat : v = Answer(cmd)
      <4>1. sensor.speed \in Nat
        <5>1. sensor.speed \in 0 .. 10
          BY <1>1 DEF LineTypes, SensorState
        <5>2. QED
          BY <5>1
      <4>2. Answer(cmd) \in Nat
        BY <4>1 DEF Answer
      <4>3. QED
        BY <4>2
    <3>7. Contents(api.got)' = Bytes(cmd, v)
      <4>1. rx' = <<>> /\ sensor'.sending = Bytes(cmd, v)
        BY <1>1, <1>3, <3>1, <3>3, <3>4, <3>5, <3>6 DEF Responds
      <4>2. Spread(<<>>, <<>>, Bytes(cmd, v)) = Bytes(cmd, v)
        BY OnlyMessage
      <4>3. QED
        BY <1>4, <3>1, <4>1, <4>2
    <3>8. Obeyed(sensor', cmd, sensor.inbox[1][2])
      BY <3>3, <3>5 DEF Responds
    <3>9. Meant(v)'
      <4>1. First = "adjust" => v = sensor'.speed
        <5> SUFFICES ASSUME First = "adjust" PROVE v = sensor'.speed
          OBVIOUS
        <5>1. cmd = "MI"
          BY <2>1 DEF CommandOf
        <5>2. QED
          BY <3>6, <3>8, <5>1 DEF Answer, Obeyed
      <4>2. First = "wait" => IF v = 0 THEN sensor'.ready ELSE api.tries + 1 <= sensor'.unready
        <5> SUFFICES ASSUME First = "wait" PROVE IF v = 0 THEN sensor'.ready ELSE api.tries + 1 <= sensor'.unready
          OBVIOUS
        <5>1. cmd = "MZ"
          BY <2>1 DEF CommandOf
        <5>2. v = (IF sensor.ready THEN 0 ELSE 1) /\ sensor'.ready = sensor.ready
              /\ sensor'.unready = IF ~sensor.ready THEN sensor.unready + 1 ELSE sensor.unready
          BY <3>6, <3>8, <5>1 DEF Answer, Obeyed
        <5>3. api.tries <= sensor.unready /\ api.tries \in Nat /\ sensor.unready \in Nat
          BY <1>1, DeviceAssumption, LineAssumption DEF Motor, ApiState, LineTypes, SensorState
        <5>4. QED
          BY <5>2, <5>3
      <4>3. First \notin {"adjust", "wait", "MI", "MZ"} => v = 0
        <5> SUFFICES ASSUME First \notin {"adjust", "wait", "MI", "MZ"} PROVE v = 0
          OBVIOUS
        <5>1. First \in {"DX2", "MS", "LI", "LR", "RR"}
          BY <1>6 DEF At, Asking
        <5>2. cmd \in {"DX", "MS", "LI", "LR", "RR"} /\ (cmd = "MS" => First = "MS")
          BY <2>1, <5>1 DEF CommandOf
        <5>3. cmd = "MS" => sensor.ready
          BY <1>6, <2>1, <2>6, <5>2 DEF Motor, At
        <5>4. QED
          BY <3>6, <5>2, <5>3 DEF Answer
      <4>4. QED
        BY <1>1, <4>1, <4>2, <4>3 DEF Meant
    <3>10. QED
      BY <2>1, <3>7, <3>9
  <2>7. QED
    BY <2>2, <2>4, <2>5, <2>6 DEF Asked
<1>7. ASSUME At({"DS"}, "read")
      PROVE  Unanswered("DS")' \/ Streaming(api.got, HeaderLen)'
  <2>1. First = "DS" /\ CommandOf[First] = "DS"
    BY <1>7 DEF At, CommandOf
  <2>2. HeaderLen \in Nat
    BY LineAssumption
  <2>3. CASE Streaming(api.got, HeaderLen)
    <3>1. sensor.streaming
      BY <2>3 DEF Streaming
    <3>2. Calm
      <4>1. Asked("DS") \/ Calm
        BY <1>1, <1>7, <2>1 DEF Line, At, Asking
      <4>2. QED
        BY <3>1, <4>1 DEF Asked, Unanswered, Answered, Quiet
    <3>3. ~Responds
      BY <3>2 DEF Calm, Responds
    <3>4. sensor'.streaming /\ IsStream(Spread(f, rx', sensor'.sending), HeaderLen)
      BY <1>1, <1>2, <2>2, <2>3, <3>3, StreamFlows
    <3>5. QED
      BY <1>4, <3>4 DEF Streaming
  <2>4. CASE Unanswered("DS")
    <3>1. Undisturbed /\ sensor.ready /\ sensor.inbox # <<>> /\ f = <<>> /\ r = <<>> /\ s = <<>> /\ ~sensor.streaming
      BY <1>2, <1>3, <1>7, <2>1, <2>4 DEF Motor, At, Unanswered
    <3>2. Len(sensor.inbox) = 1 /\ Waiting(1) = "DS"
      BY <1>1, <2>4, <3>1, UndisturbedLine
    <3>3. ~Begins /\ ~Transmits /\ ~Restarts
      BY <1>3, <3>1 DEF Begins, Transmits, Restarts, Undisturbed
    <3>4. CASE Stabilizes
      BY <1>1, <2>4, <3>4 DEF Stabilizes, Unanswered, Waiting
    <3>5. CASE Responds
      <4>0. sensor.speed # 0
        BY <2>1, LaunchIs DEF Motor
      <4>1. Answer("DS") = 0
        BY <3>1, <4>0 DEF Answer
      <4>2. rx' = <<>> /\ sensor'.sending = Bytes("DS", 0)
        BY <1>1, <1>3, <3>1, <3>2, <3>5, <4>1 DEF Responds
      <4>3. sensor'.streaming
        BY <3>2, <3>5, <4>1 DEF Responds, Obeyed
      <4>4. "DS" \in Responding /\ 0 \in Nat
        BY DEF Responding, Commands
      <4>5. Spread(<<>>, <<>>, Bytes("DS", 0)) = Bytes("DS", 0)
        BY <4>4, OnlyMessage
      <4>6. IsStream(Bytes("DS", 0), HeaderLen)
        BY StreamBegins
      <4>7. QED
        BY <1>4, <3>1, <4>2, <4>3, <4>5, <4>6 DEF Streaming
    <3>6. QED
      BY <1>1, <3>3, <3>4, <3>5
  <2>5. QED
    BY <1>7, <2>3, <2>4 DEF Replied
<1>8. QED
  <2>1. At({"DX2"} \cup Asking, "read")' /\ First' # "DS" /\ Answered(CommandOf[First])' =>
          \E v \in Nat : Contents(api.got)' = Bytes(CommandOf[First'], v) /\ Meant(v)'
    BY <1>1, <1>6
  <2>2. At({"DS"}, "read")' => Unanswered("DS")' \/ Streaming(api.got, HeaderLen)'
    BY <1>1, <1>7
  <2>3. QED
    BY <2>1, <2>2 DEF Replied

\* A stream that nobody is about to stop.
LEMMA CalmStreamFlows ==
  ASSUME LineTypes, ~MayCorrupt, Responds \/ Begins \/ Transmits \/ Stabilizes \/ Restarts,
         Calm, NEW f \in Seq(Byte), Streaming(f, 0)
  PROVE  Streaming(f, 0)'
<1>1. ~Responds
  BY DEF Calm, Responds
<1>2. sensor'.streaming /\ IsStream(Spread(f, rx', sensor'.sending), 0)
  BY <1>1, StreamFlows
<1>3. QED
  BY <1>2 DEF Streaming, Contents

LEMMA SensorKeepsStream ==
  ASSUME IInv, Grace, plugged, plugged', ~MayCorrupt, Sensor, Stream PROVE Stream'
<1>1. /\ LineTypes /\ LineTypes' /\ Types /\ Control /\ Line /\ Workers /\ api \in ApiState
      /\ Responds \/ Begins \/ Transmits \/ Stabilizes \/ Restarts
      /\ UNCHANGED <<api, object, is_scanning, worker, buffer>> /\ First' = First /\ (Idle' <=> Idle) /\ Alive' = Alive
      /\ \A steps, phase : At(steps, phase)' <=> At(steps, phase)
  BY SensorSteps DEF deviceVars
<1>2. PICK e \in Seq(Byte) : e = <<>>
  BY EmptySeq
<1>3. ASSUME Idle, object = "live", is_scanning PROVE sensor'.streaming
  <2>1. First = "none" /\ sensor.streaming
    BY <1>3 DEF Idle, First, Stream
  <2>2. api.phase = "run"
    BY <1>1, <2>1, PhaseIsRun, CommandsOfSteps DEF Asking
  <2>3. Calm
    BY <1>1, <1>3, <2>1, <2>2 DEF Line, At
  <2>4. ~Responds
    BY <2>3 DEF Calm, Responds
  <2>5. QED
    BY <1>1, <2>1, <2>4 DEF Begins, Transmits, Stabilizes, Restarts
<1>4. ASSUME First \in Starting PROVE Streaming(<<>>, 0)'
  <2>1. api.phase = "run"
    BY <1>1, <1>4, PhaseIsRun, CommandsOfSteps DEF Starting, Asking
  <2>2. Calm
    BY <1>1, <1>4, <2>1 DEF Line, At
  <2>3. Streaming(e, 0)
    BY <1>2, <1>4 DEF Stream
  <2>4. Streaming(e, 0)'
    BY <1>1, <2>2, <2>3, CalmStreamFlows
  <2>5. QED
    BY <1>2, <2>4
<1>5. ASSUME NEW w \in Alive
      PROVE  /\ At({"none", "raise", "DX1"}, "run") => Streaming(buffer[w], 0)'
             /\ At({"DX1"}, "sleep") => Streaming(buffer[w], 0)' \/ Ebbing(buffer[w])'
  <2>1. w \in Sessions /\ is_scanning /\ (object = "freed" => FALSE)
    BY <1>1, <1>5 DEF Workers, Alive
  <2>2. PICK f \in Seq(Byte) : f = buffer[w] /\ f = buffer'[w]
    BY <1>1, <2>1 DEF Types, TypeOK
  <2>3. ASSUME At({"none", "raise", "DX1"}, "run") PROVE Streaming(f, 0)'
    <3>1. Calm
      BY <1>1, <2>1, <2>3 DEF Line
    <3>2. Streaming(f, 0)
      BY <1>5, <2>2, <2>3 DEF Stream
    <3>3. QED
      BY <1>1, <3>1, <3>2, CalmStreamFlows
  <2>4. ASSUME At({"DX1"}, "sleep") PROVE Streaming(f, 0)' \/ Ebbing(f)'
    <3>1. Sleeping /\ (Streaming(f, 0) \/ Ebbing(f))
      BY <1>1, <1>5, <2>2, <2>4 DEF Line, Stream
    <3>2. CASE Ebbing(f)
      <4>1. ~sensor'.streaming /\ sensor'.inbox = <<>> /\ IsEbb(Spread(f, rx', sensor'.sending))
        BY <1>1, <3>2, EbbFlows
      <4>2. QED
        BY <4>1 DEF Ebbing, Contents
    <3>3. CASE Streaming(f, 0) /\ Responds
      <4>1. Len(sensor.inbox) = 1 /\ Waiting(1) = "DX"
        BY <3>1, <3>3 DEF Sleeping, Streaming
      <4>2. ~sensor'.streaming /\ sensor'.inbox = <<>> /\ IsEbb(Spread(f, rx', sensor'.sending))
        BY <1>1, <3>3, <4>1, StreamTurns
      <4>3. QED
        BY <4>2 DEF Ebbing, Contents
    <3>4. CASE Streaming(f, 0) /\ ~Responds
      <4>1. sensor'.streaming /\ IsStream(Spread(f, rx', sensor'.sending), 0)
        BY <1>1, <3>4, StreamFlows
      <4>2. QED
        BY <4>1 DEF Streaming, Contents
    <3>5. QED
      BY <3>1, <3>2, <3>3, <3>4
  <2>5. QED
    BY <2>2, <2>3, <2>4
<1>6. \A w \in Sessions : worker'[w] # "read" => buffer'[w] = <<>>
  BY <1>1 DEF Stream
<1>7. \A w \in Alive : /\ At({"none", "raise", "DX1"}, "run")' => Streaming(buffer[w], 0)'
                       /\ At({"DX1"}, "sleep")' => Streaming(buffer[w], 0)' \/ Ebbing(buffer[w])'
  BY <1>1, <1>5
<1>8. QED
  BY <1>1, <1>3, <1>4, <1>6, <1>7 DEF Stream

LEMMA SensorIsFine ==
  ASSUME IInv, Grace, plugged, plugged', ~MayCorrupt, Served, Reported, Fine, Sensor PROVE Fine'
<1>1. UNCHANGED <<api, scan_queue>>
  BY SensorSteps DEF deviceVars
<1>2. Clean'
  BY <1>1 DEF Fine, Clean
<1>3. QED
  BY <1>2, SensorKeepsMotor, SensorKeepsReplied, SensorKeepsStream DEF Fine

\* A scan that a worker puts into the queue is no error.
LEMMA EnqueueIsClean ==
  ASSUME Types, Clean, NEW w \in Sessions, Enqueue(w, "scan")
  PROVE  \A i \in 1 .. Len(scan_queue') : scan_queue'[i].what = "scan"
<1> DEFINE S == [session : Sessions, what : {"scan", "error"}]
<1>1. PICK q \in Seq(S) : q = scan_queue
  BY DEF Types, TypeOK
<1>2. PICK e \in S : e = [session |-> w, what |-> "scan"] /\ e.what = "scan"
  <2>1. [session |-> w, what |-> "scan"] \in S /\ [session |-> w, what |-> "scan"].what = "scan"
    OBVIOUS
  <2>2. QED
    BY <2>1
<1>3. \A i \in 1 .. Len(q) : q[i].what = "scan"
  BY <1>1 DEF Clean
<1> HIDE DEF S
<1>4. PICK rest \in Seq(S) :
        /\ scan_queue' = Append(rest, e)
        /\ \A i \in 1 .. Len(rest) : \E j \in 1 .. Len(q) : rest[i] = q[j]
  <2>1. CASE Len(q) >= MaxSize
    <3>1. q # <<>>
      <4>1. PICK n, m \in Nat : n = Len(q) /\ m = MaxSize /\ m # 0
        BY DeviceAssumption
      <4>2. n # 0
        BY <2>1, <4>1
      <4>3. QED
        BY <4>1, <4>2
    <3>2. /\ Tail(q) \in Seq(S) /\ Len(Tail(q)) = Len(q) - 1
          /\ \A i \in 1 .. Len(Tail(q)) : i + 1 \in 1 .. Len(q) /\ Tail(q)[i] = q[i + 1]
      BY <3>1
    <3>3. scan_queue' = Append(Tail(q), e)
      BY <1>1, <1>2, <2>1 DEF Enqueue
    <3>4. QED
      BY <3>2, <3>3
  <2>2. CASE ~(Len(q) >= MaxSize)
    <3>1. scan_queue' = Append(q, e)
      BY <1>1, <1>2, <2>2 DEF Enqueue
    <3>2. QED
      BY <3>1
  <2>3. QED
    BY <2>1, <2>2
<1>5. /\ Len(Append(rest, e)) = Len(rest) + 1
      /\ Append(rest, e)[Len(rest) + 1] = e
      /\ \A i \in 1 .. Len(rest) : Append(rest, e)[i] = rest[i]
  OBVIOUS
<1>6. ASSUME NEW i \in 1 .. Len(rest) + 1 PROVE Append(rest, e)[i].what = "scan"
  <2>1. CASE i = Len(rest) + 1
    BY <1>2, <1>5, <2>1
  <2>2. CASE i # Len(rest) + 1
    <3>1. i \in 1 .. Len(rest)
      BY <2>2
    <3>2. QED
      BY <1>3, <1>4, <1>5, <3>1
  <2>3. QED
    BY <2>1, <2>2
<1>7. QED
  BY <1>4, <1>5, <1>6

\* A worker has read on: all it did was to take bytes, and to put a scan into the
\* queue when they were the last of it.
LEMMA WorkerReadsOn ==
  ASSUME IInv, Grace, plugged, HeaderLen < ScanLen, Fine, NEW w \in Alive,
         At({"none", "raise", "DX1"}, "run") \/ At({"DX1"}, "sleep"), NEW b, WorkerReads(w, b)
  PROVE  /\ buffer[w] \in Seq(Byte) /\ w \in Sessions /\ b \in Seq(Byte) /\ sensor' = sensor
         /\ Streaming(buffer[w], 0) => Streaming(b, 0)'
         /\ Ebbing(buffer[w]) => Ebbing(b)'
         /\ Len(b) = ScanLen => /\ b = Packet
                                /\ Streaming(buffer[w], 0) => Streaming(<<>>, 0)'
                                /\ Ebbing(buffer[w]) => Ebbing(<<>>)'
<1>1. Types /\ LineTypes /\ w \in Sessions
  BY DEF IInv, Types, TypeOK, LineTypes, Alive
<1>2. PICK f \in Seq(Byte) : f = buffer[w] /\ Len(f) < ScanLen
  BY <1>1 DEF Types, TypeOK
<1>3. b = Received(f, ScanLen) /\ rx' = AfterRead(f, ScanLen) /\ sensor' = sensor
  BY <1>2 DEF WorkerReads
<1>4. Streaming(f, 0) \/ Ebbing(f)
  BY <1>2 DEF Fine, Stream
<1>5. IsStream(Contents(f), 0) \/ IsEbb(Contents(f))
  BY <1>4 DEF Streaming, Ebbing
<1>6. /\ b \in Seq(Byte) /\ rx' \in Seq(Byte)
      /\ Spread(b, rx', sensor.sending) = Contents(f)
      /\ Len(b) = ScanLen =>
           /\ b = Packet
           /\ IsStream(Contents(f), 0) => IsStream(Spread(<<>>, rx', sensor.sending), 0)
           /\ IsEbb(Contents(f)) => IsEbb(Spread(<<>>, rx', sensor.sending))
  BY <1>1, <1>2, <1>3, <1>5, WorkersView
<1>7. /\ Streaming(f, 0) => Streaming(b, 0)'
      /\ Ebbing(f) => Ebbing(b)'
  BY <1>3, <1>6 DEF Streaming, Ebbing, Contents
<1>8. ASSUME Len(b) = ScanLen
      PROVE  /\ b = Packet
             /\ Streaming(f, 0) => Streaming(<<>>, 0)'
             /\ Ebbing(f) => Ebbing(<<>>)'
  <2>1. /\ b = Packet
        /\ IsStream(Contents(f), 0) => IsStream(Spread(<<>>, rx', sensor'.sending), 0)
        /\ IsEbb(Contents(f)) => IsEbb(Spread(<<>>, rx', sensor'.sending))
    BY <1>3, <1>6, <1>8
  <2>2. Contents(<<>>)' = Spread(<<>>, rx', sensor'.sending)
    BY DEF Contents
  <2>3. QED
    BY <1>3, <2>1, <2>2 DEF Streaming, Ebbing
<1>9. QED
  BY <1>1, <1>2, <1>3, <1>6, <1>7, <1>8

LEMMA WorkerIsFine ==
  ASSUME IInv, Grace, plugged, HeaderLen < ScanLen, Fine, NEW w \in Sessions, WorkerStep(w)
  PROVE  Fine'
<1>1. /\ Types /\ Control /\ Works(w) /\ Types' /\ Workers /\ w \in Alive
      /\ UNCHANGED <<object, is_scanning, sessions, api, getter, sensor>>
  BY WorkerDoes DEF IInv, Talk, Works
<1>2. /\ First \in {"none", "raise", "DX1"} /\ api.phase # "read"
      /\ At({"none", "raise", "DX1"}, "run") \/ At({"DX1"}, "sleep")
  <2>1. First \in {"none", "raise", "DX1"} /\ api.phase # "read" /\ api.phase \in {"run", "sleep", "read"}
    BY <1>1, WorksMeanwhile DEF Types, ApiState
  <2>2. QED
    BY <1>1, <2>1 DEF At, Control
<1>3. /\ First' = First /\ (Idle' <=> Idle)
      /\ \A steps, phase : At(steps, phase)' <=> At(steps, phase)
  BY <1>1 DEF First, Step, Idle, At
<1>4. PICK s : worker' = [worker EXCEPT ![w] = s]
  BY <1>1 DEF Works
<1>5. /\ worker'[w] = s
      /\ \A v \in Sessions : v # w => worker'[v] = worker[v] /\ v \notin Alive /\ v \notin Alive'
  <2>1. \A v \in Sessions : v # w => worker'[v] = worker[v] /\ v \notin Alive
    BY <1>1, <1>4 DEF Types, TypeOK, Workers
  <2>2. QED
    BY <1>1, <1>4, <2>1 DEF Types, TypeOK, Alive
<1>6. Replied'
  BY <1>2, <1>3 DEF Replied, At, Asking
<1>7. Motor'
  <2>1. First \notin {"MS", "DS", "wait"}
    BY <1>2
  <2>2. QED
    BY <1>1, <1>3, <2>1 DEF Motor, Fine, At
<1>8. \* All that is left to see is what it has read.
      ASSUME \A v \in Sessions : v # w => buffer'[v] = buffer[v],
             worker'[w] # "read" => buffer'[w] = <<>>,
             Streaming(buffer[w], 0) => Streaming(buffer[w], 0)',
             Ebbing(buffer[w]) => Ebbing(buffer[w])'
      PROVE  Stream'
  <2>1. \A v \in Sessions : worker'[v] # "read" => buffer'[v] = <<>>
    BY <1>5, <1>8 DEF Fine, Stream
  <2>2. Idle' /\ object' = "live" /\ is_scanning' => sensor'.streaming
    BY <1>1, <1>3 DEF Fine, Stream
  <2>3. First' \notin Starting
    BY <1>2, <1>3 DEF Starting
  <2>4. ASSUME NEW v \in Alive'
        PROVE  /\ At({"none", "raise", "DX1"}, "run")' => Streaming(buffer[v], 0)'
               /\ At({"DX1"}, "sleep")' => Streaming(buffer[v], 0)' \/ Ebbing(buffer[v])'
    <3>1. v = w
      BY <1>5, <2>4 DEF Alive
    <3>2. /\ At({"none", "raise", "DX1"}, "run")' => Streaming(buffer[w], 0)'
          /\ At({"DX1"}, "sleep")' => Streaming(buffer[w], 0)' \/ Ebbing(buffer[w])'
      BY <1>1, <1>3, <1>8 DEF Fine, Stream
    <3>3. QED
      BY <3>1, <3>2
  <2>5. QED
    BY <2>1, <2>2, <2>3, <2>4 DEF Stream
<1>9. CASE WorkerBegins(w) \/ WorkerTests(w)
  <2>1. UNCHANGED <<scan_queue, buffer, rx, sensor>> /\ worker[w] # "read"
    BY <1>9 DEF WorkerBegins, WorkerTests, lineVars
  <2>2. buffer'[w] = <<>>
    BY <1>1, <2>1 DEF Fine, Stream
  <2>3. /\ Streaming(buffer[w], 0) => Streaming(buffer[w], 0)'
        /\ Ebbing(buffer[w]) => Ebbing(buffer[w])'
    BY <2>1 DEF Streaming, Ebbing, Contents
  <2>4. Stream'
    BY <1>8, <2>1, <2>2, <2>3
  <2>5. Clean'
    BY <1>1, <2>1 DEF Fine, Clean
  <2>6. QED
    BY <1>6, <1>7, <2>4, <2>5 DEF Fine
<1>10. CASE WorkerReadsPart(w)
  <2>1. PICK b : /\ WorkerReads(w, b) /\ buffer' = [buffer EXCEPT ![w] = b]
                 /\ UNCHANGED <<worker, scan_queue>>
    BY <1>10 DEF WorkerReadsPart
  <2>2. worker[w] = "read" /\ worker'[w] = "read"
    BY <2>1 DEF WorkerReads
  <2>3. buffer'[w] = b /\ \A v \in Sessions : v # w => buffer'[v] = buffer[v]
    BY <1>1, <2>1 DEF Types, TypeOK
  <2>4. /\ Streaming(buffer[w], 0) => Streaming(b, 0)'
        /\ Ebbing(buffer[w]) => Ebbing(b)'
    BY <1>1, <1>2, <2>1, WorkerReadsOn
  <2>5. /\ Streaming(buffer[w], 0) => Streaming(buffer[w], 0)'
        /\ Ebbing(buffer[w]) => Ebbing(buffer[w])'
    BY <2>3, <2>4 DEF Streaming, Ebbing, Contents
  <2>6. Stream'
    BY <1>8, <2>2, <2>3, <2>5
  <2>7. Clean'
    BY <1>1, <2>1 DEF Fine, Clean
  <2>8. QED
    BY <1>6, <1>7, <2>6, <2>7 DEF Fine
<1>11. CASE WorkerReadsPacket(w) \/ WorkerFills(w) \/ WorkerCompletesScan(w)
  <2>1. WorkerReads(w, Packet) /\ buffer' = [buffer EXCEPT ![w] = <<>>]
    BY <1>11 DEF WorkerReadsPacket, WorkerFills, WorkerCompletesScan
  <2>2. Len(Packet) = ScanLen
    <3>1. 0 \in Nat /\ "scan" \in Responding \cup {"scan"} /\ Length("scan") = ScanLen
      BY DEF Length
    <3>2. QED
      BY <3>1, Message DEF Packet
  <2>3. /\ Streaming(buffer[w], 0) => Streaming(<<>>, 0)'
        /\ Ebbing(buffer[w]) => Ebbing(<<>>)'
    BY <1>1, <1>2, <2>1, <2>2, WorkerReadsOn
  <2>4. buffer'[w] = <<>> /\ \A v \in Sessions : v # w => buffer'[v] = buffer[v]
    BY <1>1, <2>1 DEF Types, TypeOK
  <2>5. /\ Streaming(buffer[w], 0) => Streaming(buffer[w], 0)'
        /\ Ebbing(buffer[w]) => Ebbing(buffer[w])'
    BY <2>3, <2>4 DEF Streaming, Ebbing, Contents
  <2>6. Stream'
    BY <1>8, <2>4, <2>5
  <2>7. Clean'
    <3>1. UNCHANGED scan_queue \/ Enqueue(w, "scan")
      BY <1>11 DEF WorkerReadsPacket, WorkerFills, WorkerCompletesScan
    <3>2. \A i \in 1 .. Len(scan_queue') : scan_queue'[i].what = "scan"
      BY <1>1, <3>1, EnqueueIsClean DEF Fine, Clean
    <3>3. QED
      BY <1>1, <3>2 DEF Fine, Clean
  <2>8. QED
    BY <1>6, <1>7, <2>6, <2>7 DEF Fine
<1>12. ~WorkerReadsGarbage(w)
  <2> SUFFICES ASSUME NEW b, WorkerReads(w, b), Len(b) = ScanLen, b # Packet PROVE FALSE
    BY DEF WorkerReadsGarbage
  <2>1. QED
    BY <1>1, <1>2, WorkerReadsOn
<1>13. ~WorkerLosesPort(w)
  BY DEF WorkerLosesPort
<1>14. QED
  BY <1>9, <1>10, <1>11, <1>12, <1>13 DEF WorkerStep

LEMMA ReaderIsFine ==
  ASSUME IInv, Fine, GetScan \/ GetterTakes \/ UNCHANGED vars PROVE Fine'
<1>1. UNCHANGED <<object, is_scanning, api, worker, buffer, sensor, rx>>
  BY DEF GetScan, GetterTakes, vars, deviceVars, lineVars
<1>2. /\ First' = First /\ (Idle' <=> Idle) /\ Alive' = Alive
      /\ \A steps, phase : At(steps, phase)' <=> At(steps, phase)
      /\ \A c : (Unanswered(c)' <=> Unanswered(c)) /\ (Answered(c)' <=> Answered(c))
      /\ \A f, H : Streaming(f, H)' <=> Streaming(f, H)
      /\ \A f : Ebbing(f)' <=> Ebbing(f)
      /\ \A v : Meant(v)' <=> Meant(v)
      /\ Undisturbed' <=> Undisturbed
  BY <1>1 DEF First, Step, Idle, Alive, At, Unanswered, Answered, Calm, Waiting, Streaming, Ebbing,
              Contents, Meant, Undisturbed, Pending
<1>3. \A i \in 1 .. Len(scan_queue') : scan_queue'[i].what = "scan"
  <2>1. CASE UNCHANGED scan_queue
    BY <2>1 DEF Fine, Clean
  <2>2. CASE scan_queue # <<>> /\ scan_queue' = Tail(scan_queue)
    <3>1. PICK S : S = [session : Sessions, what : {"scan", "error"}]
      OBVIOUS
    <3>2. PICK q \in Seq(S) : q = scan_queue /\ q # <<>>
      BY <2>2, <3>1 DEF IInv, Types, TypeOK
    <3>3. \A i \in 1 .. Len(Tail(q)) : i + 1 \in 1 .. Len(q) /\ Tail(q)[i] = q[i + 1]
      BY <3>2
    <3>4. QED
      BY <2>2, <3>2, <3>3 DEF Fine, Clean
  <2>3. QED
    BY <2>1, <2>2 DEF GetScan, GetterTakes, vars, deviceVars
<1>4. Clean'
  BY <1>1, <1>3 DEF Fine, Clean
<1>5. Replied'
  <2>1. Contents(api.got)' = Contents(api.got)
    BY <1>1 DEF Contents
  <2>2. Replied
    BY DEF Fine
  <2>3. At({"DX2"} \cup Asking, "read")' /\ First' # "DS" /\ Answered(CommandOf[First])' =>
          \E v \in Nat : Contents(api.got)' = Bytes(CommandOf[First'], v) /\ Meant(v)'
    BY <1>2, <2>1, <2>2 DEF Replied
  <2>4. At({"DS"}, "read")' => Unanswered("DS")' \/ Streaming(api.got, HeaderLen)'
    BY <1>1, <1>2, <2>2 DEF Replied
  <2>5. QED
    BY <2>3, <2>4 DEF Replied
<1>6. Motor'
  BY <1>1, <1>2 DEF Fine, Motor
<1>7. Stream'
  BY <1>1, <1>2 DEF Fine, Stream
<1>8. QED
  BY <1>4, <1>5, <1>6, <1>7 DEF Fine

\* A call begins on a line as it was.
LEMMA CallIsFine ==
  ASSUME IInv, Fine, NEW name \in Calls, NEW kind, NEW steps, Plan(steps, kind), NEW hz \in 0 .. 10,
         Call(name, steps, hz), UNCHANGED <<worker, buffer, scan_queue, sensor>>,
         Alive = {} \/ rx' = rx,
         steps[1] \in {"raise", "adjust", "wait"} \cup Requests,
         name = "start" => steps[1] = "adjust"
  PROVE  Fine'
<1>1. Types /\ Control /\ Started(kind) /\ First' = steps[1]
  BY CallStarts DEF IInv
<1>2. /\ api'.call = name /\ api'.todo = steps /\ api'.phase = "run" /\ ~Idle'
      /\ api'.tries = api.tries /\ api'.errors = 0
  BY <1>1 DEF Started, Call, Idle, Types, ApiState
<1>3. /\ At({"none"}, "run")
      /\ \A names : ~At(names, "read")' /\ ~At(names, "sleep")'
  BY <1>1, <1>2 DEF Started, At
<1>4. First' \notin {"none", "MS", "DS", "DX1", "clear", "spawn"}
  BY <1>1, DeviceAssumption
<1>5. Clean'
  BY <1>2 DEF Fine, Clean
<1>6. Replied'
  BY <1>3 DEF Replied
<1>7. Motor'
  <2>1. ~At({"MS", "DS"}, "run")' /\ ~At({"MS", "DS"}, "read")'
    BY <1>3, <1>4 DEF At
  <2>2. name = "start" => steps \notin Adjusting \cup Launching
    BY DEF Adjusting, Launching
  <2>3. First' = "wait" => name # "start"
    BY <1>1
  <2>4. api'.tries <= sensor'.unready
    BY <1>2 DEF Fine, Motor
  <2>5. QED
    BY <1>2, <1>4, <2>1, <2>2, <2>3, <2>4 DEF Motor
<1>8. Stream'
  <2>1. \A w \in Sessions : worker'[w] # "read" => buffer'[w] = <<>>
    BY DEF Fine, Stream
  <2>2. First' \notin Starting
    BY <1>4 DEF Starting
  <2>3. ASSUME NEW w \in Alive' PROVE Streaming(buffer[w], 0)'
    <3>1. w \in Alive /\ rx' = rx
      BY <2>3 DEF Alive
    <3>2. Streaming(buffer[w], 0)
      BY <1>3, <3>1 DEF Fine, Stream, At
    <3>3. QED
      BY <3>1, <3>2 DEF Streaming, Contents
  <2>4. QED
    BY <1>2, <1>3, <2>1, <2>2, <2>3 DEF Stream
<1>9. QED
  BY <1>5, <1>6, <1>7, <1>8 DEF Fine

LEMMA ApiCallIsFine ==
  ASSUME IInv, Grace, plugged, Served, Fine, ApiCall PROVE Fine'
<1>1. CASE sweep_device_construct
  <2>1. sessions = 0
    BY <1>1 DEF sweep_device_construct, Served
  <2>2. Alive = {}
    <3>1. \A w \in Alive : w = sessions /\ w \in Sessions
      BY DEF IInv, Talk, Workers, Alive
    <3>2. 0 \notin Sessions
      BY DEF Sessions
    <3>3. QED
      BY <2>1, <3>1, <3>2
  <2>3. QED
    BY <1>1, <2>2, StopPlan, CallIsFine DEF sweep_device_construct, Calls
<1>2. CASE sweep_device_stop_scanning
  BY <1>2, StopPlan, CallIsFine DEF sweep_device_stop_scanning, deviceVars, lineVars, Calls
<1>3. CASE sweep_device_destruct
  <2>1. PICK steps : steps = Append(StopSteps, "free")
    OBVIOUS
  <2>2. /\ Plan(steps, Stopping) /\ steps[1] = "raise" /\ Call("destruct", steps, 0)
        /\ UNCHANGED <<worker, buffer, scan_queue, sensor, rx>>
    BY <1>3, <2>1, DestructPlan DEF sweep_device_destruct, deviceVars, lineVars
  <2>3. QED
    BY <2>2, CallIsFine DEF Calls
<1>4. CASE sweep_device_start_scanning
  BY <1>4, StartPlan, CallIsFine DEF sweep_device_start_scanning, deviceVars, lineVars, Calls
<1>5. ASSUME NEW hz \in Speeds, sweep_device_set_motor_speed(hz) PROVE Fine'
  <2>1. PICK steps : steps = <<"wait", "MS">>
    OBVIOUS
  <2>2. Plan(steps, Asking) /\ steps[1] = "wait"
    BY <2>1, SpeedPlan
  <2>3. /\ Call("set_motor_speed", steps, hz) /\ hz \in 0 .. 10
        /\ UNCHANGED <<worker, buffer, scan_queue, sensor, rx>>
    BY <1>5, <2>1, LineAssumption DEF sweep_device_set_motor_speed, lineVars
  <2>4. QED
    BY <2>2, <2>3, CallIsFine DEF Calls
<1>6. ASSUME NEW cmd \in Requests, Request(cmd) PROVE Fine'
  <2>1. PICK steps : steps = <<cmd>>
    OBVIOUS
  <2>2. /\ Plan(steps, Asking) /\ steps[1] = cmd /\ Call(cmd, steps, 0)
        /\ UNCHANGED <<worker, buffer, scan_queue, sensor, rx>>
    BY <1>6, <2>1, RequestPlan DEF Request, deviceVars, lineVars
  <2>3. cmd \in Calls /\ cmd # "start"
    BY DeviceAssumption DEF Calls
  <2>4. QED
    BY <2>2, <2>3, CallIsFine
<1>7. QED
  BY <1>1, <1>2, <1>3, <1>4, <1>5, <1>6
     DEF ApiCall, ConstructFails, Request, sweep_device_get_motor_ready, sweep_device_get_motor_speed,
         sweep_device_get_sample_rate, sweep_device_set_sample_rate, sweep_device_reset

\* How a start comes to where it adjusts the speed, and to where it launches.
LEMMA LaunchGoesOn ==
  ASSUME api.todo \in StartTodos, api.todo # <<>>, Further \/ Again \/ Adjusted
  PROVE  /\ api'.todo \in Adjusting => api.todo \in Adjusting \/ (Adjusted /\ ~Further)
         /\ api'.todo \in Launching => \/ First = "adjust" /\ Further /\ ~Adjusted
                                       \/ First = "MS" /\ api.todo \in Adjusting
                                       \/ First = "wait" /\ api.todo \in Launching
<1> DEFINE t1 == <<"spawn">>
           t2 == <<"clear", "spawn">>
           t3 == <<"DS", "clear", "spawn">>
           t4 == <<"wait", "DS", "clear", "spawn">>
           t5 == <<"MS", "wait", "DS", "clear", "spawn">>
           t6 == <<"wait", "MS", "wait", "DS", "clear", "spawn">>
           t7 == <<"adjust", "wait", "DS", "clear", "spawn">>
<1>1. /\ t1[1] = "spawn" /\ t2[1] = "clear" /\ t3[1] = "DS" /\ t4[1] = "wait"
      /\ t5[1] = "MS" /\ t6[1] = "wait" /\ t7[1] = "adjust"
  OBVIOUS
<1>2. t1 # <<>> /\ t2 # <<>> /\ t3 # <<>> /\ t4 # <<>> /\ t5 # <<>> /\ t6 # <<>> /\ t7 # <<>>
  OBVIOUS
<1>3. Tail(t1) = <<>> /\ Tail(t2) = t1 /\ Tail(t3) = t2 /\ Tail(t4) = t3
  OBVIOUS
<1>4. Tail(t5) = t4 /\ Tail(t6) = t5 /\ Tail(t7) = t4
  OBVIOUS
<1>5. <<"wait", "MS">> \o t4 = t6
  BY Readjusted
<1>6. t4[2] = "DS" /\ t6[2] = "MS"
  OBVIOUS
<1>7. /\ StartTodos = {<<>>, t1, t2, t3, t4, t5, t6, t7}
      /\ Launching = {t3, t4} /\ Adjusting = {t5, t6}
  BY DEF StartTodos, Launching, Adjusting
<1> HIDE DEF t1, t2, t3, t4, t5, t6, t7
<1>8. First = api.todo[1]
  BY DEF First, Step
<1>9. CASE Further
  <2>1. t6 # t4 /\ (Adjusted /\ api.todo = t7 => api'.todo = t6)
    BY <1>4, <1>5, <1>6 DEF Adjusted
  <2>2. QED
    BY <1>1, <1>2, <1>3, <1>4, <1>7, <1>8, <1>9, <2>1 DEF Further
<1>10. CASE Again
  BY <1>1, <1>2, <1>7, <1>8, <1>10 DEF Again
<1>11. CASE Adjusted
  <2>1. api.todo = t7
    BY <1>1, <1>7, <1>8, <1>11 DEF Adjusted
  <2>2. api'.todo = t6
    BY <1>4, <1>5, <1>11, <2>1 DEF Adjusted
  <2>3. QED
    BY <1>1, <1>4, <1>6, <1>7, <1>11, <2>1, <2>2 DEF Further
<1>12. QED
  BY <1>9, <1>10, <1>11

\* Where a start is then.
LEMMA LaunchFirst == api'.todo \in Adjusting \cup Launching => First' \in {"MS", "DS", "wait"}
<1> DEFINE t3 == <<"DS", "clear", "spawn">>
           t4 == <<"wait", "DS", "clear", "spawn">>
           t5 == <<"MS", "wait", "DS", "clear", "spawn">>
           t6 == <<"wait", "MS", "wait", "DS", "clear", "spawn">>
<1>1. t3[1] = "DS" /\ t4[1] = "wait" /\ t5[1] = "MS" /\ t6[1] = "wait"
  OBVIOUS
<1>2. t3 # <<>> /\ t4 # <<>> /\ t5 # <<>> /\ t6 # <<>>
  OBVIOUS
<1>3. Launching = {t3, t4} /\ Adjusting = {t5, t6}
  BY DEF Launching, Adjusting
<1> HIDE DEF t3, t4, t5, t6
<1>4. First' = IF api'.todo = <<>> THEN "none" ELSE api'.todo[1]
  BY DEF First, Step
<1>5. QED
  BY <1>1, <1>2, <1>3, <1>4

\* A step of a stop is done.
LEMMA StopStepIsFine ==
  ASSUME IInv, Grace, Served, Fine, ~Idle, First \in Stopping, Proceed,
         UNCHANGED <<worker, buffer, scan_queue>>,
         sensor'.unready \in Nat,
         First = "raise" => /\ api.phase = "run" /\ UNCHANGED <<rx, object>>
                            /\ UNCHANGED <<sensor.sending, sensor.streaming>>,
         First # "raise" => Alive = {},
         First = "lower" => ~is_scanning', First = "free" => object' = "freed"
  PROVE  Fine'
<1>1. /\ Types /\ Control /\ Onward /\ Further /\ Goes /\ api'.errors = api.errors + 0
      /\ api.errors = 0 /\ api'.tries = 0 /\ api'.phase = "run" /\ api.todo # <<>>
  BY ProceedIsOnward, GoCounts DEF Proceed, IInv, Goes, Onward, Fine, Clean, Idle
<1>2. Follows
  BY <1>1, GoesLawfully
<1>3. /\ Idle' => First \in {"lower", "free", "spawn"} \cup Asking
      /\ ~Idle' => First' # "none"
  <2>1. api'.todo # <<>> => First' \in ToDo'
    BY <1>1, TodoFurther
  <2>2. ToDo' \subseteq ToDo
    BY <1>1, TodoFurther
  <2>3. "none" \notin ToDo
    BY <1>1 DEF ToDo, Types, ApiState, StepNames, Stopping, Asking, Starting
  <2>4. QED
    BY <1>1, <2>1, <2>2, <2>3, OnwardMeans DEF Idle
<1>4. /\ First' \in {"none", "DX1", "flush", "DX2", "lower", "free"}
      /\ First' \in {"none", "DX1"} => First = "raise" \/ Alive = {}
      /\ First' = "none" <=> Idle'
  <2>1. First' \in {"none", "DX1", "flush", "DX2", "lower", "free"}
    BY <1>1, <1>2 DEF Follows, MayFollow, Stopping, Aborted
  <2>2. Idle' => First' = "none"
    BY DEF Idle, First
  <2>3. QED
    BY <1>3, <2>1, <2>2
<1>5. /\ \A names : ~At(names, "read")' /\ ~At(names, "sleep")'
      /\ First' \notin {"MS", "DS", "wait"} /\ First' \notin Starting
  BY <1>1, <1>4 DEF At, Starting
<1>6. Clean'
  BY <1>1 DEF Fine, Clean
<1>7. Replied'
  BY <1>5 DEF Replied
<1>8. Motor'
  <2>1. api'.todo \notin Adjusting \cup Launching
    BY <1>5, LaunchFirst
  <2>2. ~At({"MS", "DS"}, "run")'
    BY <1>5 DEF At
  <2>3. api'.tries <= sensor'.unready
    BY <1>1
  <2>4. QED
    BY <1>5, <2>1, <2>2, <2>3 DEF Motor
<1>9. Stream'
  <2>1. \A w \in Sessions : worker'[w] # "read" => buffer'[w] = <<>>
    BY DEF Fine, Stream
  <2>2. Idle' => ~(object' = "live" /\ is_scanning')
    <3> SUFFICES ASSUME Idle' PROVE ~(object' = "live" /\ is_scanning')
      OBVIOUS
    <3>1. First \in {"lower", "free"}
      BY <1>3 DEF Stopping, Asking
    <3>2. QED
      BY <3>1
  <2>3. ASSUME NEW w \in Alive', At({"none", "raise", "DX1"}, "run")' PROVE Streaming(buffer[w], 0)'
    <3>1. w \in Alive
      BY <2>3 DEF Alive
    <3>2. First = "raise" /\ At({"none", "raise", "DX1"}, "run")
      BY <1>4, <2>3, <3>1 DEF At
    <3>3. Streaming(buffer[w], 0)
      BY <3>1, <3>2 DEF Fine, Stream
    <3>4. QED
      BY <3>2, <3>3 DEF Streaming, Contents
  <2>4. QED
    BY <1>5, <2>1, <2>2, <2>3 DEF Stream
<1>10. QED
  BY <1>6, <1>7, <1>8, <1>9 DEF Fine

\* A step that asks something of the sensor is done: what it has to leave behind.
LEMMA AskStepIsFine ==
  ASSUME IInv, Grace, Fine, ~Idle, First \in Asking, Goes, Further \/ Again \/ Adjusted,
         api'.call = api.call, api'.errors = api.errors,
         UNCHANGED <<worker, buffer, scan_queue, is_scanning, object>>,
         api'.tries <= sensor'.unready,
         First # "RR" => Undisturbed',
         First' \in {"MS", "DS"} => sensor'.ready,
         api.call = "start" /\ api'.todo \in Adjusting => api'.hz = 5,
         api.call = "start" /\ api'.todo \in Launching => sensor'.speed # 0,
         First' \in Starting => Streaming(<<>>, 0)'
  PROVE  Fine'
<1>1. Types /\ Control /\ Workers /\ api.todo # <<>>
  BY DEF IInv, Talk, Idle
<1>2. Follows /\ api'.phase = "run"
  BY <1>1, GoesLawfully DEF Goes
<1>3. /\ First' \in {"none", "wait", "MS", "DS", "clear"}
      /\ First = "RR" => First' = "none"
  BY <1>2 DEF Follows, MayFollow, Asking, Aborted
<1>4. ~is_scanning /\ Alive = {} /\ Alive' = {}
  <2>1. ~is_scanning
    BY <1>1, FirstIsOne DEF Control
  <2>2. QED
    BY <1>1, <2>1 DEF Workers, Alive
<1>5. \A names : ~At(names, "read")' /\ ~At(names, "sleep")'
  BY <1>2 DEF At
<1>6. Clean'
  BY DEF Fine, Clean
<1>7. Replied'
  BY <1>5 DEF Replied
<1>8. Motor'
  <2>1. At({"MS", "DS"}, "run")' => First' \in {"MS", "DS"}
    BY DEF At
  <2>2. First' \in {"MS", "DS"} \/ First' = "wait" => Undisturbed'
    BY <1>3
  <2>3. QED
    BY <1>5, <2>1, <2>2 DEF Motor
<1>9. Stream'
  <2>1. \A w \in Sessions : worker'[w] # "read" => buffer'[w] = <<>>
    BY DEF Fine, Stream
  <2>2. QED
    BY <1>4, <2>1 DEF Stream
<1>10. QED
  BY <1>6, <1>7, <1>8, <1>9 DEF Fine

\* A command is written: nothing of its response can be there.
LEMMA WriteIsFine ==
  ASSUME IInv, Grace, plugged, Served, Fine, write_command PROVE Fine'
<1>1. PICK cmd, arg : cmd = CommandOf[Step] /\ arg = IF Step = "MS" THEN api.hz ELSE 0
  OBVIOUS
<1>2. /\ AtCommand /\ api.phase = "run" /\ device_write(cmd, arg)
      /\ UNCHANGED deviceVars
      /\ \/ Step = "RR" /\ Proceed
         \/ Step = "DX1" /\ api' = [api EXCEPT !.phase = "sleep"]
         \/ Step \notin {"RR", "DX1"} /\ api' = [api EXCEPT !.phase = "read"]
  BY <1>1 DEF write_command
<1>3. /\ First = Step /\ First \in Asking \cup {"DX1", "DX2"} /\ ~Idle /\ api.todo # <<>>
      /\ cmd \in Commands /\ (cmd = "RR" <=> First = "RR")
  BY <1>1, <1>2, CommandOfFirst DEF Idle
<1>4. /\ LineTypes /\ Types /\ Control /\ Line /\ Workers /\ api \in ApiState /\ api.got = <<>>
      /\ sensor.resetting => sensor.inbox = <<>>
  BY <1>2 DEF IInv, Types, TypeOK, LineTypes, Talk, Control, Line
<1>5. arg \in 0 .. 10
  BY <1>1, <1>4 DEF ApiState
<1>6. /\ sensor' \in SensorState /\ rx' = rx
      /\ sensor'.sending = sensor.sending /\ sensor'.streaming = sensor.streaming
      /\ sensor'.resetting = sensor.resetting
      /\ ~sensor.resetting =>
           /\ sensor'.inbox # <<>> /\ Len(sensor'.inbox) = Len(sensor.inbox) + 1
           /\ \A i \in Pending : sensor'.inbox[i] = sensor.inbox[i]
           /\ sensor'.inbox[Len(sensor.inbox) + 1][1] = cmd
  BY <1>2, <1>3, <1>4, <1>5, Written
<1>7. /\ sensor'.speed = sensor.speed /\ sensor'.ready = sensor.ready
      /\ sensor'.unready = sensor.unready /\ sensor.unready \in Nat
  <2>1. sensor.unready \in Nat
    BY <1>4, LineAssumption DEF LineTypes, SensorState
  <2>2. QED
    BY <1>2, <1>4, <2>1 DEF device_write, LineTypes, SensorState
<1>8. CASE First = "RR"
  <2>1. Proceed
    BY <1>2, <1>3, <1>8
  <2>2. Onward /\ Further /\ api'.errors = api.errors + 0 /\ api.errors \in Nat /\ api'.tries = 0
    BY <1>3, <1>4, <2>1, ProceedIsOnward, GoCounts DEF Proceed
  <2>3. Goes /\ Follows /\ api'.call = api.call /\ api'.errors = api.errors
    BY <1>3, <1>4, <2>2, GoesLawfully DEF Onward
  <2>4. First' = "none"
    BY <1>8, <2>3 DEF Follows, MayFollow, Aborted
  <2>5. api'.todo \notin Adjusting \cup Launching /\ First' \notin Starting
    BY <2>4, LaunchFirst DEF Starting
  <2>6. api'.tries <= sensor'.unready
    BY <1>7, <2>2
  <2>7. UNCHANGED <<worker, buffer, scan_queue, is_scanning, object>>
    BY <1>2 DEF deviceVars
  <2>8. First \in Asking
    BY <1>8 DEF Asking
  <2>9. QED
    BY <1>3, <1>8, <2>2, <2>3, <2>4, <2>5, <2>6, <2>7, <2>8, AskStepIsFine
<1>9. ASSUME NEW p \in {"sleep", "read"}, api' = [api EXCEPT !.phase = p], p = "sleep" <=> First = "DX1",
             First # "RR"
      PROVE  Fine'
  <2>1. /\ api'.call = api.call /\ api'.todo = api.todo /\ api'.hz = api.hz /\ api'.tries = api.tries
        /\ api'.errors = api.errors /\ api'.phase = p /\ api'.got = <<>>
    BY <1>4, <1>9 DEF ApiState
  <2>2. First' = First /\ ~Idle'
    BY <1>3, <2>1 DEF First, Step, Idle
  <2>3. UNCHANGED <<worker, buffer, scan_queue, is_scanning, object>> /\ Alive' = Alive
    BY <1>2 DEF deviceVars, Alive
  <2>4. /\ \A names : ~At(names, "run")'
        /\ \A names : At(names, "read")' => First \in names /\ p = "read"
        /\ \A names : At(names, "sleep")' => At({"DX1"}, "run")
    BY <1>2, <1>9, <2>1, <2>2 DEF At
  <2>5. p = "read" => Quiet
    <3>1. ASSUME p = "read" PROVE At({"DX2", "lower"} \cup Asking, "run")
      BY <1>2, <1>3, <1>9, <3>1 DEF At
    <3>2. QED
      BY <1>4, <3>1 DEF Line
  <2>6. ~Calm'
    BY <1>4, <1>6 DEF Calm, LineTypes, SensorState
  <2>7. ASSUME First = "DS", Undisturbed PROVE Unanswered("DS")'
    <3>1. cmd = "DS"
      BY <1>1, <1>3, <2>7 DEF CommandOf
    <3>2. p = "read"
      BY <1>9, <2>7
    <3>3. Asked(cmd)'
      BY <1>2, <1>3, <1>4, <1>5, <2>1, <2>5, <3>2, WrittenFromQuiet
    <3>4. ~Quiet'
      <4>1. PICK n \in Nat : n = Len(sensor.inbox)
        BY <1>4, InboxIs
      <4>2. ~sensor.resetting /\ n + 1 \in 1 .. n + 1
        BY <2>7 DEF Undisturbed
      <4>3. n + 1 \in Pending' /\ Waiting(n + 1)' = "DS"
        BY <1>6, <3>1, <4>1, <4>2 DEF Pending, Waiting
      <4>4. QED
        BY <4>3 DEF Quiet
    <3>5. QED
      BY <2>6, <3>1, <3>3, <3>4 DEF Asked, Answered
  <2>8. ASSUME Undisturbed, First \in {"MS", "DS", "wait"} PROVE Undisturbed'
    <3>1. cmd # "RR"
      BY <1>3, <2>8
    <3>2. PICK n \in Nat : n = Len(sensor.inbox)
      BY <1>4, InboxIs
    <3>3. ~sensor.resetting /\ \A i \in 1 .. n : sensor.inbox[i][1] # "RR"
      BY <2>8, <3>2 DEF Undisturbed, Pending, Waiting
    <3>4. /\ Len(sensor'.inbox) = n + 1 /\ sensor'.inbox[n + 1][1] = cmd
          /\ \A i \in 1 .. n : sensor'.inbox[i] = sensor.inbox[i]
      BY <1>6, <3>2, <3>3 DEF Pending
    <3>5. \A i \in 1 .. n + 1 : i \in 1 .. n \/ i = n + 1
      OBVIOUS
    <3>6. \A i \in 1 .. n + 1 : sensor'.inbox[i][1] # "RR"
      BY <3>1, <3>3, <3>4, <3>5
    <3>7. QED
      BY <1>6, <3>3, <3>4, <3>6 DEF Undisturbed, Pending, Waiting
  <2>9. Clean'
    BY <2>1, <2>3 DEF Fine, Clean
  <2>10. Replied'
    <3>1. ASSUME At({"DS"}, "read")' PROVE Unanswered("DS")'
      <4>1. First = "DS" /\ Undisturbed
        BY <2>4, <3>1 DEF Fine, Motor
      <4>2. QED
        BY <2>7, <4>1
    <3>2. \A c : ~Answered(c)'
      BY <2>6 DEF Answered
    <3>3. QED
      BY <3>1, <3>2 DEF Replied
  <2>11. Motor'
    <3>1. First \in {"MS", "DS"} \/ (First = "wait" /\ api.call = "start") => Undisturbed'
      BY <2>8 DEF Fine, Motor
    <3>2. At({"MS", "DS"}, "read")' => sensor.ready
      <4>1. At({"MS", "DS"}, "read")' => At({"MS", "DS"}, "run")
        BY <1>2, <2>4 DEF At
      <4>2. QED
        BY <4>1 DEF Fine, Motor
    <3>3. /\ api.tries <= sensor.unready
          /\ api.call = "start" /\ api.todo \in Adjusting => api.hz = 5
          /\ api.call = "start" /\ api.todo \in Launching => sensor.speed # 0
      BY DEF Fine, Motor
    <3>4. QED
      BY <1>7, <2>1, <2>2, <2>4, <3>1, <3>2, <3>3 DEF Motor
  <2>12. Stream'
    <3>1. First \notin Starting
      BY <1>3 DEF Starting, Asking
    <3>2. ASSUME NEW w \in Alive', At({"DX1"}, "sleep")' PROVE Streaming(buffer[w], 0)'
      <4>1. w \in Alive /\ At({"none", "raise", "DX1"}, "run")
        BY <2>3, <2>4, <3>2 DEF At
      <4>2. Streaming(buffer[w], 0)
        BY <4>1 DEF Fine, Stream
      <4>3. QED
        BY <1>6, <2>3, <4>2 DEF Streaming, Contents
    <3>3. \A w \in Sessions : worker[w] # "read" => buffer[w] = <<>>
      BY DEF Fine, Stream
    <3>4. QED
      BY <2>2, <2>3, <2>4, <3>1, <3>2, <3>3 DEF Stream
  <2>13. QED
    BY <2>9, <2>10, <2>11, <2>12 DEF Fine
<1>10. QED
  BY <1>2, <1>3, <1>8, <1>9

\* The pause after the first DX is over.
LEMMA SleepEndsIsFine ==
  ASSUME IInv, Fine, SleepEnds PROVE Fine'
<1>1. /\ Types /\ Control /\ api.phase = "sleep" /\ First = "DX1"
      /\ UNCHANGED <<deviceVars, lineVars>> /\ api' = [api EXCEPT !.phase = "read"]
  BY DEF SleepEnds, IInv, Control
<1>2. /\ api'.call = api.call /\ api'.todo = api.todo /\ api'.hz = api.hz /\ api'.tries = api.tries
      /\ api'.errors = api.errors /\ api'.phase = "read"
  BY <1>1 DEF Types, ApiState
<1>3. First' = "DX1" /\ ~Idle'
  BY <1>1, <1>2 DEF First, Step, Idle
<1>4. /\ \A names : ~At(names, "run")' /\ ~At(names, "sleep")'
      /\ \A names : At(names, "read")' => "DX1" \in names
      /\ UNCHANGED <<worker, buffer, scan_queue, sensor>>
  BY <1>1, <1>2, <1>3 DEF At, deviceVars, lineVars
<1>5. Clean'
  BY <1>2, <1>4 DEF Fine, Clean
<1>6. Replied'
  <2>1. ~At({"DX2"} \cup Asking, "read")' /\ ~At({"DS"}, "read")'
    BY <1>4 DEF Asking
  <2>2. QED
    BY <2>1 DEF Replied
<1>7. Motor'
  BY <1>2, <1>3, <1>4 DEF Fine, Motor
<1>8. Stream'
  BY <1>3, <1>4 DEF Fine, Stream, Starting
<1>9. QED
  BY <1>5, <1>6, <1>7, <1>8 DEF Fine

\* A part of the response has been read.
LEMMA PartIsFine ==
  ASSUME Types, Fine, ~Idle, First \notin Starting, api.phase = "read", NEW b, api' = [api EXCEPT !.got = b],
         UNCHANGED <<worker, buffer, scan_queue, object, is_scanning, sensor>>,
         sensor.inbox = <<>>, Replied'
  PROVE  Fine'
<1>1. /\ api'.call = api.call /\ api'.todo = api.todo /\ api'.hz = api.hz /\ api'.tries = api.tries
      /\ api'.errors = api.errors /\ api'.phase = "read"
  BY DEF Types, ApiState
<1>2. First' = First /\ ~Idle'
  BY <1>1 DEF First, Step, Idle
<1>3. /\ \A names : ~At(names, "run")' /\ ~At(names, "sleep")'
      /\ \A c : ~Unanswered(c)'
  BY <1>1 DEF At, Unanswered
<1>4. Clean'
  BY <1>1 DEF Fine, Clean
<1>5. Motor'
  <2>1. Undisturbed' <=> Undisturbed
    BY DEF Undisturbed, Pending, Waiting
  <2>2. QED
    BY <1>1, <1>2, <1>3, <2>1 DEF Fine, Motor
<1>6. Stream'
  BY <1>2, <1>3 DEF Fine, Stream
<1>7. QED
  BY <1>4, <1>5, <1>6 DEF Fine

\* The response that comes is the one that was on its way, and is what it says.
LEMMA ReplyComes ==
  ASSUME IInv, Grace, plugged, Fine, AtCommand, First \in ({"DX2"} \cup Asking) \ {"RR", "DS"},
         api.phase = "read", Answered(CommandOf[First]), NEW b, Reads(b), sensor' = sensor
  PROVE  \E v \in Nat :
           /\ Meant(v) /\ Spread(b, rx', sensor'.sending) = Bytes(CommandOf[First], v)
           /\ Len(b) = Need => IsResponse(b, CommandOf[First]) /\ b[1][2] = v
<1>1. LineTypes /\ api.got \in Seq(Byte)
  BY DEF IInv, Types, TypeOK, LineTypes
<1>2. PICK c : c = CommandOf[First] /\ c \in Responding /\ Need = Length(c)
  BY CommandOfFirst DEF Responding
<1>3. PICK v \in Nat : Contents(api.got) = Bytes(c, v) /\ Meant(v)
  BY <1>2 DEF Fine, Replied, At
<1>4. PICK s, r2 : s = sensor.sending /\ r2 = rx'
  OBVIOUS
<1>5. b \in Seq(Byte) /\ s \in Seq(Byte) /\ r2 \in Seq(Byte)
  BY <1>1, <1>4 DEF Reads, LineTypes, SensorState
<1>6. Spread(b, r2, s) = Bytes(c, v)
  BY <1>1, <1>3, <1>4, <1>5, ClientsView
<1>7. Len(b) = Length(c) => IsResponse(b, c) /\ b[1][2] = v
  BY <1>2, <1>5, <1>6, ReplyIsRead
<1>8. QED
  BY <1>2, <1>3, <1>4, <1>6, <1>7

\* What the client makes of a response that came as it was meant, while it asks:
\* no error, and what the next step counts on.
LEMMA AnswerIsFine ==
  ASSUME IInv, Grace, ~Slow, Served, Reported, Fine, ~Idle, First = Step,
         First \in Asking \ {"RR", "DS"}, Calm, sensor' = sensor,
         NEW v \in Nat, Meant(v), First = "MS" => sensor.speed = api.hz, Interpret(v),
         UNCHANGED <<worker, buffer, scan_queue, is_scanning, object>>
  PROVE  Fine'
<1>1. Types /\ Control /\ api \in ApiState /\ api.todo # <<>> /\ api.tries \in Nat /\ api.errors \in Nat
  BY LineAssumption, DeviceAssumption DEF IInv, Types, ApiState, Idle
<1>2. Onward
  <2>1. First \notin {"raise", "lower", "free", "DX1", "flush", "DX2"}
    BY DEF Asking
  <2>2. Onward \/ CutShort
    BY <1>1, <2>1, InterpretEnds
  <2>3. QED
    BY <2>1, <2>2 DEF CutShort
<1>3. Goes /\ Follows /\ api'.call = api.call /\ (Further \/ Again \/ Adjusted)
  BY <1>1, <1>2, GoesLawfully DEF Onward
<1>4. sensor.unready \in Nat /\ MaxTries \in Nat /\ sensor.unready < MaxTries /\ api.tries <= sensor.unready
  <2>1. sensor.unready \in Nat /\ MaxTries \in Nat
    BY LineAssumption, DeviceAssumption DEF IInv, Types, TypeOK, SensorState
  <2>2. QED
    BY <2>1 DEF Slow, Fine, Motor
<1>5. /\ First \notin {"adjust", "wait", "MI", "MZ"} => v = 0
      /\ v \notin Refusals
  <2>1. First \notin {"adjust", "wait", "MI", "MZ"} => v = 0
    BY DEF Meant
  <2>2. QED
    BY <2>1 DEF Refusals
<1>6. /\ api'.errors = api.errors /\ api'.tries <= sensor.unready
      /\ api'.hz = api.hz \/ (First = "adjust" /\ v = 0 /\ api'.hz = 5)
      /\ First = "adjust" /\ v = 0 => api'.hz = 5 /\ Adjusted
      /\ First = "wait" /\ v # 0 => api'.todo = api.todo
      /\ First = "adjust" /\ v # 0 => Further
  <2>1. CASE First = "adjust" /\ v = 0
    <3>1. api' = [api EXCEPT !.todo = <<"wait", "MS">> \o Tail(@), !.phase = "run", !.got = <<>>, !.hz = 5]
      BY <1>5, <2>1 DEF Interpret
    <3>2. api'.errors = api.errors /\ api'.tries = api.tries /\ api'.hz = 5 /\ Adjusted
      BY <1>1, <2>1, <3>1 DEF ApiState, Adjusted
    <3>3. QED
      BY <1>4, <2>1, <3>2
  <2>2. CASE First = "wait" /\ v # 0
    <3>1. PollAgain(0)
      BY <1>5, <2>2 DEF Interpret
    <3>2. api.tries + 1 <= sensor.unready
      BY <2>2 DEF Meant
    <3>3. api.tries + 1 < MaxTries
      BY <1>1, <1>4, <3>2
    <3>4. api' = [api EXCEPT !.phase = "run", !.got = <<>>, !.tries = @ + 1, !.errors = @ + 0]
      BY <1>1, <1>4, <3>1, <3>3 DEF PollAgain
    <3>5. /\ api'.errors = api.errors + 0 /\ api'.tries = api.tries + 1 /\ api'.hz = api.hz
          /\ api'.todo = api.todo
      BY <1>1, <3>4 DEF ApiState
    <3>6. QED
      BY <1>1, <2>2, <3>2, <3>5
  <2>3. CASE ~(First = "adjust" /\ v = 0) /\ ~(First = "wait" /\ v # 0)
    <3>1. Proceed
      BY <1>5, <2>3 DEF Interpret
    <3>2. api'.errors = api.errors + 0 /\ api'.hz = api.hz /\ api'.tries = 0
      BY <1>1, <3>1, GoCounts DEF Proceed
    <3>3. Further
      BY <1>1, <3>1, ProceedIsOnward
    <3>4. QED
      BY <1>1, <1>4, <2>3, <3>2, <3>3
  <2>4. QED
    BY <2>1, <2>2, <2>3
<1>7. Undisturbed'
  <2>1. sensor'.inbox = <<>> /\ ~sensor'.resetting
    BY DEF Calm
  <2>2. Len(<<>>) = 0 /\ 1 .. 0 = {}
    OBVIOUS
  <2>3. QED
    BY <2>1, <2>2 DEF Undisturbed, Pending
<1>8. First' \in {"MS", "DS"} => sensor'.ready
  <2> SUFFICES ASSUME First' \in {"MS", "DS"} PROVE sensor.ready
    OBVIOUS
  <2>1. First = "wait"
    BY <1>3 DEF Follows, MayFollow, Asking, Aborted
  <2>2. v = 0
    <3>1. api'.todo = api.todo => First' = First
      BY DEF First, Step
    <3>2. QED
      BY <1>6, <2>1, <3>1
  <2>3. QED
    BY <2>1, <2>2 DEF Meant
<1>9. First' \notin Starting
  BY <1>3 DEF Follows, MayFollow, Asking, Aborted, Starting
<1>10. ASSUME api.call = "start"
       PROVE  /\ api'.todo \in Adjusting => api'.hz = 5
              /\ api'.todo \in Launching => sensor'.speed # 0
  <2>1. api.todo \in StartTodos
    BY <1>10 DEF Reported, Done
  <2>2. /\ api'.todo \in Adjusting => api.todo \in Adjusting \/ (Adjusted /\ ~Further)
        /\ api'.todo \in Launching => \/ First = "adjust" /\ Further /\ ~Adjusted
                                      \/ First = "MS" /\ api.todo \in Adjusting
                                      \/ First = "wait" /\ api.todo \in Launching
    BY <1>1, <1>3, <2>1, LaunchGoesOn
  <2>3. /\ api.todo \in Adjusting => api.hz = 5
        /\ api.todo \in Launching => sensor.speed # 0
    BY <1>10 DEF Fine, Motor
  <2>4. ASSUME api'.todo \in Adjusting PROVE api'.hz = 5
    <3>1. CASE api.todo \in Adjusting
      BY <1>6, <2>3, <3>1
    <3>2. CASE Adjusted /\ ~Further
      BY <1>6, <3>2 DEF Adjusted
    <3>3. QED
      BY <2>2, <2>4, <3>1, <3>2
  <2>5. ASSUME api'.todo \in Launching PROVE sensor.speed # 0
    <3>1. CASE First = "adjust" /\ Further /\ ~Adjusted
      <4>1. v # 0
        BY <1>6, <3>1
      <4>2. QED
        BY <3>1, <4>1 DEF Meant
    <3>2. CASE First = "MS" /\ api.todo \in Adjusting
      BY <2>3, <3>2
    <3>3. CASE First = "wait" /\ api.todo \in Launching
      BY <2>3, <3>3
    <3>4. QED
      BY <2>2, <2>5, <3>1, <3>2, <3>3
  <2>6. QED
    BY <2>4, <2>5
<1>11. First \in Asking /\ api'.tries <= sensor'.unready
  BY <1>6
<1>12. QED
  BY <1>3, <1>6, <1>7, <1>8, <1>9, <1>10, <1>11, AskStepIsFine

\* Calls that go as far as to DX: the response, whatever it is, ends the step.
LEMMA StopReadIsFine ==
  ASSUME IInv, Grace, plugged, Served, Fine, ~Idle, First \in {"DX1", "DX2"}, Alive = {}, Proceed,
         UNCHANGED <<deviceVars, sensor>>
  PROVE  Fine'
<1>1. sensor'.unready \in Nat
  BY LineAssumption DEF IInv, Types, TypeOK, SensorState
<1>2. First \in Stopping /\ First \notin {"raise", "lower", "free"}
  BY DEF Stopping
<1>3. QED
  BY <1>1, <1>2, StopStepIsFine DEF deviceVars

\* The response to DS: behind it is the stream.
LEMMA StartReadIsFine ==
  ASSUME IInv, Grace, Served, Reported, Fine, ~Idle, First = "DS", First = Step, AtCommand, sensor' = sensor,
         NEW b, b[1][2] = 0, Interpret(b[1][2]), Streaming(<<>>, 0)',
         UNCHANGED <<worker, buffer, scan_queue, is_scanning, object>>
  PROVE  Fine'
<1>1. Types /\ Control /\ api.todo # <<>>
  BY DEF IInv, Idle
<1>2. Proceed
  BY DEF Interpret, Refusals
<1>3. Onward /\ Further /\ api'.errors = api.errors + 0 /\ api.errors \in Nat /\ api'.tries = 0
  BY <1>1, <1>2, ProceedIsOnward, GoCounts DEF Proceed
<1>4. Goes /\ Follows /\ api'.call = api.call /\ api'.errors = api.errors
  BY <1>1, <1>3, GoesLawfully DEF Onward
<1>5. First' = "clear"
  BY <1>4 DEF Follows, MayFollow, Aborted, Unfinished
<1>6. api'.todo \notin Adjusting \cup Launching
  BY <1>5, LaunchFirst
<1>7. Undisturbed'
  BY DEF Fine, Motor, Undisturbed, Pending, Waiting
<1>8. api'.tries <= sensor'.unready
  BY <1>3, LineAssumption DEF IInv, Types, TypeOK, SensorState
<1>9. First \in Asking
  BY DEF Asking
<1>10. QED
  BY <1>3, <1>4, <1>5, <1>6, <1>7, <1>8, <1>9, AskStepIsFine

LEMMA ReadIsFine ==
  ASSUME IInv, Grace, plugged, ~Slow, Served, Reported, Fine, read_response PROVE Fine'
<1>1. PICK b :
        /\ AtCommand /\ First = Step /\ First \in Asking \cup {"DX1", "DX2"} /\ First # "RR"
        /\ ~Idle /\ api.phase = "read" /\ api.got \in Seq(Byte)
        /\ rx # <<>> /\ Need = Length(CommandOf[First])
        /\ UNCHANGED <<deviceVars, sensor>>
        /\ Reads(b)
        /\ \/ Len(b) < Need /\ api' = [api EXCEPT !.got = b]
           \/ Len(b) = Need /\ IsResponse(b, CommandOf[First]) /\ Interpret(b[1][2])
           \/ Len(b) = Need /\ ~IsResponse(b, CommandOf[First]) /\ FailRead
  BY ClientReads
<1>2. /\ Types /\ Control /\ LineTypes /\ b \in Seq(Byte) /\ Need \in Nat
      /\ UNCHANGED <<worker, buffer, scan_queue, is_scanning, object>>
  BY <1>1, CommandOfFirst DEF IInv, Types, TypeOK, LineTypes, Reads, deviceVars
<1>3. /\ Alive = {}
      /\ First = "DX1" => Still
      /\ First # "DX1" => \/ Answered(CommandOf[First])
                          \/ First = "DS" /\ sensor.streaming /\ Calm
  BY <1>1, ReadsAlone
<1>4. sensor.inbox = <<>> /\ First \notin Starting /\ (First # "DX1" => Calm)
  BY <1>1, <1>3 DEF Still, Answered, Calm, Starting, Asking
<1>5. ASSUME Len(b) < Need, api' = [api EXCEPT !.got = b], Replied' PROVE Fine'
  BY <1>1, <1>2, <1>4, <1>5, PartIsFine
<1>6. ASSUME api' = [api EXCEPT !.got = b]
      PROVE  /\ api'.got = b /\ First' = First /\ api'.phase = "read" /\ api'.tries = api.tries
             /\ \A names : At(names, "read")' <=> First \in names
  <2>1. api'.got = b /\ api'.todo = api.todo /\ api'.phase = "read" /\ api'.tries = api.tries
    BY <1>1, <1>2, <1>6 DEF Types, ApiState
  <2>2. First' = First
    BY <2>1 DEF First, Step
  <2>3. QED
    BY <2>1, <2>2 DEF At
<1>7. CASE First = "DX1"
  <2>1. CASE Len(b) < Need /\ api' = [api EXCEPT !.got = b]
    <3>1. ~At({"DX2"} \cup Asking, "read")' /\ ~At({"DS"}, "read")'
      BY <1>6, <1>7, <2>1 DEF Asking
    <3>2. QED
      BY <1>5, <2>1, <3>1 DEF Replied
  <2>2. CASE ~(Len(b) < Need /\ api' = [api EXCEPT !.got = b])
    <3>1. Proceed
      BY <1>1, <1>7, <2>2 DEF FailRead, Interpret, Refusals
    <3>2. QED
      BY <1>1, <1>3, <1>7, <3>1, StopReadIsFine
  <2>3. QED
    BY <2>1, <2>2
<1>8. CASE First \in ({"DX2"} \cup Asking) \ {"RR", "DS"}
  <2>1. First # "DX1" /\ First # "DS"
    BY <1>8 DEF Asking
  <2>2. Answered(CommandOf[First])
    BY <1>3, <2>1
  <2>3. PICK v \in Nat :
          /\ Meant(v) /\ Spread(b, rx', sensor'.sending) = Bytes(CommandOf[First], v)
          /\ Len(b) = Need => IsResponse(b, CommandOf[First]) /\ b[1][2] = v
    BY <1>1, <1>8, <2>2, ReplyComes
  <2>4. CASE Len(b) < Need /\ api' = [api EXCEPT !.got = b]
    <3>1. Meant(v)'
      BY <1>1, <1>6, <2>3, <2>4 DEF Meant
    <3>2. Contents(api.got)' = Bytes(CommandOf[First], v)
      BY <1>6, <2>3, <2>4 DEF Contents
    <3>3. Replied'
      <4>1. \E n \in Nat : Contents(api.got)' = Bytes(CommandOf[First'], n) /\ Meant(n)'
        BY <1>6, <2>4, <3>1, <3>2
      <4>2. ~At({"DS"}, "read")'
        BY <1>6, <2>1, <2>4
      <4>3. QED
        BY <4>1, <4>2 DEF Replied
    <3>4. QED
      BY <1>5, <2>4, <3>3
  <2>5. CASE Len(b) = Need /\ Interpret(v) /\ IsResponse(b, CommandOf[First]) /\ b[1][2] = v
    <3>1. CASE First = "DX2"
      <4>1. Proceed
        BY <1>1, <2>5, <3>1 DEF Interpret, Refusals
      <4>2. QED
        BY <1>1, <1>3, <3>1, <4>1, StopReadIsFine
    <3>2. CASE First # "DX2"
      <4>1. First = "MS" => sensor.speed = api.hz
        <5> SUFFICES ASSUME First = "MS" PROVE sensor.speed = api.hz
          OBVIOUS
        <5>1. CommandOf[First] = First /\ First \in Responding
          BY DEF CommandOf, Responding, Commands
        <5>2. Truthful(b)
          BY <1>1, ReadsTruth DEF Reported, Sincere, At
        <5>3. b[1][1] = First /\ Len(b) = Length(First) /\ 1 \in 1 .. Length(First)
          BY <2>5, <5>1, FirstByte, Lengths
        <5>4. v \in MayCarry
          BY <2>5, <5>2, <5>3 DEF Truthful
        <5>5. v = 0
          BY <2>3 DEF Meant
        <5>6. QED
          BY <5>4, <5>5 DEF MayCarry
      <4>2. First \in Asking \ {"RR", "DS"}
        BY <1>8, <3>2
      <4>3. Calm /\ sensor' = sensor
        BY <1>1, <1>4, <2>1
      <4>4. QED
        BY <1>1, <1>2, <2>3, <2>5, <4>1, <4>2, <4>3, AnswerIsFine
    <3>3. QED
      BY <3>1, <3>2
  <2>6. QED
    BY <1>1, <2>3, <2>4, <2>5
<1>9. CASE First = "DS"
  <2>1. CommandOf[First] = "DS" /\ Need = HeaderLen
    BY <1>1, <1>9 DEF CommandOf, Length
  <2>2. Streaming(api.got, HeaderLen)
    BY <1>1, <1>9 DEF Fine, Replied, At, Unanswered
  <2>3. PICK s, r2 : s = sensor.sending /\ r2 = rx' /\ s \in Seq(Byte) /\ r2 \in Seq(Byte)
    BY <1>1, <1>2 DEF LineTypes, SensorState, Reads
  <2>4. sensor.streaming /\ IsStream(Spread(b, r2, s), HeaderLen)
    <3>1. Spread(b, r2, s) = Contents(api.got)
      BY <1>1, <1>2, <2>3, ClientsView
    <3>2. QED
      BY <2>2, <3>1 DEF Streaming
  <2>5. CASE Len(b) < Need /\ api' = [api EXCEPT !.got = b]
    <3>1. Streaming(api.got, HeaderLen)'
      BY <1>1, <1>6, <2>3, <2>4, <2>5 DEF Streaming, Contents
    <3>2. ~At((({"DX2"} \cup Asking) \ {"DS"}), "read")' /\ First' = "DS"
      BY <1>6, <1>9, <2>5
    <3>3. QED
      BY <1>5, <2>5, <3>1, <3>2 DEF Replied
  <2>6. CASE Len(b) = Need
    <3>1. IsResponse(b, "DS") /\ b[1][2] = 0 /\ IsStream(Spread(<<>>, r2, s), 0)
      BY <1>2, <2>1, <2>3, <2>4, <2>6, StartIsRead
    <3>2. Streaming(<<>>, 0)'
      BY <1>1, <2>3, <2>4, <3>1 DEF Streaming, Contents
    <3>3. Interpret(b[1][2])
      BY <1>1, <2>1, <2>6, <3>1
    <3>4. QED
      BY <1>1, <1>2, <1>9, <3>1, <3>2, <3>3, StartReadIsFine
  <2>7. QED
    BY <1>1, <2>5, <2>6
<1>10. QED
  BY <1>1, <1>7, <1>8, <1>9

\* The steps that neither write nor read.
LEMMA QuietStepIsFine ==
  ASSUME IInv, Grace, plugged, Served, Fine, RaiseFlag \/ Flush \/ LowerScanning \/ FreeDevice
  PROVE  Fine'
<1>1. /\ Types /\ Control /\ Workers /\ sensor \in SensorState /\ sensor.unready \in Nat
      /\ api.phase \in {"run", "sleep", "read"}
  <2>1. Types /\ Control /\ Workers /\ sensor \in SensorState /\ api.phase \in {"run", "sleep", "read"}
    BY DEF IInv, Talk, Types, TypeOK
  <2>2. sensor.unready \in Nat
    BY <2>1, LineAssumption DEF SensorState
  <2>3. QED
    BY <2>1, <2>2
<1>2. CASE RaiseFlag
  <2>1. /\ First = "raise" /\ ~Idle /\ Proceed
        /\ sensor' = [sensor EXCEPT !.trailed = FALSE]
        /\ UNCHANGED <<worker, buffer, scan_queue, rx, object>>
    BY <1>2 DEF RaiseFlag, AtStep, First, Idle
  <2>2. /\ sensor'.unready \in Nat
        /\ UNCHANGED <<sensor.sending, sensor.streaming>>
    BY <1>1, <2>1 DEF SensorState
  <2>3. api.phase = "run"
    BY <1>1, <2>1, PhaseIsRun, CommandsOfSteps DEF Asking
  <2>4. QED
    BY <2>1, <2>2, <2>3, StopStepIsFine DEF Stopping
<1>3. CASE Flush
  <2>1. First = "flush" /\ ~Idle /\ Proceed /\ UNCHANGED <<worker, buffer, scan_queue, sensor>>
    BY <1>3 DEF Flush, AtStep, First, Idle, device_flush, deviceVars
  <2>2. Alive = {}
    BY <1>1, <2>1 DEF Workers
  <2>3. QED
    BY <1>1, <2>1, <2>2, StopStepIsFine DEF Stopping
<1>4. CASE LowerScanning
  <2>1. /\ First = "lower" /\ ~Idle /\ Proceed /\ ~is_scanning'
        /\ UNCHANGED <<worker, buffer, scan_queue, sensor>>
    BY <1>4 DEF LowerScanning, AtStep, First, Idle, lineVars
  <2>2. Alive = {}
    BY <1>1, <2>1 DEF Workers
  <2>3. QED
    BY <1>1, <2>1, <2>2, StopStepIsFine DEF Stopping
<1>5. CASE FreeDevice
  <2>1. /\ First = "free" /\ ~Idle /\ Proceed /\ object' = "freed"
        /\ UNCHANGED <<worker, buffer, scan_queue, sensor>>
    BY <1>5 DEF FreeDevice, AtStep, First, Idle, lineVars
  <2>2. Alive = {}
    BY <1>1, <2>1 DEF Workers
  <2>3. QED
    BY <1>1, <2>1, <2>2, StopStepIsFine DEF Stopping
<1>6. QED
  BY <1>2, <1>3, <1>4, <1>5

\* The stream goes on while the queue is cleared and the worker is created.
LEMMA StartStepIsFine ==
  ASSUME IInv, Grace, ~ThreadsRunOut, plugged, Served, Fine, ClearQueue \/ SpawnWorker PROVE Fine'
<1>1. Types /\ Control /\ Workers /\ sensor.unready \in Nat
  BY LineAssumption DEF IInv, Talk, Types, TypeOK, SensorState
<1>2. /\ First \in Starting /\ ~Idle /\ api.todo # <<>> /\ Proceed
      /\ UNCHANGED <<buffer, object, sensor, rx>>
  BY SpawnGoes DEF ClearQueue, SpawnWorker, AtStep, First, Idle, Starting, lineVars
<1>3. ~is_scanning /\ Alive = {}
  <2>1. ~is_scanning
    BY <1>1, <1>2, FirstIsOne DEF Control
  <2>2. QED
    BY <1>1, <2>1 DEF Workers
<1>4. /\ Goes /\ Follows /\ api'.errors = api.errors /\ api'.tries = 0 /\ api'.phase = "run"
  <2>1. Onward /\ Further /\ api'.errors = api.errors + 0 /\ api.errors \in Nat /\ api'.tries = 0
    BY <1>1, <1>2, ProceedIsOnward, GoCounts DEF Proceed
  <2>2. QED
    BY <1>1, <1>2, <2>1, GoesLawfully DEF Onward, Goes
<1>5. /\ First' = IF First = "clear" THEN "spawn" ELSE "none"
      /\ First = "clear" => ~Idle'
  <2>1. First' = IF First = "clear" THEN "spawn" ELSE "none"
    BY <1>2, <1>4 DEF Follows, MayFollow, Starting, Unfinished, Aborted
  <2>2. QED
    BY <2>1 DEF First, Idle
<1>6. Streaming(<<>>, 0) /\ Streaming(<<>>, 0)' /\ sensor'.streaming
  BY <1>2 DEF Fine, Stream, Streaming, Contents
<1>7. /\ \A names : ~At(names, "read")' /\ ~At(names, "sleep")'
      /\ ~At({"MS", "DS"}, "run")'
  BY <1>4, <1>5 DEF At
<1>8. Clean'
  <2>1. CASE ClearQueue
    <3>1. scan_queue' = <<>>
      BY <2>1 DEF ClearQueue
    <3>2. Len(<<>>) = 0 /\ 1 .. 0 = {}
      OBVIOUS
    <3>3. QED
      BY <1>4, <3>1, <3>2 DEF Fine, Clean
  <2>2. CASE SpawnWorker
    BY <1>4, <2>2 DEF SpawnWorker, Fine, Clean
  <2>3. QED
    BY <2>1, <2>2
<1>9. Replied'
  BY <1>7 DEF Replied
<1>10. Motor'
  <2>1. api'.todo \notin Adjusting \cup Launching
    BY <1>5, LaunchFirst
  <2>2. api'.tries <= sensor'.unready
    BY <1>1, <1>2, <1>4
  <2>3. QED
    BY <1>5, <1>7, <2>1, <2>2 DEF Motor
<1>11. Stream'
  <2>1. \A w \in Sessions : buffer[w] = <<>>
    BY <1>3 DEF Fine, Stream, Alive
  <2>2. \A w \in Alive' : Streaming(buffer[w], 0)'
    BY <1>2, <1>6, <2>1 DEF Alive
  <2>3. QED
    BY <1>2, <1>6, <1>7, <2>1, <2>2 DEF Stream
<1>12. QED
  BY <1>8, <1>9, <1>10, <1>11 DEF Fine

LEMMA ApiStepIsFine ==
  ASSUME IInv, Grace, ~ThreadsRunOut, plugged, ~Slow, Served, Reported, Fine, ApiStep PROVE Fine'
BY WriteIsFine, SleepEndsIsFine, ReadIsFine, QuietStepIsFine, StartStepIsFine DEF ApiStep

LEMMA StepIsFine ==
  /\ IInv /\ Grace /\ plugged /\ plugged' /\ ~MayCorrupt /\ ~ThreadsRunOut /\ HeaderLen < ScanLen
  /\ Served /\ Reported /\ ~Slow /\ Fine /\ [Next]_vars
  => Fine'
BY ApiCallIsFine, ApiStepIsFine, WorkerIsFine, ReaderIsFine, SensorIsFine DEF Next

LEMMA InitiallyFine == Init => Fine
<1> SUFFICES ASSUME Init PROVE Fine
  OBVIOUS
<1>1. /\ First = "none" /\ api.call = "none" /\ api.phase = "run" /\ api.tries = 0 /\ api.errors = 0
      /\ scan_queue = <<>> /\ object = "none" /\ Alive = {}
      /\ \A w \in Sessions : buffer[w] = <<>>
  BY DEF Init, First, Alive
<1>2. sensor.unready = 0
  BY DEF Init, LineInit
<1>3. Len(<<>>) = 0 /\ 1 .. 0 = {}
  OBVIOUS
<1>4. Clean
  BY <1>1, <1>3 DEF Clean
<1>5. Replied
  BY <1>1 DEF Replied, At
<1>6. Motor
  BY <1>1, <1>2 DEF Motor, At
<1>7. Stream
  BY <1>1 DEF Stream, Starting
<1>8. QED
  BY <1>4, <1>5, <1>6, <1>7 DEF Fine

\* The sensor does not forget how often it was not ready.
LEMMA StaysSlow == IInv /\ plugged /\ plugged' /\ [Next]_vars /\ Slow => Slow'
<1> SUFFICES ASSUME IInv, plugged, plugged', [Next]_vars, Slow PROVE Slow'
  OBVIOUS
<1>1. /\ Types /\ LineTypes /\ sensor \in SensorState
      /\ sensor.unready \in Nat /\ MaxTries \in Nat
  <2>1. Types /\ LineTypes /\ sensor \in SensorState
    BY DEF IInv, Types, TypeOK, LineTypes
  <2>2. sensor.unready \in Nat
    BY <2>1, LineAssumption DEF SensorState
  <2>3. MaxTries \in Nat
    BY DeviceAssumption
  <2>4. QED
    BY <2>1, <2>2, <2>3
<1>2. CASE ApiCall \/ GetScan \/ GetterTakes \/ UNCHANGED vars
  <2>1. sensor' = sensor
    BY <1>2 DEF ApiCall, ConstructFails, lineVars, sweep_device_construct, sweep_device_start_scanning,
        sweep_device_stop_scanning, sweep_device_destruct, sweep_device_set_motor_speed, Request,
        sweep_device_get_motor_ready, sweep_device_get_motor_speed, sweep_device_get_sample_rate,
        sweep_device_set_sample_rate, sweep_device_reset, GetScan, GetterTakes, vars
  <2>2. QED
    BY <2>1 DEF Slow
<1>3. CASE ApiStep
  <2>1. \/ sensor' = sensor
        \/ sensor' = [sensor EXCEPT !.trailed = FALSE]
        \/ \E cmd, arg : device_write(cmd, arg)
    BY <1>3 DEF ApiStep, lineVars, RaiseFlag, write_command, SleepEnds, read_response,
        Flush, device_flush, LowerScanning, ClearQueue, SpawnWorker, FreeDevice
  <2>2. sensor'.unready = sensor.unready
    BY <1>1, <2>1 DEF device_write, SensorState
  <2>3. QED
    BY <2>2 DEF Slow
<1>4. CASE \E w \in Sessions : WorkerStep(w)
  BY <1>1, <1>4, WorkerDoes DEF Works, Slow
<1>5. CASE Sensor
  <2>1. Responds \/ Begins \/ Transmits \/ Stabilizes \/ Restarts
    BY <1>1, <1>5, SensorDoesInFull DEF Sensor
  <2>2. sensor'.unready \in {sensor.unready, sensor.unready + 1}
    BY <2>1 DEF Responds, Obeyed, Begins, Transmits, Stabilizes, Restarts
  <2>3. QED
    BY <1>1, <2>2 DEF Slow
<1>6. QED
  BY <1>2, <1>3, <1>4, <1>5 DEF Next

\* With the device connected, no noise on the line, and a motor that is stable before
\* it is given up on, no call of the device fails and no worker ends with an error:
\* each of them finds the next message at its place in the stream, because what a
\* stop leaves behind of an interrupted packet is out before the line is flushed.
\* It holds for any number of sessions, and also if the sensor is reset and the next
\* call does not wait for it.
THEOREM CallsSucceed ==
  Grace /\ ~MayCorrupt /\ ~ThreadsRunOut /\ HeaderLen < ScanLen => (Spec => []NoSpuriousError)
<1> SUFFICES ASSUME Grace, ~MayCorrupt, ~ThreadsRunOut, HeaderLen < ScanLen PROVE Spec => []NoSpuriousError
  OBVIOUS
<1>0. Trusted
  BY DEF Trusted
<1> DEFINE J == plugged => Served /\ Reported /\ (~Slow => Fine)
<1>1. Init => J
  BY InitiallyPromised, InitiallyReported, InitiallyFine
<1>2. IInv /\ IInv' /\ J /\ [Next]_vars => J'
  BY <1>0, StaysGone, StepIsPromised, StepIsReported, StaysSlow, StepIsFine
<1>3. J => NoSpuriousError
  BY DEF Fine, Clean, NoSpuriousError
<1> HIDE DEF J
<1>4. QED
  BY Inductive, <1>1, <1>2, <1>3, PTL DEF Spec

-----------------------------------------------------------------------------
(* ---- host and sensor agree ---- *)

\* A client that waits for the sensor while it resets itself has at most one such
\* command on its way, and only between calls.
OneReset ==
  object = "live" =>
    IF Idle THEN sensor.inbox \in {<<>>, << <<"RR", 0>> >>} ELSE Undisturbed

LEMMA NothingWaits ==
  ASSUME NEW S, NEW box \in Seq(S), \A i \in 1 .. Len(box) : box[i][1] = "RR",
         \A i \in 1 .. Len(box) : box[i][1] # "RR"
  PROVE  box = <<>>
<1>1. PICK n \in Nat : n = Len(box)
  OBVIOUS
<1>2. n # 0 => 1 \in 1 .. n
  OBVIOUS
<1>3. n = 0
  BY <1>1, <1>2
<1>4. QED
  BY <1>1, <1>3, EmptySeq

\* Where a call ends undisturbed nothing is left for the sensor to act on.
LEMMA EndsUndisturbed ==
  ASSUME IInv', Grace, plugged', object' = "live", Idle', Undisturbed' PROVE sensor'.inbox = <<>>
<1>1. Line' /\ Control' /\ Types' /\ sensor' \in SensorState /\ api' \in ApiState
  BY DEF IInv, Talk, Types, TypeOK
<1>2. First' = "none" /\ api'.phase = "run"
  <2>1. First' = "none"
    BY DEF First, Idle
  <2>2. "none" \notin DOMAIN CommandOf /\ "none" # "DX1"
    BY CommandsOfSteps DEF Asking
  <2>3. QED
    BY <1>1, <2>1, <2>2 DEF Control, ApiState
<1>3. Calm' \/ Quiet'
  BY <1>1, <1>2 DEF Line, At
<1>4. CASE Calm'
  BY <1>4 DEF Calm
<1>5. CASE Quiet'
  <2>1. PICK S, box : S = Commands \X (0 .. 10) /\ box = sensor'.inbox /\ box \in Seq(S)
    BY <1>1 DEF SensorState
  <2>2. /\ \A i \in 1 .. Len(box) : box[i][1] = "RR"
        /\ \A i \in 1 .. Len(box) : box[i][1] # "RR"
    BY <1>5, <2>1 DEF Quiet, Undisturbed, Pending, Waiting
  <2>3. QED
    BY <2>1, <2>2, NothingWaits
<1>6. QED
  BY <1>3, <1>4, <1>5

LEMMA UndisturbedKeeps ==
  ASSUME IInv', Grace, plugged', Undisturbed' PROVE OneReset'
BY EndsUndisturbed DEF OneReset

LEMMA CallAwaitsReset ==
  ASSUME IInv, Grace, plugged, AwaitsReset, OneReset, IInv', plugged', ApiCall PROVE OneReset'
<1>1. /\ sensor' = sensor /\ api.todo = <<>>
      /\ object = "live" => /\ ~sensor.resetting
                            /\ <<"RR", 0>> \notin {sensor.inbox[i] : i \in 1 .. Len(sensor.inbox)}
      /\ object # "live" => object = "none"
  BY DEF ApiCall, ConstructFails, lineVars, sweep_device_construct, sweep_device_start_scanning,
      sweep_device_stop_scanning, sweep_device_destruct, sweep_device_set_motor_speed, Request,
      sweep_device_get_motor_ready, sweep_device_get_motor_speed, sweep_device_get_sample_rate,
      sweep_device_set_sample_rate, sweep_device_reset, Call
<1>2. sensor.inbox = <<>> /\ ~sensor.resetting
  <2>1. CASE object = "live"
    <3>1. sensor.inbox \in {<<>>, << <<"RR", 0>> >>}
      BY <1>1, <2>1 DEF OneReset, Idle
    <3>2. sensor.inbox # << <<"RR", 0>> >>
      <4>1. PICK box, e : e = <<"RR", 0>> /\ box = <<e>>
        OBVIOUS
      <4>2. Len(<<e>>) = 1 /\ <<e>>[1] = e /\ 1 \in 1 .. 1
        OBVIOUS
      <4>3. QED
        BY <1>1, <2>1, <4>1, <4>2
    <3>3. QED
      BY <1>1, <2>1, <3>1, <3>2
  <2>2. CASE object = "none"
    <3>1. Line /\ Control /\ Types /\ First = "none"
      BY <1>1 DEF IInv, Talk, First
    <3>2. api.phase = "run"
      BY <3>1, PhaseIsRun, CommandsOfSteps DEF Asking
    <3>3. QED
      BY <2>2, <3>1, <3>2 DEF Line, At, Calm
  <2>3. QED
    BY <1>1, <2>1, <2>2
<1>3. Undisturbed'
  <2>1. Len(<<>>) = 0 /\ 1 .. 0 = {}
    OBVIOUS
  <2>2. QED
    BY <1>1, <1>2, <2>1 DEF Undisturbed, Pending
<1>4. QED
  BY <1>3, UndisturbedKeeps

\* Only the last step of a call tells the sensor to reset itself.
LEMMA WriteAwaitsReset ==
  ASSUME IInv, Grace, plugged, OneReset, IInv', plugged', write_command PROVE OneReset'
<1>1. PICK cmd, arg : cmd = CommandOf[Step] /\ arg = IF Step = "MS" THEN api.hz ELSE 0
  OBVIOUS
<1>2. /\ AtCommand /\ api.phase = "run" /\ device_write(cmd, arg) /\ object' = object
      /\ Step = "RR" => Proceed
  BY <1>1 DEF write_command, deviceVars
<1>3. /\ First = Step /\ First \in Asking \cup {"DX1", "DX2"} /\ ~Idle /\ api.todo # <<>>
      /\ cmd \in Commands /\ (cmd = "RR" <=> First = "RR")
  BY <1>1, <1>2, CommandOfFirst DEF Idle
<1>4. /\ LineTypes /\ Types /\ Control /\ Line /\ sensor \in SensorState /\ object = "live"
  BY <1>3 DEF IInv, Types, TypeOK, LineTypes, Talk, Control
<1>5. Undisturbed /\ ~sensor.resetting
  BY <1>3, <1>4 DEF OneReset, Undisturbed
<1>6. sensor' = [sensor EXCEPT !.inbox = Append(@, <<cmd, arg>>)]
  BY <1>2, <1>5 DEF device_write
<1>7. PICK S, box : S = Commands \X (0 .. 10) /\ box = sensor.inbox /\ box \in Seq(S)
  BY <1>4 DEF SensorState
<1>8. sensor'.inbox = Append(box, <<cmd, arg>>) /\ ~sensor'.resetting
  BY <1>4, <1>5, <1>6, <1>7 DEF SensorState
<1>9. CASE First = "RR"
  <2>1. At({"DX2", "lower"} \cup Asking, "run")
    BY <1>2, <1>9 DEF At, Asking
  <2>2. Quiet
    BY <1>4, <2>1 DEF Line
  <2>3. box = <<>>
    BY <1>4, <1>5, <1>7, <2>2, UndisturbedLine
  <2>4. sensor'.inbox = << <<"RR", 0>> >>
    BY <1>1, <1>3, <1>8, <1>9, <2>3
  <2>5. Onward /\ Further
    BY <1>2, <1>3, <1>4, <1>9, ProceedIsOnward
  <2>6. api'.todo # <<>> => MayFollow("RR", First')
    BY <1>3, <1>4, <1>9, <2>5, TodoFurther
  <2>7. Idle'
    BY <2>6 DEF MayFollow, Idle
  <2>8. QED
    BY <2>4, <2>7 DEF OneReset
<1>10. CASE First # "RR"
  <2>1. PICK n \in Nat : n = Len(box)
    BY <1>7
  <2>2. \A i \in 1 .. n : box[i][1] # "RR"
    BY <1>5, <1>7, <2>1 DEF Undisturbed, Pending, Waiting
  <2>3. PICK e : e = <<cmd, arg>> /\ e[1] # "RR"
    <3>1. <<cmd, arg>>[1] = cmd
      OBVIOUS
    <3>2. QED
      BY <1>3, <1>10, <3>1
  <2>4. /\ Len(Append(box, e)) = n + 1 /\ Append(box, e)[n + 1] = e
        /\ \A i \in 1 .. n : Append(box, e)[i] = box[i]
    BY <1>7, <2>1
  <2>5. \A i \in 1 .. n + 1 : i \in 1 .. n \/ i = n + 1
    OBVIOUS
  <2>6. \A i \in 1 .. n + 1 : sensor'.inbox[i][1] # "RR"
    BY <1>8, <2>2, <2>3, <2>4, <2>5
  <2>7. Undisturbed'
    BY <1>8, <2>3, <2>4, <2>6 DEF Undisturbed, Pending, Waiting
  <2>8. QED
    BY <2>7, UndisturbedKeeps
<1>11. QED
  BY <1>9, <1>10

LEMMA SensorAwaitsReset ==
  ASSUME IInv, Grace, plugged, OneReset, IInv', plugged', Sensor PROVE OneReset'
<1>1. /\ LineTypes /\ UNCHANGED <<object, api>>
      /\ Responds \/ Begins \/ Transmits \/ Stabilizes \/ Restarts
  BY SensorDoesInFull DEF Sensor, IInv, Types, TypeOK, LineTypes, deviceVars
<1>2. (Idle' <=> Idle)
  BY <1>1 DEF Idle
<1>3. CASE Responds
  <2>1. Acted(sensor, sensor', Waiting(1)) /\ sensor.inbox # <<>>
    BY <1>3 DEF Responds, Obeyed
  <2>2. ASSUME object = "live", Idle PROVE sensor'.inbox = <<>>
    <3>1. sensor.inbox = << <<"RR", 0>> >>
      BY <2>1, <2>2 DEF OneReset
    <3>2. Waiting(1) = "RR"
      BY <3>1 DEF Waiting
    <3>3. QED
      BY <2>1, <3>2 DEF Acted
  <2>3. ASSUME object = "live", ~Idle PROVE Undisturbed'
    <3>1. Undisturbed
      BY <2>3 DEF OneReset
    <3>2. PICK n \in Nat : n = Len(sensor.inbox) /\ n # 0
      BY <1>1, <2>1, InboxIs
    <3>3. 1 \in 1 .. n /\ \A i \in 1 .. n - 1 : i + 1 \in 1 .. n
      BY <3>2
    <3>4. Waiting(1) # "RR"
      BY <3>1, <3>2, <3>3 DEF Undisturbed, Pending
    <3>5. sensor'.inbox = Tail(sensor.inbox) /\ sensor'.resetting = sensor.resetting
      BY <2>1, <3>4 DEF Acted
    <3>6. /\ Len(sensor'.inbox) = n - 1
          /\ \A i \in 1 .. n - 1 : sensor'.inbox[i] = sensor.inbox[i + 1]
      BY <1>1, <2>1, <3>2, <3>5, TailOfInbox
    <3>7. \A i \in 1 .. n - 1 : sensor'.inbox[i][1] # "RR"
      BY <3>1, <3>2, <3>3, <3>6 DEF Undisturbed, Pending, Waiting
    <3>8. QED
      BY <3>1, <3>5, <3>6, <3>7 DEF Undisturbed, Pending, Waiting
  <2>4. QED
    BY <1>1, <1>2, <2>2, <2>3 DEF OneReset
<1>4. CASE Begins \/ Transmits \/ Stabilizes \/ Restarts
  <2>1. sensor'.inbox = sensor.inbox /\ (sensor'.resetting => sensor.resetting)
    BY <1>4 DEF Begins, Transmits, Stabilizes, Restarts
  <2>2. Undisturbed => Undisturbed'
    BY <2>1 DEF Undisturbed, Pending, Waiting
  <2>3. QED
    BY <1>1, <1>2, <2>1, <2>2 DEF OneReset
<1>5. QED
  BY <1>1, <1>3, <1>4

LEMMA StepAwaitsReset ==
  IInv /\ IInv' /\ Grace /\ plugged /\ plugged' /\ AwaitsReset /\ OneReset /\ [Next]_vars => OneReset'
<1> SUFFICES ASSUME IInv, IInv', Grace, plugged, plugged', AwaitsReset, OneReset, [Next]_vars
             PROVE  OneReset'
  OBVIOUS
<1>1. CASE GetScan \/ GetterTakes \/ (\E w \in Sessions : WorkerStep(w)) \/ UNCHANGED vars
  <2>1. UNCHANGED <<object, api, sensor>>
    BY <1>1, WorkerDoes DEF GetScan, GetterTakes, Works, vars, deviceVars, lineVars, IInv
  <2>2. QED
    BY <2>1 DEF OneReset, Idle, Undisturbed, Pending, Waiting
<1>2. CASE ApiStep /\ ~write_command
  <2>1. sensor' = sensor \/ sensor' = [sensor EXCEPT !.trailed = FALSE]
    BY <1>2 DEF ApiStep, lineVars, RaiseFlag, SleepEnds, read_response,
        Flush, device_flush, LowerScanning, ClearQueue, SpawnWorker, FreeDevice
  <2>2. ~Idle
    BY <1>2 DEF ApiStep, RaiseFlag, SleepEnds, read_response, Flush, LowerScanning, ClearQueue,
        SpawnWorker, FreeDevice, AtStep, AtCommand, Idle, IInv, Control, First
  <2>3. object = "live" /\ sensor \in SensorState
    BY <2>2 DEF IInv, Control, Idle, Types, TypeOK
  <2>4. Undisturbed
    BY <2>2, <2>3 DEF OneReset
  <2>5. sensor'.inbox = sensor.inbox /\ sensor'.resetting = sensor.resetting
    BY <2>1, <2>3 DEF SensorState
  <2>6. Undisturbed'
    BY <2>4, <2>5 DEF Undisturbed, Pending, Waiting
  <2>7. QED
    BY <2>6, UndisturbedKeeps
<1>3. QED
  BY <1>1, <1>2, CallAwaitsReset, WriteAwaitsReset, SensorAwaitsReset DEF Next, ApiStep

\* Between the calls of a client that waits for a reset to be over, host and sensor
\* agree: a device that is not scanning is silent, with nothing on its way but a
\* command to reset, and one that is scanning is streaming.  Here too there is no
\* noise on the line, and the motor has not been given up on.
THEOREM HostAgreesWithSensor ==
  Grace /\ ~MayCorrupt /\ ~ThreadsRunOut /\ AwaitsReset /\ HeaderLen < ScanLen
  => (Spec => []HostAndSensorAgree)
<1> SUFFICES ASSUME Grace, ~MayCorrupt, ~ThreadsRunOut, AwaitsReset, HeaderLen < ScanLen
             PROVE  Spec => []HostAndSensorAgree
  OBVIOUS
<1>0. Trusted
  BY DEF Trusted
<1> DEFINE J == plugged => Served /\ Reported /\ (~Slow => Fine) /\ OneReset
<1>1. Init => J
  <2> SUFFICES ASSUME Init PROVE J
    OBVIOUS
  <2>1. OneReset
    BY DEF Init, OneReset
  <2>2. QED
    BY <2>1, InitiallyPromised, InitiallyReported, InitiallyFine
<1>2. IInv /\ IInv' /\ J /\ [Next]_vars => J'
  BY <1>0, StaysGone, StepIsPromised, StepIsReported, StaysSlow, StepIsFine, StepAwaitsReset
<1>3. IInv /\ J => HostAndSensorAgree
  <2> SUFFICES ASSUME IInv, Fine, OneReset, Idle, object = "live", plugged
               PROVE  IF is_scanning THEN sensor.streaming
                      ELSE /\ ~sensor.streaming /\ sensor.sending = <<>> /\ rx = <<>>
                           /\ sensor.inbox \in {<<>>, << <<"RR", 0>> >>}
    BY DEF HostAndSensorAgree
  <2>1. First = "none" /\ Types /\ Control /\ Line
    BY DEF First, Idle, IInv, Talk
  <2>2. api.phase = "run"
    BY <2>1, PhaseIsRun, CommandsOfSteps DEF Asking
  <2>3. ~is_scanning => Quiet
    BY <2>1, <2>2 DEF Line, At
  <2>4. QED
    BY <2>3 DEF Fine, Stream, OneReset, Quiet
<1> HIDE DEF J
<1>4. QED
  BY Inductive, <1>1, <1>2, <1>3, PTL DEF Spec
=============================================================================
