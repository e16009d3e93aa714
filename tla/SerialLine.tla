----------------------------- MODULE SerialLine -----------------------------
(***************************************************************************)
(* The serial port of libsweep/src/unix/serial.cc and, outside of the      *)
(* program, the sensor at the other end of it.  The sensor is modelled     *)
(* from how protocol.cc and sweep.cc use it: it answers its commands one   *)
(* after another, sends a whole message before the next one, and streams   *)
(* scan packets from a successful DS to the next DX.                       *)
(*                                                                         *)
(* Bytes are kept apart, because two threads may read from the port and    *)
(* each takes as many bytes as it asks for and finds.  A byte is the       *)
(* message it belongs to and its position in it.  Bytes of two messages    *)
(* are never accepted as one: the command bytes and checksums of           *)
(* protocol.cc tell them apart.  A response altered on the line may be     *)
(* accepted with another value: see Altered.                               *)
(***************************************************************************)
EXTENDS Integers, Sequences

CONSTANTS ScanLen,      \* bytes of a scan packet, 7 in protocol.hpp
          HeaderLen,    \* of the response to DS and DX, 6
          InfoLen,      \* of the response to MI, MZ and LI, 5
          ParamLen,     \* of the response to MS and LR, 9; RR has no response
          MaxBacklog,   \* bound: the sensor starts no packet beyond so many unread bytes
          Trailing,     \* does a packet start between stop_thread = true and acting on DX?
          MayUnplug,    \* may the device be unplugged?
          MayCorrupt,   \* may a packet or a response arrive altered?
          ChecksumsHold, \* does a checksum notice each response that was altered?
          Speeds,       \* bound: motor speeds the device may be powered on with, or reset to
          MaxUnready    \* bound: so many times the sensor answers that its motor is not ready

ASSUME LineAssumption ==
  /\ {ScanLen, HeaderLen, InfoLen, ParamLen} \subseteq Nat \ {0}
  /\ {MaxBacklog, MaxUnready} \subseteq Nat
  /\ {Trailing, MayUnplug, MayCorrupt, ChecksumsHold} \subseteq BOOLEAN
  /\ Speeds \subseteq 0 .. 10

VARIABLES sensor,   \* the device: see SensorState
          rx,       \* bytes received by the port and not read yet
          plugged   \* is the device still connected?

lineVars == <<sensor, rx, plugged>>

Commands == {"DS", "DX", "MI", "MZ", "MS", "LI", "LR", "RR"}

Length(kind) == CASE kind = "scan" -> ScanLen
                  [] kind \in {"DS", "DX"} -> HeaderLen
                  [] kind \in {"MI", "MZ", "LI"} -> InfoLen
                  [] kind \in {"MS", "LR"} -> ParamLen

\* A message is its kind and the status, speed or code it carries; of a scan
\* packet 0 says that its checksum is right.  The response to a command has its
\* command bytes, in order, with whatever value.
Bytes(kind, value) == [i \in 1 .. Length(kind) |-> <<kind, value, i>>]
Packet == Bytes("scan", 0)
IsResponse(bytes, kind) == bytes = Bytes(kind, bytes[1][2])

\* inbox: commands not yet acted on; sending: the rest of the message on the
\* wire; trailed: has a packet been started since the last call of stop?
\* unready: how often "not ready" has been the answer.
Byte == (Commands \cup {"scan", "noise"}) \X Nat \X Nat
SensorState == [inbox : Seq(Commands \X (0 .. 10)), sending : Seq(Byte),
                streaming : BOOLEAN, speed : 0 .. 10, ready : BOOLEAN, unready : 0 .. MaxUnready,
                trailed : BOOLEAN, resetting : BOOLEAN]

LineInit ==
  /\ sensor \in {[inbox |-> <<>>, sending |-> <<>>, streaming |-> s, speed |-> hz,
                  ready |-> r, unready |-> 0, trailed |-> FALSE, resetting |-> FALSE] :
                   s \in BOOLEAN, hz \in Speeds, r \in {MaxUnready = 0, TRUE}}
  /\ sensor.streaming => sensor.ready /\ sensor.speed > 0
  /\ rx = <<>>
  /\ plugged = TRUE

-----------------------------------------------------------------------------
\* The sensor acts on a command: the value it answers with and its new state.
\* 12: the motor has not stabilized, 13: the motor is stationary.
Answer(cmd) ==
  CASE cmd = "DS" -> IF sensor.speed = 0 THEN 13 ELSE IF sensor.ready THEN 0 ELSE 12
    [] cmd = "MS" -> IF sensor.ready THEN 0 ELSE 12
    [] cmd = "MZ" -> IF sensor.ready THEN 0 ELSE 1
    [] cmd = "MI" -> sensor.speed
    [] OTHER -> 0

ActOn(cmd, arg) ==
  LET done == [sensor EXCEPT !.inbox = Tail(@), !.sending = Bytes(cmd, Answer(cmd))]
  IN  CASE cmd = "DS" -> [done EXCEPT !.streaming = @ \/ Answer(cmd) = 0]
        [] cmd = "DX" -> [done EXCEPT !.streaming = FALSE]
        [] cmd = "MZ" /\ ~sensor.ready -> [done EXCEPT !.unready = @ + 1]
        [] cmd = "MS" /\ sensor.ready -> [done EXCEPT !.speed = arg,
                                                   !.ready = (arg = sensor.speed)]
        [] cmd = "RR" -> [sensor EXCEPT !.inbox = <<>>, !.resetting = TRUE]
        [] OTHER -> done

\* Noise on the line turns a response to something that is not accepted, or to
\* another value: those to MI, MZ and LI have no checksum, that of the others sums
\* two bytes and masks the sum.
Misread(cmd) == CASE cmd \in {"MI", "MZ", "LI"} -> {0, 1}
                  [] cmd \in {"DS", "DX", "MS", "LR"} /\ ~ChecksumsHold -> {0, 12}
                  [] OTHER -> {}

Altered(cmd, response) ==
  {[i \in DOMAIN response |-> <<"noise", 0, i>>]} \cup {Bytes(cmd, value) : value \in Misread(cmd)}

Respond ==
  /\ sensor.inbox # <<>> /\ sensor.sending = <<>>
  /\ LET cmd == Head(sensor.inbox)[1]
         acted == ActOn(cmd, Head(sensor.inbox)[2])
     IN  /\ Trailing /\ cmd = "DX" /\ sensor.streaming => sensor.trailed
         /\ cmd = "MZ" /\ ~sensor.ready => sensor.unready < MaxUnready
         /\ \/ sensor' = acted
            \/ /\ MayCorrupt
               /\ \E bytes \in Altered(cmd, acted.sending) : sensor' = [acted EXCEPT !.sending = bytes]
  /\ UNCHANGED <<rx, plugged>>

StartPacket ==
  /\ sensor.streaming /\ sensor.sending = <<>>
  /\ Len(rx) + ScanLen <= MaxBacklog \/ (sensor.inbox # <<>> /\ ~sensor.trailed)
  /\ \E checksum \in IF MayCorrupt THEN {0, 1} ELSE {0} :
       sensor' = [sensor EXCEPT !.sending = Bytes("scan", checksum), !.trailed = TRUE]
  /\ UNCHANGED <<rx, plugged>>

Transmit ==
  /\ sensor.sending # <<>>
  /\ rx' = Append(rx, Head(sensor.sending))
  /\ sensor' = [sensor EXCEPT !.sending = Tail(@)]
  /\ UNCHANGED plugged

Stabilize ==
  /\ ~sensor.ready
  /\ sensor' = [sensor EXCEPT !.ready = TRUE]
  /\ UNCHANGED <<rx, plugged>>

\* The reset is over: the sensor is as it was powered on.
Restart ==
  /\ sensor.resetting
  /\ \E hz \in Speeds, r \in {MaxUnready = 0, TRUE} :
       sensor' = [sensor EXCEPT !.resetting = FALSE, !.speed = hz, !.ready = r]
  /\ UNCHANGED <<rx, plugged>>

Unplug ==
  /\ MayUnplug /\ plugged
  /\ plugged' = FALSE
  /\ sensor' = [sensor EXCEPT !.inbox = <<>>, !.sending = <<>>, !.streaming = FALSE]
  /\ rx' = <<>>

SensorNext == Respond \/ StartPacket \/ Transmit \/ Stabilize \/ Restart \/ Unplug

-----------------------------------------------------------------------------
\* One read() of device_read: what is there, but no more than is missing.
Received(got, need) ==
  LET there == need - Len(got)
      n == IF Len(rx) < there THEN Len(rx) ELSE there
  IN  got \o SubSeq(rx, 1, n)
AfterRead(got, need) ==
  SubSeq(rx, Len(Received(got, need)) - Len(got) + 1, Len(rx))

\* A sensor that is resetting cannot receive commands.
device_write(cmd, arg) ==
  /\ plugged
  /\ sensor' = IF sensor.resetting THEN sensor
                ELSE [sensor EXCEPT !.inbox = Append(@, <<cmd, arg>>)]
  /\ UNCHANGED <<rx, plugged>>

device_flush ==
  /\ plugged
  /\ rx' = <<>>
  /\ UNCHANGED <<sensor, plugged>>
=============================================================================
