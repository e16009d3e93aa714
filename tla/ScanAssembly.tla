---------------------------- MODULE ScanAssembly ----------------------------
(***************************************************************************)
(* sweep_device_accumulate_scans of libsweep/src/sweep.cc: how the         *)
(* background worker cuts the stream of packets into scans.  This is one   *)
(* worker from its first loop test to its end; the queue it fills is       *)
(* ScanQueue, the byte stream it reads is in SweepDevice.                  *)
(*                                                                         *)
(* A packet is a reading with two flags, sync and error.  What the reading *)
(* says (angle, distance, strength) does not matter here: a reading is the *)
(* number of its packet and the number of the rotation it was taken in.    *)
(***************************************************************************)
EXTENDS Naturals, Sequences

CONSTANTS MaxSamples,   \* SWEEP_MAX_SAMPLES, 4096 in the source
          MaxPackets,   \* bound: how many packets the sensor sends
          NoScan,       \* nothing has been enqueued yet
          Failure       \* the element that carries an exception

ASSUME AssemblyAssumption ==
  /\ MaxSamples \in Nat \ {0}
  /\ MaxPackets \in Nat

VARIABLES pc,           \* the worker: at the loop test, in the read, ended or dead
          stop_thread,  \* the flag sweep_device_stop_scanning raises
          buffer,       \* the readings of the scan being collected
          out,          \* the element enqueued last
          rotation,     \* the sensor: the rotation it is in
          packets,      \* the sensor: how many packets it has sent
          emitted,      \* history: the readings of all scans enqueued, in order
          good,         \* history: the readings of all packets without error, in order
          intact        \* history: has no packet carried both flags?

vars == <<pc, stop_thread, buffer, out, rotation, packets, emitted, good, intact>>

Reading == [rotation : Nat, packet : Nat]

Init == /\ pc = "test"
        /\ stop_thread = FALSE
        /\ buffer = <<>>
        /\ out = NoScan
        /\ rotation = 0
        /\ packets = 0
        /\ emitted = <<>>
        /\ good = <<>>
        /\ intact = TRUE

-----------------------------------------------------------------------------
\* Bug: one reading too many is let in.
KeepReadingWhenFull ==
  /\ pc = "test"
  /\ ~stop_thread /\ Len(buffer) <= MaxSamples
  /\ pc' = "read"
  /\ UNCHANGED <<stop_thread, buffer, out, rotation, packets, emitted, good, intact>>

KeepReading ==
  /\ pc = "test"
  /\ ~stop_thread /\ Len(buffer) < MaxSamples
  /\ pc' = "read"
  /\ UNCHANGED <<stop_thread, buffer, out, rotation, packets, emitted, good, intact>>

\* Told to stop, or no room left: the worker ends and tells nobody.
LeaveLoop ==
  /\ pc = "test"
  /\ stop_thread \/ Len(buffer) >= MaxSamples
  /\ pc' = "ended"
  /\ UNCHANGED <<stop_thread, buffer, out, rotation, packets, emitted, good, intact>>

AllButLast(s) == SubSeq(s, 1, Len(s) - 1)

\* Bug: the sync reading is part of the scan it ends.
PackageWithSync(collected) ==
  out' = collected /\ emitted' = emitted \o collected /\ buffer' = <<collected[Len(collected)]>>

\* Bug: the sync reading is not kept for the next scan.
PackageDropsSync(collected) ==
  out' = AllButLast(collected) /\ emitted' = emitted \o AllButLast(collected) /\ buffer' = <<>>

\* Bug: received is not reset.
PackageKeepsAll(collected) ==
  out' = AllButLast(collected) /\ emitted' = emitted \o AllButLast(collected) /\ buffer' = collected

\* The scan that is complete goes to the queue, the sync reading stays behind
\* as the first of the next scan.
Package(collected) ==
  /\ out' = AllButLast(collected)
  /\ emitted' = emitted \o AllButLast(collected)
  /\ buffer' = <<collected[Len(collected)]>>

Collect(collected, sync) ==
  \/ /\ sync /\ Len(collected) > 1
     /\ Package(collected)
  \/ /\ ~(sync /\ Len(collected) > 1)
     /\ buffer' = collected
     /\ UNCHANGED <<out, emitted>>

\* A reading with the error flag is not stored; its sync flag still counts.
ReadPacket(sync, error) ==
  /\ pc = "read"
  /\ packets < MaxPackets
  /\ packets' = packets + 1
  /\ rotation' = IF sync THEN rotation + 1 ELSE rotation
  /\ LET reading == [rotation |-> rotation', packet |-> packets']
     IN  /\ good' = IF error THEN good ELSE Append(good, reading)
         /\ Collect(IF error THEN buffer ELSE Append(buffer, reading), sync)
  /\ intact' = (intact /\ ~(sync /\ error))
  /\ pc' = "test"
  /\ UNCHANGED stop_thread

\* The read throws: a bad checksum, or an error of the serial port.
ReadFails ==
  /\ pc = "read"
  /\ out' = Failure
  /\ pc' = "dead"
  /\ UNCHANGED <<stop_thread, buffer, rotation, packets, emitted, good, intact>>

\* Another thread is in sweep_device_stop_scanning.
RequestStop ==
  /\ ~stop_thread
  /\ stop_thread' = TRUE
  /\ UNCHANGED <<pc, buffer, out, rotation, packets, emitted, good, intact>>

Next == \/ KeepReading \/ LeaveLoop \/ ReadFails \/ RequestStop
        \/ \E sync, error \in BOOLEAN : ReadPacket(sync, error)

Spec == Init /\ [][Next]_vars

-----------------------------------------------------------------------------
IsScan(e) == e \notin {NoScan, Failure}

\* The shape of the state.
TypeOK ==
  /\ pc \in {"test", "read", "ended", "dead"}
  /\ stop_thread \in BOOLEAN
  /\ buffer \in Seq(Reading) /\ Len(buffer) <= MaxSamples
  /\ out \in Seq(Reading) \cup {NoScan, Failure}
  /\ rotation \in Nat
  /\ packets \in Nat
  /\ emitted \in Seq(Reading)
  /\ good \in Seq(Reading)
  /\ intact \in BOOLEAN

\* Neither the buffer on the worker's stack nor the samples of a scan overflow,
\* and a scan handed to the reader is never empty: the loop test leaves room
\* for the reading that comes after it.
SamplesFit ==
  /\ pc = "read" => Len(buffer) < MaxSamples
  /\ IsScan(out) => Len(out) \in 1 .. MaxSamples - 1

\* No reading is lost or repeated where the stream is cut: the scans put end to
\* end, and then the buffer, are all readings without error in order.
Conservation == emitted \o buffer = good

\* Whatever errors the packets carry, all the readings of a scan except its
\* first were taken in one rotation.
OneForeignReading ==
  IsScan(out) => \A i \in 2 .. Len(out) : out[i].rotation = out[Len(out)].rotation

\* A scan is a rotation: it holds every good reading of one rotation and no
\* reading of another.
EveryScanIsRotation ==
  IsScan(out) =>
    /\ \A i \in 1 .. Len(out) : out[i].rotation = out[1].rotation
    /\ \A j \in 1 .. Len(good) :
         good[j].rotation = out[1].rotation => \E i \in 1 .. Len(out) : out[i] = good[j]

\* So it is as long as no packet carries the sync and the error flag at once,
\* whatever errors the other packets carry.
ScanIsRotation == intact => EveryScanIsRotation
=============================================================================
