------------------------------- MODULE Codec --------------------------------
(***************************************************************************)
(* The conversions of libsweep: protocol.hpp and protocol.cc between the   *)
(* bytes on the wire and the fields of a message, and a noisy wire to show *)
(* what the checksum of a scan packet is worth.  The sensor is external:   *)
(* it fills in the checksum that libsweep/doc/serial_protocol_spec.md      *)
(* describes, the sum of the six bytes before it modulo 255.               *)
(*                                                                         *)
(* get_angle_millideg computes angle * 1000 / 16.0f in single precision.   *)
(* An angle * 1000 is a multiple of 8 below 2^27 (ExactInFloat in          *)
(* PacketProofs), so no rounding takes place and integer division is what  *)
(* the cast to int leaves of it.                                           *)
(***************************************************************************)
EXTENDS Integers

CONSTANTS Values,       \* bound: the bytes the sensor sends and the noise makes of them
          MaxGlitches   \* how many bytes of a packet the noise alters

Byte == 0 .. 255

ASSUME CodecAssumption == Values \subseteq Byte /\ MaxGlitches \in Nat

-----------------------------------------------------------------------------
\* response_scan_packet_s: packed, two-byte fields with the low byte first.
Unpack(b) == [sync_error |-> b[1], angle |-> b[2] + 256 * b[3], distance |-> b[4] + 256 * b[5],
              signal_strength |-> b[6], checksum |-> b[7]]

get_angle_millideg(v) == (v.angle * 1000) \div 16

\* n & 0xff00 and n & 0x00ff
HighByte(n) == 256 * (n \div 256)
LowByte(n) == n % 256

\* Bug: the signal strength is not part of the sum.
ChecksumWithoutSignal(v) ==
  (v.sync_error + HighByte(v.angle) + LowByte(v.angle)
     + HighByte(v.distance) + LowByte(v.distance)) % 255

\* Bug: the sum is taken modulo 256, as an eight-bit sum would be.
ChecksumOfWidth8(v) ==
  (v.sync_error + HighByte(v.angle) + LowByte(v.angle)
     + HighByte(v.distance) + LowByte(v.distance) + v.signal_strength) % 256

checksum_response_scan_packet(v) ==
  (v.sync_error + HighByte(v.angle) + LowByte(v.angle)
     + HighByte(v.distance) + LowByte(v.distance) + v.signal_strength) % 255

\* checksum_response_header, checksum_response_param: & 0x3F is % 64.
checksum_response_header(status1, status2) == ((status1 + status2) % 64) + 48

integral_to_ascii_bytes(n) == <<(n \div 10) + 48, (n % 10) + 48>>
ascii_bytes_to_integral(b) == (b[1] - 48) * 10 + (b[2] - 48)

\* What the specification of the serial protocol calls the checksum.
ByteSum(d) == (d[1] + d[2] + d[3] + d[4] + d[5] + d[6]) % 255

-----------------------------------------------------------------------------
VARIABLES data,      \* the six bytes the sensor measured
          wire,      \* the seven bytes that arrive
          glitches,  \* how many of them have been altered
          scan       \* what read_response_scan makes of them: nothing yet, an error or a packet

wireVars == <<data, wire, glitches, scan>>

WireInit ==
  /\ data \in [1 .. 6 -> Values]
  /\ wire = [i \in 1 .. 7 |-> IF i = 7 THEN ByteSum(data) ELSE data[i]]
  /\ glitches = 0
  /\ scan = "none"

Glitch(i, b) ==
  /\ scan = "none" /\ glitches < MaxGlitches /\ wire[i] # b
  /\ wire' = [wire EXCEPT ![i] = b]
  /\ glitches' = glitches + 1
  /\ UNCHANGED <<data, scan>>

read_response_scan ==
  /\ scan = "none"
  /\ scan' = IF checksum_response_scan_packet(Unpack(wire)) = wire[7] THEN "packet" ELSE "error"
  /\ UNCHANGED <<data, wire, glitches>>

WireNext == read_response_scan \/ \E i \in 1 .. 7, b \in Values : Glitch(i, b)

WireSpec == WireInit /\ [][WireNext]_wireVars

-----------------------------------------------------------------------------
\* The shape of the state.
WireTypeOK ==
  /\ data \in [1 .. 6 -> Byte] /\ wire \in [1 .. 7 -> Byte]
  /\ glitches \in 0 .. MaxGlitches
  /\ scan \in {"none", "error", "packet"}

\* A packet that arrives as it was sent is accepted: the code, which adds up
\* two-byte fields, and the sensor, which adds up bytes, agree.
CleanIsAccepted == scan = "error" => glitches > 0

Swapped(a, b) == {a, b} = {0, 255}

\* A packet of which at most one byte was altered is rejected, unless that byte
\* was turned from 0 to 255 or back: a sum modulo 255 cannot tell these apart.
GlitchIsNoticed ==
  scan = "packet" /\ glitches <= 1 =>
    \A i \in 1 .. 6 : wire[i] = data[i] \/ Swapped(wire[i], data[i])
=============================================================================
