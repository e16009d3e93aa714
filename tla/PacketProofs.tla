---------------------------- MODULE PacketProofs ----------------------------
(***************************************************************************)
(* Proofs about packets: what their conversions in Codec do to all bytes,  *)
(* what their checksum is worth on a noisy wire, for every choice of       *)
(* Values and MaxGlitches, and how ScanAssembly cuts them into scans, for  *)
(* every buffer size and every stream of packets.                          *)
(*                                                                         *)
(* What is said of the scan just enqueued follows from what was true of    *)
(* the buffer before: all its readings but the first belong to the current *)
(* rotation (RestIsCurrent), and while no sync packet carried an error the *)
(* first does too, while all that was enqueued is older (BufferIsCurrent). *)
(***************************************************************************)
EXTENDS Codec, ScanAssembly, SequenceTheorems, TLAPS


\* Status codes and settings: each of the numbers that two digits can express
\* becomes two digits, and these are read back as the same number.
THEOREM AsciiRoundTrip ==
  \A n \in 0 .. 99 : /\ ascii_bytes_to_integral(integral_to_ascii_bytes(n)) = n
                     /\ \A i \in 1 .. 2 : integral_to_ascii_bytes(n)[i] \in 48 .. 57
BY DEF ascii_bytes_to_integral, integral_to_ascii_bytes

\* The product that get_angle_millideg divides is exact in single precision: a
\* multiple of 8 below 2^27 needs no more than 24 bits.
THEOREM ExactInFloat ==
  \A angle \in Nat : angle < 65536 =>
    (angle * 1000) % 8 = 0 /\ angle * 1000 < 134217728
OBVIOUS

\* Angles of one rotation (fixed point, 16 to the degree) stay below 360000
\* millidegrees, and a later angle is greater by at least 62.
THEOREM AnglesGrow ==
  \A a, c \in 0 .. 5759 : a < c =>
    /\ 0 <= get_angle_millideg([angle |-> a]) /\ get_angle_millideg([angle |-> a]) < 360000
    /\ get_angle_millideg([angle |-> a]) + 62 <= get_angle_millideg([angle |-> c])
BY SMT DEF get_angle_millideg

\* The two bytes of a little-endian field, put together and taken apart again.
LEMMA SplitWord ==
  ASSUME NEW l \in Byte, NEW h \in Byte
  PROVE  HighByte(l + 256 * h) = 256 * h /\ LowByte(l + 256 * h) = l
BY DEF HighByte, LowByte, Byte

LEMMA DropMultiple == \A n, k \in Nat : (n + 255 * k) % 255 = n % 255
OBVIOUS

LEMMA WordsAreBytes ==
  ASSUME NEW b1 \in Byte, NEW b2 \in Byte, NEW b3 \in Byte,
         NEW b4 \in Byte, NEW b5 \in Byte, NEW b6 \in Byte
  PROVE  (b1 + 256 * b3 + b2 + 256 * b5 + b4 + b6) % 255
           = (b1 + b2 + b3 + b4 + b5 + b6) % 255
<1>1. PICK x, n \in Nat : /\ x = b1 + 256 * b3 + b2 + 256 * b5 + b4 + b6
                         /\ n = b1 + b2 + b3 + b4 + b5 + b6
  BY DEF Byte
<1>2. b3 + b5 \in Nat /\ x = n + 255 * (b3 + b5)
  BY <1>1 DEF Byte
<1>3. x % 255 = n % 255
  BY <1>2, DropMultiple
<1>4. QED
  BY <1>1, <1>3

\* Adding up two-byte fields modulo 255 is adding up their bytes: the formula
\* of the code is that of the protocol's specification.
THEOREM ChecksumIsByteSum ==
  ASSUME NEW b, \A i \in 1 .. 7 : b[i] \in Byte
  PROVE  checksum_response_scan_packet(Unpack(b)) = ByteSum(b)
<1> DEFINE b1 == b[1]
           b2 == b[2]
           b3 == b[3]
           b4 == b[4]
           b5 == b[5]
           b6 == b[6]
<1>1. /\ b1 \in Byte /\ b2 \in Byte /\ b3 \in Byte
      /\ b4 \in Byte /\ b5 \in Byte /\ b6 \in Byte
  OBVIOUS
<1>2. /\ HighByte(b2 + 256 * b3) = 256 * b3 /\ LowByte(b2 + 256 * b3) = b2
      /\ HighByte(b4 + 256 * b5) = 256 * b5 /\ LowByte(b4 + 256 * b5) = b4
  <2> HIDE DEF b1, b2, b3, b4, b5, b6
  <2>1. QED
    BY <1>1, SplitWord
<1>3. checksum_response_scan_packet(Unpack(b))
        = (b1 + 256 * b3 + b2 + 256 * b5 + b4 + b6) % 255
  BY <1>2 DEF checksum_response_scan_packet, Unpack
<1>4. ByteSum(b) = (b1 + b2 + b3 + b4 + b5 + b6) % 255
  BY DEF ByteSum
<1> HIDE DEF b1, b2, b3, b4, b5, b6
<1>5. QED
  BY <1>1, <1>3, <1>4, WordsAreBytes

\* Of two status digits neither can be altered alone without the header's
\* checksum showing it.
THEOREM HeaderShowsDigit ==
  \A s, t, u \in 48 .. 57 :
    checksum_response_header(s, u) = checksum_response_header(t, u) => s = t
BY DEF checksum_response_header

-----------------------------------------------------------------------------
\* The noisy wire.
Clean(i) == wire[i] = IF i = 7 THEN ByteSum(data) ELSE data[i]

\* A packet with at most one glitch has one byte that may not be clean, and
\* read_response_scan has judged the bytes by their checksum.
WireInv ==
  /\ WireTypeOK
  /\ glitches = 0 => \A i \in 1 .. 7 : Clean(i)
  /\ glitches <= 1 => \E k \in 1 .. 7 : \A i \in (1 .. 7) \ {k} : Clean(i)
  /\ scan = "packet" => checksum_response_scan_packet(Unpack(wire)) = wire[7]
  /\ scan = "error" => checksum_response_scan_packet(Unpack(wire)) # wire[7]

LEMMA SumIsByte == \A d \in [1 .. 6 -> Byte] : ByteSum(d) \in Byte
<1>1. \A x \in Nat : x % 255 \in Byte
  BY DEF Byte
<1>2. \A b1, b2, b3, b4, b5, b6 \in Byte : b1 + b2 + b3 + b4 + b5 + b6 \in Nat
  BY DEF Byte
<1>3. SUFFICES ASSUME NEW d \in [1 .. 6 -> Byte] PROVE ByteSum(d) \in Byte
  OBVIOUS
<1>4. d[1] + d[2] + d[3] + d[4] + d[5] + d[6] \in Nat
  <2>1. /\ d[1] \in Byte /\ d[2] \in Byte /\ d[3] \in Byte
        /\ d[4] \in Byte /\ d[5] \in Byte /\ d[6] \in Byte
    OBVIOUS
  <2>2. QED
    BY <1>2, <2>1, Zenon
<1>5. QED
  BY <1>1, <1>4 DEF ByteSum

LEMMA WireInitInv == WireInit => WireInv
<1> SUFFICES ASSUME WireInit PROVE WireInv
  OBVIOUS
<1>1. data \in [1 .. 6 -> Byte]
  BY CodecAssumption DEF WireInit
<1>2. ByteSum(data) \in Byte
  BY <1>1, SumIsByte
<1>3. wire \in [1 .. 7 -> Byte] /\ \A i \in 1 .. 7 : Clean(i)
  BY <1>1, <1>2 DEF WireInit, Clean
<1>4. QED
  BY <1>1, <1>3, CodecAssumption DEF WireInit, WireInv, WireTypeOK

LEMMA WireNextInv == WireInv /\ [WireNext]_wireVars => WireInv'
<1> SUFFICES ASSUME WireInv, [WireNext]_wireVars PROVE WireInv'
  OBVIOUS
<1>1. CASE read_response_scan
  BY <1>1 DEF WireInv, WireTypeOK, Clean, read_response_scan
<1>2. ASSUME NEW j \in 1 .. 7, NEW b \in Values, Glitch(j, b) PROVE WireInv'
  <2>1. /\ wire' \in [1 .. 7 -> Byte] /\ glitches' \in 0 .. MaxGlitches /\ glitches' > 0
        /\ \A i \in (1 .. 7) \ {j} : wire'[i] = wire[i]
        /\ glitches' = glitches + 1 /\ data' = data /\ scan' = scan /\ scan = "none"
    BY <1>2, CodecAssumption DEF WireInv, WireTypeOK, Glitch
  <2>2. glitches' <= 1 => \A i \in (1 .. 7) \ {j} : Clean(i)'
    BY <2>1 DEF WireInv, WireTypeOK, Clean
  <2>3. QED
    BY <2>1, <2>2 DEF WireInv, WireTypeOK
<1>3. CASE UNCHANGED wireVars
  BY <1>3 DEF WireInv, WireTypeOK, Clean, wireVars
<1>4. QED
  BY <1>1, <1>2, <1>3 DEF WireNext

LEMMA WireInductive == WireSpec => []WireInv
BY WireInitInv, WireNextInv, PTL DEF WireSpec

\* The state keeps its shape.
THEOREM WireTypeCorrect == WireSpec => []WireTypeOK
<1>1. WireInv => WireTypeOK
  BY DEF WireInv
<1>2. QED
  BY <1>1, WireInductive, PTL

LEMMA ChecksumOfWire == WireTypeOK => checksum_response_scan_packet(Unpack(wire)) = ByteSum(wire)
BY ChecksumIsByteSum DEF WireTypeOK

\* A packet that arrives as it was sent is never refused, whatever its bytes.
THEOREM CleanAccepted == WireSpec => []CleanIsAccepted
<1>1. WireInv => CleanIsAccepted
  <2> SUFFICES ASSUME WireInv, scan = "error", glitches = 0 PROVE FALSE
    BY DEF WireInv, WireTypeOK, CleanIsAccepted
  <2>1. wire[7] = ByteSum(data) /\ \A i \in 1 .. 6 : wire[i] = data[i]
    BY DEF WireInv, Clean
  <2>2. ByteSum(wire) = ByteSum(data)
    BY <2>1 DEF ByteSum
  <2>3. QED
    BY <2>1, <2>2, ChecksumOfWire DEF WireInv
<1>2. QED
  BY <1>1, WireInductive, PTL

LEMMA Div == \A x \in Nat : x = 255 * (x \div 255) + (x % 255) /\ x \div 255 \in Nat /\ x % 255 \in Nat
OBVIOUS

\* A byte and the rest of the sum.
Residue(b, s) == (b + s) % 255

LEMMA SameResidue ==
  ASSUME NEW s \in Nat, NEW b \in Byte, NEW c \in Byte, Residue(b, s) = Residue(c, s)
  PROVE  b = c \/ Swapped(b, c)
<1> DEFINE p == (b + s) \div 255
           q == (c + s) \div 255
           r == (b + s) % 255
<1>1. b \in Nat /\ c \in Nat /\ b <= 255 /\ c <= 255
  BY DEF Byte
<1>2. b + s = 255 * p + r /\ p \in Nat /\ r \in Nat
  BY <1>1, Div
<1>3. c + s = 255 * q + r /\ q \in Nat
  BY <1>1, Div DEF Residue
<1> HIDE DEF p, q, r
<1>4. b - c = 255 * (p - q)
  BY <1>1, <1>2, <1>3
<1>5. p - q \in {-1, 0, 1}
  BY <1>1, <1>2, <1>3, <1>4
<1>6. b = c \/ (b = 0 /\ c = 255) \/ (b = 255 /\ c = 0)
  BY <1>1, <1>2, <1>3, <1>4, <1>5
<1>7. QED
  BY <1>6 DEF Swapped

LEMMA OneByteShows ==
  ASSUME NEW d \in [1 .. 6 -> Byte], NEW e \in [1 .. 7 -> Byte], NEW k \in 1 .. 6,
         \A i \in (1 .. 6) \ {k} : e[i] = d[i], ByteSum(e) = ByteSum(d)
  PROVE  e[k] = d[k] \/ Swapped(e[k], d[k])
<1> DEFINE d1 == d[1]
           d2 == d[2]
           d3 == d[3]
           d4 == d[4]
           d5 == d[5]
           d6 == d[6]
           c == e[k]
<1>1. /\ d1 \in Byte /\ d2 \in Byte /\ d3 \in Byte /\ d4 \in Byte /\ d5 \in Byte /\ d6 \in Byte
      /\ c \in Byte /\ d[k] \in Byte
  OBVIOUS
<1>2. ASSUME NEW s \in Nat, ByteSum(d) = Residue(d[k], s), ByteSum(e) = Residue(c, s)
      PROVE  c = d[k] \/ Swapped(c, d[k])
  BY <1>1, <1>2, SameResidue
<1>3. CASE k = 1
  <2> DEFINE s == d2 + d3 + d4 + d5 + d6
  <2>1. ByteSum(d) = (d1 + d2 + d3 + d4 + d5 + d6) % 255 /\ ByteSum(e) = (c + d2 + d3 + d4 + d5 + d6) % 255
    BY <1>3 DEF ByteSum
  <2>2. d1 = d[k]
    BY <1>3
  <2> HIDE DEF d1, d2, d3, d4, d5, d6, c
  <2>3. s \in Nat /\ c + d2 + d3 + d4 + d5 + d6 = c + s /\ d1 + d2 + d3 + d4 + d5 + d6 = d1 + s
    BY <1>1 DEF Byte
  <2> HIDE DEF s
  <2>4. ByteSum(d) = Residue(d[k], s) /\ ByteSum(e) = Residue(c, s)
    BY <2>1, <2>2, <2>3 DEF Residue
  <2>5. QED
    BY <1>2, <2>3, <2>4 DEF c
<1>4. CASE k = 2
  <2> DEFINE s == d1 + d3 + d4 + d5 + d6
  <2>1. ByteSum(d) = (d1 + d2 + d3 + d4 + d5 + d6) % 255 /\ ByteSum(e) = (d1 + c + d3 + d4 + d5 + d6) % 255
    BY <1>4 DEF ByteSum
  <2>2. d2 = d[k]
    BY <1>4
  <2> HIDE DEF d1, d2, d3, d4, d5, d6, c
  <2>3. s \in Nat /\ d1 + c + d3 + d4 + d5 + d6 = c + s /\ d1 + d2 + d3 + d4 + d5 + d6 = d2 + s
    BY <1>1 DEF Byte
  <2> HIDE DEF s
  <2>4. ByteSum(d) = Residue(d[k], s) /\ ByteSum(e) = Residue(c, s)
    BY <2>1, <2>2, <2>3 DEF Residue
  <2>5. QED
    BY <1>2, <2>3, <2>4 DEF c
<1>5. CASE k = 3
  <2> DEFINE s == d1 + d2 + d4 + d5 + d6
  <2>1. ByteSum(d) = (d1 + d2 + d3 + d4 + d5 + d6) % 255 /\ ByteSum(e) = (d1 + d2 + c + d4 + d5 + d6) % 255
    BY <1>5 DEF ByteSum
  <2>2. d3 = d[k]
    BY <1>5
  <2> HIDE DEF d1, d2, d3, d4, d5, d6, c
  <2>3. s \in Nat /\ d1 + d2 + c + d4 + d5 + d6 = c + s /\ d1 + d2 + d3 + d4 + d5 + d6 = d3 + s
    BY <1>1 DEF Byte
  <2> HIDE DEF s
  <2>4. ByteSum(d) = Residue(d[k], s) /\ ByteSum(e) = Residue(c, s)
    BY <2>1, <2>2, <2>3 DEF Residue
  <2>5. QED
    BY <1>2, <2>3, <2>4 DEF c
<1>6. CASE k = 4
  <2> DEFINE s == d1 + d2 + d3 + d5 + d6
  <2>1. ByteSum(d) = (d1 + d2 + d3 + d4 + d5 + d6) % 255 /\ ByteSum(e) = (d1 + d2 + d3 + c + d5 + d6) % 255
    BY <1>6 DEF ByteSum
  <2>2. d4 = d[k]
    BY <1>6
  <2> HIDE DEF d1, d2, d3, d4, d5, d6, c
  <2>3. s \in Nat /\ d1 + d2 + d3 + c + d5 + d6 = c + s /\ d1 + d2 + d3 + d4 + d5 + d6 = d4 + s
    BY <1>1 DEF Byte
  <2> HIDE DEF s
  <2>4. ByteSum(d) = Residue(d[k], s) /\ ByteSum(e) = Residue(c, s)
    BY <2>1, <2>2, <2>3 DEF Residue
  <2>5. QED
    BY <1>2, <2>3, <2>4 DEF c
<1>7. CASE k = 5
  <2> DEFINE s == d1 + d2 + d3 + d4 + d6
  <2>1. ByteSum(d) = (d1 + d2 + d3 + d4 + d5 + d6) % 255 /\ ByteSum(e) = (d1 + d2 + d3 + d4 + c + d6) % 255
    BY <1>7 DEF ByteSum
  <2>2. d5 = d[k]
    BY <1>7
  <2> HIDE DEF d1, d2, d3, d4, d5, d6, c
  <2>3. s \in Nat /\ d1 + d2 + d3 + d4 + c + d6 = c + s /\ d1 + d2 + d3 + d4 + d5 + d6 = d5 + s
    BY <1>1 DEF Byte
  <2> HIDE DEF s
  <2>4. ByteSum(d) = Residue(d[k], s) /\ ByteSum(e) = Residue(c, s)
    BY <2>1, <2>2, <2>3 DEF Residue
  <2>5. QED
    BY <1>2, <2>3, <2>4 DEF c
<1>8. CASE k = 6
  <2> DEFINE s == d1 + d2 + d3 + d4 + d5
  <2>1. ByteSum(d) = (d1 + d2 + d3 + d4 + d5 + d6) % 255 /\ ByteSum(e) = (d1 + d2 + d3 + d4 + d5 + c) % 255
    BY <1>8 DEF ByteSum
  <2>2. d6 = d[k]
    BY <1>8
  <2> HIDE DEF d1, d2, d3, d4, d5, d6, c
  <2>3. s \in Nat /\ d1 + d2 + d3 + d4 + d5 + c = c + s /\ d1 + d2 + d3 + d4 + d5 + d6 = d6 + s
    BY <1>1 DEF Byte
  <2> HIDE DEF s
  <2>4. ByteSum(d) = Residue(d[k], s) /\ ByteSum(e) = Residue(c, s)
    BY <2>1, <2>2, <2>3 DEF Residue
  <2>5. QED
    BY <1>2, <2>3, <2>4 DEF c
<1>9. QED
  BY <1>3, <1>4, <1>5, <1>6, <1>7, <1>8

\* A single altered byte is noticed unless 0 and 255 were exchanged, whatever
\* the sensor measured and whatever the noise makes of the byte.
THEOREM GlitchNoticed == WireSpec => []GlitchIsNoticed
<1>1. WireInv => GlitchIsNoticed
  <2> SUFFICES ASSUME WireInv, scan = "packet", glitches <= 1, NEW i \in 1 .. 6
               PROVE  wire[i] = data[i] \/ Swapped(wire[i], data[i])
    BY DEF GlitchIsNoticed
  <2>1. PICK k \in 1 .. 7 : \A j \in (1 .. 7) \ {k} : Clean(j)
    BY DEF WireInv
  <2>2. CASE i # k
    BY <2>1, <2>2 DEF Clean
  <2>3. CASE i = k
    <3>1. wire[7] = ByteSum(data) /\ \A j \in (1 .. 6) \ {i} : wire[j] = data[j]
      BY <2>1, <2>3 DEF Clean
    <3>2. ByteSum(wire) = ByteSum(data)
      BY <3>1, ChecksumOfWire DEF WireInv
    <3>3. QED
      BY <3>1, <3>2, OneByteShows DEF WireInv, WireTypeOK
  <2>4. QED
    BY <2>2, <2>3
<1>2. QED
  BY <1>1, WireInductive, PTL

-----------------------------------------------------------------------------
\* From packets to scans.
RestIsCurrent == \A i \in 2 .. Len(buffer) : buffer[i].rotation = rotation

IInv == TypeOK /\ SamplesFit /\ Conservation /\ RestIsCurrent /\ OneForeignReading

-----------------------------------------------------------------------------
\* Cutting a sequence before its last element.  (Package)
LEMMA AllButLastProperties ==
  ASSUME NEW S, NEW s \in Seq(S), Len(s) > 1
  PROVE  /\ AllButLast(s) \in Seq(S)
         /\ Len(AllButLast(s)) = Len(s) - 1
         /\ \A i \in 1 .. Len(s) - 1 : AllButLast(s)[i] = s[i]
         /\ s[Len(s)] \in S
BY DEF AllButLast

\* The pieces of a cut put together again.  (Package)
LEMMA CutAndJoin ==
  ASSUME NEW S, NEW e \in Seq(S), NEW s \in Seq(S), Len(s) > 1
  PROVE  (e \o AllButLast(s)) \o <<s[Len(s)]>> = e \o s
<1>1. /\ AllButLast(s) \in Seq(S) /\ Len(AllButLast(s)) = Len(s) - 1 /\ s[Len(s)] \in S
      /\ \A i \in 1 .. Len(s) - 1 : AllButLast(s)[i] = s[i]
  BY AllButLastProperties
<1>2. AllButLast(s) \o <<s[Len(s)]>> = s
  <2>1. PICK a : a = AllButLast(s)  OBVIOUS
  <2>2. PICK t : t = Append(a, s[Len(s)])  OBVIOUS
  <2>3. /\ t \in Seq(S) /\ Len(t) = Len(s) /\ Len(s) \in Nat /\ Len(a) = Len(s) - 1
        /\ t[Len(s)] = s[Len(s)] /\ \A i \in 1 .. Len(s) - 1 : t[i] = a[i]
    <3>1. a \in Seq(S) /\ Len(a) = Len(s) - 1 /\ Len(s) \in Nat  BY <1>1, <2>1
    <3>2. /\ t \in Seq(S) /\ Len(t) = Len(a) + 1 /\ t[Len(a) + 1] = s[Len(s)]
          /\ \A i \in 1 .. Len(a) : t[i] = a[i]
      BY <1>1, <2>2, <3>1, AppendProperties
    <3> QED BY <3>1, <3>2
  <2>4. ASSUME NEW i \in 1 .. Len(t)  PROVE t[i] = s[i]
    <3>1. CASE i = Len(s)  BY <2>3, <3>1
    <3>2. CASE i # Len(s)
      <4>1. i \in 1 .. Len(s) - 1  BY <2>3, <3>2
      <4> QED BY <1>1, <2>1, <2>3, <4>1
    <3> QED BY <3>1, <3>2
  <2>5. t = s  BY <2>3, <2>4, SeqEqual
  <2>6. Append(a, s[Len(s)]) = a \o <<s[Len(s)]>>  BY <1>1, <2>1, AppendIsConcat
  <2> QED BY <2>1, <2>2, <2>5, <2>6
<1>3. PICK a \in Seq(S) : a = AllButLast(s)  BY <1>1
<1>4. PICK u \in Seq(S) : u = <<s[Len(s)]>>
  <2>1. <<s[Len(s)]>> \in Seq(S)  BY <1>1
  <2> QED BY <2>1
<1>5. (e \o a) \o u = e \o (a \o u)  BY ConcatAssociative
<1> QED BY <1>2, <1>3, <1>4, <1>5, Zenon

\* Appending to the second of two sequences put together.  (ReadPacket)
LEMMA ConcatAppend ==
  ASSUME NEW S, NEW e \in Seq(S), NEW s \in Seq(S), NEW x \in S
  PROVE  e \o Append(s, x) = Append(e \o s, x)
<1>1. PICK u \in Seq(S) : u = <<x>>
  <2>1. <<x>> \in Seq(S)  OBVIOUS
  <2> QED BY <2>1
<1>2. (e \o s) \o u = e \o (s \o u)  BY ConcatAssociative
<1>3. e \o s \in Seq(S)  OBVIOUS
<1>4. Append(s, x) = s \o u /\ Append(e \o s, x) = (e \o s) \o u
  BY <1>1, <1>3, AppendIsConcat, Zenon
<1> QED BY <1>2, <1>4, Zenon

LEMMA InitInv == Init => IInv
<1> SUFFICES ASSUME Init  PROVE IInv
  OBVIOUS
<1> USE AssemblyAssumption DEF Init
<1>1. TypeOK
  <2>1. stop_thread \in BOOLEAN /\ pc \in {"test", "read", "ended", "dead"}  BY Zenon
  <2>2. /\ buffer \in Seq(Reading) /\ emitted \in Seq(Reading) /\ good \in Seq(Reading)
        /\ rotation \in Nat /\ packets \in Nat /\ out \in Seq(Reading) \cup {NoScan, Failure}
    BY EmptySeq
  <2> QED BY <2>1, <2>2 DEF TypeOK
<1>2. SamplesFit  BY DEF SamplesFit, IsScan
<1>3. Conservation  BY DEF Conservation
<1>4. RestIsCurrent  BY DEF RestIsCurrent
<1>5. OneForeignReading  BY DEF OneForeignReading, IsScan
<1> QED BY <1>1, <1>2, <1>3, <1>4, <1>5 DEF IInv

-----------------------------------------------------------------------------
\* What has been collected when a packet is in: at most one reading more.
Collected(error, reading) == IF error THEN buffer ELSE Append(buffer, reading)

LEMMA CollectedProperties ==
  ASSUME IInv, NEW sync \in BOOLEAN, NEW error \in BOOLEAN, ReadPacket(sync, error)
  PROVE  \E c \in Seq(Reading) :
           /\ Len(c) <= MaxSamples
           /\ emitted \o c = good' /\ good' \in Seq(Reading)
           /\ rotation' \in Nat /\ packets' \in Nat
           /\ Collect(c, sync)
           /\ \A i \in 2 .. Len(c) - 1 : c[i].rotation = rotation
           /\ ~sync => \A i \in 2 .. Len(c) : c[i].rotation = rotation'
<1> DEFINE reading == [rotation |-> rotation', packet |-> packets']
           c == Collected(error, reading)
<1> SUFFICES /\ c \in Seq(Reading) /\ Len(c) <= MaxSamples
             /\ emitted \o c = good' /\ good' \in Seq(Reading)
             /\ rotation' \in Nat /\ packets' \in Nat
             /\ Collect(c, sync)
             /\ \A i \in 2 .. Len(c) - 1 : c[i].rotation = rotation
             /\ ~sync => \A i \in 2 .. Len(c) : c[i].rotation = rotation'
  OBVIOUS
<1>1. /\ buffer \in Seq(Reading) /\ emitted \in Seq(Reading) /\ good \in Seq(Reading)
      /\ rotation \in Nat /\ packets \in Nat /\ emitted \o buffer = good
      /\ Len(buffer) < MaxSamples /\ Len(buffer) \in Nat /\ MaxSamples \in Nat
  BY AssemblyAssumption DEF IInv, TypeOK, SamplesFit, Conservation, ReadPacket
<1>2. rotation' \in Nat /\ packets' \in Nat /\ Collect(c, sync)
  BY <1>1 DEF ReadPacket, Collected
<1>3. \A i \in 2 .. Len(buffer) : buffer[i].rotation = rotation
  BY DEF IInv, RestIsCurrent
<1>4. ~sync => rotation' = rotation  BY DEF ReadPacket
<1>5. reading \in Reading /\ reading.rotation = rotation'  BY <1>2 DEF Reading
<1> HIDE DEF reading
<1>6. CASE error
  <2>1. c = buffer /\ good' = good  BY <1>6 DEF Collected, ReadPacket
  <2> QED BY <1>1, <1>2, <1>3, <1>4, <2>1
<1>7. CASE ~error
  <2>1. c = Append(buffer, reading) /\ good' = Append(good, reading)
    BY <1>7 DEF Collected, ReadPacket, reading
  <2>2. /\ c \in Seq(Reading) /\ Len(c) = Len(buffer) + 1 /\ c[Len(buffer) + 1] = reading
        /\ \A i \in 1 .. Len(buffer) : c[i] = buffer[i]
        /\ good' \in Seq(Reading)
    <3>1. /\ Append(buffer, reading) \in Seq(Reading)
          /\ Len(Append(buffer, reading)) = Len(buffer) + 1
          /\ Append(buffer, reading)[Len(buffer) + 1] = reading
          /\ \A i \in 1 .. Len(buffer) : Append(buffer, reading)[i] = buffer[i]
      BY <1>1, <1>5, AppendProperties
    <3>2. Append(good, reading) \in Seq(Reading)  BY <1>1, <1>5, AppendProperties, Zenon
    <3> QED BY <2>1, <3>1, <3>2, Zenon
  <2>3. emitted \o c = good'
    <3>1. emitted \o Append(buffer, reading) = Append(emitted \o buffer, reading)
      BY <1>1, <1>5, ConcatAppend
    <3> QED BY <1>1, <2>1, <3>1, Zenon
  <2>5. c[Len(c)] = reading  BY <2>2
  <2>6. ASSUME NEW i \in 2 .. Len(c) - 1  PROVE c[i].rotation = rotation
    <3>1. i \in 2 .. Len(buffer) /\ i \in 1 .. Len(buffer)  BY <1>1, <2>2
    <3> QED BY <1>3, <2>2, <3>1
  <2>7. ASSUME ~sync, NEW i \in 2 .. Len(c)  PROVE c[i].rotation = rotation'
    <3>1. CASE i = Len(c)  BY <1>5, <2>5, <3>1
    <3>2. CASE i # Len(c)
      <4>1. i \in 2 .. Len(c) - 1  BY <1>1, <2>2, <3>2
      <4> QED BY <1>4, <2>6, <2>7, <4>1
    <3> QED BY <3>1, <3>2
  <2>8. Len(c) <= MaxSamples  BY <1>1, <2>2
  <2> QED BY <1>2, <2>2, <2>3, <2>6, <2>7, <2>8
<1> QED BY <1>6, <1>7

LEMMA ReadPacketInv ==
  ASSUME IInv, NEW sync \in BOOLEAN, NEW error \in BOOLEAN, ReadPacket(sync, error)
  PROVE  IInv'
<1>3. PICK c \in Seq(Reading) :
      /\ Len(c) <= MaxSamples
      /\ emitted \o c = good' /\ good' \in Seq(Reading)
      /\ rotation' \in Nat /\ packets' \in Nat
      /\ Collect(c, sync)
      /\ \A i \in 2 .. Len(c) - 1 : c[i].rotation = rotation
      /\ ~sync => \A i \in 2 .. Len(c) : c[i].rotation = rotation'
  BY CollectedProperties
<1>4. /\ pc' = "test" /\ stop_thread' \in BOOLEAN /\ intact' \in BOOLEAN
      /\ emitted \in Seq(Reading)
      /\ out \in Seq(Reading) \cup {NoScan, Failure} /\ Len(c) \in Nat /\ MaxSamples \in Nat
  BY <1>3, AssemblyAssumption DEF IInv, TypeOK, ReadPacket
<1>5. CASE sync /\ Len(c) > 1
  <2>1. PICK a : a = AllButLast(c)  OBVIOUS
  <2>2. out' = a /\ emitted' = emitted \o a /\ buffer' = <<c[Len(c)]>>
    BY <1>3, <1>5, <2>1 DEF Collect, Package
  <2>3. /\ a \in Seq(Reading) /\ Len(a) = Len(c) - 1 /\ c[Len(c)] \in Reading
        /\ \A i \in 1 .. Len(c) - 1 : a[i] = c[i]
    BY <1>3, <1>5, <2>1, AllButLastProperties
  <2>4. buffer' \in Seq(Reading) /\ Len(buffer') = 1 /\ emitted' \in Seq(Reading)
    BY <1>4, <2>2, <2>3
  <2>5. TypeOK'  BY <1>3, <1>4, <2>2, <2>3, <2>4 DEF TypeOK
  <2>6. SamplesFit'  BY <1>3, <1>4, <1>5, <2>2, <2>3, <2>4 DEF SamplesFit
  <2>7. Conservation'
    BY <1>3, <1>4, <1>5, <2>1, <2>2, CutAndJoin DEF Conservation
  <2>8. RestIsCurrent'  BY <2>4 DEF RestIsCurrent
  <2>9. OneForeignReading'
    <3>1. ASSUME NEW i \in 2 .. Len(a)  PROVE a[i].rotation = a[Len(a)].rotation
      <4>1. i \in 2 .. Len(c) - 1 /\ Len(a) \in 2 .. Len(c) - 1  BY <1>4, <2>3
      <4>2. a[i] = c[i] /\ a[Len(a)] = c[Len(a)]  BY <1>4, <2>3, <4>1
      <4> QED BY <1>3, <4>1, <4>2
    <3> QED BY <2>2, <3>1 DEF OneForeignReading
  <2> QED BY <2>5, <2>6, <2>7, <2>8, <2>9 DEF IInv
<1>6. CASE ~(sync /\ Len(c) > 1)
  <2>1. buffer' = c /\ out' = out /\ emitted' = emitted
    BY <1>3, <1>6 DEF Collect
  <2>2. TypeOK'  BY <1>3, <1>4, <2>1 DEF TypeOK
  <2>3. SamplesFit'  BY <1>3, <1>4, <2>1 DEF IInv, SamplesFit, IsScan
  <2>4. Conservation'  BY <1>3, <2>1 DEF Conservation
  <2>5. RestIsCurrent'
    <3>1. CASE sync
      <4>1. Len(c) <= 1  BY <1>4, <1>6, <3>1
      <4> QED BY <1>4, <2>1, <4>1 DEF RestIsCurrent
    <3>2. CASE ~sync  BY <1>3, <2>1, <3>2 DEF RestIsCurrent
    <3> QED BY <3>1, <3>2
  <2>6. OneForeignReading'  BY <2>1 DEF IInv, OneForeignReading, IsScan
  <2> QED BY <2>2, <2>3, <2>4, <2>5, <2>6 DEF IInv
<1> QED BY <1>5, <1>6

\* Steps that change neither the buffer nor what was enqueued.
LEMMA OtherStepsInv ==
  ASSUME IInv, KeepReading \/ LeaveLoop \/ ReadFails \/ RequestStop \/ UNCHANGED vars
  PROVE  IInv'
<1>1. UNCHANGED <<buffer, rotation, packets, emitted, good, intact>>
  BY DEF KeepReading, LeaveLoop, ReadFails, RequestStop, vars
<1>2. out' = out \/ out' = Failure
  BY DEF KeepReading, LeaveLoop, ReadFails, RequestStop, vars
<1>3. TypeOK'
  BY <1>1, <1>2 DEF IInv, TypeOK, KeepReading, LeaveLoop, ReadFails, RequestStop, vars
<1>4. SamplesFit'
  <2>1. pc' = "read" => Len(buffer) < MaxSamples
    BY DEF IInv, SamplesFit, KeepReading, LeaveLoop, ReadFails, RequestStop, vars
  <2> QED BY <1>1, <1>2, <2>1 DEF IInv, SamplesFit, IsScan
<1>5. Conservation' /\ RestIsCurrent'
  BY <1>1 DEF IInv, Conservation, RestIsCurrent
<1>6. OneForeignReading'  BY <1>1, <1>2 DEF IInv, OneForeignReading, IsScan
<1> QED BY <1>3, <1>4, <1>5, <1>6 DEF IInv

LEMMA NextInv == IInv /\ [Next]_vars => IInv'
BY ReadPacketInv, OtherStepsInv DEF Next

LEMMA Inductive == Spec => []IInv
BY InitInv, NextInv, PTL DEF Spec

-----------------------------------------------------------------------------
\* The worker's state keeps its shape.  (sweep_device_accumulate_scans)
THEOREM TypeCorrect == Spec => []TypeOK
BY Inductive, PTL DEF IInv

\* For every capacity of the buffer, no write goes past its end and every scan
\* has at least one sample and room to spare.  (sweep_device_accumulate_scans)
THEOREM NoOverflow == Spec => []SamplesFit
BY Inductive, PTL DEF IInv

\* Cutting the stream into scans neither loses nor repeats a good reading,
\* whichever packets carry errors.  (sweep_device_accumulate_scans)
THEOREM NothingLost == Spec => []Conservation
BY Inductive, PTL DEF IInv

\* However many sync packets carry errors, a scan mixes rotations in its first
\* reading only.  (sweep_device_accumulate_scans)
THEOREM MixesOneReading == Spec => []OneForeignReading
BY Inductive, PTL DEF IInv

-----------------------------------------------------------------------------
\* While no sync packet carried an error the buffer holds readings of the current
\* rotation only, and everything enqueued is older.
BufferIsCurrent ==
  /\ \A i \in 1 .. Len(buffer) : buffer[i].rotation = rotation
  /\ \A i \in 1 .. Len(emitted) : emitted[i].rotation < rotation
  /\ IsScan(out) => out # <<>> /\ out[1].rotation < rotation

RInv == intact => BufferIsCurrent /\ EveryScanIsRotation

LEMMA ReadPacketRotation ==
  ASSUME IInv, IInv', RInv, intact',
         NEW sync \in BOOLEAN, NEW error \in BOOLEAN, ReadPacket(sync, error)
  PROVE  RInv'
<1>1. /\ buffer \in Seq(Reading) /\ emitted \in Seq(Reading) /\ good \in Seq(Reading)
      /\ Len(buffer) \in Nat /\ Len(emitted) \in Nat
      /\ rotation \in Nat /\ packets \in Nat /\ emitted \o buffer = good
  BY DEF IInv, TypeOK, Conservation
<1> DEFINE reading == [rotation |-> rotation', packet |-> packets']
<1>2. /\ reading \in Reading /\ reading.rotation = rotation'
      /\ rotation' = IF sync THEN rotation + 1 ELSE rotation
  BY <1>1 DEF ReadPacket, Reading
<1>0. intact /\ ~(sync /\ error)
  BY DEF ReadPacket
<1>3. good' = (IF error THEN good ELSE Append(good, reading))
      /\ Collect(IF error THEN buffer ELSE Append(buffer, reading), sync)
  BY DEF ReadPacket
<1> HIDE DEF reading
<1>4. /\ Append(buffer, reading) \in Seq(Reading)
      /\ Len(Append(buffer, reading)) = Len(buffer) + 1
      /\ Append(buffer, reading)[Len(buffer) + 1] = reading
      /\ \A i \in 1 .. Len(buffer) : Append(buffer, reading)[i] = buffer[i]
  BY <1>1, <1>2, AppendProperties
<1>5. /\ Len(Append(good, reading)) = Len(good) + 1 /\ Len(good) \in Nat
      /\ Append(good, reading)[Len(good) + 1] = reading
      /\ \A i \in 1 .. Len(good) : Append(good, reading)[i] = good[i]
  BY <1>1, <1>2, AppendProperties
<1>6. /\ \A i \in 1 .. Len(buffer) : buffer[i].rotation = rotation
      /\ \A i \in 1 .. Len(emitted) : emitted[i].rotation < rotation
      /\ IsScan(out) => out # <<>> /\ out[1].rotation < rotation
  BY <1>0 DEF RInv, BufferIsCurrent
<1>7. CASE sync /\ buffer # <<>>
  <2>1. ~error  BY <1>0, <1>7
  <2>2. /\ out' = buffer /\ emitted' = emitted \o buffer /\ buffer' = <<reading>>
    <3>1. Len(Append(buffer, reading)) > 1  BY <1>1, <1>4, <1>7
    <3>2. AllButLast(Append(buffer, reading)) = buffer
      <4>0. PICK b \in Seq(Reading) : b = Append(buffer, reading)  BY <1>4
      <4>1. PICK a : a = AllButLast(b)  OBVIOUS
      <4>2. a \in Seq(Reading) /\ Len(a) = Len(buffer) /\ \A i \in 1 .. Len(buffer) : a[i] = b[i]
        <5>1. Len(b) = Len(buffer) + 1 /\ Len(b) > 1  BY <1>4, <3>1, <4>0
        <5>2. /\ AllButLast(b) \in Seq(Reading) /\ Len(AllButLast(b)) = Len(b) - 1
              /\ \A i \in 1 .. Len(b) - 1 : AllButLast(b)[i] = b[i]
          BY <5>1, AllButLastProperties
        <5>3. Len(b) - 1 = Len(buffer)  BY <1>1, <5>1
        <5> QED BY <4>1, <5>2, <5>3
      <4>3. a = buffer  BY <1>1, <1>4, <4>0, <4>2, SeqEqual
      <4> QED BY <4>0, <4>1, <4>3
    <3> QED BY <1>3, <1>4, <1>7, <2>1, <3>1, <3>2 DEF Collect, Package
  <2>3. rotation' = rotation + 1  BY <1>2, <1>7
  <2>4. BufferIsCurrent'
    <3>1. \A i \in 1 .. Len(buffer') : buffer'[i].rotation = rotation'
      <4>1. Len(buffer') = 1 /\ buffer'[1] = reading  BY <2>2
      <4> QED BY <1>2, <4>1
    <3>2. ASSUME NEW i \in 1 .. Len(emitted')  PROVE emitted'[i].rotation < rotation'
      <4>1. /\ Len(emitted') = Len(emitted) + Len(buffer)
            /\ emitted'[i] = IF i <= Len(emitted) THEN emitted[i] ELSE buffer[i - Len(emitted)]
        BY <1>1, <2>2, ConcatProperties
      <4>2. CASE i <= Len(emitted)
        <5>1. emitted[i].rotation < rotation /\ emitted[i] \in Reading  BY <1>1, <1>6, <4>2
        <5>2. emitted[i].rotation \in Nat  BY <5>1 DEF Reading
        <5> QED BY <1>1, <2>3, <4>1, <4>2, <5>1, <5>2
      <4>3. CASE ~(i <= Len(emitted))
        <5>1. i - Len(emitted) \in 1 .. Len(buffer)  BY <1>1, <4>1, <4>3
        <5>2. emitted'[i] = buffer[i - Len(emitted)]  BY <4>1, <4>3
        <5>3. buffer[i - Len(emitted)].rotation = rotation  BY <1>6, <5>1
        <5> QED BY <1>1, <2>3, <5>2, <5>3
      <4> QED BY <4>2, <4>3
    <3>3. out' # <<>> /\ out'[1].rotation < rotation'
      <4>1. 1 \in 1 .. Len(buffer)  BY <1>1, <1>7
      <4> QED BY <1>1, <1>6, <1>7, <2>2, <2>3, <4>1
    <3> QED BY <3>1, <3>2, <3>3 DEF BufferIsCurrent
  <2>5. EveryScanIsRotation'
    <3>1. 1 \in 1 .. Len(buffer) /\ buffer[1].rotation = rotation  BY <1>1, <1>6, <1>7
    <3>2. \A i \in 1 .. Len(out') : out'[i].rotation = out'[1].rotation
      BY <1>6, <2>2, <3>1
    <3>3. ASSUME NEW j \in 1 .. Len(good'), good'[j].rotation = rotation
          PROVE  \E i \in 1 .. Len(buffer) : buffer[i] = good'[j]
      <4>1. j # Len(good) + 1  BY <1>1, <1>2, <1>3, <1>5, <2>1, <2>3, <3>3
      <4>2. j \in 1 .. Len(good) /\ good'[j] = good[j]  BY <1>3, <1>5, <2>1, <4>1
      <4>3. /\ Len(good) = Len(emitted) + Len(buffer)
            /\ good[j] = IF j <= Len(emitted) THEN emitted[j] ELSE buffer[j - Len(emitted)]
        BY <1>1, <4>2, ConcatProperties
      <4>4. ~(j <= Len(emitted))
        <5>1. SUFFICES ASSUME j <= Len(emitted)  PROVE FALSE
          OBVIOUS
        <5>2. good'[j] = emitted[j] /\ j \in 1 .. Len(emitted)  BY <1>1, <4>2, <4>3, <5>1
        <5> QED BY <1>1, <1>6, <3>3, <5>2
      <4>5. j - Len(emitted) \in 1 .. Len(buffer)  BY <1>1, <4>2, <4>3, <4>4
      <4> QED BY <4>2, <4>3, <4>4, <4>5
    <3> QED BY <2>2, <3>1, <3>2, <3>3 DEF EveryScanIsRotation
  <2> QED BY <2>4, <2>5 DEF RInv
<1>8. CASE ~(sync /\ buffer # <<>>)
  <2> DEFINE c == IF error THEN buffer ELSE Append(buffer, reading)
  <2>1. buffer' = c /\ out' = out /\ emitted' = emitted
    <3>1. ~(sync /\ Len(c) > 1)
      <4>1. CASE ~sync  BY <4>1
      <4>2. CASE buffer = <<>>
        <5>1. Len(buffer) = 0  BY <4>2
        <5> QED BY <1>4, <5>1
      <4> QED BY <1>8, <4>1, <4>2
    <3> QED BY <1>3, <3>1 DEF Collect
  <2>2. \A i \in 1 .. Len(buffer') : buffer'[i].rotation = rotation'
    <3>1. CASE error
      <4>1. ~sync  BY <1>0, <3>1
      <4> QED BY <1>2, <1>6, <2>1, <3>1, <4>1
    <3>2. CASE ~error
      <4>1. ASSUME NEW i \in 1 .. Len(buffer) + 1
            PROVE  Append(buffer, reading)[i].rotation = rotation'
        <5>1. CASE i = Len(buffer) + 1  BY <1>2, <1>4, <5>1
        <5>2. CASE i # Len(buffer) + 1
          <6>1. i \in 1 .. Len(buffer)  BY <1>1, <5>2
          <6>2. ~sync  BY <1>1, <1>8, <6>1
          <6> QED BY <1>2, <1>4, <1>6, <6>1, <6>2
        <5> QED BY <5>1, <5>2
      <4> QED BY <1>4, <2>1, <3>2, <4>1
    <3> QED BY <3>1, <3>2
  <2>3. BufferIsCurrent'
    <3>1. rotation' \in Nat /\ rotation <= rotation'  BY <1>1, <1>2
    <3>2. \A i \in 1 .. Len(emitted') : emitted'[i].rotation < rotation'
      <4>1. ASSUME NEW i \in 1 .. Len(emitted)  PROVE emitted[i].rotation < rotation'
        <5>1. emitted[i] \in Reading /\ emitted[i].rotation < rotation  BY <1>1, <1>6
        <5>2. emitted[i].rotation \in Nat  BY <5>1 DEF Reading
        <5> QED BY <1>1, <3>1, <5>1, <5>2
      <4> QED BY <2>1, <4>1
    <3>3. IsScan(out') => out' # <<>> /\ out'[1].rotation < rotation'
      <4>1. SUFFICES ASSUME IsScan(out)  PROVE out # <<>> /\ out[1].rotation < rotation'
        BY <2>1
      <4>2. out \in Seq(Reading) /\ out # <<>> /\ out[1].rotation < rotation
        BY <1>6, <4>1 DEF IInv, TypeOK, IsScan
      <4>3. out[1] \in Reading  BY <4>2
      <4>4. out[1].rotation \in Nat  BY <4>3 DEF Reading
      <4> QED BY <1>1, <3>1, <4>2, <4>4
    <3> QED BY <2>2, <3>2, <3>3 DEF BufferIsCurrent
  <2>4. EveryScanIsRotation'
    <3>1. SUFFICES ASSUME IsScan(out), NEW j \in 1 .. Len(good'),
                          good'[j].rotation = out[1].rotation
                   PROVE  \E i \in 1 .. Len(out) : out[i] = good'[j]
      BY <1>0, <2>1 DEF RInv, EveryScanIsRotation, IsScan
    <3>2. out[1].rotation < rotation /\ rotation' >= rotation /\ rotation' \in Nat
      BY <1>1, <1>2, <1>6, <3>1
    <3>3. j \in 1 .. Len(good) /\ good'[j] = good[j]
      <4>1. CASE error  BY <1>3, <4>1
      <4>2. CASE ~error
        <5>1. out \in Seq(Reading) /\ out # <<>>
          BY <1>6, <3>1 DEF IInv, TypeOK, IsScan
        <5>2. out[1] \in Reading  BY <5>1
        <5>3. out[1].rotation \in Nat  BY <5>2 DEF Reading
        <5>4. j # Len(good) + 1  BY <1>1, <1>2, <1>3, <1>5, <3>1, <3>2, <4>2, <5>3
        <5> QED BY <1>3, <1>5, <4>2, <5>4
      <4> QED BY <4>1, <4>2
    <3> QED BY <1>0, <3>1, <3>3 DEF RInv, EveryScanIsRotation
  <2> QED BY <2>3, <2>4 DEF RInv
<1> QED BY <1>7, <1>8

\* While the packets that start a rotation carry no error flag, every scan is
\* exactly the good readings of one rotation, whatever errors the other packets
\* carry and whatever the size of the buffer.  (sweep_device_accumulate_scans)
THEOREM ScansAreRotations == Spec => []ScanIsRotation
<1>1. Init => RInv
  <2>1. Init => Len(buffer) = 0 /\ Len(emitted) = 0 /\ out = NoScan  BY DEF Init
  <2> QED BY <2>1 DEF RInv, BufferIsCurrent, EveryScanIsRotation, IsScan
<1>2. ASSUME IInv, IInv', RInv, [Next]_vars, intact'  PROVE RInv'
  <2>1. CASE \E sync, error \in BOOLEAN : ReadPacket(sync, error)
    BY <1>2, <2>1, ReadPacketRotation
  <2>2. CASE KeepReading \/ LeaveLoop \/ ReadFails \/ RequestStop \/ UNCHANGED vars
    <3>1. UNCHANGED <<buffer, rotation, packets, emitted, good, intact>>
      BY <2>2 DEF KeepReading, LeaveLoop, ReadFails, RequestStop, vars
    <3>2. out' = out \/ out' = Failure
      BY <2>2 DEF KeepReading, LeaveLoop, ReadFails, RequestStop, vars
    <3> QED BY <1>2, <3>1, <3>2 DEF RInv, BufferIsCurrent, EveryScanIsRotation, IsScan
  <2> QED BY <1>2, <2>1, <2>2 DEF Next
<1>3. IInv /\ IInv' /\ RInv /\ [Next]_vars => RInv'
  BY <1>2 DEF RInv
<1>4. RInv => ScanIsRotation  BY DEF RInv, ScanIsRotation
<1> QED BY <1>1, <1>3, <1>4, Inductive, PTL DEF Spec
=============================================================================
