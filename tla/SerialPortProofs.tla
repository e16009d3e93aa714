-------------------------- MODULE SerialPortProofs ---------------------------
(***************************************************************************)
(* Bytes and handles of both serial ports, for any number of threads and   *)
(* any lengths of messages.                                                *)
(*                                                                         *)
(* The port hands out bytes in the order in which they arrived: what is    *)
(* unread is always the end of what has arrived, from Front on.  So a byte *)
(* that is taken was never seen before, and is newer than those a thread   *)
(* has already.  That nothing comes between two bytes of a read is true on *)
(* Windows only, where one thread is served at a time.                     *)
(***************************************************************************)
EXTENDS SerialPort, TLAPS, SequenceTheorems, FiniteSetTheorems

\* The bytes 1 .. Front have left the port.
Front == hi - Len(unread)

Reading == {"select", "read", "complete", "ReadFile"}

\* Who is in a call, and who has something in the buffer.
Shape ==
  /\ TypeOK
  /\ object # "live" => Idle
  /\ \A t \in Threads : pc[t] \notin Reading => buffer[t] = <<>>

\* The port hands out bytes in the order of their arrival.
Hands ==
  /\ \A i \in 1 .. Len(unread) : unread[i] = Front + i
  /\ dropped \cup flushed \cup delivered \subseteq 1 .. Front
  /\ \A t \in Threads : Carried(t) \subseteq 1 .. Front

\* A read that goes on has something to wait for; on Windows it alone is
\* served, and what comes next follows what it has.
Serves ==
  /\ \A t \in Threads : pc[t] \in Reading \ {"complete"} => Len(buffer[t]) < want[t]
  /\ \A t, u \in Threads :
       /\ pc[t] = "ReadFile" /\ buffer[t] # <<>> /\ pc[u] = "ReadFile" /\ buffer[u] # <<>>
       => t = u
  /\ \A t \in Threads :
       pc[t] = "ReadFile" /\ buffer[t] # <<>> /\ (plugged \/ unread # <<>>)
         => buffer[t][Len(buffer[t])] = Front

\* Each byte that has left the port is in one place.
Gone == <<delivered, dropped, flushed>>

Apart ==
  /\ \A b \in 1 .. Front : (\E i \in 1 .. 3 : b \in Gone[i]) \/ \E t \in Threads : b \in Carried(t)
  /\ \A i, j \in 1 .. 3 : i # j => Gone[i] \cap Gone[j] = {}
  /\ \A t \in Threads, i \in 1 .. 3 : Carried(t) \cap Gone[i] = {}
  /\ \A t, u \in Threads : t # u => Carried(t) \cap Carried(u) = {}

IInv == /\ Shape /\ Hands /\ Apart /\ Serves /\ FullReadXorError
        /\ dropped # {} => thrown > 0

-----------------------------------------------------------------------------
\* What a step does to the bytes: one of six things, whatever its name.
Keeps == UNCHANGED <<hi, unread, dropped, flushed, delivered, buffer>>

Flushes ==
  /\ unread' = <<>> /\ flushed' = flushed \cup Elements(unread)
  /\ UNCHANGED <<hi, dropped, delivered, buffer>>

Arrives ==
  /\ hi < MaxBytes /\ hi' = hi + 1 /\ unread' = Append(unread, hi + 1)
  /\ UNCHANGED <<dropped, flushed, delivered, buffer>>

\* The first n bytes move from the port to the end of the thread's buffer.
Takes(t, n) ==
  /\ n <= Len(unread)
  /\ unread' \in Seq(1 .. hi) /\ Len(unread') = Len(unread) - n
  /\ \A i \in 1 .. Len(unread') : unread'[i] = unread[i + n]
  /\ \E taken \in Seq(1 .. hi) :
       /\ buffer' = [buffer EXCEPT ![t] = taken]
       /\ Len(taken) = Len(buffer[t]) + n
       /\ \A i \in 1 .. Len(taken) :
            taken[i] = IF i <= Len(buffer[t]) THEN buffer[t][i] ELSE unread[i - Len(buffer[t])]
  /\ UNCHANGED <<hi, dropped, flushed, delivered>>

Returns(t) ==
  /\ buffer' = [buffer EXCEPT ![t] = <<>>]
  /\ delivered' = delivered \cup Carried(t)
  /\ UNCHANGED <<hi, unread, dropped, flushed>>

Drops(t) ==
  /\ buffer' = [buffer EXCEPT ![t] = <<>>]
  /\ dropped' = dropped \cup Carried(t) /\ thrown' = thrown + 1
  /\ UNCHANGED <<hi, unread, flushed, delivered>>

Effect ==
  \/ Keeps \/ Flushes \/ Arrives
  \/ \E t \in Threads : Returns(t) \/ Drops(t) \/ \E n \in Nat : Takes(t, n)

LEMMA Cut ==
  ASSUME NEW S, NEW s \in Seq(S), NEW n \in 0 .. Len(s)
  PROVE  /\ SubSeq(s, n + 1, Len(s)) \in Seq(S)
         /\ Len(SubSeq(s, n + 1, Len(s))) = Len(s) - n
         /\ \A i \in 1 .. Len(s) - n : SubSeq(s, n + 1, Len(s))[i] = s[i + n]
  OBVIOUS

LEMMA Keep ==
  ASSUME NEW S, NEW s \in Seq(S), NEW n \in 0 .. Len(s)
  PROVE  /\ SubSeq(s, 1, n) \in Seq(S) /\ Len(SubSeq(s, 1, n)) = n
         /\ \A i \in 1 .. n : SubSeq(s, 1, n)[i] = s[i]
  OBVIOUS

LEMMA Join ==
  ASSUME NEW S, NEW s \in Seq(S), NEW e \in S
  PROVE  /\ Append(s, e) \in Seq(S) /\ Len(Append(s, e)) = Len(s) + 1
         /\ \A i \in 1 .. Len(s) + 1 : Append(s, e)[i] = IF i <= Len(s) THEN s[i] ELSE e
  OBVIOUS

LEMMA ReadTakes ==
  ASSUME IInv, NEW t \in Threads, read(t)
  PROVE  LET n == Smaller(want[t] - Len(buffer[t]), Len(unread)) IN n \in Nat /\ Takes(t, n)
<1> USE DEF IInv, Shape, TypeOK, port, fate
<1> DEFINE missing == want[t] - Len(buffer[t])
           n == Smaller(missing, Len(unread))
<1>1. Len(buffer[t]) < want[t]
  BY DEF read, From, Serves, Reading
<1>2. n \in Nat /\ n <= Len(unread)
  BY <1>1 DEF Smaller
<1>3. Takes(t, n)
  <2>1. /\ SubSeq(unread, 1, n) \in Seq(1 .. hi) /\ Len(SubSeq(unread, 1, n)) = n
        /\ \A i \in 1 .. n : SubSeq(unread, 1, n)[i] = unread[i]
    <3>1. unread \in Seq(1 .. hi) /\ n \in 0 .. Len(unread)
      BY <1>2
    <3> HIDE DEF n, IInv
    <3>2. QED
      BY <3>1, Keep
  <2>2. /\ unread' \in Seq(1 .. hi) /\ Len(unread') = Len(unread) - n
        /\ \A i \in 1 .. Len(unread') : unread'[i] = unread[i + n]
    <3>1. unread' = SubSeq(unread, n + 1, Len(unread)) /\ UNCHANGED hi
      BY DEF read
    <3>2. unread \in Seq(1 .. hi) /\ n \in 0 .. Len(unread)
      BY <1>2
    <3> HIDE DEF n, IInv
    <3>3. QED
      BY <3>1, <3>2, Cut
  <2>3. buffer' = [buffer EXCEPT ![t] = @ \o SubSeq(unread, 1, n)]
    BY DEF read
  <2>4. UNCHANGED <<hi, dropped, flushed, delivered>>
    BY DEF read
  <2> DEFINE taken == buffer[t] \o SubSeq(unread, 1, n)
  <2>5. /\ taken \in Seq(1 .. hi) /\ Len(taken) = Len(buffer[t]) + n
        /\ \A i \in 1 .. Len(taken) :
             taken[i] = IF i <= Len(buffer[t]) THEN buffer[t][i] ELSE unread[i - Len(buffer[t])]
    <3>1. buffer[t] \in Seq(1 .. hi)
      OBVIOUS
    <3> HIDE DEF IInv
    <3>2. QED
      BY <3>1, <1>2, <2>1, ConcatProperties, LenProperties
  <2>6. QED
    BY <1>2, <2>2, <2>3, <2>4, <2>5 DEF Takes
<1>4. QED
  BY <1>2, <1>3

LEMMA ReadFileTakes ==
  ASSUME IInv, NEW t \in Threads, ReadFile(t)
  PROVE  Takes(t, 1) /\ unread # <<>>
<1> USE DEF IInv, Shape, TypeOK, port, fate
<1>1. unread # <<>> /\ unread \in Seq(1 .. hi) /\ Len(unread) >= 1
  <2>1. unread # <<>> /\ unread \in Seq(1 .. hi)
    BY DEF ReadFile
  <2>2. QED
    BY <2>1, EmptySeq
<1>2. Takes(t, 1)
  <2> DEFINE taken == Append(buffer[t], Head(unread))
  <2>1. /\ Head(unread) = unread[1] /\ Head(unread) \in 1 .. hi
        /\ Tail(unread) \in Seq(1 .. hi) /\ Len(Tail(unread)) = Len(unread) - 1
        /\ \A i \in 1 .. Len(Tail(unread)) : Tail(unread)[i] = unread[i + 1]
    BY <1>1
  <2>2. /\ taken \in Seq(1 .. hi) /\ Len(taken) = Len(buffer[t]) + 1
        /\ \A i \in 1 .. Len(taken) :
             taken[i] = IF i <= Len(buffer[t]) THEN buffer[t][i] ELSE unread[i - Len(buffer[t])]
    <3>1. buffer[t] \in Seq(1 .. hi)
      OBVIOUS
    <3>2. /\ taken \in Seq(1 .. hi) /\ Len(taken) = Len(buffer[t]) + 1
          /\ \A i \in 1 .. Len(buffer[t]) + 1 :
               taken[i] = IF i <= Len(buffer[t]) THEN buffer[t][i] ELSE unread[1]
      BY <2>1, <3>1, Join
    <3>3. \A i \in 1 .. Len(buffer[t]) + 1 : i > Len(buffer[t]) => i - Len(buffer[t]) = 1
      BY <3>1, LenProperties
    <3> HIDE DEF taken, IInv
    <3>4. QED
      BY <3>1, <3>2, <3>3
  <2>3. buffer' = [buffer EXCEPT ![t] = taken] /\ unread' = Tail(unread)
    BY DEF ReadFile
  <2>4. UNCHANGED <<hi, dropped, flushed, delivered>>
    BY DEF ReadFile
  <2>5. QED
    BY <1>1, <2>1, <2>2, <2>3, <2>4 DEF Takes
<1>3. QED
  BY <1>1, <1>2

LEMMA StepHasEffect == IInv /\ [Next]_vars => Effect
<1> SUFFICES ASSUME IInv, [Next]_vars PROVE Effect
  OBVIOUS
<1> USE DEF IInv, Shape, TypeOK, Effect, Keeps, port, fate
<1>1. CASE BeginConstruct \/ ConstructFails
  BY <1>1 DEF BeginConstruct, ConstructFails
<1>2. CASE ConstructStep \/ device_destruct \/ Unplug
  BY <1>2 DEF ConstructStep, device_destruct, Unplug, Flushes
<1>3. CASE Arrive
  BY <1>3 DEF Arrive, Arrives
<1>4. ASSUME NEW t \in Threads,
             BeginRead(t) \/ BeginWrite(t) \/ wait_readable(t) \/ write(t)
               \/ ClearCommError(t) \/ WriteFile(t)
      PROVE  Keeps
  BY <1>4 DEF BeginRead, BeginWrite, wait_readable, write, ClearCommError, WriteFile
<1>5. ASSUME NEW t \in Threads, CreateEventFails(t) \/ WriteFails(t) \/ WriteFileShort(t)
      PROVE  Keeps
  <2>1. pc[t] \notin Reading
    BY <1>5 DEF CreateEventFails, WriteFails, WriteFileShort, Throw, Reading
  <2>2. buffer[t] = <<>> /\ buffer' = [buffer EXCEPT ![t] = <<>>]
    BY <1>5, <2>1 DEF CreateEventFails, WriteFails, WriteFileShort, Throw
  <2>3. UNCHANGED <<hi, unread, dropped, flushed, delivered>>
    BY <1>5 DEF CreateEventFails, WriteFails, WriteFileShort, Throw
  <2>4. QED
    BY <2>2, <2>3
<1>6. ASSUME NEW t \in Threads, device_flush(t) PROVE Effect
  BY <1>6 DEF device_flush, Flushes
<1>7. ASSUME NEW t \in Threads, read(t) PROVE Effect
  BY <1>7, ReadTakes
<1>8. ASSUME NEW t \in Threads, ReadFile(t) PROVE Effect
  BY <1>8, ReadFileTakes
<1>9. ASSUME NEW t \in Threads, ReadFails(t) \/ ReadFileEnds(t) PROVE Effect
  BY <1>9 DEF ReadFails, ReadFileEnds, Throw, Drops, Carried
<1>10. ASSUME NEW t \in Threads, ReadReturns(t) PROVE Effect
  BY <1>10 DEF ReadReturns, Returns, Carried
<1>11. CASE UNCHANGED vars
  BY <1>11 DEF vars
<1>12. QED
  BY <1>1, <1>2, <1>3, <1>4, <1>5, <1>6, <1>7, <1>8, <1>9, <1>10, <1>11
     DEF Next, ReadStep, WriteStep, ReadAtEof, WriteToNobody

-----------------------------------------------------------------------------
\* Each of these effects keeps the bytes in order and apart.
ByteShape ==
  /\ hi \in 0 .. MaxBytes /\ unread \in Seq(1 .. hi)
  /\ dropped \subseteq 1 .. hi /\ flushed \subseteq 1 .. hi /\ delivered \subseteq 1 .. hi
  /\ buffer \in [Threads -> Seq(1 .. hi)]

LEMMA Bounds == ByteShape => hi \in Nat /\ Len(unread) \in Nat
BY PortAssumption, LenProperties DEF ByteShape

LEMMA UnreadIsTheRest ==
  ASSUME ByteShape, Hands
  PROVE  /\ Front \in 0 .. hi
         /\ Elements(unread) = (Front + 1) .. hi
<1>1. hi \in Nat /\ Len(unread) \in Nat
  BY Bounds
<1>2. \A i \in 1 .. Len(unread) : unread[i] \in 1 .. hi /\ unread[i] = Front + i
  BY DEF ByteShape, Hands
<1>3. Front \in 0 .. hi
  <2>1. CASE Len(unread) = 0
    BY <1>1, <2>1 DEF Front
  <2>2. CASE Len(unread) # 0
    <3>1. unread[1] >= 1 /\ unread[1] = Front + 1
      BY <1>1, <1>2, <2>2
    <3>2. QED
      BY <1>1, <3>1 DEF Front
  <2>3. QED
    BY <2>1, <2>2
<1>4. ASSUME NEW b \in (Front + 1) .. hi PROVE b \in Elements(unread)
  <2>1. b - Front \in 1 .. Len(unread) /\ unread[b - Front] = b
    BY <1>1, <1>2, <1>3 DEF Front
  <2>2. QED
    BY <2>1 DEF Elements
<1>5. ASSUME NEW b \in Elements(unread) PROVE b \in (Front + 1) .. hi
  BY <1>1, <1>2, <1>3 DEF Elements, Front
<1>6. QED
  BY <1>3, <1>4, <1>5

LEMMA TakenIsNext ==
  ASSUME ByteShape, Hands, NEW t \in Threads, NEW n \in Nat, Takes(t, n)
  PROVE  /\ Front' = Front + n /\ Front' <= hi
         /\ Carried(t)' = Carried(t) \cup (Front + 1) .. (Front + n)
         /\ \A u \in Threads \ {t} : Carried(u)' = Carried(u)
<1>1. hi \in Nat /\ Len(unread) \in Nat /\ Len(buffer[t]) \in Nat
  BY Bounds DEF ByteShape
<1>2. Front' = Front + n /\ Front' <= hi
  BY <1>1 DEF Takes, Front
<1>3. PICK taken \in Seq(1 .. hi) :
        /\ buffer' = [buffer EXCEPT ![t] = taken]
        /\ Len(taken) = Len(buffer[t]) + n
        /\ \A i \in 1 .. Len(taken) :
             taken[i] = IF i <= Len(buffer[t]) THEN buffer[t][i] ELSE unread[i - Len(buffer[t])]
  BY DEF Takes
<1>4. buffer'[t] = taken /\ \A u \in Threads \ {t} : buffer'[u] = buffer[u]
  BY <1>3 DEF ByteShape
<1>5. \A i \in 1 .. n : unread[i] = Front + i
  BY <1>1 DEF Hands, Takes
<1>6. Elements(taken) = Elements(buffer[t]) \cup (Front + 1) .. (Front + n)
  <2>1. ASSUME NEW b \in Elements(buffer[t]) PROVE b \in Elements(taken)
    <3>1. PICK i \in 1 .. Len(buffer[t]) : b = buffer[t][i]
      BY DEF Elements
    <3>2. i \in 1 .. Len(taken) /\ taken[i] = b
      BY <1>1, <1>3, <3>1
    <3>3. QED
      BY <3>2 DEF Elements
  <2>2. ASSUME NEW b \in (Front + 1) .. (Front + n) PROVE b \in Elements(taken)
    <3> DEFINE i == Len(buffer[t]) + (b - Front)
    <3>1. Front \in Int
      BY <1>1 DEF Front
    <3>2. i \in 1 .. Len(taken) /\ ~(i <= Len(buffer[t])) /\ i - Len(buffer[t]) = b - Front
          /\ b - Front \in 1 .. n /\ Front + (b - Front) = b
      BY <1>1, <1>3, <3>1
    <3>3. taken[i] = b
      BY <1>3, <1>5, <3>2
    <3>4. QED
      BY <3>2, <3>3 DEF Elements
  <2>3. ASSUME NEW b \in Elements(taken)
        PROVE  b \in Elements(buffer[t]) \cup (Front + 1) .. (Front + n)
    <3>1. PICK i \in 1 .. Len(taken) : b = taken[i]
      BY DEF Elements
    <3>2. b = IF i <= Len(buffer[t]) THEN buffer[t][i] ELSE unread[i - Len(buffer[t])]
      BY <1>3, <3>1
    <3>3. i \in Nat \ {0} /\ i <= Len(buffer[t]) + n
      BY <1>1, <1>3
    <3>4. CASE i <= Len(buffer[t])
      BY <1>1, <3>2, <3>3, <3>4 DEF Elements
    <3>5. CASE ~(i <= Len(buffer[t]))
      <4>1. i - Len(buffer[t]) \in 1 .. n /\ b = unread[i - Len(buffer[t])]
        BY <1>1, <3>2, <3>3, <3>5
      <4>2. PICK k \in 1 .. n : b = unread[k]
        BY <4>1
      <4>3. b = Front + k
        BY <1>5, <4>2
      <4>4. Front \in Int
        BY <1>1 DEF Front
      <4>5. QED
        BY <4>2, <4>3, <4>4
    <3>6. QED
      BY <3>4, <3>5
  <2>4. QED
    BY <2>1, <2>2, <2>3
<1>7. QED
  BY <1>2, <1>4, <1>6 DEF Carried

LEMMA BytesKept ==
  ASSUME ByteShape, Hands, Apart, Effect
  PROVE  ByteShape' /\ Hands' /\ Apart'
<1>1. hi \in Nat /\ Len(unread) \in Nat /\ Front \in 0 .. hi
  BY Bounds, UnreadIsTheRest
<1>2. CASE Keeps
  BY <1>2 DEF Keeps, ByteShape, Hands, Apart, Front, Carried, Gone
<1>3. CASE Flushes
  <2>1. Front' = hi /\ hi' = hi /\ unread' = <<>>
    BY <1>1, <1>3 DEF Flushes, Front
  <2>2. /\ flushed' = flushed \cup (Front + 1) .. hi
        /\ dropped' = dropped /\ delivered' = delivered
        /\ \A t \in Threads : Carried(t)' = Carried(t)
    BY <1>3, UnreadIsTheRest DEF Flushes, Carried
  <2>3. ByteShape'
    <3>1. (Front + 1) .. hi \subseteq 1 .. hi
      BY <1>1
    <3>2. unread' \in Seq(1 .. hi') /\ buffer' = buffer
      BY <1>3, <2>1 DEF Flushes
    <3>3. QED
      BY <2>1, <2>2, <3>1, <3>2 DEF ByteShape
  <2>4. Hands'
    BY <1>1, <2>1, <2>2 DEF Hands
  <2>5. Apart'
    BY <1>1, <2>1, <2>2 DEF Apart, Gone, Hands
  <2>6. QED
    BY <2>3, <2>4, <2>5
<1>4. CASE Arrives
  <2>1. /\ Len(unread') = Len(unread) + 1
        /\ \A i \in 1 .. Len(unread) + 1 :
             unread'[i] = IF i <= Len(unread) THEN unread[i] ELSE hi + 1
        /\ unread' \in Seq(1 .. hi') /\ hi' = hi + 1 /\ hi' \in 0 .. MaxBytes
    <3>1. hi' = hi + 1 /\ hi' \in 0 .. MaxBytes /\ 1 .. hi \subseteq 1 .. hi' /\ hi + 1 \in 1 .. hi'
      BY <1>1, <1>4, PortAssumption DEF Arrives
    <3>2. unread \in Seq(1 .. hi') /\ unread' = Append(unread, hi + 1)
      BY <1>4, <3>1, SeqMonotonic DEF Arrives, ByteShape
    <3>3. QED
      BY <3>1, <3>2, Join
  <2>2. Front' = Front
    BY <1>1, <2>1 DEF Front
  <2>3. /\ UNCHANGED <<flushed, dropped, delivered, buffer>>
        /\ \A t \in Threads : Carried(t)' = Carried(t)
    BY <1>4 DEF Arrives, Carried
  <2>4. ByteShape'
    <3>1. 1 .. hi \subseteq 1 .. hi'
      BY <1>1, <2>1
    <3>2. \A t \in Threads : buffer[t] \in Seq(1 .. hi')
      BY <3>1, SeqMonotonic DEF ByteShape
    <3>3. QED
      BY <2>1, <2>3, <3>1, <3>2 DEF ByteShape
  <2>5. Hands'
    <3>1. \A i \in 1 .. Len(unread') : unread'[i] = Front + i
      <4>1. \A i \in 1 .. Len(unread) : unread[i] = Front + i
        BY DEF Hands
      <4>2. PICK f, u \in Nat : f = Front /\ u = Len(unread) /\ f + (u + 1) = hi + 1
        <5>1. Len(unread) \in Nat /\ Front \in Nat /\ hi \in Nat /\ Front = hi - Len(unread)
          BY <1>1 DEF Front
        <5>2. QED
          BY ONLY <5>1
      <4>3. Len(unread') = u + 1 /\ unread'[u + 1] = hi + 1
            /\ \A i \in 1 .. u : unread'[i] = unread[i]
        BY <1>1, <2>1, <4>2
      <4>4. \A i \in 1 .. u + 1 : i \in 1 .. u \/ i = u + 1
        BY <4>2
      <4>5. QED
        BY <4>1, <4>2, <4>3, <4>4
    <3>2. QED
      BY <2>2, <2>3, <3>1 DEF Hands
  <2>6. Apart'
    BY <2>2, <2>3 DEF Apart, Gone
  <2>7. QED
    BY <2>4, <2>5, <2>6
<1>5. ASSUME NEW t \in Threads, Returns(t) \/ Drops(t)
      PROVE  ByteShape' /\ Hands' /\ Apart'
  <2>1. Front' = Front /\ hi' = hi /\ unread' = unread
    BY <1>5 DEF Returns, Drops, Front
  <2>2. /\ Carried(t)' = {}
        /\ \A u \in Threads \ {t} : Carried(u)' = Carried(u)
        /\ Carried(t) \subseteq 1 .. Front /\ Carried(t) \subseteq 1 .. hi
    <3>1. Carried(t) \subseteq 1 .. Front
      BY DEF Hands
    <3>2. buffer'[t] = <<>> /\ \A u \in Threads \ {t} : buffer'[u] = buffer[u]
      BY <1>5 DEF Returns, Drops, ByteShape
    <3>3. Elements(<<>>) = {}
      BY DEF Elements
    <3>4. QED
      BY <1>1, <3>1, <3>2, <3>3 DEF Carried
  <2>3. /\ flushed' = flushed
        /\ \/ delivered' = delivered \cup Carried(t) /\ dropped' = dropped
           \/ delivered' = delivered /\ dropped' = dropped \cup Carried(t)
    BY <1>5 DEF Returns, Drops
  <2>4. ByteShape'
    <3>1. buffer' = [buffer EXCEPT ![t] = <<>>]
      BY <1>5 DEF Returns, Drops
    <3>2. buffer' \in [Threads -> Seq(1 .. hi)]
      BY <3>1 DEF ByteShape
    <3>3. QED
      BY <2>1, <2>2, <2>3, <3>2 DEF ByteShape
  <2>5. Hands'
    BY <2>1, <2>2, <2>3 DEF Hands
  <2>6. Apart'
    BY <2>1, <2>2, <2>3 DEF Apart, Gone
  <2>7. QED
    BY <2>4, <2>5, <2>6
<1>6. ASSUME NEW t \in Threads, NEW n \in Nat, Takes(t, n)
      PROVE  ByteShape' /\ Hands' /\ Apart'
  <2>1. /\ Front' = Front + n /\ Front' <= hi /\ hi' = hi
        /\ Carried(t)' = Carried(t) \cup (Front + 1) .. (Front + n)
        /\ \A u \in Threads \ {t} : Carried(u)' = Carried(u)
        /\ UNCHANGED <<dropped, flushed, delivered>>
    BY <1>6, TakenIsNext DEF Takes
  <2>2. ByteShape'
    BY <1>6, <2>1 DEF ByteShape, Takes
  <2>3. Hands'
    <3>1. \A i \in 1 .. Len(unread') : unread'[i] = Front + n + i
      BY <1>1, <1>6 DEF Hands, Takes
    <3>2. QED
      BY <1>1, <2>1, <3>1 DEF Hands
  <2>4. Apart'
    <3> DEFINE more == (Front + 1) .. (Front + n)
    <3>1. Gone' = Gone /\ \A i \in 1 .. 3 : Gone[i] \subseteq 1 .. Front
      BY <2>1 DEF Gone, Hands
    <3>2. /\ \A b \in 1 .. Front' : b \in 1 .. Front \/ b \in more
          /\ \A b \in more : b \notin 1 .. Front
      BY <1>1, <2>1
    <3>3. \A b \in 1 .. Front' : (\E i \in 1 .. 3 : b \in Gone[i]) \/ \E u \in Threads : b \in Carried(u)'
      BY <2>1, <3>2 DEF Apart
    <3> HIDE DEF more
    <3>4. \A u \in Threads, i \in 1 .. 3 : Carried(u)' \cap Gone[i] = {}
      BY <2>1, <3>1, <3>2 DEF Apart, more
    <3>5. \A u, v \in Threads : u # v => Carried(u)' \cap Carried(v)' = {}
      BY <2>1, <3>2 DEF Apart, Hands, more
    <3>6. QED
      BY <3>1, <3>3, <3>4, <3>5 DEF Apart
  <2>5. QED
    BY <2>2, <2>3, <2>4
<1>7. QED
  BY <1>2, <1>3, <1>4, <1>5, <1>6 DEF Effect

-----------------------------------------------------------------------------
\* Everything else that has a shape.  That handles stay natural numbers is a
\* matter of HandlesAccounted.
Control ==
  /\ system \in {"posix", "windows"} /\ plugged \in BOOLEAN
  /\ object \in {"none", "building", "live"} /\ step \in 1 .. Len(Steps[system])
  /\ handles \in [Kinds -> Int] /\ thrown \in Nat
  /\ pc \in [Threads -> IF system = "posix"
                           THEN {"idle", "select", "read", "complete", "write"}
                           ELSE {"idle", "ReadFile", "complete", "ClearCommError", "WriteFile"}]
  /\ want \in [Threads -> Nat]
  /\ object # "live" => Idle
  /\ \A t \in Threads : pc[t] \notin Reading => buffer[t] = <<>>
  /\ dropped # {} => thrown > 0

LEMMA StepsHaveLength == Len(Steps["posix"]) = 6 /\ Len(Steps["windows"]) = 10
BY DEF Steps

States == IF system = "posix"
            THEN {"idle", "select", "read", "complete", "write"}
            ELSE {"idle", "ReadFile", "complete", "ClearCommError", "WriteFile"}

\* A thread goes from one of its states to another.
LEMMA MoveKeepsControl ==
  ASSUME Control, NEW t \in Threads, NEW there \in States, object = "live", Goto(t, there),
         UNCHANGED <<port, plugged>>, handles' \in [Kinds -> Int], thrown' \in Nat,
         want' \in [Threads -> Nat], \A u \in Threads \ {t} : buffer'[u] = buffer[u],
         there \notin Reading => buffer'[t] = <<>>,
         dropped' # {} => thrown' > 0
  PROVE  Control' 
<1>1. pc' \in [Threads -> States] /\ pc'[t] = there /\ \A u \in Threads \ {t} : pc'[u] = pc[u]
  BY DEF Control, Goto, States
<1>2. \A u \in Threads : pc'[u] \notin Reading => buffer'[u] = <<>>
  BY <1>1 DEF Control
<1>3. QED
  BY <1>1, <1>2 DEF Control, States, port

LEMMA ControlKept == IInv /\ [Next]_vars => Control' /\ thrown' >= thrown
<1> SUFFICES ASSUME IInv, [Next]_vars PROVE Control' /\ thrown' >= thrown
  OBVIOUS
<1> USE DEF IInv, Shape, TypeOK, Control, port, fate, Idle, Reading
<1>0. Control
  OBVIOUS
<1>1. CASE BeginConstruct
  BY <1>1, StepsHaveLength DEF BeginConstruct
<1>2. CASE ConstructStep
  <2>1. UNCHANGED <<system, plugged, thrown, dropped, pc, want, buffer>>
    BY <1>2 DEF ConstructStep
  <2>2. handles' \in [Kinds -> Int]
    BY <1>2 DEF ConstructStep
  <2>3. step' \in 1 .. Len(Steps[system]) /\ object' \in {"none", "building", "live"}
    BY <1>2, StepsHaveLength DEF ConstructStep
  <2>4. object = "building"
    BY <1>2 DEF ConstructStep
  <2>5. QED
    BY <2>1, <2>2, <2>3, <2>4
<1>3. CASE ConstructFails
  <2>1. handles' \in [Kinds -> Int]
    BY <1>3 DEF ConstructFails
  <2>2. QED
    BY <1>3, <2>1, StepsHaveLength DEF ConstructFails
<1>4. CASE device_destruct
  <2>1. handles' \in [Kinds -> Int]
    BY <1>4 DEF device_destruct, Kinds
  <2>2. QED
    BY <1>4, <2>1 DEF device_destruct
<1>5. ASSUME NEW t \in Threads, BeginRead(t) \/ BeginWrite(t) PROVE Control' /\ thrown' >= thrown
  <2>1. PICK n \in Lengths : want' = [want EXCEPT ![t] = n]
    BY <1>5 DEF BeginRead, BeginWrite
  <2>2. want' \in [Threads -> Nat] /\ handles' \in [Kinds -> Int]
    BY <1>5, <2>1, PortAssumption DEF BeginRead, BeginWrite, Kinds
  <2>3. PICK there \in States : Goto(t, there)
    BY <1>5 DEF BeginRead, BeginWrite, From, States
  <2>4. object = "live" /\ UNCHANGED <<port, plugged, thrown, buffer, dropped>> /\ pc[t] = "idle"
    BY <1>5 DEF BeginRead, BeginWrite, From
  <2>5. buffer[t] = <<>>
    BY ONLY <1>0, <2>4 DEF Control, Reading
  <2>6. thrown' \in Nat /\ thrown' >= thrown /\ (dropped' # {} => thrown' > 0)
    BY <2>4
  <2> HIDE DEF Control, IInv, Shape, TypeOK, Reading, port
  <2>7. QED
    BY <1>0, <2>2, <2>3, <2>4, <2>5, <2>6, MoveKeepsControl
<1>6. ASSUME NEW t \in Threads, CreateEventFails(t) \/ ReadFails(t) \/ ReadFileEnds(t)
                                  \/ WriteFails(t) \/ WriteFileShort(t)
      PROVE  Control' /\ thrown' >= thrown
  <2>1. handles' \in [Kinds -> Int]
    BY <1>6 DEF CreateEventFails, ReadFails, ReadFileEnds, WriteFails, WriteFileShort, Kinds
  <2>2. object = "live" /\ Goto(t, "idle") /\ UNCHANGED <<port, plugged>> /\ want' = want
    BY <1>6 DEF CreateEventFails, ReadFails, ReadFileEnds, WriteFails, WriteFileShort, Throw
  <2>3. thrown' = thrown + 1 /\ buffer' = [buffer EXCEPT ![t] = <<>>]
    BY <1>6 DEF CreateEventFails, ReadFails, ReadFileEnds, WriteFails, WriteFileShort, Throw
  <2>4. "idle" \in States /\ thrown' \in Nat /\ thrown' > 0 /\ thrown' >= thrown
    BY <2>3 DEF States
  <2>5. buffer'[t] = <<>> /\ \A u \in Threads \ {t} : buffer'[u] = buffer[u]
    BY <2>3
  <2>6. want' \in [Threads -> Nat]
    BY <2>2
  <2> HIDE DEF Control, IInv, Shape, TypeOK, Reading, port
  <2>7. QED
    BY <1>0, <2>1, <2>2, <2>4, <2>5, <2>6, MoveKeepsControl
<1>7. ASSUME NEW t \in Threads, device_flush(t) PROVE Control' /\ thrown' >= thrown
  <2>1. /\ object = "live" /\ Goto(t, "idle") /\ pc[t] = "idle"
        /\ UNCHANGED <<port, plugged>> /\ UNCHANGED <<want, handles, buffer, dropped>>
        /\ thrown' = thrown \/ thrown' = thrown + 1
    BY <1>7 DEF device_flush, From
  <2>2. "idle" \in States /\ thrown' \in Nat /\ thrown' >= thrown /\ (dropped' # {} => thrown' > 0)
    BY <2>1 DEF States
  <2>3. want' \in [Threads -> Nat] /\ handles' \in [Kinds -> Int]
    BY <2>1
  <2>4. buffer[t] = <<>>
    BY ONLY <1>0, <2>1 DEF Control, Reading
  <2> HIDE DEF Control, IInv, Shape, TypeOK, Reading, port
  <2>5. QED
    BY <1>0, <2>1, <2>2, <2>3, <2>4, MoveKeepsControl
<1>8. ASSUME NEW t \in Threads, wait_readable(t) \/ read(t) \/ ReadFile(t) \/ ReadReturns(t)
      PROVE  Control' /\ thrown' >= thrown
  <2>1. object = "live" /\ UNCHANGED <<port, plugged>> /\ UNCHANGED <<handles, thrown, want, dropped>>
    BY <1>8 DEF wait_readable, read, ReadFile, ReadReturns, From
  <2>2. \E there \in States : Goto(t, there) /\ (there \notin Reading => ReadReturns(t))
    BY <1>8 DEF wait_readable, read, ReadFile, ReadReturns, From, States
  <2>3. /\ \A u \in Threads \ {t} : buffer'[u] = buffer[u]
        /\ ReadReturns(t) => buffer'[t] = <<>>
    BY <1>8 DEF wait_readable, read, ReadFile, ReadReturns
  <2>4. /\ handles' \in [Kinds -> Int] /\ want' \in [Threads -> Nat]
        /\ thrown' \in Nat /\ thrown' >= thrown /\ (dropped' # {} => thrown' > 0)
    BY <2>1
  <2> HIDE DEF Control, IInv, Shape, TypeOK, Reading, port
  <2>5. QED
    BY <1>0, <2>1, <2>2, <2>3, <2>4, MoveKeepsControl
<1>9. ASSUME NEW t \in Threads, write(t) \/ ClearCommError(t) \/ WriteFile(t)
      PROVE  Control' /\ thrown' >= thrown
  <2>1. /\ object = "live" /\ pc[t] \notin Reading
        /\ UNCHANGED <<port, plugged>> /\ UNCHANGED <<thrown, buffer, dropped>>
    BY <1>9 DEF write, ClearCommError, WriteFile, From
  <2>2. handles' \in [Kinds -> Int] /\ want' \in [Threads -> Nat]
    BY <1>9 DEF write, ClearCommError, WriteFile, Kinds
  <2>3. \E there \in States : Goto(t, there)
    BY <1>9 DEF write, ClearCommError, WriteFile, From, States
  <2>4. buffer'[t] = <<>> /\ thrown' \in Nat /\ thrown' >= thrown /\ (dropped' # {} => thrown' > 0)
    BY <2>1
  <2> HIDE DEF Control, IInv, Shape, TypeOK, Reading, port
  <2>5. QED
    BY <1>0, <2>1, <2>2, <2>3, <2>4, MoveKeepsControl
<1>10. CASE Arrive \/ Unplug
  <2>1. /\ UNCHANGED <<system, object, step, handles, thrown, pc, want, buffer, dropped>>
        /\ plugged' \in BOOLEAN
    BY <1>10 DEF Arrive, Unplug
  <2>2. QED
    BY <2>1
<1>11. CASE UNCHANGED vars
  BY <1>11 DEF vars
<1>12. QED
  BY <1>1, <1>2, <1>3, <1>4, <1>5, <1>6, <1>7, <1>8, <1>9, <1>10, <1>11
     DEF Next, ReadStep, WriteStep, ReadAtEof, WriteToNobody

-----------------------------------------------------------------------------
\* Steps in which no thread takes bytes: each keeps its buffer or has none.
Calm(u) ==
  \/ pc'[u] = pc[u] /\ buffer'[u] = buffer[u] /\ want'[u] = want[u]
  \/ pc'[u] = "read" /\ pc[u] = "select" /\ buffer'[u] = buffer[u] /\ want'[u] = want[u]
  \/ buffer'[u] = <<>> /\ pc'[u] # "complete" /\ (pc'[u] \in Reading => want'[u] > 0)

LEMMA CalmKeepsServes ==
  ASSUME Serves, FullReadXorError, Front' = Front, system' = system,
         plugged' \/ unread' # <<>> => plugged \/ unread # <<>>,
         \A u \in Threads : Calm(u)
  PROVE  Serves' /\ FullReadXorError'
<1>0. Len(<<>>) = 0 /\ 1 .. (0 - 1) = {}
  OBVIOUS
<1>1. ASSUME NEW u \in Threads, pc'[u] \in Reading \ {"complete"} PROVE Len(buffer'[u]) < want'[u]
  BY <1>0, <1>1 DEF Calm, Serves, Reading
<1>2. ASSUME NEW t \in Threads, NEW u \in Threads,
             pc'[t] = "ReadFile" /\ buffer'[t] # <<>> /\ pc'[u] = "ReadFile" /\ buffer'[u] # <<>>
      PROVE  t = u
  BY <1>2 DEF Calm, Serves
<1>3. ASSUME NEW u \in Threads,
             pc'[u] = "ReadFile" /\ buffer'[u] # <<>> /\ (plugged' \/ unread' # <<>>)
      PROVE  buffer'[u][Len(buffer'[u])] = Front'
  BY <1>3 DEF Calm, Serves
<1>4. ASSUME NEW u \in Threads
      PROVE  /\ pc'[u] = "complete" => Len(buffer'[u]) = want'[u]
             /\ \A i \in 1 .. Len(buffer'[u]) - 1 :
                  \/ buffer'[u][i + 1] = buffer'[u][i] + 1
                  \/ system' = "posix" /\ buffer'[u][i + 1] > buffer'[u][i]
  BY <1>0 DEF Calm, FullReadXorError
<1>5. QED
  BY <1>1, <1>2, <1>3, <1>4 DEF Serves, FullReadXorError

\* The bytes a thread takes continue what it has: in order, and without a gap if
\* it is the one that is served.
LEMMA TakenInOrder ==
  ASSUME ByteShape, Hands, Serves, FullReadXorError,
         NEW t \in Threads, NEW n \in Nat, Takes(t, n),
         system = "posix" \/ (pc[t] = "ReadFile" /\ unread # <<>> /\ n = 1), system' = system
  PROVE  /\ \A i \in 1 .. Len(buffer'[t]) - 1 :
              \/ buffer'[t][i + 1] = buffer'[t][i] + 1
              \/ system' = "posix" /\ buffer'[t][i + 1] > buffer'[t][i]
         /\ Len(buffer'[t]) = Len(buffer[t]) + n
         /\ n > 0 => buffer'[t][Len(buffer'[t])] = Front'
         /\ \A u \in Threads \ {t} : buffer'[u] = buffer[u]
<1> DEFINE L == Len(buffer[t])
<1>1. hi \in Nat /\ Front \in Nat /\ Len(unread) \in Nat /\ L \in Nat
  BY Bounds, UnreadIsTheRest DEF ByteShape
<1>2. PICK taken \in Seq(1 .. hi) :
        /\ buffer' = [buffer EXCEPT ![t] = taken]
        /\ Len(taken) = L + n
        /\ \A i \in 1 .. Len(taken) :
             taken[i] = IF i <= L THEN buffer[t][i] ELSE unread[i - L]
  BY DEF Takes
<1>3. buffer'[t] = taken /\ \A u \in Threads \ {t} : buffer'[u] = buffer[u]
  BY <1>2 DEF ByteShape
<1>4. \A i \in 1 .. n : unread[i] = Front + i
  BY <1>1 DEF Hands, Takes
<1>5. \A i \in 1 .. L : buffer[t][i] \in 1 .. Front
  BY DEF Hands, Carried, Elements
<1> HIDE DEF L
<1>6. ASSUME NEW i \in 1 .. (L + n) - 1
      PROVE  \/ taken[i + 1] = taken[i] + 1
             \/ system = "posix" /\ taken[i + 1] > taken[i]
  <2>1. i + 1 \in 1 .. Len(taken) /\ i \in 1 .. Len(taken)
    BY <1>1, <1>2
  <2>2. CASE i + 1 <= L
    <3>1. taken[i + 1] = buffer[t][i + 1] /\ taken[i] = buffer[t][i]
      BY <1>1, <1>2, <2>1, <2>2
    <3>2. i \in 1 .. L - 1
      BY <1>1, <2>2
    <3>3. QED
      BY <3>1, <3>2 DEF FullReadXorError, L
  <2>3. CASE i = L
    <3>0. (L + 1) - L = 1 /\ ~(L + 1 <= L) /\ L \in 1 .. L /\ 1 \in 1 .. n
      BY <1>1, <2>3
    <3>1. taken[i] = buffer[t][L] /\ taken[i + 1] = unread[1] /\ unread[1] = Front + 1 /\ L \in 1 .. L
      BY <1>2, <1>4, <2>1, <2>3, <3>0
    <3>2. buffer[t][L] \in 1 .. Front
      BY <1>5, <3>1
    <3>3. CASE system = "posix"
      <4>1. Front + 1 > buffer[t][L]
        BY <1>1, <3>2
      <4>2. taken[i + 1] > taken[i]
        BY <3>1, <4>1
      <4>3. QED
        BY <3>3, <4>2
    <3>4. CASE pc[t] = "ReadFile" /\ unread # <<>>
      <4>1. buffer[t] # <<>>
        BY <1>1, <2>3 DEF L
      <4>2. buffer[t][L] = Front
        BY <3>4, <4>1 DEF Serves, L
      <4>3. QED
        BY <3>1, <4>2
    <3>5. QED
      BY <3>3, <3>4
  <2>4. CASE i > L
    <3>1. taken[i] = unread[i - L] /\ taken[i + 1] = unread[(i + 1) - L]
      BY <1>1, <1>2, <2>1, <2>4
    <3>2. i - L \in 1 .. n /\ (i + 1) - L \in 1 .. n
      BY <1>1, <2>4
    <3>3. unread[i - L] = Front + (i - L) /\ unread[(i + 1) - L] = Front + ((i + 1) - L)
      BY <1>4, <3>2
    <3>4. QED
      BY <1>1, <3>1, <3>3
  <2>5. QED
    BY <1>1, <2>2, <2>3, <2>4
<1>7. n > 0 => taken[L + n] = Front'
  <2> SUFFICES ASSUME n > 0 PROVE taken[L + n] = Front'
    OBVIOUS
  <2>1. L + n \in 1 .. Len(taken) /\ ~(L + n <= L) /\ (L + n) - L = n /\ n \in 1 .. n
    BY <1>1, <1>2
  <2>2. taken[L + n] = unread[n] /\ unread[n] = Front + n
    BY <1>2, <1>4, <2>1
  <2>3. QED
    BY <2>2, TakenIsNext
<1>8. QED
  BY <1>2, <1>3, <1>6, <1>7 DEF L

LEMMA InvImplies == IInv => ByteShape /\ Control
BY DEF IInv, Shape, TypeOK, ByteShape, Control

LEMMA ServesKept == IInv /\ [Next]_vars => Serves' /\ FullReadXorError'
<1> SUFFICES ASSUME IInv, [Next]_vars PROVE Serves' /\ FullReadXorError'
  OBVIOUS
<1>0. /\ ByteShape /\ Control /\ Hands /\ Apart /\ Serves /\ FullReadXorError
      /\ Control'
  BY InvImplies, ControlKept DEF IInv
<1>01. /\ hi \in Nat /\ Len(unread) \in Nat /\ Front \in 0 .. hi
      /\ pc \in [Threads -> States] /\ want \in [Threads -> Nat]
      /\ buffer \in [Threads -> Seq(1 .. hi)]
  BY <1>0, Bounds, UnreadIsTheRest DEF Control, States, ByteShape
<1>02. \A u \in Threads : pc[u] \notin Reading => buffer[u] = <<>>
  BY <1>0 DEF Control
<1>1. CASE BeginConstruct \/ ConstructStep \/ ConstructFails \/ device_destruct
  <2>1. Idle /\ UNCHANGED <<pc, buffer, want>>
    BY <1>0, <1>1 DEF Control, BeginConstruct, ConstructStep, ConstructFails, device_destruct
  <2>2. \A u \in Threads : pc'[u] = "idle" /\ buffer'[u] = <<>>
    BY <1>02, <2>1 DEF Idle, Reading
  <2>3. QED
    BY <2>2 DEF Serves, FullReadXorError, Reading
<1>2. ASSUME NEW t \in Threads, BeginRead(t) \/ BeginWrite(t) PROVE Serves' /\ FullReadXorError'
  <2>1. /\ UNCHANGED <<system, plugged, unread, hi, buffer>>
        /\ \A u \in Threads \ {t} : pc'[u] = pc[u] /\ want'[u] = want[u]
    BY <1>2, <1>01 DEF BeginRead, BeginWrite, From, Goto, port
  <2>2. want'[t] > 0
    BY <1>2, <1>01, PortAssumption DEF BeginRead, BeginWrite
  <2>3. pc[t] = "idle" /\ pc'[t] # "complete"
    BY <1>2, <1>01 DEF BeginRead, BeginWrite, From, Goto
  <2>4. buffer'[t] = <<>>
    BY <1>02, <2>1, <2>3 DEF Reading
  <2>5. QED
    BY <1>0, <2>1, <2>2, <2>3, <2>4, CalmKeepsServes DEF Calm, Front
<1>3. ASSUME NEW t \in Threads, CreateEventFails(t) \/ ReadFails(t) \/ ReadFileEnds(t)
                                  \/ WriteFails(t) \/ WriteFileShort(t)
      PROVE  Serves' /\ FullReadXorError'
  <2>1. /\ UNCHANGED <<system, plugged, unread, hi, want>>
        /\ pc' = [pc EXCEPT ![t] = "idle"] /\ buffer' = [buffer EXCEPT ![t] = <<>>]
    BY <1>3 DEF CreateEventFails, ReadFails, ReadFileEnds, WriteFails, WriteFileShort, Throw,
                Goto, port
  <2>2. \A u \in Threads : Calm(u)
    BY <1>01, <2>1 DEF Calm, Reading
  <2>3. QED
    BY <1>0, <2>1, <2>2, CalmKeepsServes DEF Front
<1>4. ASSUME NEW t \in Threads, ReadReturns(t) \/ wait_readable(t)
                                  \/ write(t) \/ ClearCommError(t) \/ WriteFile(t)
      PROVE  Serves' /\ FullReadXorError'
  <2>1. UNCHANGED <<system, plugged, unread, hi>>
    BY <1>4 DEF ReadReturns, wait_readable, write, ClearCommError, WriteFile, port
  <2>2. \A u \in Threads \ {t} : Calm(u)
    BY <1>4, <1>01 DEF ReadReturns, wait_readable, write, ClearCommError, WriteFile, From, Goto, Calm
  <2>3. Calm(t)
    BY <1>4, <1>01, <1>02 DEF ReadReturns, wait_readable, write, ClearCommError, WriteFile, From, Goto,
                            Calm, Reading
  <2>4. QED
    BY <1>0, <2>1, <2>2, <2>3, CalmKeepsServes DEF Front
<1>5. CASE Arrive \/ Unplug
  <2>1. /\ UNCHANGED <<system, pc, want, buffer>> /\ plugged
        /\ Front' = Front \/ (unread' = <<>> /\ ~plugged')
    <3>1. CASE Arrive
      BY <1>01, <1>0, <3>1, Join DEF Arrive, port, Front, ByteShape
    <3>2. CASE Unplug
      BY <3>2 DEF Unplug, port, Front
    <3>3. QED
      BY <1>5, <3>1, <3>2
  <2>2. CASE Front' = Front
    BY <1>0, <2>1, <2>2, CalmKeepsServes DEF Calm
  <2>3. CASE unread' = <<>> /\ ~plugged'
    BY <1>0, <2>1, <2>3 DEF Serves, FullReadXorError
  <2>4. QED
    BY <2>1, <2>2, <2>3
<1>6. ASSUME NEW t \in Threads, device_flush(t) PROVE Serves' /\ FullReadXorError'
  <2>1. pc' = pc /\ UNCHANGED <<system, buffer, want>>
    BY <1>6, <1>01 DEF device_flush, From, Goto, port
  <2>2. \A u \in Threads : pc[u] = "ReadFile" => buffer[u] = <<>>
    <3>1. CASE system = "posix"
      BY <1>01, <3>1 DEF States
    <3>2. CASE system = "windows"
      BY <1>6, <3>2 DEF device_flush, From, Serving
    <3>3. QED
      BY <1>0, <3>1, <3>2 DEF Control
  <2>3. QED
    BY <1>0, <2>1, <2>2 DEF Serves, FullReadXorError
<1>7. ASSUME NEW t \in Threads, read(t) PROVE Serves' /\ FullReadXorError'
  <2> DEFINE missing == want[t] - Len(buffer[t])
             n == Smaller(missing, Len(unread))
  <2>1. n \in Nat /\ Takes(t, n)
    BY <1>7, ReadTakes
  <2>2. /\ pc[t] = "read" /\ UNCHANGED <<system, plugged, want>>
        /\ pc' = [pc EXCEPT ![t] = IF n = missing THEN "complete" ELSE "select"]
    BY <1>7 DEF read, From, Goto, port
  <2>3. system = "posix"
    BY <1>0, <1>01, <2>2 DEF States, Control
  <2>4. /\ \A i \in 1 .. Len(buffer'[t]) - 1 :
             \/ buffer'[t][i + 1] = buffer'[t][i] + 1
             \/ system' = "posix" /\ buffer'[t][i + 1] > buffer'[t][i]
        /\ Len(buffer'[t]) = Len(buffer[t]) + n
        /\ \A u \in Threads \ {t} : buffer'[u] = buffer[u]
    BY <1>0, <2>1, <2>2, <2>3, TakenInOrder
  <2>5. \A u \in Threads : pc'[u] # "ReadFile"
    BY <1>01, <2>2, <2>3 DEF States
  <2>6. Len(buffer[t]) \in Nat /\ Len(buffer[t]) < want[t] /\ want[t] \in Nat
    BY <1>0, <1>01, <2>2 DEF Serves, Reading
  <2>7. n <= missing
    BY <1>01, <2>6 DEF Smaller
  <2>8. /\ pc'[t] = "complete" => Len(buffer'[t]) = want[t]
        /\ pc'[t] # "complete" => Len(buffer'[t]) < want[t]
    BY <1>01, <2>1, <2>2, <2>4, <2>6, <2>7
  <2>9. \A u \in Threads \ {t} : pc'[u] = pc[u]
    BY <1>01, <2>2
  <2> HIDE DEF n, missing
  <2>10. QED
    BY <1>0, <2>2, <2>4, <2>5, <2>8, <2>9 DEF Serves, FullReadXorError
<1>8. ASSUME NEW t \in Threads, ReadFile(t) PROVE Serves' /\ FullReadXorError'
  <2>1. Takes(t, 1) /\ unread # <<>>
    BY <1>8, ReadFileTakes
  <2>2. /\ pc[t] = "ReadFile" /\ UNCHANGED <<system, plugged, want>>
        /\ pc' = [pc EXCEPT ![t] = IF Len(buffer[t]) + 1 = want[t] THEN "complete" ELSE "ReadFile"]
        /\ \A u \in Threads \ {t} : pc[u] = "ReadFile" => buffer[u] = <<>>
    BY <1>8 DEF ReadFile, From, Goto, port, Serving
  <2>3. /\ \A i \in 1 .. Len(buffer'[t]) - 1 :
             \/ buffer'[t][i + 1] = buffer'[t][i] + 1
             \/ system' = "posix" /\ buffer'[t][i + 1] > buffer'[t][i]
        /\ Len(buffer'[t]) = Len(buffer[t]) + 1
        /\ buffer'[t][Len(buffer'[t])] = Front'
        /\ \A u \in Threads \ {t} : buffer'[u] = buffer[u]
    BY <1>0, <2>1, <2>2, TakenInOrder
  <2>4. Len(buffer[t]) \in Nat /\ Len(buffer[t]) < want[t] /\ want[t] \in Nat
    BY <1>0, <1>01, <2>2 DEF Serves, Reading
  <2>5. /\ pc'[t] = "complete" => Len(buffer'[t]) = want[t]
        /\ pc'[t] # "complete" => Len(buffer'[t]) < want[t]
        /\ \A u \in Threads \ {t} : pc'[u] = pc[u]
    BY <1>01, <2>2, <2>3, <2>4
  <2>6. Serves'
    BY <1>0, <2>2, <2>3, <2>5 DEF Serves
  <2>7. FullReadXorError'
    BY <1>0, <2>2, <2>3, <2>5 DEF FullReadXorError
  <2>8. QED
    BY <2>6, <2>7
<1>9. CASE UNCHANGED vars
  BY <1>0, <1>9, CalmKeepsServes DEF vars, port, Calm, Front
<1>10. QED
  BY <1>1, <1>2, <1>3, <1>4, <1>5, <1>6, <1>7, <1>8, <1>9
     DEF Next, ReadStep, WriteStep, ReadAtEof, WriteToNobody

-----------------------------------------------------------------------------
\* The handles.
LEMMA WritersFinite == IsFiniteSet(Writers) /\ Cardinality(Writers) \in Nat
BY PortAssumption, FS_Subset, FS_CardinalityType DEF Writers

\* What a construct that has come to this step opens, and has opened.
LEMMA StepOpens ==
  ASSUME system \in {"posix", "windows"}, step \in 1 .. Len(Steps[system])
  PROVE  /\ "writeEvent" \notin Opens(Steps[system][step])
         /\ "port" \in Opens(Steps[system][step]) <=> step = (IF system = "posix" THEN 1 ELSE 3)
         /\ "readEvent" \in Opens(Steps[system][step]) <=> system = "windows" /\ step = 8
<1>1. CASE system = "posix"
  <2>1. \A k : \A i \in 1 .. 6 : k \in Opens(Steps["posix"][i]) <=> i = 1 /\ k = "port"
    BY DEF Opens, Steps
  <2>2. step \in 1 .. 6
    BY <1>1, StepsHaveLength
  <2>3. QED
    BY <1>1, <2>1, <2>2
<1>2. CASE system = "windows"
  <2>1. \A k : \A i \in 1 .. 10 : k \in Opens(Steps["windows"][i]) <=>
          \/ i = 3 /\ k = "port"
          \/ i = 8 /\ k = "readEvent"
    BY DEF Opens, Steps
  <2>2. step \in 1 .. 10
    BY <1>2, StepsHaveLength
  <2>3. /\ "port" \in Opens(Steps["windows"][step]) <=> step = 3
        /\ "readEvent" \in Opens(Steps["windows"][step]) <=> step = 8
        /\ "writeEvent" \notin Opens(Steps["windows"][step])
    BY <2>1, <2>2
  <2>4. QED
    BY <1>2, <2>3
<1>3. QED
  BY <1>1, <1>2

OpenedByStep ==
  system \in {"posix", "windows"} /\ step \in 1 .. Len(Steps[system]) =>
    /\ "writeEvent" \notin Opened
    /\ "port" \in Opened <=> step > (IF system = "posix" THEN 1 ELSE 3)
    /\ "readEvent" \in Opened <=> system = "windows" /\ step > 8

LEMMA OpenedSoFar ==
  ASSUME system \in {"posix", "windows"}, step \in 1 .. Len(Steps[system])
  PROVE  /\ "writeEvent" \notin Opened
         /\ "port" \in Opened <=> step > (IF system = "posix" THEN 1 ELSE 3)
         /\ "readEvent" \in Opened <=> system = "windows" /\ step > 8
<1>1. \A k : k \in Opened <=> \E i \in 1 .. step - 1 : k \in Opens(Steps[system][i])
  BY DEF Opened
<1>2. step \in Nat
  BY StepsHaveLength
<1>3. CASE system = "posix"
  <2>1. \A k : \A i \in 1 .. 6 : k \in Opens(Steps["posix"][i]) <=> i = 1 /\ k = "port"
    BY DEF Opens, Steps
  <2>2. \A i \in 1 .. step - 1 : i \in 1 .. 6
    BY <1>3, StepsHaveLength
  <2>3. 1 \in 1 .. step - 1 <=> step > 1
    BY <1>2
  <2>4. \A k : k \in Opened <=> step > 1 /\ k = "port"
    BY <1>1, <1>3, <2>1, <2>2, <2>3
  <2>5. QED
    BY <1>3, <2>4
<1>4. CASE system = "windows"
  <2>1. \A k : \A i \in 1 .. 10 : k \in Opens(Steps["windows"][i]) <=>
          \/ i = 3 /\ k = "port"
          \/ i = 8 /\ k = "readEvent"
    BY DEF Opens, Steps
  <2>2. \A i \in 1 .. step - 1 : i \in 1 .. 10
    BY <1>4, StepsHaveLength
  <2>3. (3 \in 1 .. step - 1 <=> step > 3) /\ (8 \in 1 .. step - 1 <=> step > 8)
    BY <1>2
  <2>4. \A k : k \in Opened <=> \/ step > 3 /\ k = "port"
                                \/ step > 8 /\ k = "readEvent"
    <3>1. \A k : k \in Opened <=>
            \E i \in 1 .. step - 1 : (i = 3 /\ k = "port") \/ (i = 8 /\ k = "readEvent")
      BY <1>1, <1>4, <2>1, <2>2
    <3>2. QED
      BY ONLY <2>3, <3>1
  <2>5. QED
    BY <1>4, <2>4
<1>5. QED
  BY <1>3, <1>4

LEMMA OpenedIsByStep == OpenedByStep /\ OpenedByStep'
<1>1. OpenedByStep
  BY OpenedSoFar DEF OpenedByStep
<1>2. QED
  BY <1>1, PTL

\* HandlesAccounted, kind by kind.
HeldByKind ==
  /\ Held("writeEvent") = Cardinality(Writers)
  /\ object = "none" => Held("port") = 0 /\ Held("readEvent") = 0
  /\ object = "building" => /\ Held("port") = (IF "port" \in Opened THEN 1 ELSE 0)
                            /\ Held("readEvent") = (IF "readEvent" \in Opened THEN 1 ELSE 0)
  /\ object = "live" => /\ Held("port") = 1
                        /\ Held("readEvent") = (IF system = "windows" THEN 1 ELSE 0)

LEMMA HeldIsByKind == HeldByKind /\ HeldByKind'
<1>1. HeldByKind
  BY DEF HeldByKind, Held
<1>2. QED
  BY <1>1, PTL

\* A step that leaves open as much as before, or one more with an exception.
Leaks == /\ \A k \in Kinds : Leaked(k) \in Nat
         /\ Leaked("port") + Leaked("readEvent") + Leaked("writeEvent") <= thrown
         /\ system = "windows" => Leaked("port") = 0 /\ Leaked("readEvent") = 0

LEMMA KindsAre == \A k : k \in Kinds <=> k = "port" \/ k = "readEvent" \/ k = "writeEvent"
BY DEF Kinds

LEMMA NoLeak ==
  ASSUME Leaks, thrown \in Nat, thrown' \in Nat, thrown' >= thrown, system' = system,
         \A k \in Kinds : Leaked(k)' = Leaked(k)
  PROVE  Leaks'
BY KindsAre DEF Leaks

LEMMA OneLeak ==
  ASSUME Leaks, thrown \in Nat, thrown' = thrown + 1, system' = system,
         Leaked("port")' \in {Leaked("port"), Leaked("port") + 1},
         system = "windows" => Leaked("port")' = Leaked("port"),
         Leaked("readEvent")' = Leaked("readEvent"), Leaked("writeEvent")' = Leaked("writeEvent")
  PROVE  Leaks'
<1>1. Leaked("writeEvent") \in Nat /\ Leaked("port") \in Nat /\ Leaked("readEvent") \in Nat
  BY KindsAre DEF Leaks
<1>2. QED
  BY <1>1, KindsAre DEF Leaks

\* Nobody but writers touches the event of a write.
LEMMA WriterGoes ==
  ASSUME Control, NEW t \in Threads, NEW there \in States, Goto(t, there)
  PROVE  Cardinality(Writers)' = Cardinality(Writers)
           + (IF there \in {"ClearCommError", "WriteFile"} THEN 1 ELSE 0)
           - (IF t \in Writers THEN 1 ELSE 0)
<1> DEFINE writes == there \in {"ClearCommError", "WriteFile"}
<1>1. pc \in [Threads -> States]
  BY DEF Control, States
<1>2. Writers' = IF writes THEN Writers \cup {t} ELSE Writers \ {t}
  BY <1>1 DEF Writers, Goto
<1>3. IsFiniteSet(Writers) /\ Cardinality(Writers) \in Nat
  BY WritersFinite
<1>4. /\ Cardinality(Writers \cup {t}) = (IF t \in Writers THEN Cardinality(Writers)
                                          ELSE Cardinality(Writers) + 1)
      /\ Cardinality(Writers \ {t}) = (IF t \in Writers THEN Cardinality(Writers) - 1
                                       ELSE Cardinality(Writers))
  BY <1>3, FS_AddElement, FS_RemoveElement
<1>5. QED
  BY <1>2, <1>3, <1>4

\* A thread in a call disturbs nothing but the event of its write.
LEMMA ThreadLeaks ==
  ASSUME Control, object = "live", UNCHANGED port, NEW t \in Threads, NEW there \in States,
         Goto(t, there), NEW d \in Int, handles' = [handles EXCEPT !["writeEvent"] = @ + d]
  PROVE  /\ Leaked("port")' = Leaked("port") /\ Leaked("readEvent")' = Leaked("readEvent")
         /\ Leaked("writeEvent")' = Leaked("writeEvent") + d
              - (IF there \in {"ClearCommError", "WriteFile"} THEN 1 ELSE 0)
              + (IF t \in Writers THEN 1 ELSE 0)
<1>1. handles \in [Kinds -> Int] /\ Cardinality(Writers) \in Nat
  BY WritersFinite DEF Control
<1>2. /\ handles'["port"] = handles["port"] /\ handles'["readEvent"] = handles["readEvent"]
      /\ handles'["writeEvent"] = handles["writeEvent"] + d
      /\ \A k \in Kinds : handles[k] \in Int
  BY <1>1, KindsAre
<1>3. system' = system /\ object' = "live"
  BY DEF port
<1>4. /\ Held("port")' = Held("port") /\ Held("readEvent")' = Held("readEvent")
      /\ Held("writeEvent")' = Cardinality(Writers)' /\ Held("writeEvent") = Cardinality(Writers)
  BY <1>3, HeldIsByKind DEF HeldByKind
<1>5. Cardinality(Writers)' = Cardinality(Writers)
           + (IF there \in {"ClearCommError", "WriteFile"} THEN 1 ELSE 0)
           - (IF t \in Writers THEN 1 ELSE 0)
  BY WriterGoes
<1>6. Leaked("port")' = Leaked("port") /\ Leaked("readEvent")' = Leaked("readEvent")
  BY <1>2, <1>4 DEF Leaked
<1>7. "writeEvent" \in Kinds
  BY KindsAre
<1>8. Leaked("writeEvent")' = Leaked("writeEvent") + d
              - (IF there \in {"ClearCommError", "WriteFile"} THEN 1 ELSE 0)
              + (IF t \in Writers THEN 1 ELSE 0)
  BY <1>1, <1>2, <1>4, <1>5, <1>7 DEF Leaked
<1>9. QED
  BY <1>6, <1>8

LEMMA HandlesKept == IInv /\ Leaks /\ [Next]_vars => Leaks'
<1> SUFFICES ASSUME IInv, Leaks, [Next]_vars PROVE Leaks'
  OBVIOUS
<1>1. /\ Control /\ thrown \in Nat /\ thrown' \in Nat /\ thrown' >= thrown
      /\ pc \in [Threads -> States] /\ handles \in [Kinds -> Int]
      /\ system \in {"posix", "windows"} /\ step \in 1 .. Len(Steps[system])
      /\ object # "live" => Idle
  BY InvImplies, ControlKept DEF Control, States
<1>2. Cardinality(Writers) \in Nat
  BY WritersFinite
<1>3. CASE BeginConstruct
  <2>1. /\ object = "none" /\ object' = "building" /\ step' = 1
        /\ UNCHANGED <<system, handles, pc, thrown>>
    BY <1>3 DEF BeginConstruct
  <2>2. "port" \notin Opened' /\ "readEvent" \notin Opened'
    BY <2>1 DEF Opened
  <2>3. Writers' = Writers
    BY <2>1 DEF Writers
  <2>4. \A k \in Kinds : Held(k)' = Held(k)
    BY <2>1, <2>2, <2>3, HeldIsByKind, KindsAre DEF HeldByKind
  <2>5. QED
    BY <1>1, <2>1, <2>4, NoLeak DEF Leaked
<1>4. CASE ConstructStep
  <2>1. object = "building" /\ UNCHANGED <<system, pc, thrown>>
    BY <1>4 DEF ConstructStep
  <2>2. Writers' = Writers
    BY <2>1 DEF Writers
  <2>3. \A k \in Kinds : handles'[k] = handles[k] + (IF k \in Opens(Steps[system][step]) THEN 1 ELSE 0)
    BY <1>4 DEF ConstructStep, Syscall
  <2>4. /\ "writeEvent" \notin Opens(Steps[system][step])
        /\ "port" \in Opens(Steps[system][step]) <=> step = (IF system = "posix" THEN 1 ELSE 3)
        /\ "readEvent" \in Opens(Steps[system][step]) <=> system = "windows" /\ step = 8
    BY <1>1, StepOpens
  <2>5. \A k \in Kinds : Held(k)' = Held(k) + (IF k \in Opens(Steps[system][step]) THEN 1 ELSE 0)
    <3>1. Held("writeEvent")' = Held("writeEvent") + 0
      BY <1>2, <2>2, HeldIsByKind DEF HeldByKind
    <3>2. /\ "port" \in Opened <=> step > (IF system = "posix" THEN 1 ELSE 3)
          /\ "readEvent" \in Opened <=> system = "windows" /\ step > 8
      BY <1>1, OpenedIsByStep DEF OpenedByStep
    <3>3. /\ Held("port") = (IF "port" \in Opened THEN 1 ELSE 0)
          /\ Held("readEvent") = (IF "readEvent" \in Opened THEN 1 ELSE 0)
      BY <2>1, HeldIsByKind DEF HeldByKind
    <3>4. step \in Nat
      BY <1>1, StepsHaveLength
    <3>5. CASE step < Len(Steps[system])
      <4>1. object' = "building" /\ step' = step + 1 /\ step' \in 1 .. Len(Steps[system])
        BY <1>1, <1>4, <2>1, <3>4, <3>5, StepsHaveLength DEF ConstructStep
      <4>2. /\ "port" \in Opened' <=> step + 1 > (IF system = "posix" THEN 1 ELSE 3)
            /\ "readEvent" \in Opened' <=> system = "windows" /\ step + 1 > 8
        BY <1>1, <2>1, <4>1, OpenedIsByStep DEF OpenedByStep
      <4>3. /\ Held("port")' = (IF "port" \in Opened' THEN 1 ELSE 0)
            /\ Held("readEvent")' = (IF "readEvent" \in Opened' THEN 1 ELSE 0)
        BY <4>1, HeldIsByKind DEF HeldByKind
      <4>4. /\ Held("port")' = Held("port") + (IF "port" \in Opens(Steps[system][step]) THEN 1 ELSE 0)
            /\ Held("readEvent")' = Held("readEvent")
                                     + (IF "readEvent" \in Opens(Steps[system][step]) THEN 1 ELSE 0)
        BY <1>1, <2>4, <3>2, <3>3, <3>4, <4>2, <4>3
      <4>5. QED
        BY <2>4, <3>1, <4>4, KindsAre
    <3>6. CASE ~(step < Len(Steps[system]))
      <4>1. object' = "live" /\ step = (IF system = "posix" THEN 6 ELSE 10)
        <5>1. object' = "live"
          BY <1>4, <3>6 DEF ConstructStep
        <5>2. CASE system = "posix"
          BY <1>1, <3>4, <3>6, <5>1, <5>2, StepsHaveLength
        <5>3. CASE system = "windows"
          BY <1>1, <3>4, <3>6, <5>1, <5>3, StepsHaveLength
        <5>4. QED
          BY <1>1, <5>2, <5>3
      <4>2. Held("port")' = 1 /\ Held("readEvent")' = (IF system = "windows" THEN 1 ELSE 0)
        BY <2>1, <4>1, HeldIsByKind DEF HeldByKind
      <4>3. /\ Held("port")' = Held("port") + (IF "port" \in Opens(Steps[system][step]) THEN 1 ELSE 0)
            /\ Held("readEvent")' = Held("readEvent")
                                     + (IF "readEvent" \in Opens(Steps[system][step]) THEN 1 ELSE 0)
        BY <1>1, <2>4, <3>2, <3>3, <4>1, <4>2
      <4>4. QED
        BY <2>4, <3>1, <4>3, KindsAre
    <3>7. QED
      BY <3>5, <3>6
  <2>6. \A k \in Kinds : handles[k] \in Int /\ Held(k) \in Int
    BY <1>1, <1>2, <2>1, HeldIsByKind, KindsAre DEF HeldByKind
  <2>7. \A k \in Kinds : Leaked(k)' = Leaked(k)
    BY <2>3, <2>5, <2>6 DEF Leaked
  <2>8. QED
    BY <1>1, <2>1, <2>7, NoLeak
<1>5. CASE ConstructFails
  <2>1. /\ object = "building" /\ object' = "none" /\ thrown' = thrown + 1
        /\ UNCHANGED <<system, pc>>
        /\ \A k \in Kinds : handles'[k] = handles[k] - (IF k \in Closes THEN 1 ELSE 0)
    BY <1>5 DEF ConstructFails
  <2>2. Writers' = Writers
    BY <2>1 DEF Writers
  <2>3. /\ "writeEvent" \notin Opened
        /\ "readEvent" \in Opened => system = "windows"
    BY <1>1, OpenedIsByStep DEF OpenedByStep
  <2>4. /\ Held("port") = (IF "port" \in Opened THEN 1 ELSE 0)
        /\ Held("readEvent") = (IF "readEvent" \in Opened THEN 1 ELSE 0)
        /\ Held("port")' = 0 /\ Held("readEvent")' = 0
        /\ Held("writeEvent")' = Held("writeEvent") /\ Held("writeEvent") \in Nat
    BY <1>2, <2>1, <2>2, HeldIsByKind DEF HeldByKind
  <2>5. /\ system = "windows" => Closes = Opened
        /\ \A k : k \in Closes => k \in Opened
    BY DEF Closes
  <2>6. \A k \in Kinds : handles[k] \in Int
    BY <1>1
  <2>7. Leaked("writeEvent")' = Leaked("writeEvent") /\ Leaked("readEvent")' = Leaked("readEvent")
    BY <1>1, <2>1, <2>3, <2>4, <2>5, <2>6, KindsAre DEF Leaked
  <2>8. Leaked("port")' \in {Leaked("port"), Leaked("port") + 1}
    BY <1>1, <2>1, <2>4, <2>5, <2>6, KindsAre DEF Leaked
  <2>9. system = "windows" => Leaked("port")' = Leaked("port")
    BY <1>1, <2>1, <2>4, <2>5, <2>6, KindsAre DEF Leaked
  <2>10. QED
    BY <1>1, <2>1, <2>7, <2>8, <2>9, OneLeak
<1>6. CASE device_destruct
  <2>1. /\ object = "live" /\ object' = "none" /\ UNCHANGED <<system, pc, thrown>>
        /\ handles' = [handles EXCEPT !["port"] = @ - 1,
                                      !["readEvent"] = @ - IF system = "windows" THEN 1 ELSE 0]
    BY <1>6 DEF device_destruct
  <2>2. /\ handles'["port"] = handles["port"] - 1
        /\ handles'["readEvent"] = handles["readEvent"] - (IF system = "windows" THEN 1 ELSE 0)
        /\ handles'["writeEvent"] = handles["writeEvent"]
    BY <1>1, <2>1, KindsAre
  <2>3. Writers' = Writers
    BY <2>1 DEF Writers
  <2>4. \A k \in Kinds : handles[k] \in Int
    BY <1>1
  <2>5. \A k \in Kinds : Leaked(k)' = Leaked(k)
    BY <1>1, <1>2, <2>1, <2>2, <2>3, <2>4, HeldIsByKind, KindsAre DEF Leaked, HeldByKind
  <2>6. QED
    BY <1>1, <2>1, <2>5, NoLeak
<1>7. CASE Arrive \/ Unplug \/ UNCHANGED vars
  <2>1. UNCHANGED <<system, object, step, handles, pc, thrown>>
    BY <1>7 DEF Arrive, Unplug, vars, port
  <2>2. \A k \in Kinds : Leaked(k)' = Leaked(k)
    BY <2>1 DEF Leaked, Held, Opened, Writers
  <2>3. QED
    BY <1>1, <2>1, <2>2, NoLeak
<1>8. ASSUME NEW t \in Threads, BeginRead(t) \/ device_flush(t) \/ ReadStep(t) \/ ReadFails(t)
      PROVE  Leaks'
  <2>1. object = "live" /\ UNCHANGED <<port, handles>> /\ pc[t] \notin {"ClearCommError", "WriteFile"}
    BY <1>8 DEF BeginRead, device_flush, ReadStep, wait_readable, read, ReadFails, ReadAtEof, ReadFile,
                ReadFileEnds, ReadReturns, From, Throw, port
  <2>2. PICK there \in States \ {"ClearCommError", "WriteFile"} : Goto(t, there)
    BY <1>8, <1>1 DEF BeginRead, device_flush, ReadStep, wait_readable, read, ReadFails, ReadAtEof, ReadFile,
                ReadFileEnds, ReadReturns, From, Throw, States, Goto
  <2>3. handles' = [handles EXCEPT !["writeEvent"] = @ + 0] /\ t \notin Writers
    BY <1>1, <2>1, KindsAre DEF Writers
  <2>4. \A k \in Kinds : Leaked(k)' = Leaked(k)
    <3>1. Leaked("writeEvent") \in Nat
      BY KindsAre DEF Leaks
    <3>2. /\ Leaked("port")' = Leaked("port") /\ Leaked("readEvent")' = Leaked("readEvent")
          /\ Leaked("writeEvent")' = Leaked("writeEvent") + 0
               - (IF there \in {"ClearCommError", "WriteFile"} THEN 1 ELSE 0)
               + (IF t \in Writers THEN 1 ELSE 0)
      <4> HIDE DEF Control, port, Leaked, Goto, Writers
      <4>1. there \in States /\ 0 \in Int /\ object = "live" /\ UNCHANGED port
        BY <2>1, <2>2
      <4>2. QED
        BY ONLY <1>1, <2>2, <2>3, <4>1, ThreadLeaks
    <3>3. QED
      BY <2>2, <2>3, <3>1, <3>2, KindsAre
  <2>5. QED
    BY <1>1, <2>1, <2>4, NoLeak DEF port
<1>9. ASSUME NEW t \in Threads, BeginWrite(t) \/ write(t) \/ ClearCommError(t) \/ WriteFile(t)
                                  \/ CreateEventFails(t) \/ WriteFileShort(t)
      PROVE  Leaks'
  <2> DEFINE W(q) == IF q \in {"ClearCommError", "WriteFile"} THEN 1 ELSE 0
  <2>1. object = "live" /\ UNCHANGED port
    BY <1>9 DEF BeginWrite, write, ClearCommError, WriteFile, CreateEventFails, WriteFileShort,
                From, Throw, port
  <2>2. PICK there \in States, d \in Int :
          /\ Goto(t, there) /\ d = W(there) - W(pc[t])
          /\ handles' = [handles EXCEPT !["writeEvent"] = @ + d]
    <3>1. handles["writeEvent"] \in Int /\ handles = [handles EXCEPT !["writeEvent"] = @ + 0]
      BY <1>1, KindsAre
    <3>2. CASE BeginWrite(t)
      <4> DEFINE there == IF system = "posix" THEN "write" ELSE "ClearCommError"
                 d == IF system = "windows" THEN 1 ELSE 0
      <4>1. /\ there \in States /\ d \in Int /\ Goto(t, there) /\ pc[t] = "idle"
            /\ handles' = [handles EXCEPT !["writeEvent"] = @ + d]
        BY <3>2 DEF BeginWrite, From, States
      <4>2. d = W(there) - W(pc[t])
        BY <1>1, <4>1
      <4> HIDE DEF there, d
      <4>3. QED
        BY <4>1, <4>2
    <3>3. CASE write(t) \/ CreateEventFails(t)
      <4>1. /\ UNCHANGED handles /\ W(pc[t]) = 0
            /\ Goto(t, "idle") \/ (Goto(t, "write") /\ pc[t] = "write")
        BY <3>3 DEF write, CreateEventFails, From, Throw
      <4>2. /\ 0 = W("idle") - W(pc[t]) /\ 0 = W("write") - W(pc[t])
            /\ "idle" \in States /\ (pc[t] = "write" => "write" \in States)
        BY <1>1, <4>1 DEF States
      <4> HIDE DEF W
      <4>3. CASE Goto(t, "idle")
        BY <3>1, <4>1, <4>2, <4>3
      <4>4. CASE Goto(t, "write") /\ pc[t] = "write"
        BY <3>1, <4>1, <4>2, <4>4
      <4>5. QED
        BY <4>1, <4>3, <4>4
    <3>4. CASE ClearCommError(t)
      <4>1. UNCHANGED handles /\ pc[t] = "ClearCommError" /\ Goto(t, "WriteFile")
        BY <3>4 DEF ClearCommError, From
      <4>2. 0 = W("WriteFile") - W(pc[t]) /\ "WriteFile" \in States
        <5>1. pc[t] \in States
          BY <1>1
        <5>2. QED
          BY <4>1, <5>1 DEF States
      <4>3. QED
        BY <3>1, <4>1, <4>2
    <3>5. CASE WriteFile(t) \/ WriteFileShort(t)
      <4>1. /\ handles' = [handles EXCEPT !["writeEvent"] = @ - 1]
            /\ W(pc[t]) = 1 /\ Goto(t, "idle")
        BY <3>5 DEF WriteFile, WriteFileShort, From, Throw
      <4>2. -1 = W("idle") - W(pc[t]) /\ "idle" \in States
        BY <4>1 DEF States
      <4>3. handles' = [handles EXCEPT !["writeEvent"] = @ + (-1)]
        BY <3>1, <4>1
      <4>4. -1 \in Int
        OBVIOUS
      <4>5. QED
        BY <4>1, <4>2, <4>3, <4>4
    <3>6. QED
      BY <1>9, <3>2, <3>3, <3>4, <3>5
  <2>3. /\ Leaked("port")' = Leaked("port") /\ Leaked("readEvent")' = Leaked("readEvent")
        /\ Leaked("writeEvent")' = Leaked("writeEvent") + d
             - (IF there \in {"ClearCommError", "WriteFile"} THEN 1 ELSE 0)
             + (IF t \in Writers THEN 1 ELSE 0)
    <3> HIDE DEF Control, port, Leaked, Goto, Writers
    <3>1. QED
      BY ONLY <1>1, <2>1, <2>2, ThreadLeaks
  <2>4. Leaked("writeEvent") \in Nat
    BY KindsAre DEF Leaks
  <2>5. t \in Writers <=> pc[t] \in {"ClearCommError", "WriteFile"}
    BY DEF Writers
  <2>6. \A k \in Kinds : Leaked(k)' = Leaked(k)
    <3>1. Leaked("writeEvent")' = Leaked("writeEvent")
      BY <2>2, <2>3, <2>4, <2>5
    <3>2. QED
      BY <2>3, <3>1, KindsAre
  <2>7. QED
    BY <1>1, <2>1, <2>6, NoLeak DEF port
<1>10. ASSUME NEW t \in Threads, WriteFails(t) PROVE Leaks'
  <2>1. /\ object = "live" /\ UNCHANGED <<port, handles>> /\ thrown' = thrown + 1
        /\ Goto(t, "idle") /\ pc[t] \in {"write", "ClearCommError", "WriteFile"}
    BY <1>10 DEF WriteFails, Throw, port
  <2>2. handles' = [handles EXCEPT !["writeEvent"] = @ + 0] /\ 0 \in Int /\ "idle" \in States
    BY <1>1, <2>1, KindsAre DEF States
  <2>3. /\ Leaked("port")' = Leaked("port") /\ Leaked("readEvent")' = Leaked("readEvent")
        /\ Leaked("writeEvent")' = Leaked("writeEvent") + 0
             - (IF "idle" \in {"ClearCommError", "WriteFile"} THEN 1 ELSE 0)
             + (IF t \in Writers THEN 1 ELSE 0)
    <3> HIDE DEF Control, port, Leaked, Goto, Writers
    <3>1. QED
      BY ONLY <1>1, <2>1, <2>2, ThreadLeaks
  <2>4. Leaked("writeEvent") \in Nat /\ Leaked("port") \in Nat /\ Leaked("readEvent") \in Nat
    BY KindsAre DEF Leaks
  <2>5. Leaked("writeEvent")' \in {Leaked("writeEvent"), Leaked("writeEvent") + 1}
    BY <2>3, <2>4
  <2>6. system' = system
    BY <2>1 DEF port
  <2>7. \A k \in Kinds : Leaked(k)' \in Nat
    BY <2>3, <2>4, <2>5, KindsAre
  <2>8. Leaked("port") + Leaked("readEvent") + Leaked("writeEvent") <= thrown
    BY DEF Leaks
  <2> DEFINE all == Leaked("port")' + Leaked("readEvent")' + Leaked("writeEvent")'
  <2>9. all <= thrown'
    BY <1>1, <2>1, <2>3, <2>4, <2>5, <2>8
  <2>10. system' = "windows" => Leaked("port")' = 0 /\ Leaked("readEvent")' = 0
    BY <2>3, <2>6 DEF Leaks
  <2>11. QED
    BY <2>7, <2>9, <2>10 DEF Leaks
<1>11. QED
  BY <1>3, <1>4, <1>5, <1>6, <1>7, <1>8, <1>9, <1>10 DEF Next, WriteStep, WriteToNobody

\* A handle that is neither held nor left open does not exist.
NoDebt == Leaks /\ Control => handles \in [Kinds -> Nat]

LEMMA LeaksMeansNat == NoDebt
<1> SUFFICES ASSUME Leaks, Control PROVE handles \in [Kinds -> Nat]
  BY DEF NoDebt
<1>1. handles \in [Kinds -> Int] /\ object \in {"none", "building", "live"}
  BY DEF Control
<1>2. \A k \in Kinds : Held(k) \in Nat
  BY <1>1, WritersFinite, HeldIsByKind, KindsAre DEF HeldByKind
<1>3. \A k \in Kinds : handles[k] \in Int /\ handles[k] - Held(k) \in Nat
  BY <1>1 DEF Leaks, Leaked
<1>4. \A k \in Kinds : handles[k] \in Nat
  BY <1>2, <1>3
<1>5. QED
  BY <1>1, <1>4

-----------------------------------------------------------------------------
LEMMA InitIInv == Init => IInv /\ Leaks
<1> SUFFICES ASSUME Init PROVE IInv /\ Leaks
  OBVIOUS
<1>1. /\ system \in {"posix", "windows"} /\ object = "none" /\ step = 1 /\ thrown = 0 /\ hi = 0
      /\ unread = <<>> /\ dropped = {} /\ flushed = {} /\ delivered = {} /\ plugged = TRUE
      /\ pc = [t \in Threads |-> "idle"] /\ want = [t \in Threads |-> 0]
      /\ buffer = [t \in Threads |-> <<>>] /\ handles = [k \in Kinds |-> 0]
  BY DEF Init
<1>2. TypeOK
  <2>0. Len(Steps[system]) \in {6, 10}
    BY <1>1, StepsHaveLength
  <2>1. MaxBytes \in Nat /\ <<>> \in Seq(1 .. hi) /\ 1 \in 1 .. Len(Steps[system])
    <3>1. MaxBytes \in Nat
      BY PortAssumption
    <3>2. <<>> \in Seq(1 .. hi)
      OBVIOUS
    <3>3. 1 \in 1 .. Len(Steps[system])
      <4>1. \A n \in {6, 10} : 1 \in 1 .. n
        OBVIOUS
      <4>2. QED
        BY <2>0, <4>1
    <3>4. QED
      BY <3>1, <3>2, <3>3
  <2>2. /\ system \in {"posix", "windows"} /\ plugged \in BOOLEAN
        /\ object \in {"none", "building", "live"} /\ step \in 1 .. Len(Steps[system])
        /\ thrown \in Nat /\ hi \in 0 .. MaxBytes /\ unread \in Seq(1 .. hi)
        /\ {dropped, flushed, delivered} \subseteq SUBSET (1 .. hi)
    BY <1>1, <2>1
  <2>3. handles \in [Kinds -> Nat] /\ want \in [Threads -> Nat] /\ buffer \in [Threads -> Seq(1 .. hi)]
    BY <1>1, <2>1
  <2>4. pc \in [Threads -> States]
    BY <1>1 DEF States
  <2>5. QED
    BY <2>2, <2>3, <2>4 DEF TypeOK, States
<1>3. Shape
  BY <1>1, <1>2 DEF Shape, Idle
<1>4. Front = 0 /\ \A t \in Threads : Carried(t) = {}
  <2>1. Len(<<>>) = 0 /\ 1 .. 0 = {}
    OBVIOUS
  <2>2. \A t \in Threads : buffer[t] = <<>>
    BY <1>1
  <2>3. Elements(<<>>) = {}
    BY <2>1 DEF Elements
  <2>4. Front = 0
    <3>1. hi = 0 /\ Len(unread) = 0
      BY <1>1, <2>1
    <3>2. QED
      BY <3>1 DEF Front
  <2>5. \A t \in Threads : Carried(t) = {}
    BY <2>2, <2>3 DEF Carried
  <2>6. QED
    BY <2>4, <2>5
<1>5. Hands
  BY <1>1, <1>4 DEF Hands
<1>6. Apart
  BY <1>1, <1>4 DEF Apart, Gone
<1>7. Serves /\ FullReadXorError
  BY <1>1 DEF Serves, FullReadXorError, Reading
<1>8. IInv
  BY <1>1, <1>3, <1>5, <1>6, <1>7 DEF IInv
<1>9. Writers = {} /\ Cardinality(Writers) = 0
  BY <1>1, FS_EmptySet DEF Writers
<1>10. \A k \in Kinds : Leaked(k) = 0
  BY <1>1, <1>9, HeldIsByKind, KindsAre DEF HeldByKind, Leaked
<1>11. Leaks
  BY <1>1, <1>10, KindsAre DEF Leaks
<1>12. QED
  BY <1>8, <1>11

LEMMA Inductive == IInv /\ Leaks /\ [Next]_vars => IInv' /\ Leaks'
<1> SUFFICES ASSUME IInv, Leaks, [Next]_vars PROVE IInv' /\ Leaks'
  OBVIOUS
<1>1. Effect
  BY StepHasEffect
<1>2. ByteShape' /\ Hands' /\ Apart'
  BY <1>1, InvImplies, BytesKept DEF IInv
<1>3. Control'
  BY ControlKept
<1>4. Serves' /\ FullReadXorError'
  BY ServesKept
<1>5. Leaks'
  BY HandlesKept
<1>6. handles' \in [Kinds -> Nat]
  <2>1. NoDebt'
    BY LeaksMeansNat, PTL
  <2>2. QED
    BY <1>3, <1>5, <2>1 DEF NoDebt
<1>7. Shape'
  BY <1>2, <1>3, <1>6 DEF Shape, TypeOK, ByteShape, Control
<1>8. IInv'
  BY <1>2, <1>3, <1>4, <1>7 DEF IInv, Control
<1>9. QED
  BY <1>5, <1>8

LEMMA InvAlways == Spec => [](IInv /\ Leaks)
BY InitIInv, Inductive, PTL DEF Spec

\* Every variable keeps its shape: the thread is in a state its system has, and
\* no handle is ever closed more often than it was opened.
THEOREM TypeCorrect == Spec => []TypeOK
<1>1. IInv => TypeOK
  BY DEF IInv, Shape
<1>2. QED
  BY <1>1, InvAlways, PTL

\* Whatever the threads, the flushes and the exceptions do, no byte that has
\* arrived is lost without a trace and none is handed out twice.
THEOREM EveryByteAccounted == Spec => []BytesAccounted
<1>1. IInv => BytesAccounted
  <2> SUFFICES ASSUME IInv PROVE BytesAccounted
    OBVIOUS
  <2>1. ByteShape /\ Hands /\ Apart /\ (dropped # {} => thrown > 0)
    BY InvImplies DEF IInv
  <2>2. hi \in Nat /\ Front \in 0 .. hi /\ Elements(unread) = (Front + 1) .. hi
    BY <2>1, Bounds, UnreadIsTheRest
  <2>3. /\ Resting[1] = (Front + 1) .. hi /\ Resting[2] = Gone[1]
        /\ Resting[3] = Gone[2] /\ Resting[4] = Gone[3]
    BY <2>2 DEF Resting, Gone
  <2>4. /\ \A i \in 1 .. 3 : Gone[i] \subseteq 1 .. Front
        /\ \A t \in Threads : Carried(t) \subseteq 1 .. Front
        /\ (1 .. Front) \cap ((Front + 1) .. hi) = {}
    BY <2>1, <2>2 DEF Hands, Gone
  <2>5. \A b \in 1 .. hi : b \in 1 .. Front \/ b \in Resting[1]
    BY <2>2, <2>3
  <2>6. \A i \in 1 .. 3 : Resting[i + 1] = Gone[i]
    BY <2>3
  <2>7. \A i \in 1 .. 4 : i = 1 \/ (i - 1 \in 1 .. 3 /\ Resting[i] = Gone[i - 1])
    BY <2>3
  <2> HIDE DEF Resting, Gone
  <2>8. \A b \in 1 .. hi : (\E i \in 1 .. 4 : b \in Resting[i]) \/ \E t \in Threads : b \in Carried(t)
    <3> TAKE b \in 1 .. hi
    <3>1. CASE b \in Resting[1]
      BY <3>1
    <3>2. CASE b \in 1 .. Front
      <4>1. (\E i \in 1 .. 3 : b \in Gone[i]) \/ \E t \in Threads : b \in Carried(t)
        BY <2>1, <3>2 DEF Apart
      <4>2. \A i \in 1 .. 3 : i + 1 \in 1 .. 4
        OBVIOUS
      <4>3. QED
        BY <2>6, <4>1, <4>2
    <3>3. QED
      BY <2>5, <3>1, <3>2
  <2>9. \A i, j \in 1 .. 4 : i # j => Resting[i] \cap Resting[j] = {}
    <3> TAKE i, j \in 1 .. 4
    <3>1. CASE i = 1 \/ j = 1
      BY <2>3, <2>4, <2>7, <3>1
    <3>2. CASE i # 1 /\ j # 1
      BY <2>1, <2>7, <3>2 DEF Apart
    <3>3. QED
      BY <3>1, <3>2
  <2>10. \A t \in Threads, i \in 1 .. 4 : Carried(t) \cap Resting[i] = {}
    <3> TAKE t \in Threads, i \in 1 .. 4
    <3>1. CASE i = 1
      BY <2>3, <2>4, <3>1
    <3>2. CASE i # 1
      BY <2>1, <2>7, <3>2 DEF Apart
    <3>3. QED
      BY <3>1, <3>2
  <2>11. QED
    BY <2>1, <2>8, <2>9, <2>10 DEF BytesAccounted, Apart
<1>2. QED
  BY <1>1, InvAlways, PTL

\* A read that succeeds has as many bytes as it was asked for, in the order of
\* their arrival, and on Windows without a gap.
THEOREM FullReads == Spec => []FullReadXorError
<1>1. IInv => FullReadXorError
  BY DEF IInv
<1>2. QED
  BY <1>1, InvAlways, PTL

\* Nothing is closed twice, an exception leaves open one handle at most, and on
\* Windows never the port.
THEOREM HandlesAlwaysAccounted == Spec => []HandlesAccounted
<1>1. Leaks => HandlesAccounted
  BY DEF Leaks, HandlesAccounted
<1>2. QED
  BY <1>1, InvAlways, PTL
==============================================================================
