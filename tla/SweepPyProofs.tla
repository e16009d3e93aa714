--------------------------- MODULE SweepPyProofs ---------------------------
(***************************************************************************)
(* Proofs about the pipeline of sweeppy: however many scans arrive before  *)
(* the timer fires, whichever thread is slow and whatever call fails, no   *)
(* scan is lost or overtaken between the threads; and the binding returns  *)
(* every C object it was given, if it was given them at all.               *)
(***************************************************************************)
EXTENDS SweepPy, SequenceTheorems, TLAPS

USE PipelineAssumption

-----------------------------------------------------------------------------
(***************************************************************************)
(* The inductive invariant.  What NothingLost says of the queue is not     *)
(* enough: that the next scan will be in order depends on how many scans   *)
(* the scanner has taken from the device and not put yet, and that is      *)
(* known from its place only.                                              *)
(***************************************************************************)

\* The scans in the queue, up to place n, are the ones after the last counted.
ScansUpTo(n) == \A i \in 1 .. n : fifo[i] = printed + i

\* The scanner has put every scan, or all but the one it has at hand.
Working ==
  /\ counter = "get"
  /\ \/ scanner \in {"enter", "start", "next", "fail", "raised"} /\ printed + Len(fifo) = scans
     \/ scanner \in {"convert", "put"} /\ printed + Len(fifo) + 1 = scans
  /\ ScansUpTo(Len(fifo))

\* It has dropped the last scan and put the sentinel instead, at the end of the
\* queue; or the counter has read that, and ended.
Told ==
  /\ done /\ scanner \in {"stop", "exit", "fail", "ended", "raised"}
  /\ \/ /\ counter = "get"
        /\ Len(fifo) > 0 /\ fifo[Len(fifo)] = Sentinel
        /\ printed + Len(fifo) = scans
        /\ ScansUpTo(Len(fifo) - 1)
     \/ counter = "ended" /\ fifo = <<>> /\ printed + 1 = scans

\* The C objects, by the scanner's place.  Only the device of a construct that
\* returned it together with an error stays behind.
Owns ==
  /\ scanner \in {"enter", "ended"} => owned = {}
  /\ scanner \in {"start", "next", "put", "stop", "exit", "fail"} => owned = {"device"}
  /\ scanner = "convert" => owned = {"device", "scan"}
  /\ scanner = "raised" => owned = {} \/ (StopMayFail /\ owned = {"device"})

IInv == TypeOK /\ (Working \/ Told) /\ Owns

-----------------------------------------------------------------------------
(***************************************************************************)
(* The lines of the proof: what the two queue operations do to the order.  *)
(***************************************************************************)
Element == Nat \cup {Sentinel}

\* Putting at the end leaves what was there where it was.
LEMMA PutAtTheEnd ==
  ASSUME NEW q \in Seq(Element), NEW e \in Element
  PROVE  /\ Append(q, e) \in Seq(Element)
         /\ Len(Append(q, e)) = Len(q) + 1
         /\ \A i \in 1 .. Len(q) : Append(q, e)[i] = q[i]
         /\ Append(q, e)[Len(q) + 1] = e
  BY AppendProperties

\* Getting the head moves every other element one place ahead.
LEMMA GetTheHead ==
  ASSUME NEW q \in Seq(Element), q # <<>>
  PROVE  /\ Head(q) = q[1]
         /\ Tail(q) \in Seq(Element)
         /\ Len(q) \in Nat /\ Len(q) > 0
         /\ Len(Tail(q)) = Len(q) - 1
         /\ \A i \in 1 .. Len(q) - 1 : Tail(q)[i] = q[i + 1]
  BY HeadTailProperties, EmptySeq

LEMMA InitIsFine == Init => IInv
<1> SUFFICES ASSUME Init PROVE IInv
  OBVIOUS
<1>1. fifo = <<>> /\ scans = 0 /\ printed = 0
  BY DEF Init
<1>2. <<>> \in Seq(Nat \cup {Sentinel}) /\ Len(<<>>) = 0
  OBVIOUS
<1>3. ScansUpTo(Len(fifo)) /\ printed + Len(fifo) = scans
  BY <1>1, <1>2 DEF ScansUpTo
<1>4. Working
  BY <1>3 DEF Init, Working
<1>5. TypeOK
  <2>1. /\ scanner = "enter" /\ counter = "get" /\ done = FALSE
        /\ owned \subseteq {"device", "scan"}
    BY DEF Init
  <2>2. fifo \in Seq(Nat \cup {Sentinel})
    BY <1>1, <1>2
  <2>3. scans \in Nat /\ printed \in 0 .. scans
    BY <1>1
  <2> QED BY <2>1, <2>2, <2>3 DEF TypeOK
<1>6. Owns
  BY DEF Init, Owns
<1> QED BY <1>4, <1>5, <1>6 DEF IInv

-----------------------------------------------------------------------------
(***************************************************************************)
(* The scanner thread.                                                     *)
(***************************************************************************)

\* Where a step of the scanner touches neither the queue nor the number of
\* scans, only its place matters.
LEMMA ScannerMoves ==
  ASSUME IInv, Enter \/ StartScanning \/ ConvertScan \/ StopScanning \/ Exit
  PROVE  IInv'
<1> USE DEF IInv, TypeOK
<1>1. /\ TypeOK' /\ Owns'
  BY DEF Enter, StartScanning, ConvertScan, StopScanning, Exit, Raise, Owns
<1>2. (Working \/ Told)'
  <2>1. UNCHANGED <<counter, done, fifo, scans, printed>>
    BY DEF Enter, StartScanning, ConvertScan, StopScanning, Exit
  <2>2. CASE Working
    BY <2>1, <2>2 DEF Enter, StartScanning, ConvertScan, StopScanning, Exit, Raise, Working, ScansUpTo
  <2>3. CASE Told
    BY <2>1, <2>3 DEF Enter, StartScanning, ConvertScan, StopScanning, Exit, Raise, Told, ScansUpTo
  <2> QED BY <2>2, <2>3
<1> QED BY <1>1, <1>2

\* The scan at hand is the one that the queue lacks.
LEMMA ScannerTakes ==
  ASSUME IInv, NextScan
  PROVE  IInv'
<1> USE DEF IInv, TypeOK
<1>1. /\ TypeOK' /\ Owns'
  BY DEF NextScan, Raise, Owns
<1>2. Working /\ scanner = "next"
  BY DEF NextScan, Raise, Told
<1>3. Working'
  BY <1>2 DEF NextScan, Raise, Working, ScansUpTo
<1> QED BY <1>1, <1>3

\* It is put behind its predecessors.
LEMMA ScannerPuts ==
  ASSUME IInv, PutScan
  PROVE  IInv'
<1> USE DEF IInv, TypeOK, Element
<1>1. /\ Working /\ scanner = "put"
      /\ printed + Len(fifo) + 1 = scans
  BY DEF PutScan, Told, Working
<1>2. /\ fifo' \in Seq(Element) /\ Len(fifo') = Len(fifo) + 1
      /\ \A i \in 1 .. Len(fifo) : fifo'[i] = fifo[i]
      /\ fifo'[Len(fifo) + 1] = scans
  BY PutAtTheEnd DEF PutScan
<1>3. TypeOK' /\ Owns'
  BY <1>2 DEF PutScan, Owns
<1>4. PICK n \in Nat : n = Len(fifo)
  BY LenProperties
<1>5. ScansUpTo(Len(fifo))'
  <2>1. \A i \in 1 .. n : fifo'[i] = printed + i
    BY <1>1, <1>2, <1>4 DEF Working, ScansUpTo
  <2>2. fifo'[n + 1] = printed + (n + 1)
    BY <1>1, <1>2, <1>4
  <2>3. \A i \in 1 .. n + 1 : fifo'[i] = printed + i
    <3> SUFFICES ASSUME NEW i \in 1 .. n + 1 PROVE fifo'[i] = printed + i
      OBVIOUS
    <3>1. CASE i = n + 1
      BY <2>2, <3>1
    <3>2. CASE i \in 1 .. n
      BY <2>1, <3>2
    <3> QED BY <1>4, <3>1, <3>2
  <2>4. Len(fifo') = n + 1 /\ printed' = printed
    BY <1>2, <1>4 DEF PutScan
  <2> QED BY <2>3, <2>4 DEF ScansUpTo
<1>6. Working'
  BY <1>1, <1>2, <1>5 DEF PutScan, Working
<1> QED BY <1>3, <1>6

\* The sentinel takes the place of the scan that is dropped.
LEMMA ScannerTells ==
  ASSUME IInv, PutSentinel
  PROVE  IInv'
<1> USE DEF IInv, TypeOK, Element
<1>1. /\ Working /\ scanner = "put"
      /\ printed + Len(fifo) + 1 = scans
  BY DEF PutSentinel, Told, Working
<1>2. /\ fifo' \in Seq(Element) /\ Len(fifo') = Len(fifo) + 1
      /\ \A i \in 1 .. Len(fifo) : fifo'[i] = fifo[i]
      /\ fifo'[Len(fifo) + 1] = Sentinel
  BY PutAtTheEnd DEF PutSentinel
<1>3. TypeOK' /\ Owns'
  BY <1>2 DEF PutSentinel, Owns
<1>4. PICK n \in Nat : n = Len(fifo)
  BY LenProperties
<1>5. ScansUpTo(Len(fifo) - 1)'
  <2>1. \A i \in 1 .. n : fifo'[i] = printed + i
    BY <1>1, <1>2, <1>4 DEF Working, ScansUpTo
  <2>2. Len(fifo') - 1 = n /\ printed' = printed
    BY <1>2, <1>4 DEF PutSentinel
  <2> QED BY <2>1, <2>2 DEF ScansUpTo
<1>6. Told'
  <2>1. done' /\ scanner' = "stop" /\ counter' = "get"
    BY <1>1 DEF PutSentinel, Working
  <2>2. printed' = printed /\ scans' = scans
    BY DEF PutSentinel
  <2>3. printed' + Len(fifo') = scans' /\ Len(fifo') > 0
    BY <1>1, <1>2, <1>4, <2>2
  <2>4. fifo'[Len(fifo')] = Sentinel
    BY <1>2
  <2> QED BY <1>5, <2>1, <2>3, <2>4 DEF Told
<1> QED BY <1>3, <1>6

-----------------------------------------------------------------------------
(***************************************************************************)
(* The counter thread and the timer.                                       *)
(***************************************************************************)
LEMMA CounterCounts ==
  ASSUME IInv, CountScan
  PROVE  IInv'
<1> USE DEF IInv, TypeOK, Element
<1>1. /\ Head(fifo) = fifo[1]
      /\ Tail(fifo) \in Seq(Element)
      /\ Len(Tail(fifo)) = Len(fifo) - 1
      /\ \A i \in 1 .. Len(fifo) - 1 : Tail(fifo)[i] = fifo[i + 1]
  BY GetTheHead DEF CountScan
<1>2. PICK n \in Nat : n = Len(fifo) /\ n > 0
  BY GetTheHead DEF CountScan
<1>3. fifo' \in Seq(Element) /\ Len(fifo') = n - 1
  BY <1>1, <1>2 DEF CountScan
<1>4. Owns'
  BY DEF CountScan, Owns
<1>5. CASE Working
  <2>1. fifo[1] = printed + 1
    BY <1>2, <1>5 DEF Working, ScansUpTo
  <2>2. printed' = printed + 1 /\ counter' = counter
    BY <1>1, <2>1, PipelineAssumption DEF CountScan
  <2>3. \A i \in 1 .. n - 1 : fifo'[i] = printed' + i
    <3> SUFFICES ASSUME NEW i \in 1 .. n - 1 PROVE fifo'[i] = printed' + i
      OBVIOUS
    <3>1. fifo'[i] = fifo[i + 1]
      BY <1>1, <1>2 DEF CountScan
    <3>2. fifo[i + 1] = printed + (i + 1)
      BY <1>2, <1>5 DEF Working, ScansUpTo
    <3> QED BY <2>2, <3>1, <3>2
  <2>4. Working'
    BY <1>2, <1>3, <1>5, <2>2, <2>3 DEF CountScan, Working, ScansUpTo
  <2>5. TypeOK'
    BY <1>2, <1>3, <1>5, <2>2 DEF CountScan, Working
  <2> QED BY <1>4, <2>4, <2>5
<1>6. CASE Told /\ n = 1
  <2>1. fifo[1] = Sentinel
    BY <1>2, <1>6 DEF Told, CountScan
  <2>2. counter' = "ended" /\ printed' = printed
    BY <1>1, <2>1 DEF CountScan
  <2>3. fifo' = <<>>
    BY <1>3, <1>6, EmptySeq
  <2>4. Told'
    BY <1>2, <1>6, <2>2, <2>3 DEF Told, CountScan
  <2> QED BY <1>3, <1>4, <2>2, <2>4 DEF CountScan
<1>7. CASE Told /\ n > 1
  <2>1. /\ fifo[1] = printed + 1 /\ fifo[n] = Sentinel
        /\ printed + n = scans
        /\ \A i \in 1 .. n - 1 : fifo[i] = printed + i
    BY <1>2, <1>7 DEF Told, ScansUpTo, CountScan
  <2>2. printed' = printed + 1 /\ counter' = counter
    BY <1>1, <2>1, PipelineAssumption DEF CountScan
  <2>3. \A i \in 1 .. n - 2 : fifo'[i] = printed' + i
    <3> SUFFICES ASSUME NEW i \in 1 .. n - 2 PROVE fifo'[i] = printed' + i
      OBVIOUS
    <3>1. fifo'[i] = fifo[i + 1]
      BY <1>1, <1>2 DEF CountScan
    <3>2. fifo[i + 1] = printed + (i + 1)
      BY <2>1
    <3> QED BY <2>2, <3>1, <3>2
  <2>4. fifo'[n - 1] = Sentinel
    BY <1>1, <1>2, <1>7, <2>1 DEF CountScan
  <2>5. Told'
    <3>1. /\ done' /\ scanner' \in {"stop", "exit", "fail", "ended", "raised"}
          /\ counter' = "get"
      BY <1>7, <2>2 DEF CountScan, Told
    <3>2. PICK m \in Nat : m = Len(fifo') /\ m = n - 1 /\ m > 0
      BY <1>2, <1>3, <1>7
    <3>3. fifo'[Len(fifo')] = Sentinel
      BY <2>4, <3>2
    <3>4. printed' + Len(fifo') = scans'
      <4>1. scans' = scans
        BY DEF CountScan
      <4> QED BY <2>1, <2>2, <3>2, <4>1
    <3>5. ScansUpTo(Len(fifo) - 1)'
      <4>1. \A i \in 1 .. m - 1 : fifo'[i] = printed' + i
        BY <1>2, <2>3, <3>2
      <4> QED BY <3>2, <4>1 DEF ScansUpTo
    <3> QED BY <3>1, <3>2, <3>3, <3>4, <3>5 DEF Told
  <2>6. TypeOK'
    BY <1>2, <1>3, <1>7, <2>1, <2>2 DEF CountScan
  <2> QED BY <1>4, <2>5, <2>6
<1> QED BY <1>2, <1>5, <1>6, <1>7

LEMMA TimerIsHarmless ==
  ASSUME IInv, TimerFires
  PROVE  IInv'
BY DEF TimerFires, IInv, TypeOK, Working, Told, ScansUpTo, Owns

LEMMA StepIsFine == IInv /\ [Next]_vars => IInv'
<1> SUFFICES ASSUME IInv, [Next]_vars PROVE IInv'
  OBVIOUS
<1>1. CASE Scanner
  BY <1>1, ScannerMoves, ScannerTakes, ScannerPuts, ScannerTells DEF Scanner
<1>2. CASE CountScan
  BY <1>2, CounterCounts
<1>3. CASE TimerFires
  BY <1>3, TimerIsHarmless
<1>4. CASE UNCHANGED vars
  BY <1>4 DEF vars, IInv, TypeOK, Working, Told, ScansUpTo, Owns
<1> QED BY <1>1, <1>2, <1>3, <1>4 DEF Next

LEMMA Invariant == Spec => []IInv
BY InitIsFine, StepIsFine, PTL DEF Spec

-----------------------------------------------------------------------------
\* The counter never counts more than the device delivered, and the queue holds
\* scans and sentinels only (__init__.py, app.py).
THEOREM TypeCorrect == Spec => []TypeOK
<1>1. IInv => TypeOK
  BY DEF IInv
<1> QED BY <1>1, Invariant, PTL

\* app.py: whatever the order in which the threads run, the counter sees every
\* scan the scanner put, once and in order, nothing behind the sentinel, and when
\* it ends it has missed the one scan the scanner had at hand when done was set.
THEOREM NothingIsLost == Spec => []NothingLost
<1>1. IInv => NothingLost
  <2> SUFFICES ASSUME IInv PROVE NothingLost
    OBVIOUS
  <2>1. Len(fifo) \in Nat
    BY LenProperties DEF IInv, TypeOK
  <2>2. CASE Working
    BY <2>2 DEF Working, NothingLost, InOrder, ScansUpTo, CounterEndsDry
  <2>3. CASE Told
    BY <2>1, <2>3 DEF Told, NothingLost, InOrder, ScansUpTo, CounterEndsDry
  <2> QED BY <2>2, <2>3 DEF IInv
<1> QED BY <1>1, Invariant, PTL

\* __exit__ and _error_to_exception: a scanner that has ended, by whatever
\* exception, holds no device and no scan; provided that the construct that fails
\* returns no device.
THEOREM EverythingIsReleased == ~StopMayFail => (Spec => []Released)
<1> SUFFICES ASSUME ~StopMayFail PROVE Spec => []Released
  OBVIOUS
<1>1. IInv => Released
  BY DEF IInv, Owns, Released
<1> QED BY <1>1, Invariant, PTL

\* And without that proviso: at most the device stays behind, never a scan, and
\* never after an orderly end.
THEOREM OnlyTheDeviceIsLeft ==
  Spec => []( /\ scanner = "ended" => owned = {}
              /\ scanner = "raised" => owned \subseteq {"device"} )
<1>1. IInv => /\ scanner = "ended" => owned = {}
              /\ scanner = "raised" => owned \subseteq {"device"}
  BY DEF IInv, Owns
<1> QED BY <1>1, Invariant, PTL

=============================================================================
