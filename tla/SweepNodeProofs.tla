-------------------------- MODULE SweepNodeProofs ---------------------------
(***************************************************************************)
(* Ownership and order in the Node.js binding, for any number of requests, *)
(* any size of the thread pool, and errors and stops at any time.          *)
(*                                                                         *)
(* That the device outlives its users is a matter of who holds the         *)
(* shared_ptr: Ownership says that these are the wrapped object and the    *)
(* requests in flight, nobody else, and that the device is live while      *)
(* there is one of them.  That callbacks see newer scans needs that all    *)
(* scans in the queue are newer than those taken out of it: Order.         *)
(***************************************************************************)
EXTENDS SweepNode, TLAPS, SequenceTheorems

Flying == {"queued", "running", "ready"}

Ownership ==
  /\ holders \subseteq {Wrap} \cup Requests
  /\ Wrap \in holders <=> wrap = "live"
  /\ \A r \in Requests : r \in holders <=> request[r] \in Flying
  /\ holders # {} => device = "live"

\* The scans of the queue, in order, are newer than every result and than what
\* any callback has seen.
Order ==
  /\ \A i \in 1 .. Len(ready) : ready[i] # Exception =>
       /\ ready[i] > newest
       /\ \A r \in Requests : ready[i] > result[r]
       /\ \A j \in 1 .. Len(ready) : j < i => ready[j] < ready[i]
  /\ \A r \in Requests : seen[r] <= newest
  /\ \A r \in Requests : request[r] \in {"none", "queued", "running"} => result[r] = Exception

\* The state keeps its shape, and the queue holds scans there have been.
Shape == TypeOK /\ ready \in Seq(0 .. scans)

IInv == Shape /\ Ownership /\ Order /\ NewerThanSeen

LEMMA InitIInv == Init => IInv
<1> SUFFICES ASSUME Init PROVE IInv
  OBVIOUS
<1>1. Shape
  <2>1. /\ MaxReady \in Nat /\ MaxStarts \in Nat
    BY NodeAssumption
  <2>2. /\ {scanning, feeding, aborted} \subseteq BOOLEAN
        /\ wrap \in {"none", "live", "collected"} /\ device \in {"none", "live", "freed"}
    BY Zenon DEF Init
  <2>3. /\ holders \subseteq {Wrap} \cup Requests
        /\ ready \in Seq(Nat) /\ ready \in Seq(0 .. scans) /\ Len(ready) <= MaxReady
        /\ scans \in Nat /\ starts \in 0 .. MaxStarts /\ newest \in 0 .. scans
    BY <2>1 DEF Init
  <2>4. /\ request \in [Requests -> {"none", "queued", "running", "ready", "closed"}]
        /\ result \in [Requests -> 0 .. scans] /\ seen \in [Requests -> 0 .. scans]
    BY DEF Init, Exception
  <2>5. QED
    BY <2>2, <2>3, <2>4 DEF Shape, TypeOK
<1>2. Ownership
  BY DEF Init, Ownership, Flying, Wrap, Requests
<1>3. Order /\ NewerThanSeen
  BY DEF Init, Order, NewerThanSeen, Exception
<1>4. QED
  BY <1>1, <1>2, <1>3 DEF IInv

\* The queue when there is room for one more.
Room == IF Len(ready) >= MaxReady THEN Tail(ready) ELSE ready

\* What the library's worker does to the queue.
LEMMA FeedEffect ==
  Feed => /\ \/ ready' = Append(Room, scans + 1) /\ scans' = scans + 1
             \/ ready' = Append(Room, Exception) /\ scans' = scans
          /\ UNCHANGED <<wrap, starts, newest, seen, device, holders, request, result>>
BY Zenon DEF Feed, Enqueue, Room, jsVars

\* There is room, and what has been dropped for it was at the head.
LEMMA RoomMade ==
  ASSUME Shape
  PROVE  /\ Room \in Seq(0 .. scans) /\ Len(Room) < MaxReady
         /\ \E d \in {0, 1} :
              /\ Len(Room) = Len(ready) - d
              /\ \A i \in 1 .. Len(Room) : i + d \in 1 .. Len(ready) /\ Room[i] = ready[i + d]
<1>1. ready \in Seq(0 .. scans) /\ Len(ready) \in Nat /\ Len(ready) <= MaxReady
  BY DEF Shape, TypeOK
<1>2. MaxReady \in Nat /\ MaxReady > 0
  BY NodeAssumption
<1>3. CASE Len(ready) >= MaxReady
  <2>1. Room = Tail(ready) /\ ready # <<>>
    BY <1>1, <1>2, <1>3 DEF Room
  <2>2. /\ Room \in Seq(0 .. scans) /\ Len(Room) = Len(ready) - 1
        /\ \A i \in 1 .. Len(Room) : Room[i] = ready[i + 1]
    BY <1>1, <2>1
  <2>3. QED
    BY <1>1, <1>2, <2>2
<1>4. CASE Len(ready) < MaxReady
  <2>1. Room = ready
    BY <1>1, <1>2, <1>4 DEF Room
  <2>2. QED
    BY <1>1, <1>4, <2>1
<1>5. QED
  BY <1>1, <1>2, <1>3, <1>4

\* Nothing but the shape and the order depends on the queue, the numbers of the
\* scans and what callbacks saw; nothing but ownership on the holders.
LEMMA ShapeKept == IInv /\ [Next]_vars => Shape'
<1> SUFFICES ASSUME IInv, [Next]_vars PROVE Shape'
  OBVIOUS
<1> USE DEF IInv, Shape, TypeOK, jsVars, libVars
<1>1. CASE New
  BY <1>1 DEF New
<1>2. CASE startScanning
  <2>1. /\ MaxReady \in Nat /\ MaxStarts \in Nat
    BY NodeAssumption
  <2>2. /\ ready' \in Seq(Nat) /\ ready' \in Seq(0 .. scans') /\ Len(ready') <= MaxReady
    BY <1>2, <2>1 DEF startScanning
  <2>3. starts' \in 0 .. MaxStarts
    BY <1>2, <2>1 DEF startScanning
  <2>4. {scanning', feeding', aborted'} \subseteq BOOLEAN
    BY Zenon, <1>2 DEF startScanning
  <2>5. UNCHANGED <<wrap, device, holders, scans, newest, request, result, seen>>
    BY <1>2 DEF startScanning
  <2>6. QED
    BY <2>2, <2>3, <2>4, <2>5
<1>3. CASE stopScanning
  BY <1>3 DEF stopScanning
<1>4. CASE Collect
  BY <1>4 DEF Collect, Drop
<1>5. ASSUME NEW r \in Requests, scan(r) PROVE Shape'
  BY <1>5 DEF scan, Request
<1>6. ASSUME NEW r \in Requests, Execute(r) PROVE Shape'
  BY <1>6 DEF Execute
<1>7. ASSUME NEW r \in Requests, Take(r) PROVE Shape'
  <2>1. ready # <<>> /\ ready' = Tail(ready) /\ result' = [result EXCEPT ![r] = Head(ready)]
    BY <1>7 DEF Take
  <2>2. Head(ready) \in 0 .. scans
    BY <2>1
  <2>3. /\ ready' \in Seq(Nat) /\ ready' \in Seq(0 .. scans)
        /\ Len(ready') = Len(ready) - 1 /\ Len(ready) \in Nat
    BY <2>1
  <2>4. MaxReady \in Nat
    BY NodeAssumption
  <2>5. Len(ready') <= MaxReady
    BY <2>3, <2>4
  <2>6. result' \in [Requests -> 0 .. scans]
    BY <2>1, <2>2
  <2>7. request' \in [Requests -> {"none", "queued", "running", "ready", "closed"}]
    BY <1>7 DEF Take
  <2>8. {scanning', feeding', aborted'} \subseteq BOOLEAN
    BY Zenon, <1>7 DEF Take
  <2>9. UNCHANGED <<wrap, starts, newest, seen, scans, device, holders>>
    BY <1>7 DEF Take
  <2>10. QED
    BY <2>3, <2>5, <2>6, <2>7, <2>8, <2>9
<1>8. ASSUME NEW r \in Requests, Callback(r) PROVE Shape'
  <2>1. /\ newest' \in 0 .. scans' /\ holders' \subseteq {Wrap} \cup Requests
        /\ device' \in {"none", "live", "freed"}
    BY <1>8 DEF Callback, Drop
  <2>2. request' \in [Requests -> {"none", "queued", "running", "ready", "closed"}]
    BY <1>8 DEF Callback
  <2>3. {scanning', feeding', aborted'} \subseteq BOOLEAN
    BY Zenon, <1>8 DEF Callback, Drop
  <2>4. UNCHANGED <<wrap, starts, seen, result, ready, scans>>
    BY <1>8 DEF Callback, Drop
  <2>5. QED
    BY <2>1, <2>2, <2>3, <2>4
<1>9. CASE Feed
  <2>1. /\ scans' \in Nat /\ 0 .. scans \subseteq 0 .. scans'
        /\ \E n \in 0 .. scans' : ready' = Append(Room, n)
    <3>1. scans \in Nat
      OBVIOUS
    <3>2. QED
      BY <1>9, <3>1, FeedEffect DEF Exception
  <2>2. /\ ready' \in Seq(Nat) /\ ready' \in Seq(0 .. scans') /\ Len(ready') <= MaxReady
    <3>1. MaxReady \in Nat /\ Len(Room) < MaxReady /\ Room \in Seq(0 .. scans)
      BY NodeAssumption, RoomMade
    <3>2. Room \in Seq(0 .. scans')
      BY <2>1, <3>1, SeqMonotonic
    <3>3. QED
      BY <2>1, <3>1, <3>2
  <2>3. {scanning', feeding', aborted'} \subseteq BOOLEAN
    BY Zenon, <1>9 DEF Feed
  <2>4. UNCHANGED <<wrap, starts, newest, seen, device, holders, request, result>>
    BY <1>9, FeedEffect
  <2>5. /\ newest' \in 0 .. scans' /\ result' \in [Requests -> 0 .. scans']
        /\ seen' \in [Requests -> 0 .. scans']
    BY <2>1, <2>4
  <2>6. QED
    BY <2>1, <2>2, <2>3, <2>4, <2>5
<1>10. CASE UNCHANGED vars
  <2>1. {scanning', feeding', aborted'} \subseteq BOOLEAN
    BY Zenon, <1>10 DEF vars
  <2>2. UNCHANGED <<wrap, starts, newest, seen, ready, scans, device, holders, request, result>>
    BY <1>10 DEF vars
  <2>3. QED
    BY <2>1, <2>2
<1>11. QED
  BY <1>1, <1>2, <1>3, <1>4, <1>5, <1>6, <1>7, <1>8, <1>9, <1>10 DEF Next, JavaScript, Loop

LEMMA OwnershipKept == IInv /\ [Next]_vars => Ownership'
<1> SUFFICES ASSUME IInv, [Next]_vars PROVE Ownership'
  OBVIOUS
<1> USE DEF IInv, Shape, TypeOK, Ownership, Flying, jsVars, libVars
<1>0. Wrap \notin Requests
  BY DEF Wrap, Requests
<1>1. CASE New
  BY <1>0, <1>1 DEF New
<1>2. CASE startScanning
  BY <1>2 DEF startScanning
<1>3. CASE stopScanning
  BY <1>3 DEF stopScanning
<1>4. CASE Collect
  BY <1>0, <1>4 DEF Collect, Drop
<1>5. ASSUME NEW r \in Requests, scan(r) PROVE Ownership'
  BY <1>0, <1>5 DEF scan, Request
<1>6. ASSUME NEW r \in Requests, Execute(r) PROVE Ownership'
  BY <1>6 DEF Execute
<1>7. ASSUME NEW r \in Requests, Take(r) PROVE Ownership'
  BY <1>7 DEF Take
<1>8. ASSUME NEW r \in Requests, Callback(r) PROVE Ownership'
  BY <1>0, <1>8 DEF Callback, Drop
<1>9. CASE Feed
  BY <1>9 DEF Feed
<1>10. CASE UNCHANGED vars
  BY <1>10 DEF vars
<1>11. QED
  BY <1>1, <1>2, <1>3, <1>4, <1>5, <1>6, <1>7, <1>8, <1>9, <1>10 DEF Next, JavaScript, Loop

LEMMA OrderKept == IInv /\ [Next]_vars => Order' /\ NewerThanSeen'
<1> SUFFICES ASSUME IInv, [Next]_vars PROVE Order' /\ NewerThanSeen'
  OBVIOUS
<1> USE DEF IInv, Shape, TypeOK, Order, NewerThanSeen, Exception, jsVars, libVars
<1>1. CASE New
  BY <1>1 DEF New
<1>2. CASE startScanning
  BY <1>2 DEF startScanning
<1>3. CASE stopScanning
  BY <1>3 DEF stopScanning
<1>4. CASE Collect
  BY <1>4 DEF Collect, Drop
<1>5. ASSUME NEW r \in Requests, scan(r) PROVE Order' /\ NewerThanSeen'
  BY <1>5 DEF scan, Request
<1>6. ASSUME NEW r \in Requests, Execute(r) PROVE Order' /\ NewerThanSeen'
  <2>1. /\ UNCHANGED <<jsVars, libVars, device, holders, result>>
        /\ request' = [request EXCEPT ![r] = "running"] \/ UNCHANGED request
    BY <1>6 DEF Execute
  <2>2. \A q \in Requests : request'[q] = request[q] \/ request'[q] = "running"
    BY <2>1
  <2>3. UNCHANGED <<seen, newest, result, scans, ready>>
    BY <2>1
  <2>4. Order'
    <3>1. \A q \in Requests : request'[q] \in {"none", "queued", "running"} => result[q] = Exception
      BY <1>6 DEF Execute
    <3> QED BY <2>3, <3>1
  <2>5. NewerThanSeen'
    BY <2>2, <2>3
  <2> QED BY <2>4, <2>5
<1>7. ASSUME NEW r \in Requests, Take(r) PROVE Order' /\ NewerThanSeen'
  <2>1. /\ request[r] = "running" /\ ready # <<>>
        /\ request' = [request EXCEPT ![r] = "ready"]
        /\ result' = [result EXCEPT ![r] = Head(ready)] /\ ready' = Tail(ready)
        /\ UNCHANGED <<seen, newest>>
    BY <1>7 DEF Take
  <2>2. Order'
    BY <2>1
  <2>3. NewerThanSeen'
    BY <2>1
  <2> QED BY <2>2, <2>3
<1>8. ASSUME NEW r \in Requests, Callback(r) PROVE Order' /\ NewerThanSeen'
  BY <1>8 DEF Callback, Drop
<1>9. CASE Feed
  <2>1. UNCHANGED <<newest, seen, request, result>>
    BY <1>9, FeedEffect
  <2>2. PICK d \in {0, 1} :
               /\ Len(Room) = Len(ready) - d
               /\ \A i \in 1 .. Len(Room) : i + d \in 1 .. Len(ready) /\ Room[i] = ready[i + d]
    BY RoomMade
  <2>3. /\ Room \in Seq(0 .. scans) /\ Len(Room) \in Nat /\ scans \in Nat
        /\ \A i \in 1 .. Len(Room) : Room[i] \in 0 .. scans
    <3>1. Room \in Seq(0 .. scans) /\ scans \in Nat
      BY RoomMade
    <3>2. QED
      BY ONLY <3>1
  <2>4. ASSUME NEW i \in 1 .. Len(Room), Room[i] # 0
        PROVE  /\ Room[i] > newest /\ \A r \in Requests : Room[i] > result[r]
               /\ \A j \in 1 .. Len(Room) : j < i => Room[j] < Room[i]
    <3>1. /\ i + d \in 1 .. Len(ready) /\ Room[i] = ready[i + d] /\ ready[i + d] # 0
          /\ \A j \in 1 .. Len(Room) : j < i => j + d < i + d
      BY <2>2, <2>4
    <3>2. QED
      BY <2>2, <3>1
  <2>5. CASE ready' = Append(Room, scans + 1) /\ scans' = scans + 1
    <3>1. /\ Len(ready') = Len(Room) + 1 /\ ready'[Len(Room) + 1] = scans + 1
          /\ \A i \in 1 .. Len(Room) : ready'[i] = Room[i] /\ Room[i] \in 0 .. scans
      BY <2>3, <2>5
    <3>2. /\ scans + 1 > newest /\ \A r \in Requests : scans + 1 > result[r]
      OBVIOUS
    <3>3. ASSUME NEW i \in 1 .. Len(ready'), ready'[i] # 0
          PROVE /\ ready'[i] > newest /\ \A r \in Requests : ready'[i] > result[r]
                /\ \A j \in 1 .. Len(ready') : j < i => ready'[j] < ready'[i]
      <4>1. CASE i = Len(Room) + 1
        <5>1. \A j \in 1 .. Len(ready') : j < i => j \in 1 .. Len(Room)
          BY <4>1, <2>3, <3>1
        <5>2. \A j \in 1 .. Len(Room) : ready'[j] < scans + 1
          BY ONLY <2>3, <3>1
        <5>3. QED
          BY <4>1, <5>1, <5>2, <3>1, <3>2
      <4>2. CASE i \in 1 .. Len(Room)
        <5>1. \A j \in 1 .. Len(ready') : j < i => j \in 1 .. Len(Room)
          BY <4>2, <2>3, <3>1
        <5>2. QED
          BY <4>2, <5>1, <2>4, <3>1, <3>3
      <4>3. QED
        BY <4>1, <4>2, <2>3, <3>1
    <3>4. QED
      BY <2>1, <3>3
  <2>6. CASE ready' = Append(Room, 0)
    <3>1. /\ Len(ready') = Len(Room) + 1 /\ ready'[Len(Room) + 1] = 0
          /\ \A i \in 1 .. Len(Room) : ready'[i] = Room[i]
      BY <2>3, <2>6
    <3>2. ASSUME NEW i \in 1 .. Len(ready'), ready'[i] # 0
          PROVE /\ ready'[i] > newest /\ \A r \in Requests : ready'[i] > result[r]
                /\ \A j \in 1 .. Len(ready') : j < i => ready'[j] < ready'[i]
      <4>1. /\ i \in 1 .. Len(Room) /\ i # Len(Room) + 1
            /\ \A j \in 1 .. Len(ready') : j < i => j \in 1 .. Len(Room)
        BY <2>3, <3>1, <3>2
      <4>2. QED
        BY <2>4, <3>1, <3>2, <4>1
    <3>3. QED
      BY <2>1, <3>2
  <2>7. \/ ready' = Append(Room, scans + 1) /\ scans' = scans + 1
        \/ ready' = Append(Room, 0)
    BY <1>9, FeedEffect
  <2>8. QED
    BY ONLY <2>5, <2>6, <2>7
<1>10. CASE UNCHANGED vars
  BY <1>10 DEF vars
<1>11. QED
  BY <1>1, <1>2, <1>3, <1>4, <1>5, <1>6, <1>7, <1>8, <1>9, <1>10 DEF Next, JavaScript, Loop

LEMMA Inductive == Spec => []IInv
<1>1. IInv /\ [Next]_vars => IInv'
  BY ShapeKept, OwnershipKept, OrderKept DEF IInv
<1>2. QED
  BY InitIInv, <1>1, PTL DEF Spec

\* The state of the binding keeps its shape.
THEOREM TypeCorrect == Spec => []TypeOK
<1>1. IInv => TypeOK
  BY DEF IInv, Shape
<1>2. QED
  BY Inductive, <1>1, PTL

\* Neither the garbage collector nor a callback takes the device away from a
\* request that still uses it.
THEOREM OutlivesUse == Spec => []DeviceOutlivesUse
<1>1. IInv => DeviceOutlivesUse
  BY DEF IInv, Ownership, DeviceOutlivesUse, InFlight, Flying
<1>2. QED
  BY Inductive, <1>1, PTL

\* However the threads of the pool are scheduled, no callback sees a scan that
\* is not newer than what callbacks had seen when its request was made.
THEOREM NewerScans == Spec => []NewerThanSeen
<1>1. IInv => NewerThanSeen
  BY DEF IInv
<1>2. QED
  BY Inductive, <1>1, PTL

-----------------------------------------------------------------------------
\* A device without a holder has been freed.  This needs that construct returns
\* no device together with an error.
Released == device = "live" => holders # {}

LEMMA ReleasedKept ==
  IInv /\ (StopMayFail => ~LibraryMayFail) /\ Released /\ [Next]_vars => Released'
<1> SUFFICES ASSUME IInv, StopMayFail => ~LibraryMayFail, Released, [Next]_vars PROVE Released'
  OBVIOUS
<1> USE DEF Released, jsVars, libVars
<1>1. CASE New
  BY <1>1, NodeAssumption DEF New
<1>2. CASE startScanning \/ stopScanning \/ Feed \/ UNCHANGED vars
  BY <1>2 DEF startScanning, stopScanning, Feed, vars
<1>3. CASE Collect
  BY <1>3 DEF Collect, Drop
<1>4. ASSUME NEW r \in Requests, scan(r) \/ Loop(r) PROVE Released'
  BY <1>4 DEF scan, Request, Loop, Execute, Take, Callback, Drop
<1>5. QED
  BY <1>1, <1>2, <1>3, <1>4 DEF Next, JavaScript

\* If construct returns either a device or an error, the device is gone with
\* the object and the last callback.
THEOREM NoDeviceLeak ==
  ASSUME StopMayFail => ~LibraryMayFail
  PROVE  Spec => []DeviceReleased
<1>1. Init => Released
  BY DEF Init, Released
<1>2. IInv /\ Released /\ [Next]_vars => Released'
  BY ReleasedKept
<1>3. IInv /\ Released => DeviceReleased
  <2> SUFFICES ASSUME IInv, Released, wrap = "collected", InFlight = {} PROVE device # "live"
    BY DEF DeviceReleased
  <2>1. holders = {}
    BY DEF IInv, Ownership, InFlight, Flying
  <2>2. QED
    BY <2>1 DEF Released
<1>4. QED
  BY Inductive, <1>1, <1>2, <1>3, PTL DEF Spec
=============================================================================
