----------------------------- MODULE DummyProofs -----------------------------
(***************************************************************************)
(* Theorems about the dummy library, for any set of readers and any        *)
(* bounds: its type, the numbers of its scans, and that it implements      *)
(* Session.                                                                *)
(***************************************************************************)
EXTENDS Dummy, FiniteSetTheorems, TLAPS

(* ---- the invariant ---- *)

\* The bounds are numbers.
LEMMA Bounds == MaxSessions \in Nat /\ MaxScans \in Nat /\ IsFiniteSet(Readers)
BY DummyAssumption DEF DummyAssumption

\* A call under way was allowed when it began, and still is: nobody but the
\* client changes what its guard is about.
CallAllowed ==
  /\ object = "none" => ~is_scanning /\ call \in {"none", "construct"}
  /\ object # "live" => Nobody
  /\ call = "construct" => object = "none"
  /\ call \notin {"none", "construct"} => object = "live"
  /\ call \in {"start", "set_motor_speed", "MI", "MZ", "LI", "LR", "RR"} => ~is_scanning
  /\ call = "start" => sessions < MaxSessions
  /\ call = "destruct" => Nobody

Inv == TypeOK /\ CallAllowed

LEMMA InvInit == Init => Inv
<1> SUFFICES ASSUME Init PROVE Inv
  OBVIOUS
<1>1. TypeOK
  <2>1. object \in {"none", "live", "freed"} /\ is_scanning \in BOOLEAN BY DEF Init
  <2>2. 0 \in 0 .. MaxSessions /\ 0 \in 0 .. MaxScans BY Bounds
  <2>3. /\ pc \in [Readers -> {"idle", "asked", "sized", "made", "counting", "sleeping"}]
        /\ scan \in [Readers -> [count : {0, 16}, nth : Nat]]
        /\ loaded \in [Readers -> Nat]
    BY DEF Init
  <2> QED BY <2>1, <2>2, <2>3 DEF Init, TypeOK
<1>2. CallAllowed BY DEF Init, CallAllowed, Nobody
<1> QED BY <1>1, <1>2 DEF Inv

LEMMA TypeNext == Inv /\ [Next]_vars => TypeOK'
<1> SUFFICES ASSUME Inv, [Next]_vars PROVE TypeOK'
  OBVIOUS
<1> USE Bounds DEF Inv
<1>1. CASE BeginCall
  BY <1>1 DEF TypeOK, BeginCall, Begin, device
<1>2. CASE EndCall
  <2>0. is_scanning' \in BOOLEAN
    BY <1>2, Zenon DEF TypeOK, EndCall, sweep_device_construct, sweep_device_start_scanning,
       sweep_device_stop_scanning, sweep_device_destruct, sweep_device_set_motor_speed,
       sweep_device_set_sample_rate, sweep_device_get, device
  <2>1. CASE sweep_device_construct BY <2>0, <2>1 DEF TypeOK, sweep_device_construct, Return
  <2>2. CASE sweep_device_start_scanning
    <3>1. sessions + 1 \in 0 .. MaxSessions
      BY <2>2 DEF TypeOK, CallAllowed, sweep_device_start_scanning, Return
    <3> QED BY <2>0, <2>2, <3>1 DEF TypeOK, sweep_device_start_scanning, Return
  <2>3. CASE sweep_device_stop_scanning BY <2>0, <2>3 DEF TypeOK, sweep_device_stop_scanning, Return
  <2>4. CASE sweep_device_destruct BY <2>4 DEF TypeOK, sweep_device_destruct, Return
  <2>5. CASE sweep_device_set_motor_speed BY <2>5 DEF TypeOK, sweep_device_set_motor_speed, Return
  <2>6. CASE sweep_device_set_sample_rate BY <2>6 DEF TypeOK, sweep_device_set_sample_rate, Return
  <2>7. CASE sweep_device_get BY <2>7 DEF TypeOK, sweep_device_get, Return, device
  <2> QED BY <1>2, <2>1, <2>2, <2>3, <2>4, <2>5, <2>6, <2>7 DEF EndCall
<1>3. ASSUME NEW r \in Readers, sweep_device_get_scan(r) PROVE TypeOK'
  <2>1. CASE Ask(r)
    <3>1. asked + 1 \in 0 .. MaxScans BY <2>1 DEF TypeOK, Ask
    <3> QED BY <2>1, <3>1 DEF TypeOK, Ask, At, device
  <2>2. CASE MakeScan(r) BY <2>2 DEF TypeOK, MakeScan, At, device
  <2>3. CASE LoadCount(r)
    <3>1. PICK n \in {scan[r].nth, nth_scan_request} : loaded' = [loaded EXCEPT ![r] = n]
      BY <2>3 DEF LoadCount
    <3>2. n \in Nat BY DEF TypeOK
    <3> QED BY <2>3, <3>1, <3>2 DEF TypeOK, LoadCount, At, device
  <2>4. CASE StoreCount(r) BY <2>4 DEF TypeOK, StoreCount, At, device
  <2>5. CASE Wake(r) BY <2>5 DEF TypeOK, Wake, At, device
  <2>6. CASE CountSamples(r) BY <2>6 DEF TypeOK, CountSamples, At, device
  <2> QED BY <1>3, <2>1, <2>2, <2>3, <2>4, <2>5, <2>6 DEF sweep_device_get_scan
<1>4. CASE UNCHANGED vars BY <1>4 DEF TypeOK, vars, device
<1> QED BY <1>1, <1>2, <1>3, <1>4 DEF Next

LEMMA CallNext == Inv /\ [Next]_vars => CallAllowed'
<1> SUFFICES ASSUME Inv, [Next]_vars PROVE CallAllowed'
  OBVIOUS
<1> USE DEF Inv
<1>1. CASE BeginCall
  <2>1. UNCHANGED <<object, is_scanning, sessions, pc>>
    BY <1>1, Zenon DEF BeginCall, Begin, device
  <2>2. \/ call' = "construct" /\ object = "none"
        \/ call' = "start" /\ Quiescent /\ sessions < MaxSessions
        \/ call' = "stop" /\ object = "live"
        \/ call' = "destruct" /\ object = "live" /\ Nobody
        \/ call' \in {"set_motor_speed", "MI", "MZ", "LI", "LR", "RR"} /\ Quiescent
    BY <1>1, Zenon DEF BeginCall, Begin
  <2> QED BY <2>1, <2>2 DEF CallAllowed, Nobody, Quiescent
<1>2. CASE EndCall
  BY <1>2 DEF CallAllowed, Nobody, EndCall, Return, sweep_device_construct,
       sweep_device_start_scanning, sweep_device_stop_scanning, sweep_device_destruct,
       sweep_device_set_motor_speed, sweep_device_set_sample_rate, sweep_device_get, device
<1>3. ASSUME NEW r \in Readers, sweep_device_get_scan(r) PROVE CallAllowed'
  <2>1. object = "live" /\ call \notin {"construct", "destruct"}
    <3>1. pc[r] = "idle" => object = "live" /\ call \notin {"construct", "destruct"}
      BY <1>3 DEF sweep_device_get_scan, Ask, CountSamples, MakeScan, LoadCount, StoreCount,
             Wake, At
    <3>2. pc[r] # "idle" => ~Nobody BY DEF Nobody
    <3> QED BY <3>1, <3>2 DEF CallAllowed
  <2>2. UNCHANGED <<object, is_scanning, sessions, call>>
    BY <1>3, Zenon DEF sweep_device_get_scan, Ask, CountSamples, MakeScan, LoadCount, StoreCount, Wake,
        device
  <2> QED BY <2>1, <2>2 DEF CallAllowed
<1>4. CASE UNCHANGED vars BY <1>4 DEF CallAllowed, Nobody, vars, device
<1> QED BY <1>1, <1>2, <1>3, <1>4 DEF Next

THEOREM Invariant == Spec => []Inv
<1>1. Inv /\ [Next]_vars => Inv' BY TypeNext, CallNext DEF Inv
<1> QED BY InvInit, <1>1, PTL DEF Spec

\* The fields of the device and the readers keep their shape (dummy.cc 15-25).
THEOREM TypeCorrect == Spec => []TypeOK
<1>1. Inv => TypeOK BY DEF Inv
<1> QED BY Invariant, <1>1, PTL

(* ---- the numbers of the scans ---- *)

\* What a reader is about to add to is within the scans counted, too.
Numbers ==
  /\ NumbersRun
  /\ \A r \in Readers :
       /\ pc[r] = "made" => scan[r].nth + Cardinality(Uncounted) <= asked
       /\ pc[r] = "counting" => loaded[r] + Cardinality(Uncounted) <= asked

LEMMA UncountedFinite ==
  /\ IsFiniteSet(Uncounted) /\ Cardinality(Uncounted) \in Nat
  /\ \A r \in Uncounted : Cardinality(Uncounted) >= 1
<1>1. Uncounted \subseteq Readers BY DEF Uncounted
<1>2. IsFiniteSet(Uncounted) BY <1>1, Bounds, FS_Subset
<1>3. Cardinality(Uncounted) \in Nat BY <1>2, FS_CardinalityType
<1>4. Uncounted # {} => Cardinality(Uncounted) # 0 BY <1>2, FS_EmptySet
<1> QED BY <1>2, <1>3, <1>4

LEMMA NumbersInit == Init => Numbers
<1> SUFFICES ASSUME Init PROVE Numbers
  OBVIOUS
<1>1. Uncounted = {} BY DEF Init, Uncounted
<1>2. Cardinality(Uncounted) = 0 BY <1>1, FS_EmptySet
<1> QED BY <1>2 DEF Init, Numbers, NumbersRun

LEMMA NumbersNext == Inv /\ Numbers /\ [Next]_vars => Numbers'
<1> SUFFICES ASSUME Inv, Numbers, [Next]_vars PROVE Numbers'
  OBVIOUS
<1> USE DEF Inv
<1> DEFINE size == Cardinality(Uncounted)
<1>0. size \in Nat /\ nth_scan_request \in Nat /\ asked \in Nat
  <2>1. asked \in Nat BY Bounds DEF TypeOK
  <2> QED BY <2>1, UncountedFinite DEF TypeOK
<1>1. ASSUME UNCHANGED <<pc, scan, loaded, asked>>, nth_scan_request' \in {0, nth_scan_request}
      PROVE  Numbers'
  <2>1. Uncounted' = Uncounted BY <1>1 DEF Uncounted
  <2>2. size' = size BY <2>1
  <2> QED BY <1>0, <1>1, <2>2 DEF Numbers, NumbersRun
<1>2. ASSUME NEW r \in Readers, sweep_device_get_scan(r) PROVE Numbers'
  <2>1. CASE Ask(r)
    <3>1. Uncounted' = Uncounted \cup {r} /\ r \notin Uncounted
      BY <2>1 DEF Ask, At, Uncounted, TypeOK
    <3>2. size' = size + 1 BY <3>1, UncountedFinite, FS_AddElement
    <3>3. /\ asked' = asked + 1 /\ UNCHANGED <<nth_scan_request, scan, loaded>>
          /\ pc' = [pc EXCEPT ![r] = "asked"]
      BY <2>1 DEF Ask, At
    <3>4. \A q \in Readers : scan[q].nth \in Nat /\ loaded[q] \in Nat BY DEF TypeOK
    <3> HIDE DEF size
    <3>5. (nth_scan_request + size <= asked)' BY <1>0, <3>2, <3>3 DEF size, Numbers, NumbersRun
    <3>6. ASSUME NEW q \in Readers
          PROVE  /\ pc'[q] \in {"made", "counting", "sleeping"} => scan'[q].nth < asked'
                 /\ pc'[q] = "made" => scan'[q].nth + size' <= asked'
                 /\ pc'[q] = "counting" => loaded'[q] + size' <= asked'
      BY <1>0, <3>2, <3>3, <3>4 DEF size, Numbers, NumbersRun, TypeOK
    <3> QED BY <3>5, <3>6 DEF size, Numbers, NumbersRun
  <2>2. CASE MakeScan(r)
    <3>1. Uncounted' = Uncounted /\ r \in Uncounted
      BY <2>2 DEF MakeScan, At, Uncounted, TypeOK
    <3>2. size' = size /\ size >= 1 BY <3>1, UncountedFinite
    <3>3. /\ scan'[r].nth = nth_scan_request
          /\ \A q \in Readers \ {r} : scan'[q] = scan[q] /\ pc'[q] = pc[q]
          /\ pc'[r] = "made"
      BY <2>2 DEF MakeScan, At, TypeOK
    <3>4. UNCHANGED <<nth_scan_request, loaded, asked>> BY <2>2 DEF MakeScan
    <3> QED BY <1>0, <3>2, <3>3, <3>4 DEF Numbers, NumbersRun
  <2>3. CASE LoadCount(r)
    <3>1. Uncounted' = Uncounted BY <2>3 DEF LoadCount, At, Uncounted, TypeOK
    <3>2. size' = size BY <3>1
    <3>3. UNCHANGED <<nth_scan_request, scan, asked>> BY <2>3 DEF LoadCount
    <3>4. PICK n \in {scan[r].nth, nth_scan_request} : loaded' = [loaded EXCEPT ![r] = n]
      BY <2>3 DEF LoadCount
    <3>5. /\ pc[r] = "made" /\ pc'[r] = "counting" /\ loaded'[r] = n
          /\ \A q \in Readers \ {r} : loaded'[q] = loaded[q] /\ pc'[q] = pc[q]
      BY <2>3, <3>4 DEF LoadCount, At, TypeOK
    <3>6. n + size <= asked BY <3>5 DEF Numbers, NumbersRun
    <3> QED BY <1>0, <3>2, <3>3, <3>5, <3>6 DEF Numbers, NumbersRun
  <2>4. CASE StoreCount(r)
    <3>1. Uncounted' = Uncounted \ {r} /\ r \in Uncounted
      BY <2>4 DEF StoreCount, At, Uncounted, TypeOK
    <3>2. size' = size - 1 BY <3>1, UncountedFinite, FS_RemoveElement
    <3>3. UNCHANGED <<scan, loaded, asked>> /\ nth_scan_request' = loaded[r] + 1
      BY <2>4 DEF StoreCount
    <3>4. /\ pc[r] = "counting" /\ pc'[r] = "sleeping"
          /\ \A q \in Readers \ {r} : pc'[q] = pc[q]
      BY <2>4 DEF StoreCount, At, TypeOK
    <3>5. loaded[r] + size <= asked BY <3>4 DEF Numbers
    <3>6. \A q \in Readers : scan[q].nth \in Nat /\ loaded[q] \in Nat BY DEF TypeOK
    <3> HIDE DEF size
    <3>7. (nth_scan_request + size <= asked)' BY <1>0, <3>2, <3>3, <3>5, <3>6
    <3>8. ASSUME NEW q \in Readers
          PROVE  /\ pc'[q] \in {"made", "counting", "sleeping"} => scan'[q].nth < asked'
                 /\ pc'[q] = "made" => scan'[q].nth + size' <= asked'
                 /\ pc'[q] = "counting" => loaded'[q] + size' <= asked'
      BY <1>0, <3>2, <3>3, <3>4, <3>6 DEF size, Numbers, NumbersRun
    <3> QED BY <3>7, <3>8 DEF size, Numbers, NumbersRun
  <2>5. CASE Wake(r)
    <3>1. Uncounted' = Uncounted BY <2>5 DEF Wake, At, Uncounted, TypeOK
    <3>2. size' = size BY <3>1
    <3>3. /\ UNCHANGED <<nth_scan_request, scan, loaded, asked>>
          /\ pc'[r] = "idle" /\ \A q \in Readers \ {r} : pc'[q] = pc[q]
      BY <2>5 DEF Wake, At, TypeOK
    <3> QED BY <1>0, <3>2, <3>3 DEF Numbers, NumbersRun
  <2>6. CASE CountSamples(r)
    <3>1. Uncounted' = Uncounted BY <2>6 DEF CountSamples, At, Uncounted, TypeOK
    <3>2. size' = size BY <3>1
    <3>3. /\ UNCHANGED <<nth_scan_request, loaded, asked>> /\ pc'[r] = "sized"
          /\ \A q \in Readers \ {r} : pc'[q] = pc[q] /\ scan'[q] = scan[q]
      BY <2>6 DEF CountSamples, At, TypeOK
    <3> QED BY <1>0, <3>2, <3>3 DEF Numbers, NumbersRun
  <2> QED BY <1>2, <2>1, <2>2, <2>3, <2>4, <2>5, <2>6 DEF sweep_device_get_scan
<1>3. CASE BeginCall
  <2>1. UNCHANGED <<nth_scan_request, pc, scan, loaded, asked>> BY <1>3, Zenon DEF BeginCall, Begin
  <2> QED BY <2>1, <1>1
<1>4. CASE EndCall
  <2>1. UNCHANGED <<pc, scan, loaded, asked>> /\ nth_scan_request' \in {0, nth_scan_request}
    BY <1>4 DEF EndCall, Return, sweep_device_construct, sweep_device_start_scanning,
         sweep_device_stop_scanning, sweep_device_destruct, sweep_device_set_motor_speed,
         sweep_device_set_sample_rate, sweep_device_get
  <2> QED BY <2>1, <1>1
<1>5. CASE UNCHANGED vars BY <1>5, <1>1 DEF vars
<1> QED BY <1>2, <1>3, <1>4, <1>5 DEF Next

\* However readers race on nth_scan_request, numbers repeat at worst
\* (dummy.cc 123-125).
THEOREM NumbersNeverRunAhead == Spec => []NumbersRun
<1>1. Inv /\ Numbers /\ [Next]_vars => Numbers' BY NumbersNext
<1>2. Numbers => NumbersRun BY DEF Numbers
<1> QED BY Invariant, NumbersInit, <1>1, <1>2, PTL DEF Spec

(* ---- the refinement ---- *)

LEMMA ImplementsInit == Init => Promise!Init
BY DEF Init, Phase, Offered, Waiting, Promise!Init

LEMMA ImplementsCall == Inv /\ (BeginCall \/ EndCall) => Promise!Next
<1> SUFFICES ASSUME Inv, BeginCall \/ EndCall PROVE Promise!Next
  OBVIOUS
<1> USE DEF Inv, Phase, Offered, Waiting
<1>1. CASE BeginCall
  <2>1. UNCHANGED <<Phase, sessions, Offered, Waiting>>
    <3>1. UNCHANGED <<object, is_scanning, sessions, pc>>
      BY <1>1, Zenon DEF BeginCall, Begin, device
    <3> QED BY <3>1
  <2>2. \/ call' = "construct" /\ object = "none"
        \/ call' = "start" /\ Quiescent
        \/ call' = "stop" /\ object = "live"
        \/ call' = "destruct" /\ object = "live" /\ Nobody
        \/ call' \in {"set_motor_speed", "MI", "MZ", "LI", "LR", "RR"} /\ Quiescent
    BY <1>1, Zenon DEF BeginCall, Begin
  <2>3. call = "none" BY <1>1, Zenon DEF BeginCall, Begin
  <2>4. /\ object = "live" => Phase \in {"idle", "scanning"}
        /\ Quiescent => Phase = "idle"
        /\ object = "none" => Phase = "none"
        /\ Nobody => Waiting = {}
    BY DEF Quiescent, Nobody
  <2>5. PICK c \in {"set_motor_speed", "MI", "MZ", "LI", "LR", "RR"}
                  \cup {"construct", "start", "stop", "destruct"} : call' = c
    BY <2>2
  <2>6. Promise!Allowed(c)
    BY <2>2, <2>4, <2>5 DEF Promise!Allowed, Promise!Settings, Quiescent
  <2>7. Promise!Begin(c) BY <2>1, <2>3, <2>5, <2>6 DEF Promise!Begin
  <2> QED BY <2>5, <2>7 DEF Promise!Next, Promise!Settings
<1>2. CASE sweep_device_construct
  <2>1. Promise!Constructed
    BY <1>2 DEF sweep_device_construct, Return, CallAllowed, Promise!Constructed, Promise!End
  <2> QED BY <2>1 DEF Promise!Next
<1>3. CASE sweep_device_start_scanning
  <2>1. Promise!Started
    BY <1>3 DEF sweep_device_start_scanning, Return, CallAllowed, Promise!Started, Promise!End
  <2> QED BY <2>1 DEF Promise!Next
<1>4. CASE sweep_device_stop_scanning
  <2>1. Promise!Stopped
    BY <1>4 DEF sweep_device_stop_scanning, Return, CallAllowed, Promise!Stopped, Promise!End
  <2> QED BY <2>1 DEF Promise!Next
<1>5. CASE sweep_device_destruct
  <2>1. Promise!Destructed
    BY <1>5 DEF sweep_device_destruct, Return, CallAllowed, Promise!Destructed, Promise!End
  <2> QED BY <2>1 DEF Promise!Next
<1>6. CASE sweep_device_set_motor_speed \/ sweep_device_set_sample_rate \/ sweep_device_get
  <2>1. Promise!Configured
    BY <1>6 DEF sweep_device_set_motor_speed, sweep_device_set_sample_rate, sweep_device_get,
         device, Return, Promise!Configured, Promise!End, Promise!Settings
  <2> QED BY <2>1 DEF Promise!Next
<1> QED BY <1>1, <1>2, <1>3, <1>4, <1>5, <1>6 DEF EndCall

LEMMA ImplementsGetScan ==
  ASSUME Inv, NEW r \in Readers, sweep_device_get_scan(r)
  PROVE  Promise!Next \/ UNCHANGED Promise!svars
<1> USE DEF Inv
<1>1. UNCHANGED <<object, is_scanning, sessions, call>>
  BY Zenon DEF sweep_device_get_scan, Ask, CountSamples, MakeScan, LoadCount, StoreCount, Wake,
        device
<1>2. UNCHANGED <<Phase, Offered>> BY <1>1 DEF Phase, Offered
<1>3. CASE Ask(r)
  <2>1. Waiting' = Waiting \cup {r} /\ r \notin Waiting
    BY <1>3 DEF Ask, At, Waiting, TypeOK
  <2>2. Phase = "scanning" /\ call \notin {"construct", "destruct"} BY <1>3 DEF Ask, Phase
  <2>3. Promise!Ask(r)
    BY <1>1, <1>2, <2>1, <2>2 DEF Promise!Ask, Phase, Offered, Waiting
  <2> QED BY <2>3 DEF Promise!Next
<1>4. CASE CountSamples(r)
  <2>1. Waiting' = Waiting \ {r} /\ r \in Waiting
    BY <1>4 DEF CountSamples, At, Waiting, TypeOK
  <2>2. CASE Offered # {}
    <3>1. Promise!Deliver(r)
      BY <1>1, <1>2, <2>1, <2>2 DEF Promise!Deliver, Phase, Offered, Waiting
    <3> QED BY <3>1 DEF Promise!Next
  <2>3. CASE Offered = {}
    <3>1. Phase # "scanning" BY <2>3 DEF Offered, Phase, TypeOK
    <3>2. Promise!Leave(r)
      BY <1>1, <1>2, <2>1, <3>1 DEF Promise!Leave, Phase, Offered, Waiting
    <3> QED BY <3>2 DEF Promise!Next
  <2> QED BY <2>2, <2>3
<1>5. CASE MakeScan(r) \/ LoadCount(r) \/ StoreCount(r) \/ Wake(r)
  <2>1. UNCHANGED Waiting
    BY <1>5 DEF MakeScan, LoadCount, StoreCount, Wake, At, Waiting, TypeOK
  <2> QED BY <1>1, <1>2, <2>1 DEF Promise!svars, Phase, Offered, Waiting
<1> QED BY <1>3, <1>4, <1>5 DEF sweep_device_get_scan

\* The dummy library keeps the promise of the API (dummy.cc 86-141).
THEOREM ImplementsSession == Spec => SessionSpec
<1>1. Inv /\ [Next]_vars => [Promise!Next]_(Promise!svars)
  <2> SUFFICES ASSUME Inv, [Next]_vars PROVE Promise!Next \/ UNCHANGED Promise!svars
    BY DEF Promise!svars
  <2>1. CASE BeginCall \/ EndCall BY <2>1, ImplementsCall
  <2>2. CASE \E r \in Readers : sweep_device_get_scan(r) BY <2>2, ImplementsGetScan
  <2>3. CASE UNCHANGED vars BY <2>3 DEF vars, device, Phase, Offered, Waiting, Promise!svars
  <2> QED BY <2>1, <2>2, <2>3 DEF Next
<1> QED BY Invariant, ImplementsInit, <1>1, PTL DEF Spec, SessionSpec, Promise!Spec
==============================================================================
