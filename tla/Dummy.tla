-------------------------------- MODULE Dummy --------------------------------
(***************************************************************************)
(* libsweep/src/dummy.cc: the library that is built instead of the real    *)
(* one to test the bindings without a device.  There is no lock in it and  *)
(* no atomic variable: the client and the readers use the fields of the    *)
(* device as they come, so each access is a step of its own.               *)
(*                                                                         *)
(* To its callers it is what Session promises, and thereby what the real   *)
(* library is to them.  Its scan is made on request, and the reader        *)
(* sleeps before it returns.                                               *)
(***************************************************************************)
EXTENDS Naturals, FiniteSets

CONSTANTS Readers,         \* threads that call get_scan
          Speeds, Rates,   \* bound: the motor speeds and sample rates that are set
          MaxSessions,     \* bound: how often scanning is started
          MaxScans         \* bound: how many scans are asked for

ASSUME DummyAssumption ==
  /\ IsFiniteSet(Readers)
  /\ {MaxSessions, MaxScans} \subseteq Nat
  /\ Speeds \subseteq 0 .. 10 /\ Rates \subseteq {500, 750, 1000}

VARIABLES object,            \* the sweep_device: "none", "live" or "freed"
          is_scanning, motor_speed, sample_rate, nth_scan_request,
          call,              \* the client's call under way, or "none"
          sessions,          \* how often scanning has been started
          pc,                \* where each reader is in get_scan
          scan,              \* the sweep_scan it has got: its number of samples and nth
          loaded,            \* the nth_scan_request it is about to add 1 to
          asked              \* how many scans have been asked for

device == <<object, is_scanning, motor_speed, sample_rate, sessions>>
vars == <<device, nth_scan_request, call, pc, scan, loaded, asked>>

Init ==
  /\ object = "none" /\ is_scanning = FALSE /\ motor_speed = 0 /\ sample_rate = 0
  /\ nth_scan_request = 0 /\ call = "none" /\ sessions = 0 /\ asked = 0
  /\ pc = [r \in Readers |-> "idle"]
  /\ scan = [r \in Readers |-> [count |-> 0, nth |-> 0]]
  /\ loaded = [r \in Readers |-> 0]

-----------------------------------------------------------------------------
\* A call of the client: it begins under the assertions of the function, and
\* ends with what the function does.
Begin(c, allowed) ==
  /\ call = "none" /\ allowed
  /\ call' = c
  /\ UNCHANGED <<device, nth_scan_request, pc, scan, loaded, asked>>

Quiescent == object = "live" /\ ~is_scanning
Nobody == \A r \in Readers : pc[r] = "idle"

BeginCall ==
  \/ Begin("construct", object = "none")
  \/ Begin("start", Quiescent /\ sessions < MaxSessions)
  \/ Begin("stop", object = "live")
  \/ Begin("destruct", object = "live" /\ Nobody)
  \/ \E c \in {"set_motor_speed", "MI", "MZ", "LI", "LR", "RR"} : Begin(c, Quiescent)

Return(c) == call = c /\ call' = "none" /\ UNCHANGED <<pc, scan, loaded, asked>>

sweep_device_construct ==
  /\ Return("construct")
  /\ object' = "live" /\ is_scanning' = FALSE
  /\ motor_speed' = 5 /\ sample_rate' = 500 /\ nth_scan_request' = 0
  /\ UNCHANGED sessions

sweep_device_start_scanning ==
  /\ Return("start")
  /\ is_scanning' = TRUE /\ sessions' = sessions + 1
  /\ UNCHANGED <<object, motor_speed, sample_rate, nth_scan_request>>

sweep_device_stop_scanning ==
  /\ Return("stop")
  /\ is_scanning' = FALSE
  /\ UNCHANGED <<object, motor_speed, sample_rate, nth_scan_request, sessions>>

sweep_device_destruct ==
  /\ Return("destruct")
  /\ object' = "freed"
  /\ UNCHANGED <<is_scanning, motor_speed, sample_rate, nth_scan_request, sessions>>

sweep_device_set_motor_speed ==
  /\ Return("set_motor_speed")
  /\ motor_speed' \in Speeds
  /\ UNCHANGED <<object, is_scanning, sample_rate, nth_scan_request, sessions>>

sweep_device_set_sample_rate ==
  /\ Return("LR")
  /\ sample_rate' \in Rates
  /\ UNCHANGED <<object, is_scanning, motor_speed, nth_scan_request, sessions>>

\* get_motor_speed, get_motor_ready, get_sample_rate and reset change nothing.
sweep_device_get ==
  \E c \in {"MI", "MZ", "LI", "RR"} :
    Return(c) /\ UNCHANGED <<device, nth_scan_request>>

EndCall ==
  \/ sweep_device_construct \/ sweep_device_start_scanning \/ sweep_device_stop_scanning
  \/ sweep_device_destruct \/ sweep_device_set_motor_speed \/ sweep_device_set_sample_rate
  \/ sweep_device_get

-----------------------------------------------------------------------------
\* A reader in sweep_device_get_scan.
At(r, here, there) == pc[r] = here /\ pc' = [pc EXCEPT ![r] = there]

\* Bug: the assertion on is_scanning is missing.
AskAnytime(r) ==
  /\ At(r, "idle", "asked")
  /\ object = "live" /\ call \notin {"construct", "destruct"}
  /\ asked < MaxScans /\ asked' = asked + 1
  /\ UNCHANGED <<device, nth_scan_request, call, scan, loaded>>

Ask(r) ==
  /\ At(r, "idle", "asked")
  /\ object = "live" /\ is_scanning /\ call \notin {"construct", "destruct"}
  /\ asked < MaxScans /\ asked' = asked + 1
  /\ UNCHANGED <<device, nth_scan_request, call, scan, loaded>>

\* The number of samples depends on is_scanning once more.
CountSamples(r) ==
  /\ At(r, "asked", "sized")
  /\ scan' = [scan EXCEPT ![r].count = IF is_scanning THEN 16 ELSE 0]
  /\ UNCHANGED <<device, nth_scan_request, call, loaded, asked>>

MakeScan(r) ==
  /\ At(r, "sized", "made")
  /\ scan' = [scan EXCEPT ![r].nth = nth_scan_request]
  /\ UNCHANGED <<device, nth_scan_request, call, loaded, asked>>

\* Bug: a request counts twice.
CountTwice(r) ==
  /\ At(r, "counting", "sleeping")
  /\ nth_scan_request' = nth_scan_request + 2
  /\ UNCHANGED <<device, call, scan, loaded, asked>>

\* nth_scan_request += 1 is a load and a store, and the compiler may have kept
\* what it has loaded before.
LoadCount(r) ==
  /\ At(r, "made", "counting")
  /\ loaded' \in {[loaded EXCEPT ![r] = n] : n \in {scan[r].nth, nth_scan_request}}
  /\ UNCHANGED <<device, nth_scan_request, call, scan, asked>>

StoreCount(r) ==
  /\ At(r, "counting", "sleeping")
  /\ nth_scan_request' = loaded[r] + 1
  /\ UNCHANGED <<device, call, scan, loaded, asked>>

Wake(r) ==
  /\ At(r, "sleeping", "idle")
  /\ UNCHANGED <<device, nth_scan_request, call, scan, loaded, asked>>

sweep_device_get_scan(r) ==
  \/ Ask(r) \/ CountSamples(r) \/ MakeScan(r) \/ LoadCount(r) \/ StoreCount(r) \/ Wake(r)

Next == BeginCall \/ EndCall \/ \E r \in Readers : sweep_device_get_scan(r)

Spec == Init /\ [][Next]_vars

-----------------------------------------------------------------------------
\* The shape of the state.
TypeOK ==
  /\ object \in {"none", "live", "freed"} /\ is_scanning \in BOOLEAN
  /\ motor_speed \in Speeds \cup {0, 5} /\ sample_rate \in Rates \cup {0, 500}
  /\ call \in {"none", "construct", "start", "stop", "destruct",
               "set_motor_speed", "MI", "MZ", "LI", "LR", "RR"}
  /\ sessions \in 0 .. MaxSessions /\ asked \in 0 .. MaxScans
  /\ nth_scan_request \in Nat
  /\ pc \in [Readers -> {"idle", "asked", "sized", "made", "counting", "sleeping"}]
  /\ scan \in [Readers -> [count : {0, 16}, nth : Nat]]
  /\ loaded \in [Readers -> Nat]

\* Readers that race on the counter may lose updates and repeat numbers, but
\* invent none: the counter and the numbers of the scans stay within the scans
\* whose request has been counted.
Uncounted == {r \in Readers : pc[r] \in {"asked", "sized", "made", "counting"}}

NumbersRun ==
  /\ nth_scan_request + Cardinality(Uncounted) <= asked
  /\ \A r \in Readers : pc[r] \in {"made", "counting", "sleeping"} => scan[r].nth < asked

\* To its callers the dummy library is what the real one is: no scan is made for
\* them before a start or after a stop, and what they get is of this session.
Phase == CASE object = "none" -> "none"
           [] object = "freed" -> "freed"
           [] OTHER -> IF is_scanning THEN "scanning" ELSE "idle"
Offered == IF object = "live" /\ is_scanning THEN {sessions} ELSE {}
Waiting == {r \in Readers : pc[r] = "asked"}

Promise == INSTANCE Session WITH
  phase <- Phase, failed <- FALSE, session <- sessions, offered <- Offered, waiting <- Waiting

SessionSpec == Promise!Spec
==============================================================================
