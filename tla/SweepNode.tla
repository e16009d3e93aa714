----------------------------- MODULE SweepNode ------------------------------
(***************************************************************************)
(* The Node.js binding, sweepjs/sweepjs.cc.  JavaScript runs in one thread *)
(* and calls startScanning and stopScanning there; scan(callback) hands an *)
(* AsyncScanWorker to the thread pool, where it waits in get_scan, and     *)
(* whose callback runs in the JavaScript thread again.  The wrapped object *)
(* and the workers share the device through a shared_ptr: whoever drops it *)
(* last destructs the device.                                              *)
(*                                                                         *)
(* libsweep is modelled by what the binding sees of it: is_scanning, the   *)
(* queue of scans (numbered, 0 is the exception of a dead worker), and     *)
(* whether more of them will come.  After sweep_device_construct a device  *)
(* exists in spite of an error if the stop inside of it failed.            *)
(* The calls that only configure the device are left out.                  *)
(***************************************************************************)
EXTENDS Naturals, Sequences, FiniteSets

CONSTANTS MaxRequests,     \* bound: calls of scan
          MaxStarts,       \* bound: calls of startScanning
          MaxReady,        \* capacity of the queue of the device, 20 in the source
          MaxScans,        \* bound: no scan is dropped once so many have been made
          Threads,         \* size of the thread pool, 4 unless configured
          LibraryMayFail,  \* may libsweep set errors, and its worker die?
          StopMayFail      \* may the stop inside of sweep_device_construct fail?

ASSUME NodeAssumption ==
  /\ {MaxRequests, MaxStarts, MaxScans} \subseteq Nat /\ {MaxReady, Threads} \subseteq Nat \ {0}
  /\ {LibraryMayFail, StopMayFail} \subseteq BOOLEAN

Requests == 1 .. MaxRequests
Wrap == 0        \* the wrapped object, as a holder of the device
Exception == 0   \* in the place of a scan

VARIABLES wrap,      \* the JavaScript object: "none", "live" or "collected"
          device,    \* the sweep_device: "none", "live" or "freed"
          holders,   \* who holds the shared_ptr
          scanning,  \* is_scanning
          feeding,   \* will the library queue scans?
          ready,     \* the scan queue
          scans, starts,
          request,   \* where each AsyncScanWorker is
          result,    \* the scan it got
          newest,    \* the newest scan a callback has seen
          seen,      \* the newest scan a callback had seen when the request was made
          aborted    \* has an assertion ended the process?

jsVars == <<wrap, starts, newest, seen>>
libVars == <<scanning, feeding, ready, scans>>
vars == <<jsVars, libVars, device, holders, request, result, aborted>>

Init == /\ wrap = "none" /\ device = "none" /\ holders = {}
        /\ scanning = FALSE /\ feeding = FALSE /\ ready = <<>> /\ scans = 0 /\ starts = 0
        /\ request = [r \in Requests |-> "none"] /\ result = [r \in Requests |-> Exception]
        /\ newest = 0 /\ seen = [r \in Requests |-> 0]
        /\ aborted = FALSE

InFlight == {r \in Requests : request[r] \in {"queued", "running", "ready"}}

-----------------------------------------------------------------------------
\* The JavaScript thread.
New ==
  /\ wrap = "none" /\ device = "none" /\ ~aborted
  /\ \/ wrap' = "live" /\ device' = "live" /\ holders' = {Wrap}
     \/ /\ LibraryMayFail \* the exception leaves the constructor before the device is wrapped
        /\ device' \in {"none"} \cup (IF StopMayFail THEN {"live"} ELSE {})
        /\ wrap' = "collected"
        /\ UNCHANGED holders
  /\ UNCHANGED <<libVars, starts, newest, seen, request, result, aborted>>

\* With an error scanning counts as started, though scans may not come.
startScanning ==
  /\ wrap = "live" /\ ~aborted /\ ~scanning /\ starts < MaxStarts
  /\ scanning' = TRUE /\ ready' = <<>> /\ starts' = starts + 1
  /\ feeding' \in {TRUE} \cup (IF LibraryMayFail THEN {FALSE} ELSE {})
  /\ UNCHANGED <<wrap, newest, seen, scans, device, holders, request, result, aborted>>

\* The worker of the library is stopped first; with an error scanning goes on counting as such.
stopScanning ==
  /\ wrap = "live" /\ ~aborted /\ scanning
  /\ feeding' = FALSE
  /\ scanning' \in {FALSE} \cup (IF LibraryMayFail THEN {TRUE} ELSE {})
  /\ UNCHANGED <<jsVars, ready, scans, device, holders, request, result, aborted>>

Request(r, sharers) ==
  /\ wrap = "live" /\ ~aborted /\ scanning
  /\ request[r] = "none" /\ \A q \in Requests : q < r => request[q] # "none"
  /\ request' = [request EXCEPT ![r] = "queued"]
  /\ holders' = holders \cup sharers
  /\ seen' = [seen EXCEPT ![r] = newest]
  /\ UNCHANGED <<wrap, starts, newest, libVars, device, result, aborted>>

\* Bug: the worker has the device without sharing it.
ScanUnshared(r) == Request(r, {})

scan(r) == Request(r, {r})

\* shared_ptr: the last holder destructs the device, which stops it.
Drop(h) ==
  /\ holders' = holders \ {h}
  /\ \/ holders' # {} /\ UNCHANGED <<device, libVars>>
     \/ /\ holders' = {} /\ device' = "freed"
        /\ scanning' = FALSE /\ feeding' = FALSE
        /\ UNCHANGED <<ready, scans>>

\* Bug: the object of the worker is not deleted.
CallbackLeaksWorker(r) ==
  /\ request[r] = "ready" /\ ~aborted
  /\ request' = [request EXCEPT ![r] = "closed"]
  /\ newest' = IF result[r] > newest THEN result[r] ELSE newest
  /\ UNCHANGED <<wrap, starts, seen, result, aborted, holders, device, libVars>>

\* HandleOKCallback copies the samples and calls back, or the error is passed
\* on; then the worker is deleted.
Callback(r) ==
  /\ request[r] = "ready" /\ ~aborted
  /\ request' = [request EXCEPT ![r] = "closed"]
  /\ newest' = IF result[r] > newest THEN result[r] ELSE newest
  /\ Drop(r)
  /\ UNCHANGED <<wrap, starts, seen, result, aborted>>

\* JavaScript drops the object and the garbage collector finds it.
Collect ==
  /\ wrap = "live" /\ ~aborted
  /\ wrap' = "collected"
  /\ Drop(Wrap)
  /\ UNCHANGED <<starts, newest, seen, request, result, aborted>>

-----------------------------------------------------------------------------
\* Bug: a thread is not given back to the pool.
ExecuteHoldingOn(r) ==
  /\ request[r] = "queued" /\ ~aborted
  /\ \A q \in Requests : request[q] = "queued" => r <= q
  /\ Cardinality({q \in Requests : request[q] \in {"running", "ready", "closed"}}) < Threads
  /\ \/ scanning /\ request' = [request EXCEPT ![r] = "running"] /\ UNCHANGED aborted
     \/ ~scanning /\ aborted' = TRUE /\ UNCHANGED request
  /\ UNCHANGED <<jsVars, libVars, device, holders, result>>

\* The thread pool takes requests in order; get_scan asserts that the device is scanning.
Execute(r) ==
  /\ request[r] = "queued" /\ ~aborted
  /\ \A q \in Requests : request[q] = "queued" => r <= q
  /\ Cardinality({q \in Requests : request[q] = "running"}) < Threads
  /\ \/ scanning /\ request' = [request EXCEPT ![r] = "running"] /\ UNCHANGED aborted
     \/ ~scanning /\ aborted' = TRUE /\ UNCHANGED request
  /\ UNCHANGED <<jsVars, libVars, device, holders, result>>

\* Bug: the newest scan of the queue is taken.
TakeNewest(r) ==
  /\ request[r] = "running" /\ ~aborted /\ ready # <<>>
  /\ request' = [request EXCEPT ![r] = "ready"]
  /\ result' = [result EXCEPT ![r] = ready[Len(ready)]]
  /\ ready' = SubSeq(ready, 1, Len(ready) - 1)
  /\ UNCHANGED <<jsVars, scanning, feeding, scans, device, holders, aborted>>

\* get_scan returns, AsyncScanWorker::Execute ends.
Take(r) ==
  /\ request[r] = "running" /\ ~aborted /\ ready # <<>>
  /\ request' = [request EXCEPT ![r] = "ready"]
  /\ result' = [result EXCEPT ![r] = Head(ready)]
  /\ ready' = Tail(ready)
  /\ UNCHANGED <<jsVars, scanning, feeding, scans, device, holders, aborted>>

\* enqueue: the oldest makes room at the capacity.
Enqueue(what) == ready' = Append(IF Len(ready) >= MaxReady THEN Tail(ready) ELSE ready, what)

\* The worker of the library queues a scan, or dies and queues its exception.
Feed ==
  /\ feeding /\ ~aborted
  /\ Len(ready) < MaxReady \/ scans < MaxScans
  /\ \/ Enqueue(scans + 1) /\ scans' = scans + 1 /\ UNCHANGED feeding
     \/ LibraryMayFail /\ Enqueue(Exception) /\ feeding' = FALSE /\ UNCHANGED scans
  /\ UNCHANGED <<jsVars, scanning, device, holders, request, result, aborted>>

JavaScript == New \/ startScanning \/ stopScanning \/ Collect \/ \E r \in Requests : scan(r)
Loop(r) == Execute(r) \/ Take(r) \/ Callback(r)

Next == JavaScript \/ Feed \/ \E r \in Requests : Loop(r)

\* The pool and the event loop run and the library delivers scans; JavaScript
\* need not call anything.
Spec == Init /\ [][Next]_vars
FairSpec == Spec /\ WF_vars(Feed) /\ \A r \in Requests : WF_vars(Loop(r))

-----------------------------------------------------------------------------
\* The shape of the state.
TypeOK ==
  /\ wrap \in {"none", "live", "collected"} /\ device \in {"none", "live", "freed"}
  /\ holders \subseteq {Wrap} \cup Requests
  /\ {scanning, feeding, aborted} \subseteq BOOLEAN
  /\ ready \in Seq(Nat) /\ Len(ready) <= MaxReady
  /\ scans \in Nat /\ starts \in 0 .. MaxStarts /\ newest \in 0 .. scans
  /\ request \in [Requests -> {"none", "queued", "running", "ready", "closed"}]
  /\ result \in [Requests -> 0 .. scans] /\ seen \in [Requests -> 0 .. scans]

\* The device is there as long as anyone may use it: the object, a request that
\* waits for a thread of the pool or for a scan.
DeviceOutlivesUse == wrap = "live" \/ InFlight # {} => device = "live"

\* When the object is gone and the last callback has been called, the device is
\* gone as well.
DeviceReleased == wrap = "collected" /\ InFlight = {} => device # "live"

\* However many requests are in flight: a callback sees a newer scan than every
\* callback that was called before its request was made.
NewerThanSeen ==
  \A r \in Requests :
    request[r] \in {"ready", "closed"} /\ result[r] # Exception => result[r] > seen[r]

\* A request is answered unless scanning stops, the library's worker dies or
\* the process is aborted.
RequestAnswered ==
  \A r \in Requests : request[r] = "queued" ~> (request[r] = "closed" \/ ~feeding \/ aborted)

\* No assertion of the library fails.
NeverAborts == ~aborted
=============================================================================
