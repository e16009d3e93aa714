------------------------------ MODULE SweepPy -------------------------------
(***************************************************************************)
(* The Python binding, sweeppy/__init__.py, under the pipeline its         *)
(* documentation recommends, sweeppy/app.py: a Scanner thread puts the     *)
(* scans of the device into a queue, a SampleCounter thread takes them     *)
(* out, and a Timer tells the scanner to stop.                             *)
(*                                                                         *)
(* What libsweep returns is a choice: each call may set an error, if       *)
(* LibraryMayFail, and sweep_device_construct may do so and still return a *)
(* device, if StopMayFail: the one whose sweep_device_stop_scanning failed *)
(* (sweep.cc 217-222).  Scans are numbered; the binding owns the C objects *)
(* it was given and has not destructed.                                    *)
(***************************************************************************)
EXTENDS Naturals, Sequences

CONSTANTS MaxScans,        \* bound: the timer fires before more scans than that arrive
          LibraryMayFail,  \* may a call of libsweep set an error?
          StopMayFail,     \* may it be the stop inside of sweep_device_construct?
          Sentinel         \* None: the scanner puts no more scans

ASSUME PipelineAssumption ==
  /\ MaxScans \in Nat
  /\ {LibraryMayFail, StopMayFail} \subseteq BOOLEAN
  /\ Sentinel \notin Nat

VARIABLES scanner,   \* where the Scanner thread is in run()
          counter,   \* where the SampleCounter thread is
          done,      \* the event the timer sets
          fifo,      \* queue.Queue, unbounded
          scans,     \* how many scans the device has delivered
          printed,   \* how many scans the counter has counted
          owned      \* the C objects not destructed yet

vars == <<scanner, counter, done, fifo, scans, printed, owned>>

Init == /\ scanner = "enter" /\ counter = "get" /\ done = FALSE
        /\ fifo = <<>> /\ scans = 0 /\ printed = 0 /\ owned = {}

-----------------------------------------------------------------------------
\* _error_to_exception: the error is destructed and an exception raised.  It
\* leaves the with block, if the scanner is in it, through __exit__.
Raise(from, to) == LibraryMayFail /\ scanner = from /\ scanner' = to

\* __enter__: without an error the device belongs to the with block.
Enter ==
  /\ \/ scanner = "enter" /\ scanner' = "start" /\ owned' = {"device"}
     \/ Raise("enter", "raised") /\ owned' \in {{}} \cup (IF StopMayFail THEN {{"device"}} ELSE {})
  /\ UNCHANGED <<counter, done, fifo, scans, printed>>

StartScanning ==
  /\ \/ scanner = "start" /\ scanner' = "next"
     \/ Raise("start", "fail")
  /\ UNCHANGED <<counter, done, fifo, scans, printed, owned>>

\* get_scans, resumed: it waits for a scan of the library.
NextScan ==
  /\ \/ /\ scanner = "next" /\ (done \/ scans < MaxScans)
        /\ scanner' = "convert" /\ scans' = scans + 1 /\ owned' = owned \cup {"scan"}
     \/ Raise("next", "fail") /\ UNCHANGED <<scans, owned>>
  /\ UNCHANGED <<counter, done, fifo, printed>>

\* The samples are copied, the scan of the library is destructed, then yielded.
ConvertScan ==
  /\ scanner = "convert"
  /\ owned' = owned \ {"scan"}
  /\ scanner' = "put"
  /\ UNCHANGED <<counter, done, fifo, scans, printed>>

PutScan ==
  /\ scanner = "put" /\ ~done
  /\ fifo' = Append(fifo, scans)
  /\ scanner' = "next"
  /\ UNCHANGED <<counter, done, scans, printed, owned>>

\* Bug: the counter is not told.
NoSentinel ==
  /\ scanner = "put" /\ done
  /\ scanner' = "stop"
  /\ UNCHANGED <<counter, done, fifo, scans, printed, owned>>

\* The scan at hand is dropped, the counter told, the loop left.
PutSentinel ==
  /\ scanner = "put" /\ done
  /\ fifo' = Append(fifo, Sentinel)
  /\ scanner' = "stop"
  /\ UNCHANGED <<counter, done, scans, printed, owned>>

StopScanning ==
  /\ \/ scanner = "stop" /\ scanner' = "exit"
     \/ Raise("stop", "fail")
  /\ UNCHANGED <<counter, done, fifo, scans, printed, owned>>

\* Bug: an exception leaves the device behind.
ExitOnlyOrderly ==
  /\ scanner \in {"exit", "fail"}
  /\ owned' = IF scanner = "exit" THEN owned \ {"device"} ELSE owned
  /\ scanner' = IF scanner = "exit" THEN "ended" ELSE "raised"
  /\ UNCHANGED <<counter, done, fifo, scans, printed>>

\* __exit__, with or without an exception under way.
Exit ==
  /\ scanner \in {"exit", "fail"}
  /\ owned' = owned \ {"device"}
  /\ scanner' = IF scanner = "exit" THEN "ended" ELSE "raised"
  /\ UNCHANGED <<counter, done, fifo, scans, printed>>

Scanner == \/ Enter \/ StartScanning \/ NextScan \/ ConvertScan
           \/ PutScan \/ PutSentinel \/ StopScanning \/ Exit

\* Bug: the scan is counted but stays in the queue.
CountAgain ==
  /\ counter = "get" /\ fifo # <<>>
  /\ \/ Head(fifo) = Sentinel /\ counter' = "ended" /\ UNCHANGED printed
     \/ Head(fifo) # Sentinel /\ printed' = printed + 1 /\ UNCHANGED counter
  /\ UNCHANGED <<scanner, done, fifo, scans, owned>>

\* Bug: the event stops the counter as well as the scanner.
CountUntilDone ==
  /\ counter = "get" /\ fifo # <<>>
  /\ \/ done /\ counter' = "ended" /\ UNCHANGED <<fifo, printed>>
     \/ ~done /\ fifo' = Tail(fifo) /\ printed' = printed + 1 /\ UNCHANGED counter
  /\ UNCHANGED <<scanner, done, scans, owned>>

\* SampleCounter.run: blocks in get, counts a scan or breaks at the sentinel.
CountScan ==
  /\ counter = "get" /\ fifo # <<>>
  /\ \/ Head(fifo) = Sentinel /\ counter' = "ended" /\ UNCHANGED printed
     \/ Head(fifo) # Sentinel /\ printed' = printed + 1 /\ UNCHANGED counter
  /\ fifo' = Tail(fifo)
  /\ UNCHANGED <<scanner, done, scans, owned>>

TimerFires ==
  /\ ~done /\ done' = TRUE
  /\ UNCHANGED <<scanner, counter, fifo, scans, printed, owned>>

Next == Scanner \/ CountScan \/ TimerFires

\* Threads run, the timer fires and the device delivers scans.
Spec == Init /\ [][Next]_vars
FairSpec == Spec /\ WF_vars(Scanner) /\ WF_vars(CountScan) /\ WF_vars(TimerFires)

-----------------------------------------------------------------------------
\* The shape of the state: nothing is counted that was not delivered.
TypeOK ==
  /\ scanner \in {"enter", "start", "next", "convert", "put", "stop", "exit", "fail", "ended", "raised"}
  /\ counter \in {"get", "ended"}
  /\ done \in BOOLEAN
  /\ fifo \in Seq(Nat \cup {Sentinel})
  /\ scans \in Nat /\ printed \in 0 .. scans
  /\ owned \subseteq {"device", "scan"}

\* No scan is lost, counted twice or overtaken between the two threads, and
\* nothing follows the sentinel.
InOrder ==
  \A i \in 1 .. Len(fifo) :
    \/ fifo[i] = printed + i
    \/ fifo[i] = Sentinel /\ i = Len(fifo) /\ done

\* When the counter ends every scan has been counted, except the one that
\* arrived after the event was set.
CounterEndsDry == counter = "ended" => fifo = <<>> /\ printed + 1 = scans

NothingLost == InOrder /\ CounterEndsDry

\* A scanner that has ended, orderly or not, has destructed every C object.
Released == scanner \in {"ended", "raised"} => owned = {}

\* Once the timer has fired the counter ends too, unless an exception has ended
\* the scanner.
ShutsDown == done ~> (counter = "ended" \/ scanner = "raised")
=============================================================================
