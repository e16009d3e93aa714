------------------------------ MODULE Wrappers -------------------------------
(***************************************************************************)
(* The two object-oriented wrappers of libsweep whose methods are one call *)
(* of the C interface each, and turn its errors into exceptions: the C++   *)
(* header sweep.hpp and the Java class SweepDevice.  They differ in who    *)
(* owns what.                                                              *)
(*                                                                         *)
(* C++: each call has a temporary of its own for the error; its destructor *)
(* takes the message, destructs the error and throws.  Device and scan are *)
(* in a unique_ptr.                                                        *)
(*                                                                         *)
(* Java: each thread has one ErrorReturnJNA for all its calls.  JNA writes *)
(* the pointer in it to native memory before a call and reads it back      *)
(* afterwards; libsweep stores into it in case of an error only.  The      *)
(* device is destructed by close(), a scan never.                          *)
(***************************************************************************)
EXTENDS Naturals, FiniteSets

CONSTANTS Threads,       \* the threads of the client
          MaxErrors,     \* bound: how many errors libsweep constructs
          MaxScans,      \* bound: no scan is fetched while so many exist
          StopMayFail,   \* may construct return a device and an error?
          GoesOn         \* does a Java thread go on after an exception?

ASSUME WrapperAssumption ==
  /\ IsFiniteSet(Threads)
  /\ {MaxErrors, MaxScans} \subseteq Nat
  /\ {StopMayFail, GoesOn} \subseteq BOOLEAN

Null == 0
Errors == 1 .. MaxErrors

VARIABLES binding,   \* "cpp" or "java"
          object,    \* the wrapper: "none", "building" or "ready"
          devices,   \* how many sweep_device_s there are
          scans,     \* how many sweep_scan_s
          created,   \* how many errors have been constructed
          live,      \* those not destructed yet
          pc,        \* where each thread is in a method
          method,    \* which: "construct", "get_scan", or another
          returned,  \* has the call of libsweep returned an object?
          failed,    \* has it reported an error?
          slot,      \* the sweep_error_s* of the call
          raised     \* has a method of this thread thrown?

library == <<devices, scans, created, live>>
local == <<method, returned, failed, slot, raised>>
vars == <<binding, object, library, pc, local>>

Init ==
  /\ binding \in {"cpp", "java"}
  /\ object = "none" /\ devices = 0 /\ scans = 0 /\ created = 0 /\ live = {}
  /\ pc = [t \in Threads |-> "idle"] /\ method = [t \in Threads |-> "other"]
  /\ returned = [t \in Threads |-> FALSE] /\ failed = [t \in Threads |-> FALSE]
  /\ slot = [t \in Threads |-> Null] /\ raised = [t \in Threads |-> FALSE]

-----------------------------------------------------------------------------
\* The error argument: a temporary, or the slot of the thread as it is.
\* Bug: one error_to_exception for all calls.
KeptArgument(t) == slot' = slot

ErrorArgument(t) ==
  slot' = IF binding = "cpp" THEN [slot EXCEPT ![t] = Null] ELSE slot

Enter(t, m) ==
  /\ pc[t] = "idle" /\ pc' = [pc EXCEPT ![t] = "inside"]
  /\ binding = "java" /\ raised[t] => GoesOn
  /\ method' = [method EXCEPT ![t] = m]
  /\ returned' = [returned EXCEPT ![t] = FALSE]
  /\ ErrorArgument(t)
  /\ UNCHANGED <<binding, library, failed, raised>>

Construct(t) == Enter(t, "construct") /\ object = "none" /\ object' = "building"

\* checkHandle: after close there is no handle.
Method(t) ==
  /\ object = "ready"
  /\ \/ Enter(t, "other")
     \/ Enter(t, "get_scan") /\ scans < MaxScans
  /\ UNCHANGED object

\* libsweep: an object, an error, or a device whose first stop failed.
Returns(t, object_, error) ==
  /\ pc[t] = "inside" /\ pc' = [pc EXCEPT ![t] = "check"]
  /\ returned' = [returned EXCEPT ![t] = object_]
  /\ failed' = [failed EXCEPT ![t] = error]
  /\ devices' = devices + IF object_ /\ method[t] = "construct" THEN 1 ELSE 0
  /\ scans' = scans + IF object_ /\ method[t] = "get_scan" THEN 1 ELSE 0
  /\ \/ /\ error /\ created < MaxErrors
        /\ created' = created + 1 /\ live' = live \cup {created + 1}
        /\ slot' = [slot EXCEPT ![t] = created + 1]
     \/ ~error /\ UNCHANGED <<created, live, slot>>
  /\ UNCHANGED <<binding, object, method, raised>>

LibraryCall(t) ==
  \/ Returns(t, method[t] # "other", FALSE)
  \/ Returns(t, FALSE, TRUE)
  \/ StopMayFail /\ method[t] = "construct" /\ Returns(t, TRUE, TRUE)

-----------------------------------------------------------------------------
Goto(t, there) == pc' = [pc EXCEPT ![t] = there]

\* maybeThrow, ~error_to_exception: no error, the method goes on.
NoError(t) ==
  /\ pc[t] = "check" /\ slot[t] = Null
  /\ Goto(t, IF method[t] = "get_scan" THEN "copy" ELSE "idle")
  /\ object' = IF method[t] = "construct" THEN "ready" ELSE object
  /\ UNCHANGED <<binding, library, local>>

\* sweep_error_message; the exception has a copy of it.
Message(t) ==
  /\ pc[t] = "check" /\ slot[t] # Null /\ Goto(t, "message")
  /\ UNCHANGED <<binding, object, library, local>>

DestructError(t) ==
  /\ pc[t] = "message" /\ Goto(t, "throw")
  /\ live' = live \ {slot[t]}
  /\ UNCHANGED <<binding, object, devices, scans, created, local>>

\* The exception leaves the method.  What a unique_ptr holds is destructed: a
\* device whose construct reported an error, too.
Unwinds(t, m) == binding = "cpp" /\ returned[t] /\ method[t] = m

\* Bug: the device is put into its unique_ptr only once there is no error.
ThrowReleasingNothing(t) ==
  /\ pc[t] = "throw" /\ Goto(t, "idle")
  /\ raised' = [raised EXCEPT ![t] = TRUE]
  /\ object' = IF method[t] = "construct" THEN "none" ELSE object
  /\ UNCHANGED <<binding, library, method, returned, failed, slot>>

\* Bug: what was not returned is destructed, too.
ThrowReleasingAll(t) ==
  /\ pc[t] = "throw" /\ Goto(t, "idle")
  /\ raised' = [raised EXCEPT ![t] = TRUE]
  /\ object' = IF method[t] = "construct" THEN "none" ELSE object
  /\ devices' = devices - IF method[t] = "construct" THEN 1 ELSE 0
  /\ scans' = scans - IF method[t] = "get_scan" THEN 1 ELSE 0
  /\ UNCHANGED <<binding, created, live, method, returned, failed, slot>>

Throw(t) ==
  /\ pc[t] = "throw" /\ Goto(t, "idle")
  /\ raised' = [raised EXCEPT ![t] = TRUE]
  /\ object' = IF method[t] = "construct" THEN "none" ELSE object
  /\ devices' = devices - IF Unwinds(t, "construct") THEN 1 ELSE 0
  /\ scans' = scans - IF Unwinds(t, "get_scan") THEN 1 ELSE 0
  /\ UNCHANGED <<binding, created, live, method, returned, failed, slot>>

\* The samples are copied; the unique_ptr destructs the scan, Java does not.
CopySamples(t) ==
  /\ pc[t] = "copy" /\ Goto(t, "idle")
  /\ scans' = scans - IF binding = "cpp" THEN 1 ELSE 0
  /\ UNCHANGED <<binding, object, devices, created, live, local>>

\* The destructor, or close, when no other method is under way.  It takes no error
\* argument, and try-with-resources calls it after an exception, too.
Close(t) ==
  /\ object = "ready" /\ \A u \in Threads : pc[u] = "idle"
  /\ object' = "none" /\ devices' = devices - 1
  /\ UNCHANGED <<binding, scans, created, live, pc, local>>

Next == \E t \in Threads : \/ Construct(t) \/ Method(t) \/ LibraryCall(t)
                           \/ NoError(t) \/ Message(t) \/ DestructError(t) \/ Throw(t)
                           \/ CopySamples(t) \/ Close(t)

Spec == Init /\ [][Next]_vars

-----------------------------------------------------------------------------
\* The shape of the state.
TypeOK ==
  /\ binding \in {"cpp", "java"} /\ object \in {"none", "building", "ready"}
  /\ {devices, scans} \subseteq Nat /\ created \in 0 .. MaxErrors
  /\ live \in SUBSET (1 .. created)
  /\ pc \in [Threads -> {"idle", "inside", "check", "message", "throw", "copy"}]
  /\ method \in [Threads -> {"construct", "get_scan", "other"}]
  /\ returned \in [Threads -> BOOLEAN] /\ failed \in [Threads -> BOOLEAN]
  /\ raised \in [Threads -> BOOLEAN] /\ slot \in [Threads -> 0 .. created]

\* An error whose message is taken and that is destructed exists, and is nobody
\* else's: it is neither destructed twice nor by two threads.
ErrorsLive ==
  \A t \in Threads : pc[t] \in {"check", "message"} /\ slot[t] # Null =>
    /\ slot[t] \in live
    /\ \A u \in Threads : u # t /\ pc[u] \in {"check", "message"} => slot[u] # slot[t]

\* A method throws if libsweep has reported an error in this call, and only then.
ThrowsWhatFailed ==
  \A t \in Threads : /\ pc[t] \in {"message", "throw"} => failed[t]
                     /\ pc[t] = "copy" => ~failed[t] /\ returned[t]

\* Nothing is left behind, whatever fails: errors are destructed by the method
\* that met them; in C++ there are no more scans and devices than the methods
\* under way and the wrapper hold, and in Java no fewer.
Holding(m) == {t \in Threads : method[t] = m /\ returned[t] /\ pc[t] \notin {"idle", "inside"}}

NothingLeftBehind ==
  /\ live = {slot[t] : t \in {u \in Threads : failed[u] /\ pc[u] \in {"check", "message"}}}
  /\ LET wrapped == Cardinality(Holding("construct")) + IF object = "ready" THEN 1 ELSE 0
         fetched == Cardinality(Holding("get_scan"))
     IN  IF binding = "cpp" THEN devices = wrapped /\ scans = fetched
         ELSE devices >= wrapped /\ scans >= fetched
==============================================================================
