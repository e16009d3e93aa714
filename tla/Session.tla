------------------------------- MODULE Session -------------------------------
(***************************************************************************)
(* What libsweep promises to the threads that share a device, without      *)
(* serial port, sensor, worker or queue: the API of sweep.h as its callers *)
(* see it.  One thread of the client makes the calls that change the       *)
(* device, others wait in get_scan.  sweep.cc (module SweepDevice) and the *)
(* dummy library (module Dummy) both implement this.                       *)
(***************************************************************************)
EXTENDS Naturals

CONSTANT Readers               \* the threads that call get_scan

VARIABLES phase,               \* "none", "idle", "scanning" or "freed"
          call,                \* the call under way, or "none"
          failed,              \* did the last call report an error?
          session,             \* how often scanning has been started
          offered,             \* sessions of the scans that get_scan may return
          waiting              \* the readers inside of get_scan

svars == <<phase, call, failed, session, offered, waiting>>

Init ==
  /\ phase = "none" /\ call = "none" /\ failed = FALSE
  /\ session = 0 /\ offered = {} /\ waiting = {}

Settings == {"set_motor_speed", "MI", "MZ", "LI", "LR", "RR"}

\* When a call may be made, by the assertions at its beginning.
Allowed(c) ==
  CASE c = "construct" -> phase = "none"
    [] c \in Settings \cup {"start"} -> phase = "idle"
    [] c = "stop" -> phase \in {"idle", "scanning"}
    [] c = "destruct" -> phase \in {"idle", "scanning"} /\ waiting = {}
    [] OTHER -> FALSE

Begin(c) ==
  /\ call = "none" /\ Allowed(c)
  /\ call' = c /\ failed' = FALSE
  /\ UNCHANGED <<phase, session, offered, waiting>>

End(c) == call = c /\ call' = "none" /\ failed' \in BOOLEAN

\* A construct that fails leaves nothing, or a device that counts as scanning.
Constructed ==
  /\ End("construct")
  /\ phase' \in IF failed' THEN {"none", "scanning"} ELSE {"idle"}
  /\ UNCHANGED <<session, offered, waiting>>

\* Scans of the session before are forgotten; an error keeps nothing from starting.
Forget ==
  /\ call = "start" /\ offered' = {}
  /\ UNCHANGED <<phase, call, failed, session, waiting>>

Started ==
  /\ End("start")
  /\ phase' = "scanning" /\ session' = session + 1
  /\ offered = {} /\ offered' \in SUBSET {session + 1}
  /\ UNCHANGED waiting

\* Scanning goes on after a stop that failed.  Scans that were not fetched may
\* stay or go.
Stopped ==
  /\ End("stop")
  /\ phase' = IF failed' THEN phase ELSE "idle"
  /\ offered' \in SUBSET offered
  /\ UNCHANGED <<session, waiting>>

Configured ==
  /\ \E c \in Settings : End(c)
  /\ UNCHANGED <<phase, session, offered, waiting>>

\* Destruct stops the device on its way.
Quiet ==
  /\ call = "destruct" /\ phase = "scanning"
  /\ phase' = "idle"
  /\ UNCHANGED <<call, failed, session, offered, waiting>>

Destructed ==
  /\ End("destruct")
  /\ phase' = "freed"
  /\ offered' \in SUBSET offered
  /\ UNCHANGED <<session, waiting>>

Ask(r) ==
  /\ phase = "scanning" /\ r \notin waiting /\ call \notin {"construct", "destruct"}
  /\ waiting' = waiting \cup {r}
  /\ UNCHANGED <<phase, call, failed, session, offered>>

\* Only while scanning does a scan become available, and it is of this session.
Offer ==
  /\ phase = "scanning"
  /\ offered' = {session}
  /\ UNCHANGED <<phase, call, failed, session, waiting>>

Deliver(r) ==
  /\ r \in waiting /\ offered # {}
  /\ waiting' = waiting \ {r}
  /\ offered' \in SUBSET offered
  /\ UNCHANGED <<phase, call, failed, session>>

\* A reader under whom scanning was stopped may return with nothing.
Leave(r) ==
  /\ r \in waiting /\ phase # "scanning"
  /\ waiting' = waiting \ {r}
  /\ UNCHANGED <<phase, call, failed, session, offered>>

Next == \/ \E c \in Settings \cup {"construct", "start", "stop", "destruct"} : Begin(c)
        \/ Constructed \/ Forget \/ Started \/ Stopped \/ Configured \/ Quiet \/ Destructed
        \/ Offer
        \/ \E r \in Readers : Ask(r) \/ Deliver(r) \/ Leave(r)

Spec == Init /\ [][Next]_svars
==============================================================================
