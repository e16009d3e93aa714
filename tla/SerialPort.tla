----------------------------- MODULE SerialPort ------------------------------
(***************************************************************************)
(* The two serial ports, libsweep/src/unix/serial.cc and win/serial.cc:    *)
(* which handles of the operating system they hold, which a call that      *)
(* throws leaves behind, and whose bytes are whose when several threads    *)
(* read.  SerialLine has the port as the rest of the library sees it.      *)
(*                                                                         *)
(* On POSIX a read waits in select, without a timeout, and takes what is   *)
(* there, as often as it needs to.  On Windows the port is opened without  *)
(* FILE_FLAG_OVERLAPPED: a ReadFile has the port to itself and ends when   *)
(* it has all bytes or times out, so that ERROR_IO_PENDING, and with it    *)
(* waiting_on_read, never comes up.  The assertions after the read and the *)
(* write are compiled out, as otherwise the exceptions that follow them    *)
(* would not exist.                                                        *)
(*                                                                         *)
(* The bytes that arrive are numbered.                                     *)
(***************************************************************************)
EXTENDS Integers, Sequences, FiniteSets

CONSTANTS Threads,       \* those who read and write
          Lengths,       \* bound: the lengths of what is read or written
          MaxBytes,      \* bound: how many bytes arrive
          MaxErrors      \* bound: no call begins after so many exceptions

ASSUME PortAssumption ==
  /\ IsFiniteSet(Threads)
  /\ Lengths \subseteq Nat \ {0}
  /\ {MaxBytes, MaxErrors} \subseteq Nat

VARIABLES system,        \* "posix" or "windows"
          plugged,       \* is the device connected?
          object,        \* serial::device: "none", "building" or "live"
          step,          \* the next system call of device_construct
          handles,       \* how many of each kind the process has open
          thrown,        \* how many exceptions have been thrown
          hi,            \* bytes arrived
          unread,        \* those in the port's buffer
          dropped,       \* those a read had taken that then threw
          flushed,       \* those thrown away by a flush, or with the port
          delivered,     \* those a read has returned
          pc,            \* where each thread is
          want,          \* how many bytes it is to read or write
          buffer         \* the bytes it has read, or written, so far

port == <<system, object, step>>
fate == <<dropped, flushed, delivered>>
vars == <<port, plugged, handles, thrown, hi, unread, fate, pc, want, buffer>>

Kinds == {"port", "readEvent", "writeEvent"}

\* The system calls of device_construct, in order.
Steps == [posix   |-> <<"open", "isatty", "tcgetattr", "get_baud", "tcflush", "tcsetattr">>,
          windows |-> <<"bitrate", "port_number", "CreateFile", "GetCommState", "SetCommState",
                        "GetCommTimeouts", "SetCommTimeouts", "CreateEvent", "SetCommMask",
                        "PurgeComm">>]

Init ==
  /\ system \in {"posix", "windows"}
  /\ plugged = TRUE /\ object = "none" /\ step = 1
  /\ handles = [k \in Kinds |-> 0] /\ thrown = 0
  /\ hi = 0 /\ unread = <<>> /\ dropped = {} /\ flushed = {} /\ delivered = {}
  /\ pc = [t \in Threads |-> "idle"]
  /\ want = [t \in Threads |-> 0] /\ buffer = [t \in Threads |-> <<>>]

Elements(s) == {s[i] : i \in 1 .. Len(s)}
Idle == \A t \in Threads : pc[t] = "idle"
Smaller(m, n) == IF m < n THEN m ELSE n

-----------------------------------------------------------------------------
\* device_construct, by whoever has the port to itself.
BeginConstruct ==
  /\ object = "none" /\ Idle /\ thrown < MaxErrors
  /\ object' = "building" /\ step' = 1
  /\ UNCHANGED <<system, plugged, handles, thrown, hi, unread, fate, pc, want, buffer>>

\* What a system call leaves open.
Opens(call) == CASE call \in {"open", "CreateFile"} -> {"port"}
                 [] call = "CreateEvent" -> {"readEvent"}
                 [] OTHER -> {}

Syscall == Steps[system][step]

\* No sharing: CreateFile fails while the port is open.
MayOpen(call) == call \in {"open", "CreateFile"} =>
                   plugged /\ (system = "windows" => handles["port"] = 0)

ConstructStep ==
  /\ object = "building" /\ MayOpen(Syscall)
  /\ handles' = [k \in Kinds |-> handles[k] + IF k \in Opens(Syscall) THEN 1 ELSE 0]
  /\ IF Syscall \in {"tcflush", "PurgeComm"}
       THEN unread' = <<>> /\ flushed' = flushed \cup Elements(unread)
       ELSE UNCHANGED <<unread, flushed>>
  /\ IF step < Len(Steps[system])
       THEN step' = step + 1 /\ object' = object
       ELSE step' = 1 /\ object' = "live"
  /\ UNCHANGED <<system, plugged, thrown, hi, dropped, delivered, pc, want, buffer>>

\* What has been opened so far.
Opened == UNION {Opens(Steps[system][i]) : i \in 1 .. step - 1}

\* Bug: what has not been opened is closed, too.
ClosesAll == Kinds

\* What the handler of a step that fails closes: on Windows all there is, on
\* POSIX the descriptor if it is the last step.
Closes == IF system = "windows" \/ Syscall = "tcsetattr" THEN Opened ELSE {}

ConstructFails ==
  /\ object = "building"
  /\ handles' = [k \in Kinds |-> handles[k] - IF k \in Closes THEN 1 ELSE 0]
  /\ thrown' = thrown + 1
  /\ object' = "none" /\ step' = 1
  /\ UNCHANGED <<system, plugged, hi, unread, fate, pc, want, buffer>>

\* device_destruct: the flush may fail, and nobody hears of it.
device_destruct ==
  /\ object = "live" /\ Idle
  /\ \/ unread' = <<>> /\ flushed' = flushed \cup Elements(unread)
     \/ UNCHANGED <<unread, flushed>>
  /\ handles' = [handles EXCEPT !["port"] = @ - 1,
                                !["readEvent"] = @ - IF system = "windows" THEN 1 ELSE 0]
  /\ object' = "none"
  /\ UNCHANGED <<system, step, plugged, thrown, hi, dropped, delivered, pc, want, buffer>>

-----------------------------------------------------------------------------
\* A thread in a call of device_read, device_write or device_flush.
Goto(t, there) == pc' = [pc EXCEPT ![t] = there]
From(t, here, there) == object = "live" /\ pc[t] = here /\ Goto(t, there)

\* The exception; what was read of the message goes with the caller's buffer.
Throw(t, from) ==
  /\ object = "live" /\ pc[t] \in from /\ Goto(t, "idle")
  /\ thrown' = thrown + 1
  /\ buffer' = [buffer EXCEPT ![t] = <<>>]
  /\ UNCHANGED <<want, port, plugged, hi>>

BeginRead(t) ==
  /\ From(t, "idle", IF system = "posix" THEN "select" ELSE "ReadFile")
  /\ thrown < MaxErrors
  /\ want' \in {[want EXCEPT ![t] = n] : n \in Lengths}
  /\ UNCHANGED <<port, plugged, handles, thrown, hi, unread, fate, buffer>>

\* select returns when there are bytes, or the port is gone; EINTR waits again.
\* That it fails is part of ReadFails.
wait_readable(t) ==
  /\ From(t, "select", "read")
  /\ unread # <<>> \/ ~plugged
  /\ UNCHANGED <<plugged, port, handles, thrown, hi, unread, fate, want, buffer>>

\* Bug: each read() starts at the beginning of the buffer again.
ReadFromStart(t) ==
  /\ unread # <<>> \/ plugged
  /\ LET missing == want[t] - Len(buffer[t])
         n == Smaller(missing, Len(unread))
     IN  /\ From(t, "read", IF n = missing THEN "complete" ELSE "select")
         /\ buffer' = [buffer EXCEPT ![t] = SubSeq(unread, 1, n)]
         /\ unread' = SubSeq(unread, n + 1, Len(unread))
  /\ UNCHANGED <<plugged, port, handles, thrown, hi, fate, want>>

\* One read(): another thread may have been faster, which is EAGAIN.
read(t) ==
  /\ unread # <<>> \/ plugged
  /\ LET missing == want[t] - Len(buffer[t])
         n == Smaller(missing, Len(unread))
     IN  /\ From(t, "read", IF n = missing THEN "complete" ELSE "select")
         /\ buffer' = [buffer EXCEPT ![t] = @ \o SubSeq(unread, 1, n)]
         /\ unread' = SubSeq(unread, n + 1, Len(unread))
  /\ UNCHANGED <<plugged, port, handles, thrown, hi, fate, want>>

\* Bug: the end of the file is taken for an interruption.
RetryAtEof(t) ==
  /\ From(t, "read", "select") /\ ~plugged /\ unread = <<>>
  /\ UNCHANGED <<plugged, port, handles, thrown, hi, unread, fate, want, buffer>>

\* An error of select or read, whether the port is gone or not.
ReadFails(t) ==
  /\ Throw(t, {"select", "read"})
  /\ dropped' = dropped \cup Elements(buffer[t])
  /\ UNCHANGED <<handles, unread, flushed, delivered>>

\* The end of the file: read returns 0.
ReadAtEof(t) == pc[t] = "read" /\ ~plugged /\ unread = <<>> /\ ReadFails(t)

\* Windows: the requests to a synchronous handle are served one by one.
Serving(t) == \A u \in Threads \ {t} : pc[u] = "ReadFile" => buffer[u] = <<>>

ReadFile(t) ==
  /\ From(t, "ReadFile", IF Len(buffer[t]) + 1 = want[t] THEN "complete" ELSE "ReadFile")
  /\ Serving(t) /\ unread # <<>>
  /\ buffer' = [buffer EXCEPT ![t] = Append(@, Head(unread))]
  /\ unread' = Tail(unread)
  /\ UNCHANGED <<plugged, port, handles, thrown, hi, fate, want>>

\* Bug: the number of bytes read is not compared with the number requested.
ReadFileShort(t) ==
  /\ From(t, "ReadFile", "complete") /\ Serving(t)
  /\ UNCHANGED <<plugged, port, handles, thrown, hi, unread, fate, want, buffer>>

\* The time is over, or there was an error: fewer bytes than requested.
ReadFileEnds(t) ==
  /\ Throw(t, {"ReadFile"}) /\ Serving(t)
  /\ dropped' = dropped \cup Elements(buffer[t])
  /\ UNCHANGED <<handles, unread, flushed, delivered>>

\* The call returns what was read to its caller.
ReadReturns(t) ==
  /\ From(t, "complete", "idle")
  /\ buffer' = [buffer EXCEPT ![t] = <<>>]
  /\ delivered' = delivered \cup Elements(buffer[t])
  /\ UNCHANGED <<plugged, port, handles, thrown, hi, unread, dropped, flushed, want>>

-----------------------------------------------------------------------------
BeginWrite(t) ==
  /\ From(t, "idle", IF system = "posix" THEN "write" ELSE "ClearCommError")
  /\ thrown < MaxErrors
  /\ want' \in {[want EXCEPT ![t] = n] : n \in Lengths}
  /\ handles' = [handles EXCEPT !["writeEvent"] = @ + IF system = "windows" THEN 1 ELSE 0]
  /\ UNCHANGED <<plugged, port, thrown, hi, unread, fate, buffer>>

\* The event cannot be created.
CreateEventFails(t) ==
  /\ system = "windows" /\ thrown < MaxErrors
  /\ Throw(t, {"idle"})
  /\ UNCHANGED <<handles, unread, fate>>

\* POSIX: what is left is tried again, EAGAIN and EINTR included.
write(t) ==
  /\ plugged
  /\ \E n \in 1 .. want[t] :
       /\ From(t, "write", IF n = want[t] THEN "idle" ELSE "write")
       /\ want' = [want EXCEPT ![t] = @ - n]
  /\ UNCHANGED <<plugged, port, handles, thrown, hi, unread, fate, buffer>>

\* ClearCommError; if it has found an error the output is purged.
ClearCommError(t) ==
  /\ From(t, "ClearCommError", "WriteFile") /\ plugged
  /\ UNCHANGED <<plugged, port, handles, thrown, hi, unread, fate, want, buffer>>

\* Bug: the event is not closed.
WriteFileLeaks(t) ==
  /\ From(t, "WriteFile", "idle") /\ plugged
  /\ UNCHANGED <<plugged, port, handles, thrown, hi, unread, fate, want, buffer>>

WriteFile(t) ==
  /\ From(t, "WriteFile", "idle") /\ plugged
  /\ handles' = [handles EXCEPT !["writeEvent"] = @ - 1]
  /\ UNCHANGED <<plugged, port, thrown, hi, unread, fate, want, buffer>>

\* An error, whether the port is gone or not: on Windows the event stays open.
WriteFails(t) ==
  /\ Throw(t, {"write", "ClearCommError", "WriteFile"})
  /\ UNCHANGED <<handles, unread, fate>>

WriteToNobody(t) == ~plugged /\ WriteFails(t)

\* The write timed out, with fewer bytes written: the event is closed.
WriteFileShort(t) ==
  /\ Throw(t, {"WriteFile"}) /\ plugged
  /\ handles' = [handles EXCEPT !["writeEvent"] = @ - 1]
  /\ UNCHANGED <<unread, fate>>

\* device_flush: the bytes received and not read are thrown away.
device_flush(t) ==
  /\ From(t, "idle", "idle") /\ thrown < MaxErrors
  /\ system = "windows" => Serving(t)
  /\ \/ /\ plugged
        /\ unread' = <<>> /\ flushed' = flushed \cup Elements(unread)
        /\ UNCHANGED thrown
     \/ thrown' = thrown + 1 /\ UNCHANGED <<unread, flushed>>
  /\ UNCHANGED <<plugged, port, handles, hi, dropped, delivered, want, buffer>>

-----------------------------------------------------------------------------
\* The other end.
Arrive ==
  /\ plugged /\ hi < MaxBytes
  /\ hi' = hi + 1 /\ unread' = Append(unread, hi + 1)
  /\ UNCHANGED <<port, plugged, handles, thrown, fate, pc, want, buffer>>

Unplug ==
  /\ plugged /\ plugged' = FALSE
  /\ \/ unread' = <<>> /\ flushed' = flushed \cup Elements(unread)
     \/ UNCHANGED <<unread, flushed>>
  /\ UNCHANGED <<port, handles, thrown, hi, dropped, delivered, pc, want, buffer>>

ReadStep(t) == \/ wait_readable(t) \/ read(t) \/ ReadAtEof(t)
               \/ ReadFile(t) \/ ReadFileEnds(t) \/ ReadReturns(t)
WriteStep(t) == \/ write(t) \/ ClearCommError(t) \/ WriteFile(t)
                \/ WriteToNobody(t) \/ WriteFileShort(t)

Next ==
  \/ BeginConstruct \/ ConstructStep \/ ConstructFails \/ device_destruct
  \/ \E t \in Threads : \/ BeginRead(t) \/ BeginWrite(t) \/ CreateEventFails(t) \/ device_flush(t)
                        \/ ReadStep(t) \/ WriteStep(t) \/ ReadFails(t) \/ WriteFails(t)
  \/ Arrive \/ Unplug

Spec == Init /\ [][Next]_vars

\* Threads in a call run, and ReadFile times out.  No system call has to fail while
\* the port is there.
Fairness == \A t \in Threads : WF_vars(ReadStep(t) \/ WriteStep(t))

FairSpec == Spec /\ Fairness

-----------------------------------------------------------------------------
\* The shape of the state.
TypeOK ==
  /\ system \in {"posix", "windows"} /\ plugged \in BOOLEAN
  /\ object \in {"none", "building", "live"} /\ step \in 1 .. Len(Steps[system])
  /\ handles \in [Kinds -> Nat] /\ thrown \in Nat /\ hi \in 0 .. MaxBytes
  /\ unread \in Seq(1 .. hi)
  /\ {dropped, flushed, delivered} \subseteq SUBSET (1 .. hi)
  /\ pc \in [Threads -> IF system = "posix"
                           THEN {"idle", "select", "read", "complete", "write"}
                           ELSE {"idle", "ReadFile", "complete", "ClearCommError", "WriteFile"}]
  /\ want \in [Threads -> Nat] /\ buffer \in [Threads -> Seq(1 .. hi)]

\* A byte that has arrived is in one place: still in the port, in the buffer of
\* one thread, returned, or lost to a flush or to a read that has thrown.
Resting == <<Elements(unread), delivered, dropped, flushed>>
Carried(t) == Elements(buffer[t])

BytesAccounted ==
  /\ \A b \in 1 .. hi : (\E i \in 1 .. 4 : b \in Resting[i]) \/ \E t \in Threads : b \in Carried(t)
  /\ \A i, j \in 1 .. 4 : i # j => Resting[i] \cap Resting[j] = {}
  /\ \A t \in Threads, i \in 1 .. 4 : Carried(t) \cap Resting[i] = {}
  /\ \A t, u \in Threads : t # u => Carried(t) \cap Carried(u) = {}
  /\ dropped # {} => thrown > 0

\* "reliable full read xor error": a read that succeeds has all bytes it was
\* asked for, in the order of their arrival; on Windows without a gap, whatever
\* the other threads do.
FullReadXorError ==
  \A t \in Threads :
    /\ pc[t] = "complete" => Len(buffer[t]) = want[t]
    /\ \A i \in 1 .. Len(buffer[t]) - 1 :
         \/ buffer[t][i + 1] = buffer[t][i] + 1
         \/ system = "posix" /\ buffer[t][i + 1] > buffer[t][i]

\* The handles of a device, and of a call that is under way.
Writers == {t \in Threads : pc[t] \in {"ClearCommError", "WriteFile"}}
Held(kind) ==
  IF kind = "writeEvent" THEN Cardinality(Writers)
  ELSE CASE object = "building" -> IF kind \in Opened THEN 1 ELSE 0
         [] object = "live" -> IF kind = "port" \/ system = "windows" THEN 1 ELSE 0
         [] OTHER -> 0
Leaked(kind) == handles[kind] - Held(kind)

\* Nothing is closed twice; what is left open is at most one handle for each
\* exception; and on Windows, where nobody shares a port, it is never the port
\* itself: after a construct that failed another one finds it free.
HandlesAccounted ==
  /\ \A k \in Kinds : Leaked(k) >= 0
  /\ Leaked("port") + Leaked("readEvent") + Leaked("writeEvent") <= thrown
  /\ system = "windows" => Leaked("port") = 0 /\ Leaked("readEvent") = 0

\* On Windows every call ends; on POSIX a write does, and when the device is
\* gone a read does.
CallsEnd ==
  \A t \in Threads :
    pc[t] # "idle" /\ (system = "windows" \/ ~plugged \/ pc[t] = "write") ~> pc[t] = "idle"
==============================================================================
