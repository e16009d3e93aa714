----------------------------- MODULE ScanWindow -----------------------------
(***************************************************************************)
(* What the scan queue promises to those who call sweep_device_get_scan,   *)
(* without mutex, condition variable or container.  The scans put so far   *)
(* are numbered 1, 2, 3, ...; the readers look at the stream through a     *)
(* window (lo, hi]: the scans lo+1 .. hi can still be taken, oldest first. *)
(* Putting a scan extends the window to the right and, when it would hold  *)
(* more than MaxSize scans, moves its left edge by one: the oldest scan is *)
(* lost.  Nothing else is ever lost, except by an explicit Clear.          *)
(***************************************************************************)
EXTENDS Naturals

CONSTANT MaxSize                 \* the capacity the queue is constructed with

VARIABLES lo, hi,                \* the window
          last                   \* the number of the scan taken last, or 0

window == <<lo, hi, last>>

Init == lo = 0 /\ hi = 0 /\ last = 0

Put == /\ hi' = hi + 1
       /\ lo' = IF hi - lo >= MaxSize THEN lo + 1 ELSE lo
       /\ last' = last

Take == /\ lo < hi
        /\ lo' = lo + 1
        /\ last' = lo + 1
        /\ hi' = hi

Clear == lo' = hi /\ hi' = hi /\ last' = last

Next == Put \/ Take \/ Clear

Spec == Init /\ [][Next]_window
=============================================================================
