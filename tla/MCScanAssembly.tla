--------------------------- MODULE MCScanAssembly ---------------------------
(* A buffer of four samples and up to seven packets: scans of one to three  *)
(* readings, rotations that follow each other without a reading in between, *)
(* and a rotation that fills the buffer before it ends.                     *)
EXTENDS ScanAssembly

CONSTANTS none, failure
=============================================================================
