---------------------------- MODULE MCScanQueue -----------------------------
(* Two workers, three readers and one caller of start_scanning on a queue of  *)
(* capacity two: enough for overwriting, for two sleepers of which one is   *)
(* notified, and for a newcomer that takes the element of a woken reader.   *)
EXTENDS ScanQueue

CONSTANTS p1, p2, c1, c2, c3, k1

MCProducers == {p1, p2}
MCConsumers == {c1, c2, c3}
MCClearers == {k1}
=============================================================================
