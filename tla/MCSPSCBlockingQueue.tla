------------------------ MODULE MCSPSCBlockingQueue ------------------------
(***************************************************************************)
(* The blocking queue with one producer, one consumer and two threads that *)
(* close it, on a ring that the items wrap around.                         *)
(***************************************************************************)
EXTENDS SPSCBlockingQueue
CONSTANTS a, b, producer, consumer, closer1, closer2
=============================================================================
