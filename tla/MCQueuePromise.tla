--------------------------- MODULE MCQueuePromise ---------------------------
(***************************************************************************)
(* The small instances of EventQueue, and what they promise.               *)
(***************************************************************************)
EXTENDS MCEventQueue, QueuePromise
=============================================================================
