-------------------------- MODULE MCLocalTransport --------------------------
(***************************************************************************)
(* Small instances of LocalTransport: a narrow and a wide kind of record,  *)
(* on no log and on one with a blank line and a torn tail.                 *)
(***************************************************************************)
EXTENDS LocalTransport, TLC

CONSTANTS narrow, wide

MCWidth == narrow :> 1 @@ wide :> 3

MCOldCells ==
  {LineOf([id |-> 0, kind |-> narrow]) \o <<Newline>> \o
   LineOf([id |-> 1, kind |-> wide]) \o <<[id |-> 2, kind |-> narrow]>>}

Symmetry == Permutations(Procs)
=============================================================================
