------------------------------- MODULE MCPlugin -------------------------------
(***************************************************************************)
(* Small instances of Plugin: two threads of one client beside another     *)
(* client, over a queue whose sections open one over a second queue.       *)
(***************************************************************************)
EXTENDS Plugin

CONSTANTS t1, t2, t3, c1, c2, q1, q2

MCClientOf == [t \in Threads |-> IF t = t3 THEN c2 ELSE c1]
MCUses == [t \in Threads |->
  CASE t = t1 -> {<<"begin", q1>>}
    [] t = t2 -> {<<"append", q1>>, <<"wait", q1>>}
    [] t = t3 -> {<<"append", q1>>, <<"begin", q2>>}]
MCNests == {<<q1, q2>>}
=============================================================================
