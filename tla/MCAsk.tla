------------------------------- MODULE MCAsk -------------------------------
(***************************************************************************)
(* Small instances of Ask: two blocking questions of one asker.        *)
(***************************************************************************)
EXTENDS Ask, TLC

MCBodies == {[blocking |-> TRUE, asker |-> "a", key |-> "k", admits |-> FALSE]}
MCAskerOf == [l \in Listeners |-> "a"]
Symmetry == Permutations(Repliers)
=============================================================================
