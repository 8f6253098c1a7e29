------------------------------- MODULE MCInbox -------------------------------
(***************************************************************************)
(* Small instances of Inbox: one receiver that takes whatever is at the    *)
(* front, and one that passes over some of the messages.                   *)
(***************************************************************************)
EXTENDS Inbox, TLC

CONSTANTS choosy, passedOver

MCAccepts == [r \in Receivers |-> IF r = choosy THEN Offers \ passedOver ELSE Offers]

Symmetry == Permutations(Reasons)
=============================================================================
