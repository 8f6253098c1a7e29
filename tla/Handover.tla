------------------------------ MODULE Handover ------------------------------
(***************************************************************************)
(* What an inbox promises the sender of a message, however it is queued    *)
(* (src/crates/onemessagebus/src/inbox.rs, `Offer`).                       *)
(*                                                                         *)
(* A message offered to an open inbox is untaken until its receiver takes  *)
(* it, and a message taken can be handed back.  It leaves the inbox once:  *)
(* withdrawn while no receiver has it, answered or let go by the receiver  *)
(* that has it, or closed with everything else; and its sender is told     *)
(* that end and no other.                                                  *)
(***************************************************************************)
CONSTANT Offers

VARIABLES
  open,    \* the inbox has not been closed
  fate,    \* where each message is, or how it left
  told     \* what its sender has been told: a fate it can leave by, or nothing

vars == <<open, fate, told>>

Ends == {"withdrawn", "answered", "closed"}
Fates == {"unsent", "untaken", "taken"} \cup Ends

Init ==
  /\ open = TRUE
  /\ fate = [o \in Offers |-> "unsent"]
  /\ told = [o \in Offers |-> "nothing"]

Moves(o, from, to) == fate[o] = from /\ fate' = [fate EXCEPT ![o] = to]
Tells(o, end) == told' = [told EXCEPT ![o] = end]

Offer(o) == open /\ Moves(o, "unsent", "untaken") /\ UNCHANGED <<open, told>>
Refuse(o) == ~open /\ Moves(o, "unsent", "closed") /\ Tells(o, "closed") /\ UNCHANGED open

\* Withdrawing a message and telling its sender so are one step.
Withdraw(o) == Moves(o, "untaken", "withdrawn") /\ Tells(o, "withdrawn") /\ UNCHANGED open

Take(o) == Moves(o, "untaken", "taken") /\ UNCHANGED <<open, told>>

\* The one who has it: hands it back, hands it back too late, answers it, drops it.
Release(o) == Moves(o, "taken", "untaken") /\ UNCHANGED <<open, told>>
Expire(o) == Moves(o, "taken", "withdrawn") /\ UNCHANGED <<open, told>>
Answer(o) == Moves(o, "taken", "answered") /\ UNCHANGED <<open, told>>
LetGo(o) == Moves(o, "taken", "closed") /\ UNCHANGED <<open, told>>

Close ==
  /\ open
  /\ open' = FALSE
  /\ fate' = [o \in Offers |-> IF fate[o] \in {"untaken", "taken"} THEN "closed" ELSE fate[o]]
  /\ UNCHANGED told

Tell(o) == fate[o] \in Ends /\ told[o] = "nothing" /\ Tells(o, fate[o]) /\ UNCHANGED <<open, fate>>

Next ==
  \/ Close
  \/ \E o \in Offers :
       Offer(o) \/ Refuse(o) \/ Withdraw(o) \/ Take(o) \/ Release(o) \/ Expire(o)
         \/ Answer(o) \/ LetGo(o) \/ Tell(o)

Spec == Init /\ [][Next]_vars
=============================================================================
