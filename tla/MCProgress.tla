------------------------------ MODULE MCProgress ------------------------------
(***************************************************************************)
(* Small instances for what must happen in the end: an event queue with    *)
(* two questions, the first one pending, and beside it an inbox with one   *)
(* sender and three receivers.  They share no state; a behaviour is one of *)
(* one component, the other resting in its initial state.                  *)
(***************************************************************************)
EXTENDS MCEventQueue

CONSTANTS Offers, Receivers, None, Accepts, Selective, Reasons, Open, choosy, passedOver

VARIABLES
  part,   \* the component that runs
  closed, arrivals, queue, taken, answered, replying, slot, due, sender, told, receiver,
  hand, asleep

inboxVars == <<closed, arrivals, queue, taken, answered, replying, slot, due, sender, told,
               receiver, hand, asleep>>

Inbox == INSTANCE Inbox

MCAccepts == [r \in Receivers |-> IF r = choosy THEN Offers \ passedOver ELSE Offers]

ProgressInit ==
  /\ part \in {"queue", "inbox"}
  /\ Init /\ (part = "inbox" => doc = Absent)
  /\ Inbox!Init

ProgressNext ==
  \/ part = "queue" /\ Next /\ UNCHANGED <<part, inboxVars>>
  \/ part = "inbox" /\ Inbox!Next /\ UNCHANGED <<part, vars>>

\* Each under the fairness of its own module.
ProgressSpec ==
  /\ ProgressInit
  /\ [][ProgressNext]_<<part, vars, inboxVars>>
  /\ Fairness
  /\ Inbox!Fairness

ReceiversWake == Inbox!ReceiversWake
NoSenderLeftWaiting == Inbox!NoSenderLeftWaiting
=============================================================================
