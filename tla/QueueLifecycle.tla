--------------------------- MODULE QueueLifecycle ---------------------------
(***************************************************************************)
(* What an event queue promises whoever uses it, whatever it keeps on      *)
(* disk: a record is offered under the next id, waits, is handed out, may  *)
(* hold the one pending slot until it is answered, and is gone.  Only an   *)
(* abandoned record that a live one pushed out of the slot waits again.    *)
(***************************************************************************)
EXTENDS Integers

CONSTANTS
  Ids,            \* the ids the queue can hand out
  HoldPending,    \* a blocking record keeps the slot until it is answered
  BlockingFirst   \* blocking records are handed out first

VARIABLES
  stage,      \* where each record is
  blocking,   \* the records offered as blocking
  abandoned   \* the records in the queue that nobody listens for

vars == <<stage, blocking, abandoned>>

InStage(s) == {id \in Ids : stage[id] = s}
Waiting == InStage("waiting")
Held == InStage("held")
Live == Waiting \ abandoned

Init ==
  /\ stage \in [Ids -> {"unused", "waiting", "held", "gone"}]
  /\ \A id, other \in Held : id = other
  /\ blocking \in SUBSET Ids
  /\ abandoned \in SUBSET (Waiting \cup Held)

\* Records that leave the queue are no longer marked.
Forget(left) == abandoned' = abandoned \ left

\* A record is offered under the next id; it may supersede waiting ones.
Offer(id) ==
  /\ stage[id] = "unused"
  /\ \A other \in InStage("unused") : id <= other
  /\ LET superseded == {i \in Waiting : stage'[i] # "waiting"}
     IN  /\ stage' = [i \in Ids |-> IF i = id THEN "waiting"
                                    ELSE IF i \in superseded THEN "gone" ELSE stage[i]]
         /\ Forget(superseded)
  /\ blocking' \in {blocking, blocking \cup {id}}

\* A record is handed out: a live one while one waits, a blocking one first.
\* A blocking one takes the slot; whatever held it is gone, or waits again when
\* nobody listened for it.
HandOut(id) ==
  /\ id \in Waiting
  /\ id \in abandoned => Live = {}
  /\ BlockingFirst /\ id \notin blocking => Live \cap blocking = {}
  /\ LET holds == HoldPending /\ id \in blocking /\ (id \notin abandoned \/ Held = {})
         out   == IF holds THEN Held ELSE {}
     IN  /\ stage' = [i \in Ids |-> IF i = id THEN IF holds THEN "held" ELSE "gone"
                                    ELSE IF i \notin out THEN stage[i]
                                    ELSE IF i \in abandoned THEN "waiting" ELSE "gone"]
         /\ IF holds THEN Forget({}) ELSE Forget({id})
  /\ UNCHANGED blocking

\* The record in the slot is answered.
Answer(id) ==
  /\ id \in Held
  /\ stage' = [stage EXCEPT ![id] = "gone"]
  /\ Forget({id})
  /\ UNCHANGED blocking

\* The record's asker stops listening, or listens again.
Mark(id) ==
  /\ id \in Waiting \cup Held
  /\ abandoned' \in {abandoned \cup {id}, abandoned \ {id}}
  /\ UNCHANGED <<stage, blocking>>

Next == \E id \in Ids : Offer(id) \/ HandOut(id) \/ Answer(id) \/ Mark(id)

Spec == Init /\ [][Next]_vars
=============================================================================
