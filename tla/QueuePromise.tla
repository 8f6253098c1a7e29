---------------------------- MODULE QueuePromise ----------------------------
(***************************************************************************)
(* EventQueue implements QueueLifecycle.  What the log says is the queue's *)
(* state, whatever the projection holds: a line appended is one step of    *)
(* the promise and every other step is none.  `shown` follows the log so   *)
(* that TLC folds it once for each line.                                   *)
(***************************************************************************)
EXTENDS EventQueue

VARIABLE shown   \* what the queue's users can tell of it

HasId(records, id) == \E i \in 1..Len(records) : records[i].id = id

\* The state the promise is in after the lines of a log.
Shown(lines) ==
  LET now  == FoldOf(lines, Len(lines))
      held == HeldRecords(now)
  IN  [stage |-> [id \in Ids |-> IF HasId(now.waiting, id) THEN "waiting"
                                 ELSE IF Pends(now, id) THEN "held"
                                 ELSE IF id < now.next_id THEN "gone"
                                 ELSE "unused"],
       blocking |-> {id \in Ids : \E i \in 1..Len(lines) :
                       /\ lines[i].event # "unreadable"
                       /\ lines[i].record.id = id /\ lines[i].record.body.blocking},
       abandoned |-> {held[k].id : k \in {j \in 1..Len(held) : held[j].abandoned}}]

Lifecycle == INSTANCE QueueLifecycle WITH
  stage <- shown.stage, blocking <- shown.blocking, abandoned <- shown.abandoned

PromiseInit == Init /\ shown = Shown(log)
PromiseNext == Next /\ shown' = IF log' = log THEN shown ELSE Shown(log')
PromiseSpec == PromiseInit /\ [][PromiseNext]_<<vars, shown>>

\* However its calls interleave, crash and fail, the queue is one in which each
\* line takes effect at once: no record waits again once handed out, unless it
\* was abandoned and pushed out of the slot; at most one holds the slot; and no
\* record leaves but by a claim, an answer or one that supersedes it.
KeepsLifecycle == Lifecycle!Spec
=============================================================================
