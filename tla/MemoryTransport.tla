---------------------------- MODULE MemoryTransport ----------------------------
(***************************************************************************)
(* MemoryTransport: the queues of one process behind one mutex and one     *)
(* condition, `changed`.  An operation is one step under the mutex, but    *)
(* for the one that finds its queue held by another section, or nothing    *)
(* changed yet: that one sleeps on the condition, and tries again when it  *)
(* is notified.  Everybody is notified of everything.                      *)
(*                                                                         *)
(* A record is the place its writer read, inside its section, that it      *)
(* would land at, and 0 from a writer outside every section.               *)
(***************************************************************************)
EXTENDS Integers, Sequences

CONSTANTS
  Handles,      \* the threads, each with a clone of the transport
  Stores,       \* the queues
  Inside,       \* <<q, r>>: a section over q may open one over r inside it
  Free,         \* no section
  Calls,        \* the operations of each: <<operation, queue>>
  MaxOps,       \* how many calls each makes, those of a body counted
  MaxLength     \* how long a queue may get

ASSUME MemoryAssumption ==
  /\ Inside \subseteq Stores \X Stores /\ Free \notin Handles
  /\ Calls \in [Handles -> SUBSET
                  ({"append", "commit", "replace", "exclusive", "wait"} \X Stores)]
  /\ MaxOps \in [Handles -> Nat] /\ MaxLength \in Nat

VARIABLES
  records,      \* the records of each queue
  cursors,      \* where its consumer is
  generations,  \* how many times each queue changed
  held,         \* whose section has it
  busy,         \* the operation each handle is in, and its queue
  within,       \* the queues of the sections it is in, the innermost last
  basis,        \* how long the outermost was when its body read it
  awaited,      \* the fingerprint it waits to see move
  expired,      \* whether its wait's time is over
  asleep,       \* the handles that sleep on the condition
  ops           \* the operations each has left

store == <<records, cursors, generations, held>>
memoryVars == <<store, busy, within, basis, awaited, expired, asleep, ops>>

Nowhere == [op |-> "none", queue |-> Free]
HoldsIt(h, q) == \E i \in 1..Len(within[h]) : within[h][i] = q

MemoryInit ==
  /\ records = [q \in Stores |-> <<>>] /\ cursors = [q \in Stores |-> 0]
  /\ generations = [q \in Stores |-> 0] /\ held = [q \in Stores |-> Free]
  /\ busy = [h \in Handles |-> Nowhere] /\ within = [h \in Handles |-> <<>>]
  /\ basis = [h \in Handles |-> -1] /\ awaited = [h \in Handles |-> 0]
  /\ expired = [h \in Handles |-> FALSE] /\ asleep = {}
  /\ ops = MaxOps

\* The sections a body opens.
Opens(h, q) == IF within[h] = <<>> THEN TRUE
               ELSE ~HoldsIt(h, q) /\ <<within[h][Len(within[h])], q>> \in Inside

\* A handle begins an operation, outside every section or from a body.  A wait
\* takes the fingerprint first, and others go on between the two.
Begins(h, op, q) ==
  /\ busy[h] = Nowhere /\ ops[h] > 0 /\ ops' = [ops EXCEPT ![h] = @ - 1]
  /\ op = "exclusive" => Opens(h, q)
  /\ op = "wait" => within[h] = <<>>
  /\ busy' = [busy EXCEPT ![h] = [op |-> op, queue |-> q]]
  /\ awaited' = [awaited EXCEPT ![h] = IF op = "wait" THEN generations[q] ELSE 0]
  /\ expired' = [expired EXCEPT ![h] = FALSE]
  /\ UNCHANGED <<store, within, basis, asleep>>

\* state_for: nobody else's section is over the queue.
MayEnter(h, q) == held[q] = Free \/ HoldsIt(h, q)

\* It sleeps: the mutex is let go in the same step.
Sleeps(h) ==
  /\ asleep' = asleep \cup {h}
  /\ UNCHANGED <<store, busy, within, basis, awaited, expired, ops>>

\* Everybody who sleeps is woken: `changed` is notified.
NotifiesAll == asleep' = {}

Returns(h) == busy' = [busy EXCEPT ![h] = Nowhere]

Bump(q) == generations' = [generations EXCEPT ![q] = @ + 1] /\ NotifiesAll

AppendOp(h) ==
  LET q == busy[h].queue IN
  /\ busy[h].op = "append" /\ h \notin asleep
  /\ \/ ~MayEnter(h, q) /\ Sleeps(h)
     \/ /\ MayEnter(h, q) /\ Len(records[q]) < MaxLength
        /\ records' = [records EXCEPT ![q] =
             Append(@, IF within[h] # <<>> /\ q = within[h][1] THEN basis[h] + 1 ELSE 0)]
        /\ basis' = [basis EXCEPT ![h] =
             IF within[h] # <<>> /\ q = within[h][1] THEN Len(records[q]) + 1 ELSE @]
        /\ Bump(q) /\ Returns(h)
        /\ UNCHANGED <<cursors, held, within, awaited, expired, ops>>

\* A commit moves the consumer to where the queue ends.
CommitOp(h) ==
  LET q == busy[h].queue IN
  /\ busy[h].op = "commit" /\ h \notin asleep
  /\ \/ ~MayEnter(h, q) /\ Sleeps(h)
     \/ /\ MayEnter(h, q)
        /\ cursors' = [cursors EXCEPT ![q] = Len(records[q])]
        /\ Bump(q) /\ Returns(h)
        /\ UNCHANGED <<records, held, within, basis, awaited, expired, ops>>

\* A document waits for the section as well, and changes no fingerprint.
ReplaceOp(h) ==
  LET q == busy[h].queue IN
  /\ busy[h].op = "replace" /\ h \notin asleep
  /\ \/ ~MayEnter(h, q) /\ Sleeps(h)
     \/ /\ MayEnter(h, q) /\ Returns(h)
        /\ UNCHANGED <<store, within, basis, awaited, expired, asleep, ops>>

\* A section is taken: the outermost one's body begins with a read of its queue.
Exclusive(h) ==
  LET q == busy[h].queue IN
  /\ busy[h].op = "exclusive" /\ h \notin asleep
  /\ \/ held[q] # Free /\ Sleeps(h)
     \/ /\ held[q] = Free /\ held' = [held EXCEPT ![q] = h]
        /\ within' = [within EXCEPT ![h] = Append(@, q)]
        /\ basis' = [basis EXCEPT ![h] = IF within[h] = <<>> THEN Len(records[q]) ELSE @]
        /\ Returns(h)
        /\ UNCHANGED <<records, cursors, generations, awaited, expired, asleep, ops>>

\* Its body has returned, with or without an error.
Leaves_Silently(h) ==
  LET n == Len(within[h]) IN
  /\ busy[h] = Nowhere /\ n > 0
  /\ held' = [held EXCEPT ![within[h][n]] = Free]
  /\ within' = [within EXCEPT ![h] = SubSeq(@, 1, n - 1)]
  /\ basis' = [basis EXCEPT ![h] = IF n = 1 THEN -1 ELSE @]
  /\ UNCHANGED <<records, cursors, generations, busy, awaited, expired, asleep, ops>>
Leaves(h) ==
  LET n == Len(within[h]) IN
  /\ busy[h] = Nowhere /\ n > 0
  /\ held' = [held EXCEPT ![within[h][n]] = Free] /\ NotifiesAll
  /\ within' = [within EXCEPT ![h] = SubSeq(@, 1, n - 1)]
  /\ basis' = [basis EXCEPT ![h] = IF n = 1 THEN -1 ELSE @]
  /\ UNCHANGED <<records, cursors, generations, busy, awaited, expired, ops>>

\* wait_for_change looks each time it is awake, and gives up when it saw nothing
\* move and its time is over.
WaitOp(h) ==
  LET q == busy[h].queue IN
  /\ busy[h].op = "wait" /\ h \notin asleep
  /\ \/ /\ generations[q] # awaited[h] \/ expired[h]
        /\ Returns(h)
        /\ UNCHANGED <<store, within, basis, awaited, expired, asleep, ops>>
     \/ /\ generations[q] = awaited[h] /\ ~expired[h]
        /\ Sleeps(h)

\* Its time is over; it wakes for that, and waits for the mutex.
Expires(h) ==
  /\ busy[h].op = "wait" /\ h \in asleep
  /\ expired' = [expired EXCEPT ![h] = TRUE] /\ asleep' = asleep \ {h}
  /\ UNCHANGED <<store, busy, within, basis, awaited, ops>>

MemoryStep(h) ==
  AppendOp(h) \/ CommitOp(h) \/ ReplaceOp(h) \/ Exclusive(h) \/ Leaves(h) \/ WaitOp(h)

MemoryNext ==
  \E h \in Handles :
    \/ \E call \in Calls[h] : Begins(h, call[1], call[2])
    \/ MemoryStep(h) \/ Expires(h)

MemorySpec == /\ MemoryInit /\ [][MemoryNext]_memoryVars
              /\ \A h \in Handles : WF_memoryVars(MemoryStep(h))

-----------------------------------------------------------------------------
(* What must hold *)

\* Nobody sleeps through what it waits for: a handle that sleeps for a queue to
\* be free, or to move, sleeps while another has it, or it has not moved.  All
\* share one condition, so a notification one of them lost would be lost for good.
SleepersHaveCause ==
  \A h \in asleep :
    IF busy[h].op = "wait" THEN generations[busy[h].queue] = awaited[h]
    ELSE held[busy[h].queue] \notin {Free, h}

\* What a body appends lands where it read, inside its section, that it would.
BodiesSeeTheirOwn ==
  \A q \in Stores : \A i \in 1..Len(records[q]) : records[q][i] \in {0, i}

\* However threads append, commit, replace, wait and section: nobody is left asleep,
\* and nothing enters a section from outside it (`state_for`, `exclusive_as`).
WaitsAndSectionsHold == SleepersHaveCause /\ BodiesSeeTheirOwn
=============================================================================
