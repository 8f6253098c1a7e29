----------------------------- MODULE EventQueue -----------------------------
(***************************************************************************)
(* An event queue over a transport: `RawQueue` with a policy that keeps    *)
(* events (src/crates/onemessagebus/src/queue.rs).                         *)
(*                                                                         *)
(* Several processes share a log and a projection document.  An operation  *)
(* that changes the queue runs in the queue's exclusive section: it brings *)
(* the projection up to date, derives its lines from what it then sees,    *)
(* appends them one at a time and replaces the projection.  A read takes   *)
(* no section: it reads the document, then the log, and writes back what   *)
(* it folded -- whatever others did in between.  A process can die between *)
(* any two steps, and every append and every replacement can fail.         *)
(*                                                                         *)
(* A position is the number of lines up to it; the transport (its torn     *)
(* tails, its locks) is LocalTransport's matter.                           *)
(***************************************************************************)
EXTENDS QueueFold

CONSTANTS
  Procs,            \* processes (or handles) that use the queue
  Nobody,           \* nobody is in the exclusive section
  KeepsProjection,  \* policy.projection is present
  OldLogs,          \* the logs the queue can be opened on
  MaxGrowth         \* bound: no call but a read begins on a log grown by so many lines

ASSUME QueueAssumption ==
  /\ Nobody \notin Procs
  /\ KeepsProjection \in BOOLEAN
  /\ OldLogs \subseteq Seq(Lines)
  /\ MaxGrowth \in Nat

VARIABLES
  log,      \* the queue's log
  doc,      \* the projection document
  holder,   \* who is in the queue's exclusive section
  pc,       \* where each process is
  call,     \* the call each process is making
  view,     \* the fold each process works on
  seen,     \* the document a reader read before it reads the log
  todo      \* the lines a writer has still to append

vars == <<log, doc, holder, pc, call, view, seen, todo>>

----------------------------------------------------------------------------
(* The projection document.  "unsealed" is a stamped document somebody     *)
(* edited: its seal no longer matches its claims.                          *)

Docs == [kind : {"absent", "stamped", "unsealed", "unstamped"}, fold : Folded, accounted : Nat]
Views == [fold : Folded, accounted : Nat]

Absent == [kind |-> "absent", fold |-> EmptyFold, accounted |-> 0]
Stamped(v) == [kind |-> "stamped", fold |-> v.fold, accounted |-> v.accounted]
NoView == [fold |-> EmptyFold, accounted |-> 0]

\* What is left of a document stamped for n lines whose claims were emptied.
Emptied(n) == [kind |-> "unsealed", fold |-> EmptyFold, accounted |-> n]

IsIntact_Unsealed(d) == d.kind # "absent"

IsIntact(d) == d.kind \in {"stamped", "unstamped"}

\* A checkpoint the log still reaches to; one past the log's end is refused by
\* the transport (PastEnd), and the whole log is folded instead.
Trusted(d, l) == KeepsProjection /\ IsIntact(d) /\ d.accounted <= Len(l)

Current_PastCheckpoint(d, l) ==
  [fold |-> IF ~Trusted(d, l) THEN FoldFrom(EmptyFold, 0, l, 0)
            ELSE IF d.accounted < Len(l) THEN FoldFrom(d.fold, 0, l, d.accounted + 1)
            ELSE d.fold,
   accounted |-> Len(l)]

\* `current`: the document brought up to date with the log.
Current(d, l) ==
  [fold |-> IF ~Trusted(d, l) THEN FoldFrom(EmptyFold, 0, l, 0)
            ELSE IF d.kind = "unstamped" THEN FoldFrom(d.fold, d.fold.next_id, l, 0)
            ELSE FoldFrom(d.fold, 0, l, d.accounted),
   accounted |-> Len(l)]

\* Whether that folded anything, so that a reader writes it back.
FoldedAny(d, l) ==
  \/ KeepsProjection /\ IsIntact(d) /\ d.accounted > Len(l)
  \/ Trusted(d, l) /\ (d.kind = "unstamped" \/ d.accounted < Len(l))
  \/ ~(KeepsProjection /\ IsIntact(d)) /\ l # <<>>

----------------------------------------------------------------------------
(* The calls. *)

Ids == 0..(MaxId - 1)

Calls ==
  [op : {"push"}, body : Bodies] \cup
  [op : {"claim", "answer_pending", "read"}] \cup
  [op : {"answer"}, id : Ids] \cup
  [op : {"answer_at"}, at : Nat] \cup
  [op : {"abandon"}, ids : SUBSET Ids] \cup
  [op : {"attend"}, asker : Askers] \cup
  [op : {"mark"}, id : Ids, abandoned : BOOLEAN]

NoCall == [op |-> "read"]

\* The records the log queued.
Queued == {log[i].record.id : i \in {j \in 1..Len(log) : log[j].event \in {"queued", "none"}}}

\* What callers can ask for: they name records they pushed, claims handed to
\* them and the positions of those claims.
WritesNow ==
  [op : {"push"}, body : Bodies] \cup
  [op : {"claim", "answer_pending"}] \cup
  [op : {"answer"}, id : {log[i].record.id : i \in ClaimsAt(log)} \cap Ids] \cup
  [op : {"abandon"}, ids : SUBSET (Queued \cap Ids) \ {{}}] \cup
  [op : {"attend"}, asker : Askers]
ReadsNow == [op : {"read"}] \cup [op : {"answer_at"}, at : ClaimsAt(log)]
MarksNow == [op : {"mark"}, id : Queued \cap Ids, abandoned : BOOLEAN]

\* The lines a call derives from the fold f and the log l it is shown.
LinesOf(c, f, l) ==
  CASE c.op = "push" ->
         <<Line("queued", [id |-> f.next_id, abandoned |-> FALSE, body |-> c.body])>>
    [] c.op = "claim" ->
         IF f.waiting = <<>> THEN <<>> ELSE <<Line("claimed", NextClaimed(f))>>
    [] c.op = "answer" ->
         IF Pends(f, c.id)
         THEN <<Line("answered", f.pending)>> ELSE <<>>
    [] c.op = "answer_pending" ->
         IF f.pending # NoRecord THEN <<Line("answered", f.pending)>> ELSE <<>>
    [] c.op = "abandon" ->
         MarkLines(f, "abandoned", {r \in Live : r.id \in c.ids})
    [] c.op = "attend" ->
         MarkLines(f, "attended", {r \in Records \ Live : r.body.asker = c.asker})
    [] c.op = "mark" ->
         <<Line(IF c.abandoned THEN "abandoned" ELSE "attended",
                [RecordFor(f, l, c.id) EXCEPT !.abandoned = c.abandoned])>>

----------------------------------------------------------------------------
Init ==
  /\ log \in OldLogs
  /\ doc \in {Absent, Emptied(Len(log))}
  /\ holder = Nobody
  /\ pc = [p \in Procs |-> "idle"]
  /\ call = [p \in Procs |-> NoCall]
  /\ view = [p \in Procs |-> NoView]
  /\ seen = [p \in Procs |-> Absent]
  /\ todo = [p \in Procs |-> <<>>]

\* The call of p ends: what it worked on is let go of.
Return(p) ==
  /\ pc' = [pc EXCEPT ![p] = "idle"]
  /\ call' = [call EXCEPT ![p] = NoCall]
  /\ view' = [view EXCEPT ![p] = NoView]
  /\ seen' = [seen EXCEPT ![p] = Absent]
  /\ todo' = [todo EXCEPT ![p] = <<>>]

Leave_Anyones(p) == holder' = Nobody

Leave(p) == holder' = IF holder = p THEN Nobody ELSE holder

HasRoom == \E l \in OldLogs : IsPrefix(l, log) /\ Len(log) < Len(l) + MaxGrowth

\* `record`: p is in the section, its projection is brought up to date, and
\* what to append is decided.  A push that finds the last id taken (NoIdLeft)
\* leaves again with nothing recorded, which is no step here.
EnterWith(p, c) ==
  /\ holder = Nobody
  /\ LET now   == Current(doc, log)
         lines == LinesOf(c, now.fold, log)
     IN  /\ ~(c.op = "push" /\ now.fold.next_id = MaxId)
         /\ holder' = p
         /\ view' = [view EXCEPT ![p] = now]
         /\ todo' = [todo EXCEPT ![p] = lines]
         /\ pc' = [pc EXCEPT ![p] = IF lines = <<>> THEN "project" ELSE "append"]
  /\ call' = [call EXCEPT ![p] = NoCall]
  /\ UNCHANGED <<log, doc, seen>>

\* A call that goes straight into the section.  Until it is in, it has read and
\* changed nothing, so waiting for the section is no step of its own.
Write(p, c) ==
  /\ pc[p] = "idle"
  /\ HasRoom
  /\ EnterWith(p, c)

\* A call that read the queue first, and enters the section now.
Enter(p) ==
  /\ pc[p] = "enter"
  /\ EnterWith(p, call[p])

\* A read reads the document first.
Read(p, c) ==
  /\ pc[p] = "idle"
  /\ pc' = [pc EXCEPT ![p] = "log"]
  /\ call' = [call EXCEPT ![p] = c]
  /\ seen' = [seen EXCEPT ![p] = doc]
  /\ UNCHANGED <<log, doc, holder, view, todo>>

\* `mark` reads the marks off the log before it enters the section, and does
\* not read them again inside it; one that already stands so is not recorded.
Mark(p, c) ==
  /\ pc[p] = "idle"
  /\ HasRoom
  /\ IsMarkedAbandoned(log, c.id) # c.abandoned
  /\ pc' = [pc EXCEPT ![p] = "enter"]
  /\ call' = [call EXCEPT ![p] = c]
  /\ UNCHANGED <<log, doc, holder, view, seen, todo>>

\* One derived line is appended and folded in.
AppendLine(p) ==
  /\ pc[p] = "append"
  /\ log' = Append(log, Head(todo[p]))
  /\ view' = [view EXCEPT ![p] = [fold |-> Apply(@.fold, Head(todo[p])),
                                  accounted |-> Len(log) + 1]]
  /\ todo' = [todo EXCEPT ![p] = Tail(@)]
  /\ pc' = [pc EXCEPT ![p] = IF Len(todo[p]) = 1 THEN "project" ELSE "append"]
  /\ UNCHANGED <<doc, holder, call, seen>>

\* The projection is replaced, and the call returns out of the section.
Project(p) ==
  /\ pc[p] = "project"
  /\ doc' = IF KeepsProjection THEN Stamped(view[p]) ELSE doc
  /\ Leave(p)
  /\ Return(p)
  /\ UNCHANGED log

TransportFails_InSection(p) ==
  /\ pc[p] \in {"append", "project"}
  /\ pc[p] = "project" => KeepsProjection
  /\ Return(p)
  /\ UNCHANGED <<log, doc, holder>>

\* The transport fails an append, or the replacement of the projection.  The
\* lines appended before it stay.
TransportFails(p) ==
  /\ pc[p] \in {"append", "project"}
  /\ pc[p] = "project" => KeepsProjection
  /\ Leave(p)
  /\ Return(p)
  /\ UNCHANGED <<log, doc>>

\* What a read does once it has its fold: `waiting` returns it; `answer_at`
\* goes on to look up where the pending record was claimed.
AfterRead(p, f) ==
  IF call[p].op = "read" THEN Return(p)
  ELSE IF f.pending = NoRecord THEN Return(p)
  ELSE /\ pc' = [pc EXCEPT ![p] = "place"]
       /\ view' = [view EXCEPT ![p].fold = [EmptyFold EXCEPT !.pending = f.pending],
                               ![p].accounted = 0]
       /\ seen' = [seen EXCEPT ![p] = Absent]
       /\ UNCHANGED <<call, todo>>

\* `snapshot`: the log is read after the document was, and folded into it.
ReadLog(p) ==
  /\ pc[p] = "log"
  /\ LET now == Current(seen[p], log)
     IN  IF FoldedAny(seen[p], log) /\ KeepsProjection
         THEN /\ view' = [view EXCEPT ![p] = now]
              /\ pc' = [pc EXCEPT ![p] = "repair"]
              /\ seen' = [seen EXCEPT ![p] = Absent]
              /\ UNCHANGED <<call, todo>>
         ELSE AfterRead(p, now.fold)
  /\ UNCHANGED <<log, doc, holder>>

\* The repaired projection is written back, in nobody's section; a write that
\* fails is not reported.
Repair(p) ==
  /\ pc[p] = "repair"
  /\ doc' \in {doc, Stamped(view[p])}
  /\ AfterRead(p, view[p].fold)
  /\ UNCHANGED <<log, holder>>

\* `pending_at`: the log is read again for the position of the pending
\* record's claim; a position that matches goes on to `answer`.
Place(p) ==
  /\ pc[p] = "place"
  /\ LET id == view[p].fold.pending.id
     IN  IF ClaimPosition(log, id) = call[p].at /\ id \in Ids
         THEN /\ call' = [call EXCEPT ![p] = [op |-> "answer", id |-> id]]
              /\ pc' = [pc EXCEPT ![p] = "enter"]
              /\ view' = [view EXCEPT ![p] = NoView]
              /\ UNCHANGED <<seen, todo>>
         ELSE Return(p)
  /\ UNCHANGED <<log, doc, holder>>

\* p's process dies; its section is released and what it held is gone.
Crash(p) ==
  /\ pc[p] # "idle"
  /\ Leave(p)
  /\ Return(p)
  /\ UNCHANGED <<log, doc>>

\* Somebody deletes the projection.
Lose ==
  /\ doc # Absent
  /\ doc' = Absent
  /\ UNCHANGED <<log, holder, pc, call, view, seen, todo>>

Step(p) ==
  \/ Enter(p) \/ AppendLine(p) \/ Project(p) \/ TransportFails(p)
  \/ ReadLog(p) \/ Repair(p) \/ Place(p)

Next ==
  \/ \E p \in Procs :
       \/ Step(p) \/ Crash(p)
       \/ \E c \in WritesNow : Write(p, c)
       \/ \E c \in ReadsNow : Read(p, c)
       \/ \E c \in MarksNow : Mark(p, c)
  \/ Lose

Spec == Init /\ [][Next]_vars
----------------------------------------------------------------------------
(* Correctness. *)

\* Every variable has its type: the one type invariant of the module.
TypeOK ==
  /\ log \in Seq(Lines)
  /\ doc \in Docs
  /\ holder \in Procs \cup {Nobody}
  /\ pc \in [Procs -> {"idle", "enter", "append", "project", "log", "repair", "place"}]
  /\ call \in [Procs -> Calls]
  /\ view \in [Procs -> Views]
  /\ seen \in [Procs -> Docs]
  /\ todo \in [Procs -> Seq(Lines)]

\* What a stamped projection claims is what the log it accounts for says.
Sound(d) ==
  d.kind = "stamped" =>
    /\ d.accounted <= Len(log)
    /\ d.fold = FoldOf(log, d.accounted)

\* A stamped document is a projection of its log: the stored one, the one a
\* reader read a while ago and the one it is about to write back, whoever
\* wrote, crashed, failed or overtook whom in between (`current`, `snapshot`).
ProjectionSound ==
  /\ Sound(doc)
  /\ \A p \in Procs : Sound(seen[p]) /\ (pc[p] = "repair" => Sound(Stamped(view[p])))

\* What a writer derives its lines from, and goes on to write as the
\* projection, is the whole log at that moment: nothing lands between its
\* decision and its record (`record`).
WriterUpToDate ==
  \A p \in Procs :
    pc[p] \in {"append", "project"} =>
      /\ holder = p
      /\ view[p] = [fold |-> FoldOf(log, Len(log)), accounted |-> Len(log)]

\* What the log l tells is in InOrder: each part says one thing no writer, crash,
\* failure or lost projection may bring into it.

\* Positions of the lines that brought a record into the queue.
QueuedAt(l) ==
  {i \in 1..Len(l) : /\ l[i].event \in {"queued", "none"}
                     /\ EventOf(FoldOf(l, i - 1), l[i]) = "queued"}

\* No id is handed out twice, ids follow the order of the log, and the last one
\* is never handed out: not after a crash, not after a lost or emptied projection,
\* not on an older writer's log (`push_judged`: "two writers never take one id").
IdsIncrease(l) ==
  LET queued == QueuedAt(l)
  IN  /\ \A i, j \in queued : i < j => l[i].record.id < l[j].record.id
      /\ \A i \in queued : l[i].record.id # MaxId

\* Nothing accepted is lost: a queued record is waiting or pending, or a later
\* line of the log accounts for it -- a claim of it, or a record that
\* supersedes it.
NothingLost(l) ==
  LET now    == FoldOf(l, Len(l))
      queued == QueuedAt(l)
  IN  \A i \in queued :
        LET r == l[i].record
        IN  \/ \E k \in 1..Len(HeldRecords(now)) : HeldRecords(now)[k].id = r.id
            \/ \E j \in (i + 1)..Len(l) :
                 \/ l[j].event = "claimed" /\ l[j].record.id = r.id
                 \/ /\ Supersedes /\ j \in queued
                    /\ l[j].record.body.admits /\ l[j].record.body.key = r.body.key

\* A line that says its record is abandoned; an older writer's does not name
\* the event.
SaysAbandoned(line) ==
  \/ line.event = "abandoned"
  \/ line.event \in {"queued", "none"} /\ line.record.abandoned

\* Two claimants are never handed one record, unless it was marked abandoned
\* and a live question took the slot from it (`claim`, `apply`).
HandedOutOnceUnlessAbandoned(l) ==
  \A i, j \in ClaimsAt(l) :
    i < j /\ l[i].record.id = l[j].record.id =>
      \E k \in 1..j : SaysAbandoned(l[k]) /\ l[k].record.id = l[j].record.id

\* A claim goes to the record the queue's order says, judged by the log and not
\* by what the claimant's projection happened to hold (`claim`): never a
\* non-blocking one past a waiting live question, never an abandoned one past
\* a live one.
ClaimsFollowTheOrder(l) ==
  \A i \in ClaimsAt(l) :
    LET before == FoldOf(l, i - 1)
        r      == l[i].record
    IN  /\ Positions(before.waiting, r.id) # {}
        /\ r.abandoned => WaitingAt(before, Live) = {}
        /\ (BlockingFirst /\ ~r.body.blocking) => WaitingAt(before, Live \cap Blocking) = {}

\* Replies race for the pending slot and one of them releases it: a line says
\* a record was answered only where that record held the slot (`answer`).
AnsweredOnlyWhilePending(l) ==
  \A i \in 1..Len(l) :
    l[i].event = "answered" => Pends(FoldOf(l, i - 1), l[i].record.id)

\* Every line is about a record a line up to it brought into the queue, and carries
\* the body it came with: `mark` also marks a record the queue holds no more, and
\* writes what it finds of it in the log.
NamesTheQueued(l) ==
  \A i \in 1..Len(l) :
    l[i].event # "unreadable" =>
      \E j \in QueuedAt(l) : j <= i /\ l[j].record.id = l[i].record.id
                            /\ l[j].record.body = l[i].record.body

InOrder(l) ==
  /\ IdsIncrease(l)
  /\ NamesTheQueued(l)
  /\ NothingLost(l)
  /\ HandedOutOnceUnlessAbandoned(l)
  /\ ClaimsFollowTheOrder(l)
  /\ AnsweredOnlyWhilePending(l)

\* A queue is opened on a log that is in order: an empty one, or one a queue left.
ASSUME OldLogsAssumption == \A l \in OldLogs : InOrder(l)

\* The log tells one story, whoever crashed, failed or overtook whom: its ids go up,
\* nothing accepted is missing from it, no line is about a record it does not queue,
\* none is handed out twice, none out of its turn, and none is answered that did not hold the slot (`record`, `apply`).
LogInOrder == InOrder(log)

----------------------------------------------------------------------------
(* Progress.  A process in the middle of a call goes on, unless it crashes *)
(* or the transport fails it; nothing says anybody begins a call, and      *)
(* nothing is assumed of whoever waits for the section.                    *)

GoesOn(p) ==
  \/ AppendLine(p) \/ Project(p) \/ TransportFails(p)
  \/ ReadLog(p) \/ Repair(p) \/ Place(p)

Fairness == \A p \in Procs : WF_vars(GoesOn(p))

\* A call ends: its section is left again, also by a caller that fails or crashes
\* half way through its lines, and a read ends though others write the log and the
\* projection it reads (`record`, `snapshot`, `pending_at`).
CallsEnd ==
  \A p \in Procs :
    holder = p \/ pc[p] \in {"log", "repair", "place"}
      ~> holder # p /\ pc[p] \in {"idle", "enter"}
=============================================================================
