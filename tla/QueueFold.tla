----------------------------- MODULE QueueFold -----------------------------
(***************************************************************************)
(* What an event queue's log means: the fold of its lines                  *)
(* (src/crates/onemessagebus/src/queue.rs, `RawQueue::apply`).             *)
(*                                                                         *)
(* A line says what happened to one record.  The queue owns four fields of *)
(* a record -- id, blocking, abandoned, asker -- and, when its policy      *)
(* supersedes, the value of one more (the key) and whether `when` admits   *)
(* the record.  All but id and abandoned are fixed when the record is      *)
(* offered, so they are the record's body here, a member of Bodies.        *)
(***************************************************************************)
EXTENDS Integers, Sequences, SequencesExt

CONSTANTS
  Bodies,         \* what can be offered: [blocking, asker, key, admits]
  Askers,         \* who can raise a record
  Keys,           \* values of the field `supersede_on.key` names
  NoRecord,       \* the empty pending slot (None)
  MaxId,          \* u64::MAX: an id no queue allocates
  HoldPending,    \* policy.hold_pending
  BlockingFirst,  \* policy.blocking_first
  Supersedes      \* policy.supersede_on is present

ASSUME FoldAssumption ==
  /\ Bodies \subseteq [blocking : BOOLEAN, asker : Askers, key : Keys, admits : BOOLEAN]
  /\ MaxId \in Nat \ {0}
  /\ {HoldPending, BlockingFirst, Supersedes} \subseteq BOOLEAN
  /\ NoRecord \notin [id : 0..MaxId, abandoned : BOOLEAN, body : Bodies]

Records == [id : 0..MaxId, abandoned : BOOLEAN, body : Bodies]

\* "none" is a line an older writer left, which names no event; "unreadable"
\* stands for a whole line `parse_line` makes nothing of.
Events == {"queued", "claimed", "answered", "abandoned", "attended"}
Lines  == [event : Events \cup {"none", "unreadable"}, record : Records]

Folded == [waiting : Seq(Records), pending : Records \cup {NoRecord}, next_id : 0..MaxId]

\* Folded::default(): nothing waits, nothing is pending, the next id is 0.
EmptyFold == [waiting |-> <<>>, pending |-> NoRecord, next_id |-> 0]

Line(event, record) == [event |-> event, record |-> record]

----------------------------------------------------------------------------
(* The transitions, one for each event. *)

\* An older writer logged a record when it queued it and again when it marked
\* it, and never named the event.
EventOf(f, line) ==
  IF line.event # "none" THEN line.event
  ELSE IF line.record.id >= f.next_id THEN "queued"
  ELSE IF line.record.abandoned THEN "abandoned"
  ELSE "attended"

Larger(m, n) == IF m >= n THEN m ELSE n

\* The members of S a sequence of records holds, in its order.
Chosen(records, S) ==
  LET chosen[n \in 0..Len(records)] ==
        IF n = 0 THEN <<>>
        ELSE IF records[n] \in S THEN Append(chosen[n - 1], records[n])
        ELSE chosen[n - 1]
  IN  chosen[Len(records)]

\* The waiting records a newly queued one leaves in place.
Kept(waiting, record) ==
  IF Supersedes /\ record.body.admits
  THEN Chosen(waiting, {held \in Records : held.body.key # record.body.key})
  ELSE waiting

ApplyQueued(f, record) ==
  IF record.id = MaxId THEN f
  ELSE [f EXCEPT !.waiting = Append(Kept(@, record), record),
                 !.next_id = Larger(@, record.id + 1)]

\* Where `id` first stands among the waiting records.
Positions(waiting, id) == {i \in 1..Len(waiting) : waiting[i].id = id}
IsFirst(i, S) == i \in S /\ \A j \in S : i <= j
First(S) == CHOOSE i \in S : IsFirst(i, S)

\* A blocking record takes the pending slot; an abandoned one only when
\* nothing holds it.
TakesSlot(f, taken) ==
  /\ HoldPending
  /\ taken.body.blocking
  /\ ~taken.abandoned \/ f.pending = NoRecord

Displaced_WrittenOver(f) == <<>>

\* An abandoned record displaced from the slot is readable again; any other is
\* out of the fold.
Displaced(f) ==
  IF f.pending # NoRecord /\ f.pending.abandoned THEN <<f.pending>> ELSE <<>>

ApplyClaimed(f, id) ==
  IF Positions(f.waiting, id) = {} THEN f
  ELSE LET at    == First(Positions(f.waiting, id))
           taken == f.waiting[at]
           rest  == RemoveAt(f.waiting, at)
       IN  IF TakesSlot(f, taken)
           THEN [f EXCEPT !.waiting = rest \o Displaced(f), !.pending = taken]
           ELSE [f EXCEPT !.waiting = rest]

\* The pending slot holds the record `id`.
Pends(f, id) == f.pending # NoRecord /\ f.pending.id = id

ApplyAnswered(f, id) == IF Pends(f, id) THEN [f EXCEPT !.pending = NoRecord] ELSE f

Marked(record, id, abandoned) ==
  IF record # NoRecord /\ record.id = id
  THEN [record EXCEPT !.abandoned = abandoned]
  ELSE record

ApplyMark(f, id, abandoned) ==
  [f EXCEPT !.waiting = [i \in 1..Len(@) |-> Marked(@[i], id, abandoned)],
            !.pending = Marked(@, id, abandoned)]

Apply(f, line) ==
  LET event  == EventOf(f, line)
      record == line.record
  IN  CASE event = "queued"     -> ApplyQueued(f, record)
        [] event = "claimed"    -> ApplyClaimed(f, record.id)
        [] event = "answered"   -> ApplyAnswered(f, record.id)
        [] event = "abandoned"  -> ApplyMark(f, record.id, TRUE)
        [] event = "attended"   -> ApplyMark(f, record.id, FALSE)
        [] event = "unreadable" -> f

----------------------------------------------------------------------------
(* Folding a log.  Each line takes folds to folds, passing over a record with *)
(* an id below floor (0 passes over nothing); Folds(f, floor, log, from)[n] is *)
(* f taken on by the lines of log after the first `from`, up to the n-th.   *)

FoldStep(f, floor, line) ==
  IF line.event # "unreadable" /\ line.record.id < floor THEN f ELSE Apply(f, line)

Folds(f, floor, log, from) ==
  LET step[n \in (from + 1)..Len(log)] == [g \in Folded |-> FoldStep(g, floor, log[n])]
      fold[n \in from..Len(log)] == IF n = from THEN f ELSE step[n][fold[n - 1]]
  IN  fold

FoldFrom(f, floor, log, from) == Folds(f, floor, log, from)[Len(log)]

\* The state the first n lines of a log say the queue is in.
FoldOf(log, n) == Folds(EmptyFold, 0, log, 0)[n]

----------------------------------------------------------------------------
(* What each operation derives from the fold it is shown. *)

Live     == {r \in Records : ~r.abandoned}
Blocking == {r \in Records : r.body.blocking}

\* Where members of S wait.
WaitingAt(f, S) == {i \in 1..Len(f.waiting) : f.waiting[i] \in S}

\* The record a claim hands out: a blocking one nobody abandoned where the
\* policy says so, then the oldest nobody abandoned, then the oldest.
NextClaimed(f) ==
  f.waiting[IF BlockingFirst /\ WaitingAt(f, Live \cap Blocking) # {}
            THEN First(WaitingAt(f, Live \cap Blocking))
            ELSE IF WaitingAt(f, Live) # {} THEN First(WaitingAt(f, Live))
            ELSE 1]

\* The records the fold holds, waiting ones first.
HeldRecords(f) == f.waiting \o (IF f.pending = NoRecord THEN <<>> ELSE <<f.pending>>)

\* One line for every held record in S, marking it, in the fold's order.
MarkLines(f, event, S) ==
  LET chosen == Chosen(HeldRecords(f), S)
  IN  [i \in 1..Len(chosen) |->
         Line(event, [chosen[i] EXCEPT !.abandoned = (event = "abandoned")])]

----------------------------------------------------------------------------
(* What the log itself is asked, past the fold. *)

\* Where it records claims.
ClaimsAt(l) == {i \in 1..Len(l) : l[i].event = "claimed"}

\* Whether the latest mark on `id` in the log says abandoned.
MarkLinesAt(l, id) ==
  {i \in 1..Len(l) : /\ l[i].record.id = id
                     /\ l[i].event \in {"queued", "none", "abandoned", "attended"}}
IsMarkedAbandoned(l, id) ==
  \E i \in MarkLinesAt(l, id) :
    /\ \A j \in MarkLinesAt(l, id) : j <= i
    /\ \/ l[i].event = "abandoned"
       \/ l[i].event \in {"queued", "none"} /\ l[i].record.abandoned

\* Where the latest claim of `id` was recorded; 0 when the log records none.
ClaimPosition(l, id) ==
  LET at == {i \in ClaimsAt(l) : l[i].record.id = id}
  IN  IF at = {} THEN 0 ELSE CHOOSE i \in at : \A j \in at : j <= i

\* The record `mark` writes: as the fold holds it, or else as it was queued.
RecordFor(f, l, id) ==
  LET held == {i \in 1..Len(HeldRecords(f)) : HeldRecords(f)[i].id = id}
      born == {i \in 1..Len(l) : l[i].record.id = id /\ l[i].event \in {"queued", "none"}}
  IN  IF held # {} THEN HeldRecords(f)[First(held)] ELSE l[First(born)].record

=============================================================================
