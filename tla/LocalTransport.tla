--------------------------- MODULE LocalTransport ---------------------------
(***************************************************************************)
(* A plain, numbered queue in a directory                                  *)
(* (src/crates/onemessagebus/src/transport.rs, `LocalTransport`, as        *)
(* `RawQueue` in queue.rs uses it): a file of lines, a cursor file for     *)
(* each consumer and two checkpoints that spare reading the whole log.     *)
(*                                                                         *)
(* Pushes and claims hold the queue's lock; a look at what waits takes no  *)
(* lock and reads between anybody's steps.  A process can die anywhere,    *)
(* leaving part of a line behind; the log can be deleted or cut short; an  *)
(* older release that knows no checkpoints can claim.                      *)
(*                                                                         *)
(* A file is a sequence of cells.  A record's line is the record's text    *)
(* in as many cells as its kind is wide, and a newline; a position is the  *)
(* number of cells before it.                                              *)
(***************************************************************************)
EXTENDS Integers, Sequences, FiniteSets, SequencesExt

CONSTANTS
  Procs,        \* processes
  Nobody,       \* nobody holds the lock
  Consumers,    \* named consumers
  Files,        \* what tells one records file from another (`measure`)
  NoFile,       \* there is no records file
  Kinds,        \* kinds of record
  Width,        \* how many cells the text of a kind takes
  Admitted,     \* the kinds the declaration's `claims` admits
  Newline,
  NoCheckpoint, \* a checkpoint that is missing or cannot be read
  OldCells,     \* what a records file can hold at first
  MaxPushed,    \* bound: no push begins on a log of so many records
  MaxMeddling   \* bound: how often the log is deleted or cut short

ASSUME LocalAssumption ==
  /\ Nobody \notin Procs
  /\ NoFile \notin Files
  /\ Width \in [Kinds -> Nat \ {0}]
  /\ Admitted \subseteq Kinds
  /\ Kinds # {} /\ Consumers # {} /\ Files # {}
  /\ Newline \notin [id : Nat, kind : Kinds]
  /\ {MaxPushed, MaxMeddling} \subseteq Nat

VARIABLES
  disk,     \* the cells of each file
  named,    \* the file under the queue's name
  cursor,   \* each consumer's cursor file: a number of records
  offset,   \* each consumer's offset checkpoint
  tally,    \* the queue's record-count checkpoint
  holder,   \* who holds the queue's lock
  pc,       \* where each process is
  job,      \* what each process is doing and has read
  meddled   \* how often the log was deleted or cut short

localVars == <<disk, named, cursor, offset, tally, holder, pc, job, meddled>>

Texts == [id : Nat, kind : Kinds]
Cells == Texts \cup {Newline}
Checkpoints ==
  [count : Nat, offset : Nat, digest : Seq(Cells), file : Files, cursor : Nat]

----------------------------------------------------------------------------
(* Lines. *)

LineOf(text) ==
  [i \in 1..(Width[text.kind] + 1) |-> IF i <= Width[text.kind] THEN text ELSE Newline]

Least(S) == CHOOSE m \in S : \A n \in S : m <= n
Greatest(S) == CHOOSE m \in S : \A n \in S : n <= m

IsBoundary(cells, at) == at = 0 \/ (at \in 1..Len(cells) /\ cells[at] = Newline)

\* The last record boundary of a file (`boundary_before`).
Boundary(cells) == Greatest({at \in 0..Len(cells) : IsBoundary(cells, at)})

Healed_DropsNewline(cells) ==
  IF Boundary(cells) = Len(cells) THEN cells ELSE SubSeq(cells, 1, Boundary(cells) - 1)

\* `heal`: a torn tail is cut off.
Healed(cells) == SubSeq(cells, 1, Boundary(cells))

\* Where the records end that start after `from` and end by `to` (`scan`): a
\* blank line is no record, nor is a torn tail.
CallEnds(cells, from, to) ==
  {at \in (from + 2)..to : cells[at] = Newline /\ cells[at - 1] # Newline}

\* The first n of a set of positions.
FirstOf(S, n) == {at \in S : Cardinality({other \in S : other <= at}) <= n}

\* The line that ends at `at`, without its newline: what a digest is taken of.
LineBefore(cells, at) == SubSeq(cells, Boundary(SubSeq(cells, 1, at - 1)) + 1, at - 1)

\* Each record's line is its text, numbered by the records before it.
IsNumbered(cells) ==
  \A at \in CallEnds(cells, 0, Len(cells)) :
    LET text == cells[at - 1]
    IN  /\ LineBefore(cells, at) = [i \in 1..Width[text.kind] |-> text]
        /\ text.id = Cardinality(CallEnds(cells, 0, at)) - 1

\* A records file found is a numbered queue's: blank lines and a torn tail can be in it.
ASSUME OldCellsAssumption ==
  \A cells \in OldCells : cells \in Seq(Cells) /\ IsNumbered(cells)

----------------------------------------------------------------------------
(* Checkpoints. *)

StartOf(file) == [count |-> 0, offset |-> 0, digest |-> <<>>, file |-> file, cursor |-> 0]

Holds_Undigested(checkpoint, file, end) ==
  /\ checkpoint # NoCheckpoint
  /\ checkpoint.file = file
  /\ checkpoint.offset <= end
  /\ IsBoundary(disk[file], checkpoint.offset)

\* Whether a checkpoint holds of the first `end` cells of a file.
Holds(checkpoint, file, end) ==
  /\ checkpoint # NoCheckpoint
  /\ checkpoint.file = file
  /\ checkpoint.offset <= end
  /\ checkpoint.count > 0 =>
       /\ checkpoint.offset > 0 /\ IsBoundary(disk[file], checkpoint.offset)
       /\ LineBefore(disk[file], checkpoint.offset) = checkpoint.digest

\* base moved on past the records that end at the positions in S.
Advanced(cells, base, S) ==
  IF S = {} THEN base
  ELSE [base EXCEPT !.count = @ + Cardinality(S),
                    !.offset = Greatest(S),
                    !.digest = LineBefore(cells, Greatest(S)),
                    !.cursor = base.count + Cardinality(S)]

\* `cursor_checkpoint`: a consumer's checkpoint, kept for `count`.
CursorHolds(c, count, file, end) ==
  /\ Holds(offset[c], file, end)
  /\ offset[c].cursor = count
  /\ offset[c].count <= count

----------------------------------------------------------------------------
Absent == -1    \* there is no cursor file, or it holds no number

\* What a process works with: the kind it pushes or the consumer it reads for,
\* the file it opened and its length then, a count, a position and a checkpoint
\* to keep.
NoJob == [op |-> "none", kind |-> CHOOSE k \in Kinds : TRUE,
          consumer |-> CHOOSE c \in Consumers : TRUE,
          file |-> NoFile, end |-> 0, count |-> 0, at |-> 0, keep |-> NoCheckpoint]

LocalInit ==
  /\ named \in {NoFile, CHOOSE f \in Files : TRUE}
  /\ disk \in [Files -> {<<>>} \cup OldCells]
  /\ \A f \in Files : f # named => disk[f] = <<>>
  /\ cursor = [c \in Consumers |-> Absent]
  /\ offset = [c \in Consumers |-> NoCheckpoint]
  /\ tally = NoCheckpoint
  /\ holder = Nobody
  /\ pc = [p \in Procs |-> "idle"]
  /\ job = [p \in Procs |-> NoJob]
  /\ meddled = 0

\* The records file as it is now; none has no cells.
LogNow == IF named = NoFile THEN <<>> ELSE disk[named]

Goto(p, label) == pc' = [pc EXCEPT ![p] = label]

\* The call of p ends, and p leaves the lock it may hold.
Return(p) ==
  /\ Goto(p, "idle")
  /\ job' = [job EXCEPT ![p] = NoJob]
  /\ holder' = IF holder = p THEN Nobody ELSE holder

\* `exclusive`: the lock is taken and the log healed.
Enter(p) ==
  /\ pc[p] = "idle"
  /\ holder = Nobody
  /\ holder' = p
  /\ disk' = IF named = NoFile THEN disk ELSE [disk EXCEPT ![named] = Healed(@)]

Push(p, kind) ==
  /\ Cardinality(CallEnds(LogNow, 0, Len(LogNow))) < MaxPushed
  /\ Enter(p)
  /\ job' = [job EXCEPT ![p] = [NoJob EXCEPT !.op = "push", !.kind = kind]]
  /\ Goto(p, "count")
  /\ UNCHANGED <<named, cursor, offset, tally, meddled>>

\* `cursor`: the cursor file is read; a consumer without one, or at 0, is at the
\* start of the log.
ReadCursor(p, op, c) ==
  /\ job' = [job EXCEPT ![p] = [NoJob EXCEPT !.op = op, !.consumer = c,
                                             !.count = IF cursor[c] > 0 THEN cursor[c] ELSE 0]]
  /\ Goto(p, IF cursor[c] > 0 THEN "open" ELSE "read")

Claim_Unlocked(p, c) ==
  /\ pc[p] = "idle"
  /\ ReadCursor(p, "claim", c)
  /\ UNCHANGED <<disk, named, cursor, offset, tally, holder, meddled>>

\* A claim reads the cursor in the lock, where nobody moves it any more.
ClaimFor(p, c) ==
  /\ Enter(p)
  /\ ReadCursor(p, "claim", c)
  /\ UNCHANGED <<named, cursor, offset, tally, meddled>>

\* `count_in`: the records are counted on from the queue's checkpoint, which
\* moves with them unless writing it fails.
Count(p) ==
  /\ pc[p] = "count"
  /\ IF named = NoFile
     THEN UNCHANGED <<tally, job>>
     ELSE LET base == IF Holds(tally, named, Len(LogNow)) THEN tally ELSE StartOf(named)
              now  == Advanced(LogNow, base, CallEnds(LogNow, base.offset, Len(LogNow)))
          IN  /\ tally' \in {tally, IF now = base THEN tally ELSE now}
              /\ job' = [job EXCEPT ![p].count = now.count]
  /\ Goto(p, "write")
  /\ UNCHANGED <<disk, named, cursor, offset, holder, meddled>>

\* Files no process has open, so that a new file can be one of them again.
Unopened == {f \in Files : f # named /\ \A p \in Procs : job[p].file # f}

Numbered(p) == LineOf([id |-> job[p].count, kind |-> job[p].kind])

\* `append_locked`: the file is created if need be, and part of the line reaches
\* it: none of it, its first cell or all but the newline.
WriteBegins(p) ==
  /\ pc[p] = "write"
  /\ \E n \in {0, 1, Width[job[p].kind]} :
       LET part == SubSeq(Numbered(p), 1, n)
       IN  /\ job' = [job EXCEPT ![p].at = Len(LogNow), ![p].end = n]
           /\ IF named = NoFile
              THEN \E f \in Unopened : /\ named' = f
                                       /\ disk' = [disk EXCEPT ![f] = part]
              ELSE /\ disk' = [disk EXCEPT ![named] = @ \o part]
                   /\ UNCHANGED named
  /\ Goto(p, "rest")
  /\ UNCHANGED <<cursor, offset, tally, holder, meddled>>

\* The rest of it, and the push returns.
WriteEnds(p) ==
  /\ pc[p] = "rest"
  /\ disk' = [disk EXCEPT ![named] = @ \o SubSeq(Numbered(p), job[p].end + 1, Len(Numbered(p)))]
  /\ Return(p)
  /\ UNCHANGED <<named, cursor, offset, tally, meddled>>

\* The write fails; what reached the file is taken back off it, unless that
\* fails too.
WriteFails(p) ==
  /\ pc[p] = "rest"
  /\ disk' \in {disk, [disk EXCEPT ![named] = SubSeq(@, 1, job[p].at)]}
  /\ Return(p)
  /\ UNCHANGED <<named, cursor, offset, tally, meddled>>

\* `waiting`, `status`: a look at a consumer's cursor takes no lock.
Look(p, c) ==
  /\ pc[p] = "idle"
  /\ ReadCursor(p, "look", c)
  /\ UNCHANGED <<disk, named, cursor, offset, tally, holder, meddled>>

\* The records file is opened and measured.
Open(p) ==
  /\ pc[p] = "open"
  /\ IF named = NoFile
     THEN job' = [job EXCEPT ![p].count = 0] /\ Goto(p, "read")
     ELSE /\ job' = [job EXCEPT ![p].file = named, ![p].end = Len(disk[named])]
          /\ Goto(p, "position")
  /\ UNCHANGED <<disk, named, cursor, offset, tally, holder, meddled>>

\* What of the opened file a reader sees of what it measured.
Seen(p) ==
  LET cells == disk[job[p].file]
  IN  SubSeq(cells, 1, Least({job[p].end, Len(cells)}))

\* The position after so many records, read on from the checkpoint if it holds.
Place(p) ==
  /\ pc[p] = "position"
  /\ LET j     == job[p]
         cells == Seen(p)
         base  == IF CursorHolds(j.consumer, j.count, j.file, j.end)
                  THEN offset[j.consumer]
                  ELSE [StartOf(j.file) EXCEPT !.cursor = j.count]
         first == FirstOf(CallEnds(cells, base.offset, Len(cells)), j.count - base.count)
         now   == [Advanced(cells, base, first) EXCEPT !.cursor = j.count]
     IN  /\ job' = [job EXCEPT ![p] = [@ EXCEPT !.file = NoFile, !.end = 0, !.count = 0,
                                               !.at = now.offset,
                                               !.keep = IF now = base THEN NoCheckpoint ELSE now]]
         /\ Goto(p, IF now = base THEN "read" ELSE "keep")
  /\ UNCHANGED <<disk, named, cursor, offset, tally, holder, meddled>>

\* The checkpoint is kept, unless writing it fails.
Keep(p) ==
  /\ pc[p] = "keep"
  /\ offset' \in {offset, [offset EXCEPT ![job[p].consumer] = job[p].keep]}
  /\ job' = [job EXCEPT ![p].keep = NoCheckpoint]
  /\ Goto(p, "read")
  /\ UNCHANGED <<disk, named, cursor, tally, holder, meddled>>

\* The records that end after `at` and that a claim hands out.
Claimable(at) == {e \in CallEnds(LogNow, at, Len(LogNow)) : LogNow[e - 1].kind \in Admitted}

\* The look reads what waits and ends; the claim takes the first of it.
ReadOn(p) ==
  /\ pc[p] = "read"
  /\ IF job[p].op = "look" \/ Claimable(job[p].at) = {}
     THEN Return(p)
     ELSE /\ job' = [job EXCEPT ![p].at = Least(Claimable(job[p].at))]
          /\ Goto(p, "commit")
          /\ UNCHANGED holder
  /\ UNCHANGED <<disk, named, cursor, offset, tally, meddled>>

\* `commit`: the records before the position are counted, on from the cursor's
\* checkpoint where one holds that is not past it, and the cursor written.
Commit(p) ==
  /\ pc[p] = "commit"
  /\ LET c     == job[p].consumer
         at    == job[p].at
         base  == IF /\ cursor[c] > 0
                     /\ CursorHolds(c, cursor[c], named, Len(LogNow))
                     /\ offset[c].offset <= at
                  THEN offset[c] ELSE StartOf(named)
         now   == Advanced(LogNow, base, CallEnds(LogNow, base.offset, at))
     IN  /\ cursor' = [cursor EXCEPT ![c] = now.count]
         /\ job' = [job EXCEPT ![p].keep = now]
  /\ Goto(p, "committed")
  /\ UNCHANGED <<disk, named, offset, tally, holder, meddled>>

\* The checkpoint is written after the cursor, and the record handed over.
Hand(p) ==
  /\ pc[p] = "committed"
  /\ offset' \in {offset, [offset EXCEPT ![job[p].consumer] = job[p].keep]}
  /\ Return(p)
  /\ UNCHANGED <<disk, named, cursor, tally, meddled>>

\* p dies, or the transport fails what it does; the lock is released.
Crash(p) ==
  /\ pc[p] # "idle"
  /\ Return(p)
  /\ UNCHANGED <<disk, named, cursor, offset, tally, meddled>>

----------------------------------------------------------------------------
(* What others do to the directory. *)

\* A release without checkpoints claims: it moves the cursor alone.
OldClaim(c) ==
  /\ holder = Nobody
  /\ LET all  == CallEnds(LogNow, 0, Len(LogNow))
         past == {e \in all : e \notin FirstOf(all, cursor[c]) /\ LogNow[e - 1].kind \in Admitted}
     IN  /\ past # {}
         /\ cursor' = [cursor EXCEPT ![c] = Cardinality({e \in all : e <= Least(past)})]
  /\ UNCHANGED <<disk, named, offset, tally, holder, pc, job, meddled>>

\* Somebody deletes the log, or cuts it short, between calls that hold the lock.
Meddle ==
  /\ holder = Nobody
  /\ named # NoFile
  /\ meddled < MaxMeddling
  /\ meddled' = meddled + 1
  /\ \/ named' = NoFile /\ UNCHANGED disk
     \/ /\ \E at \in 0..(Len(LogNow) - 1) :
             IsBoundary(LogNow, at) /\ disk' = [disk EXCEPT ![named] = SubSeq(@, 1, at)]
        /\ UNCHANGED named
  /\ UNCHANGED <<cursor, offset, tally, holder, pc, job>>

\* The checkpoints are deleted.
Forget ==
  /\ tally' = NoCheckpoint
  /\ offset' = [c \in Consumers |-> NoCheckpoint]
  /\ UNCHANGED <<disk, named, cursor, holder, pc, job, meddled>>

LocalNext ==
  \/ \E p \in Procs :
       \/ \E k \in Kinds : Push(p, k)
       \/ \E c \in Consumers : ClaimFor(p, c) \/ Look(p, c)
       \/ Count(p) \/ WriteBegins(p) \/ WriteEnds(p) \/ WriteFails(p)
       \/ Open(p) \/ Place(p) \/ Keep(p) \/ ReadOn(p)
       \/ Commit(p) \/ Hand(p) \/ Crash(p)
  \/ \E c \in Consumers : OldClaim(c)
  \/ Meddle \/ Forget

LocalSpec == LocalInit /\ [][LocalNext]_localVars
----------------------------------------------------------------------------
(* Correctness. *)

\* Every variable has its type: the one type invariant of the module.
LocalTypeOK ==
  /\ disk \in [Files -> Seq(Cells)]
  /\ named \in Files \cup {NoFile}
  /\ cursor \in [Consumers -> Nat \cup {Absent}]
  /\ offset \in [Consumers -> Checkpoints \cup {NoCheckpoint}]
  /\ tally \in Checkpoints \cup {NoCheckpoint}
  /\ holder \in Procs \cup {Nobody}
  /\ pc \in [Procs -> {"idle", "count", "write", "rest", "open", "position", "keep",
                       "read", "commit", "committed"}]
  /\ job \in [Procs -> [op : {"none", "push", "claim", "look"}, kind : Kinds,
                        consumer : Consumers, file : Files \cup {NoFile}, end : Nat,
                        count : Nat, at : Nat, keep : Checkpoints \cup {NoCheckpoint}]]
  /\ meddled \in 0..MaxMeddling

\* Checkpoints are a cache and nothing else: whoever wrote or deleted them, in
\* whatever order, over a log deleted or cut short since, a cursor is placed
\* where a read of the whole log places it, and a commit writes the number of
\* records before its position (`cursor`, `commit`).
CheckpointsChangeNoAnswer ==
  [][\A p \in Procs :
       /\ pc[p] = "position" /\ pc'[p] \in {"keep", "read"} =>
            job'[p].at = Greatest({0} \cup FirstOf(CallEnds(Seen(p), 0, Len(Seen(p))), job[p].count))
       /\ pc[p] = "commit" /\ pc'[p] = "committed" =>
            cursor'[job[p].consumer] = Cardinality(CallEnds(LogNow, 0, job[p].at))]_localVars

\* A numbered record carries the number of records before it, also after a torn
\* write, a failed one, or a log deleted or cut short under the checkpoint
\* (`push_judged`, `count_in`).
NumberedByPlace == IsNumbered(LogNow)

\* A position answered stays a record boundary of the log: what reads on from
\* there sees whole records, though it holds no lock (`read_in`).
PositionsStay ==
  meddled = 0 =>
    \A p \in Procs : pc[p] \in {"keep", "read", "commit"} => IsBoundary(LogNow, job[p].at)

\* Places hold: a record is numbered by its place, and a place answered stays one
\* (`push_judged`, `read_in`).
PlacesHold == NumberedByPlace /\ PositionsStay

\* What is done stays done.  What was whole in the log stays in it, whatever is healed
\* or taken back (`heal`, `append_locked`).  A record claimed lies behind the consumer's
\* cursor for good, whichever process or release claims and whatever becomes of the log:
\* the cursor moves past it before it is handed over, and never back (`commit`).
DoneStaysDone ==
  [][/\ disk' # disk /\ meddled' = meddled =>
          IsPrefix(SubSeq(LogNow, 1, Boundary(LogNow)), disk'[named'])
     /\ \A c \in Consumers : cursor'[c] >= cursor[c]
     /\ \A p \in Procs :
          pc[p] = "commit" /\ pc'[p] = "committed" =>
            cursor'[job[p].consumer] > cursor[job[p].consumer]]_localVars
=============================================================================
