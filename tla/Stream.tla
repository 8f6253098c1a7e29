-------------------------------- MODULE Stream --------------------------------
(***************************************************************************)
(* A stream file: Emitter writes envelopes to it, Reader reads them back   *)
(* and resumes, Merge folds what was read in (ts, stream, seq) order.      *)
(*                                                                         *)
(* An emitter is "single", threads of one process that count seq in        *)
(* memory, or "shared", processes that each count what the file holds      *)
(* under its lock and write inside that turn.  The file is a sequence of   *)
(* pieces, the two halves of an envelope's text and the newline that ends  *)
(* its line, and a reader takes it in two reads: what is there, and what   *)
(* has come after that.  What an envelope carries besides is left out: the *)
(* filter admits it or does not, and redaction and bounds are functions of *)
(* its payload.                                                            *)
(***************************************************************************)
EXTENDS Integers, Sequences, FiniteSets, SequencesExt

CONSTANTS
  Writers,      \* the threads or processes that emit
  Readers,      \* the ones that read, and resume
  Sinks,        \* which kinds of sink: a subset of {"single", "shared"}
  MaxEmits,     \* how many envelopes are stamped
  MaxReads,     \* how often each reader reads on
  MaxFaults     \* how many writes fail, how many processes die

ASSUME StreamAssumption ==
  /\ "free" \notin Writers
  /\ Sinks \subseteq {"single", "shared"}
  /\ {MaxEmits, MaxReads, MaxFaults} \subseteq Nat

VARIABLES
  sink,         \* which kind of emitter writes
  file,         \* the pieces in the file
  sinkLock,     \* who has the writer's mutex, or the file's lock
  counter,      \* the sequence counted in memory
  clock,        \* how many stamps were taken: ts
  emitter,      \* of each writer: where it is
  envelope,     \* the envelope it is at
  emits,        \* how many are left to stamp
  acknowledged, \* the envelopes whose emit returned Ok, and wrote
  spoiled,      \* a write to this sink has failed half way
  position,     \* where each reader resumes from
  head,         \* the pieces of the read it is in
  spliced,      \* whether its two reads once took two things for one line
  readings,     \* what it has read: the whole lines, one after the other
  reads, faults

streamVars == <<sink, file, sinkLock, counter, clock, emitter, envelope, emits,
                acknowledged, spoiled, position, head, readings, spliced, reads, faults>>
written == <<file, acknowledged, spoiled>>
reading == <<position, head, readings, spliced, reads>>

NL == [is |-> "newline"]
Half(e) == [is |-> "first half", of |-> e]
Rest(e) == [is |-> "second half", of |-> e]
Unread == <<[is |-> "nothing"]>>
NoEnvelope == [by |-> "nobody", ts |-> 0, seq |-> 0]

\* Where the file's lines end.
NewlinesIn(pieces) == {i \in 1..Len(pieces) : pieces[i] = NL}
LastNewline(pieces) == Max(NewlinesIn(pieces) \cup {0})

\* Where the n-th line ends; the first one begins at the start.
LineEnd(pieces, n) ==
  IF n = 0 THEN 0
  ELSE CHOOSE i \in NewlinesIn(pieces) : Cardinality({j \in NewlinesIn(pieces) : j <= i}) = n

\* The whole lines of `pieces`, in order: read_lines without the torn tail.
WholeLines(pieces) ==
  [n \in 1..Cardinality(NewlinesIn(pieces)) |->
     SubSeq(pieces, LineEnd(pieces, n - 1) + 1, LineEnd(pieces, n) - 1)]

\* parse_line: what a whole line reads as, an envelope or a refusal.
Parsed(line) == IF \E e \in {line[i].of : i \in 1..Len(line)} : line = <<Half(e), Rest(e)>>
                THEN line[1].of ELSE NoEnvelope

StreamInit ==
  /\ sink \in Sinks /\ file = <<>> /\ sinkLock = "free" /\ counter = 0 /\ clock = 0
  /\ emitter = [w \in Writers |-> "idle"] /\ envelope = [w \in Writers |-> NoEnvelope]
  /\ emits = MaxEmits /\ acknowledged = {} /\ spoiled = FALSE
  /\ position = [r \in Readers |-> 0] /\ readings = [r \in Readers |-> <<>>]
  /\ head = [r \in Readers |-> Unread] /\ spliced = [r \in Readers |-> FALSE]
  /\ reads = [r \in Readers |-> MaxReads] /\ faults = MaxFaults

EmitterAt(w, to) == emitter' = [emitter EXCEPT ![w] = to]

\* The envelope is stamped with the time, and its number comes later.
Stamp(w) ==
  /\ emitter[w] = "idle" /\ emits > 0 /\ emits' = emits - 1
  /\ clock' = clock + 1
  /\ envelope' = [envelope EXCEPT ![w] = [by |-> w, ts |-> clock + 1, seq |-> 0]]
  /\ EmitterAt(w, "stamped")
  /\ UNCHANGED <<sink, written, sinkLock, counter, reading, faults>>

\* A single emitter takes the next number, unless the filter does not admit the
\* envelope; one that does not serialize keeps its number and writes nothing.
Number(w) ==
  /\ sink = "single" /\ emitter[w] = "stamped"
  /\ \E outcome \in {"admitted", "not admitted", "unserializable"} :
       /\ counter' = IF outcome = "not admitted" THEN counter ELSE counter + 1
       /\ envelope' = [envelope EXCEPT ![w].seq = counter + 1]
       /\ EmitterAt(w, IF outcome = "admitted" THEN "numbered" ELSE "idle")
  /\ UNCHANGED <<sink, written, sinkLock, clock, emits, reading, faults>>

\* Nobody writes: nobody has the writer's mutex, or the file's lock.
Unlocked == sinkLock = "free"

\* The mutex is taken after the number, not with it.
TakeSink(w) ==
  /\ sink = "single" /\ emitter[w] = "numbered" /\ Unlocked
  /\ sinkLock' = w /\ EmitterAt(w, "writing")
  /\ UNCHANGED <<sink, written, counter, clock, envelope, emits, reading, faults>>

\* recorded: a torn tail is cut away, up to the newline before it.
Mended_WithItsNewline(pieces) ==
  IF pieces # <<>> /\ Last(pieces) # NL
  THEN SubSeq(pieces, 1, Max({LastNewline(pieces) - 1, 0})) ELSE pieces
Mended(pieces) == SubSeq(pieces, 1, LastNewline(pieces))

\* A shared emitter opens and locks the file, heals it and counts its lines.
Turn(w) ==
  /\ sink = "shared" /\ emitter[w] = "stamped" /\ Unlocked
  /\ file' = Mended(file)
  /\ envelope' = [envelope EXCEPT ![w].seq = Cardinality(NewlinesIn(file)) + 1]
  /\ \/ sinkLock' = w /\ EmitterAt(w, "writing")
     \/ sinkLock' = "free" /\ EmitterAt(w, "idle")        \* not admitted, unserializable
  /\ UNCHANGED <<sink, counter, clock, emits, acknowledged, spoiled, reading, faults>>

\* The file cannot be opened or locked.
NoTurn(w) ==
  /\ sink = "shared" /\ emitter[w] = "stamped" /\ faults > 0 /\ faults' = faults - 1
  /\ EmitterAt(w, "idle")
  /\ UNCHANGED <<sink, written, sinkLock, counter, clock, envelope, emits, reading>>

\* Some of the line has reached the file, all of it but the newline at most.
WriteSome(w) ==
  /\ emitter[w] = "writing"
  /\ \E some \in {<<Half(envelope[w])>>, <<Half(envelope[w]), Rest(envelope[w])>>} :
       file' = file \o some
  /\ EmitterAt(w, "written")
  /\ UNCHANGED <<sink, sinkLock, counter, clock, envelope, emits, acknowledged, spoiled,
                 reading, faults>>

Finished(w) == IF file # <<>> /\ Last(file) = Half(envelope[w])
               THEN file \o <<Rest(envelope[w]), NL>> ELSE Append(file, NL)

\* The line is whole, and its emit returns.
WriteRest(w) ==
  /\ emitter[w] = "written"
  /\ file' = Finished(w)
  /\ acknowledged' = acknowledged \cup {envelope[w]}
  /\ sinkLock' = "free" /\ EmitterAt(w, "idle")
  /\ UNCHANGED <<sink, counter, clock, envelope, emits, spoiled, reading, faults>>

\* The write fails: what reached the file stays there, the whole line when it
\* was the flush that failed.
WriteBreaks(w) ==
  /\ faults > 0 /\ faults' = faults - 1
  /\ \/ emitter[w] = "writing" /\ UNCHANGED <<file, spoiled>>
     \/ emitter[w] = "written" /\ spoiled' = TRUE /\ UNCHANGED file
     \/ emitter[w] = "written" /\ file' = Finished(w) /\ UNCHANGED spoiled
  /\ sinkLock' = "free" /\ EmitterAt(w, "idle")
  /\ UNCHANGED <<sink, counter, clock, envelope, emits, acknowledged, reading>>

\* A process of a shared stream dies; what it locked is let go.
Dies(w) ==
  /\ sink = "shared" /\ emitter[w] \notin {"idle", "dead"}
  /\ faults > 0 /\ faults' = faults - 1
  /\ sinkLock' = IF sinkLock = w THEN "free" ELSE sinkLock
  /\ EmitterAt(w, "dead")
  /\ UNCHANGED <<sink, written, counter, clock, envelope, emits, reading>>

\* open_at: a position that is no record boundary is refused.
IsRecordBoundary(p) == p \in NewlinesIn(file) \cup {0}

\* The reader takes what is there.
ReadsHead(r) ==
  /\ head[r] = Unread /\ reads[r] > 0 /\ reads' = [reads EXCEPT ![r] = @ - 1]
  /\ IsRecordBoundary(position[r])
  /\ head' = [head EXCEPT ![r] = SubSeq(file, position[r] + 1, Len(file))]
  /\ UNCHANGED <<sink, written, sinkLock, counter, clock, emitter, envelope, emits, faults,
                 position, readings, spliced>>

\* Where the next reader resumes, once `bytes` were read: after the last whole line.
Resume_AfterTheTail(from, bytes) == from + Len(bytes)
Resume(from, bytes) == from + LastNewline(bytes)

\* It takes what has come since, to the end.  When the tail it took was healed
\* away meanwhile and written over, the two do not belong together.
ReadsRest(r) ==
  LET from  == position[r] + Len(head[r])
      bytes == head[r] \o SubSeq(file, from + 1, Len(file))
  IN  /\ head[r] # Unread /\ head' = [head EXCEPT ![r] = Unread]
      /\ readings' = [readings EXCEPT ![r] = @ \o WholeLines(bytes)]
      /\ position' = [position EXCEPT ![r] = Resume(@, bytes)]
      /\ spliced' = [spliced EXCEPT ![r] =
           @ \/ ~IsPrefix(SubSeq(bytes, 1, LastNewline(bytes)),
                          SubSeq(file, position[r] + 1, Len(file)))]
      /\ UNCHANGED <<sink, written, sinkLock, counter, clock, emitter, envelope, emits,
                     reads, faults>>

StreamNext ==
  \/ \E w \in Writers :
       \/ Stamp(w) \/ Number(w) \/ TakeSink(w) \/ Turn(w) \/ NoTurn(w)
       \/ WriteSome(w) \/ WriteRest(w) \/ WriteBreaks(w) \/ Dies(w)
  \/ \E r \in Readers : ReadsHead(r) \/ ReadsRest(r)

StreamSpec == StreamInit /\ [][StreamNext]_streamVars

-----------------------------------------------------------------------------
(* Merge *)

Before(a, b) == \/ a.ts < b.ts
                \/ a.ts = b.ts /\ a.seq < b.seq

\* The envelopes a reader read, in the order Merge folds one stream in.
Merged(lines) ==
  LET whole == SelectSeq([i \in 1..Len(lines) |-> Parsed(lines[i])],
                         LAMBDA e : e # NoEnvelope)
  IN  SortSeq(whole, Before)

-----------------------------------------------------------------------------
(* What must hold *)

\* A shared file is one gapless series: its whole lines are envelopes, numbered
\* from 1 in the order of the file, whoever wrote, failed or died half way.
OneGaplessSeries ==
  sink = "shared" =>
    LET lines == WholeLines(file) IN
    \A n \in 1..Len(lines) : Parsed(lines[n]).seq = n

\* An emit that returned Ok has its envelope on a line of its own, for good;
\* a single emitter's only until a write fails half way, whose line the next
\* one then continues.
AcknowledgedAreReadable ==
  (sink = "shared" \/ ~spoiled) =>
    LET lines == WholeLines(file) IN
    \A e \in acknowledged : \E n \in 1..Len(lines) : Parsed(lines[n]) = e

\* A reader that resumes has read every whole line once, in the order of the
\* file, whatever was torn, finished or healed away between two of its reads;
\* its position is a boundary even when it was healed away within one.
ResumedReadsTile ==
  \A r \in Readers :
    /\ IsRecordBoundary(position[r])
    /\ spliced[r] \/ readings[r] = WholeLines(SubSeq(file, 1, position[r]))

\* What docs/wire.md says of a reader: what it reports is a line of the file.  TLC
\* refutes it: a tail healed away between two reads of one resume is spliced.
ReadingsAreLines ==
  \A r \in Readers :
    readings[r] = WholeLines(SubSeq(file, 1, position[r]))

\* What docs/wire.md says: within a stream, seq is the order, merged or not.  TLC refutes
\* it: threads take their time and their number in two steps.
SeqIsTheOrder ==
  \A r \in Readers :
    LET merged == Merged(readings[r]) IN
    \A i, j \in 1..Len(merged) : i < j => merged[i].seq < merged[j].seq

\* The file is whole whoever failed or died half way through a line: no number is
\* missing or taken twice, and nothing acknowledged is lost (`recorded`, `emit`).
StreamIntact == OneGaplessSeries /\ AcknowledgedAreReadable
=============================================================================
