-------------------------- MODULE EventQueueProofs --------------------------
(***************************************************************************)
(* Theorems about EventQueue, for every set of processes, every policy and *)
(* every log the queue is opened on.                                       *)
(*                                                                         *)
(* The invariant: in a store no older writer left, every stamped document  *)
(* is the fold of a prefix of the log, whatever was written over it, and   *)
(* whoever is between its decision and its record holds the section and    *)
(* sees the whole log.                                                     *)
(***************************************************************************)
EXTENDS QueuePromise, QueueFoldProofs

\* What a process in the middle of a call holds for the rest of it.
CallsInProgress ==
  \A p \in Procs :
    /\ pc[p] = "enter" => call[p].op \in {"mark", "answer"}
    /\ pc[p] = "append" => todo[p] # <<>>
    /\ call[p].op = "mark" => call[p].id \in Queued

\* No projection without a stamp is in the store, or read from it.
NoneUnstamped ==
  /\ doc.kind # "unstamped"
  /\ \A p \in Procs : seen[p].kind # "unstamped"

IInv ==
  /\ TypeOK
  /\ CallsInProgress
  /\ NoneUnstamped
  /\ ProjectionSound
  /\ WriterUpToDate

----------------------------------------------------------------------------
(* What the operations are built from. *)

LEMMA StampedType ==
  ASSUME NEW v \in Views
  PROVE  Stamped(v) \in Docs
BY DEF Stamped, Views, Docs

LEMMA NothingType == Absent \in Docs /\ NoView \in Views /\ NoCall \in Calls
BY EmptyFoldType DEF Absent, NoView, NoCall, Docs, Views, Calls

\* A document brought up to date is a fold, and the fold of the whole log when
\* the document was sound.
LEMMA CurrentType ==
  ASSUME NEW d \in Docs, NEW l \in Seq(Lines)
  PROVE  Current(d, l) \in Views
<1>1. d.fold \in Folded /\ d.accounted \in Nat /\ Len(l) \in Nat
  BY DEF Docs
<1>2. ASSUME NEW f \in Folded, NEW floor, NEW n \in 0..Len(l)
      PROVE  FoldFrom(f, floor, l, n) \in Folded
  <2>1. Folds(f, floor, l, n) \in [n..Len(l) -> Folded]
    BY FoldsUnroll
  <2> QED BY <1>1, <2>1 DEF FoldFrom
<1>3. 0 \in 0..Len(l)
  BY <1>1
<1>4. Trusted(d, l) => d.accounted \in 0..Len(l)
  BY <1>1 DEF Trusted
<1> QED BY <1>1, <1>2, <1>3, <1>4, EmptyFoldType DEF Current, Views

LEMMA CurrentSound ==
  ASSUME NEW d \in Docs, NEW l \in Seq(Lines), d.kind # "unstamped",
         d.kind = "stamped" => d.accounted <= Len(l) /\ d.fold = FoldOf(l, d.accounted)
  PROVE  Current(d, l) = [fold |-> FoldOf(l, Len(l)), accounted |-> Len(l)]
<1>1. CASE Trusted(d, l)
  <2>1. d.accounted \in 0..Len(l) /\ d.fold = FoldOf(l, d.accounted)
    BY <1>1 DEF Trusted, IsIntact, Docs
  <2>2. FoldFrom(d.fold, 0, l, d.accounted) = FoldOf(l, Len(l))
    BY <2>1, FoldResumes
  <2> QED BY <1>1, <2>2 DEF Current
<1>2. CASE ~Trusted(d, l)
  BY <1>2 DEF Current, FoldFrom, FoldOf
<1> QED BY <1>1, <1>2

\* What each call appends is a sequence of lines.
LEMMA LinesOfType ==
  ASSUME NEW c \in Calls, NEW f \in Folded, NEW l \in Seq(Lines),
         c.op \notin {"read", "answer_at"},
         c.op = "mark" => c.id \in QueuedIn(l)
  PROVE  LinesOf(c, f, l) \in Seq(Lines)
<1>0. f.next_id \in 0..MaxId /\ f.pending \in Records \cup {NoRecord} /\ f.waiting \in Seq(Records)
  BY DEF Folded
<1>1. CASE c.op = "push"
  <2>1. [id |-> f.next_id, abandoned |-> FALSE, body |-> c.body] \in Records
    BY <1>0, <1>1 DEF Calls, Records
  <2>2. Line("queued", [id |-> f.next_id, abandoned |-> FALSE, body |-> c.body]) \in Lines
    BY <2>1 DEF Line, Lines, Events
  <2> QED BY <1>1, <2>2 DEF LinesOf
<1>2. CASE c.op = "claim"
  <2>1. f.waiting # <<>> => Line("claimed", NextClaimed(f)) \in Lines
    BY NextClaimedType DEF Line, Lines, Events
  <2> QED BY <1>2, <2>1 DEF LinesOf
<1>3. CASE c.op \in {"answer", "answer_pending"}
  <2>1. f.pending # NoRecord => Line("answered", f.pending) \in Lines
    BY <1>0 DEF Line, Lines, Events
  <2> QED BY <1>3, <2>1 DEF LinesOf, Pends
<1>4. CASE c.op \in {"abandon", "attend"}
  BY <1>4, MarkLinesType DEF LinesOf
<1>5. CASE c.op = "mark"
  <2>1. RecordFor(f, l, c.id) \in Records /\ c.abandoned \in BOOLEAN
    BY <1>5, RecordForType DEF Calls
  <2>2. Line(IF c.abandoned THEN "abandoned" ELSE "attended",
             [RecordFor(f, l, c.id) EXCEPT !.abandoned = c.abandoned]) \in Lines
    BY <2>1 DEF Line, Lines, Events, Records
  <2> QED BY <1>5, <2>2 DEF LinesOf
<1> QED BY <1>1, <1>2, <1>3, <1>4, <1>5 DEF Calls

----------------------------------------------------------------------------
(* The invariant holds initially and every action keeps it. *)

LEMMA InitInv == Init => IInv
<1> SUFFICES ASSUME Init PROVE IInv
  OBVIOUS
<1> USE DEF Init
<1>1. Emptied(Len(log)) \in Docs
  BY EmptyFoldType, QueueAssumption DEF Emptied, Docs
<1>2. TypeOK
  BY <1>1, NothingType, QueueAssumption DEF TypeOK
<1>3. CallsInProgress /\ WriterUpToDate
  BY DEF CallsInProgress, WriterUpToDate, NoCall
<1>4. NoneUnstamped
  BY DEF NoneUnstamped, Absent, Emptied
<1>5. ProjectionSound
  BY DEF ProjectionSound, Sound, Absent, Emptied
<1> QED BY <1>2, <1>3, <1>4, <1>5 DEF IInv

\* What holds of a process whose call ends.
LEMMA ReturnKeeps ==
  ASSUME IInv, NEW p \in Procs, Return(p), log' = log
  PROVE  /\ pc' \in [Procs -> {"idle", "enter", "append", "project", "log", "repair", "place"}]
         /\ call' \in [Procs -> Calls] /\ view' \in [Procs -> Views]
         /\ seen' \in [Procs -> Docs] /\ todo' \in [Procs -> Seq(Lines)]
         /\ CallsInProgress'
         /\ \A q \in Procs : seen'[q].kind # "unstamped"
         /\ \A q \in Procs : Sound(seen[q])' /\ (pc'[q] = "repair" => Sound(Stamped(view[q]))')
<1> USE DEF IInv, TypeOK, Return
<1>1. /\ pc' \in [Procs -> {"idle", "enter", "append", "project", "log", "repair", "place"}]
      /\ call' \in [Procs -> Calls] /\ view' \in [Procs -> Views]
      /\ seen' \in [Procs -> Docs] /\ todo' \in [Procs -> Seq(Lines)]
  BY NothingType
<1>2. CallsInProgress'
  BY DEF CallsInProgress, NoCall, Queued
<1>3. \A q \in Procs : seen'[q].kind # "unstamped"
  BY DEF NoneUnstamped, Absent
<1>4. \A q \in Procs : Sound(seen[q])' /\ (pc'[q] = "repair" => Sound(Stamped(view[q]))')
  BY DEF ProjectionSound, Sound, Absent, Stamped
<1> QED BY <1>1, <1>2, <1>3, <1>4

\* Whoever leaves the section takes it from nobody else.
LEMMA LeaveKeeps ==
  ASSUME IInv, NEW p \in Procs, Return(p), Leave(p), log' = log
  PROVE  WriterUpToDate' /\ holder' \in Procs \cup {Nobody}
<1>1. holder' \in Procs \cup {Nobody}
  BY DEF IInv, TypeOK, Leave
<1>2. ASSUME NEW q \in Procs, pc'[q] \in {"append", "project"}
      PROVE  /\ holder' = q
             /\ view'[q] = [fold |-> FoldOf(log', Len(log')), accounted |-> Len(log')]
  <2>1. q # p /\ pc'[q] = pc[q] /\ view'[q] = view[q]
    BY <1>2 DEF IInv, TypeOK, Return
  <2>2. holder = q /\ view[q] = [fold |-> FoldOf(log, Len(log)), accounted |-> Len(log)]
    BY <1>2, <2>1 DEF IInv, WriterUpToDate
  <2> QED BY <2>1, <2>2 DEF Leave
<1> QED BY <1>1, <1>2 DEF WriterUpToDate

LEMMA CrashKeeps ==
  ASSUME IInv, NEW p \in Procs, Crash(p) \/ TransportFails(p)
  PROVE  IInv'
<1>1. Return(p) /\ Leave(p) /\ log' = log /\ doc' = doc
  BY DEF Crash, TransportFails
<1>2. Sound(doc)' /\ doc' \in Docs /\ doc'.kind # "unstamped" /\ log' \in Seq(Lines)
  BY <1>1 DEF IInv, TypeOK, ProjectionSound, NoneUnstamped, Sound
<1> QED
  BY <1>1, <1>2, ReturnKeeps, LeaveKeeps
  DEF IInv, TypeOK, NoneUnstamped, ProjectionSound

LEMMA ProjectKeeps ==
  ASSUME IInv, NEW p \in Procs, Project(p)
  PROVE  IInv'
<1>1. Return(p) /\ Leave(p) /\ log' = log
  BY DEF Project
<1>2. view[p] = [fold |-> FoldOf(log, Len(log)), accounted |-> Len(log)] /\ view[p] \in Views
  BY DEF IInv, TypeOK, WriterUpToDate, Project
<1>3. Sound(Stamped(view[p])) /\ Stamped(view[p]) \in Docs /\ Stamped(view[p]).kind # "unstamped"
  BY <1>2, StampedType DEF Sound, Stamped, IInv, TypeOK
<1>4. Sound(doc)' /\ doc' \in Docs /\ doc'.kind # "unstamped" /\ log' \in Seq(Lines)
  <2>1. doc' = Stamped(view[p]) \/ doc' = doc
    BY DEF Project
  <2> QED BY <1>1, <1>3, <2>1 DEF IInv, TypeOK, ProjectionSound, NoneUnstamped, Sound
<1> QED
  BY <1>1, <1>4, ReturnKeeps, LeaveKeeps
  DEF IInv, TypeOK, NoneUnstamped, ProjectionSound

LEMMA LoseKeeps ==
  ASSUME IInv, Lose
  PROVE  IInv'
<1> USE DEF Lose
<1>1. TypeOK' /\ NoneUnstamped'
  BY NothingType DEF IInv, TypeOK, NoneUnstamped, Absent
<1>2. ProjectionSound'
  BY DEF IInv, ProjectionSound, Sound, Stamped, Absent
<1>3. CallsInProgress' /\ WriterUpToDate'
  BY DEF IInv, CallsInProgress, Queued, WriterUpToDate
<1> QED BY <1>1, <1>2, <1>3 DEF IInv

\* A call that enters the section sees the whole log there.
LEMMA EnterKeeps ==
  ASSUME IInv, NEW p \in Procs, NEW c \in Calls, EnterWith(p, c),
         c.op \notin {"read", "answer_at"},
         c.op = "mark" => c.id \in Queued
  PROVE  IInv'
<1> DEFINE now   == Current(doc, log)
           lines == LinesOf(c, now.fold, log)
<1>1. now \in Views /\ now = [fold |-> FoldOf(log, Len(log)), accounted |-> Len(log)]
  BY CurrentType, CurrentSound DEF IInv, TypeOK, NoneUnstamped, ProjectionSound, Sound
<1>2. lines \in Seq(Lines)
  <2>1. now.fold \in Folded /\ log \in Seq(Lines)
    BY <1>1 DEF Views, IInv, TypeOK
  <2>2. c.op = "mark" => c.id \in QueuedIn(log)
    BY DEF Queued, QueuedIn
  <2> HIDE DEF now
  <2> QED BY <2>1, <2>2, LinesOfType
<1>3. /\ holder = Nobody /\ holder' = p
      /\ view' = [view EXCEPT ![p] = now]
      /\ todo' = [todo EXCEPT ![p] = lines]
      /\ pc' = [pc EXCEPT ![p] = IF lines = <<>> THEN "project" ELSE "append"]
      /\ call' = [call EXCEPT ![p] = NoCall]
      /\ UNCHANGED <<log, doc, seen>>
  BY DEF EnterWith
<1> HIDE DEF now, lines
<1>4. TypeOK'
  BY <1>1, <1>2, <1>3, NothingType DEF IInv, TypeOK
<1>5. CallsInProgress'
  BY <1>3 DEF IInv, TypeOK, CallsInProgress, NoCall, Queued
<1>6. NoneUnstamped' /\ ProjectionSound'
  BY <1>3 DEF IInv, TypeOK, NoneUnstamped, ProjectionSound, Sound, Stamped
<1>7. WriterUpToDate'
  <2> SUFFICES ASSUME NEW q \in Procs, pc'[q] \in {"append", "project"}
               PROVE  /\ holder' = q
                      /\ view'[q] = [fold |-> FoldOf(log', Len(log')), accounted |-> Len(log')]
    BY DEF WriterUpToDate
  <2>1. CASE q = p
    BY <1>1, <1>3, <2>1 DEF IInv, TypeOK
  <2>2. CASE q # p
    BY <1>3, <2>2, QueueAssumption DEF IInv, TypeOK, WriterUpToDate
  <2> QED BY <2>1, <2>2
<1> QED BY <1>4, <1>5, <1>6, <1>7 DEF IInv

LEMMA WriteKeeps ==
  ASSUME IInv, NEW p \in Procs, NEW c \in WritesNow, Write(p, c)
  PROVE  IInv'
<1>1. c \in Calls /\ c.op \notin {"read", "answer_at", "mark"}
  <2>1. Queued \cap Ids \subseteq Ids
    OBVIOUS
  <2> QED BY <2>1 DEF WritesNow, Calls
<1> QED BY <1>1, EnterKeeps DEF Write

LEMMA ResumeKeeps ==
  ASSUME IInv, NEW p \in Procs, Enter(p)
  PROVE  IInv'
<1>1. call[p] \in Calls /\ call[p].op \in {"mark", "answer"}
      /\ (call[p].op = "mark" => call[p].id \in Queued)
  BY DEF IInv, TypeOK, CallsInProgress, Enter
<1> QED BY <1>1, EnterKeeps DEF Enter

LEMMA ReadKeeps ==
  ASSUME IInv, NEW p \in Procs, NEW c \in ReadsNow, Read(p, c)
  PROVE  IInv'
<1> USE DEF Read
<1>1. c \in Calls /\ c.op # "mark"
  BY DEF ReadsNow, Calls, ClaimsAt, IInv, TypeOK
<1>2. TypeOK'
  BY <1>1 DEF IInv, TypeOK
<1>3. CallsInProgress' /\ NoneUnstamped'
  BY <1>1 DEF IInv, TypeOK, CallsInProgress, NoneUnstamped, Queued
<1>4. ProjectionSound' /\ WriterUpToDate'
  BY DEF IInv, TypeOK, ProjectionSound, Sound, Stamped, WriterUpToDate
<1> QED BY <1>2, <1>3, <1>4 DEF IInv

LEMMA MarkKeeps ==
  ASSUME IInv, NEW p \in Procs, NEW c \in MarksNow, Mark(p, c)
  PROVE  IInv'
<1> USE DEF Mark
<1>1. c \in Calls /\ c.op = "mark" /\ c.id \in Queued
  BY DEF MarksNow, Calls
<1>2. TypeOK'
  BY <1>1 DEF IInv, TypeOK
<1>3. CallsInProgress' /\ NoneUnstamped'
  <2>1. /\ UNCHANGED <<log, doc, todo, seen>> /\ call'[p] = c /\ pc'[p] = "enter"
        /\ \A k \in Procs : k # p => call'[k] = call[k] /\ pc'[k] = pc[k]
    BY DEF IInv, TypeOK
  <2>2. Queued' = Queued
    BY <2>1 DEF Queued
  <2> QED BY <1>1, <2>1, <2>2 DEF IInv, CallsInProgress, NoneUnstamped
<1>4. ProjectionSound' /\ WriterUpToDate'
  BY DEF IInv, TypeOK, ProjectionSound, Sound, Stamped, WriterUpToDate
<1> QED BY <1>2, <1>3, <1>4 DEF IInv

LEMMA TailIsEmpty ==
  ASSUME NEW S, NEW s \in Seq(S), s # <<>>, Tail(s) = <<>>
  PROVE  Len(s) = 1
<1>1. Len(Tail(s)) = Len(s) - 1 /\ Len(s) \in Nat
  OBVIOUS
<1>2. Len(Tail(s)) = 0
  <2>1. ASSUME NEW t, t = <<>> PROVE Len(t) = 0
    BY <2>1
  <2> QED BY <2>1
<1>3. Len(s) - 1 = 0
  BY <1>1, <1>2, Zenon
<1> QED BY <1>1, <1>3

\* A line appended is folded into what its writer sees, and leaves every sound
\* document sound.
LEMMA AppendKeeps ==
  ASSUME IInv, NEW p \in Procs, AppendLine(p)
  PROVE  IInv'
<1> DEFINE x == Head(todo[p])
<1>0. /\ log \in Seq(Lines) /\ todo[p] \in Seq(Lines) /\ todo[p] # <<>> /\ pc[p] = "append"
      /\ Len(log) \in Nat
  BY DEF IInv, TypeOK, CallsInProgress, AppendLine
<1>1. x \in Lines /\ Tail(todo[p]) \in Seq(Lines)
  BY <1>0
<1>2. log' = Append(log, x) /\ log' \in Seq(Lines) /\ Len(log') = Len(log) + 1
  BY <1>0, <1>1 DEF AppendLine
<1>3. view[p] = [fold |-> FoldOf(log, Len(log)), accounted |-> Len(log)] /\ holder = p
  BY <1>0 DEF IInv, WriterUpToDate
<1>4. FoldOf(log', Len(log')) = Apply(FoldOf(log, Len(log)), x)
  <2> HIDE DEF x
  <2> QED BY <1>0, <1>1, <1>2, FoldOfAppend
<1>5. FoldOf(log', Len(log')) \in Folded
  <2>1. Len(log') \in 0..Len(log')
    BY <1>0, <1>2
  <2> QED BY <1>2, <2>1, FoldOfType
<1>6. /\ view' = [view EXCEPT ![p] = [fold |-> FoldOf(log', Len(log')), accounted |-> Len(log')]]
      /\ todo' = [todo EXCEPT ![p] = Tail(todo[p])]
      /\ pc' = [pc EXCEPT ![p] = IF Len(todo[p]) = 1 THEN "project" ELSE "append"]
      /\ UNCHANGED <<doc, holder, call, seen>>
  <2>1. view' = [view EXCEPT ![p] = [fold |-> Apply(view[p].fold, x), accounted |-> Len(log) + 1]]
    BY DEF AppendLine
  <2>2. view[p].fold = FoldOf(log, Len(log))
    BY <1>3
  <2>3. view' = [view EXCEPT ![p] = [fold |-> FoldOf(log', Len(log')), accounted |-> Len(log')]]
    <3> HIDE DEF x
    <3> QED BY <1>2, <1>4, <2>1, <2>2
  <2> QED BY <2>3 DEF AppendLine
<1> HIDE DEF x
<1>7. TypeOK'
  <2>1. [fold |-> FoldOf(log', Len(log')), accounted |-> Len(log')] \in Views
    BY <1>2, <1>5 DEF Views
  <2> QED BY <1>0, <1>1, <1>2, <1>6, <2>1 DEF IInv, TypeOK
<1>8. CallsInProgress' /\ NoneUnstamped'
  <2>1. Queued \subseteq Queued'
    BY <1>0, <1>1, <1>2 DEF Queued
  <2>2. Len(todo[p]) # 1 => Tail(todo[p]) # <<>>
    BY <1>0, TailIsEmpty
  <2> QED BY <1>6, <2>1, <2>2 DEF IInv, TypeOK, CallsInProgress, NoneUnstamped
<1>9. \A d \in Docs : Sound(d) => Sound(d)'
  <2> SUFFICES ASSUME NEW d \in Docs, Sound(d), d.kind = "stamped"
               PROVE  d.accounted <= Len(log') /\ d.fold = FoldOf(log', d.accounted)
    BY DEF Sound
  <2>1. d.accounted \in 0..Len(log) /\ d.fold = FoldOf(log, d.accounted)
    BY DEF Sound, Docs
  <2>2. FoldOf(log', d.accounted) = FoldOf(log, d.accounted)
    BY <1>0, <1>1, <1>2, <2>1, FoldOfPrefix
  <2> QED BY <1>0, <1>2, <2>1, <2>2
<1>10. ProjectionSound'
  <2>1. Sound(doc)'
    BY <1>6, <1>9 DEF IInv, TypeOK, ProjectionSound, Sound
  <2>2. ASSUME NEW q \in Procs PROVE Sound(seen[q])'
    BY <1>6, <1>9 DEF IInv, TypeOK, ProjectionSound, Sound
  <2>3. ASSUME NEW q \in Procs, pc'[q] = "repair" PROVE Sound(Stamped(view[q]))'
    <3>1. q # p /\ pc[q] = "repair" /\ view'[q] = view[q] /\ view[q] \in Views
      BY <1>6, <2>3 DEF IInv, TypeOK
    <3>2. Sound(Stamped(view[q])) /\ Stamped(view[q]) \in Docs
      BY <3>1, StampedType DEF IInv, ProjectionSound
    <3> QED BY <1>9, <3>1, <3>2 DEF Sound
  <2> QED BY <2>1, <2>2, <2>3 DEF ProjectionSound
<1>11. WriterUpToDate'
  <2> SUFFICES ASSUME NEW q \in Procs, pc'[q] \in {"append", "project"}
               PROVE  /\ holder' = q
                      /\ view'[q] = [fold |-> FoldOf(log', Len(log')), accounted |-> Len(log')]
    BY DEF WriterUpToDate
  <2>1. q = p
    BY <1>3, <1>6 DEF IInv, TypeOK, WriterUpToDate
  <2> QED BY <1>3, <1>6, <2>1 DEF IInv, TypeOK
<1> QED BY <1>7, <1>8, <1>10, <1>11 DEF IInv

\* Once a read has its fold it returns, or looks on with the pending record.
LEMMA AfterReadKeeps ==
  ASSUME IInv, NEW p \in Procs, NEW f \in Folded, AfterRead(p, f), log' = log,
         pc[p] \notin {"append", "project"}, holder' = holder,
         doc' \in Docs, doc'.kind # "unstamped", Sound(doc')
  PROVE  IInv'
<1>0. Sound(doc)' /\ log' \in Seq(Lines)
  BY DEF Sound, IInv, TypeOK
<1>1. WriterUpToDate'
  <2> SUFFICES ASSUME NEW q \in Procs, pc'[q] \in {"append", "project"}
               PROVE  /\ holder' = q
                      /\ view'[q] = [fold |-> FoldOf(log', Len(log')), accounted |-> Len(log')]
    BY DEF WriterUpToDate
  <2>1. q # p /\ pc[q] = pc'[q] /\ view'[q] = view[q]
    BY DEF IInv, TypeOK, AfterRead, Return
  <2> QED BY <2>1 DEF IInv, WriterUpToDate
<1>2. CASE Return(p)
  BY <1>0, <1>1, <1>2, ReturnKeeps DEF IInv, TypeOK, NoneUnstamped, ProjectionSound
<1>3. CASE ~Return(p)
  <2> DEFINE v == [fold |-> [EmptyFold EXCEPT !.pending = f.pending], accounted |-> 0]
  <2>1. /\ pc' = [pc EXCEPT ![p] = "place"]
        /\ view' = [view EXCEPT ![p] = v]
        /\ seen' = [seen EXCEPT ![p] = Absent]
        /\ UNCHANGED <<call, todo>>
    BY <1>3 DEF AfterRead, IInv, TypeOK, Views
  <2>2. v \in Views
    BY EmptyFoldType DEF Views, Folded, EmptyFold
  <2> HIDE DEF v
  <2>3. TypeOK'
    BY <1>0, <2>1, <2>2, NothingType DEF IInv, TypeOK
  <2>4. CallsInProgress' /\ NoneUnstamped'
    BY <2>1 DEF IInv, TypeOK, CallsInProgress, NoneUnstamped, Absent, Queued
  <2>5. ProjectionSound'
    BY <1>0, <2>1 DEF IInv, TypeOK, ProjectionSound, Sound, Stamped, Absent
  <2> QED BY <1>1, <2>3, <2>4, <2>5 DEF IInv
<1> QED BY <1>2, <1>3

LEMMA ReadLogKeeps ==
  ASSUME IInv, NEW p \in Procs, ReadLog(p)
  PROVE  IInv'
<1> DEFINE now == Current(seen[p], log)
<1>1. now \in Views /\ now = [fold |-> FoldOf(log, Len(log)), accounted |-> Len(log)]
  BY CurrentType, CurrentSound DEF IInv, TypeOK, NoneUnstamped, ProjectionSound, Sound
<1>2. pc[p] = "log" /\ UNCHANGED <<log, doc, holder>>
  BY DEF ReadLog
<1>3. CASE AfterRead(p, now.fold)
  <2>1. now.fold \in Folded
    BY <1>1 DEF Views
  <2>2. doc' \in Docs /\ doc'.kind # "unstamped" /\ Sound(doc')
    BY <1>2 DEF IInv, TypeOK, NoneUnstamped, ProjectionSound
  <2> HIDE DEF now
  <2> QED BY <1>2, <1>3, <2>1, <2>2, AfterReadKeeps
<1>4. CASE ~AfterRead(p, now.fold)
  <2>1. /\ view' = [view EXCEPT ![p] = now]
        /\ pc' = [pc EXCEPT ![p] = "repair"]
        /\ seen' = [seen EXCEPT ![p] = Absent]
        /\ UNCHANGED <<call, todo>>
    BY <1>4 DEF ReadLog
  <2> HIDE DEF now
  <2>2. Sound(Stamped(now))
    BY <1>1 DEF Sound, Stamped, IInv, TypeOK
  <2>3. TypeOK'
    BY <1>1, <1>2, <2>1, NothingType DEF IInv, TypeOK
  <2>4. CallsInProgress' /\ NoneUnstamped'
    BY <1>2, <2>1 DEF IInv, TypeOK, CallsInProgress, NoneUnstamped, Absent, Queued
  <2>5. ProjectionSound'
    BY <1>2, <2>1, <2>2 DEF IInv, TypeOK, ProjectionSound, Sound, Stamped, Absent
  <2>6. WriterUpToDate'
    BY <1>2, <2>1 DEF IInv, TypeOK, WriterUpToDate
  <2> QED BY <2>3, <2>4, <2>5, <2>6 DEF IInv
<1> QED BY <1>3, <1>4

LEMMA RepairKeeps ==
  ASSUME IInv, NEW p \in Procs, Repair(p)
  PROVE  IInv'
<1>1. view[p].fold \in Folded /\ view[p] \in Views
  BY DEF IInv, TypeOK, Views
<1>2. doc' \in Docs /\ doc'.kind # "unstamped" /\ Sound(doc')
  <2>1. Stamped(view[p]) \in Docs /\ Stamped(view[p]).kind # "unstamped"
        /\ Sound(Stamped(view[p]))
    BY <1>1, StampedType DEF Repair, IInv, ProjectionSound, Stamped
  <2>2. doc' = doc \/ doc' = Stamped(view[p])
    BY DEF Repair
  <2> QED BY <2>1, <2>2 DEF IInv, TypeOK, NoneUnstamped, ProjectionSound
<1> QED BY <1>1, <1>2, AfterReadKeeps DEF Repair

LEMMA PlaceKeeps ==
  ASSUME IInv, NEW p \in Procs, Place(p)
  PROVE  IInv'
<1>1. pc[p] = "place" /\ UNCHANGED <<log, doc, holder>>
  BY DEF Place
<1>2. CASE Return(p)
  <2>1. Leave(p) \/ holder = p
    BY <1>1 DEF Leave
  <2>2. WriterUpToDate'
    BY <1>1, <1>2 DEF IInv, TypeOK, WriterUpToDate, Return
  <2>3. Sound(doc)' /\ log' \in Seq(Lines)
    BY <1>1 DEF IInv, TypeOK, ProjectionSound, Sound
  <2> QED BY <1>1, <1>2, <2>2, <2>3, ReturnKeeps DEF IInv, TypeOK, NoneUnstamped, ProjectionSound
<1>3. CASE ~Return(p)
  <2> DEFINE c == [op |-> "answer", id |-> view[p].fold.pending.id]
  <2>1. /\ call' = [call EXCEPT ![p] = c] /\ view[p].fold.pending.id \in Ids
        /\ pc' = [pc EXCEPT ![p] = "enter"]
        /\ view' = [view EXCEPT ![p] = NoView]
        /\ UNCHANGED <<seen, todo>>
    BY <1>3 DEF Place
  <2>2. c \in Calls /\ c.op = "answer"
    BY <2>1 DEF Calls
  <2> HIDE DEF c
  <2>3. TypeOK'
    BY <1>1, <2>1, <2>2, NothingType DEF IInv, TypeOK
  <2>4. CallsInProgress' /\ NoneUnstamped'
    BY <1>1, <2>1, <2>2 DEF IInv, TypeOK, CallsInProgress, NoneUnstamped, Queued
  <2>5. ProjectionSound' /\ WriterUpToDate'
    BY <1>1, <2>1 DEF IInv, TypeOK, ProjectionSound, Sound, Stamped, WriterUpToDate
  <2> QED BY <2>3, <2>4, <2>5 DEF IInv
<1> QED BY <1>2, <1>3

LEMMA NextInv == IInv /\ [Next]_vars => IInv'
<1> SUFFICES ASSUME IInv, [Next]_vars PROVE IInv'
  OBVIOUS
<1>1. CASE UNCHANGED vars
  BY <1>1 DEF vars, IInv, TypeOK, CallsInProgress, Queued, NoneUnstamped, ProjectionSound, Sound,
              Stamped, WriterUpToDate
<1>2. CASE Lose
  BY <1>2, LoseKeeps
<1>3. ASSUME NEW p \in Procs, Step(p) \/ Crash(p) PROVE IInv'
  BY <1>3, ResumeKeeps, AppendKeeps, ProjectKeeps, CrashKeeps, ReadLogKeeps, RepairKeeps, PlaceKeeps
  DEF Step
<1>4. ASSUME NEW p \in Procs,
             \/ \E c \in WritesNow : Write(p, c)
             \/ \E c \in ReadsNow : Read(p, c)
             \/ \E c \in MarksNow : Mark(p, c)
      PROVE  IInv'
  BY <1>4, WriteKeeps, ReadKeeps, MarkKeeps
<1> QED BY <1>1, <1>2, <1>3, <1>4 DEF Next

----------------------------------------------------------------------------
(* What a log in order tells.  Of any log whose ids go up and whose claims  *)
(* are of records that wait, the fold of each prefix knows the following;   *)
(* so a line appended by a call keeps the log in order.                     *)

SaidAbandoned(l, n, id) == \E k \in 1..n : SaysAbandoned(l[k]) /\ l[k].record.id = id

\* The ids allocated are those queued, and no claim is of another.
KnowsIds(l, n) ==
  LET f == FoldOf(l, n)
  IN  /\ \A i \in QueuedAt(l) : i <= n => l[i].record.id < f.next_id
      /\ f.next_id = 0 \/ \E i \in QueuedAt(l) : i <= n /\ l[i].record.id + 1 = f.next_id
      /\ \A j \in ClaimsAt(l) : j <= n => l[j].record.id < f.next_id

\* What is held was queued, with the body it has still, and is abandoned only
\* if some line says so.
KnowsHeld(l, n) ==
  \A h \in HeldSet(FoldOf(l, n)) :
    /\ \E i \in QueuedAt(l) : i <= n /\ l[i].record.id = h.id /\ l[i].record.body = h.body
    /\ h.abandoned => SaidAbandoned(l, n, h.id)

\* What holds the slot was claimed since it was queued, and what waits though
\* it was claimed was abandoned.
KnowsClaimed(l, n) ==
  LET f == FoldOf(l, n)
  IN  /\ f.pending # NoRecord =>
           \E i \in QueuedAt(l), j \in ClaimsAt(l) :
             i < j /\ j <= n /\ l[i].record.id = f.pending.id /\ l[j].record.id = f.pending.id
      /\ \A j \in ClaimsAt(l) :
           j <= n /\ l[j].record.id \in WaitingIds(f) => SaidAbandoned(l, n, l[j].record.id)

Knows(l, n) ==
  HeldOnce(FoldOf(l, n)) /\ KnowsIds(l, n) /\ KnowsHeld(l, n) /\ KnowsClaimed(l, n)

LEMMA LineIs ==
  ASSUME NEW l \in Seq(Lines), NEW n \in 1..Len(l)
  PROVE  /\ n \in QueuedAt(l) <=> EventOf(FoldOf(l, n - 1), l[n]) = "queued"
         /\ n \in ClaimsAt(l) <=> EventOf(FoldOf(l, n - 1), l[n]) = "claimed"
         /\ EventOf(FoldOf(l, n - 1), l[n]) \in {"queued", "abandoned"} /\ l[n].record.abandoned
              => SaysAbandoned(l[n]) \/ EventOf(FoldOf(l, n - 1), l[n]) = "abandoned"
         /\ EventOf(FoldOf(l, n - 1), l[n]) = "abandoned" => SaysAbandoned(l[n])
         /\ l[n] \in Lines /\ l[n].record \in Records /\ l[n].record.id \in 0..MaxId
<1>1. l[n] \in Lines
  OBVIOUS
<1>2. l[n].record \in Records /\ l[n].record.id \in 0..MaxId
  BY <1>1 DEF Lines, Records
<1> QED BY <1>1, <1>2 DEF QueuedAt, ClaimsAt, EventOf, SaysAbandoned

LEMMA SaidLasts ==
  ASSUME NEW l, NEW n \in Nat, NEW id, SaidAbandoned(l, n, id)
  PROVE  SaidAbandoned(l, n + 1, id)
<1>1. 1..n \subseteq 1..(n + 1)
  OBVIOUS
<1> QED BY <1>1 DEF SaidAbandoned

LEMMA KnowsNext ==
  ASSUME NEW l \in Seq(Lines), IdsIncrease(l), ClaimsFollowTheOrder(l),
         NEW n \in 0..(Len(l) - 1), Knows(l, n)
  PROVE  Knows(l, n + 1)
<1> DEFINE f == FoldOf(l, n)
           g == FoldOf(l, n + 1)
           x == l[n + 1]
           r == x.record
           e == EventOf(f, x)
<1>0. /\ Len(l) \in Nat /\ n \in Nat /\ n \in 0..Len(l) /\ n + 1 \in 1..Len(l) /\ (n + 1) - 1 = n
      /\ \A i \in Nat : i <= n + 1 <=> i <= n \/ i = n + 1
      /\ \A i \in Nat : i <= n => i <= n + 1
  OBVIOUS
<1>1. f \in Folded /\ x \in Lines /\ r \in Records /\ r.id \in 0..MaxId
  BY <1>0, FoldOfType, LineIs
<1>2. g = Apply(f, x)
  <2>1. g = Apply(FoldOf(l, (n + 1) - 1), l[n + 1])
    BY <1>0, FoldOfNext
  <2> QED BY <1>0, <2>1
<1>3. /\ n + 1 \in QueuedAt(l) <=> e = "queued"
      /\ n + 1 \in ClaimsAt(l) <=> e = "claimed"
      /\ e = "abandoned" => SaysAbandoned(x)
      /\ e = "queued" /\ r.abandoned => SaysAbandoned(x)
  <2>1. EventOf(FoldOf(l, (n + 1) - 1), l[n + 1]) = e
    BY <1>0
  <2> HIDE DEF f, e, x, r
  <2> QED BY <1>0, <2>1, LineIs DEF x, r
<1>i. QueuedAt(l) \subseteq Nat /\ ClaimsAt(l) \subseteq Nat
  BY DEF QueuedAt, ClaimsAt
<1>n. f.next_id \in Nat /\ g.next_id \in Nat /\ r.id \in Nat
  <2>1. g \in Folded
    BY <1>1, <1>2, ApplyType
  <2> HIDE DEF f, g, r
  <2> QED BY <1>1, <2>1, FoldAssumption DEF Folded
<1>k. /\ HeldOnce(f) /\ KnowsIds(l, n) /\ KnowsHeld(l, n) /\ KnowsClaimed(l, n)
  BY DEF Knows
<1> HIDE DEF f, g, x, r, e
<1>4. e = "queued" => r.id # MaxId /\ \A i \in QueuedAt(l) : i <= n => l[i].record.id < r.id
  <2>1. \A i \in QueuedAt(l) : i <= n => i < n + 1
    BY <1>0, <1>i
  <2> QED BY <1>3, <2>1 DEF IdsIncrease, r, x
<1>5. e = "queued" => r.id >= f.next_id
  <2> SUFFICES ASSUME e = "queued" PROVE r.id >= f.next_id
    OBVIOUS
  <2>1. CASE f.next_id = 0
    BY <1>n, <2>1
  <2>2. CASE \E i \in QueuedAt(l) : i <= n /\ l[i].record.id + 1 = f.next_id
    <3>1. PICK i \in QueuedAt(l) : i <= n /\ l[i].record.id + 1 = f.next_id
      BY <2>2
    <3>2. l[i].record.id < r.id
      BY <1>4, <3>1
    <3>3. l[i].record.id \in Nat
      <4>1. i \in 1..Len(l)
        BY DEF QueuedAt
      <4> QED BY <4>1, LineIs, FoldAssumption
    <3> QED BY <1>n, <3>1, <3>2, <3>3
  <2> QED BY <1>k, <2>1, <2>2 DEF KnowsIds, f
<1>6. HeldOnce(g)
  BY <1>1, <1>2, <1>5, <1>k, ApplyOnce DEF e, r
<1>7. StepsTo(f, e, r, g)
  <2>1. IdsDiffer(f.waiting)
    BY <1>k DEF HeldOnce
  <2> QED BY <1>1, <1>2, <2>1, ApplySteps DEF e, r
<1>8. g.next_id = IF e = "queued" THEN r.id + 1 ELSE f.next_id
  BY <1>4, <1>5, <1>7, <1>n DEF StepsTo, Larger
<1>9. KnowsIds(l, n + 1)
  <2>1. ASSUME NEW i \in QueuedAt(l), i <= n + 1 PROVE l[i].record.id < g.next_id
    <3>0. i \in 1..Len(l) /\ l[i].record.id \in Nat
      <4>1. i \in 1..Len(l)
        BY DEF QueuedAt
      <4> QED BY <4>1, LineIs, FoldAssumption
    <3>1. CASE i = n + 1
      BY <1>3, <1>8, <1>n, <3>1 DEF r, x
    <3>2. CASE i <= n
      <4>1. l[i].record.id < f.next_id
        BY <1>k, <3>2 DEF KnowsIds, f
      <4> QED BY <1>5, <1>8, <1>n, <3>0, <4>1
    <3> QED BY <1>0, <1>i, <2>1, <3>1, <3>2
  <2>2. g.next_id = 0 \/ \E i \in QueuedAt(l) : i <= n + 1 /\ l[i].record.id + 1 = g.next_id
    <3>1. CASE e = "queued"
      <4>1. n + 1 \in QueuedAt(l) /\ n + 1 <= n + 1 /\ l[n + 1].record.id + 1 = g.next_id
        BY <1>0, <1>3, <1>8, <3>1 DEF r, x
      <4> QED BY <4>1
    <3>2. CASE e # "queued"
      <4>1. g.next_id = f.next_id
        BY <1>8, <3>2
      <4>2. f.next_id = 0 \/ \E i \in QueuedAt(l) : i <= n /\ l[i].record.id + 1 = f.next_id
        BY <1>k DEF KnowsIds, f
      <4> QED BY <1>0, <1>i, <4>1, <4>2
    <3> QED BY <3>1, <3>2
  <2>3. ASSUME NEW j \in ClaimsAt(l), j <= n + 1 PROVE l[j].record.id < g.next_id
    <3>0. j \in 1..Len(l) /\ l[j].record.id \in Nat
      <4>1. j \in 1..Len(l)
        BY DEF ClaimsAt
      <4> QED BY <4>1, LineIs, FoldAssumption
    <3>1. CASE j = n + 1
      <4>1. r.id \in WaitingIds(f)
        <5>1. Positions(f.waiting, r.id) # {}
          BY <1>0, <3>1 DEF ClaimsFollowTheOrder, f, r, x
        <5> QED BY <5>1 DEF Positions, WaitingIds
      <4>2. r.id < f.next_id
        BY <1>1, <1>k, <4>1, HeldSetType DEF HeldOnce
      <4> QED BY <1>3, <1>8, <3>1, <4>2 DEF r, x
    <3>2. CASE j <= n
      <4>1. l[j].record.id < f.next_id
        BY <1>k, <3>2 DEF KnowsIds, f
      <4> QED BY <1>5, <1>8, <1>n, <3>0, <4>1
    <3> QED BY <1>0, <1>i, <2>3, <3>1, <3>2
  <2> QED BY <2>1, <2>2, <2>3 DEF KnowsIds, g
<1>10. KnowsHeld(l, n + 1)
  <2> SUFFICES ASSUME NEW h \in HeldSet(g)
               PROVE  /\ \E i \in QueuedAt(l) : i <= n + 1 /\ l[i].record.id = h.id /\ l[i].record.body = h.body
                      /\ h.abandoned => SaidAbandoned(l, n + 1, h.id)
    BY DEF KnowsHeld, g
  <2>1. CASE e = "queued" /\ h = r
    <3>1. n + 1 \in QueuedAt(l) /\ n + 1 <= n + 1 /\ l[n + 1].record.id = h.id /\ l[n + 1].record.body = h.body
      BY <1>0, <1>3, <2>1 DEF r, x
    <3>2. h.abandoned => SaidAbandoned(l, n + 1, h.id)
      <4>1. n + 1 \in 1..(n + 1)
        BY <1>0
      <4> QED BY <1>3, <2>1, <4>1 DEF SaidAbandoned, r, x
    <3> QED BY <3>1, <3>2
  <2>2. ASSUME NEW k \in HeldSet(f), k.id = h.id, k.body = h.body,
               h.abandoned => k.abandoned \/ (e = "abandoned" /\ h.id = r.id)
        PROVE  /\ \E i \in QueuedAt(l) : i <= n + 1 /\ l[i].record.id = h.id /\ l[i].record.body = h.body
               /\ h.abandoned => SaidAbandoned(l, n + 1, h.id)
    <3>1. PICK i \in QueuedAt(l) : i <= n /\ l[i].record.id = k.id /\ l[i].record.body = k.body
      BY <1>k DEF KnowsHeld, f
    <3>2. i <= n + 1
      BY <1>0, <1>i, <3>1
    <3>3. k.abandoned => SaidAbandoned(l, n + 1, h.id)
      BY <1>0, <1>k, <2>2, SaidLasts DEF KnowsHeld, f
    <3>4. e = "abandoned" /\ h.id = r.id => SaidAbandoned(l, n + 1, h.id)
      <4>1. n + 1 \in 1..(n + 1)
        BY <1>0
      <4> QED BY <1>3, <4>1 DEF SaidAbandoned, r, x
    <3> QED BY <2>2, <3>1, <3>2, <3>3, <3>4
  <2> QED BY <1>7, <2>1, <2>2 DEF StepsTo
<1>11. KnowsClaimed(l, n + 1)
  <2>1. ASSUME g.pending # NoRecord
        PROVE  \E i \in QueuedAt(l), j \in ClaimsAt(l) :
                 i < j /\ j <= n + 1 /\ l[i].record.id = g.pending.id /\ l[j].record.id = g.pending.id
    <3>1. CASE f.pending # NoRecord /\ f.pending.id = g.pending.id
      <4>1. PICK i \in QueuedAt(l), j \in ClaimsAt(l) :
              i < j /\ j <= n /\ l[i].record.id = f.pending.id /\ l[j].record.id = f.pending.id
        BY <1>k, <3>1 DEF KnowsClaimed, f
      <4>2. j <= n + 1
        BY <1>0, <1>i, <4>1
      <4> QED BY <3>1, <4>1, <4>2
    <3>2. CASE e = "claimed" /\ g.pending.id = r.id /\ r.id \in WaitingIds(f)
      <4>1. \E h \in HeldSet(f) : h.id = r.id
        BY <1>1, <3>2, HeldSetType
      <4>2. PICK i \in QueuedAt(l) : i <= n /\ l[i].record.id = r.id
        BY <1>k, <4>1 DEF KnowsHeld, f
      <4>3. i < n + 1 /\ n + 1 <= n + 1 /\ n + 1 \in ClaimsAt(l) /\ l[n + 1].record.id = r.id
        BY <1>0, <1>3, <1>i, <3>2, <4>2 DEF r, x
      <4> QED BY <3>2, <4>2, <4>3
    <3> QED BY <1>7, <2>1, <3>1, <3>2 DEF StepsTo
  <2>2. ASSUME NEW j \in ClaimsAt(l), j <= n + 1, l[j].record.id \in WaitingIds(g)
        PROVE  SaidAbandoned(l, n + 1, l[j].record.id)
    <3> DEFINE id == l[j].record.id
    <3>1. CASE e = "claimed" /\ f.pending # NoRecord /\ f.pending.abandoned /\ id = f.pending.id
      <4>1. f.pending \in HeldSet(f)
        BY <3>1 DEF HeldSet
      <4> QED BY <1>0, <1>k, <3>1, <4>1, SaidLasts DEF KnowsHeld, f
    <3>2. CASE e = "queued" /\ id = r.id
      <4>1. j <= n
        BY <1>0, <1>3, <1>i, <2>2, <3>2
      <4>2. id < f.next_id
        BY <1>k, <4>1 DEF KnowsIds, f
      <4> QED BY <1>5, <1>n, <3>2, <4>2
    <3>3. CASE id \in WaitingIds(f) /\ ~(e = "claimed" /\ id = r.id)
      <4>1. j <= n
        BY <1>0, <1>3, <1>i, <2>2, <3>3 DEF r, x
      <4> QED BY <1>0, <1>k, <3>3, <4>1, SaidLasts DEF KnowsClaimed, f
    <3> QED BY <1>7, <2>2, <3>1, <3>2, <3>3 DEF StepsTo
  <2> QED BY <2>1, <2>2 DEF KnowsClaimed, g
<1> QED BY <1>6, <1>9, <1>10, <1>11 DEF Knows, g

LEMMA KnowsAll ==
  ASSUME NEW l \in Seq(Lines), IdsIncrease(l), ClaimsFollowTheOrder(l)
  PROVE  Knows(l, Len(l))
<1> DEFINE T == {n \in 0..Len(l) : Knows(l, n)}
<1>0. Len(l) \in Nat
  OBVIOUS
<1>1. 0 \in T
  <2>1. FoldOf(l, 0) = EmptyFold
    BY FoldOfUnroll DEF FoldOf
  <2>2. HeldSet(EmptyFold) = {} /\ WaitingIds(EmptyFold) = {} /\ HeldIds(EmptyFold) = {}
        /\ EmptyFold.pending = NoRecord /\ EmptyFold.next_id = 0 /\ HeldOnce(EmptyFold)
    BY DEF HeldSet, WaitingIds, HeldIds, EmptyFold, HeldOnce, IdsDiffer
  <2>3. \A i \in QueuedAt(l) \cup ClaimsAt(l) : ~(i <= 0)
    BY <1>0 DEF QueuedAt, ClaimsAt
  <2>4. KnowsIds(l, 0)
    BY <2>1, <2>2, <2>3 DEF KnowsIds
  <2>5. KnowsHeld(l, 0) /\ KnowsClaimed(l, 0)
    BY <2>1, <2>2, <2>3 DEF KnowsHeld, KnowsClaimed
  <2>6. Knows(l, 0)
    BY <2>1, <2>2, <2>4, <2>5 DEF Knows
  <2> QED BY <1>0, <2>6
<1>2. ASSUME NEW n \in 0..(Len(l) - 1), n \in T PROVE n + 1 \in T
  <2>1. Knows(l, n + 1)
    BY <1>2, KnowsNext
  <2>2. n + 1 \in 0..Len(l)
    BY <1>0
  <2> QED BY <2>1, <2>2
<1>3. \A n \in 0..Len(l) : n \in T
  <2> HIDE DEF T
  <2> QED BY <1>0, <1>1, <1>2, Induct
<1>4. Len(l) \in T
  <2> HIDE DEF T
  <2> QED BY <1>0, <1>3
<1> QED BY <1>4

\* A line up to the end of l queued the record x is about, with its body.
Told(l, x) ==
  \E j \in QueuedAt(l) : l[j].record.id = x.record.id /\ l[j].record.body = x.record.body

\* A line a call derives from the log it is appended to, and its fold.
Decided(l, x) ==
  LET f == FoldOf(l, Len(l))
  IN  /\ x \in Lines /\ x.event \in Events
      /\ x.event = "queued" => x.record.id = f.next_id /\ f.next_id # MaxId /\ x.record \in Live
      /\ x.event = "claimed" => f.waiting # <<>> /\ x.record = NextClaimed(f)
      /\ x.event = "answered" => f.pending # NoRecord /\ x.record = f.pending
      /\ x.event \in {"abandoned", "attended"} => Told(l, x)

\* What `claim` hands out waits, and nothing that goes before it does.
LEMMA NextClaimedIs ==
  ASSUME NEW f \in Folded, f.waiting # <<>>
  PROVE  LET r == NextClaimed(f)
         IN  /\ r \in HeldSet(f) /\ r.id \in WaitingIds(f) /\ Positions(f.waiting, r.id) # {}
             /\ r.abandoned => WaitingAt(f, Live) = {}
             /\ (BlockingFirst /\ ~r.body.blocking) => WaitingAt(f, Live \cap Blocking) = {}
<1>0. f.waiting \in Seq(Records) /\ Len(f.waiting) \in Nat /\ 1 \in 1..Len(f.waiting)
  BY DEF Folded
<1>1. ASSUME NEW S, WaitingAt(f, S) # {}
      PROVE  First(WaitingAt(f, S)) \in 1..Len(f.waiting) /\ f.waiting[First(WaitingAt(f, S))] \in S
  <2>1. WaitingAt(f, S) \subseteq Nat
    BY <1>0 DEF WaitingAt
  <2>2. First(WaitingAt(f, S)) \in WaitingAt(f, S)
    BY <1>1, <2>1, FirstIsMember
  <2> QED BY <2>2 DEF WaitingAt
<1> DEFINE r == NextClaimed(f)
<1>2. \E i \in 1..Len(f.waiting) : r = f.waiting[i]
  <2>1. CASE BlockingFirst /\ WaitingAt(f, Live \cap Blocking) # {}
    BY <1>1, <2>1 DEF NextClaimed
  <2>2. CASE ~(BlockingFirst /\ WaitingAt(f, Live \cap Blocking) # {}) /\ WaitingAt(f, Live) # {}
    BY <1>1, <2>2 DEF NextClaimed
  <2>3. CASE ~(BlockingFirst /\ WaitingAt(f, Live \cap Blocking) # {}) /\ WaitingAt(f, Live) = {}
    BY <1>0, <2>3 DEF NextClaimed
  <2> QED BY <2>1, <2>2, <2>3
<1>3. WaitingAt(f, Live) # {} => r \in Live
  <2>1. CASE BlockingFirst /\ WaitingAt(f, Live \cap Blocking) # {}
    BY <1>1, <2>1 DEF NextClaimed
  <2>2. CASE ~(BlockingFirst /\ WaitingAt(f, Live \cap Blocking) # {}) /\ WaitingAt(f, Live) # {}
    BY <1>1, <2>2 DEF NextClaimed
  <2> QED BY <2>1, <2>2
<1>4. BlockingFirst /\ WaitingAt(f, Live \cap Blocking) # {} => r \in Blocking
  BY <1>1 DEF NextClaimed
<1> HIDE DEF r
<1>5. r \in HeldSet(f) /\ r.id \in WaitingIds(f) /\ Positions(f.waiting, r.id) # {}
  BY <1>2 DEF HeldSet, WaitingIds, Positions
<1>6. (r.abandoned => WaitingAt(f, Live) = {})
      /\ ((BlockingFirst /\ ~r.body.blocking) => WaitingAt(f, Live \cap Blocking) = {})
  BY <1>3, <1>4 DEF Live, Blocking
<1> QED BY <1>5, <1>6 DEF r

\* The log as it was, and the line that joins it.
LEMMA AppendedIs ==
  ASSUME NEW l \in Seq(Lines), NEW x \in Lines, x.event \in Events
  PROVE  LET m == Append(l, x)
             n == Len(l)
         IN  /\ m \in Seq(Lines) /\ Len(m) = n + 1 /\ n \in Nat /\ m[n + 1] = x
             /\ \A i \in 1..n : m[i] = l[i] /\ FoldOf(m, i - 1) = FoldOf(l, i - 1)
             /\ FoldOf(m, n) = FoldOf(l, n) /\ FoldOf(m, n + 1) = Apply(FoldOf(l, n), x)
             /\ \A i \in 1..(n + 1) : i \in 1..n \/ i = n + 1
             /\ QueuedAt(m) = QueuedAt(l) \cup (IF x.event = "queued" THEN {n + 1} ELSE {})
             /\ ClaimsAt(m) = ClaimsAt(l) \cup (IF x.event = "claimed" THEN {n + 1} ELSE {})
             /\ QueuedAt(l) \subseteq 1..n /\ ClaimsAt(l) \subseteq 1..n
<1> DEFINE m == Append(l, x)
           n == Len(l)
<1>1. /\ m \in Seq(Lines) /\ Len(m) = n + 1 /\ n \in Nat /\ m[n + 1] = x
      /\ \A i \in 1..n : m[i] = l[i]
  OBVIOUS
<1>2. /\ \A i \in 1..(n + 1) : i \in 1..n \/ i = n + 1
      /\ \A i \in 1..n : i - 1 \in 0..n /\ i \in 1..(n + 1)
      /\ n \in 0..n /\ n + 1 \in 1..(n + 1) /\ (n + 1) - 1 = n
  BY <1>1
<1>3. \A i \in 0..n : FoldOf(m, i) = FoldOf(l, i)
  BY FoldOfPrefix
<1>4. FoldOf(m, n + 1) = Apply(FoldOf(l, n), x)
  BY FoldOfAppend
<1>5. EventOf(FoldOf(l, n), x) = x.event
  BY DEF EventOf, Events
<1> HIDE DEF m, n
<1>6. \A i \in 1..n : FoldOf(m, i - 1) = FoldOf(l, i - 1)
  BY <1>2, <1>3
<1>7. FoldOf(m, n) = FoldOf(l, n)
  BY <1>2, <1>3
<1>8. ClaimsAt(m) = ClaimsAt(l) \cup (IF x.event = "claimed" THEN {n + 1} ELSE {})
  BY <1>1, <1>2 DEF ClaimsAt, n
<1>q. \A i \in 1..Len(m) :
        i \in QueuedAt(m) <=> m[i].event \in {"queued", "none"} /\ EventOf(FoldOf(m, i - 1), m[i]) = "queued"
  BY DEF QueuedAt
<1>l. \A i \in 1..n :
        i \in QueuedAt(l) <=> l[i].event \in {"queued", "none"} /\ EventOf(FoldOf(l, i - 1), l[i]) = "queued"
  BY DEF QueuedAt, n
<1>s. QueuedAt(m) \subseteq 1..(n + 1) /\ QueuedAt(l) \subseteq 1..n /\ ClaimsAt(l) \subseteq 1..n
  BY <1>1 DEF QueuedAt, ClaimsAt, n
<1>9. QueuedAt(m) = QueuedAt(l) \cup (IF x.event = "queued" THEN {n + 1} ELSE {})
  <2>1. \A i \in 1..n : i \in QueuedAt(m) <=> i \in QueuedAt(l)
    BY <1>1, <1>2, <1>6, <1>q, <1>l
  <2>2. n + 1 \in QueuedAt(m) <=> x.event = "queued"
    <3>1. n + 1 \in 1..Len(m)
      BY <1>1, <1>2
    <3>2. FoldOf(m, (n + 1) - 1) = FoldOf(l, n) /\ m[n + 1] = x
      BY <1>1, <1>2, <1>7
    <3>3. EventOf(FoldOf(m, (n + 1) - 1), m[n + 1]) = x.event
      BY <1>5, <3>2 DEF n
    <3> QED BY <1>q, <3>1, <3>2, <3>3
  <2>3. n + 1 \notin QueuedAt(l)
    BY <1>1, <1>s
  <2> QED BY <1>2, <1>s, <2>1, <2>2, <2>3
<1> QED BY <1>1, <1>2, <1>4, <1>6, <1>7, <1>8, <1>9, <1>s DEF m, n

\* A line a call decides keeps the log in order.
LEMMA InOrderAppend ==
  ASSUME NEW l \in Seq(Lines), InOrder(l), NEW x, Decided(l, x)
  PROVE  InOrder(Append(l, x))
<1> DEFINE m == Append(l, x)
           n == Len(l)
           f == FoldOf(l, n)
           g == Apply(f, x)
           r == x.record
           e == x.event
<1>0. x \in Lines /\ r \in Records /\ e \in Events
  BY DEF Decided, Lines
<1>1. /\ m \in Seq(Lines) /\ Len(m) = n + 1 /\ n \in Nat /\ m[n + 1] = x
      /\ \A i \in 1..n : m[i] = l[i] /\ FoldOf(m, i - 1) = FoldOf(l, i - 1)
      /\ FoldOf(m, n) = f /\ FoldOf(m, n + 1) = g
      /\ \A i \in 1..(n + 1) : i \in 1..n \/ i = n + 1
      /\ QueuedAt(m) = QueuedAt(l) \cup (IF e = "queued" THEN {n + 1} ELSE {})
      /\ ClaimsAt(m) = ClaimsAt(l) \cup (IF e = "claimed" THEN {n + 1} ELSE {})
      /\ QueuedAt(l) \subseteq 1..n /\ ClaimsAt(l) \subseteq 1..n
  BY <1>0, AppendedIs
<1>2. f \in Folded /\ EventOf(f, x) = e
  <2>1. n \in 0..n
    BY <1>1
  <2>2. f \in Folded
    <3> HIDE DEF m
    <3> QED BY <2>1, FoldOfType
  <2> QED BY <1>0, <2>2 DEF EventOf, Events
<1>k. Knows(l, n)
  BY KnowsAll DEF InOrder
<1>d. /\ e = "queued" => r.id = f.next_id /\ f.next_id # MaxId
      /\ e = "claimed" => f.waiting # <<>> /\ r = NextClaimed(f)
      /\ e = "answered" => f.pending # NoRecord /\ r = f.pending
      /\ e \in {"abandoned", "attended"} => Told(l, x)
  BY DEF Decided
<1> HIDE DEF m, n, f, g, r, e
<1>a. /\ \A i \in QueuedAt(l) : i \in 1..n /\ m[i] = l[i] /\ i < n + 1 /\ i <= n
      /\ \A i \in ClaimsAt(l) : i \in 1..n /\ m[i] = l[i] /\ i < n + 1 /\ i <= n
      /\ n + 1 \notin QueuedAt(l) /\ n + 1 \notin ClaimsAt(l)
  BY <1>1
<1>q. \A i \in QueuedAt(m) : i \in QueuedAt(l) \/ (i = n + 1 /\ e = "queued")
  BY <1>1
<1>c. \A i \in ClaimsAt(m) : i \in ClaimsAt(l) \/ (i = n + 1 /\ e = "claimed")
  BY <1>1
<1>3. StepsTo(f, e, r, g)
  <2>1. IdsDiffer(f.waiting)
    BY <1>k DEF Knows, HeldOnce, f
  <2> QED BY <1>0, <1>2, <2>1, ApplySteps DEF g, r
<1>4. IdsIncrease(m)
  <2>1. \A i, j \in QueuedAt(l) : i < j => l[i].record.id < l[j].record.id
    BY DEF InOrder, IdsIncrease
  <2>2. \A i \in QueuedAt(l) : l[i].record.id # MaxId
    BY DEF InOrder, IdsIncrease
  <2>3. \A i \in QueuedAt(l) : l[i].record.id < f.next_id
    BY <1>a, <1>k DEF Knows, KnowsIds, f
  <2>4. \A i, j \in QueuedAt(m) : i < j => m[i].record.id < m[j].record.id
    <3> SUFFICES ASSUME NEW i \in QueuedAt(m), NEW j \in QueuedAt(m), i < j
                 PROVE  m[i].record.id < m[j].record.id
      OBVIOUS
    <3>1. i \in QueuedAt(l)
      BY <1>1, <1>a, <1>q
    <3>2. CASE j \in QueuedAt(l)
      BY <1>a, <2>1, <3>1, <3>2
    <3>3. CASE j = n + 1 /\ e = "queued"
      BY <1>1, <1>a, <1>d, <2>3, <3>1, <3>3 DEF r
    <3> QED BY <1>q, <3>2, <3>3
  <2>5. \A i \in QueuedAt(m) : m[i].record.id # MaxId
    <3> TAKE i \in QueuedAt(m)
    <3>1. CASE i \in QueuedAt(l)
      BY <1>a, <2>2, <3>1
    <3>2. CASE i = n + 1 /\ e = "queued"
      BY <1>1, <1>d, <3>2 DEF r
    <3> QED BY <1>q, <3>1, <3>2
  <2> QED BY <2>4, <2>5 DEF IdsIncrease
<1>u. \A i, j \in QueuedAt(l) : l[i].record.id = l[j].record.id => i = j
  <2>1. \A i, j \in QueuedAt(l) : i < j => l[i].record.id < l[j].record.id
    BY DEF InOrder, IdsIncrease
  <2>2. \A i \in QueuedAt(l) : i \in Nat /\ l[i].record.id \in Nat
    <3> TAKE i \in QueuedAt(l)
    <3>1. i \in 1..Len(l)
      BY <1>1 DEF n
    <3> QED BY <3>1, LineIs, FoldAssumption
  <2> QED BY <2>1, <2>2
<1>5. NothingLost(m)
  <2> DEFINE Later(i) == \E j \in (i + 1)..Len(m) :
                 \/ m[j].event = "claimed" /\ m[j].record.id = m[i].record.id
                 \/ /\ Supersedes /\ j \in QueuedAt(m)
                    /\ m[j].record.body.admits /\ m[j].record.body.key = m[i].record.body.key
  <2>1. ASSUME NEW i \in QueuedAt(m) PROVE m[i].record.id \in HeldIds(g) \/ Later(i)
    <3>1. CASE i = n + 1 /\ e = "queued"
      BY <1>1, <1>3, <1>d, <3>1 DEF StepsTo, r
    <3>2. CASE i \in QueuedAt(l)
      <4> DEFINE id == l[i].record.id
      <4>0. i \in 1..n /\ m[i] = l[i] /\ n + 1 \in (i + 1)..Len(m) /\ \A j \in (i + 1)..n : j \in (i + 1)..Len(m) /\ j \in 1..n
        BY <1>1, <1>a, <3>2
      <4>1. CASE \E j \in (i + 1)..n :
                   \/ l[j].event = "claimed" /\ l[j].record.id = id
                   \/ /\ Supersedes /\ j \in QueuedAt(l)
                      /\ l[j].record.body.admits /\ l[j].record.body.key = l[i].record.body.key
        <5>1. PICK j \in (i + 1)..n :
                   \/ l[j].event = "claimed" /\ l[j].record.id = id
                   \/ /\ Supersedes /\ j \in QueuedAt(l)
                      /\ l[j].record.body.admits /\ l[j].record.body.key = l[i].record.body.key
          BY <4>1
        <5>2. j \in (i + 1)..Len(m) /\ m[j] = l[j] /\ (j \in QueuedAt(l) => j \in QueuedAt(m))
          BY <1>1, <4>0
        <5> QED BY <4>0, <5>1, <5>2
      <4>2. ASSUME NEW h \in HeldSet(f), h.id = id PROVE m[i].record.id \in HeldIds(g) \/ Later(i)
        <5>1. h.body = l[i].record.body
          <6>1. PICK k \in QueuedAt(l) : l[k].record.id = h.id /\ l[k].record.body = h.body
            BY <1>k DEF Knows, KnowsHeld, f
          <6> QED BY <1>u, <3>2, <4>2, <6>1
        <5>2. CASE h.id \in HeldIds(g)
          BY <4>0, <4>2, <5>2
        <5>3. CASE e = "queued" /\ Supersedes /\ r.body.admits /\ h.body.key = r.body.key
          <6>1. n + 1 \in QueuedAt(m) /\ m[n + 1].record = r
            BY <1>1, <5>3 DEF r
          <6> QED BY <4>0, <5>1, <5>3, <6>1
        <5>4. CASE e = "claimed" /\ h.id = r.id
          <6>1. m[n + 1].event = "claimed" /\ m[n + 1].record.id = id
            BY <1>1, <4>2, <5>4 DEF r, e
          <6> QED BY <4>0, <6>1
        <5>5. CASE h = f.pending /\ f.pending # NoRecord
          <6>1. PICK k \in QueuedAt(l), j \in ClaimsAt(l) :
                  k < j /\ j <= n /\ l[k].record.id = f.pending.id /\ l[j].record.id = f.pending.id
            BY <1>k, <5>5 DEF Knows, KnowsClaimed, f
          <6>2. k = i
            BY <1>u, <3>2, <4>2, <5>5, <6>1
          <6>3. j \in (i + 1)..n
            BY <1>1, <6>1, <6>2
          <6>4. l[j].event = "claimed"
            BY DEF ClaimsAt
          <6> QED BY <4>1, <4>2, <5>5, <6>1, <6>3, <6>4
        <5>6. h # NoRecord
          BY <1>2, <4>2, HeldSetType, FoldAssumption DEF Records
        <5> QED BY <1>3, <4>2, <5>2, <5>3, <5>4, <5>5, <5>6 DEF StepsTo
      <4>3. id \in HeldIds(f) => \E h \in HeldSet(f) : h.id = id
        BY <1>2, HeldSetType
      <4>4. \/ \E k \in 1..Len(HeldRecords(f)) : HeldRecords(f)[k].id = id
            \/ \E j \in (i + 1)..n :
                   \/ l[j].event = "claimed" /\ l[j].record.id = id
                   \/ /\ Supersedes /\ j \in QueuedAt(l)
                      /\ l[j].record.body.admits /\ l[j].record.body.key = l[i].record.body.key
        <5>1. NothingLost(l)
          BY DEF InOrder
        <5> QED BY <3>2, <5>1 DEF NothingLost, f, n
      <4>5. (\E k \in 1..Len(HeldRecords(f)) : HeldRecords(f)[k].id = id) => id \in HeldIds(f)
        BY <1>2, HeldSetType
      <4> HIDE DEF id
      <4> QED BY <4>1, <4>2, <4>3, <4>4, <4>5 DEF id
    <3> QED BY <1>q, <3>1, <3>2
  <2>2. g \in Folded
    BY <1>0, <1>2, ApplyType DEF g
  <2>3. \A id : id \in HeldIds(g) => \E k \in 1..Len(HeldRecords(g)) : HeldRecords(g)[k].id = id
    BY <2>2, HeldSetType
  <2>4. FoldOf(m, Len(m)) = g
    BY <1>1
  <2> HIDE DEF Later
  <2>5. \A i \in QueuedAt(m) :
          (\E k \in 1..Len(HeldRecords(g)) : HeldRecords(g)[k].id = m[i].record.id) \/ Later(i)
    BY <2>1, <2>3
  <2> QED BY <2>4, <2>5 DEF NothingLost, Later
<1>6. HandedOutOnceUnlessAbandoned(m)
  <2> SUFFICES ASSUME NEW i \in ClaimsAt(m), NEW j \in ClaimsAt(m), i < j, m[i].record.id = m[j].record.id
               PROVE  \E k \in 1..j : SaysAbandoned(m[k]) /\ m[k].record.id = m[j].record.id
    BY DEF HandedOutOnceUnlessAbandoned
  <2>1. i \in ClaimsAt(l)
    BY <1>1, <1>a, <1>c
  <2>2. CASE j \in ClaimsAt(l)
    <3>1. m[i] = l[i] /\ m[j] = l[j] /\ \A k \in 1..j : m[k] = l[k]
      BY <1>1, <1>a, <2>1, <2>2
    <3>2. \E k \in 1..j : SaysAbandoned(l[k]) /\ l[k].record.id = l[j].record.id
      BY <2>1, <2>2, <3>1 DEF InOrder, HandedOutOnceUnlessAbandoned
    <3> QED BY <3>1, <3>2
  <2>3. CASE j = n + 1 /\ e = "claimed"
    <3>1. r.id \in WaitingIds(f)
      BY <1>2, <1>d, <2>3, NextClaimedIs
    <3>2. l[i].record.id = r.id /\ i <= n
      BY <1>1, <1>a, <2>1, <2>3 DEF r
    <3>3. SaidAbandoned(l, n, r.id)
      BY <1>k, <2>1, <3>1, <3>2 DEF Knows, KnowsClaimed, f
    <3>4. PICK k \in 1..n : SaysAbandoned(l[k]) /\ l[k].record.id = r.id
      BY <3>3 DEF SaidAbandoned
    <3>5. k \in 1..j /\ m[k] = l[k]
      BY <1>1, <2>3
    <3> QED BY <1>1, <2>3, <3>4, <3>5 DEF r
  <2> QED BY <1>c, <2>2, <2>3
<1>7. ClaimsFollowTheOrder(m)
  <2> DEFINE InTurn(k, before, c) ==
               /\ Positions(before.waiting, c.id) # {}
               /\ c.abandoned => WaitingAt(before, Live) = {}
               /\ (BlockingFirst /\ ~c.body.blocking) => WaitingAt(before, Live \cap Blocking) = {}
  <2>1. ASSUME NEW i \in ClaimsAt(l) PROVE InTurn(i, FoldOf(m, i - 1), m[i].record)
    <3>1. m[i] = l[i] /\ FoldOf(m, i - 1) = FoldOf(l, i - 1)
      BY <1>1, <1>a
    <3>2. InTurn(i, FoldOf(l, i - 1), l[i].record)
      BY DEF InOrder, ClaimsFollowTheOrder
    <3> HIDE DEF InTurn
    <3> QED BY <3>1, <3>2
  <2>2. ASSUME e = "claimed" PROVE InTurn(n + 1, FoldOf(m, (n + 1) - 1), m[n + 1].record)
    <3>1. InTurn(n + 1, f, r)
      BY <1>2, <1>d, <2>2, NextClaimedIs
    <3>2. FoldOf(m, (n + 1) - 1) = f /\ m[n + 1].record = r
      <4>1. (n + 1) - 1 = n
        BY <1>1
      <4> QED BY <1>1, <4>1 DEF r
    <3> HIDE DEF InTurn
    <3> QED BY <3>1, <3>2
  <2> HIDE DEF InTurn
  <2>3. \A i \in ClaimsAt(m) : InTurn(i, FoldOf(m, i - 1), m[i].record)
    BY <1>c, <2>1, <2>2
  <2> QED BY <2>3 DEF ClaimsFollowTheOrder, InTurn
<1>8. AnsweredOnlyWhilePending(m)
  <2> SUFFICES ASSUME NEW i \in 1..Len(m), m[i].event = "answered"
               PROVE  Pends(FoldOf(m, i - 1), m[i].record.id)
    BY DEF AnsweredOnlyWhilePending
  <2>1. CASE i \in 1..n
    <3>1. AnsweredOnlyWhilePending(l) /\ i \in 1..Len(l) /\ m[i] = l[i] /\ FoldOf(m, i - 1) = FoldOf(l, i - 1)
      BY <1>1, <2>1 DEF InOrder, n
    <3> QED BY <3>1 DEF AnsweredOnlyWhilePending
  <2>2. CASE i = n + 1
    <3>1. i - 1 = n /\ m[i] = x
      BY <1>1, <2>2
    <3> QED BY <1>1, <1>d, <3>1 DEF r, e, Pends
  <2> QED BY <1>1, <2>1, <2>2
<1>9. NamesTheQueued(m)
  <2>1. ASSUME NEW h \in HeldSet(f), r.id = h.id, r.body = h.body PROVE Told(l, x)
    BY <1>k, <2>1 DEF Knows, KnowsHeld, Told, f, r
  <2>2. e # "queued" => Told(l, x)
    <3>1. e = "claimed" => Told(l, x)
      BY <1>2, <1>d, <2>1, NextClaimedIs
    <3>2. e = "answered" => Told(l, x)
      <4>1. f.pending # NoRecord => f.pending \in HeldSet(f)
        BY DEF HeldSet
      <4> QED BY <1>d, <2>1, <4>1
    <3> QED BY <1>0, <1>d, <3>1, <3>2 DEF Events
  <2> SUFFICES ASSUME NEW i \in 1..Len(m), m[i].event # "unreadable"
               PROVE  \E j \in QueuedAt(m) : j <= i /\ m[j].record.id = m[i].record.id
                                             /\ m[j].record.body = m[i].record.body
    BY DEF NamesTheQueued
  <2>3. CASE i \in 1..n
    <3>1. NamesTheQueued(l) /\ i \in 1..Len(l) /\ m[i] = l[i]
      BY <1>1, <2>3 DEF InOrder, n
    <3>2. PICK j \in QueuedAt(l) : j <= i /\ l[j].record.id = l[i].record.id
                                  /\ l[j].record.body = l[i].record.body
      BY <3>1 DEF NamesTheQueued
    <3> QED BY <1>1, <1>a, <3>1, <3>2
  <2>4. CASE i = n + 1 /\ e = "queued"
    BY <1>1, <2>4
  <2>5. CASE i = n + 1 /\ e # "queued"
    <3>1. PICK j \in QueuedAt(l) : l[j].record.id = r.id /\ l[j].record.body = r.body
      BY <2>2, <2>5 DEF Told, r
    <3>2. m[i].record = r /\ j <= i
      BY <1>1, <1>a, <2>5 DEF r
    <3> QED BY <1>1, <1>a, <3>1, <3>2
  <2> QED BY <1>1, <2>3, <2>4, <2>5
<1> QED BY <1>4, <1>5, <1>6, <1>7, <1>8, <1>9 DEF InOrder, m

----------------------------------------------------------------------------
(* What a writer has still to append: marks, which a log in order bears at  *)
(* any time, or the one line its call decided from the log as it still is.  *)

ToAppend(l, s) ==
  \/ \A i \in 1..Len(s) : s[i].event \in {"abandoned", "attended"} /\ Told(l, s[i])
  \/ Len(s) = 1 /\ Decided(l, s[1])

TodoDecided == \A p \in Procs : pc[p] = "append" => ToAppend(log, todo[p])

LEMMA MarkLinesMark ==
  ASSUME NEW f \in Folded, NEW event \in {"abandoned", "attended"}, NEW S
  PROVE  \A i \in 1..Len(MarkLines(f, event, S)) :
           LET x == MarkLines(f, event, S)[i]
           IN  /\ x.event \in {"abandoned", "attended"}
               /\ \E h \in HeldSet(f) : x.record.id = h.id /\ x.record.body = h.body
<1> DEFINE chosen == Chosen(HeldRecords(f), S)
           n      == Len(chosen)
           b      == event = "abandoned"
           x(i)   == Line(event, [chosen[i] EXCEPT !.abandoned = b])
           lines  == [i \in 1..n |-> x(i)]
<1>1. PICK m : m = MarkLines(f, event, S) /\ m = lines
  BY DEF MarkLines
<1>2. \A i : x(i).event = event /\ x(i).record = [chosen[i] EXCEPT !.abandoned = b]
  BY DEF Line
<1>3. chosen \in Seq(HeldSet(f) \cap S)
  BY HeldRecordsAre, ChosenType
<1>4. chosen \in Seq(HeldSet(f)) /\ n \in Nat
  <2>1. HeldSet(f) \cap S \subseteq HeldSet(f)
    OBVIOUS
  <2> HIDE DEF chosen
  <2> QED BY <1>3, <2>1
<1>5. \A h \in HeldSet(f) : [h EXCEPT !.abandoned = b].id = h.id /\ [h EXCEPT !.abandoned = b].body = h.body
  <2>1. HeldSet(f) \subseteq Records
    BY HeldSetType
  <2> QED BY <2>1 DEF Records
<1>6. \A i \in 1..n : chosen[i] \in HeldSet(f)
  <2> HIDE DEF chosen
  <2> QED BY <1>4
<1> HIDE DEF n, x, b, chosen
<1>7. Len(lines) = n /\ \A i \in 1..n : lines[i] = x(i)
  BY <1>4
<1>8. \A i \in 1..n : \E h \in HeldSet(f) : x(i).record.id = h.id /\ x(i).record.body = h.body
  <2> TAKE i \in 1..n
  <2>1. chosen[i] \in HeldSet(f)
    BY <1>6
  <2>2. x(i).record.id = chosen[i].id /\ x(i).record.body = chosen[i].body
    BY <1>2, <1>5, <2>1, Zenon
  <2> QED BY <2>1, <2>2
<1> SUFFICES ASSUME NEW i \in 1..Len(m)
             PROVE  /\ m[i].event \in {"abandoned", "attended"}
                    /\ \E h \in HeldSet(f) : m[i].record.id = h.id /\ m[i].record.body = h.body
  BY <1>1
<1>9. i \in 1..n /\ m[i] = x(i)
  <2> HIDE DEF lines
  <2> QED BY <1>1, <1>7
<1> QED BY <1>2, <1>8, <1>9

\* What `mark` finds of a record is what the log queued.
LEMMA RecordForTold ==
  ASSUME NEW l \in Seq(Lines), InOrder(l), NEW f \in Folded,
         \A h \in HeldSet(f) : \E j \in QueuedAt(l) : l[j].record.id = h.id /\ l[j].record.body = h.body,
         NEW id \in QueuedIn(l)
  PROVE  \E j \in QueuedAt(l) : /\ l[j].record.id = RecordFor(f, l, id).id
                               /\ l[j].record.body = RecordFor(f, l, id).body
<1> DEFINE s    == HeldRecords(f)
           held == {i \in 1..Len(s) : s[i].id = id}
           born == {i \in 1..Len(l) : l[i].record.id = id /\ l[i].event \in {"queued", "none"}}
<1>1. CASE held # {}
  <2>1. held \subseteq Nat /\ held \subseteq 1..Len(s)
    OBVIOUS
  <2> HIDE DEF held
  <2>2. First(held) \in 1..Len(s)
    BY <1>1, <2>1, FirstIsMember
  <2>3. s[First(held)] \in HeldSet(f)
    <3>1. s \in Seq(HeldSet(f))
      BY HeldRecordsAre
    <3> HIDE DEF s
    <3> QED BY <2>2, <3>1
  <2>4. RecordFor(f, l, id) = s[First(held)]
    BY <1>1 DEF RecordFor, held
  <2> HIDE DEF s
  <2> QED BY <2>3, <2>4
<1>2. CASE held = {}
  <2>1. born \subseteq Nat /\ born # {}
    BY DEF QueuedIn
  <2>2. First(born) \in born
    <3> HIDE DEF born
    <3> QED BY <2>1, FirstIsMember
  <2>3. RecordFor(f, l, id) = l[First(born)].record
    BY <1>2 DEF RecordFor
  <2>4. ASSUME NEW i \in born PROVE \E j \in QueuedAt(l) : l[j].record.id = l[i].record.id /\ l[j].record.body = l[i].record.body
    BY DEF InOrder, NamesTheQueued
  <2> HIDE DEF born
  <2> QED BY <2>2, <2>3, <2>4
<1> QED BY <1>1, <1>2

LEMMA OneIsMember ==
  ASSUME NEW S, NEW x, <<x>> \in Seq(S)
  PROVE  x \in S
<1>1. <<x>>[1] \in S
  <2>1. 1 \in 1..Len(<<x>>)
    OBVIOUS
  <2> QED BY <2>1
<1> QED BY <1>1

\* What each call derives is decided by the log it derives it from.
LEMMA LinesOfDecided ==
  ASSUME NEW l \in Seq(Lines), InOrder(l), NEW f \in Folded, f = FoldOf(l, Len(l)),
         NEW c \in Calls,
         c.op \notin {"read", "answer_at"},
         c.op = "mark" => c.id \in QueuedIn(l),
         ~(c.op = "push" /\ f.next_id = MaxId)
  PROVE  ToAppend(l, LinesOf(c, f, l))
<1> DEFINE s == LinesOf(c, f, l)
<1> SUFFICES ToAppend(l, s)
  OBVIOUS
<1>0. s \in Seq(Lines)
  BY LinesOfType
<1>1. ASSUME NEW x, s = <<x>>, x.event \in Events,
             x.event = "queued" => x.record.id = f.next_id /\ f.next_id # MaxId /\ x.record \in Live,
             x.event = "claimed" => f.waiting # <<>> /\ x.record = NextClaimed(f),
             x.event = "answered" => f.pending # NoRecord /\ x.record = f.pending,
             x.event \in {"abandoned", "attended"} => Told(l, x)
      PROVE  ToAppend(l, s)
  <2>1. Len(s) = 1 /\ s[1] = x
    BY <1>1
  <2>2. x \in Lines
    <3>1. <<x>> \in Seq(Lines)
      BY <1>0, <1>1, Zenon
    <3> QED BY <3>1, OneIsMember, Zenon
  <2> QED BY <1>1, <2>1, <2>2 DEF ToAppend, Decided
<1>2. s = <<>> => ToAppend(l, s)
  <2>1. Len(<<>>) = 0
    OBVIOUS
  <2> QED BY <2>1 DEF ToAppend
<1>k. ASSUME NEW h \in HeldSet(f) PROVE \E j \in QueuedAt(l) : l[j].record.id = h.id /\ l[j].record.body = h.body
  <2>1. KnowsHeld(l, Len(l))
    BY KnowsAll DEF InOrder, Knows
  <2> QED BY <2>1 DEF KnowsHeld
<1>3. CASE c.op = "push"
  <2> DEFINE r == [id |-> f.next_id, abandoned |-> FALSE, body |-> c.body]
             x == Line("queued", r)
  <2>1. s = <<x>>
    BY <1>3 DEF LinesOf
  <2>2. x.event = "queued" /\ x.record = r
    BY DEF Line
  <2>3. r \in Live /\ r.id = f.next_id
    BY <1>3 DEF Calls, Folded, Live, Records
  <2> HIDE DEF x, s, r
  <2> QED BY <1>1, <1>3, <2>1, <2>2, <2>3 DEF Events
<1>4. CASE c.op = "claim"
  <2> DEFINE x == Line("claimed", NextClaimed(f))
  <2>1. f.waiting # <<>> => s = <<x>>
    BY <1>4 DEF LinesOf
  <2>2. f.waiting = <<>> => s = <<>>
    BY <1>4 DEF LinesOf
  <2>3. x.event = "claimed" /\ x.record = NextClaimed(f)
    BY DEF Line
  <2> HIDE DEF x, s
  <2> QED BY <1>1, <1>2, <2>1, <2>2, <2>3 DEF Events
<1>5. CASE c.op \in {"answer", "answer_pending"}
  <2> DEFINE x == Line("answered", f.pending)
  <2>1. s = <<>> \/ (s = <<x>> /\ f.pending # NoRecord)
    BY <1>5 DEF LinesOf, Pends
  <2>2. x.event = "answered" /\ x.record = f.pending
    BY DEF Line
  <2> HIDE DEF x, s
  <2> QED BY <1>1, <1>2, <2>1, <2>2 DEF Events
<1>6. CASE c.op \in {"abandon", "attend"}
  <2>1. \E event \in {"abandoned", "attended"} : \E S : s = MarkLines(f, event, S)
    BY <1>6 DEF LinesOf
  <2> HIDE DEF s
  <2>2. \A i \in 1..Len(s) : /\ s[i].event \in {"abandoned", "attended"}
                             /\ \E h \in HeldSet(f) : s[i].record.id = h.id /\ s[i].record.body = h.body
    BY <2>1, MarkLinesMark
  <2> QED BY <1>k, <2>2 DEF ToAppend, Told
<1>7. CASE c.op = "mark"
  <2> DEFINE rec == RecordFor(f, l, c.id)
             x == Line(IF c.abandoned THEN "abandoned" ELSE "attended", [rec EXCEPT !.abandoned = c.abandoned])
  <2>1. s = <<x>>
    BY <1>7 DEF LinesOf
  <2>2. x.event \in {"abandoned", "attended"} /\ x.record.id = rec.id /\ x.record.body = rec.body
    <3>1. rec \in Records
      BY <1>7, RecordForType
    <3> HIDE DEF rec
    <3> QED BY <3>1 DEF Line, Records
  <2>3. \E j \in QueuedAt(l) : l[j].record.id = rec.id /\ l[j].record.body = rec.body
    BY <1>k, <1>7, RecordForTold
  <2> HIDE DEF x, s, rec
  <2> QED BY <1>1, <2>1, <2>2, <2>3 DEF Events, Told
<1> QED BY <1>3, <1>4, <1>5, <1>6, <1>7 DEF Calls

LEMMA LogInit == Init => TodoDecided /\ LogInOrder
BY OldLogsAssumption DEF Init, TodoDecided, LogInOrder

\* A step in which nobody decides or appends a line.
LEMMA LogIdles ==
  ASSUME IInv, TodoDecided, LogInOrder, log' = log,
         \A q \in Procs : pc'[q] = "append" =>
           pc[q] = "append" /\ todo'[q] = todo[q]
  PROVE  TodoDecided' /\ LogInOrder'
<1>1. TodoDecided'
  <2> SUFFICES ASSUME NEW q \in Procs, pc'[q] = "append"
               PROVE  ToAppend(log', todo'[q])
    BY DEF TodoDecided
  <2>1. pc[q] = "append" /\ todo'[q] = todo[q]
    OBVIOUS
  <2> QED BY <2>1 DEF TodoDecided
<1>2. LogInOrder'
  BY DEF LogInOrder
<1> QED BY <1>1, <1>2

LEMMA LogEnters ==
  ASSUME IInv, TodoDecided, LogInOrder, NEW p \in Procs, NEW c \in Calls, EnterWith(p, c),
         c.op \notin {"read", "answer_at"},
         c.op = "mark" => c.id \in Queued
  PROVE  TodoDecided' /\ LogInOrder'
<1> DEFINE now   == Current(doc, log)
           lines == LinesOf(c, now.fold, log)
<1>1. now \in Views /\ now.fold = FoldOf(log, Len(log))
  BY CurrentType, CurrentSound DEF IInv, TypeOK, NoneUnstamped, ProjectionSound, Sound
<1>2. /\ view' = [view EXCEPT ![p] = now]
      /\ todo' = [todo EXCEPT ![p] = lines]
      /\ pc' = [pc EXCEPT ![p] = IF lines = <<>> THEN "project" ELSE "append"]
      /\ log' = log /\ ~(c.op = "push" /\ now.fold.next_id = MaxId)
  BY DEF EnterWith
<1>3. ToAppend(log, lines)
  <2>1. now.fold \in Folded /\ log \in Seq(Lines)
    BY <1>1 DEF Views, IInv, TypeOK
  <2>2. c.op = "mark" => c.id \in QueuedIn(log)
    BY DEF Queued, QueuedIn
  <2>3. InOrder(log)
    BY DEF LogInOrder
  <2> HIDE DEF now
  <2> QED BY <1>1, <1>2, <2>1, <2>2, <2>3, LinesOfDecided
<1> HIDE DEF now, lines
<1>4. TodoDecided'
  <2> SUFFICES ASSUME NEW q \in Procs, pc'[q] = "append"
               PROVE  ToAppend(log', todo'[q])
    BY DEF TodoDecided
  <2>1. CASE q = p
    <3>1. log' = log /\ todo'[q] = lines
      BY <1>2, <2>1 DEF IInv, TypeOK
    <3> QED BY <1>3, <3>1
  <2>2. CASE q # p
    <3>1. pc[q] = "append" /\ todo'[q] = todo[q]
      BY <1>2, <2>2 DEF IInv, TypeOK
    <3> QED BY <1>2, <3>1 DEF TodoDecided
  <2> QED BY <2>1, <2>2
<1>5. LogInOrder'
  BY <1>2 DEF LogInOrder
<1> QED BY <1>4, <1>5

\* The line appended was decided from the whole log.
LEMMA AppendedIsDecided ==
  ASSUME IInv, TodoDecided, NEW p \in Procs, AppendLine(p)
  PROVE  /\ log \in Seq(Lines) /\ log' = Append(log, Head(todo[p]))
         /\ Decided(log, Head(todo[p]))
<1> DEFINE s == todo[p]
           x == Head(todo[p])
<1>0. /\ log \in Seq(Lines) /\ s \in Seq(Lines) /\ s # <<>> /\ pc[p] = "append"
  BY DEF IInv, TypeOK, CallsInProgress, AppendLine
<1>1. log' = Append(log, x)
  BY DEF AppendLine
<1>2. x = s[1] /\ 1 \in 1..Len(s) /\ x \in Lines
  BY <1>0
<1>3. ToAppend(log, s)
  BY <1>0 DEF TodoDecided
<1> HIDE DEF s, x
<1>4. Decided(log, x)
  <2>1. CASE \A i \in 1..Len(s) : s[i].event \in {"abandoned", "attended"} /\ Told(log, s[i])
    <3>1. x.event \in {"abandoned", "attended"} /\ Told(log, x)
      BY <1>2, <2>1
    <3> QED BY <1>2, <3>1 DEF Decided, Events
  <2>2. CASE Len(s) = 1 /\ Decided(log, s[1])
    BY <1>0, <1>2, <2>2
  <2> QED BY <1>3, <2>1, <2>2 DEF ToAppend
<1> QED BY <1>0, <1>1, <1>4 DEF x

\* No other writer decided anything meanwhile.
LEMMA LogGrows ==
  ASSUME IInv, TodoDecided, LogInOrder, NEW p \in Procs, AppendLine(p)
  PROVE  TodoDecided' /\ LogInOrder'
<1> DEFINE s == todo[p]
           x == Head(todo[p])
<1>0. /\ log \in Seq(Lines) /\ s \in Seq(Lines) /\ s # <<>> /\ pc[p] = "append"
      /\ view[p].fold = FoldOf(log, Len(log))
  BY DEF IInv, TypeOK, CallsInProgress, AppendLine, WriterUpToDate
<1>1. /\ log' = Append(log, x)
      /\ view' = [view EXCEPT ![p] = [fold |-> Apply(view[p].fold, x), accounted |-> Len(log) + 1]]
      /\ todo' = [todo EXCEPT ![p] = Tail(s)]
      /\ pc' = [pc EXCEPT ![p] = IF Len(s) = 1 THEN "project" ELSE "append"]
  BY DEF AppendLine
<1>2. x = s[1] /\ 1 \in 1..Len(s) /\ x \in Lines /\ Len(s) \in Nat
      /\ Len(Tail(s)) = Len(s) - 1 /\ \A i \in 1..(Len(s) - 1) : Tail(s)[i] = s[i + 1] /\ i + 1 \in 1..Len(s)
  BY <1>0
<1>3. ToAppend(log, s)
  BY <1>0 DEF TodoDecided
<1> HIDE DEF s, x
<1>4. Decided(log, x)
  BY AppendedIsDecided DEF x
<1>5. LogInOrder'
  <2>1. InOrder(Append(log, x))
    BY <1>0, <1>4, InOrderAppend DEF LogInOrder
  <2> QED BY <1>1, <2>1 DEF LogInOrder
<1>6. ASSUME NEW y, Told(log, y) PROVE Told(log', y)
  <2>1. QueuedAt(log) \subseteq 1..Len(log) /\ \A j \in 1..Len(log) : log'[j] = log[j]
    BY <1>0, <1>1, <1>2, <1>4, AppendedIs DEF Decided
  <2>2. QueuedAt(log) \subseteq QueuedAt(log')
    BY <1>0, <1>1, <1>2, <1>4, AppendedIs DEF Decided
  <2> QED BY <1>6, <2>1, <2>2 DEF Told
<1>7. TodoDecided'
  <2> SUFFICES ASSUME NEW q \in Procs, pc'[q] = "append"
               PROVE  ToAppend(log', todo'[q])
    BY DEF TodoDecided
  <2>1. q = p
    <3>1. pc[q] = "append"
      BY <1>0, <1>1 DEF IInv, TypeOK
    <3> QED BY <1>0, <3>1 DEF IInv, WriterUpToDate
  <2>2. Len(s) # 1 /\ todo'[q] = Tail(s)
    BY <1>1, <2>1 DEF IInv, TypeOK
  <2>3. \A i \in 1..Len(s) : s[i].event \in {"abandoned", "attended"} /\ Told(log, s[i])
    BY <1>3, <2>2 DEF ToAppend
  <2>4. \A i \in 1..Len(Tail(s)) : Tail(s)[i].event \in {"abandoned", "attended"} /\ Told(log', Tail(s)[i])
    BY <1>2, <1>6, <2>3
  <2> QED BY <2>2, <2>4 DEF ToAppend
<1> QED BY <1>5, <1>7

LEMMA LogNext == IInv /\ TodoDecided /\ LogInOrder /\ [Next]_vars => TodoDecided' /\ LogInOrder'
<1> SUFFICES ASSUME IInv, TodoDecided, LogInOrder, [Next]_vars PROVE TodoDecided' /\ LogInOrder'
  OBVIOUS
<1> DEFINE Idle(q) == pc'[q] = "append" =>
                        pc[q] = "append" /\ todo'[q] = todo[q]
<1>t. pc \in [Procs -> {"idle", "enter", "append", "project", "log", "repair", "place"}]
      /\ view \in [Procs -> Views] /\ todo \in [Procs -> Seq(Lines)]
  BY DEF IInv, TypeOK
<1>r. ASSUME NEW p \in Procs, Return(p) PROVE \A q \in Procs : Idle(q)
  BY <1>r, <1>t DEF Return
<1>a. ASSUME NEW p \in Procs, NEW f, AfterRead(p, f) PROVE \A q \in Procs : Idle(q)
  BY <1>a, <1>r, <1>t DEF AfterRead
<1>1. CASE UNCHANGED vars
  <2>1. log' = log /\ \A q \in Procs : Idle(q)
    BY <1>1 DEF vars
  <2> QED BY <2>1, LogIdles
<1>2. CASE Lose
  <2>1. log' = log /\ \A q \in Procs : Idle(q)
    BY <1>2 DEF Lose
  <2> QED BY <2>1, LogIdles
<1>3. ASSUME NEW p \in Procs, Enter(p) PROVE TodoDecided' /\ LogInOrder'
  <2>1. call[p] \in Calls /\ call[p].op \in {"mark", "answer"}
        /\ (call[p].op = "mark" => call[p].id \in Queued)
    BY <1>3 DEF IInv, TypeOK, CallsInProgress, Enter
  <2> QED BY <1>3, <2>1, LogEnters DEF Enter
<1>4. ASSUME NEW p \in Procs, AppendLine(p) PROVE TodoDecided' /\ LogInOrder'
  BY <1>4, LogGrows
<1>5. ASSUME NEW p \in Procs, Project(p) \/ TransportFails(p) \/ Crash(p)
      PROVE  TodoDecided' /\ LogInOrder'
  <2>1. log' = log /\ Return(p)
    BY <1>5 DEF Project, TransportFails, Crash
  <2>2. \A q \in Procs : Idle(q)
    BY <1>r, <2>1
  <2> QED BY <2>1, <2>2, LogIdles
<1>6. ASSUME NEW p \in Procs, ReadLog(p) \/ Repair(p) \/ Place(p)
      PROVE  TodoDecided' /\ LogInOrder'
  <2>1. log' = log
    BY <1>6 DEF ReadLog, Repair, Place
  <2>2. CASE ReadLog(p)
    <3>1. AfterRead(p, Current(seen[p], log).fold) \/ pc' = [pc EXCEPT ![p] = "repair"]
      BY <2>2 DEF ReadLog
    <3>2. AfterRead(p, Current(seen[p], log).fold) \/
          (todo' = todo
             /\ pc' = [pc EXCEPT ![p] = "repair"])
      BY <2>2 DEF ReadLog
    <3>3. \A q \in Procs : Idle(q)
      BY <1>a, <1>t, <3>2
    <3> QED BY <2>1, <3>3, LogIdles
  <2>3. CASE Repair(p)
    <3>1. \A q \in Procs : Idle(q)
      BY <1>a, <2>3 DEF Repair
    <3> QED BY <2>1, <3>1, LogIdles
  <2>4. CASE Place(p)
    <3>1. \A q \in Procs : Idle(q)
      BY <1>r, <1>t, <2>4 DEF Place
    <3> QED BY <2>1, <3>1, LogIdles
  <2> QED BY <1>6, <2>2, <2>3, <2>4
<1>7. ASSUME NEW p \in Procs, NEW c \in WritesNow, Write(p, c) PROVE TodoDecided' /\ LogInOrder'
  <2>1. c \in Calls /\ c.op \notin {"read", "answer_at", "mark"}
    <3>1. Queued \cap Ids \subseteq Ids
      OBVIOUS
    <3> QED BY <3>1 DEF WritesNow, Calls
  <2> QED BY <1>7, <2>1, LogEnters DEF Write
<1>8. ASSUME NEW p \in Procs, NEW c, Read(p, c) \/ Mark(p, c) PROVE TodoDecided' /\ LogInOrder'
  <2>1. log' = log /\ \A q \in Procs : Idle(q)
    BY <1>8, <1>t DEF Read, Mark
  <2> QED BY <2>1, LogIdles
<1> QED BY <1>1, <1>2, <1>3, <1>4, <1>5, <1>6, <1>7, <1>8 DEF Next, Step

----------------------------------------------------------------------------
(* What a log in order shows of the queue (QueuePromise), by the records    *)
(* its fold holds; and the step each decided line is of QueueLifecycle.     *)

Ref(S) == {h.id : h \in S}
StageOf(W, P, n) ==
  [id \in Ids |-> IF id \in Ref(W) THEN "waiting" ELSE IF id \in Ref(P) THEN "held"
                  ELSE IF id < n THEN "gone" ELSE "unused"]
BlockingIds(l) == {id \in Ids : \E i \in QueuedAt(l) : l[i].record.id = id /\ l[i].record.body.blocking}
MarkedIds(S) == Ref({h \in S : h.abandoned})

\* W waits and P holds the slot: each record once, under an id below n, and
\* B are those offered as blocking.
Holding(W, P, n, B) ==
  /\ W \subseteq Records /\ P \subseteq Records /\ n \in 0..MaxId
  /\ \A h, k \in P : h = k
  /\ \A h, k \in W \cup P : h.id = k.id => h = k
  /\ \A h \in W, k \in P : h.id # k.id
  /\ \A h \in W \cup P : h.id \in Ids /\ h.id < n /\ (h.id \in B <=> h.body.blocking)

LEMMA ShownIs ==
  ASSUME NEW l \in Seq(Lines), InOrder(l)
  PROVE  LET f == FoldOf(l, Len(l))
         IN  /\ f \in Folded
             /\ Shown(l) = [stage |-> StageOf(WaitSet(f), SlotSet(f), f.next_id),
                            blocking |-> BlockingIds(l),
                            abandoned |-> MarkedIds(WaitSet(f) \cup SlotSet(f))]
<1> DEFINE n == Len(l)
           f == FoldOf(l, n)
           held == HeldRecords(f)
<1>1. f \in Folded
  <2>1. n \in 0..n
    OBVIOUS
  <2> QED BY <2>1, FoldOfType
<1>2. \A id \in Ids : HasId(f.waiting, id) <=> id \in Ref(WaitSet(f))
  BY DEF HasId, Ref, WaitSet
<1>3. \A id \in Ids : Pends(f, id) <=> id \in Ref(SlotSet(f))
  BY DEF Pends, Ref, SlotSet
<1>4. {id \in Ids : \E i \in 1..n : /\ l[i].event # "unreadable"
                                    /\ l[i].record.id = id /\ l[i].record.body.blocking}
        = BlockingIds(l)
  <2>1. ASSUME NEW i \in 1..n, l[i].event # "unreadable"
        PROVE  \E j \in QueuedAt(l) : l[j].record.id = l[i].record.id /\ l[j].record.body = l[i].record.body
    BY <2>1 DEF InOrder, NamesTheQueued
  <2>2. \A j \in QueuedAt(l) : j \in 1..n /\ l[j].event # "unreadable"
    BY DEF QueuedAt
  <2>3. ASSUME NEW id \in Ids, NEW i \in 1..n, l[i].event # "unreadable", l[i].record.id = id,
               l[i].record.body.blocking
        PROVE  \E j \in QueuedAt(l) : l[j].record.id = id /\ l[j].record.body.blocking
    <3>1. PICK j \in QueuedAt(l) : l[j].record.id = l[i].record.id /\ l[j].record.body = l[i].record.body
      BY <2>1, <2>3
    <3> QED BY <2>3, <3>1
  <2> QED BY <2>2, <2>3 DEF BlockingIds
<1>5. {held[k].id : k \in {j \in 1..Len(held) : held[j].abandoned}} = MarkedIds(HeldSet(f))
  <2>1. \A j \in 1..Len(held) : held[j] \in HeldSet(f)
    <3>1. held \in Seq(HeldSet(f))
      BY <1>1, HeldRecordsAre
    <3> HIDE DEF held
    <3> QED BY <3>1
  <2>2. \A h \in HeldSet(f) : \E j \in 1..Len(held) : held[j] = h
    BY <1>1, HeldRecordsAre
  <2> HIDE DEF held
  <2> QED BY <2>1, <2>2 DEF MarkedIds, Ref
<1>6. HeldSet(f) = WaitSet(f) \cup SlotSet(f)
  BY WaitSetIs
<1> HIDE DEF f, held
<1>7. [id \in Ids |-> IF HasId(f.waiting, id) THEN "waiting"
                      ELSE IF Pends(f, id) THEN "held"
                      ELSE IF id < f.next_id THEN "gone" ELSE "unused"]
        = StageOf(WaitSet(f), SlotSet(f), f.next_id)
  BY <1>2, <1>3 DEF StageOf
<1>8. Shown(l) = [stage |-> [id \in Ids |-> IF HasId(f.waiting, id) THEN "waiting"
                                            ELSE IF Pends(f, id) THEN "held"
                                            ELSE IF id < f.next_id THEN "gone" ELSE "unused"],
                  blocking |-> {id \in Ids : \E i \in 1..n : /\ l[i].event # "unreadable"
                                    /\ l[i].record.id = id /\ l[i].record.body.blocking},
                  abandoned |-> {held[k].id : k \in {j \in 1..Len(held) : held[j].abandoned}}]
  BY DEF Shown, f, held
<1> QED BY <1>1, <1>4, <1>5, <1>6, <1>7, <1>8 DEF f

LEMMA HoldingIs ==
  ASSUME NEW l \in Seq(Lines), InOrder(l)
  PROVE  LET f == FoldOf(l, Len(l))
         IN  Holding(WaitSet(f), SlotSet(f), f.next_id, BlockingIds(l))
<1> DEFINE f == FoldOf(l, Len(l))
           W == WaitSet(f)
           P == SlotSet(f)
<1>1. f \in Folded
  BY ShownIs
<1>2. Knows(l, Len(l))
  BY KnowsAll DEF InOrder
<1> HIDE DEF f
<1>3. HeldOnce(f) /\ \A h \in HeldSet(f) :
        \E i \in QueuedAt(l) : l[i].record.id = h.id /\ l[i].record.body = h.body
  BY <1>2 DEF Knows, KnowsHeld, f
<1>4. W \subseteq Records /\ P \subseteq Records /\ f.next_id \in 0..MaxId /\ \A h, k \in P : h = k
  <2>1. P \subseteq Records /\ \A h, k \in P : h = k
    BY <1>1 DEF SlotSet, Folded
  <2> QED BY <1>1, <2>1, WaitSetIs DEF Folded
<1>5. \A h, k \in W : h.id = k.id => h = k
  BY <1>3 DEF HeldOnce, IdsDiffer, WaitSet
<1>6. \A h \in W, k \in P : h.id # k.id
  BY <1>3 DEF HeldOnce, WaitSet, SlotSet
<1>7. HeldSet(f) = W \cup P /\ HeldIds(f) = {h.id : h \in W \cup P}
  BY WaitSetIs
<1>8. \A h \in W \cup P : h.id < f.next_id
  BY <1>3, <1>7 DEF HeldOnce
<1>9. ASSUME NEW h \in W \cup P PROVE h.id \in Ids
  <2>1. h.id \in 0..MaxId /\ f.next_id \in 0..MaxId /\ h.id < f.next_id /\ MaxId \in Nat
    BY <1>4, <1>8, FoldAssumption DEF Records
  <2> QED BY <2>1 DEF Ids
<1>10. ASSUME NEW h \in W \cup P PROVE h.id \in BlockingIds(l) <=> h.body.blocking
  <2>1. PICK i \in QueuedAt(l) : l[i].record.id = h.id /\ l[i].record.body = h.body
    BY <1>3, <1>7
  <2>2. ASSUME NEW j \in QueuedAt(l), l[j].record.id = h.id PROVE j = i
    <3>1. i \in 1..Len(l) /\ j \in 1..Len(l)
      BY DEF QueuedAt
    <3>2. l[i].record.id \in Nat /\ l[j].record.id \in Nat
      BY <3>1, LineIs, FoldAssumption
    <3>3. (i < j => l[i].record.id < l[j].record.id) /\ (j < i => l[j].record.id < l[i].record.id)
      BY DEF InOrder, IdsIncrease
    <3> QED BY <2>1, <2>2, <3>1, <3>2, <3>3
  <2> QED BY <1>9, <2>1, <2>2 DEF BlockingIds
<1> HIDE DEF W, P
<1> QED BY <1>4, <1>5, <1>6, <1>8, <1>9, <1>10 DEF Holding, f, W, P

\* What the next line makes of what the log shows.
LEMMA BlockingNext ==
  ASSUME NEW l \in Seq(Lines), InOrder(l), NEW x, Decided(l, x)
  PROVE  BlockingIds(Append(l, x)) =
           BlockingIds(l) \cup (IF x.event = "queued" /\ x.record.body.blocking THEN {x.record.id} ELSE {})
<1> DEFINE m == Append(l, x)
           n == Len(l)
           r == x.record
<1>1. x \in Lines /\ x.event \in Events
  BY DEF Decided
<1>2. /\ m[n + 1] = x /\ \A i \in 1..n : m[i] = l[i]
      /\ QueuedAt(m) = QueuedAt(l) \cup (IF x.event = "queued" THEN {n + 1} ELSE {})
      /\ QueuedAt(l) \subseteq 1..n
  BY <1>1, AppendedIs
<1>3. x.event = "queued" => r.id \in Ids
  <2>1. \A i \in QueuedAt(m) : m[i].record.id # MaxId
    BY InOrderAppend DEF InOrder, IdsIncrease
  <2>2. r.id \in 0..MaxId
    BY <1>1 DEF Lines, Records
  <2>3. x.event = "queued" => r.id # MaxId
    BY <1>2, <2>1
  <2> HIDE DEF r
  <2> QED BY <2>2, <2>3, FoldAssumption DEF Ids
<1> HIDE DEF m, n, r
<1>4. \A i \in QueuedAt(l) : m[i] = l[i]
  BY <1>2
<1>5. CASE x.event = "queued"
  <2>1. QueuedAt(m) = QueuedAt(l) \cup {n + 1} /\ m[n + 1].record = r
    BY <1>2, <1>5 DEF r
  <2>2. \A id \in Ids : (\E i \in QueuedAt(m) : m[i].record.id = id /\ m[i].record.body.blocking)
          <=> (id = r.id /\ r.body.blocking)
                \/ \E i \in QueuedAt(l) : l[i].record.id = id /\ l[i].record.body.blocking
    BY <1>4, <2>1
  <2>3. BlockingIds(m) = BlockingIds(l) \cup (IF r.body.blocking THEN {r.id} ELSE {})
    BY <1>3, <1>5, <2>2 DEF BlockingIds
  <2> QED BY <1>5, <2>3 DEF m, r
<1>6. CASE x.event # "queued"
  <2>1. QueuedAt(m) = QueuedAt(l)
    BY <1>2, <1>6
  <2>2. \A id \in Ids : (\E i \in QueuedAt(m) : m[i].record.id = id /\ m[i].record.body.blocking)
          <=> \E i \in QueuedAt(l) : l[i].record.id = id /\ l[i].record.body.blocking
    BY <1>4, <2>1
  <2>3. BlockingIds(m) = BlockingIds(l)
    BY <2>2 DEF BlockingIds
  <2> QED BY <1>6, <2>3 DEF m
<1> QED BY <1>5, <1>6

\* Where the records a queue holds show it has them.
LEMMA StageIs ==
  ASSUME NEW W, NEW P, NEW n, NEW B, Holding(W, P, n, B)
  PROVE  LET s == StageOf(W, P, n)
         IN  /\ Ref(W) \cup Ref(P) \subseteq Ids /\ n \in Nat /\ Ids \subseteq Nat
             /\ \A id \in Ids : /\ s[id] = "waiting" <=> id \in Ref(W)
                                /\ s[id] = "held" <=> id \in Ref(P)
                                /\ s[id] = "unused" <=> ~(id < n)
                                /\ s[id] = "gone" <=> id \notin Ref(W) \cup Ref(P) /\ id < n
             /\ {id \in Ids : s[id] = "waiting"} = Ref(W)
             /\ {id \in Ids : s[id] = "held"} = Ref(P)
             /\ Ref(W) \cap Ref(P) = {}
<1> DEFINE s == StageOf(W, P, n)
<1>1. Ref(W) \cup Ref(P) \subseteq Ids /\ n \in Nat /\ Ids \subseteq Nat
  BY FoldAssumption DEF Holding, Ref, Ids
<1>2. \A id \in Ref(W) \cup Ref(P) : id < n
  BY DEF Holding, Ref
<1>3. Ref(W) \cap Ref(P) = {}
  BY DEF Holding, Ref
<1>4. \A id \in Ids : s[id] = IF id \in Ref(W) THEN "waiting" ELSE IF id \in Ref(P) THEN "held"
                              ELSE IF id < n THEN "gone" ELSE "unused"
  BY DEF StageOf
<1> HIDE DEF s
<1>5. \A id \in Ids : /\ s[id] = "waiting" <=> id \in Ref(W)
                      /\ s[id] = "held" <=> id \in Ref(P)
                      /\ s[id] = "unused" <=> ~(id < n)
                      /\ s[id] = "gone" <=> id \notin Ref(W) \cup Ref(P) /\ id < n
  BY <1>2, <1>3, <1>4
<1>6. {id \in Ids : s[id] = "waiting"} = Ref(W) /\ {id \in Ids : s[id] = "held"} = Ref(P)
  BY <1>1, <1>5
<1> QED BY <1>1, <1>3, <1>5, <1>6 DEF s

\* What the promise is in, when W waits, P holds the slot, n is next and B blocks.
Shows(W, P, n, B) == [stage |-> StageOf(W, P, n), blocking |-> B, abandoned |-> MarkedIds(W \cup P)]

\* A record queued is an offer under the next id.
LEMMA QueuedIsOffer ==
  ASSUME NEW W, NEW P, NEW n, NEW B, Holding(W, P, n, B),
         NEW r \in Live, r.id = n, n # MaxId,
         NEW V, r \in V, V \subseteq W \cup {r},
         NEW C, C = B \cup (IF r.body.blocking THEN {r.id} ELSE {}), Holding(V, P, n + 1, C),
         shown = Shows(W, P, n, B), shown' = Shows(V, P, n + 1, C)
  PROVE  Lifecycle!Next
<1> DEFINE s == StageOf(W, P, n)
           t == StageOf(V, P, n + 1)
           Gone == {id \in Ref(W) : t[id] # "waiting"}
<1>1. /\ Ref(W) \cup Ref(P) \subseteq Ids /\ n \in Nat /\ Ids \subseteq Nat
      /\ \A id \in Ids : /\ s[id] = "waiting" <=> id \in Ref(W)
                         /\ s[id] = "held" <=> id \in Ref(P)
                         /\ s[id] = "unused" <=> ~(id < n)
                         /\ s[id] = "gone" <=> id \notin Ref(W) \cup Ref(P) /\ id < n
      /\ {id \in Ids : s[id] = "waiting"} = Ref(W) /\ Ref(W) \cap Ref(P) = {}
  BY StageIs
<1>2. /\ \A id \in Ids : /\ t[id] = "waiting" <=> id \in Ref(V)
                         /\ t[id] = "held" <=> id \in Ref(P)
                         /\ t[id] = "unused" <=> ~(id < n + 1)
                         /\ t[id] = "gone" <=> id \notin Ref(V) \cup Ref(P) /\ id < n + 1
      /\ Ref(V) \cup Ref(P) \subseteq Ids
  BY StageIs
<1>3. n \in Ids /\ n \in Ref(V) /\ Ref(V) \subseteq Ref(W) \cup {n}
  <2>1. n \in Ref(V) /\ Ref(V) \subseteq Ref(W) \cup {n}
    BY DEF Ref
  <2> QED BY <1>2, <2>1
<1>4. /\ s \in [Ids -> {"waiting", "held", "gone", "unused"}]
      /\ t \in [Ids -> {"waiting", "held", "gone", "unused"}]
  BY DEF StageOf
<1> HIDE DEF s, t
<1>5. s[n] = "unused" /\ \A other \in {id \in Ids : s[id] = "unused"} : n <= other
  BY <1>1, <1>3
<1>6. t = [i \in Ids |-> IF i = n THEN "waiting" ELSE IF i \in Gone THEN "gone" ELSE s[i]]
  <2>1. \A i \in Ids : t[i] = IF i = n THEN "waiting" ELSE IF i \in Gone THEN "gone" ELSE s[i]
    <3> TAKE i \in Ids
    <3>1. CASE i = n
      BY <1>2, <1>3, <3>1
    <3>2. CASE i # n /\ i \in Gone
      <4>1. i \in Ref(W) /\ i \notin Ref(V) /\ i \notin Ref(P) /\ i < n + 1
        BY <1>1, <1>2, <3>2
      <4> QED BY <1>2, <3>2, <4>1
    <3>3. CASE i # n /\ i \notin Gone
      <4>1. (i \in Ref(W) <=> i \in Ref(V)) /\ (i < n <=> i < n + 1)
        BY <1>1, <1>2, <1>3, <3>3
      <4>2. s[i] \in {"waiting", "held", "gone", "unused"} /\ t[i] \in {"waiting", "held", "gone", "unused"}
        BY <1>4
      <4> QED BY <1>1, <1>2, <3>3, <4>1, <4>2
    <3> QED BY <3>1, <3>2, <3>3
  <2> QED BY <1>4, <2>1
<1>7. MarkedIds(V \cup P) = MarkedIds(W \cup P) \ Gone
  <2>1. ~r.abandoned
    BY DEF Live
  <2>2. \A h \in W : h \in V <=> h.id \in Ref(V)
    <3>1. \A h \in W : h.id # n
      BY <1>1, <1>5 DEF Holding
    <3> QED BY <3>1 DEF Ref, Holding
  <2>3. \A h \in W : h \in V <=> h.id \notin Gone
    <3>1. \A h \in W : h.id \in Ref(W) /\ h.id \in Ids
      BY <1>1 DEF Ref
    <3> QED BY <1>2, <2>2, <3>1
  <2>4. \A h \in P : h.id \notin Gone
    BY <1>1 DEF Ref
  <2>5. \A h \in V : h \in W \/ h = r
    OBVIOUS
  <2> HIDE DEF Gone
  <2> QED BY <2>1, <2>3, <2>4, <2>5 DEF MarkedIds, Ref
<1>8. C \in {B, B \cup {n}}
  OBVIOUS
<1>9. /\ shown.stage = s /\ shown.blocking = B /\ shown.abandoned = MarkedIds(W \cup P)
      /\ shown'.stage = t /\ shown'.blocking = C /\ shown'.abandoned = MarkedIds(V \cup P)
  BY DEF Shows, s, t
<1>10. Lifecycle!Offer(n)
  <2>1. Lifecycle!Waiting = Ref(W)
    BY <1>1, <1>9 DEF Lifecycle!Waiting, Lifecycle!InStage
  <2>2. {i \in Lifecycle!Waiting : shown'.stage[i] # "waiting"} = Gone
    BY <1>9, <2>1
  <2>3. Lifecycle!InStage("unused") = {id \in Ids : s[id] = "unused"}
    BY <1>9 DEF Lifecycle!InStage
  <2> DEFINE superseded == {i \in Lifecycle!Waiting : shown'.stage[i] # "waiting"}
  <2> HIDE DEF Gone
  <2>4. shown.stage[n] = "unused" /\ \A other \in Lifecycle!InStage("unused") : n <= other
    BY <1>5, <1>9, <2>3
  <2>5. superseded = Gone
    BY <2>2
  <2> HIDE DEF superseded
  <2>6. /\ shown'.stage = [i \in Ids |-> IF i = n THEN "waiting" ELSE IF i \in superseded THEN "gone"
                                          ELSE shown.stage[i]]
        /\ shown'.abandoned = shown.abandoned \ superseded
        /\ shown'.blocking \in {shown.blocking, shown.blocking \cup {n}}
    BY <1>6, <1>7, <1>8, <1>9, <2>5
  <2> QED BY <2>4, <2>6, Zenon DEF Lifecycle!Offer, Lifecycle!Forget, superseded
<1> QED BY <1>3, <1>10 DEF Lifecycle!Next

\* A record claimed is handed out.
LEMMA ClaimedIsHandOut ==
  ASSUME NEW W, NEW P, NEW n, NEW B, Holding(W, P, n, B),
         NEW r \in W,
         r.abandoned => \A h \in W : h.abandoned,
         BlockingFirst /\ ~r.body.blocking => \A h \in W : ~(~h.abandoned /\ h.body.blocking),
         NEW V, NEW Q,
         LET holds == HoldPending /\ r.body.blocking /\ (~r.abandoned \/ P = {})
         IN  /\ holds => Q = {r} /\ V = (W \ {r}) \cup {h \in P : h.abandoned}
             /\ ~holds => Q = P /\ V = W \ {r},
         Holding(V, Q, n, B),
         shown = Shows(W, P, n, B), shown' = Shows(V, Q, n, B)
  PROVE  Lifecycle!Next
<1> DEFINE s == StageOf(W, P, n)
           t == StageOf(V, Q, n)
           A == MarkedIds(W \cup P)
           id == r.id
           holds == HoldPending /\ r.body.blocking /\ (~r.abandoned \/ P = {})
           out == IF holds THEN Ref(P) ELSE {}
<1>1. /\ Ref(W) \cup Ref(P) \subseteq Ids /\ n \in Nat /\ Ids \subseteq Nat
      /\ \A i \in Ids : /\ s[i] = "waiting" <=> i \in Ref(W)
                        /\ s[i] = "held" <=> i \in Ref(P)
                        /\ s[i] = "unused" <=> ~(i < n)
                        /\ s[i] = "gone" <=> i \notin Ref(W) \cup Ref(P) /\ i < n
      /\ {i \in Ids : s[i] = "waiting"} = Ref(W) /\ {i \in Ids : s[i] = "held"} = Ref(P)
      /\ Ref(W) \cap Ref(P) = {}
  BY StageIs
<1>2. \A i \in Ids : /\ t[i] = "waiting" <=> i \in Ref(V)
                     /\ t[i] = "held" <=> i \in Ref(Q)
                     /\ t[i] = "unused" <=> ~(i < n)
                     /\ t[i] = "gone" <=> i \notin Ref(V) \cup Ref(Q) /\ i < n
  BY StageIs
<1>3. /\ s \in [Ids -> {"waiting", "held", "gone", "unused"}]
      /\ t \in [Ids -> {"waiting", "held", "gone", "unused"}]
  BY DEF StageOf
<1>4. /\ \A h, k \in W \cup P : h.id = k.id => h = k
      /\ \A h \in W, k \in P : h.id # k.id
      /\ \A h, k \in P : h = k
      /\ \A h \in W \cup P : h.id \in Ids /\ h.id < n /\ (h.id \in B <=> h.body.blocking)
  BY DEF Holding
<1>5. \A h \in W \cup P : h.id \in A <=> h.abandoned
  BY <1>4 DEF MarkedIds, Ref
<1>6. A \subseteq Ref(W) \cup Ref(P)
  BY DEF MarkedIds, Ref
<1>7. P = {} <=> Ref(P) = {}
  BY DEF Ref
<1>8. /\ holds => Q = {r} /\ V = (W \ {r}) \cup {h \in P : h.abandoned}
      /\ ~holds => Q = P /\ V = W \ {r}
  OBVIOUS
<1>9. id \in Ref(W) /\ id \in Ids /\ id \notin Ref(P) /\ id < n
  BY <1>4 DEF Ref
<1>h. holds <=> HoldPending /\ id \in B /\ (id \notin A \/ Ref(P) = {})
  BY <1>4, <1>5, <1>7
<1> HIDE DEF s, t, A, id, holds
<1>10. /\ holds => Ref(Q) = {id} /\ Ref(V) = (Ref(W) \ {id}) \cup (Ref(P) \cap A)
       /\ ~holds => Ref(Q) = Ref(P) /\ Ref(V) = Ref(W) \ {id}
  <2>1. Ref(W \ {r}) = Ref(W) \ {id}
    BY <1>4 DEF Ref, id
  <2>2. Ref({h \in P : h.abandoned}) = Ref(P) \cap A
    BY <1>5 DEF Ref
  <2>3. Ref({r}) = {id}
    BY DEF Ref, id
  <2>4. Ref((W \ {r}) \cup {h \in P : h.abandoned}) = Ref(W \ {r}) \cup Ref({h \in P : h.abandoned})
    BY DEF Ref
  <2> QED BY <1>8, <2>1, <2>2, <2>3, <2>4
<1>11. t = [i \in Ids |-> IF i = id THEN IF holds THEN "held" ELSE "gone"
                          ELSE IF i \notin out THEN s[i]
                          ELSE IF i \in A THEN "waiting" ELSE "gone"]
  <2>1. \A i \in Ids : t[i] = IF i = id THEN IF holds THEN "held" ELSE "gone"
                              ELSE IF i \notin out THEN s[i]
                              ELSE IF i \in A THEN "waiting" ELSE "gone"
    <3> TAKE i \in Ids
    <3>0. s[i] \in {"waiting", "held", "gone", "unused"} /\ t[i] \in {"waiting", "held", "gone", "unused"}
      BY <1>3
    <3>1. CASE i = id
      BY <1>2, <1>9, <1>10, <3>1
    <3>2. CASE i # id /\ holds
      <4>1. (i \in Ref(V) <=> i \in Ref(W) \/ (i \in Ref(P) /\ i \in A)) /\ i \notin Ref(Q)
        BY <1>10, <3>2
      <4>2. i \in Ref(P) => i \notin Ref(W) /\ i < n
        BY <1>1, <3>2
      <4>3. out = Ref(P)
        BY <3>2
      <4> HIDE DEF out
      <4> QED BY <1>1, <1>2, <3>0, <3>2, <4>1, <4>2, <4>3
    <3>3. CASE i # id /\ ~holds
      <4>1. (i \in Ref(V) <=> i \in Ref(W)) /\ (i \in Ref(Q) <=> i \in Ref(P)) /\ i \notin out
        BY <1>10, <3>3
      <4> HIDE DEF out
      <4> QED BY <1>1, <1>2, <3>0, <3>3, <4>1
    <3> QED BY <3>1, <3>2, <3>3
  <2> QED BY <1>3, <2>1
<1>12. MarkedIds(V \cup Q) = IF holds THEN A ELSE A \ {id}
  <2>1. \A h \in W \cup P : h.id = id <=> h = r
    BY <1>4 DEF id
  <2>2. CASE holds
    <3>1. V \cup Q = W \cup {h \in P : h.abandoned}
      BY <1>8, <2>2
    <3>2. {h \in V \cup Q : h.abandoned} = {h \in W \cup P : h.abandoned}
      BY <3>1
    <3> QED BY <2>2, <3>2 DEF MarkedIds, A
  <2>3. CASE ~holds
    <3>1. V \cup Q = (W \cup P) \ {r}
      <4>1. r \notin P
        BY <1>4
      <4> QED BY <1>8, <2>3, <4>1
    <3>2. MarkedIds((W \cup P) \ {r}) = MarkedIds(W \cup P) \ {id}
      BY <2>1 DEF MarkedIds, Ref
    <3> QED BY <2>3, <3>1, <3>2 DEF A
  <2> QED BY <2>2, <2>3
<1>13. /\ shown.stage = s /\ shown.blocking = B /\ shown.abandoned = A
       /\ shown'.stage = t /\ shown'.blocking = B /\ shown'.abandoned = MarkedIds(V \cup Q)
  BY DEF Shows, s, t, A
<1>14. Lifecycle!Waiting = Ref(W) /\ Lifecycle!Held = Ref(P)
  BY <1>1, <1>13 DEF Lifecycle!Waiting, Lifecycle!Held, Lifecycle!InStage
<1>15. id \in A => Lifecycle!Live = {}
  <2>1. id \in A => r.abandoned
    BY <1>5 DEF id
  <2>2. r.abandoned => Ref(W) \subseteq A
    BY <1>5 DEF Ref
  <2> QED BY <1>13, <1>14, <2>1, <2>2 DEF Lifecycle!Live
<1>16. BlockingFirst /\ id \notin B => Lifecycle!Live \cap B = {}
  <2>1. id \notin B => ~r.body.blocking
    BY <1>4 DEF id
  <2>2. BlockingFirst /\ ~r.body.blocking => \A i \in Ref(W) : i \in A \/ i \notin B
    BY <1>4, <1>5 DEF Ref
  <2> QED BY <1>13, <1>14, <2>1, <2>2 DEF Lifecycle!Live
<1>17. Lifecycle!HandOut(id)
  <2>1. out = IF holds THEN Lifecycle!Held ELSE {}
    BY <1>14
  <2>2. holds <=> HoldPending /\ id \in shown.blocking /\ (id \notin shown.abandoned \/ Lifecycle!Held = {})
    BY <1>h, <1>13, <1>14
  <2>3. shown'.blocking = shown.blocking
    BY <1>13
  <2> HIDE DEF out
  <2> DEFINE hold == HoldPending /\ id \in shown.blocking /\ (id \notin shown.abandoned \/ Lifecycle!Held = {})
             left == IF hold THEN Lifecycle!Held ELSE {}
  <2>4. holds = hold
    BY <2>2
  <2>5. left = out
    BY <2>1, <2>4
  <2>6. shown'.stage = [i \in Ids |-> IF i = id THEN IF hold THEN "held" ELSE "gone"
                                      ELSE IF i \notin left THEN shown.stage[i]
                                      ELSE IF i \in shown.abandoned THEN "waiting" ELSE "gone"]
    <3> HIDE DEF hold, left
    <3> QED BY <1>11, <1>13, <2>4, <2>5
  <2>7. IF hold THEN shown'.abandoned = shown.abandoned \ {} ELSE shown'.abandoned = shown.abandoned \ {id}
    <3> HIDE DEF hold
    <3> QED BY <1>12, <1>13, <2>4
  <2>8. id \in Lifecycle!Waiting
    BY <1>9, <1>14
  <2>9. /\ id \in shown.abandoned => Lifecycle!Live = {}
        /\ BlockingFirst /\ id \notin shown.blocking => Lifecycle!Live \cap shown.blocking = {}
    BY <1>13, <1>15, <1>16
  <2> QED BY <2>3, <2>6, <2>7, <2>8, <2>9, Zenon DEF Lifecycle!HandOut, Lifecycle!Forget
<1> QED BY <1>9, <1>17 DEF Lifecycle!Next

\* A record answered leaves the slot.
LEMMA AnsweredIsAnswer ==
  ASSUME NEW W, NEW P, NEW n, NEW B, Holding(W, P, n, B), NEW r \in P,
         shown = Shows(W, P, n, B), shown' = Shows(W, {}, n, B)
  PROVE  Lifecycle!Next
<1> DEFINE s == StageOf(W, P, n)
           t == StageOf(W, {}, n)
           id == r.id
<1>1. /\ Ref(W) \cup Ref(P) \subseteq Ids
      /\ {i \in Ids : s[i] = "held"} = Ref(P)
      /\ Ref(W) \cap Ref(P) = {}
  BY StageIs
<1>2. Ref(P) = {id} /\ Ref({}) = {} /\ id < n
  BY DEF Holding, Ref
<1>3. t = [s EXCEPT ![id] = "gone"]
  <2>1. \A i \in Ids : t[i] = IF i = id THEN "gone" ELSE s[i]
    BY <1>1, <1>2 DEF StageOf
  <2>2. id \in Ids /\ DOMAIN s = Ids /\ DOMAIN t = Ids
    BY <1>1, <1>2 DEF StageOf
  <2>3. s = [i \in Ids |-> s[i]] /\ t = [i \in Ids |-> t[i]]
    BY DEF StageOf
  <2> HIDE DEF s, t, id
  <2> QED BY <2>1, <2>2, <2>3
<1>4. MarkedIds(W \cup {}) = MarkedIds(W \cup P) \ {id}
  <2>1. \A h \in W \cup P : h.id = id <=> h \in P
    BY DEF Holding
  <2>2. MarkedIds(W \cup {}) = {h.id : h \in {k \in W : k.abandoned}}
    BY DEF MarkedIds, Ref
  <2>3. MarkedIds(W \cup P) = {h.id : h \in {k \in W \cup P : k.abandoned}}
    BY DEF MarkedIds, Ref
  <2>4. \A k \in W : k.id # id
    BY DEF Holding
  <2>5. \A k \in P : k.id = id
    BY <2>1
  <2> QED BY <2>2, <2>3, <2>4, <2>5
<1>5. /\ shown.stage = s /\ shown.blocking = B /\ shown.abandoned = MarkedIds(W \cup P)
      /\ shown'.stage = t /\ shown'.blocking = B /\ shown'.abandoned = MarkedIds(W \cup {})
  BY DEF Shows
<1> HIDE DEF s, t
<1>6. Lifecycle!Answer(id)
  <2>1. id \in Lifecycle!Held
    BY <1>1, <1>2, <1>5 DEF Lifecycle!Held, Lifecycle!InStage
  <2> QED BY <1>3, <1>4, <1>5, <2>1 DEF Lifecycle!Answer, Lifecycle!Forget
<1>7. id \in Ids
  BY <1>1, <1>2
<1> QED BY <1>6, <1>7 DEF Lifecycle!Next

\* A mark on a record the queue holds is a mark, on another it is nothing.
LEMMA MarkedIsMark ==
  ASSUME NEW W, NEW P, NEW n, NEW B, Holding(W, P, n, B), NEW id, NEW b \in BOOLEAN,
         NEW V, V = {Marked(h, id, b) : h \in W}, NEW Q, Q = {Marked(h, id, b) : h \in P},
         shown = Shows(W, P, n, B), shown' = Shows(V, Q, n, B)
  PROVE  Lifecycle!Next \/ shown' = shown
<1> DEFINE M(h) == Marked(h, id, b)
           A == MarkedIds(W \cup P)
<1>1. /\ Ref(W) \cup Ref(P) \subseteq Ids
      /\ {i \in Ids : StageOf(W, P, n)[i] = "waiting"} = Ref(W)
      /\ {i \in Ids : StageOf(W, P, n)[i] = "held"} = Ref(P)
  BY StageIs
<1>2. \A h \in W \cup P : h \in Records /\ h # NoRecord
  BY FoldAssumption DEF Holding, Records
<1>3. ASSUME NEW h \in W \cup P
      PROVE  /\ M(h).id = h.id
             /\ h.id # id => M(h) = h
             /\ h.id = id => (M(h).abandoned <=> b)
  <2>1. CASE h.id = id
    <3>1. M(h) = [h EXCEPT !.abandoned = b]
      BY <1>2, <2>1 DEF Marked
    <3>2. h \in Records
      BY <1>2
    <3>3. [h EXCEPT !.abandoned = b].id = h.id
      BY <3>2 DEF Records
    <3>4. [h EXCEPT !.abandoned = b].abandoned = b
      BY <3>2 DEF Records
    <3> QED BY <2>1, <3>1, <3>3, <3>4, Zenon
  <2>2. CASE h.id # id
    BY <2>2 DEF Marked
  <2> QED BY <2>1, <2>2
<1> HIDE DEF M
<1>4. V = {M(h) : h \in W} /\ Q = {M(h) : h \in P}
  BY DEF M
<1>5. CASE id \notin Ref(W) \cup Ref(P)
  <2>1. \A h \in W \cup P : M(h) = h
    BY <1>3, <1>5 DEF Ref
  <2>2. V = W /\ Q = P
    BY <1>4, <2>1
  <2> QED BY <2>2
<1>6. CASE id \in Ref(W) \cup Ref(P)
  <2>1. Ref(V) = Ref(W) /\ Ref(Q) = Ref(P)
    <3>1. ASSUME NEW S, NEW T, S \subseteq W \cup P, T = {M(h) : h \in S} PROVE Ref(T) = Ref(S)
      <4>1. \A i : i \in Ref(T) <=> \E k \in T : k.id = i
        BY DEF Ref
      <4>2. \A i : (\E k \in T : k.id = i) <=> \E h \in S : M(h).id = i
        BY <3>1
      <4>3. \A h \in S : M(h).id = h.id
        BY <1>3, <3>1
      <4>4. \A i : i \in Ref(S) <=> \E h \in S : h.id = i
        BY DEF Ref
      <4>5. \A i : i \in Ref(T) <=> i \in Ref(S)
        BY <4>1, <4>2, <4>3, <4>4, Zenon
      <4> QED BY <4>5
    <3> QED BY <1>4, <3>1
  <2>2. StageOf(V, Q, n) = StageOf(W, P, n)
    BY <2>1 DEF StageOf
  <2>3. MarkedIds(V \cup Q) = IF b THEN A \cup {id} ELSE A \ {id}
    <3>1. \A i : i \in MarkedIds(V \cup Q) <=> \E h \in W \cup P : M(h).abandoned /\ M(h).id = i
      <4>1. \A i : i \in MarkedIds(V \cup Q) <=> \E k \in V \cup Q : k.abandoned /\ k.id = i
        BY DEF MarkedIds, Ref
      <4>2. \A k : k \in V \cup Q <=> \E h \in W \cup P : k = M(h)
        BY <1>4
      <4> TAKE i
      <4>3. ASSUME NEW k \in V \cup Q, k.abandoned, k.id = i
            PROVE  \E h \in W \cup P : M(h).abandoned /\ M(h).id = i
        <5>1. PICK h \in W \cup P : k = M(h)
          BY <4>2
        <5>2. M(h).abandoned /\ M(h).id = i
          BY <4>3, <5>1, Zenon
        <5> QED BY <5>2, Zenon
      <4>4. ASSUME NEW h \in W \cup P, M(h).abandoned, M(h).id = i
            PROVE  \E k \in V \cup Q : k.abandoned /\ k.id = i
        <5>1. M(h) \in V \cup Q
          BY <4>2
        <5> QED BY <4>4, <5>1, Zenon
      <4> QED BY <4>1, <4>3, <4>4, Zenon
    <3>2. \A i : i \in A <=> \E h \in W \cup P : h.abandoned /\ h.id = i
      BY DEF MarkedIds, Ref
    <3>3. \E h \in W \cup P : h.id = id
      BY <1>6 DEF Ref
    <3> HIDE DEF A
    <3>4. \A i : i # id => (i \in MarkedIds(V \cup Q) <=> i \in A)
      BY <1>3, <3>1, <3>2
    <3>5. id \in MarkedIds(V \cup Q) <=> b
      BY <1>3, <3>1, <3>3
    <3> QED BY <3>4, <3>5
  <2>4. /\ shown.stage = StageOf(W, P, n) /\ shown.blocking = B /\ shown.abandoned = A
        /\ shown'.stage = StageOf(V, Q, n) /\ shown'.blocking = B
        /\ shown'.abandoned = MarkedIds(V \cup Q)
    BY DEF Shows
  <2> HIDE DEF A
  <2>5. id \in Lifecycle!Waiting \cup Lifecycle!Held
    BY <1>1, <1>6, <2>4 DEF Lifecycle!Waiting, Lifecycle!Held, Lifecycle!InStage
  <2>6. Lifecycle!Mark(id)
    BY <2>2, <2>3, <2>4, <2>5 DEF Lifecycle!Mark
  <2> QED BY <1>1, <1>6, <2>6 DEF Lifecycle!Next
<1> QED BY <1>5, <1>6

\* A line a call decides takes what the log shows one step on, or leaves it.
LEMMA LineIsStep ==
  ASSUME NEW l \in Seq(Lines), InOrder(l), NEW x, Decided(l, x),
         shown = Shown(l), shown' = Shown(Append(l, x))
  PROVE  Lifecycle!Next \/ shown' = shown
<1> DEFINE m == Append(l, x)
           f == FoldOf(l, Len(l))
           g == FoldOf(m, Len(m))
           r == x.record
           e == x.event
           W == WaitSet(f)
           P == SlotSet(f)
           B == BlockingIds(l)
           C == BlockingIds(m)
<1>1. x \in Lines /\ r \in Records /\ e \in Events
  BY DEF Decided, Lines
<1>2. m \in Seq(Lines) /\ InOrder(m)
  BY <1>1, InOrderAppend
<1>3. shown = Shows(W, P, f.next_id, B) /\ Holding(W, P, f.next_id, B) /\ f \in Folded
  BY ShownIs, HoldingIs DEF Shows
<1>4. shown' = Shows(WaitSet(g), SlotSet(g), g.next_id, C) /\ Holding(WaitSet(g), SlotSet(g), g.next_id, C)
  <2> HIDE DEF m
  <2> QED BY <1>2, ShownIs, HoldingIs DEF Shows, m
<1>5. g = Apply(f, x)
  <2>1. Len(m) = Len(l) + 1 /\ FoldOf(m, Len(l) + 1) = Apply(FoldOf(l, Len(l)), x)
    BY <1>1, AppendedIs
  <2> QED BY <2>1
<1>6. C = B \cup (IF e = "queued" /\ r.body.blocking THEN {r.id} ELSE {})
  BY BlockingNext
<1>7. /\ e = "queued" => r.id = f.next_id /\ f.next_id # MaxId /\ r \in Live
      /\ e = "claimed" => f.waiting # <<>> /\ r = NextClaimed(f)
      /\ e = "answered" => f.pending # NoRecord /\ r = f.pending
  BY DEF Decided
<1> HIDE DEF m, f, g, r, e, C
<1>8. EventOf(f, x) = e
  BY <1>1 DEF EventOf, Events, e
<1>9. CASE e = "queued"
  <2>1. g = ApplyQueued(f, r)
    BY <1>5, <1>8, <1>9 DEF Apply, r
  <2>2. /\ r \in WaitSet(g) /\ WaitSet(g) \subseteq W \cup {r}
        /\ g.pending = f.pending /\ g.next_id = Larger(f.next_id, r.id + 1)
    BY <1>1, <1>3, <1>7, <1>9, <2>1, QueuedHolds
  <2>3. SlotSet(g) = P
    BY <2>2 DEF SlotSet
  <2>4. g.next_id = f.next_id + 1
    <3>1. f.next_id \in Nat
      BY <1>3, FoldAssumption DEF Folded
    <3> QED BY <1>7, <1>9, <2>2, <3>1 DEF Larger
  <2>5. C = B \cup (IF r.body.blocking THEN {r.id} ELSE {})
    BY <1>6, <1>9
  <2> DEFINE n == f.next_id
             V == WaitSet(g)
  <2>6. /\ Holding(W, P, n, B) /\ shown = Shows(W, P, n, B)
        /\ Holding(V, P, n + 1, C) /\ shown' = Shows(V, P, n + 1, C)
    BY <1>3, <1>4, <2>3, <2>4
  <2>7. r \in Live /\ r.id = n /\ n # MaxId /\ r \in V /\ V \subseteq W \cup {r}
    BY <1>7, <1>9, <2>2
  <2> HIDE DEF W, P, B, V, n
  <2> QED BY <2>5, <2>6, <2>7, QueuedIsOffer
<1>10. CASE e = "claimed"
  <2>1. g = ApplyClaimed(f, r.id)
    BY <1>5, <1>8, <1>10 DEF Apply, r
  <2>2. /\ r \in HeldSet(f) /\ Positions(f.waiting, r.id) # {}
        /\ r.abandoned => WaitingAt(f, Live) = {}
        /\ (BlockingFirst /\ ~r.body.blocking) => WaitingAt(f, Live \cap Blocking) = {}
    BY <1>3, <1>7, <1>10, NextClaimedIs
  <2>3. IdsDiffer(f.waiting)
    BY KnowsAll DEF InOrder, Knows, HeldOnce, f
  <2>4. PICK taken \in W :
           /\ taken.id = r.id /\ \A h \in W : h.id = r.id => h = taken
           /\ g.next_id = f.next_id
           /\ TakesSlot(f, taken) => g.pending = taken /\ WaitSet(g) = (W \ {taken}) \cup PushedOut(f)
           /\ ~TakesSlot(f, taken) => g.pending = f.pending /\ WaitSet(g) = W \ {taken}
    BY <1>3, <2>1, <2>2, <2>3, ClaimedHolds
  <2>5. taken = r /\ r # NoRecord
    <3>1. r \in W \cup P /\ taken \in W \cup P
      BY <2>2, WaitSetIs
    <3> HIDE DEF W, P
    <3> QED BY <1>1, <1>3, <2>4, <3>1, FoldAssumption DEF Holding, Records
  <2>6. /\ P = {} <=> f.pending = NoRecord
        /\ PushedOut(f) = {h \in P : h.abandoned}
    BY DEF SlotSet, PushedOut
  <2>7. TakesSlot(f, r) <=> HoldPending /\ r.body.blocking /\ (~r.abandoned \/ P = {})
    BY <2>6 DEF TakesSlot
  <2>8. /\ TakesSlot(f, r) => SlotSet(g) = {r} /\ WaitSet(g) = (W \ {r}) \cup {h \in P : h.abandoned}
        /\ ~TakesSlot(f, r) => SlotSet(g) = P /\ WaitSet(g) = W \ {r}
    <3>1. TakesSlot(f, r) => SlotSet(g) = {r}
      BY <2>4, <2>5 DEF SlotSet
    <3>2. ~TakesSlot(f, r) => SlotSet(g) = P
      BY <2>4, <2>5 DEF SlotSet
    <3> HIDE DEF W, P
    <3> QED BY <2>4, <2>5, <2>6, <3>1, <3>2
  <2>9. /\ r.abandoned => \A h \in W : h.abandoned
        /\ BlockingFirst /\ ~r.body.blocking => \A h \in W : ~(~h.abandoned /\ h.body.blocking)
    <3>1. \A S : WaitingAt(f, S) = {} => \A h \in W : h \notin S
      BY DEF WaitingAt, WaitSet
    <3>2. W \subseteq Records
      BY <1>3 DEF Holding
    <3> HIDE DEF W
    <3>3. \A h \in W : (h \in Live <=> ~h.abandoned) /\ (h \in Live \cap Blocking <=> ~h.abandoned /\ h.body.blocking)
      BY <3>2 DEF Live, Blocking
    <3> QED BY <2>2, <3>1, <3>3
  <2>10. C = B /\ g.next_id = f.next_id
    BY <1>6, <1>10, <2>4
  <2>11. r \in W
    BY <2>4, <2>5
  <2> DEFINE n == f.next_id
             V == WaitSet(g)
             Q == SlotSet(g)
             holds == HoldPending /\ r.body.blocking /\ (~r.abandoned \/ P = {})
  <2>12. (holds => Q = {r} /\ V = (W \ {r}) \cup {h \in P : h.abandoned}) /\ (~holds => Q = P /\ V = W \ {r})
    BY <2>7, <2>8
  <2>13. Holding(V, Q, n, B) /\ shown' = Shows(V, Q, n, B) /\ Holding(W, P, n, B) /\ shown = Shows(W, P, n, B)
    BY <1>3, <1>4, <2>10
  <2> HIDE DEF W, P, B, V, Q, n
  <2> QED BY <2>9, <2>11, <2>12, <2>13, ClaimedIsHandOut
<1>11. CASE e = "answered"
  <2>1. g = ApplyAnswered(f, r.id) /\ Pends(f, r.id)
    BY <1>5, <1>7, <1>8, <1>11 DEF Apply, r, Pends
  <2>2. g.waiting = f.waiting /\ g.pending = NoRecord /\ g.next_id = f.next_id
    BY <1>3, <2>1 DEF ApplyAnswered, Folded
  <2>3. WaitSet(g) = W /\ SlotSet(g) = {} /\ r \in P /\ C = B
    BY <1>6, <1>7, <1>11, <2>2 DEF WaitSet, SlotSet
  <2> HIDE DEF W, P, B
  <2> QED BY <1>3, <1>4, <2>2, <2>3, AnsweredIsAnswer
<1>12. CASE e \in {"abandoned", "attended"}
  <2>1. PICK b \in BOOLEAN : g = ApplyMark(f, r.id, b)
    BY <1>5, <1>8, <1>12 DEF Apply, r
  <2>2. /\ WaitSet(g) = {Marked(h, r.id, b) : h \in W}
        /\ g.pending = Marked(f.pending, r.id, b) /\ g.next_id = f.next_id
    BY <1>3, <2>1, MarkedHolds
  <2>3. SlotSet(g) = {Marked(h, r.id, b) : h \in P}
    <3>1. Marked(NoRecord, r.id, b) = NoRecord
      BY DEF Marked
    <3>2. f.pending # NoRecord => Marked(f.pending, r.id, b) # NoRecord
      <4>1. f.pending # NoRecord => Marked(f.pending, r.id, b) \in Records
        BY <1>3, MarkedType DEF Folded
      <4> QED BY <4>1, FoldAssumption DEF Records
    <3> QED BY <2>2, <3>1, <3>2 DEF SlotSet
  <2>4. C = B
    BY <1>6, <1>12
  <2> DEFINE n == f.next_id
             V == WaitSet(g)
             Q == SlotSet(g)
             id == r.id
  <2>5. /\ Holding(W, P, n, B) /\ shown = Shows(W, P, n, B) /\ shown' = Shows(V, Q, n, B)
        /\ V = {Marked(h, id, b) : h \in W} /\ Q = {Marked(h, id, b) : h \in P}
    BY <1>3, <1>4, <2>2, <2>3, <2>4
  <2> HIDE DEF W, P, B, V, Q, n, id
  <2> QED BY <2>5, MarkedIsMark
<1> QED BY <1>1, <1>9, <1>10, <1>11, <1>12 DEF Events

\* A log in order shows a state the promise can begin in.
LEMMA ShowsBegin ==
  ASSUME NEW l \in Seq(Lines), InOrder(l), shown = Shown(l)
  PROVE  Lifecycle!Init
<1> DEFINE f == FoldOf(l, Len(l))
           W == WaitSet(f)
           P == SlotSet(f)
           n == f.next_id
           B == BlockingIds(l)
           s == StageOf(W, P, n)
<1>1. shown = Shows(W, P, n, B) /\ Holding(W, P, n, B)
  BY ShownIs, HoldingIs DEF Shows
<1>2. B \subseteq Ids
  BY DEF BlockingIds
<1> HIDE DEF W, P, n, B
<1>3. /\ {i \in Ids : s[i] = "waiting"} = Ref(W) /\ {i \in Ids : s[i] = "held"} = Ref(P)
      /\ Ref(W) \cup Ref(P) \subseteq Ids
  BY <1>1, StageIs
<1>4. s \in [Ids -> {"unused", "waiting", "held", "gone"}]
  BY DEF StageOf
<1>5. \A i, j \in Ref(P) : i = j
  BY <1>1 DEF Holding, Ref
<1>6. MarkedIds(W \cup P) \subseteq Ref(W) \cup Ref(P)
  BY DEF MarkedIds, Ref
<1>7. shown.stage = s /\ shown.blocking = B /\ shown.abandoned = MarkedIds(W \cup P)
  BY <1>1 DEF Shows
<1> HIDE DEF s
<1>8. Lifecycle!Waiting = Ref(W) /\ Lifecycle!Held = Ref(P)
  BY <1>3, <1>7 DEF Lifecycle!Waiting, Lifecycle!Held, Lifecycle!InStage
<1> QED BY <1>2, <1>4, <1>5, <1>6, <1>7, <1>8 DEF Lifecycle!Init

----------------------------------------------------------------------------
\* The inductive invariant holds in every reachable state.
THEOREM Invariance == Spec => []IInv
<1> QED BY InitInv, NextInv, PTL DEF Spec

\* Every variable keeps its type.
THEOREM TypeCorrect == Spec => []TypeOK
<1>1. IInv => TypeOK
  BY DEF IInv
<1> QED BY <1>1, Invariance, PTL

\* A stamped projection is the fold of the log up to its stamp, whoever wrote,
\* crashed, failed or overtook whom (`current`, `snapshot`).
THEOREM ProjectionsAreSound == Spec => []ProjectionSound
<1>1. IInv => ProjectionSound
  BY DEF IInv
<1> QED BY <1>1, Invariance, PTL

\* Nothing lands between a writer's decision and its record (`record`).
THEOREM WritersAreUpToDate == Spec => []WriterUpToDate
<1>1. IInv => WriterUpToDate
  BY DEF IInv
<1> QED BY <1>1, Invariance, PTL

\* The log tells one story, whoever crashed, failed or overtook whom: ids go up and
\* the last one is never handed out, nothing accepted is missing, no record is handed
\* out twice or out of its turn, and none is answered that did not hold the slot
\* (`record`, `apply`, `claim`, `answer`).
THEOREM LogStaysInOrder == Spec => []LogInOrder
<1>1. Init => TodoDecided /\ LogInOrder
  BY LogInit
<1>2. IInv /\ (TodoDecided /\ LogInOrder) /\ [Next]_vars => (TodoDecided /\ LogInOrder)'
  BY LogNext
<1> QED BY <1>1, <1>2, Invariance, PTL DEF Spec

----------------------------------------------------------------------------
(* The promise. *)

\* Only a line appended changes the log.
LEMMA OnlyAppends == [Next]_vars /\ log' # log => \E p \in Procs : AppendLine(p)
<1> SUFFICES ASSUME [Next]_vars, log' # log PROVE \E p \in Procs : AppendLine(p)
  OBVIOUS
<1>1. ASSUME NEW p \in Procs, NEW c, EnterWith(p, c) PROVE log' = log
  BY <1>1 DEF EnterWith
<1>2. ASSUME NEW p \in Procs, NEW c, Write(p, c) \/ Read(p, c) \/ Mark(p, c) PROVE log' = log
  BY <1>1, <1>2 DEF Write, Read, Mark
<1>3. ASSUME NEW p \in Procs,
             \/ Enter(p) \/ Project(p) \/ TransportFails(p) \/ Crash(p)
             \/ ReadLog(p) \/ Repair(p) \/ Place(p)
      PROVE  log' = log
  BY <1>1, <1>3 DEF Enter, Project, TransportFails, Crash, ReadLog, Repair, Place
<1>4. Lose \/ UNCHANGED vars => log' = log
  BY DEF Lose, vars
<1> QED BY <1>2, <1>3, <1>4 DEF Next, Step

LEMMA PromiseFollows ==
  ASSUME IInv, TodoDecided, LogInOrder, shown = Shown(log),
         [PromiseNext]_<<vars, shown>>
  PROVE  [Lifecycle!Next]_(Lifecycle!vars)
<1>1. CASE shown' = shown
  BY <1>1 DEF Lifecycle!vars
<1>2. CASE shown' # shown
  <2>1. [Next]_vars /\ log' # log /\ shown' = Shown(log')
    BY <1>2 DEF PromiseNext
  <2>2. PICK p \in Procs : AppendLine(p)
    BY <2>1, OnlyAppends
  <2> DEFINE x == Head(todo[p])
  <2>3. log \in Seq(Lines) /\ log' = Append(log, x) /\ Decided(log, x)
    BY <2>2, AppendedIsDecided
  <2> HIDE DEF x
  <2>4. shown' = Shown(Append(log, x))
    BY <2>1, <2>3
  <2>5. InOrder(log)
    BY DEF LogInOrder
  <2> QED BY <1>2, <2>3, <2>4, <2>5, LineIsStep
<1> QED BY <1>1, <1>2

\* `shown` is what the log shows, at every moment.
LEMMA ShownNext ==
  shown = Shown(log) /\ [PromiseNext]_<<vars, shown>> => (shown = Shown(log))'
<1> SUFFICES ASSUME shown = Shown(log), [PromiseNext]_<<vars, shown>>
             PROVE  shown' = Shown(log)'
  OBVIOUS
<1>1. CASE log' = log
  <2>1. shown' = shown
    BY <1>1 DEF PromiseNext
  <2>2. Shown(log)' = Shown(log)
    BY <1>1 DEF Shown
  <2> QED BY <2>1, <2>2
<1>2. CASE log' # log
  BY <1>2 DEF PromiseNext, vars, Shown
<1> QED BY <1>1, <1>2

\* The queue implements its promise: whoever crashes, fails or loses the projection,
\* a line appended is one step of the life of a record, and every other step of
\* any process is none (`record`, `apply`, `snapshot`).
THEOREM LifecycleKept == PromiseSpec => KeepsLifecycle
<1> DEFINE Shows2 == shown = Shown(log)
<1>1. PromiseInit => IInv /\ TodoDecided /\ LogInOrder /\ Shows2
  BY InitInv, LogInit DEF PromiseInit
<1>2. [PromiseNext]_<<vars, shown>> => [Next]_vars
  BY DEF PromiseNext
<1>3. IInv /\ [PromiseNext]_<<vars, shown>> => IInv'
  BY <1>2, NextInv
<1>4. IInv /\ (TodoDecided /\ LogInOrder) /\ [PromiseNext]_<<vars, shown>> => (TodoDecided /\ LogInOrder)'
  BY <1>2, LogNext
<1>5. Shows2 /\ [PromiseNext]_<<vars, shown>> => Shows2'
  BY ShownNext
<1>6. IInv /\ TodoDecided /\ LogInOrder /\ Shows2 => (PromiseInit => Lifecycle!Init)
  BY ShowsBegin DEF IInv, TypeOK, LogInOrder
<1>7. IInv /\ TodoDecided /\ LogInOrder /\ Shows2 /\ [PromiseNext]_<<vars, shown>>
        => [Lifecycle!Next]_(Lifecycle!vars)
  BY PromiseFollows
<1> HIDE DEF Shows2
<1> QED BY <1>1, <1>3, <1>4, <1>5, <1>6, <1>7, PTL DEF PromiseSpec, KeepsLifecycle, Lifecycle!Spec
=============================================================================
