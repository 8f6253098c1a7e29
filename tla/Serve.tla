---------------------------------- MODULE Serve ----------------------------------
(***************************************************************************)
(* One serving session (`Bus::serve`): a member writes frames, a thread    *)
(* reads them ahead of the session into a channel, and the session answers *)
(* them one at a time until the stream ends, its time is over or something *)
(* fails.  Some frames ask a question on the bus, which somebody may       *)
(* answer at any time; how the session ends decides what becomes of those  *)
(* still unanswered.                                                       *)
(***************************************************************************)
EXTENDS Integers, Sequences

CONSTANTS
  MaxFrames     \* how many lines the member writes

ASSUME ServeAssumption == MaxFrames \in Nat

VARIABLES
  wrote,        \* how many lines it wrote
  pipe,         \* the lines the member wrote that nobody read
  closed,       \* whether the member has closed its end
  reader,       \* whether the reader thread runs
  channel,      \* the lines it read that the session has not taken
  dropped,      \* how many frames it read that the session never takes
  bounded,      \* whether the session has a bound
  overdue,      \* and whether that is reached
  stage,        \* where the session is
  frame,        \* the frame it answers
  questions,    \* what became of each question it asked
  counted,      \* how many of them it has looked at
  unanswered    \* the ones it found unanswered

serveVars == <<wrote, pipe, closed, reader, channel, dropped, bounded, overdue, stage,
               frame, questions, counted, unanswered>>
feed == <<wrote, pipe, closed, reader, channel, dropped>>
asks == <<questions, counted, unanswered>>

\* What a line asks of the codec: nothing, an answer, a record to raise, a member that
\* fails, a question; or a frame that is not served or could not be read.
FrameLines == {"blank", "answer", "raise", "fail", "ask", "bad"}
Over == {"over", "ended", "failed"}
Frames(lines) == Len(SelectSeq(lines, LAMBDA line : line # "blank"))

ServeInit ==
  /\ wrote = 0 /\ pipe = <<>> /\ closed = FALSE /\ reader = TRUE /\ channel = <<>> /\ dropped = 0
  /\ bounded \in BOOLEAN /\ overdue = FALSE /\ stage = "between" /\ frame = "blank"
  /\ questions = <<>> /\ counted = 0 /\ unanswered = {}

MemberWrites ==
  /\ ~closed /\ wrote < MaxFrames /\ wrote' = wrote + 1
  /\ \E line \in FrameLines : pipe' = Append(pipe, line)
  /\ UNCHANGED <<closed, reader, channel, dropped, bounded, overdue, stage, frame, asks>>

MemberCloses ==
  /\ ~closed /\ closed' = TRUE
  /\ UNCHANGED <<wrote, pipe, reader, channel, dropped, bounded, overdue, stage, frame, asks>>

\* The reader thread takes a line; once the session is gone it finds nobody to hand
\* that to, and ends.
ReadAhead ==
  /\ reader /\ pipe # <<>>
  /\ pipe' = Tail(pipe)
  /\ IF stage \in Over
     THEN dropped' = dropped + Frames(<<Head(pipe)>>) /\ reader' = FALSE /\ UNCHANGED channel
     ELSE channel' = Append(channel, Head(pipe)) /\ UNCHANGED <<dropped, reader>>
  /\ UNCHANGED <<wrote, closed, bounded, overdue, stage, frame, asks>>

ReaderEnds ==
  /\ reader /\ closed /\ pipe = <<>>
  /\ reader' = FALSE
  /\ UNCHANGED <<wrote, pipe, closed, channel, dropped, bounded, overdue, stage, frame, asks>>

TimeIsUp ==
  /\ bounded /\ ~overdue /\ overdue' = TRUE
  /\ UNCHANGED <<feed, bounded, stage, frame, asks>>

\* The bound is asked before a frame is taken.
AskBound ==
  /\ stage = "between"
  /\ stage' = IF overdue THEN "counts over" ELSE "takes"
  /\ UNCHANGED <<feed, bounded, overdue, frame, asks>>

TakeFrame ==
  /\ stage = "takes" /\ channel # <<>>
  /\ channel' = Tail(channel) /\ frame' = Head(channel)
  /\ stage' = IF Head(channel) = "blank" THEN "between" ELSE "answers"
  /\ UNCHANGED <<wrote, pipe, closed, reader, dropped, bounded, overdue, asks>>

NoFrame ==
  /\ stage = "takes" /\ channel = <<>>
  /\ \/ overdue /\ stage' = "counts over"
     \/ ~reader /\ stage' = "counts ended"
  /\ UNCHANGED <<feed, bounded, overdue, frame, asks>>

\* The codec answers: a bad frame, a member that fails, a queue that refuses and an
\* output that cannot be written each end the session, with nothing marked.
AnswerFrame ==
  /\ stage = "answers" /\ frame # "ask"
  /\ stage' \in IF frame \in {"bad", "fail"} THEN {"failed"} ELSE {"between", "failed"}
  /\ UNCHANGED <<feed, bounded, overdue, frame, asks>>

\* The question is asked, or the queue refuses it.
AskQuestion ==
  /\ stage = "answers" /\ frame = "ask"
  /\ \/ questions' = Append(questions, "pending") /\ stage' = "waits"
     \/ stage' = "failed" /\ UNCHANGED questions
  /\ UNCHANGED <<feed, bounded, overdue, frame, counted, unanswered>>

\* The reply window is over, or the question is settled, and the frame is answered.
WaitIsOver ==
  /\ stage = "waits"
  /\ stage' \in {"between", "failed"}
  /\ UNCHANGED <<feed, bounded, overdue, frame, asks>>

\* Somebody answers a question, whether its session lives or not.
AnswerQuestion(q) ==
  /\ questions[q] = "pending"
  /\ questions' = [questions EXCEPT ![q] = "answered"]
  /\ UNCHANGED <<feed, bounded, overdue, stage, frame, counted, unanswered>>

\* The session looks at each question it asked, until a look fails.
CountOne ==
  /\ stage \in {"counts over", "counts ended"} /\ counted < Len(questions)
  /\ counted' = counted + 1
  /\ unanswered' = IF questions[counted + 1] = "answered" THEN unanswered
                   ELSE unanswered \cup {counted + 1}
  /\ UNCHANGED <<feed, bounded, overdue, stage, frame, questions>>

CountFails ==
  /\ stage \in {"counts over", "counts ended"} /\ counted < Len(questions)
  /\ stage' = "failed"
  /\ UNCHANGED <<feed, bounded, overdue, frame, asks>>

CountedAll_MarksAnyway ==
  /\ stage \in {"counts over", "counts ended"} /\ counted = Len(questions)
  /\ stage' = "marks"
  /\ UNCHANGED <<feed, bounded, overdue, frame, asks>>

CountedAll ==
  /\ stage \in {"counts over", "counts ended"} /\ counted = Len(questions)
  /\ stage' = IF stage = "counts over" THEN "over" ELSE "marks"
  /\ dropped' = dropped + IF stage = "counts over" THEN Frames(channel) ELSE 0
  /\ channel' = IF stage = "counts over" THEN <<>> ELSE channel
  /\ UNCHANGED <<wrote, pipe, closed, reader, bounded, overdue, frame, asks>>

\* Those found unanswered are marked abandoned, until a mark is refused; one that was
\* answered since stays answered to whoever listens for it.
MarkOne ==
  /\ stage = "marks" /\ unanswered # {}
  /\ \E q \in unanswered :
       /\ \A other \in unanswered : q <= other
       /\ unanswered' = unanswered \ {q}
       /\ questions' = [questions EXCEPT ![q] = IF @ = "pending" THEN "abandoned" ELSE @]
  /\ UNCHANGED <<feed, bounded, overdue, stage, frame, counted>>
MarkFails ==
  /\ stage = "marks" /\ unanswered # {}
  /\ stage' = "failed"
  /\ UNCHANGED <<feed, bounded, overdue, frame, asks>>
MarkedAll ==
  /\ stage = "marks" /\ unanswered = {}
  /\ stage' = "ended"
  /\ UNCHANGED <<feed, bounded, overdue, frame, asks>>

SessionStep ==
  \/ AskBound \/ TakeFrame \/ NoFrame \/ AnswerFrame \/ AskQuestion \/ WaitIsOver
  \/ CountOne \/ CountFails \/ CountedAll \/ MarkOne \/ MarkFails \/ MarkedAll
ServeNext ==
  \/ MemberWrites \/ MemberCloses \/ ReadAhead \/ ReaderEnds \/ TimeIsUp
  \/ SessionStep
  \/ \E q \in 1..Len(questions) : AnswerQuestion(q)

ServeSpec == ServeInit /\ [][ServeNext]_serveVars

-----------------------------------------------------------------------------
(***************************************************************************)
(* What a session promises.                                                *)
(***************************************************************************)

\* A session that saw its stream end leaves no question waiting that nobody listens for
\* any more; and none is given up but by a session that has looked at all of them and
\* whose member has closed its end, every line of it taken: another's time may be over
\* while its member still waits (`Served`, codec.rs:886-901).
EndingDecides ==
  /\ stage = "ended" => \A q \in 1..Len(questions) : questions[q] # "pending"
  /\ (\E q \in 1..Len(questions) : questions[q] = "abandoned")
       => counted = Len(questions) /\ closed /\ pipe \o channel = <<>>

\* What the comment on `serve` says of its bound (codec.rs:931-933): it is asked before
\* each frame is read, so no member waits for a response the session decided not to
\* write.  The thread reads ahead of the question, and a frame it holds when time is
\* over is answered by nobody: TLC refutes this one.
NoFrameLeftBehind == stage = "over" => dropped = 0
=============================================================================
