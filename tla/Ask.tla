-------------------------------- MODULE Ask --------------------------------
(***************************************************************************)
(* Asking on an event queue and answering (src/crates/onemessagebus/src/   *)
(* ask.rs).  A question is a record of the queue, stamped with a           *)
(* correlation nothing else has; a reply is a record of the answer queue   *)
(* that echoes it.  Listeners wait for the reply to a question, give it up *)
(* and take it back; repliers look at the two queues, append a reply and   *)
(* release the question if it holds the queue's slot.  Neither queue is    *)
(* held from one look to the next.                                         *)
(*                                                                         *)
(* Each call on a queue takes effect at once here, which is what module    *)
(* EventQueue shows of one.  The questions' log is folded as in QueueFold; *)
(* a question's correlation is its id, and a position is the number of     *)
(* lines up to it.                                                         *)
(***************************************************************************)
EXTENDS QueueFold

CONSTANTS
  Listeners,   \* those who ask, or listen for what another asked
  Repliers,    \* those who answer; each makes one call
  AskerOf,     \* the asker each listener names
  None,        \* no question, no answer
  MaxLines     \* bound: nobody claims or marks on a log of so many lines

ASSUME AskAssumption ==
  /\ AskerOf \in [Listeners -> Askers]
  /\ MaxLines \in Nat
  /\ None \notin Nat

VARIABLES
  log,       \* the log of the queue questions are asked on
  answers,   \* the records of its answer queue: which question each echoes
  at,        \* where each listener is in what it does
  of,        \* the question it listens for
  wants,     \* the mark it is making: abandoned or not
  since,     \* how many answers there were when its wait began
  heard,     \* what its latest wait answered
  doing,     \* where each replier is in its call
  names,     \* the question its call names, or the position
  saw,       \* the questions it saw answered
  bound,     \* the question its reply is bound to
  sent,      \* the position of its reply on the answer queue
  told       \* what its call answered

listening == <<at, of, wants, since, heard>>
replying  == <<doing, names, saw, bound, sent, told>>
vars      == <<log, answers, listening, replying>>

\* What a wait answers: `Answer::word`, and which reply it is.
Nothing == [word |-> "none", reply |-> 0]

Now == FoldOf(log, Len(log))
Ids == 0..(MaxId - 1)

\* `questions_on`: every question the log has queued.
Asked == {log[i].record.id : i \in {j \in 1..Len(log) : log[j].event = "queued"}}

\* `replies_on`: the questions the answer queue holds a reply to.
Replied == {answers[i] : i \in 1..Len(answers)}

\* Where the replies to q are.
RepliesTo(q) == {i \in 1..Len(answers) : answers[i] = q}

Init ==
  /\ log = <<>> /\ answers = <<>>
  /\ at = [l \in Listeners |-> "new"]
  /\ of = [l \in Listeners |-> None]
  /\ wants = [l \in Listeners |-> FALSE]
  /\ since = [l \in Listeners |-> 0]
  /\ heard = [l \in Listeners |-> Nothing]
  /\ doing = [r \in Repliers |-> "new"]
  /\ names = [r \in Repliers |-> None]
  /\ saw = [r \in Repliers |-> {}]
  /\ bound = [r \in Repliers |-> None]
  /\ sent = [r \in Repliers |-> 0]
  /\ told = [r \in Repliers |-> "none"]

----------------------------------------------------------------------------
(* Listeners. *)

Goes(l, there) == at' = [at EXCEPT ![l] = there]

\* `ask`: the question is stamped and queued, and l holds the handle.
Ask(l) ==
  /\ at[l] = "new"
  /\ Now.next_id < MaxId
  /\ \E body \in {b \in Bodies : b.asker = AskerOf[l]} :
       log' = Append(log, Line("queued", [id |-> Now.next_id, abandoned |-> FALSE, body |-> body]))
  /\ of' = [of EXCEPT ![l] = Now.next_id]
  /\ Goes(l, "holds")
  /\ UNCHANGED <<answers, wants, since, heard, replying>>

\* `listen`: a handle on a question somebody asked; a durable listener of its
\* asker takes it back, any other attends nothing.
Listen(l) ==
  /\ at[l] = "new"
  /\ \E q \in Asked :
       /\ of' = [of EXCEPT ![l] = q]
       /\ \E durable \in BOOLEAN :
            LET own == \E i \in 1..Len(log) : log[i].record.id = q /\ log[i].record.body.asker = AskerOf[l]
            IN  Goes(l, IF durable /\ own THEN "marks" ELSE "holds")
  /\ wants' = [wants EXCEPT ![l] = FALSE]
  /\ UNCHANGED <<log, answers, since, heard, replying>>

\* `abandon` and `rearm`; what the last wait answered matters no more.
Marks(l) ==
  /\ at[l] = "holds"
  /\ Len(log) < MaxLines
  /\ \E abandoned \in BOOLEAN : wants' = [wants EXCEPT ![l] = abandoned]
  /\ since' = [since EXCEPT ![l] = 0]
  /\ heard' = [heard EXCEPT ![l] = Nothing]
  /\ Goes(l, "marks")
  /\ UNCHANGED <<log, answers, of, replying>>

\* `mark` looks first, and records nothing where the question already stands so.
MarkLooks(l) ==
  /\ at[l] = "marks"
  /\ IF IsMarkedAbandoned(log, of[l]) = wants[l]
     THEN Goes(l, "holds") /\ wants' = [wants EXCEPT ![l] = FALSE]
     ELSE Goes(l, "records") /\ UNCHANGED wants
  /\ UNCHANGED <<log, answers, of, since, heard, replying>>

MarkRecords(l) ==
  /\ at[l] = "records"
  /\ log' = Append(log, Line(IF wants[l] THEN "abandoned" ELSE "attended",
                             [RecordFor(Now, log, of[l]) EXCEPT !.abandoned = wants[l]]))
  /\ wants' = [wants EXCEPT ![l] = FALSE]
  /\ Goes(l, "holds")
  /\ UNCHANGED <<answers, of, since, heard, replying>>

\* The handle is dropped, which has no other effect.
Drop(l) ==
  /\ at[l] = "holds"
  /\ of' = [of EXCEPT ![l] = None]
  /\ since' = [since EXCEPT ![l] = 0]
  /\ heard' = [heard EXCEPT ![l] = Nothing]
  /\ Goes(l, "new")
  /\ UNCHANGED <<log, answers, wants, replying>>

\* `wait` begins; its time may have no length.
Wait(l) ==
  /\ at[l] = "holds"
  /\ since' = [since EXCEPT ![l] = Len(answers)]
  /\ heard' = [heard EXCEPT ![l] = Nothing]
  /\ Goes(l, "reads")
  /\ UNCHANGED <<log, answers, of, wants, replying>>

\* The wait of l ends.
Hears(l, word, reply) ==
  /\ heard' = [heard EXCEPT ![l] = [word |-> word, reply |-> reply]]
  /\ Goes(l, "holds")
  /\ UNCHANGED <<log, answers, of, wants, since, replying>>

On(l, there) ==
  /\ Goes(l, there)
  /\ UNCHANGED <<log, answers, of, wants, since, heard, replying>>

ReadReplies_Latest(l) ==
  /\ at[l] = "reads"
  /\ IF of[l] \in Replied
     THEN Hears(l, "reply", CHOOSE i \in RepliesTo(of[l]) : \A j \in RepliesTo(of[l]) : j <= i)
     ELSE On(l, "looks")

ReadReplies_MarkFirst(l) ==
  /\ at[l] = "reads"
  /\ IF IsMarkedAbandoned(log, of[l]) THEN Hears(l, "abandoned", 0)
     ELSE IF of[l] \in Replied THEN Hears(l, "reply", First(RepliesTo(of[l])))
     ELSE On(l, "looks")

\* `settled` looks for a reply first: the first that echoes the correlation.
ReadReplies(l) ==
  /\ at[l] = "reads"
  /\ IF of[l] \in Replied THEN Hears(l, "reply", First(RepliesTo(of[l]))) ELSE On(l, "looks")

\* Then at the question's marks, and at the clock: the wait has elapsed, or a
\* slice of it passes.
LookForMark(l) ==
  /\ at[l] = "looks"
  /\ IF IsMarkedAbandoned(log, of[l]) THEN Hears(l, "abandoned", 0)
     ELSE Hears(l, "timeout", 0) \/ On(l, "reads")

\* A queue that cannot be read ends the wait.
Unreadable(l) == at[l] \in {"reads", "looks"} /\ Hears(l, "refused", 0)

----------------------------------------------------------------------------
(* Repliers. *)

Does(r, there) == doing' = [doing EXCEPT ![r] = there]
Rests(r) == UNCHANGED <<log, answers, names, saw, bound, sent, told, listening>>

\* The call of r ends, and what became of its reply matters no more.
Ends(r, what) ==
  /\ told' = [told EXCEPT ![r] = what]
  /\ names' = [names EXCEPT ![r] = None]
  /\ saw' = [saw EXCEPT ![r] = {}]
  /\ bound' = [bound EXCEPT ![r] = None]
  /\ sent' = [sent EXCEPT ![r] = 0]
  /\ Does(r, "over")
  /\ UNCHANGED <<log, answers, listening>>

\* `reply`, naming a correlation or none: first what was replied to is read,
Reply(r) ==
  /\ doing[r] = "new"
  /\ \E q \in Asked \cup {None} : names' = [names EXCEPT ![r] = q]
  /\ saw' = [saw EXCEPT ![r] = Replied]
  /\ Does(r, "binds")
  /\ UNCHANGED <<log, answers, bound, sent, told, listening>>

\* then what was asked; what is left is pending.
Binds(r) ==
  /\ doing[r] = "binds"
  /\ LET pending == Asked \ saw[r]
         meant   == IF names[r] = None THEN pending ELSE pending \cap {names[r]}
     IN  IF \E q \in meant : meant = {q}
         THEN /\ bound' = [bound EXCEPT ![r] = CHOOSE q \in meant : TRUE]
              /\ saw' = [saw EXCEPT ![r] = {}]
              /\ Does(r, "sends")
              /\ UNCHANGED <<log, answers, names, sent, told, listening>>
         ELSE Ends(r, "unbound")

\* `reply_at`: what holds the slot is read, then where it was claimed.
ReplyAt(r) ==
  /\ doing[r] = "new"
  /\ \E claim \in ClaimsAt(log) : names' = [names EXCEPT ![r] = claim]
  /\ IF Now.pending = NoRecord
     THEN Does(r, "missed") /\ UNCHANGED bound
     ELSE Does(r, "places") /\ bound' = [bound EXCEPT ![r] = Now.pending.id]
  /\ UNCHANGED <<log, answers, saw, sent, told, listening>>

Places(r) ==
  /\ doing[r] = "places"
  /\ Does(r, IF ClaimPosition(log, bound[r]) = names[r] THEN "sends at" ELSE "missed")
  /\ Rests(r)

\* `answered_claim`: the claim at the position named, if it was answered since.
AnsweredClaim(r) ==
  /\ doing[r] = "missed"
  /\ LET q == log[names[r]].record.id
     IN  IF \E i \in (names[r] + 1)..Len(log) : log[i].event = "answered" /\ log[i].record.id = q
         THEN /\ bound' = [bound EXCEPT ![r] = q]
              /\ Does(r, "sends late")
              /\ UNCHANGED <<log, answers, names, saw, sent, told, listening>>
         ELSE Ends(r, "not pending")

\* `append_reply`: the layout or a validator refuses the reply, the layout
\* routes it elsewhere alone, or it lands on the answer queue.
Refused(r) ==
  /\ doing[r] \in {"sends", "sends at", "sends late"}
  /\ Ends(r, "refused")

Elsewhere_GoesOn(r) ==
  /\ doing[r] \in {"sends", "sends at", "sends late"}
  /\ Does(r, "answers at")
  /\ Rests(r)

Elsewhere(r) ==
  /\ doing[r] \in {"sends", "sends at", "sends late"}
  /\ Ends(r, "sent elsewhere")

Lands(r, next) ==
  /\ answers' = Append(answers, bound[r])
  /\ sent' = [sent EXCEPT ![r] = Len(answers) + 1]
  /\ Does(r, next)
  /\ UNCHANGED <<log, names, saw, bound, listening>>

SendsReply(r) == doing[r] = "sends" /\ Lands(r, "looks") /\ UNCHANGED told
SendsAt(r)    == doing[r] = "sends at" /\ Lands(r, "answers at") /\ UNCHANGED told
SendsLate(r)  == doing[r] = "sends late" /\ Lands(r, "over") /\ told' = [told EXCEPT ![r] = "answers nothing"]

\* A question in the slot is released; one that is not stays where it is.
LooksForHeld(r) ==
  /\ doing[r] = "looks"
  /\ IF Pends(Now, bound[r]) THEN Does(r, "answers") /\ Rests(r) ELSE Ends(r, "bound")

\* `answer` decides in the queue's section.
Answered(q) == Pends(Now, q)

Release(r) ==
  log' = IF Answered(bound[r]) THEN Append(log, Line("answered", Now.pending)) ELSE log

Answers(r) ==
  /\ doing[r] = "answers"
  /\ Release(r)
  /\ told' = [told EXCEPT ![r] = "bound"]
  /\ Does(r, "over")
  /\ UNCHANGED <<answers, names, saw, bound, sent, listening>>

AnswersAt_Regardless(r) ==
  /\ doing[r] = "answers at"
  /\ Release(r)
  /\ told' = [told EXCEPT ![r] = "released"]
  /\ Does(r, "over")
  /\ UNCHANGED <<answers, names, saw, bound, sent, listening>>

AnswersAt(r) ==
  /\ doing[r] = "answers at"
  /\ Release(r)
  /\ told' = [told EXCEPT ![r] = IF Answered(bound[r]) THEN "released" ELSE "answers nothing"]
  /\ Does(r, "over")
  /\ UNCHANGED <<answers, names, saw, bound, sent, listening>>

\* A replier dies, or a queue fails it, anywhere in its call.
Stops(r) == doing[r] \notin {"new", "over"} /\ Ends(r, "failed")

\* Somebody claims the next question.
Claim ==
  /\ Now.waiting # <<>>
  /\ Len(log) < MaxLines
  /\ log' = Append(log, Line("claimed", NextClaimed(Now)))
  /\ UNCHANGED <<answers, listening, replying>>

----------------------------------------------------------------------------
Looks(l) == ReadReplies(l) \/ LookForMark(l)

Next ==
  \/ \E l \in Listeners :
       \/ Ask(l) \/ Listen(l) \/ Drop(l) \/ Wait(l) \/ Looks(l) \/ Unreadable(l)
       \/ Marks(l) \/ MarkLooks(l) \/ MarkRecords(l)
  \/ \E r \in Repliers :
       \/ Reply(r) \/ Binds(r) \/ ReplyAt(r) \/ Places(r) \/ AnsweredClaim(r)
       \/ Refused(r) \/ Elsewhere(r) \/ SendsReply(r) \/ SendsAt(r) \/ SendsLate(r)
       \/ LooksForHeld(r) \/ Answers(r) \/ AnswersAt(r) \/ Stops(r)
  \/ Claim

Spec == Init /\ [][Next]_vars

----------------------------------------------------------------------------
(* What must not go wrong. *)

TypeOK ==
  /\ log \in Seq(Lines) /\ answers \in Seq(0..MaxId)
  /\ at \in [Listeners -> {"new", "holds", "marks", "records", "reads", "looks"}]
  /\ of \in [Listeners -> Asked \cup {None}]
  /\ \A l \in Listeners : at[l] = "new" <=> of[l] = None
  /\ wants \in [Listeners -> BOOLEAN]
  /\ since \in [Listeners -> 0..Len(answers)]
  /\ heard \in [Listeners -> [word : {"none", "reply", "abandoned", "timeout", "refused"},
                              reply : 0..Len(answers)]]
  /\ doing \in [Repliers -> {"new", "binds", "places", "missed", "sends", "sends at",
                             "sends late", "looks", "answers", "answers at", "over"}]
  /\ names \in [Repliers -> Nat \cup {None}]
  /\ saw \in [Repliers -> SUBSET (0..MaxId)]
  /\ bound \in [Repliers -> 0..MaxId \cup {None}]
  /\ sent \in [Repliers -> 0..Len(answers)]
  /\ told \in [Repliers -> {"none", "bound", "released", "answers nothing", "unbound",
                            "not pending", "refused", "sent elsewhere", "failed"}]

\* Whoever listens for a question, whenever, hears one and the same reply: the
\* first on the answer queue that echoes it, whatever comes after
\* (`reply_record`).
FirstReplySettles ==
  \A l \in Listeners :
    heard[l].word = "reply" =>
      /\ heard[l].reply \in RepliesTo(of[l])
      /\ \A i \in RepliesTo(of[l]) : heard[l].reply <= i

\* A wait that ends without a reply, elapsed or abandoned, did not begin with
\* one there: a late listener, and one whose question was given up, still hears
\* it (`settled`).
NoReplyMissed ==
  \A l \in Listeners :
    heard[l].word \in {"timeout", "abandoned"} =>
      \A i \in RepliesTo(of[l]) : i > since[l]

\* A question leaves the slot answered only once a reply to it is on the answer
\* queue, wherever repliers die (`append_reply`, then `answer`).
ReleasedByAReply ==
  \A i \in 1..Len(log) : log[i].event = "answered" => log[i].record.id \in Replied

\* Of the repliers that answer the record pending at one claim, one is told that
\* it did (`reply_at`).
OneAnswerPerClaim ==
  \A r, s \in Repliers :
    (r # s /\ told[r] = "released" /\ told[s] = "released") => names[r] # names[s]

\* What the documentation says and the code does not keep: a reply whose caller
\* is told that another answered first and that it answers nothing (`reply_at`)
\* is not the reply listeners hear.
AnswersNothingIsUnheard ==
  \A r \in Repliers :
    told[r] = "answers nothing" => \E i \in RepliesTo(bound[r]) : i < sent[r]
=============================================================================
