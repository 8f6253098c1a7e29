----------------------------- MODULE AskProofs -----------------------------
(***************************************************************************)
(* What asking and answering promise, for any number of listeners and      *)
(* repliers, any policy of the queue and any number of questions.          *)
(***************************************************************************)
EXTENDS Ask, QueueFoldProofs

\* What a replier knows of the question it answers, step by step.
Bindings ==
  \A r \in Repliers :
    /\ doing[r] \in {"places", "sends", "sends at", "sends late"} => bound[r] \in 0..MaxId
    /\ doing[r] \in {"looks", "answers", "answers at"} => bound[r] \in Replied
    /\ doing[r] \in {"places", "missed"} => names[r] \in ClaimsAt(log)

----------------------------------------------------------------------------
(* How the two queues change: a record at a time, at the end. *)

LEMMA NowType ==
  ASSUME TypeOK
  PROVE  Now \in Folded
<1>1. log \in Seq(Lines)
  BY DEF TypeOK
<1>2. Len(log) \in 0..Len(log)
  BY <1>1
<1> QED BY <1>1, <1>2, FoldOfType DEF Now

\* A line the queue itself would append: a question takes the next id, and only
\* the one in the slot is answered.
Continues(x) ==
  /\ x.event \in Events
  /\ x.event = "queued" => x.record.id = Now.next_id
  /\ x.event = "answered" => Pends(Now, x.record.id)

\* What is appended to the log is a line, and an answered one echoes a reply.
LEMMA LogSteps ==
  ASSUME TypeOK, Bindings, [Next]_vars
  PROVE  \/ log' = log
         \/ \E x \in Lines : /\ log' = Append(log, x)
                             /\ Continues(x)
                             /\ x.event = "answered" => x.record.id \in Replied
<1> DEFINE Goal == \/ log' = log
                   \/ \E x \in Lines : /\ log' = Append(log, x)
                                       /\ Continues(x)
                                       /\ x.event = "answered" => x.record.id \in Replied
<1>0. Now \in Folded
  BY NowType
<1>e. \A event, record : /\ Line(event, record).event = event
                         /\ Line(event, record).record = record
  BY DEF Line
<1>1. ASSUME NEW l \in Listeners, Ask(l) PROVE Goal
  <2>1. PICK body \in {b \in Bodies : b.asker = AskerOf[l]} :
          log' = Append(log, Line("queued", [id |-> Now.next_id, abandoned |-> FALSE, body |-> body]))
    BY <1>1 DEF Ask
  <2>2. [id |-> Now.next_id, abandoned |-> FALSE, body |-> body] \in Records
    BY <1>0 DEF Folded, Records
  <2>3. Line("queued", [id |-> Now.next_id, abandoned |-> FALSE, body |-> body]) \in Lines
    BY <2>2, LineType DEF Events
  <2> DEFINE x == Line("queued", [id |-> Now.next_id, abandoned |-> FALSE, body |-> body])
  <2>4. x.event = "queued" /\ x.record.id = Now.next_id
    BY <1>e
  <2>5. Continues(x)
    <3> HIDE DEF x
    <3> QED BY <2>4 DEF Continues, Events
  <2> HIDE DEF x
  <2>6. x.event # "answered" /\ x \in Lines /\ log' = Append(log, x)
    BY <2>1, <2>3, <2>4 DEF x
  <2> QED BY <2>5, <2>6
<1>2. ASSUME NEW l \in Listeners, MarkRecords(l) PROVE Goal
  <2> DEFINE r == RecordFor(Now, log, of[l])
             event == IF wants[l] THEN "abandoned" ELSE "attended"
  <2>0. of[l] \in Asked /\ log \in Seq(Lines)
    BY <1>2 DEF MarkRecords, TypeOK
  <2>1. of[l] \in QueuedIn(log)
    <3> HIDE DEF r, event
    <3> QED BY <2>0 DEF Asked, QueuedIn
  <2>2. r \in Records
    BY <1>0, <2>1, RecordForType DEF TypeOK
  <2>3. [r EXCEPT !.abandoned = wants[l]] \in Records
    <3> HIDE DEF r
    <3> QED BY <2>2, AbandonedType DEF TypeOK
  <2>4. Line(event, [r EXCEPT !.abandoned = wants[l]]) \in Lines
    <3> HIDE DEF r
    <3> QED BY <2>3, LineType DEF Events
  <2>5. log' = Append(log, Line(event, [r EXCEPT !.abandoned = wants[l]]))
    BY <1>2 DEF MarkRecords
  <2>6. event \in Events \ {"answered", "queued"}
    BY DEF Events
  <2> HIDE DEF r, event
  <2>7. Continues(Line(event, [r EXCEPT !.abandoned = wants[l]]))
    BY <2>6, <1>e DEF Continues
  <2> QED BY <2>4, <2>5, <2>6, <2>7, <1>e
<1>3. ASSUME NEW r \in Repliers, Release(r), bound[r] \in Replied PROVE Goal
  <2>1. CASE ~ Pends(Now, bound[r])
    BY <1>3, <2>1 DEF Release, Answered
  <2>2. CASE Pends(Now, bound[r])
    <3>1. log' = Append(log, Line("answered", Now.pending))
      BY <1>3, <2>2 DEF Release, Answered
    <3>2. Now.pending \in Records /\ Now.pending.id = bound[r]
      BY <1>0, <2>2 DEF Pends, Folded
    <3>3. Line("answered", Now.pending) \in Lines
      BY <3>2, LineType DEF Events
    <3>4. Continues(Line("answered", Now.pending))
      BY <2>2, <3>2, <1>e DEF Continues, Events
    <3> QED BY <3>1, <3>2, <3>3, <3>4, <1>3, <1>e
  <2> QED BY <2>1, <2>2
<1>4. ASSUME Claim PROVE Goal
  <2>1. NextClaimed(Now) \in Records
    BY <1>0, <1>4, NextClaimedType DEF Claim
  <2>2. Line("claimed", NextClaimed(Now)) \in Lines
    BY <2>1, LineType DEF Events
  <2>3. Continues(Line("claimed", NextClaimed(Now)))
    BY <1>e DEF Continues, Events
  <2> QED BY <1>4, <2>2, <2>3, <1>e DEF Claim
<1>5. ASSUME NEW r \in Repliers, Answers(r) \/ AnswersAt(r) PROVE Goal
  <2>1. Release(r) /\ bound[r] \in Replied
    BY <1>5 DEF Answers, AnswersAt, Bindings
  <2> QED BY <2>1, <1>3
<1>6. ASSUME NEW l \in Listeners,
             Listen(l) \/ Drop(l) \/ Wait(l) \/ Looks(l) \/ Unreadable(l) \/ Marks(l) \/ MarkLooks(l)
      PROVE  Goal
  BY <1>6 DEF Listen, Drop, Wait, Looks, ReadReplies, LookForMark, Unreadable, Marks, MarkLooks, Hears, On
<1>7. ASSUME NEW r \in Repliers,
             \/ Reply(r) \/ Binds(r) \/ ReplyAt(r) \/ Places(r) \/ AnsweredClaim(r) \/ Refused(r)
             \/ Elsewhere(r) \/ SendsReply(r) \/ SendsAt(r) \/ SendsLate(r) \/ LooksForHeld(r) \/ Stops(r)
      PROVE  Goal
  BY <1>7 DEF Reply, Binds, ReplyAt, Places, AnsweredClaim, Refused, Elsewhere, SendsReply, SendsAt,
              SendsLate, LooksForHeld, Stops, Ends, Rests, Lands
<1>8. ASSUME UNCHANGED vars PROVE Goal
  BY <1>8 DEF vars
<1> HIDE DEF Goal
<1>9. ASSUME NEW l \in Listeners,
             \/ Ask(l) \/ Listen(l) \/ Drop(l) \/ Wait(l) \/ Looks(l) \/ Unreadable(l)
             \/ Marks(l) \/ MarkLooks(l) \/ MarkRecords(l)
      PROVE  Goal
  BY <1>1, <1>2, <1>6, <1>9
<1>10. ASSUME NEW r \in Repliers,
             \/ Reply(r) \/ Binds(r) \/ ReplyAt(r) \/ Places(r) \/ AnsweredClaim(r)
             \/ Refused(r) \/ Elsewhere(r) \/ SendsReply(r) \/ SendsAt(r) \/ SendsLate(r)
             \/ LooksForHeld(r) \/ Answers(r) \/ AnswersAt(r) \/ Stops(r)
      PROVE  Goal
  BY <1>5, <1>7, <1>10
<1>11. ASSUME Next PROVE Goal
  BY <1>4, <1>9, <1>10, <1>11 DEF Next
<1>12. Goal
  BY <1>8, <1>11
<1> QED BY <1>12 DEF Goal

LEMMA AnswersSteps ==
  ASSUME TypeOK, Bindings, [Next]_vars
  PROVE  answers' = answers \/ \E q \in 0..MaxId : answers' = Append(answers, q)
<1> DEFINE Goal == answers' = answers \/ \E q \in 0..MaxId : answers' = Append(answers, q)
<1>1. ASSUME NEW l \in Listeners,
             \/ Ask(l) \/ Listen(l) \/ Drop(l) \/ Wait(l) \/ Looks(l) \/ Unreadable(l)
             \/ Marks(l) \/ MarkLooks(l) \/ MarkRecords(l)
      PROVE  Goal
  BY <1>1 DEF Ask, Listen, Drop, Wait, Looks, ReadReplies, LookForMark, Unreadable, Marks, MarkLooks,
              MarkRecords, Hears, On
<1>2. ASSUME NEW r \in Repliers, SendsReply(r) \/ SendsAt(r) \/ SendsLate(r)
      PROVE  Goal
  BY <1>2 DEF SendsReply, SendsAt, SendsLate, Lands, Bindings
<1>3. ASSUME NEW r \in Repliers,
             \/ Reply(r) \/ Binds(r) \/ ReplyAt(r) \/ Places(r) \/ AnsweredClaim(r) \/ Refused(r)
             \/ Elsewhere(r) \/ LooksForHeld(r) \/ Answers(r) \/ AnswersAt(r) \/ Stops(r)
      PROVE  Goal
  BY <1>3 DEF Reply, Binds, ReplyAt, Places, AnsweredClaim, Refused, Elsewhere, LooksForHeld,
              Answers, AnswersAt, Stops, Ends, Rests
<1>4. ASSUME Claim \/ UNCHANGED vars PROVE Goal
  BY <1>4 DEF Claim, vars
<1> HIDE DEF Goal
<1>5. ASSUME Next PROVE Goal
  BY <1>1, <1>2, <1>3, <1>4, <1>5 DEF Next
<1>6. Goal
  BY <1>4, <1>5
<1> QED BY <1>6 DEF Goal

\* So neither queue loses or reorders anything: what was asked, claimed and
\* replied stays so, where it was.
Grows ==
  /\ log' \in Seq(Lines) /\ answers' \in Seq(0..MaxId)
  /\ Len(log) <= Len(log')
  /\ \A i \in 1..Len(log) : log'[i] = log[i]
  /\ \A i \in 1..Len(log') : i > Len(log) /\ log'[i].event = "answered" => log'[i].record.id \in Replied
  /\ Len(answers) <= Len(answers')
  /\ \A i \in 1..Len(answers) : answers'[i] = answers[i]
  /\ Asked \subseteq Asked'
  /\ Replied \subseteq Replied'
  /\ ClaimsAt(log) \subseteq ClaimsAt(log)'

LEMMA QueuesGrow ==
  ASSUME TypeOK, Bindings, [Next]_vars
  PROVE  Grows
<1>1. log \in Seq(Lines) /\ answers \in Seq(0..MaxId)
  BY DEF TypeOK
<1>2. /\ log' \in Seq(Lines) /\ Len(log) <= Len(log')
      /\ \A i \in 1..Len(log) : log'[i] = log[i]
      /\ \A i \in 1..Len(log') : i > Len(log) /\ log'[i].event = "answered" => log'[i].record.id \in Replied
  <2>1. CASE log' = log
    BY <1>1, <2>1
  <2>2. ASSUME NEW x \in Lines, log' = Append(log, x), x.event = "answered" => x.record.id \in Replied
        PROVE  <1>2!:
    BY <1>1, <2>2
  <2> QED BY <2>1, <2>2, LogSteps
<1>3. /\ answers' \in Seq(0..MaxId) /\ Len(answers) <= Len(answers')
      /\ \A i \in 1..Len(answers) : answers'[i] = answers[i]
  <2>1. CASE answers' = answers
    BY <1>1, <2>1
  <2>2. ASSUME NEW q \in 0..MaxId, answers' = Append(answers, q)
        PROVE  <1>3!:
    BY <1>1, <2>2
  <2> QED BY <2>1, <2>2, AnswersSteps
<1>4. Asked \subseteq Asked' /\ ClaimsAt(log) \subseteq ClaimsAt(log)'
  <2>1. 1..Len(log) \subseteq 1..Len(log')
    BY <1>1, <1>2
  <2>2. ClaimsAt(log) \subseteq ClaimsAt(log)'
    BY <1>2, <2>1 DEF ClaimsAt
  <2>3. ASSUME NEW q \in Asked PROVE q \in Asked'
    <3>1. PICK i \in 1..Len(log) : log[i].event = "queued" /\ q = log[i].record.id
      BY DEF Asked
    <3>2. i \in 1..Len(log') /\ log'[i].event = "queued" /\ q = log'[i].record.id
      BY <1>2, <2>1, <3>1
    <3> QED BY <3>2 DEF Asked
  <2> QED BY <2>2, <2>3
<1>5. Replied \subseteq Replied'
  <2>1. 1..Len(answers) \subseteq 1..Len(answers')
    BY <1>1, <1>3
  <2> QED BY <1>3, <2>1 DEF Replied
<1> QED BY <1>2, <1>3, <1>4, <1>5 DEF Grows

----------------------------------------------------------------------------
(* Type correctness. *)

LEMMA AskedType ==
  ASSUME TypeOK
  PROVE  Asked \subseteq 0..MaxId
<1>1. log \in Seq(Lines)
  BY DEF TypeOK
<1>2. \A i \in 1..Len(log) : log[i].record.id \in 0..MaxId
  <2> TAKE i \in 1..Len(log)
  <2>1. log[i] \in Lines
    BY <1>1
  <2> QED BY <2>1 DEF Lines, Records
<1> QED BY <1>2 DEF Asked

ListenersTyped ==
  /\ at \in [Listeners -> {"new", "holds", "marks", "records", "reads", "looks"}]
  /\ of \in [Listeners -> Asked \cup {None}]
  /\ \A l \in Listeners : at[l] = "new" <=> of[l] = None
  /\ wants \in [Listeners -> BOOLEAN]
  /\ since \in [Listeners -> 0..Len(answers)]
  /\ heard \in [Listeners -> [word : {"none", "reply", "abandoned", "timeout", "refused"},
                              reply : 0..Len(answers)]]

RepliersTyped ==
  /\ doing \in [Repliers -> {"new", "binds", "places", "missed", "sends", "sends at",
                             "sends late", "looks", "answers", "answers at", "over"}]
  /\ names \in [Repliers -> Nat \cup {None}]
  /\ saw \in [Repliers -> SUBSET (0..MaxId)]
  /\ bound \in [Repliers -> 0..MaxId \cup {None}]
  /\ sent \in [Repliers -> 0..Len(answers)]
  /\ told \in [Repliers -> {"none", "bound", "released", "answers nothing", "unbound",
                            "not pending", "refused", "sent elsewhere", "failed"}]

LEMMA RepliesToType ==
  ASSUME NEW q
  PROVE  RepliesTo(q) \subseteq 1..Len(answers) /\ (q \in Replied => RepliesTo(q) # {})
BY DEF RepliesTo, Replied

\* What a listener may hear, and that the first reply is one of them.
LEMMA HearsType ==
  ASSUME TypeOK, NEW l \in Listeners, Looks(l) \/ Unreadable(l)
  PROVE  \/ On(l, "looks") \/ On(l, "reads")
         \/ \E word \in {"reply", "abandoned", "timeout", "refused"}, reply \in 0..Len(answers) :
              Hears(l, word, reply)
<1>0. Len(answers) \in Nat
  <2>1. answers \in Seq(0..MaxId)
    BY DEF TypeOK
  <2> QED BY <2>1
<1>1. CASE ReadReplies(l)
  <2>1. CASE of[l] \in Replied
    <3>1. RepliesTo(of[l]) \subseteq Nat /\ RepliesTo(of[l]) # {} /\ RepliesTo(of[l]) \subseteq 0..Len(answers)
      BY <1>0, <2>1, RepliesToType
    <3>2. First(RepliesTo(of[l])) \in 0..Len(answers)
      BY <3>1, FirstIsMember
    <3> QED BY <1>1, <2>1, <3>2 DEF ReadReplies
  <2>2. CASE of[l] \notin Replied
    BY <1>1, <2>2 DEF ReadReplies
  <2> QED BY <2>1, <2>2
<1>2. CASE LookForMark(l)
  BY <1>0, <1>2 DEF LookForMark
<1>3. CASE Unreadable(l)
  BY <1>0, <1>3 DEF Unreadable
<1> QED BY <1>1, <1>2, <1>3 DEF Looks

LEMMA ListenersTypedNext ==
  ASSUME TypeOK, Grows, [Next]_vars
  PROVE  ListenersTyped'
<1>0. ListenersTyped /\ Len(answers) \in Nat /\ Len(answers') \in Nat /\ Asked \subseteq 0..MaxId
  <2>1. answers \in Seq(0..MaxId) /\ answers' \in Seq(0..MaxId)
    BY DEF TypeOK, Grows
  <2>2. ListenersTyped
    BY DEF TypeOK, ListenersTyped
  <2> QED BY <2>1, <2>2, AskedType
<1>g. Asked \subseteq Asked' /\ Len(answers) <= Len(answers')
  BY DEF Grows
<1>m. None \notin Asked
  <2>1. None \notin 0..MaxId
    BY AskAssumption, FoldAssumption
  <2> QED BY <1>0, <2>1
<1> DEFINE Heard == [word : {"none", "reply", "abandoned", "timeout", "refused"}, reply : 0..Len(answers')]
<1>t. /\ of \in [Listeners -> Asked' \cup {None}]
      /\ since \in [Listeners -> 0..Len(answers')]
      /\ heard \in [Listeners -> Heard]
      /\ [word |-> "none", reply |-> 0] \in Heard
      /\ \A word \in {"reply", "abandoned", "timeout", "refused"}, reply \in 0..Len(answers) :
           [word |-> word, reply |-> reply] \in Heard
  <2>1. of \in [Listeners -> Asked' \cup {None}]
    BY <1>0, <1>g DEF ListenersTyped
  <2>2. 0..Len(answers) \subseteq 0..Len(answers') /\ 0 \in 0..Len(answers')
    BY <1>0, <1>g
  <2>3. since \in [Listeners -> 0..Len(answers')]
    BY <1>0, <2>2 DEF ListenersTyped
  <2>4. heard \in [Listeners -> Heard]
    BY <1>0, <2>2 DEF ListenersTyped
  <2> QED BY <2>1, <2>2, <2>3, <2>4
<1> HIDE DEF Heard
<1>n. ListenersTyped' =
        /\ at' \in [Listeners -> {"new", "holds", "marks", "records", "reads", "looks"}]
        /\ of' \in [Listeners -> Asked' \cup {None}]
        /\ \A l \in Listeners : at'[l] = "new" <=> of'[l] = None
        /\ wants' \in [Listeners -> BOOLEAN]
        /\ since' \in [Listeners -> 0..Len(answers')]
        /\ heard' \in [Listeners -> Heard]
  BY DEF ListenersTyped, Heard
<1>1. ASSUME NEW l \in Listeners, Ask(l) PROVE ListenersTyped'
  <2>1. PICK body \in Bodies :
          log' = Append(log, Line("queued", [id |-> Now.next_id, abandoned |-> FALSE, body |-> body]))
    BY <1>1 DEF Ask
  <2>2. log' \in Seq(Lines) /\ log \in Seq(Lines)
    BY DEF TypeOK, Grows
  <2>3. Len(log') \in 1..Len(log') /\ log'[Len(log')].event = "queued" /\ log'[Len(log')].record.id = Now.next_id
    BY <2>1, <2>2 DEF Line
  <2>4. Now.next_id \in Asked' /\ Now.next_id # None
    <3>1. Now.next_id \in Asked'
      BY <2>3 DEF Asked
    <3>2. Now.next_id \in Nat
      BY NowType, FoldAssumption DEF Folded
    <3> QED BY <3>1, <3>2, AskAssumption
  <2> QED BY <1>0, <1>t, <1>n, <1>m, <1>1, <2>4 DEF Ask, ListenersTyped, Goes
<1>2. ASSUME NEW l \in Listeners, Listen(l) \/ Marks(l) \/ MarkLooks(l) \/ MarkRecords(l) \/ Drop(l) \/ Wait(l)
      PROVE  ListenersTyped'
  <2>1. CASE Listen(l)
    <3>1. PICK q \in Asked :
            /\ of' = [of EXCEPT ![l] = q]
            /\ at' = [at EXCEPT ![l] = "marks"] \/ at' = [at EXCEPT ![l] = "holds"]
      BY <2>1, Zenon DEF Listen, Goes
    <3>2. wants' = [wants EXCEPT ![l] = FALSE] /\ UNCHANGED <<since, heard>>
      BY <2>1 DEF Listen
    <3>3. q # None /\ q \in Asked'
      BY <1>m, <1>g
    <3> QED BY <1>0, <1>t, <1>n, <3>1, <3>2, <3>3 DEF ListenersTyped
  <2>2. CASE Marks(l)
    BY <1>0, <1>t, <1>n, <2>2 DEF Marks, ListenersTyped, Goes, Nothing
  <2>3. CASE MarkLooks(l) \/ MarkRecords(l)
    BY <1>0, <1>t, <1>n, <2>3 DEF MarkLooks, MarkRecords, ListenersTyped, Goes
  <2>4. CASE Drop(l)
    BY <1>0, <1>t, <1>n, <2>4 DEF Drop, ListenersTyped, Goes, Nothing
  <2>5. CASE Wait(l)
    <3>1. Len(answers) \in 0..Len(answers')
      BY <1>0, <1>g
    <3> QED BY <1>0, <1>t, <1>n, <2>5, <3>1 DEF Wait, ListenersTyped, Goes, Nothing
  <2> QED BY <1>2, <2>1, <2>2, <2>3, <2>4, <2>5
<1>3. ASSUME NEW l \in Listeners, Looks(l) \/ Unreadable(l) PROVE ListenersTyped'
  <2>0. at[l] # "new"
    BY <1>3 DEF Looks, ReadReplies, LookForMark, Unreadable
  <2>1. ASSUME NEW word \in {"reply", "abandoned", "timeout", "refused"}, NEW reply \in 0..Len(answers),
               Hears(l, word, reply)
        PROVE  ListenersTyped'
    BY <1>0, <1>t, <1>n, <2>0, <2>1 DEF Hears, ListenersTyped, Goes
  <2>2. CASE On(l, "looks") \/ On(l, "reads")
    BY <1>0, <1>t, <1>n, <2>0, <2>2 DEF On, ListenersTyped, Goes
  <2> QED BY <1>3, <2>1, <2>2, HearsType
<1>4. ASSUME UNCHANGED listening PROVE ListenersTyped'
  BY <1>0, <1>t, <1>n, <1>4 DEF listening, ListenersTyped
<1>5. ASSUME NEW r \in Repliers,
             \/ Reply(r) \/ Binds(r) \/ ReplyAt(r) \/ Places(r) \/ AnsweredClaim(r) \/ Refused(r)
             \/ Elsewhere(r) \/ SendsReply(r) \/ SendsAt(r) \/ SendsLate(r) \/ LooksForHeld(r)
             \/ Answers(r) \/ AnswersAt(r) \/ Stops(r)
      PROVE  UNCHANGED listening
  BY <1>5 DEF Reply, Binds, ReplyAt, Places, AnsweredClaim, Refused, Elsewhere, SendsReply, SendsAt,
              SendsLate, LooksForHeld, Answers, AnswersAt, Stops, Ends, Rests, Lands
<1>6. ASSUME Claim \/ UNCHANGED vars PROVE UNCHANGED listening
  BY <1>6 DEF Claim, vars
<1>7. ASSUME Next PROVE ListenersTyped'
  BY <1>1, <1>2, <1>3, <1>4, <1>5, <1>6, <1>7 DEF Next
<1> QED BY <1>4, <1>6, <1>7

\* What a record appended to a sequence leaves.
LEMMA AppendedLast ==
  ASSUME NEW S, NEW s \in Seq(S), NEW e \in S
  PROVE  /\ Len(s) + 1 \in 0..Len(Append(s, e))
         /\ Len(s) + 1 \in 1..Len(Append(s, e))
         /\ Append(s, e)[Len(s) + 1] = e
OBVIOUS

LEMMA SeqMembers ==
  ASSUME NEW S, NEW s \in Seq(S)
  PROVE  \A i \in 1..Len(s) : s[i] \in S
OBVIOUS

LEMMA RepliersNext ==
  ASSUME TypeOK, Bindings, Grows, [Next]_vars
  PROVE  RepliersTyped' /\ Bindings'
<1> DEFINE Goal == RepliersTyped' /\ Bindings'
<1>0. /\ RepliersTyped /\ Len(answers) \in Nat /\ Len(answers') \in Nat
      /\ log \in Seq(Lines) /\ Asked \subseteq 0..MaxId /\ Replied \subseteq 0..MaxId
  <2>1. answers \in Seq(0..MaxId) /\ answers' \in Seq(0..MaxId) /\ log \in Seq(Lines)
    BY DEF TypeOK, Grows
  <2>2. RepliersTyped
    BY DEF TypeOK, RepliersTyped
  <2>3. Replied \subseteq 0..MaxId
    <3>1. \A i \in 1..Len(answers) : answers[i] \in 0..MaxId
      BY <2>1, SeqMembers, Zenon
    <3> QED BY <3>1, Zenon DEF Replied
  <2> QED BY <2>1, <2>2, <2>3, AskedType
<1>g. Replied \subseteq Replied' /\ ClaimsAt(log) \subseteq ClaimsAt(log)' /\ Len(answers) <= Len(answers')
  BY DEF Grows
<1>s. sent \in [Repliers -> 0..Len(answers')] /\ 0 \in 0..Len(answers')
  <2>1. 0..Len(answers) \subseteq 0..Len(answers') /\ 0 \in 0..Len(answers')
    BY <1>0, <1>g
  <2> QED BY <1>0, <2>1 DEF RepliersTyped
<1>c. ClaimsAt(log) \subseteq Nat
  BY <1>0 DEF ClaimsAt
<1>n. None \notin 0..MaxId
  BY AskAssumption, FoldAssumption
<1>e. ASSUME NEW r \in Repliers, NEW what \in {"unbound", "not pending", "refused", "sent elsewhere",
                                               "failed", "bound"}, Ends(r, what)
      PROVE  Goal
  BY <1>0, <1>g, <1>s, <1>e DEF Ends, Does, RepliersTyped, Bindings
<1>1. ASSUME NEW r \in Repliers, Reply(r) PROVE Goal
  <2>1. PICK q \in Asked \cup {None} : names' = [names EXCEPT ![r] = q]
    BY <1>1 DEF Reply
  <2>2. q \in Nat \cup {None}
    BY <1>0, FoldAssumption
  <2> QED BY <1>0, <1>g, <1>s, <1>1, <2>1, <2>2 DEF Reply, Does, RepliersTyped, Bindings
<1>2. ASSUME NEW r \in Repliers, Binds(r) PROVE Goal
  <2> DEFINE pending == Asked \ saw[r]
             meant == IF names[r] = None THEN pending ELSE pending \cap {names[r]}
  <2>1. CASE \E q \in meant : meant = {q}
    <3>1. (CHOOSE q \in meant : TRUE) \in 0..MaxId
      BY <1>0, <2>1
    <3> DEFINE q == CHOOSE x \in meant : TRUE
    <3>2. /\ bound' = [bound EXCEPT ![r] = q] /\ saw' = [saw EXCEPT ![r] = {}]
          /\ doing' = [doing EXCEPT ![r] = "sends"] /\ UNCHANGED <<names, sent, told>>
      BY <1>2, <2>1 DEF Binds, Does
    <3> HIDE DEF q, meant, pending
    <3> QED BY <1>0, <1>g, <1>s, <3>1, <3>2 DEF q, RepliersTyped, Bindings
  <2>2. CASE ~ \E q \in meant : meant = {q}
    BY <1>2, <2>2, <1>e DEF Binds
  <2> QED BY <2>1, <2>2
<1>3. ASSUME NEW r \in Repliers, ReplyAt(r) PROVE Goal
  <2>1. PICK claim \in ClaimsAt(log) : names' = [names EXCEPT ![r] = claim]
    BY <1>3 DEF ReplyAt
  <2>2. claim \in Nat /\ claim \in ClaimsAt(log)'
    BY <1>c, <1>g
  <2>3. CASE Now.pending = NoRecord
    <3>1. doing' = [doing EXCEPT ![r] = "missed"] /\ UNCHANGED <<saw, bound, sent, told>>
      BY <1>3, <2>3 DEF ReplyAt, Does
    <3> QED BY <1>0, <1>g, <1>s, <2>1, <2>2, <3>1 DEF RepliersTyped, Bindings
  <2>4. CASE Now.pending # NoRecord
    <3>1. Now.pending.id \in 0..MaxId
      BY <2>4, NowType DEF Folded, Records
    <3>2. /\ doing' = [doing EXCEPT ![r] = "places"] /\ bound' = [bound EXCEPT ![r] = Now.pending.id]
          /\ UNCHANGED <<saw, sent, told>>
      BY <1>3, <2>4 DEF ReplyAt, Does
    <3> QED BY <1>0, <1>g, <1>s, <2>1, <2>2, <3>1, <3>2 DEF RepliersTyped, Bindings
  <2> QED BY <2>3, <2>4
<1>4. ASSUME NEW r \in Repliers, Places(r) PROVE Goal
  <2>1. /\ doing' = [doing EXCEPT ![r] = "sends at"] \/ doing' = [doing EXCEPT ![r] = "missed"]
        /\ UNCHANGED <<names, saw, bound, sent, told>> /\ doing[r] = "places"
    BY <1>4, Zenon DEF Places, Does, Rests
  <2> QED BY <1>0, <1>g, <1>s, <2>1 DEF RepliersTyped, Bindings
<1>5. ASSUME NEW r \in Repliers, AnsweredClaim(r) PROVE Goal
  <2> DEFINE q == log[names[r]].record.id
             late == \E i \in (names[r] + 1)..Len(log) : log[i].event = "answered" /\ log[i].record.id = q
  <2>1. q \in 0..MaxId
    <3>1. names[r] \in 1..Len(log)
      BY <1>5 DEF AnsweredClaim, Bindings, ClaimsAt
    <3>2. log[names[r]] \in Lines
      BY <1>0, <3>1
    <3> QED BY <3>2 DEF Lines, Records
  <2>2. CASE late
    <3>1. /\ bound' = [bound EXCEPT ![r] = q] /\ doing' = [doing EXCEPT ![r] = "sends late"]
          /\ UNCHANGED <<names, saw, sent, told>>
      BY <1>5, <2>2 DEF AnsweredClaim, Does
    <3> HIDE DEF q, late
    <3> QED BY <1>0, <1>g, <1>s, <2>1, <3>1 DEF RepliersTyped, Bindings
  <2>3. CASE ~ late
    BY <1>5, <2>3, <1>e DEF AnsweredClaim
  <2> QED BY <2>2, <2>3
<1>6. ASSUME NEW r \in Repliers, Refused(r) \/ Elsewhere(r) \/ Stops(r) PROVE Goal
  BY <1>6, <1>e DEF Refused, Elsewhere, Stops
<1>7. ASSUME NEW r \in Repliers, NEW next \in {"looks", "answers at", "over"}, Lands(r, next),
             bound[r] \in 0..MaxId,
             told' = told \/ told' = [told EXCEPT ![r] = "answers nothing"]
      PROVE  Goal
  <2>1. Len(answers) + 1 \in 0..Len(answers') /\ bound[r] \in Replied'
    <3> DEFINE S == 0..MaxId
               last == Len(answers) + 1
    <3>1. answers \in Seq(S) /\ bound[r] \in S /\ answers' = Append(answers, bound[r])
      BY <1>7 DEF Lands, TypeOK
    <3> HIDE DEF S
    <3>2. /\ last \in 0..Len(Append(answers, bound[r]))
          /\ last \in 1..Len(Append(answers, bound[r]))
          /\ Append(answers, bound[r])[last] = bound[r]
      BY <3>1, AppendedLast
    <3> HIDE DEF last
    <3>3. last \in 0..Len(answers') /\ last \in 1..Len(answers') /\ answers'[last] = bound[r]
      BY <3>1, <3>2
    <3>4. last \in 0..Len(answers') /\ bound[r] \in Replied'
      BY <3>3 DEF Replied
    <3> QED BY <3>4 DEF last
  <2> QED BY <1>0, <1>g, <1>s, <1>7, <2>1 DEF Lands, Does, RepliersTyped, Bindings
<1>8. ASSUME NEW r \in Repliers, SendsReply(r) \/ SendsAt(r) \/ SendsLate(r) PROVE Goal
  <2>1. bound[r] \in 0..MaxId
    BY <1>8 DEF SendsReply, SendsAt, SendsLate, Bindings
  <2> QED BY <1>7, <1>8, <2>1 DEF SendsReply, SendsAt, SendsLate
<1>9. ASSUME NEW r \in Repliers, LooksForHeld(r) PROVE Goal
  <2>1. CASE Pends(Now, bound[r])
    BY <1>0, <1>g, <1>s, <1>9, <2>1 DEF LooksForHeld, Does, Rests, RepliersTyped, Bindings
  <2>2. CASE ~ Pends(Now, bound[r])
    BY <1>9, <2>2, <1>e DEF LooksForHeld
  <2> QED BY <2>1, <2>2
<1>10. ASSUME NEW r \in Repliers, Answers(r) \/ AnswersAt(r) PROVE Goal
  <2>1. /\ doing' = [doing EXCEPT ![r] = "over"] /\ UNCHANGED <<names, saw, bound, sent>>
        /\ \E what \in {"bound", "released", "answers nothing"} : told' = [told EXCEPT ![r] = what]
    BY <1>10 DEF Answers, AnswersAt, Does
  <2> QED BY <1>0, <1>g, <1>s, <2>1 DEF RepliersTyped, Bindings
<1>11. ASSUME UNCHANGED replying PROVE Goal
  BY <1>0, <1>g, <1>s, <1>11 DEF replying, RepliersTyped, Bindings
<1>12. ASSUME NEW l \in Listeners,
             \/ Ask(l) \/ Listen(l) \/ Drop(l) \/ Wait(l) \/ Looks(l) \/ Unreadable(l)
             \/ Marks(l) \/ MarkLooks(l) \/ MarkRecords(l)
      PROVE  UNCHANGED replying
  BY <1>12 DEF Ask, Listen, Drop, Wait, Looks, ReadReplies, LookForMark, Unreadable, Marks, MarkLooks,
              MarkRecords, Hears, On
<1>13. ASSUME Claim \/ UNCHANGED vars PROVE UNCHANGED replying
  BY <1>13 DEF Claim, vars
<1> HIDE DEF Goal
<1>14. ASSUME NEW r \in Repliers,
             \/ Reply(r) \/ Binds(r) \/ ReplyAt(r) \/ Places(r) \/ AnsweredClaim(r)
             \/ Refused(r) \/ Elsewhere(r) \/ SendsReply(r) \/ SendsAt(r) \/ SendsLate(r)
             \/ LooksForHeld(r) \/ Answers(r) \/ AnswersAt(r) \/ Stops(r)
      PROVE  Goal
  BY <1>1, <1>2, <1>3, <1>4, <1>5, <1>6, <1>8, <1>9, <1>10, <1>14
<1>15. ASSUME Next PROVE Goal
  BY <1>11, <1>12, <1>13, <1>14, <1>15 DEF Next
<1>16. Goal
  BY <1>11, <1>13, <1>15
<1> QED BY <1>16 DEF Goal

LEMMA TypesHold ==
  ASSUME TypeOK, Bindings, [Next]_vars
  PROVE  TypeOK' /\ Bindings' /\ Grows
<1>1. Grows
  BY QueuesGrow
<1>2. ListenersTyped' /\ RepliersTyped' /\ Bindings'
  BY <1>1, ListenersTypedNext, RepliersNext
<1>3. TypeOK'
  BY <1>1, <1>2 DEF Grows, TypeOK, ListenersTyped, RepliersTyped
<1> QED BY <1>1, <1>2, <1>3

----------------------------------------------------------------------------
(* What listeners hear. *)

\* The invariants of listening, of one listener.
Hearing(l) ==
  /\ at[l] = "new" => heard[l] = Nothing
  /\ at[l] = "looks" => \A i \in RepliesTo(of[l]) : i > since[l]
  /\ heard[l].word = "reply" =>
       heard[l].reply \in RepliesTo(of[l]) /\ \A i \in RepliesTo(of[l]) : heard[l].reply <= i
  /\ heard[l].word \in {"timeout", "abandoned"} => \A i \in RepliesTo(of[l]) : i > since[l]

\* A reply that lands comes after everything a listener has looked at.
LEMMA HearingLasts ==
  ASSUME TypeOK, Grows, NEW l \in Listeners, Hearing(l),
         at'[l] = at[l] \/ at'[l] \notin {"new", "looks"},
         of'[l] = of[l], since'[l] = since[l], heard'[l] = heard[l]
  PROVE  Hearing(l)'
<1>1. Len(answers) \in Nat /\ Len(answers') \in Nat
  <2>1. answers \in Seq(0..MaxId) /\ answers' \in Seq(0..MaxId)
    BY DEF TypeOK, Grows
  <2> QED BY <2>1
<1>2. since[l] \in 0..Len(answers) /\ heard[l].reply \in 0..Len(answers)
  BY DEF TypeOK
<1> DEFINE now == {i \in 1..Len(answers') : answers'[i] = of[l]}
<1>3. RepliesTo(of[l])' = now
  BY DEF RepliesTo
<1>4. RepliesTo(of[l]) \subseteq now /\ \A i \in now : i \in RepliesTo(of[l]) \/ i > Len(answers)
  BY <1>1 DEF Grows, RepliesTo
<1> HIDE DEF now
<1>5. \A i \in now : i \in Nat
  BY DEF now
<1>6. (\A i \in RepliesTo(of[l]) : i > since[l]) => \A i \in now : i > since[l]
  BY <1>1, <1>2, <1>4, <1>5
<1>7. (\A i \in RepliesTo(of[l]) : heard[l].reply <= i) => \A i \in now : heard[l].reply <= i
  BY <1>1, <1>2, <1>4, <1>5
<1> QED BY <1>3, <1>4, <1>6, <1>7 DEF Hearing

LEMMA HearingNext ==
  ASSUME TypeOK, Bindings, \A l \in Listeners : Hearing(l), [Next]_vars
  PROVE  \A l \in Listeners : Hearing(l)'
<1>1. Grows
  BY QueuesGrow
<1>2. ASSUME UNCHANGED listening PROVE \A l \in Listeners : Hearing(l)'
  BY <1>1, <1>2, HearingLasts DEF listening
<1>3. ASSUME NEW l \in Listeners, NEW k \in Listeners, k # l,
             \/ Ask(l) \/ Listen(l) \/ Drop(l) \/ Wait(l) \/ Looks(l) \/ Unreadable(l)
             \/ Marks(l) \/ MarkLooks(l) \/ MarkRecords(l)
      PROVE  Hearing(k)'
  <2>1. at'[k] = at[k] /\ of'[k] = of[k] /\ since'[k] = since[k] /\ heard'[k] = heard[k]
    <3>1. CASE Ask(l) \/ Listen(l) \/ Drop(l) \/ Wait(l)
      BY <1>3, <3>1 DEF TypeOK, Ask, Listen, Drop, Wait, On, Goes
    <3>2. CASE Looks(l) \/ Unreadable(l)
      <4>1. (\E word, reply : Hears(l, word, reply)) \/ \E there : On(l, there)
        BY <3>2 DEF Looks, ReadReplies, LookForMark, Unreadable
      <4>2. CASE \E there : On(l, there)
        BY <1>3, <4>2 DEF TypeOK, On, Goes
      <4>3. CASE \E word, reply : Hears(l, word, reply)
        BY <1>3, <4>3 DEF TypeOK, Hears, Goes
      <4> QED BY <4>1, <4>2, <4>3
    <3>3. CASE Marks(l) \/ MarkLooks(l) \/ MarkRecords(l)
      BY <1>3, <3>3 DEF TypeOK, Marks, MarkLooks, MarkRecords, On, Goes
    <3> QED BY <1>3, <3>1, <3>2, <3>3
  <2> QED BY <1>1, <2>1, HearingLasts
<1>4. ASSUME NEW l \in Listeners, Ask(l) \/ Listen(l) PROVE Hearing(l)'
  <2>1. heard[l] = Nothing /\ heard'[l] = Nothing /\ at'[l] \in {"holds", "marks"}
    BY <1>4 DEF Ask, Listen, Hearing, Goes, TypeOK
  <2> QED BY <2>1 DEF Hearing, Nothing
<1>5. ASSUME NEW l \in Listeners, Drop(l) \/ Wait(l) \/ Marks(l) PROVE Hearing(l)'
  <2>1. heard'[l] = Nothing /\ at'[l] \in {"new", "reads", "marks"}
    BY <1>5 DEF Drop, Wait, Marks, Goes, TypeOK
  <2> QED BY <2>1 DEF Hearing, Nothing
<1>6. ASSUME NEW l \in Listeners, MarkLooks(l) \/ MarkRecords(l) PROVE Hearing(l)'
  <2>1. at'[l] \in {"holds", "records"} /\ of'[l] = of[l] /\ since'[l] = since[l] /\ heard'[l] = heard[l]
    BY <1>6 DEF MarkLooks, MarkRecords, Goes, TypeOK
  <2> QED BY <1>1, <2>1, HearingLasts
<1>7. ASSUME NEW l \in Listeners, ReadReplies(l) PROVE Hearing(l)'
  <2>1. CASE of[l] \in Replied
    <3>1. RepliesTo(of[l]) \subseteq Nat /\ RepliesTo(of[l]) # {}
      BY <2>1, RepliesToType
    <3> DEFINE first == First(RepliesTo(of[l]))
    <3>2. first \in RepliesTo(of[l]) /\ \A i \in RepliesTo(of[l]) : first <= i
      BY <3>1, FirstIsLeast
    <3>3. Hears(l, "reply", first)
      BY <1>7, <2>1 DEF ReadReplies
    <3> HIDE DEF first
    <3>4. heard'[l] = [word |-> "reply", reply |-> first] /\ at'[l] = "holds" /\ of' = of /\ answers' = answers
      BY <3>3 DEF Hears, Goes, TypeOK
    <3> QED BY <3>2, <3>4 DEF Hearing, RepliesTo
  <2>2. CASE of[l] \notin Replied
    <3>1. RepliesTo(of[l]) = {}
      BY <2>2 DEF RepliesTo, Replied
    <3>2. at'[l] = "looks" /\ UNCHANGED <<answers, of, since, heard>>
      BY <1>7, <2>2 DEF ReadReplies, On, Goes, TypeOK
    <3>3. RepliesTo(of[l])' = {}
      BY <3>1, <3>2 DEF RepliesTo
    <3> QED BY <3>1, <3>2, <3>3 DEF Hearing
  <2> QED BY <2>1, <2>2
<1>8. ASSUME NEW l \in Listeners, LookForMark(l) PROVE Hearing(l)'
  <2>1. CASE On(l, "reads")
    <3>1. at'[l] = "reads" /\ UNCHANGED <<of, since, heard>>
      BY <2>1 DEF On, Goes, TypeOK
    <3> QED BY <1>1, <3>1, HearingLasts
  <2>2. ASSUME NEW word \in {"abandoned", "timeout"}, Hears(l, word, 0) PROVE Hearing(l)'
    <3>1. \A i \in RepliesTo(of[l]) : i > since[l]
      BY <1>8 DEF LookForMark, Hearing
    <3>2. heard'[l] = [word |-> word, reply |-> 0] /\ at'[l] = "holds" /\ UNCHANGED <<answers, of, since>>
      BY <2>2 DEF Hears, Goes, TypeOK
    <3>3. \A i \in RepliesTo(of[l])' : i > since'[l]
      BY <3>1, <3>2 DEF RepliesTo
    <3> QED BY <3>2, <3>3 DEF Hearing
  <2> QED BY <1>8, <2>1, <2>2 DEF LookForMark
<1>9. ASSUME NEW l \in Listeners, Unreadable(l) PROVE Hearing(l)'
  <2>1. heard'[l] = [word |-> "refused", reply |-> 0] /\ at'[l] = "holds"
    BY <1>9 DEF Unreadable, Hears, Goes, TypeOK
  <2> QED BY <2>1 DEF Hearing
<1>10. ASSUME NEW l \in Listeners,
             \/ Ask(l) \/ Listen(l) \/ Drop(l) \/ Wait(l) \/ Looks(l) \/ Unreadable(l)
             \/ Marks(l) \/ MarkLooks(l) \/ MarkRecords(l)
      PROVE  \A k \in Listeners : Hearing(k)'
  <2>1. Hearing(l)'
    BY <1>4, <1>5, <1>6, <1>7, <1>8, <1>9, <1>10 DEF Looks
  <2> QED BY <1>3, <1>10, <2>1
<1>11. ASSUME NEW r \in Repliers,
             \/ Reply(r) \/ Binds(r) \/ ReplyAt(r) \/ Places(r) \/ AnsweredClaim(r) \/ Refused(r)
             \/ Elsewhere(r) \/ SendsReply(r) \/ SendsAt(r) \/ SendsLate(r) \/ LooksForHeld(r)
             \/ Answers(r) \/ AnswersAt(r) \/ Stops(r)
      PROVE  UNCHANGED listening
  BY <1>11 DEF Reply, Binds, ReplyAt, Places, AnsweredClaim, Refused, Elsewhere, SendsReply, SendsAt,
              SendsLate, LooksForHeld, Answers, AnswersAt, Stops, Ends, Rests, Lands
<1>12. ASSUME Claim \/ UNCHANGED vars PROVE UNCHANGED listening
  BY <1>12 DEF Claim, vars
<1>13. ASSUME Next PROVE \A l \in Listeners : Hearing(l)'
  BY <1>2, <1>10, <1>11, <1>12, <1>13 DEF Next
<1> QED BY <1>2, <1>12, <1>13

----------------------------------------------------------------------------
(* One answer for a claim.  What is answered is out of the queue for good,  *)
(* so of two repliers that held the same claim the second finds it gone.    *)

AnsweredIn(l, q) == \E i \in 1..Len(l) : l[i].event = "answered" /\ l[i].record.id = q

\* A question that was answered is out of the fold, and its id is not used again.
AnsweredIsGone ==
  \A i \in 1..Len(log) :
    log[i].event = "answered" => log[i].record.id < Now.next_id /\ log[i].record.id \notin HeldIds(Now)

\* A replier bound through a claim names the claim of the question it is bound to.
ReplierKnows(r) ==
  /\ told[r] = "released" => doing[r] = "over" /\ AnsweredIn(log, bound[r])
  /\ doing[r] \in {"sends at", "answers at"} \/ told[r] = "released" =>
       names[r] \in ClaimsAt(log) /\ log[names[r]].record.id = bound[r]

ReleasedApart ==
  \A r, s \in Repliers :
    (r # s /\ told[r] = "released" /\ told[s] = "released") => bound[r] # bound[s]

ClaimInv ==
  /\ HeldOnce(Now)
  /\ AnsweredIsGone
  /\ \A r \in Repliers : ReplierKnows(r)
  /\ ReleasedApart

\* What a line the queue appends does to what the queue holds.
LEMMA LineGoesOn ==
  ASSUME NEW f \in Folded, HeldOnce(f), NEW x \in Lines, x.event \in Events,
         x.event = "queued" => x.record.id = f.next_id,
         x.event = "answered" => Pends(f, x.record.id)
  PROVE  /\ HeldOnce(Apply(f, x))
         /\ f.next_id <= Apply(f, x).next_id
         /\ \A id \in HeldIds(Apply(f, x)) : id \in HeldIds(f) \/ id = f.next_id
         /\ x.event = "answered" => x.record.id \in HeldIds(f) /\ x.record.id \notin HeldIds(Apply(f, x))
<1> DEFINE g == Apply(f, x)
           r == x.record
<1>0. r \in Records /\ x.event \notin {"none", "unreadable"}
  BY DEF Lines, Events
<1>1. EventOf(f, x) = x.event
  BY <1>0 DEF EventOf
<1>2. CASE x.event = "queued"
  <2>1. g = ApplyQueued(f, r)
    BY <1>1, <1>2 DEF Apply
  <2>2. r.id = f.next_id /\ r.id >= f.next_id
    BY <1>2, <1>0, FoldAssumption DEF Folded
  <2>3. Succeeds(f, ApplyQueued(f, r), {r.id})
    BY <1>0, <2>2, QueuedOnce
  <2> HIDE DEF g, r
  <2> QED BY <1>2, <2>1, <2>2, <2>3 DEF Succeeds, g
<1>3. CASE x.event = "claimed"
  <2>1. g = ApplyClaimed(f, r.id)
    BY <1>1, <1>3 DEF Apply
  <2>2. Succeeds(f, ApplyClaimed(f, r.id), {})
    BY ClaimedOnce
  <2> HIDE DEF g, r
  <2> QED BY <1>3, <2>1, <2>2 DEF Succeeds, g
<1>4. CASE x.event = "answered"
  <2>1. g = ApplyAnswered(f, r.id)
    BY <1>1, <1>4 DEF Apply
  <2>2. /\ Succeeds(f, ApplyAnswered(f, r.id), {})
        /\ r.id \notin HeldIds(ApplyAnswered(f, r.id)) /\ r.id \in HeldIds(f)
    BY <1>4, AnsweredOnce
  <2> QED BY <2>1, <2>2 DEF Succeeds
<1>5. CASE x.event \in {"abandoned", "attended"}
  <2>1. \E b \in BOOLEAN : g = ApplyMark(f, r.id, b)
    BY <1>1, <1>5 DEF Apply
  <2>2. \A b \in BOOLEAN : Succeeds(f, ApplyMark(f, r.id, b), {})
    BY MarkedOnce
  <2> HIDE DEF g, r
  <2> QED BY <1>5, <2>1, <2>2 DEF Succeeds, g
<1> QED BY <1>2, <1>3, <1>4, <1>5 DEF Events

LEMMA FoldGoesOn ==
  ASSUME TypeOK, Bindings, HeldOnce(Now), AnsweredIsGone, [Next]_vars
  PROVE  HeldOnce(Now)' /\ AnsweredIsGone'
<1>0. log \in Seq(Lines) /\ Now \in Folded
  BY NowType DEF TypeOK
<1>1. CASE log' = log
  BY <1>1 DEF Now, AnsweredIsGone
<1>2. ASSUME NEW x \in Lines, log' = Append(log, x), Continues(x) PROVE HeldOnce(Now)' /\ AnsweredIsGone'
  <2> DEFINE g == Apply(Now, x)
  <2>1. /\ Len(log') = Len(log) + 1 /\ Len(log) \in Nat /\ log'[Len(log) + 1] = x
        /\ \A i \in 1..Len(log) : log'[i] = log[i]
    BY <1>0, <1>2
  <2>2. Now' = g
    <3>1. FoldOf(log', Len(log')) = Apply(FoldOf(log, Len(log)), x)
      BY <1>0, <1>2, <2>1, FoldOfAppend
    <3> QED BY <3>1 DEF Now
  <2>3. /\ HeldOnce(g) /\ Now.next_id <= g.next_id
        /\ \A id \in HeldIds(g) : id \in HeldIds(Now) \/ id = Now.next_id
        /\ x.event = "answered" => x.record.id \in HeldIds(Now) /\ x.record.id \notin HeldIds(g)
    <3> HIDE DEF Now
    <3> QED BY <1>0, <1>2, LineGoesOn DEF Continues
  <2>t. g \in Folded
    BY <1>0, ApplyType
  <2> HIDE DEF g
  <2>n. Now.next_id \in Nat /\ g.next_id \in Nat /\ x.record.id \in Nat
    BY <1>0, <2>t, FoldAssumption DEF Folded, Lines, Records
  <2>4. ASSUME NEW i \in 1..Len(log'), log'[i].event = "answered"
        PROVE  log'[i].record.id < g.next_id /\ log'[i].record.id \notin HeldIds(g)
    <3>1. CASE i \in 1..Len(log)
      <4> DEFINE id == log[i].record.id
      <4>1. id < Now.next_id /\ id \notin HeldIds(Now) /\ log'[i] = log[i]
        BY <2>1, <2>4, <3>1 DEF AnsweredIsGone
      <4>2. id \in Nat
        <5>1. log[i] \in Lines
          BY <1>0, <3>1
        <5> QED BY <5>1, FoldAssumption DEF Lines, Records
      <4> HIDE DEF Now
      <4> QED BY <2>3, <2>n, <4>1, <4>2
    <3>2. CASE i = Len(log) + 1
      <4>1. x.event = "answered" /\ log'[i] = x
        BY <2>1, <2>4, <3>2
      <4>2. x.record.id < Now.next_id
        BY <2>3, <4>1 DEF HeldOnce
      <4> QED BY <2>3, <2>n, <4>1, <4>2
    <3> QED BY <2>1, <3>1, <3>2
  <2>5. AnsweredIsGone'
    BY <2>2, <2>4 DEF AnsweredIsGone
  <2> QED BY <2>2, <2>3, <2>5
<1> QED BY <1>1, <1>2, LogSteps

\* Where a question was claimed, if it was: a line that claims it.
LEMMA ClaimPositionIs ==
  ASSUME NEW l \in Seq(Lines), NEW id, ClaimPosition(l, id) # 0
  PROVE  ClaimPosition(l, id) \in ClaimsAt(l) /\ l[ClaimPosition(l, id)].record.id = id
<1> DEFINE S == {i \in ClaimsAt(l) : l[i].record.id = id}
           T == {k \in Nat : \A i \in S : i <= k}
<1>0. Len(l) \in Nat /\ S \subseteq 1..Len(l) /\ S \subseteq ClaimsAt(l)
  BY DEF ClaimsAt
<1>1. S # {} /\ ClaimPosition(l, id) = CHOOSE i \in S : \A j \in S : j <= i
  BY DEF ClaimPosition
<1>i. \A i \in S : l[i].record.id = id
  OBVIOUS
<1> HIDE DEF S
<1>2. Len(l) \in T /\ T \subseteq Nat
  BY <1>0
<1>3. PICK m \in T : \A k \in T : m <= k
  <2> HIDE DEF T
  <2> QED BY <1>2, LeastNat
<1>4. m \in S
  <2> SUFFICES ASSUME m \notin S PROVE FALSE
    OBVIOUS
  <2>1. \A i \in S : i \in Nat \ {0} /\ i <= m /\ i # m
    BY <1>0, <1>3
  <2>2. m - 1 \in T
    BY <1>1, <1>3, <2>1
  <2> QED BY <1>3, <2>2
<1>5. \E i \in S : \A j \in S : j <= i
  BY <1>3, <1>4
<1>6. ClaimPosition(l, id) \in S
  <2> HIDE DEF T
  <2> QED BY <1>1, <1>5
<1> QED BY <1>0, <1>6, <1>i

\* A replier keeps what it knows while the queues grow.
LEMMA ReplierKeeps ==
  ASSUME TypeOK, Grows, NEW r \in Repliers, ReplierKnows(r),
         told'[r] = told[r], doing'[r] = doing[r], names'[r] = names[r], bound'[r] = bound[r]
  PROVE  ReplierKnows(r)'
<1>0. log \in Seq(Lines) /\ log' \in Seq(Lines) /\ Len(log) <= Len(log') /\ \A i \in 1..Len(log) : log'[i] = log[i]
  BY DEF TypeOK, Grows
<1>1. 1..Len(log) \subseteq 1..Len(log')
  BY <1>0
<1>2. ClaimsAt(log) \subseteq 1..Len(log) /\ ClaimsAt(log) \subseteq ClaimsAt(log')
  BY <1>0, <1>1 DEF ClaimsAt
<1>3. AnsweredIn(log, bound[r]) => AnsweredIn(log', bound[r])
  BY <1>0, <1>1 DEF AnsweredIn
<1>4. names[r] \in ClaimsAt(log) => log'[names[r]] = log[names[r]]
  BY <1>0, <1>2
<1> QED BY <1>2, <1>3, <1>4 DEF ReplierKnows

\* What r does is nothing to the others.
Others(r) ==
  \A s \in Repliers \ {r} :
    told'[s] = told[s] /\ doing'[s] = doing[s] /\ names'[s] = names[s] /\ bound'[s] = bound[s]

LEMMA ReplierSteps ==
  ASSUME TypeOK, Bindings, Grows, ClaimInv, NEW r \in Repliers,
         Others(r), ReplierKnows(r)',
         told'[r] = "released" => Pends(Now, bound[r]) /\ bound'[r] = bound[r]
  PROVE  (\A s \in Repliers : ReplierKnows(s)') /\ ReleasedApart'
<1>1. \A s \in Repliers : ReplierKnows(s)'
  BY ReplierKeeps DEF ClaimInv, Others
<1>2. ASSUME NEW s \in Repliers \ {r}, told'[r] = "released", told[s] = "released" PROVE bound[s] # bound'[r]
  <2>1. bound'[r] \in HeldIds(Now)
    BY <1>2 DEF Pends, HeldIds
  <2>2. PICK i \in 1..Len(log) : log[i].event = "answered" /\ log[i].record.id = bound[s]
    BY <1>2 DEF ClaimInv, ReplierKnows, AnsweredIn
  <2>3. bound[s] \notin HeldIds(Now)
    BY <2>2 DEF ClaimInv, AnsweredIsGone
  <2> QED BY <2>1, <2>3
<1>3. ReleasedApart'
  <2> SUFFICES ASSUME NEW s \in Repliers, NEW u \in Repliers, s # u, told'[s] = "released", told'[u] = "released"
               PROVE  bound'[s] # bound'[u]
    BY DEF ReleasedApart
  <2>1. CASE s = r
    BY <1>2, <2>1 DEF Others
  <2>2. CASE u = r
    BY <1>2, <2>2 DEF Others
  <2>3. CASE s # r /\ u # r
    BY <2>3 DEF Others, ClaimInv, ReleasedApart
  <2> QED BY <2>1, <2>2, <2>3
<1> QED BY <1>1, <1>3

\* The call of a replier that is neither bound through a claim nor told that it
\* released the question leaves nothing to know.
LEMMA NothingToKnow ==
  ASSUME NEW r \in Repliers, told'[r] # "released", doing'[r] \notin {"sends at", "answers at"}
  PROVE  ReplierKnows(r)'
BY DEF ReplierKnows

LEMMA ClaimInvNext ==
  ASSUME TypeOK, Bindings, Grows, ClaimInv, [Next]_vars
  PROVE  ClaimInv'
<1> DEFINE Goal == (\A s \in Repliers : ReplierKnows(s)') /\ ReleasedApart'
<1>0. /\ told \in [Repliers -> {"none", "bound", "released", "answers nothing", "unbound",
                                "not pending", "refused", "sent elsewhere", "failed"}]
      /\ DOMAIN doing = Repliers /\ DOMAIN names = Repliers /\ DOMAIN bound = Repliers /\ DOMAIN told = Repliers
      /\ log \in Seq(Lines)
  BY DEF TypeOK
<1>l. log \in Seq(Lines)
  BY DEF TypeOK
<1>k. \A r \in Repliers : ReplierKnows(r)
  BY DEF ClaimInv
<1>f. doing \in [Repliers -> {"new", "binds", "places", "missed", "sends", "sends at",
                             "sends late", "looks", "answers", "answers at", "over"}]
  BY DEF TypeOK
<1>u. \A r \in Repliers : doing[r] # "over" => told[r] # "released"
  BY <1>k DEF ReplierKnows
<1>e. ASSUME NEW r \in Repliers, NEW what, what # "released", Ends(r, what) PROVE Goal
  <2>1. Others(r) /\ told'[r] # "released" /\ doing'[r] = "over"
    BY <1>0, <1>e DEF Ends, Does, Others
  <2> QED BY <2>1, NothingToKnow, ReplierSteps
<1>d. ASSUME NEW r \in Repliers, doing[r] # "over", Others(r), told' = told,
             doing'[r] \notin {"sends at", "answers at"}
      PROVE  Goal
  BY <1>d, <1>u, NothingToKnow, ReplierSteps
<1>1. ASSUME NEW r \in Repliers, Reply(r) PROVE Goal
  <2>1. doing[r] # "over" /\ Others(r) /\ told' = told /\ doing'[r] = "binds"
    BY <1>0, <1>1 DEF Reply, Does, Others
  <2> QED BY <2>1, <1>d
<1>2. ASSUME NEW r \in Repliers, Binds(r) PROVE Goal
  <2>1. (\E q : bound' = [bound EXCEPT ![r] = q] /\ Does(r, "sends") /\ UNCHANGED <<names, told>>)
        \/ Ends(r, "unbound")
    BY <1>2, Zenon DEF Binds
  <2>2. ASSUME NEW q, bound' = [bound EXCEPT ![r] = q], Does(r, "sends"), UNCHANGED <<names, told>> PROVE Goal
    <3>1. doing[r] # "over" /\ Others(r) /\ told' = told /\ doing'[r] = "sends"
      BY <1>0, <1>2, <2>2 DEF Binds, Does, Others
    <3> QED BY <3>1, <1>d
  <2> QED BY <2>1, <2>2, <1>e
<1>3. ASSUME NEW r \in Repliers, ReplyAt(r) PROVE Goal
  <2>1. /\ doing[r] # "over" /\ told' = told
        /\ \E claim : names' = [names EXCEPT ![r] = claim]
        /\ Does(r, "missed") \/ Does(r, "places")
        /\ bound' = bound \/ bound' = [bound EXCEPT ![r] = Now.pending.id]
    BY <1>3, Zenon DEF ReplyAt
  <2>2. Others(r) /\ doing'[r] \in {"missed", "places"}
    <3> HIDE DEF Now
    <3> QED BY <1>0, <2>1 DEF Does, Others
  <2> QED BY <2>1, <2>2, <1>d
<1>4. ASSUME NEW r \in Repliers, Places(r) PROVE Goal
  <2>0. /\ doing[r] = "places" /\ UNCHANGED <<log, names, bound, told>>
        /\ Does(r, IF ClaimPosition(log, bound[r]) = names[r] THEN "sends at" ELSE "missed")
    BY <1>4 DEF Places, Rests
  <2>1. Others(r)
    BY <1>0, <2>0 DEF Does, Others
  <2>2. CASE ClaimPosition(log, bound[r]) = names[r]
    <3>1. names[r] \in ClaimsAt(log) /\ ClaimsAt(log) \subseteq 1..Len(log)
      BY <2>0 DEF Bindings, ClaimsAt
    <3>2. ClaimPosition(log, bound[r]) # 0
      <4>1. Len(log) \in Nat
        BY <1>l
      <4>2. names[r] # 0
        BY <4>1, <3>1
      <4> QED BY <2>2, <4>2
    <3>3. log[names[r]].record.id = bound[r]
      <4>1. log[ClaimPosition(log, bound[r])].record.id = bound[r]
        BY <1>0, <3>2, ClaimPositionIs
      <4> QED BY <2>2, <4>1
    <3>4. ReplierKnows(r)' /\ told'[r] # "released"
      BY <1>u, <2>0, <3>1, <3>3 DEF ReplierKnows
    <3> QED BY <2>1, <3>4, ReplierSteps
  <2>3. CASE ClaimPosition(log, bound[r]) # names[r]
    <3>1. doing'[r] = "missed"
      BY <1>0, <2>0, <2>3 DEF Does
    <3> QED BY <2>0, <2>1, <3>1, <1>d
  <2> QED BY <2>2, <2>3
<1>5. ASSUME NEW r \in Repliers, AnsweredClaim(r) PROVE Goal
  <2>1. (\E q : bound' = [bound EXCEPT ![r] = q] /\ Does(r, "sends late") /\ UNCHANGED <<names, told>>)
        \/ Ends(r, "not pending")
    BY <1>5, Zenon DEF AnsweredClaim
  <2>2. ASSUME NEW q, bound' = [bound EXCEPT ![r] = q], Does(r, "sends late"), UNCHANGED <<names, told>> PROVE Goal
    <3>1. doing[r] # "over" /\ Others(r) /\ told' = told /\ doing'[r] = "sends late"
      BY <1>0, <1>5, <2>2 DEF AnsweredClaim, Does, Others
    <3> QED BY <3>1, <1>d
  <2> QED BY <2>1, <2>2, <1>e
<1>6. ASSUME NEW r \in Repliers, Refused(r) \/ Elsewhere(r) \/ Stops(r) PROVE Goal
  BY <1>6, <1>e DEF Refused, Elsewhere, Stops
<1>7. ASSUME NEW r \in Repliers, SendsReply(r) PROVE Goal
  <2>1. doing[r] # "over" /\ Others(r) /\ told' = told /\ doing'[r] = "looks"
    BY <1>0, <1>7 DEF SendsReply, Lands, Does, Others
  <2> QED BY <2>1, <1>d
<1>8. ASSUME NEW r \in Repliers, SendsLate(r) PROVE Goal
  <2>1. Others(r) /\ told'[r] = "answers nothing" /\ doing'[r] = "over"
    BY <1>0, <1>8 DEF SendsLate, Lands, Does, Others
  <2> QED BY <2>1, NothingToKnow, ReplierSteps
<1>9. ASSUME NEW r \in Repliers, SendsAt(r) PROVE Goal
  <2>1. /\ doing[r] = "sends at" /\ Others(r) /\ UNCHANGED <<log, told, names, bound>> /\ doing'[r] = "answers at"
    BY <1>0, <1>9 DEF SendsAt, Lands, Does, Others
  <2>2. ReplierKnows(r)' /\ told'[r] # "released"
    BY <1>k, <1>u, <2>1 DEF ReplierKnows
  <2> QED BY <2>1, <2>2, ReplierSteps
<1>10. ASSUME NEW r \in Repliers, LooksForHeld(r) PROVE Goal
  <2>1. Ends(r, "bound") \/ (Does(r, "answers") /\ Rests(r))
    BY <1>10 DEF LooksForHeld
  <2>2. CASE Does(r, "answers") /\ Rests(r)
    <3>1. doing[r] # "over" /\ Others(r) /\ told' = told /\ doing'[r] = "answers"
      BY <1>0, <1>10, <2>2 DEF LooksForHeld, Rests, Does, Others
    <3> QED BY <3>1, <1>d
  <2> QED BY <2>1, <2>2, <1>e
<1>11. ASSUME NEW r \in Repliers, Answers(r) PROVE Goal
  <2>1. Others(r) /\ told'[r] = "bound" /\ doing'[r] = "over"
    BY <1>0, <1>11 DEF Answers, Does, Others
  <2> QED BY <2>1, NothingToKnow, ReplierSteps
<1>12. ASSUME NEW r \in Repliers, AnswersAt(r) PROVE Goal
  <2>0. /\ doing[r] = "answers at" /\ Release(r) /\ Does(r, "over") /\ UNCHANGED <<names, bound>>
        /\ told' = [told EXCEPT ![r] = IF Answered(bound[r]) THEN "released" ELSE "answers nothing"]
    BY <1>12 DEF AnswersAt
  <2>1. Others(r) /\ doing'[r] = "over"
    BY <1>0, <2>0 DEF Does, Others
  <2>2. CASE ~ Pends(Now, bound[r])
    <3>1. told'[r] = "answers nothing"
      BY <1>0, <2>0, <2>2 DEF Answered
    <3> QED BY <2>1, <3>1, NothingToKnow, ReplierSteps
  <2>3. CASE Pends(Now, bound[r])
    <3>1. log' = Append(log, Line("answered", Now.pending))
      BY <2>0, <2>3 DEF Release, Answered
    <3>2. Now.pending \in Records /\ Now.pending.id = bound[r]
      BY <2>3, NowType DEF Pends, Folded
    <3>3. Line("answered", Now.pending) \in Lines /\ Line("answered", Now.pending).event = "answered"
          /\ Line("answered", Now.pending).record = Now.pending
      BY <3>2, LineType DEF Line, Events
    <3>4. Len(log) + 1 \in 1..Len(log') /\ log'[Len(log) + 1] = Line("answered", Now.pending)
      <4> DEFINE x == Line("answered", Now.pending)
      <4>1. x \in Lines /\ log' = Append(log, x)
        BY <3>1, <3>3
      <4> HIDE DEF x
      <4>2. Len(log) + 1 \in 1..Len(Append(log, x)) /\ Append(log, x)[Len(log) + 1] = x
        BY <1>l, <4>1, AppendedLast
      <4> QED BY <4>1, <4>2 DEF x
    <3>5. AnsweredIn(log', bound[r])
      BY <3>2, <3>3, <3>4 DEF AnsweredIn
    <3>6. names[r] \in ClaimsAt(log) /\ log[names[r]].record.id = bound[r]
      BY <1>k, <2>0 DEF ReplierKnows
    <3>7. names[r] \in ClaimsAt(log') /\ log'[names[r]] = log[names[r]]
      BY <1>0, <3>6 DEF Grows, ClaimsAt
    <3>8. ReplierKnows(r)'
      BY <2>0, <2>1, <3>5, <3>6, <3>7 DEF ReplierKnows
    <3> QED BY <2>0, <2>1, <2>3, <3>8, ReplierSteps
  <2> QED BY <2>2, <2>3
<1>13. ASSUME UNCHANGED replying PROVE Goal
  <2>1. UNCHANGED <<told, doing, names, bound>>
    BY <1>13 DEF replying
  <2>2. \A s \in Repliers : ReplierKnows(s)'
    BY <1>k, <2>1, ReplierKeeps
  <2> QED BY <2>1, <2>2 DEF ClaimInv, ReleasedApart
<1>14. ASSUME NEW l \in Listeners,
              \/ Ask(l) \/ Listen(l) \/ Drop(l) \/ Wait(l) \/ Looks(l) \/ Unreadable(l)
              \/ Marks(l) \/ MarkLooks(l) \/ MarkRecords(l)
       PROVE  UNCHANGED replying
  BY <1>14 DEF Ask, Listen, Drop, Wait, Looks, ReadReplies, LookForMark, Unreadable, Marks, MarkLooks,
               MarkRecords, Hears, On
<1>15. ASSUME Claim \/ UNCHANGED vars PROVE UNCHANGED replying
  BY <1>15 DEF Claim, vars
<1> HIDE DEF Goal
<1>16. ASSUME NEW r \in Repliers,
              \/ Reply(r) \/ Binds(r) \/ ReplyAt(r) \/ Places(r) \/ AnsweredClaim(r)
              \/ Refused(r) \/ Elsewhere(r) \/ SendsReply(r) \/ SendsAt(r) \/ SendsLate(r)
              \/ LooksForHeld(r) \/ Answers(r) \/ AnswersAt(r) \/ Stops(r)
       PROVE  Goal
  BY <1>1, <1>2, <1>3, <1>4, <1>5, <1>6, <1>7, <1>8, <1>9, <1>10, <1>11, <1>12, <1>16
<1>17. ASSUME Next PROVE Goal
  BY <1>13, <1>14, <1>15, <1>16, <1>17 DEF Next
<1>18. Goal
  BY <1>13, <1>15, <1>17
<1>19. HeldOnce(Now)' /\ AnsweredIsGone'
  BY FoldGoesOn DEF ClaimInv
<1> QED BY <1>18, <1>19 DEF ClaimInv, Goal

----------------------------------------------------------------------------
(* The invariants together. *)

\* The properties of the specification, with what each actor knows on its way.
IInv ==
  /\ TypeOK
  /\ Bindings
  /\ \A l \in Listeners : Hearing(l)
  /\ ReleasedByAReply
  /\ ClaimInv

LEMMA IInvInit == Init => IInv
<1> SUFFICES ASSUME Init PROVE IInv
  OBVIOUS
<1> USE DEF Init
<1>1. Asked = {} /\ Len(answers) = 0 /\ Len(log) = 0
  BY DEF Asked
<1>2. log \in Seq(Lines) /\ answers \in Seq(0..MaxId)
  OBVIOUS
<1>3. Nothing \in [word : {"none", "reply", "abandoned", "timeout", "refused"}, reply : 0..Len(answers)]
  BY <1>1 DEF Nothing
<1>4. TypeOK
  BY <1>1, <1>2, <1>3 DEF TypeOK
<1>5. Bindings /\ (\A l \in Listeners : Hearing(l)) /\ ReleasedByAReply
  BY <1>1 DEF Bindings, Hearing, Nothing, ReleasedByAReply
<1>6. Now = EmptyFold
  BY <1>1, <1>2, FoldOfUnroll DEF Now, FoldOf
<1>7. ClaimInv
  <2>1. HeldOnce(EmptyFold)
    BY DEF HeldOnce, HeldIds, IdsDiffer, EmptyFold
  <2>2. AnsweredIsGone
    BY <1>1 DEF AnsweredIsGone
  <2>3. (\A r \in Repliers : ReplierKnows(r)) /\ ReleasedApart
    BY DEF ReplierKnows, ReleasedApart
  <2> QED BY <1>6, <2>1, <2>2, <2>3 DEF ClaimInv
<1> QED BY <1>4, <1>5, <1>7 DEF IInv

LEMMA IInvNext == IInv /\ [Next]_vars => IInv'
<1> SUFFICES ASSUME IInv, [Next]_vars PROVE IInv'
  OBVIOUS
<1>0. TypeOK /\ Bindings /\ (\A l \in Listeners : Hearing(l)) /\ ReleasedByAReply /\ ClaimInv
  BY DEF IInv
<1>1. TypeOK' /\ Bindings' /\ Grows
  BY <1>0, TypesHold
<1>2. \A l \in Listeners : Hearing(l)'
  BY <1>0, HearingNext
<1>3. ReleasedByAReply'
  <2> SUFFICES ASSUME NEW i \in 1..Len(log'), log'[i].event = "answered"
               PROVE  log'[i].record.id \in Replied'
    BY DEF ReleasedByAReply
  <2>0. log \in Seq(Lines)
    BY <1>0 DEF TypeOK
  <2>1. Len(log) \in Nat
    BY <2>0
  <2>2. CASE i \in 1..Len(log)
    BY <1>0, <1>1, <2>2 DEF Grows, ReleasedByAReply
  <2>3. CASE i > Len(log)
    BY <1>1, <2>3 DEF Grows
  <2> QED BY <2>1, <2>2, <2>3
<1>4. ClaimInv'
  BY <1>0, <1>1, ClaimInvNext
<1> QED BY <1>1, <1>2, <1>3, <1>4 DEF IInv

LEMMA IInvHolds == Spec => []IInv
BY IInvInit, IInvNext, PTL DEF Spec

\* The state of every listener and replier is well formed, and one that listens
\* listens for a question that was asked.
THEOREM TypeCorrect == Spec => []TypeOK
<1>1. IInv => TypeOK
  BY DEF IInv
<1> QED BY <1>1, IInvHolds, PTL

\* Everyone who hears a reply to a question hears the first to echo it
\* (`reply_record`), for any number of listeners and repliers.
THEOREM FirstReplySettlesHolds == Spec => []FirstReplySettles
<1>1. IInv => FirstReplySettles
  BY DEF IInv, Hearing, FirstReplySettles
<1> QED BY <1>1, IInvHolds, PTL

\* No wait that began with its reply there ends without it (`settled`).
THEOREM NoReplyMissedHolds == Spec => []NoReplyMissed
<1>1. IInv => NoReplyMissed
  BY DEF IInv, Hearing, NoReplyMissed
<1> QED BY <1>1, IInvHolds, PTL

\* No question leaves the slot answered before its reply is on the answer queue
\* (`append_reply`, then `answer`).
THEOREM ReleasedByAReplyHolds == Spec => []ReleasedByAReply
<1>1. IInv => ReleasedByAReply
  BY DEF IInv
<1> QED BY <1>1, IInvHolds, PTL

\* Of the repliers that answer the record pending at one claim, at most one is
\* told that it released it (`reply_at`), whatever is claimed, displaced and
\* answered between its looks.
THEOREM OneAnswerPerClaimHolds == Spec => []OneAnswerPerClaim
<1>1. IInv => OneAnswerPerClaim
  <2> SUFFICES ASSUME ClaimInv, NEW r \in Repliers, NEW s \in Repliers, r # s,
                      told[r] = "released", told[s] = "released"
               PROVE  names[r] # names[s]
    BY DEF IInv, OneAnswerPerClaim
  <2> QED BY DEF ClaimInv, ReplierKnows, ReleasedApart
<1> QED BY <1>1, IInvHolds, PTL
=============================================================================
