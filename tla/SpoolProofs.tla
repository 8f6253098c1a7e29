----------------------------- MODULE SpoolProofs -----------------------------
(***************************************************************************)
(* Theorems about Spool, for any set of messages: that every variable      *)
(* keeps its type, that taking a message and withdrawing it never both     *)
(* succeed, that a taken file says its receiver has the message, and that  *)
(* an answer given arrives and none is invented.                           *)
(*                                                                         *)
(* No step touches the files of two messages, so the invariant is one of a *)
(* message at a time, and most of its proof is that a step of another      *)
(* message leaves this one alone.                                          *)
(***************************************************************************)
EXTENDS Spool, TLAPS

Library == INSTANCE LibraryProofs

----------------------------------------------------------------------------
(* The invariant. *)

\* The sender has no more use for the message, or is about to say so.
Over == {"why?", "ending", "over"}

\* The sender has created the claim file and has yet to decide what it means.
SenderClaims == {"answered?", "unadmitted?", "give back"}

Early == {"start", "write"}

\* The courier or the closing thread has taken the offer over, or its sender took it back.
Begun(m) == at[m] \notin Early /\ ~Has(m, "offer")

InCourier(m) == courier.does # "nothing" /\ courier.m = m
InSettling(m) == settling[m].does # "nothing"

\* Only one of them has the message, so that it is settled once.
InOnePlace(m) ==
  /\ ~Begun(m) =>
       /\ ~InCourier(m) /\ m \notin queue \cup owed \cup replies
       /\ ~Within("let go", m) /\ ~InSettling(m)
  /\ InCourier(m) =>
       m \notin queue \cup owed \cup replies /\ ~Within("let go", m) /\ ~InSettling(m)
  /\ m \in queue => m \notin owed \cup replies /\ ~Within("let go", m) /\ ~InSettling(m)
  /\ m \in owed => m \notin replies /\ ~Within("let go", m) /\ ~InSettling(m)
  /\ m \in replies => ~Within("let go", m) /\ ~InSettling(m)
  /\ Within("let go", m) => ~InSettling(m)
  /\ ~Begun(m) \/ InCourier(m) \/ m \in queue \/ Within("let go", m) => m \notin hand

\* What is done under the inbox's lock is done to a message that is still queued.
InsideIsQueued(m) ==
  Within("claim", m) \/ Within("glance", m) \/ Within("expire", m) => m \in queue

\* Where a sender is tells what it has been told, which call it is in and whether its
\* offer can still be there.
SenderShape(m) ==
  /\ told[m] # Nothing <=> at[m] \in {"ending", "over"}
  /\ at[m] \in SenderClaims \cup {"claim"} => call[m] \in {"offer", "until", "withdraw"}
  /\ at[m] = "publish" => call[m] = "until"
  /\ at[m] \in Early => files[m] = {} /\ call[m] = "offer"
  /\ at[m] \in {"seek", "closed?", "unoffer", "unoffer, closed"} => call[m] = "offer"
  /\ Has(m, "offer") =>
       /\ at[m] \in {"look", "seek", "closed?", "unoffer", "unoffer, closed", "ending", "over"}
       /\ call[m] = "offer" /\ told[m] \notin GaveUp

\* A message dropped past its sender's deadline is nowhere any more.
ExpiredIsOut(m) ==
  Has(m, "expired") =>
    /\ Begun(m) /\ ~InCourier(m) /\ m \notin queue \cup owed \cup replies \cup held
    /\ ~Within("let go", m) /\ ~InSettling(m)

\* The claim a `Hold` has is on disk, and no sender's.
HeldIsClaimed(m) ==
  /\ m \in held =>
       /\ Has(m, "claimed") /\ at[m] \notin SenderClaims /\ told[m] \notin GaveUp
       /\ Begun(m) /\ ~InCourier(m)
  /\ m \in owed \/ Within("let go", m) \/ Within("expire", m) => m \in held

\* A sender that withdraws, or has, left its claim for the receiver to find.
WithdrawnIsClaimed(m) ==
  /\ InCourier(m) \/ m \in queue
  /\ at[m] \in SenderClaims \/ told[m] \in GaveUp
  => Has(m, "claimed")

\* Only its sender removes the taken file under a receiver that has the message.
StillTaken(m) ==
  InCourier(m) \/ m \in queue \cup owed \/ Within("let go", m) =>
    at[m] \in Over \/ Has(m, "taken")

\* A message taken is claimed until its answer is there for the sender to find.
HadIsKept(m) ==
  m \in had =>
    /\ told[m] \notin GaveUp /\ Begun(m) /\ ~InCourier(m) /\ m \notin queue
    /\ ~Has(m, "expired")
    /\ m \in replies \/ InSettling(m) => m \in held
    /\ at[m] # "unadmitted?"
    /\ \/ at[m] \in Over
       \/ answer[m] # Nothing
       \/ /\ Has(m, "claimed") /\ Has(m, "taken")
          /\ at[m] \notin SenderClaims /\ settling[m].does \notin {"remove", "clear"}

\* A taken file is of a message its receiver has, or dropped past its deadline.
TakenIsSomewhere(m) ==
  Has(m, "taken") =>
    /\ Begun(m)
    /\ \/ m \in excused \/ InCourier(m) \/ m \in queue \cup owed \cup replies
       \/ Within("let go", m) \/ InSettling(m) \/ Has(m, "expired")

Core(m) ==
  /\ InOnePlace(m) /\ InsideIsQueued(m) /\ SenderShape(m) /\ ExpiredIsOut(m)
  /\ HeldIsClaimed(m) /\ WithdrawnIsClaimed(m) /\ StillTaken(m) /\ TakenIsSomewhere(m)

\* The replies a close has yet to give are those of a close.
NothingOwing == closing = "no" => replies = {}

IInv == TypeOK /\ NothingOwing /\ \A m \in Messages : Core(m)

\* This one needs that no answer is refused.
HadInv == \A m \in Messages : HadIsKept(m)

----------------------------------------------------------------------------
(* A step that leaves a message alone. *)

Untouched(m) ==
  /\ files'[m] = files[m] /\ answer'[m] = answer[m] /\ settling'[m] = settling[m]
  /\ at'[m] = at[m] /\ call'[m] = call[m] /\ told'[m] = told[m]
  /\ m \in queue' <=> m \in queue
  /\ m \in owed' <=> m \in owed
  /\ m \in replies' <=> m \in replies
  /\ m \in hand' => m \in hand
  /\ m \in held' <=> m \in held
  /\ m \in had' => m \in had
  /\ m \in excused => m \in excused'
  /\ InCourier(m)' <=> InCourier(m)
  /\ \A what \in {"claim", "glance", "expire", "let go"} : Within(what, m)' <=> Within(what, m)

LEMMA UntouchedKeeps ==
  ASSUME NEW m \in Messages, Untouched(m)
  PROVE  (Core(m) => Core(m)') /\ (HadIsKept(m) => HadIsKept(m)')
<1>1. /\ \A f : Has(m, f)' <=> Has(m, f)
      /\ Begun(m)' <=> Begun(m)
      /\ InSettling(m)' <=> InSettling(m)
      /\ Within("claim", m)' <=> Within("claim", m)
      /\ Within("glance", m)' <=> Within("glance", m)
      /\ Within("expire", m)' <=> Within("expire", m)
      /\ Within("let go", m)' <=> Within("let go", m)
      /\ InCourier(m)' <=> InCourier(m)
  BY DEF Untouched, Has, Begun, InSettling
<1> HIDE DEF Untouched
<1>2. InOnePlace(m) => InOnePlace(m)'
  BY <1>1 DEF Untouched, InOnePlace
<1>3. InsideIsQueued(m) => InsideIsQueued(m)'
  BY <1>1 DEF Untouched, InsideIsQueued
<1>4. SenderShape(m) => SenderShape(m)'
  BY <1>1 DEF Untouched, SenderShape
<1>5. ExpiredIsOut(m) => ExpiredIsOut(m)'
  BY <1>1 DEF Untouched, ExpiredIsOut
<1>6. HeldIsClaimed(m) => HeldIsClaimed(m)'
  BY <1>1 DEF Untouched, HeldIsClaimed
<1>7. WithdrawnIsClaimed(m) => WithdrawnIsClaimed(m)'
  BY <1>1 DEF Untouched, WithdrawnIsClaimed
<1>8. StillTaken(m) => StillTaken(m)'
  BY <1>1 DEF Untouched, StillTaken
<1>9. TakenIsSomewhere(m) => TakenIsSomewhere(m)'
  BY <1>1 DEF Untouched, TakenIsSomewhere
<1>10. HadIsKept(m) => HadIsKept(m)'
  BY <1>1 DEF Untouched, HadIsKept
<1> QED BY <1>2, <1>3, <1>4, <1>5, <1>6, <1>7, <1>8, <1>9, <1>10 DEF Core

----------------------------------------------------------------------------
(* The senders' steps. *)

Sends(m) == Proceeds(m) \/ TimePasses(m) \/ Asks(m) \/ Dies(m)

\* A sender touches its own message and nothing of the receiver's.
SendersOwn(m) ==
  /\ UNCHANGED <<courier, closing, queue, owed, replies, hand, held, inside, settling, had, given>>
  /\ excused \subseteq excused'
  /\ \A k \in Messages \ {m} :
       /\ files'[k] = files[k] /\ answer'[k] = answer[k] /\ at'[k] = at[k]
       /\ call'[k] = call[k] /\ told'[k] = told[k]

LEMMA SendersLocal ==
  ASSUME TypeOK, NEW m \in Messages, SenderShape(m), Sends(m)
  PROVE  SendersOwn(m)
<1>t. /\ files \in [Messages -> SUBSET Suffixes] /\ answer \in [Messages -> Bodies \cup {Nothing}]
      /\ DOMAIN at = Messages /\ DOMAIN call = Messages /\ DOMAIN told = Messages
  BY DEF TypeOK, DirectoryTyped, SendersTyped
<1> USE DEF SendersOwn, Looking, Waiting, SameCall, receiver, inbox, serving, closer, world,
            Goes, Steps, Tell, Becomes, Create, Remove, ReadAnswer, Admitted, Discard, Calls
<1>0. at[m] \in {"claim", "give back"} => call[m] \in {"offer", "until", "withdraw"}
  BY DEF SenderShape, SenderClaims
<1>1. CASE Start(m)
  BY <1>t, <1>1 DEF Start
<1>2. CASE WriteOffer(m)
  BY <1>t, <1>2 DEF WriteOffer
<1>3. CASE Look(m)
  BY <1>t, <1>3 DEF Look
<1>4. CASE Seek(m)
  BY <1>t, <1>4 DEF Seek
<1>5. CASE ClosedYet(m)
  BY <1>t, <1>5 DEF ClosedYet
<1>6. CASE Unoffer(m)
  BY <1>t, <1>6 DEF Unoffer
<1>7. CASE Whose(m)
  BY <1>t, <1>7 DEF Whose
<1>8. CASE AdmittedYet(m)
  BY <1>t, <1>8 DEF AdmittedYet
<1>9. CASE HeldYet(m)
  BY <1>t, <1>9 DEF HeldYet
<1>10. CASE BoundYet(m)
  BY <1>t, <1>10 DEF BoundYet
<1>11. CASE Ended(m)
  BY <1>t, <1>11 DEF Ended
<1>12. CASE Clear(m)
  BY <1>t, <1>12 DEF Clear
<1>13. CASE Why(m)
  BY <1>t, <1>13 DEF Why
<1>14. CASE Claim(m)
  BY <1>t, <1>0, <1>14 DEF Claim, Kept, Undecided
<1>15. CASE AnsweredYet(m)
  BY <1>t, <1>15 DEF AnsweredYet, Withdrawn
<1>16. CASE UnadmittedYet(m)
  BY <1>t, <1>16 DEF UnadmittedYet, Withdrawn
<1>17. CASE GiveBack(m)
  BY <1>t, <1>0, <1>17 DEF GiveBack, Kept, Undecided
<1>18. CASE KeptAdmitted(m)
  BY <1>t, <1>18 DEF KeptAdmitted
<1>19. CASE Unsettled(m)
  BY <1>t, <1>19 DEF Unsettled
<1>20. CASE ExpiredYet(m)
  BY <1>t, <1>20 DEF ExpiredYet
<1>21. CASE Publish(m)
  BY <1>t, <1>21 DEF Publish
<1>22. CASE End(m)
  BY <1>t, <1>22 DEF End
<1>23. CASE WaitPasses(m)
  BY <1>t, <1>23 DEF WaitPasses
<1>24. CASE DeadlinePasses(m)
  BY <1>t, <1>24 DEF DeadlinePasses
<1>25. CASE Wait(m)
  BY <1>t, <1>25 DEF Wait
<1>26. CASE WaitUntil(m)
  BY <1>t, <1>26 DEF WaitUntil
<1>27. CASE Withdraw(m)
  BY <1>t, <1>27 DEF Withdraw
<1>28. CASE DropOffer(m)
  BY <1>t, <1>28 DEF DropOffer
<1>29. CASE Dies(m)
  BY <1>t, <1>29 DEF Dies
<1> QED BY <1>1, <1>2, <1>3, <1>4, <1>5, <1>6, <1>7, <1>8, <1>9, <1>10, <1>11, <1>12, <1>13,
      <1>14, <1>15, <1>16, <1>17, <1>18, <1>19, <1>20, <1>21, <1>22, <1>23, <1>24, <1>25, <1>26,
      <1>27, <1>28, <1>29 DEF Sends, Proceeds, TimePasses, Asks

\* What a sender's step makes of its message; its answer is read at the end.
Now(m, fs, to, c, said) ==
  /\ files'[m] = fs /\ at'[m] = to /\ call'[m] = c /\ told'[m] = said
  /\ answer'[m] = answer[m] \/ to = "ending"

\* What of the invariant such a step has to see to.
MovesRight(m) ==
  /\ Begun(m) => Begun(m)'
  /\ Has(m, "expired")' => Has(m, "expired")
  /\ m \in held =>
       Has(m, "claimed")' /\ at'[m] \notin SenderClaims /\ told'[m] \notin GaveUp
  /\ InCourier(m) \/ m \in queue =>
       (at'[m] \in SenderClaims \/ told'[m] \in GaveUp => Has(m, "claimed")')
  /\ at[m] \in Over => at'[m] \in Over
  /\ Has(m, "taken") /\ ~Has(m, "taken")' => at'[m] \in Over
  /\ Has(m, "taken")' => Has(m, "taken") /\ (Has(m, "expired") => Has(m, "expired")')

MovesTaken(m) ==
  m \in had =>
    /\ told'[m] \in GaveUp =>
         \/ told[m] \in GaveUp \/ ~Begun(m) \/ Has(m, "expired")
         \/ at[m] = "unadmitted?" \/ (at[m] = "answered?" /\ answer[m] = Nothing)
    /\ at'[m] = "unadmitted?" =>
         at[m] = "unadmitted?" \/ (at[m] = "answered?" /\ answer[m] = Nothing)
    /\ answer[m] # Nothing => at'[m] = "ending" \/ answer'[m] # Nothing
    /\ at'[m] \in SenderClaims => at[m] \in SenderClaims \/ ~Has(m, "claimed")
    /\ Has(m, "claimed") /\ ~Has(m, "claimed")' => at[m] \in SenderClaims \/ Has(m, "expired")

MovesWell(m) == SenderShape(m)' /\ MovesRight(m) /\ MovesTaken(m)

LEMMA MovesKeep ==
  ASSUME NEW m \in Messages, SendersOwn(m), MovesWell(m)
  PROVE  (Core(m) => Core(m)') /\ (Core(m) /\ HadIsKept(m) => HadIsKept(m)')
<1>1. /\ m \in queue' <=> m \in queue
      /\ m \in owed' <=> m \in owed
      /\ m \in replies' <=> m \in replies
      /\ m \in hand' <=> m \in hand
      /\ m \in held' <=> m \in held
      /\ m \in had' <=> m \in had
      /\ m \in excused => m \in excused'
      /\ InCourier(m)' <=> InCourier(m)
      /\ InSettling(m)' <=> InSettling(m)
      /\ settling'[m] = settling[m]
      /\ Within("claim", m)' <=> Within("claim", m)
      /\ Within("glance", m)' <=> Within("glance", m)
      /\ Within("expire", m)' <=> Within("expire", m)
      /\ Within("let go", m)' <=> Within("let go", m)
  BY DEF SendersOwn, InCourier, InSettling, Within
<1> SUFFICES ASSUME Core(m) PROVE Core(m)' /\ (HadIsKept(m) => HadIsKept(m)')
  OBVIOUS
<1>2. InOnePlace(m)' /\ InsideIsQueued(m)'
  BY <1>1 DEF Core, InOnePlace, InsideIsQueued, MovesWell, MovesRight
<1>3. SenderShape(m)'
  BY DEF MovesWell
<1>4. ExpiredIsOut(m)'
  BY <1>1 DEF Core, ExpiredIsOut, MovesWell, MovesRight
<1>5. HeldIsClaimed(m)' /\ WithdrawnIsClaimed(m)'
  BY <1>1 DEF Core, HeldIsClaimed, WithdrawnIsClaimed, MovesWell, MovesRight
<1>6. StillTaken(m)'
  BY <1>1 DEF Core, StillTaken, MovesWell, MovesRight
<1>7. TakenIsSomewhere(m)'
  BY <1>1 DEF Core, TakenIsSomewhere, MovesWell, MovesRight
<1>8. HadIsKept(m) => HadIsKept(m)'
  BY <1>1 DEF Core, HadIsKept, MovesWell, MovesRight, MovesTaken, SenderClaims, Over
<1> QED BY <1>2, <1>3, <1>4, <1>5, <1>6, <1>7, <1>8 DEF Core

LEMMA SendersMoveWell ==
  ASSUME TypeOK, NEW m \in Messages, Core(m), Sends(m)
  PROVE  MovesWell(m)
<1>0. at[m] \in {"claim", "give back", "answered?", "unadmitted?"} =>
        call[m] \in {"offer", "until", "withdraw"}
  BY DEF Core, SenderShape, SenderClaims
<1>t. /\ files \in [Messages -> SUBSET Suffixes] /\ answer \in [Messages -> Bodies \cup {Nothing}]
      /\ DOMAIN at = Messages /\ DOMAIN call = Messages /\ DOMAIN told = Messages
  BY DEF TypeOK, DirectoryTyped, SendersTyped
<1> USE DEF Now, Nothing, Begun, Has, Over, SenderClaims, Early, GaveUp, Bodies, Clutter,
            Looking, Waiting, SameCall, receiver, inbox, serving, closer, world,
            Goes, Steps, Tell, Becomes, Create, Remove, ReadAnswer, Admitted, Discard, Calls
<1>h. /\ SenderShape(m)
      /\ m \in held => Has(m, "claimed") /\ at[m] \notin SenderClaims /\ ~Has(m, "expired")
      /\ m \in held => told[m] \notin GaveUp /\ ~Has(m, "offer") /\ at[m] \notin Early
      /\ InCourier(m) \/ m \in queue =>
           /\ at[m] \in SenderClaims \/ told[m] \in GaveUp => Has(m, "claimed")
           /\ ~Has(m, "expired") /\ ~Has(m, "offer") /\ at[m] \notin Early
      /\ Has(m, "taken") => ~Has(m, "offer") /\ at[m] \notin Early
  BY DEF Core, ExpiredIsOut, HeldIsClaimed, InOnePlace, WithdrawnIsClaimed, TakenIsSomewhere
<1>1. CASE Start(m)
  <2>1. at[m] = "start"
    BY <1>1 DEF Start
  <2>2. \/ Now(m, files[m], "write", call[m], told[m])
        \/ Now(m, files[m], "over", call[m], "closed")
    BY <1>t, <1>1 DEF Start
  <2>3. CASE Now(m, files[m], "write", call[m], told[m])
    <3>1. SenderShape(m)'
      BY <1>h, <2>1, <2>3 DEF SenderShape
    <3>2. MovesRight(m)
      BY <1>h, <2>1, <2>3 DEF MovesRight
    <3>3. MovesTaken(m)
      BY <1>h, <2>1, <2>3 DEF MovesTaken
    <3> QED BY <3>1, <3>2, <3>3 DEF MovesWell
  <2>4. CASE Now(m, files[m], "over", call[m], "closed")
    <3>1. SenderShape(m)'
      BY <1>h, <2>1, <2>4 DEF SenderShape
    <3>2. MovesRight(m)
      BY <1>h, <2>1, <2>4 DEF MovesRight
    <3>3. MovesTaken(m)
      BY <1>h, <2>1, <2>4 DEF MovesTaken
    <3> QED BY <3>1, <3>2, <3>3 DEF MovesWell
  <2> QED BY <2>2, <2>3, <2>4
<1>2. CASE WriteOffer(m)
  <2>1. at[m] = "write"
    BY <1>2 DEF WriteOffer
  <2>2. Now(m, files[m] \cup {"offer"}, "look", call[m], told[m])
    BY <1>t, <1>2 DEF WriteOffer
  <2> QED BY <1>h, <2>1, <2>2 DEF MovesWell, MovesRight, MovesTaken, SenderShape
<1>3. CASE Look(m)
  <2>1. at[m] = "look"
    BY <1>3 DEF Look
  <2>2. \/ answer[m] \in Bodies /\ Now(m, files[m], "ending", call[m], answer[m])
        \/ \E to \in {"seek", "expired?", "held?"} :
             /\ Has(m, "offer") => to = "seek"
             /\ to = "seek" => call[m] = "offer"
             /\ Now(m, files[m], to, call[m], told[m])
    BY <1>t, <1>3 DEF Look, Further, Core, SenderShape
  <2> QED BY <1>h, <2>1, <2>2 DEF MovesWell, MovesRight, MovesTaken, SenderShape
<1>4. CASE Seek(m)
  <2>1. at[m] = "seek"
    BY <1>4 DEF Seek
  <2>2. \/ Has(m, "offer") /\ Now(m, files[m], "closed?", call[m], told[m])
        \/ /\ ~Has(m, "offer")
           /\ \E to \in {"whose?", "admitted?"} : Now(m, files[m], to, call[m], told[m])
    BY <1>t, <1>4 DEF Seek
  <2> QED BY <1>h, <2>1, <2>2 DEF MovesWell, MovesRight, MovesTaken, SenderShape
<1>5. CASE ClosedYet(m)
  <2>1. at[m] = "closed?"
    BY <1>5 DEF ClosedYet
  <2>2. \E to \in {"unoffer, closed", "unoffer", "look"} : Now(m, files[m], to, call[m], told[m])
    BY <1>t, <1>5 DEF ClosedYet
  <2> QED BY <1>h, <2>1, <2>2 DEF MovesWell, MovesRight, MovesTaken, SenderShape
<1>6. CASE Unoffer(m)
  <2>1. at[m] \in {"unoffer", "unoffer, closed"}
    BY <1>6 DEF Unoffer
  <2>2. \/ /\ Has(m, "offer")
           /\ \E w \in {"elapsed", "closed"} :
                Now(m, files[m] \ {"offer"}, "ending", call[m], w)
        \/ Now(m, files[m], "look", call[m], told[m])
        \/ Now(m, files[m], "ending", call[m], "unclaimable")
    BY <1>t, <1>6 DEF Unoffer
  <2> QED BY <1>h, <2>1, <2>2 DEF MovesWell, MovesRight, MovesTaken, SenderShape
<1>7. CASE Whose(m)
  <2>1. at[m] = "whose?"
    BY <1>7 DEF Whose
  <2>2. \/ Now(m, files[m], "ready", "none", told[m])
        \/ Now(m, files[m], "admitted?", call[m], told[m])
    BY <1>t, <1>7 DEF Whose
  <2> QED BY <1>h, <2>1, <2>2 DEF MovesWell, MovesRight, MovesTaken, SenderShape
<1>8. CASE AdmittedYet(m)
  <2>1. at[m] = "admitted?"
    BY <1>8 DEF AdmittedYet
  <2>2. \/ Now(m, files[m], "ready", "none", told[m])
        \/ Now(m, files[m], "held?", call[m], told[m])
    BY <1>t, <1>8 DEF AdmittedYet
  <2> QED BY <1>h, <2>1, <2>2 DEF MovesWell, MovesRight, MovesTaken, SenderShape
<1>9. CASE HeldYet(m)
  <2>1. at[m] = "held?"
    BY <1>9 DEF HeldYet
  <2>2. \E to \in {"bound?", "ended"} : Now(m, files[m], to, call[m], told[m])
    BY <1>t, <1>9 DEF HeldYet
  <2> QED BY <1>h, <2>1, <2>2 DEF MovesWell, MovesRight, MovesTaken, SenderShape
<1>10. CASE BoundYet(m)
  <2>1. at[m] = "bound?"
    BY <1>10 DEF BoundYet
  <2>2. \/ \E to \in {"ended", "look"} : Now(m, files[m], to, call[m], told[m])
        \/ Now(m, files[m], "ready", "none", told[m])
        \/ call[m] = "offer" /\ Now(m, files[m], "claim", call[m], told[m])
        \/ call[m] = "until" /\ Now(m, files[m], "publish", call[m], told[m])
    BY <1>t, <1>10 DEF BoundYet, Meanwhile
  <2> QED BY <1>h, <2>1, <2>2 DEF MovesWell, MovesRight, MovesTaken, SenderShape
<1>11. CASE Ended(m)
  <2>1. at[m] = "ended"
    BY <1>11 DEF Ended
  <2>2. \/ answer[m] \in Bodies /\ Now(m, files[m], "ending", call[m], answer[m])
        \/ Now(m, files[m], "clear", call[m], told[m])
    BY <1>t, <1>11 DEF Ended
  <2> QED BY <1>h, <2>1, <2>2 DEF MovesWell, MovesRight, MovesTaken, SenderShape
<1>12. CASE Clear(m)
  <2>1. at[m] = "clear"
    BY <1>12 DEF Clear
  <2>2. Now(m, files[m] \ {"taken"}, "why?", call[m], told[m])
    BY <1>t, <1>12 DEF Clear
  <2> QED BY <1>h, <2>1, <2>2 DEF MovesWell, MovesRight, MovesTaken, SenderShape
<1>13. CASE Why(m)
  <2>1. at[m] = "why?"
    BY <1>13 DEF Why
  <2>2. \E w \in {"closed", "abandoned"} : Now(m, files[m], "ending", call[m], w)
    BY <1>t, <1>13 DEF Why
  <2> QED BY <1>h, <2>1, <2>2 DEF MovesWell, MovesRight, MovesTaken, SenderShape
<1>14. CASE Claim(m)
  <2>1. at[m] = "claim"
    BY <1>14 DEF Claim
  <2>2. \/ ~Has(m, "claimed") /\ Now(m, files[m] \cup {"claimed"}, "answered?", call[m], told[m])
        \/ \E to \in {"kept", "look"} : Now(m, files[m], to, call[m], told[m])
        \/ Now(m, files[m], "ending", call[m], "unclaimable")
        \/ Now(m, files[m], "ready", "none", told[m])
    BY <1>t, <1>0, <1>14 DEF Claim, Kept, Undecided
  <2>3. CASE ~Has(m, "claimed") /\ Now(m, files[m] \cup {"claimed"}, "answered?", call[m], told[m])
    <3>1. SenderShape(m)'
      BY <1>h, <2>1, <2>3 DEF SenderShape
    <3>2. MovesRight(m)
      BY <1>h, <2>1, <2>3 DEF MovesRight
    <3>3. MovesTaken(m)
      BY <1>h, <2>1, <2>3 DEF MovesTaken
    <3> QED BY <3>1, <3>2, <3>3 DEF MovesWell
  <2>4. CASE \E to \in {"kept", "look"} : Now(m, files[m], to, call[m], told[m])
    <3>1. SenderShape(m)'
      BY <1>h, <2>1, <2>4 DEF SenderShape
    <3>2. MovesRight(m)
      BY <1>h, <2>1, <2>4 DEF MovesRight
    <3>3. MovesTaken(m)
      BY <1>h, <2>1, <2>4 DEF MovesTaken
    <3> QED BY <3>1, <3>2, <3>3 DEF MovesWell
  <2>5. CASE Now(m, files[m], "ending", call[m], "unclaimable")
    <3>1. SenderShape(m)'
      BY <1>h, <2>1, <2>5 DEF SenderShape
    <3>2. MovesRight(m)
      BY <1>h, <2>1, <2>5 DEF MovesRight
    <3>3. MovesTaken(m)
      BY <1>h, <2>1, <2>5 DEF MovesTaken
    <3> QED BY <3>1, <3>2, <3>3 DEF MovesWell
  <2>6. CASE Now(m, files[m], "ready", "none", told[m])
    <3>1. SenderShape(m)'
      BY <1>h, <2>1, <2>6 DEF SenderShape
    <3>2. MovesRight(m)
      BY <1>h, <2>1, <2>6 DEF MovesRight
    <3>3. MovesTaken(m)
      BY <1>h, <2>1, <2>6 DEF MovesTaken
    <3> QED BY <3>1, <3>2, <3>3 DEF MovesWell
  <2> QED BY <2>2, <2>3, <2>4, <2>5, <2>6
<1>15. CASE AnsweredYet(m)
  <2>1. at[m] = "answered?"
    BY <1>15 DEF AnsweredYet
  <2>2. \/ Now(m, files[m], "give back", call[m], told[m])
        \/ answer[m] = Nothing /\ Now(m, files[m], "unadmitted?", call[m], told[m])
        \/ answer[m] = Nothing /\ \E w \in GaveUp : Now(m, files[m], "ending", call[m], w)
    BY <1>t, <1>0, <1>15 DEF AnsweredYet, Withdrawn
  <2> QED BY <1>h, <2>1, <2>2 DEF MovesWell, MovesRight, MovesTaken, SenderShape
<1>16. CASE UnadmittedYet(m)
  <2>1. at[m] = "unadmitted?"
    BY <1>16 DEF UnadmittedYet
  <2>2. \/ Now(m, files[m], "give back", call[m], told[m])
        \/ \E w \in GaveUp : Now(m, files[m], "ending", call[m], w)
    BY <1>t, <1>0, <1>16 DEF UnadmittedYet, Withdrawn
  <2> QED BY <1>h, <2>1, <2>2 DEF MovesWell, MovesRight, MovesTaken, SenderShape
<1>17. CASE GiveBack(m)
  <2>1. at[m] = "give back"
    BY <1>17 DEF GiveBack
  <2>2. \/ \E to \in {"kept", "look"} : Now(m, files[m] \ {"claimed"}, to, call[m], told[m])
        \/ Now(m, files[m] \ {"claimed"}, "ready", "none", told[m])
    BY <1>t, <1>0, <1>17 DEF GiveBack, Kept, Undecided
  <2> QED BY <1>h, <2>1, <2>2 DEF MovesWell, MovesRight, MovesTaken, SenderShape
<1>18. CASE KeptAdmitted(m)
  <2>1. at[m] = "kept"
    BY <1>18 DEF KeptAdmitted
  <2>2. \/ Now(m, files[m], "ready", "none", told[m])
        \/ Now(m, files[m], "unsettled?", call[m], told[m])
    BY <1>t, <1>18 DEF KeptAdmitted
  <2> QED BY <1>h, <2>1, <2>2 DEF MovesWell, MovesRight, MovesTaken, SenderShape
<1>19. CASE Unsettled(m)
  <2>1. at[m] = "unsettled?"
    BY <1>19 DEF Unsettled
  <2>2. \E w \in Bodies \cup {"unsettled"} : Now(m, files[m], "ending", call[m], w)
    BY <1>t, <1>19 DEF Unsettled
  <2> QED BY <1>h, <2>1, <2>2 DEF MovesWell, MovesRight, MovesTaken, SenderShape
<1>20. CASE ExpiredYet(m)
  <2>1. at[m] = "expired?"
    BY <1>20 DEF ExpiredYet
  <2>2. \/ Has(m, "expired") /\ Now(m, files[m] \ Clutter, "ending", call[m], "expired")
        \/ Now(m, files[m], "held?", call[m], told[m])
    BY <1>t, <1>20 DEF ExpiredYet
  <2> QED BY <1>h, <2>1, <2>2 DEF MovesWell, MovesRight, MovesTaken, SenderShape
<1>21. CASE Publish(m)
  <2>1. at[m] = "publish"
    BY <1>21 DEF Publish
  <2>2. \/ \E to \in {"claim", "look"} : Now(m, files[m], to, call[m], told[m])
        \/ \E to \in {"claim", "look"} : Now(m, files[m] \cup {"deadline"}, to, call[m], told[m])
    BY <1>t, <1>21 DEF Publish
  <2>3. CASE \E to \in {"claim", "look"} : Now(m, files[m], to, call[m], told[m])
    <3>1. SenderShape(m)'
      BY <1>h, <2>1, <2>3 DEF SenderShape
    <3>2. MovesRight(m)
      BY <1>h, <2>1, <2>3 DEF MovesRight
    <3>3. MovesTaken(m)
      BY <1>h, <2>1, <2>3 DEF MovesTaken
    <3> QED BY <3>1, <3>2, <3>3 DEF MovesWell
  <2>4. CASE \E to \in {"claim", "look"} : Now(m, files[m] \cup {"deadline"}, to, call[m], told[m])
    <3>1. SenderShape(m)'
      BY <1>h, <2>1, <2>4 DEF SenderShape
    <3>2. MovesRight(m)
      BY <1>h, <2>1, <2>4 DEF MovesRight
    <3>3. MovesTaken(m)
      BY <1>h, <2>1, <2>4 DEF MovesTaken
    <3> QED BY <3>1, <3>2, <3>3 DEF MovesWell
  <2> QED BY <2>2, <2>3, <2>4
<1>22. CASE End(m)
  <2>1. at[m] = "ending"
    BY <1>22 DEF End
  <2>2. Now(m, files[m] \ {"taken"}, "over", call[m], told[m])
    BY <1>t, <1>22 DEF End
  <2> QED BY <1>h, <2>1, <2>2 DEF MovesWell, MovesRight, MovesTaken, SenderShape
<1>23. CASE WaitPasses(m)
  <2>1. Now(m, files[m], at[m], call[m], told[m])
    BY <1>t, <1>23 DEF WaitPasses
  <2> QED BY <1>h, <2>1 DEF MovesWell, MovesRight, MovesTaken, SenderShape
<1>24. CASE DeadlinePasses(m)
  <2>1. Now(m, files[m], at[m], call[m], told[m])
    BY <1>t, <1>24 DEF DeadlinePasses
  <2> QED BY <1>h, <2>1 DEF MovesWell, MovesRight, MovesTaken, SenderShape
<1>25. CASE Wait(m)
  <2>1. at[m] = "ready"
    BY <1>25 DEF Wait
  <2>2. Now(m, files[m], "look", "wait", told[m])
    BY <1>t, <1>25 DEF Wait
  <2> QED BY <1>h, <2>1, <2>2 DEF MovesWell, MovesRight, MovesTaken, SenderShape
<1>26. CASE WaitUntil(m)
  <2>1. at[m] = "ready"
    BY <1>26 DEF WaitUntil
  <2>2. Now(m, files[m], "look", "until", told[m])
    BY <1>t, <1>26 DEF WaitUntil
  <2> QED BY <1>h, <2>1, <2>2 DEF MovesWell, MovesRight, MovesTaken, SenderShape
<1>27. CASE Withdraw(m)
  <2>1. at[m] = "ready"
    BY <1>27 DEF Withdraw
  <2>2. Now(m, files[m], "claim", "withdraw", told[m])
    BY <1>t, <1>27 DEF Withdraw
  <2> QED BY <1>h, <2>1, <2>2 DEF MovesWell, MovesRight, MovesTaken, SenderShape
<1>28. CASE DropOffer(m)
  <2>1. at[m] = "ready"
    BY <1>28 DEF DropOffer
  <2>2. Now(m, files[m], "ending", call[m], "unheard")
    BY <1>t, <1>28 DEF DropOffer
  <2> QED BY <1>h, <2>1, <2>2 DEF MovesWell, MovesRight, MovesTaken, SenderShape
<1>29. CASE Dies(m)
  <2>1. at[m] \notin {"start", "ending", "over"}
    BY <1>29 DEF Dies
  <2>2. Now(m, files[m], "over", call[m], "unheard")
    BY <1>t, <1>29 DEF Dies
  <2> QED BY <1>h, <2>1, <2>2 DEF MovesWell, MovesRight, MovesTaken, SenderShape
<1> QED BY <1>1, <1>2, <1>3, <1>4, <1>5, <1>6, <1>7, <1>8, <1>9, <1>10, <1>11, <1>12, <1>13,
      <1>14, <1>15, <1>16, <1>17, <1>18, <1>19, <1>20, <1>21, <1>22, <1>23, <1>24, <1>25, <1>26,
      <1>27, <1>28, <1>29 DEF Sends, Proceeds, TimePasses, Asks

\* A sender keeps the types of what it may change, and changes nothing else.
NotSenders ==
  UNCHANGED <<closedFile, advertised, clock, phase, binds, closed, closing, sweep, courier,
              listed, queue, owed, replies, hand, held, inside, settling, had, given>>

FilesTyped ==
  files \in [Messages -> SUBSET Suffixes] /\ answer \in [Messages -> Bodies \cup {Nothing}]
LossTyped == excused \subseteq Messages /\ faults \in 0..Faults

LEMMA SendersKeepTypes ==
  ASSUME TypeOK, NEW m \in Messages, SenderShape(m), Sends(m)
  PROVE  TypeOK'
<1> DEFINE Keeps == NotSenders /\ FilesTyped' /\ SendersTyped' /\ LossTyped'
<1>0. at[m] \in {"claim", "give back", "answered?", "unadmitted?"} =>
        call[m] \in {"offer", "until", "withdraw"}
  BY DEF SenderShape, SenderClaims
<1>a. FilesTyped /\ LossTyped /\ Faults \in Nat
  BY SpoolAssumption DEF TypeOK, DirectoryTyped, FilesTyped, LossTyped
<1>b. SendersTyped /\ clock \in Clocks
  BY DEF TypeOK, DirectoryTyped
<1>c. /\ \A f \in Suffixes :
           Create(m, f) \/ Remove(m, f) => files' \in [Messages -> SUBSET Suffixes]
      /\ Discard(m) => files' \in [Messages -> SUBSET Suffixes]
  BY <1>a DEF FilesTyped, Create, Remove, Discard, Becomes
<1>g. \A what : Refused(what) \/ Fine => faults' \in 0..Faults
  BY <1>a DEF LossTyped, Refused, Fine
<1>d. {"offer", "taken", "claimed", "deadline"} \subseteq Suffixes
  BY DEF Suffixes
<1>k. ASSUME call[m] \in {"offer", "until", "withdraw"}, Kept(m) \/ Undecided(m), Waiting
      PROVE  SendersTyped'
  <2>1. \/ \E to \in {"kept", "look"} : Goes(m, to) /\ SameCall /\ UNCHANGED told
        \/ Tell(m, "unclaimable") /\ SameCall
        \/ Admitted(m)
    BY <1>k DEF Kept, Undecided
  <2> USE <1>b, <1>k DEF SendersTyped, Waiting
  <2>2. ASSUME NEW to \in {"kept", "look"}, Goes(m, to), SameCall, UNCHANGED told
        PROVE  SendersTyped'
    BY <2>2 DEF Goes, SameCall
  <2>3. ASSUME Tell(m, "unclaimable"), SameCall PROVE SendersTyped'
    BY <2>3 DEF Tell, Goes, SameCall
  <2>4. ASSUME Admitted(m) PROVE SendersTyped'
    BY <2>4 DEF Admitted, Goes
  <2> HIDE DEF SendersTyped, Waiting
  <2> QED BY <2>1, <2>2, <2>3, <2>4
<1> USE DEF FilesTyped, LossTyped, NotSenders, Bodies, Nothing,
            Looking, Waiting, SameCall, receiver, inbox, serving, closer, world,
            Goes, Steps, Tell, ReadAnswer, Admitted, Calls
<1>1. ASSUME Start(m) PROVE Keeps
  <2>1. NotSenders
    BY <1>1 DEF Start
  <2>2. FilesTyped' /\ LossTyped'
    BY <1>a, <1>g, <1>1 DEF Start
  <2>3. SendersTyped'
    BY <1>b, <1>1 DEF Start, SendersTyped
  <2> QED BY <2>1, <2>2, <2>3
<1>2. ASSUME WriteOffer(m) PROVE Keeps
  <2>1. NotSenders
    BY <1>2 DEF WriteOffer
  <2>2. FilesTyped' /\ LossTyped'
    BY <1>a, <1>g, <1>c, <1>d, <1>2 DEF WriteOffer
  <2>3. SendersTyped'
    BY <1>b, <1>2 DEF WriteOffer, SendersTyped
  <2> QED BY <2>1, <2>2, <2>3
<1>3. ASSUME Look(m) PROVE Keeps
  <2>1. NotSenders
    BY <1>3 DEF Look
  <2>2. FilesTyped' /\ LossTyped'
    BY <1>a, <1>g, <1>3 DEF Look, Further
  <2>3. SendersTyped'
    BY <1>a, <1>b, <1>3 DEF Look, Further, SendersTyped
  <2> QED BY <2>1, <2>2, <2>3
<1>4. ASSUME Seek(m) PROVE Keeps
  <2>1. NotSenders
    BY <1>4 DEF Seek
  <2>2. FilesTyped' /\ LossTyped'
    BY <1>a, <1>g, <1>4 DEF Seek
  <2>3. SendersTyped'
    BY <1>b, <1>4 DEF Seek, SendersTyped
  <2> QED BY <2>1, <2>2, <2>3
<1>5. ASSUME ClosedYet(m) PROVE Keeps
  <2>1. NotSenders
    BY <1>5 DEF ClosedYet
  <2>2. FilesTyped' /\ LossTyped'
    BY <1>a, <1>g, <1>5 DEF ClosedYet
  <2>3. SendersTyped'
    BY <1>b, <1>5 DEF ClosedYet, SendersTyped
  <2> QED BY <2>1, <2>2, <2>3
<1>6. ASSUME Unoffer(m) PROVE Keeps
  <2>1. NotSenders
    BY <1>6 DEF Unoffer
  <2>2. FilesTyped' /\ LossTyped'
    BY <1>a, <1>g, <1>c, <1>d, <1>6 DEF Unoffer
  <2>3. SendersTyped'
    BY <1>b, <1>6 DEF Unoffer, SendersTyped, GaveUp
  <2> QED BY <2>1, <2>2, <2>3
<1>7. ASSUME Whose(m) PROVE Keeps
  <2>1. NotSenders
    BY <1>7 DEF Whose
  <2>2. FilesTyped' /\ LossTyped'
    BY <1>a, <1>g, <1>7 DEF Whose, Advertises, Bound
  <2>3. SendersTyped'
    BY <1>b, <1>7 DEF Whose, Advertises, Bound, SendersTyped
  <2> QED BY <2>1, <2>2, <2>3
<1>8. ASSUME AdmittedYet(m) PROVE Keeps
  <2>1. NotSenders
    BY <1>8 DEF AdmittedYet
  <2>2. FilesTyped' /\ LossTyped'
    BY <1>a, <1>g, <1>8 DEF AdmittedYet
  <2>3. SendersTyped'
    BY <1>b, <1>8 DEF AdmittedYet, SendersTyped
  <2> QED BY <2>1, <2>2, <2>3
<1>9. ASSUME HeldYet(m) PROVE Keeps
  <2>1. NotSenders
    BY <1>9 DEF HeldYet
  <2>2. FilesTyped' /\ LossTyped'
    BY <1>a, <1>g, <1>9 DEF HeldYet
  <2>3. SendersTyped'
    BY <1>b, <1>9 DEF HeldYet, SendersTyped
  <2> QED BY <2>1, <2>2, <2>3
<1>10. ASSUME BoundYet(m) PROVE Keeps
  <2>1. NotSenders
    BY <1>10 DEF BoundYet
  <2>2. FilesTyped' /\ LossTyped'
    BY <1>a, <1>g, <1>10 DEF BoundYet, Meanwhile
  <2>3. SendersTyped'
    BY <1>b, <1>10 DEF BoundYet, Meanwhile, SendersTyped
  <2> QED BY <2>1, <2>2, <2>3
<1>11. ASSUME Ended(m) PROVE Keeps
  <2>1. NotSenders
    BY <1>11 DEF Ended
  <2>2. FilesTyped' /\ LossTyped'
    BY <1>a, <1>g, <1>11 DEF Ended
  <2>3. SendersTyped'
    BY <1>a, <1>b, <1>11 DEF Ended, SendersTyped
  <2> QED BY <2>1, <2>2, <2>3
<1>12. ASSUME Clear(m) PROVE Keeps
  <2>1. NotSenders
    BY <1>12 DEF Clear
  <2>2. FilesTyped' /\ LossTyped'
    BY <1>a, <1>g, <1>c, <1>d, <1>12 DEF Clear
  <2>3. SendersTyped'
    BY <1>b, <1>12 DEF Clear, SendersTyped
  <2> QED BY <2>1, <2>2, <2>3
<1>13. ASSUME Why(m) PROVE Keeps
  <2>1. NotSenders
    BY <1>13 DEF Why
  <2>2. FilesTyped' /\ LossTyped'
    BY <1>a, <1>g, <1>13 DEF Why
  <2>3. SendersTyped'
    BY <1>b, <1>13 DEF Why, SendersTyped
  <2> QED BY <2>1, <2>2, <2>3
<1>14. ASSUME Claim(m) PROVE Keeps
  <2>1. NotSenders
    BY <1>14 DEF Claim
  <2>2. FilesTyped' /\ LossTyped'
    BY <1>a, <1>g, <1>c, <1>d, <1>14 DEF Claim, Kept, Undecided
  <2>3. SendersTyped'
    <3>1. /\ Waiting
          /\ \/ Kept(m) \/ Undecided(m)
             \/ Goes(m, "answered?") /\ SameCall /\ UNCHANGED told
      BY <1>14 DEF Claim
    <3>2. CASE Goes(m, "answered?") /\ SameCall /\ UNCHANGED told
      BY <1>b, <3>1, <3>2 DEF SendersTyped
    <3>3. call[m] \in {"offer", "until", "withdraw"}
      BY <1>0, <1>14 DEF Claim
    <3> QED BY <1>k, <3>1, <3>2, <3>3
  <2> QED BY <2>1, <2>2, <2>3
<1>15. ASSUME AnsweredYet(m) PROVE Keeps
  <2>1. NotSenders
    BY <1>15 DEF AnsweredYet
  <2>2. FilesTyped' /\ LossTyped'
    BY <1>a, <1>g, <1>15 DEF AnsweredYet, Withdrawn
  <2>3. SendersTyped'
    BY <1>0, <1>b, <1>15 DEF AnsweredYet, Withdrawn, SendersTyped, GaveUp
  <2> QED BY <2>1, <2>2, <2>3
<1>16. ASSUME UnadmittedYet(m) PROVE Keeps
  <2>1. NotSenders
    BY <1>16 DEF UnadmittedYet
  <2>2. FilesTyped' /\ LossTyped'
    BY <1>a, <1>g, <1>16 DEF UnadmittedYet, Withdrawn
  <2>3. SendersTyped'
    BY <1>0, <1>b, <1>16 DEF UnadmittedYet, Withdrawn, SendersTyped, GaveUp
  <2> QED BY <2>1, <2>2, <2>3
<1>17. ASSUME GiveBack(m) PROVE Keeps
  <2>1. NotSenders
    BY <1>17 DEF GiveBack
  <2>2. FilesTyped' /\ LossTyped'
    BY <1>a, <1>g, <1>c, <1>d, <1>17 DEF GiveBack, Kept, Undecided
  <2>3. SendersTyped'
    <3>1. Waiting /\ Kept(m) /\ call[m] \in {"offer", "until", "withdraw"}
      BY <1>0, <1>17 DEF GiveBack
    <3> QED BY <1>k, <3>1
  <2> QED BY <2>1, <2>2, <2>3
<1>18. ASSUME KeptAdmitted(m) PROVE Keeps
  <2>1. NotSenders
    BY <1>18 DEF KeptAdmitted
  <2>2. FilesTyped' /\ LossTyped'
    BY <1>a, <1>g, <1>18 DEF KeptAdmitted
  <2>3. SendersTyped'
    BY <1>b, <1>18 DEF KeptAdmitted, SendersTyped
  <2> QED BY <2>1, <2>2, <2>3
<1>19. ASSUME Unsettled(m) PROVE Keeps
  <2>1. NotSenders
    BY <1>19 DEF Unsettled
  <2>2. FilesTyped' /\ LossTyped'
    BY <1>a, <1>g, <1>19 DEF Unsettled
  <2>3. SendersTyped'
    BY <1>a, <1>b, <1>19 DEF Unsettled, SendersTyped
  <2> QED BY <2>1, <2>2, <2>3
<1>20. ASSUME ExpiredYet(m) PROVE Keeps
  <2>1. NotSenders
    BY <1>20 DEF ExpiredYet
  <2>2. FilesTyped' /\ LossTyped'
    BY <1>a, <1>g, <1>c, <1>d, <1>20 DEF ExpiredYet
  <2>3. SendersTyped'
    BY <1>b, <1>20 DEF ExpiredYet, SendersTyped, GaveUp
  <2> QED BY <2>1, <2>2, <2>3
<1>21. ASSUME Publish(m) PROVE Keeps
  <2>1. NotSenders
    BY <1>21 DEF Publish
  <2>2. FilesTyped' /\ LossTyped'
    BY <1>a, <1>g, <1>c, <1>d, <1>21 DEF Publish
  <2>3. SendersTyped'
    BY <1>b, <1>21 DEF Publish, SendersTyped
  <2> QED BY <2>1, <2>2, <2>3
<1>22. ASSUME End(m) PROVE Keeps
  <2>1. NotSenders
    BY <1>22 DEF End
  <2>2. FilesTyped' /\ LossTyped'
    BY <1>a, <1>g, <1>c, <1>d, <1>22 DEF End
  <2>3. SendersTyped'
    BY <1>b, <1>22 DEF End, SendersTyped
  <2> QED BY <2>1, <2>2, <2>3
<1>23. ASSUME WaitPasses(m) PROVE Keeps
  <2>1. NotSenders
    BY <1>23 DEF WaitPasses
  <2>2. FilesTyped' /\ LossTyped'
    BY <1>a, <1>g, <1>23 DEF WaitPasses
  <2>3. SendersTyped'
    BY <1>b, <1>23 DEF WaitPasses, SendersTyped
  <2> QED BY <2>1, <2>2, <2>3
<1>24. ASSUME DeadlinePasses(m) PROVE Keeps
  <2>1. NotSenders
    BY <1>24 DEF DeadlinePasses
  <2>2. FilesTyped' /\ LossTyped'
    BY <1>a, <1>g, <1>24 DEF DeadlinePasses
  <2>3. SendersTyped'
    BY <1>b, <1>24 DEF DeadlinePasses, SendersTyped
  <2> QED BY <2>1, <2>2, <2>3
<1>25. ASSUME Wait(m) PROVE Keeps
  <2>1. NotSenders
    BY <1>25 DEF Wait
  <2>2. FilesTyped' /\ LossTyped'
    BY <1>a, <1>g, <1>25 DEF Wait
  <2>3. SendersTyped'
    BY <1>b, <1>25 DEF Wait, SendersTyped
  <2> QED BY <2>1, <2>2, <2>3
<1>26. ASSUME WaitUntil(m) PROVE Keeps
  <2>1. NotSenders
    BY <1>26 DEF WaitUntil
  <2>2. FilesTyped' /\ LossTyped'
    BY <1>a, <1>g, <1>26 DEF WaitUntil
  <2>3. SendersTyped'
    BY <1>b, <1>26 DEF WaitUntil, SendersTyped
  <2> QED BY <2>1, <2>2, <2>3
<1>27. ASSUME Withdraw(m) PROVE Keeps
  <2>1. NotSenders
    BY <1>27 DEF Withdraw
  <2>2. FilesTyped' /\ LossTyped'
    BY <1>a, <1>g, <1>27 DEF Withdraw
  <2>3. SendersTyped'
    BY <1>b, <1>27 DEF Withdraw, SendersTyped
  <2> QED BY <2>1, <2>2, <2>3
<1>28. ASSUME DropOffer(m) PROVE Keeps
  <2>1. NotSenders
    BY <1>28 DEF DropOffer
  <2>2. FilesTyped' /\ LossTyped'
    BY <1>a, <1>g, <1>28 DEF DropOffer
  <2>3. SendersTyped'
    BY <1>b, <1>28 DEF DropOffer, SendersTyped
  <2> QED BY <2>1, <2>2, <2>3
<1>29. ASSUME Dies(m) PROVE Keeps
  <2>1. NotSenders
    BY <1>29 DEF Dies
  <2>2. FilesTyped' /\ LossTyped'
    BY <1>a, <1>g, <1>29 DEF Dies
  <2>3. SendersTyped'
    BY <1>b, <1>29 DEF Dies, SendersTyped
  <2> QED BY <2>1, <2>2, <2>3
<1>e. Keeps
  BY <1>1, <1>2, <1>3, <1>4, <1>5, <1>6, <1>7, <1>8, <1>9, <1>10, <1>11, <1>12, <1>13, <1>14,
     <1>15, <1>16, <1>17, <1>18, <1>19, <1>20, <1>21, <1>22, <1>23, <1>24, <1>25, <1>26, <1>27,
     <1>28, <1>29 DEF Sends, Proceeds, TimePasses, Asks
<1>f. ReceiverTyped'
  BY <1>e DEF TypeOK, ReceiverTyped
<1> QED BY <1>e, <1>f DEF TypeOK, DirectoryTyped

----------------------------------------------------------------------------
(* What is done under the inbox's lock. *)

LEMMA ReceiveKeeps ==
  ASSUME TypeOK, NEW m \in Messages, Core(m), Receive(m)
  PROVE  /\ Core(m)' /\ (HadIsKept(m) => HadIsKept(m)')
         /\ \A k \in Messages \ {m} : Untouched(k)
<1> DEFINE Keeps == /\ Core(m)' /\ (HadIsKept(m) => HadIsKept(m)')
                    /\ \A k \in Messages \ {m} : Untouched(k)
<1>a. files \in [Messages -> SUBSET Suffixes] /\ DOMAIN settling = Messages /\ faults \in Int
  <2>1. files \in [Messages -> SUBSET Suffixes] /\ DOMAIN settling = Messages
    BY DEF TypeOK, DirectoryTyped, ReceiverTyped
  <2>2. faults \in Int
    <3>1. faults \in 0..Faults /\ Faults \in Nat
      BY SpoolAssumption DEF TypeOK
    <3> QED BY <3>1
  <2> QED BY <2>1, <2>2
<1>u. UNCHANGED <<at, call, told, answer, courier, replies, excused>>
  BY DEF Receive, Take, Pass, Glance, ClaimForReceiver, Expire, Release, LetGo, Answer, Drop,
     Replies,
         Receiving, sender, serving, dir
<1> USE DEF Receiving, Leave, Becomes, Idle, NotSettling, Refused, Fine, Within, InCourier,
      InSettling, Begun, Has
<1>1. ASSUME Take(m) PROVE Keeps
  <2>1. \A k \in Messages \ {m} : Untouched(k)
    BY <1>a, <1>u, <1>1 DEF Take, Enter, Untouched
  <2>2. m \in queue /\ inside = Idle
    BY <1>1 DEF Take, Enter
  <2>3. /\ files'[m] = files[m]
        /\ (m \in queue' <=> m \in queue) /\ (m \in owed' <=> m \in owed)
        /\ (m \in hand' <=> m \in hand)
        /\ (m \in held' <=> m \in held) /\ (m \in had' <=> m \in had)
        /\ settling'[m] = settling[m]
        /\ inside' = [does |-> "claim", m |-> m]
    BY <1>a, <1>1 DEF Take, Enter
  <2>4. Core(m)'
    <3>1. InOnePlace(m)' /\ InsideIsQueued(m)'
      BY <1>u, <2>2, <2>3 DEF Core, InOnePlace, InsideIsQueued, HeldIsClaimed, ExpiredIsOut,
         SenderShape, Early, Clutter
    <3>2. SenderShape(m)' /\ ExpiredIsOut(m)'
      BY <1>u, <2>2, <2>3 DEF Core, SenderShape, ExpiredIsOut, InOnePlace, InsideIsQueued,
         HeldIsClaimed, Early, Clutter
    <3>3. HeldIsClaimed(m)' /\ WithdrawnIsClaimed(m)'
      BY <1>u, <2>2, <2>3 DEF Core, HeldIsClaimed, WithdrawnIsClaimed, InOnePlace, InsideIsQueued,
         ExpiredIsOut, SenderShape, SenderClaims, Clutter
    <3>4. StillTaken(m)' /\ TakenIsSomewhere(m)'
      BY <1>u, <2>2, <2>3 DEF Core, StillTaken, TakenIsSomewhere, InOnePlace, InsideIsQueued,
         HeldIsClaimed, ExpiredIsOut, SenderShape, Early, Over, Clutter
    <3> QED BY <3>1, <3>2, <3>3, <3>4 DEF Core
  <2>5. HadIsKept(m) => HadIsKept(m)'
    BY <1>u, <2>2, <2>3 DEF Core, InOnePlace, HeldIsClaimed, InsideIsQueued, ExpiredIsOut,
       StillTaken, HadIsKept, Clutter, SenderClaims
  <2> QED BY <2>1, <2>4, <2>5
<1>2. ASSUME Pass(m) PROVE Keeps
  <2>1. \A k \in Messages \ {m} : Untouched(k)
    BY <1>a, <1>u, <1>2 DEF Pass, Enter, Untouched
  <2>2. m \in queue /\ inside = Idle
    BY <1>2 DEF Pass, Enter
  <2>3. CASE Due(m)
    <3>1. /\ files'[m] = files[m]
          /\ (m \in queue' <=> m \in queue) /\ (m \in owed' <=> m \in owed)
          /\ (m \in hand' <=> m \in hand)
          /\ (m \in held' <=> m \in held) /\ (m \in had' <=> m \in had)
          /\ settling'[m] = settling[m]
          /\ inside' = [does |-> "claim", m |-> m]
      BY <1>a, <1>2, <2>3 DEF Pass, Enter
    <3>2. Core(m)'
      <4>1. InOnePlace(m)' /\ InsideIsQueued(m)'
        BY <1>u, <2>2, <2>3, <3>1 DEF Core, InOnePlace, InsideIsQueued, HeldIsClaimed,
           ExpiredIsOut, SenderShape, Early, Clutter
      <4>2. SenderShape(m)' /\ ExpiredIsOut(m)'
        BY <1>u, <2>2, <2>3, <3>1 DEF Core, SenderShape, ExpiredIsOut, InOnePlace, InsideIsQueued,
           HeldIsClaimed, Early, Clutter
      <4>3. HeldIsClaimed(m)' /\ WithdrawnIsClaimed(m)'
        BY <1>u, <2>2, <2>3, <3>1 DEF Core, HeldIsClaimed, WithdrawnIsClaimed, InOnePlace,
           InsideIsQueued, ExpiredIsOut, SenderShape, SenderClaims, Clutter
      <4>4. StillTaken(m)' /\ TakenIsSomewhere(m)'
        BY <1>u, <2>2, <2>3, <3>1 DEF Core, StillTaken, TakenIsSomewhere, InOnePlace,
           InsideIsQueued, HeldIsClaimed, ExpiredIsOut, SenderShape, Early, Over, Clutter
      <4> QED BY <4>1, <4>2, <4>3, <4>4 DEF Core
    <3>3. HadIsKept(m) => HadIsKept(m)'
      BY <1>u, <2>2, <2>3, <3>1 DEF Core, InOnePlace, HeldIsClaimed, InsideIsQueued, ExpiredIsOut,
         StillTaken, HadIsKept, Clutter, SenderClaims
    <3> QED BY <2>1, <3>2, <3>3
  <2>4. CASE ~Due(m)
    <3>1. /\ files'[m] = files[m]
          /\ (m \in queue' <=> m \in queue) /\ (m \in owed' <=> m \in owed)
          /\ (m \in hand' <=> m \in hand)
          /\ (m \in held' <=> m \in held) /\ (m \in had' <=> m \in had)
          /\ settling'[m] = settling[m]
          /\ inside' = [does |-> "glance", m |-> m]
      BY <1>a, <1>2, <2>4 DEF Pass, Enter
    <3>2. Core(m)'
      <4>1. InOnePlace(m)' /\ InsideIsQueued(m)'
        BY <1>u, <2>2, <2>4, <3>1 DEF Core, InOnePlace, InsideIsQueued, HeldIsClaimed,
           ExpiredIsOut, SenderShape, Early, Clutter
      <4>2. SenderShape(m)' /\ ExpiredIsOut(m)'
        BY <1>u, <2>2, <2>4, <3>1 DEF Core, SenderShape, ExpiredIsOut, InOnePlace, InsideIsQueued,
           HeldIsClaimed, Early, Clutter
      <4>3. HeldIsClaimed(m)' /\ WithdrawnIsClaimed(m)'
        BY <1>u, <2>2, <2>4, <3>1 DEF Core, HeldIsClaimed, WithdrawnIsClaimed, InOnePlace,
           InsideIsQueued, ExpiredIsOut, SenderShape, SenderClaims, Clutter
      <4>4. StillTaken(m)' /\ TakenIsSomewhere(m)'
        BY <1>u, <2>2, <2>4, <3>1 DEF Core, StillTaken, TakenIsSomewhere, InOnePlace,
           InsideIsQueued, HeldIsClaimed, ExpiredIsOut, SenderShape, Early, Over, Clutter
      <4> QED BY <4>1, <4>2, <4>3, <4>4 DEF Core
    <3>3. HadIsKept(m) => HadIsKept(m)'
      BY <1>u, <2>2, <2>4, <3>1 DEF Core, InOnePlace, HeldIsClaimed, InsideIsQueued, ExpiredIsOut,
         StillTaken, HadIsKept, Clutter, SenderClaims
    <3> QED BY <2>1, <3>2, <3>3
  <2> QED BY <2>3, <2>4
<1>3. ASSUME Glance(m) PROVE Keeps
  <2>1. \A k \in Messages \ {m} : Untouched(k)
    BY <1>a, <1>u, <1>3 DEF Glance, Discard, Untouched
  <2>2. Within("glance", m)
    BY <1>3 DEF Glance, Discard
  <2>3. CASE m \notin held /\ Has(m, "claimed")
    <3>1. /\ files'[m] = files[m] \ Clutter
          /\ m \notin queue' /\ (m \in owed' <=> m \in owed) /\ (m \in hand' <=> m \in hand)
          /\ (m \in held' <=> m \in held) /\ (m \in had' <=> m \in had)
          /\ settling'[m] = settling[m]
          /\ inside' = Idle
      BY <1>a, <1>3, <2>3 DEF Glance, Discard
    <3>2. Core(m)'
      <4>1. InOnePlace(m)' /\ InsideIsQueued(m)'
        BY <1>u, <2>2, <2>3, <3>1 DEF Core, InOnePlace, InsideIsQueued, HeldIsClaimed,
           ExpiredIsOut, SenderShape, Early, Clutter
      <4>2. SenderShape(m)' /\ ExpiredIsOut(m)'
        BY <1>u, <2>2, <2>3, <3>1 DEF Core, SenderShape, ExpiredIsOut, InOnePlace, InsideIsQueued,
           HeldIsClaimed, Early, Clutter
      <4>3. HeldIsClaimed(m)' /\ WithdrawnIsClaimed(m)'
        BY <1>u, <2>2, <2>3, <3>1 DEF Core, HeldIsClaimed, WithdrawnIsClaimed, InOnePlace,
           InsideIsQueued, ExpiredIsOut, SenderShape, SenderClaims, Clutter
      <4>4. StillTaken(m)' /\ TakenIsSomewhere(m)'
        BY <1>u, <2>2, <2>3, <3>1 DEF Core, StillTaken, TakenIsSomewhere, InOnePlace,
           InsideIsQueued, HeldIsClaimed, ExpiredIsOut, SenderShape, Early, Over, Clutter
      <4> QED BY <4>1, <4>2, <4>3, <4>4 DEF Core
    <3>3. HadIsKept(m) => HadIsKept(m)'
      BY <1>u, <2>2, <2>3, <3>1 DEF Core, InOnePlace, HeldIsClaimed, InsideIsQueued, ExpiredIsOut,
         StillTaken, HadIsKept, Clutter, SenderClaims
    <3> QED BY <2>1, <3>2, <3>3
  <2>4. CASE ~(m \notin held /\ Has(m, "claimed"))
    <3>1. /\ files'[m] = files[m]
          /\ (m \in queue' <=> m \in queue) /\ (m \in owed' <=> m \in owed)
          /\ (m \in hand' <=> m \in hand)
          /\ (m \in held' <=> m \in held) /\ (m \in had' <=> m \in had)
          /\ settling'[m] = settling[m]
          /\ inside' = Idle
      BY <1>a, <1>3, <2>4 DEF Glance, Discard
    <3>2. Core(m)'
      <4>1. InOnePlace(m)' /\ InsideIsQueued(m)'
        BY <1>u, <2>2, <2>4, <3>1 DEF Core, InOnePlace, InsideIsQueued, HeldIsClaimed,
           ExpiredIsOut, SenderShape, Early, Clutter
      <4>2. SenderShape(m)' /\ ExpiredIsOut(m)'
        BY <1>u, <2>2, <2>4, <3>1 DEF Core, SenderShape, ExpiredIsOut, InOnePlace, InsideIsQueued,
           HeldIsClaimed, Early, Clutter
      <4>3. HeldIsClaimed(m)' /\ WithdrawnIsClaimed(m)'
        BY <1>u, <2>2, <2>4, <3>1 DEF Core, HeldIsClaimed, WithdrawnIsClaimed, InOnePlace,
           InsideIsQueued, ExpiredIsOut, SenderShape, SenderClaims, Clutter
      <4>4. StillTaken(m)' /\ TakenIsSomewhere(m)'
        BY <1>u, <2>2, <2>4, <3>1 DEF Core, StillTaken, TakenIsSomewhere, InOnePlace,
           InsideIsQueued, HeldIsClaimed, ExpiredIsOut, SenderShape, Early, Over, Clutter
      <4> QED BY <4>1, <4>2, <4>3, <4>4 DEF Core
    <3>3. HadIsKept(m) => HadIsKept(m)'
      BY <1>u, <2>2, <2>4, <3>1 DEF Core, InOnePlace, HeldIsClaimed, InsideIsQueued, ExpiredIsOut,
         StillTaken, HadIsKept, Clutter, SenderClaims
    <3> QED BY <2>1, <3>2, <3>3
  <2> QED BY <2>3, <2>4
<1>4. ASSUME ClaimForReceiver(m) PROVE Keeps
  <2>2. Within("claim", m)
    BY <1>4 DEF ClaimForReceiver, Discard, Create
  <2>3. CASE m \in held
    <3>1. /\ files'[m] = files[m]
          /\ (m \in queue' <=> m \in queue) /\ (m \in owed' <=> m \in owed)
          /\ (m \in hand' <=> m \in hand)
          /\ (m \in held' <=> m \in held) /\ (m \in had' <=> m \in had)
          /\ settling'[m] = settling[m]
          /\ inside' = [does |-> "expire", m |-> m]
      BY <1>a, <1>4, <2>3 DEF ClaimForReceiver, Discard, Create
    <3>2. Core(m)'
      <4>1. InOnePlace(m)' /\ InsideIsQueued(m)'
        BY <1>u, <2>2, <2>3, <3>1 DEF Core, InOnePlace, InsideIsQueued, HeldIsClaimed,
           ExpiredIsOut, SenderShape, Early, Clutter
      <4>2. SenderShape(m)' /\ ExpiredIsOut(m)'
        BY <1>u, <2>2, <2>3, <3>1 DEF Core, SenderShape, ExpiredIsOut, InOnePlace, InsideIsQueued,
           HeldIsClaimed, Early, Clutter
      <4>3. HeldIsClaimed(m)' /\ WithdrawnIsClaimed(m)'
        BY <1>u, <2>2, <2>3, <3>1 DEF Core, HeldIsClaimed, WithdrawnIsClaimed, InOnePlace,
           InsideIsQueued, ExpiredIsOut, SenderShape, SenderClaims, Clutter
      <4>4. StillTaken(m)' /\ TakenIsSomewhere(m)'
        BY <1>u, <2>2, <2>3, <3>1 DEF Core, StillTaken, TakenIsSomewhere, InOnePlace,
           InsideIsQueued, HeldIsClaimed, ExpiredIsOut, SenderShape, Early, Over, Clutter
      <4> QED BY <4>1, <4>2, <4>3, <4>4 DEF Core
    <3>3. HadIsKept(m) => HadIsKept(m)'
      BY <1>u, <2>2, <2>3, <3>1 DEF Core, InOnePlace, HeldIsClaimed, InsideIsQueued, ExpiredIsOut,
         StillTaken, HadIsKept, Clutter, SenderClaims
    <3>4. ASSUME NEW k \in Messages, k # m PROVE Untouched(k)
      <4>1. /\ files'[k] = files[k] /\ settling'[k] = settling[k]
            /\ (k \in queue' <=> k \in queue) /\ (k \in owed' <=> k \in owed)
            /\ (k \in held' <=> k \in held)
            /\ (k \in hand' => k \in hand) /\ (k \in had' => k \in had)
        BY <1>a, <1>4, <2>3, <3>4 DEF ClaimForReceiver, Discard, Create
      <4> QED BY <1>u, <2>2, <3>1, <3>4, <4>1 DEF Untouched
    <3> QED BY <3>2, <3>3, <3>4
  <2>4. CASE m \notin held /\ ~Has(m, "claimed") /\ Fine
    <3>1. /\ files'[m] = files[m] \cup {"claimed"}
          /\ (m \in queue' <=> m \in queue) /\ (m \in owed' <=> m \in owed)
          /\ (m \in hand' <=> m \in hand)
          /\ m \in held' /\ (m \in had' <=> m \in had)
          /\ settling'[m] = settling[m]
          /\ inside' = [does |-> "expire", m |-> m]
      BY <1>a, <1>4, <2>4 DEF ClaimForReceiver, Discard, Create
    <3>2. Core(m)'
      <4>1. InOnePlace(m)' /\ InsideIsQueued(m)'
        BY <1>u, <2>2, <2>4, <3>1 DEF Core, InOnePlace, InsideIsQueued, HeldIsClaimed,
           ExpiredIsOut, SenderShape, Early, Clutter
      <4>2. SenderShape(m)' /\ ExpiredIsOut(m)'
        BY <1>u, <2>2, <2>4, <3>1 DEF Core, SenderShape, ExpiredIsOut, InOnePlace, InsideIsQueued,
           HeldIsClaimed, Early, Clutter
      <4>3. HeldIsClaimed(m)' /\ WithdrawnIsClaimed(m)'
        BY <1>u, <2>2, <2>4, <3>1 DEF Core, HeldIsClaimed, WithdrawnIsClaimed, InOnePlace,
           InsideIsQueued, ExpiredIsOut, SenderShape, SenderClaims, Clutter
      <4>4. StillTaken(m)' /\ TakenIsSomewhere(m)'
        BY <1>u, <2>2, <2>4, <3>1 DEF Core, StillTaken, TakenIsSomewhere, InOnePlace,
           InsideIsQueued, HeldIsClaimed, ExpiredIsOut, SenderShape, Early, Over, Clutter
      <4> QED BY <4>1, <4>2, <4>3, <4>4 DEF Core
    <3>3. HadIsKept(m) => HadIsKept(m)'
      BY <1>u, <2>2, <2>4, <3>1 DEF Core, InOnePlace, HeldIsClaimed, InsideIsQueued, ExpiredIsOut,
         StillTaken, HadIsKept, Clutter, SenderClaims
    <3>4. ASSUME NEW k \in Messages, k # m PROVE Untouched(k)
      <4>1. /\ files'[k] = files[k] /\ settling'[k] = settling[k]
            /\ (k \in queue' <=> k \in queue) /\ (k \in owed' <=> k \in owed)
            /\ (k \in held' <=> k \in held)
            /\ (k \in hand' => k \in hand) /\ (k \in had' => k \in had)
        BY <1>a, <1>4, <2>4, <3>4 DEF ClaimForReceiver, Discard, Create
      <4> QED BY <1>u, <2>2, <3>1, <3>4, <4>1 DEF Untouched
    <3> QED BY <3>2, <3>3, <3>4
  <2>5. CASE m \notin held /\ Has(m, "claimed")
    <3>1. /\ files'[m] = files[m] \ Clutter
          /\ m \notin queue' /\ (m \in owed' <=> m \in owed) /\ (m \in hand' <=> m \in hand)
          /\ (m \in held' <=> m \in held) /\ (m \in had' <=> m \in had)
          /\ settling'[m] = settling[m]
          /\ inside' = Idle
      BY <1>a, <1>4, <2>5 DEF ClaimForReceiver, Discard, Create
    <3>2. Core(m)'
      <4>1. InOnePlace(m)' /\ InsideIsQueued(m)'
        BY <1>u, <2>2, <2>5, <3>1 DEF Core, InOnePlace, InsideIsQueued, HeldIsClaimed,
           ExpiredIsOut, SenderShape, Early, Clutter
      <4>2. SenderShape(m)' /\ ExpiredIsOut(m)'
        BY <1>u, <2>2, <2>5, <3>1 DEF Core, SenderShape, ExpiredIsOut, InOnePlace, InsideIsQueued,
           HeldIsClaimed, Early, Clutter
      <4>3. HeldIsClaimed(m)' /\ WithdrawnIsClaimed(m)'
        BY <1>u, <2>2, <2>5, <3>1 DEF Core, HeldIsClaimed, WithdrawnIsClaimed, InOnePlace,
           InsideIsQueued, ExpiredIsOut, SenderShape, SenderClaims, Clutter
      <4>4. StillTaken(m)' /\ TakenIsSomewhere(m)'
        BY <1>u, <2>2, <2>5, <3>1 DEF Core, StillTaken, TakenIsSomewhere, InOnePlace,
           InsideIsQueued, HeldIsClaimed, ExpiredIsOut, SenderShape, Early, Over, Clutter
      <4> QED BY <4>1, <4>2, <4>3, <4>4 DEF Core
    <3>3. HadIsKept(m) => HadIsKept(m)'
      BY <1>u, <2>2, <2>5, <3>1 DEF Core, InOnePlace, HeldIsClaimed, InsideIsQueued, ExpiredIsOut,
         StillTaken, HadIsKept, Clutter, SenderClaims
    <3>4. ASSUME NEW k \in Messages, k # m PROVE Untouched(k)
      <4>1. /\ files'[k] = files[k] /\ settling'[k] = settling[k]
            /\ (k \in queue' <=> k \in queue) /\ (k \in owed' <=> k \in owed)
            /\ (k \in held' <=> k \in held)
            /\ (k \in hand' => k \in hand) /\ (k \in had' => k \in had)
        BY <1>a, <1>4, <2>5, <3>4 DEF ClaimForReceiver, Discard, Create
      <4> QED BY <1>u, <2>2, <3>1, <3>4, <4>1 DEF Untouched
    <3> QED BY <3>2, <3>3, <3>4
  <2>6. CASE m \notin held /\ ~Has(m, "claimed") /\ ~Fine
    <3>1. /\ files'[m] = files[m]
          /\ (m \in queue' <=> m \in queue) /\ (m \in owed' <=> m \in owed)
          /\ (m \in hand' <=> m \in hand)
          /\ (m \in held' <=> m \in held) /\ (m \in had' <=> m \in had)
          /\ settling'[m] = settling[m]
          /\ inside' = Idle
      BY <1>a, <1>4, <2>6 DEF ClaimForReceiver, Discard, Create
    <3>2. Core(m)'
      <4>1. InOnePlace(m)' /\ InsideIsQueued(m)'
        BY <1>u, <2>2, <2>6, <3>1 DEF Core, InOnePlace, InsideIsQueued, HeldIsClaimed,
           ExpiredIsOut, SenderShape, Early, Clutter
      <4>2. SenderShape(m)' /\ ExpiredIsOut(m)'
        BY <1>u, <2>2, <2>6, <3>1 DEF Core, SenderShape, ExpiredIsOut, InOnePlace, InsideIsQueued,
           HeldIsClaimed, Early, Clutter
      <4>3. HeldIsClaimed(m)' /\ WithdrawnIsClaimed(m)'
        BY <1>u, <2>2, <2>6, <3>1 DEF Core, HeldIsClaimed, WithdrawnIsClaimed, InOnePlace,
           InsideIsQueued, ExpiredIsOut, SenderShape, SenderClaims, Clutter
      <4>4. StillTaken(m)' /\ TakenIsSomewhere(m)'
        BY <1>u, <2>2, <2>6, <3>1 DEF Core, StillTaken, TakenIsSomewhere, InOnePlace,
           InsideIsQueued, HeldIsClaimed, ExpiredIsOut, SenderShape, Early, Over, Clutter
      <4> QED BY <4>1, <4>2, <4>3, <4>4 DEF Core
    <3>3. HadIsKept(m) => HadIsKept(m)'
      BY <1>u, <2>2, <2>6, <3>1 DEF Core, InOnePlace, HeldIsClaimed, InsideIsQueued, ExpiredIsOut,
         StillTaken, HadIsKept, Clutter, SenderClaims
    <3>4. ASSUME NEW k \in Messages, k # m PROVE Untouched(k)
      <4>1. /\ files'[k] = files[k] /\ settling'[k] = settling[k]
            /\ (k \in queue' <=> k \in queue) /\ (k \in owed' <=> k \in owed)
            /\ (k \in held' <=> k \in held)
            /\ (k \in hand' => k \in hand) /\ (k \in had' => k \in had)
        BY <1>a, <1>4, <2>6, <3>4 DEF ClaimForReceiver, Discard, Create
      <4> QED BY <1>u, <2>2, <3>1, <3>4, <4>1 DEF Untouched
    <3> QED BY <3>2, <3>3, <3>4
  <2> QED BY <2>3, <2>4, <2>5, <2>6
<1>5. ASSUME Expire(m) PROVE Keeps
  <2>1. \A k \in Messages \ {m} : Untouched(k)
    BY <1>a, <1>u, <1>5 DEF Expire, Create, Untouched
  <2>2. Within("expire", m)
    BY <1>5 DEF Expire, Create
  <2>3. CASE ~Due(m)
    <3>1. /\ files'[m] = files[m]
          /\ m \notin queue' /\ m \in owed' /\ m \in hand'
          /\ (m \in held' <=> m \in held) /\ m \in had'
          /\ settling'[m] = settling[m]
          /\ inside' = Idle
      BY <1>a, <1>5, <2>3 DEF Expire, Create
    <3>2. Core(m)'
      <4>1. InOnePlace(m)' /\ InsideIsQueued(m)'
        BY <1>u, <2>2, <2>3, <3>1 DEF Core, InOnePlace, InsideIsQueued, HeldIsClaimed,
           ExpiredIsOut, SenderShape, Early, Clutter
      <4>2. SenderShape(m)' /\ ExpiredIsOut(m)'
        BY <1>u, <2>2, <2>3, <3>1 DEF Core, SenderShape, ExpiredIsOut, InOnePlace, InsideIsQueued,
           HeldIsClaimed, Early, Clutter
      <4>3. HeldIsClaimed(m)' /\ WithdrawnIsClaimed(m)'
        BY <1>u, <2>2, <2>3, <3>1 DEF Core, HeldIsClaimed, WithdrawnIsClaimed, InOnePlace,
           InsideIsQueued, ExpiredIsOut, SenderShape, SenderClaims, Clutter
      <4>4. StillTaken(m)' /\ TakenIsSomewhere(m)'
        BY <1>u, <2>2, <2>3, <3>1 DEF Core, StillTaken, TakenIsSomewhere, InOnePlace,
           InsideIsQueued, HeldIsClaimed, ExpiredIsOut, SenderShape, Early, Over, Clutter
      <4> QED BY <4>1, <4>2, <4>3, <4>4 DEF Core
    <3>3. HadIsKept(m) => HadIsKept(m)'
      BY <1>u, <2>2, <2>3, <3>1 DEF Core, InOnePlace, HeldIsClaimed, InsideIsQueued, ExpiredIsOut,
         StillTaken, HadIsKept, Clutter, SenderClaims
    <3> QED BY <2>1, <3>2, <3>3
  <2>4. CASE Due(m) /\ Fine
    <3>1. /\ files'[m] = files[m] \cup {"expired"}
          /\ m \notin queue' /\ (m \in owed' <=> m \in owed) /\ (m \in hand' <=> m \in hand)
          /\ m \notin held' /\ (m \in had' <=> m \in had)
          /\ settling'[m] = settling[m]
          /\ inside' = Idle
      BY <1>a, <1>5, <2>4 DEF Expire, Create
    <3>2. Core(m)'
      <4>1. InOnePlace(m)' /\ InsideIsQueued(m)'
        BY <1>u, <2>2, <2>4, <3>1 DEF Core, InOnePlace, InsideIsQueued, HeldIsClaimed,
           ExpiredIsOut, SenderShape, Early, Clutter
      <4>2. SenderShape(m)' /\ ExpiredIsOut(m)'
        BY <1>u, <2>2, <2>4, <3>1 DEF Core, SenderShape, ExpiredIsOut, InOnePlace, InsideIsQueued,
           HeldIsClaimed, Early, Clutter
      <4>3. HeldIsClaimed(m)' /\ WithdrawnIsClaimed(m)'
        BY <1>u, <2>2, <2>4, <3>1 DEF Core, HeldIsClaimed, WithdrawnIsClaimed, InOnePlace,
           InsideIsQueued, ExpiredIsOut, SenderShape, SenderClaims, Clutter
      <4>4. StillTaken(m)' /\ TakenIsSomewhere(m)'
        BY <1>u, <2>2, <2>4, <3>1 DEF Core, StillTaken, TakenIsSomewhere, InOnePlace,
           InsideIsQueued, HeldIsClaimed, ExpiredIsOut, SenderShape, Early, Over, Clutter
      <4> QED BY <4>1, <4>2, <4>3, <4>4 DEF Core
    <3>3. HadIsKept(m) => HadIsKept(m)'
      BY <1>u, <2>2, <2>4, <3>1 DEF Core, InOnePlace, HeldIsClaimed, InsideIsQueued, ExpiredIsOut,
         StillTaken, HadIsKept, Clutter, SenderClaims
    <3> QED BY <2>1, <3>2, <3>3
  <2>5. CASE Due(m) /\ ~Fine
    <3>1. /\ files'[m] = files[m]
          /\ (m \in queue' <=> m \in queue) /\ (m \in owed' <=> m \in owed)
          /\ (m \in hand' <=> m \in hand)
          /\ (m \in held' <=> m \in held) /\ (m \in had' <=> m \in had)
          /\ settling'[m] = settling[m]
          /\ inside' = Idle
      BY <1>a, <1>5, <2>5 DEF Expire, Create
    <3>2. Core(m)'
      <4>1. InOnePlace(m)' /\ InsideIsQueued(m)'
        BY <1>u, <2>2, <2>5, <3>1 DEF Core, InOnePlace, InsideIsQueued, HeldIsClaimed,
           ExpiredIsOut, SenderShape, Early, Clutter
      <4>2. SenderShape(m)' /\ ExpiredIsOut(m)'
        BY <1>u, <2>2, <2>5, <3>1 DEF Core, SenderShape, ExpiredIsOut, InOnePlace, InsideIsQueued,
           HeldIsClaimed, Early, Clutter
      <4>3. HeldIsClaimed(m)' /\ WithdrawnIsClaimed(m)'
        BY <1>u, <2>2, <2>5, <3>1 DEF Core, HeldIsClaimed, WithdrawnIsClaimed, InOnePlace,
           InsideIsQueued, ExpiredIsOut, SenderShape, SenderClaims, Clutter
      <4>4. StillTaken(m)' /\ TakenIsSomewhere(m)'
        BY <1>u, <2>2, <2>5, <3>1 DEF Core, StillTaken, TakenIsSomewhere, InOnePlace,
           InsideIsQueued, HeldIsClaimed, ExpiredIsOut, SenderShape, Early, Over, Clutter
      <4> QED BY <4>1, <4>2, <4>3, <4>4 DEF Core
    <3>3. HadIsKept(m) => HadIsKept(m)'
      BY <1>u, <2>2, <2>5, <3>1 DEF Core, InOnePlace, HeldIsClaimed, InsideIsQueued, ExpiredIsOut,
         StillTaken, HadIsKept, Clutter, SenderClaims
    <3> QED BY <2>1, <3>2, <3>3
  <2> QED BY <2>3, <2>4, <2>5
<1>6. ASSUME Release(m) PROVE Keeps
  <2>2. m \in hand /\ inside = Idle
    BY <1>6 DEF Release, HandsOver, Enter, Create
  <2>3. CASE m \notin owed
    <3>1. /\ files'[m] = files[m]
          /\ (m \in queue' <=> m \in queue) /\ m \notin owed' /\ m \notin hand'
          /\ (m \in held' <=> m \in held) /\ (m \in had' <=> m \in had)
          /\ settling'[m] = settling[m]
          /\ inside' = inside
      BY <1>a, <1>6, <2>3 DEF Release, HandsOver, Enter, Create
    <3>2. Core(m)'
      <4>1. InOnePlace(m)' /\ InsideIsQueued(m)'
        BY <1>u, <2>2, <2>3, <3>1 DEF Core, InOnePlace, InsideIsQueued, HeldIsClaimed,
           ExpiredIsOut, SenderShape, Early, Clutter
      <4>2. SenderShape(m)' /\ ExpiredIsOut(m)'
        BY <1>u, <2>2, <2>3, <3>1 DEF Core, SenderShape, ExpiredIsOut, InOnePlace, InsideIsQueued,
           HeldIsClaimed, Early, Clutter
      <4>3. HeldIsClaimed(m)' /\ WithdrawnIsClaimed(m)'
        BY <1>u, <2>2, <2>3, <3>1 DEF Core, HeldIsClaimed, WithdrawnIsClaimed, InOnePlace,
           InsideIsQueued, ExpiredIsOut, SenderShape, SenderClaims, Clutter
      <4>4. StillTaken(m)' /\ TakenIsSomewhere(m)'
        BY <1>u, <2>2, <2>3, <3>1 DEF Core, StillTaken, TakenIsSomewhere, InOnePlace,
           InsideIsQueued, HeldIsClaimed, ExpiredIsOut, SenderShape, Early, Over, Clutter
      <4> QED BY <4>1, <4>2, <4>3, <4>4 DEF Core
    <3>3. HadIsKept(m) => HadIsKept(m)'
      BY <1>u, <2>2, <2>3, <3>1 DEF Core, InOnePlace, HeldIsClaimed, InsideIsQueued, ExpiredIsOut,
         StillTaken, HadIsKept, Clutter, SenderClaims
    <3>4. ASSUME NEW k \in Messages, k # m PROVE Untouched(k)
      <4>1. /\ files'[k] = files[k] /\ settling'[k] = settling[k]
            /\ (k \in queue' <=> k \in queue) /\ (k \in owed' <=> k \in owed)
            /\ (k \in held' <=> k \in held)
            /\ (k \in hand' => k \in hand) /\ (k \in had' => k \in had)
        BY <1>a, <1>6, <2>3, <3>4 DEF Release, HandsOver, Enter, Create
      <4> QED BY <1>u, <2>2, <3>1, <3>4, <4>1 DEF Untouched
    <3> QED BY <3>2, <3>3, <3>4
  <2>4. CASE m \in owed /\ ~Due(m)
    <3>1. /\ files'[m] = files[m]
          /\ (m \in queue' <=> m \in queue) /\ m \notin owed' /\ m \notin hand'
          /\ (m \in held' <=> m \in held) /\ (m \in had' <=> m \in had)
          /\ settling'[m] = settling[m]
          /\ inside' = [does |-> "let go", m |-> m]
      BY <1>a, <1>6, <2>4 DEF Release, HandsOver, Enter, Create
    <3>2. Core(m)'
      <4>1. InOnePlace(m)' /\ InsideIsQueued(m)'
        BY <1>u, <2>2, <2>4, <3>1 DEF Core, InOnePlace, InsideIsQueued, HeldIsClaimed,
           ExpiredIsOut, SenderShape, Early, Clutter
      <4>2. SenderShape(m)' /\ ExpiredIsOut(m)'
        BY <1>u, <2>2, <2>4, <3>1 DEF Core, SenderShape, ExpiredIsOut, InOnePlace, InsideIsQueued,
           HeldIsClaimed, Early, Clutter
      <4>3. HeldIsClaimed(m)' /\ WithdrawnIsClaimed(m)'
        BY <1>u, <2>2, <2>4, <3>1 DEF Core, HeldIsClaimed, WithdrawnIsClaimed, InOnePlace,
           InsideIsQueued, ExpiredIsOut, SenderShape, SenderClaims, Clutter
      <4>4. StillTaken(m)' /\ TakenIsSomewhere(m)'
        BY <1>u, <2>2, <2>4, <3>1 DEF Core, StillTaken, TakenIsSomewhere, InOnePlace,
           InsideIsQueued, HeldIsClaimed, ExpiredIsOut, SenderShape, Early, Over, Clutter
      <4> QED BY <4>1, <4>2, <4>3, <4>4 DEF Core
    <3>3. HadIsKept(m) => HadIsKept(m)'
      BY <1>u, <2>2, <2>4, <3>1 DEF Core, InOnePlace, HeldIsClaimed, InsideIsQueued, ExpiredIsOut,
         StillTaken, HadIsKept, Clutter, SenderClaims
    <3>4. ASSUME NEW k \in Messages, k # m PROVE Untouched(k)
      <4>1. /\ files'[k] = files[k] /\ settling'[k] = settling[k]
            /\ (k \in queue' <=> k \in queue) /\ (k \in owed' <=> k \in owed)
            /\ (k \in held' <=> k \in held)
            /\ (k \in hand' => k \in hand) /\ (k \in had' => k \in had)
        BY <1>a, <1>6, <2>4, <3>4 DEF Release, HandsOver, Enter, Create
      <4> QED BY <1>u, <2>2, <3>1, <3>4, <4>1 DEF Untouched
    <3> QED BY <3>2, <3>3, <3>4
  <2>5. CASE m \in owed /\ Due(m) /\ Fine
    <3>1. /\ files'[m] = files[m] \cup {"expired"}
          /\ (m \in queue' <=> m \in queue) /\ m \notin owed' /\ m \notin hand'
          /\ m \notin held' /\ m \notin had'
          /\ settling'[m] = settling[m]
          /\ inside' = inside
      BY <1>a, <1>6, <2>5 DEF Release, HandsOver, Enter, Create
    <3>2. Core(m)'
      <4>1. InOnePlace(m)' /\ InsideIsQueued(m)'
        BY <1>u, <2>2, <2>5, <3>1 DEF Core, InOnePlace, InsideIsQueued, HeldIsClaimed,
           ExpiredIsOut, SenderShape, Early, Clutter
      <4>2. SenderShape(m)' /\ ExpiredIsOut(m)'
        BY <1>u, <2>2, <2>5, <3>1 DEF Core, SenderShape, ExpiredIsOut, InOnePlace, InsideIsQueued,
           HeldIsClaimed, Early, Clutter
      <4>3. HeldIsClaimed(m)' /\ WithdrawnIsClaimed(m)'
        BY <1>u, <2>2, <2>5, <3>1 DEF Core, HeldIsClaimed, WithdrawnIsClaimed, InOnePlace,
           InsideIsQueued, ExpiredIsOut, SenderShape, SenderClaims, Clutter
      <4>4. StillTaken(m)' /\ TakenIsSomewhere(m)'
        BY <1>u, <2>2, <2>5, <3>1 DEF Core, StillTaken, TakenIsSomewhere, InOnePlace,
           InsideIsQueued, HeldIsClaimed, ExpiredIsOut, SenderShape, Early, Over, Clutter
      <4> QED BY <4>1, <4>2, <4>3, <4>4 DEF Core
    <3>3. HadIsKept(m) => HadIsKept(m)'
      BY <1>u, <2>2, <2>5, <3>1 DEF Core, InOnePlace, HeldIsClaimed, InsideIsQueued, ExpiredIsOut,
         StillTaken, HadIsKept, Clutter, SenderClaims
    <3>4. ASSUME NEW k \in Messages, k # m PROVE Untouched(k)
      <4>1. /\ files'[k] = files[k] /\ settling'[k] = settling[k]
            /\ (k \in queue' <=> k \in queue) /\ (k \in owed' <=> k \in owed)
            /\ (k \in held' <=> k \in held)
            /\ (k \in hand' => k \in hand) /\ (k \in had' => k \in had)
        BY <1>a, <1>6, <2>5, <3>4 DEF Release, HandsOver, Enter, Create
      <4> QED BY <1>u, <2>2, <3>1, <3>4, <4>1 DEF Untouched
    <3> QED BY <3>2, <3>3, <3>4
  <2>6. CASE m \in owed /\ Due(m) /\ ~Fine
    <3>1. /\ files'[m] = files[m]
          /\ m \in queue' /\ m \notin owed' /\ m \notin hand'
          /\ (m \in held' <=> m \in held) /\ m \notin had'
          /\ settling'[m] = settling[m]
          /\ inside' = inside
      BY <1>a, <1>6, <2>6 DEF Release, HandsOver, Enter, Create
    <3>2. Core(m)'
      <4>1. InOnePlace(m)' /\ InsideIsQueued(m)'
        BY <1>u, <2>2, <2>6, <3>1 DEF Core, InOnePlace, InsideIsQueued, HeldIsClaimed,
           ExpiredIsOut, SenderShape, Early, Clutter
      <4>2. SenderShape(m)' /\ ExpiredIsOut(m)'
        BY <1>u, <2>2, <2>6, <3>1 DEF Core, SenderShape, ExpiredIsOut, InOnePlace, InsideIsQueued,
           HeldIsClaimed, Early, Clutter
      <4>3. HeldIsClaimed(m)' /\ WithdrawnIsClaimed(m)'
        BY <1>u, <2>2, <2>6, <3>1 DEF Core, HeldIsClaimed, WithdrawnIsClaimed, InOnePlace,
           InsideIsQueued, ExpiredIsOut, SenderShape, SenderClaims, Clutter
      <4>4. StillTaken(m)' /\ TakenIsSomewhere(m)'
        BY <1>u, <2>2, <2>6, <3>1 DEF Core, StillTaken, TakenIsSomewhere, InOnePlace,
           InsideIsQueued, HeldIsClaimed, ExpiredIsOut, SenderShape, Early, Over, Clutter
      <4> QED BY <4>1, <4>2, <4>3, <4>4 DEF Core
    <3>3. HadIsKept(m) => HadIsKept(m)'
      BY <1>u, <2>2, <2>6, <3>1 DEF Core, InOnePlace, HeldIsClaimed, InsideIsQueued, ExpiredIsOut,
         StillTaken, HadIsKept, Clutter, SenderClaims
    <3>4. ASSUME NEW k \in Messages, k # m PROVE Untouched(k)
      <4>1. /\ files'[k] = files[k] /\ settling'[k] = settling[k]
            /\ (k \in queue' <=> k \in queue) /\ (k \in owed' <=> k \in owed)
            /\ (k \in held' <=> k \in held)
            /\ (k \in hand' => k \in hand) /\ (k \in had' => k \in had)
        BY <1>a, <1>6, <2>6, <3>4 DEF Release, HandsOver, Enter, Create
      <4> QED BY <1>u, <2>2, <3>1, <3>4, <4>1 DEF Untouched
    <3> QED BY <3>2, <3>3, <3>4
  <2> QED BY <2>3, <2>4, <2>5, <2>6
<1>7. ASSUME LetGo(m) PROVE Keeps
  <2>1. \A k \in Messages \ {m} : Untouched(k)
    BY <1>a, <1>u, <1>7 DEF LetGo, Remove, Untouched
  <2>2. Within("let go", m)
    BY <1>7 DEF LetGo, Remove
  <2>3. CASE Fine
    <3>1. /\ files'[m] = files[m] \ {"claimed"}
          /\ m \in queue' /\ (m \in owed' <=> m \in owed) /\ (m \in hand' <=> m \in hand)
          /\ m \notin held' /\ m \notin had'
          /\ settling'[m] = settling[m]
          /\ inside' = Idle
      <4>1. (Fine /\ Remove(m, "claimed") /\ held' = held \ {m}) \/ Refused("release")
        BY <1>7, Zenon DEF LetGo
      <4>2. /\ UNCHANGED <<owed, hand, settling>>
            /\ queue' = queue \cup {m} /\ had' = had \ {m} /\ inside' = Idle
        BY <1>7 DEF LetGo
      <4> QED BY <1>a, <2>3, <4>1, <4>2 DEF Remove
    <3>2. Core(m)'
      <4>1. InOnePlace(m)' /\ InsideIsQueued(m)'
        BY <1>u, <2>2, <2>3, <3>1 DEF Core, InOnePlace, InsideIsQueued, HeldIsClaimed,
           ExpiredIsOut, SenderShape, Early, Clutter
      <4>2. SenderShape(m)' /\ ExpiredIsOut(m)'
        BY <1>u, <2>2, <2>3, <3>1 DEF Core, SenderShape, ExpiredIsOut, InOnePlace, InsideIsQueued,
           HeldIsClaimed, Early, Clutter
      <4>3. HeldIsClaimed(m)' /\ WithdrawnIsClaimed(m)'
        BY <1>u, <2>2, <2>3, <3>1 DEF Core, HeldIsClaimed, WithdrawnIsClaimed, InOnePlace,
           InsideIsQueued, ExpiredIsOut, SenderShape, SenderClaims, Clutter
      <4>4. StillTaken(m)' /\ TakenIsSomewhere(m)'
        BY <1>u, <2>2, <2>3, <3>1 DEF Core, StillTaken, TakenIsSomewhere, InOnePlace,
           InsideIsQueued, HeldIsClaimed, ExpiredIsOut, SenderShape, Early, Over, Clutter
      <4> QED BY <4>1, <4>2, <4>3, <4>4 DEF Core
    <3>3. HadIsKept(m) => HadIsKept(m)'
      BY <1>u, <2>2, <2>3, <3>1 DEF Core, InOnePlace, HeldIsClaimed, InsideIsQueued, ExpiredIsOut,
         StillTaken, HadIsKept, Clutter, SenderClaims
    <3> QED BY <2>1, <3>2, <3>3
  <2>4. CASE ~Fine
    <3>1. /\ files'[m] = files[m]
          /\ m \in queue' /\ (m \in owed' <=> m \in owed) /\ (m \in hand' <=> m \in hand)
          /\ (m \in held' <=> m \in held) /\ m \notin had'
          /\ settling'[m] = settling[m]
          /\ inside' = Idle
      BY <1>a, <1>7, <2>4 DEF LetGo, Remove
    <3>2. Core(m)'
      <4>1. InOnePlace(m)' /\ InsideIsQueued(m)'
        BY <1>u, <2>2, <2>4, <3>1 DEF Core, InOnePlace, InsideIsQueued, HeldIsClaimed,
           ExpiredIsOut, SenderShape, Early, Clutter
      <4>2. SenderShape(m)' /\ ExpiredIsOut(m)'
        BY <1>u, <2>2, <2>4, <3>1 DEF Core, SenderShape, ExpiredIsOut, InOnePlace, InsideIsQueued,
           HeldIsClaimed, Early, Clutter
      <4>3. HeldIsClaimed(m)' /\ WithdrawnIsClaimed(m)'
        BY <1>u, <2>2, <2>4, <3>1 DEF Core, HeldIsClaimed, WithdrawnIsClaimed, InOnePlace,
           InsideIsQueued, ExpiredIsOut, SenderShape, SenderClaims, Clutter
      <4>4. StillTaken(m)' /\ TakenIsSomewhere(m)'
        BY <1>u, <2>2, <2>4, <3>1 DEF Core, StillTaken, TakenIsSomewhere, InOnePlace,
           InsideIsQueued, HeldIsClaimed, ExpiredIsOut, SenderShape, Early, Over, Clutter
      <4> QED BY <4>1, <4>2, <4>3, <4>4 DEF Core
    <3>3. HadIsKept(m) => HadIsKept(m)'
      BY <1>u, <2>2, <2>4, <3>1 DEF Core, InOnePlace, HeldIsClaimed, InsideIsQueued, ExpiredIsOut,
         StillTaken, HadIsKept, Clutter, SenderClaims
    <3> QED BY <2>1, <3>2, <3>3
  <2> QED BY <2>3, <2>4
<1>8. ASSUME Answer(m) PROVE Keeps
  <2>1. \A k \in Messages \ {m} : Untouched(k)
    BY <1>a, <1>u, <1>8 DEF Answer, Replies, HandsOver, Settle, dir, Untouched
  <2>2. m \in hand /\ inside = Idle
    BY <1>8 DEF Answer, Replies, HandsOver, Settle, dir
  <2>3. CASE m \in owed
    <3>1. /\ files'[m] = files[m]
          /\ (m \in queue' <=> m \in queue) /\ m \notin owed' /\ m \notin hand'
          /\ (m \in held' <=> m \in held) /\ (m \in had' <=> m \in had)
          /\ settling'[m].does = "claim"
          /\ inside' = inside
      BY <1>a, <1>8, <2>3 DEF Answer, Replies, HandsOver, Settle, dir
    <3>2. Core(m)'
      <4>1. InOnePlace(m)' /\ InsideIsQueued(m)'
        BY <1>u, <2>2, <2>3, <3>1 DEF Core, InOnePlace, InsideIsQueued, HeldIsClaimed,
           ExpiredIsOut, SenderShape, Early, Clutter
      <4>2. SenderShape(m)' /\ ExpiredIsOut(m)'
        BY <1>u, <2>2, <2>3, <3>1 DEF Core, SenderShape, ExpiredIsOut, InOnePlace, InsideIsQueued,
           HeldIsClaimed, Early, Clutter
      <4>3. HeldIsClaimed(m)' /\ WithdrawnIsClaimed(m)'
        BY <1>u, <2>2, <2>3, <3>1 DEF Core, HeldIsClaimed, WithdrawnIsClaimed, InOnePlace,
           InsideIsQueued, ExpiredIsOut, SenderShape, SenderClaims, Clutter
      <4>4. StillTaken(m)' /\ TakenIsSomewhere(m)'
        BY <1>u, <2>2, <2>3, <3>1 DEF Core, StillTaken, TakenIsSomewhere, InOnePlace,
           InsideIsQueued, HeldIsClaimed, ExpiredIsOut, SenderShape, Early, Over, Clutter
      <4> QED BY <4>1, <4>2, <4>3, <4>4 DEF Core
    <3>3. HadIsKept(m) => HadIsKept(m)'
      BY <1>u, <2>2, <2>3, <3>1 DEF Core, InOnePlace, HeldIsClaimed, InsideIsQueued, ExpiredIsOut,
         StillTaken, HadIsKept, Clutter, SenderClaims
    <3> QED BY <2>1, <3>2, <3>3
  <2>4. CASE m \notin owed
    <3>1. /\ files'[m] = files[m]
          /\ (m \in queue' <=> m \in queue) /\ m \notin owed' /\ m \notin hand'
          /\ (m \in held' <=> m \in held) /\ (m \in had' <=> m \in had)
          /\ settling'[m] = settling[m]
          /\ inside' = inside
      BY <1>a, <1>8, <2>4 DEF Answer, Replies, HandsOver, Settle, dir
    <3>2. Core(m)'
      <4>1. InOnePlace(m)' /\ InsideIsQueued(m)'
        BY <1>u, <2>2, <2>4, <3>1 DEF Core, InOnePlace, InsideIsQueued, HeldIsClaimed,
           ExpiredIsOut, SenderShape, Early, Clutter
      <4>2. SenderShape(m)' /\ ExpiredIsOut(m)'
        BY <1>u, <2>2, <2>4, <3>1 DEF Core, SenderShape, ExpiredIsOut, InOnePlace, InsideIsQueued,
           HeldIsClaimed, Early, Clutter
      <4>3. HeldIsClaimed(m)' /\ WithdrawnIsClaimed(m)'
        BY <1>u, <2>2, <2>4, <3>1 DEF Core, HeldIsClaimed, WithdrawnIsClaimed, InOnePlace,
           InsideIsQueued, ExpiredIsOut, SenderShape, SenderClaims, Clutter
      <4>4. StillTaken(m)' /\ TakenIsSomewhere(m)'
        BY <1>u, <2>2, <2>4, <3>1 DEF Core, StillTaken, TakenIsSomewhere, InOnePlace,
           InsideIsQueued, HeldIsClaimed, ExpiredIsOut, SenderShape, Early, Over, Clutter
      <4> QED BY <4>1, <4>2, <4>3, <4>4 DEF Core
    <3>3. HadIsKept(m) => HadIsKept(m)'
      BY <1>u, <2>2, <2>4, <3>1 DEF Core, InOnePlace, HeldIsClaimed, InsideIsQueued, ExpiredIsOut,
         StillTaken, HadIsKept, Clutter, SenderClaims
    <3> QED BY <2>1, <3>2, <3>3
  <2> QED BY <2>3, <2>4
<1>9. ASSUME Drop(m) PROVE Keeps
  <2>1. \A k \in Messages \ {m} : Untouched(k)
    BY <1>a, <1>u, <1>9 DEF Drop, Replies, HandsOver, Settle, dir, Untouched
  <2>2. m \in hand /\ inside = Idle
    BY <1>9 DEF Drop, Replies, HandsOver, Settle, dir
  <2>3. CASE m \in owed
    <3>1. /\ files'[m] = files[m]
          /\ (m \in queue' <=> m \in queue) /\ m \notin owed' /\ m \notin hand'
          /\ (m \in held' <=> m \in held) /\ (m \in had' <=> m \in had)
          /\ settling'[m].does = "claim"
          /\ inside' = inside
      <4>1. Settle(m, "let go", "receiver") /\ HandsOver(m)
        BY <1>9, <2>3, Zenon DEF Drop, Replies
      <4>2. UNCHANGED <<files, queue, held, had, inside>>
        BY <1>9 DEF Drop, Replies, dir
      <4> QED BY <1>a, <4>1, <4>2 DEF HandsOver, Settle
    <3>2. Core(m)'
      <4>1. InOnePlace(m)' /\ InsideIsQueued(m)'
        BY <1>u, <2>2, <2>3, <3>1 DEF Core, InOnePlace, InsideIsQueued, HeldIsClaimed,
           ExpiredIsOut, SenderShape, Early, Clutter
      <4>2. SenderShape(m)' /\ ExpiredIsOut(m)'
        BY <1>u, <2>2, <2>3, <3>1 DEF Core, SenderShape, ExpiredIsOut, InOnePlace, InsideIsQueued,
           HeldIsClaimed, Early, Clutter
      <4>3. HeldIsClaimed(m)' /\ WithdrawnIsClaimed(m)'
        BY <1>u, <2>2, <2>3, <3>1 DEF Core, HeldIsClaimed, WithdrawnIsClaimed, InOnePlace,
           InsideIsQueued, ExpiredIsOut, SenderShape, SenderClaims, Clutter
      <4>4. StillTaken(m)' /\ TakenIsSomewhere(m)'
        BY <1>u, <2>2, <2>3, <3>1 DEF Core, StillTaken, TakenIsSomewhere, InOnePlace,
           InsideIsQueued, HeldIsClaimed, ExpiredIsOut, SenderShape, Early, Over, Clutter
      <4> QED BY <4>1, <4>2, <4>3, <4>4 DEF Core
    <3>3. HadIsKept(m) => HadIsKept(m)'
      BY <1>u, <2>2, <2>3, <3>1 DEF Core, InOnePlace, HeldIsClaimed, InsideIsQueued, ExpiredIsOut,
         StillTaken, HadIsKept, Clutter, SenderClaims
    <3> QED BY <2>1, <3>2, <3>3
  <2>4. CASE m \notin owed
    <3>1. /\ files'[m] = files[m]
          /\ (m \in queue' <=> m \in queue) /\ m \notin owed' /\ m \notin hand'
          /\ (m \in held' <=> m \in held) /\ (m \in had' <=> m \in had)
          /\ settling'[m] = settling[m]
          /\ inside' = inside
      BY <1>a, <1>9, <2>4 DEF Drop, Replies, HandsOver, Settle, dir
    <3>2. Core(m)'
      <4>1. InOnePlace(m)' /\ InsideIsQueued(m)'
        BY <1>u, <2>2, <2>4, <3>1 DEF Core, InOnePlace, InsideIsQueued, HeldIsClaimed,
           ExpiredIsOut, SenderShape, Early, Clutter
      <4>2. SenderShape(m)' /\ ExpiredIsOut(m)'
        BY <1>u, <2>2, <2>4, <3>1 DEF Core, SenderShape, ExpiredIsOut, InOnePlace, InsideIsQueued,
           HeldIsClaimed, Early, Clutter
      <4>3. HeldIsClaimed(m)' /\ WithdrawnIsClaimed(m)'
        BY <1>u, <2>2, <2>4, <3>1 DEF Core, HeldIsClaimed, WithdrawnIsClaimed, InOnePlace,
           InsideIsQueued, ExpiredIsOut, SenderShape, SenderClaims, Clutter
      <4>4. StillTaken(m)' /\ TakenIsSomewhere(m)'
        BY <1>u, <2>2, <2>4, <3>1 DEF Core, StillTaken, TakenIsSomewhere, InOnePlace,
           InsideIsQueued, HeldIsClaimed, ExpiredIsOut, SenderShape, Early, Over, Clutter
      <4> QED BY <4>1, <4>2, <4>3, <4>4 DEF Core
    <3>3. HadIsKept(m) => HadIsKept(m)'
      BY <1>u, <2>2, <2>4, <3>1 DEF Core, InOnePlace, HeldIsClaimed, InsideIsQueued, ExpiredIsOut,
         StillTaken, HadIsKept, Clutter, SenderClaims
    <3> QED BY <2>1, <3>2, <3>3
  <2> QED BY <2>3, <2>4
<1> QED BY <1>1, <1>2, <1>3, <1>4, <1>5, <1>6, <1>7, <1>8, <1>9 DEF Receive

----------------------------------------------------------------------------
(* What becomes of a message is written for its sender. *)

SettlesOn(m) == SettleClaim(m) \/ SettleLook(m) \/ SettleRemove(m) \/ SettleClear(m)

LEMMA SettleKeeps ==
  ASSUME TypeOK, NEW m \in Messages, Core(m), SettlesOn(m)
  PROVE  /\ Core(m)' /\ (HadIsKept(m) => HadIsKept(m)')
         /\ \A k \in Messages \ {m} : Untouched(k)
<1> DEFINE Keeps == /\ Core(m)' /\ (HadIsKept(m) => HadIsKept(m)')
                    /\ \A k \in Messages \ {m} : Untouched(k)
<1>a. /\ files \in [Messages -> SUBSET Suffixes] /\ answer \in [Messages -> Bodies \cup {Nothing}]
      /\ DOMAIN settling = Messages /\ faults \in Int
  <2>1. /\ files \in [Messages -> SUBSET Suffixes] /\ answer \in [Messages -> Bodies \cup {Nothing}]
        /\ DOMAIN settling = Messages
    BY DEF TypeOK, DirectoryTyped, ReceiverTyped
  <2>2. faults \in 0..Faults /\ Faults \in Nat
    BY SpoolAssumption DEF TypeOK
  <2> QED BY <2>1, <2>2
<1>s. settling[m] \in [does : {"claim", "look", "write", "remove", "clear"}, body : Bodies,
                      by : {"courier", "receiver", "closer"}] \cup {NotSettling}
  BY DEF TypeOK, ReceiverTyped
<1>u. UNCHANGED <<at, call, told, courier, queue, owed, replies, hand, inside, had>>
  BY DEF SettlesOn, SettleClaim, SettleLook, SettleRemove, SettleClear, Writing, Inside, sender,
     serving
<1> USE DEF Writing, Inside, sender, serving, closer, NotSettling, Refused, Fine, Within,
      InCourier, InSettling, Begun, Has
<1>1. ASSUME SettleClaim(m) PROVE Keeps
  <2>1. \A k \in Messages \ {m} : Untouched(k)
    BY <1>a, <1>u, <1>1 DEF SettleClaim, Settles, Create, Becomes, Untouched
  <2>2. settling[m].does = "claim"
    BY <1>1 DEF SettleClaim, Settles, Create, Becomes
  <2>3. CASE m \in held
    <3>1. /\ files'[m] = files[m]
          /\ (m \in queue' <=> m \in queue) /\ (m \in replies' <=> m \in replies)
          /\ (m \in held' <=> m \in held)
          /\ settling'[m].does = "look"
          /\ answer' = answer
      BY <1>a, <1>s, <2>2, <1>1, <2>3 DEF SettleClaim, Settles, Create, Becomes
    <3>2. Core(m)'
      <4>1. InOnePlace(m)' /\ InsideIsQueued(m)'
        BY <1>u, <2>2, <2>3, <3>1 DEF Core, InOnePlace, InsideIsQueued, HeldIsClaimed,
           ExpiredIsOut, SenderShape, Early, Clutter
      <4>2. SenderShape(m)' /\ ExpiredIsOut(m)'
        BY <1>u, <2>2, <2>3, <3>1 DEF Core, SenderShape, ExpiredIsOut, InOnePlace, InsideIsQueued,
           HeldIsClaimed, Early, Clutter
      <4>3. HeldIsClaimed(m)' /\ WithdrawnIsClaimed(m)'
        BY <1>u, <2>2, <2>3, <3>1 DEF Core, HeldIsClaimed, WithdrawnIsClaimed, InOnePlace,
           InsideIsQueued, ExpiredIsOut, SenderShape, SenderClaims, Clutter
      <4>4. StillTaken(m)' /\ TakenIsSomewhere(m)'
        BY <1>u, <2>2, <2>3, <3>1 DEF Core, StillTaken, TakenIsSomewhere, InOnePlace,
           InsideIsQueued, HeldIsClaimed, ExpiredIsOut, SenderShape, Early, Over, Clutter
      <4> QED BY <4>1, <4>2, <4>3, <4>4 DEF Core
    <3>3. HadIsKept(m) => HadIsKept(m)'
      BY <1>u, <2>2, <2>3, <3>1 DEF Core, InOnePlace, HeldIsClaimed, InsideIsQueued, ExpiredIsOut,
         StillTaken, HadIsKept, Clutter, SenderClaims
    <3> QED BY <2>1, <3>2, <3>3
  <2>4. CASE m \notin held /\ ~Has(m, "claimed") /\ Fine
    <3>1. /\ files'[m] = files[m] \cup {"claimed"}
          /\ (m \in queue' <=> m \in queue) /\ (m \in replies' <=> m \in replies)
          /\ (m \in held' <=> m \in held)
          /\ settling'[m].does = "look"
          /\ answer' = answer
      BY <1>a, <1>s, <2>2, <1>1, <2>4 DEF SettleClaim, Settles, Create, Becomes
    <3>2. Core(m)'
      <4>1. InOnePlace(m)' /\ InsideIsQueued(m)'
        BY <1>u, <2>2, <2>4, <3>1 DEF Core, InOnePlace, InsideIsQueued, HeldIsClaimed,
           ExpiredIsOut, SenderShape, Early, Clutter
      <4>2. SenderShape(m)' /\ ExpiredIsOut(m)'
        BY <1>u, <2>2, <2>4, <3>1 DEF Core, SenderShape, ExpiredIsOut, InOnePlace, InsideIsQueued,
           HeldIsClaimed, Early, Clutter
      <4>3. HeldIsClaimed(m)' /\ WithdrawnIsClaimed(m)'
        BY <1>u, <2>2, <2>4, <3>1 DEF Core, HeldIsClaimed, WithdrawnIsClaimed, InOnePlace,
           InsideIsQueued, ExpiredIsOut, SenderShape, SenderClaims, Clutter
      <4>4. StillTaken(m)' /\ TakenIsSomewhere(m)'
        BY <1>u, <2>2, <2>4, <3>1 DEF Core, StillTaken, TakenIsSomewhere, InOnePlace,
           InsideIsQueued, HeldIsClaimed, ExpiredIsOut, SenderShape, Early, Over, Clutter
      <4> QED BY <4>1, <4>2, <4>3, <4>4 DEF Core
    <3>3. HadIsKept(m) => HadIsKept(m)'
      BY <1>u, <2>2, <2>4, <3>1 DEF Core, InOnePlace, HeldIsClaimed, InsideIsQueued, ExpiredIsOut,
         StillTaken, HadIsKept, Clutter, SenderClaims
    <3> QED BY <2>1, <3>2, <3>3
  <2>5. CASE m \notin held /\ Has(m, "claimed")
    <3>1. /\ files'[m] = files[m]
          /\ (m \in queue' <=> m \in queue) /\ (m \in replies' <=> m \in replies)
          /\ (m \in held' <=> m \in held)
          /\ settling'[m].does = "remove"
          /\ answer' = answer
      BY <1>a, <1>s, <2>2, <1>1, <2>5 DEF SettleClaim, Settles, Create, Becomes
    <3>2. Core(m)'
      <4>1. InOnePlace(m)' /\ InsideIsQueued(m)'
        BY <1>u, <2>2, <2>5, <3>1 DEF Core, InOnePlace, InsideIsQueued, HeldIsClaimed,
           ExpiredIsOut, SenderShape, Early, Clutter
      <4>2. SenderShape(m)' /\ ExpiredIsOut(m)'
        BY <1>u, <2>2, <2>5, <3>1 DEF Core, SenderShape, ExpiredIsOut, InOnePlace, InsideIsQueued,
           HeldIsClaimed, Early, Clutter
      <4>3. HeldIsClaimed(m)' /\ WithdrawnIsClaimed(m)'
        BY <1>u, <2>2, <2>5, <3>1 DEF Core, HeldIsClaimed, WithdrawnIsClaimed, InOnePlace,
           InsideIsQueued, ExpiredIsOut, SenderShape, SenderClaims, Clutter
      <4>4. StillTaken(m)' /\ TakenIsSomewhere(m)'
        BY <1>u, <2>2, <2>5, <3>1 DEF Core, StillTaken, TakenIsSomewhere, InOnePlace,
           InsideIsQueued, HeldIsClaimed, ExpiredIsOut, SenderShape, Early, Over, Clutter
      <4> QED BY <4>1, <4>2, <4>3, <4>4 DEF Core
    <3>3. HadIsKept(m) => HadIsKept(m)'
      BY <1>u, <2>2, <2>5, <3>1 DEF Core, InOnePlace, HeldIsClaimed, InsideIsQueued, ExpiredIsOut,
         StillTaken, HadIsKept, Clutter, SenderClaims
    <3> QED BY <2>1, <3>2, <3>3
  <2>6. CASE m \notin held /\ ~Has(m, "claimed") /\ ~Fine
    <3>1. /\ files'[m] = files[m]
          /\ (m \in queue' <=> m \in queue) /\ (m \in replies' <=> m \in replies)
          /\ (m \in held' <=> m \in held)
          /\ settling'[m].does = "remove"
          /\ answer' = answer
      BY <1>a, <1>s, <2>2, <1>1, <2>6 DEF SettleClaim, Settles, Create, Becomes
    <3>2. Core(m)'
      <4>1. InOnePlace(m)' /\ InsideIsQueued(m)'
        BY <1>u, <2>2, <2>6, <3>1 DEF Core, InOnePlace, InsideIsQueued, HeldIsClaimed,
           ExpiredIsOut, SenderShape, Early, Clutter
      <4>2. SenderShape(m)' /\ ExpiredIsOut(m)'
        BY <1>u, <2>2, <2>6, <3>1 DEF Core, SenderShape, ExpiredIsOut, InOnePlace, InsideIsQueued,
           HeldIsClaimed, Early, Clutter
      <4>3. HeldIsClaimed(m)' /\ WithdrawnIsClaimed(m)'
        BY <1>u, <2>2, <2>6, <3>1 DEF Core, HeldIsClaimed, WithdrawnIsClaimed, InOnePlace,
           InsideIsQueued, ExpiredIsOut, SenderShape, SenderClaims, Clutter
      <4>4. StillTaken(m)' /\ TakenIsSomewhere(m)'
        BY <1>u, <2>2, <2>6, <3>1 DEF Core, StillTaken, TakenIsSomewhere, InOnePlace,
           InsideIsQueued, HeldIsClaimed, ExpiredIsOut, SenderShape, Early, Over, Clutter
      <4> QED BY <4>1, <4>2, <4>3, <4>4 DEF Core
    <3>3. HadIsKept(m) => HadIsKept(m)'
      BY <1>u, <2>2, <2>6, <3>1 DEF Core, InOnePlace, HeldIsClaimed, InsideIsQueued, ExpiredIsOut,
         StillTaken, HadIsKept, Clutter, SenderClaims
    <3> QED BY <2>1, <3>2, <3>3
  <2> QED BY <2>3, <2>4, <2>5, <2>6
<1>2. ASSUME SettleLook(m) PROVE Keeps
  <2>1. \A k \in Messages \ {m} : Untouched(k)
    BY <1>a, <1>u, <1>2 DEF SettleLook, Settles, Untouched
  <2>2. settling[m].does = "look"
    BY <1>2 DEF SettleLook, Settles
  <2>3. CASE Has(m, "taken")
    <3>1. /\ files'[m] = files[m]
          /\ (m \in queue' <=> m \in queue) /\ (m \in replies' <=> m \in replies)
          /\ (m \in held' <=> m \in held)
          /\ settling'[m].does = "write"
          /\ answer' = answer
      BY <1>a, <1>s, <2>2, <1>2, <2>3 DEF SettleLook, Settles
    <3>2. Core(m)'
      <4>1. InOnePlace(m)' /\ InsideIsQueued(m)'
        BY <1>u, <2>2, <2>3, <3>1 DEF Core, InOnePlace, InsideIsQueued, HeldIsClaimed,
           ExpiredIsOut, SenderShape, Early, Clutter
      <4>2. SenderShape(m)' /\ ExpiredIsOut(m)'
        BY <1>u, <2>2, <2>3, <3>1 DEF Core, SenderShape, ExpiredIsOut, InOnePlace, InsideIsQueued,
           HeldIsClaimed, Early, Clutter
      <4>3. HeldIsClaimed(m)' /\ WithdrawnIsClaimed(m)'
        BY <1>u, <2>2, <2>3, <3>1 DEF Core, HeldIsClaimed, WithdrawnIsClaimed, InOnePlace,
           InsideIsQueued, ExpiredIsOut, SenderShape, SenderClaims, Clutter
      <4>4. StillTaken(m)' /\ TakenIsSomewhere(m)'
        BY <1>u, <2>2, <2>3, <3>1 DEF Core, StillTaken, TakenIsSomewhere, InOnePlace,
           InsideIsQueued, HeldIsClaimed, ExpiredIsOut, SenderShape, Early, Over, Clutter
      <4> QED BY <4>1, <4>2, <4>3, <4>4 DEF Core
    <3>3. HadIsKept(m) => HadIsKept(m)'
      BY <1>u, <2>2, <2>3, <3>1 DEF Core, InOnePlace, HeldIsClaimed, InsideIsQueued, ExpiredIsOut,
         StillTaken, HadIsKept, Clutter, SenderClaims
    <3> QED BY <2>1, <3>2, <3>3
  <2>4. CASE ~Has(m, "taken")
    <3>1. /\ files'[m] = files[m]
          /\ (m \in queue' <=> m \in queue) /\ (m \in replies' <=> m \in replies)
          /\ (m \in held' <=> m \in held)
          /\ settling'[m].does = "remove"
          /\ answer' = answer
      BY <1>a, <1>s, <2>2, <1>2, <2>4 DEF SettleLook, Settles
    <3>2. Core(m)'
      <4>1. InOnePlace(m)' /\ InsideIsQueued(m)'
        BY <1>u, <2>2, <2>4, <3>1 DEF Core, InOnePlace, InsideIsQueued, HeldIsClaimed,
           ExpiredIsOut, SenderShape, Early, Clutter
      <4>2. SenderShape(m)' /\ ExpiredIsOut(m)'
        BY <1>u, <2>2, <2>4, <3>1 DEF Core, SenderShape, ExpiredIsOut, InOnePlace, InsideIsQueued,
           HeldIsClaimed, Early, Clutter
      <4>3. HeldIsClaimed(m)' /\ WithdrawnIsClaimed(m)'
        BY <1>u, <2>2, <2>4, <3>1 DEF Core, HeldIsClaimed, WithdrawnIsClaimed, InOnePlace,
           InsideIsQueued, ExpiredIsOut, SenderShape, SenderClaims, Clutter
      <4>4. StillTaken(m)' /\ TakenIsSomewhere(m)'
        BY <1>u, <2>2, <2>4, <3>1 DEF Core, StillTaken, TakenIsSomewhere, InOnePlace,
           InsideIsQueued, HeldIsClaimed, ExpiredIsOut, SenderShape, Early, Over, Clutter
      <4> QED BY <4>1, <4>2, <4>3, <4>4 DEF Core
    <3>3. HadIsKept(m) => HadIsKept(m)'
      BY <1>u, <2>2, <2>4, <3>1 DEF Core, InOnePlace, HeldIsClaimed, InsideIsQueued, ExpiredIsOut,
         StillTaken, HadIsKept, Clutter, SenderClaims
    <3> QED BY <2>1, <3>2, <3>3
  <2> QED BY <2>3, <2>4
<1>3. ASSUME SettleRemove(m) PROVE Keeps
  <2>1. \A k \in Messages \ {m} : Untouched(k)
    BY <1>a, <1>u, <1>3 DEF SettleRemove, Settles, Remove, Becomes, Untouched
  <2>2. settling[m].does = "remove"
    BY <1>3 DEF SettleRemove, Settles, Remove, Becomes
  <2>3. /\ files'[m] = files[m] \ {"taken"}
        /\ (m \in queue' <=> m \in queue) /\ (m \in replies' <=> m \in replies)
        /\ (m \in held' <=> m \in held)
        /\ settling'[m].does = "clear"
        /\ answer' = answer
    BY <1>a, <1>s, <2>2, <1>3 DEF SettleRemove, Settles, Remove, Becomes
  <2>4. Core(m)'
    <3>1. InOnePlace(m)' /\ InsideIsQueued(m)'
      BY <1>u, <2>2, <2>3 DEF Core, InOnePlace, InsideIsQueued, HeldIsClaimed, ExpiredIsOut,
         SenderShape, Early, Clutter
    <3>2. SenderShape(m)' /\ ExpiredIsOut(m)'
      BY <1>u, <2>2, <2>3 DEF Core, SenderShape, ExpiredIsOut, InOnePlace, InsideIsQueued,
         HeldIsClaimed, Early, Clutter
    <3>3. HeldIsClaimed(m)' /\ WithdrawnIsClaimed(m)'
      BY <1>u, <2>2, <2>3 DEF Core, HeldIsClaimed, WithdrawnIsClaimed, InOnePlace, InsideIsQueued,
         ExpiredIsOut, SenderShape, SenderClaims, Clutter
    <3>4. StillTaken(m)' /\ TakenIsSomewhere(m)'
      BY <1>u, <2>2, <2>3 DEF Core, StillTaken, TakenIsSomewhere, InOnePlace, InsideIsQueued,
         HeldIsClaimed, ExpiredIsOut, SenderShape, Early, Over, Clutter
    <3> QED BY <3>1, <3>2, <3>3, <3>4 DEF Core
  <2>5. HadIsKept(m) => HadIsKept(m)'
    BY <1>u, <2>2, <2>3 DEF Core, InOnePlace, HeldIsClaimed, InsideIsQueued, ExpiredIsOut,
       StillTaken, HadIsKept, Clutter, SenderClaims
  <2> QED BY <2>1, <2>4, <2>5
<1>4. ASSUME SettleClear(m) PROVE Keeps
  <2>1. \A k \in Messages \ {m} : Untouched(k)
    BY <1>a, <1>u, <1>4 DEF SettleClear, Discard, Becomes, Untouched
  <2>2. settling[m].does = "clear"
    BY <1>4 DEF SettleClear, Discard, Becomes
  <2>3. /\ files'[m] = files[m] \ Clutter
        /\ (m \in queue' <=> m \in queue) /\ (m \in replies' <=> m \in replies) /\ m \notin held'
        /\ ~InSettling(m)'
        /\ answer' = answer
    BY <1>a, <1>s, <2>2, <1>4 DEF SettleClear, Discard, Becomes
  <2>4. Core(m)'
    <3>1. InOnePlace(m)' /\ InsideIsQueued(m)'
      BY <1>u, <2>2, <2>3 DEF Core, InOnePlace, InsideIsQueued, HeldIsClaimed, ExpiredIsOut,
         SenderShape, Early, Clutter
    <3>2. SenderShape(m)' /\ ExpiredIsOut(m)'
      BY <1>u, <2>2, <2>3 DEF Core, SenderShape, ExpiredIsOut, InOnePlace, InsideIsQueued,
         HeldIsClaimed, Early, Clutter
    <3>3. HeldIsClaimed(m)' /\ WithdrawnIsClaimed(m)'
      BY <1>u, <2>2, <2>3 DEF Core, HeldIsClaimed, WithdrawnIsClaimed, InOnePlace, InsideIsQueued,
         ExpiredIsOut, SenderShape, SenderClaims, Clutter
    <3>4. StillTaken(m)' /\ TakenIsSomewhere(m)'
      BY <1>u, <2>2, <2>3 DEF Core, StillTaken, TakenIsSomewhere, InOnePlace, InsideIsQueued,
         HeldIsClaimed, ExpiredIsOut, SenderShape, Early, Over, Clutter
    <3> QED BY <3>1, <3>2, <3>3, <3>4 DEF Core
  <2>5. HadIsKept(m) => HadIsKept(m)'
    BY <1>u, <2>2, <2>3 DEF Core, InOnePlace, HeldIsClaimed, InsideIsQueued, ExpiredIsOut,
       StillTaken, HadIsKept, Clutter, SenderClaims
  <2> QED BY <2>1, <2>4, <2>5
<1> QED BY <1>1, <1>2, <1>3, <1>4 DEF SettlesOn

----------------------------------------------------------------------------
(* The courier and the closing thread take one offer, or answer, at a time. *)

Renames(m) == Rename /\ m = Min(listed)
Reads(m) == Read /\ m = courier.m
Admits(m) == Admit /\ m = courier.m
Sweeps(m) == Sweep /\ m = Min(sweep)
PassesOn(m) == Renames(m) \/ Reads(m) \/ Admits(m) \/ Sweeps(m) \/ Reply(m)

LEMMA PassesKeep ==
  ASSUME TypeOK, NEW m \in Messages, Core(m), PassesOn(m)
  PROVE  /\ Core(m)' /\ (HadIsKept(m) => HadIsKept(m)')
         /\ \A k \in Messages \ {m} : Untouched(k)
<1> DEFINE Keeps == /\ Core(m)' /\ (HadIsKept(m) => HadIsKept(m)')
                    /\ \A k \in Messages \ {m} : Untouched(k)
<1>a. /\ files \in [Messages -> SUBSET Suffixes] /\ answer \in [Messages -> Bodies \cup {Nothing}]
      /\ DOMAIN settling = Messages /\ faults \in Int
  <2>1. /\ files \in [Messages -> SUBSET Suffixes] /\ answer \in [Messages -> Bodies \cup {Nothing}]
        /\ DOMAIN settling = Messages
    BY DEF TypeOK, DirectoryTyped, ReceiverTyped
  <2>2. faults \in 0..Faults /\ Faults \in Nat
    BY SpoolAssumption DEF TypeOK
  <2> QED BY <2>1, <2>2
<1>c. courier \in [does : {"read", "offer"}, m : Messages] \cup {Idle}
  BY DEF TypeOK, ReceiverTyped
<1>u. UNCHANGED <<at, call, told, answer, owed, hand, held, inside, had, excused>>
  BY DEF PassesOn, Renames, Reads, Admits, Sweeps, Rename, Read, Admit, Sweep, Reply, Serving,
     Closing, Closes,
         sender, inbox
<1> USE DEF Serving, Closing, Closes, sender, serving, inbox, Becomes, Idle, NotSettling, Refused,
      Fine,
            Within, InCourier, InSettling, Begun, Has
<1>1. ASSUME Renames(m) PROVE Keeps
  <2>1. \A k \in Messages \ {m} : Untouched(k)
    BY <1>a, <1>u, <1>1 DEF Renames, Rename, TakeOver, Resting, Untouched
  <2>2. courier = Idle
    BY <1>1 DEF Renames, Rename, TakeOver, Resting
  <2>3. CASE Has(m, "offer")
    <3>1. /\ files'[m] = (files[m] \ {"offer"}) \cup {"taken"}
          /\ (m \in queue' <=> m \in queue) /\ (m \in replies' <=> m \in replies)
          /\ settling'[m] = settling[m]
          /\ InCourier(m)'
      BY <1>a, <1>1, <2>3 DEF Renames, Rename, TakeOver, Resting
    <3>2. Core(m)'
      <4>1. InOnePlace(m)' /\ InsideIsQueued(m)'
        BY <1>u, <2>2, <2>3, <3>1 DEF Core, InOnePlace, InsideIsQueued, HeldIsClaimed,
           ExpiredIsOut, SenderShape, Early, Clutter
      <4>2. SenderShape(m)' /\ ExpiredIsOut(m)'
        BY <1>u, <2>2, <2>3, <3>1 DEF Core, SenderShape, ExpiredIsOut, InOnePlace, InsideIsQueued,
           HeldIsClaimed, Early, Clutter
      <4>3. HeldIsClaimed(m)' /\ WithdrawnIsClaimed(m)'
        BY <1>u, <2>2, <2>3, <3>1 DEF Core, HeldIsClaimed, WithdrawnIsClaimed, InOnePlace,
           InsideIsQueued, ExpiredIsOut, SenderShape, SenderClaims, Clutter
      <4>4. StillTaken(m)' /\ TakenIsSomewhere(m)'
        BY <1>u, <2>2, <2>3, <3>1 DEF Core, StillTaken, TakenIsSomewhere, InOnePlace,
           InsideIsQueued, HeldIsClaimed, ExpiredIsOut, SenderShape, Early, Over, Clutter
      <4> QED BY <4>1, <4>2, <4>3, <4>4 DEF Core
    <3>3. HadIsKept(m) => HadIsKept(m)'
      BY <1>u, <2>2, <2>3, <3>1 DEF Core, InOnePlace, HeldIsClaimed, InsideIsQueued, ExpiredIsOut,
         StillTaken, HadIsKept, Clutter, SenderClaims
    <3> QED BY <2>1, <3>2, <3>3
  <2>4. CASE ~Has(m, "offer")
    <3>1. /\ files'[m] = files[m]
          /\ (m \in queue' <=> m \in queue) /\ (m \in replies' <=> m \in replies)
          /\ settling'[m] = settling[m]
          /\ courier' = courier
      BY <1>a, <1>1, <2>4 DEF Renames, Rename, TakeOver, Resting
    <3>2. Core(m)'
      <4>1. InOnePlace(m)' /\ InsideIsQueued(m)'
        BY <1>u, <2>2, <2>4, <3>1 DEF Core, InOnePlace, InsideIsQueued, HeldIsClaimed,
           ExpiredIsOut, SenderShape, Early, Clutter
      <4>2. SenderShape(m)' /\ ExpiredIsOut(m)'
        BY <1>u, <2>2, <2>4, <3>1 DEF Core, SenderShape, ExpiredIsOut, InOnePlace, InsideIsQueued,
           HeldIsClaimed, Early, Clutter
      <4>3. HeldIsClaimed(m)' /\ WithdrawnIsClaimed(m)'
        BY <1>u, <2>2, <2>4, <3>1 DEF Core, HeldIsClaimed, WithdrawnIsClaimed, InOnePlace,
           InsideIsQueued, ExpiredIsOut, SenderShape, SenderClaims, Clutter
      <4>4. StillTaken(m)' /\ TakenIsSomewhere(m)'
        BY <1>u, <2>2, <2>4, <3>1 DEF Core, StillTaken, TakenIsSomewhere, InOnePlace,
           InsideIsQueued, HeldIsClaimed, ExpiredIsOut, SenderShape, Early, Over, Clutter
      <4> QED BY <4>1, <4>2, <4>3, <4>4 DEF Core
    <3>3. HadIsKept(m) => HadIsKept(m)'
      BY <1>u, <2>2, <2>4, <3>1 DEF Core, InOnePlace, HeldIsClaimed, InsideIsQueued, ExpiredIsOut,
         StillTaken, HadIsKept, Clutter, SenderClaims
    <3> QED BY <2>1, <3>2, <3>3
  <2> QED BY <2>3, <2>4
<1>2. ASSUME Reads(m) PROVE Keeps
  <2>1. \A k \in Messages \ {m} : Untouched(k)
    BY <1>a, <1>c, <1>u, <1>2 DEF Reads, Read, Settle, Untouched
  <2>2. InCourier(m)
    BY <1>2 DEF Reads, Read, Settle
  <2>3. CASE courier' # Idle
    <3>1. /\ files'[m] = files[m]
          /\ (m \in queue' <=> m \in queue) /\ (m \in replies' <=> m \in replies)
          /\ settling'[m] = settling[m]
          /\ InCourier(m)'
      BY <1>a, <1>c, <1>2, <2>3 DEF Reads, Read, Settle
    <3>2. Core(m)'
      <4>1. InOnePlace(m)' /\ InsideIsQueued(m)'
        BY <1>u, <2>2, <2>3, <3>1 DEF Core, InOnePlace, InsideIsQueued, HeldIsClaimed,
           ExpiredIsOut, SenderShape, Early, Clutter
      <4>2. SenderShape(m)' /\ ExpiredIsOut(m)'
        BY <1>u, <2>2, <2>3, <3>1 DEF Core, SenderShape, ExpiredIsOut, InOnePlace, InsideIsQueued,
           HeldIsClaimed, Early, Clutter
      <4>3. HeldIsClaimed(m)' /\ WithdrawnIsClaimed(m)'
        BY <1>u, <2>2, <2>3, <3>1 DEF Core, HeldIsClaimed, WithdrawnIsClaimed, InOnePlace,
           InsideIsQueued, ExpiredIsOut, SenderShape, SenderClaims, Clutter
      <4>4. StillTaken(m)' /\ TakenIsSomewhere(m)'
        BY <1>u, <2>2, <2>3, <3>1 DEF Core, StillTaken, TakenIsSomewhere, InOnePlace,
           InsideIsQueued, HeldIsClaimed, ExpiredIsOut, SenderShape, Early, Over, Clutter
      <4> QED BY <4>1, <4>2, <4>3, <4>4 DEF Core
    <3>3. HadIsKept(m) => HadIsKept(m)'
      BY <1>u, <2>2, <2>3, <3>1 DEF Core, InOnePlace, HeldIsClaimed, InsideIsQueued, ExpiredIsOut,
         StillTaken, HadIsKept, Clutter, SenderClaims
    <3> QED BY <2>1, <3>2, <3>3
  <2>4. CASE courier' = Idle
    <3>1. /\ files'[m] = files[m]
          /\ (m \in queue' <=> m \in queue) /\ (m \in replies' <=> m \in replies)
          /\ settling'[m].does = "claim"
          /\ courier' = Idle
      BY <1>a, <1>2, <2>4 DEF Reads, Read, Settle
    <3>2. Core(m)'
      <4>0. Begun(m) /\ m \notin queue \cup owed \cup replies \cup hand /\ ~Within("let go", m)
        BY <2>2 DEF Core, InOnePlace
      <4>1. InOnePlace(m)' /\ InsideIsQueued(m)'
        BY <1>u, <3>1, <4>0 DEF Core, InOnePlace, InsideIsQueued
      <4>2. SenderShape(m)' /\ ExpiredIsOut(m)'
        BY <1>u, <2>2, <2>4, <3>1 DEF Core, SenderShape, ExpiredIsOut, InOnePlace, Early
      <4>3. HeldIsClaimed(m)' /\ WithdrawnIsClaimed(m)'
        BY <1>u, <2>2, <2>4, <3>1 DEF Core, HeldIsClaimed, WithdrawnIsClaimed, InOnePlace,
           SenderClaims
      <4>4. StillTaken(m)' /\ TakenIsSomewhere(m)'
        BY <1>u, <2>2, <2>4, <3>1 DEF Core, StillTaken, TakenIsSomewhere, InOnePlace, Over
      <4> QED BY <4>1, <4>2, <4>3, <4>4 DEF Core
    <3>3. HadIsKept(m) => HadIsKept(m)'
      BY <1>u, <2>2, <2>4, <3>1 DEF Core, InOnePlace, HeldIsClaimed, InsideIsQueued, ExpiredIsOut,
         StillTaken, HadIsKept, Clutter, SenderClaims
    <3> QED BY <2>1, <3>2, <3>3
  <2> QED BY <2>3, <2>4
<1>3. ASSUME Admits(m) PROVE Keeps
  <2>1. \A k \in Messages \ {m} : Untouched(k)
    BY <1>a, <1>u, <1>3 DEF Admits, Admit, Create, Settle, Untouched
  <2>2. InCourier(m) /\ inside = Idle
    BY <1>3 DEF Admits, Admit, Create, Settle
  <2>3. CASE closed
    <3>1. /\ files'[m] = files[m]
          /\ (m \in queue' <=> m \in queue) /\ (m \in replies' <=> m \in replies)
          /\ settling'[m].does = "claim"
          /\ courier' = Idle
      BY <1>a, <1>3, <2>3 DEF Admits, Admit, Create, Settle
    <3>2. Core(m)'
      <4>1. InOnePlace(m)' /\ InsideIsQueued(m)'
        BY <1>u, <2>2, <2>3, <3>1 DEF Core, InOnePlace, InsideIsQueued, HeldIsClaimed,
           ExpiredIsOut, SenderShape, Early, Clutter
      <4>2. SenderShape(m)' /\ ExpiredIsOut(m)'
        BY <1>u, <2>2, <2>3, <3>1 DEF Core, SenderShape, ExpiredIsOut, InOnePlace, InsideIsQueued,
           HeldIsClaimed, Early, Clutter
      <4>3. HeldIsClaimed(m)' /\ WithdrawnIsClaimed(m)'
        BY <1>u, <2>2, <2>3, <3>1 DEF Core, HeldIsClaimed, WithdrawnIsClaimed, InOnePlace,
           InsideIsQueued, ExpiredIsOut, SenderShape, SenderClaims, Clutter
      <4>4. StillTaken(m)' /\ TakenIsSomewhere(m)'
        BY <1>u, <2>2, <2>3, <3>1 DEF Core, StillTaken, TakenIsSomewhere, InOnePlace,
           InsideIsQueued, HeldIsClaimed, ExpiredIsOut, SenderShape, Early, Over, Clutter
      <4> QED BY <4>1, <4>2, <4>3, <4>4 DEF Core
    <3>3. HadIsKept(m) => HadIsKept(m)'
      BY <1>u, <2>2, <2>3, <3>1 DEF Core, InOnePlace, HeldIsClaimed, InsideIsQueued, ExpiredIsOut,
         StillTaken, HadIsKept, Clutter, SenderClaims
    <3> QED BY <2>1, <3>2, <3>3
  <2>4. CASE ~closed /\ Fine
    <3>1. /\ files'[m] = files[m] \cup {"admitted"}
          /\ m \in queue' /\ (m \in replies' <=> m \in replies)
          /\ settling'[m] = settling[m]
          /\ courier' = Idle
      BY <1>a, <1>3, <2>4 DEF Admits, Admit, Create, Settle
    <3>2. Core(m)'
      <4>1. InOnePlace(m)' /\ InsideIsQueued(m)'
        BY <1>u, <2>2, <2>4, <3>1 DEF Core, InOnePlace, InsideIsQueued, HeldIsClaimed,
           ExpiredIsOut, SenderShape, Early, Clutter
      <4>2. SenderShape(m)' /\ ExpiredIsOut(m)'
        BY <1>u, <2>2, <2>4, <3>1 DEF Core, SenderShape, ExpiredIsOut, InOnePlace, InsideIsQueued,
           HeldIsClaimed, Early, Clutter
      <4>3. HeldIsClaimed(m)' /\ WithdrawnIsClaimed(m)'
        BY <1>u, <2>2, <2>4, <3>1 DEF Core, HeldIsClaimed, WithdrawnIsClaimed, InOnePlace,
           InsideIsQueued, ExpiredIsOut, SenderShape, SenderClaims, Clutter
      <4>4. StillTaken(m)' /\ TakenIsSomewhere(m)'
        BY <1>u, <2>2, <2>4, <3>1 DEF Core, StillTaken, TakenIsSomewhere, InOnePlace,
           InsideIsQueued, HeldIsClaimed, ExpiredIsOut, SenderShape, Early, Over, Clutter
      <4> QED BY <4>1, <4>2, <4>3, <4>4 DEF Core
    <3>3. HadIsKept(m) => HadIsKept(m)'
      BY <1>u, <2>2, <2>4, <3>1 DEF Core, InOnePlace, HeldIsClaimed, InsideIsQueued, ExpiredIsOut,
         StillTaken, HadIsKept, Clutter, SenderClaims
    <3> QED BY <2>1, <3>2, <3>3
  <2>5. CASE ~closed /\ ~Fine
    <3>1. /\ files'[m] = files[m]
          /\ (m \in queue' <=> m \in queue) /\ (m \in replies' <=> m \in replies)
          /\ settling'[m].does = "claim"
          /\ courier' = Idle
      BY <1>a, <1>3, <2>5 DEF Admits, Admit, Create, Settle
    <3>2. Core(m)'
      <4>1. InOnePlace(m)' /\ InsideIsQueued(m)'
        BY <1>u, <2>2, <2>5, <3>1 DEF Core, InOnePlace, InsideIsQueued, HeldIsClaimed,
           ExpiredIsOut, SenderShape, Early, Clutter
      <4>2. SenderShape(m)' /\ ExpiredIsOut(m)'
        BY <1>u, <2>2, <2>5, <3>1 DEF Core, SenderShape, ExpiredIsOut, InOnePlace, InsideIsQueued,
           HeldIsClaimed, Early, Clutter
      <4>3. HeldIsClaimed(m)' /\ WithdrawnIsClaimed(m)'
        BY <1>u, <2>2, <2>5, <3>1 DEF Core, HeldIsClaimed, WithdrawnIsClaimed, InOnePlace,
           InsideIsQueued, ExpiredIsOut, SenderShape, SenderClaims, Clutter
      <4>4. StillTaken(m)' /\ TakenIsSomewhere(m)'
        BY <1>u, <2>2, <2>5, <3>1 DEF Core, StillTaken, TakenIsSomewhere, InOnePlace,
           InsideIsQueued, HeldIsClaimed, ExpiredIsOut, SenderShape, Early, Over, Clutter
      <4> QED BY <4>1, <4>2, <4>3, <4>4 DEF Core
    <3>3. HadIsKept(m) => HadIsKept(m)'
      BY <1>u, <2>2, <2>5, <3>1 DEF Core, InOnePlace, HeldIsClaimed, InsideIsQueued, ExpiredIsOut,
         StillTaken, HadIsKept, Clutter, SenderClaims
    <3> QED BY <2>1, <3>2, <3>3
  <2> QED BY <2>3, <2>4, <2>5
<1>4. ASSUME Sweeps(m) PROVE Keeps
  <2>1. \A k \in Messages \ {m} : Untouched(k)
    BY <1>a, <1>u, <1>4 DEF Sweeps, Sweep, TakeOver, Settle, Untouched
  <2>3. CASE Has(m, "offer")
    <3>1. /\ files'[m] = (files[m] \ {"offer"}) \cup {"taken"}
          /\ (m \in queue' <=> m \in queue) /\ (m \in replies' <=> m \in replies)
          /\ settling'[m].does = "claim"
          /\ courier' = courier
      BY <1>a, <1>4, <2>3 DEF Sweeps, Sweep, TakeOver, Settle
    <3>2. Core(m)'
      <4>1. InOnePlace(m)' /\ InsideIsQueued(m)'
        BY <1>u, <2>3, <3>1 DEF Core, InOnePlace, InsideIsQueued, HeldIsClaimed, ExpiredIsOut,
           SenderShape, Early, Clutter
      <4>2. SenderShape(m)' /\ ExpiredIsOut(m)'
        BY <1>u, <2>3, <3>1 DEF Core, SenderShape, ExpiredIsOut, InOnePlace, InsideIsQueued,
           HeldIsClaimed, Early, Clutter
      <4>3. HeldIsClaimed(m)' /\ WithdrawnIsClaimed(m)'
        BY <1>u, <2>3, <3>1 DEF Core, HeldIsClaimed, WithdrawnIsClaimed, InOnePlace,
           InsideIsQueued, ExpiredIsOut, SenderShape, SenderClaims, Clutter
      <4>4. StillTaken(m)' /\ TakenIsSomewhere(m)'
        BY <1>u, <2>3, <3>1 DEF Core, StillTaken, TakenIsSomewhere, InOnePlace, InsideIsQueued,
           HeldIsClaimed, ExpiredIsOut, SenderShape, Early, Over, Clutter
      <4> QED BY <4>1, <4>2, <4>3, <4>4 DEF Core
    <3>3. HadIsKept(m) => HadIsKept(m)'
      BY <1>u, <2>3, <3>1 DEF Core, InOnePlace, HeldIsClaimed, InsideIsQueued, ExpiredIsOut,
         StillTaken, HadIsKept, Clutter, SenderClaims
    <3> QED BY <2>1, <3>2, <3>3
  <2>4. CASE ~Has(m, "offer")
    <3>1. /\ files'[m] = files[m]
          /\ (m \in queue' <=> m \in queue) /\ (m \in replies' <=> m \in replies)
          /\ settling'[m] = settling[m]
          /\ courier' = courier
      BY <1>a, <1>4, <2>4 DEF Sweeps, Sweep, TakeOver, Settle
    <3>2. Core(m)'
      <4>1. InOnePlace(m)' /\ InsideIsQueued(m)'
        BY <1>u, <2>4, <3>1 DEF Core, InOnePlace, InsideIsQueued
      <4>2. SenderShape(m)' /\ ExpiredIsOut(m)'
        BY <1>u, <2>4, <3>1 DEF Core, SenderShape, ExpiredIsOut, InOnePlace, Early
      <4>3. HeldIsClaimed(m)' /\ WithdrawnIsClaimed(m)'
        BY <1>u, <2>4, <3>1 DEF Core, HeldIsClaimed, WithdrawnIsClaimed, InOnePlace, SenderClaims
      <4>4. StillTaken(m)' /\ TakenIsSomewhere(m)'
        BY <1>u, <2>4, <3>1 DEF Core, StillTaken, TakenIsSomewhere, InOnePlace, Over
      <4> QED BY <4>1, <4>2, <4>3, <4>4 DEF Core
    <3>3. HadIsKept(m) => HadIsKept(m)'
      BY <1>u, <2>4, <3>1 DEF Core, InOnePlace, HeldIsClaimed, InsideIsQueued, ExpiredIsOut,
         StillTaken, HadIsKept, Clutter, SenderClaims
    <3> QED BY <2>1, <3>2, <3>3
  <2> QED BY <2>3, <2>4
<1>5. ASSUME Reply(m) PROVE Keeps
  <2>1. \A k \in Messages \ {m} : Untouched(k)
    BY <1>a, <1>u, <1>5 DEF Reply, Settle, Untouched
  <2>2. m \in replies
    BY <1>5 DEF Reply, Settle
  <2>3. /\ files'[m] = files[m]
        /\ (m \in queue' <=> m \in queue) /\ m \notin replies'
        /\ settling'[m].does = "claim"
        /\ courier' = courier
    BY <1>a, <1>5 DEF Reply, Settle
  <2>4. Core(m)'
    <3>1. InOnePlace(m)' /\ InsideIsQueued(m)'
      BY <1>u, <2>2, <2>3 DEF Core, InOnePlace, InsideIsQueued, HeldIsClaimed, ExpiredIsOut,
         SenderShape, Early, Clutter
    <3>2. SenderShape(m)' /\ ExpiredIsOut(m)'
      BY <1>u, <2>2, <2>3 DEF Core, SenderShape, ExpiredIsOut, InOnePlace, InsideIsQueued,
         HeldIsClaimed, Early, Clutter
    <3>3. HeldIsClaimed(m)' /\ WithdrawnIsClaimed(m)'
      BY <1>u, <2>2, <2>3 DEF Core, HeldIsClaimed, WithdrawnIsClaimed, InOnePlace, InsideIsQueued,
         ExpiredIsOut, SenderShape, SenderClaims, Clutter
    <3>4. StillTaken(m)' /\ TakenIsSomewhere(m)'
      BY <1>u, <2>2, <2>3 DEF Core, StillTaken, TakenIsSomewhere, InOnePlace, InsideIsQueued,
         HeldIsClaimed, ExpiredIsOut, SenderShape, Early, Over, Clutter
    <3> QED BY <3>1, <3>2, <3>3, <3>4 DEF Core
  <2>5. HadIsKept(m) => HadIsKept(m)'
    BY <1>u, <2>2, <2>3 DEF Core, InOnePlace, HeldIsClaimed, InsideIsQueued, ExpiredIsOut,
       StillTaken, HadIsKept, Clutter, SenderClaims
  <2> QED BY <2>1, <2>4, <2>5
<1> QED BY <1>1, <1>2, <1>3, <1>4, <1>5 DEF PassesOn

----------------------------------------------------------------------------
(* The receiver's steps keep every type. *)

Keeper(m) == Receive(m) \/ SettlesOn(m) \/ SettleWrite(m) \/ PassesOn(m)
Housekeeping == List \/ Retract \/ Unlock \/ Reopen \/ Record \/ ListLast \/ Close \/ Bind \/ Crash

Settlements == [does : {"claim", "look", "write", "remove", "clear"}, body : Bodies,
                by : {"courier", "receiver", "closer"}]

LEMMA ReceiverKeepsTypes ==
  ASSUME TypeOK, NEW m \in Messages, Keeper(m)
  PROVE  TypeOK'
<1> DEFINE RestTyped == /\ closedFile \in BOOLEAN /\ advertised \in BOOLEAN
                        /\ had \subseteq Messages /\ given \subseteq Messages
           Keeps == /\ FilesTyped' /\ LossTyped' /\ RestTyped' /\ ReceiverTyped'
                    /\ UNCHANGED <<at, call, admits, told, published, waited, overdue, clock>>
           Held == [does : {"claim", "glance", "expire", "let go"}, m : Messages] \cup {Idle}
           Carried == [does : {"read", "offer"}, m : Messages] \cup {Idle}
<1>a. FilesTyped /\ LossTyped /\ RestTyped
  BY DEF TypeOK, DirectoryTyped, FilesTyped, LossTyped
<1>b. ReceiverTyped /\ Lives \in Nat /\ Faults \in Nat
  BY SpoolAssumption DEF TypeOK
<1>c. /\ \A f \in Suffixes :
           Create(m, f) \/ Remove(m, f) => files' \in [Messages -> SUBSET Suffixes]
      /\ Discard(m) \/ TakeOver(m) => files' \in [Messages -> SUBSET Suffixes]
  <2>1. "taken" \in Suffixes
    BY DEF Suffixes
  <2> QED BY <1>a, <2>1 DEF FilesTyped, Create, Remove, Discard, TakeOver, Becomes
<1>d. {"offer", "taken", "claimed", "admitted", "expired"} \subseteq Suffixes
  BY DEF Suffixes
<1>g. \A what : Refused(what) \/ Fine => faults' \in 0..Faults
  <2>1. faults \in 0..Faults /\ Faults \in Nat
    BY <1>a, <1>b DEF LossTyped
  <2> QED BY <2>1 DEF Refused, Fine
<1>h. /\ settling \in [Messages -> Settlements \cup {NotSettling}]
      /\ inside \in Held /\ courier \in Carried
  BY <1>b DEF ReceiverTyped, Settlements
<1>i. /\ \A body \in Bodies, by \in {"courier", "receiver", "closer"} :
           Settle(m, body, by) => settling' \in [Messages -> Settlements \cup {NotSettling}]
      /\ \A from \in {"claim", "look", "write", "remove", "clear"},
            to \in {"claim", "look", "write", "remove", "clear"} :
           Settles(m, from, to) => settling' \in [Messages -> Settlements \cup {NotSettling}]
  <2>1. ASSUME NEW body \in Bodies, NEW by \in {"courier", "receiver", "closer"},
               Settle(m, body, by)
        PROVE  settling' \in [Messages -> Settlements \cup {NotSettling}]
    <3>1. [does |-> "claim", body |-> body, by |-> by] \in Settlements
      BY DEF Settlements
    <3> QED BY <1>h, <2>1, <3>1 DEF Settle
  <2>2. ASSUME NEW from \in {"claim", "look", "write", "remove", "clear"},
               NEW to \in {"claim", "look", "write", "remove", "clear"}, Settles(m, from, to)
        PROVE  settling' \in [Messages -> Settlements \cup {NotSettling}]
    <3>1. settling[m] \in Settlements
      <4>1. settling[m].does # "nothing"
        BY <2>2 DEF Settles
      <4>2. settling[m] \in Settlements \cup {NotSettling} /\ NotSettling.does = "nothing"
        BY <1>h DEF NotSettling
      <4> QED BY <4>1, <4>2
    <3>2. [settling[m] EXCEPT !.does = to] \in Settlements
      BY <3>1 DEF Settlements
    <3> QED BY <1>h, <2>2, <3>2 DEF Settles
  <2> QED BY <2>1, <2>2
<1>k. /\ \A what \in {"claim", "glance", "expire", "let go"} : [does |-> what, m |-> m] \in Held
      /\ [does |-> "read", m |-> m] \in Carried
      /\ courier.does = "read" => [courier EXCEPT !.does = "offer"] \in Carried
      /\ settling[m].does = "write" => settling[m].body \in Bodies
  <2>1. [does |-> "read", m |-> m] \in Carried
    OBVIOUS
  <2>2. \A what \in {"claim", "glance", "expire", "let go"} : [does |-> what, m |-> m] \in Held
    OBVIOUS
  <2>3. ASSUME courier.does = "read" PROVE [courier EXCEPT !.does = "offer"] \in Carried
    <3>1. courier \in Carried /\ Idle.does = "nothing"
      BY <1>h DEF Idle
    <3>2. courier \in [does : {"read", "offer"}, m : Messages]
      BY <2>3, <3>1
    <3>3. [courier EXCEPT !.does = "offer"] \in [does : {"read", "offer"}, m : Messages]
      BY <3>2
    <3> QED BY <3>3
  <2>4. ASSUME settling[m].does = "write" PROVE settling[m].body \in Bodies
    <3>1. settling[m] \in Settlements \cup {NotSettling} /\ NotSettling.does = "nothing"
      BY <1>h DEF NotSettling
    <3>2. settling[m] \in Settlements
      BY <2>4, <3>1
    <3> QED BY <3>2 DEF Settlements
  <2> QED BY <2>1, <2>2, <2>3, <2>4
<1>j. {"answered", "let go", "closed", "refused"} \subseteq Bodies
  BY DEF Bodies
<1> HIDE DEF Held, Carried
<1> USE DEF Receiving, Serving, Closing, Closes, Writing, Inside, Leave, Enter, Idle, sender,
      serving, closer, inbox, dir, world, receiver
<1>1. ASSUME Take(m) PROVE Keeps
  <2>1. /\ FilesTyped' /\ LossTyped' /\ RestTyped'
        /\ UNCHANGED <<at, call, admits, told, published, waited, overdue, clock>>
    BY <1>a, <1>c, <1>d, <1>g, <1>1 DEF Take, FilesTyped, LossTyped
  <2>2. ReceiverTyped'
    BY <1>b, <1>h, <1>i, <1>j, <1>k, <1>1 DEF Take, ReceiverTyped, Settlements, Held, Carried
  <2> QED BY <2>1, <2>2
<1>2. ASSUME Pass(m) PROVE Keeps
  <2>1. /\ FilesTyped' /\ LossTyped' /\ RestTyped'
        /\ UNCHANGED <<at, call, admits, told, published, waited, overdue, clock>>
    BY <1>a, <1>c, <1>d, <1>g, <1>2 DEF Pass, FilesTyped, LossTyped
  <2>2. ReceiverTyped'
    BY <1>b, <1>h, <1>i, <1>j, <1>k, <1>2 DEF Pass, ReceiverTyped, Settlements, Held, Carried
  <2> QED BY <2>1, <2>2
<1>3. ASSUME Glance(m) PROVE Keeps
  <2>1. /\ FilesTyped' /\ LossTyped' /\ RestTyped'
        /\ UNCHANGED <<at, call, admits, told, published, waited, overdue, clock>>
    BY <1>a, <1>c, <1>d, <1>g, <1>3 DEF Glance, FilesTyped, LossTyped
  <2>2. ReceiverTyped'
    BY <1>b, <1>h, <1>i, <1>j, <1>k, <1>3 DEF Glance, ReceiverTyped, Settlements, Held, Carried
  <2> QED BY <2>1, <2>2
<1>4. ASSUME ClaimForReceiver(m) PROVE Keeps
  <2>1. /\ FilesTyped' /\ LossTyped' /\ RestTyped'
        /\ UNCHANGED <<at, call, admits, told, published, waited, overdue, clock>>
    BY <1>a, <1>c, <1>d, <1>g, <1>4 DEF ClaimForReceiver, FilesTyped, LossTyped
  <2>2. ReceiverTyped'
    BY <1>b, <1>h, <1>i, <1>j, <1>k, <1>4 DEF ClaimForReceiver, ReceiverTyped, Settlements, Held,
       Carried
  <2> QED BY <2>1, <2>2
<1>5. ASSUME Expire(m) PROVE Keeps
  <2>1. /\ FilesTyped' /\ LossTyped' /\ RestTyped'
        /\ UNCHANGED <<at, call, admits, told, published, waited, overdue, clock>>
    BY <1>a, <1>c, <1>d, <1>g, <1>5 DEF Expire, FilesTyped, LossTyped
  <2>2. ReceiverTyped'
    BY <1>b, <1>h, <1>i, <1>j, <1>k, <1>5 DEF Expire, ReceiverTyped, Settlements, Held, Carried
  <2> QED BY <2>1, <2>2
<1>6. ASSUME Release(m) PROVE Keeps
  <2>1. /\ FilesTyped' /\ LossTyped' /\ RestTyped'
        /\ UNCHANGED <<at, call, admits, told, published, waited, overdue, clock>>
    BY <1>a, <1>c, <1>d, <1>g, <1>6 DEF Release, HandsOver, FilesTyped, LossTyped
  <2>2. ReceiverTyped'
    BY <1>b, <1>h, <1>i, <1>j, <1>k, <1>6 DEF Release, HandsOver, ReceiverTyped, Settlements,
       Held, Carried
  <2> QED BY <2>1, <2>2
<1>7. ASSUME LetGo(m) PROVE Keeps
  <2>1. /\ FilesTyped' /\ LossTyped' /\ RestTyped'
        /\ UNCHANGED <<at, call, admits, told, published, waited, overdue, clock>>
    BY <1>a, <1>c, <1>d, <1>g, <1>7 DEF LetGo, FilesTyped, LossTyped
  <2>2. ReceiverTyped'
    BY <1>b, <1>h, <1>i, <1>j, <1>k, <1>7 DEF LetGo, ReceiverTyped, Settlements, Held, Carried
  <2> QED BY <2>1, <2>2
<1>8. ASSUME Answer(m) PROVE Keeps
  <2>1. /\ FilesTyped' /\ LossTyped' /\ RestTyped'
        /\ UNCHANGED <<at, call, admits, told, published, waited, overdue, clock>>
    BY <1>a, <1>c, <1>d, <1>g, <1>8 DEF Answer, Replies, HandsOver, FilesTyped, LossTyped
  <2>2. ReceiverTyped'
    BY <1>b, <1>h, <1>i, <1>j, <1>k, <1>8 DEF Answer, Replies, HandsOver, ReceiverTyped,
       Settlements, Held, Carried
  <2> QED BY <2>1, <2>2
<1>9. ASSUME Drop(m) PROVE Keeps
  <2>1. /\ FilesTyped' /\ LossTyped' /\ RestTyped'
        /\ UNCHANGED <<at, call, admits, told, published, waited, overdue, clock>>
    BY <1>a, <1>c, <1>d, <1>g, <1>9 DEF Drop, Replies, HandsOver, FilesTyped, LossTyped
  <2>2. ReceiverTyped'
    BY <1>b, <1>h, <1>i, <1>j, <1>k, <1>9 DEF Drop, Replies, HandsOver, ReceiverTyped,
       Settlements, Held, Carried
  <2> QED BY <2>1, <2>2
<1>10. ASSUME SettleClaim(m) PROVE Keeps
  <2>1. /\ FilesTyped' /\ LossTyped' /\ RestTyped'
        /\ UNCHANGED <<at, call, admits, told, published, waited, overdue, clock>>
    BY <1>a, <1>c, <1>d, <1>g, <1>10 DEF SettleClaim, FilesTyped, LossTyped
  <2>2. ReceiverTyped'
    <3>1. settling' \in [Messages -> Settlements \cup {NotSettling}]
      BY <1>i, <1>10 DEF SettleClaim
    <3>2. held' = held
      BY <1>10 DEF SettleClaim
    <3> QED BY <1>b, <3>1, <3>2, <1>10 DEF SettleClaim, ReceiverTyped, Settlements
  <2> QED BY <2>1, <2>2
<1>11. ASSUME SettleLook(m) PROVE Keeps
  <2>1. /\ FilesTyped' /\ LossTyped' /\ RestTyped'
        /\ UNCHANGED <<at, call, admits, told, published, waited, overdue, clock>>
    BY <1>a, <1>c, <1>d, <1>g, <1>11 DEF SettleLook, FilesTyped, LossTyped
  <2>2. ReceiverTyped'
    BY <1>b, <1>h, <1>i, <1>j, <1>k, <1>11 DEF SettleLook, ReceiverTyped, Settlements, Held, Carried
  <2> QED BY <2>1, <2>2
<1>12. ASSUME SettleWrite(m) PROVE Keeps
  <2>1. /\ FilesTyped' /\ LossTyped' /\ RestTyped'
        /\ UNCHANGED <<at, call, admits, told, published, waited, overdue, clock>>
    BY <1>a, <1>c, <1>d, <1>g, <1>k, <1>12 DEF SettleWrite, Settles, FilesTyped, LossTyped
  <2>2. ReceiverTyped'
    BY <1>b, <1>h, <1>i, <1>j, <1>k, <1>12 DEF SettleWrite, Settles, ReceiverTyped, Settlements,
       Held, Carried
  <2> QED BY <2>1, <2>2
<1>13. ASSUME SettleRemove(m) PROVE Keeps
  <2>1. /\ FilesTyped' /\ LossTyped' /\ RestTyped'
        /\ UNCHANGED <<at, call, admits, told, published, waited, overdue, clock>>
    BY <1>a, <1>c, <1>d, <1>g, <1>13 DEF SettleRemove, FilesTyped, LossTyped
  <2>2. ReceiverTyped'
    BY <1>b, <1>h, <1>i, <1>j, <1>k, <1>13 DEF SettleRemove, ReceiverTyped, Settlements, Held,
       Carried
  <2> QED BY <2>1, <2>2
<1>14. ASSUME SettleClear(m) PROVE Keeps
  <2>1. /\ FilesTyped' /\ LossTyped' /\ RestTyped'
        /\ UNCHANGED <<at, call, admits, told, published, waited, overdue, clock>>
    BY <1>a, <1>c, <1>d, <1>g, <1>14 DEF SettleClear, FilesTyped, LossTyped
  <2>2. ReceiverTyped'
    BY <1>b, <1>h, <1>i, <1>j, <1>k, <1>14 DEF SettleClear, ReceiverTyped, Settlements, Held,
       Carried
  <2> QED BY <2>1, <2>2
<1>15. ASSUME Renames(m) PROVE Keeps
  <2>1. /\ FilesTyped' /\ LossTyped' /\ RestTyped'
        /\ UNCHANGED <<at, call, admits, told, published, waited, overdue, clock>>
    BY <1>a, <1>c, <1>d, <1>g, <1>15 DEF Renames, Rename, FilesTyped, LossTyped
  <2>2. ReceiverTyped'
    BY <1>b, <1>h, <1>i, <1>j, <1>k, <1>15 DEF Renames, Rename, ReceiverTyped, Settlements, Held,
       Carried
  <2> QED BY <2>1, <2>2
<1>16. ASSUME Reads(m) PROVE Keeps
  <2>1. /\ FilesTyped' /\ LossTyped' /\ RestTyped'
        /\ UNCHANGED <<at, call, admits, told, published, waited, overdue, clock>>
    BY <1>a, <1>c, <1>d, <1>g, <1>16 DEF Reads, Read, FilesTyped, LossTyped
  <2>2. ReceiverTyped'
    BY <1>b, <1>h, <1>i, <1>j, <1>k, <1>16 DEF Reads, Read, ReceiverTyped, Settlements, Held,
       Carried
  <2> QED BY <2>1, <2>2
<1>17. ASSUME Admits(m) PROVE Keeps
  <2>1. /\ FilesTyped' /\ LossTyped' /\ RestTyped'
        /\ UNCHANGED <<at, call, admits, told, published, waited, overdue, clock>>
    BY <1>a, <1>c, <1>d, <1>g, <1>17 DEF Admits, Admit, FilesTyped, LossTyped
  <2>2. ReceiverTyped'
    BY <1>b, <1>h, <1>i, <1>j, <1>k, <1>17 DEF Admits, Admit, ReceiverTyped, Settlements, Held,
       Carried
  <2> QED BY <2>1, <2>2
<1>18. ASSUME Sweeps(m) PROVE Keeps
  <2>1. /\ FilesTyped' /\ LossTyped' /\ RestTyped'
        /\ UNCHANGED <<at, call, admits, told, published, waited, overdue, clock>>
    BY <1>a, <1>c, <1>d, <1>g, <1>18 DEF Sweeps, Sweep, FilesTyped, LossTyped
  <2>2. ReceiverTyped'
    BY <1>b, <1>h, <1>i, <1>j, <1>k, <1>18 DEF Sweeps, Sweep, ReceiverTyped, Settlements, Held,
       Carried
  <2> QED BY <2>1, <2>2
<1>19. ASSUME Reply(m) PROVE Keeps
  <2>1. /\ FilesTyped' /\ LossTyped' /\ RestTyped'
        /\ UNCHANGED <<at, call, admits, told, published, waited, overdue, clock>>
    BY <1>a, <1>c, <1>d, <1>g, <1>19 DEF Reply, FilesTyped, LossTyped
  <2>2. ReceiverTyped'
    BY <1>b, <1>h, <1>i, <1>j, <1>k, <1>19 DEF Reply, ReceiverTyped, Settlements, Held, Carried
  <2> QED BY <2>1, <2>2
<1>e. Keeps
  BY <1>1, <1>2, <1>3, <1>4, <1>5, <1>6, <1>7, <1>8, <1>9, <1>10,
     <1>11, <1>12, <1>13, <1>14, <1>15, <1>16, <1>17, <1>18, <1>19
     DEF Keeper, Receive, SettlesOn, PassesOn
<1> QED BY <1>e DEF TypeOK, DirectoryTyped, SendersTyped, FilesTyped, LossTyped

LEMMA HousekeepingKeepsTypes ==
  ASSUME TypeOK, Housekeeping
  PROVE  TypeOK'
<1> DEFINE RestTyped == /\ closedFile \in BOOLEAN /\ advertised \in BOOLEAN
                        /\ had \subseteq Messages /\ given \subseteq Messages
           Keeps == /\ FilesTyped' /\ LossTyped' /\ RestTyped' /\ ReceiverTyped'
                    /\ UNCHANGED <<at, call, admits, told, published, waited, overdue, clock>>
<1>a. FilesTyped /\ LossTyped /\ RestTyped
  BY DEF TypeOK, DirectoryTyped, FilesTyped, LossTyped
<1>b. ReceiverTyped /\ Lives \in Nat /\ Faults \in Nat
  BY SpoolAssumption DEF TypeOK
<1>g. \A what : Refused(what) \/ Fine => faults' \in 0..Faults
  <2>1. faults \in 0..Faults /\ Faults \in Nat
    BY <1>a, <1>b DEF LossTyped
  <2> QED BY <2>1 DEF Refused, Fine
<1> USE DEF Receiving, Serving, Closing, Closes, Writing, Inside, Leave, Enter, Idle, sender,
      serving, closer, inbox, dir, world, receiver
<1>1. ASSUME List PROVE Keeps
  <2>1. /\ FilesTyped' /\ LossTyped' /\ RestTyped'
        /\ UNCHANGED <<at, call, admits, told, published, waited, overdue, clock>>
    BY <1>a, <1>g, <1>1 DEF List, Offered, FilesTyped, LossTyped
  <2>2. ReceiverTyped'
    BY <1>b, <1>1 DEF List, Offered, ReceiverTyped, NotSettling
  <2> QED BY <2>1, <2>2
<1>2. ASSUME Retract PROVE Keeps
  <2>1. /\ FilesTyped' /\ LossTyped' /\ RestTyped'
        /\ UNCHANGED <<at, call, admits, told, published, waited, overdue, clock>>
    BY <1>a, <1>g, <1>2 DEF Retract, Exposed, FilesTyped, LossTyped
  <2>2. ReceiverTyped'
    BY <1>b, <1>2 DEF Retract, Exposed, ReceiverTyped, NotSettling
  <2> QED BY <2>1, <2>2
<1>3. ASSUME Unlock PROVE Keeps
  <2>1. /\ FilesTyped' /\ LossTyped' /\ RestTyped'
        /\ UNCHANGED <<at, call, admits, told, published, waited, overdue, clock>>
    BY <1>a, <1>g, <1>3 DEF Unlock, FilesTyped, LossTyped
  <2>2. ReceiverTyped'
    BY <1>b, <1>3 DEF Unlock, ReceiverTyped, NotSettling
  <2> QED BY <2>1, <2>2
<1>4. ASSUME Reopen PROVE Keeps
  <2>1. /\ FilesTyped' /\ LossTyped' /\ RestTyped'
        /\ UNCHANGED <<at, call, admits, told, published, waited, overdue, clock>>
    BY <1>a, <1>g, <1>4 DEF Reopen, FilesTyped, LossTyped
  <2>2. ReceiverTyped'
    BY <1>b, <1>4 DEF Reopen, ReceiverTyped, NotSettling
  <2> QED BY <2>1, <2>2
<1>5. ASSUME Record PROVE Keeps
  <2>1. /\ FilesTyped' /\ LossTyped' /\ RestTyped'
        /\ UNCHANGED <<at, call, admits, told, published, waited, overdue, clock>>
    BY <1>a, <1>g, <1>5 DEF Record, FilesTyped, LossTyped
  <2>2. ReceiverTyped'
    BY <1>b, <1>5 DEF Record, ReceiverTyped, NotSettling
  <2> QED BY <2>1, <2>2
<1>6. ASSUME ListLast PROVE Keeps
  <2>1. /\ FilesTyped' /\ LossTyped' /\ RestTyped'
        /\ UNCHANGED <<at, call, admits, told, published, waited, overdue, clock>>
    BY <1>a, <1>g, <1>6 DEF ListLast, Offered, FilesTyped, LossTyped
  <2>2. ReceiverTyped'
    BY <1>b, <1>6 DEF ListLast, Offered, ReceiverTyped, NotSettling
  <2> QED BY <2>1, <2>2
<1>7. ASSUME Close PROVE Keeps
  <2>1. /\ FilesTyped' /\ LossTyped' /\ RestTyped'
        /\ UNCHANGED <<at, call, admits, told, published, waited, overdue, clock>>
    BY <1>a, <1>g, <1>7 DEF Close, FilesTyped, LossTyped
  <2>2. ReceiverTyped'
    BY <1>b, <1>7 DEF Close, ReceiverTyped, NotSettling
  <2> QED BY <2>1, <2>2
<1>8. ASSUME Bind PROVE Keeps
  <2>1. /\ FilesTyped' /\ LossTyped' /\ RestTyped'
        /\ UNCHANGED <<at, call, admits, told, published, waited, overdue, clock>>
    BY <1>a, <1>g, <1>8 DEF Bind, FilesTyped, LossTyped
  <2>2. ReceiverTyped'
    <3>1. binds' \in 0..Lives
      <4>1. binds' = binds + 1 /\ binds < Lives
        BY <1>8 DEF Bind
      <4>2. binds \in 0..Lives /\ Lives \in Nat
        BY <1>b DEF ReceiverTyped
      <4> QED BY <4>1, <4>2
    <3>2. phase' = "binding"
      BY <1>8 DEF Bind
    <3>3. UNCHANGED <<closed, closing, courier, inside, settling, sweep, listed, queue, owed,
                      replies, hand, held>>
      BY <1>8 DEF Bind
    <3> QED BY <1>b, <3>1, <3>2, <3>3 DEF ReceiverTyped
  <2> QED BY <2>1, <2>2
<1>9. ASSUME Crash PROVE Keeps
  <2>1. /\ FilesTyped' /\ LossTyped' /\ RestTyped'
        /\ UNCHANGED <<at, call, admits, told, published, waited, overdue, clock>>
    BY <1>a, <1>g, <1>9 DEF Crash, Exposed, FilesTyped, LossTyped
  <2>2. ReceiverTyped'
    BY <1>b, <1>9 DEF Crash, Exposed, ReceiverTyped, NotSettling
  <2> QED BY <2>1, <2>2
<1>e. Keeps
  BY <1>1, <1>2, <1>3, <1>4, <1>5, <1>6, <1>7, <1>8, <1>9 DEF Housekeeping
<1> QED BY <1>e DEF TypeOK, DirectoryTyped, SendersTyped, FilesTyped, LossTyped

LEMMA SettleWriteKeeps ==
  ASSUME TypeOK, NEW m \in Messages, Core(m), SettleWrite(m)
  PROVE  /\ Core(m)'
         /\ "answer" \notin Refusable /\ HadIsKept(m) => HadIsKept(m)'
         /\ \A k \in Messages \ {m} : Untouched(k)
<1>a. answer \in [Messages -> Bodies \cup {Nothing}] /\ DOMAIN settling = Messages
  BY DEF TypeOK, DirectoryTyped, ReceiverTyped
<1>b. settling[m].does = "write" /\ settling[m].body \in Bodies /\ NotSettling.does = "nothing"
  <2>1. settling[m] \in Settlements \cup {NotSettling} /\ NotSettling.does = "nothing"
    BY DEF TypeOK, ReceiverTyped, Settlements, NotSettling
  <2>2. settling[m].does = "write"
    BY DEF SettleWrite, Settles
  <2>3. settling[m] \in Settlements
    BY <2>1, <2>2
  <2> QED BY <2>1, <2>2, <2>3 DEF Settlements
<1>u. /\ UNCHANGED <<files, at, call, told, courier, queue, owed, replies, hand, held, inside, had>>
      /\ excused \subseteq excused'
  BY DEF SettleWrite, Writing, Inside, sender, serving
<1>1. \A k \in Messages \ {m} : Untouched(k)
  BY <1>a, <1>u DEF SettleWrite, Settles, Untouched, InCourier, Within
<1>2. settling'[m].does = "remove"
  <2>1. settling' = [settling EXCEPT ![m].does = "remove"]
    BY DEF SettleWrite, Settles
  <2>2. settling[m] \in Settlements
    BY <1>b DEF TypeOK, ReceiverTyped, Settlements
  <2> QED BY <1>a, <2>1, <2>2 DEF Settlements
<1>3. Core(m)'
  <2>1. InOnePlace(m)' /\ InsideIsQueued(m)'
    BY <1>b, <1>u, <1>2 DEF Core, InOnePlace, InsideIsQueued, InCourier, InSettling, Within,
       Begun, Has
  <2>2. SenderShape(m)' /\ ExpiredIsOut(m)'
    BY <1>b, <1>u, <1>2 DEF Core, SenderShape, ExpiredIsOut, InCourier, InSettling, Within, Begun,
       Has
  <2>3. HeldIsClaimed(m)' /\ WithdrawnIsClaimed(m)'
    BY <1>b, <1>u, <1>2 DEF Core, HeldIsClaimed, WithdrawnIsClaimed, InCourier, Within, Begun, Has
  <2>4. StillTaken(m)' /\ TakenIsSomewhere(m)'
    BY <1>b, <1>u, <1>2 DEF Core, StillTaken, TakenIsSomewhere, InCourier, InSettling, Within,
       Begun, Has
  <2> QED BY <2>1, <2>2, <2>3, <2>4 DEF Core
<1>4. ASSUME "answer" \notin Refusable, HadIsKept(m) PROVE HadIsKept(m)'
  <2>1. answer'[m] = settling[m].body
    BY <1>a, <1>4 DEF SettleWrite, Refused
  <2>2. answer'[m] # Nothing
    BY <1>b, <2>1 DEF Bodies, Nothing
  <2> QED BY <1>b, <1>u, <1>2, <1>4, <2>2
          DEF HadIsKept, InCourier, InSettling, Begun, Has
<1> QED BY <1>1, <1>3, <1>4

----------------------------------------------------------------------------
(* The steps of the whole receiver. *)

LEMMA HousekeepingUntouched ==
  ASSUME TypeOK, List \/ Retract \/ Unlock \/ Reopen \/ Record \/ ListLast \/ Bind,
         NEW m \in Messages
  PROVE  Untouched(m)
<1> USE DEF sender, inbox, closer, serving, dir, world, Serving, Closing, Closes, InCourier, Within
<1>1. CASE List
  BY <1>1 DEF List, Untouched
<1>2. CASE Retract
  BY <1>2 DEF Retract, Untouched
<1>3. CASE Unlock
  BY <1>3 DEF Unlock, Untouched
<1>4. CASE Reopen
  BY <1>4 DEF Reopen, Untouched
<1>5. CASE Record
  BY <1>5 DEF Record, Untouched, TypeOK
<1>6. CASE ListLast
  BY <1>6 DEF ListLast, Untouched
<1>7. CASE Bind
  BY <1>7 DEF Bind, Untouched
<1> QED BY <1>1, <1>2, <1>3, <1>4, <1>5, <1>6, <1>7

\* The inbox's messages become the replies its close has yet to give.
LEMMA CloseKeeps ==
  ASSUME NothingOwing, Close, NEW m \in Messages, Core(m)
  PROVE  Core(m)' /\ (HadIsKept(m) => HadIsKept(m)')
<1>1. /\ UNCHANGED <<files, answer, settling, at, call, told, courier, hand, held, inside, had,
                     excused>>
      /\ inside = Idle /\ Idle.does = "nothing"
      /\ m \notin queue' /\ m \notin owed' /\ m \notin replies
      /\ m \in replies' <=> m \in queue \/ m \in owed
  BY DEF Close, Closes, NothingOwing, sender, serving, dir, world, Idle
<1> HIDE DEF Close
<1> USE DEF InCourier, InSettling, Within, Begun, Has
<1>2. InOnePlace(m)' /\ InsideIsQueued(m)'
  BY <1>1 DEF Core, InOnePlace, InsideIsQueued
<1>3. SenderShape(m)' /\ ExpiredIsOut(m)'
  BY <1>1 DEF Core, SenderShape, ExpiredIsOut
<1>4. HeldIsClaimed(m)' /\ WithdrawnIsClaimed(m)'
  BY <1>1 DEF Core, HeldIsClaimed, WithdrawnIsClaimed
<1>5. StillTaken(m)' /\ TakenIsSomewhere(m)'
  BY <1>1 DEF Core, StillTaken, TakenIsSomewhere
<1>6. HadIsKept(m) => HadIsKept(m)'
  BY <1>1 DEF Core, HeldIsClaimed, HadIsKept
<1> QED BY <1>2, <1>3, <1>4, <1>5, <1>6 DEF Core

\* What the receiver's process kept in memory is gone, and the directory is not.
LEMMA CrashKeeps ==
  ASSUME Crash, NEW m \in Messages, Core(m)
  PROVE  Core(m)' /\ (HadIsKept(m) => HadIsKept(m)')
<1>1. /\ UNCHANGED <<files, answer, at, call, told, had>>
      /\ ~InCourier(m)' /\ ~InSettling(m)' /\ settling'[m].does = "nothing"
      /\ \A what \in {"claim", "glance", "expire", "let go"} : ~Within(what, m)'
      /\ m \notin queue' /\ m \notin owed' /\ m \notin replies' /\ m \notin hand' /\ m \notin held'
      /\ Begun(m) => m \in excused'
  BY DEF Crash, sender, dir, Idle, NotSettling, InCourier, InSettling, Within, Begun, Exposed, Early
<1> HIDE DEF Crash
<1> USE DEF Begun, Has
<1>2. InOnePlace(m)' /\ InsideIsQueued(m)'
  BY <1>1 DEF Core, InOnePlace, InsideIsQueued
<1>3. SenderShape(m)' /\ ExpiredIsOut(m)'
  BY <1>1 DEF Core, SenderShape, ExpiredIsOut
<1>4. HeldIsClaimed(m)' /\ WithdrawnIsClaimed(m)'
  BY <1>1 DEF Core, HeldIsClaimed, WithdrawnIsClaimed
<1>5. StillTaken(m)' /\ TakenIsSomewhere(m)'
  BY <1>1 DEF Core, StillTaken, TakenIsSomewhere
<1>6. HadIsKept(m) => HadIsKept(m)'
  BY <1>1 DEF Core, HadIsKept
<1> QED BY <1>2, <1>3, <1>4, <1>5, <1>6 DEF Core

\* The courier and the closing thread come to some one message.
LEMMA OneAtATime ==
  ASSUME TypeOK, Courier \/ Retract \/ Closer \/ Close \/ Bind \/ Crash
  PROVE  Housekeeping \/ \E m \in Messages : PassesOn(m)
<1>1. \A S \in SUBSET Messages : S # {} => Min(S) \in Messages
  <2>1. ASSUME NEW S \in SUBSET Messages, S # {} PROVE Min(S) \in Messages
    <3>1. S \in SUBSET Nat
      BY SpoolAssumption
    <3>2. \E x \in S : \A y \in S : x =< y
      BY <2>1, <3>1, Library!LeastNat
    <3> QED BY <2>1, <3>2 DEF Min
  <2> QED BY <2>1
<1>2. listed \in SUBSET Messages /\ sweep \in SUBSET Messages
  BY DEF TypeOK, ReceiverTyped
<1>3. courier.does # "nothing" => courier.m \in Messages
  <2>1. courier \in [does : {"read", "offer"}, m : Messages] \cup {Idle} /\ Idle.does = "nothing"
    BY DEF TypeOK, ReceiverTyped, Idle
  <2> QED BY <2>1
<1>4. CASE Rename
  BY <1>1, <1>2, <1>4 DEF Rename, Renames, PassesOn
<1>5. CASE Read
  BY <1>3, <1>5 DEF Read, Reads, PassesOn
<1>6. CASE Admit
  BY <1>3, <1>6 DEF Admit, Admits, PassesOn
<1>7. CASE Sweep
  BY <1>1, <1>2, <1>7 DEF Sweep, Sweeps, PassesOn
<1> QED BY <1>4, <1>5, <1>6, <1>7 DEF Courier, Closer, Housekeeping, PassesOn

\* No reply is owed before the inbox is closed.
LEMMA OwingKept ==
  ASSUME NothingOwing, Housekeeping \/ \E m \in Messages : Keeper(m)
  PROVE  NothingOwing'
<1> USE DEF closer, inbox, Closes, Closing, NothingOwing
<1>1. ASSUME NEW m \in Messages, Receive(m) PROVE NothingOwing'
  BY <1>1 DEF Receive, Take, Pass, Glance, ClaimForReceiver, Expire, Release, LetGo, Answer, Drop,
     Replies, Receiving
<1>2. ASSUME NEW m \in Messages, SettlesOn(m) \/ SettleWrite(m) PROVE NothingOwing'
  BY <1>2 DEF SettlesOn, SettleClaim, SettleLook, SettleWrite, SettleRemove, SettleClear, Writing,
     Inside
<1>3. ASSUME NEW m \in Messages, PassesOn(m) PROVE NothingOwing'
  BY <1>3 DEF PassesOn, Renames, Reads, Admits, Sweeps, Rename, Read, Admit, Sweep, Reply, Serving
<1>4. CASE List \/ Retract \/ Unlock \/ Reopen \/ Bind
  BY <1>4 DEF List, Retract, Unlock, Reopen, Bind, Serving
<1>5. CASE Record \/ ListLast \/ Close \/ Crash
  BY <1>5 DEF Record, ListLast, Close, Crash
<1> QED BY <1>1, <1>2, <1>3, <1>4, <1>5 DEF Keeper, Housekeeping

----------------------------------------------------------------------------
(* Every step keeps the invariant. *)

HadKept == "answer" \notin Refusable /\ HadInv => HadInv'

LEMMA SendersKeep ==
  ASSUME IInv, NEW m \in Messages, Sends(m)
  PROVE  IInv' /\ HadKept
<1>1. TypeOK /\ NothingOwing /\ Core(m) /\ SenderShape(m)
  BY DEF IInv, Core
<1>2. SendersOwn(m) /\ MovesWell(m)
  BY <1>1, SendersLocal, SendersMoveWell
<1>3. TypeOK'
  BY <1>1, SendersKeepTypes
<1>4. NothingOwing'
  BY <1>1, <1>2 DEF SendersOwn, NothingOwing
<1>5. \A k \in Messages \ {m} : Untouched(k)
  BY <1>2 DEF SendersOwn, Untouched, InCourier, Within
<1>6. \A k \in Messages : Core(k)' /\ (HadIsKept(k) => HadIsKept(k)')
  <2>1. Core(m)' /\ (HadIsKept(m) => HadIsKept(m)')
    BY <1>1, <1>2, MovesKeep
  <2>2. ASSUME NEW k \in Messages \ {m} PROVE Core(k)' /\ (HadIsKept(k) => HadIsKept(k)')
    <3>1. Core(k) /\ Untouched(k)
      BY <1>5 DEF IInv
    <3> QED BY <3>1, UntouchedKeeps
  <2> QED BY <2>1, <2>2
<1> QED BY <1>3, <1>4, <1>6 DEF IInv, HadKept, HadInv

LEMMA KeepersKeep ==
  ASSUME IInv, NEW m \in Messages, Keeper(m)
  PROVE  IInv' /\ HadKept
<1>1. TypeOK /\ NothingOwing /\ Core(m)
  BY DEF IInv
<1>2. TypeOK' /\ NothingOwing'
  BY <1>1, ReceiverKeepsTypes, OwingKept
<1>3. /\ Core(m)'
      /\ "answer" \notin Refusable /\ HadIsKept(m) => HadIsKept(m)'
      /\ \A k \in Messages \ {m} : Untouched(k)
  <2>1. CASE Receive(m)
    BY <1>1, <2>1, ReceiveKeeps
  <2>2. CASE SettlesOn(m)
    BY <1>1, <2>2, SettleKeeps
  <2>3. CASE SettleWrite(m)
    BY <1>1, <2>3, SettleWriteKeeps
  <2>4. CASE PassesOn(m)
    BY <1>1, <2>4, PassesKeep
  <2> QED BY <2>1, <2>2, <2>3, <2>4 DEF Keeper
<1>4. \A k \in Messages \ {m} : Core(k)' /\ (HadIsKept(k) => HadIsKept(k)')
  <2> TAKE k \in Messages \ {m}
  <2>1. Core(k) /\ Untouched(k)
    BY <1>3 DEF IInv
  <2> QED BY <2>1, UntouchedKeeps
<1> QED BY <1>2, <1>3, <1>4 DEF IInv, HadKept, HadInv

LEMMA HousekeepingKeeps ==
  ASSUME IInv, Housekeeping
  PROVE  IInv' /\ HadKept
<1>1. TypeOK /\ NothingOwing
  BY DEF IInv
<1>2. TypeOK' /\ NothingOwing'
  BY <1>1, HousekeepingKeepsTypes, OwingKept
<1>3. \A m \in Messages : Core(m)' /\ (HadIsKept(m) => HadIsKept(m)')
  <2> TAKE m \in Messages
  <2>1. Core(m)
    BY DEF IInv
  <2>2. CASE Close
    BY <1>1, <2>1, <2>2, CloseKeeps
  <2>3. CASE Crash
    BY <2>1, <2>3, CrashKeeps
  <2>4. CASE List \/ Retract \/ Unlock \/ Reopen \/ Record \/ ListLast \/ Bind
    BY <1>1, <2>1, <2>4, HousekeepingUntouched, UntouchedKeeps
  <2> QED BY <2>2, <2>3, <2>4 DEF Housekeeping
<1> QED BY <1>2, <1>3 DEF IInv, HadKept, HadInv

LEMMA Initially == Init => IInv /\ HadInv
<1> SUFFICES ASSUME Init PROVE IInv /\ HadInv
  OBVIOUS
<1>1. TypeOK
  <2>1. DirectoryTyped
    BY DEF Init, DirectoryTyped
  <2>2. SendersTyped
    BY DEF Init, SendersTyped, Nothing
  <2>3. ReceiverTyped
    <3>1. binds \in 0..Lives
      <4>1. binds = 0 /\ Lives \in Nat
        BY SpoolAssumption DEF Init
      <4> QED BY <4>1
    <3>2. settling \in [Messages -> {NotSettling}]
      BY DEF Init, NotSettling
    <3> QED BY <3>1, <3>2 DEF Init, ReceiverTyped, Idle
  <2>4. faults \in 0..Faults
    <3>1. faults = Faults /\ Faults \in Nat
      BY SpoolAssumption DEF Init
    <3> QED BY <3>1
  <2> QED BY <2>1, <2>2, <2>3, <2>4 DEF Init, TypeOK
<1>2. NothingOwing
  BY DEF Init, NothingOwing
<1>3. ASSUME NEW m \in Messages PROVE Core(m) /\ HadIsKept(m)
  <2>1. /\ files[m] = {} /\ at[m] = "start" /\ call[m] = "offer" /\ told[m] = Nothing
        /\ courier.does = "nothing" /\ inside.does = "nothing" /\ settling[m].does = "nothing"
        /\ m \notin queue /\ m \notin owed /\ m \notin replies /\ m \notin hand /\ m \notin held
        /\ m \notin had
    BY DEF Init
  <2> QED BY <2>1 DEF Core, InOnePlace, InsideIsQueued, SenderShape, ExpiredIsOut, HeldIsClaimed,
          WithdrawnIsClaimed, StillTaken, TakenIsSomewhere, HadIsKept, Begun, Has, InCourier,
          InSettling, Within, Early, SenderClaims, GaveUp, Nothing
<1> QED BY <1>1, <1>2, <1>3 DEF IInv, HadInv

LEMMA NextKeeps == IInv /\ [Next]_vars => IInv' /\ HadKept
<1> SUFFICES ASSUME IInv, [Next]_vars PROVE IInv' /\ HadKept
  OBVIOUS
<1>1. ASSUME NEW m \in Messages, Sends(m) PROVE IInv' /\ HadKept
  BY <1>1, SendersKeep
<1>2. ASSUME NEW m \in Messages, Receive(m) \/ SettleSteps(m) PROVE IInv' /\ HadKept
  BY <1>2, KeepersKeep DEF Keeper, SettlesOn, SettleSteps
<1>3. ASSUME Courier \/ Retract \/ Closer \/ Close \/ Bind \/ Crash PROVE IInv' /\ HadKept
  <2>1. Housekeeping \/ \E m \in Messages : PassesOn(m)
    BY <1>3, OneAtATime DEF IInv
  <2>2. CASE Housekeeping
    BY <2>2, HousekeepingKeeps
  <2>3. CASE \E m \in Messages : PassesOn(m)
    BY <2>3, KeepersKeep DEF Keeper
  <2> QED BY <2>1, <2>2, <2>3
<1>4. CASE UNCHANGED vars
  <2>1. TypeOK'
    <3> USE <1>4 DEF vars, dir, receiver, inbox, serving, closer, sender, world
    <3>1. TypeOK
      BY DEF IInv
    <3>2. DirectoryTyped'
      BY <3>1 DEF TypeOK, DirectoryTyped
    <3>3. SendersTyped'
      BY <3>1 DEF TypeOK, SendersTyped
    <3>4. ReceiverTyped'
      BY <3>1 DEF TypeOK, ReceiverTyped
    <3> QED BY <3>1, <3>2, <3>3, <3>4 DEF TypeOK
  <2>2. NothingOwing'
    BY <1>4 DEF IInv, NothingOwing, vars, receiver, inbox, closer
  <2>3. \A m \in Messages : Untouched(m)
    BY <1>4 DEF Untouched, InCourier, Within, vars, dir, receiver, inbox, serving, sender, world
  <2> QED BY <2>1, <2>2, <2>3, UntouchedKeeps DEF IInv, HadKept, HadInv
<1> QED BY <1>1, <1>2, <1>3, <1>4 DEF Next, Sends

----------------------------------------------------------------------------
(* The theorems. *)

LEMMA Invariant == Spec => []IInv
<1>1. Init => IInv
  BY Initially
<1>2. IInv /\ [Next]_vars => IInv'
  BY NextKeeps
<1> QED BY <1>1, <1>2, PTL DEF Spec

\* Every variable keeps its type, whatever the senders and the receiver do and
\* whatever the file system refuses.
THEOREM TypeCorrect == Spec => []TypeOK
<1>1. IInv => TypeOK
  BY DEF IInv
<1> QED BY <1>1, Invariant, PTL

\* Taking a message and withdrawing it never both succeed (`Hold::claim` and
\* `Exchange::withdraw`, both by the claim file), for any number of messages, senders
\* and bindings of the spool and whatever else the file system refuses, so long as it
\* refuses no answer: the claim of a message whose answer could not be written is
\* discarded before its sender has anything to find.
THEOREM NeverBoth ==
  ASSUME "answer" \notin Refusable
  PROVE  Spec => []NeverHadOnceGivenUp
<1>1. Init => IInv /\ HadInv
  BY Initially
<1>2. IInv /\ HadInv /\ [Next]_vars => IInv' /\ HadInv'
  BY NextKeeps DEF HadKept
<1>3. TypeOK /\ HadInv => NeverHadOnceGivenUp
  BY DEF HadInv, HadIsKept, NeverHadOnceGivenUp, TypeOK
<1>4. IInv => TypeOK
  BY DEF IInv
<1> QED BY <1>1, <1>2, <1>3, <1>4, PTL DEF Spec

\* A taken file in the directory is of a message that its receiver is carrying in, has
\* queued, handed out or is answering, or of one its sender will be told expired, but
\* for the messages whose receiver went away or whose operation the file system refused.
THEOREM TakenIsAccounted == Spec => []TakenIsAccountedFor
<1>1. IInv => TakenIsAccountedFor
  <2> SUFFICES ASSUME IInv, NEW m \in Messages \ excused, Has(m, "taken")
               PROVE  \/ m \in queue \cup hand \cup replies
                      \/ courier # Idle /\ courier.m = m
                      \/ inside # Idle /\ inside.m = m
                      \/ settling[m] # NotSettling
                      \/ Has(m, "expired")
    BY DEF TakenIsAccountedFor
  <2>1. Core(m) /\ owed \subseteq hand
    BY DEF IInv, TypeOK, ReceiverTyped
  <2>2. \/ InCourier(m) \/ m \in queue \cup owed \cup replies
        \/ Within("let go", m) \/ InSettling(m) \/ Has(m, "expired")
    BY <2>1 DEF Core, TakenIsSomewhere
  <2>3. InCourier(m) => courier # Idle /\ courier.m = m
    BY DEF InCourier, Idle
  <2>4. Within("let go", m) => inside # Idle /\ inside.m = m
    <3>1. Idle.does = "nothing"
      BY DEF Idle
    <3> QED BY <3>1 DEF Within
  <2>5. InSettling(m) => settling[m] # NotSettling
    BY DEF InSettling, NotSettling
  <2> QED BY <2>1, <2>2, <2>3, <2>4, <2>5
<1> QED BY <1>1, Invariant, PTL

----------------------------------------------------------------------------
(* Answers arrive: what this needs of the receiver's process, and of a message. *)

\* A courier at work serves, a close is of a bound inbox, and a spool closed for good
\* says so, unless the file system refused to.
Lifetimes ==
  /\ courier.does # "nothing" \/ listed # {} => phase = "serving"
  /\ closing # "no" => closed /\ phase \in {"serving", "leaving", "unbound"}
  /\ closing \in {"list", "sweep"} => closedFile \/ excused = Messages
  /\ sweep # {} => closing = "sweep"
  /\ phase = "binding" => ~closed
  /\ closed => queue = {} /\ owed = {} /\ inside.does = "nothing"

Returned == {"ending", "over"}
Unmet(m) == m \notin excused /\ at[m] \notin Returned

\* An answer is one its receiver gave, and a message is lost for a reason.
AnswerIsGiven(m) ==
  /\ answer[m] = "answered" \/ told[m] = "answered" => m \in given
  /\ InSettling(m) /\ settling[m].body = "answered" => m \in given
  /\ told[m] = "abandoned" => m \in excused

\* A message whose answer was given, or is there, is settled for good.
SettledOnce(m) ==
  /\ m \in given \/ answer[m] # Nothing =>
       /\ Begun(m) /\ ~InCourier(m) /\ m \notin queue \cup owed \cup replies
       /\ ~Within("let go", m)
  /\ m \in given => ~Has(m, "expired")
  /\ answer[m] # Nothing => settling[m].does \notin {"claim", "look", "write"}

\* A sender told of an answer, or of none, is told so of a message nobody has any more.
ToldIsDone(m) ==
  m \notin excused /\ told[m] \in Bodies \cup {"unsettled"} =>
    ~Has(m, "offer") /\ ~InCourier(m) /\ m \notin queue \cup owed /\ ~Within("let go", m)

\* The admitted file, and what a sender made of it.
AdmittedOnce(m) ==
  /\ Has(m, "offer") => files[m] = {"offer"}
  /\ InCourier(m) => ~Has(m, "admitted") /\ at[m] \notin {"kept", "unsettled?", "give back"}
  /\ m \in queue \cup owed \/ Within("let go", m) => Has(m, "admitted")
  /\ at[m] = "unsettled?" => ~Has(m, "admitted")
  /\ at[m] = "unadmitted?" => admits[m] = "then taken"
  /\ at[m] = "give back" => answer[m] # Nothing \/ admits[m] = "then taken"

\* A claim the receiver finds is its sender's, who has yet to decide or took the
\* message back.
ClaimIsSenders(m) ==
  /\ m \notin held /\ Has(m, "claimed")
  /\ InCourier(m) \/ m \in queue \cup replies \/ settling[m].does = "claim"
  => at[m] \in SenderClaims \cup Returned

\* A receiver that removed the taken file left an answer, or its sender has the claim.
RemovedIsAnswered(m) ==
  Unmet(m) /\ Begun(m) /\ (~Has(m, "taken") \/ settling[m].does \in {"remove", "clear"}) =>
    answer[m] # Nothing \/ at[m] \in SenderClaims \/ at[m] = "why?"

\* The receiver that has a message is the one that is bound, or closed the spool.
StaysInSight(m) ==
  Unmet(m) /\ Begun(m) =>
    phase = "serving" \/ (closing = "sweep" /\ phase \in {"leaving", "unbound"})

EndsUnbound(m) ==
  m \notin excused /\ at[m] \in {"ended", "clear", "why?"} =>
    ~Bound \/ (at[m] = "ended" /\ answer[m] # Nothing)

\* An answer given is on its way, there for its sender to find, or told.
GivenArrives(m) ==
  m \in given \ excused =>
    /\ phase = "serving" \/ at[m] \in Returned
    /\ at[m] \notin {"unadmitted?", "clear", "why?"}
    /\ \/ told[m] \in {"answered", "unheard", "unclaimable"}
       \/ told[m] = Nothing /\ answer[m] = "answered"
       \/ /\ told[m] = Nothing /\ answer[m] = Nothing
          /\ settling[m].does \in {"claim", "look", "write"} /\ settling[m].body = "answered"
          /\ m \in held /\ Has(m, "taken") /\ Has(m, "admitted")

Arrives(m) ==
  /\ AnswerIsGiven(m) /\ SettledOnce(m) /\ ToldIsDone(m) /\ AdmittedOnce(m) /\ ClaimIsSenders(m)
  /\ RemovedIsAnswered(m) /\ StaysInSight(m) /\ EndsUnbound(m) /\ GivenArrives(m)

ArrivesInv == Lifetimes /\ \A m \in Messages : Arrives(m)

----------------------------------------------------------------------------
(* A step that leaves a message alone, or the process it is in. *)

Unmoved(m) ==
  /\ files'[m] = files[m] /\ answer'[m] = answer[m] /\ settling'[m] = settling[m]
  /\ at'[m] = at[m] /\ told'[m] = told[m] /\ admits'[m] = admits[m]
  /\ (m \in queue' <=> m \in queue) /\ (m \in owed' <=> m \in owed)
  /\ (m \in replies' <=> m \in replies) /\ (m \in held' <=> m \in held)
  /\ (m \in given' <=> m \in given) /\ (m \in excused => m \in excused')
  /\ InCourier(m)' <=> InCourier(m)
  /\ Within("let go", m)' <=> Within("let go", m)
  /\ phase' = phase /\ closing' = closing

LEMMA UnmovedArrives ==
  ASSUME NEW m \in Messages, Unmoved(m), Arrives(m)
  PROVE  Arrives(m)'
<1>1. /\ \A f : Has(m, f)' <=> Has(m, f)
      /\ Begun(m)' <=> Begun(m)
      /\ InSettling(m)' <=> InSettling(m)
      /\ InCourier(m)' <=> InCourier(m)
      /\ Within("let go", m)' <=> Within("let go", m)
      /\ Bound' <=> Bound
      /\ Unmet(m)' => Unmet(m)
  BY DEF Unmoved, Has, Begun, InSettling, Bound, Unmet
<1>2. AnswerIsGiven(m)' /\ SettledOnce(m)'
  BY <1>1 DEF Unmoved, Arrives, AnswerIsGiven, SettledOnce
<1>3. ToldIsDone(m)' /\ AdmittedOnce(m)' /\ ClaimIsSenders(m)'
  BY <1>1 DEF Unmoved, Arrives, ToldIsDone, AdmittedOnce, ClaimIsSenders
<1>4. RemovedIsAnswered(m)' /\ StaysInSight(m)'
  BY <1>1 DEF Unmoved, Arrives, RemovedIsAnswered, StaysInSight
<1>5. EndsUnbound(m)' /\ GivenArrives(m)'
  BY <1>1 DEF Unmoved, Arrives, EndsUnbound, GivenArrives
<1> QED BY <1>2, <1>3, <1>4, <1>5 DEF Arrives

----------------------------------------------------------------------------
(* A sender's step, for its own message. *)

\* What a step of a sender may say, and what it has to have seen for it.
SaysRight(m) ==
  \/ told'[m] = told[m] \/ told'[m] \in {"unheard", "unclaimable"}
  \/ answer[m] # Nothing /\ told'[m] = answer[m]
  \/ told'[m] = "abandoned" /\ at[m] = "why?" /\ ~closedFile
  \/ told'[m] = "closed" /\ (at[m] \in {"start", "why?"} \/ (Has(m, "offer") /\ ~Has(m, "offer")'))
  \/ told'[m] = "unsettled" /\ at[m] = "unsettled?" /\ answer[m] = Nothing
  \/ /\ told'[m] \in GaveUp
     /\ \/ at[m] = "unadmitted?" \/ Has(m, "offer") \/ Has(m, "expired")
        \/ at[m] = "answered?" /\ answer[m] = Nothing

\* What it may do to the files and to the answer.
LeavesRight(m) ==
  /\ Begun(m) => Begun(m)'
  /\ Begun(m)' => Begun(m) \/ at'[m] \in Returned
  /\ Has(m, "offer")' =>
       \/ Has(m, "offer") /\ files'[m] = files[m]
       \/ files'[m] = {"offer"} /\ at'[m] \notin Returned
  /\ Has(m, "expired")' => Has(m, "expired")
  /\ Has(m, "admitted")' => Has(m, "admitted")
  /\ Has(m, "admitted") => Has(m, "admitted")' \/ Has(m, "expired")
  /\ Has(m, "taken")' => Has(m, "taken")
  /\ Has(m, "taken") => Has(m, "taken")' \/ at'[m] \in Over
  /\ Has(m, "claimed")' => Has(m, "claimed") \/ at'[m] \in SenderClaims
  /\ at[m] \in SenderClaims /\ at'[m] \notin SenderClaims \cup Returned => ~Has(m, "claimed")'
  /\ at[m] \in SenderClaims /\ at'[m] \notin SenderClaims \cup Returned =>
       answer[m] # Nothing \/ m \in excused'
  /\ answer'[m] \in {answer[m], Nothing}
  /\ answer[m] # Nothing => answer'[m] = answer[m] \/ at'[m] \in Returned

\* Where it may go, and what it has to have seen for it.
GoesRight(m) ==
  /\ at[m] \in Returned => at'[m] \in Returned /\ told'[m] = told[m]
  /\ at'[m] \in Returned \/ told'[m] = told[m]
  /\ at'[m] = "kept" => at[m] \in {"kept", "give back"} \/ (at[m] = "claim" /\ Has(m, "claimed"))
  /\ at'[m] = "unsettled?" => at[m] = "unsettled?" \/ ~Has(m, "admitted")
  /\ at'[m] = "unsettled?" => at[m] \in {"kept", "unsettled?"}
  /\ at'[m] = "give back" =>
       \/ at[m] = "give back"
       \/ at[m] = "answered?" /\ answer[m] # Nothing
       \/ at[m] = "unadmitted?" /\ Has(m, "admitted")
  /\ at'[m] = "unadmitted?" =>
       at[m] = "unadmitted?" \/ (at[m] = "answered?" /\ answer[m] = Nothing
              /\ admits[m] = "then taken")
  /\ at'[m] \in {"unadmitted?", "give back"} => admits'[m] = admits[m]
  /\ at'[m] \in {"answered?"} => at[m] = "answered?" \/ (at[m] = "claim" /\ ~Has(m, "claimed"))
  /\ at'[m] = "ended" => at[m] = "ended" \/ ~Bound \/ (at[m] = "held?" /\ ~Has(m, "taken"))
  /\ at'[m] = "clear" => at[m] = "clear" \/ (at[m] = "ended" /\ answer[m] = Nothing)
  /\ at'[m] = "why?" => at[m] \in {"clear", "why?"}
  /\ at[m] = "why?" => at'[m] \in {"why?"} \cup Returned

MovesOn(m) == SaysRight(m) /\ LeavesRight(m) /\ GoesRight(m)

\* What of everything else a sender's step leaves alone.
LeavesElse(m) ==
  /\ SendersOwn(m)
  /\ UNCHANGED <<phase, closed, closing, sweep, listed, closedFile>>
  /\ \A k \in Messages \ {m} : admits'[k] = admits[k]

LEMMA MovesArrive ==
  ASSUME TypeOK, NEW m \in Messages, Core(m), SenderShape(m)', LeavesElse(m), MovesOn(m),
         Lifetimes, Arrives(m)
  PROVE  Arrives(m)'
<1>1. /\ (m \in queue' <=> m \in queue) /\ (m \in owed' <=> m \in owed)
      /\ (m \in replies' <=> m \in replies) /\ (m \in held' <=> m \in held)
      /\ m \in given' <=> m \in given
      /\ m \in excused => m \in excused'
      /\ InCourier(m)' <=> InCourier(m)
      /\ InSettling(m)' <=> InSettling(m)
      /\ settling'[m] = settling[m]
      /\ Within("let go", m)' <=> Within("let go", m)
      /\ phase' = phase /\ closing' = closing
      /\ Bound' <=> Bound
  BY DEF LeavesElse, SendersOwn, InCourier, InSettling, Within, Bound
<1>2. at[m] = "why?" /\ m \notin excused =>
        /\ closedFile \/ excused = Messages
        /\ queue = {} /\ owed = {} /\ inside.does = "nothing" /\ courier.does = "nothing"
  <2> SUFFICES ASSUME at[m] = "why?", m \notin excused
               PROVE  /\ closedFile \/ excused = Messages
                      /\ queue = {} /\ owed = {} /\ inside.does = "nothing"
                      /\ courier.does = "nothing"
    OBVIOUS
  <2>1. Begun(m) /\ Unmet(m)
    BY DEF Core, SenderShape, Begun, Early, Unmet, Returned
  <2>2. ~Bound
    BY DEF Arrives, EndsUnbound
  <2>3. closing = "sweep" /\ phase # "serving"
    BY <2>1, <2>2 DEF Arrives, StaysInSight, Bound
  <2> QED BY <2>3 DEF Lifetimes
<1>n. Nothing = "nothing"
  BY DEF Nothing
<1>b. answer[m] # "abandoned" /\ GaveUp = {"elapsed", "expired", "withdrawn"}
  BY DEF TypeOK, DirectoryTyped, Bodies, Nothing, GaveUp
<1> USE DEF Returned
<1>3. AnswerIsGiven(m)'
  BY <1>1, <1>2, <1>n, <1>b DEF Arrives, AnswerIsGiven, MovesOn, SaysRight, LeavesRight
<1>4. SettledOnce(m)'
  BY <1>1 DEF Arrives, SettledOnce, MovesOn, LeavesRight
<1>d. ToldIsDone(m)'
  <2> SUFFICES ASSUME m \notin excused', m \notin excused, told'[m] \in Bodies \cup {"unsettled"}
               PROVE  ToldIsDone(m)'
    BY <1>1 DEF ToldIsDone
  <2> DEFINE Out == ~InCourier(m) /\ m \notin queue \cup owed /\ ~Within("let go", m)
  <2>0. Bodies = {"answered", "let go", "closed", "refused"}
        /\ GaveUp = {"elapsed", "expired", "withdrawn"}
    BY DEF Bodies, GaveUp
  <2>1. at'[m] \in Returned
    BY <1>n, <2>0 DEF SenderShape
  <2>2. ~Begun(m) => Out
    BY DEF Core, InOnePlace
  <2>3. Out /\ ~Has(m, "offer")'
    <3>1. CASE told'[m] = told[m]
      BY <2>1, <3>1 DEF Arrives, ToldIsDone, MovesOn, LeavesRight, SaysRight
    <3>2. CASE answer[m] # Nothing
      BY <3>2, <2>1 DEF Arrives, SettledOnce, MovesOn, LeavesRight, Begun
    <3>3. CASE told'[m] = "closed" /\ at[m] = "start"
      BY <2>1, <2>2, <3>3 DEF Core, SenderShape, Begun, Early, Has, MovesOn, LeavesRight
    <3>4. CASE told'[m] = "closed" /\ at[m] = "why?"
      BY <1>2, <3>4 DEF Core, SenderShape, Begun, Early, Within, InCourier, MovesOn, LeavesRight
    <3>5. CASE told'[m] = "closed" /\ Has(m, "offer") /\ ~Has(m, "offer")'
      BY <2>2, <3>5 DEF Begun
    <3>6. CASE told'[m] = "unsettled" /\ at[m] = "unsettled?"
      BY <3>6 DEF Arrives, AdmittedOnce, Core, SenderShape, Begun, Early, MovesOn, LeavesRight
    <3> QED BY <1>n, <2>0, <3>1, <3>2, <3>3, <3>4, <3>5, <3>6 DEF MovesOn, SaysRight
  <2> QED BY <1>1, <2>3 DEF ToldIsDone
<1>5. AdmittedOnce(m)'
  <2>1. InCourier(m) => ~Has(m, "expired") /\ m \notin held
    BY DEF Core, ExpiredIsOut, HeldIsClaimed
  <2>2. m \in queue \cup owed \/ Within("let go", m) => ~Has(m, "expired")
    BY DEF Core, ExpiredIsOut
  <2>3. InCourier(m)' => ~Has(m, "admitted")' /\ at'[m] \notin {"kept", "unsettled?", "give back"}
    BY <1>1, <2>1 DEF Arrives, AdmittedOnce, ClaimIsSenders, SettledOnce, SenderClaims, MovesOn,
       LeavesRight, GoesRight
  <2>4. m \in (queue \cup owed)' \/ Within("let go", m)' => Has(m, "admitted")'
    BY <1>1, <2>2 DEF Arrives, AdmittedOnce, MovesOn, LeavesRight
  <2>5. at'[m] = "unsettled?" => ~Has(m, "admitted")'
    BY DEF Arrives, AdmittedOnce, MovesOn, LeavesRight, GoesRight
  <2>6. at'[m] = "unadmitted?" => admits'[m] = "then taken"
    BY DEF Arrives, AdmittedOnce, MovesOn, GoesRight
  <2>7. at'[m] = "give back" => answer'[m] # Nothing \/ admits'[m] = "then taken"
    BY DEF Arrives, AdmittedOnce, MovesOn, LeavesRight, GoesRight
  <2>8. Has(m, "offer")' => files'[m] = {"offer"}
    BY DEF Arrives, AdmittedOnce, MovesOn, LeavesRight
  <2> QED BY <2>3, <2>4, <2>5, <2>6, <2>7, <2>8 DEF AdmittedOnce
<1>6. ClaimIsSenders(m)'
  BY <1>1 DEF Arrives, ClaimIsSenders, MovesOn, LeavesRight, GoesRight
<1>7. RemovedIsAnswered(m)'
  BY <1>1 DEF Arrives, RemovedIsAnswered, Unmet, MovesOn, LeavesRight, GoesRight, Over
<1>8. StaysInSight(m)'
  BY <1>1 DEF Arrives, StaysInSight, Unmet, MovesOn, LeavesRight, GoesRight
<1>9. EndsUnbound(m)'
  <2>1. at[m] = "held?" => Begun(m)
    BY DEF Core, SenderShape, Begun, Early
  <2>2. at[m] = "held?" /\ ~Has(m, "taken") /\ m \notin excused => answer[m] # Nothing
    BY <2>1 DEF Arrives, RemovedIsAnswered, Unmet, SenderClaims
  <2> QED BY <1>1, <2>2 DEF Arrives, EndsUnbound, MovesOn, LeavesRight, GoesRight
<1>10. GivenArrives(m)'
  <2> SUFFICES ASSUME m \in given, m \notin excused, m \notin excused' PROVE GivenArrives(m)'
    BY <1>1 DEF GivenArrives
  <2>1. GivenArrives(m) /\ (phase = "serving" \/ at[m] \in Returned)
         /\ at[m] \notin {"unadmitted?", "clear", "why?"}
    BY DEF Arrives, GivenArrives
  <2>2. Begun(m) /\ ~Has(m, "expired") /\ ~Has(m, "offer") /\ at[m] \notin Early
    BY DEF Arrives, SettledOnce, Begun
  <2>3. at[m] \in SenderClaims => answer[m] # Nothing \/ told[m] # Nothing
    BY <1>n, <2>1 DEF GivenArrives, Core, HeldIsClaimed
  <2>4. told[m] # Nothing <=> at[m] \in Returned
    BY DEF Core, SenderShape
  <2>5. told'[m] # Nothing <=> at'[m] \in Returned
    BY DEF SenderShape
  <2>6. at'[m] \notin {"unadmitted?", "clear", "why?"}
    <3>1. at[m] = "ended" => answer[m] # Nothing
      BY <2>1 DEF Arrives, EndsUnbound, Bound
    <3>2. at[m] = "answered?" => answer[m] # Nothing
      BY <2>3, <2>4 DEF SenderClaims
    <3> QED BY <2>1, <3>1, <3>2 DEF MovesOn, GoesRight
  <2>p. phase' = "serving" \/ at'[m] \in Returned
    BY <1>1, <2>1 DEF MovesOn, GoesRight
  <2>7. CASE told[m] # Nothing
    BY <1>1, <1>n, <2>1, <2>4, <2>6, <2>7 DEF MovesOn, GoesRight, GivenArrives
  <2>8. CASE told[m] = Nothing /\ answer[m] = "answered"
    <3>1. told'[m] = Nothing \/ told'[m] \in {"answered", "unheard", "unclaimable"}
      BY <1>n, <1>b, <2>1, <2>2, <2>8 DEF MovesOn, SaysRight, Early
    <3>2. told'[m] = Nothing => answer'[m] = "answered"
      BY <1>n, <2>5, <2>8 DEF MovesOn, LeavesRight
    <3> QED BY <1>1, <2>p, <2>6, <3>1, <3>2 DEF GivenArrives
  <2>9. CASE told[m] = Nothing /\ answer[m] = Nothing
    <3>1. /\ settling[m].does \in {"claim", "look", "write"} /\ settling[m].body = "answered"
          /\ m \in held /\ Has(m, "taken") /\ Has(m, "admitted")
      BY <1>n, <2>1, <2>9 DEF GivenArrives
    <3>2. at[m] \notin SenderClaims /\ at[m] # "unsettled?"
      BY <2>3, <2>9, <3>1 DEF Arrives, AdmittedOnce
    <3>3. told'[m] = Nothing \/ told'[m] \in {"unheard", "unclaimable"}
      BY <1>n, <1>b, <2>1, <2>2, <2>9, <3>2 DEF MovesOn, SaysRight, Early, SenderClaims
    <3>4. answer'[m] = Nothing
      BY <2>9 DEF MovesOn, LeavesRight
    <3>5. told'[m] = Nothing => Has(m, "taken")' /\ Has(m, "admitted")'
      BY <2>2, <2>5, <2>6, <3>1 DEF MovesOn, LeavesRight, Over
    <3> QED BY <1>1, <2>p, <2>6, <3>1, <3>3, <3>4, <3>5 DEF GivenArrives
  <2> QED BY <1>n, <2>1, <2>7, <2>8, <2>9 DEF GivenArrives
<1> QED BY <1>3, <1>4, <1>d, <1>5, <1>6, <1>7, <1>8, <1>9, <1>10 DEF Arrives
----------------------------------------------------------------------------

\* What a sender's step makes of its message, and of its answer.
Did(m, fs, to, said, found) ==
  /\ files'[m] = fs /\ at'[m] = to /\ told'[m] = said /\ answer'[m] = found
  /\ admits'[m] = admits[m] \/ at[m] = "whose?"

LEMMA SendersMoveOn ==
  ASSUME TypeOK, NEW m \in Messages, Core(m), AdmittedOnce(m), Sends(m)
  PROVE  MovesOn(m)
<1>t. /\ files \in [Messages -> SUBSET Suffixes] /\ answer \in [Messages -> Bodies \cup {Nothing}]
      /\ DOMAIN at = Messages /\ DOMAIN call = Messages /\ DOMAIN told = Messages
      /\ DOMAIN admits = Messages
  BY DEF TypeOK, DirectoryTyped, SendersTyped
<1>s. /\ SenderShape(m)
      /\ at[m] \in {"claim", "give back", "answered?", "unadmitted?"} =>
           call[m] \in {"offer", "until", "withdraw"}
  BY DEF Core, SenderShape, SenderClaims
<1>o. SendersOwn(m)
  BY <1>s, SendersLocal
<1>x. m \in excused => m \in excused'
  BY <1>o DEF SendersOwn
<1>h. /\ at[m] = "give back" => answer[m] # Nothing \/ admits[m] = "then taken"
      /\ Has(m, "offer") => ~Has(m, "taken") /\ ~Has(m, "expired")
      /\ told[m] # Nothing <=> at[m] \in Returned
      /\ at[m] \in Early => files[m] = {}
      /\ Has(m, "offer") =>
             at[m] \in {"look", "seek", "closed?", "unoffer", "unoffer, closed", "ending", "over"}
  BY <1>s DEF AdmittedOnce, Core, TakenIsSomewhere, ExpiredIsOut, Begun, SenderShape, Returned
<1> USE DEF Did, Nothing, Begun, Has, Over, SenderClaims, Early, GaveUp, Bodies, Clutter, Returned
<1>1. CASE Start(m)
  <2>1. at[m] = "start"
    BY <1>1 DEF Start, Steps, Calls
  <2>2. \/ Did(m, files[m], "write", told[m], answer[m])
        \/ Did(m, files[m], "over", "closed", answer[m])
    BY <1>t, <1>s, <1>1 DEF Start, Looking, Waiting, SameCall, receiver, inbox,
     serving, closer, world, Goes, Steps, Tell, Becomes, Create, Remove, ReadAnswer, Admitted,
     Discard, Calls
  <2>3. CASE Did(m, files[m], "write", told[m], answer[m])
    <3>1. SaysRight(m)
      BY <1>x, <1>h, <2>1, <2>3 DEF SaysRight
    <3>2. LeavesRight(m)
      BY <1>x, <1>h, <2>1, <2>3 DEF LeavesRight
    <3>3. GoesRight(m)
      BY <1>x, <1>h, <2>1, <2>3 DEF GoesRight
    <3> QED BY <3>1, <3>2, <3>3 DEF MovesOn
  <2>4. CASE Did(m, files[m], "over", "closed", answer[m])
    <3>1. SaysRight(m)
      BY <1>x, <1>h, <2>1, <2>4 DEF SaysRight
    <3>2. LeavesRight(m)
      BY <1>x, <1>h, <2>1, <2>4 DEF LeavesRight
    <3>3. GoesRight(m)
      BY <1>x, <1>h, <2>1, <2>4 DEF GoesRight
    <3> QED BY <3>1, <3>2, <3>3 DEF MovesOn
  <2> QED BY <2>2, <2>3, <2>4
<1>2. CASE WriteOffer(m)
  <2>1. at[m] = "write"
    BY <1>2 DEF WriteOffer, Steps, Calls
  <2>2. Did(m, files[m] \cup {"offer"}, "look", told[m], answer[m])
    BY <1>t, <1>s, <1>2 DEF WriteOffer, Looking, Waiting, SameCall, receiver, inbox,
     serving, closer, world, Goes, Steps, Tell, Becomes, Create, Remove, ReadAnswer, Admitted,
     Discard, Calls
  <2> QED
    <3>1. SaysRight(m)
      BY <1>x, <1>h, <2>1, <2>2 DEF SaysRight
    <3>2. LeavesRight(m)
      BY <1>x, <1>h, <2>1, <2>2 DEF LeavesRight
    <3>3. GoesRight(m)
      BY <1>x, <1>h, <2>1, <2>2 DEF GoesRight
    <3> QED BY <3>1, <3>2, <3>3 DEF MovesOn
<1>3. CASE Look(m)
  <2>1. at[m] = "look"
    BY <1>3 DEF Look, Steps, Calls
  <2>2. \/ answer[m] \in Bodies /\ Did(m, files[m], "ending", answer[m], Nothing)
        \/ \E to \in {"seek", "expired?", "held?"} : Did(m, files[m], to, told[m], answer[m])
    BY <1>t, <1>s, <1>3 DEF Look, Further, Looking, Waiting, SameCall, receiver, inbox,
     serving, closer, world, Goes, Steps, Tell, Becomes, Create, Remove, ReadAnswer, Admitted,
     Discard, Calls
  <2>3. CASE answer[m] \in Bodies /\ Did(m, files[m], "ending", answer[m], Nothing)
    <3>1. SaysRight(m)
      BY <1>x, <1>h, <2>1, <2>3 DEF SaysRight
    <3>2. LeavesRight(m)
      BY <1>x, <1>h, <2>1, <2>3 DEF LeavesRight
    <3>3. GoesRight(m)
      BY <1>x, <1>h, <2>1, <2>3 DEF GoesRight
    <3> QED BY <3>1, <3>2, <3>3 DEF MovesOn
  <2>4. CASE \E to \in {"seek", "expired?", "held?"} : Did(m, files[m], to, told[m], answer[m])
    <3>1. SaysRight(m)
      BY <1>x, <1>h, <2>1, <2>4 DEF SaysRight
    <3>2. LeavesRight(m)
      BY <1>x, <1>h, <2>1, <2>4 DEF LeavesRight
    <3>3. GoesRight(m)
      BY <1>x, <1>h, <2>1, <2>4 DEF GoesRight
    <3> QED BY <3>1, <3>2, <3>3 DEF MovesOn
  <2> QED BY <2>2, <2>3, <2>4
<1>4. CASE Seek(m)
  <2>1. at[m] = "seek"
    BY <1>4 DEF Seek, Steps, Calls
  <2>2. \E to \in {"closed?", "whose?", "admitted?"} : Did(m, files[m], to, told[m], answer[m])
    BY <1>t, <1>s, <1>4 DEF Seek, Looking, Waiting, SameCall, receiver, inbox,
     serving, closer, world, Goes, Steps, Tell, Becomes, Create, Remove, ReadAnswer, Admitted,
     Discard, Calls
  <2> QED
    <3>1. SaysRight(m)
      BY <1>x, <1>h, <2>1, <2>2 DEF SaysRight
    <3>2. LeavesRight(m)
      BY <1>x, <1>h, <2>1, <2>2 DEF LeavesRight
    <3>3. GoesRight(m)
      BY <1>x, <1>h, <2>1, <2>2 DEF GoesRight
    <3> QED BY <3>1, <3>2, <3>3 DEF MovesOn
<1>5. CASE ClosedYet(m)
  <2>1. at[m] = "closed?"
    BY <1>5 DEF ClosedYet, Steps, Calls
  <2>2. \E to \in {"unoffer, closed", "unoffer", "look"} : Did(m, files[m], to, told[m], answer[m])
    BY <1>t, <1>s, <1>5 DEF ClosedYet, Looking, Waiting, SameCall, receiver, inbox,
     serving, closer, world, Goes, Steps, Tell, Becomes, Create, Remove, ReadAnswer, Admitted,
     Discard, Calls
  <2> QED
    <3>1. SaysRight(m)
      BY <1>x, <1>h, <2>1, <2>2 DEF SaysRight
    <3>2. LeavesRight(m)
      BY <1>x, <1>h, <2>1, <2>2 DEF LeavesRight
    <3>3. GoesRight(m)
      BY <1>x, <1>h, <2>1, <2>2 DEF GoesRight
    <3> QED BY <3>1, <3>2, <3>3 DEF MovesOn
<1>6. CASE Unoffer(m)
  <2>1. at[m] \in {"unoffer", "unoffer, closed"}
    BY <1>6 DEF Unoffer, Steps, Calls
  <2>2. \/ Has(m, "offer") /\ \E w \in {"elapsed", "closed"} :
         Did(m, files[m] \ {"offer"}, "ending", w, answer[m])
        \/ Did(m, files[m], "look", told[m], answer[m])
        \/ Did(m, files[m], "ending", "unclaimable", answer[m])
    BY <1>t, <1>s, <1>6 DEF Unoffer, Looking, Waiting, SameCall, receiver, inbox,
     serving, closer, world, Goes, Steps, Tell, Becomes, Create, Remove, ReadAnswer, Admitted,
     Discard, Calls
  <2>3. CASE Has(m, "offer") /\ \E w \in {"elapsed", "closed"} :
         Did(m, files[m] \ {"offer"}, "ending", w, answer[m])
    <3>1. SaysRight(m)
      BY <1>x, <1>h, <2>1, <2>3 DEF SaysRight
    <3>2. LeavesRight(m)
      BY <1>x, <1>h, <2>1, <2>3 DEF LeavesRight
    <3>3. GoesRight(m)
      BY <1>x, <1>h, <2>1, <2>3 DEF GoesRight
    <3> QED BY <3>1, <3>2, <3>3 DEF MovesOn
  <2>4. CASE Did(m, files[m], "look", told[m], answer[m])
    <3>1. SaysRight(m)
      BY <1>x, <1>h, <2>1, <2>4 DEF SaysRight
    <3>2. LeavesRight(m)
      BY <1>x, <1>h, <2>1, <2>4 DEF LeavesRight
    <3>3. GoesRight(m)
      BY <1>x, <1>h, <2>1, <2>4 DEF GoesRight
    <3> QED BY <3>1, <3>2, <3>3 DEF MovesOn
  <2>5. CASE Did(m, files[m], "ending", "unclaimable", answer[m])
    <3>1. SaysRight(m)
      BY <1>x, <1>h, <2>1, <2>5 DEF SaysRight
    <3>2. LeavesRight(m)
      BY <1>x, <1>h, <2>1, <2>5 DEF LeavesRight
    <3>3. GoesRight(m)
      BY <1>x, <1>h, <2>1, <2>5 DEF GoesRight
    <3> QED BY <3>1, <3>2, <3>3 DEF MovesOn
  <2> QED BY <2>2, <2>3, <2>4, <2>5
<1>7. CASE Whose(m)
  <2>1. at[m] = "whose?"
    BY <1>7 DEF Whose, Steps, Calls
  <2>2. \E to \in {"ready", "admitted?"} : Did(m, files[m], to, told[m], answer[m])
    BY <1>t, <1>s, <1>7 DEF Whose, Looking, Waiting, SameCall, receiver, inbox,
     serving, closer, world, Goes, Steps, Tell, Becomes, Create, Remove, ReadAnswer, Admitted,
     Discard, Calls
  <2> QED
    <3>1. SaysRight(m)
      BY <1>x, <1>h, <2>1, <2>2 DEF SaysRight
    <3>2. LeavesRight(m)
      BY <1>x, <1>h, <2>1, <2>2 DEF LeavesRight
    <3>3. GoesRight(m)
      BY <1>x, <1>h, <2>1, <2>2 DEF GoesRight
    <3> QED BY <3>1, <3>2, <3>3 DEF MovesOn
<1>8. CASE AdmittedYet(m)
  <2>1. at[m] = "admitted?"
    BY <1>8 DEF AdmittedYet, Steps, Calls
  <2>2. \E to \in {"ready", "held?"} : Did(m, files[m], to, told[m], answer[m])
    BY <1>t, <1>s, <1>8 DEF AdmittedYet, Looking, Waiting, SameCall, receiver, inbox,
     serving, closer, world, Goes, Steps, Tell, Becomes, Create, Remove, ReadAnswer, Admitted,
     Discard, Calls
  <2> QED
    <3>1. SaysRight(m)
      BY <1>x, <1>h, <2>1, <2>2 DEF SaysRight
    <3>2. LeavesRight(m)
      BY <1>x, <1>h, <2>1, <2>2 DEF LeavesRight
    <3>3. GoesRight(m)
      BY <1>x, <1>h, <2>1, <2>2 DEF GoesRight
    <3> QED BY <3>1, <3>2, <3>3 DEF MovesOn
<1>9. CASE HeldYet(m)
  <2>1. at[m] = "held?"
    BY <1>9 DEF HeldYet, Steps, Calls
  <2>2. \/ Did(m, files[m], "bound?", told[m], answer[m])
        \/ ~Has(m, "taken") /\ Did(m, files[m], "ended", told[m], answer[m])
    BY <1>t, <1>s, <1>9 DEF HeldYet, Looking, Waiting, SameCall, receiver, inbox,
     serving, closer, world, Goes, Steps, Tell, Becomes, Create, Remove, ReadAnswer, Admitted,
     Discard, Calls
  <2>3. CASE Did(m, files[m], "bound?", told[m], answer[m])
    <3>1. SaysRight(m)
      BY <1>x, <1>h, <2>1, <2>3 DEF SaysRight
    <3>2. LeavesRight(m)
      BY <1>x, <1>h, <2>1, <2>3 DEF LeavesRight
    <3>3. GoesRight(m)
      BY <1>x, <1>h, <2>1, <2>3 DEF GoesRight
    <3> QED BY <3>1, <3>2, <3>3 DEF MovesOn
  <2>4. CASE ~Has(m, "taken") /\ Did(m, files[m], "ended", told[m], answer[m])
    <3>1. SaysRight(m)
      BY <1>x, <1>h, <2>1, <2>4 DEF SaysRight
    <3>2. LeavesRight(m)
      BY <1>x, <1>h, <2>1, <2>4 DEF LeavesRight
    <3>3. GoesRight(m)
      BY <1>x, <1>h, <2>1, <2>4 DEF GoesRight
    <3> QED BY <3>1, <3>2, <3>3 DEF MovesOn
  <2> QED BY <2>2, <2>3, <2>4
<1>10. CASE BoundYet(m)
  <2>1. at[m] = "bound?"
    BY <1>10 DEF BoundYet, Steps, Calls
  <2>2. \/ ~Bound /\ Did(m, files[m], "ended", told[m], answer[m])
        \/ \E to \in {"ready", "claim", "publish", "look"} :
               Did(m, files[m], to, told[m], answer[m])
    BY <1>t, <1>s, <1>10 DEF BoundYet, Meanwhile, Looking, Waiting, SameCall, receiver, inbox,
     serving, closer, world, Goes, Steps, Tell, Becomes, Create, Remove, ReadAnswer, Admitted,
     Discard, Calls
  <2>3. CASE ~Bound /\ Did(m, files[m], "ended", told[m], answer[m])
    <3>1. SaysRight(m)
      BY <1>x, <1>h, <2>1, <2>3 DEF SaysRight
    <3>2. LeavesRight(m)
      BY <1>x, <1>h, <2>1, <2>3 DEF LeavesRight
    <3>3. GoesRight(m)
      BY <1>x, <1>h, <2>1, <2>3 DEF GoesRight
    <3> QED BY <3>1, <3>2, <3>3 DEF MovesOn
  <2>4. CASE \E to \in {"ready", "claim", "publish", "look"} :
         Did(m, files[m], to, told[m], answer[m])
    <3>1. SaysRight(m)
      BY <1>x, <1>h, <2>1, <2>4 DEF SaysRight
    <3>2. LeavesRight(m)
      BY <1>x, <1>h, <2>1, <2>4 DEF LeavesRight
    <3>3. GoesRight(m)
      BY <1>x, <1>h, <2>1, <2>4 DEF GoesRight
    <3> QED BY <3>1, <3>2, <3>3 DEF MovesOn
  <2> QED BY <2>2, <2>3, <2>4
<1>11. CASE Ended(m)
  <2>1. at[m] = "ended"
    BY <1>11 DEF Ended, Steps, Calls
  <2>2. \/ answer[m] \in Bodies /\ Did(m, files[m], "ending", answer[m], Nothing)
        \/ answer[m] = Nothing /\ Did(m, files[m], "clear", told[m], answer[m])
    BY <1>t, <1>s, <1>11 DEF Ended, Looking, Waiting, SameCall, receiver, inbox,
     serving, closer, world, Goes, Steps, Tell, Becomes, Create, Remove, ReadAnswer, Admitted,
     Discard, Calls
  <2>3. CASE answer[m] \in Bodies /\ Did(m, files[m], "ending", answer[m], Nothing)
    <3>1. SaysRight(m)
      BY <1>x, <1>h, <2>1, <2>3 DEF SaysRight
    <3>2. LeavesRight(m)
      BY <1>x, <1>h, <2>1, <2>3 DEF LeavesRight
    <3>3. GoesRight(m)
      BY <1>x, <1>h, <2>1, <2>3 DEF GoesRight
    <3> QED BY <3>1, <3>2, <3>3 DEF MovesOn
  <2>4. CASE answer[m] = Nothing /\ Did(m, files[m], "clear", told[m], answer[m])
    <3>1. SaysRight(m)
      BY <1>x, <1>h, <2>1, <2>4 DEF SaysRight
    <3>2. LeavesRight(m)
      BY <1>x, <1>h, <2>1, <2>4 DEF LeavesRight
    <3>3. GoesRight(m)
      BY <1>x, <1>h, <2>1, <2>4 DEF GoesRight
    <3> QED BY <3>1, <3>2, <3>3 DEF MovesOn
  <2> QED BY <2>2, <2>3, <2>4
<1>12. CASE Clear(m)
  <2>1. at[m] = "clear"
    BY <1>12 DEF Clear, Steps, Calls
  <2>2. Did(m, files[m] \ {"taken"}, "why?", told[m], answer[m])
    BY <1>t, <1>s, <1>12 DEF Clear, Looking, Waiting, SameCall, receiver, inbox,
     serving, closer, world, Goes, Steps, Tell, Becomes, Create, Remove, ReadAnswer, Admitted,
     Discard, Calls
  <2> QED
    <3>1. SaysRight(m)
      BY <1>x, <1>h, <2>1, <2>2 DEF SaysRight
    <3>2. LeavesRight(m)
      BY <1>x, <1>h, <2>1, <2>2 DEF LeavesRight
    <3>3. GoesRight(m)
      BY <1>x, <1>h, <2>1, <2>2 DEF GoesRight
    <3> QED BY <3>1, <3>2, <3>3 DEF MovesOn
<1>13. CASE Why(m)
  <2>1. at[m] = "why?"
    BY <1>13 DEF Why, Steps, Calls
  <2>2. \/ Did(m, files[m], "ending", "closed", answer[m])
        \/ ~closedFile /\ Did(m, files[m], "ending", "abandoned", answer[m])
    BY <1>t, <1>s, <1>13 DEF Why, Looking, Waiting, SameCall, receiver, inbox,
     serving, closer, world, Goes, Steps, Tell, Becomes, Create, Remove, ReadAnswer, Admitted,
     Discard, Calls
  <2>3. CASE Did(m, files[m], "ending", "closed", answer[m])
    <3>1. SaysRight(m)
      BY <1>x, <1>h, <2>1, <2>3 DEF SaysRight
    <3>2. LeavesRight(m)
      BY <1>x, <1>h, <2>1, <2>3 DEF LeavesRight
    <3>3. GoesRight(m)
      BY <1>x, <1>h, <2>1, <2>3 DEF GoesRight
    <3> QED BY <3>1, <3>2, <3>3 DEF MovesOn
  <2>4. CASE ~closedFile /\ Did(m, files[m], "ending", "abandoned", answer[m])
    <3>1. SaysRight(m)
      BY <1>x, <1>h, <2>1, <2>4 DEF SaysRight
    <3>2. LeavesRight(m)
      BY <1>x, <1>h, <2>1, <2>4 DEF LeavesRight
    <3>3. GoesRight(m)
      BY <1>x, <1>h, <2>1, <2>4 DEF GoesRight
    <3> QED BY <3>1, <3>2, <3>3 DEF MovesOn
  <2> QED BY <2>2, <2>3, <2>4
<1>14. CASE Claim(m)
  <2>1. at[m] = "claim"
    BY <1>14 DEF Claim, Steps, Calls
  <2>2. \/ ~Has(m, "claimed") /\ Did(m, files[m] \cup {"claimed"}, "answered?", told[m], answer[m])
        \/ Has(m, "claimed") /\ Did(m, files[m], "kept", told[m], answer[m])
        \/ \E to \in {"look", "ready"} : Did(m, files[m], to, told[m], answer[m])
        \/ Did(m, files[m], "ending", "unclaimable", answer[m])
    BY <1>t, <1>s, <1>14 DEF Claim, Kept, Undecided, Looking, Waiting, SameCall, receiver, inbox,
     serving, closer, world, Goes, Steps, Tell, Becomes, Create, Remove, ReadAnswer, Admitted,
     Discard, Calls
  <2>3. CASE ~Has(m, "claimed")
         /\ Did(m, files[m] \cup {"claimed"}, "answered?", told[m], answer[m])
    <3>1. SaysRight(m)
      BY <1>x, <1>h, <2>1, <2>3 DEF SaysRight
    <3>2. LeavesRight(m)
      BY <1>x, <1>h, <2>1, <2>3 DEF LeavesRight
    <3>3. GoesRight(m)
      BY <1>x, <1>h, <2>1, <2>3 DEF GoesRight
    <3> QED BY <3>1, <3>2, <3>3 DEF MovesOn
  <2>4. CASE Has(m, "claimed") /\ Did(m, files[m], "kept", told[m], answer[m])
    <3>1. SaysRight(m)
      BY <1>x, <1>h, <2>1, <2>4 DEF SaysRight
    <3>2. LeavesRight(m)
      BY <1>x, <1>h, <2>1, <2>4 DEF LeavesRight
    <3>3. GoesRight(m)
      BY <1>x, <1>h, <2>1, <2>4 DEF GoesRight
    <3> QED BY <3>1, <3>2, <3>3 DEF MovesOn
  <2>5. CASE \E to \in {"look", "ready"} : Did(m, files[m], to, told[m], answer[m])
    <3>1. SaysRight(m)
      BY <1>x, <1>h, <2>1, <2>5 DEF SaysRight
    <3>2. LeavesRight(m)
      BY <1>x, <1>h, <2>1, <2>5 DEF LeavesRight
    <3>3. GoesRight(m)
      BY <1>x, <1>h, <2>1, <2>5 DEF GoesRight
    <3> QED BY <3>1, <3>2, <3>3 DEF MovesOn
  <2>6. CASE Did(m, files[m], "ending", "unclaimable", answer[m])
    <3>1. SaysRight(m)
      BY <1>x, <1>h, <2>1, <2>6 DEF SaysRight
    <3>2. LeavesRight(m)
      BY <1>x, <1>h, <2>1, <2>6 DEF LeavesRight
    <3>3. GoesRight(m)
      BY <1>x, <1>h, <2>1, <2>6 DEF GoesRight
    <3> QED BY <3>1, <3>2, <3>3 DEF MovesOn
  <2> QED BY <2>2, <2>3, <2>4, <2>5, <2>6
<1>15. CASE AnsweredYet(m)
  <2>1. at[m] = "answered?"
    BY <1>15 DEF AnsweredYet, Steps, Calls
  <2>2. \/ answer[m] # Nothing /\ Did(m, files[m], "give back", told[m], answer[m])
        \/ answer[m] = Nothing /\ admits[m] = "then taken"
               /\ Did(m, files[m], "unadmitted?", told[m], answer[m])
        \/ answer[m] = Nothing /\ \E w \in GaveUp : Did(m, files[m], "ending", w, answer[m])
    BY <1>t, <1>s, <1>15 DEF AnsweredYet, Withdrawn, Looking, Waiting, SameCall, receiver, inbox,
     serving, closer, world, Goes, Steps, Tell, Becomes, Create, Remove, ReadAnswer, Admitted,
     Discard, Calls
  <2>3. CASE answer[m] # Nothing /\ Did(m, files[m], "give back", told[m], answer[m])
    <3>1. SaysRight(m)
      BY <1>x, <1>h, <2>1, <2>3 DEF SaysRight
    <3>2. LeavesRight(m)
      BY <1>x, <1>h, <2>1, <2>3 DEF LeavesRight
    <3>3. GoesRight(m)
      BY <1>x, <1>h, <2>1, <2>3 DEF GoesRight
    <3> QED BY <3>1, <3>2, <3>3 DEF MovesOn
  <2>4. CASE answer[m] = Nothing /\ admits[m] = "then taken"
         /\ Did(m, files[m], "unadmitted?", told[m], answer[m])
    <3>1. SaysRight(m)
      BY <1>x, <1>h, <2>1, <2>4 DEF SaysRight
    <3>2. LeavesRight(m)
      BY <1>x, <1>h, <2>1, <2>4 DEF LeavesRight
    <3>3. GoesRight(m)
      BY <1>x, <1>h, <2>1, <2>4 DEF GoesRight
    <3> QED BY <3>1, <3>2, <3>3 DEF MovesOn
  <2>5. CASE answer[m] = Nothing /\ \E w \in GaveUp : Did(m, files[m], "ending", w, answer[m])
    <3>1. SaysRight(m)
      BY <1>x, <1>h, <2>1, <2>5 DEF SaysRight
    <3>2. LeavesRight(m)
      BY <1>x, <1>h, <2>1, <2>5 DEF LeavesRight
    <3>3. GoesRight(m)
      BY <1>x, <1>h, <2>1, <2>5 DEF GoesRight
    <3> QED BY <3>1, <3>2, <3>3 DEF MovesOn
  <2> QED BY <2>2, <2>3, <2>4, <2>5
<1>16. CASE UnadmittedYet(m)
  <2>1. at[m] = "unadmitted?"
    BY <1>16 DEF UnadmittedYet, Steps, Calls
  <2>2. \/ Has(m, "admitted") /\ Did(m, files[m], "give back", told[m], answer[m])
        \/ \E w \in GaveUp : Did(m, files[m], "ending", w, answer[m])
    BY <1>t, <1>s, <1>16 DEF UnadmittedYet, Withdrawn, Looking, Waiting, SameCall, receiver, inbox,
     serving, closer, world, Goes, Steps, Tell, Becomes, Create, Remove, ReadAnswer, Admitted,
     Discard, Calls
  <2>3. CASE Has(m, "admitted") /\ Did(m, files[m], "give back", told[m], answer[m])
    <3>1. SaysRight(m)
      BY <1>x, <1>h, <2>1, <2>3 DEF SaysRight
    <3>2. LeavesRight(m)
      BY <1>x, <1>h, <2>1, <2>3 DEF LeavesRight
    <3>3. GoesRight(m)
      BY <1>x, <1>h, <2>1, <2>3 DEF GoesRight
    <3> QED BY <3>1, <3>2, <3>3 DEF MovesOn
  <2>4. CASE \E w \in GaveUp : Did(m, files[m], "ending", w, answer[m])
    <3>1. SaysRight(m)
      BY <1>x, <1>h, <2>1, <2>4 DEF SaysRight
    <3>2. LeavesRight(m)
      BY <1>x, <1>h, <2>1, <2>4 DEF LeavesRight
    <3>3. GoesRight(m)
      BY <1>x, <1>h, <2>1, <2>4 DEF GoesRight
    <3> QED BY <3>1, <3>2, <3>3 DEF MovesOn
  <2> QED BY <2>2, <2>3, <2>4
<1>17. CASE GiveBack(m)
  <2>1. at[m] = "give back"
    BY <1>17 DEF GiveBack, Steps, Calls
  <2>2. (admits[m] = "then taken" => m \in excused') /\ \E to \in {"kept", "look", "ready"} :
         Did(m, files[m] \ {"claimed"}, to, told[m], answer[m])
    BY <1>t, <1>s, <1>17 DEF GiveBack, Kept, Undecided, Looking, Waiting, SameCall, receiver, inbox,
     serving, closer, world, Goes, Steps, Tell, Becomes, Create, Remove, ReadAnswer, Admitted,
     Discard, Calls
  <2> QED
    <3>1. SaysRight(m)
      BY <1>x, <1>h, <2>1, <2>2 DEF SaysRight
    <3>2. LeavesRight(m)
      BY <1>x, <1>h, <2>1, <2>2 DEF LeavesRight
    <3>3. GoesRight(m)
      BY <1>x, <1>h, <2>1, <2>2 DEF GoesRight
    <3> QED BY <3>1, <3>2, <3>3 DEF MovesOn
<1>18. CASE KeptAdmitted(m)
  <2>1. at[m] = "kept"
    BY <1>18 DEF KeptAdmitted, Steps, Calls
  <2>2. \/ Did(m, files[m], "ready", told[m], answer[m])
        \/ ~Has(m, "admitted") /\ Did(m, files[m], "unsettled?", told[m], answer[m])
    BY <1>t, <1>s, <1>18 DEF KeptAdmitted, Looking, Waiting, SameCall, receiver, inbox,
     serving, closer, world, Goes, Steps, Tell, Becomes, Create, Remove, ReadAnswer, Admitted,
     Discard, Calls
  <2>3. CASE Did(m, files[m], "ready", told[m], answer[m])
    <3>1. SaysRight(m)
      BY <1>x, <1>h, <2>1, <2>3 DEF SaysRight
    <3>2. LeavesRight(m)
      BY <1>x, <1>h, <2>1, <2>3 DEF LeavesRight
    <3>3. GoesRight(m)
      BY <1>x, <1>h, <2>1, <2>3 DEF GoesRight
    <3> QED BY <3>1, <3>2, <3>3 DEF MovesOn
  <2>4. CASE ~Has(m, "admitted") /\ Did(m, files[m], "unsettled?", told[m], answer[m])
    <3>1. SaysRight(m)
      BY <1>x, <1>h, <2>1, <2>4 DEF SaysRight
    <3>2. LeavesRight(m)
      BY <1>x, <1>h, <2>1, <2>4 DEF LeavesRight
    <3>3. GoesRight(m)
      BY <1>x, <1>h, <2>1, <2>4 DEF GoesRight
    <3> QED BY <3>1, <3>2, <3>3 DEF MovesOn
  <2> QED BY <2>2, <2>3, <2>4
<1>19. CASE Unsettled(m)
  <2>1. at[m] = "unsettled?"
    BY <1>19 DEF Unsettled, Steps, Calls
  <2>2. \/ answer[m] \in Bodies /\ Did(m, files[m], "ending", answer[m], Nothing)
        \/ answer[m] = Nothing /\ Did(m, files[m], "ending", "unsettled", answer[m])
    BY <1>t, <1>s, <1>19 DEF Unsettled, Looking, Waiting, SameCall, receiver, inbox,
     serving, closer, world, Goes, Steps, Tell, Becomes, Create, Remove, ReadAnswer, Admitted,
     Discard, Calls
  <2>3. CASE answer[m] \in Bodies /\ Did(m, files[m], "ending", answer[m], Nothing)
    <3>1. SaysRight(m)
      BY <1>x, <1>h, <2>1, <2>3 DEF SaysRight
    <3>2. LeavesRight(m)
      BY <1>x, <1>h, <2>1, <2>3 DEF LeavesRight
    <3>3. GoesRight(m)
      BY <1>x, <1>h, <2>1, <2>3 DEF GoesRight
    <3> QED BY <3>1, <3>2, <3>3 DEF MovesOn
  <2>4. CASE answer[m] = Nothing /\ Did(m, files[m], "ending", "unsettled", answer[m])
    <3>1. SaysRight(m)
      BY <1>x, <1>h, <2>1, <2>4 DEF SaysRight
    <3>2. LeavesRight(m)
      BY <1>x, <1>h, <2>1, <2>4 DEF LeavesRight
    <3>3. GoesRight(m)
      BY <1>x, <1>h, <2>1, <2>4 DEF GoesRight
    <3> QED BY <3>1, <3>2, <3>3 DEF MovesOn
  <2> QED BY <2>2, <2>3, <2>4
<1>20. CASE ExpiredYet(m)
  <2>1. at[m] = "expired?"
    BY <1>20 DEF ExpiredYet, Steps, Calls
  <2>2. \/ Has(m, "expired") /\ Did(m, files[m] \ Clutter, "ending", "expired", answer[m])
        \/ Did(m, files[m], "held?", told[m], answer[m])
    BY <1>t, <1>s, <1>20 DEF ExpiredYet, Looking, Waiting, SameCall, receiver, inbox,
     serving, closer, world, Goes, Steps, Tell, Becomes, Create, Remove, ReadAnswer, Admitted,
     Discard, Calls
  <2>3. CASE Has(m, "expired") /\ Did(m, files[m] \ Clutter, "ending", "expired", answer[m])
    <3>1. SaysRight(m)
      BY <1>x, <1>h, <2>1, <2>3 DEF SaysRight
    <3>2. LeavesRight(m)
      BY <1>x, <1>h, <2>1, <2>3 DEF LeavesRight
    <3>3. GoesRight(m)
      BY <1>x, <1>h, <2>1, <2>3 DEF GoesRight
    <3> QED BY <3>1, <3>2, <3>3 DEF MovesOn
  <2>4. CASE Did(m, files[m], "held?", told[m], answer[m])
    <3>1. SaysRight(m)
      BY <1>x, <1>h, <2>1, <2>4 DEF SaysRight
    <3>2. LeavesRight(m)
      BY <1>x, <1>h, <2>1, <2>4 DEF LeavesRight
    <3>3. GoesRight(m)
      BY <1>x, <1>h, <2>1, <2>4 DEF GoesRight
    <3> QED BY <3>1, <3>2, <3>3 DEF MovesOn
  <2> QED BY <2>2, <2>3, <2>4
<1>21. CASE Publish(m)
  <2>1. at[m] = "publish"
    BY <1>21 DEF Publish, Steps, Calls
  <2>2. \/ \E to \in {"claim", "look"} : Did(m, files[m], to, told[m], answer[m])
        \/ \E to \in {"claim", "look"} : Did(m, files[m] \cup {"deadline"}, to, told[m], answer[m])
    BY <1>t, <1>s, <1>21 DEF Publish, Looking, Waiting, SameCall, receiver, inbox,
     serving, closer, world, Goes, Steps, Tell, Becomes, Create, Remove, ReadAnswer, Admitted,
     Discard, Calls
  <2>3. CASE \E to \in {"claim", "look"} : Did(m, files[m], to, told[m], answer[m])
    <3>1. SaysRight(m)
      BY <1>x, <1>h, <2>1, <2>3 DEF SaysRight
    <3>2. LeavesRight(m)
      BY <1>x, <1>h, <2>1, <2>3 DEF LeavesRight
    <3>3. GoesRight(m)
      BY <1>x, <1>h, <2>1, <2>3 DEF GoesRight
    <3> QED BY <3>1, <3>2, <3>3 DEF MovesOn
  <2>4. CASE \E to \in {"claim", "look"} :
         Did(m, files[m] \cup {"deadline"}, to, told[m], answer[m])
    <3>1. SaysRight(m)
      BY <1>x, <1>h, <2>1, <2>4 DEF SaysRight
    <3>2. LeavesRight(m)
      BY <1>x, <1>h, <2>1, <2>4 DEF LeavesRight
    <3>3. GoesRight(m)
      BY <1>x, <1>h, <2>1, <2>4 DEF GoesRight
    <3> QED BY <3>1, <3>2, <3>3 DEF MovesOn
  <2> QED BY <2>2, <2>3, <2>4
<1>22. CASE End(m)
  <2>1. at[m] = "ending"
    BY <1>22 DEF End, Steps, Calls
  <2>2. Did(m, files[m] \ {"taken"}, "over", told[m], answer[m])
    BY <1>t, <1>s, <1>22 DEF End, Looking, Waiting, SameCall, receiver, inbox,
     serving, closer, world, Goes, Steps, Tell, Becomes, Create, Remove, ReadAnswer, Admitted,
     Discard, Calls
  <2> QED
    <3>1. SaysRight(m)
      BY <1>x, <1>h, <2>1, <2>2 DEF SaysRight
    <3>2. LeavesRight(m)
      BY <1>x, <1>h, <2>1, <2>2 DEF LeavesRight
    <3>3. GoesRight(m)
      BY <1>x, <1>h, <2>1, <2>2 DEF GoesRight
    <3> QED BY <3>1, <3>2, <3>3 DEF MovesOn
<1>23. CASE WaitPasses(m)
  <2>2. Did(m, files[m], at[m], told[m], answer[m])
    BY <1>t, <1>s, <1>23 DEF WaitPasses, Looking, Waiting, SameCall, receiver, inbox,
     serving, closer, world, Goes, Steps, Tell, Becomes, Create, Remove, ReadAnswer, Admitted,
     Discard, Calls
  <2> QED
    <3>1. SaysRight(m)
      BY <1>x, <1>h, <2>2 DEF SaysRight
    <3>2. LeavesRight(m)
      BY <1>x, <1>h, <2>2 DEF LeavesRight
    <3>3. GoesRight(m)
      BY <1>x, <1>h, <2>2 DEF GoesRight
    <3> QED BY <3>1, <3>2, <3>3 DEF MovesOn
<1>24. CASE DeadlinePasses(m)
  <2>2. Did(m, files[m], at[m], told[m], answer[m])
    BY <1>t, <1>s, <1>24 DEF DeadlinePasses, Looking, Waiting, SameCall, receiver, inbox,
     serving, closer, world, Goes, Steps, Tell, Becomes, Create, Remove, ReadAnswer, Admitted,
     Discard, Calls
  <2> QED
    <3>1. SaysRight(m)
      BY <1>x, <1>h, <2>2 DEF SaysRight
    <3>2. LeavesRight(m)
      BY <1>x, <1>h, <2>2 DEF LeavesRight
    <3>3. GoesRight(m)
      BY <1>x, <1>h, <2>2 DEF GoesRight
    <3> QED BY <3>1, <3>2, <3>3 DEF MovesOn
<1>25. CASE Wait(m)
  <2>1. at[m] = "ready"
    BY <1>25 DEF Wait, Steps, Calls
  <2>2. Did(m, files[m], "look", told[m], answer[m])
    BY <1>t, <1>s, <1>25 DEF Wait, Looking, Waiting, SameCall, receiver, inbox,
     serving, closer, world, Goes, Steps, Tell, Becomes, Create, Remove, ReadAnswer, Admitted,
     Discard, Calls
  <2> QED
    <3>1. SaysRight(m)
      BY <1>x, <1>h, <2>1, <2>2 DEF SaysRight
    <3>2. LeavesRight(m)
      BY <1>x, <1>h, <2>1, <2>2 DEF LeavesRight
    <3>3. GoesRight(m)
      BY <1>x, <1>h, <2>1, <2>2 DEF GoesRight
    <3> QED BY <3>1, <3>2, <3>3 DEF MovesOn
<1>26. CASE WaitUntil(m)
  <2>1. at[m] = "ready"
    BY <1>26 DEF WaitUntil, Steps, Calls
  <2>2. Did(m, files[m], "look", told[m], answer[m])
    BY <1>t, <1>s, <1>26 DEF WaitUntil, Looking, Waiting, SameCall, receiver, inbox,
     serving, closer, world, Goes, Steps, Tell, Becomes, Create, Remove, ReadAnswer, Admitted,
     Discard, Calls
  <2> QED
    <3>1. SaysRight(m)
      BY <1>x, <1>h, <2>1, <2>2 DEF SaysRight
    <3>2. LeavesRight(m)
      BY <1>x, <1>h, <2>1, <2>2 DEF LeavesRight
    <3>3. GoesRight(m)
      BY <1>x, <1>h, <2>1, <2>2 DEF GoesRight
    <3> QED BY <3>1, <3>2, <3>3 DEF MovesOn
<1>27. CASE Withdraw(m)
  <2>1. at[m] = "ready"
    BY <1>27 DEF Withdraw, Steps, Calls
  <2>2. Did(m, files[m], "claim", told[m], answer[m])
    BY <1>t, <1>s, <1>27 DEF Withdraw, Looking, Waiting, SameCall, receiver, inbox,
     serving, closer, world, Goes, Steps, Tell, Becomes, Create, Remove, ReadAnswer, Admitted,
     Discard, Calls
  <2> QED
    <3>1. SaysRight(m)
      BY <1>x, <1>h, <2>1, <2>2 DEF SaysRight
    <3>2. LeavesRight(m)
      BY <1>x, <1>h, <2>1, <2>2 DEF LeavesRight
    <3>3. GoesRight(m)
      BY <1>x, <1>h, <2>1, <2>2 DEF GoesRight
    <3> QED BY <3>1, <3>2, <3>3 DEF MovesOn
<1>28. CASE DropOffer(m)
  <2>1. at[m] = "ready"
    BY <1>28 DEF DropOffer, Steps, Calls
  <2>2. Did(m, files[m], "ending", "unheard", answer[m])
    BY <1>t, <1>s, <1>28 DEF DropOffer, Looking, Waiting, SameCall, receiver, inbox,
     serving, closer, world, Goes, Steps, Tell, Becomes, Create, Remove, ReadAnswer, Admitted,
     Discard, Calls
  <2> QED
    <3>1. SaysRight(m)
      BY <1>x, <1>h, <2>1, <2>2 DEF SaysRight
    <3>2. LeavesRight(m)
      BY <1>x, <1>h, <2>1, <2>2 DEF LeavesRight
    <3>3. GoesRight(m)
      BY <1>x, <1>h, <2>1, <2>2 DEF GoesRight
    <3> QED BY <3>1, <3>2, <3>3 DEF MovesOn
<1>29. CASE Dies(m)
  <2>1. at[m] \notin {"start", "ending", "over"}
    BY <1>29 DEF Dies, Steps, Calls
  <2>2. Did(m, files[m], "over", "unheard", answer[m])
    BY <1>t, <1>s, <1>29 DEF Dies, Looking, Waiting, SameCall, receiver, inbox,
     serving, closer, world, Goes, Steps, Tell, Becomes, Create, Remove, ReadAnswer, Admitted,
     Discard, Calls
  <2> QED
    <3>1. SaysRight(m)
      BY <1>x, <1>h, <2>1, <2>2 DEF SaysRight
    <3>2. LeavesRight(m)
      BY <1>x, <1>h, <2>1, <2>2 DEF LeavesRight
    <3>3. GoesRight(m)
      BY <1>x, <1>h, <2>1, <2>2 DEF GoesRight
    <3> QED BY <3>1, <3>2, <3>3 DEF MovesOn
<1> QED BY <1>1, <1>2, <1>3, <1>4, <1>5, <1>6, <1>7, <1>8, <1>9, <1>10, <1>11, <1>12, <1>13,
      <1>14, <1>15, <1>16, <1>17, <1>18, <1>19, <1>20, <1>21, <1>22, <1>23, <1>24, <1>25, <1>26,
      <1>27, <1>28, <1>29 DEF Sends, Proceeds, TimePasses, Asks

LEMMA SendersLeaveElse ==
  ASSUME TypeOK, NEW m \in Messages, SenderShape(m), Sends(m)
  PROVE  LeavesElse(m)
<1>0. at[m] \in {"claim", "give back"} => call[m] \in {"offer", "until", "withdraw"}
  BY DEF SenderShape, SenderClaims
<1>o. SendersOwn(m)
  BY SendersLocal
<1>t. DOMAIN admits = Messages
  BY DEF TypeOK, SendersTyped
<1> DEFINE Same == /\ UNCHANGED <<phase, closed, closing, sweep, listed, closedFile>>
                   /\ \A k \in Messages \ {m} : admits'[k] = admits[k]
<1> USE DEF Looking, Waiting, SameCall, receiver, inbox, serving, closer, world, Admitted, Calls
<1>1. CASE Start(m)
  <2>1. Same
    BY <1>t, <1>0, <1>1 DEF Start
  <2> QED BY <1>o, <2>1 DEF LeavesElse
<1>2. CASE WriteOffer(m)
  <2>1. Same
    BY <1>t, <1>0, <1>2 DEF WriteOffer
  <2> QED BY <1>o, <2>1 DEF LeavesElse
<1>3. CASE Look(m)
  <2>1. Same
    BY <1>t, <1>0, <1>3 DEF Look
  <2> QED BY <1>o, <2>1 DEF LeavesElse
<1>4. CASE Seek(m)
  <2>1. Same
    BY <1>t, <1>0, <1>4 DEF Seek
  <2> QED BY <1>o, <2>1 DEF LeavesElse
<1>5. CASE ClosedYet(m)
  <2>1. Same
    BY <1>t, <1>0, <1>5 DEF ClosedYet
  <2> QED BY <1>o, <2>1 DEF LeavesElse
<1>6. CASE Unoffer(m)
  <2>1. Same
    BY <1>t, <1>0, <1>6 DEF Unoffer
  <2> QED BY <1>o, <2>1 DEF LeavesElse
<1>7. CASE Whose(m)
  <2>1. Same
    BY <1>t, <1>0, <1>7 DEF Whose
  <2> QED BY <1>o, <2>1 DEF LeavesElse
<1>8. CASE AdmittedYet(m)
  <2>1. Same
    BY <1>t, <1>0, <1>8 DEF AdmittedYet
  <2> QED BY <1>o, <2>1 DEF LeavesElse
<1>9. CASE HeldYet(m)
  <2>1. Same
    BY <1>t, <1>0, <1>9 DEF HeldYet
  <2> QED BY <1>o, <2>1 DEF LeavesElse
<1>10. CASE BoundYet(m)
  <2>1. Same
    BY <1>t, <1>0, <1>10 DEF BoundYet
  <2> QED BY <1>o, <2>1 DEF LeavesElse
<1>11. CASE Ended(m)
  <2>1. Same
    BY <1>t, <1>0, <1>11 DEF Ended
  <2> QED BY <1>o, <2>1 DEF LeavesElse
<1>12. CASE Clear(m)
  <2>1. Same
    BY <1>t, <1>0, <1>12 DEF Clear
  <2> QED BY <1>o, <2>1 DEF LeavesElse
<1>13. CASE Why(m)
  <2>1. Same
    BY <1>t, <1>0, <1>13 DEF Why
  <2> QED BY <1>o, <2>1 DEF LeavesElse
<1>14. CASE Claim(m)
  <2>1. Same
    BY <1>t, <1>0, <1>14 DEF Claim, Kept, Undecided
  <2> QED BY <1>o, <2>1 DEF LeavesElse
<1>15. CASE AnsweredYet(m)
  <2>1. Same
    BY <1>t, <1>0, <1>15 DEF AnsweredYet
  <2> QED BY <1>o, <2>1 DEF LeavesElse
<1>16. CASE UnadmittedYet(m)
  <2>1. Same
    BY <1>t, <1>0, <1>16 DEF UnadmittedYet
  <2> QED BY <1>o, <2>1 DEF LeavesElse
<1>17. CASE GiveBack(m)
  <2>1. Same
    BY <1>t, <1>0, <1>17 DEF GiveBack, Kept, Undecided
  <2> QED BY <1>o, <2>1 DEF LeavesElse
<1>18. CASE KeptAdmitted(m)
  <2>1. Same
    BY <1>t, <1>0, <1>18 DEF KeptAdmitted
  <2> QED BY <1>o, <2>1 DEF LeavesElse
<1>19. CASE Unsettled(m)
  <2>1. Same
    BY <1>t, <1>0, <1>19 DEF Unsettled
  <2> QED BY <1>o, <2>1 DEF LeavesElse
<1>20. CASE ExpiredYet(m)
  <2>1. Same
    BY <1>t, <1>0, <1>20 DEF ExpiredYet
  <2> QED BY <1>o, <2>1 DEF LeavesElse
<1>21. CASE Publish(m)
  <2>1. Same
    BY <1>t, <1>0, <1>21 DEF Publish
  <2> QED BY <1>o, <2>1 DEF LeavesElse
<1>22. CASE End(m)
  <2>1. Same
    BY <1>t, <1>0, <1>22 DEF End
  <2> QED BY <1>o, <2>1 DEF LeavesElse
<1>23. CASE WaitPasses(m)
  <2>1. Same
    BY <1>t, <1>0, <1>23 DEF WaitPasses
  <2> QED BY <1>o, <2>1 DEF LeavesElse
<1>24. CASE DeadlinePasses(m)
  <2>1. Same
    BY <1>t, <1>0, <1>24 DEF DeadlinePasses
  <2> QED BY <1>o, <2>1 DEF LeavesElse
<1>25. CASE Wait(m)
  <2>1. Same
    BY <1>t, <1>0, <1>25 DEF Wait
  <2> QED BY <1>o, <2>1 DEF LeavesElse
<1>26. CASE WaitUntil(m)
  <2>1. Same
    BY <1>t, <1>0, <1>26 DEF WaitUntil
  <2> QED BY <1>o, <2>1 DEF LeavesElse
<1>27. CASE Withdraw(m)
  <2>1. Same
    BY <1>t, <1>0, <1>27 DEF Withdraw
  <2> QED BY <1>o, <2>1 DEF LeavesElse
<1>28. CASE DropOffer(m)
  <2>1. Same
    BY <1>t, <1>0, <1>28 DEF DropOffer
  <2> QED BY <1>o, <2>1 DEF LeavesElse
<1>29. CASE Dies(m)
  <2>1. Same
    BY <1>t, <1>0, <1>29 DEF Dies
  <2> QED BY <1>o, <2>1 DEF LeavesElse
<1> QED BY <1>1, <1>2, <1>3, <1>4, <1>5, <1>6, <1>7, <1>8, <1>9, <1>10, <1>11, <1>12, <1>13,
      <1>14, <1>15, <1>16, <1>17, <1>18, <1>19, <1>20, <1>21, <1>22, <1>23, <1>24, <1>25, <1>26,
      <1>27, <1>28, <1>29 DEF Sends, Proceeds, TimePasses, Asks
----------------------------------------------------------------------------
(* The receiver's steps. *)

\* What such a step makes of a message and of what the receiver has of it.
Makes(m, fs, found, does) ==
  /\ files'[m] = fs /\ answer'[m] = found /\ settling'[m].does = does
  /\ at'[m] = at[m] /\ told'[m] = told[m] /\ admits'[m] = admits[m]
  /\ phase' = phase /\ closing' = closing /\ (m \in excused => m \in excused')
Body(m, body) == InSettling(m)' => settling'[m].body = body
Puts(m, q, o, r, h) ==
  /\ (m \in queue' <=> q) /\ (m \in owed' <=> o) /\ (m \in replies' <=> r) /\ (m \in held' <=> h)
Lets(m, c, l) == (InCourier(m)' <=> c) /\ (Within("let go", m)' <=> l)
Gave(m, g) == m \in given' <=> g

\* What of everything else a receiver's step leaves alone.
KeepsElse(m) ==
  /\ UNCHANGED <<at, told, admits, phase, closed, closing, closedFile>>
         /\ excused \subseteq excused'
  /\ \A k \in Messages \ {m} : k \in given' <=> k \in given

LEMMA KeepersKeepElse ==
  ASSUME TypeOK, NEW m \in Messages, Keeper(m)
  PROVE  KeepsElse(m)
<1> USE DEF KeepsElse, Receiving, Writing, Inside, Serving, Closing, Closes, sender, serving,
      closer, inbox, dir
<1>e. excused \subseteq Messages
  BY DEF TypeOK
<1>1. CASE Take(m)
  BY <1>e, <1>1 DEF Take
<1>2. CASE Pass(m)
  BY <1>e, <1>2 DEF Pass
<1>3. CASE Glance(m)
  BY <1>e, <1>3 DEF Glance
<1>4. CASE ClaimForReceiver(m)
  BY <1>e, <1>4 DEF ClaimForReceiver
<1>5. CASE Expire(m)
  BY <1>e, <1>5 DEF Expire
<1>6. CASE Release(m)
  BY <1>e, <1>6 DEF Release
<1>7. CASE LetGo(m)
  BY <1>e, <1>7 DEF LetGo
<1>8. CASE Answer(m)
  BY <1>e, <1>8 DEF Answer, Replies
<1>9. CASE Drop(m)
  BY <1>e, <1>9 DEF Drop, Replies
<1>10. CASE SettleClaim(m)
  BY <1>e, <1>10 DEF SettleClaim
<1>11. CASE SettleLook(m)
  BY <1>e, <1>11 DEF SettleLook
<1>12. CASE SettleWrite(m)
  BY <1>e, <1>12 DEF SettleWrite
<1>13. CASE SettleRemove(m)
  BY <1>e, <1>13 DEF SettleRemove
<1>14. CASE SettleClear(m)
  BY <1>e, <1>14 DEF SettleClear
<1>15. CASE Renames(m)
  BY <1>e, <1>15 DEF Renames, Rename
<1>16. CASE Reads(m)
  BY <1>e, <1>16 DEF Reads, Read
<1>17. CASE Admits(m)
  BY <1>e, <1>17 DEF Admits, Admit
<1>18. CASE Sweeps(m)
  BY <1>e, <1>18 DEF Sweeps, Sweep
<1>19. CASE Reply(m)
  BY <1>e, <1>19 DEF Reply
<1> QED BY <1>1, <1>2, <1>3, <1>4, <1>5, <1>6, <1>7, <1>8, <1>9, <1>10,
      <1>11, <1>12, <1>13, <1>14, <1>15, <1>16, <1>17, <1>18, <1>19 DEF Keeper, Receive,
             SettlesOn, PassesOn

LEMMA ReceiveArrives ==
  ASSUME TypeOK, NEW m \in Messages, Core(m), Lifetimes, Arrives(m), Receive(m)
  PROVE  Arrives(m)'
<1>t. /\ files \in [Messages -> SUBSET Suffixes] /\ answer \in [Messages -> Bodies \cup {Nothing}]
      /\ DOMAIN settling = Messages
      /\ settling[m] \in [does : {"claim", "look", "write", "remove", "clear"}, body : Bodies,
                            by : {"courier", "receiver", "closer"}] \cup {NotSettling}
      /\ NotSettling.does = "nothing" /\ faults \in Int
  <2>1. faults \in 0..Faults /\ Faults \in Nat
    BY SpoolAssumption DEF TypeOK
  <2>2. faults \in Int
    BY <2>1
  <2> QED BY <2>2 DEF TypeOK, DirectoryTyped, ReceiverTyped, NotSettling
<1>b. /\ answer[m] \in {"answered", "let go", "closed", "refused", "nothing"} /\ Nothing = "nothing"
      /\ Bodies = {"answered", "let go", "closed", "refused"}
  BY <1>t DEF Bodies, Nothing
<1>h. /\ InOnePlace(m) /\ SenderShape(m) /\ ExpiredIsOut(m) /\ HeldIsClaimed(m) /\ StillTaken(m)
      /\ InsideIsQueued(m) /\ SenderClaims = {"answered?", "unadmitted?", "give back"}
      /\ Returned = {"ending", "over"} /\ Early = {"start", "write"}
             /\ Over = {"why?", "ending", "over"}
  BY DEF Core, SenderClaims, Returned, Early, Over
<1>q. /\ Within("claim", m) \/ Within("glance", m) \/ Within("expire", m) => m \in queue
      /\ Within("expire", m) => m \in held
  BY DEF Core, InsideIsQueued, HeldIsClaimed
<1>l. /\ closing # "no" => closed /\ phase \in {"serving", "leaving", "unbound"}
      /\ closed => queue = {} /\ owed = {}
      /\ GaveUp = {"elapsed", "expired", "withdrawn"}
      /\ told[m] \in Bodies \cup GaveUp \cup {Nothing, "abandoned", "unheard", "unclaimable",
             "unsettled"}
  BY DEF Lifetimes, GaveUp, TypeOK, SendersTyped
<1>k. KeepsElse(m)
  BY KeepersKeepElse DEF Keeper, SettleSteps, SettlesOn
<1>u. /\ at' = at /\ told' = told /\ admits' = admits /\ phase' = phase /\ closing' = closing
      /\ m \in excused => m \in excused'
  BY <1>k DEF KeepsElse
<1>1. CASE Take(m)
  <2>1. /\ m \in queue /\ inside = Idle
        /\ Makes(m, files[m], answer[m], settling[m].does)
        /\ Body(m, settling[m].body)
        /\ Puts(m, m \in queue, m \in owed, m \in replies, m \in held)
        /\ Lets(m, InCourier(m), FALSE) /\ Gave(m, m \in given)
    BY <1>t, <1>u, <1>q, <1>1 DEF Take, Makes, Body, Puts, Lets, Gave,
       Receiving, Leave, Enter, Fine, Idle, Within, InCourier, InSettling, Has, serving, dir
  <2> QED
    <3> USE DEF Makes, Body, Puts, Lets, Gave, Begun, Has, Unmet, InSettling, Clutter, Bound,
          InOnePlace, SenderShape, ExpiredIsOut, HeldIsClaimed, StillTaken
    <3>1. AnswerIsGiven(m)' /\ SettledOnce(m)'
      BY <1>h, <1>b, <1>l, <2>1 DEF Arrives, AnswerIsGiven, SettledOnce, GivenArrives
    <3>2. ToldIsDone(m)' /\ AdmittedOnce(m)' /\ ClaimIsSenders(m)'
      BY <1>h, <1>b, <1>l, <2>1 DEF Arrives, ToldIsDone, AdmittedOnce, ClaimIsSenders
    <3>3. RemovedIsAnswered(m)' /\ StaysInSight(m)'
      BY <1>h, <1>b, <1>l, <2>1 DEF Arrives, RemovedIsAnswered, StaysInSight, ClaimIsSenders,
         GivenArrives
    <3>4. EndsUnbound(m)' /\ GivenArrives(m)'
      BY <1>h, <1>b, <1>l, <2>1 DEF Arrives, AnswerIsGiven, EndsUnbound, GivenArrives,
         SettledOnce, StaysInSight, ToldIsDone
    <3> QED BY <3>1, <3>2, <3>3, <3>4 DEF Arrives
<1>2. CASE Pass(m)
  <2>1. /\ m \in queue /\ inside = Idle
        /\ Makes(m, files[m], answer[m], settling[m].does)
        /\ Body(m, settling[m].body)
        /\ Puts(m, m \in queue, m \in owed, m \in replies, m \in held)
        /\ Lets(m, InCourier(m), FALSE) /\ Gave(m, m \in given)
    BY <1>t, <1>u, <1>q, <1>2 DEF Pass, Makes, Body, Puts, Lets, Gave,
       Receiving, Leave, Enter, Fine, Idle, Within, InCourier, InSettling, Has, serving, dir
  <2> QED
    <3> USE DEF Makes, Body, Puts, Lets, Gave, Begun, Has, Unmet, InSettling, Clutter, Bound,
          InOnePlace, SenderShape, ExpiredIsOut, HeldIsClaimed, StillTaken
    <3>1. AnswerIsGiven(m)' /\ SettledOnce(m)'
      BY <1>h, <1>b, <1>l, <2>1 DEF Arrives, AnswerIsGiven, SettledOnce, GivenArrives
    <3>2. ToldIsDone(m)' /\ AdmittedOnce(m)' /\ ClaimIsSenders(m)'
      BY <1>h, <1>b, <1>l, <2>1 DEF Arrives, ToldIsDone, AdmittedOnce, ClaimIsSenders
    <3>3. RemovedIsAnswered(m)' /\ StaysInSight(m)'
      BY <1>h, <1>b, <1>l, <2>1 DEF Arrives, RemovedIsAnswered, StaysInSight, ClaimIsSenders,
         GivenArrives
    <3>4. EndsUnbound(m)' /\ GivenArrives(m)'
      BY <1>h, <1>b, <1>l, <2>1 DEF Arrives, AnswerIsGiven, EndsUnbound, GivenArrives,
         SettledOnce, StaysInSight, ToldIsDone
    <3> QED BY <3>1, <3>2, <3>3, <3>4 DEF Arrives
<1>3. CASE Glance(m)
  <2>1. \/ /\ m \in queue /\ m \notin held /\ Has(m, "claimed")
           /\ Makes(m, files[m] \ Clutter, answer[m], settling[m].does)
           /\ Body(m, settling[m].body)
           /\ Puts(m, FALSE, m \in owed, m \in replies, m \in held)
           /\ Lets(m, InCourier(m), FALSE) /\ Gave(m, m \in given)
        \/ /\ m \in queue
           /\ Makes(m, files[m], answer[m], settling[m].does)
           /\ Body(m, settling[m].body)
           /\ Puts(m, m \in queue, m \in owed, m \in replies, m \in held)
           /\ Lets(m, InCourier(m), FALSE) /\ Gave(m, m \in given)
    BY <1>t, <1>u, <1>q, <1>3 DEF Glance, Makes, Body, Puts, Lets, Gave, Discard, Becomes,
       Receiving, Leave, Enter, Fine, Idle, Within, InCourier, InSettling, Has, serving, dir
  <2>2. CASE /\ m \in queue /\ m \notin held /\ Has(m, "claimed")
             /\ Makes(m, files[m] \ Clutter, answer[m], settling[m].does)
             /\ Body(m, settling[m].body)
             /\ Puts(m, FALSE, m \in owed, m \in replies, m \in held)
             /\ Lets(m, InCourier(m), FALSE) /\ Gave(m, m \in given)
    <3> USE DEF Makes, Body, Puts, Lets, Gave, Begun, Has, Unmet, InSettling, Clutter, Bound,
          InOnePlace, SenderShape, ExpiredIsOut, HeldIsClaimed, StillTaken
    <3>1. AnswerIsGiven(m)' /\ SettledOnce(m)'
      BY <1>h, <1>b, <1>l, <2>2 DEF Arrives, AnswerIsGiven, SettledOnce, GivenArrives
    <3>2. ToldIsDone(m)' /\ AdmittedOnce(m)' /\ ClaimIsSenders(m)'
      BY <1>h, <1>b, <1>l, <2>2 DEF Arrives, ToldIsDone, AdmittedOnce, ClaimIsSenders
    <3>3. RemovedIsAnswered(m)' /\ StaysInSight(m)'
      BY <1>h, <1>b, <1>l, <2>2 DEF Arrives, RemovedIsAnswered, StaysInSight, ClaimIsSenders,
         GivenArrives
    <3>4. EndsUnbound(m)' /\ GivenArrives(m)'
      BY <1>h, <1>b, <1>l, <2>2 DEF Arrives, AnswerIsGiven, EndsUnbound, GivenArrives,
         SettledOnce, StaysInSight, ToldIsDone
    <3> QED BY <3>1, <3>2, <3>3, <3>4 DEF Arrives
  <2>3. CASE /\ m \in queue
             /\ Makes(m, files[m], answer[m], settling[m].does)
             /\ Body(m, settling[m].body)
             /\ Puts(m, m \in queue, m \in owed, m \in replies, m \in held)
             /\ Lets(m, InCourier(m), FALSE) /\ Gave(m, m \in given)
    <3> USE DEF Makes, Body, Puts, Lets, Gave, Begun, Has, Unmet, InSettling, Clutter, Bound,
          InOnePlace, SenderShape, ExpiredIsOut, HeldIsClaimed, StillTaken
    <3>1. AnswerIsGiven(m)' /\ SettledOnce(m)'
      BY <1>h, <1>b, <1>l, <2>3 DEF Arrives, AnswerIsGiven, SettledOnce, GivenArrives
    <3>2. ToldIsDone(m)' /\ AdmittedOnce(m)' /\ ClaimIsSenders(m)'
      BY <1>h, <1>b, <1>l, <2>3 DEF Arrives, ToldIsDone, AdmittedOnce, ClaimIsSenders
    <3>3. RemovedIsAnswered(m)' /\ StaysInSight(m)'
      BY <1>h, <1>b, <1>l, <2>3 DEF Arrives, RemovedIsAnswered, StaysInSight, ClaimIsSenders,
         GivenArrives
    <3>4. EndsUnbound(m)' /\ GivenArrives(m)'
      BY <1>h, <1>b, <1>l, <2>3 DEF Arrives, AnswerIsGiven, EndsUnbound, GivenArrives,
         SettledOnce, StaysInSight, ToldIsDone
    <3> QED BY <3>1, <3>2, <3>3, <3>4 DEF Arrives
  <2> QED BY <2>1, <2>2, <2>3
<1>4. CASE ClaimForReceiver(m)
  <2>1. \/ /\ m \in queue
           /\ Makes(m, files[m], answer[m], settling[m].does)
           /\ Body(m, settling[m].body)
           /\ Puts(m, m \in queue, m \in owed, m \in replies, m \in held)
           /\ Lets(m, InCourier(m), FALSE) /\ Gave(m, m \in given)
        \/ /\ m \in queue /\ m \notin held
           /\ Makes(m, files[m] \cup {"claimed"}, answer[m], settling[m].does)
           /\ Body(m, settling[m].body)
           /\ Puts(m, m \in queue, m \in owed, m \in replies, TRUE)
           /\ Lets(m, InCourier(m), FALSE) /\ Gave(m, m \in given)
        \/ /\ m \in queue /\ m \notin held /\ Has(m, "claimed")
           /\ Makes(m, files[m] \ Clutter, answer[m], settling[m].does)
           /\ Body(m, settling[m].body)
           /\ Puts(m, FALSE, m \in owed, m \in replies, m \in held)
           /\ Lets(m, InCourier(m), FALSE) /\ Gave(m, m \in given)
    <3>1. CASE m \in held
      <4>1. m \in queue
        BY <1>t, <1>u, <1>q, <1>4, <3>1 DEF ClaimForReceiver, Discard, Create, Becomes, Receiving,
           Leave, Enter, Has, Refused, Fine
      <4>2. Makes(m, files[m], answer[m], settling[m].does)
        BY <1>t, <1>u, <1>q, <1>4, <3>1 DEF ClaimForReceiver, Makes, Discard, Create, Becomes,
           Receiving, Leave, Enter, Has, Refused, Fine
      <4>3. Body(m, settling[m].body)
        BY <1>t, <1>u, <1>q, <1>4, <3>1 DEF ClaimForReceiver, Body, InSettling, Discard, Create,
           Becomes, Receiving, Leave, Enter, Has, Refused, Fine
      <4>4. Puts(m, m \in queue, m \in owed, m \in replies, m \in held)
        BY <1>t, <1>u, <1>q, <1>4, <3>1 DEF ClaimForReceiver, Puts, Discard, Create, Becomes,
           Receiving, Leave, Enter, Has, Refused, Fine
      <4>5. Lets(m, InCourier(m), FALSE) /\ Gave(m, m \in given)
        <5>1. inside' = [does |-> "expire", m |-> m]
          BY <1>t, <1>q, <1>4, <3>1 DEF ClaimForReceiver, Leave, Enter, Refused, Fine
        <5>2. courier' = courier /\ given' = given
          BY <1>4 DEF ClaimForReceiver, Receiving, serving
        <5> QED BY <5>1, <5>2 DEF Lets, Gave, Within, InCourier, Idle
      <4> QED BY <4>1, <4>2, <4>3, <4>4, <4>5
    <3>2. CASE m \notin held /\ Has(m, "claimed")
      <4>1. m \in queue /\ m \notin held /\ Has(m, "claimed")
        BY <1>t, <1>u, <1>q, <1>4, <3>2 DEF ClaimForReceiver, Discard, Create, Becomes, Receiving,
           Leave, Enter, Has, Refused, Fine
      <4>2. Makes(m, files[m] \ Clutter, answer[m], settling[m].does)
        BY <1>t, <1>u, <1>q, <1>4, <3>2 DEF ClaimForReceiver, Makes, Discard, Create, Becomes,
           Receiving, Leave, Enter, Has, Refused, Fine
      <4>3. Body(m, settling[m].body)
        BY <1>t, <1>u, <1>q, <1>4, <3>2 DEF ClaimForReceiver, Body, InSettling, Discard, Create,
           Becomes, Receiving, Leave, Enter, Has, Refused, Fine
      <4>4. Puts(m, FALSE, m \in owed, m \in replies, m \in held)
        BY <1>t, <1>u, <1>q, <1>4, <3>2 DEF ClaimForReceiver, Puts, Discard, Create, Becomes,
           Receiving, Leave, Enter, Has, Refused, Fine
      <4>5. Lets(m, InCourier(m), FALSE) /\ Gave(m, m \in given)
        <5>1. inside' = Idle
          BY <1>t, <1>q, <1>4, <3>2 DEF ClaimForReceiver, Leave, Enter, Refused, Fine
        <5>2. courier' = courier /\ given' = given
          BY <1>4 DEF ClaimForReceiver, Receiving, serving
        <5> QED BY <5>1, <5>2 DEF Lets, Gave, Within, InCourier, Idle
      <4> QED BY <4>1, <4>2, <4>3, <4>4, <4>5
    <3>3. CASE m \notin held /\ ~Has(m, "claimed") /\ Fine
      <4>1. m \in queue /\ m \notin held
        BY <1>t, <1>u, <1>q, <1>4, <3>3 DEF ClaimForReceiver, Discard, Create, Becomes, Receiving,
           Leave, Enter, Has, Refused, Fine
      <4>2. Makes(m, files[m] \cup {"claimed"}, answer[m], settling[m].does)
        BY <1>t, <1>u, <1>q, <1>4, <3>3 DEF ClaimForReceiver, Makes, Discard, Create, Becomes,
           Receiving, Leave, Enter, Has, Refused, Fine
      <4>3. Body(m, settling[m].body)
        BY <1>t, <1>u, <1>q, <1>4, <3>3 DEF ClaimForReceiver, Body, InSettling, Discard, Create,
           Becomes, Receiving, Leave, Enter, Has, Refused, Fine
      <4>4. Puts(m, m \in queue, m \in owed, m \in replies, TRUE)
        BY <1>t, <1>u, <1>q, <1>4, <3>3 DEF ClaimForReceiver, Puts, Discard, Create, Becomes,
           Receiving, Leave, Enter, Has, Refused, Fine
      <4>5. Lets(m, InCourier(m), FALSE) /\ Gave(m, m \in given)
        <5>1. inside' = [does |-> "expire", m |-> m]
          BY <1>t, <1>q, <1>4, <3>3 DEF ClaimForReceiver, Leave, Enter, Refused, Fine
        <5>2. courier' = courier /\ given' = given
          BY <1>4 DEF ClaimForReceiver, Receiving, serving
        <5> QED BY <5>1, <5>2 DEF Lets, Gave, Within, InCourier, Idle
      <4> QED BY <4>1, <4>2, <4>3, <4>4, <4>5
    <3>4. CASE m \notin held /\ ~Has(m, "claimed") /\ Refused("claim")
      <4>1. m \in queue
        BY <1>t, <1>u, <1>q, <1>4, <3>4 DEF ClaimForReceiver, Discard, Create, Becomes, Receiving,
           Leave, Enter, Has, Refused, Fine
      <4>2. Makes(m, files[m], answer[m], settling[m].does)
        BY <1>t, <1>u, <1>q, <1>4, <3>4 DEF ClaimForReceiver, Makes, Discard, Create, Becomes,
           Receiving, Leave, Enter, Has, Refused, Fine
      <4>3. Body(m, settling[m].body)
        BY <1>t, <1>u, <1>q, <1>4, <3>4 DEF ClaimForReceiver, Body, InSettling, Discard, Create,
           Becomes, Receiving, Leave, Enter, Has, Refused, Fine
      <4>4. Puts(m, m \in queue, m \in owed, m \in replies, m \in held)
        BY <1>t, <1>u, <1>q, <1>4, <3>4 DEF ClaimForReceiver, Puts, Discard, Create, Becomes,
           Receiving, Leave, Enter, Has, Refused, Fine
      <4>5. Lets(m, InCourier(m), FALSE) /\ Gave(m, m \in given)
        <5>1. inside' = Idle
          BY <1>t, <1>q, <1>4, <3>4 DEF ClaimForReceiver, Leave, Enter, Refused, Fine
        <5>2. courier' = courier /\ given' = given
          BY <1>4 DEF ClaimForReceiver, Receiving, serving
        <5> QED BY <5>1, <5>2 DEF Lets, Gave, Within, InCourier, Idle
      <4> QED BY <4>1, <4>2, <4>3, <4>4, <4>5
    <3> QED BY <1>4, <3>1, <3>2, <3>3, <3>4 DEF ClaimForReceiver
  <2>2. CASE /\ m \in queue
             /\ Makes(m, files[m], answer[m], settling[m].does)
             /\ Body(m, settling[m].body)
             /\ Puts(m, m \in queue, m \in owed, m \in replies, m \in held)
             /\ Lets(m, InCourier(m), FALSE) /\ Gave(m, m \in given)
    <3> USE DEF Makes, Body, Puts, Lets, Gave, Begun, Has, Unmet, InSettling, Clutter, Bound,
          InOnePlace, SenderShape, ExpiredIsOut, HeldIsClaimed, StillTaken
    <3>1. AnswerIsGiven(m)' /\ SettledOnce(m)'
      BY <1>h, <1>b, <1>l, <2>2 DEF Arrives, AnswerIsGiven, SettledOnce, GivenArrives
    <3>2. ToldIsDone(m)' /\ AdmittedOnce(m)' /\ ClaimIsSenders(m)'
      BY <1>h, <1>b, <1>l, <2>2 DEF Arrives, ToldIsDone, AdmittedOnce, ClaimIsSenders
    <3>3. RemovedIsAnswered(m)' /\ StaysInSight(m)'
      BY <1>h, <1>b, <1>l, <2>2 DEF Arrives, RemovedIsAnswered, StaysInSight, ClaimIsSenders,
         GivenArrives
    <3>4. EndsUnbound(m)' /\ GivenArrives(m)'
      BY <1>h, <1>b, <1>l, <2>2 DEF Arrives, AnswerIsGiven, EndsUnbound, GivenArrives,
         SettledOnce, StaysInSight, ToldIsDone
    <3> QED BY <3>1, <3>2, <3>3, <3>4 DEF Arrives
  <2>3. CASE /\ m \in queue /\ m \notin held
             /\ Makes(m, files[m] \cup {"claimed"}, answer[m], settling[m].does)
             /\ Body(m, settling[m].body)
             /\ Puts(m, m \in queue, m \in owed, m \in replies, TRUE)
             /\ Lets(m, InCourier(m), FALSE) /\ Gave(m, m \in given)
    <3> USE DEF Makes, Body, Puts, Lets, Gave, Begun, Has, Unmet, InSettling, Clutter, Bound,
          InOnePlace, SenderShape, ExpiredIsOut, HeldIsClaimed, StillTaken
    <3>1. AnswerIsGiven(m)' /\ SettledOnce(m)'
      BY <1>h, <1>b, <1>l, <2>3 DEF Arrives, AnswerIsGiven, SettledOnce, GivenArrives
    <3>2. ToldIsDone(m)' /\ AdmittedOnce(m)' /\ ClaimIsSenders(m)'
      BY <1>h, <1>b, <1>l, <2>3 DEF Arrives, ToldIsDone, AdmittedOnce, ClaimIsSenders
    <3>3. RemovedIsAnswered(m)' /\ StaysInSight(m)'
      BY <1>h, <1>b, <1>l, <2>3 DEF Arrives, RemovedIsAnswered, StaysInSight, ClaimIsSenders,
         GivenArrives
    <3>4. EndsUnbound(m)' /\ GivenArrives(m)'
      BY <1>h, <1>b, <1>l, <2>3 DEF Arrives, AnswerIsGiven, EndsUnbound, GivenArrives,
         SettledOnce, StaysInSight, ToldIsDone
    <3> QED BY <3>1, <3>2, <3>3, <3>4 DEF Arrives
  <2>4. CASE /\ m \in queue /\ m \notin held /\ Has(m, "claimed")
             /\ Makes(m, files[m] \ Clutter, answer[m], settling[m].does)
             /\ Body(m, settling[m].body)
             /\ Puts(m, FALSE, m \in owed, m \in replies, m \in held)
             /\ Lets(m, InCourier(m), FALSE) /\ Gave(m, m \in given)
    <3> USE DEF Makes, Body, Puts, Lets, Gave, Begun, Has, Unmet, InSettling, Clutter, Bound,
          InOnePlace, SenderShape, ExpiredIsOut, HeldIsClaimed, StillTaken
    <3>1. AnswerIsGiven(m)' /\ SettledOnce(m)'
      BY <1>h, <1>b, <1>l, <2>4 DEF Arrives, AnswerIsGiven, SettledOnce, GivenArrives
    <3>2. ToldIsDone(m)' /\ AdmittedOnce(m)' /\ ClaimIsSenders(m)'
      BY <1>h, <1>b, <1>l, <2>4 DEF Arrives, ToldIsDone, AdmittedOnce, ClaimIsSenders
    <3>3. RemovedIsAnswered(m)' /\ StaysInSight(m)'
      BY <1>h, <1>b, <1>l, <2>4 DEF Arrives, RemovedIsAnswered, StaysInSight, ClaimIsSenders,
         GivenArrives
    <3>4. EndsUnbound(m)' /\ GivenArrives(m)'
      BY <1>h, <1>b, <1>l, <2>4 DEF Arrives, AnswerIsGiven, EndsUnbound, GivenArrives,
         SettledOnce, StaysInSight, ToldIsDone
    <3> QED BY <3>1, <3>2, <3>3, <3>4 DEF Arrives
  <2> QED BY <2>1, <2>2, <2>3, <2>4
<1>5. CASE Expire(m)
  <2>1. \/ /\ m \in queue /\ m \in held
           /\ Makes(m, files[m], answer[m], settling[m].does)
           /\ Body(m, settling[m].body)
           /\ Puts(m, FALSE, TRUE, m \in replies, m \in held)
           /\ Lets(m, InCourier(m), FALSE) /\ Gave(m, m \in given)
        \/ /\ m \in queue
           /\ Makes(m, files[m] \cup {"expired"}, answer[m], settling[m].does)
           /\ Body(m, settling[m].body)
           /\ Puts(m, FALSE, m \in owed, m \in replies, FALSE)
           /\ Lets(m, InCourier(m), FALSE) /\ Gave(m, m \in given)
        \/ /\ m \in queue
           /\ Makes(m, files[m], answer[m], settling[m].does)
           /\ Body(m, settling[m].body)
           /\ Puts(m, m \in queue, m \in owed, m \in replies, m \in held)
           /\ Lets(m, InCourier(m), FALSE) /\ Gave(m, m \in given)
    <3>1. CASE ~Due(m)
      <4>1. m \in queue /\ m \in held
        BY <1>t, <1>u, <1>q, <1>5, <3>1 DEF Expire, Create, Becomes, Receiving, Leave, Enter, Has,
           Refused, Fine
      <4>2. Makes(m, files[m], answer[m], settling[m].does)
        BY <1>t, <1>u, <1>q, <1>5, <3>1 DEF Expire, Makes, Create, Becomes, Receiving, Leave,
           Enter, Has, Refused, Fine
      <4>3. Body(m, settling[m].body)
        BY <1>t, <1>u, <1>q, <1>5, <3>1 DEF Expire, Body, InSettling, Create, Becomes, Receiving,
           Leave, Enter, Has, Refused, Fine
      <4>4. Puts(m, FALSE, TRUE, m \in replies, m \in held)
        BY <1>t, <1>u, <1>q, <1>5, <3>1 DEF Expire, Puts, Create, Becomes, Receiving, Leave,
           Enter, Has, Refused, Fine
      <4>5. Lets(m, InCourier(m), FALSE) /\ Gave(m, m \in given)
        BY <1>t, <1>u, <1>q, <1>5, <3>1 DEF Expire, Lets, Gave, Within, InCourier, serving, Idle,
           Receiving, Leave, Enter, Has, Refused, Fine
      <4> QED BY <4>1, <4>2, <4>3, <4>4, <4>5
    <3>2. CASE Due(m) /\ Fine
      <4>1. m \in queue
        BY <1>t, <1>u, <1>q, <1>5, <3>2 DEF Expire, Create, Becomes, Receiving, Leave, Enter, Has,
           Refused, Fine
      <4>2. Makes(m, files[m] \cup {"expired"}, answer[m], settling[m].does)
        BY <1>t, <1>u, <1>q, <1>5, <3>2 DEF Expire, Makes, Create, Becomes, Receiving, Leave,
           Enter, Has, Refused, Fine
      <4>3. Body(m, settling[m].body)
        BY <1>t, <1>u, <1>q, <1>5, <3>2 DEF Expire, Body, InSettling, Create, Becomes, Receiving,
           Leave, Enter, Has, Refused, Fine
      <4>4. Puts(m, FALSE, m \in owed, m \in replies, FALSE)
        BY <1>t, <1>u, <1>q, <1>5, <3>2 DEF Expire, Puts, Create, Becomes, Receiving, Leave,
           Enter, Has, Refused, Fine
      <4>5. Lets(m, InCourier(m), FALSE) /\ Gave(m, m \in given)
        BY <1>t, <1>u, <1>q, <1>5, <3>2 DEF Expire, Lets, Gave, Within, InCourier, serving, Idle,
           Receiving, Leave, Enter, Has, Refused, Fine
      <4> QED BY <4>1, <4>2, <4>3, <4>4, <4>5
    <3>3. CASE Due(m) /\ Refused("expiry")
      <4>1. m \in queue
        BY <1>t, <1>u, <1>q, <1>5, <3>3 DEF Expire, Create, Becomes, Receiving, Leave, Enter, Has,
           Refused, Fine
      <4>2. Makes(m, files[m], answer[m], settling[m].does)
        BY <1>t, <1>u, <1>q, <1>5, <3>3 DEF Expire, Makes, Create, Becomes, Receiving, Leave,
           Enter, Has, Refused, Fine
      <4>3. Body(m, settling[m].body)
        BY <1>t, <1>u, <1>q, <1>5, <3>3 DEF Expire, Body, InSettling, Create, Becomes, Receiving,
           Leave, Enter, Has, Refused, Fine
      <4>4. Puts(m, m \in queue, m \in owed, m \in replies, m \in held)
        BY <1>t, <1>u, <1>q, <1>5, <3>3 DEF Expire, Puts, Create, Becomes, Receiving, Leave,
           Enter, Has, Refused, Fine
      <4>5. Lets(m, InCourier(m), FALSE) /\ Gave(m, m \in given)
        BY <1>t, <1>u, <1>q, <1>5, <3>3 DEF Expire, Lets, Gave, Within, InCourier, serving, Idle,
           Receiving, Leave, Enter, Has, Refused, Fine
      <4> QED BY <4>1, <4>2, <4>3, <4>4, <4>5
    <3> QED BY <1>5, <3>1, <3>2, <3>3 DEF Expire
  <2>2. CASE /\ m \in queue /\ m \in held
             /\ Makes(m, files[m], answer[m], settling[m].does)
             /\ Body(m, settling[m].body)
             /\ Puts(m, FALSE, TRUE, m \in replies, m \in held)
             /\ Lets(m, InCourier(m), FALSE) /\ Gave(m, m \in given)
    <3> USE DEF Makes, Body, Puts, Lets, Gave, Begun, Has, Unmet, InSettling, Clutter, Bound,
          InOnePlace, SenderShape, ExpiredIsOut, HeldIsClaimed, StillTaken
    <3>1. AnswerIsGiven(m)' /\ SettledOnce(m)'
      BY <1>h, <1>b, <1>l, <2>2 DEF Arrives, AnswerIsGiven, SettledOnce, GivenArrives
    <3>2. ToldIsDone(m)' /\ AdmittedOnce(m)' /\ ClaimIsSenders(m)'
      BY <1>h, <1>b, <1>l, <2>2 DEF Arrives, ToldIsDone, AdmittedOnce, ClaimIsSenders
    <3>3. RemovedIsAnswered(m)' /\ StaysInSight(m)'
      BY <1>h, <1>b, <1>l, <2>2 DEF Arrives, RemovedIsAnswered, StaysInSight, ClaimIsSenders,
         GivenArrives
    <3>4. EndsUnbound(m)' /\ GivenArrives(m)'
      BY <1>h, <1>b, <1>l, <2>2 DEF Arrives, AnswerIsGiven, EndsUnbound, GivenArrives,
         SettledOnce, StaysInSight, ToldIsDone
    <3> QED BY <3>1, <3>2, <3>3, <3>4 DEF Arrives
  <2>3. CASE /\ m \in queue
             /\ Makes(m, files[m] \cup {"expired"}, answer[m], settling[m].does)
             /\ Body(m, settling[m].body)
             /\ Puts(m, FALSE, m \in owed, m \in replies, FALSE)
             /\ Lets(m, InCourier(m), FALSE) /\ Gave(m, m \in given)
    <3> USE DEF Makes, Body, Puts, Lets, Gave, Begun, Has, Unmet, InSettling, Clutter, Bound,
          InOnePlace, SenderShape, ExpiredIsOut, HeldIsClaimed, StillTaken
    <3>1. AnswerIsGiven(m)' /\ SettledOnce(m)'
      BY <1>h, <1>b, <1>l, <2>3 DEF Arrives, AnswerIsGiven, SettledOnce, GivenArrives
    <3>2. ToldIsDone(m)' /\ AdmittedOnce(m)' /\ ClaimIsSenders(m)'
      BY <1>h, <1>b, <1>l, <2>3 DEF Arrives, ToldIsDone, AdmittedOnce, ClaimIsSenders
    <3>3. RemovedIsAnswered(m)' /\ StaysInSight(m)'
      BY <1>h, <1>b, <1>l, <2>3 DEF Arrives, RemovedIsAnswered, StaysInSight, ClaimIsSenders,
         GivenArrives
    <3>4. EndsUnbound(m)' /\ GivenArrives(m)'
      BY <1>h, <1>b, <1>l, <2>3 DEF Arrives, AnswerIsGiven, EndsUnbound, GivenArrives,
         SettledOnce, StaysInSight, ToldIsDone
    <3> QED BY <3>1, <3>2, <3>3, <3>4 DEF Arrives
  <2>4. CASE /\ m \in queue
             /\ Makes(m, files[m], answer[m], settling[m].does)
             /\ Body(m, settling[m].body)
             /\ Puts(m, m \in queue, m \in owed, m \in replies, m \in held)
             /\ Lets(m, InCourier(m), FALSE) /\ Gave(m, m \in given)
    <3> USE DEF Makes, Body, Puts, Lets, Gave, Begun, Has, Unmet, InSettling, Clutter, Bound,
          InOnePlace, SenderShape, ExpiredIsOut, HeldIsClaimed, StillTaken
    <3>1. AnswerIsGiven(m)' /\ SettledOnce(m)'
      BY <1>h, <1>b, <1>l, <2>4 DEF Arrives, AnswerIsGiven, SettledOnce, GivenArrives
    <3>2. ToldIsDone(m)' /\ AdmittedOnce(m)' /\ ClaimIsSenders(m)'
      BY <1>h, <1>b, <1>l, <2>4 DEF Arrives, ToldIsDone, AdmittedOnce, ClaimIsSenders
    <3>3. RemovedIsAnswered(m)' /\ StaysInSight(m)'
      BY <1>h, <1>b, <1>l, <2>4 DEF Arrives, RemovedIsAnswered, StaysInSight, ClaimIsSenders,
         GivenArrives
    <3>4. EndsUnbound(m)' /\ GivenArrives(m)'
      BY <1>h, <1>b, <1>l, <2>4 DEF Arrives, AnswerIsGiven, EndsUnbound, GivenArrives,
         SettledOnce, StaysInSight, ToldIsDone
    <3> QED BY <3>1, <3>2, <3>3, <3>4 DEF Arrives
  <2> QED BY <2>1, <2>2, <2>3, <2>4
<1>6. CASE Release(m)
  <2>1. \/ /\ m \notin owed /\ inside = Idle
           /\ Makes(m, files[m], answer[m], settling[m].does)
           /\ Body(m, settling[m].body)
           /\ Puts(m, m \in queue, m \in owed, m \in replies, m \in held)
           /\ Lets(m, InCourier(m), FALSE) /\ Gave(m, m \in given)
        \/ /\ m \in owed /\ inside = Idle
           /\ Makes(m, files[m], answer[m], settling[m].does)
           /\ Body(m, settling[m].body)
           /\ Puts(m, m \in queue, FALSE, m \in replies, m \in held)
           /\ Lets(m, InCourier(m), TRUE) /\ Gave(m, m \in given)
        \/ /\ m \in owed /\ inside = Idle
           /\ Makes(m, files[m] \cup {"expired"}, answer[m], settling[m].does)
           /\ Body(m, settling[m].body)
           /\ Puts(m, m \in queue, FALSE, m \in replies, FALSE)
           /\ Lets(m, InCourier(m), FALSE) /\ Gave(m, m \in given)
        \/ /\ m \in owed /\ inside = Idle
           /\ Makes(m, files[m], answer[m], settling[m].does)
           /\ Body(m, settling[m].body)
           /\ Puts(m, TRUE, FALSE, m \in replies, m \in held)
           /\ Lets(m, InCourier(m), FALSE) /\ Gave(m, m \in given)
    <3>1. CASE m \notin owed
      <4>1. m \notin owed /\ inside = Idle
        BY <1>t, <1>u, <1>q, <1>6, <3>1 DEF Release, HandsOver, Create, Becomes, Receiving, Leave,
           Enter, Has, Refused, Fine
      <4>2. Makes(m, files[m], answer[m], settling[m].does)
        BY <1>t, <1>u, <1>q, <1>6, <3>1 DEF Release, Makes, HandsOver, Create, Becomes, Receiving,
           Leave, Enter, Has, Refused, Fine
      <4>3. Body(m, settling[m].body)
        BY <1>t, <1>u, <1>q, <1>6, <3>1 DEF Release, Body, InSettling, HandsOver, Create, Becomes,
           Receiving, Leave, Enter, Has, Refused, Fine
      <4>4. Puts(m, m \in queue, m \in owed, m \in replies, m \in held)
        BY <1>t, <1>u, <1>q, <1>6, <3>1 DEF Release, Puts, HandsOver, Create, Becomes, Receiving,
           Leave, Enter, Has, Refused, Fine
      <4>5. Lets(m, InCourier(m), FALSE) /\ Gave(m, m \in given)
        <5>1. inside' = Idle
          BY <1>t, <1>q, <1>6, <3>1 DEF Release, HandsOver, Create, Becomes, Leave, Enter,
             Refused, Fine
        <5>2. courier' = courier /\ given' = given
          BY <1>6 DEF Release, Receiving, serving
        <5> QED BY <5>1, <5>2 DEF Lets, Gave, Within, InCourier, Idle
      <4> QED BY <4>1, <4>2, <4>3, <4>4, <4>5
    <3>2. CASE m \in owed /\ ~Due(m)
      <4>1. m \in owed /\ inside = Idle
        BY <1>t, <1>u, <1>q, <1>6, <3>2 DEF Release, HandsOver, Create, Becomes, Receiving, Leave,
           Enter, Has, Refused, Fine
      <4>2. Makes(m, files[m], answer[m], settling[m].does)
        BY <1>t, <1>u, <1>q, <1>6, <3>2 DEF Release, Makes, HandsOver, Create, Becomes, Receiving,
           Leave, Enter, Has, Refused, Fine
      <4>3. Body(m, settling[m].body)
        BY <1>t, <1>u, <1>q, <1>6, <3>2 DEF Release, Body, InSettling, HandsOver, Create, Becomes,
           Receiving, Leave, Enter, Has, Refused, Fine
      <4>4. Puts(m, m \in queue, FALSE, m \in replies, m \in held)
        BY <1>t, <1>u, <1>q, <1>6, <3>2 DEF Release, Puts, HandsOver, Create, Becomes, Receiving,
           Leave, Enter, Has, Refused, Fine
      <4>5. Lets(m, InCourier(m), TRUE) /\ Gave(m, m \in given)
        <5>1. inside' = [does |-> "let go", m |-> m]
          BY <1>t, <1>q, <1>6, <3>2 DEF Release, HandsOver, Create, Becomes, Leave, Enter,
             Refused, Fine
        <5>2. courier' = courier /\ given' = given
          BY <1>6 DEF Release, Receiving, serving
        <5> QED BY <5>1, <5>2 DEF Lets, Gave, Within, InCourier, Idle
      <4> QED BY <4>1, <4>2, <4>3, <4>4, <4>5
    <3>3. CASE m \in owed /\ Due(m) /\ Fine
      <4>1. m \in owed /\ inside = Idle
        BY <1>t, <1>u, <1>q, <1>6, <3>3 DEF Release, HandsOver, Create, Becomes, Receiving, Leave,
           Enter, Has, Refused, Fine
      <4>2. Makes(m, files[m] \cup {"expired"}, answer[m], settling[m].does)
        BY <1>t, <1>u, <1>q, <1>6, <3>3 DEF Release, Makes, HandsOver, Create, Becomes, Receiving,
           Leave, Enter, Has, Refused, Fine
      <4>3. Body(m, settling[m].body)
        BY <1>t, <1>u, <1>q, <1>6, <3>3 DEF Release, Body, InSettling, HandsOver, Create, Becomes,
           Receiving, Leave, Enter, Has, Refused, Fine
      <4>4. Puts(m, m \in queue, FALSE, m \in replies, FALSE)
        BY <1>t, <1>u, <1>q, <1>6, <3>3 DEF Release, Puts, HandsOver, Create, Becomes, Receiving,
           Leave, Enter, Has, Refused, Fine
      <4>5. Lets(m, InCourier(m), FALSE) /\ Gave(m, m \in given)
        <5>1. inside' = Idle
          BY <1>t, <1>q, <1>6, <3>3 DEF Release, HandsOver, Create, Becomes, Leave, Enter,
             Refused, Fine
        <5>2. courier' = courier /\ given' = given
          BY <1>6 DEF Release, Receiving, serving
        <5> QED BY <5>1, <5>2 DEF Lets, Gave, Within, InCourier, Idle
      <4> QED BY <4>1, <4>2, <4>3, <4>4, <4>5
    <3>4. CASE m \in owed /\ Due(m) /\ Refused("expiry")
      <4>1. m \in owed /\ inside = Idle
        BY <1>t, <1>u, <1>q, <1>6, <3>4 DEF Release, HandsOver, Create, Becomes, Receiving, Leave,
           Enter, Has, Refused, Fine
      <4>2. Makes(m, files[m], answer[m], settling[m].does)
        BY <1>t, <1>u, <1>q, <1>6, <3>4 DEF Release, Makes, HandsOver, Create, Becomes, Receiving,
           Leave, Enter, Has, Refused, Fine
      <4>3. Body(m, settling[m].body)
        BY <1>t, <1>u, <1>q, <1>6, <3>4 DEF Release, Body, InSettling, HandsOver, Create, Becomes,
           Receiving, Leave, Enter, Has, Refused, Fine
      <4>4. Puts(m, TRUE, FALSE, m \in replies, m \in held)
        BY <1>t, <1>u, <1>q, <1>6, <3>4 DEF Release, Puts, HandsOver, Create, Becomes, Receiving,
           Leave, Enter, Has, Refused, Fine
      <4>5. Lets(m, InCourier(m), FALSE) /\ Gave(m, m \in given)
        <5>1. inside' = Idle
          BY <1>t, <1>q, <1>6, <3>4 DEF Release, HandsOver, Create, Becomes, Leave, Enter,
             Refused, Fine
        <5>2. courier' = courier /\ given' = given
          BY <1>6 DEF Release, Receiving, serving
        <5> QED BY <5>1, <5>2 DEF Lets, Gave, Within, InCourier, Idle
      <4> QED BY <4>1, <4>2, <4>3, <4>4, <4>5
    <3> QED BY <1>6, <3>1, <3>2, <3>3, <3>4 DEF Release, HandsOver
  <2>2. CASE /\ m \notin owed /\ inside = Idle
             /\ Makes(m, files[m], answer[m], settling[m].does)
             /\ Body(m, settling[m].body)
             /\ Puts(m, m \in queue, m \in owed, m \in replies, m \in held)
             /\ Lets(m, InCourier(m), FALSE) /\ Gave(m, m \in given)
    <3> USE DEF Makes, Body, Puts, Lets, Gave, Begun, Has, Unmet, InSettling, Clutter, Bound,
          InOnePlace, SenderShape, ExpiredIsOut, HeldIsClaimed, StillTaken
    <3>1. AnswerIsGiven(m)' /\ SettledOnce(m)'
      BY <1>h, <1>b, <1>l, <2>2 DEF Arrives, AnswerIsGiven, SettledOnce, GivenArrives
    <3>2. ToldIsDone(m)' /\ AdmittedOnce(m)' /\ ClaimIsSenders(m)'
      BY <1>h, <1>b, <1>l, <2>2 DEF Arrives, ToldIsDone, AdmittedOnce, ClaimIsSenders
    <3>3. RemovedIsAnswered(m)' /\ StaysInSight(m)'
      BY <1>h, <1>b, <1>l, <2>2 DEF Arrives, RemovedIsAnswered, StaysInSight, ClaimIsSenders,
         GivenArrives
    <3>4. EndsUnbound(m)' /\ GivenArrives(m)'
      BY <1>h, <1>b, <1>l, <2>2 DEF Arrives, AnswerIsGiven, EndsUnbound, GivenArrives,
         SettledOnce, StaysInSight, ToldIsDone
    <3> QED BY <3>1, <3>2, <3>3, <3>4 DEF Arrives
  <2>3. CASE /\ m \in owed /\ inside = Idle
             /\ Makes(m, files[m], answer[m], settling[m].does)
             /\ Body(m, settling[m].body)
             /\ Puts(m, m \in queue, FALSE, m \in replies, m \in held)
             /\ Lets(m, InCourier(m), TRUE) /\ Gave(m, m \in given)
    <3> USE DEF Makes, Body, Puts, Lets, Gave, Begun, Has, Unmet, InSettling, Clutter, Bound,
          InOnePlace, SenderShape, ExpiredIsOut, HeldIsClaimed, StillTaken
    <3>1. AnswerIsGiven(m)' /\ SettledOnce(m)'
      BY <1>h, <1>b, <1>l, <2>3 DEF Arrives, AnswerIsGiven, SettledOnce, GivenArrives
    <3>2. ToldIsDone(m)' /\ AdmittedOnce(m)' /\ ClaimIsSenders(m)'
      BY <1>h, <1>b, <1>l, <2>3 DEF Arrives, ToldIsDone, AdmittedOnce, ClaimIsSenders
    <3>3. RemovedIsAnswered(m)' /\ StaysInSight(m)'
      BY <1>h, <1>b, <1>l, <2>3 DEF Arrives, RemovedIsAnswered, StaysInSight, ClaimIsSenders,
         GivenArrives
    <3>4. EndsUnbound(m)' /\ GivenArrives(m)'
      BY <1>h, <1>b, <1>l, <2>3 DEF Arrives, AnswerIsGiven, EndsUnbound, GivenArrives,
         SettledOnce, StaysInSight, ToldIsDone
    <3> QED BY <3>1, <3>2, <3>3, <3>4 DEF Arrives
  <2>4. CASE /\ m \in owed /\ inside = Idle
             /\ Makes(m, files[m] \cup {"expired"}, answer[m], settling[m].does)
             /\ Body(m, settling[m].body)
             /\ Puts(m, m \in queue, FALSE, m \in replies, FALSE)
             /\ Lets(m, InCourier(m), FALSE) /\ Gave(m, m \in given)
    <3> USE DEF Makes, Body, Puts, Lets, Gave, Begun, Has, Unmet, InSettling, Clutter, Bound,
          InOnePlace, SenderShape, ExpiredIsOut, HeldIsClaimed, StillTaken
    <3>1. AnswerIsGiven(m)' /\ SettledOnce(m)'
      BY <1>h, <1>b, <1>l, <2>4 DEF Arrives, AnswerIsGiven, SettledOnce, GivenArrives
    <3>2. ToldIsDone(m)' /\ AdmittedOnce(m)' /\ ClaimIsSenders(m)'
      BY <1>h, <1>b, <1>l, <2>4 DEF Arrives, ToldIsDone, AdmittedOnce, ClaimIsSenders
    <3>3. RemovedIsAnswered(m)' /\ StaysInSight(m)'
      BY <1>h, <1>b, <1>l, <2>4 DEF Arrives, RemovedIsAnswered, StaysInSight, ClaimIsSenders,
         GivenArrives
    <3>4. EndsUnbound(m)' /\ GivenArrives(m)'
      BY <1>h, <1>b, <1>l, <2>4 DEF Arrives, AnswerIsGiven, EndsUnbound, GivenArrives,
         SettledOnce, StaysInSight, ToldIsDone
    <3> QED BY <3>1, <3>2, <3>3, <3>4 DEF Arrives
  <2>5. CASE /\ m \in owed /\ inside = Idle
             /\ Makes(m, files[m], answer[m], settling[m].does)
             /\ Body(m, settling[m].body)
             /\ Puts(m, TRUE, FALSE, m \in replies, m \in held)
             /\ Lets(m, InCourier(m), FALSE) /\ Gave(m, m \in given)
    <3> USE DEF Makes, Body, Puts, Lets, Gave, Begun, Has, Unmet, InSettling, Clutter, Bound,
          InOnePlace, SenderShape, ExpiredIsOut, HeldIsClaimed, StillTaken
    <3>1. AnswerIsGiven(m)' /\ SettledOnce(m)'
      BY <1>h, <1>b, <1>l, <2>5 DEF Arrives, AnswerIsGiven, SettledOnce, GivenArrives
    <3>2. ToldIsDone(m)' /\ AdmittedOnce(m)' /\ ClaimIsSenders(m)'
      BY <1>h, <1>b, <1>l, <2>5 DEF Arrives, ToldIsDone, AdmittedOnce, ClaimIsSenders
    <3>3. RemovedIsAnswered(m)' /\ StaysInSight(m)'
      BY <1>h, <1>b, <1>l, <2>5 DEF Arrives, RemovedIsAnswered, StaysInSight, ClaimIsSenders,
         GivenArrives
    <3>4. EndsUnbound(m)' /\ GivenArrives(m)'
      BY <1>h, <1>b, <1>l, <2>5 DEF Arrives, AnswerIsGiven, EndsUnbound, GivenArrives,
         SettledOnce, StaysInSight, ToldIsDone
    <3> QED BY <3>1, <3>2, <3>3, <3>4 DEF Arrives
  <2> QED BY <2>1, <2>2, <2>3, <2>4, <2>5
<1>7. CASE LetGo(m)
  <2>1. \/ /\ Within("let go", m)
           /\ Makes(m, files[m] \ {"claimed"}, answer[m], settling[m].does)
           /\ Body(m, settling[m].body)
           /\ Puts(m, TRUE, m \in owed, m \in replies, FALSE)
           /\ Lets(m, InCourier(m), FALSE) /\ Gave(m, m \in given)
        \/ /\ Within("let go", m)
           /\ Makes(m, files[m], answer[m], settling[m].does)
           /\ Body(m, settling[m].body)
           /\ Puts(m, TRUE, m \in owed, m \in replies, m \in held)
           /\ Lets(m, InCourier(m), FALSE) /\ Gave(m, m \in given)
    BY <1>t, <1>u, <1>q, <1>7 DEF LetGo, Makes, Body, Puts, Lets, Gave, Remove, Becomes,
       Receiving, Leave, Enter, Fine, Idle, Within, InCourier, InSettling, Has, serving, dir
  <2>2. CASE /\ Within("let go", m)
             /\ Makes(m, files[m] \ {"claimed"}, answer[m], settling[m].does)
             /\ Body(m, settling[m].body)
             /\ Puts(m, TRUE, m \in owed, m \in replies, FALSE)
             /\ Lets(m, InCourier(m), FALSE) /\ Gave(m, m \in given)
    <3> USE DEF Makes, Body, Puts, Lets, Gave, Begun, Has, Unmet, InSettling, Clutter, Bound,
          InOnePlace, SenderShape, ExpiredIsOut, HeldIsClaimed, StillTaken
    <3>1. AnswerIsGiven(m)' /\ SettledOnce(m)'
      BY <1>h, <1>b, <1>l, <2>2 DEF Arrives, AnswerIsGiven, SettledOnce, GivenArrives
    <3>2. ToldIsDone(m)' /\ AdmittedOnce(m)' /\ ClaimIsSenders(m)'
      BY <1>h, <1>b, <1>l, <2>2 DEF Arrives, ToldIsDone, AdmittedOnce, ClaimIsSenders
    <3>3. RemovedIsAnswered(m)' /\ StaysInSight(m)'
      BY <1>h, <1>b, <1>l, <2>2 DEF Arrives, RemovedIsAnswered, StaysInSight, ClaimIsSenders,
         GivenArrives
    <3>4. EndsUnbound(m)' /\ GivenArrives(m)'
      BY <1>h, <1>b, <1>l, <2>2 DEF Arrives, AnswerIsGiven, EndsUnbound, GivenArrives,
         SettledOnce, StaysInSight, ToldIsDone
    <3> QED BY <3>1, <3>2, <3>3, <3>4 DEF Arrives
  <2>3. CASE /\ Within("let go", m)
             /\ Makes(m, files[m], answer[m], settling[m].does)
             /\ Body(m, settling[m].body)
             /\ Puts(m, TRUE, m \in owed, m \in replies, m \in held)
             /\ Lets(m, InCourier(m), FALSE) /\ Gave(m, m \in given)
    <3> USE DEF Makes, Body, Puts, Lets, Gave, Begun, Has, Unmet, InSettling, Clutter, Bound,
          InOnePlace, SenderShape, ExpiredIsOut, HeldIsClaimed, StillTaken
    <3>1. AnswerIsGiven(m)' /\ SettledOnce(m)'
      BY <1>h, <1>b, <1>l, <2>3 DEF Arrives, AnswerIsGiven, SettledOnce, GivenArrives
    <3>2. ToldIsDone(m)' /\ AdmittedOnce(m)' /\ ClaimIsSenders(m)'
      BY <1>h, <1>b, <1>l, <2>3 DEF Arrives, ToldIsDone, AdmittedOnce, ClaimIsSenders
    <3>3. RemovedIsAnswered(m)' /\ StaysInSight(m)'
      BY <1>h, <1>b, <1>l, <2>3 DEF Arrives, RemovedIsAnswered, StaysInSight, ClaimIsSenders,
         GivenArrives
    <3>4. EndsUnbound(m)' /\ GivenArrives(m)'
      BY <1>h, <1>b, <1>l, <2>3 DEF Arrives, AnswerIsGiven, EndsUnbound, GivenArrives,
         SettledOnce, StaysInSight, ToldIsDone
    <3> QED BY <3>1, <3>2, <3>3, <3>4 DEF Arrives
  <2> QED BY <2>1, <2>2, <2>3
<1>8. CASE Answer(m)
  <2>1. \/ /\ m \in owed
           /\ Makes(m, files[m], answer[m], "claim")
           /\ Body(m, "answered")
           /\ Puts(m, m \in queue, FALSE, m \in replies, m \in held)
           /\ Lets(m, InCourier(m), FALSE) /\ Gave(m, TRUE)
        \/ /\ m \notin owed
           /\ Makes(m, files[m], answer[m], settling[m].does)
           /\ Body(m, settling[m].body)
           /\ Puts(m, m \in queue, m \in owed, m \in replies, m \in held)
           /\ Lets(m, InCourier(m), FALSE) /\ Gave(m, m \in given)
    <3>1. CASE m \in owed
      <4>0. /\ settling' = [settling EXCEPT ![m] = [does |-> "claim", body |-> "answered",
             by |-> "receiver"]]
            /\ files' = files /\ answer' = answer
        BY <1>8, <3>1 DEF Answer, Replies, HandsOver, Settle, dir
      <4>1. m \in owed
        BY <1>t, <1>u, <1>q, <1>8, <3>1 DEF Answer, Replies, HandsOver, Settle, Receiving, Leave,
           Enter, Has, dir, Refused, Fine
      <4>2. Makes(m, files[m], answer[m], "claim")
        BY <1>t, <1>u, <4>0 DEF Makes, Body, InSettling
      <4>3. Body(m, "answered")
        BY <1>t, <1>u, <4>0 DEF Makes, Body, InSettling
      <4>4. Puts(m, m \in queue, FALSE, m \in replies, m \in held)
        BY <1>t, <1>u, <1>q, <1>8, <3>1 DEF Answer, Puts, Replies, HandsOver, Settle, Receiving,
           Leave, Enter, Has, dir, Refused, Fine
      <4>5. Lets(m, InCourier(m), FALSE) /\ Gave(m, TRUE)
        BY <1>t, <1>u, <1>q, <1>8, <3>1 DEF Answer, Lets, Gave, Within, InCourier, serving, Idle,
           Replies, HandsOver, Settle, Receiving, Leave, Enter, Has, dir, Refused, Fine
      <4> QED BY <4>1, <4>2, <4>3, <4>4, <4>5
    <3>2. CASE m \notin owed
      <4>1. m \notin owed
        BY <1>t, <1>u, <1>q, <1>8, <3>2 DEF Answer, Replies, HandsOver, Settle, Receiving, Leave,
           Enter, Has, dir, Refused, Fine
      <4>2. Makes(m, files[m], answer[m], settling[m].does)
        BY <1>t, <1>u, <1>q, <1>8, <3>2 DEF Answer, Makes, Replies, HandsOver, Settle, Receiving,
           Leave, Enter, Has, dir, Refused, Fine
      <4>3. Body(m, settling[m].body)
        BY <1>t, <1>u, <1>q, <1>8, <3>2 DEF Answer, Body, InSettling, Replies, HandsOver, Settle,
           Receiving, Leave, Enter, Has, dir, Refused, Fine
      <4>4. Puts(m, m \in queue, m \in owed, m \in replies, m \in held)
        BY <1>t, <1>u, <1>q, <1>8, <3>2 DEF Answer, Puts, Replies, HandsOver, Settle, Receiving,
           Leave, Enter, Has, dir, Refused, Fine
      <4>5. Lets(m, InCourier(m), FALSE) /\ Gave(m, m \in given)
        BY <1>t, <1>u, <1>q, <1>8, <3>2 DEF Answer, Lets, Gave, Within, InCourier, serving, Idle,
           Replies, HandsOver, Settle, Receiving, Leave, Enter, Has, dir, Refused, Fine
      <4> QED BY <4>1, <4>2, <4>3, <4>4, <4>5
    <3> QED BY <1>8, <3>1, <3>2 DEF Answer, Replies, HandsOver
  <2>2. CASE /\ m \in owed
             /\ Makes(m, files[m], answer[m], "claim")
             /\ Body(m, "answered")
             /\ Puts(m, m \in queue, FALSE, m \in replies, m \in held)
             /\ Lets(m, InCourier(m), FALSE) /\ Gave(m, TRUE)
    <3> USE DEF Makes, Body, Puts, Lets, Gave, Begun, Has, Unmet, InSettling, Clutter, Bound,
          InOnePlace, SenderShape, ExpiredIsOut, HeldIsClaimed, StillTaken
    <3>1. AnswerIsGiven(m)' /\ SettledOnce(m)'
      BY <1>h, <1>b, <1>l, <2>2 DEF Arrives, AnswerIsGiven, SettledOnce, GivenArrives
    <3>2. ToldIsDone(m)' /\ AdmittedOnce(m)' /\ ClaimIsSenders(m)'
      BY <1>h, <1>b, <1>l, <2>2 DEF Arrives, ToldIsDone, AdmittedOnce, ClaimIsSenders
    <3>3. RemovedIsAnswered(m)' /\ StaysInSight(m)'
      BY <1>h, <1>b, <1>l, <2>2 DEF Arrives, RemovedIsAnswered, StaysInSight, ClaimIsSenders,
         GivenArrives
    <3>4. EndsUnbound(m)' /\ GivenArrives(m)'
      <4>1. answer[m] = Nothing /\ m \in held /\ ~closed /\ closing = "no" /\ Begun(m)
        BY <1>h, <1>l, <2>2 DEF Arrives, SettledOnce, HeldIsClaimed
      <4>2. Has(m, "admitted") /\ told[m] \notin GaveUp /\ (m \notin excused =>
             told[m] \notin Bodies \cup {"unsettled", "abandoned"})
        BY <1>h, <2>2 DEF Arrives, AdmittedOnce, HeldIsClaimed, ToldIsDone, AnswerIsGiven
      <4>3. m \notin excused /\ at[m] \notin Returned =>
             phase = "serving" /\ at[m] \notin {"unadmitted?", "clear", "why?", "ended"}
        BY <1>h, <4>1 DEF Arrives, StaysInSight, EndsUnbound, Unmet, HeldIsClaimed, Bound
      <4>4. EndsUnbound(m)'
        BY <2>2 DEF Arrives, EndsUnbound, Makes, Bound
      <4>5. m \notin excused =>
             told[m] \in {Nothing, "unheard", "unclaimable"} /\ (told[m] = Nothing =>
                    at[m] \notin Returned)
        BY <1>h, <1>l, <4>2 DEF SenderShape
      <4>6. m \notin excused /\ at[m] \notin Returned => Has(m, "taken")
        BY <1>h, <2>2, <4>3 DEF StillTaken
      <4>7. m \notin excused' => m \notin excused
        BY <2>2 DEF Makes
      <4>8. settling'[m].does = "claim" /\ settling'[m].body = "answered" /\ m \in held'
        BY <4>1, <2>2 DEF Makes, Body, Puts, InSettling
      <4>9. m \notin excused' =>
             (phase' = "serving" \/ at'[m] \in Returned)
                    /\ at'[m] \notin {"unadmitted?", "clear", "why?"}
        BY <1>h, <2>2, <4>3, <4>7 DEF Makes
      <4>10. m \notin excused' =>
               \/ told'[m] \in {"answered", "unheard", "unclaimable"}
               \/ /\ told'[m] = Nothing /\ answer'[m] = Nothing
                  /\ Has(m, "taken")' /\ Has(m, "admitted")'
        BY <2>2, <4>1, <4>2, <4>5, <4>6, <4>7 DEF Makes, Has
      <4> QED BY <4>4, <4>8, <4>9, <4>10 DEF GivenArrives
    <3> QED BY <3>1, <3>2, <3>3, <3>4 DEF Arrives
  <2>3. CASE /\ m \notin owed
             /\ Makes(m, files[m], answer[m], settling[m].does)
             /\ Body(m, settling[m].body)
             /\ Puts(m, m \in queue, m \in owed, m \in replies, m \in held)
             /\ Lets(m, InCourier(m), FALSE) /\ Gave(m, m \in given)
    <3> USE DEF Makes, Body, Puts, Lets, Gave, Begun, Has, Unmet, InSettling, Clutter, Bound,
          InOnePlace, SenderShape, ExpiredIsOut, HeldIsClaimed, StillTaken
    <3>1. AnswerIsGiven(m)' /\ SettledOnce(m)'
      BY <1>h, <1>b, <1>l, <2>3 DEF Arrives, AnswerIsGiven, SettledOnce, GivenArrives
    <3>2. ToldIsDone(m)' /\ AdmittedOnce(m)' /\ ClaimIsSenders(m)'
      BY <1>h, <1>b, <1>l, <2>3 DEF Arrives, ToldIsDone, AdmittedOnce, ClaimIsSenders
    <3>3. RemovedIsAnswered(m)' /\ StaysInSight(m)'
      BY <1>h, <1>b, <1>l, <2>3 DEF Arrives, RemovedIsAnswered, StaysInSight, ClaimIsSenders,
         GivenArrives
    <3>4. EndsUnbound(m)' /\ GivenArrives(m)'
      BY <1>h, <1>b, <1>l, <2>3 DEF Arrives, AnswerIsGiven, EndsUnbound, GivenArrives,
         SettledOnce, StaysInSight, ToldIsDone
    <3> QED BY <3>1, <3>2, <3>3, <3>4 DEF Arrives
  <2> QED BY <2>1, <2>2, <2>3
<1>9. CASE Drop(m)
  <2>1. \/ /\ m \in owed
           /\ Makes(m, files[m], answer[m], "claim")
           /\ Body(m, "let go")
           /\ Puts(m, m \in queue, FALSE, m \in replies, m \in held)
           /\ Lets(m, InCourier(m), FALSE) /\ Gave(m, m \in given)
        \/ /\ m \notin owed
           /\ Makes(m, files[m], answer[m], settling[m].does)
           /\ Body(m, settling[m].body)
           /\ Puts(m, m \in queue, m \in owed, m \in replies, m \in held)
           /\ Lets(m, InCourier(m), FALSE) /\ Gave(m, m \in given)
    <3>1. CASE m \in owed
      <4>0. /\ settling' = [settling EXCEPT ![m] = [does |-> "claim", body |-> "let go",
             by |-> "receiver"]]
            /\ files' = files /\ answer' = answer
        BY <1>9, <3>1 DEF Drop, Replies, HandsOver, Settle, dir
      <4>1. m \in owed
        BY <1>t, <1>u, <1>q, <1>9, <3>1 DEF Drop, Replies, HandsOver, Settle, Receiving, Leave,
           Enter, Has, dir, Refused, Fine
      <4>2. Makes(m, files[m], answer[m], "claim")
        BY <1>t, <1>u, <4>0 DEF Makes, Body, InSettling
      <4>3. Body(m, "let go")
        BY <1>t, <1>u, <4>0 DEF Makes, Body, InSettling
      <4>4. Puts(m, m \in queue, FALSE, m \in replies, m \in held)
        BY <1>t, <1>u, <1>q, <1>9, <3>1 DEF Drop, Puts, Replies, HandsOver, Settle, Receiving,
           Leave, Enter, Has, dir, Refused, Fine
      <4>5. Lets(m, InCourier(m), FALSE) /\ Gave(m, m \in given)
        BY <1>t, <1>u, <1>q, <1>9, <3>1 DEF Drop, Lets, Gave, Within, InCourier, serving, Idle,
           Replies, HandsOver, Settle, Receiving, Leave, Enter, Has, dir, Refused, Fine
      <4> QED BY <4>1, <4>2, <4>3, <4>4, <4>5
    <3>2. CASE m \notin owed
      <4>1. m \notin owed
        BY <1>t, <1>u, <1>q, <1>9, <3>2 DEF Drop, Replies, HandsOver, Settle, Receiving, Leave,
           Enter, Has, dir, Refused, Fine
      <4>2. Makes(m, files[m], answer[m], settling[m].does)
        BY <1>t, <1>u, <1>q, <1>9, <3>2 DEF Drop, Makes, Replies, HandsOver, Settle, Receiving,
           Leave, Enter, Has, dir, Refused, Fine
      <4>3. Body(m, settling[m].body)
        BY <1>t, <1>u, <1>q, <1>9, <3>2 DEF Drop, Body, InSettling, Replies, HandsOver, Settle,
           Receiving, Leave, Enter, Has, dir, Refused, Fine
      <4>4. Puts(m, m \in queue, m \in owed, m \in replies, m \in held)
        BY <1>t, <1>u, <1>q, <1>9, <3>2 DEF Drop, Puts, Replies, HandsOver, Settle, Receiving,
           Leave, Enter, Has, dir, Refused, Fine
      <4>5. Lets(m, InCourier(m), FALSE) /\ Gave(m, m \in given)
        BY <1>t, <1>u, <1>q, <1>9, <3>2 DEF Drop, Lets, Gave, Within, InCourier, serving, Idle,
           Replies, HandsOver, Settle, Receiving, Leave, Enter, Has, dir, Refused, Fine
      <4> QED BY <4>1, <4>2, <4>3, <4>4, <4>5
    <3> QED BY <1>9, <3>1, <3>2 DEF Drop, Replies, HandsOver
  <2>2. CASE /\ m \in owed
             /\ Makes(m, files[m], answer[m], "claim")
             /\ Body(m, "let go")
             /\ Puts(m, m \in queue, FALSE, m \in replies, m \in held)
             /\ Lets(m, InCourier(m), FALSE) /\ Gave(m, m \in given)
    <3> USE DEF Makes, Body, Puts, Lets, Gave, Begun, Has, Unmet, InSettling, Clutter, Bound,
          InOnePlace, SenderShape, ExpiredIsOut, HeldIsClaimed, StillTaken
    <3>1. AnswerIsGiven(m)' /\ SettledOnce(m)'
      BY <1>h, <1>b, <1>l, <2>2 DEF Arrives, AnswerIsGiven, SettledOnce, GivenArrives
    <3>2. ToldIsDone(m)' /\ AdmittedOnce(m)' /\ ClaimIsSenders(m)'
      BY <1>h, <1>b, <1>l, <2>2 DEF Arrives, ToldIsDone, AdmittedOnce, ClaimIsSenders
    <3>3. RemovedIsAnswered(m)' /\ StaysInSight(m)'
      BY <1>h, <1>b, <1>l, <2>2 DEF Arrives, RemovedIsAnswered, StaysInSight, ClaimIsSenders,
         GivenArrives
    <3>4. EndsUnbound(m)' /\ GivenArrives(m)'
      BY <1>h, <1>b, <1>l, <2>2 DEF Arrives, AnswerIsGiven, EndsUnbound, GivenArrives,
         SettledOnce, StaysInSight, ToldIsDone
    <3> QED BY <3>1, <3>2, <3>3, <3>4 DEF Arrives
  <2>3. CASE /\ m \notin owed
             /\ Makes(m, files[m], answer[m], settling[m].does)
             /\ Body(m, settling[m].body)
             /\ Puts(m, m \in queue, m \in owed, m \in replies, m \in held)
             /\ Lets(m, InCourier(m), FALSE) /\ Gave(m, m \in given)
    <3> USE DEF Makes, Body, Puts, Lets, Gave, Begun, Has, Unmet, InSettling, Clutter, Bound,
          InOnePlace, SenderShape, ExpiredIsOut, HeldIsClaimed, StillTaken
    <3>1. AnswerIsGiven(m)' /\ SettledOnce(m)'
      BY <1>h, <1>b, <1>l, <2>3 DEF Arrives, AnswerIsGiven, SettledOnce, GivenArrives
    <3>2. ToldIsDone(m)' /\ AdmittedOnce(m)' /\ ClaimIsSenders(m)'
      BY <1>h, <1>b, <1>l, <2>3 DEF Arrives, ToldIsDone, AdmittedOnce, ClaimIsSenders
    <3>3. RemovedIsAnswered(m)' /\ StaysInSight(m)'
      BY <1>h, <1>b, <1>l, <2>3 DEF Arrives, RemovedIsAnswered, StaysInSight, ClaimIsSenders,
         GivenArrives
    <3>4. EndsUnbound(m)' /\ GivenArrives(m)'
      BY <1>h, <1>b, <1>l, <2>3 DEF Arrives, AnswerIsGiven, EndsUnbound, GivenArrives,
         SettledOnce, StaysInSight, ToldIsDone
    <3> QED BY <3>1, <3>2, <3>3, <3>4 DEF Arrives
  <2> QED BY <2>1, <2>2, <2>3
<1> QED BY <1>1, <1>2, <1>3, <1>4, <1>5, <1>6, <1>7, <1>8, <1>9 DEF Receive

LEMMA SettleArrives ==
  ASSUME TypeOK, NEW m \in Messages, Core(m), Lifetimes, Arrives(m), SettleSteps(m)
  PROVE  Arrives(m)'
<1>t. /\ files \in [Messages -> SUBSET Suffixes] /\ answer \in [Messages -> Bodies \cup {Nothing}]
      /\ DOMAIN settling = Messages
      /\ settling[m] \in [does : {"claim", "look", "write", "remove", "clear"}, body : Bodies,
                            by : {"courier", "receiver", "closer"}] \cup {NotSettling}
      /\ NotSettling.does = "nothing" /\ faults \in Int
  <2>1. faults \in 0..Faults /\ Faults \in Nat
    BY SpoolAssumption DEF TypeOK
  <2>2. faults \in Int
    BY <2>1
  <2> QED BY <2>2 DEF TypeOK, DirectoryTyped, ReceiverTyped, NotSettling
<1>b. /\ answer[m] \in {"answered", "let go", "closed", "refused", "nothing"} /\ Nothing = "nothing"
      /\ Bodies = {"answered", "let go", "closed", "refused"}
  BY <1>t DEF Bodies, Nothing
<1>h. /\ InOnePlace(m) /\ SenderShape(m) /\ ExpiredIsOut(m) /\ HeldIsClaimed(m) /\ StillTaken(m)
      /\ InsideIsQueued(m) /\ SenderClaims = {"answered?", "unadmitted?", "give back"}
      /\ Returned = {"ending", "over"} /\ Early = {"start", "write"}
             /\ Over = {"why?", "ending", "over"}
  BY DEF Core, SenderClaims, Returned, Early, Over
<1>q. /\ Within("claim", m) \/ Within("glance", m) \/ Within("expire", m) => m \in queue
      /\ Within("expire", m) => m \in held
  BY DEF Core, InsideIsQueued, HeldIsClaimed
<1>l. /\ closing # "no" => closed /\ phase \in {"serving", "leaving", "unbound"}
      /\ closed => queue = {} /\ owed = {}
      /\ GaveUp = {"elapsed", "expired", "withdrawn"}
      /\ told[m] \in Bodies \cup GaveUp \cup {Nothing, "abandoned", "unheard", "unclaimable",
             "unsettled"}
  BY DEF Lifetimes, GaveUp, TypeOK, SendersTyped
<1>k. KeepsElse(m)
  BY KeepersKeepElse DEF Keeper, SettleSteps, SettlesOn
<1>u. /\ at' = at /\ told' = told /\ admits' = admits /\ phase' = phase /\ closing' = closing
      /\ m \in excused => m \in excused'
  BY <1>k DEF KeepsElse
<1>1. CASE SettleClaim(m)
  <2>1. \/ /\ settling[m].does = "claim" /\ m \in held
           /\ Makes(m, files[m], answer[m], "look")
           /\ Body(m, settling[m].body)
           /\ Puts(m, m \in queue, m \in owed, m \in replies, m \in held)
           /\ Lets(m, InCourier(m), Within("let go", m)) /\ Gave(m, m \in given)
        \/ /\ settling[m].does = "claim" /\ m \notin held
           /\ Makes(m, files[m] \cup {"claimed"}, answer[m], "look")
           /\ Body(m, settling[m].body)
           /\ Puts(m, m \in queue, m \in owed, m \in replies, m \in held)
           /\ Lets(m, InCourier(m), Within("let go", m)) /\ Gave(m, m \in given)
        \/ /\ settling[m].does = "claim" /\ m \notin held /\ (Has(m, "claimed") \/ m \in excused')
           /\ Makes(m, files[m], answer[m], "remove")
           /\ Body(m, settling[m].body)
           /\ Puts(m, m \in queue, m \in owed, m \in replies, m \in held)
           /\ Lets(m, InCourier(m), Within("let go", m)) /\ Gave(m, m \in given)
    BY <1>t, <1>u, <1>1 DEF SettleClaim, Makes, Body, Puts, Lets, Gave, Settles, Create, Becomes,
       Writing, Inside, Fine, Within, InCourier, InSettling, Has, serving
  <2>2. CASE /\ settling[m].does = "claim" /\ m \in held
             /\ Makes(m, files[m], answer[m], "look")
             /\ Body(m, settling[m].body)
             /\ Puts(m, m \in queue, m \in owed, m \in replies, m \in held)
             /\ Lets(m, InCourier(m), Within("let go", m)) /\ Gave(m, m \in given)
    <3> USE DEF Makes, Body, Puts, Lets, Gave, Begun, Has, Unmet, InSettling, Clutter, Bound,
          InOnePlace, SenderShape, ExpiredIsOut, HeldIsClaimed, StillTaken
    <3>1. AnswerIsGiven(m)' /\ SettledOnce(m)'
      BY <1>h, <1>b, <1>l, <2>2 DEF Arrives, AnswerIsGiven, SettledOnce, GivenArrives
    <3>2. ToldIsDone(m)' /\ AdmittedOnce(m)' /\ ClaimIsSenders(m)'
      BY <1>h, <1>b, <1>l, <2>2 DEF Arrives, ToldIsDone, AdmittedOnce, ClaimIsSenders
    <3>3. RemovedIsAnswered(m)' /\ StaysInSight(m)'
      BY <1>h, <1>b, <1>l, <2>2 DEF Arrives, RemovedIsAnswered, StaysInSight, ClaimIsSenders,
         GivenArrives
    <3>4. EndsUnbound(m)' /\ GivenArrives(m)'
      BY <1>h, <1>b, <1>l, <2>2 DEF Arrives, AnswerIsGiven, EndsUnbound, GivenArrives,
         SettledOnce, StaysInSight, ToldIsDone
    <3> QED BY <3>1, <3>2, <3>3, <3>4 DEF Arrives
  <2>3. CASE /\ settling[m].does = "claim" /\ m \notin held
             /\ Makes(m, files[m] \cup {"claimed"}, answer[m], "look")
             /\ Body(m, settling[m].body)
             /\ Puts(m, m \in queue, m \in owed, m \in replies, m \in held)
             /\ Lets(m, InCourier(m), Within("let go", m)) /\ Gave(m, m \in given)
    <3> USE DEF Makes, Body, Puts, Lets, Gave, Begun, Has, Unmet, InSettling, Clutter, Bound,
          InOnePlace, SenderShape, ExpiredIsOut, HeldIsClaimed, StillTaken
    <3>1. AnswerIsGiven(m)' /\ SettledOnce(m)'
      BY <1>h, <1>b, <1>l, <2>3 DEF Arrives, AnswerIsGiven, SettledOnce, GivenArrives
    <3>2. ToldIsDone(m)' /\ AdmittedOnce(m)' /\ ClaimIsSenders(m)'
      BY <1>h, <1>b, <1>l, <2>3 DEF Arrives, ToldIsDone, AdmittedOnce, ClaimIsSenders
    <3>3. RemovedIsAnswered(m)' /\ StaysInSight(m)'
      BY <1>h, <1>b, <1>l, <2>3 DEF Arrives, RemovedIsAnswered, StaysInSight, ClaimIsSenders,
         GivenArrives
    <3>4. EndsUnbound(m)' /\ GivenArrives(m)'
      BY <1>h, <1>b, <1>l, <2>3 DEF Arrives, AnswerIsGiven, EndsUnbound, GivenArrives,
         SettledOnce, StaysInSight, ToldIsDone
    <3> QED BY <3>1, <3>2, <3>3, <3>4 DEF Arrives
  <2>4. CASE /\ settling[m].does = "claim" /\ m \notin held /\ (Has(m, "claimed") \/ m \in excused')
             /\ Makes(m, files[m], answer[m], "remove")
             /\ Body(m, settling[m].body)
             /\ Puts(m, m \in queue, m \in owed, m \in replies, m \in held)
             /\ Lets(m, InCourier(m), Within("let go", m)) /\ Gave(m, m \in given)
    <3> USE DEF Makes, Body, Puts, Lets, Gave, Begun, Has, Unmet, InSettling, Clutter, Bound,
          InOnePlace, SenderShape, ExpiredIsOut, HeldIsClaimed, StillTaken
    <3>1. AnswerIsGiven(m)' /\ SettledOnce(m)'
      BY <1>h, <1>b, <1>l, <2>4 DEF Arrives, AnswerIsGiven, SettledOnce, GivenArrives
    <3>2. ToldIsDone(m)' /\ AdmittedOnce(m)' /\ ClaimIsSenders(m)'
      BY <1>h, <1>b, <1>l, <2>4 DEF Arrives, ToldIsDone, AdmittedOnce, ClaimIsSenders
    <3>3. RemovedIsAnswered(m)' /\ StaysInSight(m)'
      BY <1>h, <1>b, <1>l, <2>4 DEF Arrives, RemovedIsAnswered, StaysInSight, ClaimIsSenders,
         GivenArrives
    <3>4. EndsUnbound(m)' /\ GivenArrives(m)'
      BY <1>h, <1>b, <1>l, <2>4 DEF Arrives, AnswerIsGiven, EndsUnbound, GivenArrives,
         SettledOnce, StaysInSight, ToldIsDone
    <3> QED BY <3>1, <3>2, <3>3, <3>4 DEF Arrives
  <2> QED BY <2>1, <2>2, <2>3, <2>4
<1>2. CASE SettleLook(m)
  <2>1. \/ /\ settling[m].does = "look" /\ Has(m, "taken")
           /\ Makes(m, files[m], answer[m], "write")
           /\ Body(m, settling[m].body)
           /\ Puts(m, m \in queue, m \in owed, m \in replies, m \in held)
           /\ Lets(m, InCourier(m), Within("let go", m)) /\ Gave(m, m \in given)
        \/ /\ settling[m].does = "look" /\ ~Has(m, "taken")
           /\ Makes(m, files[m], answer[m], "remove")
           /\ Body(m, settling[m].body)
           /\ Puts(m, m \in queue, m \in owed, m \in replies, m \in held)
           /\ Lets(m, InCourier(m), Within("let go", m)) /\ Gave(m, m \in given)
    BY <1>t, <1>u, <1>2 DEF SettleLook, Makes, Body, Puts, Lets, Gave, Settles,
       Writing, Inside, Fine, Within, InCourier, InSettling, Has, serving
  <2>2. CASE /\ settling[m].does = "look" /\ Has(m, "taken")
             /\ Makes(m, files[m], answer[m], "write")
             /\ Body(m, settling[m].body)
             /\ Puts(m, m \in queue, m \in owed, m \in replies, m \in held)
             /\ Lets(m, InCourier(m), Within("let go", m)) /\ Gave(m, m \in given)
    <3> USE DEF Makes, Body, Puts, Lets, Gave, Begun, Has, Unmet, InSettling, Clutter, Bound,
          InOnePlace, SenderShape, ExpiredIsOut, HeldIsClaimed, StillTaken
    <3>1. AnswerIsGiven(m)' /\ SettledOnce(m)'
      BY <1>h, <1>b, <1>l, <2>2 DEF Arrives, AnswerIsGiven, SettledOnce, GivenArrives
    <3>2. ToldIsDone(m)' /\ AdmittedOnce(m)' /\ ClaimIsSenders(m)'
      BY <1>h, <1>b, <1>l, <2>2 DEF Arrives, ToldIsDone, AdmittedOnce, ClaimIsSenders
    <3>3. RemovedIsAnswered(m)' /\ StaysInSight(m)'
      BY <1>h, <1>b, <1>l, <2>2 DEF Arrives, RemovedIsAnswered, StaysInSight, ClaimIsSenders,
         GivenArrives
    <3>4. EndsUnbound(m)' /\ GivenArrives(m)'
      BY <1>h, <1>b, <1>l, <2>2 DEF Arrives, AnswerIsGiven, EndsUnbound, GivenArrives,
         SettledOnce, StaysInSight, ToldIsDone
    <3> QED BY <3>1, <3>2, <3>3, <3>4 DEF Arrives
  <2>3. CASE /\ settling[m].does = "look" /\ ~Has(m, "taken")
             /\ Makes(m, files[m], answer[m], "remove")
             /\ Body(m, settling[m].body)
             /\ Puts(m, m \in queue, m \in owed, m \in replies, m \in held)
             /\ Lets(m, InCourier(m), Within("let go", m)) /\ Gave(m, m \in given)
    <3> USE DEF Makes, Body, Puts, Lets, Gave, Begun, Has, Unmet, InSettling, Clutter, Bound,
          InOnePlace, SenderShape, ExpiredIsOut, HeldIsClaimed, StillTaken
    <3>1. AnswerIsGiven(m)' /\ SettledOnce(m)'
      BY <1>h, <1>b, <1>l, <2>3 DEF Arrives, AnswerIsGiven, SettledOnce, GivenArrives
    <3>2. ToldIsDone(m)' /\ AdmittedOnce(m)' /\ ClaimIsSenders(m)'
      BY <1>h, <1>b, <1>l, <2>3 DEF Arrives, ToldIsDone, AdmittedOnce, ClaimIsSenders
    <3>3. RemovedIsAnswered(m)' /\ StaysInSight(m)'
      BY <1>h, <1>b, <1>l, <2>3 DEF Arrives, RemovedIsAnswered, StaysInSight, ClaimIsSenders,
         GivenArrives
    <3>4. EndsUnbound(m)' /\ GivenArrives(m)'
      BY <1>h, <1>b, <1>l, <2>3 DEF Arrives, AnswerIsGiven, EndsUnbound, GivenArrives,
         SettledOnce, StaysInSight, ToldIsDone
    <3> QED BY <3>1, <3>2, <3>3, <3>4 DEF Arrives
  <2> QED BY <2>1, <2>2, <2>3
<1>3. CASE SettleWrite(m)
  <2>1. \/ /\ settling[m].does = "write" /\ settling[m].body \in Bodies
           /\ Makes(m, files[m], settling[m].body, "remove")
           /\ Body(m, settling[m].body)
           /\ Puts(m, m \in queue, m \in owed, m \in replies, m \in held)
           /\ Lets(m, InCourier(m), Within("let go", m)) /\ Gave(m, m \in given)
        \/ /\ settling[m].does = "write" /\ m \in excused'
           /\ Makes(m, files[m], answer[m], "remove")
           /\ Body(m, settling[m].body)
           /\ Puts(m, m \in queue, m \in owed, m \in replies, m \in held)
           /\ Lets(m, InCourier(m), Within("let go", m)) /\ Gave(m, m \in given)
    BY <1>t, <1>u, <1>3 DEF SettleWrite, Makes, Body, Puts, Lets, Gave, Settles,
       Writing, Inside, Fine, Within, InCourier, InSettling, Has, serving
  <2>2. CASE /\ settling[m].does = "write" /\ settling[m].body \in Bodies
             /\ Makes(m, files[m], settling[m].body, "remove")
             /\ Body(m, settling[m].body)
             /\ Puts(m, m \in queue, m \in owed, m \in replies, m \in held)
             /\ Lets(m, InCourier(m), Within("let go", m)) /\ Gave(m, m \in given)
    <3> USE DEF Makes, Body, Puts, Lets, Gave, Begun, Has, Unmet, InSettling, Clutter, Bound,
          InOnePlace, SenderShape, ExpiredIsOut, HeldIsClaimed, StillTaken
    <3>1. AnswerIsGiven(m)' /\ SettledOnce(m)'
      BY <1>h, <1>b, <1>l, <2>2 DEF Arrives, AnswerIsGiven, SettledOnce, GivenArrives
    <3>2. ToldIsDone(m)' /\ AdmittedOnce(m)' /\ ClaimIsSenders(m)'
      BY <1>h, <1>b, <1>l, <2>2 DEF Arrives, ToldIsDone, AdmittedOnce, ClaimIsSenders
    <3>3. RemovedIsAnswered(m)' /\ StaysInSight(m)'
      BY <1>h, <1>b, <1>l, <2>2 DEF Arrives, RemovedIsAnswered, StaysInSight, ClaimIsSenders,
         GivenArrives
    <3>4. EndsUnbound(m)' /\ GivenArrives(m)'
      BY <1>h, <1>b, <1>l, <2>2 DEF Arrives, AnswerIsGiven, EndsUnbound, GivenArrives,
         SettledOnce, StaysInSight, ToldIsDone
    <3> QED BY <3>1, <3>2, <3>3, <3>4 DEF Arrives
  <2>3. CASE /\ settling[m].does = "write" /\ m \in excused'
             /\ Makes(m, files[m], answer[m], "remove")
             /\ Body(m, settling[m].body)
             /\ Puts(m, m \in queue, m \in owed, m \in replies, m \in held)
             /\ Lets(m, InCourier(m), Within("let go", m)) /\ Gave(m, m \in given)
    <3> USE DEF Makes, Body, Puts, Lets, Gave, Begun, Has, Unmet, InSettling, Clutter, Bound,
          InOnePlace, SenderShape, ExpiredIsOut, HeldIsClaimed, StillTaken
    <3>1. AnswerIsGiven(m)' /\ SettledOnce(m)'
      BY <1>h, <1>b, <1>l, <2>3 DEF Arrives, AnswerIsGiven, SettledOnce, GivenArrives
    <3>2. ToldIsDone(m)' /\ AdmittedOnce(m)' /\ ClaimIsSenders(m)'
      BY <1>h, <1>b, <1>l, <2>3 DEF Arrives, ToldIsDone, AdmittedOnce, ClaimIsSenders
    <3>3. RemovedIsAnswered(m)' /\ StaysInSight(m)'
      BY <1>h, <1>b, <1>l, <2>3 DEF Arrives, RemovedIsAnswered, StaysInSight, ClaimIsSenders,
         GivenArrives
    <3>4. EndsUnbound(m)' /\ GivenArrives(m)'
      BY <1>h, <1>b, <1>l, <2>3 DEF Arrives, AnswerIsGiven, EndsUnbound, GivenArrives,
         SettledOnce, StaysInSight, ToldIsDone
    <3> QED BY <3>1, <3>2, <3>3, <3>4 DEF Arrives
  <2> QED BY <2>1, <2>2, <2>3
<1>4. CASE SettleRemove(m)
  <2>1. /\ settling[m].does = "remove"
        /\ Makes(m, files[m] \ {"taken"}, answer[m], "clear")
        /\ Body(m, settling[m].body)
        /\ Puts(m, m \in queue, m \in owed, m \in replies, m \in held)
        /\ Lets(m, InCourier(m), Within("let go", m)) /\ Gave(m, m \in given)
    BY <1>t, <1>u, <1>4 DEF SettleRemove, Makes, Body, Puts, Lets, Gave, Settles, Remove, Becomes,
       Writing, Inside, Fine, Within, InCourier, InSettling, Has, serving
  <2> QED
    <3> USE DEF Makes, Body, Puts, Lets, Gave, Begun, Has, Unmet, InSettling, Clutter, Bound,
          InOnePlace, SenderShape, ExpiredIsOut, HeldIsClaimed, StillTaken
    <3>1. AnswerIsGiven(m)' /\ SettledOnce(m)'
      BY <1>h, <1>b, <1>l, <2>1 DEF Arrives, AnswerIsGiven, SettledOnce, GivenArrives
    <3>2. ToldIsDone(m)' /\ AdmittedOnce(m)' /\ ClaimIsSenders(m)'
      BY <1>h, <1>b, <1>l, <2>1 DEF Arrives, ToldIsDone, AdmittedOnce, ClaimIsSenders
    <3>3. RemovedIsAnswered(m)' /\ StaysInSight(m)'
      BY <1>h, <1>b, <1>l, <2>1 DEF Arrives, RemovedIsAnswered, StaysInSight, ClaimIsSenders,
         GivenArrives
    <3>4. EndsUnbound(m)' /\ GivenArrives(m)'
      BY <1>h, <1>b, <1>l, <2>1 DEF Arrives, AnswerIsGiven, EndsUnbound, GivenArrives,
         SettledOnce, StaysInSight, ToldIsDone
    <3> QED BY <3>1, <3>2, <3>3, <3>4 DEF Arrives
<1>5. CASE SettleClear(m)
  <2>1. /\ settling[m].does = "clear"
        /\ Makes(m, files[m] \ Clutter, answer[m], "nothing")
        /\ Body(m, settling[m].body)
        /\ Puts(m, m \in queue, m \in owed, m \in replies, FALSE)
        /\ Lets(m, InCourier(m), Within("let go", m)) /\ Gave(m, m \in given)
    BY <1>t, <1>u, <1>5 DEF SettleClear, Makes, Body, Puts, Lets, Gave, Discard, Becomes,
       Writing, Inside, Fine, Within, InCourier, InSettling, Has, serving
  <2> QED
    <3> USE DEF Makes, Body, Puts, Lets, Gave, Begun, Has, Unmet, InSettling, Clutter, Bound,
          InOnePlace, SenderShape, ExpiredIsOut, HeldIsClaimed, StillTaken
    <3>1. AnswerIsGiven(m)' /\ SettledOnce(m)'
      BY <1>h, <1>b, <1>l, <2>1 DEF Arrives, AnswerIsGiven, SettledOnce, GivenArrives
    <3>2. ToldIsDone(m)' /\ AdmittedOnce(m)' /\ ClaimIsSenders(m)'
      BY <1>h, <1>b, <1>l, <2>1 DEF Arrives, ToldIsDone, AdmittedOnce, ClaimIsSenders
    <3>3. RemovedIsAnswered(m)' /\ StaysInSight(m)'
      BY <1>h, <1>b, <1>l, <2>1 DEF Arrives, RemovedIsAnswered, StaysInSight, ClaimIsSenders,
         GivenArrives
    <3>4. EndsUnbound(m)' /\ GivenArrives(m)'
      BY <1>h, <1>b, <1>l, <2>1 DEF Arrives, AnswerIsGiven, EndsUnbound, GivenArrives,
         SettledOnce, StaysInSight, ToldIsDone
    <3> QED BY <3>1, <3>2, <3>3, <3>4 DEF Arrives
<1> QED BY <1>1, <1>2, <1>3, <1>4, <1>5 DEF SettleSteps

LEMMA PassesArrive ==
  ASSUME TypeOK, NEW m \in Messages, Core(m), Lifetimes, Arrives(m), PassesOn(m)
  PROVE  Arrives(m)'
<1>t. /\ files \in [Messages -> SUBSET Suffixes] /\ answer \in [Messages -> Bodies \cup {Nothing}]
      /\ DOMAIN settling = Messages
      /\ settling[m] \in [does : {"claim", "look", "write", "remove", "clear"}, body : Bodies,
                            by : {"courier", "receiver", "closer"}] \cup {NotSettling}
      /\ NotSettling.does = "nothing" /\ faults \in Int
      /\ courier \in [does : {"read", "offer"}, m : Messages] \cup {Idle} /\ Idle.does = "nothing"
      /\ listed # {} => phase = "serving"
      /\ sweep # {} => closing = "sweep"
  <2>1. faults \in 0..Faults /\ Faults \in Nat
    BY SpoolAssumption DEF TypeOK
  <2>2. faults \in Int
    BY <2>1
  <2> QED BY <2>2 DEF TypeOK, DirectoryTyped, ReceiverTyped, NotSettling, Idle, Lifetimes
<1>b. /\ answer[m] \in {"answered", "let go", "closed", "refused", "nothing"} /\ Nothing = "nothing"
      /\ Bodies = {"answered", "let go", "closed", "refused"}
  BY <1>t DEF Bodies, Nothing
<1>h. /\ InOnePlace(m) /\ SenderShape(m) /\ ExpiredIsOut(m) /\ HeldIsClaimed(m) /\ StillTaken(m)
      /\ InsideIsQueued(m) /\ SenderClaims = {"answered?", "unadmitted?", "give back"}
      /\ Returned = {"ending", "over"} /\ Early = {"start", "write"}
             /\ Over = {"why?", "ending", "over"}
  BY DEF Core, SenderClaims, Returned, Early, Over
<1>q. /\ Within("claim", m) \/ Within("glance", m) \/ Within("expire", m) => m \in queue
      /\ Within("expire", m) => m \in held
  BY DEF Core, InsideIsQueued, HeldIsClaimed
<1>l. /\ closing # "no" => closed /\ phase \in {"serving", "leaving", "unbound"}
      /\ closed => queue = {} /\ owed = {}
      /\ GaveUp = {"elapsed", "expired", "withdrawn"}
      /\ told[m] \in Bodies \cup GaveUp \cup {Nothing, "abandoned", "unheard", "unclaimable",
             "unsettled"}
  BY DEF Lifetimes, GaveUp, TypeOK, SendersTyped
<1>k. KeepsElse(m)
  BY KeepersKeepElse DEF Keeper, SettleSteps, SettlesOn
<1>u. /\ at' = at /\ told' = told /\ admits' = admits /\ phase' = phase /\ closing' = closing
      /\ m \in excused => m \in excused'
  BY <1>k DEF KeepsElse
<1>1. CASE Renames(m)
  <2>1. \/ /\ courier.does = "nothing" /\ Has(m, "offer") /\ phase = "serving"
           /\ Makes(m, (files[m] \ {"offer"}) \cup {"taken"}, answer[m], settling[m].does)
           /\ Body(m, settling[m].body)
           /\ Puts(m, m \in queue, m \in owed, m \in replies, m \in held)
           /\ Lets(m, TRUE, Within("let go", m)) /\ Gave(m, m \in given)
        \/ /\ courier.does = "nothing"
           /\ Makes(m, files[m], answer[m], settling[m].does)
           /\ Body(m, settling[m].body)
           /\ Puts(m, m \in queue, m \in owed, m \in replies, m \in held)
           /\ Lets(m, InCourier(m), Within("let go", m)) /\ Gave(m, m \in given)
    BY <1>t, <1>u, <1>1 DEF Renames, Makes, Body, Puts, Lets, Gave, Rename, TakeOver, Becomes,
       Resting,
       Serving, Closing, Closes, Fine, Idle, NotSettling, Within, InCourier, InSettling, Has,
       serving, inbox
  <2>2. CASE /\ courier.does = "nothing" /\ Has(m, "offer") /\ phase = "serving"
             /\ Makes(m, (files[m] \ {"offer"}) \cup {"taken"}, answer[m], settling[m].does)
             /\ Body(m, settling[m].body)
             /\ Puts(m, m \in queue, m \in owed, m \in replies, m \in held)
             /\ Lets(m, TRUE, Within("let go", m)) /\ Gave(m, m \in given)
    <3> USE DEF Makes, Body, Puts, Lets, Gave, Begun, Has, Unmet, InSettling, Clutter, Bound,
          InOnePlace, SenderShape, ExpiredIsOut, HeldIsClaimed, StillTaken
    <3>1. AnswerIsGiven(m)' /\ SettledOnce(m)'
      BY <1>h, <1>b, <1>l, <2>2 DEF Arrives, AnswerIsGiven, SettledOnce, GivenArrives
    <3>2. ToldIsDone(m)' /\ AdmittedOnce(m)' /\ ClaimIsSenders(m)'
      BY <1>h, <1>b, <1>l, <2>2 DEF Arrives, ToldIsDone, AdmittedOnce, ClaimIsSenders
    <3>3. RemovedIsAnswered(m)' /\ StaysInSight(m)'
      BY <1>h, <1>b, <1>l, <2>2 DEF Arrives, RemovedIsAnswered, StaysInSight, ClaimIsSenders,
         GivenArrives
    <3>4. EndsUnbound(m)' /\ GivenArrives(m)'
      BY <1>h, <1>b, <1>l, <2>2 DEF Arrives, AnswerIsGiven, EndsUnbound, GivenArrives,
         SettledOnce, StaysInSight, ToldIsDone
    <3> QED BY <3>1, <3>2, <3>3, <3>4 DEF Arrives
  <2>3. CASE /\ courier.does = "nothing"
             /\ Makes(m, files[m], answer[m], settling[m].does)
             /\ Body(m, settling[m].body)
             /\ Puts(m, m \in queue, m \in owed, m \in replies, m \in held)
             /\ Lets(m, InCourier(m), Within("let go", m)) /\ Gave(m, m \in given)
    <3> USE DEF Makes, Body, Puts, Lets, Gave, Begun, Has, Unmet, InSettling, Clutter, Bound,
          InOnePlace, SenderShape, ExpiredIsOut, HeldIsClaimed, StillTaken
    <3>1. AnswerIsGiven(m)' /\ SettledOnce(m)'
      BY <1>h, <1>b, <1>l, <2>3 DEF Arrives, AnswerIsGiven, SettledOnce, GivenArrives
    <3>2. ToldIsDone(m)' /\ AdmittedOnce(m)' /\ ClaimIsSenders(m)'
      BY <1>h, <1>b, <1>l, <2>3 DEF Arrives, ToldIsDone, AdmittedOnce, ClaimIsSenders
    <3>3. RemovedIsAnswered(m)' /\ StaysInSight(m)'
      BY <1>h, <1>b, <1>l, <2>3 DEF Arrives, RemovedIsAnswered, StaysInSight, ClaimIsSenders,
         GivenArrives
    <3>4. EndsUnbound(m)' /\ GivenArrives(m)'
      BY <1>h, <1>b, <1>l, <2>3 DEF Arrives, AnswerIsGiven, EndsUnbound, GivenArrives,
         SettledOnce, StaysInSight, ToldIsDone
    <3> QED BY <3>1, <3>2, <3>3, <3>4 DEF Arrives
  <2> QED BY <2>1, <2>2, <2>3
<1>2. CASE Reads(m)
  <2>1. \/ /\ InCourier(m)
           /\ Makes(m, files[m], answer[m], settling[m].does)
           /\ Body(m, settling[m].body)
           /\ Puts(m, m \in queue, m \in owed, m \in replies, m \in held)
           /\ Lets(m, TRUE, Within("let go", m)) /\ Gave(m, m \in given)
        \/ /\ InCourier(m)
           /\ Makes(m, files[m], answer[m], "claim")
           /\ Body(m, "refused")
           /\ Puts(m, m \in queue, m \in owed, m \in replies, m \in held)
           /\ Lets(m, FALSE, Within("let go", m)) /\ Gave(m, m \in given)
    BY <1>t, <1>u, <1>2 DEF Reads, Makes, Body, Puts, Lets, Gave, Read, Settle,
       Serving, Closing, Closes, Fine, Idle, NotSettling, Within, InCourier, InSettling, Has,
       serving, inbox
  <2>2. CASE /\ InCourier(m)
             /\ Makes(m, files[m], answer[m], settling[m].does)
             /\ Body(m, settling[m].body)
             /\ Puts(m, m \in queue, m \in owed, m \in replies, m \in held)
             /\ Lets(m, TRUE, Within("let go", m)) /\ Gave(m, m \in given)
    <3> USE DEF Makes, Body, Puts, Lets, Gave, Begun, Has, Unmet, InSettling, Clutter, Bound,
          InOnePlace, SenderShape, ExpiredIsOut, HeldIsClaimed, StillTaken
    <3>1. AnswerIsGiven(m)' /\ SettledOnce(m)'
      BY <1>h, <1>b, <1>l, <2>2 DEF Arrives, AnswerIsGiven, SettledOnce, GivenArrives
    <3>2. ToldIsDone(m)' /\ AdmittedOnce(m)' /\ ClaimIsSenders(m)'
      BY <1>h, <1>b, <1>l, <2>2 DEF Arrives, ToldIsDone, AdmittedOnce, ClaimIsSenders
    <3>3. RemovedIsAnswered(m)' /\ StaysInSight(m)'
      BY <1>h, <1>b, <1>l, <2>2 DEF Arrives, RemovedIsAnswered, StaysInSight, ClaimIsSenders,
         GivenArrives
    <3>4. EndsUnbound(m)' /\ GivenArrives(m)'
      BY <1>h, <1>b, <1>l, <2>2 DEF Arrives, AnswerIsGiven, EndsUnbound, GivenArrives,
         SettledOnce, StaysInSight, ToldIsDone
    <3> QED BY <3>1, <3>2, <3>3, <3>4 DEF Arrives
  <2>3. CASE /\ InCourier(m)
             /\ Makes(m, files[m], answer[m], "claim")
             /\ Body(m, "refused")
             /\ Puts(m, m \in queue, m \in owed, m \in replies, m \in held)
             /\ Lets(m, FALSE, Within("let go", m)) /\ Gave(m, m \in given)
    <3> USE DEF Makes, Body, Puts, Lets, Gave, Begun, Has, Unmet, InSettling, Clutter, Bound,
          InOnePlace, SenderShape, ExpiredIsOut, HeldIsClaimed, StillTaken
    <3>1. AnswerIsGiven(m)' /\ SettledOnce(m)'
      BY <1>h, <1>b, <1>l, <2>3 DEF Arrives, AnswerIsGiven, SettledOnce, GivenArrives
    <3>2. ToldIsDone(m)' /\ AdmittedOnce(m)' /\ ClaimIsSenders(m)'
      BY <1>h, <1>b, <1>l, <2>3 DEF Arrives, ToldIsDone, AdmittedOnce, ClaimIsSenders
    <3>3. RemovedIsAnswered(m)' /\ StaysInSight(m)'
      BY <1>h, <1>b, <1>l, <2>3 DEF Arrives, RemovedIsAnswered, StaysInSight, ClaimIsSenders,
         GivenArrives
    <3>4. EndsUnbound(m)' /\ GivenArrives(m)'
      BY <1>h, <1>b, <1>l, <2>3 DEF Arrives, AnswerIsGiven, EndsUnbound, GivenArrives,
         SettledOnce, StaysInSight, ToldIsDone
    <3> QED BY <3>1, <3>2, <3>3, <3>4 DEF Arrives
  <2> QED BY <2>1, <2>2, <2>3
<1>3. CASE Admits(m)
  <2>1. \/ /\ InCourier(m)
           /\ Makes(m, files[m], answer[m], "claim")
           /\ Body(m, "closed")
           /\ Puts(m, m \in queue, m \in owed, m \in replies, m \in held)
           /\ Lets(m, FALSE, Within("let go", m)) /\ Gave(m, m \in given)
        \/ /\ InCourier(m)
           /\ Makes(m, files[m] \cup {"admitted"}, answer[m], settling[m].does)
           /\ Body(m, settling[m].body)
           /\ Puts(m, TRUE, m \in owed, m \in replies, m \in held)
           /\ Lets(m, FALSE, Within("let go", m)) /\ Gave(m, m \in given)
        \/ /\ InCourier(m)
           /\ Makes(m, files[m], answer[m], "claim")
           /\ Body(m, "refused")
           /\ Puts(m, m \in queue, m \in owed, m \in replies, m \in held)
           /\ Lets(m, FALSE, Within("let go", m)) /\ Gave(m, m \in given)
    BY <1>t, <1>u, <1>3 DEF Admits, Makes, Body, Puts, Lets, Gave, Admit, Settle, Create, Becomes,
       Serving, Closing, Closes, Fine, Idle, NotSettling, Within, InCourier, InSettling, Has,
       serving, inbox
  <2>2. CASE /\ InCourier(m)
             /\ Makes(m, files[m], answer[m], "claim")
             /\ Body(m, "closed")
             /\ Puts(m, m \in queue, m \in owed, m \in replies, m \in held)
             /\ Lets(m, FALSE, Within("let go", m)) /\ Gave(m, m \in given)
    <3> USE DEF Makes, Body, Puts, Lets, Gave, Begun, Has, Unmet, InSettling, Clutter, Bound,
          InOnePlace, SenderShape, ExpiredIsOut, HeldIsClaimed, StillTaken
    <3>1. AnswerIsGiven(m)' /\ SettledOnce(m)'
      BY <1>h, <1>b, <1>l, <2>2 DEF Arrives, AnswerIsGiven, SettledOnce, GivenArrives
    <3>2. ToldIsDone(m)' /\ AdmittedOnce(m)' /\ ClaimIsSenders(m)'
      BY <1>h, <1>b, <1>l, <2>2 DEF Arrives, ToldIsDone, AdmittedOnce, ClaimIsSenders
    <3>3. RemovedIsAnswered(m)' /\ StaysInSight(m)'
      BY <1>h, <1>b, <1>l, <2>2 DEF Arrives, RemovedIsAnswered, StaysInSight, ClaimIsSenders,
         GivenArrives
    <3>4. EndsUnbound(m)' /\ GivenArrives(m)'
      BY <1>h, <1>b, <1>l, <2>2 DEF Arrives, AnswerIsGiven, EndsUnbound, GivenArrives,
         SettledOnce, StaysInSight, ToldIsDone
    <3> QED BY <3>1, <3>2, <3>3, <3>4 DEF Arrives
  <2>3. CASE /\ InCourier(m)
             /\ Makes(m, files[m] \cup {"admitted"}, answer[m], settling[m].does)
             /\ Body(m, settling[m].body)
             /\ Puts(m, TRUE, m \in owed, m \in replies, m \in held)
             /\ Lets(m, FALSE, Within("let go", m)) /\ Gave(m, m \in given)
    <3> USE DEF Makes, Body, Puts, Lets, Gave, Begun, Has, Unmet, InSettling, Clutter, Bound,
          InOnePlace, SenderShape, ExpiredIsOut, HeldIsClaimed, StillTaken
    <3>1. AnswerIsGiven(m)' /\ SettledOnce(m)'
      BY <1>h, <1>b, <1>l, <2>3 DEF Arrives, AnswerIsGiven, SettledOnce, GivenArrives
    <3>2. ToldIsDone(m)' /\ AdmittedOnce(m)' /\ ClaimIsSenders(m)'
      BY <1>h, <1>b, <1>l, <2>3 DEF Arrives, ToldIsDone, AdmittedOnce, ClaimIsSenders
    <3>3. RemovedIsAnswered(m)' /\ StaysInSight(m)'
      BY <1>h, <1>b, <1>l, <2>3 DEF Arrives, RemovedIsAnswered, StaysInSight, ClaimIsSenders,
         GivenArrives
    <3>4. EndsUnbound(m)' /\ GivenArrives(m)'
      BY <1>h, <1>b, <1>l, <2>3 DEF Arrives, AnswerIsGiven, EndsUnbound, GivenArrives,
         SettledOnce, StaysInSight, ToldIsDone
    <3> QED BY <3>1, <3>2, <3>3, <3>4 DEF Arrives
  <2>4. CASE /\ InCourier(m)
             /\ Makes(m, files[m], answer[m], "claim")
             /\ Body(m, "refused")
             /\ Puts(m, m \in queue, m \in owed, m \in replies, m \in held)
             /\ Lets(m, FALSE, Within("let go", m)) /\ Gave(m, m \in given)
    <3> USE DEF Makes, Body, Puts, Lets, Gave, Begun, Has, Unmet, InSettling, Clutter, Bound,
          InOnePlace, SenderShape, ExpiredIsOut, HeldIsClaimed, StillTaken
    <3>1. AnswerIsGiven(m)' /\ SettledOnce(m)'
      BY <1>h, <1>b, <1>l, <2>4 DEF Arrives, AnswerIsGiven, SettledOnce, GivenArrives
    <3>2. ToldIsDone(m)' /\ AdmittedOnce(m)' /\ ClaimIsSenders(m)'
      BY <1>h, <1>b, <1>l, <2>4 DEF Arrives, ToldIsDone, AdmittedOnce, ClaimIsSenders
    <3>3. RemovedIsAnswered(m)' /\ StaysInSight(m)'
      BY <1>h, <1>b, <1>l, <2>4 DEF Arrives, RemovedIsAnswered, StaysInSight, ClaimIsSenders,
         GivenArrives
    <3>4. EndsUnbound(m)' /\ GivenArrives(m)'
      BY <1>h, <1>b, <1>l, <2>4 DEF Arrives, AnswerIsGiven, EndsUnbound, GivenArrives,
         SettledOnce, StaysInSight, ToldIsDone
    <3> QED BY <3>1, <3>2, <3>3, <3>4 DEF Arrives
  <2> QED BY <2>1, <2>2, <2>3, <2>4
<1>4. CASE Sweeps(m)
  <2>1. \/ /\ Has(m, "offer") /\ closing = "sweep"
           /\ Makes(m, (files[m] \ {"offer"}) \cup {"taken"}, answer[m], "claim")
           /\ Body(m, "closed")
           /\ Puts(m, m \in queue, m \in owed, m \in replies, m \in held)
           /\ Lets(m, InCourier(m), Within("let go", m)) /\ Gave(m, m \in given)
        \/ /\ closing = "sweep"
           /\ Makes(m, files[m], answer[m], settling[m].does)
           /\ Body(m, settling[m].body)
           /\ Puts(m, m \in queue, m \in owed, m \in replies, m \in held)
           /\ Lets(m, InCourier(m), Within("let go", m)) /\ Gave(m, m \in given)
    BY <1>t, <1>u, <1>4 DEF Sweeps, Makes, Body, Puts, Lets, Gave, Sweep, TakeOver, Becomes, Settle,
       Serving, Closing, Closes, Fine, Idle, NotSettling, Within, InCourier, InSettling, Has,
       serving, inbox
  <2>2. CASE /\ Has(m, "offer") /\ closing = "sweep"
             /\ Makes(m, (files[m] \ {"offer"}) \cup {"taken"}, answer[m], "claim")
             /\ Body(m, "closed")
             /\ Puts(m, m \in queue, m \in owed, m \in replies, m \in held)
             /\ Lets(m, InCourier(m), Within("let go", m)) /\ Gave(m, m \in given)
    <3> USE DEF Makes, Body, Puts, Lets, Gave, Begun, Has, Unmet, InSettling, Clutter, Bound,
          InOnePlace, SenderShape, ExpiredIsOut, HeldIsClaimed, StillTaken
    <3>1. AnswerIsGiven(m)' /\ SettledOnce(m)'
      BY <1>h, <1>b, <1>l, <2>2 DEF Arrives, AnswerIsGiven, SettledOnce, GivenArrives
    <3>2. ToldIsDone(m)' /\ AdmittedOnce(m)' /\ ClaimIsSenders(m)'
      BY <1>h, <1>b, <1>l, <2>2 DEF Arrives, ToldIsDone, AdmittedOnce, ClaimIsSenders
    <3>3. RemovedIsAnswered(m)' /\ StaysInSight(m)'
      BY <1>h, <1>b, <1>l, <2>2 DEF Arrives, RemovedIsAnswered, StaysInSight, ClaimIsSenders,
         GivenArrives
    <3>4. EndsUnbound(m)' /\ GivenArrives(m)'
      BY <1>h, <1>b, <1>l, <2>2 DEF Arrives, AnswerIsGiven, EndsUnbound, GivenArrives,
         SettledOnce, StaysInSight, ToldIsDone
    <3> QED BY <3>1, <3>2, <3>3, <3>4 DEF Arrives
  <2>3. CASE /\ closing = "sweep"
             /\ Makes(m, files[m], answer[m], settling[m].does)
             /\ Body(m, settling[m].body)
             /\ Puts(m, m \in queue, m \in owed, m \in replies, m \in held)
             /\ Lets(m, InCourier(m), Within("let go", m)) /\ Gave(m, m \in given)
    <3> USE DEF Makes, Body, Puts, Lets, Gave, Begun, Has, Unmet, InSettling, Clutter, Bound,
          InOnePlace, SenderShape, ExpiredIsOut, HeldIsClaimed, StillTaken
    <3>1. AnswerIsGiven(m)' /\ SettledOnce(m)'
      BY <1>h, <1>b, <1>l, <2>3 DEF Arrives, AnswerIsGiven, SettledOnce, GivenArrives
    <3>2. ToldIsDone(m)' /\ AdmittedOnce(m)' /\ ClaimIsSenders(m)'
      BY <1>h, <1>b, <1>l, <2>3 DEF Arrives, ToldIsDone, AdmittedOnce, ClaimIsSenders
    <3>3. RemovedIsAnswered(m)' /\ StaysInSight(m)'
      BY <1>h, <1>b, <1>l, <2>3 DEF Arrives, RemovedIsAnswered, StaysInSight, ClaimIsSenders,
         GivenArrives
    <3>4. EndsUnbound(m)' /\ GivenArrives(m)'
      BY <1>h, <1>b, <1>l, <2>3 DEF Arrives, AnswerIsGiven, EndsUnbound, GivenArrives,
         SettledOnce, StaysInSight, ToldIsDone
    <3> QED BY <3>1, <3>2, <3>3, <3>4 DEF Arrives
  <2> QED BY <2>1, <2>2, <2>3
<1>5. CASE Reply(m)
  <2>1. /\ m \in replies
        /\ Makes(m, files[m], answer[m], "claim")
        /\ Body(m, "closed")
        /\ Puts(m, m \in queue, m \in owed, FALSE, m \in held)
        /\ Lets(m, InCourier(m), Within("let go", m)) /\ Gave(m, m \in given)
    BY <1>t, <1>u, <1>5 DEF Reply, Makes, Body, Puts, Lets, Gave, Settle,
       Serving, Closing, Closes, Fine, Idle, NotSettling, Within, InCourier, InSettling, Has,
       serving, inbox
  <2> QED
    <3> USE DEF Makes, Body, Puts, Lets, Gave, Begun, Has, Unmet, InSettling, Clutter, Bound,
          InOnePlace, SenderShape, ExpiredIsOut, HeldIsClaimed, StillTaken
    <3>1. AnswerIsGiven(m)' /\ SettledOnce(m)'
      BY <1>h, <1>b, <1>l, <2>1 DEF Arrives, AnswerIsGiven, SettledOnce, GivenArrives
    <3>2. ToldIsDone(m)' /\ AdmittedOnce(m)' /\ ClaimIsSenders(m)'
      BY <1>h, <1>b, <1>l, <2>1 DEF Arrives, ToldIsDone, AdmittedOnce, ClaimIsSenders
    <3>3. RemovedIsAnswered(m)' /\ StaysInSight(m)'
      BY <1>h, <1>b, <1>l, <2>1 DEF Arrives, RemovedIsAnswered, StaysInSight, ClaimIsSenders,
         GivenArrives
    <3>4. EndsUnbound(m)' /\ GivenArrives(m)'
      BY <1>h, <1>b, <1>l, <2>1 DEF Arrives, AnswerIsGiven, EndsUnbound, GivenArrives,
         SettledOnce, StaysInSight, ToldIsDone
    <3> QED BY <3>1, <3>2, <3>3, <3>4 DEF Arrives
<1> QED BY <1>1, <1>2, <1>3, <1>4, <1>5 DEF PassesOn
----------------------------------------------------------------------------
(* The receiver's process. *)

\* A step of a sender or of the receiver keeps what goes with the process.
LEMMA SendersKeepLifetimes ==
  ASSUME TypeOK', Lifetimes, NEW m \in Messages, LeavesElse(m)
  PROVE  Lifetimes'
BY DEF LeavesElse, SendersOwn, Lifetimes, TypeOK

LEMMA KeepersKeepLifetimes ==
  ASSUME TypeOK, TypeOK', Lifetimes, NEW m \in Messages, Keeper(m)
  PROVE  Lifetimes'
<1>k. /\ UNCHANGED <<phase, closed, closing, closedFile>> /\ excused \subseteq excused'
      /\ excused' \subseteq Messages
      /\ Idle.does = "nothing"
  BY KeepersKeepElse DEF KeepsElse, TypeOK, Idle
<1>1. /\ listed' \subseteq listed /\ sweep' \subseteq sweep
      /\ courier'.does # "nothing" => courier.does # "nothing" \/ listed # {}
  <2>1. CASE Receive(m)
    BY <2>1 DEF Receive, Take, Pass, Glance, ClaimForReceiver, Expire, Release, LetGo, Answer, Drop,
       Replies, Receiving, serving, closer
  <2>2. CASE SettlesOn(m) \/ SettleWrite(m)
    BY <2>2 DEF SettlesOn, SettleClaim, SettleLook, SettleWrite, SettleRemove, SettleClear, Writing,
       serving, closer
  <2>3. CASE Renames(m)
    BY <1>k, <2>3 DEF Renames, Rename, Serving, closer
  <2>4. CASE Reads(m)
    BY <1>k, <2>4 DEF Reads, Read, Serving, closer
  <2>5. CASE Admits(m)
    BY <1>k, <2>5 DEF Admits, Admit, Serving, closer
  <2>6. CASE Sweeps(m)
    BY <2>6 DEF Sweeps, Sweep, Closing, serving
  <2>7. CASE Reply(m)
    BY <2>7 DEF Reply, Closing, serving
  <2> QED BY <2>1, <2>2, <2>3, <2>4, <2>5, <2>6, <2>7 DEF Keeper, PassesOn
<1>2. closed => queue' = {} /\ owed' = {} /\ inside'.does = "nothing"
  <2> SUFFICES ASSUME closed PROVE queue' = {} /\ owed' = {} /\ inside'.does = "nothing"
    OBVIOUS
  <2>0. queue = {} /\ owed = {} /\ inside.does = "nothing"
    BY DEF Lifetimes
  <2>1. CASE Receive(m)
    <3>1. Release(m) \/ Answer(m) \/ Drop(m)
      BY <2>0, <2>1 DEF Receive, Take, Pass, Glance, ClaimForReceiver, Expire, LetGo, Within
    <3> QED BY <2>0, <3>1 DEF Release, Answer, Drop, Replies, HandsOver
  <2>2. CASE SettlesOn(m) \/ SettleWrite(m)
    BY <2>0, <2>2 DEF SettlesOn, SettleClaim, SettleLook, SettleWrite, SettleRemove, SettleClear,
       Inside
  <2>3. CASE Renames(m)
    BY <2>0, <2>3 DEF Renames, Rename, inbox
  <2>4. CASE Reads(m)
    BY <2>0, <2>4 DEF Reads, Read, inbox
  <2>5. CASE Admits(m)
    BY <2>0, <2>5 DEF Admits, Admit
  <2>6. CASE Sweeps(m) \/ Reply(m)
    BY <2>0, <2>6 DEF Sweeps, Sweep, Reply, Closing
  <2> QED BY <2>1, <2>2, <2>3, <2>4, <2>5, <2>6 DEF Keeper, PassesOn
<1> QED BY <1>k, <1>1, <1>2 DEF Lifetimes

LEMMA HousekeepingKeepsLifetimes ==
  ASSUME Lifetimes, Housekeeping
  PROVE  Lifetimes'
<1> USE DEF Lifetimes, Serving, Closing, Closes, Resting, inbox, serving, closer, dir, world
<1>i. Idle.does = "nothing"
  BY DEF Idle
<1>1. CASE List
  BY <1>1 DEF List
<1>2. CASE Retract
  <2>1. UNCHANGED <<courier, listed, closing, closed, closedFile, sweep, queue, owed, inside>>
    BY <1>2 DEF Retract
  <2>2. /\ courier.does = "nothing" /\ listed = {} /\ phase = "serving" /\ phase' = "leaving"
        /\ excused' = excused \cup Exposed /\ Exposed \subseteq Messages
    BY <1>i, <1>2 DEF Retract, Exposed
  <2>3. closing \in {"list", "sweep"} => closedFile' \/ excused' = Messages
    BY <2>1, <2>2
  <2> QED BY <2>1, <2>2, <2>3
<1>3. CASE Unlock
  BY <1>3 DEF Unlock
<1>4. CASE Reopen
  BY <1>4 DEF Reopen
<1>5. CASE Record
  BY <1>5 DEF Record
<1>6. CASE ListLast
  BY <1>6 DEF ListLast
<1>7. CASE Close
  BY <1>i, <1>7 DEF Close
<1>8. CASE Bind
  BY <1>8 DEF Bind
<1>9. CASE Crash
  BY <1>i, <1>9 DEF Crash
<1> QED BY <1>1, <1>2, <1>3, <1>4, <1>5, <1>6, <1>7, <1>8, <1>9 DEF Housekeeping

\* What a step of the process, or of its close, does to no message.
Stays(m) ==
  /\ files'[m] = files[m] /\ answer'[m] = answer[m] /\ settling'[m] = settling[m]
  /\ at'[m] = at[m] /\ told'[m] = told[m] /\ admits'[m] = admits[m]
  /\ (m \in queue' <=> m \in queue) /\ (m \in owed' <=> m \in owed)
  /\ (m \in replies' <=> m \in replies) /\ (m \in held' <=> m \in held)
  /\ (m \in given' <=> m \in given) /\ (m \in excused => m \in excused')
  /\ InCourier(m)' <=> InCourier(m)
  /\ Within("let go", m)' <=> Within("let go", m)

LEMMA StayingArrives ==
  ASSUME NEW m \in Messages, Stays(m), Arrives(m),
         StaysInSight(m)', EndsUnbound(m)', phase = "serving" /\ m \in given =>
                phase' = "serving" \/ m \in excused'
  PROVE  Arrives(m)'
<1>1. /\ \A f : Has(m, f)' <=> Has(m, f)
      /\ Begun(m)' <=> Begun(m)
      /\ InSettling(m)' <=> InSettling(m)
      /\ InCourier(m)' <=> InCourier(m)
      /\ Within("let go", m)' <=> Within("let go", m)
      /\ Unmet(m)' => Unmet(m)
  BY DEF Stays, Has, Begun, InSettling, Unmet
<1>2. AnswerIsGiven(m)' /\ SettledOnce(m)'
  BY <1>1 DEF Stays, Arrives, AnswerIsGiven, SettledOnce
<1>3. ToldIsDone(m)' /\ AdmittedOnce(m)' /\ ClaimIsSenders(m)'
  BY <1>1 DEF Stays, Arrives, ToldIsDone, AdmittedOnce, ClaimIsSenders
<1>4. RemovedIsAnswered(m)'
  BY <1>1 DEF Stays, Arrives, RemovedIsAnswered
<1>5. GivenArrives(m)'
  BY <1>1 DEF Stays, Arrives, GivenArrives
<1> QED BY <1>2, <1>3, <1>4, <1>5 DEF Arrives

LEMMA HousekeepingArrives ==
  ASSUME TypeOK, NothingOwing, Lifetimes, Housekeeping, NEW m \in Messages, Core(m), Arrives(m)
  PROVE  Arrives(m)'
<1>b. at[m] \in {"ended", "clear", "why?"} \/ m \in given => Begun(m)
  BY DEF Core, SenderShape, Arrives, SettledOnce, Begun, Early
<1>s. ASSUME List \/ Retract \/ Unlock \/ Reopen \/ Record \/ ListLast \/ Bind PROVE Stays(m)
  <2>1. Untouched(m)
    BY <1>s, HousekeepingUntouched
  <2>2. admits' = admits /\ given' = given
         /\ UNCHANGED <<queue, owed, replies, held, inside, courier>>
    BY <1>s DEF List, Retract, Unlock, Reopen, Record, ListLast, Bind, Serving, Closing, sender,
       inbox, serving, world
  <2> QED BY <2>1, <2>2 DEF Untouched, Stays, Within, InCourier
<1> USE DEF Begun, Has, Unmet, Bound
<1>1. CASE List
  <2>1. phase' = phase /\ closing' = closing
    BY <1>1 DEF List, Serving, closer
  <2> QED BY <1>s, <1>1, <2>1, UnmovedArrives DEF Stays, Unmoved
<1>2. CASE Retract
  <2>1. Begun(m) => m \in excused'
    BY <1>2 DEF Retract, Exposed, Early
  <2>2. StaysInSight(m)' /\ EndsUnbound(m)'
    BY <1>s, <1>2, <1>b, <2>1 DEF Stays, StaysInSight, EndsUnbound
  <2> QED BY <1>s, <1>2, <1>b, <2>1, <2>2, StayingArrives
<1>3. CASE Unlock
  <2>1. phase = "leaving" /\ phase' = "unbound" /\ closing' = closing /\ excused' = excused
    BY <1>3 DEF Unlock, closer, world
  <2>2. StaysInSight(m)' /\ EndsUnbound(m)'
    BY <1>s, <1>3, <2>1 DEF Stays, Arrives, StaysInSight, EndsUnbound
  <2> QED BY <1>s, <1>3, <2>1, <2>2, StayingArrives
<1>4. CASE Reopen
  <2>1. phase = "binding" /\ phase' = "serving" /\ excused' = excused
    BY <1>4 DEF Reopen, world
  <2>2. StaysInSight(m)' /\ EndsUnbound(m)'
    BY <1>s, <1>4, <2>1 DEF Stays, Arrives, StaysInSight, EndsUnbound
  <2> QED BY <1>s, <1>4, <2>1, <2>2, StayingArrives
<1>5. CASE Record \/ ListLast
  <2>1. phase' = phase /\ closing \in {"record", "list"}
    BY <1>5 DEF Record, ListLast, Closes, Closing, serving
  <2>2. StaysInSight(m)' /\ EndsUnbound(m)'
    BY <1>s, <1>5, <2>1 DEF Stays, Arrives, StaysInSight, EndsUnbound
  <2> QED BY <1>s, <1>5, <2>1, <2>2, StayingArrives
<1>6. CASE Bind
  <2>1. phase \in {"gone", "unbound"} /\ closing = "no" /\ excused' = excused
    BY <1>6 DEF Bind, Lifetimes, world
  <2>2. ~(Unmet(m) /\ Begun(m))
    BY <2>1 DEF Arrives, StaysInSight
  <2>3. StaysInSight(m)' /\ EndsUnbound(m)'
    BY <1>s, <1>6, <1>b, <2>1, <2>2 DEF Stays, StaysInSight, EndsUnbound, Returned
  <2> QED BY <1>s, <1>6, <2>1, <2>3, StayingArrives
<1>7. CASE Close
  <2>1. /\ UNCHANGED <<files, answer, settling, at, told, admits, held, given, excused, phase,
         courier, inside>>
        /\ closing = "no" /\ m \notin queue' /\ m \notin owed' /\ m \notin replies
        /\ m \in replies' <=> m \in queue \/ m \in owed
    BY <1>7 DEF Close, Closes, NothingOwing, sender, serving, dir, world
  <2> USE DEF InSettling, InCourier, Within
  <2>2. AnswerIsGiven(m)' /\ SettledOnce(m)'
    BY <2>1 DEF Arrives, AnswerIsGiven, SettledOnce
  <2>3. ToldIsDone(m)' /\ AdmittedOnce(m)'
    BY <2>1 DEF Arrives, ToldIsDone, AdmittedOnce
  <2>4. ClaimIsSenders(m)'
    BY <2>1 DEF Arrives, ClaimIsSenders, Core, HeldIsClaimed
  <2>5. RemovedIsAnswered(m)' /\ StaysInSight(m)'
    BY <2>1 DEF Arrives, RemovedIsAnswered, StaysInSight
  <2>6. EndsUnbound(m)' /\ GivenArrives(m)'
    BY <2>1 DEF Arrives, EndsUnbound, GivenArrives
  <2> QED BY <2>2, <2>3, <2>4, <2>5, <2>6 DEF Arrives
<1>8. CASE Crash
  <2>1. /\ UNCHANGED <<files, answer, at, told, admits, given>>
        /\ ~InCourier(m)' /\ ~InSettling(m)' /\ settling'[m].does = "nothing"
        /\ ~Within("let go", m)'
        /\ m \notin queue' /\ m \notin owed' /\ m \notin replies' /\ m \notin held'
        /\ Begun(m) => m \in excused'
        /\ m \in excused => m \in excused'
    BY <1>8 DEF Crash, sender, dir, Idle, NotSettling, InCourier, InSettling, Within, Exposed, Early
  <2>2. AnswerIsGiven(m)' /\ SettledOnce(m)'
    BY <2>1 DEF Arrives, AnswerIsGiven, SettledOnce
  <2>3. ToldIsDone(m)' /\ AdmittedOnce(m)'
    BY <2>1 DEF Arrives, ToldIsDone, AdmittedOnce
  <2>4. ClaimIsSenders(m)'
    BY <2>1 DEF Arrives, ClaimIsSenders
  <2>5. RemovedIsAnswered(m)' /\ StaysInSight(m)'
    BY <2>1 DEF RemovedIsAnswered, StaysInSight
  <2>6. EndsUnbound(m)' /\ GivenArrives(m)'
    BY <1>b, <2>1 DEF EndsUnbound, GivenArrives
  <2> QED BY <2>2, <2>3, <2>4, <2>5, <2>6 DEF Arrives
<1> QED BY <1>1, <1>2, <1>3, <1>4, <1>5, <1>6, <1>7, <1>8 DEF Housekeeping

----------------------------------------------------------------------------
(* Every step keeps it. *)

LEMMA SendersArrive ==
  ASSUME IInv, IInv', ArrivesInv, NEW m \in Messages, Sends(m)
  PROVE  ArrivesInv'
<1>1. /\ TypeOK /\ Core(m) /\ SenderShape(m) /\ SenderShape(m)'
      /\ Lifetimes /\ Arrives(m) /\ AdmittedOnce(m) /\ TypeOK'
  BY DEF IInv, Core, ArrivesInv, Arrives
<1>2. MovesOn(m) /\ LeavesElse(m)
  <2>1. MovesOn(m)
    BY <1>1, SendersMoveOn
  <2>2. LeavesElse(m)
    BY <1>1, SendersLeaveElse, Zenon
  <2> QED BY <2>1, <2>2
<1>3. Lifetimes'
  BY <1>1, <1>2, SendersKeepLifetimes
<1>4. Arrives(m)'
  BY <1>1, <1>2, MovesArrive
<1>5. ASSUME NEW k \in Messages \ {m} PROVE Arrives(k)'
  <2>1. Arrives(k) /\ Unmoved(k)
    BY <1>2 DEF ArrivesInv, LeavesElse, SendersOwn, Unmoved, InCourier, Within
  <2> QED BY <2>1, UnmovedArrives
<1> QED BY <1>3, <1>4, <1>5 DEF ArrivesInv

LEMMA KeepersArrive ==
  ASSUME IInv, IInv', ArrivesInv, NEW m \in Messages, Keeper(m)
  PROVE  ArrivesInv'
<1>1. TypeOK /\ TypeOK' /\ Core(m) /\ Lifetimes /\ Arrives(m)
  BY DEF IInv, ArrivesInv
<1>2. Lifetimes'
  BY <1>1, KeepersKeepLifetimes
<1>3. Arrives(m)' /\ \A k \in Messages \ {m} : Untouched(k)
  <2>1. CASE Receive(m)
    BY <1>1, <2>1, ReceiveKeeps, ReceiveArrives
  <2>2. CASE SettlesOn(m)
    BY <1>1, <2>2, SettleKeeps, SettleArrives DEF SettleSteps, SettlesOn
  <2>3. CASE SettleWrite(m)
    BY <1>1, <2>3, SettleWriteKeeps, SettleArrives DEF SettleSteps
  <2>4. CASE PassesOn(m)
    BY <1>1, <2>4, PassesKeep, PassesArrive
  <2> QED BY <2>1, <2>2, <2>3, <2>4 DEF Keeper
<1>4. KeepsElse(m)
  BY <1>1, KeepersKeepElse
<1>5. ASSUME NEW k \in Messages \ {m} PROVE Arrives(k)'
  <2>1. Arrives(k) /\ Unmoved(k)
    BY <1>3, <1>4 DEF ArrivesInv, KeepsElse, Untouched, Unmoved
  <2> QED BY <2>1, UnmovedArrives
<1> QED BY <1>2, <1>3, <1>5 DEF ArrivesInv

LEMMA NextArrives == IInv /\ ArrivesInv /\ [Next]_vars => ArrivesInv'
<1> SUFFICES ASSUME IInv, ArrivesInv, [Next]_vars PROVE ArrivesInv'
  OBVIOUS
<1>i. IInv'
  BY NextKeeps
<1>1. ASSUME NEW m \in Messages, Sends(m) PROVE ArrivesInv'
  BY <1>i, <1>1, SendersArrive
<1>2. ASSUME NEW m \in Messages, Keeper(m) PROVE ArrivesInv'
  BY <1>i, <1>2, KeepersArrive
<1>3. CASE Housekeeping
  <2>1. Lifetimes'
    BY <1>3, HousekeepingKeepsLifetimes DEF ArrivesInv
  <2>2. ASSUME NEW m \in Messages PROVE Arrives(m)'
    BY <1>3, HousekeepingArrives DEF IInv, ArrivesInv
  <2> QED BY <2>1, <2>2 DEF ArrivesInv
<1>4. CASE UNCHANGED vars
  <2> USE <1>4 DEF vars, dir, receiver, inbox, serving, closer, sender, world
  <2>1. Lifetimes'
    BY DEF ArrivesInv, Lifetimes
  <2>2. ASSUME NEW m \in Messages PROVE Arrives(m)'
    <3>1. Unmoved(m)
      BY DEF Unmoved, InCourier, Within
    <3> QED BY <3>1, UnmovedArrives DEF ArrivesInv
  <2> QED BY <2>1, <2>2 DEF ArrivesInv
<1>5. CASE Courier \/ Retract \/ Closer \/ Close \/ Bind \/ Crash
  <2>1. Housekeeping \/ \E m \in Messages : PassesOn(m)
    BY <1>5, OneAtATime DEF IInv
  <2> QED BY <1>2, <1>3, <2>1 DEF Keeper
<1> QED BY <1>1, <1>2, <1>4, <1>5 DEF Next, Sends, Keeper, SettlesOn, SettleSteps

LEMMA InitiallyArrives == Init => ArrivesInv
<1> SUFFICES ASSUME Init PROVE ArrivesInv
  OBVIOUS
<1>1. Lifetimes
  BY DEF Init, Lifetimes
<1>2. ASSUME NEW m \in Messages PROVE Arrives(m)
  <2>1. /\ files[m] = {} /\ answer[m] = Nothing /\ at[m] = "start" /\ told[m] = Nothing
        /\ courier.does = "nothing" /\ inside.does = "nothing" /\ settling[m].does = "nothing"
        /\ m \notin queue /\ m \notin owed /\ m \notin replies /\ m \notin held /\ m \notin given
    BY <1>2 DEF Init
  <2> QED BY <2>1 DEF Arrives, AnswerIsGiven, SettledOnce, ToldIsDone, AdmittedOnce, ClaimIsSenders,
          RemovedIsAnswered, StaysInSight, EndsUnbound, GivenArrives, Begun, Has, InCourier,
          InSettling, Within, Early, SenderClaims, Returned, Unmet, Bodies, Nothing
<1> QED BY <1>1, <1>2 DEF ArrivesInv

\* A sender is told an answer only when its receiver gave one, a message that was
\* answered has a sender that is told so, and one is told its message is lost only for a
\* reason (`Hold::settle`, `Exchange::ended`): for any number of messages and bindings,
\* wherever the receiver or a sender dies and whatever the file system refuses.
THEOREM AnswersAlwaysArrive == Spec => []AnswersArrive
<1>1. Init => IInv /\ ArrivesInv
  BY Initially, InitiallyArrives
<1>2. IInv /\ ArrivesInv /\ [Next]_vars => IInv' /\ ArrivesInv'
  BY NextKeeps, NextArrives
<1>3. IInv /\ ArrivesInv => AnswersArrive
  <2> SUFFICES ASSUME ArrivesInv, NEW m \in Messages
               PROVE  /\ told[m] = "answered" => m \in given
                      /\ m \in given \ excused =>
                           told[m] \in {Nothing, "answered", "unheard", "unclaimable"}
                      /\ told[m] = "abandoned" => m \in excused
    BY DEF AnswersArrive
  <2> QED BY DEF ArrivesInv, Arrives, AnswerIsGiven, GivenArrives
<1> QED BY <1>1, <1>2, <1>3, PTL DEF Spec
=============================================================================
