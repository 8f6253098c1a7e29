----------------------------- MODULE InboxProofs -----------------------------
(***************************************************************************)
(* Theorems about Inbox, for every set of senders, every set of receivers  *)
(* and whatever each of them accepts: a message is in one pair of hands,   *)
(* and the way back to its sender in one place, until its sender is told.  *)
(***************************************************************************)
EXTENDS Inbox, LibraryProofs, TLAPS

\* A receiver holds only what was sent.
HeldWasSent == \A r \in Receivers : hand[r] # None => sender[hand[r]] # "idle"

IInv == TypeOK /\ OneReply /\ TakenOnce /\ HeldWasSent

----------------------------------------------------------------------------
(* The queue's operations. *)

LEMMA QueueIsInjective == TakenOnce => IsInjective(queue)
BY DEF TakenOnce

LEMMA WithoutOne ==
  ASSUME IInv, NEW o \in Queued
  PROVE  /\ Without(o) \in Seq(Offers)
         /\ IsInjective(Without(o))
         /\ ToSet(Without(o)) = Queued \ {o}
<1> DEFINE I == {i \in 1..Len(queue) : queue[i] = o}
<1>1. queue \in Seq(Offers) /\ IsInjective(queue)
  BY QueueIsInjective DEF IInv, TypeOK
<1>2. I # {} /\ I \subseteq Nat
  BY <1>1 DEF Queued, ToSet
<1>3. Without(o) = RemoveAt(queue, Min(I))
  BY <1>2 DEF Without, SelectInSeq
<1>4. Min(I) \in 1..Len(queue) /\ queue[Min(I)] = o
  BY <1>2, MinIsMember
<1> DEFINE at == Min(I)
<1> HIDE DEF at
<1>5. at \in 1..Len(queue) /\ queue[at] = o /\ Without(o) = RemoveAt(queue, at)
  BY <1>3, <1>4 DEF at
<1>6. /\ RemoveAt(queue, at) \in Seq(Offers)
      /\ IsInjective(RemoveAt(queue, at))
      /\ ToSet(RemoveAt(queue, at)) = ToSet(queue) \ {queue[at]}
  BY <1>1, <1>5, RemoveAtOnce
<1> QED BY <1>5, <1>6 DEF Queued

LEMMA FirstIsQueued ==
  ASSUME IInv, NEW r \in Receivers, FirstFor(r) # 0
  PROVE  FirstFor(r) \in 1..Len(queue)
<1> DEFINE I == {i \in 1..Len(queue) : queue[i] \in Accepts[r]}
<1>1. FirstFor(r) = IF I # {} THEN Min(I) ELSE 0
  BY DEF FirstFor, SelectInSeq
<1>2. I \subseteq Nat
  OBVIOUS
<1>3. I # {} => Min(I) \in I
  BY <1>2, MinIsMember
<1> QED BY <1>1, <1>3

LEMMA RestoredOne ==
  ASSUME IInv, NEW o \in Offers, o \notin Queued
  PROVE  /\ Restored(o) \in Seq(Offers)
         /\ IsInjective(Restored(o))
         /\ ToSet(Restored(o)) = Queued \cup {o}
<1>1. queue \in Seq(Offers) /\ IsInjective(queue) /\ Len(queue) \in Nat
  BY QueueIsInjective DEF IInv, TypeOK
<1>2. Earlier(o) \subseteq 1..Len(queue)
  BY DEF Earlier
<1>3. IsFiniteSet(1..Len(queue)) /\ Cardinality(1..Len(queue)) = Len(queue)
  <2>1. ASSUME NEW n \in Nat
        PROVE  IsFiniteSet(1..n) /\ Cardinality(1..n) = n
    <3>1. IsFiniteSet(1..n) /\ Cardinality(1..n) = IF 1 > n THEN 0 ELSE n - 1 + 1
      BY FS_Interval
    <3> QED BY <3>1
  <2> QED BY <1>1, <2>1
<1>4. IsFiniteSet(Earlier(o)) /\ Cardinality(Earlier(o)) <= Len(queue)
  BY <1>2, <1>3, FS_Subset
<1>5. Cardinality(Earlier(o)) \in Nat
  BY <1>4, FS_CardinalityType
<1>6. 1 + Cardinality(Earlier(o)) \in 1..(Len(queue) + 1)
  BY <1>1, <1>4, <1>5
<1> QED BY <1>1, <1>6, InsertAtOnce DEF Restored, Queued


----------------------------------------------------------------------------
(* Every step keeps the invariant. *)

LEMMA OutcomeTypes ==
  /\ Nothing \in Slots /\ Nothing \notin Answers /\ Expired \notin Answers
  /\ Nothing # Expired /\ Nothing # Withdrawn /\ Expired # Withdrawn
  /\ \A r \in Receivers : Answered(r) \in Answers /\ Answered(r) # Nothing
  /\ \A why \in Reasons \cup {LetGo} : Closed(why) \in Answers /\ Closed(why) # Nothing
  /\ \A a \in Answers : a # Withdrawn /\ a # Expired /\ a # Nothing
<1>1. /\ \A r \in Receivers : Answered(r) \in Answers
      /\ \A why \in Reasons \cup {LetGo} : Closed(why) \in Answers
  BY DEF Answers
<1>2. \A r : Answered(r).is = "answered"
  BY DEF Answered
<1>3. \A why : Closed(why).is = "closed"
  BY DEF Closed
<1>4. \A a \in Answers : a.is \in {"answered", "closed"}
  BY <1>2, <1>3 DEF Answers
<1>5. Nothing.is = "nothing" /\ Expired.is = "expired" /\ Withdrawn.is = "withdrawn"
  BY DEF Nothing, Expired, Withdrawn
<1>6. \A a \in Answers : a # Withdrawn /\ a # Expired /\ a # Nothing
  BY <1>4, <1>5
<1>7. Nothing # Expired /\ Nothing # Withdrawn /\ Expired # Withdrawn
  BY <1>5
<1> QED BY <1>1, <1>6, <1>7 DEF Slots

\* A sender that is idle or was told has no reply left anywhere.
LEMMA NoReplyLeft ==
  ASSUME IInv, NEW o \in Offers, sender[o] \in {"idle", "told"}
  PROVE  o \notin Queued /\ o \notin taken /\ slot[o] = Nothing
           /\ \A reply \in replying : reply.to # o
BY DEF IInv, OneReply, OneReplyTo, InQueue, InTaken, InTransit, Arrived

LEMMA InitInv == Init => IInv
<1> SUFFICES ASSUME Init PROVE IInv
  OBVIOUS
<1>1. Queued = {} /\ queue = <<>>
  BY DEF Init, Queued, ToSet
<1>2. TypeOK
  BY OutcomeTypes DEF Init, TypeOK, Tellings, SenderStates, ReceiverStates
<1>3. OneReply
  BY <1>1 DEF Init, OneReply, OneReplyTo, InQueue, InTaken, InTransit, Arrived
<1>4. TakenOnce
  BY <1>1, InboxAssumption DEF Init, TakenOnce, IsInjective
<1>5. HeldWasSent
  BY DEF Init, HeldWasSent
<1> QED BY <1>2, <1>3, <1>4, <1>5 DEF IInv

LEMMA WokenType == TypeOK => Woken \in [Receivers -> ReceiverStates]
BY DEF TypeOK, Woken, ReceiverStates

LEMMA OfferKeeps ==
  ASSUME IInv, NEW o \in Offers, Offer(o)
  PROVE  IInv'
<1>1. sender[o] = "idle" /\ o \notin Queued /\ o \notin taken /\ slot[o] = Nothing
        /\ \A reply \in replying : reply.to # o
  BY NoReplyLeft DEF Offer
<1>2. /\ queue' \in Seq(Offers)
      /\ IsInjective(queue')
      /\ Queued' = Queued \cup {o}
  BY <1>1, AppendOnce, QueueIsInjective DEF IInv, TypeOK, Offer, Queued
<1>3. TypeOK'
  BY <1>2, WokenType DEF IInv, TypeOK, Offer, Notify, SenderStates
<1>4. OneReply'
  BY <1>1, <1>2 DEF IInv, TypeOK, Offer, OneReply, OneReplyTo, InQueue, InTaken, InTransit, Arrived
<1>5. TakenOnce'
  <2>1. \A r \in Receivers : hand[r] # o
    BY <1>1, InboxAssumption DEF IInv, HeldWasSent
  <2> QED BY <2>1, <1>2 DEF IInv, Offer, TakenOnce
<1>6. HeldWasSent'
  BY DEF IInv, TypeOK, Offer, HeldWasSent
<1> QED BY <1>3, <1>4, <1>5, <1>6 DEF IInv

LEMMA GiveBackKeeps ==
  ASSUME IInv, NEW o \in Offers, NEW what \in {Withdrawn, Expired}, GiveBack(o, what),
         sender[o] \in {"offered", "expiring"}
  PROVE  IInv'
<1>1. o \in Queued /\ o \notin taken /\ slot[o] = Nothing
        /\ \A reply \in replying : reply.to # o
  BY DEF GiveBack, IInv, OneReply, OneReplyTo, InQueue, InTaken, InTransit, Arrived
<1>2. /\ queue' \in Seq(Offers)
      /\ IsInjective(queue')
      /\ Queued' = Queued \ {o}
  BY <1>1, WithoutOne DEF GiveBack, Queued
<1>3. TypeOK'
  <2>1. what \in Tellings /\ what # Nothing
    BY OutcomeTypes DEF Tellings, Slots
  <2> QED BY <2>1, <1>2, WokenType DEF IInv, TypeOK, GiveBack, Tell, Notify, SenderStates
<1>4. OneReply'
  BY <1>1, <1>2 DEF IInv, TypeOK, GiveBack, Tell, OneReply, OneReplyTo, InQueue, InTaken, InTransit, Arrived
<1>5. TakenOnce'
  BY <1>1, <1>2 DEF IInv, TypeOK, GiveBack, Tell, TakenOnce
<1>6. HeldWasSent'
  BY DEF IInv, TypeOK, GiveBack, Tell, HeldWasSent
<1> QED BY <1>3, <1>4, <1>5, <1>6 DEF IInv

LEMMA OfferRefusedKeeps ==
  ASSUME IInv, NEW o \in Offers, OfferRefused(o)
  PROVE  IInv'
<1>1. o \notin Queued /\ o \notin taken /\ slot[o] = Nothing
        /\ \A reply \in replying : reply.to # o
  BY NoReplyLeft DEF OfferRefused
<1>2. Queued' = Queued
  BY DEF OfferRefused, inbox, Queued
<1>3. Closed(closed) \in Tellings /\ Closed(closed) \notin {Nothing, Withdrawn, Expired}
  BY OutcomeTypes DEF IInv, TypeOK, OfferRefused, Tellings, Slots
<1>4. TypeOK'
  BY <1>3 DEF IInv, TypeOK, OfferRefused, Tell, inbox, SenderStates
<1>5. OneReply'
  BY <1>1, <1>2 DEF IInv, TypeOK, OfferRefused, Tell, inbox, OneReply, OneReplyTo,
                    InQueue, InTaken, InTransit, Arrived
<1>6. TakenOnce'
  BY <1>2, <1>3 DEF IInv, TypeOK, OfferRefused, Tell, inbox, TakenOnce
<1>7. HeldWasSent'
  BY DEF IInv, TypeOK, OfferRefused, Tell, inbox, HeldWasSent
<1> QED BY <1>4, <1>5, <1>6, <1>7 DEF IInv

\* Steps that move only a sender, from one wait to the next.
LEMMA SenderMovesKeeps ==
  ASSUME IInv, NEW o \in Offers, NEW to \in SenderStates \ {"idle", "told"},
         sender[o] \notin {"idle", "told"},
         sender' = [sender EXCEPT ![o] = to],
         due' \in [Offers -> {"none", "set", "passed"}],
         asleep' \subseteq {q \in Offers : sender'[q] \in {"waiting", "timed", "overdue"}},
         UNCHANGED <<inbox, replying, slot, told, receiver, hand>>
  PROVE  IInv'
<1>1. Queued' = Queued
  BY DEF inbox, Queued
<1>2. TypeOK'
  BY DEF IInv, TypeOK, inbox
<1>3. OneReply'
  BY <1>1 DEF IInv, TypeOK, inbox, OneReply, OneReplyTo, InQueue, InTaken, InTransit, Arrived
<1>4. TakenOnce'
  BY <1>1 DEF IInv, inbox, TakenOnce
<1>5. HeldWasSent'
  BY DEF IInv, TypeOK, inbox, HeldWasSent
<1> QED BY <1>2, <1>3, <1>4, <1>5 DEF IInv

LEMMA LearnKeeps ==
  ASSUME IInv, NEW o \in Offers, Learn(o)
  PROVE  IInv'
<1>1. slot[o] # Nothing /\ slot[o] \in Tellings /\ slot[o] # Withdrawn
  BY OutcomeTypes DEF IInv, TypeOK, Learn, Settles, Tellings, Slots
<1>2. o \notin Queued /\ o \notin taken /\ \A reply \in replying : reply.to # o
  BY <1>1 DEF IInv, OneReply, OneReplyTo, InQueue, InTaken, InTransit, Arrived
<1>3. Queued' = Queued
  BY DEF Learn, inbox, Queued
<1>4. TypeOK'
  BY <1>1, OutcomeTypes DEF IInv, TypeOK, Learn, Tell, inbox, SenderStates
<1>5. OneReply'
  BY <1>1, <1>2, <1>3 DEF IInv, TypeOK, Learn, Tell, inbox, OneReply, OneReplyTo,
                          InQueue, InTaken, InTransit, Arrived
<1>6. TakenOnce'
  BY <1>1, <1>3, OutcomeTypes DEF IInv, TypeOK, Learn, Tell, inbox, TakenOnce
<1>7. HeldWasSent'
  BY DEF IInv, TypeOK, Learn, Tell, inbox, HeldWasSent
<1> QED BY <1>4, <1>5, <1>6, <1>7 DEF IInv

\* Steps that move no message and tell no sender anything.
LEMMA QuietKeeps ==
  ASSUME IInv,
         receiver' \in [Receivers -> ReceiverStates],
         due' \in [Offers -> {"none", "set", "passed"}],
         asleep' \subseteq asleep,
         UNCHANGED <<inbox, replying, slot, sender, told, hand>>
  PROVE  IInv'
<1>1. Queued' = Queued
  BY DEF inbox, Queued
<1>2. TypeOK'
  BY DEF IInv, TypeOK, inbox
<1>3. OneReply'
  BY <1>1 DEF IInv, inbox, OneReply, OneReplyTo, InQueue, InTaken, InTransit, Arrived
<1>4. TakenOnce'
  BY <1>1 DEF IInv, inbox, TakenOnce
<1>5. HeldWasSent'
  BY DEF IInv, inbox, HeldWasSent
<1> QED BY <1>2, <1>3, <1>4, <1>5 DEF IInv

LEMMA TakeKeeps ==
  ASSUME IInv, NEW r \in Receivers, Take(r)
  PROVE  IInv'
<1> DEFINE o == queue[FirstFor(r)]
<1>1. FirstFor(r) \in 1..Len(queue) /\ o \in Offers /\ o \in Queued
  BY FirstIsQueued DEF IInv, TypeOK, Take, Queued, ToSet
<1>2. /\ queue' \in Seq(Offers)
      /\ IsInjective(queue')
      /\ Queued' = Queued \ {o}
  BY <1>1, RemoveAtOnce, QueueIsInjective DEF IInv, TypeOK, Take, Queued
<1>3. o \notin taken /\ slot[o] = Nothing /\ sender[o] \notin {"idle", "told"}
        /\ \A reply \in replying : reply.to # o
  BY <1>1 DEF IInv, OneReply, OneReplyTo, InQueue, InTaken, InTransit, Arrived
<1>4. hand' = [hand EXCEPT ![r] = o] /\ taken' = taken \cup {o} /\ hand[r] = None
  BY DEF Take, Scanning
<1>5. \A s \in Receivers : hand[s] # o
  BY <1>1 DEF IInv, TakenOnce
<1> HIDE DEF o
<1>6. TypeOK'
  BY <1>1, <1>2, <1>4 DEF IInv, TypeOK, Take, senders, ReceiverStates
<1>7. OneReply'
  BY <1>1, <1>2, <1>3, <1>4 DEF IInv, Take, senders, OneReply, OneReplyTo,
                                InQueue, InTaken, InTransit, Arrived
<1>8. TakenOnce'
  <2>1. told[o] \notin {Withdrawn, Expired} /\ slot[o] # Expired
    BY <1>1, <1>3, OutcomeTypes DEF IInv, TypeOK
  <2>2. \A q \in taken' : \E s \in Receivers : hand'[s] = q
    BY <1>4, <1>1, InboxAssumption DEF IInv, TypeOK, TakenOnce
  <2> QED BY <2>1, <2>2, <1>1, <1>2, <1>4, <1>5 DEF IInv, TypeOK, Take, senders, TakenOnce
<1>9. HeldWasSent'
  BY <1>1, <1>3, <1>4 DEF IInv, TypeOK, Take, senders, HeldWasSent
<1> QED BY <1>6, <1>7, <1>8, <1>9 DEF IInv

\* A receiver's hand is empty: who holds what, then.
LEMMA HandEmptied ==
  ASSUME IInv, NEW r \in Receivers, hand[r] # None,
         taken' = taken \ {hand[r]},
         hand' = [hand EXCEPT ![r] = None]
  PROVE  /\ \A s \in Receivers : hand'[s] # None => hand'[s] = hand[s] /\ hand[s] # hand[r]
         /\ \A s, t \in Receivers : hand'[s] = hand'[t] /\ hand'[s] # None => s = t
         /\ \A q \in taken' : \E s \in Receivers : hand'[s] = q
<1>1. hand \in [Receivers -> Offers \cup {None}] /\ None \notin Offers /\ taken \subseteq Offers
  BY InboxAssumption DEF IInv, TypeOK
<1>2. \A s \in Receivers : hand'[s] = IF s = r THEN None ELSE hand[s]
  BY <1>1
<1>3. \A s, t \in Receivers : hand[s] = hand[t] /\ hand[s] # None => s = t
  BY DEF IInv, TakenOnce
<1>4. \A q \in taken : \E s \in Receivers : hand[s] = q
  BY DEF IInv, TakenOnce
<1>5. \A q \in taken' : \E s \in Receivers : hand'[s] = q
  BY <1>1, <1>2, <1>4
<1> QED BY <1>2, <1>3, <1>5

\* What is still held is as it was, when nothing held was queued, told or expired.
LEMMA StillTakenOnce ==
  ASSUME IInv, NEW r \in Receivers, hand[r] # None,
         taken' = taken \ {hand[r]},
         hand' = [hand EXCEPT ![r] = None],
         IsInjective(queue'), Queued' \subseteq Queued \cup {hand[r]},
         told' = told,
         \A o \in Offers : slot'[o] = slot[o] \/ o = hand[r]
  PROVE  TakenOnce'
<1>1. \A s \in Receivers : hand'[s] # None => hand'[s] \notin Queued'
  <2>1. \A s \in Receivers : hand[s] \notin Queued
    BY DEF IInv, TakenOnce
  <2>2. \A s \in Receivers : hand'[s] # None => hand'[s] = hand[s] /\ hand[s] # hand[r]
    BY HandEmptied
  <2> QED BY <2>1, <2>2
<1>2. None \notin Queued'
  <2>1. Queued \subseteq Offers /\ hand[r] \in Offers
    BY DEF IInv, TypeOK, Queued, ToSet
  <2> QED BY <2>1, InboxAssumption
<1>3. \A s \in Receivers :
        hand'[s] # None => told'[hand'[s]] \notin {Withdrawn, Expired} /\ slot'[hand'[s]] # Expired
  BY HandEmptied DEF IInv, TypeOK, TakenOnce
<1> QED BY <1>1, <1>2, <1>3, HandEmptied DEF TakenOnce

\* A receiver lets go of its message, whose reply, if the inbox has it, leaves.
LEMMA HandOverKeeps ==
  ASSUME IInv, NEW r \in Receivers, hand[r] # None, NEW answer \in Answers,
         replying' = Replying(hand[r], answer),
         taken' = taken \ {hand[r]},
         hand' = [hand EXCEPT ![r] = None],
         answered' \subseteq [message : Offers, by : Receivers],
         UNCHANGED <<closed, arrivals, queue, senders, receiver>>
  PROVE  IInv'
<1>1. PICK o \in Offers : o = hand[r]
  BY DEF IInv, TypeOK
<1>2. Queued' = Queued
  BY DEF Queued
<1>3. TakenOnce' /\ HeldWasSent'
  <2>1. IsInjective(queue')
    BY DEF IInv, TakenOnce
  <2>2. TakenOnce'
    BY <2>1, <1>2, StillTakenOnce DEF senders
  <2>3. HeldWasSent'
    BY HandEmptied DEF IInv, HeldWasSent, senders
  <2> QED BY <2>2, <2>3
<1>4. CASE o \in taken
  <2> DEFINE new == [to |-> o, answer |-> answer]
  <2>1. replying' = replying \cup {new} /\ new \in Replies /\ new.to = o
    BY <1>1, <1>4 DEF Replying, Replies
  <2>2. o \notin Queued /\ slot[o] = Nothing /\ sender[o] \notin {"idle", "told"}
          /\ \A reply \in replying : reply.to # o
    BY <1>4 DEF IInv, OneReply, OneReplyTo, InQueue, InTaken, InTransit, Arrived
  <2> HIDE DEF new
  <2>3. TypeOK'
    BY <2>1, <1>1 DEF IInv, TypeOK, senders
  <2>4. OneReply'
    <3>1. \A m, n \in replying' : m.to = n.to => m = n
      BY <2>1, <2>2 DEF IInv, OneReply
    <3>2. ASSUME NEW q \in Offers, q # o PROVE OneReplyTo(q)'
      BY <3>2, <2>1, <1>1, <1>2
         DEF IInv, senders, OneReply, OneReplyTo, InQueue, InTaken, InTransit, Arrived
    <3>3. OneReplyTo(o)'
      BY <2>1, <2>2, <1>1, <1>2
         DEF IInv, senders, OneReply, OneReplyTo, InQueue, InTaken, InTransit, Arrived
    <3> QED BY <3>1, <3>2, <3>3 DEF OneReply
  <2> QED BY <2>3, <2>4, <1>3 DEF IInv
<1>5. CASE o \notin taken
  <2>1. replying' = replying /\ taken' = taken
    BY <1>1, <1>5 DEF Replying
  <2>2. TypeOK' /\ OneReply'
    BY <2>1, <1>2 DEF IInv, TypeOK, senders, OneReply, OneReplyTo, InQueue, InTaken,
                      InTransit, Arrived
  <2> QED BY <2>2, <1>3 DEF IInv
<1> QED BY <1>4, <1>5

LEMMA ReleaseKeeps ==
  ASSUME IInv, NEW r \in Receivers, Release(r)
  PROVE  IInv'
<1>1. PICK o \in Offers : o = hand[r]
  BY DEF IInv, TypeOK, Release
<1>2. /\ taken' = taken \ {o}
      /\ hand' = [hand EXCEPT ![r] = None]
      /\ o # None /\ o \notin Queued
      /\ UNCHANGED <<closed, arrivals, answered, replying, due, sender, told>>
  BY <1>1 DEF IInv, TakenOnce, Release
<1>3. o \in taken => slot[o] = Nothing /\ sender[o] \notin {"idle", "told"}
                       /\ \A reply \in replying : reply.to # o
  BY DEF IInv, OneReply, OneReplyTo, InQueue, InTaken, InTransit, Arrived
<1>4. HeldWasSent'
  BY <1>1, <1>2 DEF IInv, TypeOK, HeldWasSent
<1>5. CASE o \notin taken /\ UNCHANGED <<queue, slot, asleep, receiver>>
  <2>1. Queued' = Queued /\ taken' = taken
    BY <1>2, <1>5 DEF Queued
  <2>2. TypeOK' /\ OneReply'
    BY <2>1, <1>2, <1>5 DEF IInv, TypeOK, OneReply, OneReplyTo, InQueue, InTaken,
                            InTransit, Arrived
  <2>3. TakenOnce'
    BY <2>1, <1>1, <1>2, <1>5, StillTakenOnce DEF IInv, TakenOnce
  <2> QED BY <2>2, <2>3, <1>4 DEF IInv
<1>6. CASE /\ o \in taken
           /\ slot' = [slot EXCEPT ![o] = Expired]
           /\ asleep' = asleep \ {o}
           /\ UNCHANGED <<queue, receiver>>
  <2>1. Queued' = Queued
    BY <1>6 DEF Queued
  <2>2. TypeOK'
    BY <1>2, <1>6 DEF IInv, TypeOK, Slots
  <2>3. OneReply'
    BY <2>1, <1>2, <1>3, <1>6, OutcomeTypes
       DEF IInv, TypeOK, OneReply, OneReplyTo, InQueue, InTaken, InTransit, Arrived
  <2>4. TakenOnce'
    <3>1. \A q \in Offers : slot'[q] = slot[q] \/ q = o
      BY <1>6 DEF IInv, TypeOK
    <3> QED BY <3>1, <2>1, <1>1, <1>2, <1>6, StillTakenOnce DEF IInv, TakenOnce
  <2> QED BY <2>2, <2>3, <2>4, <1>4 DEF IInv
<1>7. CASE /\ o \in taken
           /\ queue' = Restored(o)
           /\ Notify
           /\ UNCHANGED <<slot, asleep>>
  <2>1. /\ queue' \in Seq(Offers)
        /\ IsInjective(queue')
        /\ Queued' = Queued \cup {o}
    BY <1>2, <1>7, RestoredOne DEF Queued
  <2>2. TypeOK'
    BY <2>1, <1>2, <1>7, WokenType DEF IInv, TypeOK, Notify
  <2>3. OneReply'
    BY <2>1, <1>2, <1>3, <1>7
       DEF IInv, TypeOK, OneReply, OneReplyTo, InQueue, InTaken, InTransit, Arrived
  <2>4. TakenOnce'
    BY <2>1, <1>1, <1>2, <1>7, StillTakenOnce
  <2> QED BY <2>2, <2>3, <2>4, <1>4 DEF IInv
<1> QED BY <1>1, <1>5, <1>6, <1>7 DEF Release

LEMMA CloseKeeps ==
  ASSUME IInv, NEW why \in Reasons, Close(why)
  PROVE  IInv'
<1> DEFINE told_(o) == [to |-> o, answer |-> Closed(why)]
           new == {told_(o) : o \in Queued \cup taken}
<1>1. queue' = <<>> /\ queue' \in Seq(Offers) /\ Queued' = {} /\ taken' = {}
  BY DEF Close, Queued, ToSet
<1>2. replying' = replying \cup new
  BY DEF Close
<1>3. \A m \in new : m.to \in Queued \cup taken /\ m = told_(m.to)
  OBVIOUS
<1>4. Queued \cup taken \subseteq Offers
  BY DEF IInv, TypeOK, Queued, ToSet
<1>5. new \subseteq Replies
  BY <1>4, OutcomeTypes DEF Replies
<1>6. \A o \in Queued \cup taken : told_(o) \in new /\ told_(o).to = o
  OBVIOUS
<1> HIDE DEF new, told_
<1>7. TypeOK'
  BY <1>1, <1>2, <1>5, WokenType DEF IInv, TypeOK, Close, Notify, senders
<1>8. OneReply'
  <2>1. \A m \in replying : m.to \notin Queued \cup taken
    BY DEF IInv, TypeOK, Replies, OneReply, OneReplyTo, InQueue, InTaken, InTransit
  <2>2. \A m, n \in replying' : m.to = n.to => m = n
    BY <2>1, <1>2, <1>3 DEF IInv, OneReply
  <2>3. ASSUME NEW o \in Offers PROVE OneReplyTo(o)'
    <3>1. InTransit(o)' <=> InTransit(o) \/ o \in Queued \cup taken
      BY <1>2, <1>3, <1>6 DEF InTransit
    <3> QED BY <3>1, <1>1 DEF IInv, Close, senders, OneReply, OneReplyTo, InQueue, InTaken, Arrived
  <2> QED BY <2>2, <2>3 DEF OneReply
<1>9. TakenOnce' /\ HeldWasSent'
  BY <1>1 DEF IInv, Close, senders, TakenOnce, HeldWasSent, IsInjective
<1> QED BY <1>7, <1>8, <1>9 DEF IInv

LEMMA DeliverKeeps ==
  ASSUME IInv, NEW reply \in replying, Deliver(reply)
  PROVE  IInv'
<1>1. PICK o \in Offers : o = reply.to /\ reply.answer \in Answers
  BY DEF IInv, TypeOK, Replies
<1>2. o \notin Queued /\ o \notin taken /\ slot[o] = Nothing /\ sender[o] \notin {"idle", "told"}
  BY <1>1 DEF IInv, OneReply, OneReplyTo, InQueue, InTaken, InTransit, Arrived
<1>3. \A m \in replying' : m \in replying /\ m.to # o
  BY <1>1 DEF IInv, OneReply, Deliver
<1>4. slot' = [slot EXCEPT ![o] = reply.answer] /\ asleep' = asleep \ {o} /\ Queued' = Queued
  BY <1>1 DEF Deliver, inbox, Queued
<1>5. reply.answer \notin {Nothing, Expired}
  BY <1>1, OutcomeTypes
<1>6. TypeOK'
  BY <1>1, <1>4 DEF IInv, TypeOK, Deliver, inbox, Slots
<1>7. OneReply'
  <2>1. ASSUME NEW q \in Offers, q # o PROVE OneReplyTo(q)'
    BY <2>1, <1>1, <1>4 DEF IInv, TypeOK, Deliver, inbox, OneReply, OneReplyTo, InQueue, InTaken,
                       InTransit, Arrived
  <2>2. OneReplyTo(o)'
    BY <1>2, <1>3, <1>4, <1>5 DEF IInv, TypeOK, Deliver, inbox, OneReply, OneReplyTo, InQueue,
                                  InTaken, InTransit, Arrived
  <2>3. \A m, n \in replying' : m.to = n.to => m = n
    BY DEF IInv, OneReply, Deliver
  <2> QED BY <2>1, <2>2, <2>3 DEF OneReply
<1>8. TakenOnce'
  BY <1>4, <1>5 DEF IInv, TypeOK, Deliver, inbox, TakenOnce
<1>9. HeldWasSent'
  BY DEF IInv, Deliver, inbox, HeldWasSent
<1> QED BY <1>6, <1>7, <1>8, <1>9 DEF IInv

----------------------------------------------------------------------------
LEMMA SenderStepKeeps ==
  ASSUME IInv, NEW o \in Offers, SenderStep(o)
  PROVE  IInv'
<1>1. CASE Withdraw(o)
  BY <1>1, GiveBackKeeps DEF Withdraw
<1>2. CASE \E how \in {"waiting", "timed", "dropped"} : Await(o, how)
  <2>1. PICK how \in {"waiting", "timed", "dropped"} : Await(o, how)
    BY <1>2
  <2>2. due' \in [Offers -> {"none", "set", "passed"}]
    BY <2>1 DEF Await, IInv, TypeOK
  <2>3. asleep' \subseteq {q \in Offers : sender'[q] \in {"waiting", "timed", "overdue"}}
    BY <2>1 DEF Await, IInv, TypeOK
  <2> QED BY <2>1, <2>2, <2>3, SenderMovesKeeps DEF Await, SenderStates
<1>3. CASE Sleep(o)
  <2>1. sender' = [sender EXCEPT ![o] = sender[o]] /\ due' = due
    BY <1>3 DEF Sleep, IInv, TypeOK
  <2>2. asleep' \subseteq {q \in Offers : sender'[q] \in {"waiting", "timed", "overdue"}}
    BY <1>3 DEF Sleep, IInv, TypeOK
  <2>3. /\ sender[o] \in SenderStates \ {"idle", "told"}
        /\ due' \in [Offers -> {"none", "set", "passed"}]
        /\ UNCHANGED <<inbox, replying, slot, told, receiver, hand>>
    BY <1>3 DEF Sleep, SenderStates, IInv, TypeOK
  <2> QED BY <2>1, <2>2, <2>3, SenderMovesKeeps
<1>4. CASE Lapse(o)
  <2>1. asleep' \subseteq {q \in Offers : sender'[q] \in {"waiting", "timed", "overdue"}}
    BY <1>4 DEF Lapse, IInv, TypeOK
  <2> QED BY <1>4, <2>1, SenderMovesKeeps DEF Lapse, SenderStates, IInv, TypeOK
<1>5. CASE WithdrawLapsed(o)
  <2>1. CASE GiveBack(o, Expired)
    BY <1>5, <2>1, GiveBackKeeps DEF WithdrawLapsed
  <2>2. CASE sender' = [sender EXCEPT ![o] = "overdue"]
              /\ UNCHANGED <<inbox, replying, slot, due, told, receiver, hand, asleep>>
    <3>1. asleep' \subseteq {q \in Offers : sender'[q] \in {"waiting", "timed", "overdue"}}
      BY <2>2 DEF IInv, TypeOK
    <3> QED BY <1>5, <2>2, <3>1, SenderMovesKeeps DEF WithdrawLapsed, SenderStates, IInv, TypeOK
  <2> QED BY <1>5, <2>1, <2>2 DEF WithdrawLapsed
<1> QED BY <1>1, <1>2, <1>3, <1>4, <1>5, OfferKeeps, OfferRefusedKeeps, LearnKeeps DEF SenderStep

LEMMA DeadlinePassesKeeps ==
  ASSUME IInv, NEW o \in Offers, DeadlinePasses(o)
  PROVE  IInv'
<1>1. /\ receiver' \in [Receivers -> ReceiverStates]
      /\ due' \in [Offers -> {"none", "set", "passed"}]
      /\ asleep' \subseteq asleep
  BY DEF DeadlinePasses, IInv, TypeOK
<1> QED BY <1>1, QuietKeeps DEF DeadlinePasses

LEMMA ReceiverStepKeeps ==
  ASSUME IInv, NEW r \in Receivers, ReceiverStep(r)
  PROVE  IInv'
<1>1. CASE Take(r)
  BY <1>1, TakeKeeps
<1>2. CASE Block(r) \/ TakeNothing(r) \/ TakeTimesOut(r)
  <2>1. receiver' \in [Receivers -> ReceiverStates]
    BY <1>2 DEF Block, TakeNothing, TakeTimesOut, IInv, TypeOK, ReceiverStates
  <2>2. UNCHANGED <<inbox, replying, senders, hand>>
    BY <1>2 DEF Block, TakeNothing, TakeTimesOut
  <2>3. due' \in [Offers -> {"none", "set", "passed"}] /\ asleep' \subseteq asleep
    BY <2>2 DEF senders, IInv, TypeOK
  <2> QED BY <2>1, <2>2, <2>3, QuietKeeps DEF senders
<1>3. CASE Answer(r)
  <2>1. answered' \subseteq [message : Offers, by : Receivers]
    BY <1>3 DEF Answer, IInv, TypeOK
  <2> QED BY <1>3, <2>1, OutcomeTypes, HandOverKeeps DEF Answer
<1>4. CASE Drop(r)
  <2>1. answered' \subseteq [message : Offers, by : Receivers]
    BY <1>4 DEF Drop, IInv, TypeOK
  <2> QED BY <1>4, <2>1, OutcomeTypes, HandOverKeeps DEF Drop
<1>5. CASE Release(r)
  BY <1>5, ReleaseKeeps
<1> QED BY <1>1, <1>2, <1>3, <1>4, <1>5 DEF ReceiverStep

LEMMA NextInv == IInv /\ [Next]_vars => IInv'
<1> SUFFICES ASSUME IInv, [Next]_vars PROVE IInv'
  OBVIOUS
<1>1. CASE UNCHANGED vars
  BY <1>1, QuietKeeps DEF vars, inbox, IInv, TypeOK
<1>2. ASSUME NEW o \in Offers, SenderStep(o) PROVE IInv'
  BY <1>2, SenderStepKeeps
<1>3. ASSUME NEW o \in Offers, DeadlinePasses(o) PROVE IInv'
  BY <1>3, DeadlinePassesKeeps
<1>4. ASSUME NEW r \in Receivers, ReceiverStep(r) PROVE IInv'
  BY <1>4, ReceiverStepKeeps
<1>5. ASSUME NEW why \in Reasons, Close(why) PROVE IInv'
  BY <1>5, CloseKeeps
<1>6. ASSUME NEW reply \in replying, Deliver(reply) PROVE IInv'
  BY <1>6, DeliverKeeps
<1> QED BY <1>1, <1>2, <1>3, <1>4, <1>5, <1>6 DEF Next

\* The invariant, of every behaviour of the inbox.
THEOREM Invariance == Spec => []IInv
BY InitInv, NextInv, PTL DEF Spec

\* Every variable keeps its type, for every set of senders and receivers.
THEOREM TypeCorrect == Spec => []TypeOK
<1>1. IInv => TypeOK
  BY DEF IInv
<1> QED BY <1>1, Invariance, PTL

\* The way back to a message's sender is in one place until the sender is told:
\* `close`, `answer`, `release`, a dropped claim and a withdrawal never lose it
\* or use it twice, in whatever order their critical sections fall.
THEOREM RepliesAreInOnePlace == Spec => []OneReply
<1>1. IInv => OneReply
  BY DEF IInv
<1> QED BY <1>1, Invariance, PTL

\* No message is in two receivers' hands, in a hand and the queue, or in a hand
\* after its sender took it back: what `Shared::withdraw` and the takes promise.
THEOREM MessagesAreTakenOnce == Spec => []TakenOnce
<1>1. IInv => TakenOnce
  BY DEF IInv
<1> QED BY <1>1, Invariance, PTL

----------------------------------------------------------------------------
(* Deadlines. *)

\* Past its deadline a sender is past it for good, and its message out of the queue.
OverdueInv ==
  /\ \A o \in Offers : sender[o] \in {"expiring", "overdue"} => due[o] = "passed"
  /\ OverdueNeverQueued

LEMMA OverdueNext == IInv /\ OverdueInv /\ [Next]_vars => OverdueInv'
<1> SUFFICES ASSUME IInv, OverdueInv, [Next]_vars, NEW q \in Offers
             PROVE  /\ sender'[q] \in {"expiring", "overdue"} => due'[q] = "passed"
                    /\ sender'[q] = "overdue" => q \notin Queued'
  BY DEF OverdueInv, OverdueNeverQueued
<1>0. /\ sender[q] \in {"expiring", "overdue"} => due[q] = "passed"
      /\ sender[q] = "overdue" => q \notin Queued
      /\ sender \in [Offers -> SenderStates] /\ due \in [Offers -> {"none", "set", "passed"}]
  BY DEF IInv, TypeOK, OverdueInv, OverdueNeverQueued
<1>1. queue' = queue => Queued' = Queued
  BY DEF Queued
<1>2. CASE UNCHANGED vars
  BY <1>0, <1>1, <1>2 DEF vars
<1>3. ASSUME NEW o \in Offers, Offer(o) PROVE ~(sender'[q] \in {"expiring", "overdue"} /\ q = o)
                                              /\ Queued' = Queued \cup {o}
  <2>1. o \notin Queued
    BY <1>3, NoReplyLeft DEF Offer
  <2> QED BY <1>0, <1>3, <2>1, AppendOnce, QueueIsInjective DEF Offer, IInv, TypeOK, Queued
<1>4. ASSUME NEW o \in Offers, NEW what, GiveBack(o, what)
      PROVE  Queued' = Queued \ {o} /\ sender' = [sender EXCEPT ![o] = "told"] /\ due' = due
  BY <1>4, WithoutOne DEF GiveBack, Tell, Queued
<1>5. ASSUME NEW r \in Receivers, Take(r)
      PROVE  Queued' \subseteq Queued /\ sender' = sender /\ due' = due
  <2>1. queue' = RemoveAt(queue, FirstFor(r)) /\ FirstFor(r) \in 1..Len(queue)
    BY <1>5, FirstIsQueued DEF Take
  <2> QED BY <1>5, <2>1, RemoveAtOnce, QueueIsInjective DEF Take, senders, IInv, TypeOK, Queued
<1>6. ASSUME NEW o \in Offers, SenderStep(o)
      PROVE  /\ sender'[q] \in {"expiring", "overdue"} => due'[q] = "passed"
             /\ sender'[q] = "overdue" => q \notin Queued'
  <2>1. CASE Offer(o)
    BY <2>1, <1>0, <1>3 DEF Offer
  <2>2. CASE OfferRefused(o) \/ Learn(o)
    BY <2>2, <1>0, <1>1 DEF OfferRefused, Learn, Tell, inbox
  <2>3. CASE Withdraw(o)
    BY <2>3, <1>0, <1>4 DEF Withdraw
  <2>4. CASE \E how \in {"waiting", "timed", "dropped"} : Await(o, how)
    BY <2>4, <1>0, <1>1 DEF Await, inbox
  <2>5. CASE Sleep(o) \/ Lapse(o)
    BY <2>5, <1>0, <1>1 DEF Sleep, Lapse, inbox
  <2>6. CASE WithdrawLapsed(o)
    BY <2>6, <1>0, <1>1, <1>4 DEF WithdrawLapsed, inbox
  <2> QED BY <1>6, <2>1, <2>2, <2>3, <2>4, <2>5, <2>6 DEF SenderStep
<1>7. ASSUME NEW o \in Offers, DeadlinePasses(o)
      PROVE  /\ sender'[q] \in {"expiring", "overdue"} => due'[q] = "passed"
             /\ sender'[q] = "overdue" => q \notin Queued'
  BY <1>7, <1>0, <1>1 DEF DeadlinePasses, inbox
<1>8. ASSUME NEW r \in Receivers, ReceiverStep(r)
      PROVE  /\ sender'[q] \in {"expiring", "overdue"} => due'[q] = "passed"
             /\ sender'[q] = "overdue" => q \notin Queued'
  <2>1. CASE Take(r)
    BY <2>1, <1>0, <1>5
  <2>2. CASE Block(r) \/ TakeNothing(r) \/ TakeTimesOut(r) \/ Answer(r) \/ Drop(r)
    BY <2>2, <1>0, <1>1 DEF Block, TakeNothing, TakeTimesOut, Answer, Drop, inbox, senders
  <2>3. CASE Release(r)
    <3>1. CASE hand[r] \in taken /\ due[hand[r]] # "passed"
      <4>1. hand[r] \in Offers /\ hand[r] \notin Queued
        BY <2>3 DEF Release, IInv, TypeOK, TakenOnce
      <4>2. Queued' = Queued \cup {hand[r]} /\ sender' = sender /\ due' = due
        BY <2>3, <3>1, <4>1, RestoredOne DEF Release, Queued
      <4> QED BY <1>0, <3>1, <4>2
    <3>2. CASE ~(hand[r] \in taken /\ due[hand[r]] # "passed")
      BY <2>3, <3>2, <1>0, <1>1 DEF Release
    <3> QED BY <3>1, <3>2
  <2> QED BY <1>8, <2>1, <2>2, <2>3 DEF ReceiverStep
<1>9. ASSUME NEW why \in Reasons, Close(why)
      PROVE  Queued' = {} /\ sender' = sender /\ due' = due
  BY <1>9 DEF Close, senders, Queued, ToSet
<1>10. ASSUME NEW reply \in replying, Deliver(reply)
       PROVE  Queued' = Queued /\ sender' = sender /\ due' = due
  BY <1>10, <1>1 DEF Deliver, inbox
<1> QED BY <1>0, <1>2, <1>6, <1>7, <1>8, <1>9, <1>10 DEF Next

\* A sender past its deadline never meets its message in the queue again: of a
\* `wait_until` and a `release`, whichever comes second withdraws the message.
THEOREM OverdueStaysWithdrawn == Spec => []OverdueNeverQueued
<1>1. Init => OverdueInv
  BY DEF Init, OverdueInv, OverdueNeverQueued
<1>2. OverdueInv => OverdueNeverQueued
  BY DEF OverdueInv
<1> QED BY <1>1, <1>2, OverdueNext, Invariance, PTL DEF Spec
----------------------------------------------------------------------------
(* What senders are told. *)

\* An outcome that is what happened to o.
Real(o, what) ==
  /\ what.is = "answered" => [message |-> o, by |-> what.by] \in answered
  /\ what.is = "closed" => what.why \in {closed, LetGo}

\* Every outcome on its way to a sender, in its ticket or told is what happened; a message
\* that was answered is nowhere it could still be withdrawn from.
HappenedInv ==
  /\ \A o \in Offers : Real(o, told[o]) /\ Real(o, slot[o])
  /\ \A reply \in replying : Real(reply.to, reply.answer)
  /\ \A a \in answered :
       /\ a.message \notin Queued /\ a.message \notin taken /\ sender[a.message] # "idle"
       /\ slot[a.message] # Expired /\ told[a.message] \notin {Withdrawn, Expired}

LEMMA RealStays ==
  ASSUME IInv, answered \subseteq answered', closed' = closed \/ closed = Open,
         NEW o \in Offers, NEW what \in Tellings, Real(o, what)
  PROVE  /\ what.is = "answered" => [message |-> o, by |-> what.by] \in answered'
         /\ what.is = "closed" => what.why \in {closed', LetGo}
<1>1. what.is = "closed" => \E why \in Reasons \cup {LetGo} : what = Closed(why)
  BY DEF Tellings, Slots, Answers, Answered, Nothing, Expired, Withdrawn
<1>2. what.is = "closed" => what.why # Open
  <2> SUFFICES ASSUME what.is = "closed" PROVE what.why # Open
    OBVIOUS
  <2>1. PICK why \in Reasons \cup {LetGo} : what = Closed(why)
    BY <1>1
  <2>2. what.why = why
    BY <2>1 DEF Closed
  <2> QED BY <2>2, InboxAssumption
<1> QED BY <1>2 DEF Real

\* Steps but an answer: where an outcome comes from.
LEMMA HappenedKept ==
  ASSUME IInv, IInv', HappenedInv, answered' = answered, closed' = closed \/ closed = Open,
         \A o \in Offers : o \in Queued' => o \in Queued \/ o \in taken \/ sender[o] = "idle",
         \A o \in Offers : o \in taken' => o \in taken \/ o \in Queued,
         \A o \in Offers : sender'[o] = "idle" => sender[o] = "idle",
         \A o \in Offers : \/ told'[o] \in {told[o], slot[o], Closed(closed')}
                           \/ told'[o] \in {Withdrawn, Expired} /\ o \in Queued,
         \A o \in Offers : \/ slot'[o] \in {slot[o], Nothing}
                           \/ slot'[o] = Expired /\ o \in taken
                           \/ \E m \in replying : m.to = o /\ slot'[o] = m.answer,
         \A m \in replying' : m \in replying \/ m.answer \in {Closed(LetGo), Closed(closed')}
  PROVE  HappenedInv'
<1>1. /\ \A o \in Offers : told[o] \in Tellings /\ slot[o] \in Tellings
      /\ \A m \in replying : m.to \in Offers /\ m.answer \in Answers /\ m.answer \in Tellings
      /\ \A m \in replying' : m.to \in Offers
  BY DEF IInv, TypeOK, Tellings, Slots, Replies
<1>2. \A why : Closed(why).is = "closed" /\ Closed(why).why = why
  BY DEF Closed
<1>3. /\ Nothing.is \notin {"answered", "closed"} /\ Expired.is \notin {"answered", "closed"}
      /\ Withdrawn.is \notin {"answered", "closed"}
  BY DEF Nothing, Expired, Withdrawn
<1>4. ASSUME NEW o \in Offers PROVE Real(o, told[o])'
  <2>1. CASE told'[o] \in {told[o], slot[o]}
    BY <1>1, <2>1, RealStays DEF HappenedInv, Real
  <2>2. CASE told'[o] = Closed(closed')
    BY <1>2, <2>2 DEF Real
  <2>3. CASE told'[o] \in {Withdrawn, Expired}
    BY <1>3, <2>3 DEF Real
  <2> QED BY <2>1, <2>2, <2>3
<1>5. ASSUME NEW o \in Offers PROVE Real(o, slot[o])'
  <2>1. CASE slot'[o] = slot[o]
    BY <1>1, <2>1, RealStays DEF HappenedInv, Real
  <2>2. CASE slot'[o] \in {Nothing, Expired}
    BY <1>3, <2>2 DEF Real
  <2>3. CASE \E m \in replying : m.to = o /\ slot'[o] = m.answer
    <3>1. PICK m \in replying : m.to = o /\ slot'[o] = m.answer
      BY <2>3
    <3>2. Real(o, m.answer)
      BY <3>1 DEF HappenedInv
    <3> QED BY <1>1, <3>1, <3>2, RealStays DEF Real
  <2> QED BY <2>1, <2>2, <2>3
<1>6. ASSUME NEW m \in replying' PROVE Real(m.to, m.answer)'
  <2>1. CASE m \in replying
    <3>1. Real(m.to, m.answer)
      BY <2>1 DEF HappenedInv
    <3> QED BY <1>1, <2>1, <3>1, RealStays DEF Real
  <2>2. CASE m.answer \in {Closed(LetGo), Closed(closed')}
    BY <1>2, <2>2 DEF Real
  <2> QED BY <2>1, <2>2
<1>7. ASSUME NEW a \in answered'
      PROVE  /\ a.message \notin Queued' /\ a.message \notin taken' /\ sender'[a.message] # "idle"
             /\ slot'[a.message] # Expired /\ told'[a.message] \notin {Withdrawn, Expired}
  <2>1. PICK o \in Offers : o = a.message
    BY DEF IInv, TypeOK
  <2>2. /\ o \notin Queued /\ o \notin taken /\ sender[o] # "idle"
        /\ slot[o] # Expired /\ told[o] \notin {Withdrawn, Expired}
    BY <2>1 DEF HappenedInv
  <2>3. slot'[o] # Expired
    BY <1>1, <2>2, OutcomeTypes
  <2>4. slot[o] # Withdrawn
    BY OutcomeTypes DEF IInv, TypeOK, Slots
  <2>5. Closed(closed') \notin {Withdrawn, Expired}
    BY <1>2 DEF Withdrawn, Expired
  <2> QED BY <2>1, <2>2, <2>3, <2>4, <2>5
<1> QED BY <1>4, <1>5, <1>6, <1>7 DEF HappenedInv

LEMMA AnswerHappened ==
  ASSUME IInv, IInv', HappenedInv, NEW r \in Receivers, Answer(r)
  PROVE  HappenedInv'
<1> DEFINE o == hand[r] new == [message |-> o, by |-> r] reply == [to |-> o, answer |-> Answered(r)]
<1>1. /\ o \in Offers /\ o \notin Queued /\ sender[o] # "idle" /\ slot[o] # Expired
      /\ told[o] \notin {Withdrawn, Expired}
  BY InboxAssumption DEF Answer, IInv, TypeOK, TakenOnce, HeldWasSent
<1>2. /\ answered' = answered \cup {new} /\ taken' = taken \ {o}
      /\ \A m \in replying' : m \in replying \/ m = reply
      /\ UNCHANGED <<closed, queue, slot, sender, told>>
  BY DEF Answer, Replying, senders
<1>3. /\ new.message = o /\ new.by = r /\ reply.to = o /\ reply.answer = Answered(r)
      /\ Answered(r).is = "answered" /\ Answered(r).by = r
  BY DEF Answered
<1>4. /\ \A q \in Offers : told[q] \in Tellings /\ slot[q] \in Tellings
      /\ \A m \in replying : m.to \in Offers /\ m.answer \in Tellings
  BY DEF IInv, TypeOK, Tellings, Slots, Replies
<1>5. \A q \in Offers : Real(q, told[q])' /\ Real(q, slot[q])'
  BY <1>2, <1>4, RealStays DEF HappenedInv, Real
<1>6. ASSUME NEW m \in replying' PROVE Real(m.to, m.answer)'
  <2>1. CASE m \in replying
    <3>1. Real(m.to, m.answer)
      BY <2>1 DEF HappenedInv
    <3> QED BY <1>2, <1>4, <2>1, <3>1, RealStays DEF Real
  <2>2. CASE m = reply
    BY <1>2, <1>3, <2>2 DEF Real
  <2> QED BY <1>2, <2>1, <2>2
<1>7. Queued' = Queued
  BY <1>2 DEF Queued
<1> HIDE DEF o, new, reply
<1>8. ASSUME NEW a \in answered'
      PROVE  /\ a.message \notin Queued' /\ a.message \notin taken' /\ sender'[a.message] # "idle"
             /\ slot'[a.message] # Expired /\ told'[a.message] \notin {Withdrawn, Expired}
  BY <1>1, <1>2, <1>3, <1>7 DEF HappenedInv
<1> QED BY <1>5, <1>6, <1>8 DEF HappenedInv

LEMMA HappenedNext == IInv /\ IInv' /\ HappenedInv /\ [Next]_vars => HappenedInv'
<1> SUFFICES ASSUME IInv, IInv', HappenedInv, [Next]_vars PROVE HappenedInv'
  OBVIOUS
<1>1. /\ sender \in [Offers -> SenderStates] /\ told \in [Offers -> Tellings]
      /\ slot \in [Offers -> Slots]
  BY DEF IInv, TypeOK
<1>2. queue' = queue => Queued' = Queued
  BY DEF Queued
<1>3. CASE UNCHANGED vars
  BY <1>2, <1>3, HappenedKept DEF vars
<1>4. ASSUME NEW o \in Offers, Offer(o) PROVE HappenedInv'
  <2>1. sender[o] = "idle" /\ o \notin Queued
    BY <1>4, NoReplyLeft DEF Offer
  <2>2. Queued' = Queued \cup {o}
    BY <1>4, <2>1, AppendOnce, QueueIsInjective DEF Offer, IInv, TypeOK, Queued
  <2>3. \A q \in Offers : sender'[q] = "idle" => sender[q] = "idle"
    BY <1>1, <1>4 DEF Offer
  <2> QED BY <1>4, <2>1, <2>2, <2>3, HappenedKept DEF Offer
<1>5. ASSUME NEW o \in Offers, NEW what \in {Withdrawn, Expired}, GiveBack(o, what)
      PROVE  HappenedInv'
  <2>1. Queued' = Queued \ {o} /\ o \in Queued
    BY <1>5, WithoutOne DEF GiveBack, Queued
  <2>2. /\ \A q \in Offers : sender'[q] = "idle" => sender[q] = "idle"
        /\ \A q \in Offers : told'[q] = told[q] \/ q = o
        /\ told'[o] = what
    BY <1>1, <1>5 DEF GiveBack, Tell
  <2> QED BY <1>5, <2>1, <2>2, HappenedKept DEF GiveBack
<1>6. ASSUME NEW o \in Offers, SenderStep(o) PROVE HappenedInv'
  <2>1. CASE OfferRefused(o)
    <3>1. /\ \A q \in Offers : sender'[q] = "idle" => sender[q] = "idle"
          /\ \A q \in Offers : told'[q] \in {told[q], Closed(closed')}
      BY <1>1, <2>1 DEF OfferRefused, Tell, inbox
    <3> QED BY <1>2, <2>1, <3>1, HappenedKept DEF OfferRefused, inbox
  <2>2. CASE Learn(o)
    <3>1. /\ \A q \in Offers : sender'[q] = "idle" => sender[q] = "idle"
          /\ \A q \in Offers : told'[q] \in {told[q], slot[q]}
          /\ \A q \in Offers : slot'[q] \in {slot[q], Nothing}
      BY <1>1, <2>2 DEF Learn, Tell
    <3> QED BY <1>2, <2>2, <3>1, HappenedKept DEF Learn, inbox
  <2>3. CASE \/ \E how \in {"waiting", "timed", "dropped"} : Await(o, how)
             \/ Sleep(o) \/ Lapse(o)
             \/ sender' = [sender EXCEPT ![o] = "overdue"]
                  /\ UNCHANGED <<inbox, replying, slot, due, told, receiver, hand, asleep>>
    <3>1. /\ \A q \in Offers : sender'[q] = "idle" => sender[q] = "idle"
          /\ UNCHANGED <<inbox, replying, slot, told>>
      BY <1>1, <2>3 DEF Await, Sleep, Lapse
    <3> QED BY <1>2, <3>1, HappenedKept DEF inbox
  <2> QED BY <1>4, <1>5, <1>6, <2>1, <2>2, <2>3 DEF SenderStep, Withdraw, WithdrawLapsed
<1>7. ASSUME NEW o \in Offers, DeadlinePasses(o) PROVE HappenedInv'
  BY <1>2, <1>7, HappenedKept DEF DeadlinePasses, inbox
<1>8. ASSUME NEW r \in Receivers, ReceiverStep(r) PROVE HappenedInv'
  <2>1. CASE Take(r)
    <3>1. queue' = RemoveAt(queue, FirstFor(r)) /\ FirstFor(r) \in 1..Len(queue)
      BY <2>1, FirstIsQueued DEF Take
    <3>2. /\ Queued' = Queued \ {queue[FirstFor(r)]} /\ queue[FirstFor(r)] \in Queued
          /\ taken' = taken \cup {queue[FirstFor(r)]}
      <4>1. queue[FirstFor(r)] \in Queued
        BY <3>1 DEF Queued, ToSet
      <4>2. Queued' = Queued \ {queue[FirstFor(r)]}
        BY <3>1, RemoveAtOnce, QueueIsInjective DEF IInv, TypeOK, Queued
      <4> QED BY <2>1, <4>1, <4>2 DEF Take
    <3> QED BY <2>1, <3>2, HappenedKept DEF Take, senders
  <2>2. CASE Block(r) \/ TakeNothing(r) \/ TakeTimesOut(r)
    <3>1. UNCHANGED <<inbox, replying, senders, hand>>
      BY <2>2 DEF Block, TakeNothing, TakeTimesOut
    <3> QED BY <1>2, <3>1, HappenedKept DEF inbox, senders
  <2>3. CASE Drop(r)
    <3>1. \A m \in replying' : m \in replying \/ m.answer = Closed(LetGo)
      BY <2>3 DEF Drop, Replying
    <3> QED BY <1>2, <2>3, <3>1, HappenedKept DEF Drop, senders
  <2>4. CASE Release(r)
    <3> DEFINE o == hand[r]
    <3>1. /\ o \in Offers /\ o \notin Queued /\ taken' = taken \ {o}
          /\ UNCHANGED <<closed, answered, replying, sender, told>>
      BY <2>4 DEF Release, IInv, TypeOK, TakenOnce
    <3>2. CASE UNCHANGED <<queue, slot>>
      BY <1>2, <3>1, <3>2, HappenedKept
    <3>3. CASE o \in taken /\ slot' = [slot EXCEPT ![o] = Expired] /\ UNCHANGED queue
      <4>1. \A q \in Offers : slot'[q] = slot[q] \/ (slot'[q] = Expired /\ q \in taken)
        BY <1>1, <3>3
      <4> QED BY <1>2, <3>1, <3>3, <4>1, HappenedKept
    <3>4. CASE o \in taken /\ queue' = Restored(o) /\ UNCHANGED slot
      <4>1. Queued' = Queued \cup {o}
        BY <3>1, <3>4, RestoredOne DEF Queued
      <4> HIDE DEF o
      <4> QED BY <3>1, <3>4, <4>1, HappenedKept
    <3> QED BY <2>4, <3>2, <3>3, <3>4 DEF Release
  <2> QED BY <1>8, <2>1, <2>2, <2>3, <2>4, AnswerHappened DEF ReceiverStep
<1>9. ASSUME NEW why \in Reasons, Close(why) PROVE HappenedInv'
  <2>1. Queued' = {} /\ taken' = {}
    BY <1>9 DEF Close, Queued, ToSet
  <2>2. \A m \in replying' : m \in replying \/ m.answer = Closed(closed')
    BY <1>9 DEF Close
  <2> QED BY <1>9, <2>1, <2>2, HappenedKept DEF Close, senders
<1>10. ASSUME NEW reply \in replying, Deliver(reply) PROVE HappenedInv'
  <2>1. \A q \in Offers : slot'[q] = slot[q] \/ (reply.to = q /\ slot'[q] = reply.answer)
    BY <1>1, <1>10 DEF Deliver
  <2> QED BY <1>2, <1>10, <2>1, HappenedKept DEF Deliver, inbox
<1> QED BY <1>3, <1>6, <1>7, <1>8, <1>9, <1>10 DEF Next

\* A sender is told an answer only its receiver gave for this very message, a close only
\* with the reason it was closed for or the claim's, and a withdrawal of nothing answered:
\* whatever crosses `Reply::answer` on its way to the ticket.
THEOREM SendersAreToldTheTruth == Spec => []ToldWhatHappened
<1>1. Init => HappenedInv
  BY DEF Init, HappenedInv, Real, Nothing
<1>2. IInv /\ HappenedInv => ToldWhatHappened
  <2> SUFFICES ASSUME IInv, HappenedInv, NEW o \in Offers
               PROVE  LET what == told[o]
                          byReceivers == {a.by : a \in {b \in answered : b.message = o}}
                      IN /\ what.is = "answered" => what.by \in byReceivers
                         /\ what.is = "closed" => what.why \in {closed, LetGo}
                         /\ what \in {Withdrawn, Expired} => byReceivers = {}
    BY DEF ToldWhatHappened
  <2>1. Real(o, told[o])
    BY DEF HappenedInv
  <2>2. told[o] \in {Withdrawn, Expired} => \A a \in answered : a.message # o
    BY DEF HappenedInv
  <2>3. ASSUME told[o].is = "answered"
        PROVE  told[o].by \in {a.by : a \in {b \in answered : b.message = o}}
    <3> DEFINE a == [message |-> o, by |-> told[o].by]
    <3>1. a \in answered /\ a.message = o /\ a.by = told[o].by
      BY <2>1, <2>3 DEF Real
    <3> HIDE DEF a
    <3> QED BY <3>1
  <2> QED BY <2>1, <2>2, <2>3 DEF Real
<1> QED BY <1>1, <1>2, NextInv, InitInv, HappenedNext, PTL DEF Spec
----------------------------------------------------------------------------
(* The order of the queue. *)

\* Each message arrived once, and before it was queued or taken.
OrderInv ==
  /\ IsInjective(arrivals)
  /\ \A o \in ToSet(arrivals) : sender[o] # "idle"
  /\ Queued \cup taken \subseteq ToSet(arrivals)
  /\ QueueInArrivalOrder

\* A message's id is its place.
PlaceIn(s, o) == LET at == {i \in 1..Len(s) : s[i] = o} IN IF at # {} THEN Min(at) ELSE 0

LEMMA IdIsPlace ==
  /\ \A o : IdOf(o) = PlaceIn(arrivals, o)
  /\ QueueInArrivalOrder <=>
       \A i, j \in 1..Len(queue) :
         i < j => PlaceIn(arrivals, queue[i]) < PlaceIn(arrivals, queue[j])
BY DEF QueueInArrivalOrder, IdOf, SelectInSeq, PlaceIn

LEMMA PlaceOfMember ==
  ASSUME NEW s \in Seq(Offers), IsInjective(s), NEW i \in 1..Len(s)
  PROVE  PlaceIn(s, s[i]) = i
<1> DEFINE I == {j \in 1..Len(s) : s[j] = s[i]}
<1>1. I = {i}
  BY DEF IsInjective
<1>2. PlaceIn(s, s[i]) = Min(I)
  BY <1>1 DEF PlaceIn
<1>3. {i} \subseteq Nat /\ {i} # {}
  OBVIOUS
<1>4. Min({i}) \in {i}
  BY <1>3, MinIsMember
<1> QED BY <1>1, <1>2, <1>4

LEMMA IdOfArrival ==
  ASSUME IInv, OrderInv, NEW i \in 1..Len(arrivals)
  PROVE  IdOf(arrivals[i]) = i
BY IdIsPlace, PlaceOfMember DEF IInv, TypeOK, OrderInv

\* Where a message that was queued or taken arrived.
LEMMA IdOfQueued ==
  ASSUME IInv, OrderInv, NEW o \in Queued \cup taken
  PROVE  IdOf(o) \in 1..Len(arrivals) /\ arrivals[IdOf(o)] = o
<1>1. PICK i \in 1..Len(arrivals) : arrivals[i] = o
  BY DEF OrderInv, ToSet
<1> QED BY <1>1, IdOfArrival

\* Steps that add no arrival, and keep the order of the queue.
LEMMA OrderKept ==
  ASSUME IInv, OrderInv, arrivals' = arrivals,
         \A o \in Offers : sender'[o] = "idle" => sender[o] = "idle",
         Queued' \cup taken' \subseteq Queued \cup taken,
         \A i, j \in 1..Len(queue') : i < j => IdOf(queue'[i]) < IdOf(queue'[j])
  PROVE  OrderInv'
<1>1. \A i, j \in 1..Len(queue') :
        i < j => PlaceIn(arrivals', queue'[i]) < PlaceIn(arrivals', queue'[j])
  BY IdIsPlace
<1>2. QueueInArrivalOrder'
  BY <1>1 DEF QueueInArrivalOrder, IdOf, SelectInSeq, PlaceIn
<1>3. ToSet(arrivals) \subseteq Offers
  BY DEF IInv, TypeOK, ToSet
<1> QED BY <1>2, <1>3 DEF OrderInv

LEMMA OfferInOrder ==
  ASSUME IInv, IInv', OrderInv, NEW o \in Offers, Offer(o)
  PROVE  OrderInv'
<1> DEFINE n == Len(arrivals)
<1>1. /\ sender[o] = "idle" /\ o \notin Queued /\ o \notin ToSet(arrivals)
      /\ arrivals \in Seq(Offers) /\ queue \in Seq(Offers) /\ IsInjective(queue)
      /\ IsInjective(arrivals)
      /\ arrivals' = Append(arrivals, o) /\ queue' = Append(queue, o)
      /\ UNCHANGED taken /\ sender' = [sender EXCEPT ![o] = "offered"]
      /\ sender \in [Offers -> SenderStates]
  BY NoReplyLeft, QueueIsInjective DEF Offer, OrderInv, IInv, TypeOK
<1>2. arrivals' \in Seq(Offers) /\ IsInjective(arrivals') /\ ToSet(arrivals') = ToSet(arrivals) \cup {o}
  BY <1>1, AppendOnce
<1>3. Queued' = Queued \cup {o}
  BY <1>1, AppendOnce DEF Queued
<1>4. /\ n \in Nat /\ Len(arrivals') = n + 1 /\ arrivals'[n + 1] = o
      /\ \A i \in 1..n : arrivals'[i] = arrivals[i]
  BY <1>1, AppendProperties, LenProperties
<1> DEFINE id(q) == PlaceIn(arrivals', q)
<1>5. ASSUME NEW i \in 1..(n + 1) PROVE id(arrivals'[i]) = i
  <2>1. i \in 1..Len(arrivals')
    BY <1>4
  <2> QED BY <1>2, <2>1, PlaceOfMember
<1> HIDE DEF id
<1>6. \A q \in Queued : id(q) = IdOf(q) /\ IdOf(q) \in 1..n
  <2> SUFFICES ASSUME NEW q \in Queued PROVE id(q) = IdOf(q) /\ IdOf(q) \in 1..n
    OBVIOUS
  <2>1. IdOf(q) \in 1..n /\ arrivals[IdOf(q)] = q
    BY IdOfQueued
  <2>2. IdOf(q) \in 1..(n + 1) /\ arrivals'[IdOf(q)] = q
    BY <1>4, <2>1
  <2> QED BY <1>5, <2>1, <2>2
<1>7. id(o) = n + 1
  <2>1. n + 1 \in 1..(n + 1)
    BY <1>4
  <2> QED BY <1>4, <1>5, <2>1
<1>8. QueueInArrivalOrder'
  <2> SUFFICES ASSUME NEW i \in 1..Len(queue'), NEW j \in 1..Len(queue'), i < j
               PROVE  id(queue'[i]) < id(queue'[j])
    BY DEF QueueInArrivalOrder, IdOf, SelectInSeq, PlaceIn, id
  <2> DEFINE k == Len(queue)
  <2>1. /\ k \in Nat /\ Len(queue') = k + 1 /\ queue'[k + 1] = o
        /\ \A h \in 1..k : queue'[h] = queue[h] /\ queue[h] \in Queued
    BY <1>1, AppendProperties, LenProperties DEF Queued, ToSet
  <2>2. \A g, h \in 1..k : g < h => IdOf(queue[g]) < IdOf(queue[h])
    BY DEF OrderInv, QueueInArrivalOrder
  <2> HIDE DEF k, n
  <2>3. CASE j = k + 1
    BY <1>4, <1>6, <1>7, <2>1, <2>3
  <2>4. CASE j \in 1..k
    <3>1. i \in 1..k /\ j \in 1..k
      BY <2>1, <2>4
    <3>2. IdOf(queue[i]) < IdOf(queue[j])
      BY <2>2, <3>1
    <3> QED BY <1>6, <2>1, <3>1, <3>2
  <2> QED BY <2>1, <2>3, <2>4
<1>9. \A q \in ToSet(arrivals') : sender'[q] # "idle"
  BY <1>1, <1>2 DEF OrderInv
<1>10. Queued' \cup taken' \subseteq ToSet(arrivals')
  BY <1>1, <1>2, <1>3 DEF OrderInv
<1> QED BY <1>2, <1>8, <1>9, <1>10 DEF OrderInv

\* A place taken out leaves the others in order.
LEMMA RemovalInOrder ==
  ASSUME IInv, OrderInv, NEW at \in 1..Len(queue)
  PROVE  LET s == RemoveAt(queue, at) IN
         \A i, j \in 1..Len(s) : i < j => IdOf(s[i]) < IdOf(s[j])
<1> DEFINE s == RemoveAt(queue, at) n == Len(queue)
<1>1. queue \in Seq(Offers) /\ n \in Nat /\ at \in 1..n
  BY DEF IInv, TypeOK
<1>2. Len(s) = n - 1 /\ \A i \in 1..(n - 1) : s[i] = IF i < at THEN queue[i] ELSE queue[i + 1]
  BY <1>1, RemoveAtPlaces
<1>3. \A i, j \in 1..n : i < j => IdOf(queue[i]) < IdOf(queue[j])
  BY DEF OrderInv, QueueInArrivalOrder
<1> HIDE DEF s, n
<1>4. ASSUME NEW i \in 1..Len(s), NEW j \in 1..Len(s), i < j
      PROVE  IdOf(s[i]) < IdOf(s[j])
  <2> DEFINE from(k) == IF k < at THEN k ELSE k + 1
  <2>1. from(i) \in 1..n /\ from(j) \in 1..n /\ from(i) < from(j)
    BY <1>1, <1>2, <1>4
  <2>2. s[i] = queue[from(i)] /\ s[j] = queue[from(j)]
    BY <1>1, <1>2, <1>4
  <2> HIDE DEF from
  <2> QED BY <1>3, <2>1, <2>2
<1> QED BY <1>4 DEF s

\* A message that is not queued goes back to its place.
LEMMA RestoredInOrder ==
  ASSUME IInv, OrderInv, NEW o \in taken
  PROVE  LET s == Restored(o) IN
         \A i, j \in 1..Len(s) : i < j => IdOf(s[i]) < IdOf(s[j])
<1> DEFINE s == Restored(o) n == Len(queue) E == Earlier(o) at == 1 + Cardinality(E)
           id(k) == IdOf(queue[k])
<1>1. /\ queue \in Seq(Offers) /\ n \in Nat /\ o \in Offers /\ o \notin Queued
  BY DEF IInv, TypeOK, OneReply, OneReplyTo, InQueue, InTaken
<1>2. \A k \in 1..n : id(k) \in Nat /\ id(k) # IdOf(o)
  <2> SUFFICES ASSUME NEW k \in 1..n PROVE id(k) \in Nat /\ id(k) # IdOf(o)
    OBVIOUS
  <2>1. queue[k] \in Queued /\ queue[k] # o
    BY <1>1 DEF Queued, ToSet
  <2>2. IdOf(queue[k]) \in 1..Len(arrivals) /\ arrivals[IdOf(queue[k])] = queue[k]
    BY <2>1, IdOfQueued
  <2>3. arrivals[IdOf(o)] = o
    BY IdOfQueued
  <2> QED BY <2>1, <2>2, <2>3
<1>3. IdOf(o) \in Nat
  <2>1. IdOf(o) \in 1..Len(arrivals)
    BY IdOfQueued
  <2> QED BY <2>1
<1>4. \A i, j \in 1..n : i < j => id(i) < id(j)
  BY DEF OrderInv, QueueInArrivalOrder
<1>5. E \subseteq 1..n /\ \A i \in 1..n : i \in E <=> id(i) < IdOf(o)
  BY DEF Earlier
<1> HIDE DEF id, E, n
<1>6. \A i \in E : \A j \in 1..i : j \in E
  <2> SUFFICES ASSUME NEW i \in E, NEW j \in 1..i, j # i PROVE j \in E
    OBVIOUS
  <2>1. i \in 1..n /\ j \in 1..n /\ j < i
    BY <1>1, <1>5
  <2>2. id(j) < id(i) /\ id(i) < IdOf(o) /\ id(i) \in Nat /\ id(j) \in Nat
    BY <1>2, <1>4, <1>5, <2>1
  <2>3. id(j) < IdOf(o)
    BY <1>3, <2>2
  <2> QED BY <1>5, <2>1, <2>3
<1>7. Cardinality(E) \in 0..n /\ E = 1..Cardinality(E)
  BY <1>1, <1>5, <1>6, FirstNumbers
<1>8. /\ at \in 1..(n + 1)
      /\ \A k \in 1..n : k < at => id(k) < IdOf(o)
      /\ \A k \in 1..n : k >= at => IdOf(o) < id(k)
  <2> HIDE DEF id
  <2>1. at \in 1..(n + 1) /\ \A k \in 1..n : k \in E <=> k < at
    BY <1>1, <1>7
  <2> QED BY <1>2, <1>3, <1>5, <2>1
<1>9. /\ Len(s) = n + 1
      /\ \A i \in 1..(n + 1) : s[i] = IF i < at THEN queue[i] ELSE IF i = at THEN o ELSE queue[i - 1]
  BY <1>1, <1>8, InsertAtPlaces DEF Restored, E, n
<1> HIDE DEF s, at
<1>10. ASSUME NEW i \in 1..Len(s), NEW j \in 1..Len(s), i < j
      PROVE  IdOf(s[i]) < IdOf(s[j])
  <2> DEFINE from(k) == IF k < at THEN k ELSE k - 1
  <2>1. \A k \in 1..(n + 1) : k # at =>
          from(k) \in 1..n /\ s[k] = queue[from(k)] /\ IdOf(s[k]) = id(from(k))
    BY <1>1, <1>8, <1>9 DEF id
  <2>2. s[at] = o
    BY <1>8, <1>9
  <2>3. i \in 1..(n + 1) /\ j \in 1..(n + 1)
    BY <1>9
  <2>4. CASE i = at
    <3>1. from(j) >= at /\ from(j) \in 1..n /\ IdOf(s[j]) = id(from(j))
      BY <1>8, <1>10, <2>1, <2>3, <2>4
    <3> QED BY <1>8, <2>2, <2>4, <3>1
  <2>5. CASE j = at
    <3>1. from(i) < at /\ from(i) \in 1..n /\ IdOf(s[i]) = id(from(i))
      BY <1>8, <1>10, <2>1, <2>3, <2>5
    <3> QED BY <1>8, <2>2, <2>5, <3>1
  <2>6. CASE i # at /\ j # at
    <3>1. from(i) < from(j)
      BY <1>8, <1>10, <2>3, <2>6
    <3> HIDE DEF from
    <3> QED BY <1>4, <2>1, <2>3, <2>6, <3>1
  <2> QED BY <2>4, <2>5, <2>6
<1> QED BY <1>10 DEF s

LEMMA OrderNext == IInv /\ IInv' /\ OrderInv /\ [Next]_vars => OrderInv'
<1> SUFFICES ASSUME IInv, IInv', OrderInv, [Next]_vars PROVE OrderInv'
  OBVIOUS
<1>1. sender \in [Offers -> SenderStates]
  BY DEF IInv, TypeOK
<1>2. ASSUME UNCHANGED <<arrivals, queue>>, taken' \subseteq taken,
             \A o \in Offers : sender'[o] = "idle" => sender[o] = "idle"
      PROVE  OrderInv'
  <2>1. Queued' = Queued
    BY <1>2 DEF Queued
  <2>2. \A i, j \in 1..Len(queue') : i < j => IdOf(queue'[i]) < IdOf(queue'[j])
    BY <1>2 DEF OrderInv, QueueInArrivalOrder
  <2> QED BY <1>2, <2>1, <2>2, OrderKept
<1>3. CASE UNCHANGED vars
  BY <1>2, <1>3 DEF vars
<1>4. ASSUME NEW o \in Offers, NEW what, GiveBack(o, what) PROVE OrderInv'
  <2> DEFINE I == {i \in 1..Len(queue) : queue[i] = o}
  <2>1. o \in Queued /\ queue' = Without(o) /\ Queued' = Queued \ {o}
    BY <1>4, WithoutOne DEF GiveBack, Queued
  <2>2. I # {} /\ I \subseteq Nat
    BY <2>1 DEF Queued, ToSet
  <2>3. queue' = RemoveAt(queue, Min(I)) /\ Min(I) \in 1..Len(queue)
    BY <2>1, <2>2, MinIsMember DEF Without, SelectInSeq
  <2>4. \A i, j \in 1..Len(queue') : i < j => IdOf(queue'[i]) < IdOf(queue'[j])
    BY <2>3, RemovalInOrder
  <2>5. UNCHANGED <<arrivals, taken>> /\ \A q \in Offers : sender'[q] = "idle" => sender[q] = "idle"
    BY <1>1, <1>4 DEF GiveBack, Tell
  <2> QED BY <2>1, <2>4, <2>5, OrderKept
<1>5. ASSUME NEW o \in Offers, SenderStep(o) PROVE OrderInv'
  <2>1. CASE \/ OfferRefused(o) \/ Learn(o) \/ Sleep(o) \/ Lapse(o)
             \/ \E how \in {"waiting", "timed", "dropped"} : Await(o, how)
             \/ sender' = [sender EXCEPT ![o] = "overdue"]
                  /\ UNCHANGED <<inbox, replying, slot, due, told, receiver, hand, asleep>>
    <3>1. UNCHANGED inbox /\ \A q \in Offers : sender'[q] = "idle" => sender[q] = "idle"
      BY <1>1, <2>1 DEF OfferRefused, Learn, Sleep, Lapse, Await, Tell
    <3> QED BY <1>2, <3>1 DEF inbox
  <2> QED BY <1>4, <1>5, <2>1, OfferInOrder DEF SenderStep, Withdraw, WithdrawLapsed
<1>6. ASSUME NEW o \in Offers, DeadlinePasses(o) PROVE OrderInv'
  BY <1>2, <1>6 DEF DeadlinePasses, inbox
<1>7. ASSUME NEW r \in Receivers, ReceiverStep(r) PROVE OrderInv'
  <2>1. CASE Take(r)
    <3>1. queue' = RemoveAt(queue, FirstFor(r)) /\ FirstFor(r) \in 1..Len(queue)
      BY <2>1, FirstIsQueued DEF Take
    <3>2. Queued' = Queued \ {queue[FirstFor(r)]}
      BY <3>1, RemoveAtOnce, QueueIsInjective DEF IInv, TypeOK, Queued
    <3>3. queue[FirstFor(r)] \in Queued
      BY <3>1 DEF Queued, ToSet
    <3>4. \A i, j \in 1..Len(queue') : i < j => IdOf(queue'[i]) < IdOf(queue'[j])
      BY <3>1, RemovalInOrder
    <3> QED BY <2>1, <3>2, <3>3, <3>4, OrderKept DEF Take, senders
  <2>2. CASE Block(r) \/ TakeNothing(r) \/ TakeTimesOut(r) \/ Answer(r) \/ Drop(r)
    <3>1. UNCHANGED <<arrivals, queue, sender>> /\ taken' \subseteq taken
      BY <2>2 DEF Block, TakeNothing, TakeTimesOut, Answer, Drop, inbox, senders
    <3> QED BY <1>2, <3>1
  <2>3. CASE Release(r)
    <3> DEFINE o == hand[r]
    <3>1. taken' = taken \ {o} /\ UNCHANGED <<arrivals, sender>>
      BY <2>3 DEF Release
    <3>2. CASE o \in taken /\ queue' = Restored(o)
      <4>1. o \in Offers /\ o \notin Queued
        BY <3>2 DEF IInv, TypeOK, TakenOnce
      <4>2. Queued' = Queued \cup {o}
        BY <3>2, <4>1, RestoredOne DEF Queued
      <4>3. \A i, j \in 1..Len(queue') : i < j => IdOf(queue'[i]) < IdOf(queue'[j])
        BY <3>2, RestoredInOrder
      <4> HIDE DEF o
      <4> QED BY <3>1, <3>2, <4>2, <4>3, OrderKept
    <3>3. CASE UNCHANGED queue
      BY <1>2, <3>1, <3>3
    <3> QED BY <2>3, <3>2, <3>3 DEF Release
  <2> QED BY <1>7, <2>1, <2>2, <2>3 DEF ReceiverStep
<1>8. ASSUME NEW why \in Reasons, Close(why) PROVE OrderInv'
  <2>1. Queued' = {} /\ taken' = {} /\ Len(queue') = 0
    BY <1>8 DEF Close, Queued, ToSet
  <2>2. \A i, j \in 1..Len(queue') : i < j => IdOf(queue'[i]) < IdOf(queue'[j])
    BY <2>1
  <2> QED BY <1>8, <2>1, <2>2, OrderKept DEF Close, senders
<1>9. ASSUME NEW reply \in replying, Deliver(reply) PROVE OrderInv'
  BY <1>2, <1>9 DEF Deliver, inbox
<1> QED BY <1>3, <1>5, <1>6, <1>7, <1>8, <1>9 DEF Next

\* The queue is in the order its messages arrived, however many were taken from its
\* middle and released into it again: what `restored` promises of a release.
THEOREM QueueKeepsOrder == Spec => []QueueInArrivalOrder
<1>1. Init => OrderInv
  BY DEF Init, OrderInv, QueueInArrivalOrder, IsInjective, Queued, ToSet
<1>2. OrderInv => QueueInArrivalOrder
  BY DEF OrderInv
<1> QED BY <1>1, <1>2, NextInv, InitInv, OrderNext, PTL DEF Spec
----------------------------------------------------------------------------
(* The promise: each step of an inbox is a step of Handover, or none. *)

\* What Handover's `fate` and `told` stand for.
Fate == [o \in Offers |-> FateOf(o)]
End == [o \in Offers |-> EndOf(told[o])]

LEMMA EndOfOutcomes ==
  /\ EndOf(Nothing) = "nothing" /\ EndOf(Withdrawn) = "withdrawn" /\ EndOf(Expired) = "withdrawn"
  /\ \A r : Answered(r).is = "answered" /\ EndOf(Answered(r)) = "answered"
  /\ \A why : Closed(why).is = "closed" /\ EndOf(Closed(why)) = "closed"
  /\ \A a \in Answers : EndOf(a) = a.is /\ a.is \in {"answered", "closed"}
<1>1. \A a \in Answers : a.is \in {"answered", "closed"}
  BY DEF Answers, Answered, Closed
<1> QED BY <1>1 DEF EndOf, Nothing, Withdrawn, Expired, Answered, Closed

LEMMA ChosenReply ==
  ASSUME NEW R, NEW o, NEW m \in R, m.to = o, \A a, b \in R : a.to = b.to => a = b
  PROVE  (CHOOSE reply \in R : reply.to = o) = m
OBVIOUS

\* Where a message's fate is read.
FateRead(o) ==
  /\ sender[o] = "idle" => FateOf(o) = "unsent"
  /\ sender[o] = "told" => FateOf(o) = EndOf(told[o])
  /\ o \in Queued => FateOf(o) = "untaken"
  /\ o \in taken => FateOf(o) = "taken"
  /\ slot[o] # Nothing => FateOf(o) = EndOf(slot[o])
  /\ \A m \in replying : m.to = o => FateOf(o) = m.answer.is
  /\ \/ sender[o] \in {"idle", "told"}
     \/ o \in Queued \/ o \in taken \/ slot[o] # Nothing \/ \E m \in replying : m.to = o

FatesRead == \A o \in Offers : FateRead(o)

LEMMA FateIsRead == IInv => FatesRead
<1> SUFFICES ASSUME IInv, NEW o \in Offers PROVE FateRead(o)
  BY DEF FatesRead
<1>1. OneReplyTo(o) /\ \A m, n \in replying : m.to = n.to => m = n
  BY DEF IInv, OneReply
<1>2. ASSUME NEW m \in replying, m.to = o PROVE FateOf(o) = m.answer.is
  <2>1. (CHOOSE reply \in replying : reply.to = o) = m
    BY <1>1, <1>2, ChosenReply
  <2>2. ~InQueue(o) /\ ~InTaken(o) /\ ~Arrived(o) /\ sender[o] \notin {"idle", "told"}
    BY <1>1, <1>2 DEF OneReplyTo, InTransit
  <2> QED BY <2>1, <2>2 DEF FateOf
<1>3. sender[o] \in {"idle", "told"} => ~InQueue(o) /\ ~InTaken(o) /\ ~Arrived(o)
  BY <1>1 DEF OneReplyTo
<1>4. InQueue(o) => ~InTaken(o) /\ ~Arrived(o)
  BY <1>1 DEF OneReplyTo
<1>5. InTaken(o) => ~Arrived(o)
  BY <1>1 DEF OneReplyTo
<1>6. sender[o] \in {"idle", "told"} \/ InQueue(o) \/ InTaken(o) \/ Arrived(o) \/ InTransit(o)
  BY <1>1 DEF OneReplyTo
<1>7. /\ sender[o] = "idle" => FateOf(o) = "unsent"
      /\ sender[o] = "told" => FateOf(o) = EndOf(told[o])
      /\ InQueue(o) => FateOf(o) = "untaken"
      /\ InTaken(o) => FateOf(o) = "taken"
      /\ Arrived(o) => FateOf(o) = EndOf(slot[o])
  BY <1>3, <1>4, <1>5 DEF FateOf
<1> QED BY <1>2, <1>6, <1>7 DEF FateRead, InQueue, InTaken, Arrived, InTransit

\* A step has nothing to do with o.
Undisturbed(o) ==
  /\ sender'[o] = sender[o] \/ (sender[o] \notin {"idle", "told"} /\ sender'[o] \notin {"idle", "told"})
  /\ told'[o] = told[o] /\ slot'[o] = slot[o]
  /\ o \in Queued' <=> o \in Queued
  /\ o \in taken' <=> o \in taken
  /\ \A m \in replying \cup replying' : m.to = o => (m \in replying' <=> m \in replying)

LEMMA UndisturbedFate ==
  ASSUME IInv, IInv', NEW o \in Offers, Undisturbed(o)
  PROVE  FateOf(o)' = FateOf(o)
<1>1. FateRead(o) /\ FateRead(o)'
  <2>1. FatesRead /\ FatesRead'
    BY FateIsRead, PTL
  <2> QED BY <2>1 DEF FatesRead
<1> QED BY <1>1 DEF FateRead, Undisturbed

\* A step moves one message, or none.
LEMMA FateMoves ==
  ASSUME IInv, IInv', NEW o \in Offers, \A q \in Offers : q # o => Undisturbed(q)
  PROVE  /\ Fate[o] = FateOf(o) /\ End[o] = EndOf(told[o])
         /\ FateRead(o) /\ FateRead(o)'
         /\ Fate' = [Fate EXCEPT ![o] = FateOf(o)']
         /\ End' = [End EXCEPT ![o] = EndOf(told'[o])]
         /\ told'[o] = told[o] => End' = End
<1>1. \A q \in Offers : q # o => FateOf(q)' = FateOf(q) /\ told'[q] = told[q]
  BY UndisturbedFate DEF Undisturbed
<1>2. FateRead(o) /\ FateRead(o)'
  <2>1. FatesRead /\ FatesRead'
    BY FateIsRead, PTL
  <2> QED BY <2>1 DEF FatesRead
<1> QED BY <1>1, <1>2 DEF Fate, End

LEMMA Stutters ==
  ASSUME IInv, IInv', \A o \in Offers : Undisturbed(o), closed' = closed
  PROVE  UNCHANGED Promise!vars
<1>1. \A o \in Offers : FateOf(o)' = FateOf(o) /\ told'[o] = told[o]
  BY UndisturbedFate DEF Undisturbed
<1> QED BY <1>1 DEF Promise!vars

\* The steps of Handover, in these terms.
Moves(o, from, to) == closed' = closed /\ Fate[o] = from /\ Fate' = [Fate EXCEPT ![o] = to]
Tells(o, end) == End' = [End EXCEPT ![o] = end]

LEMMA PromiseMoves ==
  ASSUME NEW o \in Offers
  PROVE  /\ \A from, to : Moves(o, from, to) => Promise!Moves(o, from, to)
         /\ \A end : Tells(o, end) => Promise!Tells(o, end)
         /\ End' = End => UNCHANGED [q \in Offers |-> EndOf(told[q])]
         /\ closed' = closed => UNCHANGED (closed = Open)
BY DEF Fate, End, Moves, Tells, Promise!Moves, Promise!Tells

LEMMA PromiseSteps ==
  ASSUME NEW o \in Offers
  PROVE  /\ closed = Open /\ Moves(o, "unsent", "untaken") /\ End' = End => Promise!Offer(o)
         /\ closed # Open /\ Moves(o, "unsent", "closed") /\ Tells(o, "closed") => Promise!Refuse(o)
         /\ Moves(o, "untaken", "withdrawn") /\ Tells(o, "withdrawn") => Promise!Withdraw(o)
         /\ Moves(o, "untaken", "taken") /\ End' = End => Promise!Take(o)
         /\ Moves(o, "taken", "untaken") /\ End' = End => Promise!Release(o)
         /\ Moves(o, "taken", "withdrawn") /\ End' = End => Promise!Expire(o)
         /\ Moves(o, "taken", "answered") /\ End' = End => Promise!Answer(o)
         /\ Moves(o, "taken", "closed") /\ End' = End => Promise!LetGo(o)
<1>1. \A from, to : Moves(o, from, to) => closed' = closed
  BY DEF Moves
<1> QED BY <1>1, PromiseMoves
        DEF Promise!Offer, Promise!Refuse, Promise!Withdraw, Promise!Take, Promise!Release,
            Promise!Expire, Promise!Answer, Promise!LetGo

LEMMA PromiseTells ==
  ASSUME NEW o \in Offers, closed' = closed, Fate' = Fate, End[o] = "nothing",
         Fate[o] \in {"withdrawn", "answered", "closed"}, Tells(o, Fate[o])
  PROVE  Promise!Tell(o)
BY DEF Fate, End, Tells, Promise!Tell, Promise!Tells, Promise!Ends

LEMMA OfferKeepsPromise ==
  ASSUME IInv, IInv', NEW o \in Offers, Offer(o) \/ OfferRefused(o)
  PROVE  Promise!Next
<1>1. sender[o] = "idle" /\ o \notin Queued /\ sender \in [Offers -> SenderStates]
  BY NoReplyLeft DEF Offer, OfferRefused, IInv, TypeOK
<1>2. CASE Offer(o)
  <2>1. Queued' = Queued \cup {o}
    BY <1>1, <1>2, AppendOnce, QueueIsInjective DEF Offer, IInv, TypeOK, Queued
  <2>2. \A q \in Offers : q # o => Undisturbed(q)
    BY <1>1, <1>2, <2>1 DEF Offer, Undisturbed
  <2>3. Moves(o, "unsent", "untaken") /\ End' = End
    BY <1>1, <1>2, <2>1, <2>2, FateMoves DEF FateRead, Moves, Offer
  <2> QED BY <1>2, <2>3, PromiseSteps DEF Offer, Promise!Next
<1>3. CASE OfferRefused(o)
  <2>1. /\ Queued' = Queued /\ told \in [Offers -> Tellings] /\ closed # Open
        /\ told' = [told EXCEPT ![o] = Closed(closed)] /\ sender' = [sender EXCEPT ![o] = "told"]
        /\ UNCHANGED <<closed, taken, slot, replying>>
    BY <1>3 DEF OfferRefused, Tell, inbox, Queued, IInv, TypeOK
  <2>2. \A q \in Offers : q # o => Undisturbed(q)
    BY <1>1, <2>1 DEF Undisturbed
  <2>3. told'[o] = Closed(closed) /\ sender'[o] = "told"
    BY <1>1, <2>1
  <2>4. Moves(o, "unsent", "closed") /\ Tells(o, "closed")
    BY <1>1, <2>1, <2>2, <2>3, FateMoves, EndOfOutcomes DEF FateRead, Moves, Tells
  <2> QED BY <2>1, <2>4, PromiseSteps DEF Promise!Next
<1> QED BY <1>2, <1>3

LEMMA GiveBackKeepsPromise ==
  ASSUME IInv, IInv', NEW o \in Offers, NEW what \in {Withdrawn, Expired}, GiveBack(o, what)
  PROVE  Promise!Next
<1>1. /\ o \in Queued /\ Queued' = Queued \ {o} /\ closed' = closed
      /\ sender \in [Offers -> SenderStates] /\ told \in [Offers -> Tellings]
      /\ told' = [told EXCEPT ![o] = what] /\ sender' = [sender EXCEPT ![o] = "told"]
      /\ UNCHANGED <<taken, slot, replying>>
  BY WithoutOne DEF GiveBack, Tell, Queued, IInv, TypeOK
<1>2. \A q \in Offers : q # o => Undisturbed(q)
  BY <1>1 DEF Undisturbed
<1>3. told'[o] = what /\ sender'[o] = "told" /\ EndOf(what) = "withdrawn"
  BY <1>1, EndOfOutcomes
<1>4. Moves(o, "untaken", "withdrawn") /\ Tells(o, "withdrawn")
  BY <1>1, <1>2, <1>3, FateMoves DEF FateRead, Moves, Tells
<1> QED BY <1>4, PromiseSteps DEF Promise!Next

LEMMA LearnKeepsPromise ==
  ASSUME IInv, IInv', NEW o \in Offers, Learn(o)
  PROVE  Promise!Next
<1>1. /\ slot[o] \in Answers \cup {Expired} /\ slot[o] # Nothing
      /\ sender[o] # "told" /\ told[o] = Nothing
      /\ sender \in [Offers -> SenderStates] /\ told \in [Offers -> Tellings]
      /\ slot \in [Offers -> Slots]
  BY OutcomeTypes DEF Learn, Settles, IInv, TypeOK, Slots
<1>2. /\ told' = [told EXCEPT ![o] = slot[o]] /\ sender' = [sender EXCEPT ![o] = "told"]
      /\ slot' = [slot EXCEPT ![o] = Nothing]
      /\ Queued' = Queued /\ UNCHANGED <<closed, taken, replying>>
  BY DEF Learn, Tell, inbox, Queued
<1>3. \A q \in Offers : q # o => Undisturbed(q)
  BY <1>1, <1>2 DEF Undisturbed
<1>4. told'[o] = slot[o] /\ sender'[o] = "told"
  BY <1>1, <1>2
<1>5. /\ Fate[o] = EndOf(slot[o]) /\ End[o] = "nothing"
      /\ FateOf(o)' = EndOf(slot[o])
      /\ Fate' = [Fate EXCEPT ![o] = FateOf(o)'] /\ Tells(o, Fate[o])
  BY <1>1, <1>2, <1>3, <1>4, FateMoves, EndOfOutcomes DEF FateRead, Tells
<1>6. Fate' = Fate
  BY <1>5 DEF Fate
<1>7. Fate[o] \in {"withdrawn", "answered", "closed"}
  BY <1>1, <1>5, EndOfOutcomes
<1> QED BY <1>2, <1>5, <1>6, <1>7, PromiseTells DEF Promise!Next

LEMMA TakeKeepsPromise ==
  ASSUME IInv, IInv', NEW r \in Receivers, Take(r)
  PROVE  Promise!Next
<1> DEFINE o == queue[FirstFor(r)]
<1>1. FirstFor(r) \in 1..Len(queue) /\ o \in Offers /\ o \in Queued
  BY FirstIsQueued DEF IInv, TypeOK, Take, Queued, ToSet
<1>2. Queued' = Queued \ {o}
  BY <1>1, RemoveAtOnce, QueueIsInjective DEF IInv, TypeOK, Take, Queued
<1>3. taken' = taken \cup {o} /\ UNCHANGED <<closed, replying, slot, sender, told>>
  BY DEF Take, senders
<1> HIDE DEF o
<1>4. \A q \in Offers : q # o => Undisturbed(q)
  BY <1>2, <1>3 DEF Undisturbed
<1>5. Moves(o, "untaken", "taken") /\ End' = End
  BY <1>1, <1>3, <1>4, FateMoves DEF FateRead, Moves
<1> QED BY <1>1, <1>5, PromiseSteps DEF Promise!Next

\* A receiver's answer, or its letting go: a step where the inbox still has the reply.
LEMMA HandOverKeepsPromise ==
  ASSUME IInv, IInv', NEW r \in Receivers, hand[r] # None, NEW answer \in Answers,
         replying' = Replying(hand[r], answer), taken' = taken \ {hand[r]},
         UNCHANGED <<closed, queue, slot, sender, told>>
  PROVE  Promise!Next \/ UNCHANGED Promise!vars
<1> DEFINE o == hand[r] reply == [to |-> o, answer |-> answer]
<1>1. o \in Offers /\ Queued' = Queued
  BY DEF IInv, TypeOK, Queued
<1>2. CASE o \in taken
  <2>1. /\ replying' = replying \cup {reply} /\ taken' = taken \ {o}
        /\ reply.to = o /\ reply.answer = answer
    BY <1>2 DEF Replying
  <2> HIDE DEF reply, o
  <2>2. \A q \in Offers : q # o => Undisturbed(q)
    BY <1>1, <2>1 DEF Undisturbed
  <2>3. Moves(o, "taken", answer.is) /\ End' = End
    BY <1>1, <1>2, <2>1, <2>2, FateMoves DEF FateRead, Moves
  <2>4. answer.is \in {"answered", "closed"}
    BY EndOfOutcomes
  <2> QED BY <1>1, <2>3, <2>4, PromiseSteps DEF Promise!Next
<1>3. CASE o \notin taken
  <2>1. replying' = replying /\ taken' = taken
    BY <1>3 DEF Replying
  <2>2. \A q \in Offers : Undisturbed(q)
    BY <1>1, <2>1 DEF Undisturbed
  <2> QED BY <2>2, Stutters
<1> QED BY <1>2, <1>3

LEMMA ReleaseKeepsPromise ==
  ASSUME IInv, IInv', NEW r \in Receivers, Release(r)
  PROVE  Promise!Next \/ UNCHANGED Promise!vars
<1> DEFINE o == hand[r]
<1>1. /\ o \in Offers /\ o \notin Queued /\ taken' = taken \ {o} /\ slot \in [Offers -> Slots]
      /\ UNCHANGED <<closed, replying, sender, told>>
  BY DEF Release, IInv, TypeOK, TakenOnce
<1>2. queue' = queue => Queued' = Queued
  BY DEF Queued
<1> HIDE DEF o
<1>3. CASE o \notin taken /\ UNCHANGED <<queue, slot>>
  <2>1. \A q \in Offers : Undisturbed(q)
    BY <1>1, <1>2, <1>3 DEF Undisturbed
  <2> QED BY <1>1, <2>1, Stutters
<1>4. CASE o \in taken /\ slot' = [slot EXCEPT ![o] = Expired] /\ UNCHANGED queue
  <2>1. \A q \in Offers : q # o => Undisturbed(q)
    BY <1>1, <1>2, <1>4 DEF Undisturbed
  <2>2. slot'[o] = Expired /\ slot'[o] # Nothing
    BY <1>1, <1>4, OutcomeTypes
  <2>3. Moves(o, "taken", "withdrawn") /\ End' = End
    BY <1>1, <1>4, <2>1, <2>2, FateMoves, EndOfOutcomes DEF FateRead, Moves
  <2> QED BY <1>1, <2>3, PromiseSteps DEF Promise!Next
<1>5. CASE o \in taken /\ queue' = Restored(o) /\ UNCHANGED slot
  <2>1. Queued' = Queued \cup {o}
    BY <1>1, <1>5, RestoredOne DEF Queued
  <2>2. \A q \in Offers : q # o => Undisturbed(q)
    BY <1>1, <1>5, <2>1 DEF Undisturbed
  <2>3. Moves(o, "taken", "untaken") /\ End' = End
    BY <1>1, <1>5, <2>1, <2>2, FateMoves DEF FateRead, Moves
  <2> QED BY <1>1, <2>3, PromiseSteps DEF Promise!Next
<1> QED BY <1>3, <1>4, <1>5 DEF Release, o

LEMMA CloseKeepsPromise ==
  ASSUME IInv, IInv', NEW why \in Reasons, Close(why)
  PROVE  Promise!Next
<1> DEFINE reply(o) == [to |-> o, answer |-> Closed(why)]
<1>1. /\ Queued' = {} /\ taken' = {} /\ closed = Open /\ closed' # Open
      /\ replying' = replying \cup {reply(o) : o \in Queued \cup taken}
      /\ UNCHANGED <<slot, sender, told>>
  BY InboxAssumption DEF Close, Queued, ToSet, senders
<1>2. \A o : reply(o).to = o /\ reply(o).answer.is = "closed"
  BY EndOfOutcomes
<1>3. FatesRead /\ FatesRead'
  BY FateIsRead, PTL
<1>4. ASSUME NEW o \in Offers
      PROVE  FateOf(o)' = IF FateOf(o) \in {"untaken", "taken"} THEN "closed" ELSE FateOf(o)
  <2>1. FateRead(o) /\ FateRead(o)'
    BY <1>3 DEF FatesRead
  <2>2. CASE o \in Queued \cup taken
    <3>1. reply(o) \in replying'
      BY <1>1, <2>2
    <3>2. FateOf(o)' = "closed"
      BY <1>2, <2>1, <3>1 DEF FateRead
    <3> QED BY <2>1, <2>2, <3>2 DEF FateRead
  <2>3. CASE o \notin Queued \cup taken
    <3>1. \A m \in replying' : m.to = o => m \in replying
      BY <1>1, <1>2, <2>3
    <3>2. Undisturbed(o)
      BY <1>1, <2>3, <3>1 DEF Undisturbed
    <3>3. FateOf(o)' = FateOf(o)
      BY <3>2, UndisturbedFate
    <3>4. FateOf(o) \notin {"untaken", "taken"}
      <4>1. told[o] \in Tellings /\ slot[o] \in Tellings
        BY DEF IInv, TypeOK, Tellings, Slots
      <4>2. \A t \in Tellings : EndOf(t) \in {"nothing", "withdrawn", "answered", "closed"}
        BY EndOfOutcomes DEF Tellings, Slots
      <4>3. \A m \in replying : m.answer.is \in {"answered", "closed"}
        BY EndOfOutcomes DEF IInv, TypeOK, Replies
      <4> QED BY <2>1, <2>3, <4>1, <4>2, <4>3 DEF FateRead
    <3> QED BY <3>3, <3>4
  <2> QED BY <2>2, <2>3
<1>5. Promise!Close
  <2>1. [o \in Offers |-> FateOf(o)]' =
          [o \in Offers |-> IF FateOf(o) \in {"untaken", "taken"} THEN "closed" ELSE FateOf(o)]
    BY <1>4
  <2>2. UNCHANGED [o \in Offers |-> EndOf(told[o])]
    BY <1>1
  <2>3. (closed = Open)' = FALSE
    BY <1>1
  <2> QED BY <1>1, <2>1, <2>2, <2>3 DEF Promise!Close
<1> QED BY <1>5 DEF Promise!Next

\* What one section answered, another section puts in the ticket: the same end.
LEMMA DeliverKeepsPromise ==
  ASSUME IInv, IInv', NEW reply \in replying, Deliver(reply)
  PROVE  UNCHANGED Promise!vars
<1> DEFINE o == reply.to
<1>1. /\ o \in Offers /\ reply.answer \in Answers /\ slot \in [Offers -> Slots]
      /\ slot' = [slot EXCEPT ![o] = reply.answer]
      /\ Queued' = Queued /\ replying' = replying \ {reply}
      /\ UNCHANGED <<closed, taken, sender, told>>
  BY DEF Deliver, inbox, Queued, IInv, TypeOK, Replies
<1>2. \A q \in Offers : q # o => Undisturbed(q)
  BY <1>1 DEF Undisturbed
<1>3. slot'[o] = reply.answer /\ slot'[o] # Nothing
  BY <1>1, OutcomeTypes
<1>4. FateOf(o)' = FateOf(o)
  <2>1. FateRead(o) /\ FateRead(o)'
    BY <1>1, <1>2, FateMoves
  <2>2. FateOf(o) = reply.answer.is
    BY <2>1 DEF FateRead
  <2>3. FateOf(o)' = EndOf(reply.answer)
    BY <1>3, <2>1 DEF FateRead
  <2> QED BY <1>1, <2>2, <2>3, EndOfOutcomes
<1>5. \A q \in Offers : FateOf(q)' = FateOf(q)
  BY <1>2, <1>4, UndisturbedFate
<1> QED BY <1>1, <1>5 DEF Promise!vars

LEMMA PromiseNext == IInv /\ IInv' /\ [Next]_vars => [Promise!Next]_(Promise!vars)
<1> SUFFICES ASSUME IInv, IInv', [Next]_vars PROVE Promise!Next \/ UNCHANGED Promise!vars
  OBVIOUS
<1>1. ASSUME UNCHANGED <<inbox, replying, slot, told>>,
             \A o \in Offers : sender'[o] = sender[o]
               \/ (sender[o] \notin {"idle", "told"} /\ sender'[o] \notin {"idle", "told"})
      PROVE  UNCHANGED Promise!vars
  <2>1. Queued' = Queued
    BY <1>1 DEF inbox, Queued
  <2>2. \A o \in Offers : Undisturbed(o)
    BY <1>1, <2>1 DEF inbox, Undisturbed
  <2> QED BY <1>1, <2>2, Stutters DEF inbox
<1>2. CASE UNCHANGED vars
  BY <1>1, <1>2 DEF vars, inbox
<1>3. ASSUME NEW o \in Offers, SenderStep(o) PROVE Promise!Next \/ UNCHANGED Promise!vars
  <2>1. CASE \/ Sleep(o) \/ Lapse(o)
             \/ \E how \in {"waiting", "timed", "dropped"} : Await(o, how)
             \/ sender[o] = "expiring" /\ sender' = [sender EXCEPT ![o] = "overdue"]
                  /\ UNCHANGED <<inbox, replying, slot, due, told, receiver, hand, asleep>>
    <3>1. sender \in [Offers -> SenderStates]
      BY DEF IInv, TypeOK
    <3>2. /\ UNCHANGED <<inbox, replying, slot, told>>
          /\ \A q \in Offers : sender'[q] = sender[q]
               \/ (sender[q] \notin {"idle", "told"} /\ sender'[q] \notin {"idle", "told"})
      BY <2>1, <3>1 DEF Sleep, Lapse, Await
    <3> QED BY <1>1, <3>2
  <2> QED BY <1>3, <2>1, OfferKeepsPromise, GiveBackKeepsPromise, LearnKeepsPromise
          DEF SenderStep, Withdraw, WithdrawLapsed
<1>4. ASSUME NEW o \in Offers, DeadlinePasses(o) PROVE UNCHANGED Promise!vars
  BY <1>1, <1>4 DEF DeadlinePasses
<1>5. ASSUME NEW r \in Receivers, ReceiverStep(r) PROVE Promise!Next \/ UNCHANGED Promise!vars
  <2>1. CASE Block(r) \/ TakeNothing(r) \/ TakeTimesOut(r)
    BY <1>1, <2>1 DEF Block, TakeNothing, TakeTimesOut, senders
  <2>2. CASE Answer(r)
    BY <2>2, OutcomeTypes, HandOverKeepsPromise DEF Answer, senders
  <2>3. CASE Drop(r)
    BY <2>3, OutcomeTypes, HandOverKeepsPromise DEF Drop, senders
  <2> QED BY <1>5, <2>1, <2>2, <2>3, TakeKeepsPromise, ReleaseKeepsPromise DEF ReceiverStep
<1> QED BY <1>2, <1>3, <1>4, <1>5, CloseKeepsPromise, DeliverKeepsPromise DEF Next

\* An inbox keeps its promise, for every set of senders, receivers and what they accept:
\* a message is taken or withdrawn and not both, leaves once, and its sender is told how,
\* though an answer crosses from the inbox's lock to the ticket's.
THEOREM PromiseKept == Spec => KeepsThePromise
<1>1. Init => Promise!Init
  <2> SUFFICES ASSUME Init PROVE Promise!Init
    OBVIOUS
  <2>1. \A o \in Offers : FateOf(o) = "unsent"
    BY InitInv, FateIsRead DEF FatesRead, FateRead, Init
  <2>2. \A o \in Offers : EndOf(told[o]) = "nothing"
    BY EndOfOutcomes DEF Init
  <2> QED BY <2>1, <2>2 DEF Init, Promise!Init
<1> QED BY <1>1, InitInv, NextInv, PromiseNext, PTL DEF Spec, KeepsThePromise, Promise!Spec
=============================================================================
