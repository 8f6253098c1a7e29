-------------------------------- MODULE Inbox --------------------------------
(***************************************************************************)
(* An inbox and its in-process senders (src/crates/onemessagebus/src/      *)
(* inbox.rs): `Shared`, the receiver's takes, a taken message's `Claim`,   *)
(* and the `Offer` its sender holds.                                       *)
(*                                                                         *)
(* Two kinds of lock meet here.  The inbox's lock guards the queue, the    *)
(* messages taken and the close; each message's ticket has a lock of its   *)
(* own, under which its sender waits.  An answer leaves the inbox under    *)
(* the first and reaches the ticket under the second, so a sender's        *)
(* deadline, a release, a close and another receiver can all fall between. *)
(*                                                                         *)
(* One step is one critical section.  A wait on a condition is a state of  *)
(* its own, which only a notification or a deadline ends: a wait that      *)
(* returns for no reason scans again and sleeps again.                     *)
(***************************************************************************)
EXTENDS Naturals, SequencesExt

CONSTANTS
  Offers,      \* the messages offered, each by a sender of its own
  Receivers,   \* the threads that take
  None,        \* a receiver holds no message
  Accepts,     \* the messages each receiver's predicate accepts
  Selective,   \* the receivers that call take_if, the others calling take
  Reasons,     \* the reasons the inbox can be closed for
  Open         \* no reason: it has not been closed

LetGo == "let go"   \* the reason a dropped claim answers with

ASSUME InboxAssumption ==
  /\ None \notin Offers
  /\ Open \notin Reasons \cup {LetGo}
  /\ LetGo \notin Reasons
  /\ Selective \subseteq Receivers
  /\ Accepts \in [Receivers -> SUBSET Offers]
  /\ \A r \in Receivers \ Selective : Accepts[r] = Offers

VARIABLES
  closed,     \* Open, or the reason the inbox was closed for
  arrivals,   \* the messages in the order they were queued: a message's place is its id
  queue,      \* those waiting to be taken
  taken,      \* those taken whose reply the inbox still has
  answered,   \* what the receivers answered
  replying,   \* replies their thread has yet to deliver, the inbox's lock let go
  slot,       \* the outcome each ticket holds
  due,        \* each ticket's deadline: "none", "set" or "passed"
  sender,     \* where each sender is
  told,       \* what each sender has been told
  receiver,   \* where each receiver is
  hand,       \* the message each receiver holds
  asleep      \* the senders asleep on their ticket

vars == <<closed, arrivals, queue, taken, answered, replying, slot, due, sender, told,
          receiver, hand, asleep>>
inbox == <<closed, arrivals, queue, taken, answered>>
senders == <<slot, due, sender, told, asleep>>

----------------------------------------------------------------------------
(* Outcomes. *)

Nothing == [is |-> "nothing"]
Expired == [is |-> "expired"]
Withdrawn == [is |-> "withdrawn"]
Answered(r) == [is |-> "answered", by |-> r]
Closed(why) == [is |-> "closed", why |-> why]

Answers == {Answered(r) : r \in Receivers} \cup {Closed(why) : why \in Reasons \cup {LetGo}}
Slots == Answers \cup {Nothing, Expired}
Tellings == Slots \cup {Withdrawn}
Replies == [to : Offers, answer : Answers]

----------------------------------------------------------------------------
(* The queue. *)

Queued == ToSet(queue)

\* A message's id: its place among the arrivals.
IdOf(o) == SelectInSeq(arrivals, LAMBDA a : a = o)

Without(o) == RemoveAt(queue, SelectInSeq(queue, LAMBDA q : q = o))

Restored_AtTheFront(o) == <<o>> \o queue

\* The queue with `o` back in its place, ahead of what arrived after it.
Earlier(o) == {i \in 1..Len(queue) : IdOf(queue[i]) < IdOf(o)}
Restored(o) == InsertAt(queue, 1 + Cardinality(Earlier(o)), o)

\* Where a receiver finds its message: the front, or the first it accepts.
FirstFor(r) == SelectInSeq(queue, LAMBDA q : q \in Accepts[r])

Woken_OnlyOne ==
  LET sleeping == {r \in Receivers : receiver[r] = "asleep"} IN
  IF sleeping = {} THEN receiver
  ELSE [receiver EXCEPT ![CHOOSE r \in sleeping : TRUE] = "woken"]

\* `arrived.notify_all`.
Woken == [r \in Receivers |-> IF receiver[r] = "asleep" THEN "woken" ELSE receiver[r]]
Notify == receiver' = Woken

Init ==
  /\ closed = Open
  /\ arrivals = <<>> /\ queue = <<>>
  /\ taken = {} /\ answered = {} /\ replying = {}
  /\ slot = [o \in Offers |-> Nothing]
  /\ due = [o \in Offers |-> "none"]
  /\ sender = [o \in Offers |-> "idle"]
  /\ told = [o \in Offers |-> Nothing]
  /\ receiver = [r \in Receivers |-> "idle"]
  /\ hand = [r \in Receivers |-> None]
  /\ asleep = {}

----------------------------------------------------------------------------
(* Senders. *)

Tell(o, what) ==
  /\ told' = [told EXCEPT ![o] = what]
  /\ sender' = [sender EXCEPT ![o] = "told"]

\* `Sender::offer`, into an open inbox and into a closed one.
Offer(o) ==
  /\ sender[o] = "idle" /\ closed = Open
  /\ arrivals' = Append(arrivals, o)
  /\ queue' = Append(queue, o)
  /\ sender' = [sender EXCEPT ![o] = "offered"]
  /\ Notify
  /\ UNCHANGED <<closed, taken, answered, replying, slot, due, told, hand, asleep>>

OfferRefused(o) ==
  /\ sender[o] = "idle" /\ closed # Open
  /\ Tell(o, Closed(closed))
  /\ UNCHANGED <<inbox, replying, slot, due, receiver, hand, asleep>>

\* The queue gives `o` back to its sender, which is told so.
GiveBack(o, what) ==
  /\ o \in Queued
  /\ queue' = Without(o)
  /\ Notify
  /\ Tell(o, what)
  /\ UNCHANGED <<closed, arrivals, taken, answered, replying, slot, due, hand, asleep>>

\* `Offer::withdraw`; one that fails changes nothing.
Withdraw(o) == sender[o] = "offered" /\ GiveBack(o, Withdrawn)

\* What the holder of an offer does with it: wait, wait until a deadline, or
\* drop it, its message staying offered.
Await(o, how) ==
  /\ sender[o] = "offered"
  /\ sender' = [sender EXCEPT ![o] = how]
  /\ due' = IF how = "timed" THEN [due EXCEPT ![o] = "set"] ELSE due
  /\ UNCHANGED <<inbox, replying, slot, told, receiver, hand, asleep>>

\* The deadline passes, and a wait that has one ends.
DeadlinePasses_WakesNobody(o) ==
  /\ due[o] = "set"
  /\ due' = [due EXCEPT ![o] = "passed"]
  /\ UNCHANGED <<inbox, replying, slot, sender, told, receiver, hand, asleep>>

DeadlinePasses(o) ==
  /\ due[o] = "set"
  /\ due' = [due EXCEPT ![o] = "passed"]
  /\ asleep' = asleep \ {o}
  /\ UNCHANGED <<inbox, replying, slot, sender, told, receiver, hand>>

\* Only a sender with a deadline takes an expiry for an outcome.
Settles(o) ==
  IF sender[o] \in {"timed", "overdue"} THEN slot[o] # Nothing ELSE slot[o] \in Answers

\* A sender looks at its ticket, in `try_answer` or in a wait, and finds its outcome.
Learn(o) ==
  /\ sender[o] \in {"offered", "waiting", "timed", "overdue"} /\ o \notin asleep
  /\ Settles(o)
  /\ Tell(o, slot[o])
  /\ slot' = [slot EXCEPT ![o] = Nothing]
  /\ UNCHANGED <<inbox, replying, due, receiver, hand, asleep>>

\* It finds none and sleeps on the ticket.
Sleep(o) ==
  /\ sender[o] \in {"waiting", "timed", "overdue"} /\ o \notin asleep
  /\ ~Settles(o)
  /\ sender[o] = "timed" => due[o] # "passed"
  /\ asleep' = asleep \cup {o}
  /\ UNCHANGED <<inbox, replying, slot, due, sender, told, receiver, hand>>

\* It finds none at its deadline, and lets the ticket go to withdraw the message.
Lapse(o) ==
  /\ sender[o] = "timed" /\ o \notin asleep
  /\ ~Settles(o)
  /\ due[o] = "passed"
  /\ sender' = [sender EXCEPT ![o] = "expiring"]
  /\ UNCHANGED <<inbox, replying, slot, due, told, receiver, hand, asleep>>

WithdrawLapsed_Always(o) ==
  /\ sender[o] = "expiring"
  /\ queue' = IF o \in Queued THEN Without(o) ELSE queue
  /\ Notify
  /\ Tell(o, Expired)
  /\ UNCHANGED <<closed, arrivals, taken, answered, replying, slot, due, hand, asleep>>

\* The withdrawal at the deadline; a message its receiver has is waited on.
WithdrawLapsed(o) ==
  /\ sender[o] = "expiring"
  /\ \/ GiveBack(o, Expired)
     \/ /\ o \notin Queued
        /\ sender' = [sender EXCEPT ![o] = "overdue"]
        /\ UNCHANGED <<inbox, replying, slot, due, told, receiver, hand, asleep>>

----------------------------------------------------------------------------
(* Receivers.  A take scans the queue in one critical section, and one that *)
(* blocks goes to sleep in the section it found nothing in: "woken" scans   *)
(* and sleeps again, "once" scans and returns.                              *)

Scanning(r) == receiver[r] \in {"idle", "woken", "once"} /\ hand[r] = None

\* The first message for this receiver goes from the queue to its hand.
Take(r) ==
  /\ Scanning(r) /\ FirstFor(r) # 0
  /\ LET o == queue[FirstFor(r)] IN
       /\ hand' = [hand EXCEPT ![r] = o]
       /\ taken' = taken \cup {o}
  /\ queue' = RemoveAt(queue, FirstFor(r))
  /\ receiver' = [receiver EXCEPT ![r] = "idle"]
  /\ UNCHANGED <<closed, arrivals, answered, replying, senders>>

\* `take_within` and `take_if_within` find nothing in an open inbox, and sleep.
Block(r) ==
  /\ Scanning(r) /\ FirstFor(r) = 0 /\ receiver[r] # "once"
  /\ closed = Open
  /\ receiver' = [receiver EXCEPT ![r] = "asleep"]
  /\ UNCHANGED <<inbox, replying, senders, hand>>

\* They find nothing and return: the inbox closed, or this was the last look.
TakeNothing(r) ==
  /\ receiver[r] \in {"woken", "once"} /\ FirstFor(r) = 0
  /\ closed # Open \/ receiver[r] = "once"
  /\ receiver' = [receiver EXCEPT ![r] = "idle"]
  /\ UNCHANGED <<inbox, replying, senders, hand>>

\* The take's own deadline: `take_within` looks once more, `take_if_within` does not.
TakeTimesOut(r) ==
  /\ receiver[r] \in {"asleep", "woken"}
  /\ receiver' = [receiver EXCEPT ![r] = IF r \in Selective THEN "idle" ELSE "once"]
  /\ UNCHANGED <<inbox, replying, senders, hand>>

\* The reply `o` has in the inbox, if a close has not taken it, on its way.
Replying_Anyway(o, answer) == replying \cup {[to |-> o, answer |-> answer]}

Replying(o, answer) ==
  IF o \in taken THEN replying \cup {[to |-> o, answer |-> answer]} ELSE replying

\* `Delivered::answer`.
Answer(r) ==
  /\ hand[r] # None
  /\ answered' = answered \cup {[message |-> hand[r], by |-> r]}
  /\ replying' = Replying(hand[r], Answered(r))
  /\ taken' = taken \ {hand[r]}
  /\ hand' = [hand EXCEPT ![r] = None]
  /\ UNCHANGED <<closed, arrivals, queue, senders, receiver>>

\* A `Delivered` dropped unsettled: `Claim::drop`.
Drop(r) ==
  /\ hand[r] # None
  /\ replying' = Replying(hand[r], Closed(LetGo))
  /\ taken' = taken \ {hand[r]}
  /\ hand' = [hand EXCEPT ![r] = None]
  /\ UNCHANGED <<closed, arrivals, queue, answered, senders, receiver>>

Release_IgnoresTheDeadline(r) ==
  /\ hand[r] \in taken
  /\ taken' = taken \ {hand[r]}
  /\ hand' = [hand EXCEPT ![r] = None]
  /\ queue' = Restored(hand[r])
  /\ Notify
  /\ UNCHANGED <<closed, arrivals, answered, replying, senders>>

\* `Delivered::release`: back in its place, unless a close has answered it
\* already or its sender's deadline has passed.
Release(r) ==
  /\ hand[r] # None
  /\ taken' = taken \ {hand[r]}
  /\ hand' = [hand EXCEPT ![r] = None]
  /\ \/ /\ hand[r] \notin taken
        /\ UNCHANGED <<queue, slot, asleep, receiver>>
     \/ /\ hand[r] \in taken /\ due[hand[r]] = "passed"
        /\ slot' = [slot EXCEPT ![hand[r]] = Expired]
        /\ asleep' = asleep \ {hand[r]}
        /\ UNCHANGED <<queue, receiver>>
     \/ /\ hand[r] \in taken /\ due[hand[r]] # "passed"
        /\ queue' = Restored(hand[r])
        /\ Notify
        /\ UNCHANGED <<slot, asleep>>
  /\ UNCHANGED <<closed, arrivals, answered, replying, due, sender, told>>

----------------------------------------------------------------------------
(* `Inbox::close` and its drop.  The first close answers every message the *)
(* inbox has; its thread delivers the replies once the lock is let go.     *)

Close_Again(why) ==
  /\ closed' = why
  /\ replying' = replying \cup {[to |-> o, answer |-> Closed(why)] : o \in Queued \cup taken}
  /\ queue' = <<>> /\ taken' = {}
  /\ Notify
  /\ UNCHANGED <<arrivals, answered, senders, hand>>

Close(why) ==
  /\ closed = Open
  /\ closed' = why
  /\ replying' = replying \cup {[to |-> o, answer |-> Closed(why)] : o \in Queued \cup taken}
  /\ queue' = <<>> /\ taken' = {}
  /\ Notify
  /\ UNCHANGED <<arrivals, answered, senders, hand>>

\* `Reply::answer`: the outcome reaches the ticket, and its sender is woken.
Deliver(reply) ==
  /\ reply \in replying
  /\ replying' = replying \ {reply}
  /\ slot' = [slot EXCEPT ![reply.to] = reply.answer]
  /\ asleep' = asleep \ {reply.to}
  /\ UNCHANGED <<inbox, due, sender, told, receiver, hand>>

----------------------------------------------------------------------------
SenderStep(o) ==
  \/ Offer(o) \/ OfferRefused(o) \/ Withdraw(o)
  \/ \E how \in {"waiting", "timed", "dropped"} : Await(o, how)
  \/ Learn(o) \/ Sleep(o) \/ Lapse(o) \/ WithdrawLapsed(o)

ReceiverStep(r) ==
  \/ Take(r) \/ Block(r) \/ TakeNothing(r) \/ TakeTimesOut(r)
  \/ Answer(r) \/ Drop(r) \/ Release(r)

\* What a thread already inside a wait, or a take, does.
WaitOn(o) ==
  sender[o] # "offered" /\ (Learn(o) \/ Sleep(o) \/ Lapse(o) \/ WithdrawLapsed(o))
ScanAgain(r) == receiver[r] # "idle" /\ (Take(r) \/ Block(r) \/ TakeNothing(r))

Next ==
  \/ \E o \in Offers : SenderStep(o) \/ DeadlinePasses(o)
  \/ \E r \in Receivers : ReceiverStep(r)
  \/ \E why \in Reasons : Close(why)
  \/ \E reply \in replying : Deliver(reply)

Spec == Init /\ [][Next]_vars

\* A thread that can run, runs: a sender that waits, a receiver in a take, and
\* whoever has replies to deliver.  Time passes.  Nobody need call anything,
\* answer, release or close.
Fairness ==
  /\ \A o \in Offers :
       /\ WF_vars(WaitOn(o))
       /\ WF_vars(DeadlinePasses(o))
       /\ WF_vars(\E reply \in replying : reply.to = o /\ Deliver(reply))
  /\ \A r \in Receivers : WF_vars(ScanAgain(r))

FairSpec == Spec /\ Fairness

----------------------------------------------------------------------------
SenderStates == {"idle", "offered", "waiting", "timed", "expiring", "overdue", "dropped", "told"}
ReceiverStates == {"idle", "asleep", "woken", "once"}

\* Every variable has its type, a sender sleeps only in a wait, and is done when
\* it was told something.
TypeOK ==
  /\ closed \in Reasons \cup {Open}
  /\ arrivals \in Seq(Offers) /\ queue \in Seq(Offers)
  /\ taken \subseteq Offers
  /\ answered \subseteq [message : Offers, by : Receivers]
  /\ replying \subseteq Replies
  /\ slot \in [Offers -> Slots]
  /\ due \in [Offers -> {"none", "set", "passed"}]
  /\ sender \in [Offers -> SenderStates]
  /\ told \in [Offers -> Tellings]
  /\ \A o \in Offers : sender[o] = "told" <=> told[o] # Nothing
  /\ receiver \in [Receivers -> ReceiverStates]
  /\ hand \in [Receivers -> Offers \cup {None}]
  /\ asleep \subseteq {o \in Offers : sender[o] \in {"waiting", "timed", "overdue"}}

(* Where the way back to a message's sender can be. *)
InQueue(o) == o \in Queued
InTaken(o) == o \in taken
InTransit(o) == \E reply \in replying : reply.to = o
Arrived(o) == slot[o] # Nothing

OneReplyTo(o) ==
  /\ ~(InQueue(o) /\ InTaken(o))
  /\ ~((InQueue(o) \/ InTaken(o)) /\ (InTransit(o) \/ Arrived(o)))
  /\ ~(InTransit(o) /\ Arrived(o))
  /\ sender[o] \notin {"idle", "told"}
       <=> InQueue(o) \/ InTaken(o) \/ InTransit(o) \/ Arrived(o)

\* A message's reply is in one place, or, its sender told, in none: so no
\* sender is told twice, and none that waits is forgotten -- not by a close
\* that meets a take, a release after a close, or a withdrawal that loses.
OneReply ==
  /\ \A m, n \in replying : m.to = n.to => m = n
  /\ \A o \in Offers : OneReplyTo(o)

\* A message is queued once and held by at most one receiver, never both: no
\* receiver takes what another has, or what its sender has taken back.
TakenOnce ==
  /\ IsInjective(queue)
  /\ \A r, s \in Receivers : hand[r] = hand[s] /\ hand[r] # None => r = s
  /\ \A r \in Receivers : hand[r] \notin Queued
  /\ \A o \in taken : \E r \in Receivers : hand[r] = o
  /\ \A r \in Receivers :
       hand[r] # None => told[hand[r]] \notin {Withdrawn, Expired} /\ slot[hand[r]] # Expired

\* The queue is in the order its messages arrived, whatever was taken from it
\* and handed back ("ahead of every message that arrived after it").
QueueInArrivalOrder ==
  \A i, j \in 1..Len(queue) : i < j => IdOf(queue[i]) < IdOf(queue[j])

\* A message whose sender met its deadline and found it taken never waits in
\* the queue again: a release expires it before any take can find it.
OverdueNeverQueued == \A o \in Offers : sender[o] = "overdue" => o \notin Queued

\* A sender is told what happened: a disposition only its receiver answered
\* for this message, a close only with the first reason given or let go, and
\* a withdrawal only of a message nobody answered.
ToldWhatHappened ==
  \A o \in Offers :
    LET what == told[o]
        byReceivers == {a.by : a \in {b \in answered : b.message = o}}
    IN /\ what.is = "answered" => what.by \in byReceivers
       /\ what.is = "closed" => what.why \in {closed, LetGo}
       /\ what \in {Withdrawn, Expired} => byReceivers = {}

(* The inbox as its senders are promised it. *)
EndOf(outcome) ==
  IF outcome.is \in {"withdrawn", "expired"} THEN "withdrawn" ELSE outcome.is

FateOf(o) ==
  CASE sender[o] = "idle" -> "unsent"
    [] sender[o] = "told" -> EndOf(told[o])
    [] InQueue(o) -> "untaken"
    [] InTaken(o) -> "taken"
    [] Arrived(o) -> EndOf(slot[o])
    [] OTHER -> (CHOOSE reply \in replying : reply.to = o).answer.is

Promise ==
  INSTANCE Handover WITH
    open <- closed = Open,
    fate <- [o \in Offers |-> FateOf(o)],
    told <- [o \in Offers |-> EndOf(told[o])]

\* The inbox keeps the promise an offer's sender has: taking a message and
\* withdrawing it never both succeed, and each end is reached once and told.
KeepsThePromise == Promise!Spec

\* A receiver blocked in a take sleeps neither through a message it accepts
\* nor through the close: each arrival, release and withdrawal wakes it.
ReceiversWake ==
  \A r \in Receivers :
    (receiver[r] \in {"asleep", "woken"} /\ (FirstFor(r) # 0 \/ closed # Open))
      ~> (receiver[r] = "idle" \/ (FirstFor(r) = 0 /\ closed = Open))

\* No sender waits on in an inbox that closed, or past a deadline at which its
\* message was untaken and stays so.
NoSenderLeftWaiting ==
  \A o \in Offers :
    /\ (closed # Open /\ sender[o] \in {"waiting", "timed", "overdue"}) ~> sender[o] = "told"
    /\ sender[o] = "timed" ~> sender[o] \in {"told", "overdue"}
=============================================================================
