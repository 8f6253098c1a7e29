-------------------------------- MODULE Spool --------------------------------
(***************************************************************************)
(* A spool (src/crates/onemessagebus/src/spool.rs): a directory a receiver *)
(* binds and senders in other processes offer messages into.  The two      *)
(* sides share nothing but files and two locks the system lets go of when  *)
(* their holder dies, so a step is one operation on the directory: the     *)
(* other side can act, or the receiver die, between any two.               *)
(*                                                                         *)
(* The receiver's inbox is here for what its gates do (`Hold`, run under   *)
(* the inbox's lock) and as a set: which queued message a take comes to is *)
(* module Inbox's subject.  A scan of the queue is a take or a pass of one *)
(* message at a time.  A process binds the directory, may unbind it and    *)
(* bind it again with the same inbox, and may die, after which another     *)
(* process binds it with an empty inbox of its own.                        *)
(***************************************************************************)
EXTENDS FiniteSetsExt, Naturals

CONSTANTS
  Messages,     \* the messages' ids: numbers, in the order they were minted
  Clocks,       \* what a sender may find the receiver's advertisement to mean
  Lives,        \* bound: how often a receiver binds
  Faults,       \* bound: how many operations the file system refuses
  Refusable     \* the operations it may refuse

ASSUME SpoolAssumption ==
  /\ Messages \subseteq Nat
  /\ IsFiniteSet(Messages)
  /\ Clocks \subseteq {"acknowledged", "then taken", "unverifiable"}
  /\ Lives \in Nat
  /\ Faults \in Nat
  /\ Refusable \subseteq
       {"withdrawal", "claim", "acknowledgement", "answer", "expiry", "release", "deadline", "close"}

VARIABLES
  \* the directory
  files,       \* the files each message has
  answer,      \* what its answer file says
  closedFile,  \* closed.json is there
  advertised,  \* admission.json is there, naming the declaration there now
  clock,       \* what the receiver's clock and file system let it advertise
  \* the receiver
  phase,       \* its process and its locks
  binds,       \* how often the spool was bound
  closed,      \* its inbox is closed
  closing,     \* where the thread that closes it is
  sweep,       \* the offers that thread has listed and not yet taken
  courier,     \* what the courier is doing
  listed,      \* the offers it has listed and not yet looked at
  queue,       \* the messages in the inbox
  owed,        \* those taken whose reply the inbox still has
  replies,     \* the replies a close has yet to give
  hand,        \* those a receiving thread holds
  held,        \* those whose `Hold` has the claim
  inside,      \* what is being done under the inbox's lock
  settling,    \* the answers on their way
  \* the senders
  at,          \* where each one is
  call,        \* the call it is in
  admits,      \* what admission means, as its advertisement said
  told,        \* what it has been told
  published,   \* those that have published a deadline
  waited,      \* those whose bounded wait has passed
  overdue,     \* those whose deadline has passed
  \* the world
  faults,      \* operations the file system may still refuse
  had,         \* history: the messages taken, and not handed back
  given,       \* history: those whose answer the receiver gave
  excused      \* history: those something happened to that can lose them

dir == <<files, answer, closedFile, advertised, clock>>
inbox == <<closed, queue, owed, replies, hand, held, inside>>
serving == <<phase, binds, courier, listed>>
closer == <<closing, sweep>>
receiver == <<inbox, serving, closer, settling>>
sender == <<at, call, admits, told, published, waited, overdue>>
world == <<had, given, excused>>
vars == <<dir, receiver, sender, faults, world>>

----------------------------------------------------------------------------
(* The directory. *)

Suffixes == {"offer", "taken", "admitted", "claimed", "deadline", "expired"}
Bodies == {"answered", "let go", "closed", "refused"}
Nothing == "nothing"

Has(m, f) == f \in files[m]
Becomes(m, fs) == files' = [files EXCEPT ![m] = fs]
Create(m, f) == Becomes(m, files[m] \cup {f})
Remove(m, f) == Becomes(m, files[m] \ {f})
TakeOver(m) == Becomes(m, (files[m] \ {"offer"}) \cup {"taken"})

Clutter == {"taken", "admitted", "claimed", "deadline", "expired"}
Discard(m) == Becomes(m, files[m] \ Clutter)

\* The file system refuses one operation.
Refused(what) == what \in Refusable /\ faults > 0 /\ faults' = faults - 1
Fine == UNCHANGED faults

Offered == {m \in Messages : Has(m, "offer")}
Exposed == {m \in Messages : at[m] \notin {"start", "write"} /\ ~Has(m, "offer")}
Bound == phase \in {"binding", "serving", "leaving"}
Alive == phase # "gone"

\* `advertises`: the advertisement is this receiver's while its lock is held.
Advertises == IF advertised /\ Bound THEN clock ELSE "rename"

Init ==
  /\ files = [m \in Messages |-> {}]
  /\ answer = [m \in Messages |-> Nothing]
  /\ closedFile = FALSE /\ advertised = FALSE
  /\ clock \in Clocks
  /\ phase = "gone" /\ binds = 0
  /\ closed = FALSE /\ closing = "no" /\ sweep = {}
  /\ courier = [does |-> "nothing"] /\ listed = {}
  /\ queue = {} /\ owed = {} /\ replies = {} /\ hand = {} /\ held = {}
  /\ inside = [does |-> "nothing"]
  /\ settling = [m \in Messages |-> [does |-> "nothing"]]
  /\ at = [m \in Messages |-> "start"]
  /\ call = [m \in Messages |-> "offer"]
  /\ admits = [m \in Messages |-> "unknown"]
  /\ told = [m \in Messages |-> Nothing]
  /\ published = {} /\ waited = {} /\ overdue = {}
  /\ faults = Faults
  /\ had = {} /\ given = {} /\ excused = {}

----------------------------------------------------------------------------
(* A sender: `Exchange`.  Its loops come back to "look". *)

Goes(m, to) == at' = [at EXCEPT ![m] = to]

\* The call returns `what`; the exchange it ends has a taken file to remove.
Tell(m, what) == Goes(m, "ending") /\ told' = [told EXCEPT ![m] = what]

Steps(m, from, to) == at[m] = from /\ Goes(m, to)
Looking == UNCHANGED <<receiver, world, faults, answer, closedFile, advertised, clock>>
Waiting == UNCHANGED <<waited, overdue>>
SameCall == UNCHANGED <<call, admits, published>>

\* `Exchange::offer`: nothing is offered to a receiver that closed.
Start(m) ==
  /\ at[m] = "start"
  /\ \/ ~closedFile /\ Goes(m, "write") /\ UNCHANGED told
     \/ closedFile /\ Goes(m, "over") /\ told' = [told EXCEPT ![m] = "closed"]
  /\ Looking /\ Waiting /\ SameCall /\ UNCHANGED files

WriteOffer(m) ==
  /\ Steps(m, "write", "look")
  /\ Create(m, "offer")
  /\ Looking /\ Waiting /\ SameCall /\ UNCHANGED told

\* The answer is read and removed; without one each call looks further.
ReadAnswer(m, otherwise) ==
  \/ /\ answer[m] # Nothing
     /\ answer' = [answer EXCEPT ![m] = Nothing]
     /\ Tell(m, answer[m])
  \/ /\ answer[m] = Nothing
     /\ Goes(m, otherwise)
     /\ UNCHANGED <<answer, told>>

Further(m) ==
  CASE call[m] = "offer" -> "seek"
    [] call[m] = "until" /\ m \in published -> "expired?"
    [] OTHER -> "held?"

Look(m) ==
  /\ at[m] = "look"
  /\ ReadAnswer(m, Further(m))
  /\ Waiting /\ SameCall
  /\ UNCHANGED <<receiver, world, faults, files, closedFile, advertised, clock>>

\* The loop of `offer`: is the message still offered, and who has it if not.
Seek(m) ==
  /\ at[m] = "seek"
  /\ Goes(m, IF Has(m, "offer") THEN "closed?"
             ELSE IF admits[m] = "unknown" THEN "whose?" ELSE "admitted?")
  /\ Looking /\ Waiting /\ SameCall /\ UNCHANGED <<files, told>>

ClosedYet_WithoutABound(m) ==
  /\ at[m] = "closed?"
  /\ Goes(m, IF closedFile THEN "unoffer, closed" ELSE "look")
  /\ Looking /\ Waiting /\ SameCall /\ UNCHANGED <<files, told>>

\* Still offered: taken back once the receiver closed or the wait has passed.
ClosedYet(m) ==
  /\ at[m] = "closed?"
  /\ Goes(m, IF closedFile THEN "unoffer, closed" ELSE IF m \in waited THEN "unoffer" ELSE "look")
  /\ Looking /\ Waiting /\ SameCall /\ UNCHANGED <<files, told>>

\* `withdraw`, which the courier's rename or the file system can refuse.
Unoffer(m) ==
  /\ at[m] \in {"unoffer", "unoffer, closed"}
  /\ \/ /\ Has(m, "offer") /\ Fine
        /\ Remove(m, "offer")
        /\ Tell(m, IF at[m] = "unoffer" THEN "elapsed" ELSE "closed")
     \/ /\ ~Has(m, "offer") /\ Fine
        /\ Goes(m, "look")
        /\ UNCHANGED <<files, told>>
     \/ /\ Has(m, "offer") /\ Refused("withdrawal")
        /\ IF m \in waited THEN Tell(m, "unclaimable") ELSE Goes(m, "look") /\ UNCHANGED told
        /\ UNCHANGED files
  /\ Waiting /\ SameCall
  /\ UNCHANGED <<receiver, world, answer, closedFile, advertised, clock>>

\* The receiver that took it says, once, what admission means.
Whose(m) ==
  /\ at[m] = "whose?"
  /\ admits' = [admits EXCEPT ![m] = Advertises]
  /\ IF Advertises = "rename"
     THEN Goes(m, "ready") /\ call' = [call EXCEPT ![m] = "none"]
     ELSE Goes(m, "admitted?") /\ UNCHANGED call
  /\ Looking /\ Waiting /\ UNCHANGED <<files, told, published>>

\* `offer` returns, the message being its receiver's.
Admitted(m) ==
  /\ Goes(m, "ready")
  /\ call' = [call EXCEPT ![m] = "none"]
  /\ UNCHANGED <<told, admits, published>>

AdmittedYet(m) ==
  /\ at[m] = "admitted?"
  /\ IF Has(m, "admitted") THEN Admitted(m) ELSE Goes(m, "held?") /\ SameCall /\ UNCHANGED told
  /\ Looking /\ Waiting /\ UNCHANGED files

\* What each call does while the receiver has the message.
Meanwhile(m) ==
  CASE call[m] = "offer" /\ m \in waited -> "claim"
    [] call[m] = "until" -> "publish"
    [] OTHER -> "look"

HeldYet_TrustsTheFile(m) ==
  /\ at[m] = "held?"
  /\ Goes(m, IF Has(m, "taken") THEN Meanwhile(m) ELSE "ended")
  /\ Looking /\ Waiting /\ SameCall /\ UNCHANGED <<files, told>>

\* `gone`, which every wait asks: the taken file, then the lock.
HeldYet(m) ==
  /\ at[m] = "held?"
  /\ Goes(m, IF Has(m, "taken") THEN "bound?" ELSE "ended")
  /\ Looking /\ Waiting /\ SameCall /\ UNCHANGED <<files, told>>

BoundYet(m) ==
  /\ at[m] = "bound?"
  /\ IF ~Bound THEN Goes(m, "ended") /\ SameCall /\ UNCHANGED told
     ELSE IF call[m] = "offer" /\ m \in waited /\ admits[m] = "unverifiable"
     THEN Admitted(m)
     ELSE Goes(m, Meanwhile(m)) /\ SameCall /\ UNCHANGED told
  /\ Looking /\ Waiting /\ UNCHANGED files

Ended_WithoutALook(m) == Steps(m, "ended", "clear") /\ Looking /\ Waiting /\ SameCall /\ UNCHANGED <<files, told>>

\* `ended`: the answer, if it came between two looks, or why there is none.
Ended(m) ==
  /\ at[m] = "ended"
  /\ ReadAnswer(m, "clear")
  /\ Waiting /\ SameCall
  /\ UNCHANGED <<receiver, world, faults, files, closedFile, advertised, clock>>

Clear(m) ==
  /\ Steps(m, "clear", "why?")
  /\ Remove(m, "taken")
  /\ Looking /\ Waiting /\ SameCall /\ UNCHANGED told

Why(m) ==
  /\ at[m] = "why?"
  /\ Tell(m, IF closedFile THEN "closed" ELSE "abandoned")
  /\ Looking /\ Waiting /\ SameCall /\ UNCHANGED files

----------------------------------------------------------------------------
(* A sender takes its message back past admission: the claim file. *)

\* It has the claim, does not have it, or cannot tell.
Withdrawn(m) ==
  Tell(m, CASE call[m] = "offer" -> "elapsed"
            [] call[m] = "until" -> "expired"
            [] call[m] = "withdraw" -> "withdrawn")
Undecided(m) ==
  CASE call[m] = "offer" -> Tell(m, "unclaimable") /\ SameCall
    [] call[m] = "until" -> Goes(m, "look") /\ SameCall /\ UNCHANGED told
    [] call[m] = "withdraw" -> Admitted(m)
Kept(m) ==
  IF call[m] = "offer" THEN Goes(m, "kept") /\ SameCall /\ UNCHANGED told ELSE Undecided(m)

Claim(m) ==
  /\ at[m] = "claim"
  /\ \/ /\ ~Has(m, "claimed") /\ Fine
        /\ Create(m, "claimed")
        /\ Goes(m, "answered?") /\ SameCall /\ UNCHANGED told
     \/ Has(m, "claimed") /\ Fine /\ Kept(m) /\ UNCHANGED files
     \/ ~Has(m, "claimed") /\ Refused("claim") /\ Undecided(m) /\ UNCHANGED files
  /\ Waiting
  /\ UNCHANGED <<receiver, world, answer, closedFile, advertised, clock>>

AnsweredYet_NotAsked(m) ==
  /\ at[m] = "answered?"
  /\ Withdrawn(m)
  /\ Looking /\ Waiting /\ SameCall /\ UNCHANGED files

\* A claim made after the answer was written is given back.
AnsweredYet(m) ==
  /\ at[m] = "answered?"
  /\ IF answer[m] # Nothing THEN Goes(m, "give back") /\ UNCHANGED told
     ELSE IF call[m] = "offer" /\ admits[m] = "then taken"
     THEN Goes(m, "unadmitted?") /\ UNCHANGED told
     ELSE Withdrawn(m)
  /\ Looking /\ Waiting /\ SameCall /\ UNCHANGED files

\* `withdraw_unadmitted`: so is one made after an admission that cannot be withdrawn.
UnadmittedYet(m) ==
  /\ at[m] = "unadmitted?"
  /\ IF Has(m, "admitted") THEN Goes(m, "give back") /\ UNCHANGED told ELSE Withdrawn(m)
  /\ Looking /\ Waiting /\ SameCall /\ UNCHANGED files

GiveBack(m) ==
  /\ at[m] = "give back"
  /\ Remove(m, "claimed")
  /\ Kept(m)
  /\ excused' = IF admits[m] = "then taken" THEN excused \cup {m} ELSE excused
  /\ Waiting
  /\ UNCHANGED <<receiver, faults, had, given, answer, closedFile, advertised, clock>>

\* The bounded wait has passed and the receiver has the claim.
KeptAdmitted(m) ==
  /\ at[m] = "kept"
  /\ IF Has(m, "admitted") THEN Admitted(m) ELSE Goes(m, "unsettled?") /\ SameCall /\ UNCHANGED told
  /\ Looking /\ Waiting /\ UNCHANGED files

Unsettled(m) ==
  /\ at[m] = "unsettled?"
  /\ Tell(m, IF answer[m] # Nothing THEN answer[m] ELSE "unsettled")
  /\ answer' = [answer EXCEPT ![m] = Nothing]
  /\ Waiting /\ SameCall
  /\ UNCHANGED <<receiver, world, faults, files, closedFile, advertised, clock>>

----------------------------------------------------------------------------
(* What a sender does with the offer it was handed. *)

Calls(m, c, to) ==
  /\ Steps(m, "ready", to)
  /\ call' = [call EXCEPT ![m] = c]
  /\ Looking /\ Waiting /\ UNCHANGED <<files, told, admits, published>>

Wait(m) == Calls(m, "wait", "look")
WaitUntil(m) == Calls(m, "until", "look")
Withdraw(m) == admits[m] = "acknowledged" /\ Calls(m, "withdraw", "claim")

DropOffer(m) ==
  /\ at[m] = "ready"
  /\ Tell(m, "unheard")
  /\ Looking /\ Waiting /\ SameCall /\ UNCHANGED files

\* `wait_until`: dropped past the deadline, which the receiver wrote down.
ExpiredYet(m) ==
  /\ at[m] = "expired?"
  /\ IF Has(m, "expired") THEN Discard(m) /\ Tell(m, "expired")
                          ELSE Goes(m, "held?") /\ UNCHANGED <<files, told>>
  /\ Looking /\ Waiting /\ SameCall

Publish_OnlyPublishes(m) ==
  /\ Steps(m, "publish", "look")
  /\ Fine
  /\ Create(m, "deadline") /\ published' = published \cup {m}
  /\ Waiting
  /\ UNCHANGED <<receiver, world, answer, closedFile, advertised, clock, call, admits, told>>

\* The deadline is published once, and past it every look tries to withdraw.
Publish(m) ==
  /\ Steps(m, "publish", IF m \in overdue /\ admits[m] = "acknowledged" THEN "claim" ELSE "look")
  /\ IF m \in published \/ admits[m] # "acknowledged"
     THEN Fine /\ UNCHANGED <<files, published>>
     ELSE \/ Fine /\ Create(m, "deadline") /\ published' = published \cup {m}
          \/ Refused("deadline") /\ UNCHANGED <<files, published>>
  /\ Waiting
  /\ UNCHANGED <<receiver, world, answer, closedFile, advertised, clock, call, admits, told>>

\* `Exchange::drop`.
End(m) ==
  /\ Steps(m, "ending", "over")
  /\ Remove(m, "taken")
  /\ Looking /\ Waiting /\ SameCall /\ UNCHANGED told

WaitPasses(m) ==
  /\ at[m] \notin {"start", "over"} /\ call[m] = "offer" /\ m \notin waited
  /\ waited' = waited \cup {m}
  /\ Looking /\ SameCall /\ UNCHANGED <<files, at, told, overdue>>

DeadlinePasses(m) ==
  /\ at[m] # "over" /\ call[m] = "until" /\ m \notin overdue
  /\ overdue' = overdue \cup {m}
  /\ Looking /\ SameCall /\ UNCHANGED <<files, at, told, waited>>

\* Its process ends where it is: nothing of the message is removed.
Dies(m) ==
  /\ at[m] \notin {"start", "ending", "over"}
  /\ Goes(m, "over")
  /\ told' = [told EXCEPT ![m] = "unheard"]
  /\ Looking /\ Waiting /\ SameCall /\ UNCHANGED files

Proceeds(m) ==
  \/ Start(m) \/ WriteOffer(m) \/ Look(m) \/ Seek(m) \/ ClosedYet(m) \/ Unoffer(m)
  \/ Whose(m) \/ AdmittedYet(m) \/ HeldYet(m) \/ BoundYet(m) \/ Ended(m) \/ Clear(m) \/ Why(m)
  \/ Claim(m) \/ AnsweredYet(m) \/ UnadmittedYet(m) \/ GiveBack(m) \/ KeptAdmitted(m)
  \/ Unsettled(m) \/ ExpiredYet(m) \/ Publish(m) \/ End(m)

TimePasses(m) == WaitPasses(m) \/ DeadlinePasses(m)

Asks(m) == Wait(m) \/ WaitUntil(m) \/ Withdraw(m) \/ DropOffer(m)

----------------------------------------------------------------------------
(* `Hold::settle`: what becomes of a message is written for its sender. *)

NotSettling == [does |-> "nothing"]
Settling(by) == {m \in Messages : settling[m] # NotSettling /\ settling[m].by = by}
Settle(m, body, by) ==
  settling' = [settling EXCEPT ![m] = [does |-> "claim", body |-> body, by |-> by]]
Settles(m, from, to) ==
  /\ settling[m].does = from
  /\ settling' = [settling EXCEPT ![m].does = to]
Writing == UNCHANGED <<sender, serving, closer, given, had, closedFile, advertised, clock>>
Inside == UNCHANGED <<closed, queue, owed, replies, hand, inside>>

\* Claimed first: one its sender claimed, or that cannot be, is not answered.
SettleClaim(m) ==
  /\ settling[m].does = "claim"
  /\ \/ m \in held /\ Settles(m, "claim", "look") /\ Fine /\ UNCHANGED <<files, excused>>
     \/ /\ m \notin held /\ ~Has(m, "claimed")
        /\ Create(m, "claimed") /\ Settles(m, "claim", "look") /\ Fine /\ UNCHANGED excused
     \/ /\ m \notin held /\ Has(m, "claimed")
        /\ Settles(m, "claim", "remove") /\ Fine /\ UNCHANGED <<files, excused>>
     \/ /\ m \notin held /\ ~Has(m, "claimed")
        /\ Settles(m, "claim", "remove") /\ Refused("claim")
        /\ excused' = excused \cup {m} /\ UNCHANGED files
  /\ Writing /\ Inside /\ UNCHANGED <<held, answer>>

\* Without its taken file nobody reads an answer written now.
SettleLook(m) ==
  /\ Settles(m, "look", IF Has(m, "taken") THEN "write" ELSE "remove")
  /\ Writing /\ Inside /\ UNCHANGED <<held, files, answer, faults, excused>>

SettleWrite(m) ==
  /\ Settles(m, "write", "remove")
  /\ \/ answer' = [answer EXCEPT ![m] = settling[m].body] /\ Fine /\ UNCHANGED excused
     \/ Refused("answer") /\ excused' = excused \cup {m} /\ UNCHANGED answer
  /\ Writing /\ Inside /\ UNCHANGED <<held, files>>

\* `discard`: the taken file first, and the claim after it.
SettleRemove(m) ==
  /\ Settles(m, "remove", "clear")
  /\ Remove(m, "taken")
  /\ Writing /\ Inside /\ UNCHANGED <<held, answer, faults, excused>>

SettleClear(m) ==
  /\ settling[m].does = "clear"
  /\ settling' = [settling EXCEPT ![m] = NotSettling]
  /\ Discard(m)
  /\ held' = held \ {m}
  /\ Writing /\ Inside /\ UNCHANGED <<answer, faults, excused>>

SettleSteps(m) ==
  SettleClaim(m) \/ SettleLook(m) \/ SettleWrite(m) \/ SettleRemove(m) \/ SettleClear(m)

----------------------------------------------------------------------------
(* The courier: `serve` and `take_offer`. *)

Idle == [does |-> "nothing"]
Resting == courier = Idle /\ Settling("courier") = {}
Serving == UNCHANGED <<sender, closer, phase, binds, answer, closedFile, advertised, clock, had, given>>

List ==
  /\ phase = "serving" /\ Resting /\ listed = {} /\ ~closed
  /\ Offered # {}
  /\ listed' = Offered
  /\ Serving /\ UNCHANGED <<files, inbox, settling, courier, faults, excused>>

\* The offers in the order they were minted; one withdrawn first is passed over.
Rename ==
  /\ Resting /\ listed # {}
  /\ LET m == Min(listed) IN
     /\ listed' = listed \ {m}
     /\ IF Has(m, "offer") THEN TakeOver(m) /\ courier' = [does |-> "read", m |-> m]
                           ELSE UNCHANGED <<files, courier>>
  /\ Serving /\ UNCHANGED <<inbox, settling, faults, excused>>

\* An offer that is gone, or is not a message of this receiver's, is refused.
Read ==
  /\ courier.does = "read"
  /\ \/ /\ Has(courier.m, "taken")
        /\ courier' = [courier EXCEPT !.does = "offer"] /\ UNCHANGED settling
     \/ courier' = Idle /\ Settle(courier.m, "refused", "courier")
  /\ Serving /\ UNCHANGED <<files, inbox, listed, faults, excused>>

\* `Shared::offer`, under the inbox's lock: acknowledged, and then queued.
Admit ==
  /\ courier.does = "offer" /\ inside = Idle
  /\ courier' = Idle
  /\ \/ closed /\ Settle(courier.m, "closed", "courier") /\ Fine /\ UNCHANGED <<files, queue>>
     \/ /\ ~closed /\ Fine
        /\ Create(courier.m, "admitted")
        /\ queue' = queue \cup {courier.m}
        /\ UNCHANGED settling
     \/ /\ ~closed /\ Refused("acknowledgement")
        /\ Settle(courier.m, "refused", "courier")
        /\ UNCHANGED <<files, queue>>
  /\ Serving /\ UNCHANGED <<closed, owed, replies, hand, held, inside, listed, excused>>

\* The inbox closed or the spool was dropped: the advertisement goes, then the locks.
Retract ==
  /\ phase = "serving" /\ Resting /\ listed = {}
  /\ advertised' = FALSE
  /\ phase' = "leaving"
  /\ excused' = excused \cup Exposed
  /\ UNCHANGED <<sender, inbox, closer, settling, binds, courier, listed, files, answer,
                 closedFile, clock, faults, had, given>>

Unlock ==
  /\ phase = "leaving"
  /\ phase' = "unbound"
  /\ UNCHANGED <<sender, inbox, closer, settling, binds, courier, listed, dir, faults, world>>

----------------------------------------------------------------------------
(* The receiver's threads, under the inbox's lock: `Hold`'s gates. *)

\* Past the deadline its sender published, on the clock the two share.
Due(m) == Has(m, "deadline") /\ m \in overdue

Receiving == UNCHANGED <<sender, serving, closer, settling, closed, replies,
                         answer, closedFile, advertised, clock, given, excused>>
Enter(what, m) == inside = Idle /\ inside' = [does |-> what, m |-> m]
Within(what, m) == inside.does = what /\ inside.m = m
Leave == inside' = Idle

\* A take comes to `m`, or a selective one passes it over.
Take(m) ==
  /\ m \in queue /\ Enter("claim", m)
  /\ Receiving /\ UNCHANGED <<files, queue, owed, hand, held, faults, had>>

Pass(m) ==
  /\ m \in queue /\ Enter(IF Due(m) THEN "claim" ELSE "glance", m)
  /\ Receiving /\ UNCHANGED <<files, queue, owed, hand, held, faults, had>>

\* `lapsed`: a claim the receiver does not hold is its sender's withdrawal.
Glance(m) ==
  /\ Within("glance", m) /\ Leave
  /\ IF m \notin held /\ Has(m, "claimed") THEN Discard(m) /\ queue' = queue \ {m}
                                            ELSE UNCHANGED <<files, queue>>
  /\ Receiving /\ UNCHANGED <<owed, hand, held, faults, had>>

ClaimForReceiver(m) ==
  /\ Within("claim", m)
  /\ \/ /\ m \in held /\ Fine
        /\ inside' = [does |-> "expire", m |-> m]
        /\ UNCHANGED <<files, queue, held>>
     \/ /\ m \notin held /\ ~Has(m, "claimed") /\ Fine
        /\ Create(m, "claimed") /\ held' = held \cup {m}
        /\ inside' = [does |-> "expire", m |-> m]
        /\ UNCHANGED queue
     \/ /\ m \notin held /\ Has(m, "claimed") /\ Fine
        /\ Discard(m) /\ queue' = queue \ {m}
        /\ Leave /\ UNCHANGED held
     \/ /\ m \notin held /\ ~Has(m, "claimed") /\ Refused("claim")
        /\ Leave /\ UNCHANGED <<files, queue, held>>
  /\ Receiving /\ UNCHANGED <<owed, hand, had>>

Expire_DropsUntold(m) ==
  /\ Within("expire", m) /\ Leave
  /\ \/ /\ ~Due(m) /\ Fine
        /\ queue' = queue \ {m}
        /\ owed' = owed \cup {m} /\ hand' = hand \cup {m} /\ had' = had \cup {m}
        /\ UNCHANGED <<files, held>>
     \/ /\ Due(m) /\ Fine
        /\ queue' = queue \ {m} /\ held' = held \ {m}
        /\ UNCHANGED <<files, owed, hand, had>>
  /\ Receiving

\* The claim won: the message is taken, or dropped past its sender's deadline.
Expire(m) ==
  /\ Within("expire", m) /\ Leave
  /\ \/ /\ ~Due(m) /\ Fine
        /\ queue' = queue \ {m}
        /\ owed' = owed \cup {m} /\ hand' = hand \cup {m} /\ had' = had \cup {m}
        /\ UNCHANGED <<files, held>>
     \/ /\ Due(m) /\ Fine
        /\ Create(m, "expired")
        /\ queue' = queue \ {m} /\ held' = held \ {m}
        /\ UNCHANGED <<owed, hand, had>>
     \/ Due(m) /\ Refused("expiry") /\ UNCHANGED <<files, queue, held, owed, hand, had>>
  /\ Receiving

\* `Delivered::release`: expired, or its claim let go of and queued again.
HandsOver(m) == m \in hand /\ hand' = hand \ {m} /\ owed' = owed \ {m}

Release(m) ==
  /\ HandsOver(m)
  /\ \/ /\ m \notin owed /\ Fine /\ inside = Idle
        /\ UNCHANGED <<files, queue, held, had, inside>>
     \/ /\ m \in owed /\ ~Due(m) /\ Fine
        /\ Enter("let go", m)
        /\ UNCHANGED <<files, queue, held, had>>
     \/ /\ m \in owed /\ Due(m) /\ Fine /\ inside = Idle
        /\ Create(m, "expired")
        /\ held' = held \ {m} /\ had' = had \ {m}
        /\ UNCHANGED <<queue, inside>>
     \/ /\ m \in owed /\ Due(m) /\ Refused("expiry") /\ inside = Idle
        /\ queue' = queue \cup {m} /\ had' = had \ {m}
        /\ UNCHANGED <<files, held, inside>>
  /\ Receiving

\* A claim the file system keeps is still the receiver's.
LetGo(m) ==
  /\ Within("let go", m) /\ Leave
  /\ queue' = queue \cup {m} /\ had' = had \ {m}
  /\ \/ Fine /\ Remove(m, "claimed") /\ held' = held \ {m}
     \/ Refused("release") /\ UNCHANGED <<files, held>>
  /\ Receiving /\ UNCHANGED <<owed, hand>>

\* `Delivered::answer`, or the claim dropped: the inbox gives the reply up once.
Replies(m, body) ==
  /\ inside = Idle
  /\ HandsOver(m)
  /\ IF m \in owed THEN Settle(m, body, "receiver") ELSE UNCHANGED settling
  /\ UNCHANGED <<sender, serving, closer, dir, closed, queue, replies, held, inside,
                 faults, had, excused>>

Answer(m) == Replies(m, "answered") /\ given' = IF m \in owed THEN given \cup {m} ELSE given
Drop(m) == Replies(m, "let go") /\ UNCHANGED given

Receive(m) ==
  \/ Take(m) \/ Pass(m) \/ Release(m) \/ Answer(m) \/ Drop(m)
  \/ Glance(m) \/ ClaimForReceiver(m) \/ Expire(m) \/ LetGo(m)

----------------------------------------------------------------------------
(* `Shared::close`: the hook that closes the spool, and then the replies. *)

Closes(from, to) == closing = from /\ closing' = to
Closing == UNCHANGED <<sender, serving, closed, queue, owed, hand, held, inside,
                       answer, advertised, clock, had, given>>

Close ==
  /\ phase \in {"serving", "leaving", "unbound"} /\ inside = Idle /\ ~closed
  /\ Closes("no", "record")
  /\ closed' = TRUE
  /\ replies' = queue \cup owed
  /\ queue' = {} /\ owed' = {}
  /\ UNCHANGED <<sender, serving, sweep, settling, dir, hand, held, inside, faults, world>>

\* `close_spool`: recorded for senders yet to come, and no error stops it.
Record ==
  /\ Closes("record", "list")
  /\ \/ closedFile' = TRUE /\ Fine /\ UNCHANGED excused
     \/ Refused("close") /\ excused' = Messages /\ UNCHANGED closedFile
  /\ Closing /\ UNCHANGED <<replies, sweep, settling, files>>

ListLast ==
  /\ Closes("list", "sweep")
  /\ sweep' = Offered
  /\ Closing /\ UNCHANGED <<replies, settling, files, closedFile, faults, excused>>

\* Each offer still waiting is answered closed, in the order they were minted.
Sweep ==
  /\ Closes("sweep", "sweep") /\ sweep # {} /\ Settling("closer") = {}
  /\ LET m == Min(sweep) IN
     /\ sweep' = sweep \ {m}
     /\ IF Has(m, "offer") THEN TakeOver(m) /\ Settle(m, "closed", "closer")
                           ELSE UNCHANGED <<files, settling>>
  /\ Closing /\ UNCHANGED <<replies, closedFile, faults, excused>>

Reply(m) ==
  /\ Closes("sweep", "sweep") /\ sweep = {} /\ Settling("closer") = {}
  /\ m \in replies
  /\ replies' = replies \ {m}
  /\ Settle(m, "closed", "closer")
  /\ Closing /\ UNCHANGED <<sweep, files, closedFile, faults, excused>>

----------------------------------------------------------------------------
(* The receiver's process. *)

\* `Spool::bind`: the locks are free, and what a dead receiver left is replaced.
Bind ==
  /\ phase \in {"gone", "unbound"} /\ ~closed /\ binds < Lives
  /\ phase' = "binding" /\ binds' = binds + 1
  /\ advertised' = TRUE
  /\ UNCHANGED <<sender, inbox, closer, settling, courier, listed, files, answer, closedFile,
                 clock, faults, world>>

Reopen ==
  /\ phase = "binding" /\ phase' = "serving"
  /\ closedFile' = FALSE
  /\ UNCHANGED <<sender, inbox, closer, settling, binds, courier, listed, files, answer,
                 advertised, clock, faults, world>>

\* The process ends, its locks are free, and what it held in memory is gone.
Crash ==
  /\ Alive
  /\ phase' = "gone"
  /\ closed' = FALSE /\ closing' = "no" /\ sweep' = {}
  /\ courier' = Idle /\ listed' = {}
  /\ queue' = {} /\ owed' = {} /\ replies' = {} /\ hand' = {} /\ held' = {}
  /\ inside' = Idle
  /\ settling' = [m \in Messages |-> NotSettling]
  /\ excused' = excused \cup Exposed
  /\ UNCHANGED <<sender, dir, binds, faults, had, given>>

Courier == List \/ Rename \/ Read \/ Admit \/ Unlock \/ Reopen \/ (closed /\ Retract)
Closer == Record \/ ListLast \/ Sweep \/ \E m \in Messages : Reply(m)

Next ==
  \/ \E m \in Messages : Proceeds(m) \/ TimePasses(m) \/ Asks(m) \/ Dies(m) \/ Receive(m) \/ SettleSteps(m)
  \/ Courier \/ Retract \/ Closer
  \/ Close \/ Bind \/ Crash

Spec == Init /\ [][Next]_vars

\* A sender that is waiting looks again, and time passes.  A receiver that is
\* bound serves what was offered and ends what it began: it need not take, answer
\* or close.
FairSpec ==
  /\ Spec
  /\ WF_vars(Courier) /\ WF_vars(Closer)
  /\ \A m \in Messages :
       /\ WF_vars(Proceeds(m)) /\ WF_vars(TimePasses(m)) /\ WF_vars(SettleSteps(m))

----------------------------------------------------------------------------
\* What a sender is told that takes its message back.
GaveUp == {"elapsed", "expired", "withdrawn"}

DirectoryTyped ==
  /\ files \in [Messages -> SUBSET Suffixes]
  /\ answer \in [Messages -> Bodies \cup {Nothing}]
  /\ closedFile \in BOOLEAN /\ advertised \in BOOLEAN /\ clock \in Clocks

SendersTyped ==
  /\ at \in [Messages -> {"start", "write", "look", "seek", "closed?", "unoffer", "unoffer, closed",
                         "whose?", "admitted?", "held?", "bound?", "ended", "clear", "why?", "claim",
                         "answered?", "unadmitted?", "give back", "kept", "unsettled?", "ready",
                         "expired?", "publish", "ending", "over"}]
  /\ call \in [Messages -> {"offer", "none", "wait", "until", "withdraw"}]
  /\ admits \in [Messages -> Clocks \cup {"unknown", "rename"}]
  /\ told \in [Messages -> Bodies \cup GaveUp \cup
                          {Nothing, "abandoned", "unheard", "unclaimable", "unsettled"}]
  /\ published \subseteq Messages /\ waited \subseteq Messages /\ overdue \subseteq Messages

ReceiverTyped ==
  /\ phase \in {"gone", "binding", "serving", "leaving", "unbound"} /\ binds \in 0..Lives
  /\ closed \in BOOLEAN /\ closing \in {"no", "record", "list", "sweep"}
  /\ courier \in [does : {"read", "offer"}, m : Messages] \cup {Idle}
  /\ inside \in [does : {"claim", "glance", "expire", "let go"}, m : Messages] \cup {Idle}
  /\ settling \in [Messages -> [does : {"claim", "look", "write", "remove", "clear"}, body : Bodies,
                               by : {"courier", "receiver", "closer"}] \cup {NotSettling}]
  /\ sweep \subseteq Messages /\ listed \subseteq Messages /\ queue \subseteq Messages
  /\ owed \subseteq hand /\ replies \subseteq Messages /\ hand \subseteq Messages
  /\ held \subseteq Messages

\* Every variable has its type: the one type invariant of the module.
TypeOK ==
  /\ DirectoryTyped /\ SendersTyped /\ ReceiverTyped
  /\ had \subseteq Messages /\ given \subseteq Messages /\ excused \subseteq Messages
  /\ faults \in 0..Faults

\* Taking a message and withdrawing it never both succeed, however its sender came
\* to withdraw it (docs/inbox.md, "never both succeed and never both fail"): not by
\* the wait that bounds an offer, nor by a deadline, nor by asking.
NeverHadOnceGivenUp == \A m \in had : told[m] \notin GaveUp

\* A sender is told an answer only when its receiver gave one; a message that was
\* answered has a sender that is told so; and one is told its message is lost only for a
\* reason docs/inbox.md lists: the receiver let the spool go, the file system refused
\* something, or a claim was given back.
AnswersArrive ==
  \A m \in Messages :
    /\ told[m] = "answered" => m \in given
    /\ m \in given \ excused => told[m] \in {Nothing, "answered", "unheard", "unclaimable"}
    /\ told[m] = "abandoned" => m \in excused

\* A taken file says that its receiver has the message, and so it does: it is being
\* carried in, queued, taken or answered, or its sender is told it expired.
TakenIsAccountedFor ==
  \A m \in Messages \ excused : Has(m, "taken") =>
    \/ m \in queue \cup hand \cup replies
    \/ courier # Idle /\ courier.m = m
    \/ inside # Idle /\ inside.m = m
    \/ settling[m] # NotSettling
    \/ Has(m, "expired")

----------------------------------------------------------------------------
Told(m) == told[m] # Nothing

\* `offer` returns within its bound in every case, whoever is bound and whatever it does.
OfferReturns ==
  \A m \in Messages : (at[m] = "write") ~> (call[m] # "offer" \/ Told(m))

\* `wait_until` does not outlast its deadline but for a receiver that has the message,
\* or one it cannot withdraw it from.
DeadlineEndsTheWait ==
  \A m \in Messages : (call[m] = "until") ~>
    (Told(m) \/ Has(m, "claimed") \/ admits[m] # "acknowledged")

\* A receiver that goes away leaves no sender waiting for it, while none has bound the
\* spool in its place.
GoneIsNoticed ==
  \A m \in Messages : (call[m] \in {"wait", "until"} /\ ~Bound) ~> (Told(m) \/ Bound)

\* What docs/inbox.md says of a lost message: one that was taken is waited for only
\* while the receiver that took it stays bound.  TLC refutes it: another receiver that
\* binds the spool between two looks of the sender holds the lock just as well.
OrphansAreTold ==
  \A m \in Messages : (call[m] = "wait" /\ phase = "gone") ~> Told(m)
=============================================================================
