---------------------------------- MODULE Offer ----------------------------------
(***************************************************************************)
(* Offering a record to the bus (`Bus::send`, and `ask` and `reply`, whose *)
(* offers name a question): it is routed, every validator of every queue   *)
(* it goes to judges it, and only when they all pass is it pushed, queue   *)
(* by queue.  A command validator is told the queue and the question, and  *)
(* may keep its passes in a directory that every offerer shares, under the *)
(* record and the fingerprint of the bar alone; the bar is a file that     *)
(* moves while offers are judged.                                          *)
(***************************************************************************)
EXTENDS Integers, Sequences, FiniteSets, SequencesExt

CONSTANTS
  Offerers,     \* the threads and processes that offer
  Contents,     \* the records there are
  Questions,    \* what an offer may ask or answer, one of them being nothing
  Routes,       \* for each queue offered to, the queues its records go to, in order
  JudgedBy,     \* the validators of each queue, in order
  Commands,     \* of each validator, its command and where that one's passes are kept
  Cached,       \* those that keep their passes
  Whens,        \* which content each judges at all, as pairs
  Bars,         \* the bars there may be
  Passing,      \* which command passes which content in which context under which bar
  NoBar,        \* no fingerprint could be read
  MaxMoves,     \* how often the bar moves
  MaxOffers     \* how many offers each makes

\* A record goes to one queue at least: a route that takes nothing is none
\* (`RouteStep::apply`, layout.rs:1175).
ASSUME OfferAssumption ==
  /\ JudgedBy \in [DOMAIN JudgedBy -> Seq(UNION {ToSet(JudgedBy[q]) : q \in DOMAIN JudgedBy})]
  /\ Routes \in [DOMAIN Routes -> Seq(DOMAIN JudgedBy) \ {<<>>}]
  /\ DOMAIN Routes \subseteq DOMAIN JudgedBy
  /\ NoBar \notin Bars /\ MaxMoves \in Nat /\ MaxOffers \in Nat

VARIABLES
  bar,          \* the bar in force
  moves,        \* how often it has moved
  passes,       \* the passes recorded
  ran,          \* every run of a command that passed, with the bar it had read and the one it found
  kept,         \* the records the queues hold, each with the bars its judging saw
  step,         \* where each offerer is
  offer,        \* the queue it offers to, the content and the question
  turn,         \* the validator, then the queue, whose turn it is
  fingerprint,  \* the bar it read before that validator
  verdict,      \* what they said so far
  inForce,      \* the bars in force since its judging began
  offers        \* how many it has made

offerVars == <<bar, moves, passes, ran, kept, step, offer, turn, fingerprint, verdict, inForce,
               offers>>

Offerable == [to : DOMAIN Routes, content : Contents, about : Questions]

\* The validators of a queue, each with it.
JudgesOf(queue) == [i \in 1..Len(JudgedBy[queue]) |-> <<queue, JudgedBy[queue][i]>>]

\* Every validator of the queue offered to, then those of each other queue it goes to.
Judges(o) ==
  LET route == Routes[o.to]
      joined[i \in 0..Len(route)] ==
        IF i = 0 THEN JudgesOf(o.to)
        ELSE joined[i - 1] \o IF route[i] = o.to THEN <<>> ELSE JudgesOf(route[i])
  IN  joined[Len(route)]

\* The first refusal, else the first trouble, else a pass.
Combined(sofar, said) ==
  IF "refuse" \in {sofar, said} THEN "refuse"
  ELSE IF "unjudged" \in {sofar, said} THEN "unjudged" ELSE "pass"

OfferInit ==
  /\ bar \in Bars /\ moves = 0 /\ passes = {} /\ ran = {} /\ kept = {}
  /\ step = [p \in Offerers |-> "idle"]
  /\ offer = [p \in Offerers |-> CHOOSE o \in Offerable : TRUE]
  /\ turn = [p \in Offerers |-> 1]
  /\ fingerprint = [p \in Offerers |-> NoBar]
  /\ verdict = [p \in Offerers |-> "pass"]
  /\ inForce = [p \in Offerers |-> {}]
  /\ offers = [p \in Offerers |-> 0]

Judging(p) == step[p] \notin {"idle", "pushes"}

BarMoves ==
  /\ moves < MaxMoves /\ moves' = moves + 1
  /\ bar' \in Bars \ {bar}
  /\ inForce' = [p \in Offerers |-> IF Judging(p) THEN inForce[p] \cup {bar'} ELSE inForce[p]]
  /\ UNCHANGED <<passes, ran, kept, step, offer, turn, fingerprint, verdict, offers>>

\* A record the queue or its layout does not take is refused before it is judged.
Begin(p) ==
  /\ step[p] = "idle" /\ offers[p] < MaxOffers
  /\ offers' = [offers EXCEPT ![p] = @ + 1]
  /\ \E o \in Offerable :
       /\ offer' = [offer EXCEPT ![p] = o]
       /\ step' \in {[step EXCEPT ![p] = IF Judges(o) = <<>> THEN "pushes" ELSE "keys"], step}
  /\ turn' = [turn EXCEPT ![p] = 1]
  /\ verdict' = [verdict EXCEPT ![p] = "pass"]
  /\ inForce' = [inForce EXCEPT ![p] = {bar}]
  /\ fingerprint' = [fingerprint EXCEPT ![p] = NoBar]
  /\ UNCHANGED <<bar, moves, passes, ran, kept>>

Judge(p) == Judges(offer[p])[turn[p]][2]
CommandOf(p) == Commands[Judge(p)]

\* What a command is told beside the content: the queue it judges for, and the question.
Context(p) == <<Judges(offer[p])[turn[p]][1], offer[p].about>>

Asked(p) == <<Judge(p), offer[p].content>> \in Whens

\* The bar's fingerprint, as its command prints it now, or fails to.
ReadBar(p) ==
  /\ step[p] = "keys" /\ Asked(p)
  /\ \E read \in IF Judge(p) \in Cached THEN {bar, NoBar} ELSE {NoBar} :
       /\ fingerprint' = [fingerprint EXCEPT ![p] = read]
       /\ step' = [step EXCEPT ![p] = IF read = NoBar THEN "runs" ELSE "looks"]
  /\ UNCHANGED <<bar, moves, passes, ran, kept, offer, turn, verdict, inForce, offers>>

\* What a pass is kept under: the context is no part of it.
PassKey_WithoutTheBar(p) == <<CommandOf(p), offer[p].content, NoBar>>
PassKey(p) == <<CommandOf(p), offer[p].content, fingerprint[p]>>

\* One validator has answered: the next judges, or all of them have.
Said(p, said) ==
  LET last == turn[p] = Len(Judges(offer[p]))
      whole == Combined(verdict[p], said)
  IN  /\ verdict' = [verdict EXCEPT ![p] = whole]
      /\ turn' = [turn EXCEPT ![p] = IF last THEN 1 ELSE @ + 1]
      /\ step' = [step EXCEPT ![p] =
                    IF ~last THEN "keys" ELSE IF whole = "pass" THEN "pushes" ELSE "idle"]

\* A record its `when` does not admit passes.
NotAsked(p) ==
  /\ step[p] = "keys" /\ ~Asked(p)
  /\ Said(p, "pass")
  /\ UNCHANGED <<bar, moves, passes, ran, kept, offer, fingerprint, inForce, offers>>

\* A pass that is recorded is not judged again.
LookUp(p) ==
  /\ step[p] = "looks"
  /\ IF PassKey(p) \in passes
     THEN Said(p, "pass")
     ELSE step' = [step EXCEPT ![p] = "runs"] /\ UNCHANGED <<turn, verdict>>
  /\ UNCHANGED <<bar, moves, passes, ran, kept, offer, fingerprint, inForce, offers>>

\* The command judges by the bar it finds, or answers nothing that counts.
RunCommand(p) ==
  /\ step[p] = "runs"
  /\ LET content == offer[p].content
         honest ==
           IF <<CommandOf(p), content, Context(p), bar>> \in Passing THEN "pass" ELSE "refuse"
         run == [command |-> CommandOf(p), content |-> content, context |-> Context(p),
                 read |-> fingerprint[p], found |-> bar]
     IN  \E said \in {honest, "unjudged"} :
           /\ ran' = IF said = "pass" THEN ran \cup {run} ELSE ran
           /\ IF said = "pass" /\ fingerprint[p] # NoBar
              THEN step' = [step EXCEPT ![p] = "records"] /\ UNCHANGED <<turn, verdict>>
              ELSE Said(p, said)
  /\ UNCHANGED <<bar, moves, passes, kept, offer, fingerprint, inForce, offers>>

\* A pass is recorded under the fingerprint read before the command ran; one that cannot be
\* written is a pass all the same.
Record(p) ==
  /\ step[p] = "records"
  /\ passes' \in {passes, passes \cup {PassKey(p)}}
  /\ Said(p, "pass")
  /\ UNCHANGED <<bar, moves, ran, kept, offer, fingerprint, inForce, offers>>

\* The queues are pushed to in order; the first that refuses ends the offer, and what
\* was pushed before stays.
PushRecord(p) ==
  /\ step[p] = "pushes"
  /\ LET to == Routes[offer[p].to]
     IN  /\ kept' = kept \cup
              {[queue |-> to[turn[p]], content |-> offer[p].content, about |-> offer[p].about,
                inForce |-> inForce[p]]}
         /\ turn' = [turn EXCEPT ![p] = IF turn[p] = Len(to) THEN 1 ELSE @ + 1]
         /\ step' = [step EXCEPT ![p] = IF turn[p] = Len(to) THEN "idle" ELSE "pushes"]
  /\ UNCHANGED <<bar, moves, passes, ran, offer, fingerprint, verdict, inForce, offers>>
PushRefused(p) ==
  /\ step[p] = "pushes"
  /\ step' = [step EXCEPT ![p] = "idle"]
  /\ turn' = [turn EXCEPT ![p] = 1]
  /\ UNCHANGED <<bar, moves, passes, ran, kept, offer, fingerprint, verdict, inForce, offers>>

OfferNext ==
  \/ BarMoves
  \/ \E p \in Offerers :
       \/ Begin(p) \/ ReadBar(p) \/ NotAsked(p) \/ LookUp(p) \/ RunCommand(p) \/ Record(p)
       \/ PushRecord(p) \/ PushRefused(p)

OfferSpec == OfferInit /\ [][OfferNext]_offerVars

-----------------------------------------------------------------------------
\* A validator that judges what a record says has passed it: its command did, told that queue
\* and that question, under a bar in force; or, if it keeps its passes, a run of its command
\* did that began by reading a bar in force, told anything, under whatever bar it then found.
Passed(queue, v, r) ==
  <<v, r.content>> \in Whens =>
    \E run \in ran :
      /\ run.command = Commands[v] /\ run.content = r.content
      /\ \/ run.context = <<queue, r.about>> /\ run.found \in r.inForce
         \/ v \in Cached /\ run.read \in r.inForce

\* Whatever another offerer recorded meanwhile and wherever the bar moved, back to one it was
\* before included, a record is in a queue only when each validator of that queue that judges
\* it has passed it for that queue and that question under a bar in force while its offer was
\* judged, or may take a pass of the same content, made for no matter which queue and question,
\* whose bar, when it was read before the command ran, was one in force (`judge`,
\* validate.rs:404-427, and `send`, config.rs:1151-1174).
AppendedWasPassed ==
  \A r \in kept : \A i \in 1..Len(JudgedBy[r.queue]) : Passed(r.queue, JudgedBy[r.queue][i], r)

\* "only a pass is recorded, so a changed bar re-runs the command" (docs/contract.md:555-556):
\* a command that judges a record in a queue passed that content under a bar in force while it
\* was judged.  TLC refutes it: a bar that moves between the reading of its fingerprint and the
\* run leaves a pass under the fingerprint of a bar the command was never run under, and when
\* that bar is back the record is passed by it.
ChangedBarReruns ==
  \A r \in kept : \A i \in 1..Len(JudgedBy[r.queue]) :
    LET v == JudgedBy[r.queue][i]
    IN  <<v, r.content>> \in Whens =>
          \E run \in ran : /\ run.command = Commands[v] /\ run.content = r.content
                          /\ run.found \in r.inForce
=============================================================================
