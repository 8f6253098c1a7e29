--------------------------- MODULE ResidentConnection ---------------------------
(***************************************************************************)
(* One connection to the resident process.  The reader takes the client's  *)
(* lines one by one: a request runs on a thread of its own, under the id   *)
(* the client chose, a cancel sets the flag of the request running under   *)
(* its id, and anything else is refused.  A thread takes its request out   *)
(* of `running` and then writes its answer, in two steps.  The map and the *)
(* writer are each behind a mutex, and a line is written whole.            *)
(***************************************************************************)
EXTENDS Integers, Sequences, FiniteSets

CONSTANTS
  RequestIds,   \* the ids the client uses
  NoId,         \* the id of a line that names none
  Streaming,    \* the ids whose requests are subscriptions
  MaxRequests,  \* how many lines the client writes
  MaxEvents,    \* how many events a subscription streams
  Polite        \* whether the client keeps to the protocol

ASSUME ConnectionAssumption ==
  /\ Streaming \subseteq RequestIds /\ NoId \notin RequestIds /\ {MaxRequests, MaxEvents} \subseteq Nat
  /\ Polite \in BOOLEAN

VARIABLES
  asked,        \* how many lines the reader has read
  open,         \* whether the connection's reading side is
  running,      \* the run each id of `running` stands for
  threads,      \* the runs: what each was asked, does and was told
  owed,         \* the refusal the reader is about to write
  wire          \* the lines written to the client

connectionVars == <<asked, open, running, threads, owed, wire>>

\* What `read_line` makes of a line: a request with options that fit its verb or
\* not, a cancel, or neither.
ClientLines ==
  [asks : {"request"}, id : RequestIds, fits : BOOLEAN]
    \cup [asks : {"cancel"}, id : RequestIds]
    \cup [asks : {"neither"}, id : RequestIds \cup {NoId}]

NoLine == [kind |-> "none", id |-> NoId, run |-> 0]
RefusalLine(id) == [kind |-> "failure", id |-> id, run |-> 0]
WireLines ==
  [kind : {"answer", "failure", "event"}, id : RequestIds \cup {NoId}, run : 0..MaxRequests]

RunRecords ==
  [id : RequestIds, fits : BOOLEAN, does : {"runs", "leaves", "answers", "ended"},
   cancelled : BOOLEAN, events : 0..MaxEvents, ends : {"none", "answer", "failure"}]

ConnectionTypeOK ==
  /\ asked \in 0..MaxRequests /\ open \in BOOLEAN
  /\ threads \in Seq(RunRecords) /\ Len(threads) <= asked
  /\ \A n \in 1..Len(threads) :
       threads[n].does \in {"leaves", "answers"} => threads[n].ends # "none"
  /\ DOMAIN running \subseteq RequestIds
  /\ running \in [DOMAIN running -> 1..Len(threads)]
  /\ owed \in WireLines \cup {NoLine} /\ wire \in Seq(WireLines)

ConnectionInit ==
  /\ asked = 0 /\ open = TRUE /\ running = [id \in {} |-> 0]
  /\ threads = <<>> /\ owed = NoLine /\ wire = <<>>

Runs(id) == id \in DOMAIN running

Start_Anyway(line) ==
  /\ line.asks = "request"
  /\ threads' = Append(threads, [id |-> line.id, fits |-> line.fits,
                  does |-> "runs", cancelled |-> FALSE, events |-> 0, ends |-> "none"])
  /\ running' = [id \in DOMAIN running \cup {line.id} |->
                   IF id = line.id THEN Len(threads) + 1 ELSE running[id]]
  /\ UNCHANGED <<owed, wire>>

\* A request whose id still runs is refused; the map is left before that is said.
Start(line) ==
  /\ line.asks = "request"
  /\ IF Runs(line.id)
     THEN owed' = RefusalLine(line.id) /\ UNCHANGED <<running, threads>>
     ELSE /\ threads' = Append(threads, [id |-> line.id, fits |-> line.fits,
                          does |-> "runs", cancelled |-> FALSE, events |-> 0, ends |-> "none"])
          /\ running' = [id \in DOMAIN running \cup {line.id} |->
                           IF id = line.id THEN Len(threads) + 1 ELSE running[id]]
          /\ UNCHANGED owed
  /\ UNCHANGED wire

\* A cancel that finds nothing is refused with the map still locked.
Cancel(line) ==
  /\ line.asks = "cancel"
  /\ IF Runs(line.id)
     THEN threads' = [threads EXCEPT ![running[line.id]].cancelled = TRUE] /\ UNCHANGED wire
     ELSE wire' = Append(wire, RefusalLine(line.id)) /\ UNCHANGED threads
  /\ UNCHANGED <<running, owed>>

RefuseLine(line) ==
  /\ line.asks = "neither"
  /\ wire' = Append(wire, RefusalLine(line.id))
  /\ UNCHANGED <<running, threads, owed>>

\* A client that keeps to the protocol gives each request an id of its own, and
\* cancels what it asked for and has read no answer to.
Settled(id) == \E i \in 1..Len(wire) : wire[i].id = id /\ wire[i].kind # "event"
KeepsTo(line) ==
  /\ line.asks # "neither"
  /\ (\E n \in 1..Len(threads) : threads[n].id = line.id) <=> line.asks = "cancel"
  /\ ~Settled(line.id)

ReadLine ==
  /\ open /\ owed = NoLine /\ asked < MaxRequests /\ asked' = asked + 1
  /\ \E line \in {line \in ClientLines : Polite => KeepsTo(line)} :
       /\ Start(line) \/ Cancel(line) \/ RefuseLine(line)
  /\ UNCHANGED open

SayRefusal ==
  /\ owed # NoLine
  /\ wire' = Append(wire, owed) /\ owed' = NoLine
  /\ UNCHANGED <<asked, open, running, threads>>

\* The connection closes: what it left running is cancelled.
StopsAll == [n \in 1..Len(threads) |->
               [threads[n] EXCEPT !.cancelled = @ \/ n \in {running[id] : id \in DOMAIN running}]]
CloseConnection ==
  /\ open /\ owed = NoLine
  /\ open' = FALSE /\ threads' = StopsAll
  /\ UNCHANGED <<asked, running, owed, wire>>

\* A subscription that was not cancelled streams what it sees.
StreamEvent(n) ==
  /\ threads[n].does = "runs" /\ threads[n].fits /\ threads[n].id \in Streaming
  /\ threads[n].events < MaxEvents
  /\ threads' = [threads EXCEPT ![n].events = @ + 1]
  /\ wire' = Append(wire, [kind |-> "event", id |-> threads[n].id, run |-> n])
  /\ UNCHANGED <<asked, open, running, owed>>

\* The verb ends: refused by its options, done or refused.
EndVerb(n) ==
  /\ threads[n].does = "runs"
  /\ \E ends \in IF threads[n].fits THEN {"answer", "failure"} ELSE {"failure"} :
       threads' = [threads EXCEPT ![n].does = "leaves", ![n].ends = ends]
  /\ UNCHANGED <<asked, open, running, owed, wire>>

\* Whatever stands under the id is taken out of `running`.
Leave(n) ==
  /\ threads[n].does = "leaves"
  /\ threads' = [threads EXCEPT ![n].does = "answers"]
  /\ running' = [id \in DOMAIN running \ {threads[n].id} |-> running[id]]
  /\ UNCHANGED <<asked, open, owed, wire>>

SayAnswer(n) ==
  /\ threads[n].does = "answers"
  /\ threads' = [threads EXCEPT ![n].does = "ended"]
  /\ wire' = Append(wire, [kind |-> threads[n].ends, id |-> threads[n].id, run |-> n])
  /\ UNCHANGED <<asked, open, running, owed>>

ThreadStep(n) == EndVerb(n) \/ Leave(n) \/ SayAnswer(n)

ConnectionNext ==
  \/ ReadLine \/ SayRefusal \/ CloseConnection
  \/ \E n \in 1..Len(threads) : StreamEvent(n) \/ ThreadStep(n)

ConnectionSpec == ConnectionInit /\ [][ConnectionNext]_connectionVars

-----------------------------------------------------------------------------
\* A request that runs can be stopped as long as it does: a cancel of its id
\* finds that run and no other, and the end of the connection has stopped it
\* (`start`, cli/resident.rs:313-342; `connection`, 229-261).
RunsCanBeStopped ==
  \A n \in 1..Len(threads) : threads[n].does = "runs" =>
    /\ Runs(threads[n].id) /\ running[threads[n].id] = n
    /\ open \/ threads[n].cancelled

\* The lines that end a request.
Endings(id) == {i \in 1..Len(wire) : wire[i].id = id /\ wire[i].kind # "event"}

\* "Each request is answered by exactly one ResidentAnswer or ResidentFailure line
\* carrying its id" (the comment on the resident protocol): nobody is written two
\* of them, at least no client that keeps to the protocol.  TLC refutes it: a cancel
\* that is read once the run has left and not yet answered is refused under its id.
AnsweredByOne == Polite => \A id \in RequestIds : Cardinality(Endings(id)) <= 1
=============================================================================
