------------------------------- MODULE Plugin -------------------------------
(***************************************************************************)
(* A transport in another process: ProcessTransport and serve.  Each       *)
(* client process has one plugin, a child it writes one request line to    *)
(* and reads one reply line from; its threads share that pipe, and the     *)
(* plugins of several clients serve the same queues.                       *)
(*                                                                         *)
(* A section is not one exchange: begin_exclusive opens it, what its body  *)
(* asks is served inside it, end_exclusive closes it.  serve_until answers *)
(* the begin and then takes the section.                                   *)
(*                                                                         *)
(* A record is the place its writer expected it to land at when it read    *)
(* the queue inside the section it wrote from, and 0 when it expected      *)
(* none.  The requests that change no log (cursor, commit, fingerprint,    *)
(* document, replace_document) are exchanges like a read.                  *)
(***************************************************************************)
EXTENDS Integers, SequencesExt, FiniteSets

CONSTANTS
  Threads,      \* the callers
  Clients,      \* the processes they are in
  ClientOf,     \* which one each is in
  Queues,
  Uses,         \* the calls each makes outside sections: <<operation, queue>>
  Nests,        \* <<q, r>>: a section over q may open one over r inside it
  NoOne,
  MaxCalls,     \* how many calls a thread makes
  MaxRecords,   \* how long a log may get
  Slices,       \* how many bounded waits a wait is at most, and how many
                \* sections a body opens inside its own
  Refusals,     \* how often a plugin fails to take a section
  Deaths        \* how many plugins or clients die

\* The lines a client writes: `arg` is what an append carries, or the fingerprint a wait
\* is to see move.
Lines == [op : {"append", "read", "wait", "begin", "end ok", "end failed"},
          queue : Queues, arg : Nat]

ASSUME PluginAssumption ==
  /\ ClientOf \in [Threads -> Clients]
  /\ Uses \in [Threads -> SUBSET ({"append", "begin", "wait"} \X Queues)]
  /\ Nests \subseteq Queues \X Queues
  /\ NoOne \notin Clients \cup Threads \cup Queues \cup Nat \cup Lines
  /\ {MaxCalls, MaxRecords, Slices, Refusals, Deaths} \subseteq Nat

VARIABLES
  log,        \* the records of each queue
  lock,       \* whose plugin has each queue's lock
  plugin,     \* of each client: what its child process is doing
  alive,      \* the clients that run
  request,    \* the line in each plugin's input
  replies,    \* the lines in each plugin's output
  sections,   \* serve_until's nesting: the queues, the outermost first
  taking,     \* the queue whose section it has answered for and not taken
  held_by,    \* whose section has each client's pipe
  at,         \* where each thread is
  asked,      \* what it asks, or waits to ask
  holding,    \* the queues of the sections it is in, the outermost first
  seen,       \* how long the outermost queue is, as far as its body knows
  failed,     \* whether the body has met a refusal
  slices,     \* the bounded waits its wait has left, its body's sections
  calls,      \* the calls it has left
  refusals, deaths

serving == <<log, lock, plugin, request, replies, sections, taking>>
calling == <<at, asked, holding, seen, failed, slices, calls>>
pluginVars == <<serving, calling, alive, held_by, refusals, deaths>>

ThreadsOf(c) == {t \in Threads : ClientOf[t] = c}
Has(s, x) == \E i \in 1..Len(s) : s[i] = x

Ask(op, q, n) == [op |-> op, queue |-> q, arg |-> n]
Reply(is, n)  == [is |-> is, arg |-> n]

PluginInit ==
  /\ log = [q \in Queues |-> <<>>] /\ lock = [q \in Queues |-> NoOne]
  \* The hello was answered, or refused: another protocol, another version, a
  \* transport that does not open.  Nobody is handed a transport that refused.
  /\ plugin \in [Clients -> {"serving", "refused"}] /\ alive = Clients
  /\ request = [c \in Clients |-> NoOne] /\ replies = [c \in Clients |-> <<>>]
  /\ sections = [c \in Clients |-> <<>>] /\ taking = [c \in Clients |-> NoOne]
  /\ held_by = [c \in Clients |-> NoOne]
  /\ at = [t \in Threads |-> "idle"] /\ asked = [t \in Threads |-> NoOne]
  /\ holding = [t \in Threads |-> <<>>] /\ seen = [t \in Threads |-> NoOne]
  /\ failed = [t \in Threads |-> FALSE] /\ slices = [t \in Threads |-> 0]
  /\ calls = [t \in Threads |-> MaxCalls]
  /\ refusals = Refusals /\ deaths = Deaths

-----------------------------------------------------------------------------
(* The client *)

\* t is about to ask: exchange_line, before it has the pipe.
Asks(t, line) ==
  /\ at' = [at EXCEPT ![t] = "asking"]
  /\ asked' = [asked EXCEPT ![t] = line]

\* A call outside every section: an append, a read, a wait, or a section to open.
Call(t) ==
  /\ at[t] = "idle" /\ calls[t] > 0 /\ ClientOf[t] \in alive
  /\ plugin[ClientOf[t]] \in {"serving", "gone"}
  /\ calls' = [calls EXCEPT ![t] = @ - 1]
  /\ \E use \in Uses[t] :
       /\ Asks(t, Ask(use[1], use[2], IF use[1] = "wait" THEN Len(log[use[2]]) ELSE 0))
       /\ slices' = [slices EXCEPT ![t] = IF use[1] = "append" THEN 0 ELSE Slices]
  /\ UNCHANGED <<serving, alive, held_by, holding, seen, failed, refusals, deaths>>

\* The pipe is free for t: no reply is awaited on it, and no section but t's has it.
PipeIsFree_BetweenLines(t) == \A u \in ThreadsOf(ClientOf[t]) : at[u] # "reading"
PipeIsFree(t) ==
  LET c == ClientOf[t] IN
  /\ \A u \in ThreadsOf(c) : at[u] # "reading"
  /\ held_by[c] \in {NoOne, t}

\* The line is written, for a plugin that is there to read it.
Write(t) ==
  LET c == ClientOf[t] IN
  /\ at[t] = "asking" /\ c \in alive /\ PipeIsFree(t) /\ plugin[c] = "serving"
  /\ at' = [at EXCEPT ![t] = "reading"]
  /\ request' = [request EXCEPT ![c] = asked[t]]
  /\ UNCHANGED <<log, lock, plugin, replies, sections, taking, alive, held_by, asked,
                 holding, seen, failed, slices, calls, refusals, deaths>>

\* What a call does with the reply to what it asked.  A reply of another kind
\* than its request is `unexpected`, and fails the call as a refusal does.
Expected(line) ==
  CASE line.op = "append" -> {"position"}
    [] line.op = "read" -> {"batch"}
    [] line.op = "wait" -> {"moved", "unchanged"}
    [] line.op \in {"begin", "end ok", "end failed"} -> {"done"}

\* An exchange is over, in the sections `left`: back to the body of the innermost,
\* or to the caller, which keeps nothing of the call.
Back(t, left, refused, length) ==
  /\ at' = [at EXCEPT ![t] = IF left = <<>> THEN "idle" ELSE "body"]
  /\ asked' = [asked EXCEPT ![t] = NoOne]
  /\ holding' = [holding EXCEPT ![t] = left]
  /\ failed' = [failed EXCEPT ![t] = left # <<>> /\ (@ \/ refused)]
  /\ seen' = [seen EXCEPT ![t] = IF left = <<>> THEN NoOne ELSE length]
  /\ slices' = [slices EXCEPT ![t] = IF left = <<>> THEN 0 ELSE @]

\* Who has the pipe after it: a section has it until its end was exchanged,
\* whatever came of that.
HeldAfter_Popped(t, good) ==
  CASE asked[t].op = "begin" /\ good -> t
    [] asked[t].op \in {"end ok", "end failed"} /\ Len(holding[t]) = 0 -> NoOne
    [] OTHER -> held_by[ClientOf[t]]
HeldAfter(t, good) ==
  CASE asked[t].op = "begin" /\ good -> t
    [] asked[t].op \in {"end ok", "end failed"} /\ Len(holding[t]) = 1 -> NoOne
    [] OTHER -> held_by[ClientOf[t]]

PluginAnswers(t, reply) ==
  LET line == asked[t]
      good == reply.is \in Expected(line)
  IN  /\ held_by' = [held_by EXCEPT ![ClientOf[t]] = HeldAfter(t, good)]
      /\ \/ /\ line.op = "begin"
            /\ Back(t, IF good THEN Append(holding[t], line.queue) ELSE holding[t],
                    ~good, seen[t])
         \/ /\ line.op \in {"end ok", "end failed"}
            /\ Back(t, Front(holding[t]), ~good, seen[t])
         \/ /\ line.op \in {"append", "read"}
            /\ Back(t, holding[t], ~good, IF good THEN reply.arg ELSE seen[t])
         \/ /\ line.op = "wait"
            /\ IF reply.is = "unchanged" /\ slices[t] > 0
               THEN /\ at' = [at EXCEPT ![t] = "asking"]
                    /\ slices' = [slices EXCEPT ![t] = @ - 1]
                    /\ UNCHANGED <<holding, failed, seen, asked>>
               ELSE Back(t, holding[t], ~good, seen[t])

Read(t) ==
  LET c == ClientOf[t] IN
  /\ at[t] = "reading" /\ c \in alive /\ replies[c] # <<>>
  /\ PluginAnswers(t, Head(replies[c]))
  /\ replies' = [replies EXCEPT ![c] = Tail(@)]
  /\ UNCHANGED <<log, lock, plugin, request, sections, taking, alive, calls, refusals,
                 deaths>>

\* The plugin has exited: writing to it or reading from it fails.
FindsItGone(t) ==
  LET c == ClientOf[t] IN
  /\ c \in alive /\ plugin[c] = "gone"
  /\ \/ at[t] = "asking" /\ PipeIsFree(t)
     \/ at[t] = "reading" /\ replies[c] = <<>>
  /\ PluginAnswers(t, Reply("error", 0))
  /\ UNCHANGED <<serving, alive, calls, refusals, deaths>>

\* A body reads its queue, appends what it decided from that, opens a section
\* over another queue, and returns.  A body that met a refusal returns it.  The
\* pipe is its own, so that its lines are written as they are asked.
Body(t) ==
  LET q == Head(holding[t])
      Says(line) == /\ asked' = [asked EXCEPT ![t] = line]
                    /\ at' = [at EXCEPT ![t] = IF plugin[ClientOf[t]] = "serving" THEN "reading"
                                              ELSE "asking"]
                    /\ request' = [request EXCEPT ![ClientOf[t]] =
                                     IF plugin[ClientOf[t]] = "serving" THEN line ELSE @]
  IN  /\ at[t] = "body" /\ ClientOf[t] \in alive
      /\ \/ ~failed[t] /\ seen[t] = NoOne /\ Says(Ask("read", q, 0)) /\ UNCHANGED slices
         \/ /\ ~failed[t] /\ seen[t] # NoOne
            /\ Says(Ask("append", q, seen[t] + 1)) /\ UNCHANGED slices
         \/ /\ ~failed[t] /\ slices[t] > 0 /\ slices' = [slices EXCEPT ![t] = @ - 1]
            /\ \E r \in Queues : /\ <<Last(holding[t]), r>> \in Nests /\ ~Has(holding[t], r)
                                 /\ Says(Ask("begin", r, 0))
         \/ /\ Says(Ask(IF failed[t] THEN "end failed" ELSE "end ok", Last(holding[t]), 0))
            /\ UNCHANGED slices
      /\ UNCHANGED <<log, lock, plugin, replies, sections, taking, alive, held_by, holding,
                     seen, failed, calls, refusals, deaths>>

-----------------------------------------------------------------------------
(* The plugin *)

Served(c, reply) ==
  /\ request' = [request EXCEPT ![c] = NoOne]
  /\ replies' = [replies EXCEPT ![c] = IF c \in alive THEN Append(@, reply) ELSE @]

Reads(c, op) == /\ plugin[c] = "serving" /\ taking[c] = NoOne
                /\ request[c] # NoOne /\ request[c].op = op

\* An append takes the queue's lock, but for a queue whose section this is.
ServeAppend(c) ==
  LET q == request[c].queue IN
  /\ Reads(c, "append") /\ Len(log[q]) < MaxRecords
  /\ Has(sections[c], q) \/ lock[q] = NoOne
  /\ log' = [log EXCEPT ![q] = Append(@, request[c].arg)]
  /\ Served(c, Reply("position", Len(log[q]) + 1))
  /\ UNCHANGED <<lock, plugin, sections, taking, calling, alive, held_by, refusals, deaths>>

\* A log at its bound takes nothing more; neither does a disk that is full.
RefuseAppend(c) ==
  /\ Reads(c, "append") /\ Len(log[request[c].queue]) = MaxRecords
  /\ Served(c, Reply("error", 0))
  /\ UNCHANGED <<log, lock, plugin, sections, taking, calling, alive, held_by, refusals,
                 deaths>>

ServeRead(c) ==
  /\ Reads(c, "read")
  /\ Served(c, Reply("batch", Len(log[request[c].queue])))
  /\ UNCHANGED <<log, lock, plugin, sections, taking, calling, alive, held_by, refusals,
                 deaths>>

\* A wait is answered once the queue has moved, or its slice of time is over.
ServeWait(c) ==
  /\ Reads(c, "wait")
  /\ Served(c, Reply(IF Len(log[request[c].queue]) # request[c].arg THEN "moved"
                     ELSE "unchanged", 0))
  /\ UNCHANGED <<log, lock, plugin, sections, taking, calling, alive, held_by, refusals,
                 deaths>>

\* The begin is answered, and the section taken after that.
ServeBegin(c) ==
  /\ Reads(c, "begin")
  /\ Served(c, Reply("done", 0))
  /\ taking' = [taking EXCEPT ![c] = request[c].queue]
  /\ UNCHANGED <<log, lock, plugin, sections, calling, alive, held_by, refusals, deaths>>

TakeSection_Answers(c) ==
  LET q == taking[c] IN
  /\ plugin[c] = "serving" /\ q # NoOne
  /\ Has(sections[c], q) \/ lock[q] = NoOne
  /\ lock' = [lock EXCEPT ![q] = c]
  /\ sections' = [sections EXCEPT ![c] = Append(@, q)]
  /\ taking' = [taking EXCEPT ![c] = NoOne]
  /\ replies' = [replies EXCEPT ![c] = Append(@, Reply("done", 0))]
  /\ UNCHANGED <<log, plugin, request, calling, alive, held_by, refusals, deaths>>
\* The lock is taken; a section over a queue that is held already is the same one.
TakeSection(c) ==
  LET q == taking[c] IN
  /\ plugin[c] = "serving" /\ q # NoOne
  /\ Has(sections[c], q) \/ lock[q] = NoOne
  /\ lock' = [lock EXCEPT ![q] = c]
  /\ sections' = [sections EXCEPT ![c] = Append(@, q)]
  /\ taking' = [taking EXCEPT ![c] = NoOne]
  /\ UNCHANGED <<log, plugin, request, replies, calling, alive, held_by, refusals, deaths>>

\* The lock cannot be opened, or the log not healed: exclusive returns without
\* having called its body, and serve_until answers with that.
TakeFails(c) ==
  /\ plugin[c] = "serving" /\ taking[c] # NoOne /\ refusals > 0
  /\ refusals' = refusals - 1
  /\ replies' = [replies EXCEPT ![c] = Append(@, Reply("error", 0))]
  /\ taking' = [taking EXCEPT ![c] = NoOne]
  /\ UNCHANGED <<log, lock, plugin, request, sections, calling, alive, held_by, deaths>>

\* The locks of c's plugin once it holds only `left`.
Released(c, left) ==
  [q \in Queues |-> IF lock[q] = c /\ ~Has(left, q) THEN NoOne ELSE lock[q]]

\* The end of the innermost section is answered once it is let go; an end of
\* any other is refused.
ServeEnd(c, op) ==
  LET held == sections[c]
      mine == held # <<>> /\ Last(held) = request[c].queue
  IN  /\ Reads(c, op)
      /\ sections' = [sections EXCEPT ![c] = IF mine THEN Front(@) ELSE @]
      /\ lock' = Released(c, sections'[c])
      /\ Served(c, Reply(IF mine /\ op = "end ok" THEN "done" ELSE "error", 0))
      /\ UNCHANGED <<log, plugin, taking, calling, alive, held_by, refusals, deaths>>

Exit(c) ==
  /\ plugin' = [plugin EXCEPT ![c] = "gone"]
  /\ sections' = [sections EXCEPT ![c] = <<>>]
  /\ taking' = [taking EXCEPT ![c] = NoOne]
  /\ request' = [request EXCEPT ![c] = NoOne]
  /\ lock' = Released(c, <<>>)

\* Its input has ended: every section it is inside fails and is let go.
InputEnds(c) ==
  /\ c \notin alive /\ plugin[c] = "serving" /\ taking[c] = NoOne /\ request[c] = NoOne
  /\ Exit(c)
  /\ UNCHANGED <<log, replies, calling, alive, held_by, refusals, deaths>>

PluginDies(c) ==
  /\ deaths > 0 /\ deaths' = deaths - 1
  /\ plugin[c] = "serving" /\ Exit(c)
  /\ UNCHANGED <<log, replies, calling, alive, held_by, refusals>>

\* The client process ends, wherever its threads are, and its plugin goes on
\* with what it has read.
ClientDies(c) ==
  /\ deaths > 0 /\ deaths' = deaths - 1
  /\ c \in alive /\ alive' = alive \ {c}
  /\ replies' = [replies EXCEPT ![c] = <<>>] /\ held_by' = [held_by EXCEPT ![c] = NoOne]
  /\ LET Ends(f, with) == [t \in Threads |-> IF ClientOf[t] = c THEN with ELSE f[t]]
     IN  /\ at' = Ends(at, "ended") /\ asked' = Ends(asked, NoOne)
         /\ holding' = Ends(holding, <<>>) /\ seen' = Ends(seen, NoOne)
         /\ failed' = Ends(failed, FALSE) /\ slices' = Ends(slices, 0)
         /\ calls' = Ends(calls, 0)
  /\ UNCHANGED <<log, lock, plugin, request, sections, taking, refusals>>

-----------------------------------------------------------------------------
Serve(c) == \/ ServeAppend(c) \/ RefuseAppend(c) \/ ServeRead(c) \/ ServeWait(c)
            \/ ServeBegin(c) \/ TakeSection(c)
            \/ \E op \in {"end ok", "end failed"} : ServeEnd(c, op)
            \/ InputEnds(c)
GoesOn(t) == Write(t) \/ Read(t) \/ FindsItGone(t) \/ Body(t)

PluginNext ==
  \/ \E t \in Threads : Call(t) \/ GoesOn(t)
  \/ \E c \in Clients : Serve(c) \/ PluginDies(c) \/ ClientDies(c)

\* A thread inside a call goes on with it, and a plugin with what it has read.
\* Nobody need call, and a section is taken when its queue's lock is free often
\* enough: each thread makes only so many calls.
PluginFairness ==
  /\ \A t \in Threads : WF_pluginVars(GoesOn(t))
  /\ \A c \in Clients : WF_pluginVars(Serve(c))

PluginSpec == PluginInit /\ [][PluginNext]_pluginVars /\ PluginFairness

\* A section may be refused after its begin was answered.
RefusingSpec == PluginInit /\ [][PluginNext \/ \E c \in Clients : TakeFails(c)]_pluginVars

-----------------------------------------------------------------------------
(* What must hold *)

\* What is in a pipe is what somebody waits for: one request or its reply for
\* the one thread that reads, nothing when none does.  A line more, and every
\* call from then on is told what became of another.
NoStrayReply ==
  \A c \in alive :
    LET reading == {t \in ThreadsOf(c) : at[t] = "reading"} IN
    /\ Cardinality(reading) <= 1
    /\ Len(replies[c]) + (IF request[c] = NoOne THEN 0 ELSE 1) <= Cardinality(reading)

\* Nothing is appended between a body's read of its queue and its append,
\* whoever's thread or process tries: a claim decided in a section stands.
SectionsAreAtomic ==
  \A q \in Queues : \A i \in 1..Len(log[q]) : log[q][i] \in {0, i}

\* A section's lock is let go when its client has left it, its plugin died or its
\* client did: every call returns to its caller, the others' too.
CallsReturn ==
  \A t \in Threads : at[t] # "idle" ~> at[t] \in {"idle", "ended"}
=============================================================================
