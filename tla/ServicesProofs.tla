---------------------------- MODULE ServicesProofs ----------------------------
(***************************************************************************)
(* Theorems about the components that share no state with another: how     *)
(* resident processes come by their path, a connection to one, the store   *)
(* of carried messages, a serving session, the cache of linked schemas,    *)
(* validated offers, a filter's glob, a stream's file and its readers.     *)
(* Each holds for every value of its component's constants, so that the    *)
(* bounds the runs give them matter to no result here.                     *)
(***************************************************************************)
EXTENDS ResidentSocket, ResidentConnection, Carry, Serve, LinkCache, Offer, Glob, Stream,
        LibraryProofs, TLAPS

----------------------------------------------------------------------------
(* ResidentSocket: who is left on a path. *)

\* Every reachable state of the residents on a path is well typed: nothing but a process
\* started on it, an earlier one or none stands there, is recorded or is watched (`claim`,
\* `watch`).
THEOREM SocketTypeCorrect == SocketSpec => []SocketTypeOK
<1>1. SocketInit => SocketTypeOK
  BY ResidentAssumption DEF SocketInit, SocketTypeOK, Ended
<1>2. SocketTypeOK /\ [SocketNext]_socketVars => SocketTypeOK'
  <2> SUFFICES ASSUME SocketTypeOK, [SocketNext]_socketVars PROVE SocketTypeOK'
    OBVIOUS
  <2> USE ResidentAssumption DEF SocketTypeOK, Standing, Ended
  <2>1. CASE Unlink
    BY <2>1 DEF Unlink, Setback
  <2>2. ASSUME NEW r \in Residents, Inspect(r) \/ TryIt(r) \/ RemoveStale(r) \/ BindIt(r)
        PROVE  SocketTypeOK'
    BY <2>2 DEF Inspect, TryIt, RemoveStale, BindIt, Proceeds
  <2>3. ASSUME NEW r \in Residents, ListenAt(r) \/ RecordPid(r) \/ Watch(r)
        PROVE  SocketTypeOK'
    BY <2>3 DEF ListenAt, RecordPid, Watch, Proceeds
  <2>4. ASSUME NEW r \in Residents, Notice(r) \/ ForgetPid(r)
        PROVE  SocketTypeOK'
    BY <2>4 DEF Notice, ForgetPid, Proceeds
  <2>5. ASSUME NEW r \in Residents, RefusedStep(r) \/ Kill(r)
        PROVE  SocketTypeOK'
    BY <2>5 DEF RefusedStep, ClaimFails, TryFails, RecordFails, NoticeFails, ForgetFails, Kill,
                Proceeds, Setback
  <2>6. CASE UNCHANGED socketVars
    BY <2>6 DEF socketVars
  <2> QED BY <2>1, <2>2, <2>3, <2>4, <2>5, <2>6 DEF SocketNext, ProcessStep
<1> QED BY <1>1, <1>2, PTL DEF SocketSpec

\* Before any setback: an earlier resident's socket is only looked at until it is removed,
\* whoever finds nothing at the path or removed what was there has yet to bind, and what
\* else stands there is the socket of a process that goes on to watch it.
SocketInv ==
  setbacks = 0 =>
    /\ standing = Gone => \A r \in Residents : startup[r] \in {"off", "try", "stale"}
    /\ standing = NoResident =>
         (\A r \in Residents : startup[r] = "off") \/ (\E r \in Residents : startup[r] = "bind")
    /\ standing \in Residents =>
         /\ startup[standing] \in {"bound", "listening", "recorded", "up"}
         /\ startup[standing] = "up" => guards[standing] = standing

\* Taking what stands at the path away leaves one that binds.
LEMMA ClaimKeeps ==
  ASSUME SocketTypeOK, SocketInv, setbacks = 0, NEW r \in Residents,
         Inspect(r) \/ TryIt(r) \/ RemoveStale(r) \/ BindIt(r)
  PROVE  SocketInv'
<1> USE ResidentAssumption DEF SocketTypeOK, SocketInv, Proceeds
<1>1. CASE Inspect(r)
  BY <1>1 DEF Inspect
<1>2. CASE TryIt(r)
  BY <1>2 DEF TryIt, Responds
<1>3. CASE RemoveStale(r)
  BY <1>3 DEF RemoveStale
<1>4. CASE BindIt(r)
  BY <1>4 DEF BindIt
<1> QED BY <1>1, <1>2, <1>3, <1>4

\* The one whose socket stands goes on to watch it, and finds it there.
LEMMA WatchKeeps ==
  ASSUME SocketTypeOK, SocketInv, setbacks = 0, NEW r \in Residents,
         ListenAt(r) \/ RecordPid(r) \/ Watch(r) \/ Notice(r) \/ ForgetPid(r)
  PROVE  SocketInv'
<1> USE ResidentAssumption DEF SocketTypeOK, SocketInv, Proceeds
<1>1. CASE ListenAt(r)
  BY <1>1 DEF ListenAt
<1>2. CASE RecordPid(r)
  BY <1>2 DEF RecordPid
<1>3. CASE Watch(r)
  BY <1>3 DEF Watch
<1>4. CASE Notice(r)
  BY <1>4 DEF Notice
<1>5. CASE ForgetPid(r)
  BY <1>5 DEF ForgetPid
<1> QED BY <1>1, <1>2, <1>3, <1>4, <1>5

\* RaceLeavesOne, for any number of processes started on a path, whatever an earlier
\* resident left there and however their looks, removals and binds interleave.
THEOREM RacesLeaveOne == SocketSpec => []RaceLeavesOne
<1>1. SocketInit => SocketInv
  BY ResidentAssumption DEF SocketInit, SocketInv
<1>2. SocketTypeOK /\ SocketInv /\ [SocketNext]_socketVars => SocketInv'
  <2> SUFFICES ASSUME SocketTypeOK, SocketInv, [SocketNext]_socketVars, setbacks' = 0
               PROVE  SocketInv'
    BY DEF SocketInv
  <2> USE DEF SocketTypeOK
  <2>1. ~Setback
    BY DEF Setback
  <2>2. CASE UNCHANGED socketVars
    BY <2>2 DEF socketVars, SocketInv
  <2>3. ASSUME NEW r \in Residents, Inspect(r) \/ ProcessStep(r)
        PROVE  SocketInv'
    <3>1. setbacks = 0
      BY <2>3 DEF ProcessStep, Inspect, TryIt, RemoveStale, BindIt, ListenAt, RecordPid, Watch,
                  Notice, ForgetPid
    <3> QED BY <2>3, <3>1, ClaimKeeps, WatchKeeps DEF ProcessStep
  <2> QED BY <2>1, <2>2, <2>3
          DEF SocketNext, Unlink, Kill, RefusedStep, ClaimFails, TryFails, RecordFails,
              NoticeFails, ForgetFails
<1>3. SocketTypeOK /\ SocketInv => RaceLeavesOne
  <2> SUFFICES ASSUME SocketTypeOK, SocketInv, setbacks = 0,
                      \E r \in Residents : startup[r] # "off",
                      \A r \in Residents : startup[r] \notin Claiming
               PROVE  \E r \in Residents : Serves(r)
    BY DEF RaceLeavesOne
  <2>1. standing \in Residents
    BY DEF SocketTypeOK, SocketInv, Claiming
  <2>2. startup[standing] = "up" /\ guards[standing] = standing
    BY <2>1 DEF SocketInv, Claiming
  <2> QED BY <2>1, <2>2 DEF Serves
<1> QED BY <1>1, <1>2, <1>3, SocketTypeCorrect, PTL DEF SocketSpec

----------------------------------------------------------------------------
(* ResidentConnection: which run an id stands for. *)

\* A run that has not left `running` is what stands under its id there.
Registered ==
  \A n \in 1..Len(threads) :
    threads[n].does \in {"runs", "leaves"} =>
      Runs(threads[n].id) /\ running[threads[n].id] = n

ClosedStopsAll ==
  \A n \in 1..Len(threads) : threads[n].does = "runs" => open \/ threads[n].cancelled

ConnectionInv == ConnectionTypeOK /\ Registered /\ ClosedStopsAll

LEMMA LineTypes ==
  \A id \in RequestIds \cup {NoId} : RefusalLine(id) \in WireLines /\ RefusalLine(id) # NoLine
<1> SUFFICES ASSUME NEW id \in RequestIds \cup {NoId}
             PROVE  RefusalLine(id) \in WireLines /\ RefusalLine(id) # NoLine
  OBVIOUS
<1>1. 0 \in 0..MaxRequests
  BY ConnectionAssumption
<1>2. RefusalLine(id).kind = "failure" /\ NoLine.kind = "none"
  BY DEF RefusalLine, NoLine
<1> QED BY <1>1, <1>2 DEF RefusalLine, WireLines

LEMMA ConnectionInitInv == ConnectionInit => ConnectionInv
BY ConnectionAssumption DEF ConnectionInit, ConnectionInv, ConnectionTypeOK, Registered,
   ClosedStopsAll, NoLine

\* A step that changes one run.
LEMMA RunChanged ==
  ASSUME ConnectionTypeOK, NEW n \in 1..Len(threads), NEW run \in RunRecords,
         threads' = [threads EXCEPT ![n] = run]
  PROVE  /\ threads' \in Seq(RunRecords) /\ Len(threads') = Len(threads)
         /\ threads'[n] = run
         /\ \A m \in 1..Len(threads) : m # n => threads'[m] = threads[m]
BY ExceptSeq DEF ConnectionTypeOK

LEMMA RunChangedStops ==
  ASSUME ConnectionTypeOK, ClosedStopsAll, NEW n \in 1..Len(threads), NEW run \in RunRecords,
         threads' = [threads EXCEPT ![n] = run], open' = open,
         run.does = "runs" => threads[n].does = "runs" /\ (threads[n].cancelled => run.cancelled)
  PROVE  ClosedStopsAll'
<1> SUFFICES ASSUME NEW m \in 1..Len(threads), threads'[m].does = "runs"
             PROVE  open \/ threads'[m].cancelled
  BY RunChanged DEF ClosedStopsAll
<1>1. threads'[n] = run /\ (m # n => threads'[m] = threads[m])
  BY RunChanged
<1>2. CASE m = n
  BY <1>1, <1>2, Zenon DEF ClosedStopsAll
<1>3. CASE m # n
  BY <1>1, <1>3, Zenon DEF ClosedStopsAll
<1> QED BY <1>2, <1>3

LEMMA StartKeeps ==
  ASSUME ConnectionInv, ReadLine, NEW line \in ClientLines, Start(line)
  PROVE  ConnectionInv'
<1> USE DEF ConnectionInv, ReadLine, Start
<1>0. line \in [asks : {"request"}, id : RequestIds, fits : BOOLEAN]
  BY DEF ClientLines
<1>1. CASE Runs(line.id)
  <2>1. owed' \in WireLines
    BY <1>0, <1>1, LineTypes
  <2>2. ConnectionTypeOK'
    BY <1>1, <2>1, ConnectionAssumption DEF ConnectionTypeOK
  <2>3. Registered' /\ ClosedStopsAll'
    BY <1>1 DEF Registered, ClosedStopsAll, Runs
  <2> QED BY <2>2, <2>3
<1>2. CASE ~Runs(line.id)
  <2> DEFINE run == [id |-> line.id, fits |-> line.fits, does |-> "runs",
                     cancelled |-> FALSE, events |-> 0, ends |-> "none"]
  <2>1. run \in RunRecords /\ run.id = line.id /\ run.does = "runs"
    BY <1>0, ConnectionAssumption DEF RunRecords
  <2>2. threads' = Append(threads, run) /\ open' = open /\ open
    BY <1>2
  <2> HIDE DEF run
  <2>3. /\ threads' \in Seq(RunRecords) /\ Len(threads') = Len(threads) + 1
        /\ threads'[Len(threads) + 1] = run
        /\ \A n \in 1..Len(threads) : threads'[n] = threads[n]
    BY <2>1, <2>2 DEF ConnectionTypeOK
  <2>4. /\ DOMAIN running' = DOMAIN running \cup {line.id}
        /\ running'[line.id] = Len(threads) + 1
        /\ \A id \in DOMAIN running : running'[id] = running[id]
        /\ running' \in [DOMAIN running' -> 1..Len(threads')]
    BY <1>2, <2>3 DEF ConnectionTypeOK, Runs
  <2>5. ConnectionTypeOK'
    <3>1. asked' \in 0..MaxRequests /\ Len(threads') <= asked'
      BY <2>3, ConnectionAssumption DEF ConnectionTypeOK
    <3>2. \A n \in 1..Len(threads') :
            threads'[n].does \in {"leaves", "answers"} => threads'[n].ends # "none"
      <4> TAKE n \in 1..Len(threads')
      <4>1. n \in 1..Len(threads) \/ n = Len(threads) + 1
        BY <2>3 DEF ConnectionTypeOK
      <4> QED BY <2>1, <2>3, <4>1 DEF ConnectionTypeOK
    <3>3. DOMAIN running' \subseteq RequestIds
      BY <1>0, <2>4 DEF ConnectionTypeOK
    <3> QED BY <1>2, <2>3, <2>4, <3>1, <3>2, <3>3 DEF ConnectionTypeOK
  <2>6. Registered'
    BY <1>2, <2>1, <2>3, <2>4 DEF ConnectionTypeOK, Registered, Runs
  <2>7. ClosedStopsAll'
    BY <2>2, <2>3 DEF ClosedStopsAll
  <2> QED BY <2>5, <2>6, <2>7
<1> QED BY <1>1, <1>2

LEMMA CancelKeeps ==
  ASSUME ConnectionInv, ReadLine, NEW line \in ClientLines, Cancel(line)
  PROVE  ConnectionInv'
<1> USE DEF ConnectionInv, ReadLine, Cancel
<1>0. line.id \in RequestIds
  BY DEF ClientLines
<1>1. CASE ~Runs(line.id)
  <2>1. wire' = Append(wire, RefusalLine(line.id)) /\ RefusalLine(line.id) \in WireLines
    BY <1>0, <1>1, LineTypes
  <2>2. wire' \in Seq(WireLines)
    BY <2>1 DEF ConnectionTypeOK
  <2> QED BY <1>1, <2>2, ConnectionAssumption
          DEF ConnectionTypeOK, Registered, ClosedStopsAll, Runs
<1>2. CASE Runs(line.id)
  <2> DEFINE n == running[line.id]
             run == [threads[n] EXCEPT !.cancelled = TRUE]
  <2>1. n \in 1..Len(threads) /\ threads' = [threads EXCEPT ![n] = run]
    BY <1>2 DEF Runs, ConnectionTypeOK
  <2>2. threads[n] \in RunRecords
    BY <2>1 DEF ConnectionTypeOK
  <2>3. /\ run \in RunRecords /\ run.id = threads[n].id /\ run.does = threads[n].does
        /\ run.ends = threads[n].ends
    BY <2>2 DEF RunRecords
  <2>4. run.cancelled
    BY <2>2 DEF RunRecords
  <2> HIDE DEF run, n
  <2>5. /\ threads' \in Seq(RunRecords) /\ Len(threads') = Len(threads) /\ threads'[n] = run
        /\ \A m \in 1..Len(threads) : m # n => threads'[m] = threads[m]
    BY <2>1, <2>3, RunChanged
  <2>6. ConnectionTypeOK' /\ Registered'
    BY <1>2, <2>1, <2>3, <2>5, ConnectionAssumption DEF ConnectionTypeOK, Registered, Runs
  <2>7. ClosedStopsAll'
    BY <2>1, <2>3, <2>4, RunChangedStops
  <2> QED BY <2>6, <2>7
<1> QED BY <1>1, <1>2

LEMMA ThreadStepKeeps ==
  ASSUME ConnectionInv, NEW n \in 1..Len(threads), StreamEvent(n) \/ ThreadStep(n)
  PROVE  ConnectionInv'
<1> USE DEF ConnectionInv
<1>0. threads[n] \in RunRecords /\ n \in 0..MaxRequests
  BY ConnectionAssumption DEF ConnectionTypeOK
<1>1. CASE StreamEvent(n)
  <2> DEFINE run == [threads[n] EXCEPT !.events = @ + 1]
  <2>1. [kind |-> "event", id |-> threads[n].id, run |-> n] \in WireLines
    BY <1>0 DEF WireLines, RunRecords
  <2>2. threads[n].events + 1 \in 0..MaxEvents
    BY <1>0, <1>1, ConnectionAssumption DEF StreamEvent, RunRecords
  <2>3. /\ run \in RunRecords /\ run.id = threads[n].id /\ run.does = threads[n].does
        /\ run.ends = threads[n].ends
    BY <1>0, <2>2 DEF RunRecords
  <2>4. threads[n].cancelled => run.cancelled
    BY <1>0 DEF RunRecords
  <2>5. threads' = [threads EXCEPT ![n] = run]
    BY <1>1 DEF StreamEvent
  <2> HIDE DEF run
  <2>6. /\ threads' \in Seq(RunRecords) /\ Len(threads') = Len(threads) /\ threads'[n] = run
        /\ \A m \in 1..Len(threads) : m # n => threads'[m] = threads[m]
    BY <2>3, <2>5, RunChanged
  <2>7. ConnectionTypeOK' /\ Registered'
    BY <1>1, <2>1, <2>3, <2>6 DEF StreamEvent, ConnectionTypeOK, Registered, Runs
  <2>8. ClosedStopsAll'
    BY <1>1, <2>3, <2>4, <2>5, RunChangedStops DEF StreamEvent
  <2> QED BY <2>7, <2>8
<1>2. CASE EndVerb(n)
  <2>1. PICK ends \in {"answer", "failure"} :
          threads' = [threads EXCEPT ![n].does = "leaves", ![n].ends = ends]
    BY <1>2 DEF EndVerb
  <2> DEFINE run == [threads[n] EXCEPT !.does = "leaves", !.ends = ends]
  <2>2. run \in RunRecords /\ run.id = threads[n].id /\ run.does = "leaves" /\ run.ends # "none"
    BY <1>0 DEF RunRecords
  <2>3. threads' = [threads EXCEPT ![n] = run]
    BY <2>1, <1>0 DEF RunRecords, ConnectionTypeOK
  <2> HIDE DEF run
  <2>4. /\ threads' \in Seq(RunRecords) /\ Len(threads') = Len(threads) /\ threads'[n] = run
        /\ \A m \in 1..Len(threads) : m # n => threads'[m] = threads[m]
    BY <2>2, <2>3, RunChanged
  <2>5. ConnectionTypeOK' /\ Registered'
    <3>1. UNCHANGED <<asked, open, running, owed, wire>> /\ threads[n].does = "runs"
      BY <1>2 DEF EndVerb
    <3>2. ConnectionTypeOK'
      BY <2>2, <2>4, <3>1 DEF ConnectionTypeOK
    <3>3. Registered'
      BY <2>2, <2>4, <3>1 DEF Registered, Runs
    <3> QED BY <3>2, <3>3
  <2>6. ClosedStopsAll'
    BY <1>2, <2>2, <2>3, RunChangedStops DEF EndVerb
  <2> QED BY <2>5, <2>6
<1>3. CASE Leave(n)
  <2> DEFINE run == [threads[n] EXCEPT !.does = "answers"]
  <2>1. /\ run \in RunRecords /\ run.id = threads[n].id /\ run.does = "answers"
        /\ run.ends = threads[n].ends
    BY <1>0 DEF RunRecords
  <2>2. threads' = [threads EXCEPT ![n] = run]
    BY <1>3 DEF Leave
  <2> HIDE DEF run
  <2>3. /\ threads' \in Seq(RunRecords) /\ Len(threads') = Len(threads) /\ threads'[n] = run
        /\ \A m \in 1..Len(threads) : m # n => threads'[m] = threads[m]
    BY <2>1, <2>2, RunChanged
  <2>4. /\ DOMAIN running' = DOMAIN running \ {threads[n].id}
        /\ \A id \in DOMAIN running' : running'[id] = running[id]
        /\ running' \in [DOMAIN running' -> 1..Len(threads')]
    BY <1>3, <2>3 DEF Leave, ConnectionTypeOK
  <2>5. ConnectionTypeOK'
    BY <1>3, <2>1, <2>3, <2>4 DEF Leave, ConnectionTypeOK
  <2>6. running[threads[n].id] = n
    BY <1>3 DEF Leave, Registered
  <2>7. Registered'
    BY <1>3, <2>1, <2>3, <2>4, <2>6 DEF Registered, Runs
  <2>8. ClosedStopsAll'
    BY <1>3, <2>1, <2>2, RunChangedStops DEF Leave
  <2> QED BY <2>5, <2>7, <2>8
<1>4. CASE SayAnswer(n)
  <2> DEFINE run == [threads[n] EXCEPT !.does = "ended"]
  <2>1. [kind |-> threads[n].ends, id |-> threads[n].id, run |-> n] \in WireLines
    BY <1>0, <1>4 DEF SayAnswer, ConnectionTypeOK, WireLines, RunRecords
  <2>2. run \in RunRecords /\ run.id = threads[n].id /\ run.does = "ended"
    BY <1>0 DEF RunRecords
  <2>3. threads' = [threads EXCEPT ![n] = run]
    BY <1>4 DEF SayAnswer
  <2> HIDE DEF run
  <2>4. /\ threads' \in Seq(RunRecords) /\ Len(threads') = Len(threads) /\ threads'[n] = run
        /\ \A m \in 1..Len(threads) : m # n => threads'[m] = threads[m]
    BY <2>2, <2>3, RunChanged
  <2>5. ConnectionTypeOK' /\ Registered'
    BY <1>4, <2>1, <2>2, <2>4 DEF SayAnswer, ConnectionTypeOK, Registered, Runs
  <2>6. ClosedStopsAll'
    BY <1>4, <2>2, <2>3, RunChangedStops DEF SayAnswer
  <2> QED BY <2>5, <2>6
<1> QED BY <1>1, <1>2, <1>3, <1>4 DEF ThreadStep

LEMMA ConnectionNextInv == ConnectionInv /\ [ConnectionNext]_connectionVars => ConnectionInv'
<1> SUFFICES ASSUME ConnectionInv, [ConnectionNext]_connectionVars PROVE ConnectionInv'
  OBVIOUS
<1>1. CASE ReadLine
  <2>1. PICK line \in ClientLines : Start(line) \/ Cancel(line) \/ RefuseLine(line)
    BY <1>1 DEF ReadLine
  <2>2. CASE RefuseLine(line)
    <3>1. RefusalLine(line.id) \in WireLines
      BY LineTypes DEF ClientLines
    <3> QED BY <1>1, <2>2, <3>1, ConnectionAssumption
            DEF ReadLine, RefuseLine, ConnectionInv, ConnectionTypeOK, Registered,
                ClosedStopsAll, Runs
  <2> QED BY <1>1, <2>1, <2>2, StartKeeps, CancelKeeps
<1>2. CASE SayRefusal
  BY <1>2 DEF SayRefusal, ConnectionInv, ConnectionTypeOK, Registered, ClosedStopsAll, Runs
<1>3. CASE CloseConnection
  <2> DEFINE mapped == {running[id] : id \in DOMAIN running}
             stopped(n) == [threads[n] EXCEPT !.cancelled = @ \/ n \in mapped]
  <2>1. UNCHANGED <<asked, running, owed, wire>> /\ open' = FALSE
          /\ threads' = [n \in 1..Len(threads) |-> stopped(n)]
    BY <1>3 DEF CloseConnection, StopsAll
  <2>2. ASSUME NEW n \in 1..Len(threads)
        PROVE  /\ stopped(n) \in RunRecords
               /\ stopped(n).id = threads[n].id /\ stopped(n).does = threads[n].does
               /\ stopped(n).ends = threads[n].ends
    <3>1. threads[n] \in RunRecords
      BY DEF ConnectionInv, ConnectionTypeOK
    <3>2. (threads[n].cancelled \/ n \in mapped) \in BOOLEAN
      BY Zenon
    <3> HIDE DEF mapped
    <3> QED BY <3>1, <3>2 DEF RunRecords
  <2>3. ASSUME NEW n \in 1..Len(threads), n \in mapped PROVE stopped(n).cancelled
    <3>1. threads[n] \in RunRecords
      BY DEF ConnectionInv, ConnectionTypeOK
    <3> HIDE DEF mapped
    <3> QED BY <2>3, <3>1 DEF RunRecords
  <2>4. /\ threads' \in Seq(RunRecords) /\ Len(threads') = Len(threads)
        /\ \A n \in 1..Len(threads) : threads'[n] = stopped(n)
    <3> HIDE DEF stopped
    <3>1. threads' \in [1..Len(threads) -> RunRecords] /\ Len(threads) \in Nat
      BY <2>1, <2>2 DEF ConnectionInv, ConnectionTypeOK
    <3> QED BY <3>1, <2>1
  <2> HIDE DEF stopped
  <2>5. ConnectionTypeOK'
    BY <2>1, <2>2, <2>4 DEF ConnectionInv, ConnectionTypeOK
  <2>6. Registered'
    BY <2>1, <2>2, <2>4 DEF ConnectionInv, Registered, Runs
  <2>7. ASSUME NEW n \in 1..Len(threads), threads[n].does = "runs" PROVE n \in mapped
    BY <2>7 DEF ConnectionInv, Registered, Runs
  <2>8. ClosedStopsAll'
    <3> SUFFICES ASSUME NEW n \in 1..Len(threads), threads'[n].does = "runs"
                 PROVE  threads'[n].cancelled
      BY <2>4 DEF ClosedStopsAll
    <3>1. threads'[n] = stopped(n) /\ stopped(n).cancelled
      BY <2>2, <2>3, <2>4, <2>7
    <3> QED BY <3>1, Zenon
  <2> QED BY <2>5, <2>6, <2>8 DEF ConnectionInv
<1>4. CASE \E n \in 1..Len(threads) : StreamEvent(n) \/ ThreadStep(n)
  BY <1>4, ThreadStepKeeps
<1>5. CASE UNCHANGED connectionVars
  BY <1>5 DEF connectionVars, ConnectionInv, ConnectionTypeOK, Registered, ClosedStopsAll, Runs
<1> QED BY <1>1, <1>2, <1>3, <1>4, <1>5 DEF ConnectionNext

\* A request that runs can be stopped as long as it does, whatever lines the client writes
\* and however many: its id stands for that run and no other, and the end of the
\* connection has stopped it (`start`, `connection`).
THEOREM RunsStayStoppable == ConnectionSpec => []RunsCanBeStopped
<1>1. ConnectionInv => RunsCanBeStopped
  BY DEF ConnectionInv, Registered, ClosedStopsAll, RunsCanBeStopped
<1> QED BY <1>1, ConnectionInitInv, ConnectionNextInv, PTL DEF ConnectionSpec
----------------------------------------------------------------------------
(* Serve: what becomes of the questions a session asked. *)

Counting == {"counts over", "counts ended"}
AtFrames == {"between", "takes", "answers", "waits"}
Fates == {"pending", "answered", "abandoned"}

SessionTyped ==
  /\ pipe \in Seq(FrameLines) /\ channel \in Seq(FrameLines) /\ questions \in Seq(Fates)
  /\ closed \in BOOLEAN /\ reader \in BOOLEAN /\ bounded \in BOOLEAN /\ overdue \in BOOLEAN
  /\ stage \in AtFrames \cup Counting \cup {"marks"} \cup Over
  /\ counted \in 0..Len(questions) /\ unanswered \subseteq 1..counted
  /\ stage \in AtFrames => counted = 0
  /\ stage \in {"marks", "ended"} => counted = Len(questions)

\* Nothing more of the member's is on its way.
StreamOver == closed /\ pipe = <<>> /\ channel = <<>> /\ ~reader

\* The reader thread ends at the end of the stream, or once nobody is there to read for.
ReaderEndsWithStream == ~reader => (closed /\ pipe = <<>>) \/ stage \in Over

\* A session that goes on to mark has seen the stream end, and all it asked.
MarksAfterTheEnd ==
  /\ stage \in {"counts ended", "marks", "ended"} => StreamOver
  /\ (\E q \in 1..Len(questions) : questions[q] = "abandoned")
       => /\ stage \in {"marks", "ended", "failed"}
          /\ counted = Len(questions) /\ StreamOver

\* A question looked at and still waiting is among the unanswered.
PendingIsTracked ==
  /\ stage \in Counting \cup {"marks", "ended"} =>
       \A q \in 1..counted : questions[q] = "pending" => q \in unanswered
  /\ stage = "ended" => unanswered = {}

ServeInv == SessionTyped /\ ReaderEndsWithStream /\ MarksAfterTheEnd /\ PendingIsTracked

LEMMA ServeInitInv == ServeInit => ServeInv
<1> SUFFICES ASSUME ServeInit PROVE ServeInv
  OBVIOUS
<1> USE DEF ServeInit
<1>1. /\ pipe \in Seq(FrameLines) /\ channel \in Seq(FrameLines) /\ questions \in Seq(Fates)
      /\ Len(questions) = 0
  OBVIOUS
<1>2. /\ counted \in 0..Len(questions) /\ unanswered \subseteq 1..counted
      /\ \A q \in 1..Len(questions) : FALSE
  BY <1>1
<1>3. SessionTyped
  BY <1>1, <1>2 DEF SessionTyped, AtFrames
<1>4. ReaderEndsWithStream /\ MarksAfterTheEnd /\ PendingIsTracked
  BY <1>2 DEF ReaderEndsWithStream, MarksAfterTheEnd, PendingIsTracked, Counting
<1> QED BY <1>3, <1>4 DEF ServeInv

LEMMA CountsTyped ==
  ASSUME SessionTyped
  PROVE  /\ counted \in Nat /\ Len(questions) \in Nat /\ counted <= Len(questions)
         /\ questions \in Seq(Fates) /\ unanswered \subseteq 1..counted
BY DEF SessionTyped

\* A step that changes what became of one question.
LEMMA QuestionChanged ==
  ASSUME SessionTyped, NEW q \in 1..Len(questions), NEW fate \in Fates,
         questions' = [questions EXCEPT ![q] = fate]
  PROVE  /\ questions' \in Seq(Fates) /\ Len(questions') = Len(questions)
         /\ questions'[q] = fate
         /\ \A other \in 1..Len(questions) : other # q => questions'[other] = questions[other]
BY ExceptSeq DEF SessionTyped

\* The member, the reader thread and the clock.
LEMMA FeedKeeps ==
  ASSUME ServeInv, MemberWrites \/ MemberCloses \/ ReadAhead \/ ReaderEnds \/ TimeIsUp
  PROVE  ServeInv'
<1> USE DEF ServeInv
<1>0. UNCHANGED <<stage, asks, bounded>>
  BY DEF MemberWrites, MemberCloses, ReadAhead, ReaderEnds, TimeIsUp
<1>1. SessionTyped'
  <2>1. CASE MemberWrites
    BY <2>1 DEF MemberWrites, SessionTyped, asks
  <2>2. CASE MemberCloses \/ ReaderEnds \/ TimeIsUp
    BY <2>2 DEF MemberCloses, ReaderEnds, TimeIsUp, feed, SessionTyped, asks
  <2>3. CASE ReadAhead
    <3>1. pipe \in Seq(FrameLines) /\ channel \in Seq(FrameLines) /\ pipe # <<>>
      BY <2>3 DEF ReadAhead, SessionTyped
    <3> HIDE DEF ServeInv
    <3>2. Tail(pipe) \in Seq(FrameLines) /\ Head(pipe) \in FrameLines
      BY <3>1
    <3>3. Append(channel, Head(pipe)) \in Seq(FrameLines)
      BY <3>1, <3>2
    <3>4. pipe' \in Seq(FrameLines) /\ channel' \in Seq(FrameLines)
      BY <2>3, <3>1, <3>2, <3>3 DEF ReadAhead
    <3> USE DEF ServeInv
    <3> QED BY <1>0, <2>3, <3>4 DEF ReadAhead, SessionTyped, asks
  <2> QED BY <2>1, <2>2, <2>3
<1>2. StreamOver => StreamOver'
  BY DEF StreamOver, MemberWrites, MemberCloses, ReadAhead, ReaderEnds, TimeIsUp, feed
<1>3. ReaderEndsWithStream'
  BY <1>0 DEF ReaderEndsWithStream, MemberWrites, MemberCloses, ReadAhead, ReaderEnds,
              TimeIsUp, feed
<1>4. MarksAfterTheEnd' /\ PendingIsTracked'
  BY <1>0, <1>2 DEF MarksAfterTheEnd, PendingIsTracked, asks
<1> QED BY <1>1, <1>3, <1>4

\* The session, as long as it answers frames.
LEMMA AnsweringKeeps ==
  ASSUME ServeInv,
         AskBound \/ TakeFrame \/ NoFrame \/ AnswerFrame \/ AskQuestion \/ WaitIsOver
  PROVE  ServeInv'
<1> USE DEF ServeInv, AtFrames, Counting, Over
<1>1. CASE AskBound \/ NoFrame \/ AnswerFrame \/ WaitIsOver
  <2>1. SessionTyped'
    BY <1>1 DEF AskBound, NoFrame, AnswerFrame, WaitIsOver, SessionTyped, feed, asks
  <2>2. counted = 0 /\ counted' = 0
    BY <1>1 DEF AskBound, NoFrame, AnswerFrame, WaitIsOver, SessionTyped, asks
  <2>3. ReaderEndsWithStream'
    BY <1>1 DEF AskBound, NoFrame, AnswerFrame, WaitIsOver, feed, ReaderEndsWithStream
  <2>a. /\ UNCHANGED <<pipe, closed, channel, reader, questions, counted>>
        /\ stage \in AtFrames
        /\ stage' \in AtFrames \cup Counting \cup {"failed"}
        /\ stage' = "counts ended" => ~reader /\ channel = <<>>
    BY <1>1 DEF AskBound, NoFrame, AnswerFrame, WaitIsOver, feed, asks
  <2>4. MarksAfterTheEnd'
    <3>1. stage' = "counts ended" => StreamOver
      BY <2>a DEF ReaderEndsWithStream, StreamOver
    <3>2. ~ \E q \in 1..Len(questions) : questions[q] = "abandoned"
      BY <2>a DEF MarksAfterTheEnd
    <3> QED BY <2>a, <3>1, <3>2 DEF MarksAfterTheEnd, StreamOver
  <2>5. PendingIsTracked'
    <3>1. \A q \in 1..counted' : FALSE
      BY <2>2
    <3>2. stage' # "ended"
      BY <2>a
    <3> QED BY <3>1, <3>2 DEF PendingIsTracked
  <2> QED BY <2>1, <2>3, <2>4, <2>5
<1>2. CASE TakeFrame
  BY <1>2 DEF TakeFrame, SessionTyped, ReaderEndsWithStream, MarksAfterTheEnd, PendingIsTracked,
              StreamOver, asks
<1>3. CASE AskQuestion
  <2>0. questions' \in Seq(Fates) /\ Len(questions') >= Len(questions)
    <3>1. questions \in Seq(Fates) /\ "pending" \in Fates
      BY DEF SessionTyped, Fates
    <3>2. questions' = questions \/ questions' = Append(questions, "pending")
      BY <1>3 DEF AskQuestion
    <3> QED BY <3>1, <3>2
  <2>a. /\ UNCHANGED <<pipe, channel, closed, reader, bounded, overdue, counted, unanswered>>
        /\ stage \in AtFrames /\ stage' \in {"waits", "failed"}
    BY <1>3 DEF AskQuestion, feed
  <2>b. counted = 0 /\ counted' \in 0..Len(questions')
    <3>1. counted = 0
      BY <2>a DEF SessionTyped
    <3>2. Len(questions') \in Nat
      BY <2>0
    <3> QED BY <2>a, <3>1, <3>2
  <2>1. SessionTyped' /\ counted = 0 /\ counted' = 0
    BY <2>0, <2>a, <2>b DEF SessionTyped
  <2>2. ReaderEndsWithStream'
    BY <1>3 DEF AskQuestion, feed, ReaderEndsWithStream
  <2>3. \A q \in 1..Len(questions') : questions'[q] # "abandoned"
    BY <1>3 DEF AskQuestion, SessionTyped, MarksAfterTheEnd
  <2>4. MarksAfterTheEnd' /\ PendingIsTracked'
    BY <1>3, <2>1, <2>3 DEF AskQuestion, MarksAfterTheEnd, PendingIsTracked
  <2> QED BY <2>1, <2>2, <2>4
<1> QED BY <1>1, <1>2, <1>3

\* Somebody answers a question.
LEMMA AnswerQuestionKeeps ==
  ASSUME ServeInv, NEW q \in 1..Len(questions), AnswerQuestion(q)
  PROVE  ServeInv'
<1> USE DEF ServeInv, AnswerQuestion
<1>0. counted \in Nat /\ Len(questions) \in Nat /\ counted <= Len(questions)
  BY CountsTyped
<1>1. /\ questions' \in Seq(Fates) /\ Len(questions') = Len(questions)
      /\ questions'[q] = "answered"
      /\ \A other \in 1..Len(questions) : other # q => questions'[other] = questions[other]
  BY QuestionChanged DEF Fates
<1>2. SessionTyped' /\ ReaderEndsWithStream'
  BY <1>1 DEF SessionTyped, ReaderEndsWithStream, feed
<1>3. MarksAfterTheEnd'
  BY <1>1 DEF MarksAfterTheEnd, StreamOver, feed
<1>4. PendingIsTracked'
  <2>1. UNCHANGED <<stage, counted, unanswered>>
    OBVIOUS
  <2>2. ASSUME NEW other \in 1..counted, questions'[other] = "pending"
        PROVE  questions[other] = "pending"
    BY <2>2, <1>0, <1>1
  <2> QED BY <2>1, <2>2 DEF PendingIsTracked
<1> QED BY <1>2, <1>3, <1>4

\* The session, once it has ended.
LEMMA EndingKeeps ==
  ASSUME ServeInv,
         CountOne \/ CountFails \/ CountedAll \/ MarkOne \/ MarkFails \/ MarkedAll
  PROVE  ServeInv'
<1> USE DEF ServeInv, AtFrames, Counting, Over
<1>1. CASE CountOne
  <2>0. /\ counted \in Nat /\ Len(questions) \in Nat /\ counted < Len(questions)
        /\ unanswered \subseteq 1..counted /\ counted' = counted + 1
    BY <1>1, CountsTyped DEF CountOne
  <2>1. /\ counted' \in 0..Len(questions)
        /\ unanswered' \subseteq 1..counted'
        /\ unanswered \subseteq unanswered'
        /\ counted + 1 \in unanswered' \/ questions[counted + 1] = "answered"
    <3>1. unanswered' = unanswered \/ unanswered' = unanswered \cup {counted + 1}
      BY <1>1 DEF CountOne
    <3>2. counted + 1 \in unanswered' \/ questions[counted + 1] = "answered"
      BY <1>1 DEF CountOne
    <3>3. counted + 1 \in 0..Len(questions) /\ unanswered \cup {counted + 1} \subseteq 1..(counted + 1)
      BY <2>0
    <3>4. unanswered \subseteq unanswered' /\ unanswered' \subseteq unanswered \cup {counted + 1}
      BY <3>1, Zenon
    <3>5. unanswered' \subseteq 1..(counted + 1)
      BY <3>3, <3>4, Zenon
    <3> QED BY <2>0, <3>2, <3>3, <3>4, <3>5, Zenon
  <2>a. /\ UNCHANGED <<pipe, channel, closed, reader, bounded, overdue, stage, questions>>
        /\ stage \in Counting
    BY <1>1 DEF CountOne, feed
  <2>2. SessionTyped' /\ ReaderEndsWithStream'
    BY <2>1, <2>a DEF SessionTyped, ReaderEndsWithStream
  <2>3. MarksAfterTheEnd'
    BY <2>a DEF MarksAfterTheEnd, StreamOver
  <2>4. PendingIsTracked'
    <3>1. ASSUME NEW q \in 1..counted', questions[q] = "pending" PROVE q \in unanswered'
      <4>1. CASE q = counted + 1
        BY <3>1, <4>1, <2>1
      <4>2. CASE q # counted + 1
        <5>1. q \in 1..counted
          BY <2>0, <4>2
        <5> QED BY <3>1, <5>1, <2>1, <2>a DEF PendingIsTracked
      <4> QED BY <4>1, <4>2
    <3> QED BY <2>a, <3>1 DEF PendingIsTracked
  <2> QED BY <2>2, <2>3, <2>4
<1>2. CASE CountFails \/ MarkFails \/ MarkedAll
  <2>1. SessionTyped' /\ ReaderEndsWithStream'
    BY <1>2 DEF CountFails, MarkFails, MarkedAll, SessionTyped, ReaderEndsWithStream, feed, asks
  <2>a. /\ UNCHANGED <<pipe, channel, closed, reader, counted, questions>>
        /\ \/ stage \in Counting /\ stage' = "failed"
           \/ stage = "marks" /\ stage' \in {"failed", "ended"}
    BY <1>2 DEF CountFails, MarkFails, MarkedAll, feed, asks
  <2>2. MarksAfterTheEnd'
    <3>1. CASE stage \in Counting /\ stage' = "failed"
      BY <2>a, <3>1 DEF MarksAfterTheEnd, StreamOver
    <3>2. CASE stage = "marks" /\ stage' \in {"failed", "ended"}
      BY <2>a, <3>2 DEF MarksAfterTheEnd, StreamOver, SessionTyped
    <3> QED BY <2>a, <3>1, <3>2
  <2>3. PendingIsTracked'
    BY <1>2 DEF CountFails, MarkFails, MarkedAll, PendingIsTracked, asks
  <2> QED BY <2>1, <2>2, <2>3
<1>3. CASE CountedAll
  <2>0. channel' \in Seq(FrameLines) /\ UNCHANGED <<pipe, closed, reader, bounded, overdue, asks>>
    <3>1. <<>> \in Seq(FrameLines)
      OBVIOUS
    <3>2. channel \in Seq(FrameLines)
      BY DEF SessionTyped
    <3> QED BY <1>3, <3>1, <3>2 DEF CountedAll
  <2>1. SessionTyped'
    BY <1>3, <2>0 DEF CountedAll, SessionTyped, asks
  <2>2. ReaderEndsWithStream' /\ PendingIsTracked'
    BY <1>3 DEF CountedAll, ReaderEndsWithStream, PendingIsTracked, asks
  <2>3. MarksAfterTheEnd'
    BY <1>3 DEF CountedAll, MarksAfterTheEnd, StreamOver, asks
  <2> QED BY <2>1, <2>2, <2>3
<1>4. CASE MarkOne
  <2>1. PICK q \in unanswered :
          /\ unanswered' = unanswered \ {q}
          /\ questions' = [questions EXCEPT ![q] = IF @ = "pending" THEN "abandoned" ELSE @]
    BY <1>4 DEF MarkOne
  <2>2. q \in 1..Len(questions) /\ questions[q] \in Fates
    <3>1. counted \in Nat /\ Len(questions) \in Nat /\ counted <= Len(questions)
      BY CountsTyped
    <3>2. q \in 1..counted
      BY CountsTyped
    <3>3. q \in 1..Len(questions) /\ questions \in Seq(Fates)
      BY <3>1, <3>2, CountsTyped
    <3> QED BY <3>3, ElementOfSeq
  <2> DEFINE fate == IF questions[q] = "pending" THEN "abandoned" ELSE questions[q]
  <2>3. fate \in Fates /\ fate # "pending" /\ questions' = [questions EXCEPT ![q] = fate]
    BY <2>1, <2>2 DEF Fates
  <2> HIDE DEF fate
  <2>4. /\ questions' \in Seq(Fates) /\ Len(questions') = Len(questions)
        /\ questions'[q] # "pending"
        /\ \A other \in 1..Len(questions) : other # q => questions'[other] = questions[other]
    BY <2>2, <2>3, QuestionChanged
  <2>5. UNCHANGED <<feed, bounded, overdue, stage, frame, counted>> /\ stage = "marks"
    BY <1>4 DEF MarkOne
  <2>6. SessionTyped' /\ ReaderEndsWithStream'
    BY <2>1, <2>4, <2>5 DEF SessionTyped, ReaderEndsWithStream, feed
  <2>7. MarksAfterTheEnd'
    BY <2>4, <2>5 DEF SessionTyped, MarksAfterTheEnd, StreamOver, feed
  <2>8. PendingIsTracked'
    BY <2>1, <2>2, <2>4, <2>5 DEF SessionTyped, PendingIsTracked
  <2> QED BY <2>6, <2>7, <2>8
<1> QED BY <1>1, <1>2, <1>3, <1>4

LEMMA ServeNextInv == ServeInv /\ [ServeNext]_serveVars => ServeInv'
<1> SUFFICES ASSUME ServeInv, [ServeNext]_serveVars PROVE ServeInv'
  OBVIOUS
<1>1. CASE ServeNext
  BY <1>1, FeedKeeps, AnsweringKeeps, AnswerQuestionKeeps, EndingKeeps DEF ServeNext, SessionStep
<1>2. CASE UNCHANGED serveVars
  BY <1>2 DEF serveVars, ServeInv, SessionTyped, ReaderEndsWithStream, MarksAfterTheEnd,
              PendingIsTracked, StreamOver
<1> QED BY <1>1, <1>2

\* However many frames a member writes and whenever it stops, its time is up or something
\* fails: a session that saw its stream end leaves no question pending, and a question is
\* abandoned by no other (`serve`, `Served`).
THEOREM EndingsDecide == ServeSpec => []EndingDecides
<1>1. ServeInv => EndingDecides
  <2> SUFFICES ASSUME ServeInv PROVE EndingDecides
    OBVIOUS
  <2>1. stage = "ended" => \A q \in 1..Len(questions) : questions[q] # "pending"
    BY DEF ServeInv, SessionTyped, PendingIsTracked
  <2>2. <<>> \o <<>> = <<>>
    OBVIOUS
  <2> QED BY <2>1, <2>2 DEF ServeInv, MarksAfterTheEnd, StreamOver, EndingDecides
<1> QED BY <1>1, ServeInitInv, ServeNextInv, PTL DEF ServeSpec
----------------------------------------------------------------------------
(* Carry: where the records of a store went. *)

Messages == Carriers \X Nat

CarryTyped ==
  /\ entries \in Seq(Messages) /\ appended \in Seq(Messages)
  /\ parsed \in Seq(Messages) /\ drained \in Seq(Messages)
  /\ mishaps \in Nat /\ mishaps <= MaxMishaps
  /\ carrier \in [Carriers -> {"idle", "staged", "created", "appending", "dead"}]
  /\ carried \in [Carriers -> Nat]
  /\ storeIs = "absent" =>
       /\ entries = <<>>
       /\ \A s \in Carriers : carrier[s] \notin {"created", "appending"}

\* Who changes the store has its lock, the receiver from its parse on.
ChangedUnderLock ==
  /\ \A s \in Carriers : carrier[s] = "appending" => storeLock = s
  /\ session \in {"adopting", "closed"} => storeLock = "receiver" /\ parsed = entries

\* A sender numbers its messages, and appends the one it carries once.
AppendedAtMostOnce ==
  /\ \A s \in Carriers, n \in Nat : <<s, n>> \in ToSet(appended) => n <= carried[s]
  /\ \A s \in Carriers : carrier[s] \in {"staged", "created", "appending"}
                           => <<s, carried[s]>> \notin ToSet(appended)

CarryInv == CarryTyped /\ ChangedUnderLock /\ AppendedAtMostOnce /\ CarriedInOrder

LEMMA CarryInitInv == CarryInit => CarryInv
<1> SUFFICES ASSUME CarryInit PROVE CarryInv
  OBVIOUS
<1> USE DEF CarryInit
<1>1. <<>> \in Seq(Messages) /\ <<>> \o <<>> = <<>>
  OBVIOUS
<1>2. CarryTyped
  BY <1>1, CarryAssumption DEF CarryTyped
<1>3. ToSet(<<>>) = {} /\ IsInjective(<<>>)
  BY DEF ToSet, IsInjective
<1>4. ChangedUnderLock /\ AppendedAtMostOnce
  BY <1>3 DEF ChangedUnderLock, AppendedAtMostOnce
<1>5. CarriedInOrder
  BY <1>1, <1>3 DEF CarriedInOrder
<1> QED BY <1>2, <1>4, <1>5 DEF CarryInv

\* The record of a sender that has the lock is appended, to the end of the store.
LEMMA RecordAppended ==
  ASSUME CarryInv, NEW s \in Carriers, carrier[s] = "appending",
         entries' = Append(entries, MessageOf(s)), appended' = Append(appended, MessageOf(s)),
         UNCHANGED <<storeIs, drained, lost, parsed, carried, session>>, storeLock' = "free",
         mishaps' \in Nat, mishaps' <= mishaps,
         NEW end \in {"idle", "dead"}, CarrierTo(s, end)
  PROVE  /\ CarryTyped' /\ ChangedUnderLock' /\ AppendedAtMostOnce'
         /\ (drained \o entries = appended)' /\ IsInjective(appended')
         /\ ToSet(appended') = ToSet(appended) \cup {MessageOf(s)}
<1> DEFINE message == MessageOf(s)
<1>1. message = <<s, carried[s]>> /\ message \in Messages
  BY DEF CarryInv, CarryTyped, MessageOf, Messages
<1>2. /\ entries \in Seq(Messages) /\ drained \in Seq(Messages) /\ appended \in Seq(Messages)
      /\ drained \o entries = appended /\ IsInjective(appended)
      /\ carrier \in [Carriers -> {"idle", "staged", "created", "appending", "dead"}]
  BY DEF CarryInv, CarryTyped, CarriedInOrder
<1>3. message \notin ToSet(appended)
  BY <1>1 DEF CarryInv, AppendedAtMostOnce
<1> HIDE DEF message
<1>4. /\ appended' \in Seq(Messages) /\ IsInjective(appended')
      /\ ToSet(appended') = ToSet(appended) \cup {message}
  <2>1. appended' = Append(appended, message)
    BY DEF message
  <2>2. /\ Append(appended, message) \in Seq(Messages) /\ IsInjective(Append(appended, message))
        /\ ToSet(Append(appended, message)) = ToSet(appended) \cup {message}
    <3>1. /\ appended \in Seq(Messages) /\ message \in Messages
          /\ IsInjective(appended) /\ message \notin ToSet(appended)
      BY <1>1, <1>2, <1>3
    <3> HIDE DEF Messages
    <3> QED BY <3>1, AppendOnce
  <2> QED BY <2>1, <2>2, Zenon
<1>5. entries' \in Seq(Messages) /\ drained \o entries' = appended'
  <2>1. entries' = Append(entries, message) /\ appended' = Append(appended, message)
    BY DEF message
  <2>2. <<message>> \in Seq(Messages)
    BY <1>1
  <2>3. entries' = entries \o <<message>> /\ appended' = appended \o <<message>>
    BY <1>1, <1>2, <2>1, AppendIsConcat
  <2>4. drained \o (entries \o <<message>>) = (drained \o entries) \o <<message>>
    <3>1. drained \in Seq(Messages) /\ entries \in Seq(Messages)
      BY <1>2
    <3> QED BY <3>1, <2>2, ConcatAssociative
  <2>5. entries' \in Seq(Messages)
    BY <1>1, <1>2, <2>1, AppendProperties
  <2> QED BY <1>2, <2>3, <2>4, <2>5
<1>6. carrier' = [carrier EXCEPT ![s] = end] /\ storeIs' # "absent"
  BY DEF CarryInv, CarryTyped, CarrierTo
<1>7. CarryTyped'
  BY <1>2, <1>4, <1>5, <1>6, CarryAssumption DEF CarryInv, CarryTyped
<1>8. ChangedUnderLock'
  <2>1. storeLock = s /\ storeLock # "receiver"
    BY CarryAssumption DEF CarryInv, ChangedUnderLock
  <2>2. ASSUME NEW w \in Carriers, carrier'[w] = "appending" PROVE FALSE
    BY <1>2, <1>6, <2>1, <2>2 DEF CarryInv, ChangedUnderLock
  <2> QED BY <2>1, <2>2 DEF CarryInv, ChangedUnderLock
<1>9. AppendedAtMostOnce'
  <2>1. ASSUME NEW w \in Carriers, NEW n \in Nat, <<w, n>> \in ToSet(appended')
        PROVE  n <= carried[w]
    <3>1. CASE <<w, n>> = message
      BY <1>1, <3>1 DEF CarryInv, CarryTyped
    <3>2. CASE <<w, n>> # message
      BY <1>4, <2>1, <3>2 DEF CarryInv, AppendedAtMostOnce
    <3> QED BY <3>1, <3>2
  <2>2. ASSUME NEW w \in Carriers, carrier'[w] \in {"staged", "created", "appending"}
        PROVE  <<w, carried[w]>> \notin ToSet(appended')
    <3>1. w # s /\ carrier'[w] = carrier[w]
      BY <1>2, <1>6, <2>2
    <3>2. <<w, carried[w]>> # message
      BY <1>1, <3>1
    <3> QED BY <1>4, <2>2, <3>1, <3>2 DEF CarryInv, AppendedAtMostOnce
  <2> QED BY <2>1, <2>2 DEF AppendedAtMostOnce
<1> QED BY <1>4, <1>5, <1>7, <1>8, <1>9 DEF message

\* The other steps of the senders leave what was appended.
LEMMA SenderKeeps ==
  ASSUME CarryInv, NEW s \in Carriers, BeginsCarrying(s) \/ LinksStore(s) \/ LocksStore(s)
  PROVE  CarryInv'
<1> USE DEF CarryInv, CarrierTo
<1>0. carrier \in [Carriers -> {"idle", "staged", "created", "appending", "dead"}]
      /\ carried \in [Carriers -> Nat]
  BY DEF CarryTyped
<1>1. UNCHANGED <<assured, appended, drained, lost, parsed, session, mishaps>>
  BY DEF BeginsCarrying, LinksStore, LocksStore, storing, receiving, draining
<1>2. entries' = entries
  BY DEF BeginsCarrying, LinksStore, LocksStore, storing, Linked, CarryTyped
<1>3. CarriedInOrder'
  BY <1>1, <1>2 DEF CarriedInOrder
<1>4. CASE BeginsCarrying(s)
  <2>0. PICK where \in {"staged", "created"} :
          /\ carrier' = [carrier EXCEPT ![s] = where]
          /\ storeIs = "absent" => where = "staged"
    BY <1>4 DEF BeginsCarrying
  <2>1. /\ carried' = [carried EXCEPT ![s] = @ + 1] /\ carrier[s] = "idle"
        /\ UNCHANGED <<storeIs, storeLock>>
    BY <1>4 DEF BeginsCarrying, storing
  <2>2. CarryTyped'
    BY <1>0, <1>1, <1>2, <2>0, <2>1 DEF CarryTyped
  <2>3. ChangedUnderLock'
    BY <1>0, <1>1, <1>2, <2>0, <2>1 DEF ChangedUnderLock
  <2>4. ASSUME NEW w \in Carriers, NEW n \in Nat, <<w, n>> \in ToSet(appended)
        PROVE  n <= carried'[w]
    <3>1. n <= carried[w] /\ carried[w] \in Nat /\ carried'[w] \in {carried[w], carried[w] + 1}
      BY <1>0, <2>1, <2>4 DEF AppendedAtMostOnce
    <3> QED BY <3>1
  <2>5. ASSUME NEW w \in Carriers, carrier'[w] \in {"staged", "created", "appending"}
        PROVE  <<w, carried'[w]>> \notin ToSet(appended)
    <3>1. CASE w = s
      <4>1. carried'[s] = carried[s] + 1 /\ carried[s] \in Nat /\ carried[s] + 1 \in Nat
        BY <1>0, <2>1
      <4>2. ~(carried[s] + 1 <= carried[s])
        BY <4>1
      <4> QED BY <3>1, <4>1, <4>2 DEF AppendedAtMostOnce
    <3>2. CASE w # s
      <4>1. carrier'[w] = carrier[w] /\ carried'[w] = carried[w]
        BY <1>0, <2>0, <2>1, <3>2
      <4> QED BY <2>5, <4>1 DEF AppendedAtMostOnce
    <3> QED BY <3>1, <3>2
  <2>6. AppendedAtMostOnce'
    BY <1>1, <2>4, <2>5 DEF AppendedAtMostOnce
  <2> QED BY <1>3, <2>2, <2>3, <2>6
<1>5. CASE LinksStore(s) \/ LocksStore(s)
  <2>0. PICK where \in {"idle", "created", "appending"} :
          /\ carrier' = [carrier EXCEPT ![s] = where]
          /\ where # "idle" => carrier[s] \in {"staged", "created"}
          /\ where = "appending" => storeLock' = s /\ storeLock = "free"
          /\ where # "appending" => storeLock' = storeLock /\ carrier[s] # "appending"
          /\ storeIs' # "absent"
    BY <1>5 DEF LinksStore, LocksStore, StoreFree, storing, CarryTyped
  <2>1. carried' = carried
    BY <1>5 DEF LinksStore, LocksStore
  <2>2. CarryTyped'
    BY <1>0, <1>1, <1>2, <2>0, <2>1 DEF CarryTyped
  <2>3. ChangedUnderLock'
    <3>1. ASSUME NEW w \in Carriers, carrier'[w] = "appending" PROVE storeLock' = w
      <4>1. CASE w = s
        BY <1>0, <2>0, <3>1, <4>1
      <4>2. CASE w # s
        <5>1. carrier[w] = "appending" /\ storeLock = w
          BY <1>0, <2>0, <3>1, <4>2 DEF ChangedUnderLock
        <5> QED BY <2>0, <5>1, CarryAssumption
      <4> QED BY <4>1, <4>2
    <3>2. session \in {"adopting", "closed"} => storeLock' = storeLock
      BY <2>0 DEF ChangedUnderLock
    <3> QED BY <1>1, <1>2, <3>1, <3>2 DEF ChangedUnderLock
  <2>4. ASSUME NEW w \in Carriers, carrier'[w] \in {"staged", "created", "appending"}
        PROVE  carrier[w] \in {"staged", "created", "appending"}
    BY <1>0, <2>0, <2>4
  <2>5. AppendedAtMostOnce'
    BY <1>1, <2>1, <2>4 DEF AppendedAtMostOnce
  <2> QED BY <1>3, <2>2, <2>3, <2>5
<1> QED BY <1>4, <1>5

LEMMA CarrierAppendKeeps ==
  ASSUME CarryInv, NEW s \in Carriers, Appends(s) \/ AppendFails(s)
  PROVE  CarryInv'
<1>1. ToSet(appended) = Range(appended) /\ ToSet(appended') = Range(appended')
  BY DEF ToSet, Range
<1>2. CASE /\ entries' = Append(entries, MessageOf(s)) /\ appended' = Append(appended, MessageOf(s))
           /\ storeIs' = storeIs
  <2>1. /\ carrier[s] = "appending" /\ storeLock' = "free"
        /\ UNCHANGED <<drained, lost, parsed, carried, session>>
        /\ mishaps' \in Nat /\ mishaps' <= mishaps
        /\ assured' \subseteq assured \cup {MessageOf(s)}
        /\ \E end \in {"idle", "dead"} : CarrierTo(s, end)
    BY DEF Appends, AppendFails, receiving, draining, CarryInv, CarryTyped
  <2>2. /\ CarryTyped' /\ ChangedUnderLock' /\ AppendedAtMostOnce'
        /\ (drained \o entries = appended)' /\ IsInjective(appended')
        /\ ToSet(appended') = ToSet(appended) \cup {MessageOf(s)}
    BY <1>2, <2>1, RecordAppended
  <2>3. assured' \subseteq Range(appended')
    BY <1>1, <2>1, <2>2 DEF CarryInv, CarriedInOrder
  <2>4. mishaps' = MaxMishaps => lost' = {}
    BY <2>1 DEF CarryInv, CarryTyped, CarriedInOrder
  <2> QED BY <2>2, <2>3, <2>4 DEF CarryInv, CarriedInOrder
<1>3. CASE UNCHANGED <<entries, appended>> /\ AppendFails(s)
  <2>1. PICK end \in {"idle", "dead"} : carrier' = [carrier EXCEPT ![s] = end]
    BY <1>3 DEF AppendFails, CarrierTo
  <2>2. /\ carrier[s] = "appending" /\ storeLock' = "free" /\ storeIs' \in {storeIs, "torn"}
        /\ UNCHANGED <<entries, appended, drained, lost, parsed, carried, session, assured>>
        /\ mishaps' \in Nat /\ mishaps' < mishaps
    <3>1. storeIs' = storeIs \/ storeIs' = "torn"
      BY <1>3 DEF AppendFails, storing
    <3> QED BY <1>3, <3>1 DEF AppendFails, receiving, draining, CarryInv, CarryTyped
  <2>3. carrier \in [Carriers -> {"idle", "staged", "created", "appending", "dead"}]
    BY DEF CarryInv, CarryTyped
  <2>4. CarryTyped'
    BY <2>1, <2>2, <2>3, CarryAssumption DEF CarryInv, CarryTyped
  <2>5. storeLock = s /\ storeLock # "receiver"
    BY <2>2, CarryAssumption DEF CarryInv, ChangedUnderLock
  <2>6. ASSUME NEW w \in Carriers, carrier'[w] = "appending" PROVE FALSE
    BY <2>1, <2>3, <2>5, <2>6 DEF CarryInv, ChangedUnderLock
  <2>7. ChangedUnderLock'
    BY <2>2, <2>5, <2>6 DEF CarryInv, ChangedUnderLock
  <2>8. ASSUME NEW w \in Carriers, carrier'[w] \in {"staged", "created", "appending"}
        PROVE  carrier[w] \in {"staged", "created", "appending"}
    BY <2>1, <2>3, <2>8
  <2>9. AppendedAtMostOnce' /\ CarriedInOrder'
    BY <2>2, <2>8 DEF CarryInv, CarryTyped, AppendedAtMostOnce, CarriedInOrder
  <2> QED BY <2>4, <2>7, <2>9 DEF CarryInv
<1> QED BY <1>2, <1>3 DEF Appends, AppendFails, storing

LEMMA ReceiverKeeps ==
  ASSUME CarryInv,
         SessionBegins \/ BeginsAdopting \/ InboxCloses \/ Adopts \/ AdoptFails \/ CutIsNotSynced
  PROVE  CarryInv'
<1>0. UNCHANGED <<storeIs, carrier, carried, assured, appended>>
  BY DEF SessionBegins, BeginsAdopting, InboxCloses, Adopts, AdoptFails, CutIsNotSynced,
         storing, draining
<1>1. AppendedAtMostOnce'
  BY <1>0 DEF CarryInv, AppendedAtMostOnce
<1>2. \A s \in Carriers : carrier'[s] = "appending" => storeLock' = s
  <2> SUFFICES ASSUME NEW s \in Carriers, carrier'[s] = "appending" PROVE storeLock' = s
    OBVIOUS
  <2>1. storeLock = s /\ s # "free" /\ s # "receiver"
    BY <1>0, CarryAssumption DEF CarryInv, ChangedUnderLock
  <2>2. session \notin {"adopting", "closed"} /\ ~StoreFree
    BY <2>1 DEF CarryInv, ChangedUnderLock, StoreFree
  <2> QED BY <2>1, <2>2 DEF SessionBegins, BeginsAdopting, InboxCloses, Adopts, AdoptFails,
                            CutIsNotSynced
<1>3. session' \in {"adopting", "closed"} => storeLock' = "receiver" /\ parsed' = entries'
  BY DEF SessionBegins, BeginsAdopting, InboxCloses, Adopts, AdoptFails, CutIsNotSynced,
         storing, draining, CarryInv, ChangedUnderLock
<1>4. mishaps' \in Nat /\ mishaps' <= mishaps
  BY DEF SessionBegins, BeginsAdopting, InboxCloses, Adopts, AdoptFails, CutIsNotSynced, CarryInv,
         CarryTyped
<1>5. ASSUME parsed = entries, drained' = drained \o parsed, entries' = <<>>, parsed' = <<>>,
             lost' = lost \/ mishaps' < mishaps
      PROVE  CarryInv'
  <2>1. /\ drained \in Seq(Messages) /\ parsed \in Seq(Messages) /\ appended \in Seq(Messages)
        /\ drained \o parsed \in Seq(Messages) /\ <<>> \in Seq(Messages)
    BY ConcatProperties DEF CarryInv, CarryTyped
  <2>2. CarryTyped'
    BY <1>0, <1>4, <1>5, <2>1, CarryAssumption DEF CarryInv, CarryTyped
  <2>3. (drained \o entries = appended)'
    <3>1. drained' = appended
      <4>1. drained \o entries = appended
        BY DEF CarryInv, CarriedInOrder
      <4> QED BY <1>5, <4>1, Zenon
    <3>2. appended \o <<>> = appended
      BY <2>1, ConcatEmptySeq
    <3> QED BY <1>0, <1>5, <3>1, <3>2
  <2>4. mishaps' = MaxMishaps => lost' = {}
    BY <1>4, <1>5 DEF CarryInv, CarryTyped, CarriedInOrder
  <2> QED BY <1>0, <1>1, <1>2, <1>3, <2>2, <2>3, <2>4 DEF CarryInv, ChangedUnderLock, CarriedInOrder
<1>6. CASE (Adopts /\ session = "adopting") \/ CutIsNotSynced
  BY <1>5, <1>6 DEF Adopts, CutIsNotSynced, CarryInv, CarryTyped, ChangedUnderLock
<1>7. CASE ~((Adopts /\ session = "adopting") \/ CutIsNotSynced)
  <2>1. UNCHANGED <<entries, drained, lost>>
    BY <1>7 DEF SessionBegins, BeginsAdopting, InboxCloses, Adopts, AdoptFails, storing, draining
  <2>2. parsed' \in Seq(Messages)
    <3>1. parsed' \in {parsed, entries, <<>>}
      BY DEF SessionBegins, BeginsAdopting, InboxCloses, Adopts, AdoptFails, CutIsNotSynced
    <3>2. /\ <<>> \in Seq(Messages) /\ parsed \in Seq(Messages) /\ entries \in Seq(Messages)
      BY DEF CarryInv, CarryTyped
    <3> QED BY <3>1, <3>2
  <2>3. CarryTyped'
    BY <1>0, <1>4, <2>1, <2>2, CarryAssumption DEF CarryInv, CarryTyped
  <2>4. CarriedInOrder'
    BY <1>0, <1>4, <2>1 DEF CarryInv, CarryTyped, CarriedInOrder
  <2> QED BY <1>1, <1>2, <1>3, <2>3, <2>4 DEF CarryInv, ChangedUnderLock
<1> QED BY <1>6, <1>7

LEMMA CarryNextInv == CarryInv /\ [CarryNext]_carryVars => CarryInv'
<1> SUFFICES ASSUME CarryInv, [CarryNext]_carryVars PROVE CarryInv'
  OBVIOUS
<1>1. CASE CarryNext
  BY <1>1, SenderKeeps, CarrierAppendKeeps, ReceiverKeeps DEF CarryNext
<1>2. CASE UNCHANGED carryVars
  BY <1>2 DEF carryVars, CarryInv, CarryTyped, ChangedUnderLock, AppendedAtMostOnce, CarriedInOrder
<1> QED BY <1>1, <1>2

\* CarriedInOrder, for any number of senders, sessions and messages, whatever fails or dies
\* half way and a sync that fails after a cut included: what left the store left it once, in
\* order, with all that was there, and a sender was told of nothing else (`Carrier::send`,
\* `adopt_carried`, `offer_all`).
THEOREM CarriedStaysInOrder == CarrySpec => []CarriedInOrder
<1>1. CarryInv => CarriedInOrder
  BY DEF CarryInv
<1> QED BY <1>1, CarryInitInv, CarryNextInv, PTL DEF CarrySpec

----------------------------------------------------------------------------
(* LinkCache: what resolvers of one cache are told, and what they leave. *)

\* What a process and a file may hold.
DocumentsOrNone == 0..Len(Declares)
Metas == [of : DocumentsOrNone, fresh : BOOLEAN]
Phases == {"idle", "metas", "bodies", "fetch", "ask", "drop", "remove", "forget", "stageBody",
           "body", "stageMeta", "meta", "clear"}
Hows == {"none", "cached", "refused", "reused", "fetched", "confirmed", "cleared"}

LinkTypeOK ==
  /\ served \in Documents
  /\ body \in [Versions -> DocumentsOrNone]
  /\ meta \in [Versions -> Metas]
  /\ phase \in [Resolvers -> Phases]
  /\ metas \in [Resolvers -> [Versions -> Metas]]
  /\ entry \in [Resolvers -> [document : DocumentsOrNone, of : DocumentsOrNone, fresh : BOOLEAN]]
  /\ got \in [Resolvers -> DocumentsOrNone]
  /\ outcome \in [Resolvers -> [how : Hows, document : DocumentsOrNone]]

\* Who stores has a document to store, or confirms the entry it has.
StoresSomething ==
  \A r \in Resolvers :
    /\ phase[r] \in {"drop", "remove", "forget", "stageBody", "body"} => got[r] # 0
    /\ phase[r] \in {"stageMeta", "meta"} => got[r] # 0 \/ entry[r].of # 0

\* An entry's files are of the version they are named for.
FiledByVersion ==
  \A v \in Versions :
    /\ body[v] # 0 => Declares[body[v]] = v
    /\ meta[v].of # 0 => Declares[meta[v].of] = v

OneAtATime ==
  \A r, s \in Resolvers : phase[r] # "idle" /\ phase[s] # "idle" => r = s

\* The metadata of an entry are never of a later document than its body.
BodiesFirst ==
  \A v \in Versions :
    /\ body[v] <= served /\ meta[v].of <= served
    /\ meta[v].of # 0 /\ body[v] # 0 => meta[v].of <= body[v]

\* The entry a resolver goes by is one the cache holds.
EntryIsThere(r) ==
  \E v \in Versions :
    /\ meta[v].of # 0 /\ body[v] # 0
    /\ entry[r].of = meta[v].of /\ entry[r].document = body[v]

\* What a verb that runs alone still knows of the files it read or wrote.
Knows(r) ==
  /\ phase[r] # "idle" => outcome[r].how = "none"
  /\ phase[r] = "bodies" => \A v \in Versions : metas[r][v].of = meta[v].of
  /\ phase[r] = "ask" => EntryIsThere(r)
  /\ phase[r] \in {"stageMeta", "meta"} /\ got[r] = 0 =>
       EntryIsThere(r) /\ entry[r].document = entry[r].of
  /\ phase[r] \in {"drop", "remove", "forget", "stageBody", "body", "stageMeta", "meta"}
       /\ got[r] # 0 =>
       /\ got[r] <= served
       /\ \A v \in Versions : body[v] <= got[r] /\ meta[v].of <= got[r]
  /\ phase[r] \in {"stageMeta", "meta"} /\ got[r] # 0 => body[Declares[got[r]]] = got[r]

\* The inductive invariant of verbs that run one at a time.
AloneInv ==
  alone => OneAtATime /\ BodiesFirst /\ \A r \in Resolvers : Knows(r)

\* And of any number at once.
LinkInv == LinkTypeOK /\ StoresSomething /\ FiledByVersion

\* A document has its number, and a version it declares.
LEMMA DocumentFacts ==
  /\ 1 \in Documents
  /\ \A d \in Documents : d < Len(Declares) => d + 1 \in Documents
  /\ \A d \in Documents : d # 0 /\ d \in Nat /\ d \in DocumentsOrNone /\ Declares[d] \in Versions
  /\ \A d \in DocumentsOrNone : d # 0 => d \in Documents
  /\ DocumentsOrNone \subseteq Nat /\ 0 \in DocumentsOrNone
<1>1. Len(Declares) \in Nat /\ Len(Declares) >= 1
  BY LinkAssumption
<1> QED BY <1>1 DEF Documents, DocumentsOrNone, Versions

\* A verb that ends, ends somehow.
LEMMA VerbEndsTyped ==
  ASSUME LinkTypeOK, NEW r \in Resolvers, NEW how \in Hows, NEW d \in DocumentsOrNone,
         VerbEnds(r, how, d)
  PROVE  /\ phase' \in [Resolvers -> Phases]
         /\ outcome' \in [Resolvers -> [how : Hows, document : DocumentsOrNone]]
         /\ phase'[r] = "idle"
         /\ \A s \in Resolvers \ {r} : phase'[s] = phase[s] /\ outcome'[s] = outcome[s]
         /\ outcome'[r] = [how |-> how, document |-> d]
BY DEF LinkTypeOK, VerbEnds, Then, Phases

\* A verb that ends leaves in order what its step keeps so.
LEMMA EndsKeeps ==
  ASSUME LinkTypeOK, StoresSomething, FiledByVersion, NEW r \in Resolvers,
         \E how \in Hows, d \in DocumentsOrNone : VerbEnds(r, how, d),
         UNCHANGED <<served, body, metas, entry, got>>,
         \/ UNCHANGED meta
         \/ /\ meta' \in [Versions -> Metas]
            /\ \A v \in Versions : meta'[v].of # 0 => Declares[meta'[v].of] = v
  PROVE  LinkTypeOK' /\ StoresSomething' /\ FiledByVersion'
<1>1. /\ phase' \in [Resolvers -> Phases]
      /\ outcome' \in [Resolvers -> [how : Hows, document : DocumentsOrNone]]
      /\ phase'[r] = "idle"
      /\ \A s \in Resolvers \ {r} : phase'[s] = phase[s]
  BY VerbEndsTyped, Zenon
<1>2. LinkTypeOK'
  BY <1>1 DEF LinkTypeOK
<1>3. StoresSomething'
  BY <1>1 DEF StoresSomething
<1>4. FiledByVersion'
  BY DEF FiledByVersion
<1> QED BY <1>2, <1>3, <1>4

\* A verb that is refused leaves the files in order.
LEMMA RefusesKeeps ==
  ASSUME LinkTypeOK, StoresSomething, FiledByVersion, NEW r \in Resolvers,
         VerbEnds(r, "refused", 0), UNCHANGED <<served, body, meta, metas, entry, got>>
  PROVE  LinkTypeOK' /\ StoresSomething' /\ FiledByVersion'
<1>1. "refused" \in Hows /\ 0 \in DocumentsOrNone
  BY DocumentFacts DEF Hows
<1> QED BY <1>1, EndsKeeps, Zenon

\* So does one that falls back on an entry, or finds none.
LEMMA TakesKeeps ==
  ASSUME LinkTypeOK, StoresSomething, FiledByVersion, NEW r \in Resolvers, Takes(r),
         UNCHANGED <<served, body, meta, metas, entry>>
  PROVE  LinkTypeOK' /\ StoresSomething' /\ FiledByVersion'
<1>1. CASE Held
  <2>1. /\ \E to \in {"drop", "stageBody"} : phase' = [phase EXCEPT ![r] = to]
        /\ got' = [got EXCEPT ![r] = served] /\ UNCHANGED outcome
    BY <1>1 DEF Takes, Then, KeepsOutcome
  <2> QED BY <2>1, DocumentFacts DEF LinkTypeOK, StoresSomething, FiledByVersion, Phases
<1>2. CASE ~Held
  <2>1. VerbEnds(r, "refused", 0) /\ UNCHANGED got
    BY <1>2 DEF Takes
  <2> QED BY <2>1, RefusesKeeps, Zenon
<1> QED BY <1>1, <1>2

\* However many resolvers store, drop and clear at once, and wherever one of them dies, each
\* file is of the version it is named for (`store`, `clear`).
LEMMA LinkInvHolds == LinkSpec => []LinkInv
<1>1. LinkInit => LinkInv
  BY DocumentFacts DEF LinkInit, LinkInv, LinkTypeOK, StoresSomething, FiledByVersion, NoMeta,
     NoEntry, Metas, Phases, Hows
<1>2. LinkInv /\ [LinkNext]_linkVars => LinkInv'
  <2> SUFFICES ASSUME LinkInv, [LinkNext]_linkVars PROVE LinkInv'
    OBVIOUS
  <2>0. LinkTypeOK /\ StoresSomething /\ FiledByVersion
    BY DEF LinkInv
  <2> SUFFICES LinkTypeOK' /\ StoresSomething' /\ FiledByVersion'
    BY DEF LinkInv
  <2> USE DEF World, cacheFiles, KeepsOutcome
  <2> DEFINE Goal == LinkTypeOK' /\ StoresSomething' /\ FiledByVersion'
  <2>1. CASE Publish \/ OriginFails \/ OriginRecovers
    <3>1. /\ UNCHANGED <<body, meta, phase, metas, entry, got, outcome>>
          /\ served' = served \/ (served < Len(Declares) /\ served' = served + 1)
      BY <2>1 DEF Publish, OriginFails, OriginRecovers
    <3> QED BY <2>0, <3>1, DocumentFacts DEF LinkTypeOK, StoresSomething, FiledByVersion
  <2>2. CASE Ages
    <3>1. PICK v \in Versions : meta' = [meta EXCEPT ![v].fresh = FALSE]
      BY <2>2 DEF Ages
    <3>2. UNCHANGED <<served, body, phase, metas, entry, got, outcome>>
      BY <2>2 DEF Ages
    <3>3. meta \in [Versions -> Metas]
      BY <2>0 DEF LinkTypeOK
    <3>4. \A w \in Versions : meta'[w] \in Metas /\ meta'[w].of = meta[w].of
      BY <3>1, <3>3 DEF Metas
    <3>5. meta' \in [Versions -> Metas]
      BY <3>1, <3>3, <3>4
    <3> QED BY <2>0, <3>2, <3>4, <3>5 DEF LinkTypeOK, StoresSomething, FiledByVersion
  <2>3. ASSUME NEW r \in Resolvers, BeginVerb(r) PROVE Goal
    <3>1. UNCHANGED <<served, body, meta>>
      BY <2>3 DEF BeginVerb
    <3>2. /\ metas' = [metas EXCEPT ![r] = [v \in Versions |-> NoMeta]]
          /\ entry' = [entry EXCEPT ![r] = NoEntry] /\ got' = [got EXCEPT ![r] = 0]
          /\ outcome' = [outcome EXCEPT ![r] = [how |-> "none", document |-> 0]]
          /\ \E to \in {"fetch", "clear", "metas"} : phase' = [phase EXCEPT ![r] = to]
      BY <2>3 DEF BeginVerb, Then
    <3> QED BY <2>0, <3>1, <3>2, DocumentFacts
            DEF LinkTypeOK, StoresSomething, FiledByVersion, NoMeta, NoEntry, Metas, Phases, Hows
  <2>4. ASSUME NEW r \in Resolvers, ReadMetas(r) PROVE Goal
    BY <2>0, <2>4 DEF ReadMetas, Then, LinkTypeOK, StoresSomething, FiledByVersion, Phases
  <2>5. ASSUME NEW r \in Resolvers, ReadBodies(r) PROVE Goal
    <3>0. UNCHANGED <<served, body, meta, metas, got>>
      BY <2>5 DEF ReadBodies
    <3>1. CASE Satisfying(r) = {}
      BY <2>0, <2>5, <3>0, <3>1
         DEF ReadBodies, Then, LinkTypeOK, StoresSomething, FiledByVersion, Phases
    <3>2. CASE Satisfying(r) # {}
      <4>1. PICK v \in Satisfying(r) :
              /\ entry' = [entry EXCEPT ![r] =
                   [document |-> body[v], of |-> metas[r][v].of, fresh |-> metas[r][v].fresh]]
              /\ \/ VerbEnds(r, "cached", body[v])
                 \/ Then(r, "ask") /\ KeepsOutcome
        BY <2>5, <3>2 DEF ReadBodies
      <4>2. /\ entry' \in [Resolvers ->
                  [document : DocumentsOrNone, of : DocumentsOrNone, fresh : BOOLEAN]]
            /\ \A s \in Resolvers \ {r} : entry'[s] = entry[s]
        BY <2>0, <4>1 DEF Satisfying, LinkTypeOK, Metas
      <4>3. /\ phase' \in [Resolvers -> Phases]
            /\ outcome' \in [Resolvers -> [how : Hows, document : DocumentsOrNone]]
            /\ phase'[r] \in {"idle", "ask"}
            /\ \A s \in Resolvers \ {r} : phase'[s] = phase[s]
        <5>1. CASE VerbEnds(r, "cached", body[v])
          <6>1. body[v] \in DocumentsOrNone /\ "cached" \in Hows
            BY <2>0 DEF LinkTypeOK, Satisfying, Hows
          <6> QED BY <2>0, <5>1, <6>1, VerbEndsTyped
        <5>2. CASE Then(r, "ask") /\ KeepsOutcome
          BY <2>0, <5>2 DEF Then, LinkTypeOK, Phases
        <5> QED BY <4>1, <5>1, <5>2
      <4> QED BY <2>0, <3>0, <4>2, <4>3 DEF LinkTypeOK, StoresSomething, FiledByVersion
    <3> QED BY <3>1, <3>2
  <2>6. ASSUME NEW r \in Resolvers, Fetch(r) PROVE Goal
    <3>1. \/ Takes(r)
          \/ VerbEnds(r, "refused", 0) /\ UNCHANGED got
      BY <2>6 DEF Fetch
    <3>2. UNCHANGED <<served, body, meta, metas, entry>>
      BY <2>6 DEF Fetch
    <3> QED BY <2>0, <3>1, <3>2, TakesKeeps, RefusesKeeps, Zenon
  <2>7. ASSUME NEW r \in Resolvers, Revalidate(r) PROVE Goal
    <3>1. UNCHANGED <<served, body, meta, metas, entry>>
      BY <2>7 DEF Revalidate
    <3>2. CASE Takes(r)
      BY <2>0, <3>1, <3>2, TakesKeeps, Zenon
    <3>3. CASE health = "well" /\ SameDocument(r)
      <4>1. /\ phase' = [phase EXCEPT ![r] = "stageMeta"] /\ got' = [got EXCEPT ![r] = 0]
            /\ UNCHANGED outcome
        BY <2>7, <3>3 DEF Revalidate, Then
      <4>2. entry[r].of # 0
        BY <2>0, <3>3, DocumentFacts DEF SameDocument, LinkTypeOK
      <4> QED BY <2>0, <3>1, <4>1, <4>2, DocumentFacts
              DEF LinkTypeOK, StoresSomething, FiledByVersion, Phases
    <3>4. CASE VerbEnds(r, "reused", entry[r].document) /\ UNCHANGED got
      <4>1. entry[r].document \in DocumentsOrNone /\ "reused" \in Hows
        BY <2>0 DEF LinkTypeOK, Hows
      <4> QED BY <2>0, <3>1, <3>4, <4>1, EndsKeeps, Zenon
    <3> QED BY <2>7, <3>2, <3>3, <3>4 DEF Revalidate
  <2>8. ASSUME NEW r \in Resolvers, ReadDropped(r) PROVE Goal
    <3>1. /\ phase[r] = "drop" /\ phase' = [phase EXCEPT ![r] = "remove"]
          /\ metas' = [metas EXCEPT ![r] =
               [v \in Versions |-> IF Readable(v) THEN meta[v] ELSE NoMeta]]
          /\ UNCHANGED <<served, body, meta, entry, got, outcome>>
      BY <2>8 DEF ReadDropped, Then
    <3>2. NoMeta \in Metas
      BY DocumentFacts DEF NoMeta, Metas
    <3>3. metas' \in [Resolvers -> [Versions -> Metas]]
      BY <2>0, <3>1, <3>2 DEF LinkTypeOK
    <3> QED BY <2>0, <3>1, <3>3 DEF LinkTypeOK, StoresSomething, FiledByVersion, Phases
  <2>9. ASSUME NEW r \in Resolvers, DropBody(r) PROVE Goal
    <3>1. /\ phase[r] = "remove" /\ UNCHANGED <<served, meta, metas, entry, got, outcome>>
          /\ \E to \in {"stageBody", "forget"} : phase' = [phase EXCEPT ![r] = to]
          /\ body' = body \/ body' = [body EXCEPT ![NextDropped(r)] = 0]
      BY <2>9 DEF DropBody, Then
    <3>2. /\ body' \in [Versions -> DocumentsOrNone]
          /\ \A v \in Versions : body'[v] \in {0, body[v]}
      <4>0. body \in [Versions -> DocumentsOrNone] /\ 0 \in DocumentsOrNone
        BY <2>0, DocumentFacts DEF LinkTypeOK
      <4>1. CASE body' = body
        BY <4>0, <4>1
      <4>2. CASE body' = [body EXCEPT ![NextDropped(r)] = 0]
        BY <4>0, <4>2
      <4> QED BY <3>1, <4>1, <4>2
    <3> QED BY <2>0, <3>1, <3>2 DEF LinkTypeOK, StoresSomething, FiledByVersion, Phases
  <2>10. ASSUME NEW r \in Resolvers, DropMeta(r) PROVE Goal
    <3>1. /\ phase[r] = "forget" /\ UNCHANGED <<served, body, entry, got, outcome>>
          /\ phase' = [phase EXCEPT ![r] = "remove"]
          /\ meta' = [meta EXCEPT ![NextDropped(r)] = NoMeta]
          /\ metas' = [metas EXCEPT ![r][NextDropped(r)] = NoMeta]
      BY <2>10 DEF DropMeta, Then
    <3>2. NoMeta \in Metas /\ NoMeta.of = 0
      BY DocumentFacts DEF NoMeta, Metas
    <3> HIDE DEF NoMeta
    <3> QED BY <2>0, <3>1, <3>2 DEF LinkTypeOK, StoresSomething, FiledByVersion, Phases
  <2>11. ASSUME NEW r \in Resolvers, Stage(r) PROVE Goal
    BY <2>0, <2>11 DEF Stage, Then, LinkTypeOK, StoresSomething, FiledByVersion, Phases
  <2>12. ASSUME NEW r \in Resolvers, RenameBody(r) PROVE Goal
    <3>1. CASE staged[r]
      <4>1. /\ phase[r] = "body" /\ phase' = [phase EXCEPT ![r] = "stageMeta"]
            /\ body' = [body EXCEPT ![Declares[got[r]]] = got[r]]
            /\ UNCHANGED <<served, meta, metas, entry, got, outcome>>
        BY <2>12, <3>1 DEF RenameBody, Then
      <4>2. got[r] \in Documents /\ got[r] # 0
        BY <2>0, <4>1, DocumentFacts DEF StoresSomething, LinkTypeOK
      <4>3. /\ body' \in [Versions -> DocumentsOrNone]
            /\ \A v \in Versions : body'[v] # 0 => Declares[body'[v]] = v
        BY <2>0, <4>1, <4>2, DocumentFacts DEF LinkTypeOK, FiledByVersion
      <4> QED BY <2>0, <4>1, <4>2, <4>3 DEF LinkTypeOK, StoresSomething, FiledByVersion, Phases
    <3>2. CASE ~staged[r]
      <4>1. VerbEnds(r, "refused", 0) /\ UNCHANGED <<served, body, meta, metas, entry, got>>
        BY <2>12, <3>2 DEF RenameBody
      <4> QED BY <2>0, <4>1, RefusesKeeps, Zenon
    <3> QED BY <3>1, <3>2
  <2>13. ASSUME NEW r \in Resolvers, RenameMeta(r) PROVE Goal
    <3> DEFINE stored == IF got[r] # 0 THEN got[r] ELSE entry[r].of
    <3>1. stored \in Documents /\ stored # 0 /\ got[r] \in DocumentsOrNone
          /\ entry[r].document \in DocumentsOrNone
      BY <2>0, <2>13, DocumentFacts DEF RenameMeta, StoresSomething, LinkTypeOK
    <3>2. \/ UNCHANGED meta
          \/ meta' = [meta EXCEPT ![Declares[stored]] = [of |-> stored, fresh |-> TRUE]]
      BY <2>13 DEF RenameMeta
    <3>3. UNCHANGED <<served, body, metas, entry, got>>
      BY <2>13 DEF RenameMeta
    <3>4. \E how \in Hows, d \in DocumentsOrNone : VerbEnds(r, how, d)
      BY <2>13, <3>1, DocumentFacts DEF RenameMeta, Hows
    <3> HIDE DEF stored
    <3>5. Declares[stored] \in Versions /\ [of |-> stored, fresh |-> TRUE] \in Metas
      BY <3>1, DocumentFacts DEF Metas
    <3>6. /\ meta' \in [Versions -> Metas]
          /\ \A v \in Versions : meta'[v].of # 0 => Declares[meta'[v].of] = v
      <4>1. meta \in [Versions -> Metas]
        BY <2>0 DEF LinkTypeOK
      <4>2. \A v \in Versions : meta'[v] = meta[v] \/
              (v = Declares[stored] /\ meta'[v] = [of |-> stored, fresh |-> TRUE])
        BY <3>2, <3>5, <4>1
      <4>3. \A v \in Versions : meta'[v].of # 0 => Declares[meta'[v].of] = v
        BY <2>0, <4>2 DEF FiledByVersion
      <4> QED BY <3>2, <3>5, <4>1, <4>3
    <3> QED BY <2>0, <3>3, <3>4, <3>6, EndsKeeps, Zenon
  <2>14. ASSUME NEW r \in Resolvers, ClearOne(r) PROVE Goal
    <3>1. UNCHANGED <<served, phase, metas, entry, got, outcome>>
      BY <2>14 DEF ClearOne
    <3>2. NoMeta \in Metas /\ NoMeta.of = 0
      BY DocumentFacts DEF NoMeta, Metas
    <3>3. /\ body' = body \/ \E v \in Versions : body' = [body EXCEPT ![v] = 0]
          /\ meta' = meta \/ \E v \in Versions : meta' = [meta EXCEPT ![v] = NoMeta]
      BY <2>14 DEF ClearOne
    <3>4. /\ body' \in [Versions -> DocumentsOrNone]
          /\ \A v \in Versions : body'[v] \in {0, body[v]}
      BY <2>0, <3>3, DocumentFacts DEF LinkTypeOK
    <3>5. /\ meta' \in [Versions -> Metas]
          /\ \A v \in Versions : meta'[v] \in {NoMeta, meta[v]}
      BY <2>0, <3>2, <3>3 DEF LinkTypeOK
    <3> QED BY <2>0, <3>1, <3>2, <3>4, <3>5 DEF LinkTypeOK, StoresSomething, FiledByVersion
  <2>15. ASSUME NEW r \in Resolvers, CleanEnd(r) PROVE Goal
    <3>1. VerbEnds(r, "cleared", 0) /\ UNCHANGED <<served, body, meta, metas, entry, got>>
      BY <2>15 DEF CleanEnd
    <3>2. 0 \in DocumentsOrNone /\ "cleared" \in Hows
      BY DocumentFacts DEF Hows
    <3> QED BY <2>0, <3>1, <3>2, EndsKeeps, Zenon
  <2>16. ASSUME NEW r \in Resolvers, ResolverDies(r) PROVE Goal
    <3>1. VerbEnds(r, "none", 0) /\ UNCHANGED <<served, body, meta, metas, entry, got>>
      BY <2>16 DEF ResolverDies
    <3>2. 0 \in DocumentsOrNone /\ "none" \in Hows
      BY DocumentFacts DEF Hows
    <3> QED BY <2>0, <3>1, <3>2, EndsKeeps, Zenon
  <2>17. CASE UNCHANGED linkVars
    BY <2>0, <2>17 DEF linkVars, LinkTypeOK, StoresSomething, FiledByVersion
  <2> QED BY <2>1, <2>2, <2>3, <2>4, <2>5, <2>6, <2>7, <2>8, <2>9, <2>10, <2>11, <2>12, <2>13,
             <2>14, <2>15, <2>16, <2>17 DEF LinkNext
<1> QED BY <1>1, <1>2, PTL DEF LinkSpec

\* A step of the one verb that runs, or begins, is about the knowledge of that one only.
LEMMA OthersAreIdle ==
  ASSUME OneAtATime, NEW r \in Resolvers,
         phase[r] # "idle" \/ \A s \in Resolvers : phase[s] = "idle",
         \A s \in Resolvers \ {r} : phase'[s] = phase[s]
  PROVE  OneAtATime' /\ \A s \in Resolvers \ {r} : Knows(s)'
<1>1. \A s \in Resolvers \ {r} : phase'[s] = "idle"
  BY DEF OneAtATime
<1> QED BY <1>1 DEF OneAtATime, Knows

\* A verb that has ended goes by nothing any more.
LEMMA IdleKnows ==
  ASSUME LinkTypeOK, OneAtATime, BodiesFirst, NEW r \in Resolvers, phase[r] # "idle",
         \E how \in Hows, d \in DocumentsOrNone : VerbEnds(r, how, d),
         UNCHANGED <<served, body, meta>>
  PROVE  OneAtATime' /\ BodiesFirst' /\ \A s \in Resolvers : Knows(s)'
<1>1. phase'[r] = "idle" /\ \A s \in Resolvers \ {r} : phase'[s] = phase[s]
  BY VerbEndsTyped, Zenon
<1>2. Knows(r)'
  BY <1>1 DEF Knows
<1>3. BodiesFirst'
  BY DEF BodiesFirst
<1> QED BY <1>1, <1>2, <1>3, OthersAreIdle

\* Nor does one that was refused.
LEMMA RefusedKnows ==
  ASSUME LinkTypeOK, OneAtATime, BodiesFirst, NEW r \in Resolvers, phase[r] # "idle",
         VerbEnds(r, "refused", 0), UNCHANGED <<served, body, meta>>
  PROVE  OneAtATime' /\ BodiesFirst' /\ \A s \in Resolvers : Knows(s)'
<1>1. "refused" \in Hows /\ 0 \in DocumentsOrNone
  BY DocumentFacts DEF Hows
<1> QED BY <1>1, IdleKnows, Zenon

\* Nor does one that took an entry as it is.
LEMMA TakesKnows ==
  ASSUME LinkTypeOK, OneAtATime, BodiesFirst, NEW r \in Resolvers, phase[r] \in {"fetch", "ask"},
         Knows(r), Takes(r), UNCHANGED <<served, body, meta, metas, entry>>
  PROVE  OneAtATime' /\ BodiesFirst' /\ \A s \in Resolvers : Knows(s)'
<1>1. CASE Held
  <2>1. /\ \E to \in {"drop", "stageBody"} : phase' = [phase EXCEPT ![r] = to]
        /\ got' = [got EXCEPT ![r] = served] /\ UNCHANGED outcome
    BY <1>1 DEF Takes, Then, KeepsOutcome
  <2>2. /\ phase'[r] \in {"drop", "stageBody"} /\ got'[r] = served
        /\ \A s \in Resolvers \ {r} : phase'[s] = phase[s]
    BY <2>1 DEF LinkTypeOK
  <2>3. served \in Nat
    BY DocumentFacts DEF LinkTypeOK
  <2>4. Knows(r)'
    BY <2>1, <2>2, <2>3 DEF Knows, BodiesFirst
  <2>5. BodiesFirst'
    BY DEF BodiesFirst
  <2> QED BY <2>2, <2>4, <2>5, OthersAreIdle
<1>2. CASE ~Held
  <2>1. VerbEnds(r, "refused", 0) /\ UNCHANGED got
    BY <1>2 DEF Takes
  <2> QED BY <2>1, RefusedKnows
<1> QED BY <1>1, <1>2

\* Storing the body before its metadata, a verb that runs alone never leaves metadata of a
\* later document than the body, whatever the origin does and wherever the verb dies (`store`).
LEMMA AloneHolds == LinkSpec => []AloneInv
<1>1. LinkInit => AloneInv
  BY DocumentFacts DEF LinkInit, AloneInv, OneAtATime, BodiesFirst, Knows, NoMeta
<1>2. LinkInv /\ AloneInv /\ [LinkNext]_linkVars => AloneInv'
  <2> SUFFICES ASSUME LinkInv, AloneInv, [LinkNext]_linkVars, alone PROVE AloneInv'
    <3>1. [LinkNext]_linkVars => UNCHANGED alone
      BY DEF LinkNext, linkVars, World, Publish, OriginFails, OriginRecovers, Ages, BeginVerb,
         ReadMetas, ReadBodies, Fetch, Revalidate, ReadDropped, DropBody, DropMeta, Stage,
         RenameBody, RenameMeta, ClearOne, CleanEnd, ResolverDies
    <3> QED BY <3>1 DEF AloneInv
  <2> USE DEF World, cacheFiles, KeepsOutcome
  <2>0. /\ LinkTypeOK /\ StoresSomething /\ FiledByVersion
        /\ OneAtATime /\ BodiesFirst /\ \A r \in Resolvers : Knows(r)
    BY DEF LinkInv, AloneInv
  <2> DEFINE Goal == OneAtATime' /\ BodiesFirst' /\ \A r \in Resolvers : Knows(r)'
  <2> SUFFICES Goal
    BY DEF AloneInv
  <2>1. CASE Publish \/ OriginFails \/ OriginRecovers
    <3>1. /\ UNCHANGED <<body, meta, phase, metas, entry, got, outcome>>
          /\ served' = served \/ served' = served + 1
      BY <2>1 DEF Publish, OriginFails, OriginRecovers
    <3>2. OneAtATime'
      BY <2>0, <3>1 DEF OneAtATime
    <3>3. served \in Nat /\ served' \in Nat /\ served <= served'
      BY <2>0, <3>1, DocumentFacts DEF LinkTypeOK
    <3>a. \A v \in Versions : {body[v], meta[v].of} \subseteq Nat
      BY <2>0, DocumentFacts DEF LinkTypeOK, Metas
    <3>b. \A s \in Resolvers : got[s] \in Nat
      BY <2>0, DocumentFacts DEF LinkTypeOK
    <3>c. \A n \in Nat : n <= served => n <= served'
      BY <3>3
    <3>4. BodiesFirst'
      BY <2>0, <3>1, <3>a, <3>c DEF BodiesFirst
    <3>5. ASSUME NEW s \in Resolvers PROVE Knows(s)'
      <4>1. Knows(s) /\ got[s] \in Nat
        BY <2>0, <3>b
      <4> QED BY <3>1, <3>c, <4>1 DEF Knows, EntryIsThere
    <3> QED BY <3>2, <3>4, <3>5
  <2>2. CASE Ages
    <3>1. PICK v \in Versions : meta' = [meta EXCEPT ![v].fresh = FALSE]
      BY <2>2 DEF Ages
    <3>2. UNCHANGED <<served, body, phase, metas, entry, got, outcome>>
      BY <2>2 DEF Ages
    <3>3. meta \in [Versions -> Metas]
      BY <2>0 DEF LinkTypeOK
    <3>4. \A w \in Versions : meta'[w].of = meta[w].of
      BY <3>1, <3>3 DEF Metas
    <3>5. OneAtATime' /\ BodiesFirst'
      BY <2>0, <3>2, <3>4 DEF OneAtATime, BodiesFirst
    <3>6. ASSUME NEW s \in Resolvers PROVE Knows(s)'
      BY <2>0, <3>2, <3>4 DEF Knows, EntryIsThere
    <3> QED BY <3>5, <3>6
  <2>3. ASSUME NEW r \in Resolvers, BeginVerb(r) PROVE Goal
    <3>1. /\ UNCHANGED <<served, body, meta>> /\ \A s \in Resolvers : phase[s] = "idle"
          /\ outcome' = [outcome EXCEPT ![r] = [how |-> "none", document |-> 0]]
          /\ \E to \in {"fetch", "clear", "metas"} : phase' = [phase EXCEPT ![r] = to]
      BY <2>3 DEF BeginVerb, Then
    <3>2. /\ phase'[r] \in {"fetch", "clear", "metas"} /\ outcome'[r].how = "none"
          /\ \A s \in Resolvers \ {r} : phase'[s] = phase[s]
      BY <2>0, <3>1 DEF LinkTypeOK
    <3>3. Knows(r)'
      BY <3>2 DEF Knows
    <3>4. BodiesFirst'
      BY <2>0, <3>1 DEF BodiesFirst
    <3> QED BY <2>0, <3>1, <3>2, <3>3, <3>4, OthersAreIdle
  <2>4. ASSUME NEW r \in Resolvers, ReadMetas(r) PROVE Goal
    <3>1. /\ phase[r] = "metas" /\ phase' = [phase EXCEPT ![r] = "bodies"]
          /\ metas' = [metas EXCEPT ![r] = meta] /\ UNCHANGED <<served, body, meta, outcome>>
      BY <2>4 DEF ReadMetas, Then
    <3>2. /\ phase'[r] = "bodies" /\ metas'[r] = meta
          /\ \A s \in Resolvers \ {r} : phase'[s] = phase[s]
      BY <2>0, <3>1 DEF LinkTypeOK
    <3>3. Knows(r)'
      BY <2>0, <3>1, <3>2 DEF Knows
    <3>4. BodiesFirst'
      BY <2>0, <3>1 DEF BodiesFirst
    <3> QED BY <2>0, <3>1, <3>2, <3>3, <3>4, OthersAreIdle
  <2>5. ASSUME NEW r \in Resolvers, ReadBodies(r) PROVE Goal
    <3>0. phase[r] = "bodies" /\ UNCHANGED <<served, body, meta, metas, got>>
      BY <2>5 DEF ReadBodies
    <3>1. CASE Then(r, "fetch") /\ KeepsOutcome
      <4>1. /\ phase'[r] = "fetch" /\ UNCHANGED outcome
            /\ \A s \in Resolvers \ {r} : phase'[s] = phase[s]
        BY <2>0, <3>1 DEF Then, LinkTypeOK
      <4>2. Knows(r)' /\ BodiesFirst'
        BY <2>0, <3>0, <4>1 DEF Knows, BodiesFirst
      <4> QED BY <2>0, <3>0, <4>1, <4>2, OthersAreIdle
    <3>2. CASE Satisfying(r) # {}
      <4>1. PICK v \in Satisfying(r) :
              /\ entry' = [entry EXCEPT ![r] =
                   [document |-> body[v], of |-> metas[r][v].of, fresh |-> metas[r][v].fresh]]
              /\ \/ VerbEnds(r, "cached", body[v])
                 \/ Then(r, "ask") /\ KeepsOutcome
        BY <2>5, <3>2 DEF ReadBodies
      <4>2. CASE VerbEnds(r, "cached", body[v])
        <5>1. body[v] \in DocumentsOrNone /\ "cached" \in Hows
          BY <2>0 DEF LinkTypeOK, Satisfying, Hows
        <5> QED BY <2>0, <3>0, <4>2, <5>1, IdleKnows
      <4>3. CASE Then(r, "ask") /\ KeepsOutcome
        <5>1. /\ phase'[r] = "ask" /\ UNCHANGED outcome
              /\ \A s \in Resolvers \ {r} : phase'[s] = phase[s]
          BY <2>0, <4>3 DEF Then, LinkTypeOK
        <5>2. /\ v \in Versions /\ metas[r][v].of # 0 /\ body[v] # 0
              /\ entry'[r].of = metas[r][v].of /\ entry'[r].document = body[v]
          BY <2>0, <4>1 DEF Satisfying, Reads, LinkTypeOK
        <5>3. metas[r][v].of = meta[v].of
          BY <2>0, <3>0, <5>2 DEF Knows
        <5>4. Knows(r)' /\ BodiesFirst'
          BY <2>0, <3>0, <5>1, <5>2, <5>3 DEF Knows, EntryIsThere, BodiesFirst
        <5> QED BY <2>0, <3>0, <5>1, <5>4, OthersAreIdle
      <4> QED BY <4>1, <4>2, <4>3
    <3> QED BY <2>5, <3>1, <3>2 DEF ReadBodies
  <2>6. ASSUME NEW r \in Resolvers, Fetch(r) PROVE Goal
    <3>1. /\ phase[r] = "fetch" /\ UNCHANGED <<served, body, meta, metas, entry>>
          /\ Takes(r) \/ VerbEnds(r, "refused", 0)
      BY <2>6 DEF Fetch
    <3> QED BY <2>0, <3>1, TakesKnows, RefusedKnows
  <2>7. ASSUME NEW r \in Resolvers, Revalidate(r) PROVE Goal
    <3>1. phase[r] = "ask" /\ UNCHANGED <<served, body, meta, metas, entry>>
      BY <2>7 DEF Revalidate
    <3>2. CASE Takes(r)
      BY <2>0, <3>1, <3>2, TakesKnows
    <3>3. CASE SameDocument(r) /\ Then(r, "stageMeta") /\ got' = [got EXCEPT ![r] = 0]
               /\ KeepsOutcome
      <4>1. /\ phase'[r] = "stageMeta" /\ UNCHANGED outcome /\ got'[r] = 0
            /\ \A s \in Resolvers \ {r} : phase'[s] = phase[s]
        BY <2>0, <3>3 DEF Then, LinkTypeOK
      <4>2. PICK v \in Versions : /\ meta[v].of # 0 /\ body[v] # 0
                                  /\ entry[r].of = meta[v].of /\ entry[r].document = body[v]
        BY <2>0, <3>1 DEF Knows, EntryIsThere
      <4>3. meta[v].of <= body[v] /\ body[v] <= served /\ served = meta[v].of
        BY <2>0, <3>3, <4>2 DEF BodiesFirst, SameDocument
      <4>4. {meta[v].of, body[v], served} \subseteq Nat
        BY <2>0, DocumentFacts DEF LinkTypeOK, Metas
      <4>5. body[v] = meta[v].of
        BY <4>3, <4>4
      <4>6. Knows(r)' /\ BodiesFirst'
        BY <2>0, <3>1, <4>1, <4>2, <4>5 DEF Knows, EntryIsThere, BodiesFirst
      <4> QED BY <2>0, <3>1, <4>1, <4>6, OthersAreIdle
    <3>4. CASE VerbEnds(r, "reused", entry[r].document) /\ UNCHANGED got
      <4>1. entry[r].document \in DocumentsOrNone /\ "reused" \in Hows
        BY <2>0 DEF LinkTypeOK, Hows
      <4> QED BY <2>0, <3>1, <3>4, <4>1, IdleKnows
    <3> QED BY <2>7, <3>2, <3>3, <3>4 DEF Revalidate
  <2>8. ASSUME NEW r \in Resolvers, ReadDropped(r) \/ DropBody(r) \/ DropMeta(r) PROVE Goal
    <3>1. /\ phase[r] \in {"drop", "remove", "forget"}
          /\ UNCHANGED <<served, entry, got, outcome>>
          /\ \E to \in {"remove", "stageBody", "forget"} : phase' = [phase EXCEPT ![r] = to]
      BY <2>8 DEF ReadDropped, DropBody, DropMeta, Then
    <3>2. /\ body' = body \/ \E v : body' = [body EXCEPT ![v] = 0]
          /\ meta' = meta \/ \E v : meta' = [meta EXCEPT ![v] = NoMeta]
      BY <2>8 DEF ReadDropped, DropBody, DropMeta
    <3>3. \A v \in Versions : body'[v] \in {0, body[v]} /\ meta'[v].of \in {0, meta[v].of}
      BY <2>0, <3>2 DEF LinkTypeOK, NoMeta
    <3>4. \A v \in Versions : {body[v], meta[v].of, body'[v], meta'[v].of} \subseteq Nat
      BY <2>0, <3>3, DocumentFacts DEF LinkTypeOK, Metas
    <3>5. served \in Nat /\ got[r] \in Nat /\ got[r] # 0
      BY <2>0, <3>1, DocumentFacts DEF LinkTypeOK, StoresSomething
    <3>6. BodiesFirst'
      BY <2>0, <3>1, <3>3, <3>4, <3>5 DEF BodiesFirst
    <3>7. /\ phase'[r] \in {"remove", "stageBody", "forget"}
          /\ \A s \in Resolvers \ {r} : phase'[s] = phase[s]
      BY <2>0, <3>1 DEF LinkTypeOK
    <3>8. /\ outcome[r].how = "none" /\ got[r] <= served
          /\ \A v \in Versions : body[v] <= got[r] /\ meta[v].of <= got[r]
      BY <2>0, <3>1, <3>5 DEF Knows
    <3>9. Knows(r)'
      BY <3>1, <3>3, <3>4, <3>5, <3>7, <3>8 DEF Knows
    <3> QED BY <2>0, <3>1, <3>6, <3>7, <3>9, OthersAreIdle
  <2>11. ASSUME NEW r \in Resolvers, Stage(r) PROVE Goal
    <3>1. /\ phase[r] \in {"stageBody", "stageMeta"}
          /\ UNCHANGED <<served, body, meta, entry, got, outcome>>
          /\ phase' = [phase EXCEPT ![r] = IF phase[r] = "stageBody" THEN "body" ELSE "meta"]
      BY <2>11 DEF Stage, Then
    <3>2. /\ phase'[r] = IF phase[r] = "stageBody" THEN "body" ELSE "meta"
          /\ \A s \in Resolvers \ {r} : phase'[s] = phase[s]
      BY <2>0, <3>1 DEF LinkTypeOK
    <3>3. Knows(r)' /\ BodiesFirst'
      BY <2>0, <3>1, <3>2 DEF Knows, EntryIsThere, BodiesFirst
    <3> QED BY <2>0, <3>1, <3>2, <3>3, OthersAreIdle
  <2>12. ASSUME NEW r \in Resolvers, RenameBody(r) PROVE Goal
    <3>0. phase[r] = "body" /\ UNCHANGED <<served, meta>>
      BY <2>12 DEF RenameBody
    <3>1. CASE staged[r]
      <4>1. /\ phase' = [phase EXCEPT ![r] = "stageMeta"]
            /\ body' = [body EXCEPT ![Declares[got[r]]] = got[r]]
            /\ UNCHANGED <<served, meta, metas, entry, got, outcome>>
        BY <2>12, <3>1 DEF RenameBody, Then
      <4>2. got[r] \in Documents /\ got[r] # 0 /\ Declares[got[r]] \in Versions /\ got[r] \in Nat
        BY <2>0, <3>0, DocumentFacts DEF StoresSomething, LinkTypeOK
      <4>3. /\ outcome[r].how = "none" /\ got[r] <= served
            /\ \A v \in Versions : body[v] <= got[r] /\ meta[v].of <= got[r]
        BY <2>0, <3>0, <4>2 DEF Knows
      <4>4. /\ \A v \in Versions : body'[v] = IF v = Declares[got[r]] THEN got[r] ELSE body[v]
            /\ phase'[r] = "stageMeta" /\ \A s \in Resolvers \ {r} : phase'[s] = phase[s]
        BY <2>0, <4>1 DEF LinkTypeOK
      <4>5. Knows(r)'
        BY <4>1, <4>2, <4>3, <4>4 DEF Knows
      <4>6. BodiesFirst'
        BY <2>0, <4>1, <4>3, <4>4 DEF BodiesFirst
      <4> QED BY <2>0, <3>0, <4>4, <4>5, <4>6, OthersAreIdle
    <3>2. CASE ~staged[r]
      <4>1. VerbEnds(r, "refused", 0) /\ UNCHANGED <<served, body, meta, metas, entry, got>>
        BY <2>12, <3>2 DEF RenameBody
      <4> QED BY <2>0, <3>0, <4>1, RefusedKnows
    <3> QED BY <3>1, <3>2
  <2>13. ASSUME NEW r \in Resolvers, RenameMeta(r) PROVE Goal
    <3>0. phase[r] = "meta" /\ UNCHANGED <<served, body>>
      BY <2>13 DEF RenameMeta
    <3> DEFINE stored == IF got[r] # 0 THEN got[r] ELSE entry[r].of
    <3>1. /\ stored \in Documents /\ stored # 0 /\ stored \in Nat
          /\ Declares[stored] \in Versions /\ entry[r].document \in DocumentsOrNone
          /\ got[r] \in DocumentsOrNone
      BY <2>0, <3>0, DocumentFacts DEF StoresSomething, LinkTypeOK
    <3>2. \/ UNCHANGED meta
          \/ meta' = [meta EXCEPT ![Declares[stored]] = [of |-> stored, fresh |-> TRUE]]
      BY <2>13 DEF RenameMeta
    <3>3. \E how \in Hows, d \in DocumentsOrNone : VerbEnds(r, how, d)
      BY <2>13, <3>1, DocumentFacts DEF RenameMeta, Hows
    <3>4. stored <= served /\ body[Declares[stored]] = stored
      <4>1. CASE got[r] # 0
        BY <2>0, <3>0, <4>1 DEF Knows
      <4>2. CASE got[r] = 0
        <5>1. PICK v \in Versions :
                /\ meta[v].of # 0 /\ body[v] # 0 /\ entry[r].of = meta[v].of
                /\ entry[r].document = body[v] /\ entry[r].document = entry[r].of
          BY <2>0, <3>0, <4>2 DEF Knows, EntryIsThere
        <5>2. Declares[meta[v].of] = v
          BY <2>0, <5>1 DEF FiledByVersion
        <5> QED BY <2>0, <4>2, <5>1, <5>2 DEF BodiesFirst
      <4> QED BY <4>1, <4>2
    <3> HIDE DEF stored
    <3>5. \A v \in Versions :
            meta'[v] = meta[v] \/ (v = Declares[stored] /\ meta'[v].of = stored)
      BY <2>0, <3>2 DEF LinkTypeOK
    <3>6. BodiesFirst'
      BY <2>0, <3>0, <3>1, <3>4, <3>5 DEF BodiesFirst
    <3>7. /\ phase'[r] = "idle" /\ \A s \in Resolvers \ {r} : phase'[s] = phase[s]
      BY <2>0, <3>3, VerbEndsTyped
    <3>8. Knows(r)'
      BY <3>7 DEF Knows
    <3> QED BY <2>0, <3>0, <3>6, <3>7, <3>8, OthersAreIdle
  <2>14. ASSUME NEW r \in Resolvers, ClearOne(r) PROVE Goal
    <3>1. phase[r] = "clear" /\ UNCHANGED <<served, phase, metas, entry, got, outcome>>
      BY <2>14 DEF ClearOne
    <3>3. /\ body' = body \/ \E v \in Versions : body' = [body EXCEPT ![v] = 0]
          /\ meta' = meta \/ \E v \in Versions : meta' = [meta EXCEPT ![v] = NoMeta]
      BY <2>14 DEF ClearOne
    <3>4. \A v \in Versions : body'[v] \in {0, body[v]} /\ meta'[v].of \in {0, meta[v].of}
      BY <2>0, <3>3 DEF LinkTypeOK, NoMeta
    <3>5. \A v \in Versions : {body[v], meta[v].of, body'[v], meta'[v].of} \subseteq Nat
      BY <2>0, <3>4, DocumentFacts DEF LinkTypeOK, Metas
    <3>6. BodiesFirst'
      BY <2>0, <3>1, <3>4, <3>5, DocumentFacts DEF BodiesFirst, LinkTypeOK
    <3>7. Knows(r)'
      BY <2>0, <3>1 DEF Knows
    <3> QED BY <2>0, <3>1, <3>6, <3>7, OthersAreIdle
  <2>15. ASSUME NEW r \in Resolvers, CleanEnd(r) \/ ResolverDies(r) PROVE Goal
    <3>1. phase[r] # "idle" /\ UNCHANGED <<served, body, meta>>
      BY <2>15 DEF CleanEnd, ResolverDies
    <3>2. \E how \in Hows, d \in DocumentsOrNone : VerbEnds(r, how, d)
      BY <2>15, DocumentFacts DEF CleanEnd, ResolverDies, Hows
    <3> QED BY <2>0, <3>1, <3>2, IdleKnows
  <2>17. CASE UNCHANGED linkVars
    BY <2>0, <2>17 DEF linkVars, OneAtATime, BodiesFirst, Knows, EntryIsThere
  <2> QED BY <2>1, <2>2, <2>3, <2>4, <2>5, <2>6, <2>7, <2>8, <2>11, <2>12, <2>13,
             <2>14, <2>15, <2>17 DEF LinkNext
<1> QED BY <1>1, <1>2, LinkInvHolds, PTL DEF LinkSpec

\* Where no two verbs run at once, a bundle handed out as confirmed by the origin is the one
\* the origin was asked about: no crash between the two files of an entry leaves metadata
\* that would have another body confirmed (`fetch`, `store`).
THEOREM ConfirmedAreServed == LinkSpec => []ConfirmedIsServed
<1>1. LinkInit => ConfirmedIsServed
  BY DEF LinkInit, ConfirmedIsServed
<1>2. LinkInv /\ AloneInv /\ ConfirmedIsServed /\ [LinkNext]_linkVars => ConfirmedIsServed'
  <2> SUFFICES ASSUME LinkInv, AloneInv, ConfirmedIsServed, [LinkNext]_linkVars, alone',
                      NEW s \in Resolvers, outcome'[s].how = "confirmed"
               PROVE  outcome'[s].document = entry'[s].of
    BY DEF ConfirmedIsServed
  <2> USE DEF World, cacheFiles, KeepsOutcome
  <2>0. LinkTypeOK /\ alone /\ Knows(s)
    <3>1. UNCHANGED alone
      BY DEF LinkNext, linkVars, Publish, OriginFails, OriginRecovers, Ages, BeginVerb,
         ReadMetas, ReadBodies, Fetch, Revalidate, ReadDropped, DropBody, DropMeta, Stage,
         RenameBody, RenameMeta, ClearOne, CleanEnd, ResolverDies
    <3> QED BY <3>1 DEF AloneInv, LinkInv
  <2>1. CASE outcome'[s] = outcome[s] /\ entry'[s] = entry[s]
    BY <2>0, <2>1 DEF ConfirmedIsServed
  <2>2. ASSUME NEW r \in Resolvers, NEW how \in Hows, NEW d, VerbEnds(r, how, d),
               how # "confirmed", \A other \in Resolvers \ {r} : entry'[other] = entry[other]
        PROVE  outcome'[s] = outcome[s] /\ entry'[s] = entry[s]
    BY <2>0, <2>2 DEF VerbEnds, LinkTypeOK
  <2>3. ASSUME NEW r \in Resolvers, BeginVerb(r) PROVE outcome'[s].document = entry'[s].of
    <3>1. r # s
      BY <2>0, <2>3 DEF BeginVerb, LinkTypeOK
    <3>2. outcome'[s] = outcome[s] /\ entry'[s] = entry[s]
      BY <2>0, <2>3, <3>1 DEF BeginVerb, LinkTypeOK
    <3> QED BY <2>1, <3>2
  <2>4. ASSUME NEW r \in Resolvers, ReadBodies(r) PROVE outcome'[s].document = entry'[s].of
    <3>1. CASE UNCHANGED <<outcome, entry>>
      BY <2>1, <3>1
    <3>2. CASE ~UNCHANGED <<outcome, entry>>
      <4>1. PICK v \in Satisfying(r) :
              /\ entry' = [entry EXCEPT ![r] =
                   [document |-> body[v], of |-> metas[r][v].of, fresh |-> metas[r][v].fresh]]
              /\ \/ VerbEnds(r, "cached", body[v])
                 \/ UNCHANGED outcome
        BY <2>4, <3>2 DEF ReadBodies
      <4>2. CASE r = s
        BY <2>0, <2>4, <4>1, <4>2 DEF ReadBodies, Knows, VerbEnds, LinkTypeOK
      <4>3. CASE r # s
        BY <2>0, <2>1, <4>1, <4>3 DEF VerbEnds, LinkTypeOK
      <4> QED BY <4>2, <4>3
    <3> QED BY <3>1, <3>2
  <2>5. ASSUME NEW r \in Resolvers, RenameMeta(r) PROVE outcome'[s].document = entry'[s].of
    <3>1. CASE r # s
      BY <2>0, <2>1, <2>5, <3>1 DEF RenameMeta, VerbEnds, LinkTypeOK
    <3>2. CASE r = s
      <4>1. outcome'[s].how = "confirmed" =>
              staged[s] /\ got[s] = 0 /\ outcome'[s].document = entry[s].document
        BY <2>0, <2>5, <3>2 DEF RenameMeta, VerbEnds, LinkTypeOK
      <4>2. phase[s] = "meta" /\ entry' = entry
        BY <2>5, <3>2 DEF RenameMeta
      <4> QED BY <2>0, <4>1, <4>2 DEF Knows
    <3> QED BY <3>1, <3>2
  <2>6. ASSUME NEW r \in Resolvers,
               \/ Fetch(r) \/ Revalidate(r) \/ RenameBody(r) \/ CleanEnd(r) \/ ResolverDies(r)
        PROVE  outcome'[s].document = entry'[s].of
    <3>1. /\ UNCHANGED entry
          /\ \/ UNCHANGED outcome
             \/ \E how \in Hows \ {"confirmed"}, d \in DocumentsOrNone : VerbEnds(r, how, d)
      <4>1. entry[r].document \in DocumentsOrNone /\ 0 \in DocumentsOrNone
        BY <2>0, DocumentFacts DEF LinkTypeOK
      <4> QED BY <2>6, <4>1
              DEF Fetch, Revalidate, RenameBody, CleanEnd, ResolverDies, Takes, Hows
    <3>2. \/ UNCHANGED outcome
          \/ outcome'[s] = outcome[s]
          \/ outcome'[s].how # "confirmed"
      BY <2>0, <3>1 DEF VerbEnds, LinkTypeOK
    <3> QED BY <2>1, <3>1, <3>2
  <2>7. CASE UNCHANGED <<outcome, entry>>
    BY <2>1, <2>7
  <2> QED BY <2>3, <2>4, <2>5, <2>6, <2>7
          DEF LinkNext, linkVars, Publish, OriginFails, OriginRecovers, Ages, ReadMetas,
              ReadDropped, DropBody, DropMeta, Stage, ClearOne
<1> QED BY <1>1, <1>2, LinkInvHolds, AloneHolds, PTL DEF LinkSpec

\* An entry that can be read stays one whatever a resolver stores over it, in whatever order
\* the files of several reach the cache, unless a verb removes entries (`store`).
THEOREM StoredStays == LinkSpec => EntriesStay
<1>1. LinkInv /\ [LinkNext]_linkVars =>
        [\A v \in Versions : Readable(v) => Readable(v)' \/ Removes]_linkVars
  <2> SUFFICES ASSUME LinkInv, [LinkNext]_linkVars, NEW v \in Versions, Readable(v), ~Removes
               PROVE  Readable(v)'
    OBVIOUS
  <2> USE DEF World, cacheFiles
  <2>0. /\ LinkTypeOK /\ StoresSomething
        /\ \A r \in Resolvers : phase[r] \notin {"remove", "forget", "clear"}
    BY DEF LinkInv, Removes
  <2>1. CASE UNCHANGED <<body, meta>>
    BY <2>1 DEF Readable, Reads
  <2>2. CASE Ages
    <3>1. body' = body /\ meta'[v].of = meta[v].of
      BY <2>0, <2>2 DEF Ages, LinkTypeOK, Metas
    <3> QED BY <3>1 DEF Readable, Reads
  <2>3. ASSUME NEW r \in Resolvers, RenameBody(r) PROVE Readable(v)'
    <3>1. got[r] \in Documents /\ got[r] # 0
      BY <2>0, <2>3, DocumentFacts DEF RenameBody, StoresSomething, LinkTypeOK
    <3>2. /\ meta' = meta
          /\ \/ body'[v] = body[v]
             \/ body'[v] = got[r] /\ v = Declares[got[r]]
      BY <2>0, <2>3 DEF RenameBody, LinkTypeOK
    <3> QED BY <3>1, <3>2 DEF Readable, Reads
  <2>4. ASSUME NEW r \in Resolvers, RenameMeta(r) PROVE Readable(v)'
    <3> DEFINE stored == IF got[r] # 0 THEN got[r] ELSE entry[r].of
    <3>1. stored # 0
      BY <2>0, <2>4 DEF RenameMeta, StoresSomething
    <3>2. /\ body' = body
          /\ \/ meta' = meta
             \/ meta' = [meta EXCEPT ![Declares[stored]] = [of |-> stored, fresh |-> TRUE]]
      BY <2>4 DEF RenameMeta
    <3> HIDE DEF stored
    <3>3. meta'[v].of # 0
      BY <2>0, <3>1, <3>2 DEF Readable, Reads, LinkTypeOK
    <3> QED BY <3>2, <3>3 DEF Readable, Reads
  <2> QED BY <2>0, <2>1, <2>2, <2>3, <2>4
          DEF LinkNext, linkVars, Publish, OriginFails, OriginRecovers, BeginVerb, ReadMetas,
              ReadBodies, Fetch, Revalidate, ReadDropped, DropBody, DropMeta, Stage, ClearOne,
              CleanEnd, ResolverDies
<1> QED BY <1>1, LinkInvHolds, PTL DEF LinkSpec, EntriesStay

----------------------------------------------------------------------------
(* Offer: who passed what a queue holds. *)

\* Who judges at all, and for which queue.
Validators == UNION {ToSet(JudgedBy[q]) : q \in DOMAIN JudgedBy}
Judgings == (DOMAIN JudgedBy) \X Validators

\* How the validators of an offer are joined, a queue at a time.
Joins(h, o) ==
  LET route == Routes[o.to]
  IN  /\ h[0] = JudgesOf(o.to)
      /\ Judges(o) = h[Len(route)]
      /\ \A n \in 0..Len(route) : h[n] \in Seq(Judgings)
      /\ \A n \in 0..(Len(route) - 1) :
           h[n + 1] = h[n] \o IF route[n + 1] = o.to THEN <<>> ELSE JudgesOf(route[n + 1])

\* The validators of a queue, each with it, in order.
LEMMA JudgesOfQueue ==
  ASSUME NEW q \in DOMAIN JudgedBy
  PROVE  /\ JudgesOf(q) \in Seq(Judgings) /\ Len(JudgesOf(q)) = Len(JudgedBy[q])
         /\ \A i \in 1..Len(JudgedBy[q]) : JudgesOf(q)[i] = <<q, JudgedBy[q][i]>>
<1>1. JudgedBy[q] \in Seq(Validators)
  BY OfferAssumption DEF Validators
<1>2. Len(JudgedBy[q]) \in Nat /\ \A i \in 1..Len(JudgedBy[q]) : <<q, JudgedBy[q][i]>> \in Judgings
  <2> HIDE DEF Validators
  <2> QED BY <1>1 DEF Judgings
<1> HIDE DEF Judgings
<1> QED BY <1>2, IsASeq DEF JudgesOf

\* The route of an offer is of queues, one at least, and each has its validators in order.
LEMMA RouteFacts ==
  ASSUME NEW o \in Offerable
  PROVE  /\ o.to \in DOMAIN JudgedBy /\ o.to \in DOMAIN Routes
         /\ Routes[o.to] \in Seq(DOMAIN JudgedBy) /\ Len(Routes[o.to]) \in Nat \ {0}
         /\ \A q \in DOMAIN JudgedBy : JudgesOf(q) \in Seq(Judgings)
         /\ <<>> \in Seq(Judgings)
<1>1. o.to \in DOMAIN Routes /\ o.to \in DOMAIN JudgedBy
  BY OfferAssumption DEF Offerable
<1>2. Routes[o.to] \in Seq(DOMAIN JudgedBy) /\ Routes[o.to] # <<>>
  BY <1>1, OfferAssumption
<1>3. \A q \in DOMAIN JudgedBy : JudgesOf(q) \in Seq(Judgings)
  BY JudgesOfQueue
<1> QED BY <1>1, <1>2, <1>3

\* The recursion of `Judges` is one that can be gone through.
LEMMA JudgesJoined ==
  ASSUME NEW o \in Offerable
  PROVE  \E h : Joins(h, o)
<1> DEFINE route == Routes[o.to]
           Q == Seq(Judgings)
           more(n) == IF route[n] = o.to THEN <<>> ELSE JudgesOf(route[n])
           longer == [n \in 1..Len(route) |-> [g \in Q |-> g \o more(n)]]
           E(h) == [i \in 0..Len(route) |->
                      IF i = 0 THEN JudgesOf(o.to) ELSE h[i - 1] \o more(i)]
           H == CHOOSE h : h = E(h)
<1>0. /\ Len(route) \in Nat /\ JudgesOf(o.to) \in Q
      /\ \A n \in 1..Len(route) : more(n) \in Q
  BY RouteFacts
<1>1. \A n \in 1..Len(route) : \A g \in Q : g \o more(n) \in Q
  <2> HIDE DEF more
  <2> QED BY <1>0
<1>2. longer \in [(0 + 1)..Len(route) -> [Q -> Q]]
  <2> HIDE DEF more, Q, route
  <2> QED BY <1>1
<1>3. PICK g : Unrolls(g, 0, Len(route), Q, JudgesOf(o.to), longer)
  <2> HIDE DEF Q, longer, route
  <2>1. 0 \in Nat /\ Len(route) \in Nat /\ 0 <= Len(route)
    BY <1>0
  <2> QED BY <1>0, <1>2, <2>1, Recursion, Zenon
<1> HIDE DEF Q, longer, route, more
<1>g. g \in [0..Len(route) -> Q] /\ g[0] = JudgesOf(o.to)
  BY <1>3 DEF Unrolls
<1>4. ASSUME NEW n \in 1..Len(route) PROVE g[n] = g[n - 1] \o more(n)
  <2>1. g[n - 1] \in Q /\ g[n] = longer[n][g[n - 1]]
    BY <1>3, <1>0 DEF Unrolls
  <2> QED BY <2>1 DEF longer
<1>5. g = E(g)
  <2>2. \A n \in 0..Len(route) : g[n] = IF n = 0 THEN JudgesOf(o.to) ELSE g[n - 1] \o more(n)
    <3> TAKE n \in 0..Len(route)
    <3>1. CASE n = 0
      BY <1>g, <3>1
    <3>2. CASE n \in 1..Len(route)
      <4>1. n # 0
        BY <1>0, <3>2
      <4> QED BY <1>4, <3>2, <4>1, Zenon
    <3> QED BY <3>1, <3>2, <1>0
  <2> QED BY <1>g, <2>2
<1>6. H = E(H)
  BY <1>5, Zenon
<1>7. Judges(o) = H[Len(route)]
  BY Zenon DEF Judges, route, more
<1> DEFINE U == {n \in 0..Len(route) : H[n] \in Q}
<1>u. /\ H[0] = JudgesOf(o.to)
      /\ \A n \in 0..(Len(route) - 1) : H[n + 1] = H[n] \o more(n + 1)
  <2> HIDE DEF H
  <2>1. \A i \in 0..Len(route) : H[i] = E(H)[i]
    BY <1>6
  <2>2. H[0] = JudgesOf(o.to)
    BY <2>1, <1>0
  <2>3. ASSUME NEW n \in 0..(Len(route) - 1) PROVE H[n + 1] = H[n] \o more(n + 1)
    <3>1. n + 1 \in 0..Len(route) /\ n + 1 # 0 /\ (n + 1) - 1 = n
      BY <1>0
    <3> QED BY <2>1, <3>1
  <2> QED BY <2>2, <2>3
<1>8. 0 \in U
  <2> HIDE DEF H
  <2> QED BY <1>u, <1>0
<1>9. ASSUME NEW n \in 0..(Len(route) - 1), n \in U PROVE n + 1 \in U
  <2> HIDE DEF H
  <2>1. H[n] \in Q /\ n + 1 \in 1..Len(route)
    BY <1>9, <1>0
  <2>2. H[n + 1] \in Q
    BY <1>u, <2>1, <1>1
  <2> QED BY <2>1, <2>2
<1>10. \A n \in 0..Len(route) : n \in U
  <2> HIDE DEF U
  <2> QED BY <1>0, <1>8, <1>9, Induct
<1> HIDE DEF H
<1> WITNESS H
<1> QED BY <1>7, <1>u, <1>10 DEF Joins, route, Q, more

\* Who judges an offer, and in what order, is settled when it begins.
LEMMA JudgesInOrder ==
  ASSUME NEW o \in Offerable
  PROVE  Judges(o) \in Seq(Judgings)
<1>1. PICK h : Joins(h, o)
  BY JudgesJoined
<1> QED BY <1>1, RouteFacts DEF Joins

\* Two sequences joined have what either has.
LEMMA ConcatHas ==
  ASSUME NEW s \in Seq(Judgings), NEW r \in Seq(Judgings)
  PROVE  /\ \A i \in 1..Len(s) : \E k \in 1..Len(s \o r) : (s \o r)[k] = s[i]
         /\ \A i \in 1..Len(r) : \E k \in 1..Len(s \o r) : (s \o r)[k] = r[i]
<1>1. ASSUME NEW i \in 1..Len(s) PROVE i \in 1..Len(s \o r) /\ (s \o r)[i] = s[i]
  OBVIOUS
<1>2. ASSUME NEW i \in 1..Len(r)
      PROVE  Len(s) + i \in 1..Len(s \o r) /\ (s \o r)[Len(s) + i] = r[i]
  OBVIOUS
<1> QED BY <1>1, <1>2

\* Every validator of every queue an offer goes to is among those that judge it.
LEMMA EveryoneJudges ==
  ASSUME NEW o \in Offerable, NEW q \in ToSet(Routes[o.to]) \cup {o.to},
         NEW i \in 1..Len(JudgesOf(q))
  PROVE  \E k \in 1..Len(Judges(o)) : Judges(o)[k] = JudgesOf(q)[i]
<1> DEFINE route == Routes[o.to]
           v == JudgesOf(q)[i]
           Has(s) == \E k \in 1..Len(s) : s[k] = v
<1>0. /\ Len(route) \in Nat \ {0} /\ route \in Seq(DOMAIN JudgedBy) /\ q \in DOMAIN JudgedBy
      /\ \A w \in DOMAIN JudgedBy : JudgesOf(w) \in Seq(Judgings)
  BY RouteFacts DEF ToSet
<1>1. PICK h : Joins(h, o)
  BY JudgesJoined
<1>2. /\ h[0] = JudgesOf(o.to) /\ Judges(o) = h[Len(route)]
      /\ \A n \in 0..Len(route) : h[n] \in Seq(Judgings)
      /\ \A n \in 0..(Len(route) - 1) :
           h[n + 1] = h[n] \o IF route[n + 1] = o.to THEN <<>> ELSE JudgesOf(route[n + 1])
  BY <1>1 DEF Joins
<1>3. PICK n \in 0..Len(route) : Has(h[n])
  <2>1. CASE q = o.to
    BY <1>0, <1>2, <2>1
  <2>2. CASE q # o.to
    <3>1. PICK m \in 1..Len(route) : route[m] = q
      <4>1. q \in ToSet(route) /\ DOMAIN route = 1..Len(route)
        BY <1>0, <2>2
      <4> HIDE DEF route
      <4> QED BY <4>1 DEF ToSet
    <3>2. /\ h[m] = h[m - 1] \o JudgesOf(q) /\ h[m - 1] \in Seq(Judgings)
          /\ JudgesOf(q) \in Seq(Judgings) /\ h[m] \in Seq(Judgings)
      <4>1. m - 1 \in 0..(Len(route) - 1) /\ (m - 1) + 1 = m /\ m - 1 \in 0..Len(route)
            /\ m \in 0..Len(route)
        BY <1>0
      <4> QED BY <1>0, <1>2, <2>2, <3>1, <4>1
    <3>3. \E k \in 1..Len(h[m]) : h[m][k] = v
      <4>1. ASSUME NEW s \in Seq(Judgings), NEW r \in Seq(Judgings), r = JudgesOf(q),
                   h[m] = s \o r
            PROVE  \E k \in 1..Len(h[m]) : h[m][k] = v
        <5>1. i \in 1..Len(r) /\ v = r[i]
          BY <4>1
        <5>2. \A j \in 1..Len(r) : \E k \in 1..Len(s \o r) : (s \o r)[k] = r[j]
          BY ConcatHas
        <5> QED BY <4>1, <5>1, <5>2
      <4> QED BY <3>2, <4>1
    <3> QED BY <1>0, <3>3
  <2> QED BY <2>1, <2>2
<1> DEFINE T == {m \in n..Len(route) : Has(h[m])}
<1>4. ASSUME NEW m \in n..(Len(route) - 1), m \in T PROVE m + 1 \in T
  <2>1. m \in 0..(Len(route) - 1) /\ m \in 0..Len(route) /\ m + 1 \in n..Len(route)
    <3>1. n \in Nat /\ Len(route) \in Nat
      BY <1>0
    <3> HIDE DEF T, route
    <3> QED BY <3>1
  <2> DEFINE more == IF route[m + 1] = o.to THEN <<>> ELSE JudgesOf(route[m + 1])
  <2>2. h[m + 1] = h[m] \o more /\ h[m] \in Seq(Judgings)
    BY <1>2, <2>1
  <2>3. more \in Seq(Judgings)
    BY <1>0, <2>1
  <2> HIDE DEF more
  <2>4. PICK k \in 1..Len(h[m]) : h[m][k] = v
    BY <1>4
  <2>5. \E j \in 1..Len(h[m + 1]) : h[m + 1][j] = v
    <3>1. \A a \in 1..Len(h[m]) : \E j \in 1..Len(h[m] \o more) : (h[m] \o more)[j] = h[m][a]
      BY <2>2, <2>3, ConcatHas
    <3> QED BY <2>2, <2>4, <3>1
  <2> QED BY <2>1, <2>5
<1>5. n \in T /\ n \in Nat /\ Len(route) \in Nat
  BY <1>0, <1>3
<1>6. Len(route) \in T
  <2>0. n <= Len(route)
    BY <1>0
  <2> HIDE DEF T, route
  <2>1. \A m \in n..Len(route) : m \in T
    BY <1>4, <1>5, <2>0, Induct
  <2> QED BY <1>5, <2>0, <2>1
<1> QED BY <1>2, <1>6

\* A validator that judges what an offer says has passed it, for the queue it judges for and
\* the question of the offer, or may take a pass that was kept.
PassedIn(runs, judge, o, bars) ==
  <<judge[2], o.content>> \in Whens =>
    \E run \in runs :
      /\ run.command = Commands[judge[2]] /\ run.content = o.content
      /\ \/ run.context = <<judge[1], o.about>> /\ run.found \in bars
         \/ judge[2] \in Cached /\ run.read \in bars

\* A pass is kept for a run that passed.
KeptFor(runs, key) ==
  \E run \in runs : run.command = key[1] /\ run.content = key[2] /\ run.read = key[3]

LEMMA PassedStays ==
  ASSUME NEW runs, NEW more, runs \subseteq more, NEW bars, NEW later, bars \subseteq later,
         NEW judge, NEW o, PassedIn(runs, judge, o, bars)
  PROVE  PassedIn(more, judge, o, later)
BY DEF PassedIn

JudgeAt(w) == Judges(offer[w])[turn[w]]

NoOffer == CHOOSE o \in Offerable : TRUE

OfferTypeOK ==
  /\ bar \in Bars
  /\ step \in [Offerers -> {"idle", "keys", "looks", "runs", "records", "pushes"}]
  /\ offer \in [Offerers -> Offerable \cup {NoOffer}]
  /\ \A w \in Offerers : step[w] # "idle" => offer[w] \in Offerable
  /\ turn \in [Offerers -> Nat \ {0}]
  /\ fingerprint \in [Offerers -> Bars \cup {NoBar}]
  /\ verdict \in [Offerers -> {"pass", "refuse", "unjudged"}]
  /\ inForce \in [Offerers -> SUBSET Bars]
  /\ offers \in [Offerers -> Nat]

\* What those whose turn was before have said.
PassedSoFar(w) ==
  \A k \in 1..(turn[w] - 1) : PassedIn(ran, Judges(offer[w])[k], offer[w], inForce[w])

\* While validators judge, the bar in force and the one read are known to have been, a verdict
\* that is a pass is everyone's so far, who looks a pass up keeps its own, and what is about to
\* be recorded is a run that passed.
JudgingKnows(w) ==
  /\ turn[w] <= Len(Judges(offer[w]))
  /\ bar \in inForce[w]
  /\ fingerprint[w] \in inForce[w] \cup {NoBar}
  /\ verdict[w] = "pass" => PassedSoFar(w)
  /\ step[w] \in {"looks", "records"} => fingerprint[w] # NoBar
  /\ step[w] = "looks" => Judge(w) \in Cached
  /\ step[w] = "records" =>
       KeptFor(ran, PassKey(w)) /\ PassedIn(ran, JudgeAt(w), offer[w], inForce[w])

\* What is pushed has been passed by everyone.
PushingKnows(w) ==
  /\ turn[w] <= Len(Routes[offer[w].to])
  /\ \A k \in 1..Len(Judges(offer[w])) :
       PassedIn(ran, Judges(offer[w])[k], offer[w], inForce[w])

\* The inductive invariant: a pass that is kept was one, and so was what offerers go by.
OfferInv ==
  /\ OfferTypeOK
  /\ \A key \in passes : KeptFor(ran, key)
  /\ \A w \in Offerers : /\ Judging(w) => JudgingKnows(w)
                         /\ step[w] = "pushes" => PushingKnows(w)
  /\ AppendedWasPassed

\* What the offerers but one go by stays as it is.
OthersStay(w) ==
  \A q \in Offerers \ {w} :
    /\ step'[q] = step[q] /\ offer'[q] = offer[q] /\ turn'[q] = turn[q]
    /\ fingerprint'[q] = fingerprint[q] /\ verdict'[q] = verdict[q] /\ inForce'[q] = inForce[q]

\* Runs that are added leave what the queues hold passed.
LEMMA AppendedStays ==
  ASSUME AppendedWasPassed, ran \subseteq ran', kept' = kept
  PROVE  AppendedWasPassed'
BY DEF AppendedWasPassed, Passed

\* What an offerer knows it still does, when nothing but bars and runs are added.
LEMMA KnowsStill ==
  ASSUME NEW q, ran \subseteq ran', bar' \in inForce'[q] \/ bar' = bar,
         step'[q] = step[q], offer'[q] = offer[q], turn'[q] = turn[q],
         fingerprint'[q] = fingerprint[q], verdict'[q] = verdict[q],
         inForce[q] \subseteq inForce'[q]
  PROVE  /\ (Judging(q) => JudgingKnows(q)) => (Judging(q)' => JudgingKnows(q)')
         /\ (step[q] = "pushes" => PushingKnows(q)) => (step'[q] = "pushes" => PushingKnows(q)')
<1>1. ASSUME NEW judge, PassedIn(ran, judge, offer[q], inForce[q])
      PROVE  PassedIn(ran', judge, offer'[q], inForce'[q])
  <2> DEFINE o == offer[q]
             later == inForce'[q]
  <2>1. PassedIn(ran', judge, o, later)
    BY <1>1, PassedStays
  <2> QED BY <2>1
<1>2. ASSUME Judging(q)', JudgingKnows(q) PROVE JudgingKnows(q)'
  <2>1. PassedSoFar(q) => PassedSoFar(q)'
    BY <1>1 DEF PassedSoFar
  <2>2. /\ Judge(q)' = Judge(q) /\ JudgeAt(q)' = JudgeAt(q) /\ PassKey(q)' = PassKey(q)
    BY DEF Judge, JudgeAt, PassKey, CommandOf
  <2>3. KeptFor(ran, PassKey(q)) => KeptFor(ran', PassKey(q)')
    BY <2>2 DEF KeptFor
  <2>4. step'[q] = "records" =>
          KeptFor(ran', PassKey(q)') /\ PassedIn(ran', JudgeAt(q)', offer'[q], inForce'[q])
    BY <1>1, <1>2, <2>2, <2>3 DEF JudgingKnows
  <2> QED BY <1>2, <2>1, <2>2, <2>4 DEF JudgingKnows
<1>3. ASSUME step'[q] = "pushes", PushingKnows(q) PROVE PushingKnows(q)'
  BY <1>1, <1>3 DEF PushingKnows
<1>4. Judging(q)' => Judging(q)
  BY DEF Judging
<1> QED BY <1>2, <1>3, <1>4

\* Once a validator has said what it says, the next is to judge, or all of them have passed
\* the offer, or it is over.
LEMMA SaidKnows ==
  ASSUME OfferTypeOK, NEW w \in Offerers, Judging(w), JudgingKnows(w),
         NEW said \in {"pass", "refuse", "unjudged"}, Said(w, said), ran \subseteq ran',
         said = "pass" => PassedIn(ran', JudgeAt(w), offer[w], inForce[w]),
         UNCHANGED <<bar, offer, fingerprint, inForce, offers>>
  PROVE  /\ OfferTypeOK' /\ OthersStay(w)
         /\ Judging(w)' => JudgingKnows(w)'
         /\ step'[w] = "pushes" => PushingKnows(w)'
<1> DEFINE all == Judges(offer[w])
           last == turn[w] = Len(all)
           whole == Combined(verdict[w], said)
<1>0. /\ offer[w] \in Offerable /\ turn[w] \in Nat \ {0} /\ turn[w] <= Len(all)
      /\ verdict[w] \in {"pass", "refuse", "unjudged"}
  BY DEF OfferTypeOK, Judging, JudgingKnows
<1>1. whole \in {"pass", "refuse", "unjudged"}
      /\ (whole = "pass" => verdict[w] = "pass" /\ said = "pass")
  BY <1>0 DEF Combined
<1>2. /\ verdict' = [verdict EXCEPT ![w] = whole]
      /\ turn' = [turn EXCEPT ![w] = IF last THEN 1 ELSE @ + 1]
      /\ step' = [step EXCEPT ![w] =
                    IF ~last THEN "keys" ELSE IF whole = "pass" THEN "pushes" ELSE "idle"]
  BY DEF Said
<1>l. Len(all) \in Nat
  <2>1. all \in Seq(Judgings)
    BY <1>0, JudgesInOrder
  <2> QED BY <2>1
<1> HIDE DEF whole, all
<1>3. /\ verdict'[w] = whole /\ turn'[w] = (IF last THEN 1 ELSE turn[w] + 1)
      /\ step'[w] = (IF ~last THEN "keys" ELSE IF whole = "pass" THEN "pushes" ELSE "idle")
  BY <1>2 DEF OfferTypeOK
<1>4. OfferTypeOK'
  BY <1>0, <1>1, <1>2 DEF OfferTypeOK, Judging
<1>5. OthersStay(w)
  BY <1>2 DEF OfferTypeOK, OthersStay
<1>6. whole = "pass" => \A k \in 1..turn[w] : PassedIn(ran', all[k], offer[w], inForce[w])
  <2> SUFFICES ASSUME whole = "pass", NEW k \in 1..turn[w]
               PROVE  PassedIn(ran', all[k], offer[w], inForce[w])
    OBVIOUS
  <2>1. CASE k = turn[w]
    BY <1>1, <2>1 DEF JudgeAt, all
  <2>2. CASE k # turn[w]
    <3>1. k \in 1..(turn[w] - 1) /\ verdict[w] = "pass"
      BY <1>0, <1>1, <2>2
    <3>2. PassedIn(ran, all[k], offer[w], inForce[w])
      BY <3>1 DEF JudgingKnows, PassedSoFar, all
    <3> QED BY <3>2, PassedStays
  <2> QED BY <2>1, <2>2
<1>7. ASSUME Judging(w)' PROVE JudgingKnows(w)'
  <2>1. ~last /\ turn'[w] = turn[w] + 1 /\ verdict'[w] = whole /\ step'[w] = "keys"
    BY <1>3, <1>7 DEF Judging
  <2>2. turn'[w] <= Len(all) /\ turn'[w] - 1 = turn[w]
    BY <1>0, <1>l, <2>1
  <2>3. whole = "pass" => PassedSoFar(w)'
    BY <1>6, <2>2 DEF PassedSoFar, all
  <2> QED BY <2>1, <2>2, <2>3 DEF JudgingKnows, all
<1>8. ASSUME step'[w] = "pushes" PROVE PushingKnows(w)'
  <2>1. last /\ whole = "pass" /\ turn'[w] = 1
    BY <1>3, <1>8
  <2>2. 1 <= Len(Routes[offer[w].to])
    BY <1>0, RouteFacts
  <2> QED BY <1>6, <2>1, <2>2 DEF PushingKnows, all
<1> QED BY <1>4, <1>5, <1>7, <1>8

\* A run that passed is remembered before its pass is kept, so that whoever takes a pass takes
\* one of a run of that command, on that content, which began by reading the bar it reads now
\* (`judge`).
LEMMA OfferInvHolds == OfferSpec => []OfferInv
<1>1. OfferInit => OfferInv
  BY DEF OfferInit, OfferInv, OfferTypeOK, AppendedWasPassed, Judging, NoOffer
<1>2. OfferInv /\ [OfferNext]_offerVars => OfferInv'
  <2> SUFFICES ASSUME OfferInv, [OfferNext]_offerVars PROVE OfferInv'
    OBVIOUS
  <2>0. /\ OfferTypeOK
        /\ \A key \in passes : KeptFor(ran, key)
        /\ \A w \in Offerers : Judging(w) => JudgingKnows(w)
        /\ \A w \in Offerers : step[w] = "pushes" => PushingKnows(w)
        /\ AppendedWasPassed
    BY DEF OfferInv
  <2> USE OfferAssumption
  <2>1. CASE BarMoves
    <3>1. /\ bar' \in Bars
          /\ UNCHANGED <<passes, ran, kept, step, offer, turn, fingerprint, verdict, offers>>
          /\ inForce' = [w \in Offerers |-> IF Judging(w) THEN inForce[w] \cup {bar'}
                                                          ELSE inForce[w]]
      BY <2>1 DEF BarMoves
    <3>2. OfferTypeOK'
      BY <2>0, <3>1 DEF OfferTypeOK
    <3>3. ASSUME NEW w \in Offerers, Judging(w)' PROVE JudgingKnows(w)'
      <4>1. Judging(w) /\ JudgingKnows(w) /\ inForce'[w] = inForce[w] \cup {bar'}
        BY <2>0, <3>1, <3>3 DEF Judging
      <4> QED BY <3>1, <3>3, <4>1, KnowsStill
    <3>4. ASSUME NEW w \in Offerers, step'[w] = "pushes" PROVE PushingKnows(w)'
      <4>1. step[w] = "pushes" /\ PushingKnows(w) /\ inForce'[w] = inForce[w]
        BY <2>0, <3>1, <3>4 DEF Judging
      <4> QED BY <3>1, <4>1 DEF PushingKnows
    <3>5. AppendedWasPassed'
      BY <2>0, <3>1, AppendedStays
    <3> QED BY <2>0, <3>1, <3>2, <3>3, <3>4, <3>5 DEF OfferInv
  <2>a. ASSUME NEW w \in Offerers, bar' = bar, OfferTypeOK', OthersStay(w), ran \subseteq ran',
               \A key \in passes' \ passes : KeptFor(ran', key),
               Judging(w)' => JudgingKnows(w)', step'[w] = "pushes" => PushingKnows(w)',
               AppendedWasPassed'
        PROVE  OfferInv'
    <3>1. \A key \in passes' : KeptFor(ran', key)
      BY <2>0, <2>a DEF KeptFor
    <3>2. ASSUME NEW q \in Offerers \ {w}
          PROVE  /\ Judging(q)' => JudgingKnows(q)'
                 /\ step'[q] = "pushes" => PushingKnows(q)'
      <4>1. /\ step'[q] = step[q] /\ offer'[q] = offer[q] /\ turn'[q] = turn[q]
            /\ fingerprint'[q] = fingerprint[q] /\ verdict'[q] = verdict[q]
            /\ inForce'[q] = inForce[q]
        BY <2>a DEF OthersStay
      <4> QED BY <2>0, <2>a, <4>1, KnowsStill
    <3> QED BY <2>a, <3>1, <3>2 DEF OfferInv
  <2>2. ASSUME NEW w \in Offerers, Begin(w) PROVE OfferInv'
    <3>1. PICK o \in Offerable :
            /\ offer' = [offer EXCEPT ![w] = o]
            /\ step' \in {[step EXCEPT ![w] = IF Judges(o) = <<>> THEN "pushes" ELSE "keys"], step}
      BY <2>2 DEF Begin
    <3>2. /\ step[w] = "idle" /\ UNCHANGED <<bar, passes, ran, kept>>
          /\ turn' = [turn EXCEPT ![w] = 1] /\ verdict' = [verdict EXCEPT ![w] = "pass"]
          /\ inForce' = [inForce EXCEPT ![w] = {bar}]
          /\ fingerprint' = [fingerprint EXCEPT ![w] = NoBar]
          /\ offers' = [offers EXCEPT ![w] = @ + 1]
      BY <2>2 DEF Begin
    <3>3. /\ offer'[w] = o /\ turn'[w] = 1 /\ verdict'[w] = "pass" /\ inForce'[w] = {bar}
          /\ fingerprint'[w] = NoBar
      BY <2>0, <3>1, <3>2 DEF OfferTypeOK
    <3>4. OfferTypeOK'
      <4>1. /\ step' \in [Offerers -> {"idle", "keys", "looks", "runs", "records", "pushes"}]
            /\ \A q \in Offerers : step'[q] # "idle" => q = w \/ step[q] # "idle"
        BY <2>0, <3>1 DEF OfferTypeOK
      <4>2. /\ offer' \in [Offerers -> Offerable \cup {NoOffer}]
            /\ \A q \in Offerers : step'[q] # "idle" => offer'[q] \in Offerable
        BY <2>0, <3>1, <4>1 DEF OfferTypeOK
      <4>3. inForce' \in [Offerers -> SUBSET Bars]
        BY <2>0, <3>2 DEF OfferTypeOK
      <4> QED BY <2>0, <3>2, <4>1, <4>2, <4>3 DEF OfferTypeOK
    <3>5. OthersStay(w)
      BY <2>0, <3>1, <3>2 DEF OfferTypeOK, OthersStay
    <3>6. Judges(o) \in Seq(Judgings) /\ Len(Routes[o.to]) >= 1
      BY JudgesInOrder, RouteFacts
    <3>7. Judging(w)' => JudgingKnows(w)'
      <4>1. step'[w] \in {"keys", "idle", "pushes"} /\ (step'[w] = "keys" => Judges(o) # <<>>)
            /\ (step'[w] = "pushes" => Judges(o) = <<>>)
        BY <2>0, <3>1, <3>2 DEF OfferTypeOK
      <4>2. ASSUME step'[w] = "keys" PROVE JudgingKnows(w)'
        <5>1. 1 <= Len(Judges(o))
          BY <3>6, <4>1, <4>2
        <5>2. PassedSoFar(w)'
          BY <3>3 DEF PassedSoFar
        <5> QED BY <3>2, <3>3, <4>2, <5>1, <5>2 DEF JudgingKnows
      <4> QED BY <4>1, <4>2 DEF Judging
    <3>8. step'[w] = "pushes" => PushingKnows(w)'
      <4>1. step'[w] = "pushes" => Judges(o) = <<>>
        BY <2>0, <3>1, <3>2 DEF OfferTypeOK
      <4> QED BY <3>2, <3>3, <3>6, <4>1 DEF PushingKnows
    <3>9. AppendedWasPassed'
      BY <2>0, <3>2, AppendedStays
    <3> QED BY <2>a, <3>2, <3>4, <3>5, <3>7, <3>8, <3>9
  <2>3. ASSUME NEW w \in Offerers, ReadBar(w) PROVE OfferInv'
    <3>1. PICK read \in {bar, NoBar} :
            /\ fingerprint' = [fingerprint EXCEPT ![w] = read]
            /\ step' = [step EXCEPT ![w] = IF read = NoBar THEN "runs" ELSE "looks"]
            /\ read = NoBar \/ Judge(w) \in Cached
      BY <2>3 DEF ReadBar
    <3>2. /\ step[w] = "keys"
          /\ UNCHANGED <<bar, passes, ran, kept, offer, turn, verdict, inForce, offers>>
      BY <2>3 DEF ReadBar
    <3>3. /\ fingerprint'[w] = read /\ step'[w] = IF read = NoBar THEN "runs" ELSE "looks"
      BY <2>0, <3>1 DEF OfferTypeOK
    <3>4. OfferTypeOK' /\ OthersStay(w)
      BY <2>0, <3>1, <3>2 DEF OfferTypeOK, OthersStay
    <3>5. Judging(w) /\ JudgingKnows(w) /\ bar \in inForce[w]
      BY <2>0, <3>2 DEF Judging, JudgingKnows
    <3>6. JudgingKnows(w)'
      <4>1. PassedSoFar(w) => PassedSoFar(w)'
        BY <3>2 DEF PassedSoFar
      <4>2. Judge(w)' = Judge(w)
        BY <3>2 DEF Judge
      <4> QED BY <3>1, <3>2, <3>3, <3>5, <4>1, <4>2 DEF JudgingKnows
    <3>7. AppendedWasPassed'
      BY <2>0, <3>2, AppendedStays
    <3> QED BY <2>a, <3>2, <3>3, <3>4, <3>5, <3>6, <3>7
  <2>b. ASSUME NEW w \in Offerers, Judging(w), NEW said \in {"pass", "refuse", "unjudged"},
               Said(w, said), ran \subseteq ran',
               said = "pass" => PassedIn(ran', JudgeAt(w), offer[w], inForce[w]),
               UNCHANGED <<bar, kept, offer, fingerprint, inForce, offers>>,
               \A key \in passes' \ passes : KeptFor(ran', key)
        PROVE  OfferInv'
    <3>1. /\ OfferTypeOK' /\ OthersStay(w)
          /\ Judging(w)' => JudgingKnows(w)'
          /\ step'[w] = "pushes" => PushingKnows(w)'
      BY <2>0, <2>b, SaidKnows
    <3>2. AppendedWasPassed'
      BY <2>0, <2>b, AppendedStays
    <3> QED BY <2>a, <2>b, <3>1, <3>2
  <2>4. ASSUME NEW w \in Offerers, NotAsked(w) PROVE OfferInv'
    <3>1. Judging(w) /\ PassedIn(ran', JudgeAt(w), offer[w], inForce[w])
      BY <2>4 DEF NotAsked, Judging, Asked, PassedIn, Judge, JudgeAt
    <3> QED BY <2>4, <2>b, <3>1 DEF NotAsked
  <2>c. ASSUME NEW w \in Offerers, NEW at \in {"runs", "records"}, Judging(w),
               step' = [step EXCEPT ![w] = at], fingerprint[w] # NoBar, ran \subseteq ran',
               at = "records" =>
                 /\ KeptFor(ran', PassKey(w))
                 /\ PassedIn(ran', JudgeAt(w), offer[w], inForce[w]),
               UNCHANGED <<bar, passes, kept, offer, turn, fingerprint, verdict, inForce, offers>>
        PROVE  OfferInv'
    <3>1. step'[w] = at /\ Judging(w)' /\ JudgingKnows(w)
      BY <2>0, <2>c DEF OfferTypeOK, Judging
    <3>2. OfferTypeOK' /\ OthersStay(w)
      BY <2>0, <2>c DEF OfferTypeOK, OthersStay, Judging
    <3>3. JudgingKnows(w)'
      <4>1. PassedSoFar(w) => PassedSoFar(w)'
        <5> SUFFICES ASSUME PassedSoFar(w), NEW k \in 1..(turn[w] - 1)
                     PROVE  PassedIn(ran', Judges(offer[w])[k], offer[w], inForce[w])
          BY <2>c DEF PassedSoFar
        <5>1. PassedIn(ran, Judges(offer[w])[k], offer[w], inForce[w])
          BY DEF PassedSoFar
        <5> QED BY <2>c, <5>1, PassedStays
      <4>2. /\ Judge(w)' = Judge(w) /\ JudgeAt(w)' = JudgeAt(w) /\ PassKey(w)' = PassKey(w)
        BY <2>c DEF Judge, JudgeAt, PassKey, CommandOf
      <4> QED BY <2>c, <3>1, <4>1, <4>2 DEF JudgingKnows
    <3>4. AppendedWasPassed'
      BY <2>0, <2>c, AppendedStays
    <3> QED BY <2>0, <2>a, <2>c, <3>1, <3>2, <3>3, <3>4
  <2>5. ASSUME NEW w \in Offerers, LookUp(w) PROVE OfferInv'
    <3>1. /\ step[w] = "looks" /\ Judging(w) /\ JudgingKnows(w)
          /\ UNCHANGED <<bar, passes, ran, kept, offer, fingerprint, inForce, offers>>
      BY <2>0, <2>5 DEF LookUp, Judging
    <3>2. /\ fingerprint[w] # NoBar /\ fingerprint[w] \in inForce[w] /\ Judge(w) \in Cached
      BY <3>1 DEF JudgingKnows
    <3>3. CASE PassKey(w) \in passes
      <4>1. PICK run \in ran : /\ run.command = CommandOf(w) /\ run.content = offer[w].content
                               /\ run.read = fingerprint[w]
        BY <2>0, <3>3 DEF KeptFor, PassKey
      <4>2. PassedIn(ran, JudgeAt(w), offer[w], inForce[w])
        BY <3>2, <4>1 DEF PassedIn, JudgeAt, Judge, CommandOf
      <4> QED BY <2>5, <2>b, <3>1, <3>3, <4>2 DEF LookUp
    <3>4. CASE PassKey(w) \notin passes
      BY <2>5, <2>c, <3>1, <3>2, <3>4 DEF LookUp
    <3> QED BY <3>3, <3>4
  <2>6. ASSUME NEW w \in Offerers, RunCommand(w) PROVE OfferInv'
    <3> DEFINE run == [command |-> CommandOf(w), content |-> offer[w].content,
                       context |-> Context(w), read |-> fingerprint[w], found |-> bar]
    <3>1. /\ step[w] = "runs" /\ Judging(w) /\ JudgingKnows(w) /\ bar \in inForce[w]
          /\ UNCHANGED <<bar, passes, kept, offer, fingerprint, inForce, offers>>
      BY <2>0, <2>6 DEF RunCommand, Judging, JudgingKnows
    <3>2. PICK said \in {"pass", "refuse", "unjudged"} :
            /\ ran' = IF said = "pass" THEN ran \cup {run} ELSE ran
            /\ IF said = "pass" /\ fingerprint[w] # NoBar
               THEN step' = [step EXCEPT ![w] = "records"] /\ UNCHANGED <<turn, verdict>>
               ELSE Said(w, said)
      BY <2>6 DEF RunCommand
    <3>3. /\ run.command = CommandOf(w) /\ run.content = offer[w].content
          /\ run.context = Context(w) /\ run.read = fingerprint[w] /\ run.found = bar
      OBVIOUS
    <3> HIDE DEF run
    <3>4. ran \subseteq ran' /\ (said = "pass" => run \in ran')
      BY <3>2
    <3>5. said = "pass" => /\ KeptFor(ran', PassKey(w))
                           /\ PassedIn(ran', JudgeAt(w), offer[w], inForce[w])
      BY <3>1, <3>3, <3>4 DEF KeptFor, PassKey, PassedIn, JudgeAt, Judge, CommandOf, Context
    <3>6. CASE said = "pass" /\ fingerprint[w] # NoBar
      BY <2>c, <3>1, <3>2, <3>4, <3>5, <3>6
    <3>7. CASE ~(said = "pass" /\ fingerprint[w] # NoBar)
      BY <2>b, <3>1, <3>2, <3>4, <3>5, <3>7
    <3> QED BY <3>6, <3>7
  <2>7. ASSUME NEW w \in Offerers, Record(w) PROVE OfferInv'
    <3>1. /\ step[w] = "records" /\ Judging(w) /\ JudgingKnows(w) /\ Said(w, "pass")
          /\ passes' \ passes \subseteq {PassKey(w)}
          /\ UNCHANGED <<bar, ran, kept, offer, fingerprint, inForce, offers>>
      BY <2>0, <2>7 DEF Record, Judging
    <3>2. KeptFor(ran, PassKey(w)) /\ PassedIn(ran, JudgeAt(w), offer[w], inForce[w])
      BY <3>1 DEF JudgingKnows
    <3> QED BY <2>b, <3>1, <3>2
  <2>8. ASSUME NEW w \in Offerers, PushRecord(w) PROVE OfferInv'
    <3> DEFINE to == Routes[offer[w].to]
               r == [queue |-> to[turn[w]], content |-> offer[w].content,
                     about |-> offer[w].about, inForce |-> inForce[w]]
    <3>1. /\ step[w] = "pushes" /\ PushingKnows(w) /\ offer[w] \in Offerable
          /\ kept' = kept \cup {r}
          /\ turn' = [turn EXCEPT ![w] = IF turn[w] = Len(to) THEN 1 ELSE @ + 1]
          /\ step' = [step EXCEPT ![w] = IF turn[w] = Len(to) THEN "idle" ELSE "pushes"]
          /\ UNCHANGED <<bar, passes, ran, offer, fingerprint, verdict, inForce, offers>>
      BY <2>0, <2>8 DEF PushRecord, OfferTypeOK
    <3>2. /\ to \in Seq(DOMAIN JudgedBy) /\ turn[w] \in 1..Len(to) /\ Len(to) \in Nat
      BY <2>0, <3>1, RouteFacts DEF PushingKnows, OfferTypeOK
    <3>3. OfferTypeOK' /\ OthersStay(w)
      BY <2>0, <3>1 DEF OfferTypeOK, OthersStay
    <3>4. /\ turn'[w] = IF turn[w] = Len(to) THEN 1 ELSE turn[w] + 1
          /\ step'[w] = IF turn[w] = Len(to) THEN "idle" ELSE "pushes"
      BY <2>0, <3>1 DEF OfferTypeOK
    <3>5. ~Judging(w)'
      BY <3>4 DEF Judging
    <3>6. step'[w] = "pushes" => PushingKnows(w)'
      <4>1. step'[w] = "pushes" => turn'[w] <= Len(to)
        BY <3>2, <3>4
      <4> HIDE DEF to
      <4> QED BY <3>1, <4>1 DEF PushingKnows, to
    <3>7. ASSUME NEW i \in 1..Len(JudgedBy[r.queue])
          PROVE  Passed(r.queue, JudgedBy[r.queue][i], r)
      <4> DEFINE q == to[turn[w]]
      <4>1. /\ q \in ToSet(Routes[offer[w].to]) \cup {offer[w].to} /\ q \in DOMAIN JudgedBy
            /\ i \in 1..Len(JudgedBy[q])
        BY <3>2, <3>7 DEF ToSet
      <4> HIDE DEF to, q
      <4>2. /\ i \in 1..Len(JudgesOf(q)) /\ JudgesOf(q)[i] = <<q, JudgedBy[q][i]>>
        BY <4>1, JudgesOfQueue
      <4>3. PICK k \in 1..Len(Judges(offer[w])) : Judges(offer[w])[k] = <<q, JudgedBy[q][i]>>
        <5>1. \A z \in ToSet(Routes[offer[w].to]) \cup {offer[w].to} :
                \A j \in 1..Len(JudgesOf(z)) :
                  \E k \in 1..Len(Judges(offer[w])) : Judges(offer[w])[k] = JudgesOf(z)[j]
          BY <3>1, EveryoneJudges, Zenon
        <5> QED BY <4>1, <4>2, <5>1
      <4>4. PassedIn(ran, <<q, JudgedBy[q][i]>>, offer[w], inForce[w])
        BY <3>1, <4>3 DEF PushingKnows
      <4> QED BY <4>4 DEF PassedIn, Passed, q
    <3> HIDE DEF r
    <3>8. AppendedWasPassed'
      <4> SUFFICES ASSUME NEW z \in kept \cup {r}, NEW i \in 1..Len(JudgedBy[z.queue])
                   PROVE  Passed(z.queue, JudgedBy[z.queue][i], z)
        BY <3>1 DEF AppendedWasPassed, Passed
      <4> QED BY <2>0, <3>7 DEF AppendedWasPassed
    <3> QED BY <2>a, <3>1, <3>3, <3>5, <3>6, <3>8
  <2>9. ASSUME NEW w \in Offerers, PushRefused(w) PROVE OfferInv'
    <3>1. /\ step' = [step EXCEPT ![w] = "idle"] /\ turn' = [turn EXCEPT ![w] = 1]
          /\ UNCHANGED <<bar, passes, ran, kept, offer, fingerprint, verdict, inForce, offers>>
      BY <2>9 DEF PushRefused
    <3>2. OfferTypeOK' /\ OthersStay(w) /\ step'[w] = "idle"
      BY <2>0, <3>1 DEF OfferTypeOK, OthersStay
    <3>3. ~Judging(w)'
      BY <3>2 DEF Judging
    <3>4. AppendedWasPassed'
      BY <2>0, <3>1, AppendedStays
    <3> QED BY <2>a, <3>1, <3>2, <3>3, <3>4
  <2>10. CASE UNCHANGED offerVars
    <3>1. UNCHANGED <<bar, moves, passes, ran, kept, step, offer, turn, fingerprint, verdict,
                      inForce, offers>>
      BY <2>10 DEF offerVars
    <3>2. OfferTypeOK'
      BY <2>0, <3>1 DEF OfferTypeOK
    <3>3. \A q \in Offerers : /\ Judging(q)' => JudgingKnows(q)'
                              /\ step'[q] = "pushes" => PushingKnows(q)'
      BY <2>0, <3>1, KnowsStill
    <3>4. AppendedWasPassed'
      BY <2>0, <3>1, AppendedStays
    <3> QED BY <2>0, <3>1, <3>2, <3>3, <3>4 DEF OfferInv
  <2> QED BY <2>1, <2>2, <2>3, <2>4, <2>5, <2>6, <2>7, <2>8, <2>9, <2>10 DEF OfferNext
<1> QED BY <1>1, <1>2, PTL DEF OfferSpec

\* AppendedWasPassed, for any number of offerers, queues and validators, whatever the bars are
\* and however often they move, back to one before included: what a queue holds was passed by
\* each of its validators that judges it, for that queue and question under a bar in force
\* while it was judged, or by one that may take a pass of the same content that a run of its
\* command got which began by reading such a bar (`judge`, `send`).
THEOREM JudgedIsPassed == OfferSpec => []AppendedWasPassed
<1>1. OfferInv => AppendedWasPassed
  BY DEF OfferInv
<1> QED BY <1>1, OfferInvHolds, PTL

----------------------------------------------------------------------------
(* Glob: what a pattern that was gone through means. *)

\* What is matched, and against what.
Patterns == Seq(Letters \cup {Star})
Texts == Seq(Letters)

\* From where on each end of a pattern matches, by what matches after it.
Matches(from, pat, txt) ==
  /\ from[Len(pat) + 1] = {Len(txt) + 1}
  /\ \A i \in 1..Len(pat) :
       from[i] = IF pat[i] = Star
                 THEN {j \in 1..Len(txt) + 1 : \E k \in from[i + 1] : j <= k}
                 ELSE {j \in 1..Len(txt) : txt[j] = pat[i] /\ j + 1 \in from[i + 1]}
  /\ \A i \in 1..Len(pat) + 1 : from[i] \subseteq 1..Len(txt) + 1

\* The recursion of `MatchesFrom` is one that can be gone through, from the pattern's end.
LEMMA MatchesFromIsSo ==
  ASSUME NEW pat \in Patterns, NEW txt \in Texts
  PROVE  Matches(MatchesFrom(pat, txt), pat, txt)
<1> DEFINE L == Len(pat)
           M == Len(txt)
           S == SUBSET (1..M + 1)
           Sooner(i, later) == IF pat[i] = Star THEN {j \in 1..M + 1 : \E k \in later : j <= k}
                               ELSE {j \in 1..M : txt[j] = pat[i] /\ j + 1 \in later}
           earlier == [n \in 1..L |-> [later \in S |-> Sooner(L + 1 - n, later)]]
           E(h) == [i \in 1..L + 1 |->
                      CASE i > L -> {M + 1}
                        [] i <= L /\ pat[i] = Star -> {j \in 1..M + 1 : \E k \in h[i + 1] : j <= k}
                        [] OTHER -> {j \in 1..M : txt[j] = pat[i] /\ j + 1 \in h[i + 1]}]
           H == CHOOSE h : h = E(h)
<1>0. L \in Nat /\ M \in Nat /\ {M + 1} \in S
  BY DEF Patterns, Texts
<1>1. \A i : \A later \in S : Sooner(i, later) \in S
  BY <1>0
<1>2. earlier \in [(0 + 1)..L -> [S -> S]]
  <2> HIDE DEF S, Sooner, L
  <2> QED BY <1>1
<1>3. PICK g : Unrolls(g, 0, L, S, {M + 1}, earlier)
  <2> HIDE DEF S, earlier, L, M
  <2>1. 0 \in Nat /\ L \in Nat /\ 0 <= L
    BY <1>0
  <2> QED BY <1>0, <1>2, <2>1, Recursion, Zenon
<1> DEFINE from == [i \in 1..L + 1 |-> g[L + 1 - i]]
<1>4. g[0] = {M + 1} /\ \A n \in 1..L : g[n] = Sooner(L + 1 - n, g[n - 1])
  <2>1. g[0] = {M + 1}
    BY <1>3, Zenon DEF Unrolls
  <2>2. ASSUME NEW n \in 1..L PROVE g[n] = Sooner(L + 1 - n, g[n - 1])
    <3> HIDE DEF S, Sooner, L, M, earlier
    <3>1. n - 1 \in 0..L /\ n \in (0 + 1)..L
      BY <1>0
    <3>2. g[n - 1] \in S /\ g[n] = earlier[n][g[n - 1]]
      BY <1>3, <3>1 DEF Unrolls
    <3> QED BY <3>2 DEF earlier
  <2> QED BY <2>1, <2>2
<1>e. ASSUME NEW h, NEW i \in 1..L + 1
      PROVE  E(h)[i] = IF i > L THEN {M + 1} ELSE Sooner(i, h[i + 1])
  <2> HIDE DEF L, M
  <2>1. i <= L <=> ~(i > L)
    BY <1>0
  <2> QED BY <2>1
<1>5. from = E(from)
  <2>1. ASSUME NEW i \in 1..L + 1 PROVE from[i] = E(from)[i]
    <3> HIDE DEF L, M, E, Sooner
    <3>1. CASE i > L
      <4>1. L + 1 - i = 0
        BY <1>0, <3>1
      <4>2. from[i] = {M + 1}
        BY <1>4, <4>1
      <4> QED BY <1>e, <3>1, <4>2
    <3>2. CASE ~(i > L)
      <4>1. L + 1 - i \in 1..L /\ L + 1 - (L + 1 - i) = i /\ i + 1 \in 1..L + 1
            /\ L + 1 - (i + 1) = (L + 1 - i) - 1
        BY <1>0, <3>2
      <4>2. from[i] = Sooner(i, from[i + 1])
        BY <1>4, <4>1
      <4> QED BY <1>e, <3>2, <4>2
    <3> QED BY <3>1, <3>2
  <2> HIDE DEF L, M
  <2> QED BY <2>1
<1>6. H = E(H)
  <2> HIDE DEF E
  <2> QED BY <1>5, Zenon
<1>7. MatchesFrom(pat, txt) = H
  BY Zenon DEF MatchesFrom
<1> HIDE DEF H, from, E, Sooner
<1>8. H[L + 1] = {M + 1}
  <2>1. L + 1 \in 1..L + 1 /\ L + 1 > L
    <3> HIDE DEF L
    <3> QED BY <1>0
  <2> HIDE DEF L, M
  <2> QED BY <1>6, <1>e, <2>1
<1>9. \A i \in 1..L : H[i] = Sooner(i, H[i + 1])
  <2> HIDE DEF L, M
  <2> TAKE i \in 1..L
  <2>1. i \in 1..L + 1 /\ ~(i > L)
    BY <1>0
  <2> QED BY <1>6, <1>e, <2>1
<1>10. \A i \in 1..L + 1 : H[i] \subseteq 1..M + 1
  <2> HIDE DEF L, M
  <2> TAKE i \in 1..L + 1
  <2>1. CASE i = L + 1
    BY <1>0, <1>8, <2>1
  <2>2. CASE i \in 1..L
    <3>1. Sooner(i, H[i + 1]) \subseteq 1..M + 1
      BY <1>0 DEF Sooner
    <3> QED BY <1>9, <2>2, <3>1
  <2> QED BY <1>0, <2>1, <2>2
<1> HIDE DEF L, M
<1> QED BY <1>7, <1>8, <1>9, <1>10 DEF Matches, L, M, Sooner

\* At the end of the text only stars match.
LEMMA StarsMatchTheEnd ==
  ASSUME NEW pat \in Patterns, NEW txt \in Texts, NEW i \in 1..Len(pat) + 1
  PROVE  Len(txt) + 1 \in MatchesFrom(pat, txt)[i] <=> \A k \in i..Len(pat) : pat[k] = Star
<1> DEFINE F == MatchesFrom(pat, txt)
           End == Len(txt) + 1
           L == Len(pat)
<1>0. Matches(F, pat, txt) /\ L \in Nat /\ End \in Nat
  <2>1. Matches(F, pat, txt)
    BY MatchesFromIsSo, Zenon
  <2> HIDE DEF F
  <2> QED BY <2>1 DEF Patterns, Texts
<1> HIDE DEF F
<1>1. End \in F[L + 1] /\ \A k \in 1..L : End \in F[k] <=> pat[k] = Star /\ End \in F[k + 1]
  <2>1. ASSUME NEW k \in 1..L PROVE End \in F[k] <=> pat[k] = Star /\ End \in F[k + 1]
    <3>1. k + 1 \in 1..L + 1
      BY <1>0
    <3>2. F[k + 1] \subseteq 1..End /\ F[k] =
            IF pat[k] = Star THEN {j \in 1..End : \E n \in F[k + 1] : j <= n}
            ELSE {j \in 1..Len(txt) : txt[j] = pat[k] /\ j + 1 \in F[k + 1]}
      BY <1>0, <3>1 DEF Matches
    <3>3. CASE pat[k] = Star
      BY <1>0, <3>2, <3>3
    <3>4. CASE pat[k] # Star
      BY <1>0, <3>2, <3>4
    <3> QED BY <3>3, <3>4
  <2> QED BY <1>0, <2>1 DEF Matches
<1> DEFINE T == {n \in 0..L : End \in F[L + 1 - n] <=> \A k \in (L + 1 - n)..L : pat[k] = Star}
<1>2. 0 \in T
  BY <1>0, <1>1
<1>3. ASSUME NEW n \in 0..(L - 1), n \in T PROVE n + 1 \in T
  <2> DEFINE k == L + 1 - (n + 1)
  <2>1. k \in 1..L /\ k + 1 = L + 1 - n /\ n + 1 \in 0..L
    BY <1>0
  <2>2. End \in F[k + 1] <=> \A j \in (k + 1)..L : pat[j] = Star
    BY <1>3, <2>1
  <2>3. (\A j \in k..L : pat[j] = Star) <=> pat[k] = Star /\ \A j \in (k + 1)..L : pat[j] = Star
    BY <1>0, <2>1
  <2> QED BY <1>1, <2>1, <2>2, <2>3
<1>4. \A n \in 0..L : n \in T
  <2> HIDE DEF T
  <2> QED BY <1>0, <1>2, <1>3, Induct
<1>5. L + 1 - i \in 0..L /\ L + 1 - (L + 1 - i) = i
  BY <1>0
<1> QED BY <1>4, <1>5 DEF F

\* Where in the text each end of this pattern matches.
Places == MatchesFrom(pattern, text)

\* What the loop has to go by: without a `*`, the one match there can be goes on where it
\* is; with one, a match goes on from `resume` or later, and the attempt from `resume` has
\* come as far as it is, over characters that stand for themselves.
GlobInv ==
  /\ pattern \in Patterns /\ text \in Texts
  /\ p \in 1..Len(pattern) + 1 /\ t \in 1..Len(text) + 1 /\ star \in 0..Len(pattern)
  /\ holds = "unknown" =>
       /\ star = 0 => (Means(pattern, text) <=> t \in Places[p])
       /\ star # 0 =>
            /\ star < p /\ resume \in 1..Len(text) + 1 /\ t = resume + (p - star - 1)
            /\ Means(pattern, text) <=> \E k \in Places[star + 1] : resume <= k
            /\ t \in Places[p] => resume \in Places[star + 1]
            /\ \A k \in Places[star + 1] : resume <= k => k + (p - star - 1) \in Places[p]
  /\ GlobMeansIt

\* What matches where, for what the loop stands at.
LEMMA PlacesAt ==
  ASSUME pattern \in Patterns, text \in Texts, NEW i \in 1..Len(pattern) + 1
  PROVE  /\ Places[i] \subseteq 1..Len(text) + 1
         /\ i = Len(pattern) + 1 => Places[i] = {Len(text) + 1}
<1>1. Matches(Places, pattern, text)
  BY MatchesFromIsSo, Zenon DEF Places
<1> QED BY <1>1 DEF Matches

\* At a star: wherever what follows matches further on.
LEMMA PlacesAtStar ==
  ASSUME pattern \in Patterns, text \in Texts, NEW i \in 1..Len(pattern), pattern[i] = Star
  PROVE  \A j : j \in Places[i] <=>
                  j \in 1..Len(text) + 1 /\ \E k \in Places[i + 1] : j <= k
<1>1. Matches(Places, pattern, text)
  BY MatchesFromIsSo, Zenon DEF Places
<1>2. Places[i] = {j \in 1..Len(text) + 1 : \E k \in Places[i + 1] : j <= k}
  BY <1>1, Zenon DEF Matches
<1> QED BY <1>2, Zenon

\* At a character that stands for itself: only there, and what follows one further.
LEMMA PlacesAtLetter ==
  ASSUME pattern \in Patterns, text \in Texts, NEW i \in 1..Len(pattern), pattern[i] # Star
  PROVE  \A j : j \in Places[i] <=>
                  j \in 1..Len(text) /\ text[j] = pattern[i] /\ j + 1 \in Places[i + 1]
<1>1. Matches(Places, pattern, text)
  BY MatchesFromIsSo, Zenon DEF Places
<1>2. Places[i] = {j \in 1..Len(text) : text[j] = pattern[i] /\ j + 1 \in Places[i + 1]}
  BY <1>1, Zenon DEF Matches
<1> QED BY <1>2, Zenon

\* For every pattern and text, however long, coming back to the last `*` alone loses no match:
\* the loop answers what the pattern means (`glob`).
THEOREM GlobMeans == GlobSpec => []GlobMeansIt
<1>1. GlobInit => GlobInv
  <2> SUFFICES ASSUME GlobInit PROVE GlobInv
    OBVIOUS
  <2>1. pattern \in Patterns /\ text \in Texts
    BY GlobAssumption DEF GlobInit, Upto, Patterns, Texts
  <2>2. 1 \in 1..Len(pattern) + 1 /\ 1 \in 1..Len(text) + 1 /\ 0 \in 0..Len(pattern)
    BY <2>1 DEF Patterns, Texts
  <2> QED BY <2>1, <2>2 DEF GlobInit, GlobInv, Means, Places, GlobMeansIt
<1>2. GlobInv /\ [GlobNext]_globVars => GlobInv'
  <2> SUFFICES ASSUME GlobInv, [GlobNext]_globVars PROVE GlobInv'
    OBVIOUS
  <2>0. /\ pattern \in Patterns /\ text \in Texts
        /\ p \in 1..Len(pattern) + 1 /\ t \in 1..Len(text) + 1 /\ star \in 0..Len(pattern)
        /\ Len(pattern) \in Nat /\ Len(text) \in Nat
    BY DEF GlobInv, Patterns, Texts
  <2> DEFINE M == Means(pattern, text)
  <2>s. star # 0 /\ holds = "unknown" =>
          /\ star < p /\ resume \in 1..Len(text) + 1 /\ t = resume + (p - star - 1)
          /\ M <=> \E k \in Places[star + 1] : resume <= k
          /\ t \in Places[p] => resume \in Places[star + 1]
          /\ \A k \in Places[star + 1] : resume <= k => k + (p - star - 1) \in Places[p]
    BY DEF GlobInv
  <2>n. star = 0 /\ holds = "unknown" => (M <=> t \in Places[p])
    BY DEF GlobInv
  <2>p. \A i \in 1..Len(pattern) + 1 : Places[i] \subseteq 1..Len(text) + 1
    BY <2>0, PlacesAt
  <2> HIDE DEF M
  <2>1. CASE PassStar
    <3>0. /\ holds = "unknown" /\ t <= Len(text) /\ p \in 1..Len(pattern) /\ pattern[p] = Star
          /\ star' = p /\ resume' = t /\ p' = p + 1 /\ UNCHANGED <<pattern, text, t, holds>>
      BY <2>0, <2>1 DEF PassStar, More, Scans
    <3>1. p + 1 \in 1..Len(pattern) + 1 /\ Places[p + 1] \subseteq 1..Len(text) + 1
      BY <2>0, <2>p, <3>0
    <3>2. \A j \in 1..Len(text) + 1 : j \in Places[p] <=> \E k \in Places[p + 1] : j <= k
      BY <2>0, <3>0, PlacesAtStar
    <3>3. M <=> \E k \in Places[p + 1] : t <= k
      <4>1. CASE star = 0
        BY <2>0, <2>n, <3>0, <3>2, <4>1
      <4>2. CASE star # 0
        <5>1. star + 1 \in 1..Len(pattern) + 1 /\ Places[star + 1] \subseteq 1..Len(text) + 1
          BY <2>0, <2>p, <3>0, <4>2
        <5>2. ASSUME NEW k \in Places[p + 1], t <= k PROVE M
          <6>1. t \in Places[p]
            BY <2>0, <3>2, <5>2
          <6>2. resume \in Places[star + 1] /\ resume <= resume
            BY <2>s, <3>0, <4>2, <6>1
          <6> QED BY <2>s, <3>0, <4>2, <6>2
        <5>3. ASSUME M PROVE \E k \in Places[p + 1] : t <= k
          <6>1. PICK k \in Places[star + 1] : resume <= k
            BY <2>s, <3>0, <4>2, <5>3
          <6> DEFINE at == k + (p - star - 1)
          <6>2. at \in Places[p] /\ t <= at
            BY <2>0, <2>s, <3>0, <4>2, <5>1, <6>1
          <6>3. at \in 1..Len(text) + 1
            BY <2>0, <2>p, <6>2
          <6> HIDE DEF at
          <6>4. PICK n \in Places[p + 1] : at <= n
            BY <3>2, <6>2, <6>3
          <6> QED BY <2>0, <3>1, <6>2, <6>3, <6>4
        <5> QED BY <5>2, <5>3
      <4> QED BY <4>1, <4>2
    <3>4. \A k \in Places[p + 1] : k + (p' - star' - 1) \in Places[p + 1]
      <4>1. p' - star' - 1 = 0
        BY <2>0, <3>0
      <4> QED BY <3>1, <4>1
    <3>5. t = resume' + (p' - star' - 1) /\ star' < p' /\ star' # 0
      BY <2>0, <3>0
    <3>6. Places' = Places /\ M' = M
      BY <3>0 DEF Places, M
    <3>7. /\ pattern' \in Patterns /\ text' \in Texts /\ p' \in 1..Len(pattern') + 1
          /\ t' \in 1..Len(text') + 1 /\ star' \in 0..Len(pattern')
          /\ resume' \in 1..Len(text') + 1 /\ holds' = "unknown"
      BY <2>0, <3>0, <3>1
    <3> QED BY <3>0, <3>3, <3>4, <3>5, <3>6, <3>7 DEF GlobInv, GlobMeansIt, M
  <2>2. CASE PassCharacter
    <3>0. /\ holds = "unknown" /\ t \in 1..Len(text) /\ p \in 1..Len(pattern)
          /\ pattern[p] = text[t] /\ pattern[p] # Star
          /\ p' = p + 1 /\ t' = t + 1 /\ UNCHANGED <<pattern, text, star, resume, holds>>
      <4>1. t \in 1..Len(text) => text[t] \in Letters
        BY <2>0 DEF Texts
      <4> QED BY <2>0, <2>2, <4>1, GlobAssumption DEF PassCharacter, More, Scans
    <3>1. \A j : j \in Places[p] <=>
                   j \in 1..Len(text) /\ text[j] = pattern[p] /\ j + 1 \in Places[p + 1]
      BY <2>0, <3>0, PlacesAtLetter, Zenon
    <3>2. t \in Places[p] <=> t + 1 \in Places[p + 1]
      BY <3>0, <3>1
    <3>3. ASSUME star # 0
          PROVE  /\ star < p' /\ t' = resume + (p' - star - 1)
                 /\ \A k \in Places[star + 1] : resume <= k => k + (p' - star - 1) \in Places[p + 1]
      <4>0. star < p /\ t = resume + (p - star - 1) /\ resume \in Int
        BY <2>s, <3>0, <3>3
      <4>1. star < p' /\ t' = resume + (p' - star - 1)
        <5>1. p \in Int /\ t \in Int /\ star \in Int /\ p' = p + 1 /\ t' = t + 1
          BY <2>0, <3>0
        <5> QED BY <4>0, <5>1
      <4>2. ASSUME NEW k \in Places[star + 1], resume <= k
            PROVE  k + (p' - star - 1) \in Places[p + 1]
        <5>1. k + (p - star - 1) \in Places[p]
          BY <2>s, <3>0, <3>3, <4>2
        <5>2. (k + (p - star - 1)) + 1 \in Places[p + 1]
          BY <3>1, <5>1, Zenon
        <5>3. star + 1 \in 1..Len(pattern) + 1 /\ k \in Nat
          <6>1. star + 1 \in 1..Len(pattern) + 1
            BY <2>0
          <6>2. k \in 1..Len(text) + 1
            BY <2>p, <4>2, <6>1
          <6> QED BY <2>0, <6>1, <6>2
        <5>4. (k + (p - star - 1)) + 1 = k + (p' - star - 1)
          <6>1. p \in Int /\ star \in Int /\ p' = p + 1
            BY <2>0, <3>0
          <6> QED BY <5>3, <6>1
        <5> QED BY <5>2, <5>4
      <4> QED BY <4>1, <4>2
    <3>4. Places' = Places /\ M' = M
      BY <3>0 DEF Places, M
    <3>5. /\ pattern' \in Patterns /\ text' \in Texts /\ p' \in 1..Len(pattern') + 1
          /\ t' \in 1..Len(text') + 1 /\ star' \in 0..Len(pattern') /\ holds' = "unknown"
      BY <2>0, <3>0
    <3>6. star = 0 => (M <=> t + 1 \in Places[p + 1])
      BY <2>n, <3>0, <3>2
    <3>7. star # 0 =>
            /\ resume \in 1..Len(text) + 1 /\ (M <=> \E k \in Places[star + 1] : resume <= k)
            /\ t + 1 \in Places[p + 1] => resume \in Places[star + 1]
      BY <2>s, <3>0, <3>2
    <3> QED BY <3>0, <3>3, <3>4, <3>5, <3>6, <3>7 DEF GlobInv, GlobMeansIt, M
  <2>m. ASSUME More, ~Scans(Star), ~Scans(text[t]) PROVE t \notin Places[p]
    <3>1. CASE p = Len(pattern) + 1
      <4>1. Places[p] = {Len(text) + 1} /\ t <= Len(text)
        BY <2>0, <2>m, <3>1, PlacesAt DEF More
      <4> QED BY <2>0, <4>1
    <3>2. CASE p \in 1..Len(pattern)
      <4>1. pattern[p] # Star /\ pattern[p] # text[t]
        BY <2>m, <3>2 DEF Scans
      <4> QED BY <2>0, <3>2, <4>1, PlacesAtLetter
    <3> QED BY <2>0, <3>1, <3>2
  <2>3. CASE TakeMore
    <3>0. /\ holds = "unknown" /\ t <= Len(text) /\ star # 0 /\ t \notin Places[p]
          /\ p' = star + 1 /\ resume' = resume + 1 /\ t' = resume + 1
          /\ UNCHANGED <<pattern, text, star, holds>>
      BY <2>3, <2>m DEF TakeMore, Backtrack, More
    <3>1. /\ star + 1 \in 1..Len(pattern) + 1 /\ Places[star + 1] \subseteq 1..Len(text) + 1
          /\ star \in Nat /\ resume \in 1..Len(text) + 1 /\ p \in Nat /\ star < p
          /\ t = resume + (p - star - 1)
      <4>1. star < p /\ resume \in 1..Len(text) + 1 /\ t = resume + (p - star - 1)
        BY <2>s, <3>0
      <4>2. star + 1 \in 1..Len(pattern) + 1 /\ star \in Nat /\ p \in Nat
        BY <2>0, <3>0
      <4> QED BY <2>p, <4>1, <4>2
    <3>2. resume \notin Places[star + 1]
      BY <2>s, <3>0, <3>1
    <3>3. M <=> \E k \in Places[star + 1] : resume + 1 <= k
      <4>1. \A k \in Places[star + 1] : resume <= k <=> resume + 1 <= k
        BY <3>1, <3>2
      <4> QED BY <2>s, <3>0, <4>1
    <3>4. resume + 1 \in 1..Len(text) + 1
      BY <2>0, <3>0, <3>1
    <3>5. p' - star' - 1 = 0 /\ \A k \in Places[star + 1] : k + (p' - star' - 1) = k
      BY <3>0, <3>1
    <3>6. Places' = Places /\ M' = M
      BY <3>0 DEF Places, M
    <3>7. /\ star' < p' /\ t' = resume' + (p' - star' - 1)
          /\ \A k \in Places[star + 1] : k + (p' - star' - 1) \in Places[star + 1]
      <4>1. star < star + 1 /\ resume + 1 = (resume + 1) + ((star + 1) - star - 1)
        BY <3>1
      <4>2. star' < p' /\ t' = resume' + (p' - star' - 1)
        BY <3>0, <4>1, Zenon
      <4> QED BY <3>5, <4>2
    <3> QED BY <2>0, <3>0, <3>1, <3>3, <3>4, <3>6, <3>7 DEF GlobInv, GlobMeansIt, M
  <2>4. CASE GiveUp
    <3>0. /\ holds = "unknown" /\ star = 0 /\ t \notin Places[p] /\ holds' = "no"
          /\ UNCHANGED <<pattern, text, p, t, star, resume>>
      BY <2>4, <2>m DEF GiveUp, More
    <3>1. ~M /\ M' = M
      BY <2>n, <3>0 DEF M
    <3> QED BY <2>0, <3>0, <3>1 DEF GlobInv, GlobMeansIt, M
  <2>5. CASE EndOfText
    <3>0. /\ holds = "unknown" /\ t = Len(text) + 1
          /\ holds' = IF \A i \in p..Len(pattern) : pattern[i] = Star THEN "yes" ELSE "no"
          /\ UNCHANGED <<pattern, text, p, t, star, resume>>
      BY <2>0, <2>5 DEF EndOfText
    <3>1. t \in Places[p] <=> \A i \in p..Len(pattern) : pattern[i] = Star
      BY <2>0, <3>0, StarsMatchTheEnd DEF Places
    <3>2. M <=> t \in Places[p]
      <4>1. CASE star = 0
        BY <2>n, <3>0, <4>1
      <4>2. CASE star # 0
        <5>1. /\ star + 1 \in 1..Len(pattern) + 1 /\ Places[star + 1] \subseteq 1..Len(text) + 1
              /\ star \in Nat /\ resume \in 1..Len(text) + 1 /\ p \in Nat /\ star < p
              /\ t = resume + (p - star - 1) /\ Places[p] \subseteq 1..Len(text) + 1
          <6>1. star < p /\ resume \in 1..Len(text) + 1 /\ t = resume + (p - star - 1)
            BY <2>s, <3>0, <4>2
          <6>2. star + 1 \in 1..Len(pattern) + 1 /\ star \in Nat /\ p \in Nat
            BY <2>0, <6>1
          <6> QED BY <2>0, <2>p, <6>1, <6>2
        <5>2. ASSUME t \in Places[p] PROVE M
          BY <2>s, <3>0, <4>2, <5>1, <5>2
        <5>3. ASSUME M PROVE t \in Places[p]
          <6>1. PICK k \in Places[star + 1] : resume <= k
            BY <2>s, <3>0, <4>2, <5>3
          <6>2. k + (p - star - 1) \in Places[p]
            BY <2>s, <3>0, <4>2, <6>1
          <6>3. k + (p - star - 1) = t
            <7>1. k + (p - star - 1) <= Len(text) + 1
              BY <2>0, <5>1, <6>2
            <7>2. k \in Int /\ p \in Int /\ star \in Int /\ resume \in Int
              BY <2>0, <5>1, <6>1
            <7> QED BY <2>0, <3>0, <5>1, <6>1, <7>1, <7>2
          <6> QED BY <6>2, <6>3
        <5> QED BY <5>2, <5>3
      <4> QED BY <4>1, <4>2
    <3>3. M' = M
      BY <3>0 DEF M
    <3>4. holds' # "unknown" /\ (holds' = "yes" <=> M)
      BY <3>0, <3>1, <3>2
    <3> QED BY <2>0, <3>0, <3>3, <3>4 DEF GlobInv, GlobMeansIt, M
  <2>6. CASE UNCHANGED globVars
    BY <2>6 DEF globVars, GlobInv, GlobMeansIt, Places
  <2> QED BY <2>1, <2>2, <2>3, <2>4, <2>5, <2>6 DEF GlobNext
<1>3. GlobInv => GlobMeansIt
  BY DEF GlobInv
<1> QED BY <1>1, <1>2, <1>3, PTL DEF GlobSpec

----------------------------------------------------------------------------
(* Stream: where the lines of a file are. *)

\* The newlines up to a place.
NewlinesTo(pieces, i) == {j \in NewlinesIn(pieces) : j <= i}

\* The newlines of a file, and those up to any place of it, can be counted.
LEMMA NewlinesAreFinite ==
  ASSUME NEW S, NEW x \in Seq(S)
  PROVE  /\ NewlinesIn(x) \subseteq 1..Len(x)
         /\ IsFiniteSet(NewlinesIn(x)) /\ Cardinality(NewlinesIn(x)) \in Nat
         /\ \A i : IsFiniteSet(NewlinesTo(x, i)) /\ Cardinality(NewlinesTo(x, i)) \in Nat
<1>1. IsFiniteSet(1..Len(x))
  BY FS_Interval
<1>2. NewlinesIn(x) \subseteq 1..Len(x)
  BY DEF NewlinesIn
<1>3. ASSUME NEW i PROVE NewlinesTo(x, i) \subseteq 1..Len(x)
  BY <1>2 DEF NewlinesTo
<1>4. IsFiniteSet(NewlinesIn(x)) /\ \A i : IsFiniteSet(NewlinesTo(x, i))
  BY <1>1, <1>2, <1>3, FS_Subset, Zenon
<1> QED BY <1>2, <1>4, FS_CardinalityType, Zenon

\* A place more is a newline more, or none.
LEMMA UptoNext ==
  ASSUME NEW S, NEW x \in Seq(S), NEW m \in Nat
  PROVE  /\ m + 1 \in NewlinesIn(x)
              => Cardinality(NewlinesTo(x, m + 1)) = Cardinality(NewlinesTo(x, m)) + 1
         /\ m + 1 \notin NewlinesIn(x) => NewlinesTo(x, m + 1) = NewlinesTo(x, m)
<1>1. NewlinesIn(x) \subseteq Nat
  BY NewlinesAreFinite
<1>2. CASE m + 1 \in NewlinesIn(x)
  <2>1. NewlinesTo(x, m + 1) = NewlinesTo(x, m) \cup {m + 1} /\ m + 1 \notin NewlinesTo(x, m)
    BY <1>1, <1>2 DEF NewlinesTo
  <2>2. IsFiniteSet(NewlinesTo(x, m))
    BY NewlinesAreFinite
  <2> QED BY <2>1, <2>2, <1>2, FS_AddElement
<1>3. CASE m + 1 \notin NewlinesIn(x)
  BY <1>1, <1>3 DEF NewlinesTo
<1> QED BY <1>2, <1>3

\* A newline has more up to it than any place before it has.
LEMMA UptoGrows ==
  ASSUME NEW S, NEW x \in Seq(S), NEW i \in Nat, NEW k \in NewlinesIn(x), i < k
  PROVE  Cardinality(NewlinesTo(x, i)) < Cardinality(NewlinesTo(x, k))
<1>1. k \in Nat /\ k - 1 \in Nat /\ (k - 1) + 1 = k /\ i <= k - 1
  BY NewlinesAreFinite
<1>2. Cardinality(NewlinesTo(x, k)) = Cardinality(NewlinesTo(x, k - 1)) + 1
  BY <1>1, UptoNext
<1>3. NewlinesTo(x, i) \subseteq NewlinesTo(x, k - 1)
  BY <1>1, NewlinesAreFinite DEF NewlinesTo
<1>4. Cardinality(NewlinesTo(x, i)) <= Cardinality(NewlinesTo(x, k - 1))
  BY <1>3, NewlinesAreFinite, FS_Subset, Zenon
<1>5. Cardinality(NewlinesTo(x, i)) \in Nat /\ Cardinality(NewlinesTo(x, k - 1)) \in Nat
  BY NewlinesAreFinite
<1> QED BY <1>2, <1>4, <1>5

\* The newline that has n up to it ends the n-th line.
LEMMA EndIs ==
  ASSUME NEW S, NEW x \in Seq(S), NEW k \in NewlinesIn(x)
  PROVE  /\ Cardinality(NewlinesTo(x, k)) \in Nat \ {0}
         /\ LineEnd(x, Cardinality(NewlinesTo(x, k))) = k
<1> DEFINE n == Cardinality(NewlinesTo(x, k))
<1>1. k \in Nat \ {0} /\ k - 1 \in Nat /\ (k - 1) + 1 = k
  BY NewlinesAreFinite
<1>2. n = Cardinality(NewlinesTo(x, k - 1)) + 1 /\ Cardinality(NewlinesTo(x, k - 1)) \in Nat
  BY <1>1, UptoNext, NewlinesAreFinite
<1> HIDE DEF n
<1>3. n \in Nat \ {0}
  BY <1>2
<1>4. ASSUME NEW i \in NewlinesIn(x), Cardinality(NewlinesTo(x, i)) = n PROVE i = k
  <2>1. i \in Nat /\ k \in Nat
    BY NewlinesAreFinite
  <2>2. CASE i < k
    BY <2>1, <2>2, <1>3, <1>4, UptoGrows DEF n
  <2>3. CASE k < i
    BY <2>1, <2>3, <1>3, <1>4, UptoGrows DEF n
  <2> QED BY <2>1, <2>2, <2>3
<1>5. Cardinality(NewlinesTo(x, k)) = n
  BY DEF n
<1>6. LineEnd(x, n) = CHOOSE i \in NewlinesIn(x) : Cardinality(NewlinesTo(x, i)) = n
  BY <1>3 DEF LineEnd, NewlinesTo
<1>7. (CHOOSE i \in NewlinesIn(x) : Cardinality(NewlinesTo(x, i)) = n) = k
  BY <1>4, <1>5
<1> QED BY <1>3, <1>5, <1>6, <1>7

\* Each line has its end.
LEMMA EndExists ==
  ASSUME NEW S, NEW x \in Seq(S), NEW n \in 1..Cardinality(NewlinesIn(x))
  PROVE  /\ LineEnd(x, n) \in NewlinesIn(x)
         /\ Cardinality(NewlinesTo(x, LineEnd(x, n))) = n
<1> DEFINE T == {m \in Nat : Cardinality(NewlinesTo(x, m)) >= n}
<1>0. Len(x) \in Nat /\ n \in Nat \ {0}
  BY NewlinesAreFinite
<1>1. NewlinesTo(x, Len(x)) = NewlinesIn(x)
  BY NewlinesAreFinite DEF NewlinesTo
<1>2. Len(x) \in T /\ T \subseteq Nat
  BY <1>0, <1>1, NewlinesAreFinite
<1>3. PICK m \in T : \A k \in T : m <= k
  BY <1>2, LeastNat
<1>4. NewlinesTo(x, 0) = {}
  BY NewlinesAreFinite DEF NewlinesTo
<1>5. Cardinality(NewlinesTo(x, 0)) = 0
  BY <1>4, FS_EmptySet
<1>6. m \in Nat \ {0} /\ Cardinality(NewlinesTo(x, m)) >= n
  BY <1>0, <1>3, <1>5
<1>7. m - 1 \in Nat /\ (m - 1) + 1 = m /\ m - 1 \notin T
  BY <1>3, <1>6
<1>8. Cardinality(NewlinesTo(x, m - 1)) \in Nat /\ Cardinality(NewlinesTo(x, m - 1)) < n
  BY <1>0, <1>7, NewlinesAreFinite
<1>9. m \in NewlinesIn(x)
  <2>1. Cardinality(NewlinesTo(x, m)) # Cardinality(NewlinesTo(x, m - 1))
    BY <1>0, <1>6, <1>8
  <2> QED BY <2>1, <1>7, UptoNext
<1>10. Cardinality(NewlinesTo(x, m)) = Cardinality(NewlinesTo(x, m - 1)) + 1
  BY <1>7, <1>9, UptoNext
<1>11. Cardinality(NewlinesTo(x, m)) = n
  BY <1>0, <1>6, <1>8, <1>10
<1> QED BY <1>9, <1>11, EndIs

\* A line ends after the one before it, and has no newline in it.
LEMMA EndsFollow ==
  ASSUME NEW S, NEW x \in Seq(S), NEW n \in 1..Cardinality(NewlinesIn(x))
  PROVE  /\ LineEnd(x, n - 1) \in NewlinesIn(x) \cup {0}
         /\ LineEnd(x, n - 1) \in Nat /\ LineEnd(x, n) \in 1..Len(x)
         /\ LineEnd(x, n - 1) < LineEnd(x, n)
<1>1. LineEnd(x, n) \in NewlinesIn(x) /\ Cardinality(NewlinesTo(x, LineEnd(x, n))) = n
  BY EndExists
<1>2. NewlinesIn(x) \subseteq 1..Len(x) /\ Cardinality(NewlinesIn(x)) \in Nat
  BY NewlinesAreFinite
<1>3. CASE n = 1
  BY <1>1, <1>2, <1>3 DEF LineEnd
<1>4. CASE n # 1
  <2>1. n - 1 \in 1..Cardinality(NewlinesIn(x))
    BY <1>2, <1>4
  <2>2. LineEnd(x, n - 1) \in NewlinesIn(x)
        /\ Cardinality(NewlinesTo(x, LineEnd(x, n - 1))) = n - 1
    BY <2>1, EndExists
  <2>3. ~(LineEnd(x, n) < LineEnd(x, n - 1)) /\ LineEnd(x, n) # LineEnd(x, n - 1)
    <3>1. CASE LineEnd(x, n) < LineEnd(x, n - 1)
      BY <3>1, <2>2, <1>1, <1>2, UptoGrows
    <3> QED BY <3>1, <2>2, <1>1, <1>2
  <2> QED BY <2>2, <2>3, <1>1, <1>2
<1> QED BY <1>3, <1>4

\* Nothing ends a line after the last newline.
LEMMA LastNewlineIs ==
  ASSUME NEW S, NEW x \in Seq(S)
  PROVE  /\ LastNewline(x) \in NewlinesIn(x) \cup {0}
         /\ LastNewline(x) \in 0..Len(x)
         /\ \A i \in NewlinesIn(x) : i <= LastNewline(x)
<1> DEFINE T == NewlinesIn(x) \cup {0}
           D == {Len(x) - i : i \in T}
<1>0. Len(x) \in Nat /\ T \subseteq 0..Len(x) /\ 0 \in T
  BY NewlinesAreFinite
<1>1. D \subseteq Nat /\ D # {}
  BY <1>0
<1>2. PICK d \in D : \A k \in D : d <= k
  BY <1>1, LeastNat
<1>3. PICK m \in T : d = Len(x) - m
  OBVIOUS
<1>4. ASSUME NEW i \in T PROVE m >= i
  <2>1. Len(x) - i \in D
    OBVIOUS
  <2>2. d <= Len(x) - i
    BY <2>1, <1>2
  <2> QED BY <2>2, <1>0, <1>3
<1> HIDE DEF T, D
<1>5. \E y \in T : \A i \in T : y >= i
  BY <1>4
<1>6. Max(T) \in T /\ \A i \in T : Max(T) >= i
  BY <1>5 DEF Max
<1>7. LastNewline(x) = Max(T)
  BY DEF LastNewline, T
<1> QED BY <1>0, <1>6, <1>7 DEF T

----------------------------------------------------------------------------
(* The whole lines of a file, and of one that has grown.                   *)

\* A stretch of a file, piece by piece.
LEMMA PiecesOf ==
  ASSUME NEW S, NEW x \in Seq(S), NEW from \in 1..(Len(x) + 1), NEW to \in 0..Len(x)
  PROVE  /\ SubSeq(x, from, to) \in Seq(S)
         /\ Len(SubSeq(x, from, to)) = IF from <= to THEN to - from + 1 ELSE 0
         /\ \A i \in 1..Len(SubSeq(x, from, to)) : SubSeq(x, from, to)[i] = x[from + i - 1]
<1>1. from \in Int /\ to \in Int /\ \A i \in from..to : x[i] \in S
  OBVIOUS
<1> QED BY <1>1, SubSeqProperties

\* The n-th whole line of a file.
LineAt(pieces, n) == SubSeq(pieces, LineEnd(pieces, n - 1) + 1, LineEnd(pieces, n) - 1)

\* There is a whole line for each newline.
LEMMA LinesAre ==
  ASSUME NEW S, NEW x \in Seq(S)
  PROVE  /\ WholeLines(x) \in Seq(Seq(S))
         /\ Len(WholeLines(x)) = Cardinality(NewlinesIn(x))
         /\ \A n \in 1..Cardinality(NewlinesIn(x)) : WholeLines(x)[n] = LineAt(x, n)
<1> DEFINE c == Cardinality(NewlinesIn(x))
<1>1. c \in Nat
  BY NewlinesAreFinite
<1>2. WholeLines(x) = [n \in 1..c |-> LineAt(x, n)]
  BY DEF WholeLines, LineAt
<1>3. ASSUME NEW n \in 1..c PROVE LineAt(x, n) \in Seq(S)
  <2>1. /\ LineEnd(x, n - 1) \in Nat /\ LineEnd(x, n) \in 1..Len(x)
        /\ LineEnd(x, n - 1) < LineEnd(x, n)
    BY EndsFollow
  <2> DEFINE from == LineEnd(x, n - 1)
             to == LineEnd(x, n)
  <2>2. from + 1 \in 1..(Len(x) + 1) /\ to - 1 \in 0..Len(x)
    <3> HIDE DEF from, to
    <3>1. from \in Nat /\ to \in 1..Len(x) /\ from < to
      BY <2>1 DEF from, to
    <3> QED BY <3>1
  <2> QED BY <2>2, PiecesOf DEF LineAt
<1> HIDE DEF c
<1>4. [n \in 1..c |-> LineAt(x, n)] \in Seq(Seq(S))
  BY <1>1, <1>3, IsASeq
<1>5. Len([n \in 1..c |-> LineAt(x, n)]) = c
  BY <1>1, <1>4
<1> QED BY <1>2, <1>4, <1>5 DEF c

\* The torn tail holds no line.
LEMMA HealedLines ==
  ASSUME NEW S, NEW x \in Seq(S)
  PROVE  /\ Mended(x) \in Seq(S) /\ Len(Mended(x)) = LastNewline(x)
         /\ \A i \in 1..LastNewline(x) : Mended(x)[i] = x[i]
         /\ NewlinesIn(Mended(x)) = NewlinesIn(x)
         /\ WholeLines(Mended(x)) = WholeLines(x)
<1> DEFINE b == LastNewline(x)
           y == Mended(x)
<1>1. b \in 0..Len(x) /\ \A i \in NewlinesIn(x) : i <= b
  BY LastNewlineIs
<1>2. y \in Seq(S) /\ Len(y) = b /\ \A i \in 1..b : y[i] = x[i]
  <2>0. y = SubSeq(x, 1, b)
    BY DEF Mended
  <2> HIDE DEF b, y
  <2> QED BY <2>0, <1>1, PiecesOf
<1>3. NewlinesIn(y) = NewlinesIn(x)
  <2> HIDE DEF b, y
  <2> QED BY <1>1, <1>2, NewlinesAreFinite DEF NewlinesIn
<1>4. WholeLines(y) = WholeLines(x)
  <2>1. \A n : LineEnd(y, n) = LineEnd(x, n)
    BY <1>3 DEF LineEnd
  <2>2. ASSUME NEW n \in 1..Cardinality(NewlinesIn(x)) PROVE LineAt(y, n) = LineAt(x, n)
    <3> DEFINE lo == LineEnd(x, n - 1) + 1
               hi == LineEnd(x, n) - 1
    <3>1. lo \in 1..(b + 1) /\ hi \in 0..b
      <4>1. /\ LineEnd(x, n - 1) \in Nat /\ LineEnd(x, n) \in 1..Len(x)
            /\ LineEnd(x, n - 1) < LineEnd(x, n)
        BY EndsFollow
      <4>2. LineEnd(x, n) <= b
        BY <1>1, EndExists
      <4> DEFINE ff == LineEnd(x, n - 1)
                 tt == LineEnd(x, n)
      <4> HIDE DEF ff, tt, b
      <4>3. ff \in Nat /\ tt \in Nat \ {0} /\ ff < tt /\ tt <= b /\ lo = ff + 1 /\ hi = tt - 1
        BY <4>1, <4>2 DEF ff, tt, lo, hi
      <4> QED BY <4>3, <1>1
    <3>2. LineAt(y, n) = SubSeq(y, lo, hi) /\ LineAt(x, n) = SubSeq(x, lo, hi)
      <4> HIDE DEF y
      <4>1. LineEnd(y, n - 1) = LineEnd(x, n - 1) /\ LineEnd(y, n) = LineEnd(x, n)
        BY <2>1
      <4> QED BY <4>1 DEF LineAt
    <3> HIDE DEF lo, hi, b, y
    <3>3. lo \in 1..(Len(y) + 1) /\ hi \in 0..Len(y) /\ lo \in 1..(Len(x) + 1) /\ hi \in 0..Len(x)
      BY <1>1, <1>2, <3>1
    <3>4. /\ SubSeq(y, lo, hi) \in Seq(S)
          /\ Len(SubSeq(y, lo, hi)) = IF lo <= hi THEN hi - lo + 1 ELSE 0
          /\ \A i \in 1..Len(SubSeq(y, lo, hi)) : SubSeq(y, lo, hi)[i] = y[lo + i - 1]
      BY <1>2, <3>3, PiecesOf
    <3>5. /\ SubSeq(x, lo, hi) \in Seq(S)
          /\ Len(SubSeq(x, lo, hi)) = IF lo <= hi THEN hi - lo + 1 ELSE 0
          /\ \A i \in 1..Len(SubSeq(x, lo, hi)) : SubSeq(x, lo, hi)[i] = x[lo + i - 1]
      BY <3>3, PiecesOf
    <3>6. \A i \in 1..(hi - lo + 1) : y[lo + i - 1] = x[lo + i - 1]
      BY <1>1, <1>2, <3>1
    <3>7. SubSeq(y, lo, hi) = SubSeq(x, lo, hi)
      <4>1. Len(SubSeq(y, lo, hi)) = Len(SubSeq(x, lo, hi))
        BY <3>4, <3>5
      <4>2. \A i \in 1..Len(SubSeq(y, lo, hi)) : SubSeq(y, lo, hi)[i] = SubSeq(x, lo, hi)[i]
        BY <3>1, <3>4, <3>5, <3>6, <4>1
      <4> QED BY <3>4, <3>5, <4>1, <4>2, SeqEqual
    <3> QED BY <3>2, <3>7
  <2>3. Cardinality(NewlinesIn(y)) = Cardinality(NewlinesIn(x))
    BY <1>3
  <2> HIDE DEF b, y
  <2>4. /\ WholeLines(y) \in Seq(Seq(S)) /\ Len(WholeLines(y)) = Cardinality(NewlinesIn(y))
        /\ \A n \in 1..Cardinality(NewlinesIn(y)) : WholeLines(y)[n] = LineAt(y, n)
    BY <1>2, LinesAre
  <2>5. /\ WholeLines(x) \in Seq(Seq(S)) /\ Len(WholeLines(x)) = Cardinality(NewlinesIn(x))
        /\ \A n \in 1..Cardinality(NewlinesIn(x)) : WholeLines(x)[n] = LineAt(x, n)
    BY LinesAre
  <2>6. \A n \in 1..Len(WholeLines(y)) : WholeLines(y)[n] = WholeLines(x)[n]
    BY <2>2, <2>3, <2>4, <2>5
  <2> QED BY <2>3, <2>4, <2>5, <2>6, SeqEqual
<1> QED BY <1>2, <1>3, <1>4

\* Where the lines end when more pieces come after these.
LEMMA EndsOfJoined ==
  ASSUME NEW S, NEW a \in Seq(S), NEW b \in Seq(S)
  PROVE  /\ \A i \in 1..Len(a) : i \in NewlinesIn(a \o b) <=> i \in NewlinesIn(a)
         /\ \A i \in 1..Len(b) : Len(a) + i \in NewlinesIn(a \o b) <=> i \in NewlinesIn(b)
         /\ \A i \in 0..Len(a) : Cardinality(NewlinesTo(a \o b, i)) = Cardinality(NewlinesTo(a, i))
         /\ \A i \in 0..Len(b) : Cardinality(NewlinesTo(a \o b, Len(a) + i))
                                   = Cardinality(NewlinesIn(a)) + Cardinality(NewlinesTo(b, i))
         /\ Cardinality(NewlinesIn(a \o b))
              = Cardinality(NewlinesIn(a)) + Cardinality(NewlinesIn(b))
<1> DEFINE c == a \o b
<1>1. c \in Seq(S) /\ Len(c) = Len(a) + Len(b) /\ Len(a) \in Nat /\ Len(b) \in Nat
  BY ConcatProperties
<1>2. \A i \in 1..(Len(a) + Len(b)) : c[i] = IF i <= Len(a) THEN a[i] ELSE b[i - Len(a)]
  BY ConcatProperties
<1> HIDE DEF c
<1>3. ASSUME NEW i \in 1..Len(a) PROVE i \in NewlinesIn(c) <=> i \in NewlinesIn(a)
  <2>1. i \in 1..(Len(a) + Len(b)) /\ i <= Len(a)
    BY <1>1
  <2>2. c[i] = a[i]
    BY <1>2, <2>1
  <2> QED BY <1>1, <2>1, <2>2 DEF NewlinesIn
<1>4. ASSUME NEW i \in 1..Len(b) PROVE Len(a) + i \in NewlinesIn(c) <=> i \in NewlinesIn(b)
  <2>1. /\ Len(a) + i \in 1..(Len(a) + Len(b)) /\ ~(Len(a) + i <= Len(a))
        /\ (Len(a) + i) - Len(a) = i
    BY <1>1
  <2>2. c[Len(a) + i] = b[i]
    BY <1>2, <2>1
  <2> QED BY <1>1, <2>1, <2>2 DEF NewlinesIn
<1>5. ASSUME NEW i \in 0..Len(a) PROVE NewlinesTo(c, i) = NewlinesTo(a, i)
  <2>1. NewlinesIn(c) \subseteq 1..Len(c) /\ NewlinesIn(a) \subseteq 1..Len(a)
    BY <1>1, NewlinesAreFinite
  <2> QED BY <1>1, <1>3, <2>1 DEF NewlinesTo
<1> DEFINE ka == Cardinality(NewlinesIn(a))
           T == {i \in 0..Len(b) :
                   Cardinality(NewlinesTo(c, Len(a) + i)) = ka + Cardinality(NewlinesTo(b, i))}
<1>6. NewlinesTo(a, Len(a)) = NewlinesIn(a) /\ NewlinesTo(b, Len(b)) = NewlinesIn(b)
      /\ NewlinesTo(c, Len(a) + Len(b)) = NewlinesIn(c)
  <2>1. NewlinesIn(c) \subseteq 1..Len(c) /\ NewlinesIn(a) \subseteq 1..Len(a)
        /\ NewlinesIn(b) \subseteq 1..Len(b)
    BY <1>1, NewlinesAreFinite
  <2> QED BY <1>1, <2>1 DEF NewlinesTo
<1>7. ka \in Nat /\ \A i : Cardinality(NewlinesTo(b, i)) \in Nat
  BY NewlinesAreFinite
<1>8. 0 \in T
  <2>1. NewlinesTo(b, 0) = {}
    BY <1>1, NewlinesAreFinite DEF NewlinesTo
  <2>2. Cardinality(NewlinesTo(b, 0)) = 0
    BY <2>1, FS_EmptySet
  <2>3. NewlinesTo(c, Len(a) + 0) = NewlinesIn(a)
    BY <1>1, <1>5, <1>6
  <2> QED BY <1>1, <1>7, <2>2, <2>3
<1>9. ASSUME NEW i \in 0..(Len(b) - 1), i \in T PROVE i + 1 \in T
  <2> DEFINE u == Cardinality(NewlinesTo(b, i))
             v == Cardinality(NewlinesTo(c, Len(a) + i))
  <2>1. v = ka + u /\ u \in Nat
    BY <1>7, <1>9
  <2>2. /\ i + 1 \in NewlinesIn(b) => Cardinality(NewlinesTo(b, i + 1)) = u + 1
        /\ i + 1 \notin NewlinesIn(b) => NewlinesTo(b, i + 1) = NewlinesTo(b, i)
    BY <1>1, UptoNext
  <2>3. /\ (Len(a) + i) + 1 \in NewlinesIn(c)
             => Cardinality(NewlinesTo(c, (Len(a) + i) + 1)) = v + 1
        /\ (Len(a) + i) + 1 \notin NewlinesIn(c)
             => NewlinesTo(c, (Len(a) + i) + 1) = NewlinesTo(c, Len(a) + i)
    BY <1>1, UptoNext
  <2>4. (Len(a) + i) + 1 = Len(a) + (i + 1) /\ i + 1 \in 1..Len(b) /\ i + 1 \in 0..Len(b)
    BY <1>1
  <2>5. Len(a) + (i + 1) \in NewlinesIn(c) <=> i + 1 \in NewlinesIn(b)
    BY <1>4, <2>4
  <2>6. Cardinality(NewlinesTo(c, Len(a) + (i + 1))) = ka + Cardinality(NewlinesTo(b, i + 1))
    <3>1. CASE i + 1 \in NewlinesIn(b)
      <4>1. /\ Cardinality(NewlinesTo(b, i + 1)) = u + 1
            /\ Cardinality(NewlinesTo(c, Len(a) + (i + 1))) = v + 1
        BY <3>1, <2>2, <2>3, <2>4, <2>5
      <4> HIDE DEF u, v, ka
      <4> QED BY <4>1, <2>1, <1>7
    <3>2. CASE i + 1 \notin NewlinesIn(b)
      <4>1. /\ NewlinesTo(b, i + 1) = NewlinesTo(b, i)
            /\ NewlinesTo(c, Len(a) + (i + 1)) = NewlinesTo(c, Len(a) + i)
        BY <3>2, <2>2, <2>3, <2>4, <2>5
      <4> QED BY <4>1, <2>1
    <3> QED BY <3>1, <3>2
  <2> QED BY <2>4, <2>6
<1>10. \A i \in 0..Len(b) : i \in T
  <2> HIDE DEF T
  <2> QED BY <1>1, <1>8, <1>9, Induct
<1>11. Cardinality(NewlinesIn(c)) = ka + Cardinality(NewlinesIn(b))
  <2>1. Len(b) \in T
    <3> HIDE DEF T
    <3> QED BY <1>1, <1>10
  <2>2. Cardinality(NewlinesTo(c, Len(a) + Len(b))) = ka + Cardinality(NewlinesTo(b, Len(b)))
    BY <2>1
  <2> QED BY <2>2, <1>6
<1> QED BY <1>3, <1>4, <1>5, <1>10, <1>11 DEF c

\* The lines of two files, one after the other, when the first has no torn tail.
LEMMA LinesOfJoined ==
  ASSUME NEW S, NEW a \in Seq(S), NEW b \in Seq(S), LastNewline(a) = Len(a)
  PROVE  WholeLines(a \o b) = WholeLines(a) \o WholeLines(b)
<1> DEFINE c == a \o b
           ka == Cardinality(NewlinesIn(a))
           kb == Cardinality(NewlinesIn(b))
<1>1. c \in Seq(S) /\ Len(c) = Len(a) + Len(b) /\ Len(a) \in Nat /\ Len(b) \in Nat
  BY ConcatProperties
<1>2. \A i \in 1..(Len(a) + Len(b)) : c[i] = IF i <= Len(a) THEN a[i] ELSE b[i - Len(a)]
  BY ConcatProperties
<1>3. ka \in Nat /\ kb \in Nat /\ Cardinality(NewlinesIn(c)) = ka + kb
  BY NewlinesAreFinite, EndsOfJoined
<1>4. /\ \A i \in NewlinesIn(a) : i \in NewlinesIn(c)
                                  /\ Cardinality(NewlinesTo(c, i)) = Cardinality(NewlinesTo(a, i))
      /\ \A i \in NewlinesIn(b) : Len(a) + i \in NewlinesIn(c)
                                  /\ Cardinality(NewlinesTo(c, Len(a) + i)) = ka + Cardinality(NewlinesTo(b, i))
  <2>1. \A i \in NewlinesIn(a) : i \in 1..Len(a) /\ i \in 0..Len(a)
    BY <1>1, NewlinesAreFinite
  <2>2. \A i \in NewlinesIn(b) : i \in 1..Len(b) /\ i \in 0..Len(b)
    BY <1>1, NewlinesAreFinite
  <2>3. \A i \in NewlinesIn(a) :
          i \in NewlinesIn(c) /\ Cardinality(NewlinesTo(c, i)) = Cardinality(NewlinesTo(a, i))
    BY <2>1, EndsOfJoined
  <2>4. ASSUME NEW i \in NewlinesIn(b)
        PROVE  Len(a) + i \in NewlinesIn(c)
               /\ Cardinality(NewlinesTo(c, Len(a) + i)) = ka + Cardinality(NewlinesTo(b, i))
    <3>1. i \in 1..Len(b) /\ i \in 0..Len(b)
      BY <2>2
    <3>2. Len(a) + i \in NewlinesIn(c)
      BY <3>1, EndsOfJoined
    <3>3. Cardinality(NewlinesTo(c, Len(a) + i)) = ka + Cardinality(NewlinesTo(b, i))
      BY <3>1, EndsOfJoined
    <3> QED BY <3>2, <3>3
  <2> QED BY <2>3, <2>4
<1> HIDE DEF c, ka, kb
<1>5. ASSUME NEW n \in 1..ka PROVE LineEnd(c, n) = LineEnd(a, n) /\ LineEnd(a, n) \in 1..Len(a)
  <2>1. LineEnd(a, n) \in NewlinesIn(a) /\ Cardinality(NewlinesTo(a, LineEnd(a, n))) = n
    BY EndExists DEF ka
  <2>2. LineEnd(a, n) \in NewlinesIn(c) /\ Cardinality(NewlinesTo(c, LineEnd(a, n))) = n
    BY <1>4, <2>1
  <2>3. LineEnd(c, Cardinality(NewlinesTo(c, LineEnd(a, n)))) = LineEnd(a, n)
    BY <1>1, <2>2, EndIs
  <2>4. NewlinesIn(a) \subseteq 1..Len(a)
    BY NewlinesAreFinite
  <2> QED BY <2>1, <2>2, <2>3, <2>4
<1>6. ASSUME NEW n \in 1..kb
      PROVE  LineEnd(c, ka + n) = Len(a) + LineEnd(b, n) /\ LineEnd(b, n) \in 1..Len(b)
  <2>1. LineEnd(b, n) \in NewlinesIn(b) /\ Cardinality(NewlinesTo(b, LineEnd(b, n))) = n
    BY EndExists DEF kb
  <2>2. Len(a) + LineEnd(b, n) \in NewlinesIn(c)
        /\ Cardinality(NewlinesTo(c, Len(a) + LineEnd(b, n))) = ka + n
    BY <1>4, <2>1
  <2>3. LineEnd(c, Cardinality(NewlinesTo(c, Len(a) + LineEnd(b, n)))) = Len(a) + LineEnd(b, n)
    BY <1>1, <2>2, EndIs
  <2>4. NewlinesIn(b) \subseteq 1..Len(b)
    BY NewlinesAreFinite
  <2> QED BY <2>1, <2>2, <2>3, <2>4
<1>7. LineEnd(a, 0) = 0 /\ LineEnd(b, 0) = 0 /\ LineEnd(c, 0) = 0
  BY DEF LineEnd
<1>8. LineEnd(c, ka + 0) = Len(a) + 0
  <2>1. CASE Len(a) = 0
    <3>0. 1..Len(a) = {}
      BY <2>1
    <3>1. NewlinesIn(a) = {}
      BY <3>0 DEF NewlinesIn
    <3>2. ka = 0
      BY <3>1, FS_EmptySet DEF ka
    <3> QED BY <3>2, <2>1, <1>7
  <2>2. CASE Len(a) # 0
    <3>1. Len(a) \in NewlinesIn(a)
      BY <2>2, LastNewlineIs
    <3>2. NewlinesTo(a, Len(a)) = NewlinesIn(a)
      BY <1>1, NewlinesAreFinite DEF NewlinesTo
    <3>3. Len(a) \in NewlinesIn(c) /\ Cardinality(NewlinesTo(c, Len(a))) = ka
      BY <1>4, <3>1, <3>2 DEF ka
    <3>4. LineEnd(c, Cardinality(NewlinesTo(c, Len(a)))) = Len(a)
      BY <1>1, <3>3, EndIs
    <3> QED BY <3>3, <3>4, <1>1, <1>3
  <2> QED BY <2>1, <2>2
<1>9. ASSUME NEW n \in 1..ka PROVE LineAt(c, n) = LineAt(a, n)
  <2> DEFINE lo == LineEnd(a, n - 1) + 1
             hi == LineEnd(a, n) - 1
  <2>1. LineEnd(c, n) = LineEnd(a, n) /\ LineEnd(c, n - 1) = LineEnd(a, n - 1)
    <3>1. CASE n = 1
      BY <3>1, <1>5, <1>7
    <3>2. CASE n # 1
      <4>1. n - 1 \in 1..ka
        BY <3>2, <1>3
      <4> QED BY <4>1, <1>5
    <3> QED BY <3>1, <3>2
  <2>2. lo \in 1..(Len(a) + 1) /\ hi \in 0..Len(a)
    <3>1. /\ LineEnd(a, n - 1) \in Nat /\ LineEnd(a, n) \in 1..Len(a)
          /\ LineEnd(a, n - 1) < LineEnd(a, n)
      BY EndsFollow DEF ka
    <3> DEFINE ff == LineEnd(a, n - 1)
               tt == LineEnd(a, n)
    <3>2. ff \in Nat /\ tt \in 1..Len(a) /\ ff < tt /\ lo = ff + 1 /\ hi = tt - 1
      BY <3>1
    <3> HIDE DEF ff, tt, lo, hi
    <3> QED BY <3>2, <1>1
  <2>3. LineAt(c, n) = SubSeq(c, lo, hi) /\ LineAt(a, n) = SubSeq(a, lo, hi)
    BY <2>1 DEF LineAt
  <2> HIDE DEF lo, hi
  <2>4. lo \in 1..(Len(c) + 1) /\ hi \in 0..Len(c)
    BY <1>1, <2>2
  <2>5. /\ SubSeq(c, lo, hi) \in Seq(S)
        /\ Len(SubSeq(c, lo, hi)) = IF lo <= hi THEN hi - lo + 1 ELSE 0
        /\ \A i \in 1..Len(SubSeq(c, lo, hi)) : SubSeq(c, lo, hi)[i] = c[lo + i - 1]
    BY <1>1, <2>4, PiecesOf
  <2>6. /\ SubSeq(a, lo, hi) \in Seq(S)
        /\ Len(SubSeq(a, lo, hi)) = IF lo <= hi THEN hi - lo + 1 ELSE 0
        /\ \A i \in 1..Len(SubSeq(a, lo, hi)) : SubSeq(a, lo, hi)[i] = a[lo + i - 1]
    BY <2>2, PiecesOf
  <2>7. \A i \in 1..(hi - lo + 1) : c[lo + i - 1] = a[lo + i - 1]
    <3> TAKE i \in 1..(hi - lo + 1)
    <3>1. lo + i - 1 \in 1..(Len(a) + Len(b)) /\ lo + i - 1 <= Len(a)
      BY <2>2, <1>1
    <3> QED BY <3>1, <1>2
  <2>8. Len(SubSeq(c, lo, hi)) = Len(SubSeq(a, lo, hi))
    BY <2>5, <2>6
  <2>9. \A i \in 1..Len(SubSeq(c, lo, hi)) : SubSeq(c, lo, hi)[i] = SubSeq(a, lo, hi)[i]
    BY <2>2, <2>5, <2>6, <2>7, <2>8
  <2> QED BY <2>3, <2>5, <2>6, <2>8, <2>9, SeqEqual
<1>10. ASSUME NEW n \in 1..kb PROVE LineAt(c, ka + n) = LineAt(b, n)
  <2> DEFINE lo == LineEnd(b, n - 1) + 1
             hi == LineEnd(b, n) - 1
  <2>1. /\ LineEnd(c, ka + n) = Len(a) + LineEnd(b, n)
        /\ LineEnd(c, (ka + n) - 1) = Len(a) + LineEnd(b, n - 1)
    <3>0. (ka + n) - 1 = ka + (n - 1) /\ ka + 0 = ka
      BY <1>3
    <3>1. CASE n = 1
      <4>1. n - 1 = 0
        BY <3>1
      <4> QED BY <4>1, <3>0, <1>6, <1>7, <1>8
    <3>2. CASE n # 1
      <4>1. n - 1 \in 1..kb
        BY <3>2, <1>3
      <4> QED BY <4>1, <3>0, <1>6
    <3> QED BY <3>1, <3>2
  <2>0. /\ LineEnd(b, n - 1) \in Nat /\ LineEnd(b, n) \in 1..Len(b)
        /\ LineEnd(b, n - 1) < LineEnd(b, n)
    BY EndsFollow DEF kb
  <2> DEFINE ff == LineEnd(b, n - 1)
             tt == LineEnd(b, n)
  <2>2. lo \in 1..(Len(b) + 1) /\ hi \in 0..Len(b)
    <3>2. ff \in Nat /\ tt \in 1..Len(b) /\ ff < tt /\ lo = ff + 1 /\ hi = tt - 1
      BY <2>0
    <3> HIDE DEF ff, tt, lo, hi
    <3> QED BY <3>2, <1>1
  <2>3. LineAt(c, ka + n) = SubSeq(c, Len(a) + lo, Len(a) + hi) /\ LineAt(b, n) = SubSeq(b, lo, hi)
    <3>1. (Len(a) + ff) + 1 = Len(a) + lo /\ (Len(a) + tt) - 1 = Len(a) + hi
      <4>1. ff \in Nat /\ tt \in Nat /\ lo = ff + 1 /\ hi = tt - 1
        BY <2>0
      <4> HIDE DEF ff, tt, lo, hi
      <4> QED BY <4>1, <1>1
    <3> QED BY <3>1, <2>1 DEF LineAt
  <2> HIDE DEF lo, hi, ff, tt
  <2> DEFINE fc == Len(a) + lo
             tc == Len(a) + hi
  <2>4. /\ fc \in 1..(Len(c) + 1) /\ tc \in 0..Len(c) /\ (lo <= hi <=> fc <= tc)
        /\ tc - fc + 1 = hi - lo + 1
    BY <1>1, <2>2
  <2>7. \A i \in 1..(hi - lo + 1) : c[fc + i - 1] = b[lo + i - 1]
    <3> TAKE i \in 1..(hi - lo + 1)
    <3>1. /\ fc + i - 1 \in 1..(Len(a) + Len(b)) /\ ~(fc + i - 1 <= Len(a))
          /\ (fc + i - 1) - Len(a) = lo + i - 1
      BY <2>2, <1>1
    <3> QED BY <3>1, <1>2
  <2> HIDE DEF fc, tc
  <2>5. /\ SubSeq(c, fc, tc) \in Seq(S)
        /\ Len(SubSeq(c, fc, tc)) = IF fc <= tc THEN tc - fc + 1 ELSE 0
        /\ \A i \in 1..Len(SubSeq(c, fc, tc)) : SubSeq(c, fc, tc)[i] = c[fc + i - 1]
    BY <1>1, <2>4, PiecesOf
  <2>6. /\ SubSeq(b, lo, hi) \in Seq(S)
        /\ Len(SubSeq(b, lo, hi)) = IF lo <= hi THEN hi - lo + 1 ELSE 0
        /\ \A i \in 1..Len(SubSeq(b, lo, hi)) : SubSeq(b, lo, hi)[i] = b[lo + i - 1]
    BY <2>2, PiecesOf
  <2>8. Len(SubSeq(c, fc, tc)) = Len(SubSeq(b, lo, hi))
    BY <2>4, <2>5, <2>6
  <2>9. \A i \in 1..Len(SubSeq(c, fc, tc)) : SubSeq(c, fc, tc)[i] = SubSeq(b, lo, hi)[i]
    BY <2>2, <2>5, <2>6, <2>7, <2>8
  <2>10. SubSeq(c, fc, tc) = SubSeq(b, lo, hi)
    BY <2>5, <2>6, <2>8, <2>9, SeqEqual
  <2> QED BY <2>3, <2>10 DEF fc, tc
<1> DEFINE wa == WholeLines(a)
           wb == WholeLines(b)
           wc == WholeLines(c)
           w == wa \o wb
<1>11. /\ wa \in Seq(Seq(S)) /\ Len(wa) = ka /\ \A n \in 1..ka : wa[n] = LineAt(a, n)
       /\ wb \in Seq(Seq(S)) /\ Len(wb) = kb /\ \A n \in 1..kb : wb[n] = LineAt(b, n)
  BY LinesAre DEF ka, kb
<1>12. wc \in Seq(Seq(S)) /\ Len(wc) = ka + kb /\ \A n \in 1..(ka + kb) : wc[n] = LineAt(c, n)
  BY <1>1, <1>3, LinesAre
<1> HIDE DEF wa, wb, wc
<1>13. /\ w \in Seq(Seq(S)) /\ Len(w) = Len(wa) + Len(wb)
       /\ \A n \in 1..(Len(wa) + Len(wb)) : w[n] = IF n <= Len(wa) THEN wa[n] ELSE wb[n - Len(wa)]
  BY <1>11, ConcatProperties
<1> HIDE DEF w
<1>14. ASSUME NEW n \in 1..Len(wc) PROVE wc[n] = w[n]
  <2>1. CASE n <= ka
    <3>1. n \in 1..ka /\ n \in 1..(ka + kb)
      BY <2>1, <1>3, <1>12
    <3> QED BY <3>1, <2>1, <1>9, <1>11, <1>12, <1>13
  <2>2. CASE ~(n <= ka)
    <3>1. n - ka \in 1..kb /\ ka + (n - ka) = n /\ n \in 1..(ka + kb)
      BY <2>2, <1>3, <1>12
    <3>2. LineAt(c, n) = LineAt(b, n - ka)
      BY <3>1, <1>10
    <3> QED BY <3>1, <3>2, <2>2, <1>11, <1>12, <1>13
  <2> QED BY <2>1, <2>2
<1>15. Len(wc) = Len(w)
  BY <1>11, <1>12, <1>13
<1>16. wc = w
  BY <1>12, <1>13, <1>14, <1>15, SeqEqual
<1> QED BY <1>16 DEF wc, w, wa, wb, c

----------------------------------------------------------------------------
(* A reader that reads on, in two reads.                                   *)

\* Up to a line's end nothing is torn.
LEMMA WholeUpTo ==
  ASSUME NEW S, NEW x \in Seq(S), NEW i \in NewlinesIn(x) \cup {0}
  PROVE  /\ i \in 0..Len(x)
         /\ SubSeq(x, 1, i) \in Seq(S) /\ Len(SubSeq(x, 1, i)) = i
         /\ \A k \in 1..i : SubSeq(x, 1, i)[k] = x[k]
         /\ LastNewline(SubSeq(x, 1, i)) = i
<1> DEFINE a == SubSeq(x, 1, i)
<1>1. i \in 0..Len(x)
  BY NewlinesAreFinite
<1>2. a \in Seq(S) /\ Len(a) = i /\ \A k \in 1..i : a[k] = x[k]
  BY <1>1, PiecesOf
<1> HIDE DEF a
<1>3. LastNewline(a) \in 0..i /\ \A k \in NewlinesIn(a) : k <= LastNewline(a)
  BY <1>2, LastNewlineIs
<1>4. LastNewline(a) = i
  <2>1. CASE i = 0
    BY <1>3, <2>1
  <2>2. CASE i # 0
    <3>1. i \in 1..i /\ x[i] = NL
      BY <1>1, <2>2 DEF NewlinesIn
    <3>2. i \in NewlinesIn(a)
      BY <3>1, <1>2 DEF NewlinesIn
    <3>3. i <= LastNewline(a) /\ LastNewline(a) \in 0..i
      BY <3>2, <1>3
    <3> QED BY <3>3, <1>1
  <2> QED BY <2>1, <2>2
<1> QED BY <1>1, <1>2, <1>4 DEF a

\* The two reads of a reader at p, the first of which took h.
TwoReads(x, place, h) == h \o SubSeq(x, (place + Len(h)) + 1, Len(x))

\* What a reader takes in two reads: its new place is a boundary, and unless the reads
\* did not belong together, the lines up to it are those it had and those it takes.
LEMMA ReadOn ==
  ASSUME NEW S, NEW x \in Seq(S), NEW place \in NewlinesIn(x) \cup {0}, NEW h \in Seq(S),
         \A i \in NewlinesIn(h) : place + i \in NewlinesIn(x)
  PROVE  LET b == TwoReads(x, place, h)
         IN  /\ place + LastNewline(b) \in NewlinesIn(x) \cup {0}
             /\ IsPrefix(SubSeq(b, 1, LastNewline(b)), SubSeq(x, place + 1, Len(x)))
                  => WholeLines(SubSeq(x, 1, place + LastNewline(b)))
                       = WholeLines(SubSeq(x, 1, place)) \o WholeLines(b)
<1> DEFINE b == TwoReads(x, place, h)
           from == place + Len(h)
           tail == SubSeq(x, from + 1, Len(x))
           n == LastNewline(b)
<1>0. Len(x) \in Nat /\ Len(h) \in Nat /\ place \in 0..Len(x)
  BY WholeUpTo
<1>1. /\ tail \in Seq(S) /\ Len(tail) \in Nat /\ (Len(tail) > 0 => Len(tail) = Len(x) - from)
      /\ \A i \in 1..Len(tail) : tail[i] = x[from + i]
  <2>1. from + 1 \in Int /\ Len(x) \in Int /\ \A i \in (from + 1)..Len(x) : x[i] \in S
    BY <1>0
  <2>2. /\ tail \in Seq(S)
        /\ Len(tail) = IF from + 1 <= Len(x) THEN Len(x) - (from + 1) + 1 ELSE 0
        /\ \A i \in 1..(Len(x) - (from + 1) + 1) : tail[i] = x[(from + 1) + i - 1]
    BY <2>1, SubSeqProperties
  <2>3. from \in Nat
    BY <1>0
  <2> HIDE DEF tail, from
  <2>4. Len(tail) \in Nat /\ (Len(tail) > 0 => Len(tail) = Len(x) - from)
    BY <1>0, <2>2, <2>3
  <2>5. ASSUME NEW i \in 1..Len(tail) PROVE tail[i] = x[from + i]
    <3>1. i \in 1..(Len(x) - (from + 1) + 1) /\ (from + 1) + i - 1 = from + i
      BY <1>0, <2>2, <2>3
    <3> QED BY <3>1, <2>2
  <2> QED BY <2>2, <2>4, <2>5
<1>2. /\ b \in Seq(S) /\ Len(b) = Len(h) + Len(tail)
      /\ \A i \in 1..(Len(h) + Len(tail)) : b[i] = IF i <= Len(h) THEN h[i] ELSE tail[i - Len(h)]
  <2>1. b = h \o tail
    BY DEF TwoReads
  <2> HIDE DEF tail, b
  <2>2. tail \in Seq(S)
    BY <1>1
  <2> QED BY <2>1, <2>2, ConcatProperties
<1>3. n \in NewlinesIn(b) \cup {0} /\ n \in 0..Len(b)
  BY <1>2, LastNewlineIs
<1> HIDE DEF n, b
<1>4. ASSUME NEW i \in NewlinesIn(b) PROVE place + i \in NewlinesIn(x)
  <2>1. i \in 1..(Len(h) + Len(tail)) /\ b[i] = NL
    BY <1>2 DEF NewlinesIn
  <2>2. CASE i <= Len(h)
    <3>1. i \in 1..Len(h) /\ h[i] = NL
      BY <2>1, <2>2, <1>0, <1>2
    <3>2. i \in NewlinesIn(h)
      BY <3>1 DEF NewlinesIn
    <3> QED BY <3>2
  <2>3. CASE ~(i <= Len(h))
    <3>1. i - Len(h) \in 1..Len(tail) /\ tail[i - Len(h)] = NL
      <4> HIDE DEF tail
      <4> QED BY <2>1, <2>3, <1>0, <1>1, <1>2
    <3>2. Len(tail) = Len(x) - from /\ x[from + (i - Len(h))] = NL
      <4> HIDE DEF tail, from
      <4> QED BY <3>1, <1>1
    <3>3. from + (i - Len(h)) = place + i /\ place + i \in 1..Len(x)
      <4> DEFINE lt == Len(tail)
      <4>1. i - Len(h) \in 1..lt /\ lt = Len(x) - (place + Len(h))
        BY <3>1, <3>2
      <4>2. i \in Nat
        BY <2>1
      <4> HIDE DEF lt
      <4> QED BY <4>1, <4>2, <1>0
    <3> QED BY <3>2, <3>3 DEF NewlinesIn
  <2> QED BY <2>2, <2>3
<1>5. place + n \in NewlinesIn(x) \cup {0} /\ n \in Nat
  <2>1. n \in Nat
    BY <1>2, <1>3
  <2>2. CASE n = 0
    <3>1. place + n = place
      BY <2>2, <1>0
    <3> QED BY <3>1, <2>1
  <2>3. CASE n # 0
    <3>1. n \in NewlinesIn(b)
      BY <2>3, <1>3
    <3> QED BY <3>1, <2>1, <1>4
  <2> QED BY <2>2, <2>3
<1>6. ASSUME IsPrefix(SubSeq(b, 1, n), SubSeq(x, place + 1, Len(x)))
      PROVE  WholeLines(SubSeq(x, 1, place + n)) = WholeLines(SubSeq(x, 1, place)) \o WholeLines(b)
  <2> DEFINE a == SubSeq(x, 1, place)
             m == SubSeq(b, 1, n)
             g == SubSeq(x, place + 1, Len(x))
             whole == SubSeq(x, 1, place + n)
  <2>1. /\ a \in Seq(S) /\ Len(a) = place /\ LastNewline(a) = Len(a)
        /\ \A k \in 1..place : a[k] = x[k]
    BY WholeUpTo
  <2>2. m \in Seq(S) /\ Len(m) = n /\ WholeLines(m) = WholeLines(b)
    BY <1>2, HealedLines DEF Mended, n
  <2>3. /\ whole \in Seq(S) /\ Len(whole) = place + n /\ place + n \in 0..Len(x)
        /\ \A k \in 1..(place + n) : whole[k] = x[k]
    BY <1>5, WholeUpTo
  <2>4. g \in Seq(S) /\ Len(g) = Len(x) - place /\ \A i \in 1..(Len(x) - place) : g[i] = x[place + i]
    <3>1. place + 1 \in 1..(Len(x) + 1) /\ Len(x) \in 0..Len(x)
      BY <1>0
    <3>2. /\ g \in Seq(S) /\ Len(g) = IF place + 1 <= Len(x) THEN Len(x) - (place + 1) + 1 ELSE 0
          /\ \A i \in 1..Len(g) : g[i] = x[(place + 1) + i - 1]
      BY <3>1, PiecesOf
    <3> HIDE DEF g
    <3>3. Len(g) = Len(x) - place
      BY <3>2, <1>0
    <3>4. ASSUME NEW i \in 1..(Len(x) - place) PROVE g[i] = x[place + i]
      <4>1. (place + 1) + i - 1 = place + i /\ i \in 1..Len(g)
        BY <1>0, <3>3
      <4> QED BY <4>1, <3>2
    <3> QED BY <3>2, <3>3, <3>4
  <2>5. Len(m) <= Len(g) /\ SubSeq(m, 1, Len(m)) = SubSeq(g, 1, Len(m))
    BY <1>6 DEF IsPrefix
  <2> HIDE DEF a, m, g, whole
  <2>6. ASSUME NEW i \in 1..n PROVE m[i] = x[place + i]
    <3>1. SubSeq(m, 1, Len(m))[i] = m[i]
      <4>1. SubSeq(m, 1, Len(m)) = m
        BY <2>2, SubSeqFull
      <4> QED BY <4>1
    <3>2. n \in 0..Len(g) /\ 1 \in 1..(Len(g) + 1)
      BY <1>0, <1>5, <2>2, <2>4, <2>5
    <3>3. /\ Len(SubSeq(g, 1, n)) = IF 1 <= n THEN n - 1 + 1 ELSE 0
          /\ \A k \in 1..Len(SubSeq(g, 1, n)) : SubSeq(g, 1, n)[k] = g[1 + k - 1]
      BY <3>2, <2>4, PiecesOf
    <3>4. i \in 1..Len(SubSeq(g, 1, n)) /\ 1 + i - 1 = i
      BY <3>3, <1>5
    <3>5. SubSeq(g, 1, n)[i] = g[i]
      BY <3>3, <3>4
    <3>6. i \in 1..(Len(x) - place)
      BY <3>2, <2>4, <1>0
    <3>7. g[i] = x[place + i]
      BY <3>6, <2>4
    <3> QED BY <3>1, <3>5, <3>7, <2>2, <2>5
  <2> DEFINE am == a \o m
  <2>7. /\ am \in Seq(S) /\ Len(am) = place + n
        /\ \A i \in 1..(place + n) : am[i] = IF i <= place THEN a[i] ELSE m[i - place]
    <3>1. am \in Seq(S) /\ Len(am) = Len(a) + Len(m)
          /\ \A i \in 1..(Len(a) + Len(m)) : am[i] = IF i <= Len(a) THEN a[i] ELSE m[i - Len(a)]
      BY <2>1, <2>2, ConcatProperties
    <3> HIDE DEF am
    <3>2. Len(a) = place /\ Len(m) = n
      BY <2>1, <2>2
    <3> QED BY <3>1, <3>2
  <2> HIDE DEF am
  <2>8. ASSUME NEW i \in 1..Len(am) PROVE am[i] = whole[i]
    <3>0. i \in 1..(place + n)
      BY <2>7
    <3>1. CASE i <= place
      <4>1. i \in 1..place
        BY <3>0, <3>1, <1>0
      <4> QED BY <4>1, <3>0, <3>1, <2>1, <2>3, <2>7
    <3>2. CASE ~(i <= place)
      <4>1. i - place \in 1..n /\ place + (i - place) = i
        BY <3>0, <3>2, <1>0, <1>5
      <4>2. m[i - place] = x[i]
        BY <4>1, <2>6
      <4> QED BY <4>2, <3>0, <3>2, <2>3, <2>7
    <3> QED BY <3>1, <3>2
  <2>9. am = whole
    <3>1. Len(am) = Len(whole)
      BY <2>3, <2>7
    <3> QED BY <3>1, <2>3, <2>7, <2>8, SeqEqual
  <2>10. WholeLines(am) = WholeLines(a) \o WholeLines(m)
    BY <2>1, <2>2, LinesOfJoined DEF am
  <2> QED BY <2>2, <2>9, <2>10 DEF whole, a
<1> QED BY <1>5, <1>6 DEF n, b

----------------------------------------------------------------------------
(* What the variables hold. *)

Envelopes == [by : Writers \cup {"nobody"}, ts : Nat, seq : Nat]
Pieces == {NL} \cup {Half(e) : e \in Envelopes} \cup {Rest(e) : e \in Envelopes}

StreamTypeOK ==
  /\ sink \in {"single", "shared"} /\ file \in Seq(Pieces) /\ {counter, clock} \subseteq Nat
  /\ emitter \in [Writers -> {"idle", "stamped", "numbered", "writing", "written", "dead"}]
  /\ envelope \in [Writers -> Envelopes]
  /\ position \in [Readers -> Nat] /\ head \in [Readers -> Seq(Pieces) \cup {Unread}]
  /\ spliced \in [Readers -> BOOLEAN] /\ readings \in [Readers -> Seq(Seq(Pieces))]

\* An envelope's pieces are told apart from the end of a line, and from another's.
LEMMA PiecesDiffer ==
  ASSUME NEW e \in Envelopes
  PROVE  /\ {NL, Half(e), Rest(e)} \subseteq Pieces
         /\ Half(e) # NL /\ Rest(e) # NL /\ Half(e) # Rest(e)
         /\ Half(e).of = e
<1>1. {NL, Half(e), Rest(e)} \subseteq Pieces
  BY DEF Pieces
<1>2. Half(e).is = "first half" /\ Rest(e).is = "second half" /\ NL.is = "newline" /\ Half(e).of = e
  BY DEF Half, Rest, NL
<1>3. Half(e) # NL /\ Rest(e) # NL /\ Half(e) # Rest(e)
  BY <1>2
<1> QED BY <1>1, <1>2, <1>3

\* What finishes a line is put after what is there.
LEMMA FinishedIs ==
  ASSUME StreamTypeOK, NEW w \in Writers
  PROVE  \E more \in Seq(Pieces) : Finished(w) = file \o more
<1>1. envelope[w] \in Envelopes /\ file \in Seq(Pieces)
  BY DEF StreamTypeOK
<1>2. NL \in Pieces /\ Rest(envelope[w]) \in Pieces
  BY <1>1, PiecesDiffer
<1>3. <<NL>> \in Seq(Pieces) /\ <<Rest(envelope[w]), NL>> \in Seq(Pieces)
  BY <1>2
<1>4. Append(file, NL) = file \o <<NL>>
  BY <1>1, <1>2, AppendIsConcat
<1> QED BY <1>3, <1>4 DEF Finished

\* A file is healed up to its last newline, or written on.
FileGoesOn == \/ file' = file \/ file' = Mended(file)
              \/ \E more \in Seq(Pieces) : file' = file \o more

LEMMA FilesGoOn == StreamTypeOK /\ [StreamNext]_streamVars => FileGoesOn
<1> SUFFICES ASSUME StreamTypeOK, [StreamNext]_streamVars PROVE FileGoesOn
  OBVIOUS
<1>1. CASE UNCHANGED file
  BY <1>1 DEF FileGoesOn
<1>2. ASSUME NEW w \in Writers, Turn(w) PROVE FileGoesOn
  BY <1>2 DEF Turn, FileGoesOn
<1>3. ASSUME NEW w \in Writers, WriteSome(w) PROVE FileGoesOn
  <2>1. envelope[w] \in Envelopes
    BY DEF StreamTypeOK
  <2>2. Half(envelope[w]) \in Pieces /\ Rest(envelope[w]) \in Pieces
    BY <2>1, PiecesDiffer
  <2>3. {<<Half(envelope[w])>>, <<Half(envelope[w]), Rest(envelope[w])>>} \subseteq Seq(Pieces)
    BY <2>2
  <2>4. \E some \in {<<Half(envelope[w])>>, <<Half(envelope[w]), Rest(envelope[w])>>} :
          file' = file \o some
    BY <1>3 DEF WriteSome
  <2> QED BY <2>3, <2>4 DEF FileGoesOn
<1>4. ASSUME NEW w \in Writers, file' = Finished(w) PROVE FileGoesOn
  BY <1>4, FinishedIs DEF FileGoesOn
<1>5. ASSUME NEW w \in Writers, WriteRest(w) \/ WriteBreaks(w) PROVE FileGoesOn
  <2>1. file' = Finished(w) \/ UNCHANGED file
    BY <1>5 DEF WriteRest, WriteBreaks
  <2> QED BY <2>1, <1>1, <1>4
<1>6. ASSUME NEW w \in Writers, Stamp(w) \/ Number(w) \/ TakeSink(w) \/ NoTurn(w) \/ Dies(w)
      PROVE  FileGoesOn
  <2>1. UNCHANGED file
    BY <1>6 DEF Stamp, Number, TakeSink, NoTurn, Dies, written
  <2> QED BY <2>1, <1>1
<1>7. ASSUME NEW r \in Readers, ReadsHead(r) \/ ReadsRest(r) PROVE FileGoesOn
  <2>1. UNCHANGED file
    BY <1>7 DEF ReadsHead, ReadsRest, written
  <2> QED BY <2>1, <1>1
<1>8. CASE UNCHANGED streamVars
  BY <1>8, <1>1 DEF streamVars
<1>9. CASE StreamNext
  BY <1>9, <1>2, <1>3, <1>5, <1>6, <1>7 DEF StreamNext
<1> QED BY <1>8, <1>9

\* What was a whole line stays one, with all there is before it.
LEMMA LinesStay ==
  ASSUME StreamTypeOK, FileGoesOn, NEW i \in NewlinesIn(file) \cup {0}
  PROVE  /\ file' \in Seq(Pieces)
         /\ i \in NewlinesIn(file') \cup {0}
         /\ SubSeq(file', 1, i) = SubSeq(file, 1, i)
<1>0. file \in Seq(Pieces) /\ Len(file) \in Nat /\ i \in 0..Len(file)
  BY WholeUpTo DEF StreamTypeOK
<1>1. CASE file' = file
  BY <1>0, <1>1
<1>2. ASSUME NEW y \in Seq(Pieces), file' = y, i <= Len(y), \A k \in 1..i : y[k] = file[k]
      PROVE  /\ file' \in Seq(Pieces)
             /\ i \in NewlinesIn(file') \cup {0}
             /\ SubSeq(file', 1, i) = SubSeq(file, 1, i)
  <2>1. i \in NewlinesIn(y) \cup {0}
    <3>1. CASE i = 0
      BY <3>1
    <3>2. CASE i # 0
      <4>1. i \in 1..i /\ i \in 1..Len(y) /\ i \in NewlinesIn(file)
        BY <3>2, <1>0, <1>2
      <4>2. y[i] = file[i] /\ file[i] = NL
        BY <4>1, <1>2 DEF NewlinesIn
      <4> QED BY <4>1, <4>2 DEF NewlinesIn
    <3> QED BY <3>1, <3>2
  <2>2. /\ SubSeq(y, 1, i) \in Seq(Pieces) /\ Len(SubSeq(y, 1, i)) = i
        /\ \A k \in 1..i : SubSeq(y, 1, i)[k] = y[k]
    BY <2>1, WholeUpTo
  <2>3. /\ SubSeq(file, 1, i) \in Seq(Pieces) /\ Len(SubSeq(file, 1, i)) = i
        /\ \A k \in 1..i : SubSeq(file, 1, i)[k] = file[k]
    BY <1>0, WholeUpTo
  <2>4. SubSeq(y, 1, i) = SubSeq(file, 1, i)
    BY <2>2, <2>3, <1>2, SeqEqual
  <2> QED BY <2>1, <2>4, <1>2
<1>3. CASE file' = Mended(file)
  <2> DEFINE y == Mended(file)
  <2>1. /\ y \in Seq(Pieces) /\ Len(y) = LastNewline(file)
        /\ \A k \in 1..LastNewline(file) : y[k] = file[k]
    BY <1>0, HealedLines
  <2>2. i <= LastNewline(file) /\ LastNewline(file) \in Nat
    BY <1>0, LastNewlineIs
  <2> HIDE DEF y
  <2>3. \A k \in 1..i : y[k] = file[k]
    BY <2>1, <2>2, <1>0
  <2>4. file' = y
    BY <1>3 DEF y
  <2> QED BY <2>1, <2>2, <2>3, <2>4, <1>2
<1>4. ASSUME NEW more \in Seq(Pieces), file' = file \o more
      PROVE  /\ file' \in Seq(Pieces)
             /\ i \in NewlinesIn(file') \cup {0}
             /\ SubSeq(file', 1, i) = SubSeq(file, 1, i)
  <2> DEFINE y == file \o more
  <2>1. /\ y \in Seq(Pieces) /\ Len(y) = Len(file) + Len(more)
        /\ \A k \in 1..(Len(file) + Len(more)) :
             y[k] = IF k <= Len(file) THEN file[k] ELSE more[k - Len(file)]
    BY <1>0, ConcatProperties
  <2>2. Len(more) \in Nat /\ file' = y
    BY <1>4
  <2> HIDE DEF y
  <2>3. i <= Len(y) /\ \A k \in 1..i : y[k] = file[k]
    BY <1>0, <2>1, <2>2
  <2> QED BY <2>1, <2>2, <2>3, <1>2
<1> QED BY <1>1, <1>3, <1>4 DEF FileGoesOn

\* Every reachable state of a stream is well typed: its file holds halves of envelopes and
\* newlines, and a reader has read lines of such pieces (`emit`, `recorded`, `read_lines`).
THEOREM StreamTypeCorrect == StreamSpec => []StreamTypeOK
<1>1. StreamInit => StreamTypeOK
  <2> SUFFICES ASSUME StreamInit PROVE StreamTypeOK
    OBVIOUS
  <2>1. NoEnvelope \in Envelopes
    BY DEF NoEnvelope, Envelopes
  <2>2. <<>> \in Seq(Pieces) /\ <<>> \in Seq(Seq(Pieces))
    OBVIOUS
  <2> QED BY <2>1, <2>2, StreamAssumption DEF StreamInit, StreamTypeOK
<1>2. StreamTypeOK /\ [StreamNext]_streamVars => StreamTypeOK'
  <2> SUFFICES ASSUME StreamTypeOK, [StreamNext]_streamVars PROVE StreamTypeOK'
    OBVIOUS
  <2>0. file' \in Seq(Pieces)
    <3>1. FileGoesOn
      BY FilesGoOn
    <3> QED BY <3>1, LinesStay
  <2>1. ASSUME NEW w \in Writers, Stamp(w) PROVE StreamTypeOK'
    <3>1. [by |-> w, ts |-> clock + 1, seq |-> 0] \in Envelopes
      BY DEF Envelopes, StreamTypeOK
    <3> QED BY <2>1, <3>1 DEF Stamp, EmitterAt, StreamTypeOK, written, reading
  <2>2. ASSUME NEW w \in Writers, NEW n \in Nat,
               envelope' = [envelope EXCEPT ![w].seq = n]
        PROVE  envelope' \in [Writers -> Envelopes]
    <3>1. [envelope[w] EXCEPT !.seq = n] \in Envelopes
      BY DEF Envelopes, StreamTypeOK
    <3> QED BY <2>2, <3>1 DEF StreamTypeOK
  <2>3. ASSUME NEW w \in Writers, Number(w) PROVE StreamTypeOK'
    <3>1. counter \in Nat /\ counter + 1 \in Nat
      BY DEF StreamTypeOK
    <3>2. /\ counter' \in {counter, counter + 1}
          /\ envelope' = [envelope EXCEPT ![w].seq = counter + 1]
      BY <2>3 DEF Number
    <3>3. envelope' \in [Writers -> Envelopes]
      BY <2>2, <3>1, <3>2
    <3>4. counter' \in Nat
      BY <3>1, <3>2
    <3> QED BY <2>3, <3>3, <3>4 DEF Number, EmitterAt, StreamTypeOK, written, reading
  <2>4. ASSUME NEW w \in Writers, Turn(w) PROVE StreamTypeOK'
    <3>1. Cardinality(NewlinesIn(file)) + 1 \in Nat
      BY NewlinesAreFinite DEF StreamTypeOK
    <3>2. envelope' \in [Writers -> Envelopes]
      BY <2>2, <2>4, <3>1 DEF Turn
    <3> QED BY <2>0, <2>4, <3>2 DEF Turn, EmitterAt, StreamTypeOK, reading
  <2>5. ASSUME NEW w \in Writers, TakeSink(w) \/ NoTurn(w) \/ Dies(w) PROVE StreamTypeOK'
    BY <2>5 DEF TakeSink, NoTurn, Dies, EmitterAt, StreamTypeOK, written, reading
  <2>6. ASSUME NEW w \in Writers, WriteSome(w) \/ WriteRest(w) \/ WriteBreaks(w)
        PROVE  StreamTypeOK'
    BY <2>0, <2>6 DEF WriteSome, WriteRest, WriteBreaks, EmitterAt, StreamTypeOK, reading
  <2>7. ASSUME NEW r \in Readers, ReadsHead(r) PROVE StreamTypeOK'
    <3>1. position[r] \in NewlinesIn(file) \cup {0} /\ file \in Seq(Pieces)
      BY <2>7 DEF ReadsHead, IsRecordBoundary, StreamTypeOK
    <3>2. position[r] + 1 \in 1..(Len(file) + 1) /\ Len(file) \in 0..Len(file)
      BY <3>1, WholeUpTo
    <3>3. SubSeq(file, position[r] + 1, Len(file)) \in Seq(Pieces)
      BY <3>1, <3>2, PiecesOf
    <3> QED BY <2>7, <3>3 DEF ReadsHead, StreamTypeOK, written
  <2>8. ASSUME NEW r \in Readers, ReadsRest(r) PROVE StreamTypeOK'
    <3> DEFINE from == position[r] + Len(head[r])
               rest == SubSeq(file, from + 1, Len(file))
               bytes == head[r] \o rest
    <3>1. head[r] \in Seq(Pieces) /\ file \in Seq(Pieces) /\ position[r] \in Nat
      BY <2>8 DEF ReadsRest, StreamTypeOK
    <3>2. rest \in Seq(Pieces)
      <4>1. from + 1 \in Int /\ Len(file) \in Int /\ \A i \in (from + 1)..Len(file) : file[i] \in Pieces
        BY <3>1
      <4> QED BY <4>1, SubSeqProperties
    <3>3. bytes \in Seq(Pieces)
      BY <3>1, <3>2, ConcatProperties
    <3>4. /\ head' = [head EXCEPT ![r] = Unread]
          /\ readings' = [readings EXCEPT ![r] = @ \o WholeLines(bytes)]
          /\ position' = [position EXCEPT ![r] = @ + LastNewline(bytes)]
          /\ spliced' = [spliced EXCEPT ![r] =
               @ \/ ~IsPrefix(SubSeq(bytes, 1, LastNewline(bytes)),
                              SubSeq(file, position[r] + 1, Len(file)))]
          /\ UNCHANGED <<sink, file, counter, clock, emitter, envelope>>
      BY <2>8 DEF ReadsRest, Resume, written
    <3> HIDE DEF bytes
    <3>5. LastNewline(bytes) \in Nat /\ WholeLines(bytes) \in Seq(Seq(Pieces))
      BY <3>3, LastNewlineIs, LinesAre
    <3>6. position' \in [Readers -> Nat]
      BY <3>4, <3>5 DEF StreamTypeOK
    <3>7. readings' \in [Readers -> Seq(Seq(Pieces))]
      <4>1. readings[r] \in Seq(Seq(Pieces))
        BY DEF StreamTypeOK
      <4>2. readings[r] \o WholeLines(bytes) \in Seq(Seq(Pieces))
        BY <4>1, <3>5, ConcatProperties
      <4> QED BY <3>4, <4>2 DEF StreamTypeOK
    <3>8. spliced' \in [Readers -> BOOLEAN]
      BY <3>4 DEF StreamTypeOK
    <3>9. head' \in [Readers -> Seq(Pieces) \cup {Unread}]
      BY <3>4 DEF StreamTypeOK
    <3> QED BY <3>4, <3>6, <3>7, <3>8, <3>9 DEF StreamTypeOK
  <2>9. CASE UNCHANGED streamVars
    BY <2>9 DEF streamVars, StreamTypeOK
  <2> QED BY <2>1, <2>3, <2>4, <2>5, <2>6, <2>7, <2>8, <2>9 DEF StreamNext
<1> QED BY <1>1, <1>2, PTL DEF StreamSpec

----------------------------------------------------------------------------
(* Resuming. *)

\* Where a reader is: on a boundary, with a first read whose newlines are the file's, and
\* unless two reads did not belong together, with the lines up to its position.
Tiles(r) ==
  /\ position[r] \in NewlinesIn(file) \cup {0}
  /\ head[r] # Unread => \A i \in NewlinesIn(head[r]) : position[r] + i \in NewlinesIn(file)
  /\ spliced[r] \/ readings[r] = WholeLines(SubSeq(file, 1, position[r]))

\* Whatever becomes of the file, a reader that does not move stays so.
LEMMA TilesStay ==
  ASSUME StreamTypeOK, FileGoesOn, NEW r \in Readers, Tiles(r),
         position'[r] = position[r], head'[r] = head[r], spliced'[r] = spliced[r],
         readings'[r] = readings[r]
  PROVE  Tiles(r)'
<1>1. /\ position[r] \in NewlinesIn(file') \cup {0}
      /\ SubSeq(file', 1, position[r]) = SubSeq(file, 1, position[r])
  BY LinesStay DEF Tiles
<1>2. ASSUME head[r] # Unread, NEW i \in NewlinesIn(head[r])
      PROVE  position[r] + i \in NewlinesIn(file')
  <2>1. position[r] + i \in NewlinesIn(file)
    BY <1>2 DEF Tiles
  <2>2. head[r] \in Seq(Pieces) /\ position[r] \in Nat
    BY <1>2 DEF StreamTypeOK
  <2>3. i \in Nat \ {0}
    BY <2>2, NewlinesAreFinite
  <2>4. position[r] + i # 0
    BY <2>2, <2>3
  <2> QED BY <2>1, <2>4, LinesStay
<1> QED BY <1>1, <1>2 DEF Tiles

\* A reader that resumes has each whole line of the file up to its position once, in order,
\* for any number of writers that fail or die half way and any number of readers
\* (`read_lines`, `open_at`), as long as no healed tail was spliced into its reads.
THEOREM ResumedAlwaysTile == StreamSpec => []ResumedReadsTile
<1> DEFINE Inv == \A r \in Readers : Tiles(r)
<1>1. StreamInit => Inv
  <2> SUFFICES ASSUME StreamInit, NEW r \in Readers PROVE Tiles(r)
    OBVIOUS
  <2>1. /\ file = <<>> /\ position[r] = 0 /\ readings[r] = <<>> /\ head[r] = Unread
    BY DEF StreamInit
  <2>2. WholeLines(SubSeq(file, 1, 0)) = <<>>
    <3>1. file \in Seq(Pieces) /\ 0 \in NewlinesIn(file) \cup {0}
      BY <2>1
    <3>2. SubSeq(file, 1, 0) \in Seq(Pieces) /\ Len(SubSeq(file, 1, 0)) = 0
      BY <3>1, WholeUpTo
    <3>3. NewlinesIn(SubSeq(file, 1, 0)) = {}
      BY <3>2 DEF NewlinesIn
    <3>4. Len(WholeLines(SubSeq(file, 1, 0))) = 0 /\ WholeLines(SubSeq(file, 1, 0)) \in Seq(Seq(Pieces))
      BY <3>2, <3>3, LinesAre, FS_EmptySet
    <3> QED BY <3>4, EmptySeq
  <2> QED BY <2>1, <2>2 DEF Tiles
<1>2. StreamTypeOK /\ Inv /\ [StreamNext]_streamVars => Inv'
  <2> SUFFICES ASSUME StreamTypeOK, Inv, [StreamNext]_streamVars, NEW r \in Readers
               PROVE  Tiles(r)'
    OBVIOUS
  <2>0. Tiles(r) /\ FileGoesOn
    BY FilesGoOn
  <2>1. CASE UNCHANGED <<position, head, spliced, readings>>
    BY <2>0, <2>1, TilesStay
  <2>2. ASSUME NEW s \in Readers, s # r, ReadsHead(s) \/ ReadsRest(s) PROVE Tiles(r)'
    <3>1. /\ position'[r] = position[r] /\ head'[r] = head[r] /\ spliced'[r] = spliced[r]
          /\ readings'[r] = readings[r]
      BY <2>2 DEF ReadsHead, ReadsRest, StreamTypeOK
    <3> QED BY <2>0, <3>1, TilesStay
  <2>3. CASE ReadsHead(r)
    <3> DEFINE place == position[r]
               h == SubSeq(file, place + 1, Len(file))
    <3>0. place \in NewlinesIn(file) \cup {0} /\ file \in Seq(Pieces)
      BY <2>0 DEF Tiles, StreamTypeOK
    <3>1. /\ head'[r] = h /\ UNCHANGED <<file, position, spliced, readings>>
      BY <2>3 DEF ReadsHead, StreamTypeOK, written
    <3>2. place + 1 \in 1..(Len(file) + 1) /\ Len(file) \in 0..Len(file) /\ place \in Nat
      BY <3>0, WholeUpTo
    <3>3. /\ h \in Seq(Pieces)
          /\ Len(h) = IF place + 1 <= Len(file) THEN Len(file) - (place + 1) + 1 ELSE 0
          /\ \A i \in 1..Len(h) : h[i] = file[(place + 1) + i - 1]
      BY <3>0, <3>2, PiecesOf
    <3>4. ASSUME NEW i \in NewlinesIn(h) PROVE place + i \in NewlinesIn(file)
      <4> HIDE DEF h, place
      <4>1. i \in 1..Len(h) /\ h[i] = NL
        BY DEF NewlinesIn
      <4>2. Len(file) \in Nat
        BY <3>0
      <4>3. (place + 1) + i - 1 = place + i /\ place + i \in 1..Len(file)
        BY <3>2, <3>3, <4>1, <4>2
      <4>4. file[place + i] = NL
        BY <3>3, <4>1, <4>3
      <4> QED BY <4>3, <4>4 DEF NewlinesIn
    <3> QED BY <2>0, <3>1, <3>4 DEF Tiles
  <2>4. CASE ReadsRest(r)
    <3> DEFINE place == position[r]
               h == head[r]
               b == h \o SubSeq(file, (place + Len(h)) + 1, Len(file))
    <3>1. /\ h \in Seq(Pieces) /\ file \in Seq(Pieces) /\ place \in NewlinesIn(file) \cup {0}
          /\ \A i \in NewlinesIn(h) : place + i \in NewlinesIn(file)
      BY <2>0, <2>4 DEF ReadsRest, StreamTypeOK, Tiles
    <3>2. /\ head'[r] = Unread /\ file' = file
          /\ readings'[r] = readings[r] \o WholeLines(b)
          /\ position'[r] = place + LastNewline(b)
          /\ spliced'[r] = (spliced[r] \/ ~IsPrefix(SubSeq(b, 1, LastNewline(b)),
                                                    SubSeq(file, place + 1, Len(file))))
      BY <2>4 DEF ReadsRest, Resume, StreamTypeOK, written
    <3> HIDE DEF b
    <3>3. /\ place + LastNewline(b) \in NewlinesIn(file) \cup {0}
          /\ IsPrefix(SubSeq(b, 1, LastNewline(b)), SubSeq(file, place + 1, Len(file)))
               => WholeLines(SubSeq(file, 1, place + LastNewline(b)))
                    = WholeLines(SubSeq(file, 1, place)) \o WholeLines(b)
      <4>1. b = TwoReads(file, place, h)
        BY DEF b, TwoReads
      <4> HIDE DEF place, h
      <4> QED BY <3>1, <4>1, ReadOn, Zenon
    <3>4. spliced'[r] \/ readings'[r] = WholeLines(SubSeq(file, 1, position'[r]))
      BY <2>0, <3>2, <3>3 DEF Tiles
    <3> QED BY <3>2, <3>3, <3>4 DEF Tiles
  <2>5. ASSUME NEW w \in Writers, \/ Stamp(w) \/ Number(w) \/ TakeSink(w) \/ Turn(w) \/ NoTurn(w)
                                  \/ WriteSome(w) \/ WriteRest(w) \/ WriteBreaks(w) \/ Dies(w)
        PROVE  UNCHANGED <<position, head, spliced, readings>>
    BY <2>5 DEF Stamp, Number, TakeSink, Turn, NoTurn, WriteSome, WriteRest, WriteBreaks, Dies,
                reading
  <2>6. CASE UNCHANGED streamVars
    BY <2>6, <2>1 DEF streamVars
  <2>7. CASE StreamNext
    BY <2>1, <2>2, <2>3, <2>4, <2>5, <2>7 DEF StreamNext
  <2> QED BY <2>6, <2>7
<1>3. Inv => ResumedReadsTile
  BY DEF ResumedReadsTile, Tiles, IsRecordBoundary
<1> QED BY <1>1, <1>2, <1>3, StreamTypeCorrect, PTL DEF StreamSpec

----------------------------------------------------------------------------
(* A file that stays whole. *)

\* The pieces of an envelope's line.
LineOf(e) == <<Half(e), Rest(e)>>

\* A write that failed half way spoils a single emitter's file; a shared one is healed.
Unspoiled == sink = "shared" \/ ~spoiled

NothingTorn == LastNewline(file) = Len(file)

\* The whole lines are envelopes, numbered from 1 in a shared file, and those
\* acknowledged are among them.
LinesAreEnvelopes ==
  /\ \A n \in 1..Len(WholeLines(file)) :
       \E e \in Envelopes : WholeLines(file)[n] = LineOf(e) /\ (sink = "shared" => e.seq = n)
  /\ \A e \in acknowledged :
       e \in Envelopes /\ \E n \in 1..Len(WholeLines(file)) : WholeLines(file)[n] = LineOf(e)

\* The one that writes holds the sink, has the next number of a shared file, and what is
\* torn is its own line's beginning.
Writes(w) ==
  /\ emitter[w] \in {"writing", "written"} =>
       /\ sinkLock = w
       /\ sink = "shared" => envelope[w].seq = Cardinality(NewlinesIn(file)) + 1
  /\ Unspoiled /\ emitter[w] = "writing" => NothingTorn
  /\ Unspoiled /\ emitter[w] = "written" =>
       \E torn \in {<<Half(envelope[w])>>, LineOf(envelope[w])} : file = Mended(file) \o torn

\* Nothing else is ever torn in a single emitter's file.
BetweenWrites == sink = "single" /\ ~spoiled /\ sinkLock = "free" => NothingTorn

IntactInv ==
  /\ Unspoiled => LinesAreEnvelopes
  /\ \A w \in Writers : Writes(w)
  /\ BetweenWrites

\* An envelope's halves hold no newline, so what is torn is no line yet.
LEMMA HalvesAreNoLine ==
  ASSUME NEW e \in Envelopes, NEW tail \in {<<Half(e)>>, LineOf(e)}
  PROVE  tail \in Seq(Pieces) /\ NewlinesIn(tail) = {} /\ WholeLines(tail) = <<>> /\ Len(tail) > 0
<1>1. Half(e) \in Pieces /\ Rest(e) \in Pieces /\ Half(e) # NL /\ Rest(e) # NL
  BY PiecesDiffer
<1>2. tail \in Seq(Pieces) /\ Len(tail) > 0 /\ \A i \in 1..Len(tail) : tail[i] # NL
  <2>1. CASE tail = <<Half(e)>>
    BY <2>1, <1>1
  <2>2. CASE tail = LineOf(e)
    <3>1. tail = <<Half(e), Rest(e)>>
      BY <2>2 DEF LineOf
    <3>2. tail \in Seq(Pieces) /\ Len(tail) = 2 /\ tail[1] = Half(e) /\ tail[2] = Rest(e)
      BY <3>1, <1>1
    <3> QED BY <3>2, <1>1
  <2> QED BY <2>1, <2>2
<1>3. NewlinesIn(tail) = {}
  BY <1>2 DEF NewlinesIn
<1>4. Len(WholeLines(tail)) = 0 /\ WholeLines(tail) \in Seq(Seq(Pieces))
  BY <1>2, <1>3, LinesAre, FS_EmptySet
<1> QED BY <1>2, <1>3, <1>4, EmptySeq

\* The line of an envelope, with its end, is one line.
LEMMA OneLine ==
  ASSUME NEW e \in Envelopes
  PROVE  LET tail == <<Half(e), Rest(e), NL>>
         IN  /\ tail \in Seq(Pieces) /\ Len(tail) = 3 /\ tail[3] = NL
             /\ WholeLines(tail) = <<LineOf(e)>>
<1> DEFINE tail == <<Half(e), Rest(e), NL>>
<1>1. /\ {NL, Half(e), Rest(e)} \subseteq Pieces
      /\ Half(e) # NL /\ Rest(e) # NL
  BY PiecesDiffer
<1>2. tail \in Seq(Pieces) /\ Len(tail) = 3 /\ tail[1] = Half(e) /\ tail[2] = Rest(e) /\ tail[3] = NL
  BY <1>1
<1> HIDE DEF tail
<1>3. NewlinesIn(tail) = {3}
  BY <1>1, <1>2 DEF NewlinesIn
<1>4. NewlinesTo(tail, 3) = {3} /\ Cardinality({3}) = 1
  <2>1. NewlinesTo(tail, 3) = {3}
    BY <1>3 DEF NewlinesTo
  <2>2. Cardinality({3}) = 1
    BY FS_Singleton
  <2> QED BY <2>1, <2>2
<1>5. LineEnd(tail, 1) = 3 /\ LineEnd(tail, 0) = 0
  <2>1. 3 \in NewlinesIn(tail) /\ Cardinality(NewlinesTo(tail, 3)) = 1
    BY <1>3, <1>4
  <2>2. LineEnd(tail, Cardinality(NewlinesTo(tail, 3))) = 3
    BY <2>1, <1>2, EndIs
  <2> QED BY <2>1, <2>2 DEF LineEnd
<1>6. LineAt(tail, 1) = LineOf(e)
  <2>1. LineAt(tail, 1) = SubSeq(tail, 1, 2)
    <3>1. 1 - 1 = 0 /\ 0 + 1 = 1 /\ 3 - 1 = 2
      OBVIOUS
    <3> QED BY <3>1, <1>5, Zenon DEF LineAt
  <2>2. 1 \in 1..(Len(tail) + 1) /\ 2 \in 0..Len(tail)
    BY <1>2
  <2>3. /\ SubSeq(tail, 1, 2) \in Seq(Pieces)
        /\ Len(SubSeq(tail, 1, 2)) = IF 1 <= 2 THEN 2 - 1 + 1 ELSE 0
        /\ \A i \in 1..Len(SubSeq(tail, 1, 2)) : SubSeq(tail, 1, 2)[i] = tail[1 + i - 1]
    BY <2>2, <1>2, PiecesOf
  <2>4. LineOf(e) \in Seq(Pieces) /\ Len(LineOf(e)) = 2 /\ LineOf(e)[1] = Half(e) /\ LineOf(e)[2] = Rest(e)
    BY <1>1 DEF LineOf
  <2>5. Len(SubSeq(tail, 1, 2)) = 2
    BY <2>3
  <2>6. SubSeq(tail, 1, 2)[1] = tail[1] /\ SubSeq(tail, 1, 2)[2] = tail[2]
    BY <2>3, <2>5
  <2>7. \A i \in 1..2 : SubSeq(tail, 1, 2)[i] = LineOf(e)[i]
    BY <2>4, <2>6, <1>2
  <2>8. SubSeq(tail, 1, 2) = LineOf(e)
    BY <2>3, <2>4, <2>5, <2>7, SeqEqual
  <2> QED BY <2>1, <2>8
<1>7. WholeLines(tail) = <<LineOf(e)>>
  <2>1. /\ WholeLines(tail) \in Seq(Seq(Pieces)) /\ Len(WholeLines(tail)) = 1
        /\ WholeLines(tail)[1] = LineOf(e)
    <3>1. Cardinality(NewlinesIn(tail)) = 1
      BY <1>3, <1>4
    <3>2. /\ WholeLines(tail) \in Seq(Seq(Pieces)) /\ Len(WholeLines(tail)) = Cardinality(NewlinesIn(tail))
          /\ \A n \in 1..Cardinality(NewlinesIn(tail)) : WholeLines(tail)[n] = LineAt(tail, n)
      BY <1>2, LinesAre
    <3>3. 1 \in 1..Cardinality(NewlinesIn(tail))
      BY <3>1
    <3> QED BY <3>1, <3>2, <3>3, <1>6
  <2> QED BY <2>1
<1> QED BY <1>2, <1>7 DEF tail

\* What comes after whole lines and is no line changes none of them.
LEMMA TornOn ==
  ASSUME NEW S, NEW x \in Seq(S), LastNewline(x) = Len(x), NEW tail \in Seq(S), NewlinesIn(tail) = {},
         WholeLines(tail) = <<>>
  PROVE  /\ NewlinesIn(x \o tail) = NewlinesIn(x)
         /\ WholeLines(x \o tail) = WholeLines(x)
         /\ Mended(x \o tail) = x
<1> DEFINE c == x \o tail
<1>1. /\ c \in Seq(S) /\ Len(c) = Len(x) + Len(tail) /\ Len(x) \in Nat /\ Len(tail) \in Nat
      /\ \A i \in 1..(Len(x) + Len(tail)) : c[i] = IF i <= Len(x) THEN x[i] ELSE tail[i - Len(x)]
  BY ConcatProperties
<1>2. WholeLines(c) = WholeLines(x)
  <2>1. WholeLines(c) = WholeLines(x) \o <<>>
    BY LinesOfJoined
  <2>2. WholeLines(x) \in Seq(Seq(S))
    BY LinesAre
  <2> QED BY <2>1, <2>2, ConcatEmptySeq
<1> HIDE DEF c
<1>3. NewlinesIn(c) = NewlinesIn(x)
  <2>1. ASSUME NEW i \in 1..Len(c) PROVE c[i] = NL <=> (i <= Len(x) /\ x[i] = NL)
    <3>1. CASE i <= Len(x)
      BY <3>1, <1>1
    <3>2. CASE ~(i <= Len(x))
      <4>1. i - Len(x) \in 1..Len(tail) /\ c[i] = tail[i - Len(x)]
        BY <3>2, <1>1
      <4>2. tail[i - Len(x)] # NL
        BY <4>1 DEF NewlinesIn
      <4> QED BY <4>1, <4>2, <3>2
    <3> QED BY <3>1, <3>2
  <2> QED BY <2>1, <1>1 DEF NewlinesIn
<1>4. LastNewline(c) = Len(x)
  BY <1>3 DEF LastNewline
<1>5. Mended(c) = x
  <2>1. /\ Mended(c) \in Seq(S) /\ Len(Mended(c)) = Len(x)
        /\ \A i \in 1..Len(x) : Mended(c)[i] = c[i]
    BY <1>1, <1>4, HealedLines
  <2>2. \A i \in 1..Len(x) : c[i] = x[i]
    BY <1>1
  <2> QED BY <2>1, <2>2, SeqEqual
<1> QED BY <1>2, <1>3, <1>5 DEF c

\* A line put together of two stretches.
LEMMA Halved ==
  ASSUME NEW S, NEW a \in S, NEW b \in S, NEW c \in S
  PROVE  /\ <<a>> \o <<b, c>> = <<a, b, c>>
         /\ <<a, b>> \o <<c>> = <<a, b, c>>
<1> DEFINE x == <<a>> \o <<b, c>>
           y == <<a, b>> \o <<c>>
           z == <<a, b, c>>
<1>1. /\ <<a>> \in Seq(S) /\ Len(<<a>>) = 1 /\ <<a>>[1] = a
      /\ <<c>> \in Seq(S) /\ Len(<<c>>) = 1 /\ <<c>>[1] = c
  OBVIOUS
<1>2. /\ <<b, c>> \in Seq(S) /\ Len(<<b, c>>) = 2 /\ <<b, c>>[1] = b /\ <<b, c>>[2] = c
      /\ <<a, b>> \in Seq(S) /\ Len(<<a, b>>) = 2 /\ <<a, b>>[1] = a /\ <<a, b>>[2] = b
  OBVIOUS
<1>3. z \in Seq(S) /\ Len(z) = 3 /\ z[1] = a /\ z[2] = b /\ z[3] = c
  OBVIOUS
<1>4. /\ x \in Seq(S) /\ Len(x) = 3
      /\ \A i \in 1..3 : x[i] = IF i <= 1 THEN <<a>>[i] ELSE <<b, c>>[i - 1]
  BY <1>1, <1>2, ConcatProperties
<1>5. /\ y \in Seq(S) /\ Len(y) = 3
      /\ \A i \in 1..3 : y[i] = IF i <= 2 THEN <<a, b>>[i] ELSE <<c>>[i - 2]
  BY <1>1, <1>2, ConcatProperties
<1> HIDE DEF x, y, z
<1>6. x[1] = a /\ x[2] = b /\ x[3] = c /\ y[1] = a /\ y[2] = b /\ y[3] = c
  BY <1>1, <1>2, <1>4, <1>5
<1>7. \A i \in 1..3 : x[i] = z[i] /\ y[i] = z[i]
  BY <1>3, <1>6
<1>8. x = z /\ y = z
  BY <1>3, <1>4, <1>5, <1>7, SeqEqual
<1> QED BY <1>8 DEF x, y, z

\* Finishing a torn line puts one whole line after those there are.
LEMMA FinishedLines ==
  ASSUME StreamTypeOK, NEW w \in Writers,
         NEW torn \in {<<Half(envelope[w])>>, LineOf(envelope[w])}, file = Mended(file) \o torn
  PROVE  /\ Finished(w) \in Seq(Pieces)
         /\ WholeLines(Finished(w)) = Append(WholeLines(file), LineOf(envelope[w]))
         /\ LastNewline(Finished(w)) = Len(Finished(w))
<1> DEFINE e == envelope[w]
           m == Mended(file)
           line == <<Half(e), Rest(e), NL>>
<1>0. e \in Envelopes /\ file \in Seq(Pieces)
  BY DEF StreamTypeOK
<1>1. m \in Seq(Pieces) /\ Len(m) = LastNewline(file) /\ NewlinesIn(m) = NewlinesIn(file)
      /\ WholeLines(m) = WholeLines(file)
  BY <1>0, HealedLines
<1>2. {NL, Half(e), Rest(e)} \subseteq Pieces /\ Half(e) # Rest(e)
  BY <1>0, PiecesDiffer
<1>3. LastNewline(m) = Len(m)
  BY <1>1 DEF LastNewline
<1>4. torn \in Seq(Pieces) /\ Len(torn) \in Nat /\ Len(torn) > 0
  <2>1. torn \in Seq(Pieces) /\ Len(torn) > 0
    BY <1>0, HalvesAreNoLine
  <2> QED BY <2>1
<1>5. file # <<>> /\ Last(file) = torn[Len(torn)]
  <2>1. /\ Len(m \o torn) = Len(m) + Len(torn) /\ Len(m) \in Nat
        /\ \A i \in 1..(Len(m) + Len(torn)) :
             (m \o torn)[i] = IF i <= Len(m) THEN m[i] ELSE torn[i - Len(m)]
    <3> HIDE DEF m
    <3>1. m \in Seq(Pieces) /\ torn \in Seq(Pieces)
      BY <1>1, <1>4
    <3> QED BY <3>1, ConcatProperties
  <2>2. file = m \o torn
    OBVIOUS
  <2> HIDE DEF m
  <2>3. Len(file) = Len(m) + Len(torn)
    BY <2>1, <2>2
  <2>4. Len(file) \in 1..(Len(m) + Len(torn)) /\ ~(Len(file) <= Len(m)) /\ Len(file) - Len(m) = Len(torn)
    BY <2>1, <2>3, <1>4
  <2>5. file[Len(file)] = torn[Len(torn)]
    BY <2>1, <2>2, <2>4
  <2>6. file # <<>>
    BY <2>4, <1>0
  <2> QED BY <2>5, <2>6 DEF Last
<1>6. Finished(w) = m \o line
  <2>0. file = m \o torn
    OBVIOUS
  <2>1. CASE torn = <<Half(e)>>
    <3>1. Last(file) = Half(e)
      BY <2>1, <1>5
    <3>2. Finished(w) = file \o <<Rest(e), NL>>
      BY <3>1, <1>5 DEF Finished
    <3> DEFINE rest == <<Rest(e), NL>>
    <3>3. rest \in Seq(Pieces)
      BY <1>2
    <3>4. torn \o rest = line
      BY <2>1, <1>2, Halved
    <3> HIDE DEF m, rest, line
    <3>5. (m \o torn) \o rest = m \o (torn \o rest)
      BY <1>1, <1>4, <3>3, ConcatAssociative
    <3> QED BY <3>2, <3>4, <3>5, <2>0 DEF rest
  <2>2. CASE torn = LineOf(e)
    <3>0. torn = <<Half(e), Rest(e)>> /\ Len(torn) = 2
      BY <2>2 DEF LineOf
    <3>1. Last(file) # Half(e)
      BY <3>0, <1>2, <1>5
    <3>2. Finished(w) = Append(file, NL)
      BY <3>1, <1>5 DEF Finished
    <3> DEFINE rest == <<NL>>
    <3>3. rest \in Seq(Pieces)
      BY <1>2
    <3>6. Append(file, NL) = file \o rest
      BY <1>0, <1>2, AppendIsConcat
    <3>4. torn \o rest = line
      BY <3>0, <1>2, Halved
    <3> HIDE DEF m, rest, line
    <3>5. (m \o torn) \o rest = m \o (torn \o rest)
      BY <1>1, <1>4, <3>3, ConcatAssociative
    <3> QED BY <3>2, <3>4, <3>5, <3>6, <2>0
  <2> QED BY <2>1, <2>2
<1>7. line \in Seq(Pieces) /\ Len(line) = 3 /\ line[3] = NL /\ WholeLines(line) = <<LineOf(e)>>
  BY <1>0, OneLine
<1> HIDE DEF m, line, e
<1> DEFINE c == m \o line
<1>8. /\ c \in Seq(Pieces) /\ Len(c) = Len(m) + Len(line)
      /\ \A i \in 1..(Len(m) + Len(line)) : c[i] = IF i <= Len(m) THEN m[i] ELSE line[i - Len(m)]
  BY <1>1, <1>7, ConcatProperties
<1>9. WholeLines(c) = Append(WholeLines(file), LineOf(e))
  <2>1. WholeLines(c) = WholeLines(m) \o WholeLines(line)
    BY <1>1, <1>3, <1>7, LinesOfJoined
  <2>2. WholeLines(file) \in Seq(Seq(Pieces)) /\ LineOf(e) \in Seq(Pieces)
    BY <1>0, LinesAre, HalvesAreNoLine DEF e
  <2>3. Append(WholeLines(file), LineOf(e)) = WholeLines(file) \o <<LineOf(e)>>
    BY <2>2, AppendIsConcat
  <2> QED BY <2>1, <2>3, <1>1, <1>7
<1> HIDE DEF c
<1>10. LastNewline(c) = Len(c)
  <2>1. Len(m) \in Nat /\ Len(c) \in 1..(Len(m) + 3) /\ Len(c) = Len(m) + 3
    BY <1>1, <1>7, <1>8
  <2>2. ~(Len(c) <= Len(m)) /\ Len(c) - Len(m) = 3
    BY <2>1
  <2>3. c[Len(c)] = NL
    BY <2>1, <2>2, <1>7, <1>8
  <2>4. Len(c) \in NewlinesIn(c)
    BY <2>1, <2>3 DEF NewlinesIn
  <2>5. LastNewline(c) \in 0..Len(c) /\ Len(c) <= LastNewline(c)
    BY <1>8, <2>4, LastNewlineIs
  <2> QED BY <2>1, <2>5
<1> QED BY <1>6, <1>8, <1>9, <1>10 DEF c, e

\* A whole line reads as its envelope.
LEMMA LinesParse == ASSUME NEW e \in Envelopes PROVE Parsed(LineOf(e)) = e
<1>1. Half(e) \in Pieces /\ Rest(e) \in Pieces /\ Half(e).of = e
  BY PiecesDiffer
<1>2. LineOf(e) = <<Half(e), Rest(e)>> /\ Len(LineOf(e)) = 2 /\ LineOf(e)[1] = Half(e)
  BY <1>1 DEF LineOf
<1>3. e \in {LineOf(e)[i].of : i \in 1..Len(LineOf(e))}
  BY <1>1, <1>2
<1>4. \E x \in {LineOf(e)[i].of : i \in 1..Len(LineOf(e))} : LineOf(e) = <<Half(x), Rest(x)>>
  BY <1>2, <1>3
<1> QED BY <1>1, <1>2, <1>4 DEF Parsed

\* The lines stay what they are when neither they nor what is acknowledged change.
LEMMA LinesKeep ==
  ASSUME WholeLines(file') = WholeLines(file), sink' = sink, acknowledged' = acknowledged,
         LinesAreEnvelopes
  PROVE  LinesAreEnvelopes'
BY DEF LinesAreEnvelopes

\* A writer that is not concerned by a step stays as it is.
LEMMA WritesKeep ==
  ASSUME NEW w \in Writers, Writes(w), emitter'[w] = emitter[w], envelope'[w] = envelope[w],
         UNCHANGED <<sink, file>>, Unspoiled' => Unspoiled,
         sinkLock = w => sinkLock' = w
  PROVE  Writes(w)'
<1>1. emitter'[w] \in {"writing", "written"} =>
        sinkLock' = w /\ (sink' = "shared" => envelope'[w].seq = Cardinality(NewlinesIn(file')) + 1)
  BY DEF Writes
<1>2. Unspoiled' /\ emitter'[w] = "writing" => NothingTorn'
  BY DEF Writes, NothingTorn
<1>3. Unspoiled' /\ emitter'[w] = "written" =>
        \E torn \in {<<Half(envelope'[w])>>, LineOf(envelope'[w])} : file' = Mended(file') \o torn
  BY DEF Writes
<1>4. LineOf(envelope[w])' = LineOf(envelope'[w])
  BY DEF LineOf
<1> QED BY <1>1, <1>2, <1>3 DEF Writes

\* One that does not write is no concern.
LEMMA WritesNot ==
  ASSUME NEW w \in Writers, emitter'[w] \notin {"writing", "written"}
  PROVE  Writes(w)'
BY DEF Writes

\* While one holds the sink, or nobody does, no other writes.
LEMMA OthersWait ==
  ASSUME IntactInv, NEW w \in Writers, sinkLock = "free" \/ sinkLock # w
  PROVE  emitter[w] \notin {"writing", "written"}
BY StreamAssumption DEF IntactInv, Writes

\* No step of a writer leaves the file less than whole.
LEMMA IntactStays ==
  ASSUME StreamTypeOK, IntactInv, [StreamNext]_streamVars
  PROVE  IntactInv'
<1> USE DEF EmitterAt
<1>0. /\ sink \in {"single", "shared"} /\ file \in Seq(Pieces)
      /\ emitter \in [Writers -> {"idle", "stamped", "numbered", "writing", "written", "dead"}]
      /\ envelope \in [Writers -> Envelopes]
      /\ Unspoiled => LinesAreEnvelopes
      /\ \A w \in Writers : Writes(w)
      /\ BetweenWrites
  BY DEF StreamTypeOK, IntactInv
<1>1. ASSUME NEW w \in Writers, UNCHANGED <<sink, file, acknowledged, spoiled>>,
             \A v \in Writers \ {w} : emitter'[v] = emitter[v] /\ envelope'[v] = envelope[v],
             emitter'[w] \notin {"writing", "written"},
             sinkLock' = sinkLock \/ (sink = "shared" /\ sinkLock = w /\ sinkLock' = "free")
      PROVE  IntactInv'
  <2>1. Unspoiled' => Unspoiled
    BY <1>1 DEF Unspoiled
  <2>2. Unspoiled' => LinesAreEnvelopes'
    BY <1>0, <1>1, <2>1, LinesKeep
  <2>3. ASSUME NEW v \in Writers, v # w PROVE Writes(v)'
    BY <2>3, <2>1, <1>0, <1>1, WritesKeep
  <2>4. Writes(w)'
    BY <1>1, WritesNot
  <2>5. BetweenWrites'
    BY <1>0, <1>1 DEF BetweenWrites, NothingTorn
  <2> QED BY <2>2, <2>3, <2>4, <2>5 DEF IntactInv
<1>2. ASSUME NEW w \in Writers, Stamp(w) \/ Number(w) \/ NoTurn(w) \/ Dies(w) PROVE IntactInv'
  <2>1. /\ UNCHANGED <<sink, file, acknowledged, spoiled>>
        /\ \A v \in Writers \ {w} : emitter'[v] = emitter[v] /\ envelope'[v] = envelope[v]
        /\ emitter'[w] \notin {"writing", "written"}
        /\ sinkLock' = sinkLock \/ (sink = "shared" /\ sinkLock = w /\ sinkLock' = "free")
    <3>1. CASE Stamp(w)
      BY <3>1, <1>0 DEF Stamp, written
    <3>2. CASE Number(w)
      BY <3>2, <1>0 DEF Number, written
    <3>3. CASE NoTurn(w)
      BY <3>3, <1>0 DEF NoTurn, written
    <3>4. CASE Dies(w)
      BY <3>4, <1>0 DEF Dies, written
    <3> QED BY <1>2, <3>1, <3>2, <3>3, <3>4
  <2> QED BY <2>1, <1>1
<1>3. ASSUME NEW w \in Writers, TakeSink(w) PROVE IntactInv'
  <2>1. /\ sink = "single" /\ sinkLock = "free" /\ sinkLock' = w /\ emitter'[w] = "writing"
        /\ UNCHANGED <<sink, file, acknowledged, spoiled, envelope>>
        /\ \A v \in Writers \ {w} : emitter'[v] = emitter[v]
    BY <1>3, <1>0 DEF TakeSink, Unlocked, written
  <2>2. Unspoiled' => LinesAreEnvelopes'
    BY <1>0, <2>1, LinesKeep DEF Unspoiled
  <2>3. ASSUME NEW v \in Writers, v # w PROVE Writes(v)'
    BY <2>3, <2>1, OthersWait, WritesNot
  <2>4. Writes(w)'
    BY <2>1, <1>0 DEF Writes, Unspoiled, BetweenWrites, NothingTorn
  <2>5. BetweenWrites'
    BY <2>1, StreamAssumption DEF BetweenWrites
  <2> QED BY <2>2, <2>3, <2>4, <2>5 DEF IntactInv
<1>4. ASSUME NEW w \in Writers, Turn(w) PROVE IntactInv'
  <2>1. /\ sink = "shared" /\ sinkLock = "free" /\ file' = Mended(file)
        /\ UNCHANGED <<sink, acknowledged, spoiled>>
        /\ \A v \in Writers \ {w} : emitter'[v] = emitter[v]
        /\ \/ sinkLock' = w /\ emitter'[w] = "writing"
           \/ sinkLock' = "free" /\ emitter'[w] = "idle"
    BY <1>4, <1>0 DEF Turn, Unlocked
  <2>2. envelope'[w].seq = Cardinality(NewlinesIn(file)) + 1
    <3>1. envelope' = [envelope EXCEPT ![w].seq = Cardinality(NewlinesIn(file)) + 1]
      BY <1>4 DEF Turn
    <3>2. envelope[w] \in [by : Writers \cup {"nobody"}, ts : Nat, seq : Nat]
      BY <1>0 DEF Envelopes
    <3> QED BY <3>1, <3>2, <1>0
  <2>3. /\ NewlinesIn(file') = NewlinesIn(file) /\ WholeLines(file') = WholeLines(file)
        /\ Len(file') = LastNewline(file)
    BY <2>1, <1>0, HealedLines
  <2>4. LastNewline(file') = Len(file')
    BY <2>3 DEF LastNewline
  <2>5. Unspoiled' => LinesAreEnvelopes'
    BY <1>0, <2>1, <2>3, LinesKeep DEF Unspoiled
  <2>6. ASSUME NEW v \in Writers, v # w PROVE Writes(v)'
    BY <2>6, <2>1, OthersWait, WritesNot
  <2>7. Writes(w)'
    BY <2>1, <2>2, <2>3, <2>4 DEF Writes, NothingTorn
  <2>8. BetweenWrites'
    BY <2>1 DEF BetweenWrites
  <2> QED BY <2>5, <2>6, <2>7, <2>8 DEF IntactInv
<1>5. ASSUME NEW w \in Writers, WriteSome(w) PROVE IntactInv'
  <2>0. PICK torn \in {<<Half(envelope[w])>>, <<Half(envelope[w]), Rest(envelope[w])>>} :
          file' = file \o torn
    BY <1>5 DEF WriteSome
  <2>1. /\ emitter[w] = "writing" /\ emitter'[w] = "written"
        /\ UNCHANGED <<sink, sinkLock, envelope, acknowledged, spoiled>>
        /\ \A v \in Writers \ {w} : emitter'[v] = emitter[v]
    BY <1>5, <1>0 DEF WriteSome
  <2>2. torn \in {<<Half(envelope[w])>>, LineOf(envelope[w])} /\ envelope[w] \in Envelopes
    BY <1>0 DEF LineOf
  <2>3. torn \in Seq(Pieces) /\ NewlinesIn(torn) = {} /\ WholeLines(torn) = <<>>
    BY <2>2, HalvesAreNoLine
  <2>4. sinkLock = w
    BY <1>0, <2>1 DEF Writes
  <2>5. Unspoiled => /\ NewlinesIn(file') = NewlinesIn(file) /\ WholeLines(file') = WholeLines(file)
                     /\ Mended(file') = file
    <3>1. Unspoiled => LastNewline(file) = Len(file)
      BY <1>0, <2>1 DEF Writes, NothingTorn
    <3> QED BY <3>1, <2>0, <2>3, <1>0, TornOn
  <2>6. Unspoiled' <=> Unspoiled
    BY <2>1 DEF Unspoiled
  <2>7. Unspoiled' => LinesAreEnvelopes'
    BY <1>0, <2>1, <2>5, <2>6, LinesKeep
  <2>8. ASSUME NEW v \in Writers, v # w PROVE Writes(v)'
    <3>1. emitter[v] \notin {"writing", "written"}
      BY <2>4, <2>8, OthersWait
    <3> QED BY <3>1, <2>1, <2>8, WritesNot
  <2>9. Writes(w)'
    <3>1. sink' = "shared" => envelope'[w].seq = Cardinality(NewlinesIn(file')) + 1
      BY <1>0, <2>1, <2>5 DEF Writes, Unspoiled
    <3>2. Unspoiled' => file' = Mended(file') \o torn
      BY <2>0, <2>5, <2>6
    <3>3. torn \in {<<Half(envelope'[w])>>, LineOf(envelope'[w])}
      BY <2>1, <2>2
    <3> QED BY <3>1, <3>2, <3>3, <2>1, <2>4 DEF Writes
  <2>10. BetweenWrites'
    BY <2>1, <2>4, StreamAssumption DEF BetweenWrites
  <2> QED BY <2>7, <2>8, <2>9, <2>10 DEF IntactInv
<1>6. ASSUME NEW w \in Writers, emitter[w] = "written", file' = Finished(w),
             acknowledged' \in {acknowledged, acknowledged \cup {envelope[w]}},
             sinkLock' = "free", emitter'[w] = "idle",
             UNCHANGED <<sink, spoiled>>, \A v \in Writers \ {w} : emitter'[v] = emitter[v]
      PROVE  IntactInv'
  <2>1. sinkLock = w /\ (sink = "shared" => envelope[w].seq = Cardinality(NewlinesIn(file)) + 1)
        /\ envelope[w] \in Envelopes
    BY <1>0, <1>6 DEF Writes
  <2>2. Unspoiled' <=> Unspoiled
    BY <1>6 DEF Unspoiled
  <2>3. ASSUME Unspoiled
        PROVE  /\ WholeLines(file') = Append(WholeLines(file), LineOf(envelope[w]))
               /\ LastNewline(file') = Len(file')
    <3>1. PICK torn \in {<<Half(envelope[w])>>, LineOf(envelope[w])} : file = Mended(file) \o torn
      BY <2>3, <1>0, <1>6 DEF Writes
    <3> QED BY <3>1, <1>6, FinishedLines
  <2>4. ASSUME Unspoiled' PROVE LinesAreEnvelopes'
    <3> DEFINE lines == WholeLines(file)
               e == envelope[w]
               more == WholeLines(file')
    <3>1. LinesAreEnvelopes /\ Unspoiled
      BY <1>0, <2>2, <2>4
    <3>2. /\ lines \in Seq(Seq(Pieces)) /\ Len(lines) = Cardinality(NewlinesIn(file))
          /\ LineOf(e) \in Seq(Pieces)
      BY <1>0, <2>1, LinesAre, HalvesAreNoLine
    <3>3. more = Append(lines, LineOf(e))
      BY <2>3, <3>1
    <3> HIDE DEF lines, more
    <3>4. /\ Len(more) = Len(lines) + 1 /\ more[Len(lines) + 1] = LineOf(e)
          /\ \A n \in 1..Len(lines) : more[n] = lines[n]
      BY <3>2, <3>3, AppendProperties
    <3>5. Len(lines) \in Nat
      BY <3>2
    <3>6. ASSUME NEW n \in 1..Len(more)
          PROVE  \E x \in Envelopes : more[n] = LineOf(x) /\ (sink' = "shared" => x.seq = n)
      <4>1. CASE n = Len(lines) + 1
        <5>1. more[n] = LineOf(e) /\ (sink' = "shared" => e.seq = n)
          BY <4>1, <3>2, <3>4, <2>1, <1>6
        <5> QED BY <5>1, <2>1
      <4>2. CASE n # Len(lines) + 1
        <5>1. n \in 1..Len(lines) /\ more[n] = lines[n]
          BY <4>2, <3>4, <3>5
        <5>2. PICK x \in Envelopes : lines[n] = LineOf(x) /\ (sink = "shared" => x.seq = n)
          BY <5>1, <3>1 DEF LinesAreEnvelopes, lines
        <5> QED BY <5>1, <5>2, <1>6
      <4> QED BY <4>1, <4>2
    <3>7. ASSUME NEW x \in acknowledged'
          PROVE  x \in Envelopes /\ \E n \in 1..Len(more) : more[n] = LineOf(x)
      <4>1. CASE x = e
        <5>1. Len(lines) + 1 \in 1..Len(more)
          BY <3>4, <3>5
        <5> QED BY <4>1, <5>1, <3>4, <2>1
      <4>2. CASE x # e
        <5>1. x \in acknowledged
          BY <4>2, <3>7, <1>6
        <5>2. x \in Envelopes /\ \E n \in 1..Len(lines) : lines[n] = LineOf(x)
          BY <5>1, <3>1 DEF LinesAreEnvelopes, lines
        <5>3. PICK n \in 1..Len(lines) : lines[n] = LineOf(x)
          BY <5>2
        <5>4. n \in 1..Len(more) /\ more[n] = LineOf(x)
          BY <5>3, <3>4, <3>5
        <5> QED BY <5>2, <5>4
      <4> QED BY <4>1, <4>2
    <3>8. \A n \in 1..Len(more) :
            \E x \in Envelopes : more[n] = LineOf(x) /\ (sink' = "shared" => x.seq = n)
      BY <3>6
    <3>9. \A x \in acknowledged' : x \in Envelopes /\ \E n \in 1..Len(more) : more[n] = LineOf(x)
      BY <3>7
    <3> QED BY <3>8, <3>9 DEF LinesAreEnvelopes, more
  <2>5. ASSUME NEW v \in Writers PROVE Writes(v)'
    <3>1. CASE v = w
      BY <3>1, <1>6, WritesNot
    <3>2. CASE v # w
      <4>1. emitter[v] \notin {"writing", "written"}
        BY <2>1, <3>2, OthersWait
      <4> QED BY <4>1, <3>2, <1>6, WritesNot
    <3> QED BY <3>1, <3>2
  <2>6. BetweenWrites'
    BY <2>2, <2>3 DEF BetweenWrites, NothingTorn, Unspoiled
  <2> QED BY <2>4, <2>5, <2>6 DEF IntactInv
<1>7. ASSUME NEW w \in Writers, WriteRest(w) PROVE IntactInv'
  <2>1. /\ emitter[w] = "written" /\ file' = Finished(w) /\ sinkLock' = "free"
        /\ acknowledged' = acknowledged \cup {envelope[w]}
        /\ emitter'[w] = "idle" /\ UNCHANGED <<sink, spoiled>>
        /\ \A v \in Writers \ {w} : emitter'[v] = emitter[v]
    BY <1>7, <1>0 DEF WriteRest
  <2> QED BY <2>1, <1>6
<1>8. ASSUME NEW w \in Writers, WriteBreaks(w) PROVE IntactInv'
  <2>1. /\ sinkLock' = "free" /\ emitter'[w] = "idle" /\ UNCHANGED <<sink, acknowledged, envelope>>
        /\ \A v \in Writers \ {w} : emitter'[v] = emitter[v]
        /\ \/ emitter[w] = "writing" /\ UNCHANGED <<file, spoiled>>
           \/ emitter[w] = "written" /\ spoiled' = TRUE /\ UNCHANGED file
           \/ emitter[w] = "written" /\ file' = Finished(w) /\ UNCHANGED spoiled
    BY <1>8, <1>0 DEF WriteBreaks
  <2>2. CASE emitter[w] = "written" /\ file' = Finished(w) /\ UNCHANGED spoiled
    BY <2>1, <2>2, <1>6
  <2>3. CASE /\ UNCHANGED file
             /\ \/ emitter[w] = "writing" /\ UNCHANGED spoiled
                \/ emitter[w] = "written" /\ spoiled' = TRUE
    <3>1. sinkLock = w
      BY <1>0, <2>3 DEF Writes
    <3>2. Unspoiled' => Unspoiled
      BY <2>1, <2>3 DEF Unspoiled
    <3>3. Unspoiled' => LinesAreEnvelopes'
      BY <1>0, <2>1, <2>3, <3>2, LinesKeep
    <3>4. ASSUME NEW v \in Writers PROVE Writes(v)'
      <4>1. CASE v = w
        BY <4>1, <2>1, WritesNot
      <4>2. CASE v # w
        <5>1. emitter[v] \notin {"writing", "written"}
          BY <3>1, <4>2, OthersWait
        <5> QED BY <5>1, <4>2, <2>1, WritesNot
      <4> QED BY <4>1, <4>2
    <3>5. BetweenWrites'
      <4>1. CASE spoiled' = TRUE
        BY <4>1 DEF BetweenWrites
      <4>2. CASE emitter[w] = "writing" /\ UNCHANGED spoiled
        <5>1. ~spoiled => NothingTorn
          BY <1>0, <4>2 DEF Writes, Unspoiled
        <5>2. NothingTorn' <=> NothingTorn
          BY <2>3 DEF NothingTorn
        <5> QED BY <5>1, <5>2, <4>2 DEF BetweenWrites
      <4> QED BY <2>3, <4>1, <4>2
    <3> QED BY <3>3, <3>4, <3>5 DEF IntactInv
  <2> QED BY <2>1, <2>2, <2>3
<1>9. CASE UNCHANGED <<sink, file, sinkLock, emitter, envelope, acknowledged, spoiled>>
  BY <1>9 DEF IntactInv, LinesAreEnvelopes, Writes, BetweenWrites, NothingTorn, Unspoiled
<1>10. ASSUME NEW r \in Readers, ReadsHead(r) \/ ReadsRest(r) PROVE IntactInv'
  <2>1. UNCHANGED <<sink, file, sinkLock, emitter, envelope, acknowledged, spoiled>>
    BY <1>10 DEF ReadsHead, ReadsRest, written
  <2> QED BY <2>1, <1>9
<1>11. CASE UNCHANGED streamVars
  <2>1. UNCHANGED <<sink, file, sinkLock, emitter, envelope, acknowledged, spoiled>>
    BY <1>11 DEF streamVars
  <2> QED BY <2>1, <1>9
<1>12. CASE StreamNext
  BY <1>12, <1>2, <1>3, <1>4, <1>5, <1>7, <1>8, <1>10 DEF StreamNext
<1> QED BY <1>11, <1>12

\* A stream's file stays whole, for any number of writers, failed writes and deaths: the
\* lines of a shared one are envelopes numbered from 1 without a gap, and an envelope
\* whose emit returned is on a line of its own (`recorded`, `emit`).
THEOREM StreamStaysIntact == StreamSpec => []StreamIntact
<1>1. StreamInit => IntactInv
  <2> SUFFICES ASSUME StreamInit PROVE IntactInv
    OBVIOUS
  <2>1. /\ file = <<>> /\ acknowledged = {} /\ emitter = [w \in Writers |-> "idle"]
    BY DEF StreamInit
  <2>2. file \in Seq(Pieces) /\ Len(file) = 0
    BY <2>1
  <2>3. NewlinesIn(file) = {}
    BY <2>2 DEF NewlinesIn
  <2>4. Len(WholeLines(file)) = 0
    BY <2>2, <2>3, LinesAre, FS_EmptySet
  <2>5. NothingTorn
    <3>1. LastNewline(file) \in 0..Len(file)
      BY <2>2, LastNewlineIs
    <3> QED BY <3>1, <2>2 DEF NothingTorn
  <2>6. LinesAreEnvelopes
    BY <2>1, <2>4 DEF LinesAreEnvelopes
  <2>7. \A w \in Writers : Writes(w)
    BY <2>1 DEF Writes
  <2> QED BY <2>5, <2>6, <2>7 DEF IntactInv, BetweenWrites
<1>2. StreamTypeOK /\ IntactInv /\ [StreamNext]_streamVars => IntactInv'
  BY IntactStays
<1>3. IntactInv => StreamIntact
  <2> SUFFICES ASSUME IntactInv PROVE StreamIntact
    OBVIOUS
  <2> DEFINE lines == WholeLines(file)
  <2>1. ASSUME sink = "shared", NEW n \in 1..Len(lines) PROVE Parsed(lines[n]).seq = n
    <3>1. PICK e \in Envelopes : lines[n] = LineOf(e) /\ e.seq = n
      BY <2>1 DEF IntactInv, Unspoiled, LinesAreEnvelopes
    <3> QED BY <3>1, LinesParse
  <2>2. ASSUME sink = "shared" \/ ~spoiled, NEW e \in acknowledged
        PROVE  \E n \in 1..Len(lines) : Parsed(lines[n]) = e
    <3>1. e \in Envelopes /\ \E n \in 1..Len(lines) : lines[n] = LineOf(e)
      BY <2>2 DEF IntactInv, Unspoiled, LinesAreEnvelopes
    <3> QED BY <3>1, LinesParse
  <2> QED BY <2>1, <2>2 DEF StreamIntact, OneGaplessSeries, AcknowledgedAreReadable
<1> QED BY <1>1, <1>2, <1>3, StreamTypeCorrect, PTL DEF StreamSpec
=============================================================================
