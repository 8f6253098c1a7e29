--------------------------- MODULE TransportProofs ---------------------------
(***************************************************************************)
(* Proofs about the transports. Where queues have sections,                *)
(* MemoryTransport and Plugin, what a body appends lands where the body    *)
(* read that it would, because nobody else's call enters the section. In a *)
(* plain queue in a directory, LocalTransport, each record is numbered by  *)
(* its place and checkpoints change no answer: a checkpoint holds only of  *)
(* a log with the line whose digest it has, and that line carries its      *)
(* number.                                                                 *)
(***************************************************************************)
EXTENDS MemoryTransport, Plugin, LocalTransport, LibraryProofs

----------------------------------------------------------------------------
(* MemoryTransport *)

Operations == {"append", "commit", "replace", "exclusive", "wait"}

MemoryTyped ==
  /\ records \in [Stores -> Seq(Nat)]
  /\ generations \in [Stores -> Nat]
  /\ held \in [Stores -> Handles \cup {Free}]
  /\ busy \in [Handles -> {Nowhere} \cup [op : Operations, queue : Stores]]
  /\ within \in [Handles -> Seq(Stores)]
  /\ basis \in [Handles -> Int]
  /\ asleep \subseteq Handles

\* A queue is held by the handle whose sections it is among, once.
HeldBySection ==
  /\ \A h \in Handles : \A i \in 1..Len(within[h]) : held[within[h][i]] = h
  /\ \A h \in Handles : \A i, j \in 1..Len(within[h]) : within[h][i] = within[h][j] => i = j
  /\ \A q \in Stores, h \in Handles : held[q] = h => HoldsIt(h, q)

\* An outermost body knows how long its queue is.
BodyKnowsLength ==
  \A h \in Handles : within[h] # <<>> => basis[h] = Len(records[within[h][1]])

\* Who sleeps is in an operation, and no section is asked for inside itself.
InOperation ==
  /\ \A h \in asleep : busy[h] # Nowhere
  /\ \A h \in Handles : busy[h].op = "exclusive" => ~HoldsIt(h, busy[h].queue)

MemoryInv ==
  /\ MemoryTyped /\ HeldBySection /\ BodyKnowsLength /\ InOperation
  /\ SleepersHaveCause /\ BodiesSeeTheirOwn

LEMMA MemoryInitInv == MemoryInit => MemoryInv
<1> SUFFICES ASSUME MemoryInit PROVE MemoryInv
  OBVIOUS
<1> USE DEF MemoryInit
<1>1. MemoryTyped
  BY DEF MemoryTyped
<1>2. HeldBySection /\ BodyKnowsLength
  BY MemoryAssumption DEF HeldBySection, BodyKnowsLength, HoldsIt
<1>3. InOperation /\ SleepersHaveCause
  BY DEF InOperation, SleepersHaveCause, Nowhere
<1>4. BodiesSeeTheirOwn
  BY DEF BodiesSeeTheirOwn
<1> QED BY <1>1, <1>2, <1>3, <1>4 DEF MemoryInv

\* The operations name queues, and `none` is not among them.
LEMMA BusyTyped ==
  ASSUME MemoryTyped, NEW h \in Handles, busy[h] # Nowhere
  PROVE  busy[h].queue \in Stores /\ busy[h].op \in Operations /\ busy[h].op # "none"
<1>1. busy[h] \in [op : Operations, queue : Stores]
  BY DEF MemoryTyped
<1> QED BY <1>1 DEF Operations

LEMMA BusyWith ==
  ASSUME NEW h, busy[h].op \in Operations
  PROVE  busy[h] # Nowhere
BY DEF Nowhere, Operations

\* A handle begins an operation.
LEMMA BeginsKeeps ==
  ASSUME MemoryInv, NEW h \in Handles, NEW c \in Calls[h], Begins(h, c[1], c[2])
  PROVE  MemoryInv'
<1> USE DEF MemoryInv
<1> DEFINE op == c[1] q == c[2] now == [op |-> op, queue |-> q]
<1>1. op \in Operations /\ q \in Stores
  BY MemoryAssumption DEF Operations
<1>2. /\ busy' = [busy EXCEPT ![h] = now] /\ busy[h] = Nowhere
      /\ UNCHANGED <<records, generations, held, within, basis, asleep>>
      /\ op = "exclusive" => Opens(h, q)
  BY DEF Begins, store
<1>3. now \in [op : Operations, queue : Stores] /\ now.op = op /\ now.queue = q
  BY <1>1
<1> HIDE DEF now, op, q
<1>4. MemoryTyped' /\ busy'[h] = now /\ \A k \in Handles : k # h => busy'[k] = busy[k]
  BY <1>2, <1>3 DEF MemoryTyped
<1>5. HeldBySection' /\ BodyKnowsLength' /\ BodiesSeeTheirOwn'
  BY <1>2 DEF HeldBySection, HoldsIt, BodyKnowsLength, BodiesSeeTheirOwn
<1>6. h \notin asleep /\ \A k \in asleep : k \in Handles /\ k # h /\ busy'[k] = busy[k]
  BY <1>2, <1>4 DEF InOperation, MemoryTyped
<1>7. op = "exclusive" => ~HoldsIt(h, q)
  <2>1. CASE within[h] = <<>>
    BY <2>1 DEF HoldsIt
  <2>2. CASE within[h] # <<>>
    BY <1>2, <2>2 DEF Opens
  <2> QED BY <2>1, <2>2
<1>8. InOperation'
  BY <1>2, <1>3, <1>4, <1>6, <1>7 DEF InOperation, HoldsIt
<1>9. awaited' = [awaited EXCEPT ![h] = IF op = "wait" THEN generations[q] ELSE 0]
  BY DEF Begins, op, q
<1>10. SleepersHaveCause'
  BY <1>2, <1>6, <1>9 DEF SleepersHaveCause
<1> QED BY <1>4, <1>5, <1>8, <1>10

\* A handle that did what it had begun is in no operation.
LEMMA ReturnsKeeps ==
  ASSUME MemoryInv, NEW h \in Handles, Returns(h), h \notin asleep'
  PROVE  /\ busy' \in [Handles -> {Nowhere} \cup [op : Operations, queue : Stores]]
         /\ busy'[h] = Nowhere /\ busy'[h].op # "exclusive"
         /\ \A k \in Handles : k # h => busy'[k] = busy[k]
BY DEF Returns, MemoryInv, MemoryTyped, Nowhere

\* One that finds its queue held by another's section sleeps until that ends.
LEMMA SleepsKeeps ==
  ASSUME MemoryInv, NEW h \in Handles, busy[h].op \in Operations, Sleeps(h),
         IF busy[h].op = "wait" THEN generations[busy[h].queue] = awaited[h]
         ELSE held[busy[h].queue] \notin {Free, h}
  PROVE  MemoryInv'
<1> USE DEF MemoryInv, Sleeps, store
<1>1. /\ UNCHANGED <<records, generations, held, busy, within, basis, awaited>>
      /\ asleep' = asleep \cup {h}
  OBVIOUS
<1>a. MemoryTyped'
  BY <1>1 DEF MemoryTyped
<1>b. HeldBySection' /\ BodyKnowsLength' /\ BodiesSeeTheirOwn'
  BY <1>1 DEF HeldBySection, HoldsIt, BodyKnowsLength, BodiesSeeTheirOwn
<1>2. InOperation'
  BY BusyWith DEF InOperation, HoldsIt
<1>3. SleepersHaveCause'
  BY DEF SleepersHaveCause
<1> QED BY <1>a, <1>b, <1>2, <1>3

\* An operation that may enter finds no other's section.
LEMMA EntersAlone ==
  ASSUME MemoryInv, NEW h \in Handles, NEW q \in Stores, MayEnter(h, q)
  PROVE  \A k \in Handles : HoldsIt(k, q) => k = h
BY MemoryAssumption DEF MemoryInv, HeldBySection, MayEnter, HoldsIt

LEMMA HeldByOther ==
  ASSUME MemoryInv, NEW h \in Handles, NEW q \in Stores, ~MayEnter(h, q)
  PROVE  held[q] \notin {Free, h}
BY DEF MemoryInv, HeldBySection, MayEnter

\* What a handle appends.
LEMMA AppendOpKeeps ==
  ASSUME MemoryInv, NEW h \in Handles, AppendOp(h)
  PROVE  MemoryInv'
<1> DEFINE q == busy[h].queue
           own == within[h] # <<>> /\ q = within[h][1]
           record == IF own THEN basis[h] + 1 ELSE 0
<1>1. busy[h].op = "append" /\ busy[h].op \in Operations /\ busy[h] # Nowhere /\ h \notin asleep
  BY BusyWith DEF AppendOp, Operations
<1>2. q \in Stores /\ MemoryTyped
  BY <1>1, BusyTyped DEF MemoryInv
<1>3. CASE ~MayEnter(h, q) /\ Sleeps(h)
  BY <1>1, <1>2, <1>3, HeldByOther, SleepsKeeps
<1>4. CASE ~(~MayEnter(h, q) /\ Sleeps(h))
  <2>0. /\ MayEnter(h, q)
        /\ records' = [records EXCEPT ![q] = Append(@, record)]
        /\ basis' = [basis EXCEPT ![h] = IF own THEN Len(records[q]) + 1 ELSE @]
        /\ generations' = [generations EXCEPT ![q] = @ + 1]
        /\ asleep' = {} /\ Returns(h)
        /\ UNCHANGED <<held, within>>
    BY <1>4 DEF AppendOp, Bump, NotifiesAll
  <2>1. own => basis[h] = Len(records[q])
    BY DEF MemoryInv, BodyKnowsLength
  <2>2. /\ records[q] \in Seq(Nat) /\ Len(records[q]) \in Nat
        /\ record \in Nat /\ record \in {0, Len(records[q]) + 1}
    BY <1>2, <2>1 DEF MemoryTyped
  <2> HIDE DEF q, record
  <2>3. /\ records'[q] \in Seq(Nat) /\ Len(records'[q]) = Len(records[q]) + 1
        /\ \A i \in 1..Len(records'[q]) :
             records'[q][i] = IF i <= Len(records[q]) THEN records[q][i] ELSE record
        /\ \A r \in Stores : r # q => records'[r] = records[r]
        /\ records' \in [Stores -> Seq(Nat)]
    <3>1. records'[q] = Append(records[q], record) /\ \A r \in Stores : r # q => records'[r] = records[r]
      BY <1>2, <2>0 DEF MemoryTyped
    <3>2. Append(records[q], record) \in Seq(Nat)
      BY <2>2
    <3>3. records' \in [Stores -> Seq(Nat)]
      BY <1>2, <2>0, <3>2 DEF MemoryTyped
    <3> QED BY <2>2, <3>1, <3>2, <3>3
  <2>4. MemoryTyped'
    <3>1. busy' \in [Handles -> {Nowhere} \cup [op : Operations, queue : Stores]]
      BY <2>0, ReturnsKeeps
    <3>2. generations' \in [Stores -> Nat] /\ basis' \in [Handles -> Int]
      BY <1>2, <2>0, <2>2 DEF MemoryTyped
    <3> QED BY <1>2, <2>0, <2>3, <3>1, <3>2 DEF MemoryTyped
  <2>5. HeldBySection'
    BY <2>0 DEF MemoryInv, HeldBySection, HoldsIt
  <2>6. BodyKnowsLength'
    <3> SUFFICES ASSUME NEW k \in Handles, within[k] # <<>>
                 PROVE  basis'[k] = Len(records'[within[k][1]])
      BY <2>0 DEF BodyKnowsLength
    <3>1. /\ within[k][1] \in Stores /\ HoldsIt(k, within[k][1])
          /\ basis[k] = Len(records[within[k][1]])
      BY <1>2 DEF MemoryTyped, HoldsIt, MemoryInv, BodyKnowsLength
    <3>2. CASE k = h
      BY <1>2, <2>0, <2>3, <3>1, <3>2 DEF MemoryTyped
    <3>3. CASE k # h
      <4>1. within[k][1] # q
        BY <1>2, <2>0, <3>1, <3>3, EntersAlone
      <4> QED BY <1>2, <2>0, <2>3, <3>1, <3>3, <4>1 DEF MemoryTyped
    <3> QED BY <3>2, <3>3
  <2>7. BodiesSeeTheirOwn'
    <3> SUFFICES ASSUME NEW r \in Stores, NEW i \in 1..Len(records'[r])
                 PROVE  records'[r][i] \in {0, i}
      BY DEF BodiesSeeTheirOwn
    <3>1. CASE r = q
      <4>1. CASE i <= Len(records[q])
        <5>1. i \in 1..Len(records[q]) /\ records'[q][i] = records[q][i]
          BY <2>2, <2>3, <3>1, <4>1, SMTT(30)
        <5> QED BY <3>1, <5>1 DEF MemoryInv, BodiesSeeTheirOwn
      <4>2. CASE ~(i <= Len(records[q]))
        BY <2>2, <2>3, <3>1, <4>2
      <4> QED BY <4>1, <4>2
    <3>2. CASE r # q
      BY <2>3, <3>2 DEF MemoryInv, BodiesSeeTheirOwn
    <3> QED BY <3>1, <3>2
  <2>8. InOperation'
    BY <2>0, ReturnsKeeps DEF MemoryInv, InOperation, HoldsIt
  <2>9. SleepersHaveCause'
    BY <2>0 DEF SleepersHaveCause
  <2> QED BY <2>4, <2>5, <2>6, <2>7, <2>8, <2>9 DEF MemoryInv
<1> QED BY <1>3, <1>4

\* A commit, a document, a wait that is over.
LEMMA OtherOpKeeps ==
  ASSUME MemoryInv, NEW h \in Handles, CommitOp(h) \/ ReplaceOp(h) \/ WaitOp(h)
  PROVE  MemoryInv'
<1> DEFINE q == busy[h].queue
<1>1. /\ busy[h].op \in {"commit", "replace", "wait"}
      /\ busy[h].op \in Operations /\ busy[h] # Nowhere /\ h \notin asleep
  BY BusyWith DEF CommitOp, ReplaceOp, WaitOp, Operations
<1>2. q \in Stores /\ MemoryTyped
  BY <1>1, BusyTyped DEF MemoryInv
<1>a. ~(Sleeps(h) /\ Returns(h))
  BY <1>1, <1>2 DEF Sleeps, Returns, MemoryTyped
<1>3. CASE Sleeps(h) /\ WaitOp(h) /\ ~Returns(h)
  <2>1. busy[h].op = "wait" /\ generations[q] = awaited[h]
    BY <1>3 DEF WaitOp
  <2> QED BY <1>1, <1>3, <2>1, SleepsKeeps
<1>4. CASE Sleeps(h) /\ ~MayEnter(h, q) /\ busy[h].op # "wait"
  BY <1>1, <1>2, <1>4, HeldByOther, SleepsKeeps
<1>5. CASE Returns(h) /\ ~Sleeps(h)
  <2>1. /\ UNCHANGED <<records, held, within, basis, awaited>>
        /\ \/ asleep' = {} /\ generations' = [generations EXCEPT ![q] = @ + 1]
           \/ asleep' = asleep /\ generations' = generations
    <3>1. CASE CommitOp(h)
      BY <1>5, <3>1 DEF CommitOp, Bump, NotifiesAll
    <3>2. CASE ReplaceOp(h) \/ WaitOp(h)
      BY <1>5, <3>2 DEF ReplaceOp, WaitOp, store
    <3> QED BY <3>1, <3>2
  <2>2. h \notin asleep'
    BY <1>1, <2>1
  <2>a. /\ busy' \in [Handles -> {Nowhere} \cup [op : Operations, queue : Stores]]
        /\ \A k \in Handles : k # h => busy'[k] = busy[k]
    BY <1>5, <2>2, ReturnsKeeps
  <2>b. asleep' \subseteq asleep /\ generations' \in [Stores -> Nat]
    <3>1. CASE asleep' = {} /\ generations' = [generations EXCEPT ![q] = @ + 1]
      <4> HIDE DEF q
      <4> QED BY <1>2, <3>1 DEF MemoryTyped
    <3>2. CASE asleep' = asleep /\ generations' = generations
      BY <1>2, <3>2 DEF MemoryTyped
    <3> QED BY <2>1, <3>1, <3>2
  <2>3. MemoryTyped'
    BY <1>2, <2>1, <2>a, <2>b DEF MemoryTyped
  <2>4. HeldBySection' /\ BodyKnowsLength' /\ BodiesSeeTheirOwn'
    BY <2>1 DEF MemoryInv, HeldBySection, HoldsIt, BodyKnowsLength, BodiesSeeTheirOwn
  <2>5. InOperation'
    <3>1. busy'[h].op # "exclusive" /\ \A k \in Handles : k # h => busy'[k] = busy[k]
      BY <1>5, <2>2, ReturnsKeeps
    <3>2. \A k \in asleep' : k \in asleep /\ k \in Handles /\ k # h
      BY <1>2, <2>b, <2>2 DEF MemoryTyped
    <3>3. \A k \in asleep' : busy'[k] # Nowhere
      BY <3>1, <3>2 DEF MemoryInv, InOperation
    <3>4. \A k \in Handles : busy'[k].op = "exclusive" => ~HoldsIt(k, busy'[k].queue)
      BY <3>1 DEF MemoryInv, InOperation
    <3> QED BY <2>1, <3>3, <3>4 DEF InOperation, HoldsIt
  <2>6. SleepersHaveCause'
    <3>1. CASE asleep' = {}
      BY <3>1 DEF SleepersHaveCause
    <3>2. CASE asleep' = asleep /\ generations' = generations
      <4>1. \A k \in asleep : k \in Handles /\ k # h /\ busy'[k] = busy[k]
        BY <1>2, <2>2, <2>a, <3>2 DEF MemoryTyped
      <4> QED BY <2>1, <3>2, <4>1 DEF MemoryInv, SleepersHaveCause
    <3> QED BY <2>1, <3>1, <3>2
  <2> QED BY <2>3, <2>4, <2>5, <2>6 DEF MemoryInv
<1> QED BY <1>1, <1>a, <1>3, <1>4, <1>5 DEF CommitOp, ReplaceOp, WaitOp

\* A section is taken, or slept for.
LEMMA ExclusiveKeeps ==
  ASSUME MemoryInv, NEW h \in Handles, Exclusive(h)
  PROVE  MemoryInv'
<1> DEFINE q == busy[h].queue
<1>1. busy[h].op = "exclusive" /\ busy[h].op \in Operations /\ busy[h] # Nowhere /\ h \notin asleep
  BY BusyWith DEF Exclusive, Operations
<1>2. q \in Stores /\ MemoryTyped /\ ~HoldsIt(h, q)
  BY <1>1, BusyTyped DEF MemoryInv, InOperation
<1>3. CASE held[q] # Free /\ Sleeps(h)
  <2>1. held[q] # h
    BY <1>2 DEF MemoryInv, HeldBySection
  <2> QED BY <1>1, <1>3, <2>1, SleepsKeeps
<1>4. CASE ~(held[q] # Free /\ Sleeps(h))
  <2>0. /\ held[q] = Free /\ held' = [held EXCEPT ![q] = h]
        /\ within' = [within EXCEPT ![h] = Append(@, q)]
        /\ basis' = [basis EXCEPT ![h] = IF within[h] = <<>> THEN Len(records[q]) ELSE @]
        /\ Returns(h) /\ UNCHANGED <<records, generations, awaited, asleep>>
    BY <1>4 DEF Exclusive
  <2> HIDE DEF q
  <2>1. /\ within[h] \in Seq(Stores)
        /\ within'[h] = Append(within[h], q) /\ within'[h] \in Seq(Stores)
        /\ Len(within'[h]) = Len(within[h]) + 1 /\ Len(within[h]) \in Nat
        /\ within'[h][Len(within[h]) + 1] = q
        /\ \A i \in 1..Len(within[h]) : within'[h][i] = within[h][i]
        /\ \A k \in Handles : k # h => within'[k] = within[k]
    BY <1>2, <2>0 DEF MemoryTyped
  <2>2. MemoryTyped'
    <3>1. busy' \in [Handles -> {Nowhere} \cup [op : Operations, queue : Stores]]
      BY <1>1, <2>0, ReturnsKeeps
    <3>2. held' \in [Stores -> Handles \cup {Free}] /\ within' \in [Handles -> Seq(Stores)]
      BY <1>2, <2>0, <2>1 DEF MemoryTyped
    <3>3. basis' \in [Handles -> Int]
      BY <1>2, <2>0 DEF MemoryTyped
    <3> QED BY <1>2, <2>0, <3>1, <3>2, <3>3 DEF MemoryTyped
  <2>3. /\ held'[q] = h /\ \A r \in Stores : r # q => held'[r] = held[r]
        /\ \A k \in Handles : ~HoldsIt(k, q)
    <3>1. held'[q] = h /\ \A r \in Stores : r # q => held'[r] = held[r]
      BY <1>2, <2>0 DEF MemoryTyped
    <3>2. \A k \in Handles : ~HoldsIt(k, q)
      BY <2>0, MemoryAssumption DEF MemoryInv, HeldBySection, HoldsIt
    <3> QED BY <3>1, <3>2
  <2>4. HeldBySection'
    <3>1. ASSUME NEW k \in Handles, NEW i \in 1..Len(within'[k])
          PROVE  held'[within'[k][i]] = k
      <4>1. CASE k = h /\ i = Len(within[h]) + 1
        BY <2>1, <2>3, <4>1
      <4>2. CASE ~(k = h /\ i = Len(within[h]) + 1)
        <5>1. i \in 1..Len(within[k]) /\ within'[k][i] = within[k][i]
          BY <2>1, <4>2
        <5>2. within[k][i] \in Stores /\ within[k][i] # q
          BY <1>2, <2>3, <5>1 DEF MemoryTyped, HoldsIt
        <5> QED BY <2>3, <5>1, <5>2 DEF MemoryInv, HeldBySection
      <4> QED BY <4>1, <4>2
    <3>2. ASSUME NEW k \in Handles, NEW i \in 1..Len(within'[k]), NEW j \in 1..Len(within'[k]),
                 within'[k][i] = within'[k][j]
          PROVE  i = j
      <4>1. CASE k # h
        BY <2>1, <3>2, <4>1 DEF MemoryInv, HeldBySection
      <4>2. CASE k = h
        <5>1. ASSUME NEW n \in 1..Len(within[h]) PROVE within'[h][n] = within[h][n] /\ within[h][n] # q
          BY <2>1, <2>3, <5>1 DEF HoldsIt
        <5>2. CASE i \in 1..Len(within[h]) /\ j \in 1..Len(within[h])
          <6>1. within[h][i] = within[h][j]
            BY <3>2, <4>2, <5>1, <5>2
          <6> QED BY <5>2, <6>1 DEF MemoryInv, HeldBySection
        <5>3. CASE ~(i \in 1..Len(within[h]) /\ j \in 1..Len(within[h]))
          <6>1. \A n \in 1..Len(within'[h]) :
                  n \in 1..Len(within[h]) \/ (n = Len(within[h]) + 1 /\ within'[h][n] = q)
            BY <2>1
          <6>2. \A n \in 1..Len(within[h]) : within'[h][n] # q
            BY <5>1
          <6> QED BY <3>2, <4>2, <5>3, <6>1, <6>2
        <5> QED BY <5>2, <5>3
      <4> QED BY <4>1, <4>2
    <3>3. ASSUME NEW r \in Stores, NEW k \in Handles, held'[r] = k PROVE HoldsIt(k, r)'
      <4>1. CASE r = q
        BY <2>1, <2>3, <3>3, <4>1 DEF HoldsIt
      <4>2. CASE r # q
        <5>1. PICK i \in 1..Len(within[k]) : within[k][i] = r
          BY <2>3, <3>3, <4>2 DEF MemoryInv, HeldBySection, HoldsIt
        <5>2. i \in 1..Len(within'[k]) /\ within'[k][i] = r
          BY <2>1, <5>1, SMTT(30)
        <5> QED BY <5>2 DEF HoldsIt
      <4> QED BY <4>1, <4>2
    <3> QED BY <3>1, <3>2, <3>3 DEF HeldBySection
  <2>5. BodyKnowsLength'
    <3> SUFFICES ASSUME NEW k \in Handles, within'[k] # <<>>
                 PROVE  basis'[k] = Len(records[within'[k][1]])
      BY <2>0 DEF BodyKnowsLength
    <3>1. CASE k # h
      BY <1>2, <2>0, <2>1, <3>1 DEF MemoryTyped, MemoryInv, BodyKnowsLength
    <3>2. CASE k = h /\ within[h] = <<>>
      BY <1>2, <2>0, <2>1, <3>2 DEF MemoryTyped
    <3>3. CASE k = h /\ within[h] # <<>>
      <4>1. within'[h][1] = within[h][1]
        BY <2>1, <3>3
      <4> QED BY <1>2, <2>0, <3>3, <4>1 DEF MemoryTyped, MemoryInv, BodyKnowsLength
    <3> QED BY <3>1, <3>2, <3>3
  <2>6. BodiesSeeTheirOwn'
    BY <2>0 DEF MemoryInv, BodiesSeeTheirOwn
  <2>7. InOperation'
    <3>1. ASSUME NEW k \in Handles, busy'[k].op = "exclusive" PROVE ~HoldsIt(k, busy[k].queue)'
      <4>1. k # h /\ busy'[k] = busy[k] /\ within'[k] = within[k]
        BY <1>1, <2>0, <2>1, <3>1, ReturnsKeeps
      <4>2. ~HoldsIt(k, busy[k].queue)
        BY <3>1, <4>1 DEF MemoryInv, InOperation
      <4>3. HoldsIt(k, busy[k].queue)' => HoldsIt(k, busy[k].queue)
        BY <4>1 DEF HoldsIt
      <4> QED BY <4>2, <4>3
    <3>2. ASSUME NEW k \in asleep PROVE busy'[k] # Nowhere
      BY <1>1, <1>2, <2>0, <3>2, ReturnsKeeps DEF MemoryInv, InOperation, MemoryTyped
    <3>3. asleep' = asleep
      BY <2>0
    <3> QED BY <3>1, <3>2, <3>3, Zenon DEF InOperation
  <2>8. SleepersHaveCause'
    <3> SUFFICES ASSUME NEW k \in asleep
                 PROVE  IF busy'[k].op = "wait" THEN generations[busy'[k].queue] = awaited[k]
                        ELSE held'[busy'[k].queue] \notin {Free, k}
      BY <2>0 DEF SleepersHaveCause
    <3>1. k \in Handles /\ k # h /\ busy'[k] = busy[k] /\ busy[k] # Nowhere
      BY <1>1, <1>2, <2>0, ReturnsKeeps DEF MemoryTyped, MemoryInv, InOperation
    <3>2. busy[k].queue \in Stores
      BY <1>2, <3>1, BusyTyped
    <3>3. CASE busy[k].op = "wait"
      BY <3>1, <3>3 DEF MemoryInv, SleepersHaveCause
    <3>4. CASE busy[k].op # "wait"
      <4>1. held[busy[k].queue] \notin {Free, k}
        BY <3>1, <3>4 DEF MemoryInv, SleepersHaveCause
      <4>2. busy[k].queue # q
        BY <2>0, <4>1
      <4> QED BY <2>3, <3>1, <3>2, <3>4, <4>1, <4>2
    <3> QED BY <3>3, <3>4
  <2> QED BY <2>2, <2>4, <2>5, <2>6, <2>7, <2>8 DEF MemoryInv
<1> QED BY <1>3, <1>4

\* A body returns: its section is over, the ones around it are not.
LEMMA LeavesKeeps ==
  ASSUME MemoryInv, NEW h \in Handles, Leaves(h)
  PROVE  MemoryInv'
<1> DEFINE n == Len(within[h])
           q == within[h][n]
<1>0. MemoryTyped /\ HeldBySection /\ within[h] \in Seq(Stores)
  BY DEF MemoryInv, MemoryTyped
<1>1. /\ n \in Nat \ {0} /\ q \in Stores /\ busy[h] = Nowhere /\ asleep' = {}
      /\ held' = [held EXCEPT ![q] = Free]
      /\ within' = [within EXCEPT ![h] = SubSeq(@, 1, n - 1)]
      /\ basis' = [basis EXCEPT ![h] = IF n = 1 THEN -1 ELSE @]
      /\ UNCHANGED <<records, generations, busy>>
  BY <1>0 DEF Leaves, NotifiesAll
<1>2. /\ within'[h] \in Seq(Stores) /\ Len(within'[h]) = n - 1
      /\ \A i \in 1..(n - 1) : within'[h][i] = within[h][i]
      /\ \A k \in Handles : k # h => within'[k] = within[k]
  <2>1. within'[h] = SubSeq(within[h], 1, n - 1) /\ \A k \in Handles : k # h => within'[k] = within[k]
    BY <1>0, <1>1 DEF MemoryTyped
  <2>2. \A i \in 1..(n - 1) : within[h][i] \in Stores
    BY <1>0, <1>1
  <2> QED BY <1>1, <2>1, <2>2, SubSeqProperties
<1>3. \A i \in 1..(n - 1) : within[h][i] # q
  BY <1>0, <1>1 DEF HeldBySection
<1>4. held[q] = h /\ held'[q] = Free /\ \A r \in Stores : r # q => held'[r] = held[r]
  <2>1. n \in 1..Len(within[h])
    BY <1>1
  <2>2. held[q] = h
    BY <1>0, <2>1 DEF HeldBySection
  <2> QED BY <1>0, <1>1, <2>2 DEF MemoryTyped
<1> HIDE DEF n, q
<1>5. MemoryTyped'
  <2>1. within' \in [Handles -> Seq(Stores)] /\ held' \in [Stores -> Handles \cup {Free}]
    <3>1. within' = [within EXCEPT ![h] = within'[h]]
      BY <1>0, <1>1 DEF MemoryTyped
    <3> QED BY <1>0, <1>1, <1>2, <3>1 DEF MemoryTyped
  <2>2. basis' \in [Handles -> Int]
    BY <1>0, <1>1 DEF MemoryTyped
  <2> QED BY <1>0, <1>1, <2>1, <2>2 DEF MemoryTyped
<1>6. ASSUME NEW k \in Handles, NEW i \in 1..Len(within'[k])
      PROVE  /\ i \in 1..Len(within[k]) /\ within'[k][i] = within[k][i]
             /\ within[k][i] \in Stores /\ within[k][i] # q
  <2>1. i \in 1..Len(within[k]) /\ within'[k][i] = within[k][i]
    BY <1>0, <1>1, <1>2 DEF n
  <2>2. within[k][i] \in Stores
    BY <1>0, <2>1 DEF MemoryTyped
  <2>3. CASE k = h
    <3>1. i \in 1..(n - 1)
      BY <1>2, <2>3
    <3> QED BY <1>3, <2>1, <2>2, <2>3, <3>1
  <2>4. CASE k # h
    <3>1. held[within[k][i]] = k
      BY <1>0, <2>1 DEF HeldBySection
    <3> QED BY <1>4, <2>1, <2>2, <2>4, <3>1
  <2> QED BY <2>3, <2>4
<1>7. HeldBySection'
  <2>1. ASSUME NEW k \in Handles, NEW i \in 1..Len(within'[k]), NEW j \in 1..Len(within'[k])
        PROVE  /\ held'[within'[k][i]] = k
               /\ within'[k][i] = within'[k][j] => i = j
    <3>1. held[within[k][i]] = k /\ (within[k][i] = within[k][j] => i = j)
      BY <1>0, <1>6 DEF HeldBySection
    <3> QED BY <1>4, <1>6, <3>1
  <2>2. ASSUME NEW r \in Stores, NEW k \in Handles, held'[r] = k PROVE HoldsIt(k, r)'
    <3>1. r # q /\ held[r] = k
      BY <1>4, <2>2, MemoryAssumption
    <3>2. PICK i \in 1..Len(within[k]) : within[k][i] = r
      BY <1>0, <3>1 DEF HeldBySection, HoldsIt
    <3>3. i \in 1..Len(within'[k]) /\ within'[k][i] = r
      BY <1>1, <1>2, <3>1, <3>2 DEF n, q
    <3> QED BY <3>3 DEF HoldsIt
  <2> QED BY <2>1, <2>2 DEF HeldBySection
<1>8. BodyKnowsLength'
  <2> SUFFICES ASSUME NEW k \in Handles, within'[k] # <<>>
               PROVE  basis'[k] = Len(records[within'[k][1]])
    BY <1>1 DEF BodyKnowsLength
  <2>1. CASE k # h
    BY <1>0, <1>1, <1>2, <2>1 DEF MemoryTyped, MemoryInv, BodyKnowsLength
  <2>2. CASE k = h
    <3>1. n # 1 /\ within'[h][1] = within[h][1] /\ within[h] # <<>>
      BY <1>1, <1>2, <2>2 DEF n
    <3> QED BY <1>0, <1>1, <2>2, <3>1 DEF MemoryTyped, MemoryInv, BodyKnowsLength
  <2> QED BY <2>1, <2>2
<1>9. InOperation'
  <2>1. ASSUME NEW k \in Handles, busy[k].op = "exclusive", HoldsIt(k, busy[k].queue)'
        PROVE  FALSE
    BY <1>1, <1>6, <2>1 DEF MemoryInv, InOperation, HoldsIt
  <2> QED BY <1>1, <2>1 DEF InOperation
<1>10. SleepersHaveCause' /\ BodiesSeeTheirOwn'
  BY <1>1 DEF SleepersHaveCause, BodiesSeeTheirOwn, MemoryInv
<1> QED BY <1>5, <1>7, <1>8, <1>9, <1>10 DEF MemoryInv

LEMMA ExpiresKeeps ==
  ASSUME MemoryInv, NEW h \in Handles, Expires(h)
  PROVE  MemoryInv'
<1>1. /\ UNCHANGED <<records, generations, held, busy, within, basis, awaited>>
      /\ asleep' \subseteq asleep
  BY DEF Expires, store
<1>2. MemoryTyped' /\ HeldBySection' /\ BodyKnowsLength' /\ BodiesSeeTheirOwn'
  BY <1>1 DEF MemoryInv, MemoryTyped, HeldBySection, HoldsIt, BodyKnowsLength, BodiesSeeTheirOwn
<1>3. InOperation' /\ SleepersHaveCause'
  BY <1>1 DEF MemoryInv, InOperation, HoldsIt, SleepersHaveCause
<1> QED BY <1>2, <1>3 DEF MemoryInv

LEMMA MemoryNextInv == MemoryInv /\ [MemoryNext]_memoryVars => MemoryInv'
<1> SUFFICES ASSUME MemoryInv, [MemoryNext]_memoryVars PROVE MemoryInv'
  OBVIOUS
<1>1. CASE MemoryNext
  <2>1. PICK h \in Handles : \/ \E call \in Calls[h] : Begins(h, call[1], call[2])
                             \/ MemoryStep(h) \/ Expires(h)
    BY <1>1 DEF MemoryNext
  <2> QED BY <2>1, BeginsKeeps, AppendOpKeeps, OtherOpKeeps, ExclusiveKeeps, LeavesKeeps,
             ExpiresKeeps DEF MemoryStep
<1>2. CASE UNCHANGED memoryVars
  BY <1>2 DEF memoryVars, store, MemoryInv, MemoryTyped, HeldBySection, HoldsIt,
              BodyKnowsLength, InOperation, SleepersHaveCause, BodiesSeeTheirOwn
<1> QED BY <1>1, <1>2

\* However many threads append, commit, replace, wait and nest sections: who sleeps has
\* cause to, and what a body appends lands where it read that it would (`state_for`,
\* `exclusive_as`, `wait_for_change`).
THEOREM MemorySectionsHold == MemorySpec => []WaitsAndSectionsHold
<1>1. MemoryInv => WaitsAndSectionsHold
  BY DEF MemoryInv, WaitsAndSectionsHold
<1> QED BY <1>1, MemoryInitInv, MemoryNextInv, PTL DEF MemorySpec

----------------------------------------------------------------------------
(* Plugin: the two ends of a pipe. *)

Answers == [is : {"position", "batch", "moved", "unchanged", "done", "error"}, arg : Nat]
Ends == {"end ok", "end failed"}

PluginTyped ==
  /\ log \in [Queues -> Seq(Nat)]
  /\ lock \in [Queues -> Clients \cup {NoOne}]
  /\ plugin \in [Clients -> {"serving", "refused", "gone"}] /\ alive \subseteq Clients
  /\ request \in [Clients -> Lines \cup {NoOne}]
  /\ replies \in [Clients -> Seq(Answers)]
  /\ sections \in [Clients -> Seq(Queues)]
  /\ taking \in [Clients -> Queues \cup {NoOne}]
  /\ held_by \in [Clients -> Threads \cup {NoOne}]
  /\ at \in [Threads -> {"idle", "asking", "reading", "body", "ended"}]
  /\ asked \in [Threads -> Lines \cup {NoOne}]
  /\ holding \in [Threads -> Seq(Queues)]
  /\ seen \in [Threads -> Nat \cup {NoOne}]

\* What a thread may ask where it is: outside every section it expects no place of what
\* it appends, and a body reads and appends to its outermost queue and ends its innermost.
Fits(line, inside) ==
  /\ line \in Lines
  /\ IF inside = <<>>
     THEN line.op \in {"append", "begin", "wait"} /\ (line.op = "append" => line.arg = 0)
     ELSE /\ line.op \in {"append", "read", "begin"} \cup Ends
          /\ line.op \in {"append", "read"} => line.queue = Head(inside)
          /\ line.op = "append" => line.arg # 0
          /\ line.op \in Ends => line.queue = Last(inside)

ThreadFits(t) ==
  /\ at[t] \in {"idle", "ended"} => holding[t] = <<>>
  /\ at[t] = "body" => holding[t] # <<>>
  /\ holding[t] = <<>> => seen[t] = NoOne
  /\ at[t] \in {"asking", "reading"} => Fits(asked[t], holding[t])

\* A section has its client's pipe, and nobody else reads on it.
PipeHeld(t) ==
  /\ holding[t] # <<>> <=> held_by[ClientOf[t]] = t
  /\ at[t] = "reading" => held_by[ClientOf[t]] \in {NoOne, t}
  /\ at[t] = "asking" /\ plugin[ClientOf[t]] = "serving" => holding[t] = <<>>

Answered(c) == replies[c] # <<>>

\* One thread reads, and its line or the reply to it is what is in the pipe.
OneExchange(c) ==
  /\ plugin[c] # "serving" => request[c] = NoOne /\ sections[c] = <<>> /\ taking[c] = NoOne
  /\ c \in alive =>
       /\ \A t, u \in ThreadsOf(c) : at[t] = "reading" /\ at[u] = "reading" => t = u
       /\ Answered(c) \/ request[c] # NoOne => \E t \in ThreadsOf(c) : at[t] = "reading"
       /\ Len(replies[c]) <= 1
       /\ request[c] # NoOne => ~Answered(c)
       /\ \A t \in ThreadsOf(c) : at[t] = "reading" =>
            /\ request[c] \in {NoOne, asked[t]}
            /\ ~Answered(c) /\ plugin[c] = "serving" => request[c] = asked[t]

PipeInv ==
  /\ PluginTyped
  /\ \A t \in Threads : ThreadFits(t) /\ PipeHeld(t)
  /\ \A c \in Clients : OneExchange(c)

\* The sections the plugin of c is in, and about to be in.
Opened(c) == IF taking[c] = NoOne THEN sections[c] ELSE Append(sections[c], taking[c])

\* The sections t will be in once it has read the reply to what it asked.
After(t) == CASE asked[t].op = "begin" -> Append(holding[t], asked[t].queue)
              [] asked[t].op \in Ends -> Front(holding[t])
              [] OTHER -> holding[t]

\* Both ends of the pipe agree on the sections that are open.
Agree(c) ==
  /\ held_by[c] = NoOne /\ ~Answered(c) => Opened(c) = <<>>
  /\ \A t \in ThreadsOf(c) :
       /\ at[t] = "reading" /\ Answered(c) =>
            /\ Opened(c) = After(t)
            /\ asked[t].op = "begin" => Head(replies[c]).is = "done"
       /\ holding[t] # <<>> /\ ~(at[t] = "reading" /\ Answered(c)) => Opened(c) = holding[t]

\* A body knows how long its queue is, but for an append it was not told of yet.
Knows(t) ==
  LET c == ClientOf[t] q == Head(holding[t]) told == at[t] = "reading" /\ Answered(c) IN
  holding[t] # <<>> =>
    /\ seen[t] # NoOne /\ Opened(c) # <<>> => sections[c] # <<>>
    /\ sections[c] # <<>> /\ seen[t] # NoOne
         => \/ seen[t] = Len(log[q])
            \/ told /\ asked[t].op = "append" /\ Head(replies[c]).is = "position"
    /\ told /\ asked[t].op \in {"append", "read"} /\ Head(replies[c]).is \in Expected(asked[t])
         => sections[c] # <<>> /\ Head(replies[c]).arg = Len(log[q])

\* What is expected of an append is still to come, in a section that is open.
StillToCome(c) ==
  request[c] # NoOne /\ request[c].op = "append" /\ request[c].arg # 0 =>
    /\ Has(sections[c], request[c].queue)
    /\ request[c].arg = Len(log[request[c].queue]) + 1

SectionInv ==
  /\ \A c \in Clients, q \in Queues : Has(sections[c], q) => lock[q] = c
  /\ \A c \in alive : plugin[c] = "serving" => Agree(c)
  /\ \A t \in Threads : ClientOf[t] \in alive /\ plugin[ClientOf[t]] = "serving" => Knows(t)
  /\ \A c \in Clients : StillToCome(c)
  /\ SectionsAreAtomic

LEMMA ClientTyped == ASSUME NEW t \in Threads PROVE ClientOf[t] \in Clients
BY PluginAssumption

LEMMA PipeInitInv == PluginInit => PipeInv
<1> SUFFICES ASSUME PluginInit PROVE PipeInv
  OBVIOUS
<1> USE DEF PluginInit
<1>1. PluginTyped
  BY DEF PluginTyped
<1>2. ASSUME NEW t \in Threads PROVE ThreadFits(t) /\ PipeHeld(t)
  <2>1. ClientOf[t] \in Clients /\ NoOne # t
    BY PluginAssumption
  <2> QED BY <2>1 DEF ThreadFits, PipeHeld
<1>3. ASSUME NEW c \in Clients PROVE OneExchange(c)
  BY DEF OneExchange, Answered, ThreadsOf
<1> QED BY <1>1, <1>2, <1>3 DEF PipeInv

\* A step of a thread that has its client's pipe, after which it reads the reply to its
\* line or nobody reads.
LEMMA CallerStepKeeps ==
  ASSUME PipeInv, NEW t \in Threads, NEW c \in alive, c = ClientOf[t],
         UNCHANGED <<plugin, sections, taking, alive>>, PluginTyped',
         \A u \in Threads : u # t => /\ at'[u] = at[u] /\ asked'[u] = asked[u]
                                     /\ holding'[u] = holding[u] /\ seen'[u] = seen[u],
         \A d \in Clients : d # c => /\ request'[d] = request[d] /\ replies'[d] = replies[d]
                                     /\ held_by'[d] = held_by[d],
         \A u \in ThreadsOf(c) : u # t => at[u] # "reading",
         held_by[c] \in {NoOne, t}, held_by'[c] \in {NoOne, t},
         ThreadFits(t)',
         holding'[t] # <<>> <=> held_by'[c] = t,
         at'[t] = "asking" /\ plugin[c] = "serving" => holding'[t] = <<>>,
         replies'[c] = <<>>,
         \/ at'[t] # "reading" /\ request'[c] = NoOne
         \/ at'[t] = "reading" /\ plugin[c] = "serving" /\ request'[c] = asked'[t]
  PROVE  PipeInv'
<1> c \in Clients
  BY ClientTyped
<1>1. ASSUME NEW u \in Threads PROVE ThreadFits(u)' /\ PipeHeld(u)'
  <2>1. CASE u = t
    BY <2>1 DEF PipeHeld
  <2>2. CASE u # t /\ ClientOf[u] = c
    <3>1. u \in ThreadsOf(c) /\ NoOne # u
      BY <2>2, PluginAssumption DEF ThreadsOf
    <3>2. ThreadFits(u) /\ PipeHeld(u)
      BY DEF PipeInv
    <3>3. holding[u] = <<>>
      BY <2>2, <3>1, <3>2 DEF PipeHeld
    <3> QED BY <2>2, <3>1, <3>2, <3>3 DEF PipeHeld, ThreadFits
  <2>3. CASE u # t /\ ClientOf[u] # c
    <3>1. ThreadFits(u) /\ PipeHeld(u) /\ ClientOf[u] \in Clients
      BY ClientTyped DEF PipeInv
    <3> QED BY <2>3, <3>1 DEF PipeHeld, ThreadFits
  <2> QED BY <2>1, <2>2, <2>3
<1>2. ASSUME NEW d \in Clients PROVE OneExchange(d)'
  <2>1. CASE d = c
    <3>1. plugin[c] # "serving" => request'[c] = NoOne /\ sections[c] = <<>> /\ taking[c] = NoOne
      BY DEF PipeInv, OneExchange
    <3>2. \A u \in ThreadsOf(c) : at'[u] = "reading" => u = t
      BY DEF ThreadsOf
    <3>3. t \in ThreadsOf(c)
      BY DEF ThreadsOf
    <3>4. Len(replies'[c]) <= 1 /\ ~Answered(c)'
      BY DEF Answered
    <3> QED BY <2>1, <3>1, <3>2, <3>3, <3>4 DEF OneExchange, ThreadsOf
  <2>2. CASE d # c
    <3>1. OneExchange(d)
      BY DEF PipeInv
    <3>2. \A u \in ThreadsOf(d) : u # t /\ at'[u] = at[u] /\ asked'[u] = asked[u]
      BY <2>2 DEF ThreadsOf
    <3> QED BY <2>2, <3>1, <3>2 DEF OneExchange, Answered, ThreadsOf
  <2> QED BY <2>1, <2>2
<1> QED BY <1>1, <1>2 DEF PipeInv

\* A thread that asks for more than its client has the pipe for reads nothing else's.
LEMMA NobodyElseReads ==
  ASSUME PipeInv, NEW t \in Threads, ClientOf[t] \in alive,
         at[t] = "reading" \/ at[t] = "body" \/ PipeIsFree(t)
  PROVE  /\ \A u \in ThreadsOf(ClientOf[t]) : u # t => at[u] # "reading"
         /\ held_by[ClientOf[t]] \in {NoOne, t}
<1> DEFINE c == ClientOf[t]
<1>1. t \in ThreadsOf(c) /\ c \in Clients /\ OneExchange(c) /\ NoOne # t
  BY ClientTyped, PluginAssumption DEF PipeInv, ThreadsOf
<1>2. ThreadFits(t) /\ PipeHeld(t)
  BY DEF PipeInv
<1>3. CASE at[t] = "reading"
  BY <1>1, <1>2, <1>3 DEF OneExchange, PipeHeld
<1>4. CASE at[t] = "body"
  <2>1. held_by[c] = t
    BY <1>2, <1>4 DEF ThreadFits, PipeHeld
  <2>2. ASSUME NEW u \in ThreadsOf(c), at[u] = "reading" PROVE u = t
    <3>1. u \in Threads /\ ClientOf[u] = c /\ PipeHeld(u)
      BY DEF ThreadsOf, PipeInv
    <3> QED BY <1>1, <2>1, <2>2, <3>1 DEF PipeHeld
  <2> QED BY <2>1, <2>2
<1>5. CASE PipeIsFree(t)
  BY <1>5 DEF PipeIsFree
<1> QED BY <1>3, <1>4, <1>5

\* What a thread makes of the reply to what it asked.
LEMMA AnswersOutcome ==
  ASSUME PipeInv, NEW t \in Threads, at[t] \in {"asking", "reading"},
         NEW reply \in Answers, PluginAnswers(t, reply),
         held_by[ClientOf[t]] \in {NoOne, t}
  PROVE  /\ at' \in [Threads -> {"idle", "asking", "reading", "body", "ended"}]
         /\ asked' \in [Threads -> Lines \cup {NoOne}]
         /\ holding' \in [Threads -> Seq(Queues)]
         /\ seen' \in [Threads -> Nat \cup {NoOne}]
         /\ held_by' \in [Clients -> Threads \cup {NoOne}]
         /\ \A u \in Threads : u # t => /\ at'[u] = at[u] /\ asked'[u] = asked[u]
                                        /\ holding'[u] = holding[u] /\ seen'[u] = seen[u]
         /\ \A d \in Clients : d # ClientOf[t] => held_by'[d] = held_by[d]
         /\ held_by'[ClientOf[t]] \in {NoOne, t}
         /\ at'[t] # "reading" /\ (at'[t] = "asking" => holding'[t] = <<>>)
         /\ holding'[t] # <<>> <=> held_by'[ClientOf[t]] = t
         /\ ThreadFits(t)'
<1> DEFINE c == ClientOf[t] line == asked[t] good == reply.is \in Expected(line)
<1>0. /\ c \in Clients /\ t # NoOne /\ PluginTyped /\ PipeHeld(t) /\ ThreadFits(t)
      /\ holding[t] \in Seq(Queues) /\ seen[t] \in Nat \cup {NoOne} /\ reply.arg \in Nat
  BY ClientTyped, PluginAssumption DEF PipeInv, PluginTyped, Answers
<1>1. line \in Lines /\ line.queue \in Queues /\ Fits(line, holding[t])
  BY <1>0 DEF ThreadFits, Fits, Lines
<1>2. held_by' = [held_by EXCEPT ![c] = HeldAfter(t, good)]
  BY DEF PluginAnswers
<1>3. /\ held_by[c] = t \/ held_by[c] = NoOne
      /\ holding[t] # <<>> <=> held_by[c] = t
      /\ holding[t] = <<>> => seen[t] = NoOne
  BY <1>0 DEF PipeHeld, ThreadFits
<1> DEFINE Settled(left, length) ==
      /\ at' = [at EXCEPT ![t] = IF left = <<>> THEN "idle" ELSE "body"]
      /\ asked' = [asked EXCEPT ![t] = NoOne]
      /\ holding' = [holding EXCEPT ![t] = left]
      /\ seen' = [seen EXCEPT ![t] = IF left = <<>> THEN NoOne ELSE length]
      /\ HeldAfter(t, good) = IF left = <<>> THEN NoOne ELSE t
<1>4. ASSUME NEW left \in Seq(Queues), NEW length \in Nat \cup {NoOne}, Settled(left, length)
      PROVE  /\ at' \in [Threads -> {"idle", "asking", "reading", "body", "ended"}]
             /\ asked' \in [Threads -> Lines \cup {NoOne}]
             /\ holding' \in [Threads -> Seq(Queues)]
             /\ seen' \in [Threads -> Nat \cup {NoOne}]
             /\ held_by' \in [Clients -> Threads \cup {NoOne}]
             /\ \A u \in Threads : u # t => /\ at'[u] = at[u] /\ asked'[u] = asked[u]
                                            /\ holding'[u] = holding[u] /\ seen'[u] = seen[u]
             /\ \A d \in Clients : d # c => held_by'[d] = held_by[d]
             /\ held_by'[c] \in {NoOne, t}
             /\ at'[t] # "reading" /\ (at'[t] = "asking" => holding'[t] = <<>>)
             /\ holding'[t] # <<>> <=> held_by'[c] = t
             /\ ThreadFits(t)'
  <2> HIDE DEF good, line
  <2>1. /\ at' \in [Threads -> {"idle", "asking", "reading", "body", "ended"}]
        /\ asked' \in [Threads -> Lines \cup {NoOne}]
        /\ holding' \in [Threads -> Seq(Queues)]
        /\ seen' \in [Threads -> Nat \cup {NoOne}]
        /\ held_by' \in [Clients -> Threads \cup {NoOne}]
    BY <1>0, <1>2, <1>4 DEF PluginTyped
  <2>2. /\ \A u \in Threads : u # t => /\ at'[u] = at[u] /\ asked'[u] = asked[u]
                                       /\ holding'[u] = holding[u] /\ seen'[u] = seen[u]
        /\ \A d \in Clients : d # c => held_by'[d] = held_by[d]
    BY <1>0, <1>2, <1>4 DEF PluginTyped
  <2>3. /\ at'[t] = IF left = <<>> THEN "idle" ELSE "body"
        /\ holding'[t] = left
        /\ seen'[t] = IF left = <<>> THEN NoOne ELSE length
        /\ held_by'[c] = IF left = <<>> THEN NoOne ELSE t
    BY <1>0, <1>2, <1>4 DEF PluginTyped
  <2>4. ThreadFits(t)'
    BY <2>3 DEF ThreadFits
  <2> QED BY <1>0, <2>1, <2>2, <2>3, <2>4
<1>5. CASE line.op = "begin"
  <2>1. PICK left : /\ left = IF good THEN Append(holding[t], line.queue) ELSE holding[t]
                    /\ Back(t, left, ~good, seen[t])
    BY <1>5 DEF PluginAnswers
  <2>2. left \in Seq(Queues) /\ (good => left # <<>>)
    BY <1>0, <1>1, <2>1
  <2>3. HeldAfter(t, good) = IF good THEN t ELSE held_by[c]
    BY <1>5 DEF HeldAfter
  <2>4. Settled(left, seen[t])
    BY <1>3, <2>1, <2>2, <2>3 DEF Back
  <2> HIDE DEF Settled
  <2> QED BY <1>0, <1>4, <2>2, <2>4
<1>6. CASE line.op \in Ends
  <2>1. Back(t, Front(holding[t]), ~good, seen[t])
    BY <1>6 DEF PluginAnswers, Ends
  <2>2. holding[t] # <<>>
    BY <1>1, <1>6 DEF Fits, Ends
  <2>3. /\ Front(holding[t]) \in Seq(Queues)
        /\ Front(holding[t]) = <<>> <=> Len(holding[t]) = 1
    <3>1. \A i \in 1..(Len(holding[t]) - 1) : holding[t][i] \in Queues
      BY <1>0
    <3>2. /\ Front(holding[t]) \in Seq(Queues)
          /\ Len(Front(holding[t])) = IF 1 <= Len(holding[t]) - 1 THEN Len(holding[t]) - 1 ELSE 0
      BY <1>0, <3>1, SubSeqProperties DEF Front
    <3>3. Front(holding[t]) = <<>> <=> Len(Front(holding[t])) = 0
      BY <3>2, EmptySeq
    <3>4. Len(holding[t]) \in Nat /\ Len(holding[t]) # 0
      BY <1>0, <2>2, EmptySeq, LenProperties
    <3> DEFINE inner == Len(Front(holding[t])) outer == Len(holding[t])
    <3>5. inner = (IF 1 <= outer - 1 THEN outer - 1 ELSE 0) /\ outer \in Nat /\ outer # 0
      BY <3>2, <3>4
    <3> HIDE DEF inner, outer
    <3>6. inner = 0 <=> outer = 1
      BY <3>5
    <3> QED BY <3>2, <3>3, <3>6 DEF inner, outer
  <2>4. HeldAfter(t, good) = IF Len(holding[t]) = 1 THEN NoOne ELSE held_by[c]
    BY <1>6 DEF HeldAfter, Ends
  <2>5. Settled(Front(holding[t]), seen[t])
    BY <1>3, <2>1, <2>2, <2>3, <2>4 DEF Back
  <2> HIDE DEF Settled
  <2> QED BY <1>0, <1>4, <2>3, <2>5
<1>7. CASE line.op \in {"append", "read"}
  <2>1. PICK length \in Nat \cup {NoOne} : Back(t, holding[t], ~good, length)
    BY <1>0, <1>7 DEF PluginAnswers
  <2>2. HeldAfter(t, good) = held_by[c]
    BY <1>7 DEF HeldAfter
  <2>3. Settled(holding[t], length)
    BY <1>3, <2>1, <2>2 DEF Back
  <2> HIDE DEF Settled
  <2> QED BY <1>0, <1>4, <2>1, <2>3
<1>8. CASE line.op = "wait"
  <2>1. HeldAfter(t, good) = held_by[c]
    BY <1>8 DEF HeldAfter
  <2>2. holding[t] = <<>>
    BY <1>1, <1>8 DEF Fits, Ends
  <2>3. CASE Back(t, holding[t], ~good, seen[t])
    <3>1. Settled(holding[t], seen[t])
      BY <1>3, <2>1, <2>3 DEF Back
    <3> HIDE DEF Settled
    <3> QED BY <1>0, <1>4, <3>1
  <2>4. CASE at' = [at EXCEPT ![t] = "asking"] /\ UNCHANGED <<holding, failed, seen, asked>>
    <3>1. UNCHANGED held_by
      BY <1>0, <1>2, <2>1 DEF PluginTyped
    <3> QED BY <1>0, <1>1, <1>3, <2>2, <2>4, <3>1 DEF PluginTyped, ThreadFits
  <2> QED BY <1>8, <2>3, <2>4 DEF PluginAnswers
<1> QED BY <1>1, <1>5, <1>6, <1>7, <1>8 DEF Fits, Ends

\* A thread calls from outside every section.
LEMMA CallKeeps ==
  ASSUME PipeInv, NEW t \in Threads, Call(t)
  PROVE  PipeInv'
<1>1. PICK use \in Uses[t] :
        Asks(t, Ask(use[1], use[2], IF use[1] = "wait" THEN Len(log[use[2]]) ELSE 0))
  BY DEF Call
<1> DEFINE line == Ask(use[1], use[2], IF use[1] = "wait" THEN Len(log[use[2]]) ELSE 0)
<1>2. use[1] \in {"append", "begin", "wait"} /\ use[2] \in Queues
  BY PluginAssumption
<1>3. PluginTyped /\ ThreadFits(t) /\ at[t] = "idle" /\ holding[t] = <<>>
  BY DEF PipeInv, Call, ThreadFits
<1>4. Len(log[use[2]]) \in Nat
  BY <1>2, <1>3 DEF PluginTyped
<1>5. Fits(line, <<>>) /\ line \in Lines
  <2>1. line \in Lines /\ line.op = use[1] /\ (use[1] # "wait" => line.arg = 0)
    BY <1>2, <1>4 DEF Ask, Lines
  <2> QED BY <1>2, <2>1 DEF Fits
<1>6. /\ at' = [at EXCEPT ![t] = "asking"] /\ asked' = [asked EXCEPT ![t] = line]
      /\ UNCHANGED <<log, lock, plugin, request, replies, sections, taking, alive, held_by,
                     holding, seen>>
  BY <1>1 DEF Call, Asks, serving
<1> HIDE DEF line
<1>7. PluginTyped'
  BY <1>3, <1>5, <1>6 DEF PluginTyped
<1>8. /\ at'[t] = "asking" /\ asked'[t] = line
      /\ \A u \in Threads : u # t => at'[u] = at[u] /\ asked'[u] = asked[u]
  BY <1>3, <1>6 DEF PluginTyped
<1>9. ASSUME NEW u \in Threads PROVE ThreadFits(u)' /\ PipeHeld(u)'
  <2>1. ThreadFits(u) /\ PipeHeld(u)
    BY DEF PipeInv
  <2>2. CASE u = t
    BY <1>3, <1>5, <1>6, <1>8, <2>1, <2>2 DEF ThreadFits, PipeHeld
  <2>3. CASE u # t
    BY <1>6, <1>8, <2>1, <2>3 DEF ThreadFits, PipeHeld
  <2> QED BY <2>2, <2>3
<1>10. ASSUME NEW c \in Clients PROVE OneExchange(c)'
  <2>1. OneExchange(c)
    BY DEF PipeInv
  <2>2. \A u \in ThreadsOf(c) : u \in Threads /\ (at'[u] = "reading" <=> at[u] = "reading")
                                /\ (at[u] = "reading" => asked'[u] = asked[u])
    BY <1>3, <1>8 DEF ThreadsOf
  <2> QED BY <1>6, <2>1, <2>2 DEF OneExchange, Answered, ThreadsOf
<1> QED BY <1>7, <1>9, <1>10 DEF PipeInv

\* Its line is written.
LEMMA WriteKeeps ==
  ASSUME PipeInv, NEW t \in Threads, Write(t)
  PROVE  PipeInv'
<1> DEFINE c == ClientOf[t]
<1>1. /\ c \in alive /\ c \in Clients /\ plugin[c] = "serving" /\ at[t] = "asking"
      /\ PluginTyped /\ ThreadFits(t) /\ PipeHeld(t) /\ OneExchange(c) /\ PipeIsFree(t)
  BY ClientTyped DEF Write, PipeInv
<1>2. /\ at' = [at EXCEPT ![t] = "reading"] /\ request' = [request EXCEPT ![c] = asked[t]]
      /\ UNCHANGED <<log, lock, plugin, replies, sections, taking, alive, held_by, asked,
                     holding, seen>>
  BY DEF Write
<1>3. /\ \A u \in ThreadsOf(c) : u # t => at[u] # "reading"
      /\ held_by[c] \in {NoOne, t}
  BY <1>1, NobodyElseReads
<1>4. asked[t] \in Lines /\ Fits(asked[t], holding[t])
  BY <1>1 DEF ThreadFits, Fits
<1>5. PluginTyped'
  BY <1>1, <1>2, <1>4 DEF PluginTyped
<1>6. /\ at'[t] = "reading" /\ request'[c] = asked[t]
      /\ \A u \in Threads : u # t => at'[u] = at[u]
      /\ \A d \in Clients : d # c => request'[d] = request[d]
  BY <1>1, <1>2 DEF PluginTyped
<1>7. replies[c] = <<>>
  <2>1. \A u \in ThreadsOf(c) : at[u] # "reading"
    BY <1>1, <1>3
  <2> QED BY <1>1, <2>1 DEF OneExchange, Answered
<1>8. ThreadFits(t)'
  BY <1>1, <1>2, <1>4, <1>6 DEF ThreadFits
<1>9. holding[t] # <<>> <=> held_by[c] = t
  BY <1>1 DEF PipeHeld
<1> HIDE DEF c
<1>10. c = ClientOf[t]
  BY DEF c
<1> QED BY <1>1, <1>2, <1>3, <1>5, <1>6, <1>7, <1>8, <1>9, <1>10, CallerStepKeeps

\* It reads the reply, or finds its plugin gone.
LEMMA ReadKeeps ==
  ASSUME PipeInv, NEW t \in Threads, Read(t) \/ FindsItGone(t)
  PROVE  PipeInv'
<1> DEFINE c == ClientOf[t]
<1>1. /\ c \in alive /\ c \in Clients /\ at[t] \in {"asking", "reading"}
      /\ PluginTyped /\ ThreadFits(t) /\ PipeHeld(t) /\ OneExchange(c)
      /\ UNCHANGED <<log, lock, plugin, request, sections, taking, alive>>
  BY ClientTyped DEF Read, FindsItGone, PipeInv, serving
<1>2. /\ \A u \in ThreadsOf(c) : u # t => at[u] # "reading"
      /\ held_by[c] \in {NoOne, t}
  BY <1>1, NobodyElseReads DEF Read, FindsItGone
<1>3. t \in ThreadsOf(c) /\ replies[c] \in Seq(Answers)
  BY <1>1 DEF ThreadsOf, PluginTyped
<1>4. PICK reply \in Answers : PluginAnswers(t, reply)
  <2>1. CASE Read(t)
    <3>1. Head(replies[c]) \in Answers
      BY <1>3, <2>1, HeadTailProperties DEF Read
    <3> QED BY <2>1, <3>1 DEF Read
  <2>2. CASE FindsItGone(t)
    <3>1. Reply("error", 0) \in Answers
      BY DEF Reply, Answers
    <3> QED BY <2>2, <3>1 DEF FindsItGone
  <2> QED BY <2>1, <2>2
<1>5. /\ replies'[c] = <<>> /\ request[c] = NoOne /\ replies' \in [Clients -> Seq(Answers)]
      /\ \A d \in Clients : d # c => replies'[d] = replies[d]
  <2>1. CASE Read(t)
    <3>1. replies[c] # <<>> /\ replies' = [replies EXCEPT ![c] = Tail(@)] /\ request[c] = NoOne
      BY <1>1, <2>1 DEF Read, OneExchange, Answered
    <3>2. Len(replies[c]) <= 1
      BY <1>1 DEF OneExchange
    <3>3. Tail(replies[c]) = <<>>
      <4>1. Tail(replies[c]) \in Seq(Answers) /\ Len(Tail(replies[c])) = Len(replies[c]) - 1
        BY <1>3, <3>1, HeadTailProperties
      <4>2. Len(replies[c]) \in Nat /\ Len(Tail(replies[c])) \in Nat
        BY <1>3, <4>1, LenProperties
      <4> DEFINE n == Len(replies[c]) m == Len(Tail(replies[c]))
      <4>a. n <= 1 /\ m = n - 1 /\ n \in Nat /\ m \in Nat
        BY <3>2, <4>1, <4>2
      <4> HIDE DEF n, m
      <4>b. m = 0
        BY <4>a
      <4>3. Len(Tail(replies[c])) = 0
        BY <4>b DEF m
      <4> QED BY <4>1, <4>3, EmptySeq
    <3>4. <<>> \in Seq(Answers)
      OBVIOUS
    <3> QED BY <1>1, <3>1, <3>3, <3>4 DEF PluginTyped
  <2>2. CASE FindsItGone(t)
    <3>1. plugin[c] = "gone" /\ replies' = replies /\ (at[t] = "reading" => replies[c] = <<>>)
      BY <2>2 DEF FindsItGone, serving
    <3>2. at[t] = "asking" => replies[c] = <<>>
      BY <1>1, <1>2, <1>3 DEF OneExchange, Answered
    <3> QED BY <1>1, <3>1, <3>2 DEF PluginTyped, OneExchange
  <2> QED BY <2>1, <2>2
<1>6. /\ at' \in [Threads -> {"idle", "asking", "reading", "body", "ended"}]
      /\ asked' \in [Threads -> Lines \cup {NoOne}]
      /\ holding' \in [Threads -> Seq(Queues)]
      /\ seen' \in [Threads -> Nat \cup {NoOne}]
      /\ held_by' \in [Clients -> Threads \cup {NoOne}]
      /\ \A u \in Threads : u # t => /\ at'[u] = at[u] /\ asked'[u] = asked[u]
                                     /\ holding'[u] = holding[u] /\ seen'[u] = seen[u]
      /\ \A d \in Clients : d # c => held_by'[d] = held_by[d]
      /\ held_by'[c] \in {NoOne, t}
      /\ at'[t] # "reading" /\ (at'[t] = "asking" => holding'[t] = <<>>)
      /\ holding'[t] # <<>> <=> held_by'[c] = t
      /\ ThreadFits(t)'
  BY <1>1, <1>2, <1>4, AnswersOutcome
<1>7. PluginTyped'
  BY <1>1, <1>5, <1>6 DEF PluginTyped
<1> HIDE DEF c
<1>8. c = ClientOf[t] /\ c \in alive
  BY <1>1 DEF c
<1>9. \A d \in Clients : d # c => /\ request'[d] = request[d] /\ replies'[d] = replies[d]
                                 /\ held_by'[d] = held_by[d]
  BY <1>1, <1>5, <1>6
<1>10. /\ at'[t] # "reading" /\ request'[c] = NoOne /\ replies'[c] = <<>>
       /\ held_by'[c] \in {NoOne, t} /\ (holding'[t] # <<>> <=> held_by'[c] = t)
       /\ (at'[t] = "asking" /\ plugin[c] = "serving" => holding'[t] = <<>>)
  BY <1>1, <1>5, <1>6
<1>11. /\ \A u \in Threads : u # t => /\ at'[u] = at[u] /\ asked'[u] = asked[u]
                                     /\ holding'[u] = holding[u] /\ seen'[u] = seen[u]
       /\ UNCHANGED <<plugin, sections, taking, alive>> /\ ThreadFits(t)'
  BY <1>1, <1>6
<1> QED BY <1>2, <1>7, <1>8, <1>9, <1>10, <1>11, CallerStepKeeps

\* What a body says fits its sections.
LEMMA BodySays ==
  ASSUME PipeInv, NEW t \in Threads, Body(t)
  PROVE  \E line \in Lines :
           /\ Fits(line, holding[t])
           /\ line.op = "append" => seen[t] # NoOne /\ line.arg = seen[t] + 1
           /\ asked' = [asked EXCEPT ![t] = line]
           /\ at' = [at EXCEPT ![t] = IF plugin[ClientOf[t]] = "serving" THEN "reading"
                                     ELSE "asking"]
           /\ request' = [request EXCEPT ![ClientOf[t]] =
                            IF plugin[ClientOf[t]] = "serving" THEN line ELSE @]
<1> DEFINE Says(line) ==
      /\ asked' = [asked EXCEPT ![t] = line]
      /\ at' = [at EXCEPT ![t] = IF plugin[ClientOf[t]] = "serving" THEN "reading" ELSE "asking"]
      /\ request' = [request EXCEPT ![ClientOf[t]] =
                       IF plugin[ClientOf[t]] = "serving" THEN line ELSE @]
<1>1. /\ holding[t] \in Seq(Queues) /\ holding[t] # <<>> /\ seen[t] \in Nat \cup {NoOne}
  BY DEF PipeInv, PluginTyped, ThreadFits, Body
<1>2. Head(holding[t]) \in Queues /\ Last(holding[t]) \in Queues
  <2>1. Len(holding[t]) \in 1..Len(holding[t])
    BY <1>1, EmptySeq, LenProperties
  <2>2. holding[t][Len(holding[t])] \in Queues
    BY <1>1, <2>1, ElementOfSeq
  <2> QED BY <1>1, <2>2, HeadTailProperties DEF Last
<1>3. \/ Says(Ask("read", Head(holding[t]), 0))
      \/ seen[t] # NoOne /\ Says(Ask("append", Head(holding[t]), seen[t] + 1))
      \/ \E r \in Queues : Says(Ask("begin", r, 0))
      \/ \E op \in Ends : Says(Ask(op, Last(holding[t]), 0))
  <2> HIDE DEF Ends
  <2>1. \E op \in Ends : op = IF failed[t] THEN "end failed" ELSE "end ok"
    BY DEF Ends
  <2> QED BY <2>1 DEF Body
<1> HIDE DEF Says
<1>4. CASE Says(Ask("read", Head(holding[t]), 0))
  <2>1. Ask("read", Head(holding[t]), 0) \in Lines /\ Fits(Ask("read", Head(holding[t]), 0), holding[t])
    BY <1>1, <1>2 DEF Ask, Lines, Fits, Ends
  <2> QED BY <1>4, <2>1 DEF Says, Ask
<1>5. CASE seen[t] # NoOne /\ Says(Ask("append", Head(holding[t]), seen[t] + 1))
  <2>1. seen[t] + 1 \in Nat /\ seen[t] + 1 # 0
    BY <1>1, <1>5
  <2>2. /\ Ask("append", Head(holding[t]), seen[t] + 1) \in Lines
        /\ Fits(Ask("append", Head(holding[t]), seen[t] + 1), holding[t])
    BY <1>1, <1>2, <2>1 DEF Ask, Lines, Fits, Ends
  <2> QED BY <1>5, <2>2 DEF Says, Ask
<1>6. CASE \E r \in Queues : Says(Ask("begin", r, 0))
  <2>1. PICK r \in Queues : Says(Ask("begin", r, 0))
    BY <1>6
  <2>2. Ask("begin", r, 0) \in Lines /\ Fits(Ask("begin", r, 0), holding[t])
    BY <1>1, <1>2 DEF Ask, Lines, Fits, Ends
  <2> QED BY <2>1, <2>2 DEF Says, Ask
<1>7. CASE \E op \in Ends : Says(Ask(op, Last(holding[t]), 0))
  <2>1. PICK op \in Ends : Says(Ask(op, Last(holding[t]), 0))
    BY <1>7
  <2>2. Ask(op, Last(holding[t]), 0) \in Lines /\ Fits(Ask(op, Last(holding[t]), 0), holding[t])
    BY <1>1, <1>2 DEF Ask, Lines, Fits, Ends
  <2> QED BY <2>1, <2>2 DEF Says, Ask, Ends
<1> QED BY <1>3, <1>4, <1>5, <1>6, <1>7

LEMMA BodyKeeps ==
  ASSUME PipeInv, NEW t \in Threads, Body(t)
  PROVE  PipeInv'
<1> DEFINE c == ClientOf[t]
<1>1. /\ c \in alive /\ c \in Clients /\ at[t] = "body"
      /\ PluginTyped /\ ThreadFits(t) /\ PipeHeld(t) /\ OneExchange(c)
      /\ UNCHANGED <<log, lock, plugin, replies, sections, taking, alive, held_by, holding, seen>>
  BY ClientTyped DEF Body, PipeInv
<1>2. PICK line \in Lines :
        /\ Fits(line, holding[t])
        /\ asked' = [asked EXCEPT ![t] = line]
        /\ at' = [at EXCEPT ![t] = IF plugin[c] = "serving" THEN "reading" ELSE "asking"]
        /\ request' = [request EXCEPT ![c] = IF plugin[c] = "serving" THEN line ELSE @]
  BY BodySays
<1>3. /\ \A u \in ThreadsOf(c) : u # t => at[u] # "reading"
      /\ held_by[c] \in {NoOne, t}
  BY <1>1, NobodyElseReads
<1>4. PluginTyped'
  BY <1>1, <1>2 DEF PluginTyped
<1>5. /\ at'[t] = IF plugin[c] = "serving" THEN "reading" ELSE "asking"
      /\ asked'[t] = line
      /\ request'[c] = IF plugin[c] = "serving" THEN line ELSE request[c]
      /\ \A u \in Threads : u # t => at'[u] = at[u] /\ asked'[u] = asked[u]
      /\ \A d \in Clients : d # c => request'[d] = request[d]
  BY <1>1, <1>2 DEF PluginTyped
<1>6. replies[c] = <<>> /\ (plugin[c] # "serving" => request[c] = NoOne)
  <2>1. \A u \in ThreadsOf(c) : at[u] # "reading"
    BY <1>1, <1>3
  <2> QED BY <1>1, <2>1 DEF OneExchange, Answered
<1>7. ThreadFits(t)'
  BY <1>1, <1>2, <1>5 DEF ThreadFits
<1>8. holding[t] # <<>> <=> held_by[c] = t
  BY <1>1 DEF PipeHeld
<1> HIDE DEF c
<1>9. c = ClientOf[t]
  BY DEF c
<1> QED BY <1>1, <1>3, <1>4, <1>5, <1>6, <1>7, <1>8, <1>9, CallerStepKeeps

\* A step of one client's plugin.
LEMMA PluginStepKeeps ==
  ASSUME PipeInv, NEW c \in Clients, PluginTyped',
         UNCHANGED <<alive, at, asked, holding, seen, held_by>>,
         \A d \in Clients : d # c =>
           /\ plugin'[d] = plugin[d] /\ request'[d] = request[d] /\ replies'[d] = replies[d]
           /\ sections'[d] = sections[d] /\ taking'[d] = taking[d],
         plugin'[c] = "serving" => plugin[c] = "serving",
         OneExchange(c)'
  PROVE  PipeInv'
<1>1. ASSUME NEW t \in Threads PROVE ThreadFits(t)' /\ PipeHeld(t)'
  <2>1. ThreadFits(t) /\ PipeHeld(t) /\ ClientOf[t] \in Clients
    BY ClientTyped DEF PipeInv
  <2> QED BY <2>1 DEF ThreadFits, PipeHeld
<1>2. ASSUME NEW d \in Clients, d # c PROVE OneExchange(d)'
  BY <1>2 DEF PipeInv, OneExchange, Answered, ThreadsOf
<1> QED BY <1>1, <1>2 DEF PipeInv

\* A request is served: its reply takes its place in the pipe, whatever the plugin does
\* to the queues.
LEMMA ServedKeeps ==
  ASSUME PipeInv, NEW c \in Clients, NEW reply \in Answers,
         request[c] # NoOne, Served(c, reply),
         UNCHANGED <<plugin, calling, alive, held_by>>,
         log' \in [Queues -> Seq(Nat)], lock' \in [Queues -> Clients \cup {NoOne}],
         sections' \in [Clients -> Seq(Queues)], taking' \in [Clients -> Queues \cup {NoOne}],
         \A d \in Clients : d # c => sections'[d] = sections[d] /\ taking'[d] = taking[d]
  PROVE  /\ PipeInv'
         /\ request'[c] = NoOne /\ (c \in alive => replies[c] = <<>> /\ replies'[c] = <<reply>>)
         /\ \A d \in Clients : d # c => request'[d] = request[d] /\ replies'[d] = replies[d]
<1>1. PluginTyped /\ OneExchange(c) /\ plugin[c] = "serving"
  BY DEF PipeInv, OneExchange
<1>2. /\ request'[c] = NoOne
      /\ \A d \in Clients : d # c => request'[d] = request[d] /\ replies'[d] = replies[d]
      /\ request' \in [Clients -> Lines \cup {NoOne}]
  BY <1>1 DEF Served, PluginTyped
<1>3. c \in alive => replies[c] = <<>> /\ replies'[c] = <<reply>>
  <2> SUFFICES ASSUME c \in alive PROVE replies[c] = <<>> /\ replies'[c] = <<reply>>
    OBVIOUS
  <2>1. replies[c] = <<>>
    BY <1>1 DEF OneExchange, Answered
  <2>2. replies'[c] = Append(replies[c], reply)
    BY <1>1 DEF Served, PluginTyped
  <2>3. Append(<<>>, reply) = <<reply>>
    OBVIOUS
  <2> QED BY <2>1, <2>2, <2>3
<1>4. replies' \in [Clients -> Seq(Answers)]
  <2>1. replies[c] \in Seq(Answers) /\ Append(replies[c], reply) \in Seq(Answers)
    BY <1>1, AppendProperties DEF PluginTyped
  <2> QED BY <1>1, <2>1 DEF Served, PluginTyped
<1>5. PluginTyped'
  BY <1>1, <1>2, <1>4 DEF PluginTyped, calling
<1>6. OneExchange(c)'
  <2>1. c \in alive => \E t \in ThreadsOf(c) : at[t] = "reading"
    BY <1>1 DEF OneExchange
  <2>2. c \in alive => Len(replies'[c]) <= 1 /\ Answered(c)'
    <3> SUFFICES ASSUME c \in alive PROVE Len(replies'[c]) <= 1 /\ replies'[c] # <<>>
      BY DEF Answered
    <3>1. replies'[c] = <<reply>>
      BY <1>3
    <3> QED BY <3>1
  <2> QED BY <1>1, <1>2, <2>1, <2>2 DEF OneExchange, ThreadsOf, calling
<1>7. PipeInv'
  BY <1>2, <1>5, <1>6, PluginStepKeeps DEF calling
<1> QED BY <1>2, <1>3, <1>7

LEMMA FrontTyped ==
  ASSUME NEW S, NEW s \in Seq(S)
  PROVE  /\ Front(s) \in Seq(S)
         /\ s # <<>> => /\ Len(Front(s)) = Len(s) - 1
                        /\ \A i \in 1..(Len(s) - 1) : Front(s)[i] = s[i]
<1>1. \A i \in 1..(Len(s) - 1) : s[i] \in S
  BY ElementOfSeq
<1>2. Len(s) \in Nat /\ (s # <<>> => Len(s) # 0)
  BY LenProperties, EmptySeq
<1>3. /\ Front(s) \in Seq(S)
      /\ Len(Front(s)) = IF 1 <= Len(s) - 1 THEN (Len(s) - 1) - 1 + 1 ELSE 0
      /\ \A i \in 1..(Len(s) - 1 - 1 + 1) : Front(s)[i] = s[1 + i - 1]
  BY <1>1, <1>2, SubSeqProperties DEF Front
<1> DEFINE n == Len(s) m == Len(Front(s))
<1>4. n \in Nat /\ (s # <<>> => n # 0) /\ m = IF 1 <= n - 1 THEN (n - 1) - 1 + 1 ELSE 0
  BY <1>2, <1>3
<1>5. \A i \in 1..(n - 1 - 1 + 1) : Front(s)[i] = s[1 + i - 1]
  BY <1>3
<1> HIDE DEF n, m
<1>6. /\ \A i \in 1..(n - 1) : Front(s)[i] = s[i]
      /\ s # <<>> => m = n - 1
  BY <1>4, <1>5
<1> QED BY <1>3, <1>6 DEF n, m

\* The kinds of service: what each makes of the queues and replies.
LEMMA ServeKeeps ==
  ASSUME PipeInv, NEW c \in Clients, PluginTyped,
         \/ ServeAppend(c) \/ RefuseAppend(c) \/ ServeRead(c) \/ ServeWait(c) \/ ServeBegin(c)
         \/ \E op \in Ends : ServeEnd(c, op)
  PROVE  /\ PipeInv' /\ request[c] \in Lines /\ request[c] # NoOne
         /\ plugin[c] = "serving" /\ taking[c] = NoOne
         /\ UNCHANGED <<plugin, calling, alive, held_by>>
         /\ request'[c] = NoOne
         /\ \A d \in Clients : d # c => /\ request'[d] = request[d] /\ replies'[d] = replies[d]
                                        /\ sections'[d] = sections[d] /\ taking'[d] = taking[d]
         /\ c \in alive => replies[c] = <<>>
<1>1. /\ request[c] \in Lines /\ request[c] # NoOne /\ plugin[c] = "serving" /\ taking[c] = NoOne
      /\ UNCHANGED <<plugin, calling, alive, held_by>>
  BY DEF PluginTyped, ServeAppend, RefuseAppend, ServeRead, ServeWait, ServeBegin, ServeEnd, Reads
<1>2. request[c].queue \in Queues /\ request[c].arg \in Nat
  BY <1>1 DEF Lines
<1>3. PICK reply \in Answers : Served(c, reply)
  <2>1. Len(log[request[c].queue]) \in Nat
    BY <1>2 DEF PluginTyped
  <2>2. \A is \in {"position", "batch", "moved", "unchanged", "done", "error"} :
          \A n \in Nat : Reply(is, n) \in Answers
    BY DEF Reply, Answers
  <2>3. CASE ServeAppend(c) \/ ServeRead(c)
    BY <2>1, <2>2, <2>3 DEF ServeAppend, ServeRead
  <2>4. CASE RefuseAppend(c) \/ ServeBegin(c) \/ ServeWait(c) \/ \E op \in Ends : ServeEnd(c, op)
    BY <2>2, <2>4 DEF RefuseAppend, ServeBegin, ServeWait, ServeEnd
  <2> QED BY <2>3, <2>4
<1>4. log' \in [Queues -> Seq(Nat)]
  <2>1. CASE ServeAppend(c)
    <3>1. Append(log[request[c].queue], request[c].arg) \in Seq(Nat)
      BY <1>2 DEF PluginTyped
    <3> QED BY <1>2, <2>1, <3>1 DEF ServeAppend, PluginTyped
  <2>2. CASE ~ServeAppend(c)
    BY <2>2 DEF RefuseAppend, ServeRead, ServeWait, ServeBegin, ServeEnd, PluginTyped
  <2> QED BY <2>1, <2>2
<1>5. /\ sections' \in [Clients -> Seq(Queues)] /\ lock' \in [Queues -> Clients \cup {NoOne}]
      /\ taking' \in [Clients -> Queues \cup {NoOne}]
      /\ \A d \in Clients : d # c => sections'[d] = sections[d] /\ taking'[d] = taking[d]
  <2>1. CASE ServeBegin(c)
    BY <1>2, <2>1 DEF ServeBegin, PluginTyped
  <2>2. CASE \E op \in Ends : ServeEnd(c, op)
    <3>1. Front(sections[c]) \in Seq(Queues) /\ sections[c] \in Seq(Queues)
      BY FrontTyped DEF PluginTyped
    <3>2. PICK inner \in Seq(Queues) : sections' = [sections EXCEPT ![c] = inner]
      BY <2>2, <3>1 DEF ServeEnd
    <3>3. lock' = Released(c, sections'[c]) /\ taking' = taking
      BY <2>2 DEF ServeEnd
    <3> QED BY <3>2, <3>3 DEF PluginTyped, Released
  <2>3. CASE UNCHANGED <<lock, sections, taking>>
    BY <2>3 DEF PluginTyped
  <2> QED BY <2>1, <2>2, <2>3 DEF ServeAppend, RefuseAppend, ServeRead, ServeWait
<1> QED BY <1>1, <1>3, <1>4, <1>5, ServedKeeps

\* A section is taken once its begin was answered.
LEMMA TakeSectionKeeps ==
  ASSUME PipeInv, NEW c \in Clients, TakeSection(c)
  PROVE  PipeInv'
<1>1. /\ PluginTyped /\ plugin[c] = "serving" /\ taking[c] \in Queues /\ OneExchange(c)
      /\ UNCHANGED <<log, plugin, request, replies, calling, alive, held_by>>
      /\ sections' = [sections EXCEPT ![c] = Append(@, taking[c])]
      /\ taking' = [taking EXCEPT ![c] = NoOne]
      /\ lock' = [lock EXCEPT ![taking[c]] = c]
  BY DEF PipeInv, PluginTyped, TakeSection
<1>2. PluginTyped'
  <2>1. Append(sections[c], taking[c]) \in Seq(Queues)
    BY <1>1 DEF PluginTyped
  <2> QED BY <1>1, <2>1 DEF PluginTyped, calling
<1>3. OneExchange(c)'
  BY <1>1 DEF OneExchange, Answered, ThreadsOf, calling
<1> QED BY <1>1, <1>2, <1>3, PluginStepKeeps DEF calling, PluginTyped

\* A plugin exits, when its input has ended or by dying.
LEMMA ExitKeeps ==
  ASSUME PipeInv, NEW c \in Clients, InputEnds(c) \/ PluginDies(c)
  PROVE  PipeInv'
<1>1. /\ PluginTyped /\ Exit(c) /\ OneExchange(c)
      /\ UNCHANGED <<log, replies, calling, alive, held_by>>
  BY DEF PipeInv, InputEnds, PluginDies
<1>2. PluginTyped'
  <2>1. <<>> \in Seq(Queues)
    OBVIOUS
  <2> QED BY <1>1, <2>1 DEF PluginTyped, Exit, Released, calling
<1>3. OneExchange(c)'
  BY <1>1 DEF OneExchange, Answered, ThreadsOf, calling, Exit, PluginTyped
<1> QED BY <1>1, <1>2, <1>3, PluginStepKeeps DEF calling, PluginTyped, Exit

\* A client process ends, and its plugin goes on.
LEMMA ClientDiesKeeps ==
  ASSUME PipeInv, NEW c \in Clients, ClientDies(c)
  PROVE  PipeInv'
<1>1. /\ PluginTyped /\ OneExchange(c) /\ alive' = alive \ {c} 
      /\ replies' = [replies EXCEPT ![c] = <<>>] /\ held_by' = [held_by EXCEPT ![c] = NoOne]
      /\ at' = [t \in Threads |-> IF ClientOf[t] = c THEN "ended" ELSE at[t]]
      /\ asked' = [t \in Threads |-> IF ClientOf[t] = c THEN NoOne ELSE asked[t]]
      /\ holding' = [t \in Threads |-> IF ClientOf[t] = c THEN <<>> ELSE holding[t]]
      /\ seen' = [t \in Threads |-> IF ClientOf[t] = c THEN NoOne ELSE seen[t]]
      /\ UNCHANGED <<log, lock, plugin, request, sections, taking>>
  BY DEF ClientDies, PipeInv
<1>2. PluginTyped'
  <2>1. <<>> \in Seq(Queues) /\ <<>> \in Seq(Answers)
    OBVIOUS
  <2> QED BY <1>1, <2>1 DEF PluginTyped
<1>3. ASSUME NEW t \in Threads PROVE ThreadFits(t)' /\ PipeHeld(t)'
  <2>1. ThreadFits(t) /\ PipeHeld(t) /\ ClientOf[t] \in Clients /\ NoOne # t
    BY ClientTyped, PluginAssumption DEF PipeInv
  <2>2. CASE ClientOf[t] = c
    BY <1>1, <2>1, <2>2 DEF PluginTyped, ThreadFits, PipeHeld
  <2>3. CASE ClientOf[t] # c
    BY <1>1, <2>1, <2>3 DEF PluginTyped, ThreadFits, PipeHeld
  <2> QED BY <2>2, <2>3
<1>4. ASSUME NEW d \in Clients PROVE OneExchange(d)'
  <2>1. CASE d = c
    BY <1>1, <2>1 DEF OneExchange
  <2>2. CASE d # c
    <3>1. \A t \in ThreadsOf(d) : at'[t] = at[t] /\ asked'[t] = asked[t]
      BY <1>1, <2>2 DEF ThreadsOf
    <3>2. OneExchange(d)
      BY DEF PipeInv
    <3> QED BY <1>1, <2>2, <3>1, <3>2 DEF OneExchange, Answered, ThreadsOf, PluginTyped
  <2> QED BY <2>1, <2>2
<1> QED BY <1>2, <1>3, <1>4 DEF PipeInv

LEMMA PipeNextInv == PipeInv /\ [PluginNext]_pluginVars => PipeInv'
<1> SUFFICES ASSUME PipeInv, [PluginNext]_pluginVars PROVE PipeInv'
  OBVIOUS
<1>1. CASE PluginNext
  <2>1. CASE \E t \in Threads : Call(t) \/ GoesOn(t)
    BY <2>1, CallKeeps, WriteKeeps, ReadKeeps, BodyKeeps DEF GoesOn
  <2>2. CASE \E c \in Clients : Serve(c) \/ PluginDies(c) \/ ClientDies(c)
    <3>1. PICK c \in Clients : Serve(c) \/ PluginDies(c) \/ ClientDies(c)
      BY <2>2
    <3>2. PluginTyped
      BY DEF PipeInv
    <3> QED BY <3>1, <3>2, ServeKeeps, TakeSectionKeeps, ExitKeeps, ClientDiesKeeps
               DEF Serve, Ends
  <2> QED BY <1>1, <2>1, <2>2 DEF PluginNext
<1>2. CASE UNCHANGED pluginVars
  BY <1>2 DEF pluginVars, serving, calling, PipeInv, PluginTyped, ThreadFits, PipeHeld,
              OneExchange, Answered, ThreadsOf
<1> QED BY <1>1, <1>2

\* However many threads of however many clients share pipes, and whichever plugins and
\* clients die: what is in a pipe is the line of the one thread that reads, or the reply
\* to it (`exchange_line`, `begin_exclusive`, `end_exclusive`).
THEOREM RepliesMatchRequests == PluginSpec => []NoStrayReply
<1>1. PipeInv => NoStrayReply
  <2> SUFFICES ASSUME PipeInv, NEW c \in alive,
                      NEW reading, reading = {t \in ThreadsOf(c) : at[t] = "reading"}
               PROVE  /\ Cardinality(reading) <= 1
                      /\ Len(replies[c]) + (IF request[c] = NoOne THEN 0 ELSE 1)
                           <= Cardinality(reading)
    BY DEF NoStrayReply
  <2>1. c \in Clients /\ PluginTyped /\ OneExchange(c)
    BY DEF PipeInv, PluginTyped
  <2>2. replies[c] \in Seq(Answers) /\ Len(replies[c]) \in Nat /\ Len(replies[c]) <= 1
    BY <2>1 DEF PluginTyped, OneExchange
  <2>3. CASE reading = {}
    <3>1. Cardinality(reading) = 0 /\ replies[c] = <<>> /\ request[c] = NoOne
      BY <2>1, <2>3, FS_EmptySet DEF OneExchange, Answered
    <3> QED BY <3>1
  <2>4. CASE reading # {}
    <3>1. PICK t \in ThreadsOf(c) : at[t] = "reading"
      BY <2>4
    <3>2. reading = {t}
      BY <2>1, <3>1 DEF OneExchange
    <3>3. Cardinality(reading) = 1
      BY <3>2, FS_Singleton
    <3>4. request[c] # NoOne => Len(replies[c]) = 0
      BY <2>1 DEF OneExchange, Answered
    <3> DEFINE n == Len(replies[c])
    <3>5. n \in Nat /\ n <= 1 /\ (request[c] # NoOne => n = 0)
      BY <2>2, <3>4
    <3> HIDE DEF n
    <3>6. n + (IF request[c] = NoOne THEN 0 ELSE 1) <= 1
      BY <3>5
    <3>7. Len(replies[c]) + (IF request[c] = NoOne THEN 0 ELSE 1) <= 1
      BY <3>6 DEF n
    <3>8. 1 <= 1
      OBVIOUS
    <3> QED BY <3>3, <3>7, <3>8, Zenon
  <2> QED BY <2>3, <2>4
<1> QED BY <1>1, PipeInitInv, PipeNextInv, PTL DEF PluginSpec
----------------------------------------------------------------------------
(* Plugin: what is appended from a section. *)

LEMMA SectionInitInv == PluginInit => SectionInv
<1> SUFFICES ASSUME PluginInit PROVE SectionInv
  OBVIOUS
<1> USE DEF PluginInit
<1>1. ASSUME NEW c \in Clients, NEW q \in Queues PROVE ~Has(sections[c], q)
  BY DEF Has
<1>2. ASSUME NEW c \in Clients PROVE Agree(c) /\ StillToCome(c)
  BY DEF Agree, Answered, Opened, ThreadsOf, StillToCome
<1>3. ASSUME NEW t \in Threads PROVE Knows(t)
  BY DEF Knows
<1>4. SectionsAreAtomic
  BY DEF SectionsAreAtomic
<1> QED BY <1>1, <1>2, <1>3, <1>4 DEF SectionInv

LEMMA HeadKept ==
  ASSUME NEW S, NEW s \in Seq(S), s # <<>>
  PROVE  /\ \A x \in S : Append(s, x) # <<>> /\ Head(Append(s, x)) = Head(s)
         /\ Front(s) # <<>> => Head(Front(s)) = Head(s)
         /\ Has(s, Head(s))
<1>1. Len(s) \in Nat /\ Len(s) >= 1 /\ Head(s) = s[1]
  BY LenProperties, EmptySeq
<1>2. \A x \in S : Append(s, x) # <<>> /\ Head(Append(s, x)) = Head(s)
  BY AppendProperties, HeadTailAppend
<1>3. Has(s, Head(s))
  BY <1>1 DEF Has
<1>4. ASSUME Front(s) # <<>> PROVE Head(Front(s)) = Head(s)
  <2>1. /\ Front(s) \in Seq(S) /\ Len(Front(s)) = Len(s) - 1
        /\ \A i \in 1..(Len(s) - 1) : Front(s)[i] = s[i]
    BY FrontTyped
  <2>2. Len(Front(s)) \in Nat /\ Len(Front(s)) # 0 /\ Head(Front(s)) = Front(s)[1]
    BY <1>4, <2>1, LenProperties, EmptySeq
  <2>3. 1 \in 1..(Len(s) - 1)
    BY <1>1, <2>1, <2>2
  <2> QED BY <1>1, <2>1, <2>2, <2>3
<1> QED BY <1>2, <1>3, <1>4

\* What a client's outermost body is over, its plugin's outermost section is over.
LEMMA SameOutermost ==
  ASSUME PipeInv, NEW t \in Threads, NEW c \in Clients, c = ClientOf[t],
         Agree(c), holding[t] # <<>>, sections[c] # <<>>
  PROVE  Head(holding[t]) = Head(sections[c]) /\ Has(sections[c], Head(holding[t]))
<1>1. /\ holding[t] \in Seq(Queues) /\ sections[c] \in Seq(Queues)
      /\ taking[c] # NoOne => taking[c] \in Queues
      /\ t \in ThreadsOf(c)
  BY DEF PipeInv, PluginTyped, ThreadsOf
<1>2. Opened(c) # <<>> /\ Head(Opened(c)) = Head(sections[c])
  BY <1>1, HeadKept DEF Opened
<1>3. Has(sections[c], Head(sections[c]))
  BY <1>1, HeadKept
<1>4. CASE at[t] = "reading" /\ Answered(c)
  <2>1. Opened(c) = After(t) /\ Fits(asked[t], holding[t])
    BY <1>1, <1>4 DEF Agree, PipeInv, ThreadFits
  <2>2. asked[t].queue \in Queues
    BY <2>1 DEF Fits, Lines
  <2>3. After(t) \in {Append(holding[t], asked[t].queue), Front(holding[t]), holding[t]}
    BY <2>1 DEF After
  <2>4. Head(After(t)) = Head(holding[t])
    <3>1. Head(Append(holding[t], asked[t].queue)) = Head(holding[t])
      BY <1>1, <2>2, HeadKept
    <3>2. Front(holding[t]) # <<>> => Head(Front(holding[t])) = Head(holding[t])
      BY <1>1, HeadKept
    <3>3. After(t) # <<>>
      BY <1>2, <2>1
    <3> QED BY <2>3, <3>1, <3>2, <3>3
  <2> QED BY <1>2, <1>3, <2>1, <2>4
<1>5. CASE ~(at[t] = "reading" /\ Answered(c))
  <2>1. Opened(c) = holding[t]
    BY <1>1, <1>5 DEF Agree
  <2> QED BY <1>2, <1>3, <2>1
<1> QED BY <1>4, <1>5

\* A step of a thread that changes nothing of the queues: what is left to show.
LEMMA CallerLeavesSections ==
  ASSUME PipeInv, SectionInv, NEW t \in Threads, NEW c \in alive, c = ClientOf[t], PipeInv',
         UNCHANGED <<log, lock, plugin, sections, taking, alive>>,
         \A u \in Threads : u # t => /\ at'[u] = at[u] /\ asked'[u] = asked[u]
                                     /\ holding'[u] = holding[u] /\ seen'[u] = seen[u],
         \A d \in Clients : d # c => /\ request'[d] = request[d] /\ replies'[d] = replies[d]
                                     /\ held_by'[d] = held_by[d],
         plugin[c] = "serving" => Agree(c)',
         plugin[c] = "serving" => \A u \in ThreadsOf(c) : Knows(u)',
         StillToCome(c)'
  PROVE  SectionInv'
<1>1. c \in Clients
  BY ClientTyped
<1>2. ASSUME NEW d \in alive, d # c, plugin[d] = "serving" PROVE Agree(d)'
  <2>1. d \in Clients /\ Agree(d)
    BY <1>2 DEF PipeInv, PluginTyped, SectionInv
  <2>2. \A u \in ThreadsOf(d) : u \in Threads /\ u # t
    BY <1>2 DEF ThreadsOf
  <2> QED BY <1>2, <2>1, <2>2 DEF Agree, Answered, Opened, After, ThreadsOf
<1>3. ASSUME NEW u \in Threads, ClientOf[u] # c, ClientOf[u] \in alive,
             plugin[ClientOf[u]] = "serving"
      PROVE  Knows(u)'
  <2>1. ClientOf[u] \in Clients /\ Knows(u) /\ u # t
    BY <1>3, ClientTyped DEF SectionInv
  <2> QED BY <1>3, <2>1 DEF Knows, Answered, Opened
<1>4. ASSUME NEW d \in Clients, d # c PROVE StillToCome(d)'
  BY <1>4 DEF SectionInv, StillToCome
<1>5. \A d \in Clients, q \in Queues : Has(sections'[d], q) => lock'[q] = d
  BY DEF SectionInv
<1>6. SectionsAreAtomic'
  BY DEF SectionInv, SectionsAreAtomic
<1>7. ASSUME NEW u \in Threads, ClientOf[u] \in alive, plugin[ClientOf[u]] = "serving"
      PROVE  Knows(u)'
  BY <1>3, <1>7 DEF ThreadsOf
<1>8. \A d \in alive' : plugin'[d] = "serving" => Agree(d)'
  BY <1>2
<1>9. \A d \in Clients : StillToCome(d)'
  BY <1>4
<1>10. \A u \in Threads : ClientOf[u] \in alive' /\ plugin'[ClientOf[u]] = "serving" => Knows(u)'
  BY <1>7
<1> QED BY <1>5, <1>6, <1>8, <1>9, <1>10 DEF SectionInv

\* Nobody else of a client holds a section while one of its threads has the pipe.
LEMMA NobodyElseHolds ==
  ASSUME PipeInv, NEW t \in Threads, held_by[ClientOf[t]] \in {NoOne, t},
         NEW u \in ThreadsOf(ClientOf[t]), u # t
  PROVE  holding[u] = <<>>
BY PluginAssumption DEF PipeInv, PipeHeld, ThreadsOf

LEMMA CallLeavesSections ==
  ASSUME PipeInv, PipeInv', SectionInv, NEW t \in Threads, Call(t)
  PROVE  SectionInv'
<1> DEFINE c == ClientOf[t]
<1>1. /\ c \in alive /\ c \in Clients /\ at[t] = "idle" /\ holding[t] = <<>> /\ PluginTyped
      /\ UNCHANGED <<log, lock, plugin, request, replies, sections, taking, alive, held_by,
                     holding, seen>>
  BY ClientTyped DEF Call, PipeInv, ThreadFits, serving
<1>2. PICK line : at' = [at EXCEPT ![t] = "asking"] /\ asked' = [asked EXCEPT ![t] = line]
  BY DEF Call, Asks
<1>3. /\ at'[t] = "asking"
      /\ \A u \in Threads : u # t => at'[u] = at[u] /\ asked'[u] = asked[u]
  BY <1>1, <1>2 DEF PluginTyped
<1>4. ASSUME plugin[c] = "serving" PROVE Agree(c)'
  <2>1. Agree(c)
    BY <1>1, <1>4 DEF SectionInv
  <2> QED BY <1>1, <1>3, <2>1 DEF Agree, Answered, Opened, After, ThreadsOf
<1>5. ASSUME plugin[c] = "serving", NEW u \in ThreadsOf(c) PROVE Knows(u)'
  <2>1. Knows(u) /\ ClientOf[u] = c /\ u \in Threads
    BY <1>1, <1>5 DEF SectionInv, ThreadsOf
  <2>2. CASE u = t
    BY <1>1, <2>2 DEF Knows
  <2>3. CASE u # t
    BY <1>1, <1>3, <2>1, <2>3 DEF Knows, Answered, Opened
  <2> QED BY <2>2, <2>3
<1>6. StillToCome(c)'
  BY <1>1 DEF SectionInv, StillToCome
<1> HIDE DEF c
<1>7. c = ClientOf[t]
  BY DEF c
<1> QED BY <1>1, <1>3, <1>4, <1>5, <1>6, <1>7, CallerLeavesSections

LEMMA WriteLeavesSections ==
  ASSUME PipeInv, PipeInv', SectionInv, NEW t \in Threads, Write(t)
  PROVE  SectionInv'
<1> DEFINE c == ClientOf[t]
<1>1. /\ c \in alive /\ c \in Clients /\ plugin[c] = "serving" /\ at[t] = "asking"
      /\ PluginTyped /\ ThreadFits(t) /\ PipeHeld(t) /\ OneExchange(c) /\ PipeIsFree(t)
  BY ClientTyped DEF Write, PipeInv
<1>2. /\ at' = [at EXCEPT ![t] = "reading"] /\ request' = [request EXCEPT ![c] = asked[t]]
      /\ UNCHANGED <<log, lock, plugin, replies, sections, taking, alive, held_by, asked,
                     holding, seen>>
  BY DEF Write
<1>3. /\ at'[t] = "reading" /\ request'[c] = asked[t]
      /\ \A u \in Threads : u # t => at'[u] = at[u]
      /\ \A d \in Clients : d # c => request'[d] = request[d]
  BY <1>1, <1>2 DEF PluginTyped
<1>4. holding[t] = <<>> /\ Fits(asked[t], <<>>)
  BY <1>1 DEF PipeHeld, ThreadFits
<1>5. \A u \in ThreadsOf(c) : holding[u] = <<>>
  BY <1>1, <1>4, NobodyElseReads, NobodyElseHolds
<1>6. ~Answered(c)
  BY <1>1 DEF PipeIsFree, OneExchange
<1>7. Agree(c)'
  <2>1. Agree(c)
    BY <1>1 DEF SectionInv
  <2> QED BY <1>2, <1>6, <2>1 DEF Agree, Answered, Opened
<1>8. \A u \in ThreadsOf(c) : Knows(u)'
  BY <1>2, <1>5 DEF Knows
<1>9. StillToCome(c)'
  BY <1>3, <1>4 DEF StillToCome, Fits
<1> HIDE DEF c
<1>10. c = ClientOf[t]
  BY DEF c
<1> QED BY <1>1, <1>2, <1>3, <1>7, <1>8, <1>9, <1>10, CallerLeavesSections

\* Reading the reply brings a thread to where its plugin is.
LEMMA ReadArrives ==
  ASSUME PipeInv, PipeInv', SectionInv, NEW t \in Threads, Read(t),
         NEW c \in alive, c = ClientOf[t], plugin[c] = "serving"
  PROVE  /\ holding'[t] = After(t) /\ Opened(c) = After(t)
         /\ (holding'[t] # <<>> /\ seen'[t] # NoOne) =>
              sections[c] # <<>> /\ seen'[t] = Len(log[Head(holding'[t])])
<1> DEFINE line == asked[t]
           reply == Head(replies[c])
           good == reply.is \in Expected(line)
<1>1. /\ c \in Clients /\ t \in ThreadsOf(c) /\ PluginTyped /\ at[t] = "reading" /\ Answered(c)
      /\ Fits(line, holding[t]) /\ PluginAnswers(t, reply)
      /\ Agree(c) /\ Knows(t) /\ ThreadFits(t)
  BY ClientTyped DEF Read, PipeInv, ThreadFits, ThreadsOf, SectionInv, Answered
<1>2. /\ holding[t] \in Seq(Queues) /\ seen[t] \in Nat \cup {NoOne} /\ line.queue \in Queues
      /\ holding[t] = <<>> => seen[t] = NoOne
  BY <1>1 DEF PluginTyped, Fits, Lines, ThreadFits
<1>3. Opened(c) = After(t) /\ (line.op = "begin" => reply.is = "done")
  BY <1>1 DEF Agree
<1>4. ASSUME NEW left, NEW length, NEW refused, Back(t, left, refused, length)
      PROVE  holding'[t] = left /\ (left # <<>> => seen'[t] = length)
  BY <1>1, <1>4 DEF Back, PluginTyped
<1>5. /\ Opened(c) # <<>> /\ holding[t] # <<>> /\ seen[t] # NoOne => sections[c] # <<>>
      /\ holding[t] # <<>> /\ sections[c] # <<>> /\ seen[t] # NoOne
           => \/ seen[t] = Len(log[Head(holding[t])])
              \/ line.op = "append" /\ reply.is = "position"
      /\ holding[t] # <<>> /\ line.op \in {"append", "read"} /\ good
           => sections[c] # <<>> /\ reply.arg = Len(log[Head(holding[t])])
  BY <1>1 DEF Knows
<1> HIDE DEF line, reply, good
<1>6. CASE line.op = "begin"
  <2>1. good
    BY <1>3, <1>6 DEF good, Expected
  <2>2. \E refused : Back(t, Append(holding[t], line.queue), refused, seen[t])
    BY <1>1, <1>6, <2>1 DEF PluginAnswers, line, good
  <2>3. /\ After(t) = Append(holding[t], line.queue) /\ After(t) # <<>>
        /\ holding[t] # <<>> => Head(After(t)) = Head(holding[t])
    <3>1. After(t) = Append(holding[t], line.queue)
      BY <1>6 DEF After, line, Ends
    <3>2. Append(holding[t], line.queue) # <<>>
      BY <1>2, AppendProperties
    <3>3. holding[t] # <<>> => Head(Append(holding[t], line.queue)) = Head(holding[t])
      BY <1>2, HeadKept
    <3> QED BY <3>1, <3>2, <3>3
  <2>4. holding'[t] = After(t) /\ seen'[t] = seen[t]
    BY <1>4, <2>2, <2>3
  <2> QED BY <1>2, <1>3, <1>5, <1>6, <2>3, <2>4
<1>7. CASE line.op \in Ends
  <2>1. \E refused : Back(t, Front(holding[t]), refused, seen[t])
    BY <1>1, <1>7 DEF PluginAnswers, line, good, Ends
  <2>2. holding[t] # <<>> /\ After(t) = Front(holding[t])
    BY <1>1, <1>7 DEF Fits, After, line, Ends
  <2>3. holding'[t] = After(t) /\ (After(t) # <<>> => seen'[t] = seen[t])
    BY <1>4, <2>1, <2>2
  <2>4. After(t) # <<>> => Head(After(t)) = Head(holding[t])
    BY <1>2, <2>2, HeadKept
  <2>5. line.op # "append"
    BY <1>7 DEF Ends
  <2> QED BY <1>3, <1>5, <2>2, <2>3, <2>4, <2>5
<1>8. CASE line.op \in {"append", "read"}
  <2>1. \E refused : Back(t, holding[t], refused, IF good THEN reply.arg ELSE seen[t])
    BY <1>1, <1>8 DEF PluginAnswers, line, good, reply
  <2>2. After(t) = holding[t]
    BY <1>8 DEF After, line, Ends
  <2>3. holding'[t] = After(t) /\ (After(t) # <<>> => seen'[t] = IF good THEN reply.arg ELSE seen[t])
    BY <1>4, <2>1, <2>2
  <2>4. line.op = "append" /\ reply.is = "position" => good
    BY DEF good, Expected
  <2> QED BY <1>3, <1>5, <1>8, <2>2, <2>3, <2>4
<1>9. CASE line.op = "wait"
  <2>1. holding[t] = <<>> /\ After(t) = <<>>
    BY <1>1, <1>9 DEF Fits, After, line, Ends
  <2>2. holding'[t] = <<>>
    <3>1. CASE UNCHANGED holding
      BY <2>1, <3>1
    <3>2. CASE \E refused : Back(t, holding[t], refused, seen[t])
      BY <1>4, <2>1, <3>2
    <3> QED BY <1>1, <1>9, <3>1, <3>2 DEF PluginAnswers, line, good, reply
  <2> QED BY <1>3, <2>1, <2>2
<1> QED BY <1>1, <1>6, <1>7, <1>8, <1>9 DEF Fits, Ends

LEMMA ReadLeavesSections ==
  ASSUME PipeInv, PipeInv', SectionInv, NEW t \in Threads, Read(t) \/ FindsItGone(t)
  PROVE  SectionInv'
<1> DEFINE c == ClientOf[t]
<1>1. /\ c \in alive /\ c \in Clients /\ at[t] \in {"asking", "reading"}
      /\ PluginTyped /\ OneExchange(c) /\ t \in ThreadsOf(c)
      /\ UNCHANGED <<log, lock, plugin, request, sections, taking, alive>>
  BY ClientTyped DEF Read, FindsItGone, PipeInv, serving, ThreadsOf
<1>2. /\ \A u \in ThreadsOf(c) : u # t => at[u] # "reading"
      /\ held_by[c] \in {NoOne, t}
  BY <1>1, NobodyElseReads DEF Read, FindsItGone
<1>3. PICK reply \in Answers : PluginAnswers(t, reply)
  <2>1. CASE Read(t)
    <3>1. replies[c] \in Seq(Answers) /\ replies[c] # <<>>
      BY <1>1, <2>1 DEF Read, PluginTyped
    <3>2. Head(replies[c]) \in Answers
      BY <3>1, HeadTailProperties
    <3> QED BY <2>1, <3>2 DEF Read
  <2>2. CASE FindsItGone(t)
    <3>1. Reply("error", 0) \in Answers
      BY DEF Reply, Answers
    <3> QED BY <2>2, <3>1 DEF FindsItGone
  <2> QED BY <2>1, <2>2
<1>4. /\ \A u \in Threads : u # t => /\ at'[u] = at[u] /\ asked'[u] = asked[u]
                                     /\ holding'[u] = holding[u] /\ seen'[u] = seen[u]
      /\ \A d \in Clients : d # c => held_by'[d] = held_by[d]
      /\ held_by'[c] \in {NoOne, t}
      /\ at'[t] # "reading"
      /\ holding'[t] # <<>> <=> held_by'[c] = t
  BY <1>1, <1>2, <1>3, AnswersOutcome
<1>5. \A d \in Clients : d # c => replies'[d] = replies[d]
  BY <1>1 DEF Read, FindsItGone, PluginTyped, serving
<1>6. StillToCome(c)'
  BY <1>1 DEF SectionInv, StillToCome
<1>7. \A u \in ThreadsOf(c) : u # t => holding'[u] = <<>>
  BY <1>2, <1>4, NobodyElseHolds DEF ThreadsOf
<1>8. ASSUME plugin[c] = "serving" PROVE Agree(c)' /\ \A u \in ThreadsOf(c) : Knows(u)'
  <2>1. Read(t)
    BY <1>8 DEF FindsItGone
  <2>2. /\ holding'[t] = After(t) /\ Opened(c) = After(t)
        /\ (holding'[t] # <<>> /\ seen'[t] # NoOne) =>
             sections[c] # <<>> /\ seen'[t] = Len(log[Head(holding'[t])])
    BY <1>1, <1>8, <2>1, ReadArrives
  <2>3. Opened(c)' = Opened(c)
    BY <1>1 DEF Opened
  <2>4. \A u \in ThreadsOf(c) : at'[u] # "reading"
    BY <1>2, <1>4 DEF ThreadsOf
  <2>5. Agree(c)'
    <3>1. held_by'[c] = NoOne => holding'[t] = <<>>
      BY <1>4, PluginAssumption
    <3>2. \A u \in ThreadsOf(c) : holding'[u] # <<>> => Opened(c)' = holding'[u]
      BY <1>7, <2>2, <2>3
    <3> QED BY <2>2, <2>3, <2>4, <3>1, <3>2 DEF Agree, ThreadsOf
  <2>6. ASSUME NEW u \in ThreadsOf(c) PROVE Knows(u)'
    <3>1. CASE u = t
      BY <1>1, <1>4, <2>2, <3>1 DEF Knows
    <3>2. CASE u # t
      BY <1>7, <3>2 DEF Knows
    <3> QED BY <3>1, <3>2
  <2> QED BY <2>5, <2>6
<1> HIDE DEF c
<1>9. c = ClientOf[t]
  BY DEF c
<1> QED BY <1>1, <1>4, <1>5, <1>6, <1>8, <1>9, CallerLeavesSections

LEMMA BodyLeavesSections ==
  ASSUME PipeInv, PipeInv', SectionInv, NEW t \in Threads, Body(t)
  PROVE  SectionInv'
<1> DEFINE c == ClientOf[t]
<1>1. /\ c \in alive /\ c \in Clients /\ at[t] = "body" /\ t \in ThreadsOf(c)
      /\ PluginTyped /\ ThreadFits(t) /\ OneExchange(c) /\ holding[t] # <<>>
      /\ UNCHANGED <<log, lock, plugin, replies, sections, taking, alive, held_by, holding, seen>>
  BY ClientTyped DEF Body, PipeInv, ThreadsOf, ThreadFits
<1>2. PICK line \in Lines :
        /\ Fits(line, holding[t])
        /\ line.op = "append" => seen[t] # NoOne /\ line.arg = seen[t] + 1
        /\ asked' = [asked EXCEPT ![t] = line]
        /\ at' = [at EXCEPT ![t] = IF plugin[c] = "serving" THEN "reading" ELSE "asking"]
        /\ request' = [request EXCEPT ![c] = IF plugin[c] = "serving" THEN line ELSE @]
  BY BodySays
<1>3. /\ \A u \in ThreadsOf(c) : u # t => at[u] # "reading"
      /\ held_by[c] \in {NoOne, t}
  BY <1>1, NobodyElseReads
<1>4. /\ request'[c] = IF plugin[c] = "serving" THEN line ELSE request[c]
      /\ \A u \in Threads : u # t => at'[u] = at[u] /\ asked'[u] = asked[u]
      /\ \A d \in Clients : d # c => request'[d] = request[d]
  BY <1>1, <1>2 DEF PluginTyped
<1>5. ~Answered(c)
  <2>1. \A u \in ThreadsOf(c) : at[u] # "reading"
    BY <1>1, <1>3
  <2> QED BY <1>1, <2>1 DEF OneExchange
<1>6. \A u \in ThreadsOf(c) : u # t => holding[u] = <<>>
  BY <1>3, NobodyElseHolds
<1>7. ASSUME plugin[c] = "serving" PROVE Agree(c)' /\ \A u \in ThreadsOf(c) : Knows(u)'
  <2>1. Agree(c) /\ Knows(t)
    BY <1>1, <1>7 DEF SectionInv
  <2>2. ~Answered(c)'
    BY <1>1, <1>5 DEF Answered
  <2>3. Agree(c)'
    BY <1>1, <1>5, <2>1, <2>2 DEF Agree, Opened
  <2>4. Knows(t)'
    BY <1>1, <1>5, <2>1, <2>2 DEF Knows, Opened
  <2>5. ASSUME NEW u \in ThreadsOf(c) PROVE Knows(u)'
    <3>1. CASE u = t
      BY <2>4, <3>1
    <3>2. CASE u # t
      BY <1>1, <1>6, <3>2 DEF Knows
    <3> QED BY <3>1, <3>2
  <2> QED BY <2>3, <2>5
<1>8. StillToCome(c)'
  <2>1. CASE plugin[c] = "serving" /\ line.op = "append"
    <3>1. Agree(c) /\ Knows(t)
      BY <1>1, <2>1 DEF SectionInv
    <3>2. Opened(c) = holding[t]
      BY <1>1, <3>1 DEF Agree
    <3>3. seen[t] # NoOne /\ line.arg = seen[t] + 1 /\ line.queue = Head(holding[t])
      BY <1>1, <1>2, <2>1 DEF Fits
    <3>4. sections[c] # <<>>
      BY <1>1, <3>1, <3>2, <3>3 DEF Knows
    <3>5. seen[t] = Len(log[Head(holding[t])])
      BY <1>1, <3>1, <3>3, <3>4 DEF Knows
    <3>6. Has(sections[c], Head(holding[t]))
      BY <1>1, <3>1, <3>4, SameOutermost
    <3> QED BY <1>1, <1>4, <2>1, <3>3, <3>5, <3>6 DEF StillToCome
  <2>2. CASE plugin[c] = "serving" /\ line.op # "append"
    BY <1>4, <2>2 DEF StillToCome
  <2>3. CASE plugin[c] # "serving"
    BY <1>1, <1>4, <2>3 DEF StillToCome, OneExchange
  <2> QED BY <2>1, <2>2, <2>3
<1> HIDE DEF c
<1>9. c = ClientOf[t]
  BY DEF c
<1> QED BY <1>1, <1>4, <1>7, <1>8, <1>9, CallerLeavesSections

\* A step of c's plugin leaves what another client knows and expects.
LEMMA OthersLeftAlone ==
  ASSUME PipeInv, SectionInv, NEW d \in Clients,
         \A u \in ThreadsOf(d) : /\ at'[u] = at[u] /\ asked'[u] = asked[u]
                                 /\ holding'[u] = holding[u] /\ seen'[u] = seen[u],
         request'[d] = request[d], replies'[d] = replies[d], sections'[d] = sections[d],
         taking'[d] = taking[d], held_by'[d] = held_by[d], plugin'[d] = plugin[d],
         \A q \in Queues : Has(sections[d], q) => log'[q] = log[q]
  PROVE  /\ d \in alive /\ plugin[d] = "serving" => Agree(d)' /\ \A u \in ThreadsOf(d) : Knows(u)'
         /\ StillToCome(d)'
<1>1. ASSUME d \in alive, plugin[d] = "serving" PROVE Agree(d)'
  <2>1. Agree(d)
    BY <1>1 DEF SectionInv
  <2> QED BY <2>1 DEF Agree, Answered, Opened, After, ThreadsOf
<1>2. ASSUME d \in alive, plugin[d] = "serving", NEW u \in ThreadsOf(d) PROVE Knows(u)'
  <2>1. u \in Threads /\ ClientOf[u] = d /\ Agree(d) /\ Knows(u) /\ holding[u] \in Seq(Queues)
    BY <1>2 DEF SectionInv, ThreadsOf, PipeInv, PluginTyped
  <2>2. ASSUME holding[u] # <<>>, sections[d] # <<>>
        PROVE  log'[Head(holding[u])] = log[Head(holding[u])]
    <3>1. Has(sections[d], Head(holding[u]))
      BY <2>1, <2>2, SameOutermost
    <3>2. Head(holding[u]) \in Queues
      BY <2>1, <2>2, HeadTailProperties
    <3> QED BY <3>1, <3>2
  <2> QED BY <2>1, <2>2 DEF Knows, Answered, Opened
<1>3. StillToCome(d)'
  <2>1. StillToCome(d) /\ (request[d] # NoOne => request[d].queue \in Queues)
    BY DEF SectionInv, PipeInv, PluginTyped, Lines
  <2> QED BY <2>1 DEF StillToCome
<1> QED BY <1>1, <1>2, <1>3

\* A step of the plugin of c: what is left to show.
LEMMA PluginLeavesSections ==
  ASSUME PipeInv, SectionInv, NEW c \in Clients,
         UNCHANGED <<at, asked, holding, seen, held_by, alive>>,
         \A d \in Clients : d # c =>
           /\ plugin'[d] = plugin[d] /\ request'[d] = request[d] /\ replies'[d] = replies[d]
           /\ sections'[d] = sections[d] /\ taking'[d] = taking[d],
         \A d \in Clients, q \in Queues : d # c /\ Has(sections[d], q) => log'[q] = log[q],
         \A d \in Clients, q \in Queues : Has(sections'[d], q) => lock'[q] = d,
         c \in alive /\ plugin'[c] = "serving" => Agree(c)' /\ \A u \in ThreadsOf(c) : Knows(u)',
         StillToCome(c)', SectionsAreAtomic'
  PROVE  SectionInv'
<1>1. alive \subseteq Clients
  BY DEF PipeInv, PluginTyped
<1>2. ASSUME NEW d \in Clients, d # c
      PROVE  /\ d \in alive /\ plugin[d] = "serving" => Agree(d)' /\ \A u \in ThreadsOf(d) : Knows(u)'
             /\ StillToCome(d)'
  BY <1>2, OthersLeftAlone
<1>3. \A d \in alive' : plugin'[d] = "serving" => Agree(d)'
  BY <1>1, <1>2
<1>4. ASSUME NEW u \in Threads, ClientOf[u] \in alive', plugin'[ClientOf[u]] = "serving"
      PROVE  Knows(u)'
  <2>1. ClientOf[u] \in Clients /\ u \in ThreadsOf(ClientOf[u])
    BY ClientTyped DEF ThreadsOf
  <2> QED BY <1>2, <1>4, <2>1
<1>5. \A d \in Clients : StillToCome(d)'
  BY <1>2
<1> QED BY <1>3, <1>4, <1>5 DEF SectionInv

\* The thread whose request its plugin has before it.
LEMMA ReaderWaits ==
  ASSUME PipeInv, SectionInv, NEW c \in alive, plugin[c] = "serving", request[c] # NoOne
  PROVE  \E t \in ThreadsOf(c) :
           /\ at[t] = "reading" /\ request[c] = asked[t] /\ Fits(asked[t], holding[t])
           /\ ~Answered(c) /\ Opened(c) = holding[t] /\ holding[t] \in Seq(Queues) /\ Knows(t)
           /\ \A u \in ThreadsOf(c) : u # t => holding[u] = <<>> /\ at[u] # "reading"
<1>1. OneExchange(c) /\ Agree(c) /\ c \in Clients
  BY DEF PipeInv, SectionInv, PluginTyped
<1>2. PICK t \in ThreadsOf(c) : at[t] = "reading"
  BY <1>1 DEF OneExchange
<1>3. /\ t \in Threads /\ ClientOf[t] = c /\ ThreadFits(t) /\ PipeHeld(t)
      /\ holding[t] \in Seq(Queues) /\ NoOne # t
  BY PluginAssumption DEF ThreadsOf, PipeInv, PluginTyped
<1>4. request[c] = asked[t] /\ ~Answered(c) /\ Fits(asked[t], holding[t])
  BY <1>1, <1>2, <1>3 DEF OneExchange, ThreadFits
<1>5. held_by[c] \in {NoOne, t}
  BY <1>2, <1>3 DEF PipeHeld
<1>6. \A u \in ThreadsOf(c) : u # t => holding[u] = <<>> /\ at[u] # "reading"
  BY <1>1, <1>2, <1>3, <1>5, NobodyElseHolds DEF OneExchange
<1>7. Opened(c) = holding[t]
  <2>1. CASE holding[t] # <<>>
    BY <1>1, <1>4, <2>1 DEF Agree
  <2>2. CASE holding[t] = <<>>
    <3>1. held_by[c] = NoOne
      BY <1>3, <1>5, <2>2 DEF PipeHeld
    <3> QED BY <1>1, <1>4, <2>2, <3>1 DEF Agree
  <2> QED BY <2>1, <2>2
<1>8. Knows(t)
  BY <1>3 DEF SectionInv
<1> QED BY <1>2, <1>3, <1>4, <1>6, <1>7, <1>8

\* What the reader of a reply finds, once its request is served.
LEMMA ServedArrives ==
  ASSUME NEW c \in alive, NEW t \in ThreadsOf(c), NEW reply,
         UNCHANGED <<at, asked, holding, seen, held_by>>,
         at[t] = "reading", replies'[c] = <<reply>>,
         \A u \in ThreadsOf(c) : u # t => holding[u] = <<>> /\ at[u] # "reading",
         held_by[c] = NoOne => holding[t] = <<>>,
         Opened(c)' = After(t), asked[t].op = "begin" => reply.is = "done",
         holding[t] # <<>> =>
           /\ seen[t] # NoOne /\ After(t) # <<>> => sections'[c] # <<>>
           /\ sections'[c] # <<>> /\ seen[t] # NoOne
                => \/ seen[t] = Len(log'[Head(holding[t])])
                   \/ asked[t].op = "append" /\ reply.is = "position"
           /\ asked[t].op \in {"append", "read"} /\ reply.is \in Expected(asked[t])
                => sections'[c] # <<>> /\ reply.arg = Len(log'[Head(holding[t])])
  PROVE  Agree(c)' /\ \A u \in ThreadsOf(c) : Knows(u)'
<1>1. replies'[c] # <<>> /\ Head(replies'[c]) = reply /\ ClientOf[t] = c
  BY DEF ThreadsOf
<1>2. Answered(c)' /\ After(t)' = After(t)
  BY <1>1 DEF Answered, After
<1>3. Agree(c)'
  BY <1>1, <1>2 DEF Agree, ThreadsOf
<1>4. Knows(t)'
  BY <1>1, <1>2 DEF Knows, Expected
<1>5. ASSUME NEW u \in ThreadsOf(c) PROVE Knows(u)'
  <2>1. CASE u = t
    BY <1>4, <2>1
  <2>2. CASE u # t
    BY <2>2 DEF Knows
  <2> QED BY <2>1, <2>2
<1> QED BY <1>3, <1>5

\* A reply takes its place in an empty pipe.
LEMMA ServedReply ==
  ASSUME PluginTyped, NEW c \in alive, c \in Clients, replies[c] = <<>>, NEW reply, Served(c, reply)
  PROVE  replies'[c] = <<reply>>
<1>1. replies'[c] = Append(<<>>, reply)
  BY DEF Served, PluginTyped
<1>2. Append(<<>>, reply) = <<reply>>
  OBVIOUS
<1> QED BY <1>1, <1>2

\* Every answer but that to the end of a section says what the plugin finds, in the
\* sections its client is in.
LEMMA ServeArrives ==
  ASSUME PipeInv, SectionInv, NEW c \in alive, c \in Clients,
         ServeAppend(c) \/ RefuseAppend(c) \/ ServeRead(c) \/ ServeWait(c) \/ ServeBegin(c)
  PROVE  Agree(c)' /\ \A u \in ThreadsOf(c) : Knows(u)'
<1>1. /\ PluginTyped /\ request[c] \in Lines /\ request[c] # NoOne /\ plugin[c] = "serving"
      /\ taking[c] = NoOne /\ UNCHANGED <<at, asked, holding, seen, held_by, sections>>
      /\ replies[c] = <<>>
  <2>1. PluginTyped
    BY DEF PipeInv
  <2> QED BY <2>1, ServeKeeps
       DEF calling, ServeAppend, RefuseAppend, ServeRead, ServeWait, ServeBegin
<1>2. PICK t \in ThreadsOf(c) :
        /\ at[t] = "reading" /\ request[c] = asked[t] /\ Fits(asked[t], holding[t])
        /\ ~Answered(c) /\ Opened(c) = holding[t] /\ holding[t] \in Seq(Queues) /\ Knows(t)
        /\ \A u \in ThreadsOf(c) : u # t => holding[u] = <<>> /\ at[u] # "reading"
  BY <1>1, ReaderWaits
<1>3. /\ t \in Threads /\ ClientOf[t] = c /\ (held_by[c] = NoOne => holding[t] = <<>>)
      /\ sections[c] = holding[t] /\ asked[t].queue \in Queues
  <2>1. t \in Threads /\ ClientOf[t] = c /\ NoOne # t
    BY PluginAssumption DEF ThreadsOf
  <2>2. PipeHeld(t)
    BY <2>1 DEF PipeInv
  <2>3. held_by[c] = NoOne => holding[t] = <<>>
    BY <2>1, <2>2 DEF PipeHeld
  <2>4. sections[c] = holding[t]
    BY <1>1, <1>2 DEF Opened
  <2>5. asked[t].queue \in Queues
    BY <1>1, <1>2 DEF Lines
  <2> QED BY <2>1, <2>3, <2>4, <2>5
<1>4. holding[t] # <<>> /\ seen[t] # NoOne => seen[t] = Len(log[Head(holding[t])])
  BY <1>2, <1>3 DEF Knows
<1>5. CASE ServeAppend(c)
  <2> DEFINE q == asked[t].queue reply == Reply("position", Len(log[q]) + 1)
  <2>1. /\ asked[t].op = "append" /\ Served(c, reply) /\ UNCHANGED taking
        /\ log' = [log EXCEPT ![q] = Append(@, asked[t].arg)]
    BY <1>2, <1>5 DEF ServeAppend, Reads
  <2>2. replies'[c] = <<reply>>
    BY <1>1, <2>1, ServedReply
  <2>3. Opened(c)' = After(t)
    BY <1>1, <1>2, <1>3, <2>1 DEF Opened, After, Ends
  <2>4. holding[t] # <<>> => q = Head(holding[t])
    BY <1>2, <2>1 DEF Fits, Ends
  <2>5. Len(log'[q]) = Len(log[q]) + 1
    <3>1. log[q] \in Seq(Nat) /\ asked[t].arg \in Nat
      BY <1>1, <1>2, <1>3 DEF PluginTyped, Lines
    <3>2. log'[q] = Append(log[q], asked[t].arg)
      BY <1>1, <1>3, <2>1 DEF PluginTyped
    <3> QED BY <3>1, <3>2, AppendProperties
  <2>6. reply.is = "position" /\ reply.arg = Len(log[q]) + 1
    BY DEF Reply
  <2> HIDE DEF reply
  <2>7. holding[t] # <<>> =>
           /\ seen[t] # NoOne /\ After(t) # <<>> => sections'[c] # <<>>
           /\ sections'[c] # <<>> /\ seen[t] # NoOne
                => \/ seen[t] = Len(log'[Head(holding[t])])
                   \/ asked[t].op = "append" /\ reply.is = "position"
           /\ asked[t].op \in {"append", "read"} /\ reply.is \in Expected(asked[t])
                => sections'[c] # <<>> /\ reply.arg = Len(log'[Head(holding[t])])
    BY <1>1, <1>3, <2>1, <2>4, <2>5, <2>6
  <2> QED BY <1>1, <1>2, <1>3, <2>1, <2>2, <2>3, <2>7, ServedArrives
<1>6. CASE ServeBegin(c)
  <2> DEFINE reply == Reply("done", 0)
  <2>1. /\ asked[t].op = "begin" /\ Served(c, reply) /\ UNCHANGED log
        /\ taking' = [taking EXCEPT ![c] = asked[t].queue]
    BY <1>2, <1>6 DEF ServeBegin, Reads
  <2>2. replies'[c] = <<reply>>
    BY <1>1, <2>1, ServedReply
  <2>3. Opened(c)' = After(t)
    <3>1. taking'[c] = asked[t].queue /\ asked[t].queue # NoOne
      BY <1>1, <1>3, <2>1, PluginAssumption DEF PluginTyped
    <3> QED BY <1>1, <1>3, <2>1, <3>1 DEF Opened, After, Ends
  <2>4. reply.is = "done"
    BY DEF Reply
  <2> HIDE DEF reply
  <2>5. holding[t] # <<>> =>
           /\ seen[t] # NoOne /\ After(t) # <<>> => sections'[c] # <<>>
           /\ sections'[c] # <<>> /\ seen[t] # NoOne
                => \/ seen[t] = Len(log'[Head(holding[t])])
                   \/ asked[t].op = "append" /\ reply.is = "position"
           /\ asked[t].op \in {"append", "read"} /\ reply.is \in Expected(asked[t])
                => sections'[c] # <<>> /\ reply.arg = Len(log'[Head(holding[t])])
    BY <1>1, <1>3, <1>4, <2>1
  <2> QED BY <1>1, <1>2, <1>3, <2>1, <2>2, <2>3, <2>4, <2>5, ServedArrives
<1>7. ASSUME NEW reply, Served(c, reply), UNCHANGED <<log, taking>>,
             asked[t].op \in {"append", "read", "wait"},
             holding[t] # <<>> /\ asked[t].op \in {"append", "read"} =>
               \/ reply.is = "error" 
               \/ reply.arg = Len(log[Head(holding[t])])
      PROVE  Agree(c)' /\ \A u \in ThreadsOf(c) : Knows(u)'
  <2>1. replies'[c] = <<reply>>
    BY <1>1, <1>7, ServedReply
  <2>2. Opened(c)' = After(t)
    BY <1>1, <1>3, <1>7 DEF Opened, After, Ends
  <2>3. asked[t].op \in {"append", "read"} /\ reply.is \in Expected(asked[t])
          => reply.is # "error"
    BY DEF Expected
  <2>4. holding[t] # <<>> =>
           /\ seen[t] # NoOne /\ After(t) # <<>> => sections'[c] # <<>>
           /\ sections'[c] # <<>> /\ seen[t] # NoOne
                => \/ seen[t] = Len(log'[Head(holding[t])])
                   \/ asked[t].op = "append" /\ reply.is = "position"
           /\ asked[t].op \in {"append", "read"} /\ reply.is \in Expected(asked[t])
                => sections'[c] # <<>> /\ reply.arg = Len(log'[Head(holding[t])])
    BY <1>1, <1>3, <1>4, <1>7, <2>3
  <2>5. asked[t].op # "begin"
    BY <1>7
  <2> QED BY <1>1, <1>2, <1>3, <2>1, <2>2, <2>4, <2>5, ServedArrives
<1>8. CASE RefuseAppend(c)
  <2>1. /\ asked[t].op = "append" /\ Served(c, Reply("error", 0)) /\ UNCHANGED <<log, taking>>
        /\ Reply("error", 0).is = "error"
    BY <1>2, <1>8 DEF RefuseAppend, Reads, Reply
  <2> QED BY <1>7, <2>1
<1>9. CASE ServeRead(c)
  <2>1. /\ asked[t].op = "read" /\ UNCHANGED <<log, taking>>
        /\ Served(c, Reply("batch", Len(log[asked[t].queue])))
    BY <1>2, <1>9 DEF ServeRead, Reads
  <2>2. holding[t] # <<>> => asked[t].queue = Head(holding[t])
    BY <1>2, <2>1 DEF Fits, Ends
  <2>3. Reply("batch", Len(log[asked[t].queue])).arg = Len(log[asked[t].queue])
    BY DEF Reply
  <2> QED BY <1>7, <2>1, <2>2, <2>3
<1>10. CASE ServeWait(c)
  <2>1. /\ asked[t].op = "wait" /\ UNCHANGED <<log, taking>>
        /\ \E reply : Served(c, reply)
    BY <1>2, <1>10 DEF ServeWait, Reads
  <2> QED BY <1>7, <2>1
<1> QED BY <1>5, <1>6, <1>8, <1>9, <1>10

LEMMA FrontHas ==
  ASSUME NEW S, NEW s \in Seq(S), s # <<>>, NEW x, Has(Front(s), x)
  PROVE  Has(s, x)
<1>1. /\ Front(s) \in Seq(S) /\ Len(Front(s)) = Len(s) - 1 /\ Len(s) \in Nat
      /\ \A i \in 1..(Len(s) - 1) : Front(s)[i] = s[i]
  BY FrontTyped, LenProperties
<1>2. PICK i \in 1..(Len(s) - 1) : Front(s)[i] = x
  BY <1>1 DEF Has
<1>3. s[i] = x /\ i \in 1..Len(s)
  BY <1>1, <1>2
<1> QED BY <1>3 DEF Has

\* The end of a section lets the innermost go, and its caller leaves the same one.
LEMMA ServeEndArrives ==
  ASSUME PipeInv, SectionInv, NEW c \in alive, c \in Clients, NEW op \in Ends, ServeEnd(c, op)
  PROVE  Agree(c)' /\ \A u \in ThreadsOf(c) : Knows(u)'
<1>1. /\ PluginTyped /\ request[c] \in Lines /\ request[c] # NoOne /\ plugin[c] = "serving"
      /\ taking[c] = NoOne /\ UNCHANGED <<at, asked, holding, seen, held_by, log, taking>>
      /\ replies[c] = <<>> /\ request[c].op = op
  <2>1. PluginTyped
    BY DEF PipeInv
  <2> QED BY <2>1, ServeKeeps DEF calling, ServeEnd, Reads
<1>2. PICK t \in ThreadsOf(c) :
        /\ at[t] = "reading" /\ request[c] = asked[t] /\ Fits(asked[t], holding[t])
        /\ ~Answered(c) /\ Opened(c) = holding[t] /\ holding[t] \in Seq(Queues) /\ Knows(t)
        /\ \A u \in ThreadsOf(c) : u # t => holding[u] = <<>> /\ at[u] # "reading"
  BY <1>1, ReaderWaits
<1>3. /\ holding[t] # <<>> /\ asked[t].queue = Last(holding[t]) /\ sections[c] = holding[t]
      /\ asked[t].op \notin {"begin", "append", "read"} /\ asked[t].op \in Ends
      /\ t \in Threads /\ ClientOf[t] = c /\ NoOne # t
  BY <1>1, <1>2, PluginAssumption DEF Fits, Opened, Ends, ThreadsOf
<1>4. held_by[c] # NoOne
  <2>1. PipeHeld(t)
    BY <1>3 DEF PipeInv
  <2> QED BY <1>3, <2>1 DEF PipeHeld
<1>5. sections'[c] = Front(holding[t])
  BY <1>1, <1>2, <1>3 DEF ServeEnd, PluginTyped
<1>6. PICK reply : Served(c, reply)
  BY DEF ServeEnd
<1>7. replies'[c] = <<reply>>
  BY <1>1, <1>6, ServedReply
<1>8. After(t) = Front(holding[t])
  BY <1>3 DEF After
<1>9. Opened(c)' = After(t)
  BY <1>1, <1>5, <1>8 DEF Opened
<1>10. seen[t] # NoOne => seen[t] = Len(log[Head(holding[t])])
  BY <1>2, <1>3 DEF Knows
<1>11. holding[t] # <<>> =>
           /\ seen[t] # NoOne /\ After(t) # <<>> => sections'[c] # <<>>
           /\ sections'[c] # <<>> /\ seen[t] # NoOne
                => \/ seen[t] = Len(log'[Head(holding[t])])
                   \/ asked[t].op = "append" /\ reply.is = "position"
           /\ asked[t].op \in {"append", "read"} /\ reply.is \in Expected(asked[t])
                => sections'[c] # <<>> /\ reply.arg = Len(log'[Head(holding[t])])
  BY <1>1, <1>3, <1>5, <1>8, <1>10
<1> QED BY <1>1, <1>2, <1>3, <1>4, <1>7, <1>9, <1>11, ServedArrives

\* An append adds the place it lands at, or nothing that was expected.
LEMMA AppendIsExpected ==
  ASSUME PipeInv, SectionInv, NEW c \in Clients, ServeAppend(c)
  PROVE  /\ SectionsAreAtomic'
         /\ \A d \in Clients, q \in Queues : d # c /\ Has(sections[d], q) => log'[q] = log[q]
<1> DEFINE q == request[c].queue
<1>1. /\ PluginTyped /\ request[c] \in Lines /\ request[c].op = "append" /\ request[c] # NoOne
      /\ Has(sections[c], q) \/ lock[q] = NoOne
      /\ log' = [log EXCEPT ![q] = Append(@, request[c].arg)]
  BY DEF PipeInv, PluginTyped, ServeAppend, Reads
<1>2. q \in Queues /\ request[c].arg \in Nat /\ log[q] \in Seq(Nat)
  BY <1>1 DEF Lines, PluginTyped
<1>3. request[c].arg \in {0, Len(log[q]) + 1}
  BY <1>1 DEF SectionInv, StillToCome
<1>4. SectionsAreAtomic'
  <2> SUFFICES ASSUME NEW r \in Queues, NEW i \in 1..Len(log'[r]) PROVE log'[r][i] \in {0, i}
    BY DEF SectionsAreAtomic
  <2>1. CASE r = q
    <3>1. log'[q] = Append(log[q], request[c].arg)
      BY <1>1, <1>2 DEF PluginTyped
    <3>2. /\ Len(log'[q]) = Len(log[q]) + 1 /\ Len(log[q]) \in Nat
          /\ \A j \in 1..Len(log[q]) : log'[q][j] = log[q][j]
          /\ log'[q][Len(log[q]) + 1] = request[c].arg
      BY <1>2, <3>1, AppendProperties, LenProperties
    <3>3. \A j \in 1..Len(log[q]) : log[q][j] \in {0, j}
      BY <1>2 DEF SectionInv, SectionsAreAtomic
    <3> HIDE DEF q
    <3> QED BY <1>3, <2>1, <3>2, <3>3, SMTT(30)
  <2>2. CASE r # q
    <3>1. log'[r] = log[r]
      BY <1>1, <2>2 DEF PluginTyped
    <3> QED BY <3>1 DEF SectionInv, SectionsAreAtomic
  <2> QED BY <2>1, <2>2
<1>5. ASSUME NEW d \in Clients, NEW r \in Queues, d # c, Has(sections[d], r)
      PROVE  log'[r] = log[r]
  <2>1. lock[r] = d /\ d # NoOne
    BY <1>5, PluginAssumption DEF SectionInv
  <2>2. Has(sections[c], r) => lock[r] = c
    BY DEF SectionInv
  <2>3. r # q
    BY <1>1, <1>5, <2>1, <2>2
  <2> QED BY <1>1, <2>3 DEF PluginTyped
<1> QED BY <1>4, <1>5

LEMMA ServeLeavesSections ==
  ASSUME PipeInv, SectionInv, NEW c \in Clients,
         \/ ServeAppend(c) \/ RefuseAppend(c) \/ ServeRead(c) \/ ServeWait(c) \/ ServeBegin(c)
         \/ \E op \in Ends : ServeEnd(c, op)
  PROVE  SectionInv'
<1>1. PluginTyped
  BY DEF PipeInv
<1>2. /\ UNCHANGED <<at, asked, holding, seen, held_by, alive, plugin>>
      /\ plugin[c] = "serving" /\ request'[c] = NoOne
      /\ \A d \in Clients : d # c =>
           /\ plugin'[d] = plugin[d] /\ request'[d] = request[d] /\ replies'[d] = replies[d]
           /\ sections'[d] = sections[d] /\ taking'[d] = taking[d]
  BY <1>1, ServeKeeps DEF calling
<1>3. \A d \in Clients, q \in Queues : d # c /\ Has(sections[d], q) => log'[q] = log[q]
  <2>1. CASE ServeAppend(c)
    BY <2>1, AppendIsExpected
  <2>2. CASE ~ServeAppend(c)
    BY <2>2 DEF RefuseAppend, ServeRead, ServeWait, ServeBegin, ServeEnd
  <2> QED BY <2>1, <2>2
<1>4. SectionsAreAtomic'
  <2>1. CASE ServeAppend(c)
    BY <2>1, AppendIsExpected
  <2>2. CASE ~ServeAppend(c)
    BY <2>2 DEF RefuseAppend, ServeRead, ServeWait, ServeBegin, ServeEnd, SectionInv,
                SectionsAreAtomic
  <2> QED BY <2>1, <2>2
<1>5. \A d \in Clients, q \in Queues : Has(sections'[d], q) => lock'[q] = d
  <2>1. CASE \E op \in Ends : ServeEnd(c, op)
    <3> SUFFICES ASSUME NEW d \in Clients, NEW q \in Queues, Has(sections'[d], q)
                 PROVE  lock'[q] = d
      OBVIOUS
    <3>1. lock' = Released(c, sections'[c]) /\ sections[c] \in Seq(Queues)
      BY <1>1, <2>1 DEF ServeEnd, PluginTyped
    <3>2. sections'[c] = sections[c] \/ (sections[c] # <<>> /\ sections'[c] = Front(sections[c]))
      BY <1>1, <2>1 DEF ServeEnd, PluginTyped
    <3>3. Has(sections[d], q)
      BY <1>2, <3>1, <3>2, FrontHas
    <3>4. lock[q] = d
      BY <3>3 DEF SectionInv
    <3> QED BY <3>1, <3>4 DEF Released
  <2>2. CASE ~\E op \in Ends : ServeEnd(c, op)
    BY <2>2 DEF ServeAppend, RefuseAppend, ServeRead, ServeWait, ServeBegin, SectionInv
  <2> QED BY <2>1, <2>2
<1>6. c \in alive => Agree(c)' /\ \A u \in ThreadsOf(c) : Knows(u)'
  BY ServeArrives, ServeEndArrives
<1>7. StillToCome(c)'
  BY <1>2 DEF StillToCome
<1> QED BY <1>2, <1>3, <1>4, <1>5, <1>6, <1>7, PluginLeavesSections

\* The section its reader was told of is taken.
LEMMA TakeLeavesSections ==
  ASSUME PipeInv, SectionInv, NEW c \in Clients, TakeSection(c)
  PROVE  SectionInv'
<1> DEFINE q == taking[c]
<1>1. /\ PluginTyped /\ plugin[c] = "serving" /\ q \in Queues /\ q # NoOne
      /\ UNCHANGED <<log, plugin, request, replies, at, asked, holding, seen, alive, held_by>>
      /\ Has(sections[c], q) \/ lock[q] = NoOne
      /\ sections' = [sections EXCEPT ![c] = Append(@, q)]
      /\ taking' = [taking EXCEPT ![c] = NoOne]
      /\ lock' = [lock EXCEPT ![q] = c]
  BY DEF PipeInv, PluginTyped, TakeSection, calling
<1>2. sections[c] \in Seq(Queues) /\ sections'[c] = Append(sections[c], q) /\ taking'[c] = NoOne
  BY <1>1 DEF PluginTyped
<1>3. \A d \in Clients : d # c =>
           /\ plugin'[d] = plugin[d] /\ request'[d] = request[d] /\ replies'[d] = replies[d]
           /\ sections'[d] = sections[d] /\ taking'[d] = taking[d]
  BY <1>1 DEF PluginTyped
<1>4. Opened(c)' = Opened(c)
  BY <1>1, <1>2 DEF Opened
<1> DEFINE n == Len(sections[c]) s == sections[c] s2 == sections'[c]
<1>5. /\ s2 # <<>> /\ n \in Nat /\ Len(s2) = n + 1 /\ s2[n + 1] = q
      /\ \A i \in 1..n : s2[i] = s[i]
  BY <1>1, <1>2, AppendProperties, LenProperties
<1>6. \A x : Has(s2, x) <=> Has(s, x) \/ x = q
  <2> HIDE DEF q
  <2>1. Len(s) = n
    OBVIOUS
  <2> HIDE DEF n, s, s2
  <2> QED BY <1>5, <2>1 DEF Has
<1>7. \A d \in Clients, r \in Queues : Has(sections'[d], r) => lock'[r] = d
  <2> SUFFICES ASSUME NEW d \in Clients, NEW r \in Queues, Has(sections'[d], r)
               PROVE  lock'[r] = d
    OBVIOUS
  <2>1. Has(sections[c], q) => lock[q] = c
    BY <1>1 DEF SectionInv
  <2>2. Has(sections[d], r) => lock[r] = d
    BY DEF SectionInv
  <2>3. d # NoOne /\ c # NoOne
    BY PluginAssumption
  <2>4. r # q => lock'[r] = lock[r]
    BY <1>1 DEF PluginTyped
  <2>5. lock'[q] = c
    BY <1>1 DEF PluginTyped
  <2> HIDE DEF q
  <2>6. CASE d = c
    BY <1>6, <2>2, <2>4, <2>5, <2>6
  <2>7. CASE d # c
    <3>1. Has(sections[d], r)
      BY <1>3, <2>7
    <3> QED BY <1>1, <2>1, <2>2, <2>3, <2>4, <2>7, <3>1
  <2> QED BY <2>6, <2>7
<1>8. ASSUME c \in alive PROVE Agree(c)' /\ \A u \in ThreadsOf(c) : Knows(u)'
  <2>1. Agree(c)
    BY <1>1, <1>8 DEF SectionInv
  <2>2. Agree(c)'
    BY <1>1, <1>4, <2>1 DEF Agree, Answered, After, ThreadsOf
  <2>3. ASSUME NEW u \in ThreadsOf(c) PROVE Knows(u)'
    <3>1. Knows(u) /\ ClientOf[u] = c
      BY <1>1, <1>8 DEF SectionInv, ThreadsOf
    <3>2. Opened(c) # <<>>
      BY <1>4, <1>2, <1>5 DEF Opened
    <3> QED BY <1>1, <1>4, <1>5, <3>1, <3>2 DEF Knows, Answered
  <2> QED BY <2>2, <2>3
<1>9. StillToCome(c)'
  BY <1>1, <1>6 DEF SectionInv, StillToCome
<1>10. SectionsAreAtomic'
  BY <1>1 DEF SectionInv, SectionsAreAtomic
<1>11. \A d \in Clients, r \in Queues : d # c /\ Has(sections[d], r) => log'[r] = log[r]
  BY <1>1
<1> HIDE DEF q
<1> QED BY <1>1, <1>3, <1>7, <1>8, <1>9, <1>10, <1>11, PluginLeavesSections

LEMMA ExitLeavesSections ==
  ASSUME PipeInv, SectionInv, NEW c \in Clients, InputEnds(c) \/ PluginDies(c)
  PROVE  SectionInv'
<1>1. /\ PluginTyped /\ Exit(c)
      /\ UNCHANGED <<log, replies, at, asked, holding, seen, alive, held_by>>
  BY DEF PipeInv, InputEnds, PluginDies, calling
<1>2. /\ plugin'[c] = "gone" /\ sections'[c] = <<>> /\ request'[c] = NoOne
      /\ \A d \in Clients : d # c =>
           /\ plugin'[d] = plugin[d] /\ request'[d] = request[d] /\ replies'[d] = replies[d]
           /\ sections'[d] = sections[d] /\ taking'[d] = taking[d]
  BY <1>1 DEF PluginTyped, Exit
<1>3. \A d \in Clients, q \in Queues : Has(sections'[d], q) => lock'[q] = d
  <2> SUFFICES ASSUME NEW d \in Clients, NEW q \in Queues, Has(sections'[d], q)
               PROVE  lock'[q] = d
    OBVIOUS
  <2>1. d # c
    BY <1>2 DEF Has
  <2>2. lock[q] = d
    BY <1>2, <2>1 DEF SectionInv
  <2> QED BY <1>1, <2>1, <2>2 DEF Exit, Released
<1>4. StillToCome(c)'
  BY <1>2 DEF StillToCome
<1>5. SectionsAreAtomic'
  BY <1>1 DEF SectionInv, SectionsAreAtomic
<1>6. \A d \in Clients, q \in Queues : d # c /\ Has(sections[d], q) => log'[q] = log[q]
  BY <1>1
<1>7. c \in alive /\ plugin'[c] = "serving" => Agree(c)' /\ \A u \in ThreadsOf(c) : Knows(u)'
  BY <1>2
<1> QED BY <1>1, <1>2, <1>3, <1>4, <1>5, <1>6, <1>7, PluginLeavesSections

LEMMA ClientDiesLeavesSections ==
  ASSUME PipeInv, SectionInv, NEW c \in Clients, ClientDies(c)
  PROVE  SectionInv'
<1>1. /\ PluginTyped /\ alive' = alive \ {c}
      /\ replies' = [replies EXCEPT ![c] = <<>>] /\ held_by' = [held_by EXCEPT ![c] = NoOne]
      /\ at' = [t \in Threads |-> IF ClientOf[t] = c THEN "ended" ELSE at[t]]
      /\ asked' = [t \in Threads |-> IF ClientOf[t] = c THEN NoOne ELSE asked[t]]
      /\ holding' = [t \in Threads |-> IF ClientOf[t] = c THEN <<>> ELSE holding[t]]
      /\ seen' = [t \in Threads |-> IF ClientOf[t] = c THEN NoOne ELSE seen[t]]
      /\ UNCHANGED <<log, lock, plugin, request, sections, taking>>
  BY DEF ClientDies, PipeInv
<1>2. ASSUME NEW d \in Clients, d # c
      PROVE  /\ d \in alive /\ plugin[d] = "serving" => Agree(d)' /\ \A u \in ThreadsOf(d) : Knows(u)'
             /\ StillToCome(d)'
  <2>1. \A u \in ThreadsOf(d) : /\ at'[u] = at[u] /\ asked'[u] = asked[u]
                                /\ holding'[u] = holding[u] /\ seen'[u] = seen[u]
    BY <1>1, <1>2 DEF ThreadsOf
  <2>2. replies'[d] = replies[d] /\ held_by'[d] = held_by[d]
    BY <1>1, <1>2 DEF PluginTyped
  <2> QED BY <1>1, <2>1, <2>2, OthersLeftAlone
<1>3. \A d \in alive' : plugin'[d] = "serving" => Agree(d)'
  BY <1>1, <1>2 DEF PluginTyped
<1>4. ASSUME NEW u \in Threads, ClientOf[u] \in alive', plugin'[ClientOf[u]] = "serving"
      PROVE  Knows(u)'
  <2>1. ClientOf[u] \in Clients /\ u \in ThreadsOf(ClientOf[u])
    BY ClientTyped DEF ThreadsOf
  <2> QED BY <1>1, <1>2, <1>4, <2>1
<1>5. \A d \in Clients : StillToCome(d)'
  BY <1>1 DEF SectionInv, StillToCome
<1>6. \A d \in Clients, q \in Queues : Has(sections'[d], q) => lock'[q] = d
  BY <1>1 DEF SectionInv
<1>7. SectionsAreAtomic'
  BY <1>1 DEF SectionInv, SectionsAreAtomic
<1> QED BY <1>3, <1>4, <1>5, <1>6, <1>7 DEF SectionInv

LEMMA SectionNextInv == PipeInv /\ PipeInv' /\ SectionInv /\ [PluginNext]_pluginVars => SectionInv'
<1> SUFFICES ASSUME PipeInv, PipeInv', SectionInv, [PluginNext]_pluginVars PROVE SectionInv'
  OBVIOUS
<1>1. CASE \E t \in Threads : Call(t) \/ GoesOn(t)
  BY <1>1, CallLeavesSections, WriteLeavesSections, ReadLeavesSections, BodyLeavesSections
     DEF GoesOn
<1>2. CASE \E c \in Clients : Serve(c) \/ PluginDies(c) \/ ClientDies(c)
  <2>1. PICK c \in Clients : Serve(c) \/ PluginDies(c) \/ ClientDies(c)
    BY <1>2
  <2> QED BY <2>1, ServeLeavesSections, TakeLeavesSections, ExitLeavesSections,
             ClientDiesLeavesSections DEF Serve, Ends
<1>3. CASE UNCHANGED pluginVars
  BY <1>3 DEF pluginVars, serving, calling, SectionInv, Agree, Answered, Opened, After, ThreadsOf,
              Knows, StillToCome, SectionsAreAtomic
<1> QED BY <1>1, <1>2, <1>3 DEF PluginNext

\* SectionsAreAtomic, for every number of clients and threads, every nesting of sections
\* and every order of deaths: what a body appends lands where its own read said it would,
\* whichever process's plugin others append to the queue through.
THEOREM SectionsStayAtomic == PluginSpec => []SectionsAreAtomic
<1>1. PipeInv /\ SectionInv => SectionsAreAtomic
  BY DEF SectionInv
<1> QED BY <1>1, PipeInitInv, PipeNextInv, SectionInitInv, SectionNextInv, PTL DEF PluginSpec

----------------------------------------------------------------------------
(* LocalTransport: the invariant. *)

\* The line of a record, without its newline.
InFull(text) == [i \in 1..Width[text.kind] |-> text]

\* A checkpoint counts the records up to the one whose line it has the digest of.
CountsBy(checkpoint) ==
  /\ checkpoint.count = 0 => checkpoint.offset = 0
  /\ checkpoint.count > 0 =>
       /\ checkpoint.digest # <<>> /\ checkpoint.digest[1] # Newline
       /\ checkpoint.digest = InFull(checkpoint.digest[1])
       /\ checkpoint.digest[1].id = checkpoint.count - 1

Counts(checkpoint) == checkpoint # NoCheckpoint => CountsBy(checkpoint)

RecordsTo(cells, to) == Cardinality(CallEnds(cells, 0, to))

\* A push, and the whole of a claim, is in the lock.
InTheLock(p) ==
  pc[p] \in {"count", "write", "rest", "commit", "committed"} \/ job[p].op = "claim" => holder = p

\* A push appends to whole lines, the record numbered by those before it.
PushesOn(p) ==
  /\ pc[p] \in {"count", "write"} => IsBoundary(LogNow, Len(LogNow))
  /\ pc[p] = "count" => job[p].count = 0
  /\ pc[p] = "write" => job[p].count = RecordsTo(LogNow, Len(LogNow))
  /\ pc[p] = "rest" =>
       /\ named # NoFile
       /\ IsBoundary(LogNow, job[p].at)
       /\ Len(LogNow) = job[p].at + job[p].end
       /\ job[p].end <= Width[job[p].kind]
       /\ \A i \in 1..job[p].end :
            LogNow[job[p].at + i] = [id |-> job[p].count, kind |-> job[p].kind]
       /\ job[p].count = RecordsTo(LogNow, job[p].at)

\* A reader has the records file open, and a claim reads all there is of it.
ReadsOn(p) ==
  /\ pc[p] \in {"open", "position", "keep", "read"} => job[p].op \in {"claim", "look"}
  /\ pc[p] = "open" => job[p].at = 0
  /\ pc[p] = "position" => job[p].file \in Files
  /\ pc[p] = "position" /\ job[p].op = "claim" =>
       job[p].file = named /\ job[p].end = Len(LogNow)
  /\ pc[p] = "position" /\ meddled = 0 => job[p].file = named

\* What a claim hands out is past its consumer's cursor.
ClaimsPast(p) ==
  /\ job[p].op = "claim" /\ pc[p] \in {"open", "position"} =>
       job[p].count = cursor[job[p].consumer]
  /\ job[p].op = "claim" /\ pc[p] \in {"keep", "read"} =>
       \A e \in CallEnds(LogNow, job[p].at, Len(LogNow)) :
         RecordsTo(LogNow, e) > cursor[job[p].consumer]
  /\ pc[p] = "commit" =>
       /\ job[p].op = "claim" /\ named # NoFile
       /\ job[p].at \in CallEnds(LogNow, 0, Len(LogNow))
       /\ RecordsTo(LogNow, job[p].at) > cursor[job[p].consumer]

PositionStays(p) ==
  meddled = 0 /\ pc[p] \in {"keep", "read", "commit"} => IsBoundary(LogNow, job[p].at)

Proceeds(p) ==
  InTheLock(p) /\ PushesOn(p) /\ ReadsOn(p) /\ ClaimsPast(p) /\ PositionStays(p) /\ Counts(job[p].keep)

Recorded ==
  /\ \A f \in Files : IsNumbered(disk[f])
  /\ Counts(tally) /\ \A c \in Consumers : Counts(offset[c])

LocalInv == Recorded /\ \A p \in Procs : Proceeds(p)

----------------------------------------------------------------------------
(* LocalTransport: positions, lines and records. *)

LEMMA GreatestIs ==
  ASSUME NEW n \in Nat, NEW S, S \subseteq 0..n, S # {}
  PROVE  Greatest(S) \in S /\ \A i \in S : i <= Greatest(S)
<1> DEFINE U == {u \in Nat : \A i \in S : i <= u}
<1>1. PICK u \in U : \A v \in U : u <= v
  <2>1. n \in U /\ U \subseteq Nat
    OBVIOUS
  <2> QED BY <2>1, LeastNat
<1>2. u \in S
  <2> SUFFICES ASSUME u \notin S PROVE FALSE
    OBVIOUS
  <2>0. u \in Nat /\ S \subseteq Nat /\ \A i \in S : i <= u
    BY <1>1
  <2>1. u # 0 /\ \A i \in S : i <= u - 1
    <3>1. PICK i \in S : TRUE
      OBVIOUS
    <3>2. \A j \in S : j \in Nat /\ j <= u /\ j # u
      BY <2>0
    <3> HIDE DEF U
    <3> QED BY <2>0, <3>1, <3>2
  <2>2. u - 1 \in U
    BY <1>1, <2>1
  <2> QED BY <1>1, <2>2
<1>3. \E m \in S : \A i \in S : i <= m
  BY <1>1, <1>2
<1> HIDE DEF U
<1> QED BY <1>3 DEF Greatest

LEMMA IsGreatest ==
  ASSUME NEW S, S \subseteq Nat, NEW m \in S, \A i \in S : i <= m
  PROVE  Greatest(S) = m
<1>1. Greatest(S) \in S /\ \A i \in S : i <= Greatest(S)
  BY DEF Greatest
<1>2. Greatest(S) <= m /\ m <= Greatest(S)
  BY <1>1
<1>3. Greatest(S) \in Nat /\ m \in Nat
  BY <1>1
<1> QED BY <1>2, <1>3

LEMMA LeastIs ==
  ASSUME NEW S, S \subseteq Nat, S # {}
  PROVE  Least(S) \in S /\ \A i \in S : Least(S) <= i
BY LeastNat DEF Least

LEMMA BoundaryIs ==
  ASSUME NEW cells \in Seq(Cells)
  PROVE  /\ Boundary(cells) \in 0..Len(cells)
         /\ IsBoundary(cells, Boundary(cells))
         /\ \A i \in 0..Len(cells) : IsBoundary(cells, i) => i <= Boundary(cells)
<1> DEFINE S == {i \in 0..Len(cells) : IsBoundary(cells, i)}
<1>1. 0 \in S /\ S \subseteq 0..Len(cells) /\ Len(cells) \in Nat
  BY DEF IsBoundary
<1>2. Greatest(S) \in S /\ \A i \in S : i <= Greatest(S)
  <2> HIDE DEF S
  <2> QED BY <1>1, GreatestIs
<1> QED BY <1>2 DEF Boundary

\* The last boundary is the one with no newline after it.
LEMMA LastBoundary ==
  ASSUME NEW cells \in Seq(Cells), NEW b \in 0..Len(cells), IsBoundary(cells, b),
         \A i \in (b + 1)..Len(cells) : cells[i] # Newline
  PROVE  Boundary(cells) = b
<1>1. /\ Boundary(cells) \in 0..Len(cells) /\ IsBoundary(cells, Boundary(cells))
      /\ b <= Boundary(cells)
  BY BoundaryIs
<1>2. Len(cells) \in Nat
  OBVIOUS
<1> QED BY <1>1, <1>2 DEF IsBoundary

LEMMA CallEndsFinite ==
  ASSUME NEW cells \in Seq(Cells), NEW from \in Nat, NEW to \in Nat
  PROVE  /\ CallEnds(cells, from, to) \subseteq 1..to
         /\ IsFiniteSet(CallEnds(cells, from, to))
         /\ Cardinality(CallEnds(cells, from, to)) \in Nat
<1>1. CallEnds(cells, from, to) \subseteq 1..to
  BY DEF CallEnds
<1>2. IsFiniteSet(1..to)
  BY FS_Interval
<1> QED BY <1>1, <1>2, FS_Subset, FS_CardinalityType

LEMMA PartOf ==
  ASSUME NEW cells \in Seq(Cells), NEW from \in 1..(Len(cells) + 1), NEW to \in 0..Len(cells)
  PROVE  /\ SubSeq(cells, from, to) \in Seq(Cells)
         /\ Len(SubSeq(cells, from, to)) = IF from <= to THEN to - from + 1 ELSE 0
         /\ \A i \in 1..Len(SubSeq(cells, from, to)) : SubSeq(cells, from, to)[i] = cells[from + i - 1]
<1>1. from \in Int /\ to \in Int /\ \A i \in from..to : cells[i] \in Cells
  OBVIOUS
<1> QED BY <1>1, SubSeqProperties

\* What two logs that are the same up to a position have in common.
SameTo(x, y, n) ==
  /\ n \in 0..Len(x) /\ n \in 0..Len(y)
  /\ \A i \in 1..n : x[i] = y[i]

LEMMA AgreeOn ==
  ASSUME NEW x \in Seq(Cells), NEW y \in Seq(Cells), NEW n \in Nat, SameTo(x, y, n)
  PROVE  /\ \A i \in 0..n : IsBoundary(x, i) <=> IsBoundary(y, i)
         /\ \A from \in Nat, to \in 0..n : CallEnds(x, from, to) = CallEnds(y, from, to)
         /\ \A to \in 0..n : SubSeq(x, 1, to) = SubSeq(y, 1, to)
         /\ \A to \in 1..n : LineBefore(x, to) = LineBefore(y, to)
<1>0. Len(x) \in Nat /\ Len(y) \in Nat /\ n <= Len(x) /\ n <= Len(y)
  BY DEF SameTo
<1>1. \A i \in 0..n : IsBoundary(x, i) <=> IsBoundary(y, i)
  BY <1>0 DEF SameTo, IsBoundary
<1>2. \A from \in Nat, to \in 0..n : CallEnds(x, from, to) = CallEnds(y, from, to)
  <2> TAKE from \in Nat, to \in 0..n
  <2>1. ASSUME NEW i \in (from + 2)..to PROVE x[i] = y[i] /\ x[i - 1] = y[i - 1]
    BY <1>0 DEF SameTo
  <2> QED BY <2>1 DEF CallEnds
<1>3. \A from \in 1..(n + 1), to \in 0..n : SubSeq(x, from, to) = SubSeq(y, from, to)
  <2> TAKE from \in 1..(n + 1), to \in 0..n
  <2>1. /\ from \in 1..(Len(x) + 1) /\ from \in 1..(Len(y) + 1)
        /\ to \in 0..Len(x) /\ to \in 0..Len(y)
    BY <1>0
  <2>2. /\ SubSeq(x, from, to) \in Seq(Cells) /\ SubSeq(y, from, to) \in Seq(Cells)
        /\ Len(SubSeq(x, from, to)) = Len(SubSeq(y, from, to))
        /\ Len(SubSeq(x, from, to)) = IF from <= to THEN to - from + 1 ELSE 0
        /\ \A i \in 1..Len(SubSeq(x, from, to)) : SubSeq(x, from, to)[i] = x[from + i - 1]
        /\ \A i \in 1..Len(SubSeq(x, from, to)) : SubSeq(y, from, to)[i] = y[from + i - 1]
    BY <2>1, PartOf
  <2>3. \A i \in 1..Len(SubSeq(x, from, to)) : from + i - 1 \in 1..n
    BY <1>0, <2>2
  <2>4. \A i \in 1..Len(SubSeq(x, from, to)) : SubSeq(x, from, to)[i] = SubSeq(y, from, to)[i]
    BY <2>2, <2>3 DEF SameTo
  <2> QED BY <2>2, <2>4, SeqEqual
<1>4. \A to \in 1..n : LineBefore(x, to) = LineBefore(y, to)
  <2> TAKE to \in 1..n
  <2>1. to - 1 \in 0..n /\ 1 \in 1..(n + 1) /\ to - 1 <= Len(x)
    BY <1>0
  <2>2. SubSeq(x, 1, to - 1) = SubSeq(y, 1, to - 1)
    BY <1>3, <2>1
  <2>3. SubSeq(x, 1, to - 1) \in Seq(Cells) /\ Len(SubSeq(x, 1, to - 1)) = to - 1
    BY <1>0, <2>1
  <2>4. Boundary(SubSeq(x, 1, to - 1)) \in 0..(to - 1)
    BY <2>3, BoundaryIs
  <2>5. Boundary(SubSeq(x, 1, to - 1)) + 1 \in 1..(n + 1)
    BY <2>4
  <2> QED BY <1>3, <2>1, <2>2, <2>5 DEF LineBefore
<1>5. \A to \in 0..n : SubSeq(x, 1, to) = SubSeq(y, 1, to)
  <2>1. 1 \in 1..(n + 1)
    OBVIOUS
  <2> QED BY <1>3, <2>1
<1> QED BY <1>1, <1>2, <1>4, <1>5

\* The first cells of a log.
LEMMA FirstCells ==
  ASSUME NEW cells \in Seq(Cells), NEW n \in 0..Len(cells)
  PROVE  /\ SubSeq(cells, 1, n) \in Seq(Cells) /\ Len(SubSeq(cells, 1, n)) = n
         /\ SameTo(SubSeq(cells, 1, n), cells, n)
<1>1. Len(cells) \in Nat /\ n <= Len(cells)
  OBVIOUS
<1> QED BY <1>1 DEF SameTo

LEMMA FirstAreNumbered ==
  ASSUME NEW cells \in Seq(Cells), NEW n \in 0..Len(cells), IsNumbered(cells)
  PROVE  IsNumbered(SubSeq(cells, 1, n))
<1> DEFINE first == SubSeq(cells, 1, n)
<1>1. first \in Seq(Cells) /\ Len(first) = n /\ SameTo(first, cells, n) /\ n \in Nat /\ Len(cells) \in Nat
  BY FirstCells
<1> HIDE DEF first
<1>2. ASSUME NEW i \in CallEnds(first, 0, n)
      PROVE  /\ i \in 2..n /\ i \in CallEnds(cells, 0, Len(cells)) /\ first[i - 1] = cells[i - 1]
             /\ LineBefore(first, i) = LineBefore(cells, i)
             /\ CallEnds(first, 0, i) = CallEnds(cells, 0, i)
  <2>1. CallEnds(first, 0, n) = CallEnds(cells, 0, n)
    BY <1>1, AgreeOn
  <2>2. i \in 2..n /\ i \in CallEnds(cells, 0, Len(cells))
    BY <1>1, <1>2, <2>1 DEF CallEnds
  <2>3. LineBefore(first, i) = LineBefore(cells, i) /\ CallEnds(first, 0, i) = CallEnds(cells, 0, i)
    BY <1>1, <2>2, AgreeOn
  <2>4. i - 1 \in 1..n
    BY <2>2
  <2> QED BY <1>1, <2>2, <2>3, <2>4 DEF SameTo
<1> QED BY <1>1, <1>2 DEF IsNumbered, first

\* The records up to a position are those up to a boundary and those after it.
LEMMA SplitAt ==
  ASSUME NEW cells \in Seq(Cells), NEW to \in 0..Len(cells), NEW b \in 0..to, IsBoundary(cells, b)
  PROVE  /\ CallEnds(cells, 0, to) = CallEnds(cells, 0, b) \cup CallEnds(cells, b, to)
         /\ \A i \in CallEnds(cells, 0, b), j \in CallEnds(cells, b, to) : i < j
         /\ RecordsTo(cells, to) = RecordsTo(cells, b) + Cardinality(CallEnds(cells, b, to))
<1>0. b \in Nat /\ to \in Nat /\ Len(cells) \in Nat /\ b <= to /\ to <= Len(cells)
  OBVIOUS
<1>1. CallEnds(cells, 0, to) = CallEnds(cells, 0, b) \cup CallEnds(cells, b, to)
  <2>1. ASSUME NEW i \in CallEnds(cells, 0, to) PROVE i \in CallEnds(cells, 0, b) \/ i \in CallEnds(cells, b, to)
    <3>1. i \in 2..to /\ cells[i] = Newline /\ cells[i - 1] # Newline
      BY <2>1 DEF CallEnds
    <3>2. CASE i <= b
      BY <1>0, <3>1, <3>2 DEF CallEnds
    <3>3. CASE i = b + 1
      BY <1>0, <3>1, <3>3 DEF IsBoundary
    <3>4. CASE i >= b + 2
      BY <1>0, <3>1, <3>4 DEF CallEnds
    <3> QED BY <1>0, <3>1, <3>2, <3>3, <3>4
  <2>2. CallEnds(cells, 0, b) \subseteq CallEnds(cells, 0, to)
    BY <1>0 DEF CallEnds
  <2>3. CallEnds(cells, b, to) \subseteq CallEnds(cells, 0, to)
    BY <1>0 DEF CallEnds
  <2> QED BY <2>1, <2>2, <2>3
<1>2. \A i \in CallEnds(cells, 0, b), j \in CallEnds(cells, b, to) : i < j
  BY <1>0 DEF CallEnds
<1>3. CallEnds(cells, 0, b) \cap CallEnds(cells, b, to) = {}
  BY <1>0 DEF CallEnds
<1>4. /\ IsFiniteSet(CallEnds(cells, 0, b)) /\ Cardinality(CallEnds(cells, 0, b)) \in Nat
      /\ IsFiniteSet(CallEnds(cells, b, to)) /\ Cardinality(CallEnds(cells, b, to)) \in Nat
  BY <1>0, CallEndsFinite
<1>5. Cardinality({}) = 0
  BY FS_EmptySet
<1>6. RecordsTo(cells, to) = RecordsTo(cells, b) + Cardinality(CallEnds(cells, b, to))
  <2>1. Cardinality(CallEnds(cells, 0, b) \cup CallEnds(cells, b, to))
        = Cardinality(CallEnds(cells, 0, b)) + Cardinality(CallEnds(cells, b, to))
          - Cardinality(CallEnds(cells, 0, b) \cap CallEnds(cells, b, to))
    BY <1>4, FS_Union
  <2>2. Cardinality(CallEnds(cells, 0, b) \cap CallEnds(cells, b, to)) = 0
    BY <1>3, <1>5
  <2>3. Cardinality(CallEnds(cells, 0, to))
        = Cardinality(CallEnds(cells, 0, b) \cup CallEnds(cells, b, to))
    BY <1>1
  <2> QED BY <1>4, <2>1, <2>2, <2>3 DEF RecordsTo
<1> QED BY <1>1, <1>2, <1>6

\* A healed log is whole, and has the boundaries it had.
LEMMA HealedIs ==
  ASSUME NEW cells \in Seq(Cells)
  PROVE  /\ Healed(cells) \in Seq(Cells) /\ Len(Healed(cells)) = Boundary(cells)
         /\ Boundary(cells) \in 0..Len(cells)
         /\ SameTo(Healed(cells), cells, Boundary(cells))
         /\ IsBoundary(Healed(cells), Len(Healed(cells)))
         /\ \A i \in 0..Len(cells) : IsBoundary(cells, i) => IsBoundary(Healed(cells), i)
         /\ IsNumbered(cells) => IsNumbered(Healed(cells))
<1>1. /\ Boundary(cells) \in 0..Len(cells) /\ Boundary(cells) \in Nat
      /\ IsBoundary(cells, Boundary(cells))
      /\ \A i \in 0..Len(cells) : IsBoundary(cells, i) => i \in 0..Boundary(cells)
  <2>1. Len(cells) \in Nat
    OBVIOUS
  <2> QED BY <2>1, BoundaryIs
<1>2. /\ Healed(cells) \in Seq(Cells) /\ Len(Healed(cells)) = Boundary(cells)
      /\ SameTo(Healed(cells), cells, Boundary(cells))
  BY <1>1, FirstCells DEF Healed
<1>3. \A i \in 0..Boundary(cells) : IsBoundary(Healed(cells), i) <=> IsBoundary(cells, i)
  BY <1>1, <1>2, AgreeOn
<1>4. IsNumbered(cells) => IsNumbered(Healed(cells))
  BY <1>1, FirstAreNumbered DEF Healed
<1> QED BY <1>1, <1>2, <1>3, <1>4

LEMMA CountedUpTo ==
  ASSUME NEW cells \in Seq(Cells), NEW from \in Nat, NEW to \in Nat, NEW i \in 0..to
  PROVE  CallEnds(cells, from, i) = {j \in CallEnds(cells, from, to) : j <= i}
BY DEF CallEnds

LEMMA RecordsGrow ==
  ASSUME NEW cells \in Seq(Cells), NEW to \in Nat, NEW i \in 0..to
  PROVE  /\ RecordsTo(cells, i) \in Nat /\ RecordsTo(cells, to) \in Nat
         /\ RecordsTo(cells, i) <= RecordsTo(cells, to)
         /\ to \in CallEnds(cells, 0, to) /\ i < to => RecordsTo(cells, i) < RecordsTo(cells, to)
<1> DEFINE C == CallEnds(cells, 0, i)
           D == CallEnds(cells, 0, to)
<1>1. i \in Nat /\ C \subseteq D
  BY DEF CallEnds
<1>2. IsFiniteSet(C) /\ IsFiniteSet(D) /\ Cardinality(C) \in Nat /\ Cardinality(D) \in Nat
  BY <1>1, CallEndsFinite
<1>3. Cardinality(C) <= Cardinality(D) /\ (Cardinality(C) = Cardinality(D) => C = D)
  <2> HIDE DEF C, D
  <2> QED BY <1>1, <1>2, FS_Subset
<1>4. i < to => to \notin C
  BY <1>1 DEF CallEnds
<1> QED BY <1>2, <1>3, <1>4 DEF RecordsTo

\* The first records are those up to a boundary, if there are enough of them, and the
\* first after it.
LEMMA FirstFromABoundary ==
  ASSUME NEW cells \in Seq(Cells), NEW b \in 0..Len(cells), IsBoundary(cells, b),
         NEW n \in Nat, RecordsTo(cells, b) <= n
  PROVE  FirstOf(CallEnds(cells, 0, Len(cells)), n) =
           CallEnds(cells, 0, b)
             \cup FirstOf(CallEnds(cells, b, Len(cells)), n - RecordsTo(cells, b))
<1> DEFINE L == Len(cells)
           All == CallEnds(cells, 0, L)
           First == CallEnds(cells, 0, b)
           Later == CallEnds(cells, b, L)
           k == RecordsTo(cells, b)
<1>0. L \in Nat /\ b \in Nat /\ b <= L /\ k \in Nat
  <2>1. L \in Nat /\ b \in Nat /\ b <= L
    OBVIOUS
  <2> QED BY <2>1, CallEndsFinite DEF RecordsTo
<1>1. All = First \cup Later /\ First \subseteq 1..b /\ Later \subseteq (b + 1)..L
  <2>1. L \in 0..Len(cells) /\ b \in 0..L
    BY <1>0
  <2>2. All = First \cup Later
    BY <2>1, SplitAt
  <2> QED BY <1>0, <2>2 DEF CallEnds
<1>2. ASSUME NEW i \in First PROVE Cardinality({j \in All : j <= i}) <= n
  <2>1. i \in 0..b /\ i \in 0..L
    BY <1>0, <1>1
  <2>2. {j \in All : j <= i} = CallEnds(cells, 0, i)
    BY <1>0, <2>1, CountedUpTo
  <2>3. RecordsTo(cells, i) <= k /\ RecordsTo(cells, i) \in Nat
    BY <1>0, <2>1, RecordsGrow
  <2>4. Cardinality({j \in All : j <= i}) = RecordsTo(cells, i)
    BY <2>2 DEF RecordsTo
  <2>5. k <= n
    OBVIOUS
  <2> HIDE DEF k, All
  <2> QED BY <1>0, <2>3, <2>4, <2>5
<1>3. ASSUME NEW i \in Later
      PROVE  Cardinality({j \in All : j <= i}) <= n <=> Cardinality({j \in Later : j <= i}) <= n - k
  <2>1. i \in 0..L /\ b \in 0..i /\ i \in 0..Len(cells)
    BY <1>0, <1>1
  <2>2. {j \in All : j <= i} = CallEnds(cells, 0, i)
    BY <1>0, <2>1, CountedUpTo
  <2>3. {j \in Later : j <= i} = CallEnds(cells, b, i)
    BY <1>0, <2>1, CountedUpTo
  <2>4. RecordsTo(cells, i) = k + Cardinality(CallEnds(cells, b, i))
    BY <2>1, SplitAt
  <2>5. Cardinality(CallEnds(cells, b, i)) \in Nat
    BY <1>0, <2>1, CallEndsFinite
  <2>6. Cardinality({j \in All : j <= i}) = k + Cardinality({j \in Later : j <= i})
    BY <2>2, <2>3, <2>4 DEF RecordsTo
  <2>7. Cardinality({j \in Later : j <= i}) \in Nat
    BY <2>3, <2>5
  <2> DEFINE x == Cardinality({j \in All : j <= i})
             y == Cardinality({j \in Later : j <= i})
  <2>8. x = k + y /\ y \in Nat
    BY <2>6, <2>7
  <2> HIDE DEF k, x, y
  <2>9. x <= n <=> y <= n - k
    BY <1>0, <2>8
  <2> QED BY <2>9 DEF x, y
<1> HIDE DEF All, First, Later, k
<1>4. FirstOf(All, n) = First \cup FirstOf(Later, n - k)
  <2>1. ASSUME NEW i \in FirstOf(All, n) PROVE i \in First \cup FirstOf(Later, n - k)
    BY <1>1, <1>3, <2>1 DEF FirstOf
  <2>2. ASSUME NEW i \in First PROVE i \in FirstOf(All, n)
    BY <1>1, <1>2, <2>2 DEF FirstOf
  <2>3. ASSUME NEW i \in FirstOf(Later, n - k) PROVE i \in FirstOf(All, n)
    BY <1>1, <1>3, <2>3 DEF FirstOf
  <2> QED BY <2>1, <2>2, <2>3
<1> QED BY <1>4 DEF All, First, Later, k, L

LEMMA TextIs ==
  ASSUME NEW text \in Cells, text # Newline
  PROVE  /\ text \in Texts /\ text.id \in Nat /\ text.kind \in Kinds
         /\ Width[text.kind] \in Nat /\ Width[text.kind] >= 1
         /\ InFull(text) # <<>> /\ InFull(text) \in Seq(Cells)
         /\ Len(InFull(text)) = Width[text.kind]
         /\ \A i \in 1..Width[text.kind] : InFull(text)[i] = text
<1>1. text \in Texts /\ text.id \in Nat /\ text.kind \in Kinds
  BY DEF Cells, Texts
<1>2. Width[text.kind] \in Nat /\ Width[text.kind] >= 1
  BY <1>1, LocalAssumption
<1>3. InFull(text) \in Seq(Cells) /\ Len(InFull(text)) = Width[text.kind]
      /\ \A i \in 1..Width[text.kind] : InFull(text)[i] = text
  BY <1>2 DEF InFull
<1> QED BY <1>1, <1>2, <1>3

\* The line before a position, and the cell it ends with.
LEMMA LineIs ==
  ASSUME NEW cells \in Seq(Cells), NEW i \in 1..Len(cells), LineBefore(cells, i) # <<>>
  PROVE  /\ i \in 2..Len(cells) /\ Len(LineBefore(cells, i)) \in Nat
         /\ LineBefore(cells, i)[Len(LineBefore(cells, i))] = cells[i - 1]
<1> DEFINE b == Boundary(SubSeq(cells, 1, i - 1))
           line == SubSeq(cells, b + 1, i - 1)
<1>1. i \in Nat /\ i - 1 \in 0..Len(cells) /\ Len(cells) \in Nat /\ i >= 1
  OBVIOUS
<1>2. SubSeq(cells, 1, i - 1) \in Seq(Cells) /\ Len(SubSeq(cells, 1, i - 1)) = i - 1
  BY <1>1, FirstCells
<1>3. b \in 0..(i - 1)
  BY <1>2, BoundaryIs
<1>4. b + 1 \in 1..(Len(cells) + 1) /\ b \in Nat
  BY <1>1, <1>3
<1> HIDE DEF b
<1>5. /\ line \in Seq(Cells) /\ Len(line) = IF b + 1 <= i - 1 THEN i - 1 - (b + 1) + 1 ELSE 0
      /\ \A k \in 1..Len(line) : line[k] = cells[b + 1 + k - 1]
  BY <1>1, <1>4, PartOf
<1>6. line = LineBefore(cells, i)
  BY DEF LineBefore, b
<1> HIDE DEF line
<1>7. Len(line) # 0
  BY <1>5, <1>6
<1>8. b + 1 <= i - 1 /\ Len(line) = i - 1 - b
  BY <1>1, <1>4, <1>5, <1>7
<1>9. Len(line) \in 1..Len(line) /\ b + 1 + Len(line) - 1 = i - 1 /\ i >= 2
  BY <1>1, <1>4, <1>8
<1>10. line[Len(line)] = cells[i - 1]
  BY <1>5, <1>9
<1> QED BY <1>1, <1>6, <1>9, <1>10

\* A checkpoint that holds of a file counts its records up to a boundary.
LEMMA HoldsRight ==
  ASSUME disk \in [Files -> Seq(Cells)], NEW file \in Files, IsNumbered(disk[file]),
         NEW c \in Checkpoints \cup {NoCheckpoint}, Counts(c), NEW end \in Nat, Holds(c, file, end)
  PROVE  /\ c \in Checkpoints /\ c.offset \in 0..Len(disk[file]) /\ c.offset <= end
         /\ IsBoundary(disk[file], c.offset) /\ c.count = RecordsTo(disk[file], c.offset)
<1> DEFINE cells == disk[file]
           o == c.offset
<1>1. cells \in Seq(Cells) /\ Len(cells) \in Nat
  OBVIOUS
<1>2. c \in Checkpoints /\ o \in Nat /\ c.count \in Nat /\ c.digest \in Seq(Cells) /\ o <= end
  BY DEF Holds, Checkpoints
<1>3. CASE c.count = 0
  <2>1. o = 0
    BY <1>2, <1>3 DEF Counts, CountsBy, Holds
  <2>2. CallEnds(cells, 0, 0) = {} /\ IsBoundary(cells, 0)
    BY DEF CallEnds, IsBoundary
  <2>3. RecordsTo(cells, 0) = 0
    BY <2>2, FS_EmptySet DEF RecordsTo
  <2> QED BY <1>1, <1>2, <1>3, <2>1, <2>2, <2>3
<1>4. CASE c.count # 0
  <2> DEFINE text == c.digest[1]
  <2>1. /\ o > 0 /\ IsBoundary(cells, o) /\ LineBefore(cells, o) = c.digest
        /\ c.digest # <<>> /\ text # Newline /\ c.digest = InFull(text) /\ text.id = c.count - 1
    BY <1>2, <1>4 DEF Counts, CountsBy, Holds
  <2>2. o \in 1..Len(cells) /\ cells[o] = Newline
    BY <2>1 DEF IsBoundary
  <2>3. text \in Cells
    BY <1>2, <2>1
  <2>4. o \in 2..Len(cells) /\ Len(c.digest) \in Nat /\ c.digest[Len(c.digest)] = cells[o - 1]
    BY <1>1, <2>1, <2>2, LineIs
  <2> HIDE DEF text
  <2>5. cells[o - 1] = text
    <3>1. /\ Len(InFull(text)) = Width[text.kind] /\ Width[text.kind] \in Nat /\ Width[text.kind] >= 1
          /\ \A i \in 1..Width[text.kind] : InFull(text)[i] = text
      BY <2>1, <2>3, TextIs
    <3>2. Len(InFull(text)) \in 1..Width[text.kind]
      BY <3>1
    <3> QED BY <2>1, <2>4, <3>1, <3>2
  <2>6. o \in CallEnds(cells, 0, Len(cells))
    BY <1>1, <2>1, <2>2, <2>4, <2>5 DEF CallEnds
  <2>7. cells[o - 1].id = RecordsTo(cells, o) - 1
    BY <2>6 DEF IsNumbered, RecordsTo
  <2>8. RecordsTo(cells, o) \in Nat
    BY <1>1, <1>2, CallEndsFinite DEF RecordsTo
  <2>9. c.count = RecordsTo(cells, o)
    BY <1>2, <2>1, <2>5, <2>7, <2>8
  <2> QED BY <1>2, <2>1, <2>2, <2>9
<1> QED BY <1>3, <1>4

\* The start of a file holds, and counts nothing.
LEMMA StartIs ==
  ASSUME NEW file \in Files, NEW cells \in Seq(Cells)
  PROVE  /\ StartOf(file) \in Checkpoints /\ CountsBy(StartOf(file))
         /\ StartOf(file).offset = 0 /\ StartOf(file).count = 0 /\ StartOf(file).file = file
         /\ StartOf(file).digest = <<>> /\ StartOf(file).cursor = 0
         /\ IsBoundary(cells, 0) /\ RecordsTo(cells, 0) = 0
<1>1. StartOf(file) \in Checkpoints
  BY DEF StartOf, Checkpoints
<1>2. /\ StartOf(file).offset = 0 /\ StartOf(file).count = 0 /\ StartOf(file).file = file
      /\ StartOf(file).digest = <<>> /\ StartOf(file).cursor = 0
  BY DEF StartOf
<1>3. CountsBy(StartOf(file))
  BY <1>2 DEF CountsBy
<1>4. CallEnds(cells, 0, 0) = {} /\ IsBoundary(cells, 0)
  BY DEF CallEnds, IsBoundary
<1>5. RecordsTo(cells, 0) = 0
  BY <1>4, FS_EmptySet DEF RecordsTo
<1> QED BY <1>1, <1>2, <1>3, <1>4, <1>5

\* A checkpoint moved on past the first records after it counts those too.
LEMMA AdvancedRight ==
  ASSUME NEW cells \in Seq(Cells), IsNumbered(cells), NEW base \in Checkpoints, CountsBy(base),
         base.offset \in 0..Len(cells), IsBoundary(cells, base.offset),
         base.count = RecordsTo(cells, base.offset),
         NEW S, S \subseteq CallEnds(cells, base.offset, Len(cells)),
         \A i \in S : \A j \in CallEnds(cells, base.offset, Len(cells)) : j <= i => j \in S
  PROVE  /\ Advanced(cells, base, S) \in Checkpoints /\ CountsBy(Advanced(cells, base, S))
         /\ Advanced(cells, base, S).offset \in base.offset..Len(cells)
         /\ Advanced(cells, base, S).count = RecordsTo(cells, Advanced(cells, base, S).offset)
         /\ IsBoundary(cells, Advanced(cells, base, S).offset)
         /\ S = CallEnds(cells, base.offset, Advanced(cells, base, S).offset)
         /\ S # {} => Advanced(cells, base, S).offset = Greatest(S) /\ Greatest(S) \in S
                        /\ Advanced(cells, base, S) # base
         /\ S = {} => Advanced(cells, base, S) = base
<1> DEFINE o == base.offset
           L == Len(cells)
           g == Greatest(S)
           now == Advanced(cells, base, S)
<1>1. o \in Nat /\ L \in Nat /\ o <= L /\ base.count \in Nat /\ base.file \in Files
  BY DEF Checkpoints
<1>2. CASE S = {}
  <2>1. now = base /\ CallEnds(cells, o, o) = {}
    BY <1>1, <1>2 DEF Advanced, CallEnds
  <2> QED BY <1>1, <1>2, <2>1
<1>3. CASE S # {}
  <2>0. S \subseteq 0..L /\ S \subseteq (o + 2)..L
    BY <1>1 DEF CallEnds
  <2>1. g \in S /\ \A i \in S : i <= g
    BY <1>1, <1>3, <2>0, GreatestIs
  <2>2. g \in (o + 2)..L /\ cells[g] = Newline /\ cells[g - 1] # Newline
    BY <2>1 DEF CallEnds
  <2> HIDE DEF g
  <2>3. S = CallEnds(cells, o, g)
    <3>1. ASSUME NEW i \in CallEnds(cells, o, g) PROVE i \in S
      <4>1. i \in CallEnds(cells, o, L) /\ i <= g
        BY <1>1, <2>2, <3>1 DEF CallEnds
      <4> QED BY <2>1, <4>1
    <3>2. ASSUME NEW i \in S PROVE i \in CallEnds(cells, o, g)
      BY <1>1, <2>0, <2>1, <2>2, <3>2 DEF CallEnds
    <3> QED BY <3>1, <3>2
  <2>4. g \in 0..L /\ o \in 0..g /\ g \in Nat /\ o < g /\ g \in CallEnds(cells, 0, g)
        /\ g \in CallEnds(cells, 0, L) /\ g - 1 \in 1..L
    BY <1>1, <2>2 DEF CallEnds
  <2>5. RecordsTo(cells, g) = base.count + Cardinality(S)
    BY <2>3, <2>4, SplitAt
  <2>6. RecordsTo(cells, g) \in Nat /\ RecordsTo(cells, o) < RecordsTo(cells, g)
        /\ RecordsTo(cells, o) \in Nat
    BY <2>4, RecordsGrow
  <2> DEFINE text == cells[g - 1]
  <2>7. text \in Cells /\ text # Newline
    BY <2>2, <2>4
  <2>8. LineBefore(cells, g) = InFull(text) /\ text.id = RecordsTo(cells, g) - 1
    BY <2>4 DEF IsNumbered, RecordsTo, InFull
  <2>9. InFull(text) \in Seq(Cells) /\ InFull(text) # <<>> /\ InFull(text)[1] = text
    <3> HIDE DEF text
    <3>1. /\ InFull(text) \in Seq(Cells) /\ InFull(text) # <<>> /\ Width[text.kind] \in Nat
          /\ Width[text.kind] >= 1 /\ \A i \in 1..Width[text.kind] : InFull(text)[i] = text
      BY <2>7, TextIs
    <3> QED BY <3>1
  <2> DEFINE n == RecordsTo(cells, g)
  <2>10. now = [base EXCEPT !.count = n, !.offset = g, !.digest = InFull(text), !.cursor = n]
    <3>1. base.count + Cardinality(S) = n
      BY <2>5
    <3> HIDE DEF n
    <3> QED BY <1>3, <2>8, <3>1 DEF Advanced, g
  <2> HIDE DEF text, n, now
  <2>11. now = [count |-> n, offset |-> g, digest |-> InFull(text), file |-> base.file, cursor |-> n]
    BY <2>10 DEF Checkpoints
  <2>12. /\ now.count = n /\ now.offset = g /\ now.digest = InFull(text) /\ now \in Checkpoints
    BY <1>1, <2>4, <2>6, <2>9, <2>11 DEF Checkpoints, n
  <2>13. CountsBy(now)
    <3>1. n > 0 /\ n \in Nat
      BY <2>6 DEF n
    <3>2. text.id = n - 1
      BY <2>8 DEF text, n
    <3> QED BY <2>7, <2>9, <2>12, <3>1, <3>2 DEF CountsBy
  <2>14. IsBoundary(cells, g)
    BY <2>2, <2>4 DEF IsBoundary
  <2>15. now # base
    BY <2>4, <2>12
  <2> QED BY <1>3, <2>1, <2>2, <2>3, <2>4, <2>12, <2>13, <2>14, <2>15 DEF n, now, g
<1> QED BY <1>2, <1>3

\* The first of some positions are those up to one of them.
LEMMA FirstIsDownward ==
  ASSUME NEW S, S \subseteq Nat, IsFiniteSet(S), NEW n \in Int
  PROVE  \A i \in FirstOf(S, n) : \A j \in S : j <= i => j \in FirstOf(S, n)
<1> SUFFICES ASSUME NEW i \in FirstOf(S, n), NEW j \in S, j <= i PROVE j \in FirstOf(S, n)
  OBVIOUS
<1> DEFINE J == {k \in S : k <= j}
           I == {k \in S : k <= i}
<1>1. i \in S /\ Cardinality(I) <= n /\ i \in Nat /\ j \in Nat
  BY DEF FirstOf
<1>2. J \subseteq I /\ I \subseteq S
  <2>1. \A k \in S : k \in Nat /\ (k <= j => k <= i)
    BY <1>1
  <2> QED BY <2>1
<1>3. IsFiniteSet(I) /\ IsFiniteSet(J) /\ Cardinality(I) \in Nat /\ Cardinality(J) \in Nat
  <2> HIDE DEF I, J
  <2> QED BY <1>2, FS_Subset, FS_CardinalityType
<1>4. Cardinality(J) <= Cardinality(I)
  <2> HIDE DEF I, J
  <2> QED BY <1>2, <1>3, FS_Subset
<1>5. Cardinality(J) <= n
  <2> HIDE DEF I, J
  <2> QED BY <1>1, <1>3, <1>4
<1> QED BY <1>5 DEF FirstOf

\* Part of a line leaves the records as they are.
LEMMA TornTail ==
  ASSUME NEW cells \in Seq(Cells), NEW part \in Seq(Cells),
         \A i \in 1..Len(part) : part[i] # Newline, IsNumbered(cells)
  PROVE  /\ SameTo(cells, cells \o part, Len(cells))
         /\ CallEnds(cells \o part, 0, Len(cells \o part)) = CallEnds(cells, 0, Len(cells))
         /\ IsNumbered(cells \o part)
<1> DEFINE L == Len(cells)
           all == cells \o part
<1>1. /\ L \in Nat /\ all \in Seq(Cells) /\ Len(all) = L + Len(part) /\ Len(part) \in Nat
      /\ \A i \in 1..L : all[i] = cells[i]
      /\ \A i \in 1..Len(part) : all[L + i] = part[i]
  OBVIOUS
<1>2. SameTo(cells, all, L)
  BY <1>1 DEF SameTo
<1>3. ASSUME NEW i \in (L + 1)..Len(all) PROVE all[i] # Newline
  <2>1. i - L \in 1..Len(part) /\ L + (i - L) = i
    BY <1>1
  <2> QED BY <1>1, <2>1
<1> HIDE DEF all
<1>4. CallEnds(all, 0, Len(all)) = CallEnds(all, 0, L)
  BY <1>1, <1>3 DEF CallEnds
<1>5. CallEnds(all, 0, L) = CallEnds(cells, 0, L)
  BY <1>1, <1>2, AgreeOn
<1>6. ASSUME NEW i \in CallEnds(all, 0, L)
      PROVE  /\ i \in CallEnds(cells, 0, L) /\ all[i - 1] = cells[i - 1]
             /\ LineBefore(all, i) = LineBefore(cells, i)
             /\ CallEnds(all, 0, i) = CallEnds(cells, 0, i)
  <2>1. i \in 2..L /\ i - 1 \in 1..L /\ i \in 0..L /\ i \in 1..L
    BY <1>1, <1>6 DEF CallEnds
  <2>2. LineBefore(all, i) = LineBefore(cells, i) /\ CallEnds(all, 0, i) = CallEnds(cells, 0, i)
    BY <1>1, <1>2, <2>1, AgreeOn
  <2> QED BY <1>1, <1>5, <1>6, <2>1, <2>2
<1>7. IsNumbered(all)
  BY <1>4, <1>6 DEF IsNumbered
<1> QED BY <1>2, <1>4, <1>5, <1>7 DEF all

\* A line finished adds a record, numbered by those before it.
LEMMA WholeLine ==
  ASSUME NEW cells \in Seq(Cells), NEW b \in 0..Len(cells), IsBoundary(cells, b),
         IsNumbered(SubSeq(cells, 1, b)), NEW text \in Texts, text.id = RecordsTo(cells, b),
         Len(cells) = b + Width[text.kind] + 1, cells[Len(cells)] = Newline,
         \A i \in 1..Width[text.kind] : cells[b + i] = text
  PROVE  IsNumbered(cells)
<1> DEFINE L == Len(cells)
           w == Width[text.kind]
           first == SubSeq(cells, 1, b)
<1>0. /\ text \in Cells /\ text # Newline
      /\ w \in Nat /\ w >= 1 /\ b \in Nat /\ L \in Nat /\ L = b + w + 1 /\ text.kind \in Kinds
  BY LocalAssumption DEF Texts, Cells
<1>1. first \in Seq(Cells) /\ Len(first) = b /\ SameTo(first, cells, b)
  BY FirstCells
<1>2. IsNumbered(first)
  OBVIOUS
<1>x. \A i \in 1..w : cells[b + i] = text
  OBVIOUS
<1> HIDE DEF first, w
<1>3. ASSUME NEW i \in (b + 1)..(L - 1) PROVE cells[i] = text
  <2>1. i - b \in 1..w /\ b + (i - b) = i
    BY <1>0
  <2> QED BY <1>x, <2>1
<1>4. ASSUME NEW i \in CallEnds(cells, 0, L), i <= b
      PROVE  /\ LineBefore(cells, i) = InFull(cells[i - 1])
             /\ cells[i - 1].id = RecordsTo(cells, i) - 1
  <2>1. i \in 2..b /\ i - 1 \in 1..b /\ i \in 0..b /\ i \in 1..b
    BY <1>0, <1>4 DEF CallEnds
  <2>2. /\ LineBefore(first, i) = LineBefore(cells, i) /\ CallEnds(first, 0, i) = CallEnds(cells, 0, i)
        /\ CallEnds(first, 0, b) = CallEnds(cells, 0, b)
    BY <1>0, <1>1, <2>1, AgreeOn
  <2>3. i \in CallEnds(first, 0, Len(first))
    <3>1. i \in CallEnds(cells, 0, b)
      BY <1>0, <1>4, <2>1 DEF CallEnds
    <3> QED BY <1>1, <2>2, <3>1
  <2>4. first[i - 1] = cells[i - 1]
    BY <1>1, <2>1 DEF SameTo
  <2> QED BY <1>2, <2>2, <2>3, <2>4 DEF IsNumbered, RecordsTo, InFull
<1>5. ASSUME NEW i \in CallEnds(cells, 0, L), ~(i <= b) PROVE i = L
  <2>1. i \in 2..L /\ cells[i] = Newline
    BY <1>0, <1>5 DEF CallEnds
  <2> QED BY <1>0, <1>3, <1>5, <2>1
<1>6. cells[L - 1] = text /\ LineBefore(cells, L) = InFull(text)
  <2> DEFINE before == SubSeq(cells, 1, L - 1)
  <2>1. L - 1 \in 0..Len(cells) /\ L - 1 \in (b + 1)..(L - 1) /\ b \in 0..(L - 1)
    BY <1>0
  <2>2. before \in Seq(Cells) /\ Len(before) = L - 1 /\ SameTo(before, cells, L - 1)
    BY <2>1, FirstCells
  <2> HIDE DEF before
  <2>3. IsBoundary(before, b)
    BY <1>0, <2>1, <2>2, AgreeOn
  <2>4. ASSUME NEW i \in (b + 1)..Len(before) PROVE before[i] # Newline
    <3>1. i \in 1..(L - 1) /\ i \in (b + 1)..(L - 1)
      BY <1>0, <2>2
    <3> QED BY <1>0, <1>3, <2>2, <3>1 DEF SameTo
  <2>5. Boundary(before) = b
    BY <2>1, <2>2, <2>3, <2>4, LastBoundary
  <2>6. LineBefore(cells, L) = SubSeq(cells, b + 1, L - 1)
    BY <2>5 DEF LineBefore, before
  <2>7. b + 1 \in 1..(Len(cells) + 1)
    BY <1>0
  <2> DEFINE line == SubSeq(cells, b + 1, L - 1)
  <2>8. /\ line \in Seq(Cells) /\ Len(line) = IF b + 1 <= L - 1 THEN L - 1 - (b + 1) + 1 ELSE 0
        /\ \A k \in 1..Len(line) : line[k] = cells[b + 1 + k - 1]
    BY <2>1, <2>7, PartOf
  <2>9. Len(line) = w
    BY <1>0, <2>8
  <2>10. \A k \in 1..w : line[k] = text
    <3> HIDE DEF line
    <3> SUFFICES ASSUME NEW k \in 1..w PROVE line[k] = text
      OBVIOUS
    <3>1. b + 1 + k - 1 = b + k /\ b + k \in (b + 1)..(L - 1)
      BY <1>0
    <3> QED BY <1>3, <2>8, <2>9, <3>1
  <2>11. /\ InFull(text) \in Seq(Cells) /\ Len(InFull(text)) = w
         /\ \A k \in 1..w : InFull(text)[k] = text
    BY <1>0, TextIs DEF w
  <2>12. line = InFull(text)
    <3> HIDE DEF line
    <3> QED BY <2>8, <2>9, <2>10, <2>11, SeqEqual
  <2> QED BY <1>3, <2>1, <2>6, <2>12
<1>7. RecordsTo(cells, L) = RecordsTo(cells, b) + 1
  <2>1. CallEnds(cells, b, L) = {L}
    <3>1. ASSUME NEW i \in CallEnds(cells, b, L) PROVE i = L
      <4>1. i \in CallEnds(cells, 0, L) /\ ~(i <= b)
        BY <1>0, <3>1 DEF CallEnds
      <4> QED BY <1>5, <4>1
    <3>2. L \in CallEnds(cells, b, L)
      BY <1>0, <1>6 DEF CallEnds
    <3> QED BY <3>1, <3>2
  <2>2. L \in 0..Len(cells) /\ b \in 0..L
    BY <1>0
  <2>3. RecordsTo(cells, L) = RecordsTo(cells, b) + Cardinality(CallEnds(cells, b, L))
    BY <2>2, SplitAt
  <2>4. Cardinality({L}) = 1
    BY FS_Singleton
  <2> QED BY <2>1, <2>3, <2>4
<1>8. RecordsTo(cells, b) \in Nat
  BY <1>0, CallEndsFinite DEF RecordsTo
<1>9. ASSUME NEW i \in CallEnds(cells, 0, L)
      PROVE  /\ LineBefore(cells, i) = InFull(cells[i - 1])
             /\ cells[i - 1].id = RecordsTo(cells, i) - 1
  <2>1. CASE i <= b
    BY <1>4, <2>1
  <2>2. CASE ~(i <= b)
    <3>1. i = L
      BY <1>5, <2>2
    <3> QED BY <1>6, <1>7, <1>8, <3>1
  <2> QED BY <2>1, <2>2
<1> QED BY <1>9 DEF IsNumbered, RecordsTo, InFull

\* A checkpoint that counts the records of a log up to one it has whole.
CountsOn(cells, c) ==
  /\ c \in Checkpoints /\ CountsBy(c)
  /\ c.offset \in 0..Len(cells) /\ IsBoundary(cells, c.offset)
  /\ c.count = RecordsTo(cells, c.offset)
  /\ c.offset = 0 \/ c.offset \in CallEnds(cells, 0, Len(cells))

LEMMA HoldsOn ==
  ASSUME disk \in [Files -> Seq(Cells)], NEW file \in Files, IsNumbered(disk[file]),
         NEW c \in Checkpoints \cup {NoCheckpoint}, Counts(c), NEW end \in Nat, Holds(c, file, end)
  PROVE  CountsOn(disk[file], c) /\ c.offset <= end
<1>1. /\ c \in Checkpoints /\ c.offset \in 0..Len(disk[file]) /\ c.offset <= end
      /\ IsBoundary(disk[file], c.offset) /\ c.count = RecordsTo(disk[file], c.offset)
      /\ CountsBy(c)
  BY HoldsRight DEF Holds, Counts
<1>2. disk[file] \in Seq(Cells) /\ Len(disk[file]) \in Nat
  OBVIOUS
<1>3. CASE c.offset = 0
  BY <1>1, <1>3 DEF CountsOn
<1>4. CASE c.offset # 0
  <2>1. c.count > 0 /\ c.digest # <<>> /\ LineBefore(disk[file], c.offset) = c.digest
    BY <1>1, <1>4 DEF CountsBy, Holds, Checkpoints
  <2>2. c.offset \in 1..Len(disk[file]) /\ disk[file][c.offset] = Newline
    BY <1>1, <1>4 DEF IsBoundary
  <2> DEFINE line == LineBefore(disk[file], c.offset)
  <2>3. c.offset \in 2..Len(disk[file]) /\ Len(line) \in Nat /\ line[Len(line)] = disk[file][c.offset - 1]
    BY <1>2, <2>1, <2>2, LineIs
  <2>4. disk[file][c.offset - 1] # Newline
    <3>1. c.digest = InFull(c.digest[1]) /\ c.digest[1] # Newline /\ c.digest \in Seq(Cells)
      BY <1>1, <2>1 DEF CountsBy, Holds, Checkpoints
    <3>2. c.digest[1] \in Cells
      BY <2>1, <3>1
    <3> DEFINE text == c.digest[1]
    <3>3. /\ Len(InFull(text)) = Width[text.kind] /\ Width[text.kind] \in Nat /\ Width[text.kind] >= 1
          /\ \A i \in 1..Width[text.kind] : InFull(text)[i] = text
      BY <3>1, <3>2, TextIs
    <3> HIDE DEF text
    <3>4. InFull(text)[Len(InFull(text))] = text
      BY <3>3
    <3>5. line = InFull(text) /\ text # Newline
      BY <2>1, <3>1 DEF text
    <3> QED BY <2>3, <3>4, <3>5
  <2>5. c.offset \in CallEnds(disk[file], 0, Len(disk[file]))
    BY <1>2, <2>2, <2>3, <2>4 DEF CallEnds
  <2> QED BY <1>1, <2>5 DEF CountsOn
<1> QED BY <1>3, <1>4

LEMMA StartCounts ==
  ASSUME NEW file \in Files, NEW cells \in Seq(Cells)
  PROVE  CountsOn(cells, StartOf(file)) /\ StartOf(file).offset = 0 /\ StartOf(file).count = 0
<1>1. Len(cells) \in Nat
  OBVIOUS
<1> QED BY <1>1, StartIs DEF CountsOn

LEMMA AdvancedCounts ==
  ASSUME NEW cells \in Seq(Cells), IsNumbered(cells), NEW base, CountsOn(cells, base),
         NEW S, S \subseteq CallEnds(cells, base.offset, Len(cells)),
         \A i \in S : \A j \in CallEnds(cells, base.offset, Len(cells)) : j <= i => j \in S
  PROVE  /\ CountsOn(cells, Advanced(cells, base, S))
         /\ Advanced(cells, base, S).offset >= base.offset
         /\ S = CallEnds(cells, base.offset, Advanced(cells, base, S).offset)
         /\ S # {} => Advanced(cells, base, S).offset = Greatest(S) /\ Greatest(S) \in S
         /\ S = {} => Advanced(cells, base, S) = base
<1> DEFINE now == Advanced(cells, base, S)
<1>1. /\ base \in Checkpoints /\ CountsBy(base) /\ base.offset \in 0..Len(cells)
      /\ IsBoundary(cells, base.offset) /\ base.count = RecordsTo(cells, base.offset)
      /\ base.offset = 0 \/ base.offset \in CallEnds(cells, 0, Len(cells))
  BY DEF CountsOn
<1>2. /\ now \in Checkpoints /\ CountsBy(now) /\ now.offset \in base.offset..Len(cells)
      /\ now.count = RecordsTo(cells, now.offset) /\ IsBoundary(cells, now.offset)
      /\ S = CallEnds(cells, base.offset, now.offset)
      /\ S # {} => now.offset = Greatest(S) /\ Greatest(S) \in S /\ now # base
      /\ S = {} => now = base
  BY <1>1, AdvancedRight
<1> HIDE DEF now
<1>3. now.offset \in 0..Len(cells) /\ now.offset >= base.offset
  BY <1>1, <1>2
<1>4. now.offset = 0 \/ now.offset \in CallEnds(cells, 0, Len(cells))
  <2>1. CallEnds(cells, base.offset, Len(cells)) \subseteq CallEnds(cells, 0, Len(cells))
    BY <1>1 DEF CallEnds
  <2> QED BY <1>1, <1>2, <2>1
<1>5. CountsOn(cells, now)
  BY <1>2, <1>3, <1>4 DEF CountsOn
<1> QED BY <1>2, <1>3, <1>5 DEF now

\* Whom a checkpoint was kept for is no matter to what it counts.
LEMMA ForAnyCursor ==
  ASSUME NEW cells \in Seq(Cells), NEW c, CountsOn(cells, c), NEW n \in Nat
  PROVE  /\ CountsOn(cells, [c EXCEPT !.cursor = n])
         /\ [c EXCEPT !.cursor = n].offset = c.offset /\ [c EXCEPT !.cursor = n].count = c.count
<1>1. /\ [c EXCEPT !.cursor = n].offset = c.offset /\ [c EXCEPT !.cursor = n].count = c.count
      /\ [c EXCEPT !.cursor = n].digest = c.digest /\ [c EXCEPT !.cursor = n] \in Checkpoints
  BY DEF CountsOn, Checkpoints
<1> QED BY <1>1 DEF CountsOn, CountsBy

LEMMA Logs ==
  ASSUME LocalTypeOK, LocalInv
  PROVE  LogNow \in Seq(Cells) /\ Len(LogNow) \in Nat /\ IsNumbered(LogNow)
<1>1. <<>> \in Seq(Cells) /\ Len(<<>>) = 0 /\ CallEnds(<<>>, 0, 0) = {}
  BY DEF CallEnds
<1>2. IsNumbered(<<>>)
  BY <1>1 DEF IsNumbered
<1> QED BY <1>1, <1>2 DEF LocalTypeOK, LocalInv, Recorded, LogNow

----------------------------------------------------------------------------
(* LocalTransport: what a step leaves as it was. *)

Jobs ==
  [op : {"none", "push", "claim", "look"}, kind : Kinds, consumer : Consumers,
   file : Files \cup {NoFile}, end : Nat, count : Nat, at : Nat,
   keep : Checkpoints \cup {NoCheckpoint}]

Labels == {"idle", "count", "write", "rest", "open", "position", "keep", "read", "commit", "committed"}

\* A step of p, the others standing where they stood.
Alone(p) == \A q \in Procs \ {p} : pc'[q] = pc[q] /\ job'[q] = job[q]

LEMMA NoJobIs ==
  /\ NoJob \in Jobs /\ NoJob.op = "none" /\ NoJob.file = NoFile /\ NoJob.end = 0
  /\ NoJob.count = 0 /\ NoJob.at = 0 /\ NoJob.keep = NoCheckpoint
  /\ NoJob.kind \in Kinds /\ NoJob.consumer \in Consumers
<1>1. (CHOOSE k \in Kinds : TRUE) \in Kinds
  <2>1. \E k \in Kinds : TRUE
    BY LocalAssumption
  <2> QED BY <2>1
<1>2. (CHOOSE c \in Consumers : TRUE) \in Consumers
  <2>1. \E c \in Consumers : TRUE
    BY LocalAssumption
  <2> QED BY <2>1
<1> QED BY <1>1, <1>2 DEF NoJob, Jobs

LEMMA Working ==
  ASSUME LocalTypeOK, NEW p \in Procs
  PROVE  /\ job[p] \in Jobs /\ pc[p] \in Labels
         /\ job[p].consumer \in Consumers /\ job[p].kind \in Kinds
         /\ job[p].at \in Nat /\ job[p].count \in Nat /\ job[p].end \in Nat
         /\ job[p].file \in Files \cup {NoFile} /\ job[p].keep \in Checkpoints \cup {NoCheckpoint}
BY DEF LocalTypeOK, Jobs, Labels

LEMMA IdleProceeds ==
  ASSUME NEW p \in Procs, pc'[p] = "idle", job'[p] = NoJob
  PROVE  Proceeds(p)'
<1>1. job'[p].op = "none" /\ job'[p].keep = NoCheckpoint
  BY NoJobIs
<1> QED BY <1>1 DEF Proceeds, InTheLock, PushesOn, ReadsOn, ClaimsPast, PositionStays, Counts

LEMMA UnmovedProceeds ==
  ASSUME LocalInv, NEW q \in Procs, pc'[q] = pc[q], job'[q] = job[q], holder = q => holder' = q,
         UNCHANGED <<disk, named, cursor, meddled>>
  PROVE  Proceeds(q)'
<1>1. LogNow' = LogNow
  BY DEF LogNow
<1>2. Proceeds(q)
  BY DEF LocalInv
<1>3. InTheLock(q)' /\ PushesOn(q)' /\ ReadsOn(q)'
  <2>1. InTheLock(q) /\ PushesOn(q) /\ ReadsOn(q)
    BY <1>2 DEF Proceeds
  <2>2. InTheLock(q)'
    BY <2>1 DEF InTheLock
  <2>3. PushesOn(q)'
    BY <1>1, <2>1 DEF PushesOn
  <2>4. ReadsOn(q)'
    BY <1>1, <2>1 DEF ReadsOn
  <2> QED BY <2>2, <2>3, <2>4
<1>4. ClaimsPast(q)'
  BY <1>1, <1>2 DEF Proceeds, ClaimsPast
<1>5. PositionStays(q)' /\ Counts(job[q].keep)'
  BY <1>1, <1>2 DEF Proceeds, PositionStays
<1> QED BY <1>3, <1>4, <1>5 DEF Proceeds

\* Who is not in the lock has no more to lose than a position.
LEMMA OutsideProceeds ==
  ASSUME LocalTypeOK, LocalInv, NEW q \in Procs, pc'[q] = pc[q], job'[q] = job[q], holder # q,
         meddled' = 0 => /\ meddled = 0 /\ (named' = named \/ named = NoFile)
                         /\ \A i \in Nat : IsBoundary(LogNow, i) => IsBoundary(LogNow, i)'
  PROVE  Proceeds(q)'
<1>1. Proceeds(q) /\ job[q].at \in Nat /\ NoFile \notin Files
  BY Working, LocalAssumption DEF LocalInv
<1>2. pc[q] \notin {"count", "write", "rest", "commit", "committed"} /\ job[q].op # "claim"
  BY <1>1 DEF Proceeds, InTheLock
<1>3. InTheLock(q)' /\ PushesOn(q)' /\ ClaimsPast(q)'
  BY <1>2 DEF InTheLock, PushesOn, ClaimsPast
<1>4. ReadsOn(q)'
  <2>1. ReadsOn(q)
    BY <1>1 DEF Proceeds
  <2> QED BY <1>1, <1>2, <2>1 DEF ReadsOn
<1>5. PositionStays(q)'
  BY <1>1 DEF Proceeds, PositionStays
<1>6. Counts(job[q].keep)'
  BY <1>1 DEF Proceeds
<1> QED BY <1>3, <1>4, <1>5, <1>6 DEF Proceeds

\* A step of p that changes neither the log nor a cursor.
LEMMA QuietStep ==
  ASSUME LocalInv, NEW p \in Procs, Alone(p), UNCHANGED <<disk, named, cursor, meddled>>,
         holder' = holder \/ holder' = (IF holder = p THEN Nobody ELSE holder),
         Counts(tally'), \A c \in Consumers : Counts(offset'[c]), Proceeds(p)'
  PROVE  LocalInv'
<1>1. ASSUME NEW q \in Procs \ {p} PROVE Proceeds(q)'
  <2>1. pc'[q] = pc[q] /\ job'[q] = job[q] /\ (holder = q => holder' = q)
    BY DEF Alone
  <2> QED BY <2>1, UnmovedProceeds
<1>2. Recorded'
  BY DEF LocalInv, Recorded
<1> QED BY <1>1, <1>2 DEF LocalInv

\* A step of p in the lock, or that takes it.
LEMMA LockedStep ==
  ASSUME LocalTypeOK, LocalInv, NEW p \in Procs, Alone(p), holder \in {p, Nobody},
         meddled' = meddled, named' = named \/ named = NoFile,
         \A f \in Files : IsNumbered(disk'[f]), UNCHANGED <<offset, tally>>,
         \A i \in Nat : IsBoundary(LogNow, i) => IsBoundary(LogNow, i)',
         Proceeds(p)'
  PROVE  LocalInv'
<1>1. ASSUME NEW q \in Procs \ {p} PROVE Proceeds(q)'
  <2>1. pc'[q] = pc[q] /\ job'[q] = job[q] /\ holder # q
    BY LocalAssumption DEF Alone
  <2> QED BY <2>1, OutsideProceeds
<1>2. Recorded'
  BY DEF LocalInv, Recorded
<1> QED BY <1>1, <1>2 DEF LocalInv

\* A lock taken heals the log.
LEMMA Entered ==
  ASSUME LocalTypeOK, LocalInv, NEW p \in Procs, Enter(p), named' = named
  PROVE  /\ LogNow' = (IF named = NoFile THEN <<>> ELSE Healed(LogNow))
         /\ LogNow' \in Seq(Cells) /\ Len(LogNow)' \in Nat
         /\ IsBoundary(LogNow, Len(LogNow))'
         /\ disk' \in [Files -> Seq(Cells)]
         /\ \A f \in Files : IsNumbered(disk'[f])
         /\ \A i \in Nat : IsBoundary(LogNow, i) => IsBoundary(LogNow, i)'
<1>1. \A f \in Files : disk[f] \in Seq(Cells) /\ IsNumbered(disk[f])
  BY DEF LocalTypeOK, LocalInv, Recorded
<1>2. CASE named = NoFile
  <2>1. LogNow' = <<>> /\ LogNow = <<>> /\ disk' = disk
    BY <1>2 DEF LogNow, Enter
  <2>2. <<>> \in Seq(Cells) /\ Len(<<>>) = 0 /\ IsBoundary(<<>>, 0)
    BY DEF IsBoundary
  <2> QED BY <1>1, <1>2, <2>1, <2>2 DEF LocalTypeOK
<1>3. CASE named # NoFile
  <2>1. named \in Files /\ disk' = [disk EXCEPT ![named] = Healed(@)] /\ LogNow = disk[named]
    BY <1>3 DEF LocalTypeOK, Enter, LogNow
  <2>2. LogNow' = Healed(LogNow)
    BY <1>3, <2>1 DEF LogNow, LocalTypeOK
  <2>3. LogNow \in Seq(Cells) /\ Len(LogNow) \in Nat /\ IsNumbered(LogNow)
    BY <1>1, <2>1
  <2>4. /\ Healed(LogNow) \in Seq(Cells) /\ Len(Healed(LogNow)) \in Nat
        /\ IsBoundary(Healed(LogNow), Len(Healed(LogNow)))
        /\ \A i \in 0..Len(LogNow) : IsBoundary(LogNow, i) => IsBoundary(Healed(LogNow), i)
        /\ IsNumbered(Healed(LogNow))
    BY <2>3, HealedIs
  <2>5. \A i \in Nat : IsBoundary(LogNow, i) => IsBoundary(LogNow, i)'
    <3>1. ASSUME NEW i \in Nat, IsBoundary(LogNow, i) PROVE i \in 0..Len(LogNow)
      BY <2>3, <3>1 DEF IsBoundary
    <3>2. ASSUME NEW i \in Nat, IsBoundary(LogNow, i) PROVE IsBoundary(LogNow', i)
      BY <2>2, <2>4, <3>1, <3>2
    <3> QED BY <3>2 DEF IsBoundary
  <2>6. \A f \in Files : disk'[f] \in Seq(Cells) /\ IsNumbered(disk'[f])
    BY <1>1, <2>1, <2>4 DEF LocalTypeOK
  <2>7. disk' \in [Files -> Seq(Cells)]
    BY <2>1, <2>4 DEF LocalTypeOK
  <2>8. IsBoundary(LogNow, Len(LogNow))'
    BY <2>2, <2>4 DEF IsBoundary
  <2> QED BY <1>3, <2>2, <2>4, <2>5, <2>6, <2>7, <2>8
<1> QED BY <1>2, <1>3

----------------------------------------------------------------------------
(* LocalTransport: the steps. *)

LEMMA PushSafe ==
  ASSUME LocalTypeOK, LocalInv, NEW p \in Procs, NEW kind \in Kinds, Push(p, kind)
  PROVE  LocalTypeOK' /\ LocalInv'
<1> DEFINE new == [NoJob EXCEPT !.op = "push", !.kind = kind]
<1>1. /\ Enter(p) /\ pc[p] = "idle" /\ holder = Nobody /\ holder' = p
      /\ job' = [job EXCEPT ![p] = new] /\ pc' = [pc EXCEPT ![p] = "count"]
      /\ UNCHANGED <<named, cursor, offset, tally, meddled>>
  BY DEF Push, Goto, Enter
<1>2. new \in Jobs /\ new.op = "push" /\ new.count = 0 /\ new.keep = NoCheckpoint
  BY NoJobIs DEF Jobs
<1> HIDE DEF new
<1>3. job'[p] = new /\ pc'[p] = "count" /\ Alone(p)
  BY <1>1 DEF Alone, LocalTypeOK
<1>4. /\ IsBoundary(LogNow, Len(LogNow))' /\ disk' \in [Files -> Seq(Cells)]
      /\ \A f \in Files : IsNumbered(disk'[f])
      /\ \A i \in Nat : IsBoundary(LogNow, i) => IsBoundary(LogNow, i)'
  BY <1>1, Entered
<1>5. Proceeds(p)'
  <2>1. InTheLock(p)' /\ ReadsOn(p)' /\ ClaimsPast(p)' /\ PositionStays(p)'
    BY <1>1, <1>2, <1>3 DEF InTheLock, ReadsOn, ClaimsPast, PositionStays
  <2>2. PushesOn(p)'
    BY <1>2, <1>3, <1>4 DEF PushesOn
  <2>3. Counts(job[p].keep)'
    BY <1>2, <1>3 DEF Counts
  <2> QED BY <2>1, <2>2, <2>3 DEF Proceeds
<1>6. LocalInv'
  BY <1>1, <1>3, <1>4, <1>5, LockedStep
<1>7. LocalTypeOK'
  BY <1>1, <1>2, <1>4 DEF LocalTypeOK, Jobs
<1> QED BY <1>6, <1>7

\* What a claim and a look begin with.
LEMMA CursorRead ==
  ASSUME LocalTypeOK, NEW p \in Procs, NEW op \in {"claim", "look"}, NEW c \in Consumers,
         ReadCursor(p, op, c)
  PROVE  /\ job'[p] \in Jobs /\ job'[p].op = op /\ job'[p].consumer = c /\ job'[p].at = 0
         /\ job'[p].keep = NoCheckpoint /\ job'[p].file = NoFile
         /\ pc'[p] \in {"open", "read"}
         /\ pc'[p] = "open" => job'[p].count = cursor[c]
         /\ pc'[p] = "read" => cursor[c] <= 0
         /\ Alone(p)
         /\ pc' \in [Procs -> Labels] /\ job' \in [Procs -> Jobs]
<1> DEFINE n == IF cursor[c] > 0 THEN cursor[c] ELSE 0
           new == [NoJob EXCEPT !.op = op, !.consumer = c, !.count = n]
           next == IF cursor[c] > 0 THEN "open" ELSE "read"
<1>1. job' = [job EXCEPT ![p] = new] /\ pc' = [pc EXCEPT ![p] = next]
  BY DEF ReadCursor, Goto
<1>2. cursor[c] \in Nat \cup {-1} /\ n \in Nat
  BY DEF LocalTypeOK, Absent
<1>3. /\ next \in {"open", "read"} /\ (next = "open" => n = cursor[c])
      /\ (next = "read" => cursor[c] <= 0)
  BY <1>2
<1> HIDE DEF n, next
<1>4. /\ new \in Jobs /\ new.op = op /\ new.consumer = c /\ new.count = n /\ new.at = 0
      /\ new.keep = NoCheckpoint /\ new.file = NoFile
  BY <1>2, NoJobIs DEF Jobs
<1> HIDE DEF new
<1>5. job \in [Procs -> Jobs] /\ pc \in [Procs -> Labels] /\ next \in Labels
  BY <1>3 DEF LocalTypeOK, Jobs, Labels
<1>6. job'[p] = new /\ pc'[p] = next /\ Alone(p)
  BY <1>1, <1>5 DEF Alone
<1>7. pc' \in [Procs -> Labels] /\ job' \in [Procs -> Jobs]
  BY <1>1, <1>4, <1>5
<1> QED BY <1>3, <1>4, <1>6, <1>7

LEMMA ClaimForSafe ==
  ASSUME LocalTypeOK, LocalInv, NEW p \in Procs, NEW c \in Consumers, ClaimFor(p, c)
  PROVE  LocalTypeOK' /\ LocalInv'
<1>1. /\ Enter(p) /\ holder = Nobody /\ holder' = p /\ ReadCursor(p, "claim", c)
      /\ UNCHANGED <<named, cursor, offset, tally, meddled>>
  BY DEF ClaimFor, Enter
<1>2. /\ job'[p].op = "claim" /\ job'[p].consumer = c /\ job'[p].at = 0
      /\ job'[p].keep = NoCheckpoint
      /\ pc'[p] \in {"open", "read"}
      /\ pc'[p] = "open" => job'[p].count = cursor[c]
      /\ pc'[p] = "read" => cursor[c] <= 0
      /\ Alone(p)
      /\ pc' \in [Procs -> Labels] /\ job' \in [Procs -> Jobs]
  BY <1>1, CursorRead
<1>3. /\ disk' \in [Files -> Seq(Cells)]
      /\ \A f \in Files : IsNumbered(disk'[f])
      /\ \A i \in Nat : IsBoundary(LogNow, i) => IsBoundary(LogNow, i)'
      /\ LogNow' \in Seq(Cells) /\ Len(LogNow)' \in Nat
  BY <1>1, Entered
<1>4. ASSUME NEW e \in CallEnds(LogNow', 0, Len(LogNow')) PROVE RecordsTo(LogNow', e) > 0
  <2>1. e \in 2..Len(LogNow') /\ e \in CallEnds(LogNow', 0, e) /\ 0 \in 0..e /\ e \in Nat /\ 0 < e
    BY <1>3, <1>4 DEF CallEnds
  <2>2. RecordsTo(LogNow', 0) \in Nat /\ RecordsTo(LogNow', 0) < RecordsTo(LogNow', e)
        /\ RecordsTo(LogNow', e) \in Nat
    BY <1>3, <2>1, RecordsGrow
  <2> QED BY <2>2
<1>5. ClaimsPast(p)'
  <2>1. pc'[p] = "read" => \A e \in CallEnds(LogNow', 0, Len(LogNow')) :
                             RecordsTo(LogNow', e) > cursor'[c]
    <3>1. SUFFICES ASSUME pc'[p] = "read", NEW e \in CallEnds(LogNow', 0, Len(LogNow'))
                   PROVE  RecordsTo(LogNow', e) > cursor'[c]
      OBVIOUS
    <3>2. e \in Nat
      BY <1>3 DEF CallEnds
    <3>3. RecordsTo(LogNow', e) > 0 /\ RecordsTo(LogNow', e) \in Nat
      BY <1>3, <1>4, <3>2, CallEndsFinite DEF RecordsTo
    <3>4. cursor'[c] <= 0 /\ cursor'[c] \in Int
      BY <1>1, <1>2, <3>1 DEF LocalTypeOK, Absent
    <3> QED BY <3>3, <3>4
  <2> QED BY <1>1, <1>2, <2>1 DEF ClaimsPast, RecordsTo
<1>6. Proceeds(p)'
  <2>1. InTheLock(p)' /\ PushesOn(p)' /\ ReadsOn(p)'
    BY <1>1, <1>2 DEF InTheLock, PushesOn, ReadsOn
  <2>2. PositionStays(p)' /\ Counts(job[p].keep)'
    BY <1>2 DEF PositionStays, Counts, IsBoundary
  <2> QED BY <1>5, <2>1, <2>2 DEF Proceeds
<1>7. LocalInv'
  BY <1>1, <1>2, <1>3, <1>6, LockedStep
<1>8. LocalTypeOK'
  BY <1>1, <1>2, <1>3 DEF LocalTypeOK, Jobs, Labels
<1> QED BY <1>7, <1>8

LEMMA LookSafe ==
  ASSUME LocalTypeOK, LocalInv, NEW p \in Procs, NEW c \in Consumers, Look(p, c)
  PROVE  LocalTypeOK' /\ LocalInv'
<1>1. ReadCursor(p, "look", c) /\ UNCHANGED <<disk, named, cursor, offset, tally, holder, meddled>>
  BY DEF Look
<1>2. /\ job'[p].op = "look" /\ job'[p].consumer = c /\ job'[p].at = 0
      /\ job'[p].keep = NoCheckpoint
      /\ pc'[p] \in {"open", "read"}
      /\ Alone(p)
      /\ pc' \in [Procs -> Labels] /\ job' \in [Procs -> Jobs]
  BY <1>1, CursorRead
<1>3. Proceeds(p)'
  <2>1. InTheLock(p)' /\ PushesOn(p)' /\ ReadsOn(p)' /\ ClaimsPast(p)'
    BY <1>2 DEF InTheLock, PushesOn, ReadsOn, ClaimsPast
  <2>2. PositionStays(p)' /\ Counts(job[p].keep)'
    BY <1>2 DEF PositionStays, Counts, IsBoundary
  <2> QED BY <2>1, <2>2 DEF Proceeds
<1>4. Counts(tally') /\ \A x \in Consumers : Counts(offset'[x])
  BY <1>1 DEF LocalInv, Recorded
<1>5. LocalInv'
  BY <1>1, <1>2, <1>3, <1>4, QuietStep
<1>6. LocalTypeOK'
  BY <1>1, <1>2 DEF LocalTypeOK, Jobs, Labels
<1> QED BY <1>5, <1>6

LEMMA CountSafe ==
  ASSUME LocalTypeOK, LocalInv, NEW p \in Procs, Count(p)
  PROVE  LocalTypeOK' /\ LocalInv'
<1>1. /\ pc[p] = "count" /\ pc' = [pc EXCEPT ![p] = "write"]
      /\ UNCHANGED <<disk, named, cursor, offset, holder, meddled>>
  BY DEF Count, Goto
<1>2. /\ job[p] \in Jobs /\ job \in [Procs -> Jobs] /\ pc \in [Procs -> Labels]
      /\ Proceeds(p) /\ LogNow \in Seq(Cells) /\ Len(LogNow) \in Nat /\ IsNumbered(LogNow)
  BY Logs DEF LocalTypeOK, Jobs, Labels, LocalInv
<1>3. /\ tally' \in Checkpoints \cup {NoCheckpoint} /\ Counts(tally')
      /\ job' \in [Procs -> Jobs] /\ \A q \in Procs \ {p} : job'[q] = job[q]
      /\ job'[p].count = RecordsTo(LogNow, Len(LogNow))
      /\ job'[p].op = job[p].op /\ job'[p].keep = job[p].keep
  <2>0. tally \in Checkpoints \cup {NoCheckpoint} /\ Counts(tally)
    BY DEF LocalTypeOK, LocalInv, Recorded
  <2>1. CASE named = NoFile
    <3>1. LogNow = <<>> /\ tally' = tally /\ job' = job
      BY <2>1 DEF Count, LogNow
    <3>2. CallEnds(<<>>, 0, 0) = {} /\ Len(<<>>) = 0
      BY DEF CallEnds
    <3>3. RecordsTo(LogNow, Len(LogNow)) = 0
      BY <3>1, <3>2, FS_EmptySet DEF RecordsTo
    <3>4. job[p].count = 0
      BY <1>1, <1>2 DEF Proceeds, PushesOn
    <3> QED BY <1>2, <2>0, <3>1, <3>3, <3>4
  <2>2. CASE named # NoFile
    <3> DEFINE base == IF Holds(tally, named, Len(LogNow)) THEN tally ELSE StartOf(named)
               S == CallEnds(LogNow, base.offset, Len(LogNow))
               now == Advanced(LogNow, base, S)
    <3>1. named \in Files /\ LogNow = disk[named] /\ disk \in [Files -> Seq(Cells)]
      BY <2>2 DEF LocalTypeOK, LogNow
    <3>2. CountsOn(LogNow, base)
      <4>1. CASE Holds(tally, named, Len(LogNow))
        BY <1>2, <2>0, <3>1, <4>1, HoldsOn
      <4>2. CASE ~Holds(tally, named, Len(LogNow))
        BY <1>2, <3>1, <4>2, StartCounts
      <4> QED BY <4>1, <4>2
    <3>3. /\ tally' \in {tally, IF now = base THEN tally ELSE now}
          /\ job' = [job EXCEPT ![p].count = now.count]
      BY <2>2 DEF Count
    <3> HIDE DEF base
    <3>4. CountsOn(LogNow, now) /\ now.offset >= base.offset /\ S = CallEnds(LogNow, base.offset, now.offset)
      BY <1>2, <3>2, AdvancedCounts
    <3>5. /\ now \in Checkpoints /\ CountsBy(now) /\ now.count = RecordsTo(LogNow, now.offset)
          /\ now.count \in Nat /\ now.offset \in 0..Len(LogNow) /\ base.offset \in 0..Len(LogNow)
          /\ IsBoundary(LogNow, base.offset)
      BY <3>2, <3>4 DEF CountsOn, Checkpoints
    <3> HIDE DEF now, S
    <3>6. RecordsTo(LogNow, Len(LogNow)) = now.count
      <4>1. base.offset \in 0..now.offset /\ Len(LogNow) \in 0..Len(LogNow)
        BY <1>2, <3>4, <3>5
      <4>2. RecordsTo(LogNow, Len(LogNow)) = RecordsTo(LogNow, base.offset) + Cardinality(S)
        BY <1>2, <3>5, <4>1, SplitAt DEF S
      <4>3. RecordsTo(LogNow, now.offset) = RecordsTo(LogNow, base.offset) + Cardinality(S)
        BY <1>2, <3>4, <3>5, <4>1, SplitAt
      <4> QED BY <3>5, <4>2, <4>3
    <3>7. job' \in [Procs -> Jobs] /\ \A q \in Procs \ {p} : job'[q] = job[q]
      BY <1>2, <3>3, <3>5 DEF Jobs
    <3>8. job'[p].count = now.count /\ job'[p].op = job[p].op /\ job'[p].keep = job[p].keep
      BY <1>2, <3>3 DEF Jobs
    <3>9. tally' \in Checkpoints \cup {NoCheckpoint} /\ Counts(tally')
      BY <2>0, <3>3, <3>5 DEF Counts
    <3> QED BY <3>6, <3>7, <3>8, <3>9
  <2> QED BY <2>1, <2>2
<1>4. pc'[p] = "write" /\ Alone(p) /\ pc' \in [Procs -> Labels]
  BY <1>1, <1>2, <1>3 DEF Alone, Labels
<1>5. Proceeds(p)'
  <2>1. LogNow' = LogNow
    BY <1>1 DEF LogNow
  <2>3. IsBoundary(LogNow, Len(LogNow)) /\ Counts(job[p].keep) /\ holder = p
    BY <1>1, <1>2 DEF Proceeds, InTheLock, PushesOn
  <2>4. InTheLock(p)' /\ ReadsOn(p)' /\ ClaimsPast(p)' /\ PositionStays(p)'
    BY <1>1, <1>4, <2>3 DEF InTheLock, ReadsOn, ClaimsPast, PositionStays
  <2>5. PushesOn(p)'
    BY <1>3, <1>4, <2>1, <2>3 DEF PushesOn
  <2>6. Counts(job[p].keep)'
    BY <1>3, <2>3 DEF Counts
  <2> QED BY <2>4, <2>5, <2>6 DEF Proceeds
<1>6. LocalInv'
  <2>1. \A c \in Consumers : Counts(offset'[c])
    BY <1>1 DEF LocalInv, Recorded
  <2> QED BY <1>1, <1>3, <1>4, <1>5, <2>1, QuietStep
<1>7. LocalTypeOK'
  BY <1>1, <1>3, <1>4 DEF LocalTypeOK, Jobs, Labels
<1> QED BY <1>6, <1>7

----------------------------------------------------------------------------
(* LocalTransport: a line is written. *)

\* The line of a push.
LEMMA NumberedIs ==
  ASSUME LocalTypeOK, NEW p \in Procs
  PROVE  LET text == [id |-> job[p].count, kind |-> job[p].kind]
             w == Width[job[p].kind]
         IN  /\ text \in Texts /\ text \in Cells /\ text # Newline /\ w \in Nat /\ w >= 1
             /\ Numbered(p) \in Seq(Cells) /\ Len(Numbered(p)) = w + 1
             /\ \A i \in 1..w : Numbered(p)[i] = text
             /\ Numbered(p)[w + 1] = Newline
<1> DEFINE text == [id |-> job[p].count, kind |-> job[p].kind]
           w == Width[job[p].kind]
<1>1. job[p].count \in Nat /\ job[p].kind \in Kinds
  BY Working
<1>2. text \in Texts /\ text \in Cells /\ text # Newline /\ text.kind = job[p].kind
  BY <1>1, LocalAssumption DEF Texts, Cells
<1>3. w \in Nat /\ w >= 1
  BY <1>1, LocalAssumption
<1>4. Numbered(p) = [i \in 1..(w + 1) |-> IF i <= w THEN text ELSE Newline]
  BY <1>2 DEF Numbered, LineOf
<1> HIDE DEF text, w
<1>5. /\ Numbered(p) \in Seq(Cells) /\ Len(Numbered(p)) = w + 1
      /\ \A i \in 1..w : Numbered(p)[i] = text
      /\ Numbered(p)[w + 1] = Newline
  <2>1. Newline \in Cells
    BY DEF Cells
  <2> QED BY <1>2, <1>3, <1>4, <2>1
<1> QED BY <1>2, <1>3, <1>5 DEF text, w

LEMMA WriteBeginsSafe ==
  ASSUME LocalTypeOK, LocalInv, NEW p \in Procs, WriteBegins(p)
  PROVE  /\ LocalTypeOK' /\ LocalInv'
         /\ \E part \in Seq(Cells) : LogNow' = LogNow \o part
<1> DEFINE text == [id |-> job[p].count, kind |-> job[p].kind]
           w == Width[job[p].kind]
<1>1. /\ pc[p] = "write" /\ pc' = [pc EXCEPT ![p] = "rest"]
      /\ UNCHANGED <<cursor, offset, tally, holder, meddled>>
  BY DEF WriteBegins, Goto
<1>2. /\ job[p] \in Jobs /\ job \in [Procs -> Jobs] /\ pc \in [Procs -> Labels]
      /\ Proceeds(p) /\ LogNow \in Seq(Cells) /\ Len(LogNow) \in Nat /\ IsNumbered(LogNow)
  BY Logs DEF LocalTypeOK, Jobs, Labels, LocalInv
<1>3. /\ text \in Texts /\ text \in Cells /\ text # Newline /\ w \in Nat /\ w >= 1
      /\ Numbered(p) \in Seq(Cells) /\ Len(Numbered(p)) = w + 1
      /\ \A i \in 1..w : Numbered(p)[i] = text
  BY NumberedIs
<1> HIDE DEF text
<1>4. PICK n \in {0, 1, w} :
        /\ job' = [job EXCEPT ![p].at = Len(LogNow), ![p].end = n]
        /\ IF named = NoFile
           THEN \E f \in Unopened : /\ named' = f
                                    /\ disk' = [disk EXCEPT ![f] = SubSeq(Numbered(p), 1, n)]
           ELSE /\ disk' = [disk EXCEPT ![named] = @ \o SubSeq(Numbered(p), 1, n)]
                /\ UNCHANGED named
  BY DEF WriteBegins
<1> HIDE DEF w
<1> DEFINE part == SubSeq(Numbered(p), 1, n)
<1>5. n \in 0..w /\ n \in Nat /\ n <= w
  BY <1>3, <1>4
<1>6. /\ part \in Seq(Cells) /\ Len(part) = n
      /\ \A i \in 1..n : part[i] = text
  <2>1. n \in 0..Len(Numbered(p))
    BY <1>3, <1>5
  <2>2. part \in Seq(Cells) /\ Len(part) = n /\ SameTo(part, Numbered(p), n)
    BY <1>3, <2>1, FirstCells
  <2> QED BY <1>3, <1>5, <2>2 DEF SameTo
<1> HIDE DEF part
<1>7. \A f \in Files : disk[f] \in Seq(Cells) /\ IsNumbered(disk[f])
  BY DEF LocalTypeOK, LocalInv, Recorded
<1>8. /\ LogNow' = LogNow \o part /\ named' \in Files /\ named' # NoFile
      /\ named' = named \/ named = NoFile
      /\ disk' = [disk EXCEPT ![named'] = LogNow \o part]
  <2>1. CASE named = NoFile
    <3>1. PICK f \in Unopened : named' = f /\ disk' = [disk EXCEPT ![f] = part]
      BY <1>4, <2>1 DEF part
    <3>2. f \in Files /\ f # NoFile
      BY LocalAssumption DEF Unopened
    <3>3. LogNow = <<>> /\ <<>> \o part = part
      BY <1>6, <2>1 DEF LogNow
    <3>4. LogNow' = part
      BY <3>1, <3>2 DEF LogNow, LocalTypeOK
    <3> QED BY <2>1, <3>1, <3>2, <3>3, <3>4
  <2>2. CASE named # NoFile
    <3>1. named \in Files /\ named' = named /\ disk' = [disk EXCEPT ![named] = @ \o part]
          /\ LogNow = disk[named]
      BY <1>4, <2>2 DEF part, LogNow, LocalTypeOK
    <3>2. LogNow' = LogNow \o part
      BY <2>2, <3>1 DEF LogNow, LocalTypeOK
    <3> QED BY <2>2, <3>1, <3>2
  <2> QED BY <2>1, <2>2
<1>9. /\ SameTo(LogNow, LogNow', Len(LogNow)) /\ IsNumbered(LogNow')
      /\ LogNow' \in Seq(Cells) /\ Len(LogNow') = Len(LogNow) + n
      /\ \A i \in 1..n : LogNow'[Len(LogNow) + i] = text
  <2>1. \A i \in 1..Len(part) : part[i] # Newline
    BY <1>3, <1>6
  <2>2. SameTo(LogNow, LogNow \o part, Len(LogNow)) /\ IsNumbered(LogNow \o part)
    BY <1>2, <1>6, <2>1, TornTail
  <2>3. /\ LogNow \o part \in Seq(Cells) /\ Len(LogNow \o part) = Len(LogNow) + n
        /\ \A i \in 1..n : (LogNow \o part)[Len(LogNow) + i] = part[i]
    BY <1>2, <1>5, <1>6
  <2> QED BY <1>6, <1>8, <2>2, <2>3
<1>10. /\ disk' \in [Files -> Seq(Cells)] /\ \A f \in Files : IsNumbered(disk'[f])
  BY <1>7, <1>8, <1>9 DEF LocalTypeOK
<1>11. \A i \in 0..Len(LogNow) : IsBoundary(LogNow, i) <=> IsBoundary(LogNow', i)
  BY <1>2, <1>9, AgreeOn
<1>12. \A i \in Nat : IsBoundary(LogNow, i) => IsBoundary(LogNow, i)'
  <2>1. ASSUME NEW i \in Nat, IsBoundary(LogNow, i) PROVE i \in 0..Len(LogNow)
    BY <1>2, <2>1 DEF IsBoundary
  <2>2. ASSUME NEW i \in Nat, IsBoundary(LogNow, i) PROVE IsBoundary(LogNow', i)
    BY <1>11, <2>1, <2>2
  <2> QED BY <2>2 DEF IsBoundary
<1>13. /\ job' \in [Procs -> Jobs] /\ \A q \in Procs \ {p} : job'[q] = job[q]
       /\ job'[p].at = Len(LogNow) /\ job'[p].end = n /\ job'[p].count = job[p].count
       /\ job'[p].kind = job[p].kind /\ job'[p].op = job[p].op /\ job'[p].keep = job[p].keep
  <2>1. job' = [job EXCEPT ![p] = [job[p] EXCEPT !.at = Len(LogNow), !.end = n]]
    BY <1>2, <1>4
  <2> QED BY <1>2, <1>5, <2>1 DEF Jobs
<1>14. pc'[p] = "rest" /\ Alone(p) /\ pc' \in [Procs -> Labels]
  BY <1>1, <1>2, <1>13 DEF Alone, Labels
<1>15. Proceeds(p)'
  <2>1. /\ holder = p /\ IsBoundary(LogNow, Len(LogNow)) /\ Counts(job[p].keep)
        /\ job[p].count = RecordsTo(LogNow, Len(LogNow))
    BY <1>1, <1>2 DEF Proceeds, InTheLock, PushesOn
  <2>2. InTheLock(p)' /\ ReadsOn(p)' /\ ClaimsPast(p)' /\ PositionStays(p)'
    BY <1>1, <1>14, <2>1 DEF InTheLock, ReadsOn, ClaimsPast, PositionStays
  <2>3. IsBoundary(LogNow', Len(LogNow))
    BY <1>2, <1>11, <2>1
  <2>4. RecordsTo(LogNow', Len(LogNow)) = job[p].count
    <3>1. CallEnds(LogNow, 0, Len(LogNow)) = CallEnds(LogNow', 0, Len(LogNow))
      BY <1>2, <1>9, AgreeOn
    <3> QED BY <2>1, <3>1 DEF RecordsTo
  <2>5. PushesOn(p)'
    <3>1. IsBoundary(LogNow, job[p].at)'
      BY <1>13, <2>3 DEF IsBoundary
    <3>2. Len(LogNow)' = job'[p].at + job'[p].end /\ job'[p].end <= Width[job'[p].kind]
      BY <1>5, <1>9, <1>13 DEF w
    <3>3. \A i \in 1..job'[p].end : LogNow'[job'[p].at + i] = [id |-> job'[p].count, kind |-> job'[p].kind]
      BY <1>9, <1>13 DEF text
    <3>4. (job[p].count = RecordsTo(LogNow, job[p].at))'
      BY <1>13, <2>4 DEF RecordsTo
    <3> QED BY <1>8, <1>14, <3>1, <3>2, <3>3, <3>4 DEF PushesOn
  <2>6. Counts(job[p].keep)'
    BY <1>13, <2>1 DEF Counts
  <2> QED BY <2>2, <2>5, <2>6 DEF Proceeds
<1>16. LocalInv'
  <2>1. holder = p
    BY <1>1, <1>2 DEF Proceeds, InTheLock
  <2> QED BY <1>1, <1>8, <1>10, <1>12, <1>14, <1>15, <2>1, LockedStep
<1>17. LocalTypeOK'
  BY <1>1, <1>8, <1>10, <1>13, <1>14 DEF LocalTypeOK, Jobs, Labels
<1> QED BY <1>6, <1>8, <1>16, <1>17

\* A call that ends.
LEMMA CallOver ==
  ASSUME LocalTypeOK, NEW p \in Procs, Return(p)
  PROVE  /\ pc'[p] = "idle" /\ job'[p] = NoJob /\ Alone(p)
         /\ pc' \in [Procs -> Labels] /\ job' \in [Procs -> Jobs]
         /\ holder' = (IF holder = p THEN Nobody ELSE holder)
         /\ holder' \in Procs \cup {Nobody}
<1>1. /\ pc' = [pc EXCEPT ![p] = "idle"] /\ job' = [job EXCEPT ![p] = NoJob]
      /\ holder' = IF holder = p THEN Nobody ELSE holder
  BY DEF Return, Goto
<1>2. pc \in [Procs -> Labels] /\ job \in [Procs -> Jobs] /\ holder \in Procs \cup {Nobody}
  BY DEF LocalTypeOK, Jobs, Labels
<1>3. pc'[p] = "idle" /\ job'[p] = NoJob /\ Alone(p)
  BY <1>1, <1>2 DEF Alone
<1>4. pc' \in [Procs -> Labels] /\ job' \in [Procs -> Jobs]
  BY <1>1, <1>2, NoJobIs DEF Labels
<1>5. holder' \in Procs \cup {Nobody}
  BY <1>1, <1>2
<1> QED BY <1>1, <1>3, <1>4, <1>5

LEMMA Joined ==
  ASSUME NEW x \in Seq(Cells), NEW y \in Seq(Cells)
  PROVE  /\ x \o y \in Seq(Cells) /\ Len(x \o y) = Len(x) + Len(y)
         /\ \A i \in 1..Len(x) : (x \o y)[i] = x[i]
         /\ \A i \in 1..Len(y) : (x \o y)[Len(x) + i] = y[i]
OBVIOUS

LEMMA WriteEndsSafe ==
  ASSUME LocalTypeOK, LocalInv, NEW p \in Procs, WriteEnds(p)
  PROVE  /\ LocalTypeOK' /\ LocalInv'
         /\ \E part \in Seq(Cells) : LogNow' = LogNow \o part
<1> DEFINE text == [id |-> job[p].count, kind |-> job[p].kind]
           w == Width[job[p].kind]
           b == job[p].at
           n == job[p].end
           rest == SubSeq(Numbered(p), n + 1, Len(Numbered(p)))
           all == LogNow \o rest
<1>1. /\ pc[p] = "rest" /\ Return(p) /\ disk' = [disk EXCEPT ![named] = @ \o rest]
      /\ UNCHANGED <<named, cursor, offset, tally, meddled>>
  BY DEF WriteEnds
<1>2. /\ job[p] \in Jobs /\ Proceeds(p)
      /\ LogNow \in Seq(Cells) /\ Len(LogNow) \in Nat /\ IsNumbered(LogNow)
      /\ b \in Nat /\ n \in Nat
  BY Logs, Working DEF LocalInv
<1>3. /\ text \in Texts /\ text \in Cells /\ text # Newline /\ w \in Nat /\ w >= 1
      /\ Numbered(p) \in Seq(Cells) /\ Len(Numbered(p)) = w + 1
      /\ \A i \in 1..w : Numbered(p)[i] = text
      /\ Numbered(p)[w + 1] = Newline
  BY NumberedIs
<1>4. /\ holder = p /\ named # NoFile /\ named \in Files /\ LogNow = disk[named]
      /\ IsBoundary(LogNow, b) /\ Len(LogNow) = b + n /\ n <= w
      /\ \A i \in 1..n : LogNow[b + i] = text
      /\ text.id = RecordsTo(LogNow, b) /\ text.kind = job[p].kind
  BY <1>1, <1>2 DEF Proceeds, InTheLock, PushesOn, LocalTypeOK, LogNow
<1> HIDE DEF text, w, b, n
<1>5. /\ rest \in Seq(Cells) /\ Len(rest) = w + 1 - n
      /\ \A i \in 1..Len(rest) : rest[i] = Numbered(p)[n + i]
  <2>1. n + 1 \in 1..(Len(Numbered(p)) + 1) /\ Len(Numbered(p)) \in 0..Len(Numbered(p))
    BY <1>2, <1>3, <1>4
  <2>2. /\ rest \in Seq(Cells)
        /\ Len(rest) = IF n + 1 <= Len(Numbered(p)) THEN Len(Numbered(p)) - (n + 1) + 1 ELSE 0
        /\ \A i \in 1..Len(rest) : rest[i] = Numbered(p)[n + 1 + i - 1]
    BY <1>3, <2>1, PartOf
  <2>3. Len(rest) = w + 1 - n
    BY <1>2, <1>3, <1>4, <2>2
  <2> HIDE DEF rest
  <2>4. \A i \in 1..Len(rest) : n + 1 + i - 1 = n + i
    BY <1>2
  <2> QED BY <2>2, <2>3, <2>4
<1> HIDE DEF rest
<1>6. /\ all \in Seq(Cells) /\ Len(all) = b + w + 1
      /\ \A i \in 1..(b + n) : all[i] = LogNow[i]
      /\ \A i \in 1..Len(rest) : all[b + n + i] = rest[i]
  <2> DEFINE L == Len(LogNow)
             M == Len(rest)
  <2>1. /\ all \in Seq(Cells) /\ Len(all) = L + M
        /\ \A i \in 1..L : all[i] = LogNow[i]
        /\ \A i \in 1..M : all[L + i] = rest[i]
    <3>1. LogNow \in Seq(Cells) /\ rest \in Seq(Cells)
      BY <1>2, <1>5
    <3> QED BY <3>1, Joined
  <2>2. L = b + n /\ L + M = b + w + 1
    BY <1>2, <1>3, <1>4, <1>5
  <2> HIDE DEF all
  <2> QED BY <2>1, <2>2
<1> HIDE DEF all
<1>7. SameTo(LogNow, all, b + n) /\ SameTo(SubSeq(LogNow, 1, b), all, b)
  <2>1. SameTo(LogNow, all, b + n)
    BY <1>2, <1>3, <1>4, <1>6 DEF SameTo
  <2>2. b \in 0..Len(LogNow)
    BY <1>2, <1>4
  <2>3. Len(SubSeq(LogNow, 1, b)) = b /\ SameTo(SubSeq(LogNow, 1, b), LogNow, b)
    BY <1>2, <2>2, FirstCells
  <2> QED BY <1>2, <1>3, <1>4, <2>1, <2>3 DEF SameTo
<1>8. \A i \in 1..w : all[b + i] = text
  <2> SUFFICES ASSUME NEW i \in 1..w PROVE all[b + i] = text
    OBVIOUS
  <2>1. CASE i <= n
    <3>1. i \in 1..n /\ b + i \in 1..(b + n)
      BY <1>2, <2>1
    <3> QED BY <1>4, <1>6, <3>1
  <2>2. CASE ~(i <= n)
    <3>1. i - n \in 1..Len(rest) /\ b + n + (i - n) = b + i /\ n + (i - n) = i
      BY <1>2, <1>3, <1>5, <2>2
    <3>2. all[b + i] = rest[i - n] /\ rest[i - n] = Numbered(p)[i]
      BY <1>5, <1>6, <3>1
    <3> QED BY <1>3, <3>2
  <2> QED BY <2>1, <2>2
<1>9. all[Len(all)] = Newline
  <2>1. Len(rest) \in 1..Len(rest) /\ b + n + Len(rest) = Len(all) /\ n + Len(rest) = w + 1
    BY <1>2, <1>3, <1>4, <1>5, <1>6
  <2> QED BY <1>3, <1>5, <1>6, <2>1
<1>10. b \in 0..Len(all) /\ b \in 0..(b + n) /\ b \in Nat /\ b + n \in Nat /\ b \in 0..Len(LogNow)
  BY <1>2, <1>3, <1>4, <1>6
<1>11. IsBoundary(all, b) /\ RecordsTo(all, b) = text.id
  <2>1. IsBoundary(LogNow, b) <=> IsBoundary(all, b)
    BY <1>2, <1>6, <1>7, <1>10, AgreeOn
  <2>2. CallEnds(LogNow, 0, b) = CallEnds(all, 0, b)
    BY <1>2, <1>6, <1>7, <1>10, AgreeOn
  <2> QED BY <1>4, <2>1, <2>2 DEF RecordsTo
<1>12. IsNumbered(SubSeq(all, 1, b))
  <2>1. SubSeq(all, 1, b) = SubSeq(LogNow, 1, b)
    BY <1>2, <1>6, <1>7, <1>10, AgreeOn
  <2>2. IsNumbered(SubSeq(LogNow, 1, b))
    BY <1>2, <1>10, FirstAreNumbered
  <2> QED BY <2>1, <2>2
<1>13. IsNumbered(all)
  <2>1. Len(all) = b + Width[text.kind] + 1 /\ \A i \in 1..Width[text.kind] : all[b + i] = text
    BY <1>4, <1>6, <1>8 DEF w
  <2> QED BY <1>3, <1>6, <1>9, <1>10, <1>11, <1>12, <2>1, WholeLine
<1>14. LogNow' = all /\ disk' = [disk EXCEPT ![named] = all]
  BY <1>1, <1>4 DEF LogNow, all, LocalTypeOK
<1>15. disk' \in [Files -> Seq(Cells)] /\ \A f \in Files : IsNumbered(disk'[f])
  BY <1>6, <1>13, <1>14 DEF LocalTypeOK, LocalInv, Recorded
<1>16. \A i \in Nat : IsBoundary(LogNow, i) => IsBoundary(LogNow, i)'
  <2>1. ASSUME NEW i \in Nat, IsBoundary(LogNow, i) PROVE i \in 0..(b + n)
    BY <1>2, <1>4, <2>1 DEF IsBoundary
  <2>2. \A i \in 0..(b + n) : IsBoundary(LogNow, i) <=> IsBoundary(all, i)
    BY <1>2, <1>6, <1>7, <1>10, AgreeOn
  <2>3. ASSUME NEW i \in Nat, IsBoundary(LogNow, i) PROVE IsBoundary(LogNow', i)
    BY <1>14, <2>1, <2>2, <2>3
  <2> QED BY <2>3 DEF IsBoundary
<1>17. /\ pc'[p] = "idle" /\ job'[p] = NoJob /\ Alone(p)
       /\ pc' \in [Procs -> Labels] /\ job' \in [Procs -> Jobs] /\ holder' \in Procs \cup {Nobody}
  BY <1>1, CallOver
<1>18. LocalInv'
  <2>1. Proceeds(p)'
    BY <1>17, IdleProceeds
  <2> QED BY <1>1, <1>4, <1>15, <1>16, <1>17, <2>1, LockedStep
<1>19. LocalTypeOK'
  BY <1>1, <1>15, <1>17 DEF LocalTypeOK, Jobs, Labels
<1> QED BY <1>5, <1>14, <1>18, <1>19 DEF all

LEMMA WriteFailsSafe ==
  ASSUME LocalTypeOK, LocalInv, NEW p \in Procs, WriteFails(p)
  PROVE  /\ LocalTypeOK' /\ LocalInv'
         /\ LogNow' = LogNow \/ LogNow' = SubSeq(LogNow, 1, Boundary(LogNow))
<1> DEFINE b == job[p].at
           n == job[p].end
           first == SubSeq(LogNow, 1, b)
<1>1. /\ pc[p] = "rest" /\ Return(p)
      /\ disk' \in {disk, [disk EXCEPT ![named] = SubSeq(@, 1, b)]}
      /\ UNCHANGED <<named, cursor, offset, tally, meddled>>
  BY DEF WriteFails
<1>2. /\ job[p] \in Jobs /\ Proceeds(p)
      /\ LogNow \in Seq(Cells) /\ Len(LogNow) \in Nat /\ IsNumbered(LogNow)
      /\ b \in Nat /\ n \in Nat
  BY Logs, Working DEF LocalInv
<1>3. /\ holder = p /\ named # NoFile /\ named \in Files /\ LogNow = disk[named]
      /\ IsBoundary(LogNow, b) /\ Len(LogNow) = b + n
      /\ \A i \in 1..n : LogNow[b + i] # Newline
  <2>1. [id |-> job[p].count, kind |-> job[p].kind] # Newline
    BY NumberedIs
  <2> QED BY <1>1, <1>2, <2>1 DEF Proceeds, InTheLock, PushesOn, LocalTypeOK, LogNow
<1> HIDE DEF b, n
<1>4. ASSUME NEW i \in (b + 1)..Len(LogNow) PROVE LogNow[i] # Newline
  <2>1. i - b \in 1..n /\ b + (i - b) = i
    BY <1>2, <1>3
  <2> QED BY <1>3, <2>1
<1>5. b \in 0..Len(LogNow) /\ Boundary(LogNow) = b
  <2>1. b \in 0..Len(LogNow)
    BY <1>2, <1>3
  <2> QED BY <1>2, <1>3, <1>4, <2>1, LastBoundary
<1>6. /\ first \in Seq(Cells) /\ IsNumbered(first) /\ SameTo(first, LogNow, b) /\ Len(first) = b
  BY <1>2, <1>5, FirstCells, FirstAreNumbered
<1> HIDE DEF first
<1>7. LogNow' = LogNow \/ LogNow' = first
  BY <1>1, <1>3 DEF LogNow, first, LocalTypeOK
<1>8. disk' \in [Files -> Seq(Cells)] /\ \A f \in Files : IsNumbered(disk'[f])
  <2>1. disk' = disk \/ disk' = [disk EXCEPT ![named] = first]
    BY <1>1, <1>3 DEF first
  <2> QED BY <1>3, <1>6, <2>1 DEF LocalTypeOK, LocalInv, Recorded
<1>9. \A i \in Nat : IsBoundary(LogNow, i) => IsBoundary(LogNow, i)'
  <2>1. ASSUME NEW i \in Nat, IsBoundary(LogNow, i) PROVE i \in 0..b
    BY <1>2, <1>4, <1>5, <2>1 DEF IsBoundary
  <2>2. \A i \in 0..b : IsBoundary(first, i) <=> IsBoundary(LogNow, i)
    BY <1>2, <1>6, AgreeOn
  <2>3. ASSUME NEW i \in Nat, IsBoundary(LogNow, i) PROVE IsBoundary(LogNow', i)
    BY <1>7, <2>1, <2>2, <2>3
  <2> QED BY <2>3 DEF IsBoundary
<1>10. /\ pc'[p] = "idle" /\ job'[p] = NoJob /\ Alone(p)
       /\ pc' \in [Procs -> Labels] /\ job' \in [Procs -> Jobs] /\ holder' \in Procs \cup {Nobody}
  BY <1>1, CallOver
<1>11. LocalInv'
  <2>1. Proceeds(p)'
    BY <1>10, IdleProceeds
  <2> QED BY <1>1, <1>3, <1>8, <1>9, <1>10, <2>1, LockedStep
<1>12. LocalTypeOK'
  BY <1>1, <1>8, <1>10 DEF LocalTypeOK, Jobs, Labels
<1> QED BY <1>5, <1>7, <1>11, <1>12 DEF first

LEMMA CrashSafe ==
  ASSUME LocalTypeOK, LocalInv, NEW p \in Procs, Crash(p)
  PROVE  LocalTypeOK' /\ LocalInv'
<1>1. Return(p) /\ UNCHANGED <<disk, named, cursor, offset, tally, meddled>>
  BY DEF Crash
<1>2. /\ pc'[p] = "idle" /\ job'[p] = NoJob /\ Alone(p)
      /\ pc' \in [Procs -> Labels] /\ job' \in [Procs -> Jobs]
      /\ holder' = (IF holder = p THEN Nobody ELSE holder) /\ holder' \in Procs \cup {Nobody}
  BY <1>1, CallOver
<1>3. LocalInv'
  <2>1. Proceeds(p)' /\ Counts(tally') /\ \A c \in Consumers : Counts(offset'[c])
    BY <1>1, <1>2, IdleProceeds DEF LocalInv, Recorded
  <2> QED BY <1>1, <1>2, <2>1, QuietStep
<1>4. LocalTypeOK'
  BY <1>1, <1>2 DEF LocalTypeOK, Jobs, Labels
<1> QED BY <1>3, <1>4

----------------------------------------------------------------------------
(* LocalTransport: a position is found, and the cursor moves. *)

LEMMA OpenSafe ==
  ASSUME LocalTypeOK, LocalInv, NEW p \in Procs, Open(p)
  PROVE  LocalTypeOK' /\ LocalInv'
<1>1. pc[p] = "open" /\ UNCHANGED <<disk, named, cursor, offset, tally, holder, meddled>>
  BY DEF Open
<1>2. /\ job[p] \in Jobs /\ job \in [Procs -> Jobs] /\ pc \in [Procs -> Labels]
      /\ Proceeds(p) /\ LogNow \in Seq(Cells) /\ Len(LogNow) \in Nat
  BY Logs DEF LocalTypeOK, Jobs, Labels, LocalInv
<1>3. /\ job[p].op \in {"claim", "look"} /\ job[p].at = 0
      /\ job[p].op = "claim" => holder = p
      /\ job[p].op = "claim" => job[p].count = cursor[job[p].consumer]
      /\ Counts(job[p].keep)
  BY <1>1, <1>2 DEF Proceeds, ReadsOn, InTheLock, ClaimsPast
<1>4. LogNow' = LogNow
  BY <1>1 DEF LogNow
<1>5. CASE named = NoFile
  <2>1. job' = [job EXCEPT ![p].count = 0] /\ pc' = [pc EXCEPT ![p] = "read"]
    BY <1>5 DEF Open, Goto
  <2>2. /\ job' \in [Procs -> Jobs] /\ pc' \in [Procs -> Labels] /\ Alone(p) /\ pc'[p] = "read"
        /\ job'[p].op = job[p].op /\ job'[p].at = 0 /\ job'[p].keep = job[p].keep
    BY <1>2, <1>3, <2>1 DEF Jobs, Labels, Alone
  <2>3. LogNow = <<>> /\ CallEnds(LogNow, 0, Len(LogNow)) = {}
    BY <1>5 DEF LogNow, CallEnds
  <2>4. InTheLock(p)' /\ PushesOn(p)' /\ ReadsOn(p)'
    BY <1>1, <1>3, <2>2 DEF InTheLock, PushesOn, ReadsOn
  <2>5. ClaimsPast(p)'
    BY <1>4, <2>2, <2>3 DEF ClaimsPast, CallEnds
  <2>6. PositionStays(p)' /\ Counts(job[p].keep)'
    BY <1>3, <2>2 DEF PositionStays, Counts, IsBoundary
  <2>7. Proceeds(p)'
    BY <2>4, <2>5, <2>6 DEF Proceeds
  <2>8. LocalInv'
    <3>1. Counts(tally') /\ \A c \in Consumers : Counts(offset'[c])
      BY <1>1 DEF LocalInv, Recorded
    <3> QED BY <1>1, <2>2, <2>7, <3>1, QuietStep
  <2>9. LocalTypeOK'
    BY <1>1, <2>2 DEF LocalTypeOK, Jobs, Labels
  <2> QED BY <2>8, <2>9
<1>6. CASE named # NoFile
  <2>1. /\ job' = [job EXCEPT ![p].file = named, ![p].end = Len(disk[named])]
        /\ pc' = [pc EXCEPT ![p] = "position"]
    BY <1>6 DEF Open, Goto
  <2>2. named \in Files /\ LogNow = disk[named]
    BY <1>6 DEF LocalTypeOK, LogNow
  <2>3. job' = [job EXCEPT ![p] = [job[p] EXCEPT !.file = named, !.end = Len(LogNow)]]
    BY <1>2, <2>1, <2>2
  <2>4. /\ job' \in [Procs -> Jobs] /\ pc' \in [Procs -> Labels] /\ Alone(p) /\ pc'[p] = "position"
        /\ job'[p].op = job[p].op /\ job'[p].keep = job[p].keep /\ job'[p].file = named
        /\ job'[p].end = Len(LogNow) /\ job'[p].count = job[p].count
        /\ job'[p].consumer = job[p].consumer
    <3>1. pc' \in [Procs -> Labels] /\ pc'[p] = "position" /\ \A q \in Procs \ {p} : pc'[q] = pc[q]
      BY <1>2, <2>1 DEF Labels
    <3> DEFINE n == Len(LogNow)
    <3>2. n \in Nat /\ job' = [job EXCEPT ![p] = [job[p] EXCEPT !.file = named, !.end = n]]
      BY <1>2, <2>3
    <3> HIDE DEF n
    <3>3. job' \in [Procs -> Jobs] /\ \A q \in Procs \ {p} : job'[q] = job[q]
      BY <1>2, <2>2, <3>2 DEF Jobs
    <3>4. /\ job'[p].op = job[p].op /\ job'[p].keep = job[p].keep /\ job'[p].file = named
          /\ job'[p].end = n /\ job'[p].count = job[p].count
          /\ job'[p].consumer = job[p].consumer
      BY <1>2, <2>2, <3>2 DEF Jobs
    <3> QED BY <3>1, <3>3, <3>4 DEF Alone, n
  <2>5. InTheLock(p)' /\ PushesOn(p)'
    BY <1>1, <1>3, <2>4 DEF InTheLock, PushesOn
  <2>6. ReadsOn(p)'
    BY <1>1, <1>3, <1>4, <2>2, <2>4 DEF ReadsOn
  <2>7. ClaimsPast(p)'
    BY <1>1, <1>3, <2>4 DEF ClaimsPast
  <2>8. PositionStays(p)' /\ Counts(job[p].keep)'
    BY <1>3, <2>4 DEF PositionStays, Counts
  <2>9. Proceeds(p)'
    BY <2>5, <2>6, <2>7, <2>8 DEF Proceeds
  <2>10. LocalInv'
    <3>1. Counts(tally') /\ \A c \in Consumers : Counts(offset'[c])
      BY <1>1 DEF LocalInv, Recorded
    <3> QED BY <1>1, <2>4, <2>9, <3>1, QuietStep
  <2>11. LocalTypeOK'
    BY <1>1, <2>4 DEF LocalTypeOK, Jobs, Labels
  <2> QED BY <2>10, <2>11
<1> QED BY <1>5, <1>6

\* What a checkpoint counts of a log it counts of the part it lies in.
LEMMA CountsOnPart ==
  ASSUME NEW x \in Seq(Cells), NEW y \in Seq(Cells), SameTo(x, y, Len(x)), NEW c, CountsOn(y, c),
         c.offset <= Len(x)
  PROVE  CountsOn(x, c)
<1>1. Len(x) \in Nat /\ Len(y) \in Nat /\ c.offset \in 0..Len(x) /\ c.offset \in Nat
  BY DEF CountsOn
<1>2. /\ IsBoundary(x, c.offset) <=> IsBoundary(y, c.offset)
      /\ CallEnds(x, 0, c.offset) = CallEnds(y, 0, c.offset)
      /\ CallEnds(x, 0, Len(x)) = CallEnds(y, 0, Len(x))
  BY <1>1, AgreeOn
<1>3. c.offset \in CallEnds(y, 0, Len(y)) => c.offset \in CallEnds(y, 0, Len(x))
  BY <1>1 DEF CallEnds
<1> QED BY <1>1, <1>2, <1>3 DEF CountsOn, RecordsTo

\* A position is that of the first records of what was seen, wherever it was read on
\* from, and the records after it are past them.
LEMMA PlacedRight ==
  ASSUME LocalTypeOK, LocalInv, NEW p \in Procs, Place(p)
  PROVE  /\ job[p].file \in Files /\ Seen(p) \in Seq(Cells)
         /\ SameTo(Seen(p), disk[job[p].file], Len(Seen(p)))
         /\ job[p].end = Len(disk[job[p].file]) => Seen(p) = disk[job[p].file]
         /\ pc' \in [Procs -> Labels] /\ job' \in [Procs -> Jobs] /\ Alone(p)
         /\ pc'[p] \in {"keep", "read"}
         /\ job'[p].at \in 0..Len(Seen(p)) /\ IsBoundary(Seen(p), job'[p].at)
         /\ job'[p].op = job[p].op /\ job'[p].consumer = job[p].consumer
         /\ Counts(job'[p].keep)
         /\ job'[p].at = Greatest({0} \cup FirstOf(CallEnds(Seen(p), 0, Len(Seen(p))), job[p].count))
         /\ \A e \in CallEnds(Seen(p), job'[p].at, Len(Seen(p))) : RecordsTo(Seen(p), e) > job[p].count
<1> DEFINE j == job[p]
           cells == disk[j.file]
           m == Least({j.end, Len(cells)})
           sight == Seen(p)
           base == IF CursorHolds(j.consumer, j.count, j.file, j.end)
                   THEN offset[j.consumer]
                   ELSE [StartOf(j.file) EXCEPT !.cursor = j.count]
           ends == CallEnds(sight, base.offset, Len(sight))
           first == FirstOf(ends, j.count - base.count)
           adv == Advanced(sight, base, first)
           now == [adv EXCEPT !.cursor = j.count]
<1>1. /\ pc[p] = "position" /\ Proceeds(p) /\ j \in Jobs /\ job \in [Procs -> Jobs]
      /\ pc \in [Procs -> Labels]
      /\ j.end \in Nat /\ j.count \in Nat /\ j.consumer \in Consumers
  BY Working DEF Place, LocalInv, LocalTypeOK, Jobs, Labels
<1>2. /\ j.file \in Files /\ cells \in Seq(Cells) /\ Len(cells) \in Nat /\ IsNumbered(cells)
      /\ offset[j.consumer] \in Checkpoints \cup {NoCheckpoint} /\ Counts(offset[j.consumer])
  BY <1>1 DEF Proceeds, ReadsOn, LocalTypeOK, LocalInv, Recorded
<1>3. m \in {j.end, Len(cells)} /\ m <= j.end /\ m <= Len(cells) /\ m \in 0..Len(cells)
  <2>1. {j.end, Len(cells)} \subseteq Nat /\ {j.end, Len(cells)} # {}
    BY <1>1, <1>2
  <2>2. m \in {j.end, Len(cells)} /\ \A i \in {j.end, Len(cells)} : m <= i
    BY <2>1, LeastIs
  <2> HIDE DEF m
  <2> QED BY <1>1, <1>2, <2>2
<1> HIDE DEF m
<1>4. /\ sight \in Seq(Cells) /\ Len(sight) = m /\ SameTo(sight, cells, Len(sight)) /\ IsNumbered(sight)
      /\ Len(sight) \in Nat
  <2>1. sight = SubSeq(cells, 1, m)
    BY DEF Seen, m
  <2> QED BY <1>2, <1>3, <2>1, FirstCells, FirstAreNumbered
<1>5. j.end = Len(cells) => sight = cells
  <2> SUFFICES ASSUME j.end = Len(cells) PROVE sight = cells
    OBVIOUS
  <2>1. Len(sight) = Len(cells) /\ \A i \in 1..Len(cells) : sight[i] = cells[i]
    BY <1>3, <1>4 DEF SameTo
  <2> QED BY <1>2, <1>4, <2>1, SeqEqual
<1>6. /\ job' = [job EXCEPT ![p] = [@ EXCEPT !.file = NoFile, !.end = 0, !.count = 0,
                                             !.at = now.offset,
                                             !.keep = IF now = base THEN NoCheckpoint ELSE now]]
      /\ pc' = [pc EXCEPT ![p] = IF now = base THEN "read" ELSE "keep"]
  BY DEF Place, Goto
<1> HIDE DEF sight
<1>7. CountsOn(sight, base) /\ base.count <= j.count
  <2>1. CASE CursorHolds(j.consumer, j.count, j.file, j.end)
    <3>1. /\ base = offset[j.consumer] /\ Holds(offset[j.consumer], j.file, j.end)
          /\ offset[j.consumer].count <= j.count
      BY <2>1 DEF CursorHolds
    <3>2. CountsOn(cells, base) /\ base.offset <= j.end
      BY <1>1, <1>2, <3>1, HoldsOn DEF LocalTypeOK
    <3>3. base.offset <= Len(sight)
      BY <1>3, <1>4, <3>2 DEF CountsOn
    <3> QED BY <1>2, <1>4, <3>1, <3>2, <3>3, CountsOnPart
  <2>2. CASE ~CursorHolds(j.consumer, j.count, j.file, j.end)
    <3>1. CountsOn(sight, StartOf(j.file)) /\ StartOf(j.file).count = 0
      BY <1>2, <1>4, StartCounts
    <3> DEFINE c == StartOf(j.file)
    <3>2. base = [c EXCEPT !.cursor = j.count]
      BY <2>2
    <3> HIDE DEF base, c
    <3>3. CountsOn(sight, [c EXCEPT !.cursor = j.count]) /\ [c EXCEPT !.cursor = j.count].count = 0
      BY <1>1, <1>4, <3>1, ForAnyCursor DEF c
    <3>4. CountsOn(sight, base) /\ base.count = 0
      BY <3>2, <3>3
    <3> QED BY <1>1, <3>4
  <2> QED BY <2>1, <2>2
<1> HIDE DEF base
<1>8. /\ base.offset \in 0..Len(sight) /\ base.offset \in Nat /\ IsBoundary(sight, base.offset)
      /\ base.count \in Nat /\ base.count = RecordsTo(sight, base.offset)
      /\ base.offset = 0 \/ base.offset \in CallEnds(sight, 0, Len(sight))
      /\ j.count - base.count \in Int
  BY <1>1, <1>7 DEF CountsOn, Checkpoints
<1>9. first \subseteq ends /\ \A i \in first : \A k \in ends : k <= i => k \in first
  <2>1. ends \subseteq 1..Len(sight) /\ IsFiniteSet(ends)
    BY <1>4, <1>8, CallEndsFinite
  <2>2. ends \subseteq Nat
    BY <2>1
  <2> HIDE DEF ends
  <2>3. first \subseteq ends
    BY DEF FirstOf
  <2> QED BY <1>8, <2>1, <2>2, <2>3, FirstIsDownward
<1> HIDE DEF first
<1>10. /\ CountsOn(sight, adv) /\ adv.offset >= base.offset
       /\ first = CallEnds(sight, base.offset, adv.offset)
       /\ first # {} => adv.offset = Greatest(first) /\ Greatest(first) \in first
       /\ first = {} => adv = base
  BY <1>4, <1>7, <1>9, AdvancedCounts
<1> HIDE DEF adv
<1>11. CountsOn(sight, now) /\ now.offset = adv.offset
  BY <1>1, <1>4, <1>10, ForAnyCursor
<1> HIDE DEF now
<1> DEFINE o == now.offset
           kept == IF now = base THEN NoCheckpoint ELSE now
           next == IF now = base THEN "read" ELSE "keep"
<1>12. /\ o \in 0..Len(sight) /\ o \in Nat /\ IsBoundary(sight, o) /\ base.offset <= o
       /\ kept \in Checkpoints \cup {NoCheckpoint} /\ Counts(kept)
       /\ o = 0 \/ o \in CallEnds(sight, 0, Len(sight))
       /\ first = CallEnds(sight, base.offset, o)
  BY <1>4, <1>8, <1>10, <1>11 DEF CountsOn, Counts
<1> HIDE DEF kept
<1>13. /\ pc' \in [Procs -> Labels] /\ job' \in [Procs -> Jobs] /\ Alone(p)
       /\ pc'[p] \in {"keep", "read"} /\ job'[p].at = o /\ job'[p].op = j.op
       /\ job'[p].consumer = j.consumer /\ job'[p].keep = kept
  <2>1. next \in {"keep", "read"}
    OBVIOUS
  <2> HIDE DEF next
  <2>2. /\ job' = [job EXCEPT ![p] = [j EXCEPT !.file = NoFile, !.end = 0, !.count = 0,
                                               !.at = o, !.keep = kept]]
        /\ pc' = [pc EXCEPT ![p] = next]
    BY <1>1, <1>6 DEF kept, next
  <2> HIDE DEF o
  <2>3. pc' \in [Procs -> Labels] /\ pc'[p] = next /\ \A q \in Procs \ {p} : pc'[q] = pc[q]
    BY <1>1, <2>1, <2>2 DEF Labels
  <2>4. job' \in [Procs -> Jobs] /\ \A q \in Procs \ {p} : job'[q] = job[q]
    BY <1>1, <1>12, <2>2 DEF Jobs
  <2>5. job'[p].at = o /\ job'[p].op = j.op /\ job'[p].consumer = j.consumer /\ job'[p].keep = kept
    BY <1>1, <2>2 DEF Jobs
  <2> QED BY <2>1, <2>3, <2>4, <2>5 DEF Alone
<1>14. \A e \in CallEnds(sight, o, Len(sight)) : RecordsTo(sight, e) > j.count
  <2> SUFFICES ASSUME NEW e \in CallEnds(sight, o, Len(sight)), ~(RecordsTo(sight, e) > j.count)
               PROVE  FALSE
    OBVIOUS
  <2>1. /\ e \in (o + 2)..Len(sight) /\ e \in ends /\ e \in 0..Len(sight)
        /\ base.offset \in 0..e /\ e \notin CallEnds(sight, base.offset, o) /\ e \in Nat
    BY <1>4, <1>8, <1>12 DEF CallEnds
  <2>2. RecordsTo(sight, e) = base.count + Cardinality(CallEnds(sight, base.offset, e))
    BY <1>4, <1>8, <2>1, SplitAt
  <2>3. {k \in ends : k <= e} = CallEnds(sight, base.offset, e)
    BY <1>4, <1>8, <2>1, CountedUpTo
  <2>4. Cardinality(CallEnds(sight, base.offset, e)) \in Nat
    BY <1>4, <1>8, <2>1, CallEndsFinite
  <2>5. Cardinality(CallEnds(sight, base.offset, e)) <= j.count - base.count
    BY <1>1, <1>8, <2>2, <2>4
  <2>6. e \in first
    BY <2>1, <2>3, <2>5 DEF first, FirstOf
  <2> QED BY <1>12, <2>1, <2>6
<1>15. o = Greatest({0} \cup FirstOf(CallEnds(sight, 0, Len(sight)), j.count))
  <2> DEFINE T == FirstOf(CallEnds(sight, 0, Len(sight)), j.count)
             before == CallEnds(sight, 0, base.offset)
  <2>1. T = before \cup first
    BY <1>1, <1>4, <1>7, <1>8, FirstFromABoundary DEF first
  <2>2. before \subseteq 1..base.offset /\ first \subseteq 1..o
    BY <1>4, <1>8, <1>12, CallEndsFinite
  <2> HIDE DEF T
  <2>3. o \in {0} \cup T
    <3>1. CASE first = {}
      <4>1. o = base.offset
        BY <1>10, <1>11, <3>1
      <4>2. base.offset \in CallEnds(sight, 0, Len(sight)) => base.offset \in before
        BY <1>8 DEF CallEnds
      <4> QED BY <1>8, <2>1, <4>1, <4>2
    <3>2. CASE first # {}
      BY <1>10, <1>11, <2>1, <3>2
    <3> QED BY <3>1, <3>2
  <2>4. \A i \in {0} \cup T : i \in Nat /\ i <= o
    BY <1>8, <1>12, <2>1, <2>2
  <2>5. Greatest({0} \cup T) = o
    <3>1. {0} \cup T \subseteq Nat
      BY <2>4
    <3> HIDE DEF o
    <3> QED BY <2>3, <2>4, <3>1, IsGreatest
  <2> QED BY <2>5 DEF T
<1>16. CallEnds(Seen(p), job'[p].at, Len(Seen(p))) = CallEnds(sight, o, Len(sight))
  BY <1>13 DEF sight
<1> QED BY <1>2, <1>4, <1>5, <1>12, <1>13, <1>14, <1>15, <1>16 DEF sight

LEMMA PlaceSafe ==
  ASSUME LocalTypeOK, LocalInv, NEW p \in Procs, Place(p)
  PROVE  LocalTypeOK' /\ LocalInv'
<1> DEFINE f == job[p].file
<1>1. /\ pc[p] = "position" /\ UNCHANGED <<disk, named, cursor, offset, tally, holder, meddled>>
      /\ Proceeds(p) /\ LogNow' = LogNow /\ NoFile \notin Files
  BY LocalAssumption DEF Place, LocalInv, LogNow
<1>2. /\ f \in Files /\ Seen(p) \in Seq(Cells)
      /\ SameTo(Seen(p), disk[f], Len(Seen(p)))
      /\ job[p].end = Len(disk[f]) => Seen(p) = disk[f]
      /\ pc' \in [Procs -> Labels] /\ job' \in [Procs -> Jobs] /\ Alone(p)
      /\ pc'[p] \in {"keep", "read"}
      /\ job'[p].at \in 0..Len(Seen(p)) /\ IsBoundary(Seen(p), job'[p].at)
      /\ job'[p].op = job[p].op /\ job'[p].consumer = job[p].consumer
      /\ Counts(job'[p].keep)
      /\ \A e \in CallEnds(Seen(p), job'[p].at, Len(Seen(p))) : RecordsTo(Seen(p), e) > job[p].count
  BY PlacedRight
<1>3. /\ job[p].op \in {"claim", "look"} /\ (job[p].op = "claim" => holder = p)
      /\ job[p].op = "claim" => f = named /\ job[p].end = Len(LogNow)
      /\ meddled = 0 => f = named
      /\ job[p].op = "claim" => job[p].count = cursor[job[p].consumer]
  BY <1>1 DEF Proceeds, ReadsOn, InTheLock, ClaimsPast
<1>4. f = named => LogNow = disk[f]
  BY <1>1, <1>2 DEF LogNow
<1>5. Proceeds(p)'
  <2>1. InTheLock(p)' /\ PushesOn(p)' /\ ReadsOn(p)'
    BY <1>1, <1>2, <1>3 DEF InTheLock, PushesOn, ReadsOn
  <2>2. ClaimsPast(p)'
    <3>1. job[p].op = "claim" => Seen(p) = LogNow
      BY <1>2, <1>3, <1>4
    <3>2. job[p].op = "claim" =>
            \A e \in CallEnds(LogNow, job'[p].at, Len(LogNow)) :
              RecordsTo(LogNow, e) > cursor[job[p].consumer]
      BY <1>2, <1>3, <3>1
    <3> QED BY <1>1, <1>2, <3>2 DEF ClaimsPast
  <2>3. PositionStays(p)'
    <3>1. disk[f] \in Seq(Cells) /\ Len(Seen(p)) \in Nat
      BY <1>2 DEF LocalTypeOK
    <3>2. IsBoundary(disk[f], job'[p].at)
      <4> DEFINE n == Len(Seen(p))
      <4>1. \A i \in 0..n : IsBoundary(Seen(p), i) <=> IsBoundary(disk[f], i)
        BY <1>2, <3>1, AgreeOn
      <4> QED BY <1>2, <4>1
    <3> QED BY <1>1, <1>3, <1>4, <3>2 DEF PositionStays
  <2> QED BY <1>2, <2>1, <2>2, <2>3 DEF Proceeds, Counts
<1>6. LocalInv'
  <2>1. Counts(tally') /\ \A c \in Consumers : Counts(offset'[c])
    BY <1>1 DEF LocalInv, Recorded
  <2> QED BY <1>1, <1>2, <1>5, <2>1, QuietStep
<1>7. LocalTypeOK'
  BY <1>1, <1>2 DEF LocalTypeOK, Jobs, Labels
<1> QED BY <1>6, <1>7

LEMMA KeepSafe ==
  ASSUME LocalTypeOK, LocalInv, NEW p \in Procs, Keep(p)
  PROVE  LocalTypeOK' /\ LocalInv'
<1>1. /\ pc[p] = "keep" /\ pc' = [pc EXCEPT ![p] = "read"]
      /\ offset' \in {offset, [offset EXCEPT ![job[p].consumer] = job[p].keep]}
      /\ job' = [job EXCEPT ![p].keep = NoCheckpoint]
      /\ UNCHANGED <<disk, named, cursor, tally, holder, meddled>>
      /\ LogNow' = LogNow
  BY DEF Keep, Goto, LogNow
<1>2. /\ job[p] \in Jobs /\ job \in [Procs -> Jobs] /\ pc \in [Procs -> Labels] /\ Proceeds(p)
  BY DEF LocalTypeOK, Jobs, Labels, LocalInv
<1>3. /\ job' \in [Procs -> Jobs] /\ pc' \in [Procs -> Labels] /\ Alone(p) /\ pc'[p] = "read"
      /\ job'[p].op = job[p].op /\ job'[p].at = job[p].at /\ job'[p].consumer = job[p].consumer
      /\ job'[p].keep = NoCheckpoint
  BY <1>1, <1>2 DEF Jobs, Labels, Alone
<1>4. /\ offset' \in [Consumers -> Checkpoints \cup {NoCheckpoint}]
      /\ \A c \in Consumers : Counts(offset'[c])
  BY <1>1, <1>2 DEF LocalTypeOK, LocalInv, Recorded, Proceeds, Jobs
<1>5. Proceeds(p)'
  <2>1. InTheLock(p)' /\ PushesOn(p)' /\ ReadsOn(p)' /\ PositionStays(p)' /\ Counts(job[p].keep)'
    BY <1>1, <1>2, <1>3 DEF Proceeds, InTheLock, PushesOn, ReadsOn, PositionStays, Counts
  <2>2. ClaimsPast(p)'
    BY <1>1, <1>2, <1>3 DEF Proceeds, ClaimsPast
  <2> QED BY <2>1, <2>2 DEF Proceeds
<1>6. LocalInv'
  <2>1. Counts(tally')
    BY <1>1 DEF LocalInv, Recorded
  <2> QED BY <1>1, <1>3, <1>4, <1>5, <2>1, QuietStep
<1>7. LocalTypeOK'
  BY <1>1, <1>3, <1>4 DEF LocalTypeOK, Jobs, Labels
<1> QED BY <1>6, <1>7

LEMMA ReadOnSafe ==
  ASSUME LocalTypeOK, LocalInv, NEW p \in Procs, ReadOn(p)
  PROVE  LocalTypeOK' /\ LocalInv'
<1>1. /\ pc[p] = "read" /\ UNCHANGED <<disk, named, cursor, offset, tally, meddled>>
      /\ LogNow' = LogNow
  BY DEF ReadOn, LogNow
<1>2. /\ job[p] \in Jobs /\ job \in [Procs -> Jobs] /\ pc \in [Procs -> Labels] /\ Proceeds(p)
      /\ LogNow \in Seq(Cells) /\ Len(LogNow) \in Nat /\ job[p].at \in Nat
  BY Logs, Working DEF LocalTypeOK, Jobs, Labels, LocalInv
<1>3. Counts(tally') /\ \A c \in Consumers : Counts(offset'[c])
  BY <1>1 DEF LocalInv, Recorded
<1>4. CASE job[p].op = "look" \/ Claimable(job[p].at) = {}
  <2>1. Return(p)
    BY <1>4 DEF ReadOn
  <2>2. /\ pc'[p] = "idle" /\ job'[p] = NoJob /\ Alone(p)
        /\ pc' \in [Procs -> Labels] /\ job' \in [Procs -> Jobs]
        /\ holder' = (IF holder = p THEN Nobody ELSE holder) /\ holder' \in Procs \cup {Nobody}
    BY <2>1, CallOver
  <2>3. LocalInv'
    <3>1. Proceeds(p)'
      BY <2>2, IdleProceeds
    <3> QED BY <1>1, <1>3, <2>2, <3>1, QuietStep
  <2>4. LocalTypeOK'
    BY <1>1, <2>2 DEF LocalTypeOK, Jobs, Labels
  <2> QED BY <2>3, <2>4
<1>5. CASE ~(job[p].op = "look" \/ Claimable(job[p].at) = {})
  <2> DEFINE e == Least(Claimable(job[p].at))
  <2>1. /\ job' = [job EXCEPT ![p].at = e] /\ pc' = [pc EXCEPT ![p] = "commit"]
        /\ holder' = holder
    BY <1>5 DEF ReadOn, Goto
  <2>2. e \in Claimable(job[p].at)
    <3>1. Claimable(job[p].at) \subseteq Nat
      <4>1. CallEnds(LogNow, job[p].at, Len(LogNow)) \subseteq 1..Len(LogNow)
        BY <1>2, CallEndsFinite
      <4> QED BY <1>2, <4>1 DEF Claimable
    <3> QED BY <1>5, <3>1, LeastIs
  <2>3. /\ e \in CallEnds(LogNow, job[p].at, Len(LogNow))
        /\ e \in CallEnds(LogNow, 0, Len(LogNow)) /\ e \in Nat /\ IsBoundary(LogNow, e)
    BY <1>2, <2>2 DEF Claimable, CallEnds, IsBoundary
  <2> HIDE DEF e
  <2>4. /\ job' \in [Procs -> Jobs] /\ pc' \in [Procs -> Labels] /\ Alone(p) /\ pc'[p] = "commit"
        /\ job'[p].op = job[p].op /\ job'[p].at = e /\ job'[p].consumer = job[p].consumer
        /\ job'[p].keep = job[p].keep
    BY <1>2, <2>1, <2>3 DEF Jobs, Labels, Alone
  <2>5. job[p].op = "claim" /\ holder = p /\ Counts(job[p].keep)
    BY <1>1, <1>2, <1>5 DEF Proceeds, ReadsOn, InTheLock
  <2>6. named # NoFile
    <3>1. <<>> \in Seq(Cells) /\ Len(<<>>) = 0 /\ CallEnds(<<>>, 0, 0) = {}
      BY DEF CallEnds
    <3> QED BY <2>3, <3>1 DEF LogNow
  <2>7. ClaimsPast(p)'
    <3>1. RecordsTo(LogNow, e) > cursor[job[p].consumer]
      BY <1>1, <1>2, <2>3, <2>5 DEF Proceeds, ClaimsPast
    <3> QED BY <1>1, <2>3, <2>4, <2>5, <2>6, <3>1 DEF ClaimsPast, RecordsTo
  <2>8. InTheLock(p)' /\ PushesOn(p)' /\ ReadsOn(p)'
    BY <2>1, <2>4, <2>5 DEF InTheLock, PushesOn, ReadsOn
  <2>9. PositionStays(p)' /\ Counts(job[p].keep)'
    BY <1>1, <2>3, <2>4, <2>5 DEF PositionStays, Counts
  <2>10. Proceeds(p)'
    BY <2>7, <2>8, <2>9 DEF Proceeds
  <2>11. LocalInv'
    BY <1>1, <1>3, <2>1, <2>4, <2>10, QuietStep
  <2>12. LocalTypeOK'
    BY <1>1, <2>1, <2>4 DEF LocalTypeOK, Jobs, Labels
  <2> QED BY <2>11, <2>12
<1> QED BY <1>4, <1>5

\* The position committed to is counted, wherever the count was read on from.
LEMMA CommittedRight ==
  ASSUME LocalTypeOK, LocalInv, NEW p \in Procs, Commit(p)
  PROVE  /\ pc' \in [Procs -> Labels] /\ job' \in [Procs -> Jobs] /\ Alone(p)
         /\ pc'[p] = "committed" /\ holder = p
         /\ Counts(job'[p].keep)
         /\ cursor' \in [Consumers -> Nat \cup {Absent}]
         /\ \A x \in Consumers : x # job[p].consumer => cursor'[x] = cursor[x]
         /\ cursor'[job[p].consumer] = RecordsTo(LogNow, job[p].at)
         /\ cursor'[job[p].consumer] > cursor[job[p].consumer]
<1> DEFINE c == job[p].consumer
           to == job[p].at
           base == IF /\ cursor[c] > 0
                      /\ CursorHolds(c, cursor[c], named, Len(LogNow))
                      /\ offset[c].offset <= to
                   THEN offset[c] ELSE StartOf(named)
           S == CallEnds(LogNow, base.offset, to)
           now == Advanced(LogNow, base, S)
<1>1. /\ pc[p] = "commit" /\ pc' = [pc EXCEPT ![p] = "committed"]
      /\ cursor' = [cursor EXCEPT ![c] = now.count]
      /\ job' = [job EXCEPT ![p].keep = now]
  BY DEF Commit, Goto
<1>2. /\ job[p] \in Jobs /\ job \in [Procs -> Jobs] /\ pc \in [Procs -> Labels] /\ Proceeds(p)
      /\ LogNow \in Seq(Cells) /\ Len(LogNow) \in Nat /\ IsNumbered(LogNow)
      /\ c \in Consumers /\ to \in Nat
  BY Logs, Working DEF LocalTypeOK, Jobs, Labels, LocalInv
<1>3. /\ named # NoFile /\ to \in CallEnds(LogNow, 0, Len(LogNow)) /\ holder = p
      /\ RecordsTo(LogNow, to) > cursor[c]
  BY <1>1, <1>2 DEF Proceeds, ClaimsPast, InTheLock
<1>4. named \in Files /\ LogNow = disk[named] /\ disk \in [Files -> Seq(Cells)]
  BY <1>3 DEF LocalTypeOK, LogNow
<1>5. CountsOn(LogNow, base) /\ base.offset <= to
  <2>1. CASE /\ cursor[c] > 0
             /\ CursorHolds(c, cursor[c], named, Len(LogNow))
             /\ offset[c].offset <= to
    <3>1. base = offset[c] /\ Holds(offset[c], named, Len(LogNow)) /\ offset[c].offset <= to
      BY <2>1 DEF CursorHolds
    <3>2. offset[c] \in Checkpoints \cup {NoCheckpoint} /\ Counts(offset[c])
      BY <1>2 DEF LocalTypeOK, LocalInv, Recorded
    <3>3. CountsOn(LogNow, offset[c])
      BY <1>2, <1>4, <3>1, <3>2, HoldsOn
    <3> QED BY <3>1, <3>3
  <2>2. CASE ~(/\ cursor[c] > 0
               /\ CursorHolds(c, cursor[c], named, Len(LogNow))
               /\ offset[c].offset <= to)
    <3>1. base = StartOf(named)
      BY <2>2
    <3>2. CountsOn(LogNow, StartOf(named)) /\ StartOf(named).offset = 0
      BY <1>2, <1>4, StartCounts
    <3> HIDE DEF base
    <3> QED BY <1>2, <3>1, <3>2
  <2> QED BY <2>1, <2>2
<1> HIDE DEF base
<1>6. /\ base.offset \in 0..Len(LogNow) /\ base.offset \in Nat /\ to \in 0..Len(LogNow)
      /\ base.offset \in 0..to /\ IsBoundary(LogNow, base.offset)
  <2>1. base.offset \in 0..Len(LogNow) /\ IsBoundary(LogNow, base.offset)
    BY <1>5 DEF CountsOn
  <2>2. to \in 0..Len(LogNow)
    BY <1>2, <1>3 DEF CallEnds
  <2> QED BY <1>2, <1>5, <2>1, <2>2
<1>7. /\ S \subseteq CallEnds(LogNow, base.offset, Len(LogNow))
      /\ \A i \in S : \A k \in CallEnds(LogNow, base.offset, Len(LogNow)) : k <= i => k \in S
  BY <1>2, <1>6 DEF CallEnds
<1> HIDE DEF S
<1>8. /\ CountsOn(LogNow, now) /\ now.offset >= base.offset
      /\ S = CallEnds(LogNow, base.offset, now.offset)
  BY <1>2, <1>5, <1>7, AdvancedCounts
<1> HIDE DEF now
<1>9. /\ now \in Checkpoints /\ Counts(now) /\ now.count \in Nat
      /\ now.count = RecordsTo(LogNow, now.offset) /\ now.offset \in 0..Len(LogNow)
  BY <1>8 DEF CountsOn, Counts, Checkpoints
<1>10. now.count = RecordsTo(LogNow, to)
  <2>1. base.offset \in 0..now.offset
    BY <1>2, <1>6, <1>8, <1>9
  <2>2. RecordsTo(LogNow, now.offset) = RecordsTo(LogNow, base.offset) + Cardinality(S)
    BY <1>2, <1>6, <1>8, <1>9, <2>1, SplitAt
  <2>3. RecordsTo(LogNow, to) = RecordsTo(LogNow, base.offset) + Cardinality(S)
    BY <1>2, <1>6, SplitAt DEF S
  <2> QED BY <1>9, <2>2, <2>3
<1>11. job' \in [Procs -> Jobs] /\ job'[p].keep = now /\ \A q \in Procs \ {p} : job'[q] = job[q]
  BY <1>1, <1>2, <1>9 DEF Jobs
<1>12. pc' \in [Procs -> Labels] /\ pc'[p] = "committed" /\ Alone(p)
  BY <1>1, <1>2, <1>11 DEF Labels, Alone
<1>13. /\ cursor' \in [Consumers -> Nat \cup {Absent}] /\ cursor'[c] = now.count
       /\ \A x \in Consumers : x # c => cursor'[x] = cursor[x]
  BY <1>1, <1>2, <1>9 DEF LocalTypeOK
<1> QED BY <1>3, <1>9, <1>10, <1>11, <1>12, <1>13

LEMMA CommitSafe ==
  ASSUME LocalTypeOK, LocalInv, NEW p \in Procs, Commit(p)
  PROVE  LocalTypeOK' /\ LocalInv'
<1>1. /\ pc[p] = "commit" /\ UNCHANGED <<disk, named, offset, tally, holder, meddled>>
      /\ LogNow' = LogNow
  BY DEF Commit, LogNow
<1>2. /\ pc' \in [Procs -> Labels] /\ job' \in [Procs -> Jobs] /\ Alone(p)
      /\ pc'[p] = "committed" /\ holder = p /\ Counts(job'[p].keep)
      /\ cursor' \in [Consumers -> Nat \cup {Absent}]
  BY CommittedRight
<1>3. Proceeds(p)'
  <2>1. InTheLock(p)' /\ PushesOn(p)' /\ ReadsOn(p)'
    BY <1>1, <1>2 DEF InTheLock, PushesOn, ReadsOn
  <2>2. ClaimsPast(p)' /\ PositionStays(p)' /\ Counts(job[p].keep)'
    BY <1>2 DEF ClaimsPast, PositionStays, Counts
  <2> QED BY <2>1, <2>2 DEF Proceeds
<1>4. LocalInv'
  <2>1. \A f \in Files : IsNumbered(disk'[f])
    BY <1>1 DEF LocalInv, Recorded
  <2>2. \A i \in Nat : IsBoundary(LogNow, i) => IsBoundary(LogNow, i)'
    BY <1>1 DEF IsBoundary
  <2> QED BY <1>1, <1>2, <1>3, <2>1, <2>2, LockedStep
<1>5. LocalTypeOK'
  BY <1>1, <1>2 DEF LocalTypeOK, Jobs, Labels
<1> QED BY <1>4, <1>5

LEMMA HandSafe ==
  ASSUME LocalTypeOK, LocalInv, NEW p \in Procs, Hand(p)
  PROVE  LocalTypeOK' /\ LocalInv'
<1>1. /\ offset' \in {offset, [offset EXCEPT ![job[p].consumer] = job[p].keep]}
      /\ Return(p) /\ UNCHANGED <<disk, named, cursor, tally, meddled>>
  BY DEF Hand
<1>2. /\ pc'[p] = "idle" /\ job'[p] = NoJob /\ Alone(p)
      /\ pc' \in [Procs -> Labels] /\ job' \in [Procs -> Jobs]
      /\ holder' = (IF holder = p THEN Nobody ELSE holder) /\ holder' \in Procs \cup {Nobody}
  BY <1>1, CallOver
<1>3. job[p] \in Jobs /\ Proceeds(p) /\ Counts(job[p].keep)
  BY DEF LocalTypeOK, Jobs, LocalInv, Proceeds
<1>4. /\ offset' \in [Consumers -> Checkpoints \cup {NoCheckpoint}]
      /\ \A c \in Consumers : Counts(offset'[c])
  BY <1>1, <1>3 DEF LocalTypeOK, LocalInv, Recorded, Jobs
<1>5. LocalInv'
  <2>1. Proceeds(p)' /\ Counts(tally')
    BY <1>1, <1>2, IdleProceeds DEF LocalInv, Recorded
  <2> QED BY <1>1, <1>2, <1>4, <2>1, QuietStep
<1>6. LocalTypeOK'
  BY <1>1, <1>2, <1>4 DEF LocalTypeOK, Jobs, Labels
<1> QED BY <1>5, <1>6

\* An older release moves a cursor on.
LEMMA OldClaimMoves ==
  ASSUME LocalTypeOK, LocalInv, NEW c \in Consumers, OldClaim(c)
  PROVE  /\ cursor' \in [Consumers -> Nat \cup {Absent}] /\ cursor'[c] > cursor[c]
         /\ \A x \in Consumers : x # c => cursor'[x] = cursor[x]
<1> DEFINE all == CallEnds(LogNow, 0, Len(LogNow))
           past == {e \in all : e \notin FirstOf(all, cursor[c]) /\ LogNow[e - 1].kind \in Admitted}
           e == Least(past)
           n == Cardinality({i \in all : i <= e})
<1>1. past # {} /\ cursor' = [cursor EXCEPT ![c] = n]
  BY DEF OldClaim
<1>2. LogNow \in Seq(Cells) /\ Len(LogNow) \in Nat /\ all \subseteq 1..Len(LogNow) /\ IsFiniteSet(all)
  <2>1. LogNow \in Seq(Cells) /\ Len(LogNow) \in Nat
    BY Logs
  <2> QED BY <2>1, CallEndsFinite
<1>3. e \in past
  <2>1. past \subseteq Nat
    BY <1>2
  <2> HIDE DEF past
  <2> QED BY <1>1, <2>1, LeastIs
<1>4. e \in all /\ e \notin FirstOf(all, cursor[c])
  BY <1>3
<1> HIDE DEF e
<1>5. n \in Nat
  <2>1. {i \in all : i <= e} \subseteq all
    OBVIOUS
  <2> HIDE DEF all
  <2> QED BY <1>2, <2>1, FS_Subset, FS_CardinalityType
<1>6. ~(n <= cursor[c])
  <2> HIDE DEF all
  <2> QED BY <1>4 DEF FirstOf
<1> HIDE DEF n
<1>7. cursor[c] \in Nat \cup {-1} /\ cursor \in [Consumers -> Nat \cup {-1}]
  BY DEF LocalTypeOK, Absent
<1> QED BY <1>1, <1>5, <1>6, <1>7 DEF Absent

LEMMA OthersSafe ==
  ASSUME LocalTypeOK, LocalInv, (\E c \in Consumers : OldClaim(c)) \/ Meddle \/ Forget
  PROVE  LocalTypeOK' /\ LocalInv'
<1>1. CASE \E c \in Consumers : OldClaim(c)
  <2>1. PICK c \in Consumers : OldClaim(c)
    BY <1>1
  <2>2. holder = Nobody /\ UNCHANGED <<disk, named, offset, tally, holder, pc, job, meddled>>
    BY <2>1 DEF OldClaim
  <2>3. cursor' \in [Consumers -> Nat \cup {Absent}]
    BY <2>1, OldClaimMoves
  <2>4. ASSUME NEW q \in Procs PROVE Proceeds(q)'
    <3>1. holder # q /\ pc'[q] = pc[q] /\ job'[q] = job[q]
      BY <2>2, LocalAssumption
    <3>2. \A i \in Nat : IsBoundary(LogNow, i) => IsBoundary(LogNow, i)'
      BY <2>2 DEF LogNow, IsBoundary
    <3> QED BY <2>2, <3>1, <3>2, OutsideProceeds
  <2>5. LocalInv'
    BY <2>2, <2>4 DEF LocalInv, Recorded
  <2>6. LocalTypeOK'
    BY <2>2, <2>3 DEF LocalTypeOK
  <2> QED BY <2>5, <2>6
<1>2. CASE Meddle
  <2>1. /\ holder = Nobody /\ named # NoFile /\ named \in Files /\ meddled' = meddled + 1
        /\ meddled' \in 0..MaxMeddling /\ meddled' # 0
        /\ UNCHANGED <<cursor, offset, tally, holder, pc, job>>
    BY <1>2, LocalAssumption DEF Meddle, LocalTypeOK
  <2>2. /\ named' \in Files \cup {NoFile} /\ disk' \in [Files -> Seq(Cells)]
        /\ \A f \in Files : IsNumbered(disk'[f])
    <3>1. CASE named' = NoFile /\ UNCHANGED disk
      BY <3>1 DEF LocalTypeOK, LocalInv, Recorded
    <3>2. CASE /\ \E to \in 0..(Len(LogNow) - 1) :
                    IsBoundary(LogNow, to) /\ disk' = [disk EXCEPT ![named] = SubSeq(@, 1, to)]
               /\ UNCHANGED named
      <4>1. PICK to \in 0..(Len(LogNow) - 1) : disk' = [disk EXCEPT ![named] = SubSeq(@, 1, to)]
        BY <3>2
      <4>2. LogNow = disk[named] /\ LogNow \in Seq(Cells) /\ Len(LogNow) \in Nat /\ IsNumbered(LogNow)
        BY <2>1, Logs DEF LogNow
      <4>3. to \in 0..Len(LogNow)
        BY <4>2
      <4>4. SubSeq(LogNow, 1, to) \in Seq(Cells) /\ IsNumbered(SubSeq(LogNow, 1, to))
        BY <4>2, <4>3, FirstCells, FirstAreNumbered
      <4> QED BY <2>1, <3>2, <4>1, <4>2, <4>4 DEF LocalTypeOK, LocalInv, Recorded
    <3> QED BY <1>2, <3>1, <3>2 DEF Meddle
  <2>3. ASSUME NEW q \in Procs PROVE Proceeds(q)'
    <3>1. holder # q /\ pc'[q] = pc[q] /\ job'[q] = job[q]
      BY <2>1, LocalAssumption
    <3> QED BY <2>1, <3>1, OutsideProceeds
  <2>4. LocalInv'
    BY <2>1, <2>2, <2>3 DEF LocalInv, Recorded
  <2>5. LocalTypeOK'
    BY <2>1, <2>2 DEF LocalTypeOK
  <2> QED BY <2>4, <2>5
<1>3. CASE Forget
  <2>1. /\ tally' = NoCheckpoint /\ offset' = [c \in Consumers |-> NoCheckpoint]
        /\ UNCHANGED <<disk, named, cursor, holder, pc, job, meddled>>
    BY <1>3 DEF Forget
  <2>2. ASSUME NEW q \in Procs PROVE Proceeds(q)'
    <3>1. pc'[q] = pc[q] /\ job'[q] = job[q] /\ (holder = q => holder' = q)
      BY <2>1
    <3> QED BY <2>1, <3>1, UnmovedProceeds
  <2>3. LocalInv'
    BY <2>1, <2>2 DEF LocalInv, Recorded, Counts
  <2>4. LocalTypeOK'
    BY <2>1 DEF LocalTypeOK
  <2> QED BY <2>3, <2>4
<1> QED BY <1>1, <1>2, <1>3

LEMMA LocalStart == LocalInit => LocalTypeOK /\ LocalInv
<1> SUFFICES ASSUME LocalInit PROVE LocalTypeOK /\ LocalInv
  OBVIOUS
<1>1. /\ named \in {NoFile, CHOOSE f \in Files : TRUE}
      /\ disk \in [Files -> {<<>>} \cup OldCells]
      /\ \A f \in Files : f # named => disk[f] = <<>>
      /\ cursor = [c \in Consumers |-> Absent]
      /\ offset = [c \in Consumers |-> NoCheckpoint]
      /\ tally = NoCheckpoint
      /\ holder = Nobody
      /\ pc = [p \in Procs |-> "idle"]
      /\ job = [p \in Procs |-> NoJob]
      /\ meddled = 0
  BY DEF LocalInit
<1>2. IsNumbered(<<>>) /\ <<>> \in Seq(Cells)
  BY DEF IsNumbered, CallEnds
<1>3. \A f \in Files : disk[f] \in Seq(Cells) /\ IsNumbered(disk[f])
  BY <1>1, <1>2, OldCellsAssumption
<1>4. named \in Files \cup {NoFile}
  <2>1. \E f \in Files : TRUE
    BY LocalAssumption
  <2>2. (CHOOSE f \in Files : TRUE) \in Files
    BY <2>1
  <2> QED BY <1>1, <2>2
<1>5. LocalInv
  <2>1. ASSUME NEW p \in Procs PROVE Proceeds(p)
    <3>1. pc[p] = "idle" /\ job[p].op = "none" /\ job[p].keep = NoCheckpoint
      BY <1>1, NoJobIs
    <3> QED BY <3>1 DEF Proceeds, InTheLock, PushesOn, ReadsOn, ClaimsPast, PositionStays, Counts
  <2> QED BY <1>1, <1>3, <2>1 DEF LocalInv, Recorded, Counts
<1>6. LocalTypeOK
  <2>1. disk \in [Files -> Seq(Cells)]
    BY <1>1, <1>3
  <2>2. meddled \in 0..MaxMeddling /\ cursor \in [Consumers -> Nat \cup {Absent}]
    BY <1>1, LocalAssumption
  <2> QED BY <1>1, <1>4, <2>1, <2>2, NoJobIs DEF LocalTypeOK, Jobs
<1> QED BY <1>5, <1>6

LocalIInv == LocalTypeOK /\ LocalInv

\* The steps of p.
StepOf(p) ==
  \/ \E k \in Kinds : Push(p, k)
  \/ \E c \in Consumers : ClaimFor(p, c) \/ Look(p, c)
  \/ Count(p) \/ WriteBegins(p) \/ WriteEnds(p) \/ WriteFails(p)
  \/ Open(p) \/ Place(p) \/ Keep(p) \/ ReadOn(p)
  \/ Commit(p) \/ Hand(p) \/ Crash(p)

LEMMA LocalStep == LocalIInv /\ [LocalNext]_localVars => LocalIInv'
<1> SUFFICES ASSUME LocalTypeOK, LocalInv, [LocalNext]_localVars PROVE LocalTypeOK' /\ LocalInv'
  BY DEF LocalIInv
<1>1. ASSUME NEW p \in Procs, StepOf(p) PROVE LocalTypeOK' /\ LocalInv'
  <2>1. CASE \E k \in Kinds : Push(p, k)
    BY <2>1, PushSafe
  <2>2. CASE \E c \in Consumers : ClaimFor(p, c) \/ Look(p, c)
    BY <2>2, ClaimForSafe, LookSafe
  <2>3. CASE Count(p) \/ WriteBegins(p) \/ WriteEnds(p) \/ WriteFails(p)
    BY <2>3, CountSafe, WriteBeginsSafe, WriteEndsSafe, WriteFailsSafe
  <2>4. CASE Open(p) \/ Place(p) \/ Keep(p) \/ ReadOn(p)
    BY <2>4, OpenSafe, PlaceSafe, KeepSafe, ReadOnSafe
  <2>5. CASE Commit(p) \/ Hand(p) \/ Crash(p)
    BY <2>5, CommitSafe, HandSafe, CrashSafe
  <2> QED BY <1>1, <2>1, <2>2, <2>3, <2>4, <2>5 DEF StepOf
<1>2. CASE (\E c \in Consumers : OldClaim(c)) \/ Meddle \/ Forget
  BY <1>2, OthersSafe
<1>3. CASE UNCHANGED localVars
  <2>1. /\ UNCHANGED <<disk, named, cursor, offset, tally, holder, pc, job, meddled>>
    BY <1>3 DEF localVars
  <2>2. LocalTypeOK'
    BY <2>1 DEF LocalTypeOK
  <2>3. ASSUME NEW q \in Procs PROVE Proceeds(q)'
    <3>1. pc'[q] = pc[q] /\ job'[q] = job[q] /\ (holder = q => holder' = q)
      BY <2>1
    <3> QED BY <2>1, <3>1, UnmovedProceeds
  <2> QED BY <2>1, <2>2, <2>3 DEF LocalInv, Recorded
<1> QED BY <1>1, <1>2, <1>3 DEF LocalNext, StepOf

LEMMA LocalInvariant == LocalSpec => []LocalIInv
<1>1. LocalInit => LocalIInv
  BY LocalStart DEF LocalIInv
<1> QED BY <1>1, LocalStep, PTL DEF LocalSpec

\* Every variable of the plain queue in a directory has its type.
THEOREM LocalTypes == LocalSpec => []LocalTypeOK
<1>1. LocalIInv => LocalTypeOK
  BY DEF LocalIInv
<1> QED BY <1>1, LocalInvariant, PTL

\* Places hold: each record carries the number of records before it, after any crash,
\* torn or failed write, and over a log deleted or cut short; and a position answered to
\* a reader that holds no lock stays a record boundary as long as nobody deletes records.
THEOREM PlacesAlwaysHold == LocalSpec => []PlacesHold
<1>1. LocalIInv => PlacesHold
  <2> SUFFICES ASSUME LocalTypeOK, LocalInv PROVE NumberedByPlace /\ PositionsStay
    BY DEF LocalIInv, PlacesHold
  <2>1. NumberedByPlace
    BY Logs DEF NumberedByPlace
  <2>2. PositionsStay
    BY DEF PositionsStay, LocalInv, Proceeds, PositionStays
  <2> QED BY <2>1, <2>2
<1> QED BY <1>1, LocalInvariant, PTL

\* Who has moved has taken a step.
LEMMA WhoMoves ==
  ASSUME LocalTypeOK, LocalInv, [LocalNext]_localVars, NEW p \in Procs, pc'[p] # pc[p]
  PROVE  /\ pc[p] = "position" /\ pc'[p] \in {"keep", "read"} => Place(p)
         /\ pc[p] = "commit" /\ pc'[p] = "committed" => Commit(p)
<1>1. \A x \in Procs : \A l : pc' = [pc EXCEPT ![x] = l] => x = p
  BY DEF LocalTypeOK
<1>2. ASSUME NEW x \in Procs, StepOf(x) PROVE StepOf(p)
  <2>1. ASSUME NEW k \in Kinds, Push(x, k) PROVE x = p
    BY <1>1, <2>1, Zenon DEF Push, Goto
  <2>2. ASSUME NEW c \in Consumers, ClaimFor(x, c) \/ Look(x, c) PROVE x = p
    BY <1>1, <2>2, Zenon DEF ClaimFor, Look, ReadCursor, Goto
  <2>3. ASSUME Count(x) \/ WriteBegins(x) \/ Place(x) \/ Keep(x) \/ Commit(x) PROVE x = p
    <3>1. \E l : pc' = [pc EXCEPT ![x] = l]
      BY <2>3 DEF Count, WriteBegins, Place, Keep, Commit, Goto
    <3> QED BY <1>1, <3>1
  <2>4. ASSUME WriteEnds(x) \/ WriteFails(x) \/ Hand(x) \/ Crash(x) PROVE x = p
    BY <1>1, <2>4, Zenon DEF WriteEnds, WriteFails, Hand, Crash, Return, Goto
  <2>5. ASSUME Open(x) PROVE x = p
    <3>1. \E l : pc' = [pc EXCEPT ![x] = l]
      BY <2>5 DEF Open, Goto
    <3> QED BY <1>1, <3>1
  <2>6. ASSUME ReadOn(x) PROVE x = p
    <3>1. \E l : pc' = [pc EXCEPT ![x] = l]
      BY <2>6 DEF ReadOn, Return, Goto
    <3> QED BY <1>1, <3>1
  <2>7. x = p
    BY <1>2, <2>1, <2>2, <2>3, <2>4, <2>5, <2>6 DEF StepOf
  <2> QED BY <1>2, <2>7
<1>3. StepOf(p)
  <2>1. ASSUME \/ \E c \in Consumers : OldClaim(c)
               \/ Meddle \/ Forget \/ UNCHANGED localVars
        PROVE  pc' = pc
    BY <2>1 DEF OldClaim, Meddle, Forget, localVars
  <2>2. \E x \in Procs : StepOf(x)
    BY <2>1 DEF LocalNext, StepOf
  <2> QED BY <1>2, <2>2
<1>4. CASE pc[p] = "position"
  <2>1. Place(p) \/ Crash(p)
    BY <1>3, <1>4 DEF StepOf, Push, ClaimFor, Look, Enter, Count, WriteBegins, WriteEnds, WriteFails,
                      Open, Keep, ReadOn, Commit, Hand
  <2>2. Crash(p) => pc'[p] = "idle"
    BY CallOver DEF Crash
  <2> QED BY <1>4, <2>1, <2>2
<1>5. CASE pc[p] = "commit"
  <2>1. Commit(p) \/ Crash(p)
    BY <1>3, <1>5 DEF StepOf, Push, ClaimFor, Look, Enter, Count, WriteBegins, WriteEnds, WriteFails,
                      Open, Place, Keep, ReadOn, Hand
  <2>2. Crash(p) => pc'[p] = "idle"
    BY CallOver DEF Crash
  <2> QED BY <1>5, <2>1, <2>2
<1> QED BY <1>4, <1>5

\* Checkpoints are a cache and nothing else: a cursor is placed where a read of the whole
\* log places it, and a commit writes the number of records before its position, whatever
\* checkpoints are found, gone or kept for a log since deleted or cut short.
THEOREM CheckpointsAreACache == LocalSpec => CheckpointsChangeNoAnswer
<1>1. LocalIInv /\ [LocalNext]_localVars =>
        \A p \in Procs :
          /\ pc[p] = "position" /\ pc'[p] \in {"keep", "read"} =>
               job'[p].at = Greatest({0} \cup FirstOf(CallEnds(Seen(p), 0, Len(Seen(p))), job[p].count))
          /\ pc[p] = "commit" /\ pc'[p] = "committed" =>
               cursor'[job[p].consumer] = Cardinality(CallEnds(LogNow, 0, job[p].at))
  <2> SUFFICES ASSUME LocalTypeOK, LocalInv, [LocalNext]_localVars, NEW p \in Procs
               PROVE  /\ pc[p] = "position" /\ pc'[p] \in {"keep", "read"} =>
                           job'[p].at = Greatest({0} \cup FirstOf(CallEnds(Seen(p), 0, Len(Seen(p))), job[p].count))
                      /\ pc[p] = "commit" /\ pc'[p] = "committed" =>
                           cursor'[job[p].consumer] = Cardinality(CallEnds(LogNow, 0, job[p].at))
    BY DEF LocalIInv
  <2>1. CASE pc[p] = "position" /\ pc'[p] \in {"keep", "read"}
    <3>1. Place(p)
      BY <2>1, WhoMoves
    <3>2. job'[p].at = Greatest({0} \cup FirstOf(CallEnds(Seen(p), 0, Len(Seen(p))), job[p].count))
      BY <3>1, PlacedRight
    <3> QED BY <2>1, <3>2
  <2>2. CASE pc[p] = "commit" /\ pc'[p] = "committed"
    <3>1. Commit(p)
      BY <2>2, WhoMoves
    <3>2. cursor'[job[p].consumer] = RecordsTo(LogNow, job[p].at)
      BY <3>1, CommittedRight
    <3> QED BY <2>2, <3>2 DEF RecordsTo
  <2> QED BY <2>1, <2>2
<1>2. LocalIInv /\ [LocalNext]_localVars =>
        [\A p \in Procs :
          /\ pc[p] = "position" /\ pc'[p] \in {"keep", "read"} =>
               job'[p].at = Greatest({0} \cup FirstOf(CallEnds(Seen(p), 0, Len(Seen(p))), job[p].count))
          /\ pc[p] = "commit" /\ pc'[p] = "committed" =>
               cursor'[job[p].consumer] = Cardinality(CallEnds(LogNow, 0, job[p].at))]_localVars
  BY <1>1
<1> QED BY <1>2, LocalInvariant, PTL DEF LocalSpec, CheckpointsChangeNoAnswer

\* What was whole is at the front of a log healed, added to or cut back.
LEMMA WholeStays ==
  ASSUME NEW x \in Seq(Cells), NEW y \in Seq(Cells), SameTo(x, y, Boundary(x))
  PROVE  IsPrefix(SubSeq(x, 1, Boundary(x)), y)
<1> DEFINE b == Boundary(x)
           first == SubSeq(x, 1, b)
<1>1. b \in 0..Len(x) /\ b \in Nat /\ Len(y) \in Nat /\ b <= Len(y)
  <2>1. b \in 0..Len(x)
    BY BoundaryIs
  <2> QED BY <2>1 DEF SameTo
<1>2. first \in Seq(Cells) /\ Len(first) = b
  BY <1>1, FirstCells
<1>3. SubSeq(first, 1, b) = first
  <2>1. /\ SubSeq(first, 1, b) \in Seq(Cells) /\ Len(SubSeq(first, 1, b)) = b
        /\ SameTo(SubSeq(first, 1, b), first, b)
    <3> HIDE DEF first
    <3>1. b \in 0..Len(first)
      BY <1>1, <1>2
    <3> QED BY <1>2, <3>1, FirstCells
  <2> HIDE DEF first
  <2> QED BY <1>1, <1>2, <2>1, SeqEqual DEF SameTo
<1>4. first = SubSeq(y, 1, b)
  <2>1. b \in 0..b
    BY <1>1
  <2> QED BY <1>1, <2>1, AgreeOn
<1> HIDE DEF first
<1>5. IsPrefix(first, y)
  BY <1>1, <1>2, <1>3, <1>4 DEF IsPrefix
<1> QED BY <1>5 DEF first

LEMMA LogsKeep ==
  ASSUME LocalTypeOK, LocalInv, [LocalNext]_localVars, disk' # disk, meddled' = meddled
  PROVE  IsPrefix(SubSeq(LogNow, 1, Boundary(LogNow)), disk'[named'])
<1>1. LocalTypeOK' /\ LocalInv'
  BY LocalStep DEF LocalIInv
<1>2. LogNow \in Seq(Cells) /\ Len(LogNow) \in Nat /\ LogNow' \in Seq(Cells)
  <2>1. LogNow' \in Seq(Cells)
    BY <1>1 DEF LogNow, LocalTypeOK
  <2> QED BY <2>1, Logs
<1>3. Boundary(LogNow) \in 0..Len(LogNow) /\ Boundary(LogNow) \in Nat
  BY <1>2, BoundaryIs
<1>4. ASSUME NEW part \in Seq(Cells), LogNow' = LogNow \o part
      PROVE  SameTo(LogNow, LogNow', Boundary(LogNow))
  <2>1. /\ Len(LogNow \o part) = Len(LogNow) + Len(part) /\ Len(part) \in Nat
        /\ \A i \in 1..Len(LogNow) : (LogNow \o part)[i] = LogNow[i]
    BY <1>2, Joined
  <2> QED BY <1>2, <1>3, <1>4, <2>1 DEF SameTo
<1>5. ASSUME NEW p \in Procs, StepOf(p)
      PROVE  named' # NoFile /\ SameTo(LogNow, LogNow', Boundary(LogNow))
  <2>1. ASSUME Enter(p), named' = named PROVE named' # NoFile /\ SameTo(LogNow, LogNow', Boundary(LogNow))
    <3>1. named # NoFile
      BY <2>1 DEF Enter
    <3>2. LogNow' = Healed(LogNow)
      BY <2>1, <3>1, Entered
    <3>3. SameTo(Healed(LogNow), LogNow, Boundary(LogNow))
      BY <1>2, HealedIs
    <3> QED BY <2>1, <3>1, <3>2, <3>3 DEF SameTo
  <2>2. CASE (\E k \in Kinds : Push(p, k)) \/ (\E c \in Consumers : ClaimFor(p, c))
    BY <2>1, <2>2 DEF Push, ClaimFor
  <2>3. CASE WriteBegins(p)
    <3>1. named' # NoFile
      BY <2>3, LocalAssumption DEF WriteBegins, Unopened
    <3>2. PICK part \in Seq(Cells) : LogNow' = LogNow \o part
      BY <2>3, WriteBeginsSafe
    <3> QED BY <1>4, <3>1, <3>2
  <2>4. CASE WriteEnds(p)
    <3>1. named' # NoFile
      BY <2>4 DEF WriteEnds, LocalInv, Proceeds, PushesOn
    <3>2. PICK part \in Seq(Cells) : LogNow' = LogNow \o part
      BY <2>4, WriteEndsSafe
    <3> QED BY <1>4, <3>1, <3>2
  <2>5. CASE WriteFails(p)
    <3>1. named' # NoFile
      BY <2>5 DEF WriteFails, LocalInv, Proceeds, PushesOn
    <3>2. LogNow' = LogNow \/ LogNow' = SubSeq(LogNow, 1, Boundary(LogNow))
      BY <2>5, WriteFailsSafe
    <3>3. SameTo(SubSeq(LogNow, 1, Boundary(LogNow)), LogNow, Boundary(LogNow))
      BY <1>2, <1>3, FirstCells
    <3> QED BY <1>3, <3>1, <3>2, <3>3 DEF SameTo
  <2>6. ~(\E c \in Consumers : Look(p, c)) /\ ~Count(p) /\ ~Open(p) /\ ~Place(p) /\ ~Keep(p)
        /\ ~ReadOn(p) /\ ~Commit(p) /\ ~Hand(p) /\ ~Crash(p)
    BY DEF Look, Count, Open, Place, Keep, ReadOn, Commit, Hand, Crash
  <2> QED BY <1>5, <2>2, <2>3, <2>4, <2>5, <2>6 DEF StepOf
<1>6. ~((\E c \in Consumers : OldClaim(c)) \/ Meddle \/ Forget \/ UNCHANGED localVars)
  <2>1. meddled \in Int
    BY DEF LocalTypeOK
  <2>2. ~Meddle
    BY <2>1 DEF Meddle
  <2>3. ~(\E c \in Consumers : OldClaim(c)) /\ ~Forget /\ ~(UNCHANGED localVars)
    BY DEF OldClaim, Forget, localVars
  <2> QED BY <2>2, <2>3
<1>7. \E p \in Procs : StepOf(p)
  BY <1>6 DEF LocalNext, StepOf
<1>8. named' # NoFile /\ SameTo(LogNow, LogNow', Boundary(LogNow))
  BY <1>5, <1>7
<1>9. LogNow' = disk'[named']
  BY <1>8 DEF LogNow
<1> QED BY <1>2, <1>8, <1>9, WholeStays

LEMMA CursorsMoveOn ==
  ASSUME LocalTypeOK, LocalInv, [LocalNext]_localVars, NEW c \in Consumers
  PROVE  cursor'[c] >= cursor[c]
<1>1. cursor[c] \in Int
  BY DEF LocalTypeOK, Absent
<1>2. ASSUME NEW p \in Procs, StepOf(p) PROVE cursor'[c] >= cursor[c]
  <2>1. CASE Commit(p)
    <3>1. /\ job[p].consumer # c => cursor'[c] = cursor[c]
          /\ job[p].consumer = c => cursor'[c] > cursor[c]
          /\ cursor'[c] \in Int
      BY <2>1, CommittedRight DEF Absent
    <3> QED BY <1>1, <3>1
  <2>2. CASE ~Commit(p)
    <3>1. cursor' = cursor
      BY <1>2, <2>2 DEF StepOf, Push, ClaimFor, Look, Count, WriteBegins, WriteEnds, WriteFails,
                        Open, Place, Keep, ReadOn, Hand, Crash
    <3> QED BY <1>1, <3>1
  <2> QED BY <2>1, <2>2
<1>3. ASSUME NEW x \in Consumers, OldClaim(x) PROVE cursor'[c] >= cursor[c]
  <2>1. /\ x # c => cursor'[c] = cursor[c]
        /\ x = c => cursor'[c] > cursor[c]
        /\ cursor'[c] \in Int
    BY <1>3, OldClaimMoves DEF Absent
  <2> QED BY <1>1, <2>1
<1>4. CASE Meddle \/ Forget \/ UNCHANGED localVars
  BY <1>1, <1>4 DEF Meddle, Forget, localVars
<1> QED BY <1>2, <1>3, <1>4 DEF LocalNext, StepOf

\* What is done stays done: the whole lines of the log outlast any healing and any failed
\* write, and a record claimed lies behind its consumer's cursor for good, whichever
\* process or release claims next and whatever becomes of the log.
THEOREM DoneAlwaysStaysDone == LocalSpec => DoneStaysDone
<1>1. LocalIInv /\ [LocalNext]_localVars =>
        /\ disk' # disk /\ meddled' = meddled =>
             IsPrefix(SubSeq(LogNow, 1, Boundary(LogNow)), disk'[named'])
        /\ \A c \in Consumers : cursor'[c] >= cursor[c]
        /\ \A p \in Procs :
             pc[p] = "commit" /\ pc'[p] = "committed" =>
               cursor'[job[p].consumer] > cursor[job[p].consumer]
  <2> SUFFICES ASSUME LocalTypeOK, LocalInv, [LocalNext]_localVars
               PROVE  /\ disk' # disk /\ meddled' = meddled =>
                           IsPrefix(SubSeq(LogNow, 1, Boundary(LogNow)), disk'[named'])
                      /\ \A c \in Consumers : cursor'[c] >= cursor[c]
                      /\ \A p \in Procs :
                           pc[p] = "commit" /\ pc'[p] = "committed" =>
                             cursor'[job[p].consumer] > cursor[job[p].consumer]
    BY DEF LocalIInv
  <2>1. disk' # disk /\ meddled' = meddled =>
          IsPrefix(SubSeq(LogNow, 1, Boundary(LogNow)), disk'[named'])
    BY LogsKeep
  <2>2. \A c \in Consumers : cursor'[c] >= cursor[c]
    BY CursorsMoveOn
  <2>3. ASSUME NEW p \in Procs, pc[p] = "commit", pc'[p] = "committed"
        PROVE  cursor'[job[p].consumer] > cursor[job[p].consumer]
    <3>1. Commit(p)
      BY <2>3, WhoMoves
    <3> QED BY <3>1, CommittedRight
  <2> QED BY <2>1, <2>2, <2>3
<1>2. LocalIInv /\ [LocalNext]_localVars =>
        [/\ disk' # disk /\ meddled' = meddled =>
              IsPrefix(SubSeq(LogNow, 1, Boundary(LogNow)), disk'[named'])
         /\ \A c \in Consumers : cursor'[c] >= cursor[c]
         /\ \A p \in Procs :
              pc[p] = "commit" /\ pc'[p] = "committed" =>
                cursor'[job[p].consumer] > cursor[job[p].consumer]]_localVars
  BY <1>1
<1> QED BY <1>2, LocalInvariant, PTL DEF LocalSpec, DoneStaysDone
=============================================================================
