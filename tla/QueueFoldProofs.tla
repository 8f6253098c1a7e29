-------------------------- MODULE QueueFoldProofs --------------------------
(***************************************************************************)
(* Facts about the fold of a log, for every log and every policy: it is    *)
(* well defined, each line takes it from one state to the next, and it can *)
(* be resumed from any checkpoint.                                         *)
(***************************************************************************)
EXTENDS QueueFold, LibraryProofs, TLAPS

----------------------------------------------------------------------------
(* The types of the helpers and of each transition. *)

\* How the members of S are chosen from a sequence over R, an element at a time.
Chooses(h, s, R, S) ==
  /\ h[0] = <<>>
  /\ Chosen(s, S) = h[Len(s)]
  /\ \A n \in 0..Len(s) : h[n] \in Seq(R \cap S)
  /\ \A n \in 0..(Len(s) - 1) :
       h[n + 1] = IF s[n + 1] \in S THEN Append(h[n], s[n + 1]) ELSE h[n]

LEMMA ChosenUnrolls ==
  ASSUME NEW R, NEW S, NEW s \in Seq(R)
  PROVE  \E h : Chooses(h, s, R, S)
<1> DEFINE Q == Seq(R \cap S)
           step == [n \in 1..Len(s) |-> [g \in Q |-> IF s[n] \in S THEN Append(g, s[n]) ELSE g]]
           E(h) == [i \in 0..Len(s) |->
                      IF i = 0 THEN <<>>
                      ELSE IF s[i] \in S THEN Append(h[i - 1], s[i]) ELSE h[i - 1]]
           H == CHOOSE h : h = E(h)
<1>0. Len(s) \in Nat /\ <<>> \in Q
  OBVIOUS
<1>1. ASSUME NEW n \in 1..Len(s), NEW g \in Q
      PROVE  (IF s[n] \in S THEN Append(g, s[n]) ELSE g) \in Q
  OBVIOUS
<1>2. step \in [(0 + 1)..Len(s) -> [Q -> Q]]
  BY <1>1
<1>3. PICK g : Unrolls(g, 0, Len(s), Q, <<>>, step)
  <2> HIDE DEF Q, step
  <2>1. 0 \in Nat /\ Len(s) \in Nat /\ 0 <= Len(s)
    BY <1>0
  <2> QED BY <1>0, <1>2, <2>1, Recursion, Zenon
<1> HIDE DEF Q, step
<1>g. g \in [0..Len(s) -> Q] /\ g[0] = <<>>
  BY <1>3 DEF Unrolls
<1>4. ASSUME NEW n \in 1..Len(s)
      PROVE  g[n] = IF s[n] \in S THEN Append(g[n - 1], s[n]) ELSE g[n - 1]
  <2>1. g[n - 1] \in Q /\ g[n] = step[n][g[n - 1]]
    BY <1>3, <1>0 DEF Unrolls
  <2> QED BY <2>1 DEF step
<1>5. g = E(g)
  <2>2. \A n \in 0..Len(s) : g[n] = IF n = 0 THEN <<>>
                                    ELSE IF s[n] \in S THEN Append(g[n - 1], s[n]) ELSE g[n - 1]
    <3> TAKE n \in 0..Len(s)
    <3>1. CASE n = 0
      BY <1>g, <3>1
    <3>2. CASE n \in 1..Len(s)
      BY <3>2, <1>4
    <3> QED BY <3>1, <3>2, <1>0
  <2> QED BY <1>g, <2>2
<1>6. H = E(H)
  BY <1>5, Zenon
<1>7. Chosen(s, S) = H[Len(s)]
  BY Zenon DEF Chosen
<1> DEFINE U == {n \in 0..Len(s) : H[n] \in Q}
<1>8. 0 \in U
  <2> HIDE DEF H
  <2> QED BY <1>6, <1>0
<1>u. ASSUME NEW n \in 0..(Len(s) - 1)
      PROVE  H[n + 1] = IF s[n + 1] \in S THEN Append(H[n], s[n + 1]) ELSE H[n]
  <2> HIDE DEF H
  <2>1. \A i \in 0..Len(s) : H[i] = E(H)[i]
    BY <1>6
  <2>2. n + 1 \in 0..Len(s) /\ n + 1 # 0 /\ (n + 1) - 1 = n
    BY <1>0
  <2> QED BY <2>1, <2>2
<1>9. ASSUME NEW n \in 0..(Len(s) - 1), n \in U PROVE n + 1 \in U
  <2> HIDE DEF H
  <2>1. H[n] \in Q /\ n + 1 \in 1..Len(s)
    BY <1>9, <1>0
  <2>2. H[n + 1] \in Q
    BY <1>u, <2>1, <1>1
  <2> QED BY <2>1, <2>2
<1>10. \A n \in 0..Len(s) : n \in U
  <2> HIDE DEF U
  <2> QED BY <1>0, <1>8, <1>9, Induct
<1>11. H[0] = <<>>
  <2> HIDE DEF H
  <2> QED BY <1>6, <1>0
<1> HIDE DEF H
<1>12. Chooses(H, s, R, S)
  BY <1>7, <1>10, <1>11, <1>u DEF Chooses, Q
<1> QED BY <1>12

\* The members of S a sequence over R holds are a sequence over R and S.
LEMMA ChosenType ==
  ASSUME NEW R, NEW S, NEW s \in Seq(R)
  PROVE  Chosen(s, S) \in Seq(R \cap S)
<1>1. PICK h : Chooses(h, s, R, S)
  BY ChosenUnrolls
<1>2. Len(s) \in 0..Len(s)
  OBVIOUS
<1> QED BY <1>1, <1>2 DEF Chooses

\* No two records of a sequence have the same id.
IdsDiffer(s) == \A i, j \in 1..Len(s) : s[i].id = s[j].id => i = j

\* What is chosen was there, and is there once if it was there once.
LEMMA ChosenOnce ==
  ASSUME NEW R, NEW S, NEW s \in Seq(R), IdsDiffer(s)
  PROVE  /\ IdsDiffer(Chosen(s, S))
         /\ \A i \in 1..Len(Chosen(s, S)) : \E j \in 1..Len(s) : Chosen(s, S)[i] = s[j]
<1>1. PICK h : Chooses(h, s, R, S)
  BY ChosenUnrolls
<1> DEFINE U == {n \in 0..Len(s) :
                   /\ IdsDiffer(h[n])
                   /\ \A i \in 1..Len(h[n]) : \E j \in 1..n : h[n][i] = s[j]}
<1>0. Len(s) \in Nat
  OBVIOUS
<1>2. 0 \in U
  BY <1>0, <1>1 DEF Chooses, IdsDiffer
<1>3. ASSUME NEW n \in 0..(Len(s) - 1), n \in U PROVE n + 1 \in U
  <2>1. h[n] \in Seq(R) /\ n + 1 \in 0..Len(s) /\ n \in 0..Len(s)
    <3>1. n \in 0..Len(s) /\ n + 1 \in 0..Len(s)
      BY <1>0
    <3>2. h[n] \in Seq(R \cap S)
      BY <1>1, <3>1 DEF Chooses
    <3>3. R \cap S \subseteq R
      OBVIOUS
    <3> QED BY <3>1, <3>2, <3>3
  <2>2. h[n + 1] = IF s[n + 1] \in S THEN Append(h[n], s[n + 1]) ELSE h[n]
    BY <1>1 DEF Chooses
  <2>3. CASE s[n + 1] \notin S
    <3>1. h[n + 1] = h[n]
      BY <2>2, <2>3
    <3>2. 1..n \subseteq 1..(n + 1)
      OBVIOUS
    <3> QED BY <1>3, <2>1, <3>1, <3>2
  <2>4. CASE s[n + 1] \in S
    <3> DEFINE t == h[n + 1]
    <3>1. /\ t \in Seq(R) /\ Len(t) = Len(h[n]) + 1 /\ Len(h[n]) \in Nat
          /\ t[Len(t)] = s[n + 1]
          /\ \A i \in 1..Len(h[n]) : t[i] = h[n][i]
      <4>1. s[n + 1] \in R
        BY <1>0
      <4>2. t = Append(h[n], s[n + 1])
        BY <2>2, <2>4
      <4> HIDE DEF t
      <4> QED BY <2>1, <4>1, <4>2
    <3> HIDE DEF t
    <3>2. \A i \in 1..Len(t) : \E j \in 1..(n + 1) : t[i] = s[j] /\ (i # Len(t) => j \in 1..n)
      BY <1>3, <3>1, SMTT(30)
    <3>3. IdsDiffer(t)
      <4> SUFFICES ASSUME NEW i \in 1..Len(t), NEW k \in 1..Len(t), t[i].id = t[k].id PROVE i = k
        BY DEF IdsDiffer
      <4>1. CASE i # Len(t) /\ k # Len(t)
        <5>1. i \in 1..Len(h[n]) /\ k \in 1..Len(h[n]) /\ t[i] = h[n][i] /\ t[k] = h[n][k]
          BY <3>1, <4>1, SMTT(30)
        <5> QED BY <1>3, <5>1 DEF IdsDiffer
      <4>2. ASSUME NEW a \in 1..Len(t), a # Len(t), t[a].id = t[Len(t)].id PROVE FALSE
        <5>1. PICK j \in 1..n : t[a] = s[j]
          BY <3>2, <4>2
        <5>2. s[j].id = s[n + 1].id /\ j \in 1..Len(s) /\ n + 1 \in 1..Len(s) /\ j # n + 1
          BY <1>0, <3>1, <4>2, <5>1
        <5> QED BY <5>2 DEF IdsDiffer
      <4> QED BY <4>1, <4>2
    <3> QED BY <2>1, <3>2, <3>3 DEF t
  <2> QED BY <2>3, <2>4
<1>4. \A n \in 0..Len(s) : n \in U
  <2> HIDE DEF U
  <2> QED BY <1>0, <1>2, <1>3, Induct
<1>5. Len(s) \in U
  <2> HIDE DEF U
  <2> QED BY <1>0, <1>4
<1> QED BY <1>1, <1>5 DEF Chooses

\* Whatever is to be chosen is.
LEMMA ChosenHas ==
  ASSUME NEW R, NEW S, NEW s \in Seq(R)
  PROVE  /\ \A i \in 1..Len(Chosen(s, S)) : \E j \in 1..Len(s) : Chosen(s, S)[i] = s[j]
         /\ \A j \in 1..Len(s) : s[j] \in S => \E i \in 1..Len(Chosen(s, S)) : Chosen(s, S)[i] = s[j]
<1>1. PICK h : Chooses(h, s, R, S)
  BY ChosenUnrolls
<1> DEFINE Has(t, n) == /\ \A i \in 1..Len(t) : \E j \in 1..n : t[i] = s[j]
                        /\ \A j \in 1..n : s[j] \in S => \E i \in 1..Len(t) : t[i] = s[j]
           U == {n \in 0..Len(s) : Has(h[n], n)}
<1>0. Len(s) \in Nat
  OBVIOUS
<1>2. 0 \in U
  BY <1>0, <1>1 DEF Chooses
<1>3. ASSUME NEW n \in 0..(Len(s) - 1), n \in U PROVE n + 1 \in U
  <2>1. h[n] \in Seq(R) /\ n + 1 \in 0..Len(s) /\ n \in 0..Len(s)
    <3>1. n \in 0..Len(s) /\ n + 1 \in 0..Len(s)
      BY <1>0
    <3>2. h[n] \in Seq(R \cap S)
      BY <1>1, <3>1 DEF Chooses
    <3>3. R \cap S \subseteq R
      OBVIOUS
    <3> QED BY <3>1, <3>2, <3>3
  <2>2. h[n + 1] = IF s[n + 1] \in S THEN Append(h[n], s[n + 1]) ELSE h[n]
    BY <1>1 DEF Chooses
  <2>n. /\ \A j \in 1..(n + 1) : j \in 1..n \/ j = n + 1
        /\ \A j \in 1..n : j \in 1..(n + 1)
        /\ n + 1 \in 1..(n + 1)
    OBVIOUS
  <2>3. CASE s[n + 1] \notin S
    <3>1. h[n + 1] = h[n]
      BY <2>2, <2>3
    <3> QED BY <1>3, <2>1, <2>3, <2>n, <3>1
  <2>4. CASE s[n + 1] \in S
    <3> DEFINE t == h[n + 1]
               k == Len(h[n])
    <3>1. k \in Nat /\ Len(t) = k + 1 /\ t[k + 1] = s[n + 1] /\ \A i \in 1..k : t[i] = h[n][i]
      <4>1. s[n + 1] \in R
        BY <1>0
      <4>2. t = Append(h[n], s[n + 1])
        BY <2>2, <2>4
      <4> HIDE DEF t
      <4> QED BY <2>1, <4>1, <4>2
    <3>2. /\ \A i \in 1..(k + 1) : i \in 1..k \/ i = k + 1
          /\ \A i \in 1..k : i \in 1..(k + 1)
          /\ k + 1 \in 1..(k + 1)
      BY <3>1
    <3>3. Has(h[n], n)
      BY <1>3
    <3>4. Has(t, n + 1)
      <4> HIDE DEF t
      <4>1. \A i \in 1..(k + 1) : \E j \in 1..(n + 1) : t[i] = s[j]
        BY <2>n, <3>1, <3>2, <3>3, SMTT(30)
      <4>2. \A j \in 1..(n + 1) : s[j] \in S => \E i \in 1..(k + 1) : t[i] = s[j]
        BY <2>n, <3>1, <3>2, <3>3
      <4> QED BY <3>1, <4>1, <4>2
    <3> QED BY <2>1, <3>4
  <2> QED BY <2>3, <2>4
<1>4. \A n \in 0..Len(s) : n \in U
  <2> HIDE DEF U
  <2> QED BY <1>0, <1>2, <1>3, Induct
<1>5. Len(s) \in U
  <2> HIDE DEF U
  <2> QED BY <1>0, <1>4
<1> QED BY <1>1, <1>5 DEF Chooses

\* An index some member of a set of positions has is its first.
LEMMA FirstIsLeast ==
  ASSUME NEW S, S \subseteq Nat, S # {}
  PROVE  First(S) \in S /\ \A i \in S : First(S) <= i
<1>1. \E i \in S : \A j \in S : i <= j
  BY LeastNat
<1>2. \E i \in S : IsFirst(i, S)
  BY <1>1 DEF IsFirst
<1>3. IsFirst(First(S), S)
  BY <1>2, Zenon DEF First
<1> QED BY <1>3 DEF IsFirst

LEMMA FirstIsMember ==
  ASSUME NEW S, S \subseteq Nat, S # {}
  PROVE  First(S) \in S
BY FirstIsLeast

LEMMA MarkedType ==
  ASSUME NEW r \in Records \cup {NoRecord}, NEW id, NEW abandoned \in BOOLEAN
  PROVE  /\ Marked(r, id, abandoned) \in Records \cup {NoRecord}
         /\ r \in Records => Marked(r, id, abandoned) \in Records
BY FoldAssumption DEF Marked, Records

\* Every transition takes a fold to a fold.
LEMMA ApplyQueuedType ==
  ASSUME NEW f \in Folded, NEW r \in Records
  PROVE  ApplyQueued(f, r) \in Folded
<1>1. Kept(f.waiting, r) \in Seq(Records)
  <2>1. f.waiting \in Seq(Records)
    BY DEF Folded
  <2> DEFINE others == {held \in Records : held.body.key # r.body.key}
  <2>2. Chosen(f.waiting, others) \in Seq(Records \cap others)
    <3> HIDE DEF others
    <3> QED BY <2>1, ChosenType
  <2>3. Records \cap others \subseteq Records
    OBVIOUS
  <2>4. Chosen(f.waiting, others) \in Seq(Records)
    <3> HIDE DEF others
    <3> QED BY <2>2, <2>3
  <2> QED BY <2>1, <2>4 DEF Kept
<1>2. Append(Kept(f.waiting, r), r) \in Seq(Records)
  BY <1>1
<1>3. r.id # MaxId => Larger(f.next_id, r.id + 1) \in 0..MaxId
  BY FoldAssumption DEF Larger, Folded, Records
<1> HIDE DEF Kept
<1> QED BY <1>2, <1>3 DEF ApplyQueued, Folded

LEMMA ApplyClaimedType ==
  ASSUME NEW f \in Folded, NEW id
  PROVE  ApplyClaimed(f, id) \in Folded
<1>1. CASE Positions(f.waiting, id) = {}
  BY <1>1 DEF ApplyClaimed
<1>2. CASE Positions(f.waiting, id) # {}
  <2> DEFINE at    == First(Positions(f.waiting, id))
             taken == f.waiting[at]
             rest  == RemoveAt(f.waiting, at)
  <2>1. f.waiting \in Seq(Records) /\ f.pending \in Records \cup {NoRecord}
    BY DEF Folded
  <2>2. at \in Positions(f.waiting, id)
    <3>1. Positions(f.waiting, id) \subseteq Nat
      BY <2>1 DEF Positions
    <3> QED BY <1>2, <3>1, FirstIsMember
  <2> HIDE DEF at
  <2>3. at \in 1..Len(f.waiting) /\ taken \in Records
    BY <2>1, <2>2 DEF Positions
  <2>4. rest \in Seq(Records)
    BY <2>1, <2>3 DEF RemoveAt
  <2>5. Displaced(f) \in Seq(Records)
    BY <2>1 DEF Displaced
  <2>6. rest \o Displaced(f) \in Seq(Records)
    <3> HIDE DEF rest
    <3> QED BY <2>4, <2>5
  <2>7. ApplyClaimed(f, id) = IF TakesSlot(f, taken)
                              THEN [f EXCEPT !.waiting = rest \o Displaced(f), !.pending = taken]
                              ELSE [f EXCEPT !.waiting = rest]
    BY <1>2 DEF ApplyClaimed, at
  <2> HIDE DEF rest, taken
  <2> QED BY <2>3, <2>4, <2>6, <2>7 DEF Folded
<1> QED BY <1>1, <1>2

LEMMA ApplyMarkType ==
  ASSUME NEW f \in Folded, NEW id, NEW abandoned \in BOOLEAN
  PROVE  ApplyMark(f, id, abandoned) \in Folded
<1>1. [i \in 1..Len(f.waiting) |-> Marked(f.waiting[i], id, abandoned)] \in Seq(Records)
  <2>1. \A i \in 1..Len(f.waiting) : Marked(f.waiting[i], id, abandoned) \in Records
    BY MarkedType DEF Folded
  <2> QED BY <2>1 DEF Folded
<1>2. Marked(f.pending, id, abandoned) \in Records \cup {NoRecord}
  BY MarkedType DEF Folded
<1> QED BY <1>1, <1>2 DEF ApplyMark, Folded

\* Folding one line into a fold yields a fold.
LEMMA ApplyType ==
  ASSUME NEW f \in Folded, NEW line \in Lines
  PROVE  Apply(f, line) \in Folded
<1>1. line.record \in Records /\ line.event \in Events \cup {"none", "unreadable"}
  BY DEF Lines
<1>2. EventOf(f, line) \in Events \cup {"unreadable"}
  BY <1>1 DEF EventOf, Events
<1>3. ApplyAnswered(f, line.record.id) \in Folded
  BY DEF ApplyAnswered, Folded
<1> QED
  BY <1>1, <1>2, <1>3, ApplyQueuedType, ApplyClaimedType, ApplyMarkType DEF Apply, Events

----------------------------------------------------------------------------
(* Folding a whole log. *)

LEMMA EmptyFoldType == EmptyFold \in Folded
BY FoldAssumption DEF EmptyFold, Folded

LEMMA FoldStepType ==
  ASSUME NEW f \in Folded, NEW floor, NEW line \in Lines
  PROVE  FoldStep(f, floor, line) \in Folded
BY ApplyType DEF FoldStep

\* Each line of l after the first `from`, up to the m-th, takes g on.
Follows(g, from, m, floor, l) ==
  \A n \in (from + 1)..m : g[n] = FoldStep(g[n - 1], floor, l[n])

\* The fold of a log starts where it is told to, and each line takes it on.
LEMMA FoldsUnroll ==
  ASSUME NEW f \in Folded, NEW floor, NEW l \in Seq(Lines), NEW from \in 0..Len(l)
  PROVE  /\ Folds(f, floor, l, from) \in [from..Len(l) -> Folded]
         /\ Folds(f, floor, l, from)[from] = f
         /\ Follows(Folds(f, floor, l, from), from, Len(l), floor, l)
<1> DEFINE step == [n \in (from + 1)..Len(l) |-> [g \in Folded |-> FoldStep(g, floor, l[n])]]
           E(h) == [n \in from..Len(l) |-> IF n = from THEN f ELSE step[n][h[n - 1]]]
           H == CHOOSE h : h = E(h)
<1>0. Len(l) \in Nat /\ from \in Nat /\ from <= Len(l)
  OBVIOUS
<1>1. ASSUME NEW n \in (from + 1)..Len(l), NEW g \in Folded
      PROVE  step[n][g] = FoldStep(g, floor, l[n]) /\ FoldStep(g, floor, l[n]) \in Folded
  <2>1. l[n] \in Lines
    BY <1>0
  <2> QED BY <2>1, FoldStepType
<1>2. step \in [(from + 1)..Len(l) -> [Folded -> Folded]]
  BY <1>1
<1>3. Folds(f, floor, l, from) = H
  BY Zenon DEF Folds
<1> HIDE DEF step
<1>4. PICK g : Unrolls(g, from, Len(l), Folded, f, step)
  BY <1>0, <1>2, Recursion
<1>5. g = E(g)
  <2>1. \A n \in from..Len(l) : g[n] = IF n = from THEN f ELSE step[n][g[n - 1]]
    <3> TAKE n \in from..Len(l)
    <3>1. CASE n = from
      BY <1>4, <3>1 DEF Unrolls
    <3>2. CASE n \in (from + 1)..Len(l)
      BY <1>0, <1>4, <3>2 DEF Unrolls
    <3> QED BY <3>1, <3>2, <1>0
  <2> QED BY <1>4, <2>1 DEF Unrolls
<1>6. H = E(H)
  BY <1>5, Zenon
<1> HIDE DEF H
<1>7. H[from] = f
  BY <1>6, <1>0
<1>8. \A n \in (from + 1)..Len(l) : H[n] = step[n][H[n - 1]]
  <2> TAKE n \in (from + 1)..Len(l)
  <2>1. H[n] = E(H)[n]
    BY <1>6
  <2>2. n \in from..Len(l) /\ n # from
    BY <1>0
  <2> QED BY <2>1, <2>2
<1> DEFINE U == {n \in from..Len(l) : H[n] \in Folded}
<1>9. from \in U
  BY <1>7, <1>0
<1>10. ASSUME NEW n \in from..(Len(l) - 1), n \in U PROVE n + 1 \in U
  <2>1. n + 1 \in (from + 1)..Len(l) /\ (n + 1) - 1 = n
    BY <1>0
  <2>2. H[n + 1] = step[n + 1][H[n]] /\ H[n] \in Folded
    BY <1>8, <1>10, <2>1
  <2>3. H[n + 1] \in Folded
    BY <1>1, <2>1, <2>2
  <2> QED BY <2>1, <2>3, <1>0
<1>11. \A n \in from..Len(l) : n \in U
  <2> HIDE DEF U
  <2> QED BY <1>0, <1>9, <1>10, Induct
<1>12. H \in [from..Len(l) -> Folded]
  BY <1>6, <1>11
<1>13. \A n \in (from + 1)..Len(l) : H[n] = FoldStep(H[n - 1], floor, l[n])
  <2> TAKE n \in (from + 1)..Len(l)
  <2>1. n - 1 \in from..Len(l)
    BY <1>0
  <2>2. H[n - 1] \in Folded
    BY <1>11, <2>1
  <2> QED BY <1>1, <1>8, <2>2
<1> QED BY <1>3, <1>7, <1>12, <1>13 DEF Follows

\* Two folds that start alike and are taken on by the same lines are one.
LEMMA FoldsAgree ==
  ASSUME NEW from \in Nat, NEW m \in Nat, NEW floor, NEW g, NEW h, NEW l,
         g[from] = h[from],
         Follows(g, from, m, floor, l),
         Follows(h, from, m, floor, l)
  PROVE  \A n \in from..m : g[n] = h[n]
<1> DEFINE U == {n \in from..m : g[n] = h[n]}
<1>0. CASE from > m
  BY <1>0
<1>1. CASE from <= m
  <2>1. from \in U
    BY <1>1
  <2>2. ASSUME NEW n \in from..(m - 1), n \in U PROVE n + 1 \in U
    <3>1. n + 1 \in (from + 1)..m /\ (n + 1) - 1 = n
      OBVIOUS
    <3>2. g[n + 1] = FoldStep(g[n], floor, l[n + 1]) /\ h[n + 1] = FoldStep(h[n], floor, l[n + 1])
      BY <3>1 DEF Follows
    <3> QED BY <2>2, <3>1, <3>2
  <2>3. \A n \in from..m : n \in U
    <3> HIDE DEF U
    <3> QED BY <2>1, <2>2, Induct
  <2> QED BY <2>3
<1> QED BY <1>0, <1>1

LEMMA FoldOfUnroll ==
  ASSUME NEW l \in Seq(Lines)
  PROVE  /\ Folds(EmptyFold, 0, l, 0) \in [0..Len(l) -> Folded]
         /\ Folds(EmptyFold, 0, l, 0)[0] = EmptyFold
         /\ Follows(Folds(EmptyFold, 0, l, 0), 0, Len(l), 0, l)
<1>1. 0 \in 0..Len(l)
  OBVIOUS
<1> QED BY <1>1, FoldsUnroll, EmptyFoldType

LEMMA FoldOfType ==
  ASSUME NEW l \in Seq(Lines), NEW n \in 0..Len(l)
  PROVE  FoldOf(l, n) \in Folded
BY FoldOfUnroll DEF FoldOf

\* With floor 0 no line is passed over.
LEMMA FoldStepIsApply ==
  ASSUME NEW f, NEW line \in Lines
  PROVE  FoldStep(f, 0, line) = Apply(f, line)
<1>1. line.record.id \in Nat
  BY FoldAssumption DEF Lines, Records
<1> QED BY <1>1 DEF FoldStep

\* Each line takes what the log says from one state to the next.
LEMMA FoldOfNext ==
  ASSUME NEW l \in Seq(Lines), NEW n \in 1..Len(l)
  PROVE  FoldOf(l, n) = Apply(FoldOf(l, n - 1), l[n])
<1>1. FoldOf(l, n) = FoldStep(FoldOf(l, n - 1), 0, l[n])
  BY FoldOfUnroll DEF FoldOf, Follows
<1> QED BY <1>1, FoldStepIsApply

\* A line appended changes nothing of what the log said before it.
LEMMA FoldOfPrefix ==
  ASSUME NEW l \in Seq(Lines), NEW x \in Lines, NEW n \in 0..Len(l)
  PROVE  FoldOf(Append(l, x), n) = FoldOf(l, n)
<1> DEFINE g == Folds(EmptyFold, 0, l, 0)
           h == Folds(EmptyFold, 0, Append(l, x), 0)
<1>0. Len(l) \in Nat /\ Append(l, x) \in Seq(Lines) /\ Len(Append(l, x)) = Len(l) + 1
  OBVIOUS
<1>1. g[0] = EmptyFold /\ Follows(g, 0, Len(l), 0, l)
  BY FoldOfUnroll
<1>2. h[0] = EmptyFold /\ Follows(h, 0, Len(l), 0, l)
  <2>1. h[0] = EmptyFold /\ Follows(h, 0, Len(l) + 1, 0, Append(l, x))
    BY <1>0, FoldOfUnroll
  <2>2. \A k \in 1..Len(l) : Append(l, x)[k] = l[k]
    OBVIOUS
  <2> HIDE DEF h
  <2> QED BY <1>0, <2>1, <2>2 DEF Follows
<1>3. \A k \in 0..Len(l) : g[k] = h[k]
  <2> HIDE DEF g, h
  <2> QED BY <1>0, <1>1, <1>2, FoldsAgree
<1> QED BY <1>3 DEF FoldOf

\* A line appended is applied to what the log said.
LEMMA FoldOfAppend ==
  ASSUME NEW l \in Seq(Lines), NEW x \in Lines
  PROVE  FoldOf(Append(l, x), Len(l) + 1) = Apply(FoldOf(l, Len(l)), x)
<1>1. /\ Append(l, x) \in Seq(Lines)
      /\ Len(l) + 1 \in 1..Len(Append(l, x))
      /\ Append(l, x)[Len(l) + 1] = x
      /\ (Len(l) + 1) - 1 = Len(l)
  OBVIOUS
<1>2. FoldOf(Append(l, x), Len(l) + 1) = Apply(FoldOf(Append(l, x), Len(l)), x)
  BY <1>1, FoldOfNext
<1>3. Len(l) \in 0..Len(l)
  OBVIOUS
<1> QED BY <1>2, <1>3, FoldOfPrefix

\* Resuming the fold at any line lands where folding the whole log does: a
\* projection stamped there needs only the lines after it (`current`).
THEOREM FoldResumes ==
  ASSUME NEW l \in Seq(Lines), NEW n \in 0..Len(l)
  PROVE  FoldFrom(FoldOf(l, n), 0, l, n) = FoldOf(l, Len(l))
<1> DEFINE g == Folds(FoldOf(l, n), 0, l, n)
           h == Folds(EmptyFold, 0, l, 0)
<1>0. Len(l) \in Nat /\ n \in Nat /\ Len(l) \in n..Len(l)
  OBVIOUS
<1>1. g[n] = FoldOf(l, n) /\ Follows(g, n, Len(l), 0, l)
  BY FoldsUnroll, FoldOfType
<1>2. h[n] = FoldOf(l, n) /\ Follows(h, n, Len(l), 0, l)
  <2>1. Follows(h, 0, Len(l), 0, l)
    BY FoldOfUnroll
  <2>2. h[n] = FoldOf(l, n)
    BY DEF FoldOf
  <2> HIDE DEF h
  <2> QED BY <1>0, <2>1, <2>2 DEF Follows
<1>3. \A k \in n..Len(l) : g[k] = h[k]
  <2> HIDE DEF g, h
  <2> QED BY <1>0, <1>1, <1>2, FoldsAgree
<1> QED BY <1>0, <1>3 DEF FoldFrom, FoldOf

----------------------------------------------------------------------------
(* The lines and records operations derive from a fold. *)

LEMMA AbandonedType ==
  ASSUME NEW r \in Records, NEW b \in BOOLEAN
  PROVE  [r EXCEPT !.abandoned = b] \in Records
BY DEF Records

LEMMA LineType ==
  ASSUME NEW event \in Events, NEW r \in Records
  PROVE  Line(event, r) \in Lines
BY DEF Line, Lines

LEMMA HeldRecordsType ==
  ASSUME NEW f \in Folded
  PROVE  HeldRecords(f) \in Seq(Records)
BY DEF HeldRecords, Folded

LEMMA NextClaimedType ==
  ASSUME NEW f \in Folded, f.waiting # <<>>
  PROVE  NextClaimed(f) \in Records
<1>1. f.waiting \in Seq(Records) /\ Len(f.waiting) \in Nat /\ 1 \in 1..Len(f.waiting)
  BY DEF Folded
<1>2. ASSUME NEW S, WaitingAt(f, S) # {} PROVE First(WaitingAt(f, S)) \in 1..Len(f.waiting)
  <2>1. WaitingAt(f, S) \subseteq 1..Len(f.waiting) /\ WaitingAt(f, S) \subseteq Nat
    BY <1>1 DEF WaitingAt
  <2> QED BY <1>2, <2>1, FirstIsMember
<1> DEFINE at == IF BlockingFirst /\ WaitingAt(f, Live \cap Blocking) # {}
                 THEN First(WaitingAt(f, Live \cap Blocking))
                 ELSE IF WaitingAt(f, Live) # {} THEN First(WaitingAt(f, Live))
                 ELSE 1
<1>3. at \in 1..Len(f.waiting)
  BY <1>1, <1>2
<1>4. f.waiting[at] \in Records
  <2> HIDE DEF at
  <2> QED BY <1>1, <1>3
<1> QED BY <1>4 DEF NextClaimed

LEMMA MarkLinesType ==
  ASSUME NEW f \in Folded, NEW S, NEW event \in {"abandoned", "attended"}
  PROVE  MarkLines(f, event, S) \in Seq(Lines)
<1> DEFINE chosen == Chosen(HeldRecords(f), S)
<1>1. chosen \in Seq(Records \cap S)
  BY HeldRecordsType, ChosenType
<1>2. chosen \in Seq(Records)
  <2>1. Records \cap S \subseteq Records
    OBVIOUS
  <2> HIDE DEF chosen
  <2> QED BY <1>1, <2>1
<1> HIDE DEF chosen
<1>3. \A i \in 1..Len(chosen) :
        Line(event, [chosen[i] EXCEPT !.abandoned = (event = "abandoned")]) \in Lines
  <2> TAKE i \in 1..Len(chosen)
  <2>1. chosen[i] \in Records /\ (event = "abandoned") \in BOOLEAN
    BY <1>2
  <2>2. [chosen[i] EXCEPT !.abandoned = (event = "abandoned")] \in Records
    BY <2>1, AbandonedType, Zenon
  <2> QED BY <2>2, LineType DEF Events
<1> QED BY <1>2, <1>3 DEF MarkLines, chosen

\* The records a log queued.
QueuedIn(l) == {l[i].record.id : i \in {j \in 1..Len(l) : l[j].event \in {"queued", "none"}}}

LEMMA RecordForType ==
  ASSUME NEW f \in Folded, NEW l \in Seq(Lines), NEW id \in QueuedIn(l)
  PROVE  RecordFor(f, l, id) \in Records
<1> DEFINE held == {i \in 1..Len(HeldRecords(f)) : HeldRecords(f)[i].id = id}
           born == {i \in 1..Len(l) : l[i].record.id = id /\ l[i].event \in {"queued", "none"}}
<1>1. HeldRecords(f) \in Seq(Records)
  BY HeldRecordsType
<1>2. held # {} => HeldRecords(f)[First(held)] \in Records
  <2>1. held \subseteq Nat /\ held \subseteq 1..Len(HeldRecords(f))
    OBVIOUS
  <2> HIDE DEF held
  <2>2. held # {} => First(held) \in 1..Len(HeldRecords(f))
    BY <2>1, FirstIsMember
  <2> QED BY <1>1, <2>2
<1>3. born # {}
  BY DEF QueuedIn
<1>4. l[First(born)].record \in Records
  <2>1. born \subseteq Nat /\ born \subseteq 1..Len(l)
    OBVIOUS
  <2> HIDE DEF born
  <2>2. First(born) \in 1..Len(l)
    BY <1>3, <2>1, FirstIsMember
  <2>3. l[First(born)] \in Lines
    BY <2>2
  <2> QED BY <2>3 DEF Lines
<1> QED BY <1>2, <1>4 DEF RecordFor

----------------------------------------------------------------------------
(* What a fold holds, it holds once, and under an id it allocated. *)

HeldIds(f) ==
  {f.waiting[i].id : i \in 1..Len(f.waiting)} \cup (IF f.pending = NoRecord THEN {} ELSE {f.pending.id})

HeldOnce(f) ==
  /\ IdsDiffer(f.waiting)
  /\ f.pending # NoRecord => \A i \in 1..Len(f.waiting) : f.waiting[i].id # f.pending.id
  /\ \A id \in HeldIds(f) : id < f.next_id

\* g comes after f, and holds nothing f did not but the ids in new.
Succeeds(f, g, new) ==
  /\ HeldOnce(g)
  /\ HeldIds(g) \subseteq HeldIds(f) \cup new
  /\ f.next_id <= g.next_id

LEMMA HeldIdsType ==
  ASSUME NEW f \in Folded
  PROVE  HeldIds(f) \subseteq Nat
<1>1. \A r \in Records : r.id \in Nat
  BY FoldAssumption DEF Records
<1>2. \A i \in 1..Len(f.waiting) : f.waiting[i].id \in Nat
  <2>1. f.waiting \in Seq(Records)
    BY DEF Folded
  <2>2. \A i \in 1..Len(f.waiting) : f.waiting[i] \in Records
    BY <2>1
  <2> QED BY <1>1, <2>2
<1>3. f.pending # NoRecord => f.pending.id \in Nat
  BY <1>1 DEF Folded
<1> QED BY <1>2, <1>3 DEF HeldIds

\* A fold that allocates nothing, and holds some of what another holds, succeeds it.
LEMMA HoldsNoMore ==
  ASSUME NEW f \in Folded, HeldOnce(f), NEW g, g.next_id = f.next_id, IdsDiffer(g.waiting),
         \A i \in 1..Len(g.waiting) : g.waiting[i].id \in HeldIds(f),
         g.pending # NoRecord => /\ g.pending.id \in HeldIds(f)
                                 /\ \A i \in 1..Len(g.waiting) : g.waiting[i].id # g.pending.id
  PROVE  Succeeds(f, g, {})
<1>1. HeldIds(g) \subseteq HeldIds(f)
  BY DEF HeldIds
<1>2. \A id \in HeldIds(g) : id < g.next_id
  BY <1>1 DEF HeldOnce
<1>3. f.next_id <= g.next_id
  BY FoldAssumption DEF Folded
<1> QED BY <1>1, <1>2, <1>3 DEF Succeeds, HeldOnce

\* A record queued under an id not allocated yet is one more.
LEMMA QueuedOnce ==
  ASSUME NEW f \in Folded, HeldOnce(f), NEW r \in Records, r.id >= f.next_id
  PROVE  Succeeds(f, ApplyQueued(f, r), {r.id})
<1> DEFINE kept == Kept(f.waiting, r)
           g == ApplyQueued(f, r)
<1>0. f.waiting \in Seq(Records) /\ f.next_id \in Nat /\ r.id \in Nat
  BY FoldAssumption DEF Folded, Records
<1>1. /\ kept \in Seq(Records) /\ IdsDiffer(kept)
      /\ \A i \in 1..Len(kept) : \E j \in 1..Len(f.waiting) : kept[i] = f.waiting[j]
  <2> DEFINE others == {held \in Records : held.body.key # r.body.key}
  <2>1. CASE Supersedes /\ r.body.admits
    <3>1. kept = Chosen(f.waiting, others)
      BY <2>1 DEF Kept
    <3> HIDE DEF others, kept
    <3>2. kept \in Seq(Records \cap others)
      BY <1>0, <3>1, ChosenType
    <3>3. Records \cap others \subseteq Records
      OBVIOUS
    <3>4. IdsDiffer(f.waiting)
      BY DEF HeldOnce
    <3>5. /\ IdsDiffer(kept)
          /\ \A i \in 1..Len(kept) : \E j \in 1..Len(f.waiting) : kept[i] = f.waiting[j]
      BY <1>0, <3>1, <3>4, ChosenOnce
    <3> QED BY <3>2, <3>3, <3>5
  <2>2. CASE ~(Supersedes /\ r.body.admits)
    BY <1>0, <2>2 DEF Kept, HeldOnce
  <2> QED BY <2>1, <2>2
<1>2. CASE r.id = MaxId
  BY <1>0, <1>2 DEF ApplyQueued, Succeeds
<1>3. CASE r.id # MaxId
  <2>1. /\ g.waiting = Append(kept, r) /\ g.pending = f.pending
        /\ g.next_id = Larger(f.next_id, r.id + 1)
    <3> HIDE DEF kept
    <3> QED BY <1>3 DEF ApplyQueued, Folded, kept
  <2> HIDE DEF kept, g
  <2> DEFINE w == g.waiting
             n == Len(kept)
  <2>2. n \in Nat /\ Len(w) = n + 1 /\ w[n + 1] = r /\ \A i \in 1..n : w[i] = kept[i]
    BY <1>1, <2>1
  <2>3. g.next_id = r.id + 1
    BY <1>0, <2>1 DEF Larger
  <2>4. \A i \in 1..n : \E j \in 1..Len(f.waiting) : w[i] = f.waiting[j]
    BY <1>1, <2>2
  <2>5. \A id \in HeldIds(f) : id < r.id
    <3>1. HeldIds(f) \subseteq Nat
      BY HeldIdsType
    <3> QED BY <1>0, <3>1 DEF HeldOnce
  <2> HIDE DEF w, n
  <2>6. \A i \in 1..n : w[i].id \in HeldIds(f) /\ w[i].id # r.id
    <3> TAKE i \in 1..n
    <3>1. w[i].id \in HeldIds(f)
      BY <2>4 DEF HeldIds
    <3> QED BY <3>1, <2>5, <1>0
  <2>7. \A i \in 1..(n + 1) : i \in 1..n \/ (i = n + 1 /\ w[i] = r)
    BY <2>2
  <2>8. \A i, j \in 1..n : w[i].id = w[j].id => i = j
    BY <1>1, <2>2 DEF IdsDiffer, n
  <2>9. IdsDiffer(w)
    <3>1. \A i, j \in 1..(n + 1) : w[i].id = w[j].id => i = j
      BY <2>6, <2>7, <2>8
    <3> QED BY <2>2, <3>1 DEF IdsDiffer
  <2>10. HeldIds(g) \subseteq HeldIds(f) \cup {r.id}
    BY <2>1, <2>2, <2>6, <2>7, SMTT(30) DEF HeldIds, w
  <2>11. g.pending # NoRecord => \A i \in 1..Len(w) : w[i].id # g.pending.id
    <3> SUFFICES ASSUME f.pending # NoRecord, NEW i \in 1..Len(w) PROVE w[i].id # f.pending.id
      BY <2>1
    <3>1. f.pending.id \in HeldIds(f) /\ \A j \in 1..Len(f.waiting) : f.waiting[j].id # f.pending.id
      BY DEF HeldIds, HeldOnce
    <3>2. f.pending.id # r.id
      BY <3>1, <2>5, <1>0
    <3> QED BY <3>1, <3>2, <2>2, <2>4, <2>7
  <2>12. \A id \in HeldIds(g) : id < g.next_id
    <3>1. \A id \in HeldIds(f) : id \in Nat
      BY HeldIdsType
    <3> QED BY <1>0, <2>3, <2>5, <2>10, <3>1
  <2>13. f.next_id <= g.next_id
    BY <1>0, <2>3
  <2> QED BY <2>9, <2>10, <2>11, <2>12, <2>13 DEF Succeeds, HeldOnce, w, g
<1> QED BY <1>2, <1>3

\* A claim moves one record, and frees the slot it takes.
LEMMA ClaimedOnce ==
  ASSUME NEW f \in Folded, HeldOnce(f), NEW id
  PROVE  Succeeds(f, ApplyClaimed(f, id), {})
<1>0. /\ f.waiting \in Seq(Records) /\ f.next_id \in Nat /\ f.pending \in Records \cup {NoRecord}
      /\ IdsDiffer(f.waiting)
  BY DEF Folded, HeldOnce
<1>1. CASE Positions(f.waiting, id) = {}
  BY <1>0, <1>1 DEF ApplyClaimed, Succeeds
<1>2. CASE Positions(f.waiting, id) # {}
  <2> DEFINE at    == First(Positions(f.waiting, id))
             taken == f.waiting[at]
             rest  == RemoveAt(f.waiting, at)
             m     == Len(f.waiting)
             g     == ApplyClaimed(f, id)
  <2>1. at \in 1..m
    <3>1. Positions(f.waiting, id) \subseteq Nat /\ Positions(f.waiting, id) \subseteq 1..m
      BY <1>0 DEF Positions
    <3> QED BY <1>2, <3>1, FirstIsMember
  <2>2. g = IF TakesSlot(f, taken)
            THEN [f EXCEPT !.waiting = rest \o Displaced(f), !.pending = taken]
            ELSE [f EXCEPT !.waiting = rest]
    BY <1>2 DEF ApplyClaimed
  <2> HIDE DEF at
  <2>3. /\ rest \in Seq(Records) /\ Len(rest) = m - 1 /\ m \in Nat \ {0}
        /\ \A i \in 1..(m - 1) : rest[i] = IF i < at THEN f.waiting[i] ELSE f.waiting[i + 1]
    <3>1. f.waiting \in Seq(Records) /\ at \in 1..Len(f.waiting)
      BY <1>0, <2>1
    <3>2. /\ rest \in Seq(Records) /\ Len(rest) = Len(f.waiting) - 1
          /\ \A i \in 1..(Len(f.waiting) - 1) :
               rest[i] = IF i < at THEN f.waiting[i] ELSE f.waiting[i + 1]
      BY <3>1, RemoveAtPlaces
    <3>3. m \in Nat \ {0}
      BY <3>1
    <3> QED BY <3>2, <3>3
  <2> DEFINE from(i) == IF i < at THEN i ELSE i + 1
  <2>4. \A i \in 1..(m - 1) : from(i) \in 1..m /\ from(i) # at /\ rest[i] = f.waiting[from(i)]
    BY <2>1, <2>3
  <2>5. \A i, j \in 1..(m - 1) : from(i) = from(j) => i = j
    BY <2>1, <2>3
  <2> HIDE DEF rest, taken, m, g, from
  <2>i. \A i, j \in 1..m : f.waiting[i].id = f.waiting[j].id => i = j
    BY <1>0 DEF IdsDiffer, m
  <2>h. \A i \in 1..m : f.waiting[i].id \in HeldIds(f)
    BY DEF HeldIds, m
  <2>l. Len(rest) = m - 1
    BY <2>3
  <2>6. IdsDiffer(rest)
    BY <2>i, <2>l, <2>4, <2>5 DEF IdsDiffer
  <2>7. \A i \in 1..Len(rest) : rest[i].id # taken.id /\ rest[i].id \in HeldIds(f)
    BY <2>i, <2>h, <2>l, <2>1, <2>4 DEF taken
  <2>8. taken \in Records /\ taken.id \in HeldIds(f) /\ taken # NoRecord
    <3>1. taken \in Records
      BY <1>0, <2>1 DEF taken, m
    <3>2. taken.id \in HeldIds(f)
      BY <2>h, <2>1 DEF taken
    <3> QED BY <3>1, <3>2, FoldAssumption DEF Records
  <2>9. f.pending # NoRecord => /\ f.pending.id \in HeldIds(f) /\ f.pending.id # taken.id
                                /\ \A i \in 1..Len(rest) : rest[i].id # f.pending.id
    BY <2>1, <2>3, <2>4 DEF HeldOnce, HeldIds, m, taken
  <2>10. CASE ~TakesSlot(f, taken)
    <3>1. g.waiting = rest /\ g.pending = f.pending /\ g.next_id = f.next_id
      BY <2>2, <2>10 DEF Folded
    <3> QED BY <2>6, <2>7, <2>9, <3>1, HoldsNoMore DEF g
  <2>11. CASE TakesSlot(f, taken)
    <3> DEFINE w == rest \o Displaced(f)
    <3>1. g.waiting = w /\ g.pending = taken /\ g.next_id = f.next_id
      <4> HIDE DEF w
      <4> QED BY <2>2, <2>11 DEF Folded, w
    <3>2. CASE ~(f.pending # NoRecord /\ f.pending.abandoned)
      <4>1. w = rest
        BY <3>2, <2>3 DEF Displaced
      <4> HIDE DEF w
      <4> QED BY <2>6, <2>7, <2>8, <3>1, <4>1, HoldsNoMore DEF g
    <3>3. CASE f.pending # NoRecord /\ f.pending.abandoned
      <4> DEFINE k == Len(rest)
      <4>1. k \in Nat /\ Len(w) = k + 1 /\ w[k + 1] = f.pending /\ \A i \in 1..k : w[i] = rest[i]
        <5>1. Displaced(f) = <<f.pending>>
          BY <3>3 DEF Displaced
        <5> QED BY <2>3, <5>1
      <4> HIDE DEF w, k
      <4>2. \A i \in 1..(k + 1) : i \in 1..k \/ i = k + 1
        BY <4>1
      <4>3. \A i, j \in 1..k : w[i].id = w[j].id => i = j
        BY <2>6, <4>1 DEF IdsDiffer, k
      <4>4. \A i \in 1..k : w[i].id # f.pending.id /\ w[i].id # taken.id /\ w[i].id \in HeldIds(f)
        BY <2>7, <2>9, <3>3, <4>1 DEF k
      <4>5. IdsDiffer(w)
        BY <4>1, <4>2, <4>3, <4>4 DEF IdsDiffer
      <4>6. \A i \in 1..Len(w) : w[i].id # taken.id /\ w[i].id \in HeldIds(f)
        BY <2>9, <3>3, <4>1, <4>2, <4>4
      <4> QED BY <2>8, <3>1, <4>5, <4>6, HoldsNoMore DEF g
    <3> QED BY <3>2, <3>3
  <2> QED BY <2>10, <2>11 DEF g
<1> QED BY <1>1, <1>2

\* An answer takes the record it names out of the slot, so out of the fold.
LEMMA AnsweredOnce ==
  ASSUME NEW f \in Folded, HeldOnce(f), NEW id, Pends(f, id)
  PROVE  /\ Succeeds(f, ApplyAnswered(f, id), {})
         /\ id \notin HeldIds(ApplyAnswered(f, id))
         /\ id \in HeldIds(f)
<1> DEFINE g == ApplyAnswered(f, id)
<1>1. g.waiting = f.waiting /\ g.pending = NoRecord /\ g.next_id = f.next_id /\ f.next_id \in Nat
  BY FoldAssumption DEF ApplyAnswered, Folded
<1> HIDE DEF g
<1>2. f.pending # NoRecord /\ f.pending.id = id
  BY DEF Pends
<1> QED BY <1>1, <1>2 DEF Succeeds, HeldOnce, HeldIds, g

\* A mark changes no record's id.
LEMMA MarkedOnce ==
  ASSUME NEW f \in Folded, HeldOnce(f), NEW id, NEW abandoned \in BOOLEAN
  PROVE  Succeeds(f, ApplyMark(f, id, abandoned), {})
<1> DEFINE g == ApplyMark(f, id, abandoned)
<1>1. /\ f.waiting \in Seq(Records) /\ f.pending \in Records \cup {NoRecord} /\ f.next_id \in Nat
      /\ f.next_id <= f.next_id
  BY FoldAssumption DEF Folded
<1>2. /\ g.waiting = [i \in 1..Len(f.waiting) |-> Marked(f.waiting[i], id, abandoned)]
      /\ g.pending = Marked(f.pending, id, abandoned)
      /\ g.next_id = f.next_id
  BY DEF ApplyMark, Folded
<1>3. ASSUME NEW r \in Records \cup {NoRecord}
      PROVE  /\ Marked(r, id, abandoned) = NoRecord <=> r = NoRecord
             /\ r # NoRecord => Marked(r, id, abandoned).id = r.id
  BY FoldAssumption DEF Marked, Records
<1> HIDE DEF g
<1>4. Len(g.waiting) = Len(f.waiting)
  BY <1>1, <1>2
<1>5. \A i \in 1..Len(f.waiting) : g.waiting[i].id = f.waiting[i].id
  <2> TAKE i \in 1..Len(f.waiting)
  <2>1. f.waiting[i] \in Records
    BY <1>1
  <2>n. f.waiting[i] # NoRecord
    BY <2>1, FoldAssumption DEF Records
  <2>2. g.waiting[i] = Marked(f.waiting[i], id, abandoned)
    BY <1>2
  <2> QED BY <2>1, <2>n, <2>2, <1>3
<1>6. (g.pending = NoRecord <=> f.pending = NoRecord) /\ (f.pending # NoRecord => g.pending.id = f.pending.id)
  BY <1>1, <1>2, <1>3
<1>7. HeldIds(g) = HeldIds(f)
  BY <1>4, <1>5, <1>6 DEF HeldIds
<1>8. HeldOnce(g)
  BY <1>2, <1>4, <1>5, <1>6, <1>7 DEF HeldOnce, IdsDiffer
<1> QED BY <1>1, <1>2, <1>7, <1>8 DEF Succeeds, g

----------------------------------------------------------------------------
(* Where the records of a fold come from, and where they go. *)

WaitingIds(f) == {f.waiting[i].id : i \in 1..Len(f.waiting)}
HeldSet(f) ==
  {f.waiting[i] : i \in 1..Len(f.waiting)} \cup (IF f.pending = NoRecord THEN {} ELSE {f.pending})

LEMMA HeldSetType ==
  ASSUME NEW f \in Folded
  PROVE  /\ HeldSet(f) \subseteq Records
         /\ HeldIds(f) = {h.id : h \in HeldSet(f)}
         /\ WaitingIds(f) \subseteq HeldIds(f)
         /\ \A id : (\E k \in 1..Len(HeldRecords(f)) : HeldRecords(f)[k].id = id) <=> id \in HeldIds(f)
<1>0. f.waiting \in Seq(Records) /\ f.pending \in Records \cup {NoRecord}
  BY DEF Folded
<1>1. HeldSet(f) \subseteq Records
  BY <1>0 DEF HeldSet
<1>2. HeldIds(f) = {h.id : h \in HeldSet(f)} /\ WaitingIds(f) \subseteq HeldIds(f)
  BY DEF HeldSet, HeldIds, WaitingIds
<1>3. ASSUME NEW id
      PROVE  (\E k \in 1..Len(HeldRecords(f)) : HeldRecords(f)[k].id = id) <=> id \in HeldIds(f)
  <2> DEFINE n == Len(f.waiting)
             s == HeldRecords(f)
  <2>0. n \in Nat /\ \A i \in 1..n : f.waiting[i] \in Records
    BY <1>0
  <2>1. CASE f.pending = NoRecord
    <3>1. s = f.waiting
      BY <1>0, <2>1 DEF HeldRecords
    <3>2. HeldIds(f) = {f.waiting[i].id : i \in 1..n}
      BY <2>1 DEF HeldIds
    <3> HIDE DEF s
    <3> QED BY <3>1, <3>2 DEF s
  <2>2. CASE f.pending # NoRecord
    <3>1. Len(s) = n + 1 /\ s[n + 1] = f.pending /\ \A i \in 1..n : s[i] = f.waiting[i]
      <4>1. s = f.waiting \o <<f.pending>>
        BY <2>2 DEF HeldRecords
      <4> HIDE DEF s
      <4> QED BY <1>0, <4>1
    <3>2. HeldIds(f) = {f.waiting[i].id : i \in 1..n} \cup {f.pending.id}
      BY <2>2 DEF HeldIds
    <3>3. \A k \in 1..(n + 1) : k \in 1..n \/ k = n + 1
      BY <2>0
    <3>4. \A k \in 1..n : k \in 1..(n + 1)
      BY <2>0
    <3>5. n + 1 \in 1..(n + 1)
      BY <2>0
    <3> HIDE DEF s, n
    <3>6. ASSUME NEW k \in 1..(n + 1), s[k].id = id PROVE id \in HeldIds(f)
      BY <3>1, <3>2, <3>3, <3>6
    <3>7. ASSUME id \in HeldIds(f) PROVE \E k \in 1..(n + 1) : s[k].id = id
      BY <3>1, <3>2, <3>4, <3>5, <3>7
    <3> QED BY <3>1, <3>6, <3>7 DEF s
  <2> QED BY <2>1, <2>2
<1> QED BY <1>1, <1>2, <1>3

\* The records a fold lists are those it holds.
LEMMA HeldRecordsAre ==
  ASSUME NEW f \in Folded
  PROVE  /\ HeldRecords(f) \in Seq(HeldSet(f))
         /\ \A h \in HeldSet(f) : \E k \in 1..Len(HeldRecords(f)) : HeldRecords(f)[k] = h
<1> DEFINE w == f.waiting
           n == Len(w)
           H == HeldSet(f)
           s == HeldRecords(f)
<1>0. w \in Seq(Records) /\ n \in Nat /\ \A i \in 1..n : w[i] \in Records
  BY DEF Folded
<1>1. w \in Seq(H)
  <2>1. \A i \in 1..n : w[i] \in H
    BY DEF HeldSet
  <2> HIDE DEF H
  <2> QED BY <1>0, <2>1
<1>2. CASE f.pending = NoRecord
  <2>1. s = w
    BY <1>0, <1>2 DEF HeldRecords
  <2>2. \A h \in H : \E k \in 1..n : w[k] = h
    BY <1>2 DEF HeldSet
  <2> QED BY <1>1, <2>1, <2>2
<1>3. CASE f.pending # NoRecord
  <2>1. f.pending \in H /\ H = {w[i] : i \in 1..n} \cup {f.pending}
    BY <1>3 DEF HeldSet
  <2>2. s = w \o <<f.pending>>
    BY <1>3 DEF HeldRecords
  <2> HIDE DEF H, s
  <2>3. s \in Seq(H) /\ Len(s) = n + 1 /\ s[n + 1] = f.pending /\ \A i \in 1..n : s[i] = w[i]
    BY <1>0, <1>1, <2>1, <2>2
  <2>4. \A i \in 1..n : i \in 1..(n + 1)
    BY <1>0
  <2>5. n + 1 \in 1..(n + 1)
    BY <1>0
  <2> HIDE DEF w, n
  <2>6. \A h \in H : \E k \in 1..Len(s) : s[k] = h
    BY <2>1, <2>3, <2>4, <2>5
  <2> QED BY <2>3, <2>6 DEF H, s
<1> QED BY <1>2, <1>3

WaitSet(f) == {f.waiting[i] : i \in 1..Len(f.waiting)}
SlotSet(f) == IF f.pending = NoRecord THEN {} ELSE {f.pending}

\* What a record that takes the slot pushes out of it, to wait again.
PushedOut(f) == IF f.pending # NoRecord /\ f.pending.abandoned THEN {f.pending} ELSE {}

LEMMA WaitSetIs ==
  ASSUME NEW f
  PROVE  /\ HeldSet(f) = WaitSet(f) \cup SlotSet(f)
         /\ WaitingIds(f) = {h.id : h \in WaitSet(f)}
         /\ HeldIds(f) = {h.id : h \in WaitSet(f) \cup SlotSet(f)}
         /\ f \in Folded => WaitSet(f) \subseteq Records /\ NoRecord \notin WaitSet(f)
<1>1. HeldSet(f) = WaitSet(f) \cup SlotSet(f) /\ WaitingIds(f) = {h.id : h \in WaitSet(f)}
  BY DEF HeldSet, WaitSet, SlotSet, WaitingIds
<1>2. HeldIds(f) = {h.id : h \in WaitSet(f) \cup SlotSet(f)}
  BY DEF HeldIds, WaitSet, SlotSet
<1>3. f \in Folded => WaitSet(f) \subseteq Records
  BY DEF Folded, WaitSet
<1>4. NoRecord \notin Records
  BY FoldAssumption DEF Records
<1> QED BY <1>1, <1>2, <1>3, <1>4

\* What a record queued leaves waiting: itself, and what it does not supersede.
LEMMA QueuedHolds ==
  ASSUME NEW f \in Folded, NEW r \in Records, r.id # MaxId
  PROVE  LET g == ApplyQueued(f, r)
         IN  /\ r \in WaitSet(g) /\ WaitSet(g) \subseteq WaitSet(f) \cup {r}
             /\ \A h \in WaitSet(f) :
                  h \in WaitSet(g) \/ (Supersedes /\ r.body.admits /\ h.body.key = r.body.key)
             /\ g.pending = f.pending /\ g.next_id = Larger(f.next_id, r.id + 1)
<1> DEFINE kept == Kept(f.waiting, r)
           g == ApplyQueued(f, r)
           others == {held \in Records : held.body.key # r.body.key}
<1>0. f.waiting \in Seq(Records)
  BY DEF Folded
<1>1. /\ kept \in Seq(Records)
      /\ \A i \in 1..Len(kept) : \E j \in 1..Len(f.waiting) : kept[i] = f.waiting[j]
      /\ \A j \in 1..Len(f.waiting) :
           \/ \E i \in 1..Len(kept) : kept[i] = f.waiting[j]
           \/ Supersedes /\ r.body.admits /\ f.waiting[j].body.key = r.body.key
  <2>1. CASE Supersedes /\ r.body.admits
    <3>1. kept = Chosen(f.waiting, others)
      BY <2>1 DEF Kept
    <3>2. \A j \in 1..Len(f.waiting) : f.waiting[j] \in others \/ f.waiting[j].body.key = r.body.key
      BY <1>0
    <3>3. Records \cap others \subseteq Records
      OBVIOUS
    <3> HIDE DEF kept, others
    <3>4. kept \in Seq(Records \cap others)
      BY <1>0, <3>1, ChosenType
    <3>5. /\ \A i \in 1..Len(kept) : \E j \in 1..Len(f.waiting) : kept[i] = f.waiting[j]
          /\ \A j \in 1..Len(f.waiting) : f.waiting[j] \in others => \E i \in 1..Len(kept) : kept[i] = f.waiting[j]
      BY <1>0, <3>1, ChosenHas
    <3>6. kept \in Seq(Records)
      BY <3>3, <3>4
    <3> QED BY <2>1, <3>2, <3>5, <3>6
  <2>2. CASE ~(Supersedes /\ r.body.admits)
    <3>1. kept = f.waiting
      BY <2>2 DEF Kept
    <3> HIDE DEF kept
    <3> QED BY <1>0, <3>1
  <2> QED BY <2>1, <2>2
<1>2. /\ g.waiting = Append(kept, r) /\ g.pending = f.pending
      /\ g.next_id = Larger(f.next_id, r.id + 1)
  <2> HIDE DEF kept
  <2> QED BY DEF ApplyQueued, Folded, kept
<1> HIDE DEF kept, g
<1> DEFINE n == Len(kept)
           w == g.waiting
<1>3. n \in Nat /\ Len(w) = n + 1 /\ w[n + 1] = r /\ \A i \in 1..n : w[i] = kept[i]
  BY <1>1, <1>2
<1>4. /\ \A i \in 1..(n + 1) : i \in 1..n \/ i = n + 1
      /\ \A i \in 1..n : i \in 1..(n + 1)
      /\ n + 1 \in 1..(n + 1)
  BY <1>3
<1> HIDE DEF n, w
<1>5. /\ \A i \in 1..Len(w) : w[i] = r \/ \E j \in 1..Len(f.waiting) : w[i] = f.waiting[j]
      /\ \A j \in 1..Len(f.waiting) :
           \/ \E i \in 1..Len(w) : w[i] = f.waiting[j]
           \/ Supersedes /\ r.body.admits /\ f.waiting[j].body.key = r.body.key
      /\ \E i \in 1..Len(w) : w[i] = r
  <2>1. \A i \in 1..(n + 1) : w[i] = r \/ \E j \in 1..Len(f.waiting) : w[i] = f.waiting[j]
    BY <1>1, <1>3, <1>4 DEF n
  <2>2. \A j \in 1..Len(f.waiting) :
          \/ \E i \in 1..(n + 1) : w[i] = f.waiting[j]
          \/ Supersedes /\ r.body.admits /\ f.waiting[j].body.key = r.body.key
    BY <1>1, <1>3, <1>4 DEF n
  <2>3. \E i \in 1..(n + 1) : w[i] = r
    BY <1>3, <1>4
  <2> QED BY <1>3, <2>1, <2>2, <2>3
<1>6. WaitSet(g) = {w[i] : i \in 1..Len(w)}
  BY DEF WaitSet, w
<1>7. r \in WaitSet(g) /\ WaitSet(g) \subseteq WaitSet(f) \cup {r}
      /\ \A h \in WaitSet(f) : h \in WaitSet(g) \/ (Supersedes /\ r.body.admits /\ h.body.key = r.body.key)
  <2>1. WaitSet(f) = {f.waiting[j] : j \in 1..Len(f.waiting)}
    BY DEF WaitSet
  <2>2. \A h \in WaitSet(f) : h \in WaitSet(g) \/ (Supersedes /\ r.body.admits /\ h.body.key = r.body.key)
    <3> TAKE h \in WaitSet(f)
    <3>1. PICK j \in 1..Len(f.waiting) : h = f.waiting[j]
      BY <2>1
    <3>2. \/ \E i \in 1..Len(w) : w[i] = h
          \/ Supersedes /\ r.body.admits /\ h.body.key = r.body.key
      BY <1>5, <3>1
    <3> QED BY <1>6, <3>2
  <2> QED BY <1>5, <1>6, <2>1, <2>2
<1> QED BY <1>2, <1>7 DEF g

\* What a claim of a waiting record leaves: the others, and an abandoned record it
\* pushes out of the slot.
LEMMA ClaimedHolds ==
  ASSUME NEW f \in Folded, NEW id, IdsDiffer(f.waiting), Positions(f.waiting, id) # {}
  PROVE  \E taken \in WaitSet(f) :
           /\ taken.id = id /\ \A h \in WaitSet(f) : h.id = id => h = taken
           /\ LET g == ApplyClaimed(f, id)
              IN  /\ g.next_id = f.next_id
                  /\ TakesSlot(f, taken) =>
                       g.pending = taken /\ WaitSet(g) = (WaitSet(f) \ {taken}) \cup PushedOut(f)
                  /\ ~TakesSlot(f, taken) =>
                       g.pending = f.pending /\ WaitSet(g) = WaitSet(f) \ {taken}
<1>0. f.waiting \in Seq(Records) /\ f.pending \in Records \cup {NoRecord}
  BY DEF Folded
<1> DEFINE at    == First(Positions(f.waiting, id))
           taken == f.waiting[at]
           rest  == RemoveAt(f.waiting, at)
           m     == Len(f.waiting)
           g     == ApplyClaimed(f, id)
<1>1. at \in 1..m /\ taken.id = id
  <2>1. Positions(f.waiting, id) \subseteq Nat
    BY <1>0 DEF Positions
  <2>2. at \in Positions(f.waiting, id)
    BY <2>1, FirstIsMember
  <2> QED BY <2>2 DEF Positions
<1>2. g = IF TakesSlot(f, taken)
          THEN [f EXCEPT !.waiting = rest \o Displaced(f), !.pending = taken]
          ELSE [f EXCEPT !.waiting = rest]
  BY DEF ApplyClaimed
<1> HIDE DEF at
<1>3. /\ rest \in Seq(Records) /\ Len(rest) = m - 1 /\ m \in Nat \ {0}
      /\ \A i \in 1..(m - 1) : rest[i] = IF i < at THEN f.waiting[i] ELSE f.waiting[i + 1]
  <2>1. f.waiting \in Seq(Records) /\ at \in 1..Len(f.waiting)
    BY <1>0, <1>1
  <2>2. /\ rest \in Seq(Records) /\ Len(rest) = Len(f.waiting) - 1
        /\ \A i \in 1..(Len(f.waiting) - 1) :
             rest[i] = IF i < at THEN f.waiting[i] ELSE f.waiting[i + 1]
    BY <2>1, RemoveAtPlaces
  <2>3. m \in Nat \ {0}
    BY <2>1
  <2> QED BY <2>2, <2>3
<1>4. \A i \in 1..(m - 1) : \E j \in 1..m : j # at /\ rest[i] = f.waiting[j]
  <2> TAKE i \in 1..(m - 1)
  <2>1. CASE i < at
    <3>1. i \in 1..m /\ i # at /\ rest[i] = f.waiting[i]
      BY <1>1, <1>3, <2>1
    <3> QED BY <3>1
  <2>2. CASE ~(i < at)
    <3>1. i + 1 \in 1..m /\ i + 1 # at /\ rest[i] = f.waiting[i + 1]
      BY <1>1, <1>3, <2>2
    <3> QED BY <3>1
  <2> QED BY <2>1, <2>2
<1>5. \A j \in 1..m : j # at => \E i \in 1..(m - 1) : rest[i] = f.waiting[j]
  <2> TAKE j \in 1..m
  <2>1. CASE j < at
    BY <1>1, <1>3, <2>1
  <2>2. CASE j > at
    <3>1. j - 1 \in 1..(m - 1) /\ rest[j - 1] = f.waiting[j]
      BY <1>1, <1>3, <2>2
    <3> QED BY <3>1
  <2>3. CASE j = at
    BY <2>3
  <2>4. j < at \/ j > at \/ j = at
    BY <1>1
  <2> QED BY <2>1, <2>2, <2>3, <2>4
<1>i. \A j \in 1..m : f.waiting[j].id = id => j = at
  BY <1>1 DEF IdsDiffer
<1> DEFINE W == {f.waiting[i] : i \in 1..m}
           R == {rest[i] : i \in 1..(m - 1)}
<1>6. /\ R = W \ {taken} /\ taken \in W /\ taken.id = id
      /\ \A h \in W : h.id = id => h = taken
  <2>1. R \subseteq W /\ taken \notin R
    <3>1. R \subseteq W
      BY <1>4
    <3>2. ASSUME NEW i \in 1..(m - 1), rest[i] = taken PROVE FALSE
      <4>1. PICK j \in 1..m : j # at /\ rest[i] = f.waiting[j]
        BY <1>4
      <4>2. f.waiting[j].id = id
        BY <1>1, <3>2, <4>1
      <4> QED BY <1>i, <4>1, <4>2
    <3> HIDE DEF taken
    <3> QED BY <3>1, <3>2
  <2>2. \A h \in W : h \in R \/ h = taken
    BY <1>1, <1>5
  <2>3. taken \in W /\ taken.id = id
    BY <1>1
  <2>4. \A h \in W : h.id = id => h = taken
    BY <1>i
  <2> HIDE DEF W, R
  <2> QED BY <2>1, <2>2, <2>3, <2>4
<1>7. CASE ~TakesSlot(f, taken)
  <2>1. g.waiting = rest /\ g.pending = f.pending /\ g.next_id = f.next_id
    BY <1>2, <1>7 DEF Folded
  <2> HIDE DEF rest, taken, g
  <2>2. WaitSet(g) = R /\ WaitSet(f) = W
    BY <1>3, <2>1 DEF WaitSet
  <2> HIDE DEF W, R, m
  <2> QED BY <1>6, <1>7, <2>1, <2>2 DEF g
<1>8. CASE TakesSlot(f, taken)
  <2> DEFINE w == rest \o Displaced(f)
             D == PushedOut(f)
  <2>1. g.waiting = w /\ g.pending = taken /\ g.next_id = f.next_id
    <3> HIDE DEF w
    <3> QED BY <1>2, <1>8 DEF Folded, w
  <2>2. {w[i] : i \in 1..Len(w)} = R \cup D
    <3>1. CASE ~(f.pending # NoRecord /\ f.pending.abandoned)
      <4>1. w = rest
        BY <3>1, <1>3 DEF Displaced, PushedOut
      <4> HIDE DEF w
      <4> QED BY <3>1, <4>1, <1>3 DEF PushedOut
    <3>2. CASE f.pending # NoRecord /\ f.pending.abandoned
      <4> DEFINE k == Len(rest)
      <4>1. k \in Nat /\ Len(w) = k + 1 /\ w[k + 1] = f.pending /\ \A i \in 1..k : w[i] = rest[i]
        <5>1. Displaced(f) = <<f.pending>>
          BY <3>2 DEF Displaced, PushedOut
        <5>2. rest \in Seq(Records)
          BY <1>3
        <5> HIDE DEF rest, m
        <5> QED BY <5>1, <5>2
      <4>2. k = m - 1
        BY <1>3
      <4> HIDE DEF w, k, rest, m
      <4>3. /\ \A i \in 1..(k + 1) : i \in 1..k \/ i = k + 1
            /\ \A i \in 1..k : i \in 1..(k + 1)
            /\ k + 1 \in 1..(k + 1)
        BY <4>1
      <4> QED BY <3>2, <4>1, <4>2, <4>3 DEF PushedOut
    <3> QED BY <3>1, <3>2
  <2> HIDE DEF w, rest, taken, g, m
  <2>3. WaitSet(g) = R \cup D /\ WaitSet(f) = W
    BY <2>1, <2>2 DEF WaitSet, m
  <2> HIDE DEF W, R, D
  <2> QED BY <1>6, <1>8, <2>1, <2>3 DEF g, D
<1> QED BY <1>7, <1>8

\* What a mark leaves: the same records, with the mark on the one it names.
LEMMA MarkedHolds ==
  ASSUME NEW f \in Folded, NEW id, NEW b
  PROVE  LET g == ApplyMark(f, id, b)
         IN  /\ WaitSet(g) = {Marked(h, id, b) : h \in WaitSet(f)}
             /\ g.pending = Marked(f.pending, id, b) /\ g.next_id = f.next_id
<1> DEFINE g == ApplyMark(f, id, b)
           n == Len(f.waiting)
<1>1. /\ g.waiting = [i \in 1..n |-> Marked(f.waiting[i], id, b)]
      /\ g.pending = Marked(f.pending, id, b) /\ g.next_id = f.next_id
  BY DEF ApplyMark, Folded
<1>2. n \in Nat
  BY DEF Folded
<1> HIDE DEF g
<1>3. Len(g.waiting) = n /\ \A i \in 1..n : g.waiting[i] = Marked(f.waiting[i], id, b)
  BY <1>1, <1>2
<1>4. WaitSet(g) = {Marked(h, id, b) : h \in WaitSet(f)}
  BY <1>3 DEF WaitSet
<1> QED BY <1>1, <1>4 DEF g

\* A line about the record r, of event e, takes f to g.
StepsTo(f, e, r, g) ==
  /\ \A h \in HeldSet(g) :
       \/ e = "queued" /\ h = r
       \/ \E k \in HeldSet(f) : /\ k.id = h.id /\ k.body = h.body
                                /\ h.abandoned => k.abandoned \/ (e = "abandoned" /\ h.id = r.id)
  /\ \A id \in WaitingIds(g) :
       \/ id \in WaitingIds(f) /\ ~(e = "claimed" /\ id = r.id)
       \/ e = "queued" /\ id = r.id
       \/ e = "claimed" /\ f.pending # NoRecord /\ f.pending.abandoned /\ id = f.pending.id
  /\ g.pending # NoRecord =>
       \/ f.pending # NoRecord /\ f.pending.id = g.pending.id
       \/ e = "claimed" /\ g.pending.id = r.id /\ r.id \in WaitingIds(f)
  /\ \A h \in HeldSet(f) :
       \/ h.id \in HeldIds(g)
       \/ e = "queued" /\ Supersedes /\ r.body.admits /\ h.body.key = r.body.key
       \/ e = "claimed" /\ (h.id = r.id \/ h = f.pending)
       \/ e = "answered" /\ h = f.pending
  /\ IF e = "queued" /\ r.id # MaxId
     THEN g.next_id = Larger(f.next_id, r.id + 1) /\ r.id \in HeldIds(g)
     ELSE g.next_id = f.next_id

LEMMA StepsNowhere ==
  ASSUME NEW f \in Folded, NEW e, NEW r \in Records,
         e = "queued" => r.id = MaxId,
         e = "claimed" => r.id \notin WaitingIds(f)
  PROVE  StepsTo(f, e, r, f)
<1>1. \A h \in HeldSet(f) : h.id \in HeldIds(f)
  BY HeldSetType
<1> QED BY <1>1 DEF StepsTo

LEMMA QueuedSteps ==
  ASSUME NEW f \in Folded, NEW r \in Records
  PROVE  StepsTo(f, "queued", r, ApplyQueued(f, r))
<1> DEFINE g == ApplyQueued(f, r)
<1>1. CASE r.id = MaxId
  <2>1. g = f
    BY <1>1 DEF ApplyQueued
  <2> HIDE DEF g
  <2> QED BY <1>1, <2>1, StepsNowhere DEF g
<1>2. CASE r.id # MaxId
  <2>1. /\ r \in WaitSet(g) /\ WaitSet(g) \subseteq WaitSet(f) \cup {r}
        /\ \A h \in WaitSet(f) :
             h \in WaitSet(g) \/ (Supersedes /\ r.body.admits /\ h.body.key = r.body.key)
        /\ g.pending = f.pending /\ g.next_id = Larger(f.next_id, r.id + 1)
    BY <1>2, QueuedHolds
  <2> HIDE DEF g
  <2>2. HeldSet(g) = WaitSet(g) \cup SlotSet(f) /\ HeldSet(f) = WaitSet(f) \cup SlotSet(f)
        /\ HeldIds(g) = {h.id : h \in WaitSet(g) \cup SlotSet(f)}
    BY <2>1, WaitSetIs DEF SlotSet
  <2>3. WaitingIds(g) = {h.id : h \in WaitSet(g)} /\ WaitingIds(f) = {h.id : h \in WaitSet(f)}
    BY WaitSetIs
  <2> QED BY <1>2, <2>1, <2>2, <2>3 DEF StepsTo, g
<1> QED BY <1>1, <1>2

LEMMA ClaimedSteps ==
  ASSUME NEW f \in Folded, NEW r \in Records, IdsDiffer(f.waiting)
  PROVE  StepsTo(f, "claimed", r, ApplyClaimed(f, r.id))
<1>1. CASE Positions(f.waiting, r.id) = {}
  <2>1. r.id \notin WaitingIds(f)
    BY <1>1 DEF Positions, WaitingIds
  <2>2. ApplyClaimed(f, r.id) = f
    BY <1>1 DEF ApplyClaimed
  <2> QED BY <2>1, <2>2, StepsNowhere
<1>2. CASE Positions(f.waiting, r.id) # {}
  <2> DEFINE g == ApplyClaimed(f, r.id)
             W == WaitSet(f)
             P == SlotSet(f)
  <2>1. PICK taken \in W :
          /\ taken.id = r.id /\ \A h \in W : h.id = r.id => h = taken
          /\ g.next_id = f.next_id
          /\ TakesSlot(f, taken) => g.pending = taken /\ WaitSet(g) = (W \ {taken}) \cup PushedOut(f)
          /\ ~TakesSlot(f, taken) => g.pending = f.pending /\ WaitSet(g) = W \ {taken}
    BY <1>2, ClaimedHolds
  <2> HIDE DEF g
  <2>2. /\ HeldSet(f) = W \cup P /\ WaitingIds(f) = {h.id : h \in W}
        /\ HeldSet(g) = WaitSet(g) \cup SlotSet(g) /\ WaitingIds(g) = {h.id : h \in WaitSet(g)}
        /\ HeldIds(g) = {h.id : h \in WaitSet(g) \cup SlotSet(g)}
        /\ NoRecord \notin W
    BY WaitSetIs
  <2> HIDE DEF W
  <2>3. CASE ~TakesSlot(f, taken)
    <3>1. SlotSet(g) = P
      BY <2>1, <2>3 DEF SlotSet
    <3> QED BY <1>2, <2>1, <2>2, <2>3, <3>1 DEF StepsTo, g, SlotSet
  <2>4. CASE TakesSlot(f, taken)
    <3>1. SlotSet(g) = {taken} /\ taken # NoRecord
      BY <2>1, <2>2, <2>4 DEF SlotSet
    <3> QED BY <1>2, <2>1, <2>2, <2>4, <3>1 DEF StepsTo, g, SlotSet, PushedOut
  <2> QED BY <2>3, <2>4
<1> QED BY <1>1, <1>2

LEMMA AnsweredSteps ==
  ASSUME NEW f \in Folded, NEW r \in Records
  PROVE  StepsTo(f, "answered", r, ApplyAnswered(f, r.id))
<1> DEFINE g == ApplyAnswered(f, r.id)
<1>1. CASE ~Pends(f, r.id)
  BY <1>1, StepsNowhere DEF ApplyAnswered
<1>2. CASE Pends(f, r.id)
  <2>1. g.waiting = f.waiting /\ g.pending = NoRecord /\ g.next_id = f.next_id
    BY <1>2 DEF ApplyAnswered, Folded
  <2> HIDE DEF g
  <2>2. HeldSet(g) = {f.waiting[i] : i \in 1..Len(f.waiting)} /\ HeldIds(g) = WaitingIds(f)
        /\ WaitingIds(g) = WaitingIds(f)
    BY <2>1 DEF HeldSet, HeldIds, WaitingIds
  <2>3. \A h \in HeldSet(f) : h.id \in WaitingIds(f) \/ h = f.pending
    BY DEF HeldSet, WaitingIds
  <2>4. HeldSet(g) \subseteq HeldSet(f)
    BY <2>2 DEF HeldSet
  <2> QED BY <2>1, <2>2, <2>3, <2>4 DEF StepsTo, g
<1> QED BY <1>1, <1>2

LEMMA MarkedSteps ==
  ASSUME NEW f \in Folded, NEW r \in Records, NEW e \in {"abandoned", "attended"}
  PROVE  StepsTo(f, e, r, ApplyMark(f, r.id, e = "abandoned"))
<1> DEFINE b == e = "abandoned"
           g == ApplyMark(f, r.id, b)
<1>1. /\ f.waiting \in Seq(Records) /\ f.pending \in Records \cup {NoRecord} /\ b \in BOOLEAN
  BY DEF Folded
<1>2. /\ g.waiting = [i \in 1..Len(f.waiting) |-> Marked(f.waiting[i], r.id, b)]
      /\ g.pending = Marked(f.pending, r.id, b)
      /\ g.next_id = f.next_id
  BY DEF ApplyMark, Folded
<1>3. ASSUME NEW k \in Records
      PROVE  LET h == Marked(k, r.id, b)
             IN  /\ h # NoRecord /\ h.id = k.id /\ h.body = k.body
                 /\ h.abandoned => k.abandoned \/ (e = "abandoned" /\ h.id = r.id)
  <2>1. k # NoRecord
    BY FoldAssumption DEF Records
  <2>2. Marked(k, r.id, b) \in Records
    BY <1>1, MarkedType
  <2>3. Marked(k, r.id, b) # NoRecord
    BY <2>2, FoldAssumption DEF Records
  <2> QED BY <2>1, <2>3 DEF Marked, Records
<1>4. Marked(NoRecord, r.id, b) = NoRecord
  BY DEF Marked
<1> HIDE DEF g, b
<1>5. Len(g.waiting) = Len(f.waiting) /\ \A i \in 1..Len(f.waiting) : g.waiting[i] = Marked(f.waiting[i], r.id, b)
  BY <1>1, <1>2
<1>6. \A i \in 1..Len(f.waiting) : f.waiting[i] \in Records
  BY <1>1
<1>7. \A h \in HeldSet(g) : \E k \in HeldSet(f) :
        /\ k.id = h.id /\ k.body = h.body
        /\ h.abandoned => k.abandoned \/ (e = "abandoned" /\ h.id = r.id)
  <2> TAKE h \in HeldSet(g)
  <2>1. CASE \E i \in 1..Len(g.waiting) : h = g.waiting[i]
    <3>1. PICK i \in 1..Len(f.waiting) : h = Marked(f.waiting[i], r.id, b)
      BY <1>5, <2>1
    <3>2. f.waiting[i] \in HeldSet(f) /\ f.waiting[i] \in Records
      BY <1>6 DEF HeldSet
    <3> QED BY <1>3, <3>1, <3>2
  <2>2. CASE g.pending # NoRecord /\ h = g.pending
    <3>1. f.pending # NoRecord /\ f.pending \in Records /\ h = Marked(f.pending, r.id, b)
      BY <1>1, <1>2, <1>4, <2>2
    <3>2. f.pending \in HeldSet(f)
      BY <3>1 DEF HeldSet
    <3> QED BY <1>3, <3>1, <3>2
  <2> QED BY <2>1, <2>2 DEF HeldSet
<1>8. \A i \in 1..Len(f.waiting) : g.waiting[i].id = f.waiting[i].id
  BY <1>3, <1>5, <1>6
<1>9. WaitingIds(g) = WaitingIds(f)
  BY <1>5, <1>8 DEF WaitingIds
<1>10. /\ g.pending # NoRecord => f.pending # NoRecord
       /\ f.pending # NoRecord => g.pending # NoRecord /\ g.pending.id = f.pending.id
  BY <1>1, <1>2, <1>3, <1>4
<1>11. HeldIds(g) = HeldIds(f)
  BY <1>5, <1>8, <1>10 DEF HeldIds
<1>12. \A h \in HeldSet(f) : h.id \in HeldIds(f)
  BY HeldSetType
<1> QED BY <1>2, <1>7, <1>9, <1>10, <1>11, <1>12 DEF StepsTo, g, b

\* Each line takes the fold a step of its event.
LEMMA ApplySteps ==
  ASSUME NEW f \in Folded, NEW x \in Lines, IdsDiffer(f.waiting)
  PROVE  StepsTo(f, EventOf(f, x), x.record, Apply(f, x))
<1> DEFINE e == EventOf(f, x)
<1>1. x.record \in Records /\ e \in Events \cup {"unreadable"}
  BY DEF EventOf, Lines, Events
<1>2. CASE e = "queued"
  BY <1>1, <1>2, QueuedSteps DEF Apply
<1>3. CASE e = "claimed"
  BY <1>1, <1>3, ClaimedSteps DEF Apply
<1>4. CASE e = "answered"
  BY <1>1, <1>4, AnsweredSteps DEF Apply
<1>5. CASE e = "abandoned"
  <2>1. Apply(f, x) = ApplyMark(f, x.record.id, TRUE) /\ (e = "abandoned") = TRUE
    BY <1>5 DEF Apply
  <2>2. StepsTo(f, e, x.record, ApplyMark(f, x.record.id, e = "abandoned"))
    <3> HIDE DEF e
    <3> QED BY <1>1, <1>5, MarkedSteps
  <2> QED BY <2>1, <2>2, Zenon
<1>6. CASE e = "attended"
  <2>1. Apply(f, x) = ApplyMark(f, x.record.id, FALSE) /\ (e = "abandoned") = FALSE
    BY <1>6 DEF Apply
  <2>2. StepsTo(f, e, x.record, ApplyMark(f, x.record.id, e = "abandoned"))
    <3> HIDE DEF e
    <3> QED BY <1>1, <1>6, MarkedSteps
  <2> QED BY <2>1, <2>2, Zenon
<1>7. CASE e = "unreadable"
  <2>1. Apply(f, x) = f
    BY <1>7 DEF Apply
  <2> QED BY <1>1, <1>7, <2>1, StepsNowhere
<1> QED BY <1>1, <1>2, <1>3, <1>4, <1>5, <1>6, <1>7 DEF Events

\* A line keeps the ids of a fold apart, when what it queues is new.
LEMMA ApplyOnce ==
  ASSUME NEW f \in Folded, HeldOnce(f), NEW x \in Lines,
         EventOf(f, x) = "queued" => x.record.id >= f.next_id
  PROVE  HeldOnce(Apply(f, x))
<1> DEFINE e == EventOf(f, x)
           r == x.record
<1>1. r \in Records /\ e \in Events \cup {"unreadable"}
  BY DEF EventOf, Lines, Events
<1>2. CASE e = "queued"
  <2>1. Apply(f, x) = ApplyQueued(f, r)
    BY <1>2 DEF Apply
  <2> QED BY <1>1, <1>2, <2>1, QueuedOnce DEF Succeeds
<1>3. CASE e = "claimed"
  <2>1. Apply(f, x) = ApplyClaimed(f, r.id)
    BY <1>3 DEF Apply
  <2> QED BY <2>1, ClaimedOnce DEF Succeeds
<1>4. CASE e = "answered"
  <2>1. Apply(f, x) = ApplyAnswered(f, r.id)
    BY <1>4 DEF Apply
  <2>2. CASE Pends(f, r.id)
    BY <2>1, <2>2, AnsweredOnce DEF Succeeds
  <2>3. CASE ~Pends(f, r.id)
    BY <2>1, <2>3 DEF ApplyAnswered
  <2> QED BY <2>2, <2>3
<1>5. CASE e \in {"abandoned", "attended"}
  <2>1. \E b \in BOOLEAN : Apply(f, x) = ApplyMark(f, r.id, b)
    BY <1>5 DEF Apply
  <2>2. \A b \in BOOLEAN : Succeeds(f, ApplyMark(f, r.id, b), {})
    BY MarkedOnce
  <2> QED BY <2>1, <2>2 DEF Succeeds
<1>6. CASE e = "unreadable"
  BY <1>6 DEF Apply
<1> QED BY <1>1, <1>2, <1>3, <1>4, <1>5, <1>6 DEF Events
=============================================================================
