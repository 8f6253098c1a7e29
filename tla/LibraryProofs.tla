--------------------------- MODULE LibraryProofs ---------------------------
(***************************************************************************)
(* Facts about naturals and sequences that the proofs of several           *)
(* components rest on.                                                     *)
(***************************************************************************)
EXTENDS SequencesExt, FiniteSetTheorems, SequenceTheorems, WellFoundedInduction, TLAPS

----------------------------------------------------------------------------
(* Induction over the natural numbers, for a set rather than an operator.  *)

NatLess == {ss \in Nat \X Nat : ss[1] < ss[2]}

\* A set of naturals that is not empty has a least member.
LEMMA LeastNat ==
  ASSUME NEW T, T \subseteq Nat, T # {}
  PROVE  \E m \in T : \A k \in T : m <= k
<1>1. IsWellFoundedOn(NatLess, Nat)
  BY NatLessThanWellFounded, Zenon DEF OpToRel, NatLess
<1>2. PICK x \in T : \A y \in T : ~ (<<y, x>> \in NatLess)
  BY <1>1, WFMin, Zenon
<1>3. ASSUME NEW y \in T PROVE x <= y
  <2>1. <<y, x>> \in Nat \X Nat /\ <<y, x>>[1] = y /\ <<y, x>>[2] = x
    OBVIOUS
  <2>2. ~(<<y, x>> \in NatLess)
    BY <1>2
  <2>3. ~(y < x)
    BY <2>1, <2>2, Zenon DEF NatLess
  <2> QED BY <2>3
<1> QED BY <1>3

LEMMA MinIsMember ==
  ASSUME NEW T, T \subseteq Nat, T # {}
  PROVE  Min(T) \in T
BY LeastNat DEF Min

\* A set that holds the first number of an interval, and the successor of each
\* but the last, holds the interval.
LEMMA Induct ==
  ASSUME NEW from \in Nat, NEW m \in Nat, NEW T,
         from \in T,
         \A n \in from..(m - 1) : n \in T => n + 1 \in T
  PROVE  \A n \in from..m : n \in T
<1> SUFFICES ASSUME (from..m) \ T # {} PROVE FALSE
  OBVIOUS
<1>0. (from..m) \ T \subseteq Nat
  OBVIOUS
<1>1. PICK k \in (from..m) \ T : \A j \in (from..m) \ T : k <= j
  BY <1>0, LeastNat
<1>2. k # from /\ k - 1 \in from..(m - 1) /\ k - 1 \in T
  BY <1>1
<1> QED BY <1>1, <1>2

----------------------------------------------------------------------------
(* Functions defined one step at a time. *)

\* g is first at from, and each step up to m takes it on.
Unrolls(g, from, m, S, first, step) ==
  /\ g \in [from..m -> S]
  /\ g[from] = first
  /\ \A n \in (from + 1)..m : g[n] = step[n][g[n - 1]]

\* A function defined from its first value, one step at a time, exists.
LEMMA Recursion ==
  ASSUME NEW from \in Nat, NEW m \in Nat, from <= m,
         NEW S, NEW first \in S, NEW step \in [(from + 1)..m -> [S -> S]]
  PROVE  \E g : Unrolls(g, from, m, S, first, step)
<1> DEFINE IsG(g, k) == /\ g[from] = first
                        /\ \A n \in (from + 1)..k : g[n] = step[n][g[n - 1]]
           T == {k \in from..m : \E g \in [from..k -> S] : IsG(g, k)}
<1>1. from \in T
  <2> DEFINE g == [n \in from..from |-> first]
  <2>1. g \in [from..from -> S] /\ IsG(g, from)
    OBVIOUS
  <2>2. \E x \in [from..from -> S] : IsG(x, from)
    <3> HIDE DEF g, IsG
    <3> QED BY <2>1
  <2> QED BY <2>2
<1>2. ASSUME NEW k \in from..(m - 1), k \in T PROVE k + 1 \in T
  <2>1. PICK h \in [from..k -> S] : IsG(h, k)
    BY <1>2
  <2> DEFINE g == [n \in from..(k + 1) |-> IF n = k + 1 THEN step[k + 1][h[k]] ELSE h[n]]
  <2>2. step[k + 1] \in [S -> S] /\ h[k] \in S
    OBVIOUS
  <2>3. g \in [from..(k + 1) -> S]
    BY <2>2
  <2>4. g[from] = first
    BY <2>1
  <2>5. \A n \in (from + 1)..(k + 1) : g[n] = step[n][g[n - 1]]
    <3> TAKE n \in (from + 1)..(k + 1)
    <3>1. CASE n = k + 1
      BY <3>1
    <3>2. CASE n \in (from + 1)..k
      BY <3>2, <2>1
    <3> QED BY <3>1, <3>2
  <2>6. \E x \in [from..(k + 1) -> S] : IsG(x, k + 1)
    <3> HIDE DEF g
    <3> QED BY <2>3, <2>4, <2>5
  <2>7. k + 1 \in from..m
    OBVIOUS
  <2> QED BY <2>6, <2>7
<1>3. \A k \in from..m : k \in T
  <2> HIDE DEF T
  <2> QED BY <1>1, <1>2, Induct
<1>4. m \in T
  <2> HIDE DEF T
  <2> QED BY <1>3
<1> QED BY <1>4 DEF Unrolls

----------------------------------------------------------------------------
(* Sets of the first numbers.                                              *)

\* A set of the first numbers up to n that has each number before any it has is the
\* numbers up to its size.
LEMMA FirstNumbers ==
  ASSUME NEW n \in Nat, NEW T, T \subseteq 1..n,
         \A i \in T : \A j \in 1..i : j \in T
  PROVE  /\ Cardinality(T) \in 0..n
         /\ T = 1..Cardinality(T)
<1> DEFINE gap == {k \in Nat : k + 1 \notin T}
<1>1. n \in gap /\ gap \subseteq Nat
  OBVIOUS
<1>2. PICK m \in gap : \A k \in gap : m <= k
  BY <1>1, LeastNat
<1>3. m \in 0..n /\ m + 1 \notin T
  BY <1>1, <1>2
<1>4. ASSUME NEW i \in 1..m PROVE i \in T
  <2>1. i - 1 \in Nat /\ i - 1 < m
    BY <1>3
  <2>2. i - 1 \notin gap
    BY <1>2, <1>3, <2>1
  <2>3. (i - 1) + 1 = i
    BY <1>3
  <2> QED BY <2>1, <2>2, <2>3
<1>5. ASSUME NEW i \in T PROVE i \in 1..m
  <2>1. i \in 1..n
    OBVIOUS
  <2>2. CASE i > m
    <3>1. m + 1 \in 1..i
      BY <1>3, <2>1, <2>2
    <3> QED BY <1>3, <3>1
  <2> QED BY <1>3, <2>1, <2>2
<1>6. T = 1..m
  BY <1>4, <1>5
<1>7. Cardinality(1..m) = m
  BY <1>3, FS_Interval
<1> QED BY <1>3, <1>6, <1>7

----------------------------------------------------------------------------
(* Sequences that hold each of their members once. *)

\* What is where once a place is removed.
LEMMA RemoveAtPlaces ==
  ASSUME NEW S, NEW s \in Seq(S), NEW at \in 1..Len(s)
  PROVE  /\ RemoveAt(s, at) \in Seq(S)
         /\ Len(RemoveAt(s, at)) = Len(s) - 1
         /\ \A i \in 1..(Len(s) - 1) : RemoveAt(s, at)[i] = IF i < at THEN s[i] ELSE s[i + 1]
<1> DEFINE t == RemoveAt(s, at)
<1> DEFINE before == SubSeq(s, 1, at - 1)
           after == SubSeq(s, at + 1, Len(s))
<1>a. before \in Seq(S) /\ Len(before) = at - 1 /\ \A i \in 1..(at - 1) : before[i] = s[i]
  BY SubSeqProperties
<1>b. /\ after \in Seq(S) /\ Len(after) = Len(s) - at
      /\ \A i \in 1..(Len(s) - at) : after[i] = s[at + i]
  BY SubSeqProperties
<1>c. t = before \o after
  BY DEF RemoveAt
<1> HIDE DEF t, before, after
<1>1. t \in Seq(S) /\ Len(t) = Len(s) - 1
  <2>1. t \in Seq(S) /\ Len(t) = Len(before) + Len(after)
    BY <1>a, <1>b, <1>c, ConcatProperties, Zenon
  <2> QED BY <2>1, <1>a, <1>b
<1>2. \A i \in 1..Len(t) : t[i] = IF i < at THEN s[i] ELSE s[i + 1]
  <2> SUFFICES ASSUME NEW i \in 1..Len(t)
               PROVE  t[i] = IF i < at THEN s[i] ELSE s[i + 1]
    OBVIOUS
  <2>1. t[i] = IF i <= Len(before) THEN before[i] ELSE after[i - Len(before)]
    BY <1>1, <1>a, <1>b, <1>c, ConcatProperties
  <2> QED BY <2>1, <1>1, <1>a, <1>b
<1> QED BY <1>1, <1>2 DEF t

\* Removing a place takes exactly its member out.
LEMMA RemoveAtOnce ==
  ASSUME NEW S, NEW s \in Seq(S), NEW at \in 1..Len(s), IsInjective(s)
  PROVE  /\ RemoveAt(s, at) \in Seq(S)
         /\ IsInjective(RemoveAt(s, at))
         /\ ToSet(RemoveAt(s, at)) = ToSet(s) \ {s[at]}
<1> DEFINE t == RemoveAt(s, at)
<1>1. t \in Seq(S) /\ Len(t) = Len(s) - 1
  BY RemoveAtPlaces
<1>2. \A i \in 1..Len(t) : t[i] = IF i < at THEN s[i] ELSE s[i + 1]
  BY <1>1, RemoveAtPlaces
<1> HIDE DEF t
<1>3. IsInjective(t)
  <2> SUFFICES ASSUME NEW i \in 1..Len(t), NEW j \in 1..Len(t), t[i] = t[j]
               PROVE  i = j
    BY <1>1 DEF IsInjective
  <2> DEFINE from(k) == IF k < at THEN k ELSE k + 1
  <2>1. ASSUME NEW k \in 1..Len(t)
        PROVE  from(k) \in 1..Len(s) /\ t[k] = s[from(k)]
    BY <1>1, <1>2
  <2>2. from(i) = from(j)
    BY <2>1 DEF IsInjective
  <2> QED BY <2>2, <1>1
<1>4. ASSUME NEW e \in ToSet(t) PROVE e \in ToSet(s) \ {s[at]}
  <2>1. PICK i \in 1..Len(t) : t[i] = e
    BY <1>1 DEF ToSet
  <2>2. PICK j \in 1..Len(s) : j # at /\ s[j] = e
    BY <2>1, <1>1, <1>2
  <2> QED BY <2>2 DEF ToSet, IsInjective
<1>5. ASSUME NEW e \in ToSet(s) \ {s[at]} PROVE e \in ToSet(t)
  <2>1. PICK j \in 1..Len(s) : s[j] = e /\ j # at
    BY DEF ToSet
  <2>2. CASE j < at
    BY <2>1, <2>2, <1>1, <1>2 DEF ToSet
  <2>3. CASE j > at
    <3>1. j - 1 \in 1..Len(t) /\ t[j - 1] = e
      BY <2>1, <2>3, <1>1, <1>2
    <3> QED BY <3>1 DEF ToSet
  <2> QED BY <2>1, <2>2, <2>3
<1> QED BY <1>1, <1>3, <1>4, <1>5 DEF t

\* What is where once a member is put in.
LEMMA InsertAtPlaces ==
  ASSUME NEW S, NEW s \in Seq(S), NEW at \in 1..(Len(s) + 1), NEW e \in S
  PROVE  /\ InsertAt(s, at, e) \in Seq(S)
         /\ Len(InsertAt(s, at, e)) = Len(s) + 1
         /\ \A i \in 1..(Len(s) + 1) :
              InsertAt(s, at, e)[i] = IF i < at THEN s[i] ELSE IF i = at THEN e ELSE s[i - 1]
<1> DEFINE t == InsertAt(s, at, e)
<1> DEFINE before == SubSeq(s, 1, at - 1)
           middle == before \o <<e>>
           after == SubSeq(s, at, Len(s))
<1>a. before \in Seq(S) /\ Len(before) = at - 1 /\ \A i \in 1..(at - 1) : before[i] = s[i]
  BY SubSeqProperties
<1>b. /\ after \in Seq(S) /\ Len(after) = Len(s) + 1 - at
      /\ \A i \in 1..(Len(s) + 1 - at) : after[i] = s[at + i - 1]
  BY SubSeqProperties
<1>c. middle = before \o <<e>> /\ t = middle \o after
  BY DEF InsertAt
<1> HIDE DEF t, before, middle, after
<1>d. /\ middle \in Seq(S) /\ Len(middle) = at
      /\ \A i \in 1..at : middle[i] = IF i < at THEN before[i] ELSE e
  <2>1. <<e>> \in Seq(S) /\ Len(<<e>>) = 1 /\ <<e>>[1] = e
    OBVIOUS
  <2> QED BY <2>1, <1>a, <1>c, ConcatProperties
<1>1. t \in Seq(S) /\ Len(t) = Len(s) + 1
  <2>1. t \in Seq(S) /\ Len(t) = Len(middle) + Len(after)
    BY <1>b, <1>c, <1>d, ConcatProperties, Zenon
  <2> QED BY <2>1, <1>b, <1>d
<1>2. \A i \in 1..Len(t) : t[i] = IF i < at THEN s[i] ELSE IF i = at THEN e ELSE s[i - 1]
  <2> SUFFICES ASSUME NEW i \in 1..Len(t)
               PROVE  t[i] = IF i < at THEN s[i] ELSE IF i = at THEN e ELSE s[i - 1]
    OBVIOUS
  <2>1. t[i] = IF i <= Len(middle) THEN middle[i] ELSE after[i - Len(middle)]
    BY <1>1, <1>b, <1>c, <1>d, ConcatProperties
  <2>0. Len(s) \in Nat /\ i \in 1..(Len(s) + 1) /\ Len(middle) = at
    BY <1>1, <1>d
  <2>2. CASE i <= at
    <3>1. t[i] = IF i < at THEN before[i] ELSE e
      BY <2>0, <2>1, <2>2, <1>d
    <3> QED BY <2>0, <2>2, <3>1, <1>a
  <2>3. CASE ~(i <= at)
    <3>1. i - at \in 1..(Len(s) + 1 - at) /\ at + (i - at) - 1 = i - 1 /\ ~(i < at) /\ i # at
      BY <2>0, <2>3
    <3>2. t[i] = after[i - at]
      BY <2>0, <2>1, <2>3
    <3> QED BY <3>1, <3>2, <1>b
  <2> QED BY <2>2, <2>3
<1> QED BY <1>1, <1>2 DEF t

\* Putting a new member in at any place adds exactly it.
LEMMA InsertAtOnce ==
  ASSUME NEW S, NEW s \in Seq(S), NEW at \in 1..(Len(s) + 1), NEW e \in S,
         IsInjective(s), e \notin ToSet(s)
  PROVE  /\ InsertAt(s, at, e) \in Seq(S)
         /\ IsInjective(InsertAt(s, at, e))
         /\ ToSet(InsertAt(s, at, e)) = ToSet(s) \cup {e}
<1>a. InsertAt(s, at, e) \in Seq(S) /\ Len(InsertAt(s, at, e)) = Len(s) + 1
  BY InsertAtPlaces
<1>b. ASSUME NEW i \in 1..(Len(s) + 1)
      PROVE  InsertAt(s, at, e)[i] = IF i < at THEN s[i] ELSE IF i = at THEN e ELSE s[i - 1]
  BY InsertAtPlaces
<1>0. PICK t : t = InsertAt(s, at, e)
  OBVIOUS
<1>1. t \in Seq(S) /\ Len(t) = Len(s) + 1
  BY <1>0, <1>a
<1>2. \A i \in 1..Len(t) : t[i] = IF i < at THEN s[i] ELSE IF i = at THEN e ELSE s[i - 1]
  <2> TAKE i \in 1..Len(t)
  <2>1. i \in 1..(Len(s) + 1)
    BY <1>1
  <2> QED BY <1>0, <1>b, <2>1
<1>3. \A i \in 1..Len(s) : s[i] # e
  BY DEF ToSet
<1>4. IsInjective(t)
  <2> SUFFICES ASSUME NEW i \in 1..Len(t), NEW j \in 1..Len(t), t[i] = t[j]
               PROVE  i = j
    BY DEF IsInjective
  <2> DEFINE from(k) == IF k < at THEN k ELSE k - 1
  <2>1. ASSUME NEW k \in 1..Len(t), k # at
        PROVE  from(k) \in 1..Len(s) /\ t[k] = s[from(k)] /\ t[k] # e
    BY <2>1, <1>1, <1>2, <1>3
  <2>2. t[at] = e /\ at \in 1..Len(t)
    BY <1>1, <1>2
  <2>3. CASE i = at \/ j = at
    BY <2>1, <2>2, <2>3
  <2>4. CASE i # at /\ j # at
    <3>1. from(i) = from(j)
      BY <2>1, <2>4, SMTT(30) DEF IsInjective
    <3> QED BY <3>1, <2>4, <1>1
  <2> QED BY <2>3, <2>4
<1>5. ASSUME NEW x \in ToSet(t) PROVE x \in ToSet(s) \cup {e}
  <2>1. PICK i \in 1..Len(t) : t[i] = x
    BY <1>1 DEF ToSet
  <2> QED BY <2>1, <1>1, <1>2 DEF ToSet
<1>6. e \in ToSet(t)
  BY <1>1, <1>2 DEF ToSet
<1>7. ASSUME NEW x \in ToSet(s) PROVE x \in ToSet(t)
  <2>1. PICK j \in 1..Len(s) : s[j] = x
    BY DEF ToSet
  <2>2. CASE j < at
    BY <2>1, <2>2, <1>1, <1>2 DEF ToSet
  <2>3. CASE j >= at
    <3>1. j + 1 \in 1..Len(t) /\ t[j + 1] = x
      BY <2>1, <2>3, <1>1, <1>2
    <3> QED BY <3>1 DEF ToSet
  <2> QED BY <2>1, <2>2, <2>3
<1> QED BY <1>0, <1>1, <1>4, <1>5, <1>6, <1>7

\* So does appending it.
LEMMA AppendOnce ==
  ASSUME NEW S, NEW s \in Seq(S), NEW e \in S, IsInjective(s), e \notin ToSet(s)
  PROVE  /\ Append(s, e) \in Seq(S)
         /\ IsInjective(Append(s, e))
         /\ ToSet(Append(s, e)) = ToSet(s) \cup {e}
<1>1. Append(s, e) \in Seq(S) /\ Len(Append(s, e)) = Len(s) + 1
  OBVIOUS
<1>2. \A i \in 1..Len(s) : Append(s, e)[i] = s[i] /\ s[i] # e
  BY DEF ToSet
<1>3. Append(s, e)[Len(s) + 1] = e
  OBVIOUS
<1>4. IsInjective(Append(s, e))
  BY <1>1, <1>2, <1>3 DEF IsInjective
<1>5. ToSet(Append(s, e)) = ToSet(s) \cup {e}
  BY <1>1, <1>2, <1>3 DEF ToSet
<1> QED BY <1>1, <1>4, <1>5
=============================================================================
