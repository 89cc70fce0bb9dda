---------------------------- MODULE RunTheorems -----------------------------
(***************************************************************************)
(* Runs of consecutive numbers, the form that a stream of numbered bytes   *)
(* or entries has in every buffer it passes through: how they are joined   *)
(* and split.  And the least of a set of naturals.                         *)
(***************************************************************************)
EXTENDS Integers, Sequences, Picking, SequenceTheorems, WellFoundedInduction, TLAPS

\* A set of naturals that is not empty has a least element.
LEMMA LeastNat ==
    ASSUME NEW S \in SUBSET Nat, S # {}
    PROVE  \E m \in S : \A n \in S : m <= n
<1> DEFINE R == OpToRel(<, Nat)
<1>1. IsWellFoundedOn(R, Nat)
  BY NatLessThanWellFounded
<1>2. \A x, y \in Nat : y < x => <<y, x>> \in R
  BY DEF OpToRel
<1> HIDE DEF R
<1>3. \E x \in S : \A y \in S : ~(<<y, x>> \in R)
  BY <1>1, WFMin, Zenon
<1>4. PICK x \in S : \A y \in S : ~(<<y, x>> \in R)
  BY <1>3
<1>5. x \in Nat /\ S \subseteq Nat
  OBVIOUS
<1>6. \A y \in S : ~(y < x)
  BY <1>2, <1>4, <1>5
<1> QED
  BY <1>5, <1>6

Run(a, b) == [i \in 1 .. b - a |-> a + i]   \* a + 1 up to b

LEMMA RunSeq ==
    ASSUME NEW a \in Nat, NEW b \in Nat, a <= b
    PROVE  /\ Run(a, b) \in Seq(Nat) /\ Len(Run(a, b)) = b - a
           /\ \A i \in 1 .. b - a : Run(a, b)[i] = a + i
<1>1. b - a \in Nat
  OBVIOUS
<1>2. \A i \in 1 .. b - a : a + i \in Nat
  BY <1>1
<1>3. Run(a, b) \in Seq(Nat) /\ Len(Run(a, b)) = b - a
  BY <1>1, <1>2, IsASeq DEF Run
<1> QED
  BY <1>3 DEF Run

\* Adjacent runs make a run.
LEMMA RunConcat ==
    ASSUME NEW a \in Nat, NEW b \in Nat, NEW c \in Nat, a <= b, b <= c
    PROVE  Run(a, b) \o Run(b, c) = Run(a, c)
<1> DEFINE s == Run(a, b)
           t == Run(b, c)
           u == Run(a, c)
<1>1. s \in Seq(Nat) /\ Len(s) = b - a /\ \A i \in 1 .. b - a : s[i] = a + i
  BY RunSeq
<1>2. t \in Seq(Nat) /\ Len(t) = c - b /\ \A i \in 1 .. c - b : t[i] = b + i
  BY RunSeq
<1>3. u \in Seq(Nat) /\ Len(u) = c - a /\ \A i \in 1 .. c - a : u[i] = a + i
  BY RunSeq
<1> HIDE DEF s, t, u
<1>4. /\ s \o t \in Seq(Nat) /\ Len(s \o t) = Len(s) + Len(t)
      /\ \A i \in 1 .. Len(s) + Len(t) : (s \o t)[i] = IF i <= Len(s) THEN s[i] ELSE t[i - Len(s)]
  BY <1>1, <1>2, ConcatProperties
<1>5. Len(s \o t) = Len(u)
  BY <1>1, <1>2, <1>3, <1>4
<1>6. ASSUME NEW i \in 1 .. Len(u) PROVE (s \o t)[i] = u[i]
  <2>1. CASE i <= b - a
    BY <1>1, <1>2, <1>3, <1>4, <2>1
  <2>2. CASE i > b - a
    <3>1. i - (b - a) \in 1 .. c - b /\ ~(i <= Len(s)) /\ i \in 1 .. Len(s) + Len(t)
      BY <1>1, <1>2, <1>3, <2>2
    <3>2. t[i - (b - a)] = b + (i - (b - a))
      BY <1>2, <3>1
    <3>3. (s \o t)[i] = t[i - (b - a)]
      BY <1>1, <1>4, <3>1
    <3> QED
      BY <1>3, <3>2, <3>3
  <2>3. i <= b - a \/ i > b - a
    BY <1>3
  <2> QED
    BY <2>1, <2>2, <2>3
<1>7. s \o t = u
  BY <1>3, <1>4, <1>5, <1>6, SeqEqual
<1> QED
  BY <1>7 DEF s, t, u

LEMMA RunEmpty == ASSUME NEW a \in Nat PROVE Run(a, a) = <<>>
<1>1. Run(a, a) \in Seq(Nat) /\ Len(Run(a, a)) = 0
  BY RunSeq
<1> QED
  BY <1>1, EmptySeq

\* A run without elements ends where it begins.
LEMMA RunIsEmpty ==
    ASSUME NEW a \in Nat, NEW b \in Nat, a <= b, Run(a, b) = <<>>
    PROVE  a = b
<1>1. Len(Run(a, b)) = b - a
  BY RunSeq
<1> QED
  BY <1>1

\* A piece of a run is a run.
LEMMA RunPiece ==
    ASSUME NEW a \in Nat, NEW b \in Nat, NEW i \in Nat, NEW j \in Nat, i <= j, a + j <= b
    PROVE  SubSeq(Run(a, b), i + 1, j) = Run(a + i, a + j)
<1> DEFINE s == Run(a, b)
           t == SubSeq(s, i + 1, j)
           u == Run(a + i, a + j)
<1>1. s \in Seq(Nat) /\ Len(s) = b - a /\ \A k \in 1 .. b - a : s[k] = a + k
  BY RunSeq
<1>2. u \in Seq(Nat) /\ Len(u) = j - i /\ \A k \in 1 .. j - i : u[k] = a + i + k
  <2>1. a + i \in Nat /\ a + j \in Nat /\ a + i <= a + j /\ (a + j) - (a + i) = j - i
    OBVIOUS
  <2> QED
    BY <2>1, RunSeq, ZenonT(60)
<1>3. i + 1 \in 1 .. Len(s) + 1 /\ j \in i .. Len(s)
  <2>1. Len(s) = b - a
    BY <1>1
  <2> HIDE DEF s
  <2> QED
    BY <2>1
<1> HIDE DEF s, u
<1>4. /\ t \in Seq(Nat) /\ Len(t) = j - i
      /\ \A k \in 1 .. j - i : t[k] = s[i + k]
  BY <1>1, <1>3, SubSeqProperties, SMTT(30)
<1> HIDE DEF t
<1>5. ASSUME NEW k \in 1 .. j - i PROVE t[k] = u[k]
  <2>1. i + k \in 1 .. b - a
    BY SMTT(30)
  <2> QED
    BY <1>1, <1>2, <1>4, <2>1
<1>6. t = u
  BY <1>2, <1>4, <1>5, SeqEqual
<1> QED
  BY <1>6 DEF s, t, u

\* The same, in a form that is easier to cite.
Slice(s, i, j) == SubSeq(s, i + 1, j)

LEMMA RunSlice ==
    ASSUME NEW a \in Nat, NEW b \in Nat, NEW i \in Nat, NEW j \in Nat, i <= j, a + j <= b
    PROVE  Slice(Run(a, b), i, j) = Run(a + i, a + j)
BY RunPiece, ZenonT(60) DEF Slice

\* The beginning of a run is one.
LEMMA RunHead ==
    ASSUME NEW a \in Nat, NEW b \in Nat, NEW j \in Nat, a + j <= b
    PROVE  SubSeq(Run(a, b), 1, j) = Run(a, a + j)
<1>1. PICK z \in Nat : z = 0
  OBVIOUS
<1>2. z + 1 = 1 /\ a + z = a
  BY <1>1
<1>3. z <= j
  BY <1>1
<1>4. SubSeq(Run(a, b), z + 1, j) = Run(a + z, a + j)
  BY <1>3, RunPiece, ZenonT(60)
<1> QED
  BY <1>2, <1>4, Zenon

-----------------------------------------------------------------------------
\* Induction, for a set of naturals.
LEMMA Induction ==
    ASSUME NEW S \in SUBSET Nat, 0 \in S, \A n \in S : n + 1 \in S
    PROVE  \A n \in Nat : n \in S
<1> SUFFICES ASSUME NEW k \in Nat, k \notin S PROVE FALSE
  OBVIOUS
<1>1. Nat \ S # {} /\ Nat \ S \in SUBSET Nat
  OBVIOUS
<1>2. PICK m \in Nat \ S : \A n \in Nat \ S : m <= n
  BY <1>1, LeastNat
<1>3. m \in Nat /\ m # 0
  OBVIOUS
<1>4. m - 1 \in Nat /\ ~(m <= m - 1) /\ (m - 1) + 1 = m
  BY <1>3
<1>5. m - 1 \in S
  BY <1>2, <1>4
<1>6. (m - 1) + 1 \in S
  BY <1>5
<1> QED
  BY <1>4, <1>6

\* One round of the loop of Picked, and the loop up to n.
Round(f, s, I, i) == IF i = 0 THEN <<>> ELSE IF i \in I THEN Append(f[i - 1], s[i]) ELSE f[i - 1]
Loop(f, s, I, n) == f = [i \in 0 .. n |-> Round(f, s, I, i)]

\* The loop ends.
LEMMA LoopExists == ASSUME NEW s, NEW I, NEW n \in Nat PROVE \E f : Loop(f, s, I, n)
<1> DEFINE S == {k \in Nat : \E f : Loop(f, s, I, k)}
<1>1. 0 \in S
  <2> DEFINE f == [i \in 0 .. 0 |-> <<>>]
  <2>1. \A i \in 0 .. 0 : i = 0
    OBVIOUS
  <2>2. Loop(f, s, I, 0)
    BY <2>1 DEF Loop, Round
  <2> QED
    BY <2>2
<1>2. ASSUME NEW k \in S PROVE k + 1 \in S
  <2>1. k \in Nat /\ k + 1 \in Nat
    OBVIOUS
  <2>2. PICK f : Loop(f, s, I, k)
    OBVIOUS
  <2> DEFINE g == [i \in 0 .. k + 1 |-> IF i <= k THEN f[i] ELSE Round(f, s, I, i)]
  <2>3. \A i \in 0 .. k + 1 : i # 0 => i - 1 \in 0 .. k + 1 /\ i - 1 <= k
    BY <2>1
  <2>4. \A i \in 0 .. k + 1 : i # 0 => g[i - 1] = f[i - 1]
    BY <2>3
  <2>5. \A i \in 0 .. k + 1 : Round(g, s, I, i) = Round(f, s, I, i)
    BY <2>4 DEF Round
  <2>6. \A i \in 0 .. k + 1 : i <= k => f[i] = Round(f, s, I, i)
    <3>1. \A i \in 0 .. k : f[i] = Round(f, s, I, i)
      BY <2>2 DEF Loop
    <3>2. \A i \in 0 .. k + 1 : i <= k => i \in 0 .. k
      BY <2>1
    <3> QED
      BY <3>1, <3>2
  <2>7. g = [i \in 0 .. k + 1 |-> Round(g, s, I, i)]
    BY <2>5, <2>6
  <2> QED
    BY <2>1, <2>7 DEF Loop
<1>3. S \in SUBSET Nat
  OBVIOUS
<1> HIDE DEF S
<1>4. \A k \in Nat : k \in S
  BY <1>1, <1>2, <1>3, Induction
<1> QED
  BY <1>4 DEF S

\* Picked is what the loop computes.
LEMMA PickedLoop ==
    ASSUME NEW s, NEW I, Len(s) \in Nat
    PROVE  \E f : /\ Picked(s, I) = f[Len(s)] /\ f[0] = <<>>
                  /\ \A i \in 1 .. Len(s) : f[i] = IF i \in I THEN Append(f[i - 1], s[i]) ELSE f[i - 1]
<1> DEFINE f == CHOOSE g : Loop(g, s, I, Len(s))
<1>1. Picked(s, I) = f[Len(s)]
  BY DEF Picked, Loop, Round
<1>2. Loop(f, s, I, Len(s))
  BY LoopExists
<1> HIDE DEF f
<1>3. \A i \in 0 .. Len(s) : f[i] = Round(f, s, I, i)
  BY <1>2 DEF Loop
<1>4. 0 \in 0 .. Len(s) /\ \A i \in 1 .. Len(s) : i \in 0 .. Len(s) /\ i # 0
  OBVIOUS
<1> QED
  BY <1>1, <1>3, <1>4 DEF Round

\* What is picked has been there.
LEMMA PickedSeq ==
    ASSUME NEW s, NEW I, Len(s) \in Nat, NEW T, \A i \in 1 .. Len(s) : i \in I => s[i] \in T
    PROVE  Picked(s, I) \in Seq(T)
<1>1. PICK f : /\ Picked(s, I) = f[Len(s)] /\ f[0] = <<>>
               /\ \A i \in 1 .. Len(s) : f[i] = IF i \in I THEN Append(f[i - 1], s[i]) ELSE f[i - 1]
  BY PickedLoop
<1> DEFINE S == {k \in Nat : k <= Len(s) => f[k] \in Seq(T)}
<1>2. 0 \in S
  <2>1. <<>> \in Seq(T)
    BY EmptySeq
  <2> QED
    BY <1>1, <2>1
<1>3. ASSUME NEW k \in S PROVE k + 1 \in S
  <2>1. k \in Nat /\ k + 1 \in Nat
    OBVIOUS
  <2>2. ASSUME k + 1 <= Len(s) PROVE f[k + 1] \in Seq(T)
    <3>1. PICK i \in 1 .. Len(s) : i = k + 1 /\ i - 1 = k
      BY <2>1, <2>2
    <3>2. f[k] \in Seq(T)
      BY <2>1, <2>2
    <3>3. f[i] = IF i \in I THEN Append(f[k], s[i]) ELSE f[k]
      BY <1>1, <3>1
    <3>4. i \in I => Append(f[k], s[i]) \in Seq(T)
      BY <3>1, <3>2, AppendProperties
    <3> QED
      BY <3>1, <3>2, <3>3, <3>4
  <2> QED
    BY <2>1, <2>2
<1>4. S \in SUBSET Nat
  OBVIOUS
<1> HIDE DEF S
<1>5. Len(s) \in S
  BY <1>2, <1>3, <1>4, Induction
<1>6. Len(s) <= Len(s)
  OBVIOUS
<1> QED
  BY <1>1, <1>5, <1>6 DEF S

\* When everything after the first c elements is picked, that is what is left.
LEMMA PickedRest ==
    ASSUME NEW T, NEW s \in Seq(T), NEW I, NEW c \in 0 .. Len(s),
           \A i \in 1 .. Len(s) : i \in I <=> i > c
    PROVE  Picked(s, I) = SubSeq(s, c + 1, Len(s))
<1>0. PICK n \in Nat : n = Len(s)
  BY LenProperties
<1>1. PICK f : /\ Picked(s, I) = f[n] /\ f[0] = <<>>
               /\ \A i \in 1 .. n : f[i] = IF i \in I THEN Append(f[i - 1], s[i]) ELSE f[i - 1]
  BY <1>0, PickedLoop
<1>2. c \in Nat /\ c <= n
  BY <1>0
<1> DEFINE S == {k \in Nat : k <= n => f[k] = IF k <= c THEN <<>> ELSE SubSeq(s, c + 1, k)}
<1>3. 0 \in S
  BY <1>1, <1>2
<1>4. ASSUME NEW k \in S PROVE k + 1 \in S
  <2>1. k \in Nat /\ k + 1 \in Nat
    OBVIOUS
  <2>2. ASSUME k + 1 <= n PROVE f[k + 1] = IF k + 1 <= c THEN <<>> ELSE SubSeq(s, c + 1, k + 1)
    <3>1. PICK i \in 1 .. n : i = k + 1 /\ i - 1 = k
      BY <2>1, <2>2
    <3>2. f[k] = IF k <= c THEN <<>> ELSE SubSeq(s, c + 1, k)
      BY <2>1, <2>2
    <3>3. f[i] = IF i > c THEN Append(f[k], s[i]) ELSE f[k]
      BY <1>0, <1>1, <3>1
    <3>4. CASE i <= c
      BY <1>2, <2>1, <3>1, <3>2, <3>3, <3>4
    <3>5. CASE ~(i <= c)
      <4>1. f[i] = Append(f[k], s[i]) /\ c <= k
        BY <1>2, <2>1, <3>1, <3>3, <3>5
      <4> DEFINE t == SubSeq(s, c + 1, i)
                 u == f[k]
      <4>2. \A j \in 1 .. n : s[j] \in T
        BY <1>0, ElementOfSeq
      <4>3. t \in Seq(T) /\ Len(t) = i - c /\ \A j \in 1 .. i - c : t[j] = s[c + j]
        <5>1. i \in Nat /\ c + 1 \in Nat /\ \A j \in c + 1 .. i : j \in 1 .. n
          BY <1>2
        <5>2. \A j \in c + 1 .. i : s[j] \in T
          BY <4>2, <5>1
        <5>3. t \in Seq(T) /\ Len(t) = (IF c + 1 <= i THEN i - (c + 1) + 1 ELSE 0)
              /\ \A j \in 1 .. i - (c + 1) + 1 : t[j] = s[c + 1 + j - 1]
          BY <5>1, <5>2, SubSeqProperties
        <5> QED
          BY <1>2, <3>5, <5>3
      <4>4. u \in Seq(T) /\ Len(u) = k - c /\ \A j \in 1 .. k - c : u[j] = s[c + j]
        <5>1. CASE k = c
          <6>1. u = <<>>
            BY <3>2, <5>1
          <6> QED
            BY <1>2, <5>1, <6>1, EmptySeq
        <5>2. CASE k # c
          <6>1. u = SubSeq(s, c + 1, k)
            BY <1>2, <2>1, <3>2, <4>1, <5>2
          <6>2. \A j \in c + 1 .. k : j \in 1 .. n
            BY <1>2, <2>1, <2>2
          <6>3. \A j \in c + 1 .. k : s[j] \in T
            BY <4>2, <6>2
          <6>4. u \in Seq(T) /\ Len(u) = (IF c + 1 <= k THEN k - (c + 1) + 1 ELSE 0)
                /\ \A j \in 1 .. k - (c + 1) + 1 : u[j] = s[c + 1 + j - 1]
            BY <1>2, <2>1, <6>1, <6>3, SubSeqProperties, SMTT(30)
          <6> QED
            BY <1>2, <2>1, <4>1, <5>2, <6>4, SMTT(30)
        <5> QED
          BY <5>1, <5>2
      <4> HIDE DEF t, u
      <4>5. /\ Append(u, s[i]) \in Seq(T) /\ Len(Append(u, s[i])) = Len(u) + 1
            /\ \A j \in 1 .. Len(u) : Append(u, s[i])[j] = u[j]
            /\ Append(u, s[i])[Len(u) + 1] = s[i]
        BY <4>2, <4>4, AppendProperties, SMTT(30)
      <4>6. \A j \in 1 .. i - c : Append(u, s[i])[j] = t[j]
        <5> TAKE j \in 1 .. i - c
        <5>1. CASE j \in 1 .. k - c
          BY <4>3, <4>4, <4>5, <5>1
        <5>2. CASE j = k - c + 1
          <6>1. c + j = i /\ j = Len(u) + 1
            BY <1>2, <2>1, <3>1, <4>4, <5>2
          <6> QED
            BY <4>3, <4>5, <6>1
        <5>3. j \in 1 .. k - c \/ j = k - c + 1
          BY <1>2, <2>1, <3>1
        <5> QED
          BY <5>1, <5>2, <5>3
      <4>7. Len(Append(u, s[i])) = i - c
        BY <1>2, <2>1, <3>1, <4>4, <4>5
      <4>8. Append(u, s[i]) = t
        BY <4>3, <4>5, <4>6, <4>7, SeqEqual
      <4> QED
        BY <3>1, <3>5, <4>1, <4>8 DEF t, u
    <3> QED
      BY <3>4, <3>5
  <2> QED
    BY <2>1, <2>2
<1>5. S \in SUBSET Nat
  OBVIOUS
<1> HIDE DEF S
<1>6. n \in S
  BY <1>3, <1>4, <1>5, Induction
<1>7. Picked(s, I) = IF n <= c THEN <<>> ELSE SubSeq(s, c + 1, n)
  BY <1>1, <1>6 DEF S
<1>8. n <= c => SubSeq(s, c + 1, n) = <<>>
  BY <1>2, SubSeqEmpty
<1> QED
  BY <1>0, <1>7, <1>8
=============================================================================
