----------------------------- MODULE DataLemmas -----------------------------
(***************************************************************************)
(* Induction over data, and with it what the recursive definitions of the  *)
(* models compute for every input.                                         *)
(*                                                                         *)
(* An induction is stated for a set T: a set of numbers that holds 0 and,  *)
(* with each of its numbers, the next, holds all numbers. That follows     *)
(* from the well-foundedness of < (WFMin), and the same for lists follows  *)
(* from it. "Keep" is then a recursive function that exists, is unique,    *)
(* and takes an element at a time (KeepNone, KeepAppend); what it selects  *)
(* of any list (KeepSelects) is proved by induction. So is what the sum    *)
(* over a finite set does with an element (SumTakes, SumAdd) and with the  *)
(* sum of two functions (SumPlus).                                         *)
(***************************************************************************)
EXTENDS Lists, Functions, Integers, WellFoundedInduction, FiniteSetTheorems, SequenceTheorems, TLAPS

-----------------------------------------------------------------------------
(***************************************************************************)
(* Numbers.                                                                *)
(***************************************************************************)
NatLess == {ss \in Nat \X Nat : ss[1] < ss[2]}

\* No sequence of natural numbers decreases for ever.
LEMMA NatLessWellFounded == IsWellFoundedOn(NatLess, Nat)
<1>1. IsWellFoundedOn(OpToRel(<, Nat), Nat)  BY NatLessThanWellFounded, Zenon
<1>2. OpToRel(<, Nat) = NatLess  BY Zenon DEF OpToRel, NatLess
<1> QED  BY <1>1, <1>2, Zenon

\* A set of natural numbers that is not empty has a least element.
LEMMA LeastNatural ==
  ASSUME NEW T \in SUBSET Nat, T # {}
  PROVE  \E x \in T : \A y \in T : x <= y
<1>1. PICK x \in T : \A y \in T : <<y, x>> \notin NatLess
  BY NatLessWellFounded, WFMin
<1>2. ASSUME NEW y \in T PROVE x <= y
  <2>1. <<y, x>> \notin NatLess  BY <1>1
  <2> QED  BY <2>1 DEF NatLess
<1> QED  BY <1>2

\* A set of numbers that holds 0 and with each number the next holds them all.
LEMMA NaturalsFollow ==
  ASSUME NEW T, 0 \in T, \A n \in Nat : n \in T => n + 1 \in T
  PROVE  Nat \subseteq T
<1>1. SUFFICES ASSUME Nat \ T # {} PROVE FALSE  OBVIOUS
<1>2. PICK x \in Nat \ T : \A y \in Nat \ T : x <= y  BY <1>1, LeastNatural
<1>3. x # 0  OBVIOUS
<1>4. x - 1 \in Nat /\ x - 1 \notin Nat \ T  BY <1>2, <1>3
<1> QED  BY <1>4

-----------------------------------------------------------------------------
(***************************************************************************)
(* Keep, as the recursive function it is.                                  *)
(***************************************************************************)
\* f[n] is what is kept of the first n elements, for every n up to m.
KeptUpTo(f, m, s, S) ==
  f = [n \in 0 .. m |->
        IF n = 0 THEN <<>>
        ELSE IF s[n] \in S THEN Append(f[n - 1], s[n]) ELSE f[n - 1]]

\* There is such a function, however long the list.
LEMMA KeptExists ==
  ASSUME NEW s, NEW S
  PROVE  \A m \in Nat : \E f : KeptUpTo(f, m, s, S)
<1> DEFINE T == {m \in Nat : \E f : KeptUpTo(f, m, s, S)}
<1>1. 0 \in T
  <2>1. KeptUpTo([n \in 0 .. 0 |-> <<>>], 0, s, S)  BY DEF KeptUpTo
  <2> QED  BY <2>1
<1>2. ASSUME NEW m \in Nat, m \in T PROVE m + 1 \in T
  <2>1. PICK f : KeptUpTo(f, m, s, S)  BY <1>2
  <2> DEFINE g == [n \in 0 .. m + 1 |->
                    IF n <= m THEN f[n]
                    ELSE IF s[m + 1] \in S THEN Append(f[m], s[m + 1]) ELSE f[m]]
  <2>2. KeptUpTo(g, m + 1, s, S)
    <3>1. DOMAIN f = 0 .. m  BY <2>1 DEF KeptUpTo
    <3>2. \A n \in 0 .. m : f[n] = IF n = 0 THEN <<>>
              ELSE IF s[n] \in S THEN Append(f[n - 1], s[n]) ELSE f[n - 1]
      BY <2>1 DEF KeptUpTo
    <3>3. ASSUME NEW n \in 0 .. m + 1
          PROVE  g[n] = IF n = 0 THEN <<>>
              ELSE IF s[n] \in S THEN Append(g[n - 1], s[n]) ELSE g[n - 1]
      <4>1. CASE n = m + 1
        BY <4>1
      <4>2. CASE n # m + 1
        <5>1. n \in 0 .. m  BY <4>2
        <5>2. n # 0 => n - 1 \in 0 .. m /\ n - 1 \in 0 .. m + 1  BY <5>1
        <5>3. g[n] = f[n] /\ (n # 0 => g[n - 1] = f[n - 1])  BY <5>1, <5>2
        <5> HIDE DEF g
        <5> QED  BY <3>2, <5>1, <5>3
      <4> QED  BY <4>1, <4>2
    <3>4. g = [n \in 0 .. m + 1 |-> g[n]]  OBVIOUS
    <3> HIDE DEF g
    <3> QED  BY <3>3, <3>4 DEF KeptUpTo
  <2> QED  BY <2>2
<1> HIDE DEF T
<1>3. Nat \subseteq T  BY <1>1, <1>2, NaturalsFollow
<1> QED  BY <1>3 DEF T

\* And two of them agree as far as both go.
LEMMA KeptUnique ==
  ASSUME NEW s, NEW S, NEW k \in Nat, NEW m \in Nat, NEW f, NEW g,
         KeptUpTo(f, k, s, S), KeptUpTo(g, m, s, S)
  PROVE  \A n \in Nat : n <= k /\ n <= m => f[n] = g[n]
<1> DEFINE T == {n \in Nat : n <= k /\ n <= m => f[n] = g[n]}
<1>0. /\ \A n \in 0 .. k : f[n] = IF n = 0 THEN <<>>
              ELSE IF s[n] \in S THEN Append(f[n - 1], s[n]) ELSE f[n - 1]
      /\ \A n \in 0 .. m : g[n] = IF n = 0 THEN <<>>
              ELSE IF s[n] \in S THEN Append(g[n - 1], s[n]) ELSE g[n - 1]
  BY DEF KeptUpTo
<1>1. 0 \in T  BY <1>0
<1>2. ASSUME NEW n \in Nat, n \in T PROVE n + 1 \in T
  BY <1>0, <1>2
<1> HIDE DEF T
<1>3. Nat \subseteq T  BY <1>1, <1>2, NaturalsFollow
<1> QED  BY <1>3 DEF T

\* Keep is its last value.
LEMMA KeepIsKept ==
  ASSUME NEW s, Len(s) \in Nat, NEW S
  PROVE  \E f : KeptUpTo(f, Len(s), s, S) /\ Keep(s, S) = f[Len(s)]
<1> DEFINE f == CHOOSE kept : KeptUpTo(kept, Len(s), s, S)
<1>1. KeptUpTo(f, Len(s), s, S)  BY KeptExists
<1>2. Keep(s, S) = f[Len(s)]  BY DEF Keep, KeptUpTo
<1> QED  BY <1>1, <1>2

\* Of nothing, nothing is kept.
LEMMA KeepNone ==
  ASSUME NEW S
  PROVE  Keep(<<>>, S) = <<>>
<1>1. Len(<<>>) = 0  OBVIOUS
<1>2. PICK f : KeptUpTo(f, 0, <<>>, S) /\ Keep(<<>>, S) = f[0]  BY <1>1, KeepIsKept
<1> QED  BY <1>2 DEF KeptUpTo

\* An element more is kept or not, and what was kept before stays.
LEMMA KeepAppend ==
  ASSUME NEW A, NEW s \in Seq(A), NEW x \in A, NEW S
  PROVE  Keep(Append(s, x), S) = IF x \in S THEN Append(Keep(s, S), x) ELSE Keep(s, S)
<1> DEFINE sx == Append(s, x)
           n == Len(s)
<1>1. n \in Nat /\ Len(sx) = n + 1 /\ sx[n + 1] = x /\ \A i \in 1 .. n : sx[i] = s[i]
  OBVIOUS
<1> HIDE DEF sx, n
<1>2. PICK f : KeptUpTo(f, n, s, S) /\ Keep(s, S) = f[n]  BY <1>1, KeepIsKept DEF n
<1>3. PICK g : KeptUpTo(g, n + 1, sx, S) /\ Keep(sx, S) = g[n + 1]  BY <1>1, KeepIsKept
<1>4. KeptUpTo(f, n, sx, S)
  <2>1. /\ DOMAIN f = 0 .. n
        /\ \A i \in 0 .. n : f[i] = IF i = 0 THEN <<>>
             ELSE IF s[i] \in S THEN Append(f[i - 1], s[i]) ELSE f[i - 1]
    BY <1>2 DEF KeptUpTo
  <2>2. \A i \in 0 .. n : f[i] = IF i = 0 THEN <<>>
             ELSE IF sx[i] \in S THEN Append(f[i - 1], sx[i]) ELSE f[i - 1]
    <3>1. \A i \in 0 .. n : i # 0 => sx[i] = s[i]  BY <1>1
    <3> QED  BY <2>1, <3>1
  <2>3. f = [i \in 0 .. n |-> f[i]]  BY <1>2, <2>1 DEF KeptUpTo
  <2> QED  BY <2>2, <2>3 DEF KeptUpTo
<1>5. f[n] = g[n]  BY <1>1, <1>3, <1>4, KeptUnique
<1>6. g[n + 1] = IF x \in S THEN Append(g[n], x) ELSE g[n]
  <2>1. \A i \in 0 .. n + 1 : g[i] = IF i = 0 THEN <<>>
             ELSE IF sx[i] \in S THEN Append(g[i - 1], sx[i]) ELSE g[i - 1]
    BY <1>3 DEF KeptUpTo
  <2>2. n + 1 \in 0 .. n + 1 /\ n + 1 # 0 /\ (n + 1) - 1 = n  BY <1>1
  <2> QED  BY <1>1, <2>1, <2>2
<1> QED  BY <1>2, <1>3, <1>5, <1>6 DEF sx

-----------------------------------------------------------------------------
(***************************************************************************)
(* Lists.                                                                  *)
(***************************************************************************)
\* Whatever holds of no element and survives an Append holds of every sequence.
LEMMA SequencesGrow ==
  ASSUME NEW A, NEW T, <<>> \in T,
         \A s \in Seq(A), x \in A : s \in T => Append(s, x) \in T
  PROVE  Seq(A) \subseteq T
<1> DEFINE L == {n \in Nat : \A s \in Seq(A) : Len(s) = n => s \in T}
<1>1. 0 \in L  OBVIOUS
<1>2. ASSUME NEW n \in Nat, n \in L PROVE n + 1 \in L
  <2>1. ASSUME NEW s \in Seq(A), Len(s) = n + 1 PROVE s \in T
    <3> DEFINE front == SubSeq(s, 1, n)
    <3>1. front \in Seq(A) /\ Len(front) = n /\ s[n + 1] \in A  BY <2>1
    <3>2. s = Append(front, s[n + 1])
      <4>1. Append(front, s[n + 1]) \in Seq(A) /\ Len(Append(front, s[n + 1])) = n + 1
        BY <3>1
      <4>2. \A i \in 1 .. n + 1 : Append(front, s[n + 1])[i] = s[i]
        BY <2>1, <3>1
      <4> HIDE DEF front
      <4> QED  BY <2>1, <4>1, <4>2, SeqEqual
    <3>3. front \in T  BY <1>2, <3>1
    <3> HIDE DEF front
    <3> QED  BY <3>1, <3>2, <3>3
  <2> QED  BY <2>1
<1> HIDE DEF L
<1>3. Nat \subseteq L  BY <1>1, <1>2, NaturalsFollow
<1> QED  BY <1>3 DEF L

\* A selection is of the elements, all of them that are wanted and no other,
\* each in the order of the list.
Selects(k, s, S) ==
  /\ Len(k) <= Len(s)
  /\ \A i \in 1 .. Len(k) : k[i] \in S
  /\ \A i \in 1 .. Len(s) : s[i] \in S => \E j \in 1 .. Len(k) : k[j] = s[i]
  /\ \A i \in 1 .. Len(k) : \E m \in 1 .. Len(s) : k[i] = s[m]
  /\ \A i, j \in 1 .. Len(k) : i < j =>
       \E m, n \in 1 .. Len(s) : m < n /\ k[i] = s[m] /\ k[j] = s[n]

\* What is kept of a list is such a selection, and a list of the same kind.
LEMMA KeepSelects ==
  ASSUME NEW A, NEW S
  PROVE  \A s \in Seq(A) : Keep(s, S) \in Seq(A) /\ Selects(Keep(s, S), s, S)
<1> DEFINE T == {s \in Seq(A) : Keep(s, S) \in Seq(A) /\ Selects(Keep(s, S), s, S)}
<1>1. <<>> \in T
  <2>1. Keep(<<>>, S) = <<>>  BY KeepNone
  <2>2. <<>> \in Seq(A) /\ Len(<<>>) = 0  OBVIOUS
  <2>3. Selects(<<>>, <<>>, S)  BY <2>2 DEF Selects
  <2> QED  BY <2>1, <2>2, <2>3
<1>2. ASSUME NEW s \in Seq(A), NEW x \in A, s \in T PROVE Append(s, x) \in T
  <2> DEFINE sx == Append(s, x)
             k == Keep(s, S)
  <2>1. k \in Seq(A) /\ Selects(k, s, S)  BY <1>2
  <2>2. sx \in Seq(A) /\ Len(sx) = Len(s) + 1 /\ sx[Len(s) + 1] = x
        /\ \A i \in 1 .. Len(s) : sx[i] = s[i]
    OBVIOUS
  <2>3. Keep(sx, S) = IF x \in S THEN Append(k, x) ELSE k  BY KeepAppend
  <2> HIDE DEF sx, k
  <2>0. Len(k) \in Nat /\ Len(s) \in Nat  BY <2>1
  <2>4. ASSUME x \notin S PROVE k \in Seq(A) /\ Selects(k, sx, S)
    <3>1. Len(k) <= Len(sx)  BY <2>0, <2>1, <2>2 DEF Selects
    <3>2. \A i \in 1 .. Len(sx) : sx[i] \in S => \E j \in 1 .. Len(k) : k[j] = sx[i]
      BY <2>0, <2>1, <2>2, <2>4 DEF Selects
    <3>3. \A i \in 1 .. Len(k) : \E m \in 1 .. Len(sx) : k[i] = sx[m]
      BY <2>0, <2>1, <2>2 DEF Selects
    <3>4. ASSUME NEW i \in 1 .. Len(k), NEW j \in 1 .. Len(k), i < j
          PROVE  \E m, n \in 1 .. Len(sx) : m < n /\ k[i] = sx[m] /\ k[j] = sx[n]
      BY <2>0, <2>1, <2>2, <3>4 DEF Selects
    <3> QED  BY <2>1, <3>1, <3>2, <3>3, <3>4 DEF Selects
  <2> DEFINE kx == Append(k, x)
  <2>5. ASSUME x \in S PROVE kx \in Seq(A) /\ Selects(kx, sx, S)
    <3>1. kx \in Seq(A) /\ Len(kx) = Len(k) + 1 /\ kx[Len(k) + 1] = x
          /\ \A i \in 1 .. Len(k) : kx[i] = k[i]
      BY <2>1
    <3> HIDE DEF kx
    <3>2. Len(kx) <= Len(sx)  BY <2>0, <2>1, <2>2, <3>1 DEF Selects
    <3>3. ASSUME NEW i \in 1 .. Len(kx) PROVE kx[i] \in S /\ \E m \in 1 .. Len(sx) : kx[i] = sx[m]
      <4>1. CASE i = Len(k) + 1  BY <2>0, <2>2, <2>5, <3>1, <4>1
      <4>2. CASE i \in 1 .. Len(k)
        <5>1. kx[i] = k[i] /\ k[i] \in S  BY <2>1, <3>1, <4>2 DEF Selects
        <5>2. PICK m \in 1 .. Len(s) : k[i] = s[m]  BY <2>1, <4>2 DEF Selects
        <5> QED  BY <2>0, <2>2, <5>1, <5>2
      <4> QED  BY <2>0, <3>1, <4>1, <4>2
    <3>4. ASSUME NEW i \in 1 .. Len(sx), sx[i] \in S PROVE \E j \in 1 .. Len(kx) : kx[j] = sx[i]
      <4>1. CASE i = Len(s) + 1  BY <2>0, <2>2, <3>1, <4>1
      <4>2. CASE i \in 1 .. Len(s)
        <5>1. PICK j \in 1 .. Len(k) : k[j] = s[i]  BY <2>1, <2>2, <3>4, <4>2 DEF Selects
        <5> QED  BY <2>0, <2>2, <3>1, <4>2, <5>1
      <4> QED  BY <2>0, <2>2, <4>1, <4>2
    <3>5. ASSUME NEW i \in 1 .. Len(kx), NEW j \in 1 .. Len(kx), i < j
          PROVE \E m, n \in 1 .. Len(sx) : m < n /\ kx[i] = sx[m] /\ kx[j] = sx[n]
      <4>1. CASE j \in 1 .. Len(k)
        <5>1. i \in 1 .. Len(k)  BY <2>0, <3>5, <4>1
        <5>2. PICK m \in 1 .. Len(s), n \in 1 .. Len(s) : m < n /\ k[i] = s[m] /\ k[j] = s[n]
          BY <2>1, <3>5, <4>1, <5>1 DEF Selects
        <5>3. m \in 1 .. Len(sx) /\ n \in 1 .. Len(sx) /\ sx[m] = s[m] /\ sx[n] = s[n]
          BY <2>0, <2>2
        <5>4. kx[i] = k[i] /\ kx[j] = k[j]  BY <3>1, <4>1, <5>1
        <5> QED  BY <5>2, <5>3, <5>4
      <4>2. CASE j = Len(k) + 1
        <5>1. i \in 1 .. Len(k)  BY <2>0, <3>1, <3>5, <4>2
        <5>2. PICK m \in 1 .. Len(s) : k[i] = s[m]  BY <2>1, <5>1 DEF Selects
        <5> QED  BY <2>0, <2>2, <3>1, <4>2, <5>1, <5>2
      <4>3. j \in 1 .. Len(k) \/ j = Len(k) + 1  BY <2>0, <3>1
      <4> QED  BY <4>1, <4>2, <4>3
    <3> QED  BY <3>1, <3>2, <3>3, <3>4, <3>5 DEF Selects
  <2>6. Keep(sx, S) \in Seq(A) /\ Selects(Keep(sx, S), sx, S)  BY <2>3, <2>4, <2>5
  <2> QED  BY <2>2, <2>6 DEF sx
<1> HIDE DEF T
<1>3. Seq(A) \subseteq T  BY <1>1, <1>2, SequencesGrow
<1> QED  BY <1>3 DEF T

\* What is kept of a list whose elements are all wanted is the list.
LEMMA KeepAll ==
  ASSUME NEW A, NEW S
  PROVE  \A s \in Seq(A) : (\A i \in 1 .. Len(s) : s[i] \in S) => Keep(s, S) = s
<1> DEFINE T == {s \in Seq(A) : (\A i \in 1 .. Len(s) : s[i] \in S) => Keep(s, S) = s}
<1>1. <<>> \in T  BY KeepNone
<1>2. ASSUME NEW s \in Seq(A), NEW x \in A, s \in T PROVE Append(s, x) \in T
  <2> DEFINE sx == Append(s, x)
  <2>1. sx \in Seq(A) /\ Len(sx) = Len(s) + 1 /\ sx[Len(s) + 1] = x
        /\ \A i \in 1 .. Len(s) : sx[i] = s[i]
    OBVIOUS
  <2>2. Keep(sx, S) = IF x \in S THEN Append(Keep(s, S), x) ELSE Keep(s, S)  BY KeepAppend
  <2> HIDE DEF sx
  <2>3. ASSUME \A i \in 1 .. Len(sx) : sx[i] \in S PROVE Keep(sx, S) = sx
    <3>1. x \in S  BY <2>1, <2>3
    <3>2. \A i \in 1 .. Len(s) : s[i] \in S  BY <2>1, <2>3
    <3>3. Keep(s, S) = s  BY <1>2, <3>2
    <3> QED  BY <2>2, <3>1, <3>3 DEF sx
  <2>4. sx \in T  BY <2>1, <2>3
  <2> QED  BY <2>4 DEF sx
<1> HIDE DEF T
<1>3. Seq(A) \subseteq T  BY <1>1, <1>2, SequencesGrow
<1> QED  BY <1>3 DEF T

\* The list of f[x] for each x of s.
Mapped(s, f) == [i \in 1 .. Len(s) |-> f[s[i]]]

\* A list of values of f.
LEMMA MappedType ==
  ASSUME NEW A, NEW f, NEW B, \A x \in A : f[x] \in B, NEW s \in Seq(A)
  PROVE  Mapped(s, f) \in Seq(B)
BY DEF Mapped

\* An element more is a value more.
LEMMA MappedAppend ==
  ASSUME NEW A, NEW f, NEW s \in Seq(A), NEW x \in A
  PROVE  Mapped(Append(s, x), f) = Append(Mapped(s, f), f[x])
<1> DEFINE sx == Append(s, x)
           m == Mapped(s, f)
           B == {f[y] : y \in A}
<1>1. sx \in Seq(A) /\ Len(sx) = Len(s) + 1 /\ sx[Len(s) + 1] = x
      /\ \A i \in 1 .. Len(s) : sx[i] = s[i]
  OBVIOUS
<1>2. m \in Seq(B) /\ Len(m) = Len(s) /\ \A i \in 1 .. Len(s) : m[i] = f[s[i]]
  BY DEF Mapped
<1>3. Mapped(sx, f) \in Seq(B) /\ Len(Mapped(sx, f)) = Len(s) + 1
      /\ \A i \in 1 .. Len(s) + 1 : Mapped(sx, f)[i] = f[sx[i]]
  BY <1>1 DEF Mapped
<1>0. f[x] \in B  OBVIOUS
<1> HIDE DEF m, sx, B
<1>4. Append(m, f[x]) \in Seq(B) /\ Len(Append(m, f[x])) = Len(s) + 1
      /\ Append(m, f[x])[Len(s) + 1] = f[x]
      /\ \A i \in 1 .. Len(s) : Append(m, f[x])[i] = m[i]
  BY <1>0, <1>2
<1>5. \A i \in 1 .. Len(s) + 1 : Mapped(sx, f)[i] = Append(m, f[x])[i]
  <2>1. ASSUME NEW i \in 1 .. Len(s) + 1 PROVE Mapped(sx, f)[i] = Append(m, f[x])[i]
    <3>1. CASE i = Len(s) + 1  BY <1>1, <1>3, <1>4, <3>1
    <3>2. CASE i \in 1 .. Len(s)  BY <1>1, <1>2, <1>3, <1>4, <3>2
    <3>3. i = Len(s) + 1 \/ i \in 1 .. Len(s)  OBVIOUS
    <3> QED  BY <3>1, <3>2, <3>3
  <2> QED  BY <2>1
<1>6. Mapped(sx, f) = Append(m, f[x])  BY <1>3, <1>4, <1>5, SeqEqual
<1> QED  BY <1>6 DEF sx, m

\* What a map takes into S can be kept before or after: only what is in R can
\* get there, and g does there what f does.
LEMMA KeepMapped ==
  ASSUME NEW A, NEW f, NEW g, NEW R, NEW S,
         \A x \in A : f[x] \in S => x \in R,
         \A x \in A : x \in R => g[x] = f[x]
  PROVE  \A s \in Seq(A) : Keep(Mapped(s, f), S) = Keep(Mapped(Keep(s, R), g), S)
<1> DEFINE T == {s \in Seq(A) : Keep(Mapped(s, f), S) = Keep(Mapped(Keep(s, R), g), S)}
<1>1. <<>> \in T
  <2>1. Keep(<<>>, R) = <<>>  BY KeepNone
  <2>2. Mapped(<<>>, f) = <<>> /\ Mapped(<<>>, g) = <<>>  BY DEF Mapped
  <2> QED  BY <2>1, <2>2
<1>2. ASSUME NEW s \in Seq(A), NEW x \in A, s \in T PROVE Append(s, x) \in T
  <2> DEFINE k == Keep(s, R)
  <2>0. k \in Seq(A)  BY KeepSelects
  <2>1. Keep(Append(s, x), R) = IF x \in R THEN Append(k, x) ELSE k  BY KeepAppend
  <2> HIDE DEF k
  <2> DEFINE B == {f[y] : y \in A} \cup {g[y] : y \in A}
  <2>2. /\ Mapped(s, f) \in Seq(B) /\ f[x] \in B
        /\ Mapped(k, g) \in Seq(B) /\ g[x] \in B
    <3>1. (\A y \in A : f[y] \in B) /\ (\A y \in A : g[y] \in B)  OBVIOUS
    <3> HIDE DEF B
    <3> QED  BY <2>0, <3>1, MappedType
  <2> HIDE DEF B
  <2>3. Mapped(Append(s, x), f) = Append(Mapped(s, f), f[x])  BY MappedAppend
  <2>4. Mapped(Append(k, x), g) = Append(Mapped(k, g), g[x])  BY <2>0, MappedAppend
  <2>5. Keep(Append(Mapped(s, f), f[x]), S)
          = IF f[x] \in S THEN Append(Keep(Mapped(s, f), S), f[x]) ELSE Keep(Mapped(s, f), S)
    <3> DEFINE m == Mapped(s, f)
               y == f[x]
    <3>1. m \in Seq(B) /\ y \in B  BY <2>2
    <3> HIDE DEF m, y
    <3>2. Keep(Append(m, y), S) = IF y \in S THEN Append(Keep(m, S), y) ELSE Keep(m, S)
      BY <3>1, KeepAppend
    <3> QED  BY <3>2 DEF m, y
  <2>6. Keep(Append(Mapped(k, g), g[x]), S)
          = IF g[x] \in S THEN Append(Keep(Mapped(k, g), S), g[x]) ELSE Keep(Mapped(k, g), S)
    <3> DEFINE m == Mapped(k, g)
               y == g[x]
    <3>1. m \in Seq(B) /\ y \in B  BY <2>2
    <3> HIDE DEF m, y
    <3>2. Keep(Append(m, y), S) = IF y \in S THEN Append(Keep(m, S), y) ELSE Keep(m, S)
      BY <3>1, KeepAppend
    <3> QED  BY <3>2 DEF m, y
  <2>7. Keep(Mapped(s, f), S) = Keep(Mapped(k, g), S)  BY <1>2 DEF k
  <2>8. Keep(Mapped(Append(s, x), f), S) = Keep(Mapped(Keep(Append(s, x), R), g), S)
    <3>1. CASE x \in R  BY <2>1, <2>3, <2>4, <2>5, <2>6, <2>7, <3>1
    <3>2. CASE x \notin R  BY <2>1, <2>3, <2>5, <2>7, <3>2
    <3> QED  BY <3>1, <3>2
  <2> QED  BY <2>8
<1> HIDE DEF T
<1>3. Seq(A) \subseteq T  BY <1>1, <1>2, SequencesGrow
<1> QED  BY <1>3 DEF T

-----------------------------------------------------------------------------
(***************************************************************************)
(* Finite sets, and the sum of a function over one (SumFunctionOnSet).     *)
(***************************************************************************)
\* A finite set that is not empty is one element larger than without one.
LEMMA OneSmaller ==
  ASSUME NEW s, IsFiniteSet(s), NEW n \in Nat, Cardinality(s) = n + 1
  PROVE  /\ s # {}
         /\ \A x \in s : IsFiniteSet(s \ {x}) /\ Cardinality(s \ {x}) = n
<1>1. s # {}
  BY FS_EmptySet
<1>2. ASSUME NEW x \in s PROVE IsFiniteSet(s \ {x}) /\ Cardinality(s \ {x}) = n
  <2>1. Cardinality(s \ {x}) = Cardinality(s) - 1 /\ IsFiniteSet(s \ {x})
    BY FS_RemoveElement
  <2> QED  BY <2>1
<1> QED  BY <1>1, <1>2

\* A finite set is in T if the empty set is and T is closed under adding an
\* element.
LEMMA FiniteSetsGrow ==
  ASSUME NEW S, IsFiniteSet(S), NEW T, {} \in T,
         \A s \in SUBSET S, x \in S : s \in T /\ x \notin s => s \cup {x} \in T
  PROVE  S \in T
<1> DEFINE L == {n \in Nat : \A s \in SUBSET S : Cardinality(s) = n => s \in T}
<1>1. 0 \in L
  BY FS_Subset, FS_EmptySet
<1>2. ASSUME NEW n \in Nat, n \in L PROVE n + 1 \in L
  <2>1. ASSUME NEW s \in SUBSET S, Cardinality(s) = n + 1 PROVE s \in T
    <3>1. IsFiniteSet(s)
      BY FS_Subset
    <3>2. s # {} /\ \A x \in s : Cardinality(s \ {x}) = n
      BY <2>1, <3>1, OneSmaller
    <3>3. PICK x : x \in s
      BY <3>2
    <3>4. Cardinality(s \ {x}) = n
      BY <3>2, <3>3
    <3>5. s \ {x} \in T
      BY <1>2, <3>4
    <3>6. (s \ {x}) \cup {x} \in T
      BY <3>3, <3>5
    <3>7. (s \ {x}) \cup {x} = s
      BY <3>3
    <3> QED  BY <3>6, <3>7
  <2> QED  BY <2>1
<1> HIDE DEF L
<1>3. Nat \subseteq L
  BY <1>1, <1>2, NaturalsFollow
<1>4. Cardinality(S) \in L
  BY <1>3, FS_CardinalityType
<1> QED  BY <1>4 DEF L

\* The element a sum takes first.
Taken(s) == CHOOSE x \in s : TRUE

\* The partial sums over the subsets of a set, and over those of R.
AddsUp(g, f, R) ==
  \A s \in SUBSET R : g[s] = IF s = {} THEN 0 ELSE f[Taken(s)] + g[s \ {Taken(s)}]

PartialSums(g, f, D) ==
  g = [s \in D |-> IF s = {} THEN 0 ELSE f[Taken(s)] + g[s \ {Taken(s)}]]

\* The sum is what the fold over the set chooses.
LEMMA SumIsChosen ==
  ASSUME NEW f, NEW S
  PROVE  SumFunctionOnSet(f, S) = (CHOOSE g : PartialSums(g, f, SUBSET S))[S]
BY Zenon DEF SumFunctionOnSet, FoldFunctionOnSet, MapThenFoldSet, PartialSums, Taken

\* The fold takes an element of the set.
LEMMA TakenFrom ==
  ASSUME NEW s, s # {}
  PROVE  Taken(s) \in s
BY DEF Taken

\* There are such partial sums.
LEMMA SumsExist ==
  ASSUME NEW f, NEW S, IsFiniteSet(S)
  PROVE  \E g : PartialSums(g, f, SUBSET S)
<1> DEFINE D(n) == {s \in SUBSET S : Cardinality(s) <= n}
           T == {n \in Nat : \E g : PartialSums(g, f, D(n))}
<1>0. \A s \in SUBSET S :
        /\ IsFiniteSet(s) /\ Cardinality(s) \in Nat
        /\ Cardinality(s) = 0 <=> s = {}
        /\ s # {} => /\ Taken(s) \in s /\ s \ {Taken(s)} \in SUBSET S
                     /\ Cardinality(s \ {Taken(s)}) = Cardinality(s) - 1
  <2> TAKE s \in SUBSET S
  <2>1. IsFiniteSet(s) /\ Cardinality(s) \in Nat
    BY FS_Subset, FS_CardinalityType
  <2>2. Cardinality(s) = 0 <=> s = {}
    BY <2>1, FS_EmptySet
  <2>3. s # {} => Taken(s) \in s /\ s \ {Taken(s)} \in SUBSET S
    BY TakenFrom
  <2>4. s # {} => Cardinality(s \ {Taken(s)}) = Cardinality(s) - 1
    BY <2>1, <2>3, FS_RemoveElement
  <2> QED  BY <2>1, <2>2, <2>3, <2>4
<1>1. 0 \in T
  <2> DEFINE g == [s \in D(0) |-> 0]
  <2>1. ASSUME NEW s \in D(0) PROVE s = {}
    <3>1. s \in SUBSET S /\ Cardinality(s) <= 0
      OBVIOUS
    <3>2. Cardinality(s) \in Nat /\ (Cardinality(s) = 0 <=> s = {})
      BY <1>0, <3>1, Zenon
    <3> QED  BY <3>1, <3>2
  <2>2. PartialSums(g, f, D(0))
    <3>1. \A s \in D(0) : g[s] = IF s = {} THEN 0 ELSE f[Taken(s)] + g[s \ {Taken(s)}]
      BY <2>1
    <3>2. g = [s \in D(0) |-> g[s]]
      OBVIOUS
    <3> HIDE DEF g, D
    <3> QED  BY <3>1, <3>2, Zenon DEF PartialSums
  <2> HIDE DEF g, D
  <2> QED  BY <2>2
<1>2. ASSUME NEW n \in Nat, n \in T PROVE n + 1 \in T
  <2>1. PICK g : PartialSums(g, f, D(n))
    BY <1>2
  <2> DEFINE h == [s \in D(n + 1) |-> IF s \in D(n) THEN g[s]
                                      ELSE f[Taken(s)] + g[s \ {Taken(s)}]]
  <2>2. \A s \in D(n) : g[s] = IF s = {} THEN 0 ELSE f[Taken(s)] + g[s \ {Taken(s)}]
    <3> HIDE DEF D
    <3> QED  BY <2>1 DEF PartialSums
  <2>3. \A s \in D(n + 1) : s # {} => s \ {Taken(s)} \in D(n) /\ s \ {Taken(s)} \in D(n + 1)
    BY <1>0
  <2>4. {} \in D(n) /\ \A s \in D(n) : s \in D(n + 1)
    <3>1. {} \in D(n)
      BY FS_EmptySet
    <3>2. ASSUME NEW s \in D(n) PROVE s \in D(n + 1)
      <4>1. s \in SUBSET S /\ Cardinality(s) <= n
        OBVIOUS
      <4>2. Cardinality(s) \in Nat
        BY <1>0, <4>1, Zenon
      <4> QED  BY <4>1, <4>2
    <3> QED  BY <3>1, <3>2
  <2> HIDE DEF D
  <2>5. \A s \in D(n + 1) : h[s] = IF s = {} THEN 0 ELSE f[Taken(s)] + h[s \ {Taken(s)}]
    <3> TAKE s \in D(n + 1)
    <3>1. h[s] = IF s \in D(n) THEN g[s] ELSE f[Taken(s)] + g[s \ {Taken(s)}]
      OBVIOUS
    <3>2. s # {} => h[s \ {Taken(s)}] = g[s \ {Taken(s)}]
      BY <2>3
    <3> HIDE DEF h
    <3> QED  BY <2>2, <2>4, <3>1, <3>2
  <2>6. h = [s \in D(n + 1) |-> h[s]]
    OBVIOUS
  <2>7. PartialSums(h, f, D(n + 1))
    <3> HIDE DEF h
    <3> QED  BY <2>5, <2>6, Zenon DEF PartialSums
  <2> HIDE DEF h
  <2> QED  BY <2>7
<1> HIDE DEF T
<1>3. Nat \subseteq T
  BY <1>1, <1>2, NaturalsFollow
<1>4. Cardinality(S) \in Nat /\ Cardinality(S) \in T
  BY <1>3, FS_CardinalityType
<1>5. D(Cardinality(S)) = SUBSET S
  BY FS_Subset
<1> HIDE DEF D
<1> QED  BY <1>4, <1>5 DEF T

\* And they are determined.
LEMMA SumsUnique ==
  ASSUME NEW f, NEW R, IsFiniteSet(R), NEW g, NEW h, AddsUp(g, f, R), AddsUp(h, f, R)
  PROVE  g[R] = h[R]
<1> DEFINE L == {n \in Nat : \A s \in SUBSET R : Cardinality(s) = n => g[s] = h[s]}
<1>1. \A s \in SUBSET R : g[s] = IF s = {} THEN 0 ELSE f[Taken(s)] + g[s \ {Taken(s)}]
  BY DEF AddsUp
<1>2. \A s \in SUBSET R : h[s] = IF s = {} THEN 0 ELSE f[Taken(s)] + h[s \ {Taken(s)}]
  BY DEF AddsUp
<1>4. 0 \in L
  <2>1. ASSUME NEW s \in SUBSET R, Cardinality(s) = 0 PROVE g[s] = h[s]
    <3>1. s = {}
      BY <2>1, FS_Subset, FS_EmptySet
    <3> QED  BY <1>1, <1>2, <3>1
  <2> QED  BY <2>1
<1>5. ASSUME NEW n \in Nat, n \in L PROVE n + 1 \in L
  <2>1. ASSUME NEW s \in SUBSET R, Cardinality(s) = n + 1 PROVE g[s] = h[s]
    <3>1. IsFiniteSet(s)
      BY FS_Subset
    <3>2. s # {} /\ \A x \in s : Cardinality(s \ {x}) = n
      BY <2>1, <3>1, OneSmaller
    <3>3. Taken(s) \in s /\ s \ {Taken(s)} \in SUBSET R
      BY <3>2, TakenFrom
    <3>4. Cardinality(s \ {Taken(s)}) = n
      BY <3>2, <3>3
    <3>5. g[s \ {Taken(s)}] = h[s \ {Taken(s)}]
      BY <1>5, <3>3, <3>4
    <3> QED  BY <1>1, <1>2, <3>2, <3>5
  <2> QED  BY <2>1
<1> HIDE DEF L
<1>6. Nat \subseteq L
  BY <1>4, <1>5, NaturalsFollow
<1>7. Cardinality(R) \in L
  BY <1>6, FS_CardinalityType
<1> QED  BY <1>7 DEF L

\* Nothing adds up to nothing.
LEMMA SumEmpty ==
  ASSUME NEW f
  PROVE  SumFunctionOnSet(f, {}) = 0
<1> DEFINE g == CHOOSE gg : PartialSums(gg, f, SUBSET {})
<1>1. PartialSums(g, f, SUBSET {})
  BY SumsExist, FS_EmptySet
<1>2. SumFunctionOnSet(f, {}) = g[{}]
  BY SumIsChosen
<1> HIDE DEF g
<1> QED  BY <1>1, <1>2 DEF PartialSums

\* The sum takes the element the fold takes.
LEMMA SumStep ==
  ASSUME NEW f, NEW S, IsFiniteSet(S), S # {}
  PROVE  SumFunctionOnSet(f, S) = f[Taken(S)] + SumFunctionOnSet(f, S \ {Taken(S)})
<1> DEFINE R == S \ {Taken(S)}
           g == CHOOSE gg : PartialSums(gg, f, SUBSET S)
           h == CHOOSE gg : PartialSums(gg, f, SUBSET R)
<1>1. R \in SUBSET S /\ IsFiniteSet(R)
  BY FS_RemoveElement
<1>2. PartialSums(g, f, SUBSET S)
  BY SumsExist
<1>3. PartialSums(h, f, SUBSET R)
  <2> HIDE DEF R
  <2> QED  BY <1>1, SumsExist
<1>4. SumFunctionOnSet(f, S) = g[S] /\ SumFunctionOnSet(f, R) = h[R]
  BY SumIsChosen
<1> HIDE DEF g, h
<1>5. g[S] = f[Taken(S)] + g[R]
  BY <1>2 DEF PartialSums
<1> HIDE DEF R
<1>6. AddsUp(g, f, R) /\ AddsUp(h, f, R)
  BY <1>1, <1>2, <1>3 DEF PartialSums, AddsUp
<1>7. g[R] = h[R]
  BY <1>1, <1>6, SumsUnique
<1> QED  BY <1>4, <1>5, <1>7 DEF R

\* A sum over a finite set of integers is an integer.
LEMMA SumType ==
  ASSUME NEW f, NEW S, IsFiniteSet(S), \A x \in S : f[x] \in Int
  PROVE  SumFunctionOnSet(f, S) \in Int
<1> DEFINE L == {n \in Nat : \A s \in SUBSET S :
                               Cardinality(s) = n => SumFunctionOnSet(f, s) \in Int}
<1>1. 0 \in L
  <2>1. ASSUME NEW s \in SUBSET S, Cardinality(s) = 0 PROVE SumFunctionOnSet(f, s) \in Int
    <3>1. s = {}
      BY <2>1, FS_Subset, FS_EmptySet
    <3>2. SumFunctionOnSet(f, {}) = 0
      BY SumEmpty
    <3> QED  BY <3>1, <3>2
  <2> QED  BY <2>1
<1>2. ASSUME NEW n \in Nat, n \in L PROVE n + 1 \in L
  <2>1. ASSUME NEW s \in SUBSET S, Cardinality(s) = n + 1
        PROVE  SumFunctionOnSet(f, s) \in Int
    <3>1. IsFiniteSet(s)
      BY FS_Subset
    <3>2. s # {} /\ \A x \in s : Cardinality(s \ {x}) = n
      BY <2>1, <3>1, OneSmaller
    <3>3. Taken(s) \in s
      BY <3>2, TakenFrom
    <3>4. SumFunctionOnSet(f, s) = f[Taken(s)] + SumFunctionOnSet(f, s \ {Taken(s)})
      BY <3>1, <3>2, SumStep
    <3>5. Cardinality(s \ {Taken(s)}) = n /\ s \ {Taken(s)} \in SUBSET S
      BY <3>2, <3>3
    <3>6. SumFunctionOnSet(f, s \ {Taken(s)}) \in Int
      BY <1>2, <3>5
    <3>7. f[Taken(s)] \in Int
      BY <3>3
    <3> QED  BY <3>4, <3>6, <3>7
  <2> QED  BY <2>1
<1> HIDE DEF L
<1>3. Nat \subseteq L
  BY <1>1, <1>2, NaturalsFollow
<1>4. Cardinality(S) \in L
  BY <1>3, FS_CardinalityType
<1> QED  BY <1>4 DEF L

\* A sum may take any of its elements first.
LEMMA SumTakes ==
  ASSUME NEW f, NEW S, IsFiniteSet(S), \A x \in S : f[x] \in Int, NEW y \in S
  PROVE  SumFunctionOnSet(f, S) = f[y] + SumFunctionOnSet(f, S \ {y})
<1> DEFINE Takes(s) == \A x \in s : SumFunctionOnSet(f, s) = f[x] + SumFunctionOnSet(f, s \ {x})
           L == {n \in Nat : \A s \in SUBSET S : Cardinality(s) = n => Takes(s)}
<1>1. 0 \in L
  <2>1. ASSUME NEW s \in SUBSET S, Cardinality(s) = 0 PROVE Takes(s)
    <3>1. s = {}
      BY <2>1, FS_Subset, FS_EmptySet
    <3> QED  BY <3>1
  <2> HIDE DEF Takes
  <2> QED  BY <2>1
<1>2. ASSUME NEW n \in Nat, n \in L PROVE n + 1 \in L
  <2>1. ASSUME NEW s \in SUBSET S, Cardinality(s) = n + 1, NEW x \in s
        PROVE  SumFunctionOnSet(f, s) = f[x] + SumFunctionOnSet(f, s \ {x})
    <3> DEFINE w == Taken(s)
               a == s \ {w}
               b == s \ {x}
               c == a \ {x}
    <3>1. IsFiniteSet(s)
      BY FS_Subset
    <3>2. s # {} /\ \A z \in s : IsFiniteSet(s \ {z}) /\ Cardinality(s \ {z}) = n
      BY <2>1, <3>1, OneSmaller
    <3>3. w \in s
      BY <3>2, TakenFrom
    <3>4. SumFunctionOnSet(f, s) = f[w] + SumFunctionOnSet(f, a)
      BY <3>1, <3>2, SumStep
    <3> HIDE DEF w
    <3>5. CASE x = w
      BY <3>4, <3>5
    <3>6. CASE x # w
      <4>1. Takes(a) /\ Takes(b)
        <5>1. Cardinality(a) = n /\ Cardinality(b) = n
          BY <3>2, <3>3
        <5>2. a \in SUBSET S /\ b \in SUBSET S
          OBVIOUS
        <5> HIDE DEF a, b, Takes
        <5> QED  BY <1>2, <5>1, <5>2
      <4>2. x \in a /\ w \in b /\ b \ {w} = c
        BY <3>3, <3>6
      <4>3. SumFunctionOnSet(f, a) = f[x] + SumFunctionOnSet(f, c)
        <5> HIDE DEF a
        <5> QED  BY <4>1, <4>2
      <4>4. SumFunctionOnSet(f, b) = f[w] + SumFunctionOnSet(f, c)
        <5> HIDE DEF b, c
        <5> QED  BY <4>1, <4>2
      <4>5. f[x] \in Int /\ f[w] \in Int
        BY <3>3
      <4>6. SumFunctionOnSet(f, c) \in Int
        <5>1. IsFiniteSet(c) /\ \A z \in c : f[z] \in Int
          BY FS_Subset
        <5> HIDE DEF c
        <5> QED  BY <5>1, SumType
      <4> HIDE DEF a, b, c
      <4>7. SumFunctionOnSet(f, s) = f[x] + SumFunctionOnSet(f, b)
        BY <3>4, <4>3, <4>4, <4>5, <4>6
      <4> QED  BY <4>7 DEF b
    <3> QED  BY <3>5, <3>6
  <2> QED  BY <2>1
<1> HIDE DEF L
<1>3. Nat \subseteq L
  BY <1>1, <1>2, NaturalsFollow
<1>4. Cardinality(S) \in L
  BY <1>3, FS_CardinalityType
<1> QED  BY <1>4 DEF L

\* Adding an element adds its term.
LEMMA SumAdd ==
  ASSUME NEW f, NEW S, IsFiniteSet(S), NEW y, y \notin S, \A x \in S \cup {y} : f[x] \in Int
  PROVE  SumFunctionOnSet(f, S \cup {y}) = f[y] + SumFunctionOnSet(f, S)
<1> DEFINE R == S \cup {y}
<1>1. IsFiniteSet(R)
  BY FS_AddElement
<1>2. y \in R /\ R \ {y} = S /\ \A x \in R : f[x] \in Int
  OBVIOUS
<1> HIDE DEF R
<1>3. SumFunctionOnSet(f, R) = f[y] + SumFunctionOnSet(f, R \ {y})
  BY <1>1, <1>2, SumTakes
<1> QED  BY <1>2, <1>3 DEF R

\* Terms that are equal have equal sums.
LEMMA SumSame ==
  ASSUME NEW f, NEW g, NEW S, IsFiniteSet(S),
         \A x \in S : f[x] \in Int /\ g[x] = f[x]
  PROVE  SumFunctionOnSet(g, S) = SumFunctionOnSet(f, S)
<1> DEFINE T == {s \in SUBSET S : SumFunctionOnSet(g, s) = SumFunctionOnSet(f, s)}
<1>1. {} \in T
  BY SumEmpty
<1>2. ASSUME NEW s \in SUBSET S, NEW x \in S, s \in T, x \notin s PROVE s \cup {x} \in T
  <2>1. IsFiniteSet(s)
    BY FS_Subset
  <2>2. SumFunctionOnSet(f, s \cup {x}) = f[x] + SumFunctionOnSet(f, s)
    BY <1>2, <2>1, SumAdd
  <2>3. SumFunctionOnSet(g, s \cup {x}) = g[x] + SumFunctionOnSet(g, s)
    BY <1>2, <2>1, SumAdd
  <2> QED  BY <1>2, <2>2, <2>3
<1> HIDE DEF T
<1>3. S \in T
  BY <1>1, <1>2, FiniteSetsGrow
<1> QED  BY <1>3 DEF T

\* The sum of sums, term by term.
LEMMA SumPlus ==
  ASSUME NEW f, NEW g, NEW h, NEW S, IsFiniteSet(S),
         \A x \in S : f[x] \in Int /\ g[x] \in Int /\ h[x] = f[x] + g[x]
  PROVE  SumFunctionOnSet(h, S) = SumFunctionOnSet(f, S) + SumFunctionOnSet(g, S)
<1> DEFINE T == {s \in SUBSET S :
                  SumFunctionOnSet(h, s) = SumFunctionOnSet(f, s) + SumFunctionOnSet(g, s)}
<1>1. {} \in T
  BY SumEmpty
<1>2. ASSUME NEW s \in SUBSET S, NEW x \in S, s \in T, x \notin s PROVE s \cup {x} \in T
  <2>1. IsFiniteSet(s)
    BY FS_Subset
  <2>2. SumFunctionOnSet(f, s) \in Int /\ SumFunctionOnSet(g, s) \in Int
    BY <2>1, SumType
  <2>3. SumFunctionOnSet(f, s \cup {x}) = f[x] + SumFunctionOnSet(f, s)
    BY <1>2, <2>1, SumAdd
  <2>4. SumFunctionOnSet(g, s \cup {x}) = g[x] + SumFunctionOnSet(g, s)
    BY <1>2, <2>1, SumAdd
  <2>5. SumFunctionOnSet(h, s \cup {x}) = h[x] + SumFunctionOnSet(h, s)
    <3>1. \A y \in s \cup {x} : h[y] \in Int
      OBVIOUS
    <3> QED  BY <1>2, <2>1, <3>1, SumAdd
  <2> QED  BY <1>2, <2>2, <2>3, <2>4, <2>5
<1> HIDE DEF T
<1>3. S \in T
  BY <1>1, <1>2, FiniteSetsGrow
<1> QED  BY <1>3 DEF T

\* The sum over two sets apart is the sum of their sums.
LEMMA SumApart ==
  ASSUME NEW f, NEW S, IsFiniteSet(S), NEW R, IsFiniteSet(R), R \cap S = {},
         \A x \in R \cup S : f[x] \in Int
  PROVE  SumFunctionOnSet(f, R \cup S) = SumFunctionOnSet(f, R) + SumFunctionOnSet(f, S)
<1> DEFINE T == {s \in SUBSET S :
                  SumFunctionOnSet(f, R \cup s) = SumFunctionOnSet(f, R) + SumFunctionOnSet(f, s)}
<1>0. SumFunctionOnSet(f, R) \in Int
  BY SumType
<1>1. {} \in T
  <2>1. R \cup {} = R
    OBVIOUS
  <2> QED  BY <1>0, <2>1, SumEmpty
<1>2. ASSUME NEW s \in SUBSET S, NEW x \in S, s \in T, x \notin s PROVE s \cup {x} \in T
  <2> DEFINE r == R \cup s
  <2>1. R \cup (s \cup {x}) = r \cup {x} /\ x \notin r
    BY <1>2
  <2>2. IsFiniteSet(s) /\ IsFiniteSet(r)
    BY FS_Subset, FS_Union
  <2>3. SumFunctionOnSet(f, r) = SumFunctionOnSet(f, R) + SumFunctionOnSet(f, s)
    BY <1>2
  <2>4. \A y \in r \cup {x} : f[y] \in Int
    OBVIOUS
  <2> HIDE DEF r
  <2>5. SumFunctionOnSet(f, r \cup {x}) = f[x] + SumFunctionOnSet(f, r)
    BY <2>1, <2>2, <2>4, SumAdd
  <2>6. SumFunctionOnSet(f, s \cup {x}) = f[x] + SumFunctionOnSet(f, s)
    BY <1>2, <2>2, SumAdd
  <2>7. SumFunctionOnSet(f, s) \in Int /\ f[x] \in Int
    BY <2>2, SumType
  <2>8. SumFunctionOnSet(f, r \cup {x}) = SumFunctionOnSet(f, R) + SumFunctionOnSet(f, s \cup {x})
    BY <1>0, <2>3, <2>5, <2>6, <2>7
  <2> QED  BY <2>1, <2>8
<1> HIDE DEF T
<1>3. S \in T
  BY <1>1, <1>2, FiniteSetsGrow
<1> QED  BY <1>3 DEF T

\* Each j has a part of its own.
Parts(P, J, S) ==
  /\ \A j \in J : P[j] \in SUBSET S
  /\ \A i, j \in J : i # j => P[i] \cap P[j] = {}

\* The sum of the sums over parts is the sum over all of them.
LEMMA SumOfSums ==
  ASSUME NEW f, NEW S, IsFiniteSet(S), \A x \in S : f[x] \in Int,
         NEW J, IsFiniteSet(J), NEW P, Parts(P, J, S),
         NEW h, \A j \in J : h[j] = SumFunctionOnSet(f, P[j])
  PROVE  SumFunctionOnSet(h, J) = SumFunctionOnSet(f, UNION {P[j] : j \in J})
<1> DEFINE all(s) == UNION {P[j] : j \in s}
           T == {s \in SUBSET J : SumFunctionOnSet(h, s) = SumFunctionOnSet(f, all(s))}
<1>0. ASSUME NEW j \in J PROVE IsFiniteSet(P[j]) /\ P[j] \in SUBSET S /\ h[j] \in Int
  <2>1. P[j] \in SUBSET S
    BY DEF Parts
  <2>2. IsFiniteSet(P[j])
    BY <2>1, FS_Subset
  <2>3. SumFunctionOnSet(f, P[j]) \in Int
    BY <2>1, <2>2, SumType
  <2> QED  BY <2>1, <2>2, <2>3
<1>1. {} \in T
  <2>1. all({}) = {}
    OBVIOUS
  <2> QED  BY <2>1, SumEmpty
<1>2. ASSUME NEW s \in SUBSET J, NEW x \in J, s \in T, x \notin s PROVE s \cup {x} \in T
  <2>1. all(s \cup {x}) = P[x] \cup all(s)
    OBVIOUS
  <2>2. all(s) \in SUBSET S
    BY <1>0
  <2>3. P[x] \cap all(s) = {}
    BY <1>2 DEF Parts
  <2>4. SumFunctionOnSet(h, s) = SumFunctionOnSet(f, all(s))
    BY <1>2
  <2>5. SumFunctionOnSet(h, s \cup {x}) = h[x] + SumFunctionOnSet(h, s)
    <3>1. IsFiniteSet(s) /\ \A y \in s \cup {x} : h[y] \in Int
      BY <1>0, FS_Subset
    <3> QED  BY <1>2, <3>1, SumAdd
  <2> HIDE DEF all
  <2>6. SumFunctionOnSet(f, P[x] \cup all(s)) = SumFunctionOnSet(f, P[x]) + SumFunctionOnSet(f, all(s))
    <3>1. IsFiniteSet(all(s)) /\ IsFiniteSet(P[x]) /\ \A y \in P[x] \cup all(s) : f[y] \in Int
      BY <1>0, <2>2, FS_Subset
    <3> QED  BY <2>3, <3>1, SumApart
  <2>7. SumFunctionOnSet(h, s \cup {x}) = SumFunctionOnSet(f, all(s \cup {x}))
    BY <2>1, <2>4, <2>5, <2>6
  <2> QED  BY <2>7
<1> HIDE DEF T
<1>3. J \in T
  BY <1>1, <1>2, FiniteSetsGrow
<1> QED  BY <1>3 DEF T

\* A finite set that is not empty has a first element in any order that is total.
TotalOn(R, S) ==
  /\ \A x, y \in S : <<x, y>> \in R \/ <<y, x>> \in R
  /\ \A x, y, z \in S : <<x, y>> \in R /\ <<y, z>> \in R => <<x, z>> \in R

\* In such an order there is a first element.
LEMMA FirstElement ==
  ASSUME NEW S, IsFiniteSet(S), S # {}, NEW R, TotalOn(R, S)
  PROVE  \E x \in S : \A y \in S : <<x, y>> \in R
<1> DEFINE T == {s \in SUBSET S : s # {} => \E x \in s : \A y \in s : <<x, y>> \in R}
<1>1. {} \in T
  OBVIOUS
<1>2. ASSUME NEW s \in SUBSET S, NEW x \in S, s \in T, x \notin s PROVE s \cup {x} \in T
  <2>1. <<x, x>> \in R
    BY DEF TotalOn
  <2>2. CASE s = {}
    BY <2>1, <2>2
  <2>3. CASE s # {}
    <3>1. PICK w \in s : \A y \in s : <<w, y>> \in R
      BY <1>2, <2>3
    <3>2. CASE <<w, x>> \in R
      BY <3>1, <3>2
    <3>3. CASE <<x, w>> \in R
      <4>1. \A y \in s : <<x, y>> \in R
        BY <3>1, <3>3 DEF TotalOn
      <4> QED  BY <2>1, <4>1
    <3>4. <<w, x>> \in R \/ <<x, w>> \in R
      BY DEF TotalOn
    <3> QED  BY <3>2, <3>3, <3>4
  <2> QED  BY <2>2, <2>3
<1> HIDE DEF T
<1>3. S \in T
  BY <1>1, <1>2, FiniteSetsGrow
<1> QED  BY <1>3 DEF T
=============================================================================
