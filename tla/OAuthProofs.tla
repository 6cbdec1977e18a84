----------------------------- MODULE OAuthProofs ----------------------------
(***************************************************************************)
(* Proofs about the OAuth code, for texts of any length: the loop over     *)
(* strtok that splits a text, base 64, the hash of a body and the          *)
(* comparison of signatures.                                               *)
(*                                                                         *)
(* They need recursion and induction over the length of a text.  The       *)
(* module begins with a form of these that is about sets and functions.    *)
(***************************************************************************)
EXTENDS MCOAuth, OAuthSplit, FiniteSetTheorems, WellFoundedInduction, SequenceTheorems, TLAPS


-----------------------------------------------------------------------------
(* Recursion.  The induction theorems of the library are for an operator,  *)
(* which the provers cannot put in place; these are for sets and functions.*)

\* A set of numbers has a least one.
LEMMA LeastNumber ==
  ASSUME NEW T \in SUBSET Nat, T # {}
  PROVE  \E x \in T : \A y \in T : x <= y
<1> DEFINE Up == {0 .. x : x \in T}
           R == StrictSubsetOrdering(Nat)
           S == FiniteSubsetsOf(Nat)
<1>1. Up \subseteq S /\ Up # {}
  <2>1. \A x \in T : IsFiniteSet(0 .. x)
    BY FS_Interval
  <2>2. \A x \in T : 0 .. x \in SUBSET Nat
    OBVIOUS
  <2>. QED
    BY <2>1, <2>2 DEF FiniteSubsetsOf
<1>2. \E U \in Up : \A V \in Up : <<V, U>> \notin R
  <2>1. IsWellFoundedOn(R, S)
    BY FS_StrictSubsetOrderingWellFounded
  <2> HIDE DEF R, S, Up
  <2>. QED
    BY <1>1, <2>1, WFMin
<1>3. PICK x \in T : \A y \in T : <<0 .. y, 0 .. x>> \notin R
  BY <1>2
<1>4. ASSUME NEW y \in T, y < x PROVE FALSE
  <2>1. 0 .. y \in SUBSET Nat /\ 0 .. x \in SUBSET Nat
    OBVIOUS
  <2>2. 0 .. y \subseteq 0 .. x /\ x \in 0 .. x /\ x \notin 0 .. y
    BY <1>4
  <2>. QED
    BY <1>3, <2>1, <2>2 DEF StrictSubsetOrdering
<1>. QED
  BY <1>4

\* Induction for a set of numbers.
LEMMA NumberInduction ==
  ASSUME NEW T, 0 \in T, \A n \in Nat : n \in T => n + 1 \in T
  PROVE  \A n \in Nat : n \in T
<1> DEFINE U == {n \in Nat : n \notin T}
<1>1. ASSUME U # {} PROVE FALSE
  <2>1. PICK x \in U : \A y \in U : x <= y
    BY <1>1, LeastNumber
  <2>2. x - 1 \in Nat /\ x - 1 \notin U
    BY <2>1
  <2>. QED
    BY <2>1, <2>2
<1>. QED
  BY <1>1

\* A function on the numbers that is given by its first value and by each
\* value from the one before.
Follows(f, base, step) ==
  f[0] = base /\ \A n \in Nat : f[n + 1] = step[<<n, f[n]>>]

LEMMA Recursion ==
  ASSUME NEW T, NEW base \in T, NEW step \in [Nat \X T -> T]
  PROVE  \E f \in [Nat -> T] : Follows(f, base, step)
<1> DEFINE Upto(g, n) == /\ g \in [0 .. n -> T] /\ g[0] = base
                         /\ \A i \in 0 .. n - 1 : g[i + 1] = step[<<i, g[i]>>]
<1>1. \A n \in Nat : \E g : Upto(g, n)
  <2> DEFINE Have == {n \in Nat : \E g : Upto(g, n)}
  <2>1. 0 \in Have
    <3>1. Upto([i \in 0 .. 0 |-> base], 0)
      OBVIOUS
    <3>. QED
      BY <3>1
  <2>2. ASSUME NEW n \in Nat, n \in Have PROVE n + 1 \in Have
    <3>1. PICK g : Upto(g, n)
      BY <2>2
    <3> DEFINE h == [i \in 0 .. n + 1 |-> IF i = n + 1 THEN step[<<n, g[n]>>] ELSE g[i]]
    <3>2. g[n] \in T /\ step[<<n, g[n]>>] \in T
      BY <3>1
    <3>3. h \in [0 .. n + 1 -> T]
      BY <3>1, <3>2
    <3>4. h[0] = base
      BY <3>1
    <3>5. ASSUME NEW i \in 0 .. n + 1 - 1 PROVE h[i + 1] = step[<<i, h[i]>>]
      <4>1. CASE i = n
        <5>1. n # n + 1 /\ n \in 0 .. n + 1 /\ n + 1 \in 0 .. n + 1
          OBVIOUS
        <5>2. h[n + 1] = step[<<n, g[n]>>] /\ h[n] = g[n]
          BY <5>1, Zenon
        <5>. QED
          BY <4>1, <5>2
      <4>2. CASE i # n
        <5>1. i \in 0 .. n - 1 /\ i + 1 # n + 1 /\ i # n + 1 /\ i + 1 \in 0 .. n + 1
          BY <4>2
        <5>2. h[i + 1] = g[i + 1] /\ h[i] = g[i]
          BY <5>1
        <5>3. g[i + 1] = step[<<i, g[i]>>]
          BY <3>1, <5>1
        <5>. QED
          BY <5>2, <5>3
      <4>. QED
        BY <4>1, <4>2
    <3> HIDE DEF h
    <3>6. Upto(h, n + 1)
      BY <3>3, <3>4, <3>5
    <3>. QED
      BY <3>6
  <2> HIDE DEF Have
  <2>3. \A n \in Nat : n \in Have
    BY <2>1, <2>2, NumberInduction
  <2>. QED
    BY <2>3 DEF Have
<1>2. ASSUME NEW g, NEW h, NEW m \in Nat, NEW n \in Nat, Upto(g, m), Upto(h, n), m <= n
      PROVE  g[m] = h[m]
  <2> DEFINE Same == {i \in Nat : i <= m => g[i] = h[i]}
  <2>1. 0 \in Same
    BY <1>2
  <2>2. ASSUME NEW i \in Nat, i \in Same PROVE i + 1 \in Same
    <3>1. SUFFICES ASSUME i + 1 <= m PROVE g[i + 1] = h[i + 1]
      OBVIOUS
    <3>2. i \in 0 .. m - 1 /\ i \in 0 .. n - 1
      BY <1>2, <3>1
    <3>3. g[i] = h[i]
      BY <2>2, <3>1
    <3>4. g[i + 1] = step[<<i, g[i]>>] /\ h[i + 1] = step[<<i, h[i]>>]
      BY <1>2, <3>2
    <3>. QED
      BY <3>3, <3>4
  <2> HIDE DEF Same
  <2>3. \A i \in Nat : i \in Same
    BY <2>1, <2>2, NumberInduction
  <2>. QED
    BY <2>3 DEF Same
<1> DEFINE of(n) == CHOOSE g : Upto(g, n)
           f == [n \in Nat |-> of(n)[n]]
<1>3. \A n \in Nat : Upto(of(n), n)
  BY <1>1
<1> HIDE DEF of
<1>4. f \in [Nat -> T]
  <2>1. \A n \in Nat : of(n)[n] \in T
    BY <1>3
  <2>. QED
    BY <2>1
<1>5. f[0] = base
  BY <1>3
<1>6. ASSUME NEW n \in Nat PROVE f[n + 1] = step[<<n, f[n]>>]
  <2>0. n + 1 \in Nat /\ n <= n + 1 /\ n \in 0 .. n + 1 - 1
    OBVIOUS
  <2>1. Upto(of(n), n) /\ Upto(of(n + 1), n + 1)
    BY <1>3, <2>0
  <2>2. of(n + 1)[n + 1] = step[<<n, of(n + 1)[n]>>]
    BY <2>0, <2>1
  <2>3. of(n)[n] = of(n + 1)[n]
    <3> HIDE DEF Upto
    <3>. QED
      BY <1>2, <2>0, <2>1
  <2>. QED
    BY <2>0, <2>2, <2>3
<1> HIDE DEF f
<1>7. Follows(f, base, step)
  BY <1>5, <1>6 DEF Follows
<1>. QED
  BY <1>4, <1>7

-----------------------------------------------------------------------------
(* Concatenation of many sequences.                                        *)

\* fl[n] is the concatenation of the first n of seqs.
Joins(fl, seqs) ==
  /\ fl[0] = <<>>
  /\ \A i \in 0 .. Len(seqs) - 1 : fl[i + 1] = fl[i] \o seqs[i + 1]

LEMMA JoinsExist ==
  ASSUME NEW S, NEW seqs \in Seq(Seq(S))
  PROVE  \E fl \in [0 .. Len(seqs) -> Seq(S)] : Joins(fl, seqs)
<1> DEFINE N == Len(seqs)
           step == [p \in Nat \X Seq(S) |->
                      IF p[1] + 1 \in 1 .. N THEN p[2] \o seqs[p[1] + 1] ELSE p[2]]
<1>0. N \in Nat /\ \A i \in 1 .. N : seqs[i] \in Seq(S)
  BY LenProperties, ElementOfSeq
<1>1. step \in [Nat \X Seq(S) -> Seq(S)]
  <2>1. ASSUME NEW p \in Nat \X Seq(S), p[1] + 1 \in 1 .. N
        PROVE  p[2] \o seqs[p[1] + 1] \in Seq(S)
    BY <1>0, <2>1, ConcatProperties
  <2>. QED
    BY <2>1
<1>2. PICK f \in [Nat -> Seq(S)] : Follows(f, <<>>, step)
  <2> DEFINE base == <<>>
             T == Seq(S)
  <2>1. base \in T /\ step \in [Nat \X T -> T]
    BY <1>1, EmptySeq
  <2> HIDE DEF step, base, T
  <2>2. \E f \in [Nat -> T] : Follows(f, base, step)
    BY <2>1, Recursion
  <2>. QED
    BY <2>2 DEF base, T
<1>3. ASSUME NEW i \in 0 .. N - 1 PROVE f[i + 1] = f[i] \o seqs[i + 1]
  <2>0. i \in Nat /\ i + 1 \in 1 .. N
    BY <1>0
  <2>1. <<i, f[i]>> \in Nat \X Seq(S)
    BY <2>0
  <2>2. f[i + 1] = step[<<i, f[i]>>]
    BY <1>2, <2>0 DEF Follows
  <2>. QED
    BY <2>0, <2>1, <2>2
<1> HIDE DEF step
<1> DEFINE fl == [i \in 0 .. N |-> f[i]]
<1>4. fl \in [0 .. N -> Seq(S)]
  <2>1. \A i \in 0 .. N : f[i] \in Seq(S)
    OBVIOUS
  <2>. QED
    BY <2>1
<1>5. Joins(fl, seqs)
  <2>1. fl[0] = <<>>
    BY <1>0, <1>2 DEF Follows
  <2>2. ASSUME NEW i \in 0 .. N - 1 PROVE fl[i + 1] = fl[i] \o seqs[i + 1]
    <3>1. i \in 0 .. N /\ i + 1 \in 0 .. N
      BY <1>0
    <3>. QED
      BY <1>3, <3>1
  <2> HIDE DEF fl
  <2>. QED
    BY <2>1, <2>2 DEF Joins
<1> HIDE DEF fl
<1>. QED
  BY <1>4, <1>5

LEMMA FlattenIsJoined ==
  ASSUME NEW S, NEW seqs \in Seq(Seq(S)),
         NEW fl \in [0 .. Len(seqs) -> Seq(S)], Joins(fl, seqs)
  PROVE  FlattenSeq(seqs) = fl[Len(seqs)]
<1> DEFINE N == Len(seqs)
<1>0. N \in Nat /\ (\A i \in 1 .. N : seqs[i] \in Seq(S)) /\ fl[0] = <<>>
  BY LenProperties, ElementOfSeq DEF Joins
<1>1. CASE N = 0
  <2>1. seqs = <<>>
    BY <1>1, EmptySeq
  <2>2. FlattenSeq(seqs) = seqs
    BY <1>1 DEF FlattenSeq
  <2>. QED
    BY <1>0, <1>1, <2>1, <2>2
<1>2. CASE N # 0
  <2> DEFINE Flat(g) == g = [i \in 1 .. N |-> IF i = 1 THEN seqs[i] ELSE g[i - 1] \o seqs[i]]
             g0 == [i \in 1 .. N |-> fl[i]]
             g1 == CHOOSE g : Flat(g)
  <2>0. FlattenSeq(seqs) = g1[N]
    BY <1>2, Zenon DEF FlattenSeq
  <2>1. ASSUME NEW i \in 1 .. N
        PROVE  fl[i] = IF i = 1 THEN seqs[i] ELSE fl[i - 1] \o seqs[i]
    <3>1. i - 1 \in 0 .. N - 1 /\ (i - 1) + 1 = i
      BY <1>0
    <3>2. \A j \in 0 .. N - 1 : fl[j + 1] = fl[j] \o seqs[j + 1]
      BY DEF Joins
    <3>3. fl[i] = fl[i - 1] \o seqs[i]
      <4>1. fl[(i - 1) + 1] = fl[i - 1] \o seqs[(i - 1) + 1]
        BY <3>1, <3>2, Zenon
      <4>. QED
        BY <3>1, <4>1, Zenon
    <3>4. CASE i = 1
      <4>1. seqs[1] \in Seq(S) /\ i - 1 = 0
        BY <1>0, <3>4
      <4>2. fl[0] \o seqs[1] = seqs[1]
        BY <1>0, <4>1, ConcatEmptySeq
      <4>. QED
        BY <3>3, <3>4, <4>1, <4>2, Zenon
    <3>. QED
      BY <3>3, <3>4, Zenon
  <2>2. Flat(g0)
    <3>1. ASSUME NEW i \in 1 .. N
          PROVE  fl[i] = IF i = 1 THEN seqs[i] ELSE g0[i - 1] \o seqs[i]
      <4>1. i = 1 \/ i - 1 \in 1 .. N
        BY <1>0
      <4>2. i # 1 => g0[i - 1] = fl[i - 1]
        BY <4>1, Zenon
      <4>. QED
        BY <2>1, <4>2, Zenon
    <3> DEFINE other == [i \in 1 .. N |-> IF i = 1 THEN seqs[i] ELSE g0[i - 1] \o seqs[i]]
    <3>2. DOMAIN g0 = 1 .. N /\ DOMAIN other = 1 .. N
      BY Zenon
    <3>3. \A i \in 1 .. N : g0[i] = other[i]
      BY <3>1, Zenon
    <3>4. g0 = [i \in DOMAIN g0 |-> g0[i]] /\ other = [i \in DOMAIN other |-> other[i]]
      OBVIOUS
    <3> HIDE DEF g0, other
    <3>5. g0 = other
      BY <3>2, <3>3, <3>4, Zenon
    <3>. QED
      BY <3>5, Zenon DEF other
  <2>3. Flat(g1)
    BY <2>2, Zenon
  <2>4. \A i \in 1 .. N : g1[i] = IF i = 1 THEN seqs[i] ELSE g1[i - 1] \o seqs[i]
    <3> HIDE DEF g1
    <3>. QED
      BY <2>3, Zenon
  <2> DEFINE Same == {j \in Nat : j \in 1 .. N => g1[j] = fl[j]}
  <2> HIDE DEF g0, g1
  <2>5. \A i \in Nat : i \in Same
    <3>1. 0 \in Same
      OBVIOUS
    <3>2. ASSUME NEW i \in Nat, i \in Same PROVE i + 1 \in Same
      <4>1. SUFFICES ASSUME i + 1 \in 1 .. N PROVE g1[i + 1] = fl[i + 1]
        OBVIOUS
      <4>2. CASE i = 0
        BY <2>1, <2>4, <4>1, <4>2
      <4>3. CASE i # 0
        <5>1. g1[i] = fl[i] /\ i + 1 # 1 /\ (i + 1) - 1 = i
          BY <1>0, <3>2, <4>1, <4>3
        <5>. QED
          BY <2>1, <2>4, <4>1, <5>1
      <4>. QED
        BY <4>2, <4>3
    <3> HIDE DEF Same
    <3>. QED
      BY <3>1, <3>2, NumberInduction
  <2>6. N \in Nat /\ N \in 1 .. N
    BY <1>0, <1>2
  <2>. QED
    BY <2>0, <2>5, <2>6
<1>. QED
  BY <1>1, <1>2

LEMMA FlattenJoins ==
  ASSUME NEW S, NEW seqs \in Seq(Seq(S))
  PROVE  \E fl \in [0 .. Len(seqs) -> Seq(S)] : Joins(fl, seqs) /\ FlattenSeq(seqs) = fl[Len(seqs)]
  BY JoinsExist, FlattenIsJoined

\* What is joined of the first n does not depend on the rest.
LEMMA JoinsUnique ==
  ASSUME NEW S, NEW f, NEW g, NEW s \in Seq(S), NEW t \in Seq(S), NEW n \in Nat,
         n <= Len(s), n <= Len(t), \A i \in 1 .. n : s[i] = t[i],
         Joins(f, s), Joins(g, t)
  PROVE  f[n] = g[n]
<1> DEFINE Same == {j \in Nat : j <= n => f[j] = g[j]}
<1>0. Len(s) \in Nat /\ Len(t) \in Nat
  BY LenProperties
<1>1. 0 \in Same
  BY DEF Joins
<1>2. ASSUME NEW j \in Nat, j \in Same PROVE j + 1 \in Same
  <2>1. SUFFICES ASSUME j + 1 <= n PROVE f[j + 1] = g[j + 1]
    OBVIOUS
  <2>2. j \in 0 .. Len(s) - 1 /\ j \in 0 .. Len(t) - 1 /\ j + 1 \in 1 .. n /\ j <= n
    BY <1>0, <2>1
  <2>3. f[j + 1] = f[j] \o s[j + 1] /\ g[j + 1] = g[j] \o t[j + 1]
    BY <2>2 DEF Joins
  <2>4. s[j + 1] = t[j + 1] /\ f[j] = g[j]
    BY <1>2, <2>2
  <2>. QED
    BY <2>3, <2>4
<1> HIDE DEF Same
<1>3. \A j \in Nat : j \in Same
  BY <1>1, <1>2, NumberInduction
<1>. QED
  BY <1>3 DEF Same

LEMMA FlattenEmpty == FlattenSeq(<<>>) = <<>>
  BY DEF FlattenSeq

LEMMA FlattenType ==
  ASSUME NEW S, NEW seqs \in Seq(Seq(S))
  PROVE  FlattenSeq(seqs) \in Seq(S)
<1>1. Len(seqs) \in 0 .. Len(seqs)
  BY LenProperties
<1>. QED
  BY <1>1, FlattenJoins

LEMMA FlattenAppend ==
  ASSUME NEW S, NEW seqs \in Seq(Seq(S)), NEW t \in Seq(S)
  PROVE  FlattenSeq(Append(seqs, t)) = FlattenSeq(seqs) \o t
<1> DEFINE more == Append(seqs, t)
           n == Len(seqs)
<1>1. /\ n \in Nat /\ more \in Seq(Seq(S)) /\ Len(more) = n + 1 /\ more[n + 1] = t
      /\ \A i \in 1 .. n : seqs[i] = more[i]
  BY AppendProperties, LenProperties
<1> HIDE DEF more, n
<1>2. PICK f : Joins(f, seqs) /\ FlattenSeq(seqs) = f[n]
  BY FlattenJoins DEF n
<1>3. PICK g : Joins(g, more) /\ FlattenSeq(more) = g[n + 1]
  <2>1. \E fl \in [0 .. Len(more) -> Seq(S)] : Joins(fl, more) /\ FlattenSeq(more) = fl[Len(more)]
    BY <1>1, FlattenJoins
  <2>. QED
    BY <1>1, <2>1
<1>4. f[n] = g[n]
  <2>1. n <= Len(seqs) /\ n <= Len(more)
    BY <1>1 DEF n
  <2>. QED
    BY <1>1, <1>2, <1>3, <2>1, JoinsUnique
<1>5. n \in 0 .. Len(more) - 1
  BY <1>1
<1>6. g[n + 1] = g[n] \o more[n + 1]
  BY <1>3, <1>5 DEF Joins
<1>. QED
  BY <1>1, <1>2, <1>3, <1>4, <1>6 DEF more
-----------------------------------------------------------------------------
(* Folding from the left.                                                  *)

\* iter[s] is what a fold has made of the places in s.
Folds(iter, n, base, step) ==
  \A s \in SUBSET (1 .. n) :
    iter[s] = IF s = {} THEN base ELSE step[<<iter[s \ {Max(s)}], Max(s)>>]

\* The maximum of a set of places.
LEMMA MaxIs ==
  ASSUME NEW n \in Nat, NEW s \in SUBSET (1 .. n), s # {}
  PROVE  Max(s) \in s /\ \A y \in s : Max(s) >= y
<1> DEFINE T == {n - x : x \in s}
<1>1. T \in SUBSET Nat /\ T # {}
  <2>1. \A x \in s : n - x \in Nat
    OBVIOUS
  <2>. QED
    BY <2>1
<1>2. PICK z \in T : \A y \in T : z <= y
  BY <1>1, LeastNumber
<1>3. PICK x \in s : z = n - x
  BY <1>2
<1>4. ASSUME NEW y \in s PROVE x >= y
  <2>1. n - y \in T
    OBVIOUS
  <2>2. n - x <= n - y
    BY <1>2, <1>3, <2>1
  <2>. QED
    BY <2>2
<1>5. \E m \in s : \A y \in s : m >= y
  BY <1>4
<1>. QED
  BY <1>5 DEF Max

LEMMA FoldExists ==
  ASSUME NEW n \in Nat, NEW T, NEW base \in T, NEW step \in [T \X (1 .. n) -> T]
  PROVE  \E iter \in [SUBSET (1 .. n) -> T] : Folds(iter, n, base, step)
<1> DEFINE P == SUBSET (1 .. n)
           next(g) == [s \in P |-> IF s = {} THEN base
                                   ELSE step[<<g[s \ {Max(s)}], Max(s)>>]]
           first == [s \in P |-> base]
           more == [p \in Nat \X [P -> T] |-> next(p[2])]
<1>1. \A s \in P : s # {} => Max(s) \in s /\ Max(s) \in 1 .. n /\ s \ {Max(s)} \in P
  BY MaxIs
<1>2. ASSUME NEW g \in [P -> T] PROVE next(g) \in [P -> T]
  <2>1. ASSUME NEW s \in P, s # {} PROVE step[<<g[s \ {Max(s)}], Max(s)>>] \in T
    <3>1. <<g[s \ {Max(s)}], Max(s)>> \in T \X (1 .. n)
      BY <1>1, <2>1
    <3>. QED
      BY <3>1
  <2>. QED
    BY <2>1
<1> HIDE DEF next
<1>3. first \in [P -> T] /\ more \in [Nat \X [P -> T] -> [P -> T]]
  BY <1>2
<1> HIDE DEF first, more
<1>4. PICK f \in [Nat -> [P -> T]] : Follows(f, first, more)
  BY <1>3, Recursion
<1>5. \A k \in Nat : f[k + 1] = next(f[k])
  <2>1. ASSUME NEW k \in Nat PROVE f[k + 1] = next(f[k])
    <3>1. <<k, f[k]>> \in Nat \X [P -> T]
      OBVIOUS
    <3>2. more[<<k, f[k]>>] = next(f[k])
      BY <3>1 DEF more
    <3>. QED
      BY <1>4, <3>2 DEF Follows
  <2>. QED
    BY <2>1
<1>6. \A k \in Nat, s \in P :
        f[k + 1][s] = IF s = {} THEN base ELSE step[<<f[k][s \ {Max(s)}], Max(s)>>]
  BY <1>5 DEF next
<1> DEFINE Done == {k \in Nat : \A s \in P : (\A i \in s : i <= k) => f[k + 1][s] = f[k][s]}
<1>7. 0 \in Done
  <2>1. ASSUME NEW s \in P, \A i \in s : i <= 0 PROVE f[0 + 1][s] = f[0][s]
    <3>1. s = {}
      BY <2>1
    <3>2. f[0] = first
      BY <1>4 DEF Follows
    <3>3. f[0][s] = base
      BY <3>2 DEF first
    <3>4. f[0 + 1][s] = base
      BY <1>6, <3>1
    <3>. QED
      BY <3>3, <3>4
  <2>. QED
    BY <2>1
<1>8. ASSUME NEW k \in Nat, k \in Done PROVE k + 1 \in Done
  <2>1. ASSUME NEW s \in P, \A i \in s : i <= k + 1
        PROVE  f[(k + 1) + 1][s] = f[k + 1][s]
    <3>0. k + 1 \in Nat
      OBVIOUS
    <3>1. CASE s = {}
      BY <1>6, <3>0, <3>1
    <3>2. CASE s # {}
      <4> DEFINE r == s \ {Max(s)}
      <4>1. r \in P
        BY <1>1, <3>2
      <4>2. \A i \in r : i <= k
        <5>1. PICK m \in s : m = Max(s) /\ \A y \in s : m >= y
          BY <3>2, MaxIs
        <5>2. ASSUME NEW i \in r PROVE i <= k
          <6>1. i \in s /\ i # m
            BY <5>1
          <6>2. i \in Nat /\ m \in Nat /\ i <= m /\ m <= k + 1
            BY <2>1, <5>1, <6>1
          <6>. QED
            BY <6>1, <6>2
        <5>. QED
          BY <5>2
      <4>3. f[k + 1][r] = f[k][r]
        BY <1>8, <4>1, <4>2
      <4>4. f[(k + 1) + 1][s] = step[<<f[k + 1][r], Max(s)>>]
        BY <1>6, <3>0, <3>2
      <4>5. f[k + 1][s] = step[<<f[k][r], Max(s)>>]
        BY <1>6, <3>2
      <4>. QED
        BY <4>3, <4>4, <4>5
    <3>. QED
      BY <3>1, <3>2
  <2>. QED
    BY <2>1
<1>9. n \in Done
  <2> HIDE DEF Done
  <2>. QED
    BY <1>7, <1>8, NumberInduction
<1>10. Folds(f[n], n, base, step)
  <2>1. ASSUME NEW s \in P
        PROVE  f[n][s] = IF s = {} THEN base ELSE step[<<f[n][s \ {Max(s)}], Max(s)>>]
    <3>1. \A i \in s : i <= n
      OBVIOUS
    <3>2. f[n + 1][s] = f[n][s]
      BY <1>9, <3>1
    <3>. QED
      BY <1>6, <3>2
  <2>. QED
    BY <2>1 DEF Folds
<1>. QED
  BY <1>10

\* The places up to one, as a fold meets them.
LEMMA PlaceBefore ==
  ASSUME NEW n \in Nat, NEW k \in 0 .. n - 1
  PROVE  /\ 1 .. k + 1 \in SUBSET (1 .. n) /\ 1 .. k + 1 # {}
         /\ Max(1 .. k + 1) = k + 1 /\ (1 .. k + 1) \ {k + 1} = 1 .. k
<1>1. 1 .. k + 1 \in SUBSET (1 .. n) /\ 1 .. k + 1 # {} /\ k + 1 \in 1 .. k + 1
  OBVIOUS
<1>2. Max(1 .. k + 1) \in 1 .. k + 1 /\ \A y \in 1 .. k + 1 : Max(1 .. k + 1) >= y
  BY <1>1, MaxIs
<1>3. Max(1 .. k + 1) = k + 1
  <2> DEFINE m == Max(1 .. k + 1)
  <2>1. m \in 1 .. k + 1 /\ m >= k + 1
    BY <1>1, <1>2
  <2> HIDE DEF m
  <2>2. m = k + 1
    BY <2>1
  <2>. QED
    BY <2>2 DEF m
<1>. QED
  BY <1>1, <1>3

\* Part of a sequence, continued.
LEMMA PartsMeet ==
  ASSUME NEW S, NEW s \in Seq(S), NEW m \in 0 .. Len(s), NEW n \in m .. Len(s)
  PROVE  SubSeq(s, 1, m) \o SubSeq(s, m + 1, n) = SubSeq(s, 1, n)
<1> DEFINE a == SubSeq(s, 1, m)
           b == SubSeq(s, m + 1, n)
           c == SubSeq(s, 1, n)
<1>0. Len(s) \in Nat /\ m \in Int /\ n \in Int /\ m + 1 \in Int /\ 1 \in Int
  BY LenProperties
<1>1. \A i \in 1 .. Len(s) : s[i] \in S
  BY ElementOfSeq
<1>2. a \in Seq(S) /\ Len(a) = m /\ \A i \in 1 .. m : a[i] = s[i]
  <2>1. \A i \in 1 .. m : s[i] \in S
    BY <1>0, <1>1
  <2>2. a \in Seq(S) /\ Len(a) = (IF 1 <= m THEN m - 1 + 1 ELSE 0) /\ \A i \in 1 .. m - 1 + 1 : a[i] = s[1 + i - 1]
    BY <1>0, <2>1, SubSeqProperties
  <2> HIDE DEF a
  <2>. QED
    BY <1>0, <2>2
<1>3. b \in Seq(S) /\ Len(b) = n - m /\ \A i \in 1 .. n - m : b[i] = s[m + i]
  <2> DEFINE j == m + 1
  <2>1. \A i \in j .. n : s[i] \in S
    BY <1>0, <1>1
  <2>2. b \in Seq(S) /\ Len(b) = (IF j <= n THEN n - j + 1 ELSE 0) /\ \A i \in 1 .. n - j + 1 : b[i] = s[j + i - 1]
    BY <1>0, <2>1, SubSeqProperties
  <2> HIDE DEF b
  <2>3. ASSUME NEW i \in 1 .. n - m PROVE b[i] = s[m + i]
    <3>1. i \in 1 .. n - j + 1 /\ j + i - 1 = m + i
      BY <1>0
    <3>. QED
      BY <2>2, <3>1
  <2>. QED
    BY <1>0, <2>2, <2>3
<1>4. c \in Seq(S) /\ Len(c) = n /\ \A i \in 1 .. n : c[i] = s[i]
  <2>1. \A i \in 1 .. n : s[i] \in S
    BY <1>0, <1>1
  <2>2. c \in Seq(S) /\ Len(c) = (IF 1 <= n THEN n - 1 + 1 ELSE 0) /\ \A i \in 1 .. n - 1 + 1 : c[i] = s[1 + i - 1]
    BY <1>0, <2>1, SubSeqProperties
  <2> HIDE DEF c
  <2>. QED
    BY <1>0, <2>2
<1> HIDE DEF a, b, c
<1>5. /\ a \o b \in Seq(S) /\ Len(a \o b) = m + (n - m)
      /\ \A i \in 1 .. m + (n - m) : (a \o b)[i] = IF i <= m THEN a[i] ELSE b[i - m]
  BY <1>2, <1>3, ConcatProperties
<1>6. m + (n - m) = n
  BY <1>0
<1> DEFINE ab == a \o b
<1>7. ASSUME NEW i \in 1 .. n PROVE ab[i] = c[i]
  <2>1. CASE i <= m
    BY <1>0, <1>2, <1>4, <1>5, <1>6, <2>1
  <2>2. CASE ~(i <= m)
    <3>1. i - m \in 1 .. n - m /\ m + (i - m) = i
      BY <1>0, <2>2
    <3>2. ab[i] = b[i - m]
      BY <1>5, <1>6, <2>2
    <3>3. b[i - m] = s[m + (i - m)]
      BY <1>3, <3>1
    <3>. QED
      BY <1>4, <3>1, <3>2, <3>3
  <2>. QED
    BY <2>1, <2>2
<1>8. ab \in Seq(S) /\ Len(ab) = n
  BY <1>5, <1>6
<1> HIDE DEF ab
<1>9. ab = c
  BY <1>4, <1>7, <1>8, SeqEqual
<1>. QED
  BY <1>9 DEF a, b, c, ab

LEMMA IsSeq ==
  ASSUME NEW S, NEW n \in Nat, NEW f \in [1 .. n -> S]
  PROVE  f \in Seq(S) /\ Len(f) = n
  OBVIOUS

LEMMA OneFurther ==
  ASSUME NEW S, NEW s \in Seq(S), NEW n \in Nat, n + 1 <= Len(s)
  PROVE  SubSeq(s, 1, n + 1) = Append(SubSeq(s, 1, n), s[n + 1]) /\ SubSeq(s, 1, n) \in Seq(S)
<1>0. Len(s) \in Nat /\ n + 1 \in 1 .. Len(s) /\ 1 \in 1 .. Len(s) /\ (n + 1) - 1 = n
  BY LenProperties
<1>1. s[n + 1] \in S /\ \A i \in 1 .. n : s[i] \in S
  BY <1>0, ElementOfSeq
<1>2. SubSeq(s, 1, n) \in Seq(S)
  BY <1>0, <1>1, SubSeqProperties
<1>3. SubSeq(s, 1, n + 1) = SubSeq(s, 1, (n + 1) - 1) \o <<s[n + 1]>>
  BY <1>0, SubSeqRecursiveSecond, Zenon
<1>4. Append(SubSeq(s, 1, n), s[n + 1]) = SubSeq(s, 1, n) \o <<s[n + 1]>>
  BY <1>1, <1>2, AppendIsConcat
<1>. QED
  BY <1>0, <1>2, <1>3, <1>4

Octet == 0 .. 255
Sextet == 0 .. 63

-----------------------------------------------------------------------------
(* Base 64.                                                                *)

\* The characters of the encoding are one to one, and none is the "=".
LEMMA SextetBack ==
  ASSUME NEW u \in Sextet
  PROVE  /\ DecodeSextet(EncodeSextet(u)) = u
         /\ IsBase64(EncodeSextet(u)) /\ EncodeSextet(u) # Pad
<1> USE DEF Sextet, Pad
<1>1. CASE u < 26
  BY <1>1 DEF EncodeSextet, DecodeSextet, IsBase64
<1>2. CASE u \in 26 .. 51
  BY <1>2 DEF EncodeSextet, DecodeSextet, IsBase64
<1>3. CASE u \in 52 .. 61
  BY <1>3 DEF EncodeSextet, DecodeSextet, IsBase64
<1>4. CASE u = 62
  BY <1>4 DEF EncodeSextet, DecodeSextet, IsBase64
<1>5. CASE u = 63
  BY <1>5 DEF EncodeSextet, DecodeSextet, IsBase64
<1>. QED
  BY <1>1, <1>2, <1>3, <1>4, <1>5

\* The shifts and masks of oauth_encode_base64 lose no bit of three bytes, and
\* those of oauth_decode_base64 put them back where they were.
THEOREM GroupRoundTrips ==
  ASSUME NEW b1 \in Octet, NEW b2 \in Octet, NEW b3 \in Octet
  PROVE  LET s == Sextets(b1, b2, b3)
         IN /\ \A i \in 1 .. 4 : s[i] \in Sextet
            /\ Bytes(s[1], s[2], s[3], s[4]) = <<b1, b2, b3>>
<1> DEFINE s1 == b1 \div 4
           s2 == (b1 % 4) * 16 + b2 \div 16
           s3 == (b2 % 16) * 4 + b3 \div 64
           s4 == b3 % 64
<1>1. s1 \in Sextet /\ s2 \in Sextet /\ s3 \in Sextet /\ s4 \in Sextet
  BY DEF Octet, Sextet
<1>2. (s1 * 4 + s2 \div 16) % 256 = b1
  BY DEF Octet
<1>3. (s2 % 16) * 16 + s3 \div 4 = b2
  BY DEF Octet
<1>4. (s3 % 4) * 64 + s4 = b3
  BY DEF Octet
<1>5. Sextets(b1, b2, b3) = <<s1, s2, s3, s4>>
  BY DEF Sextets
<1>6. Bytes(s1, s2, s3, s4) = <<b1, b2, b3>>
  BY <1>2, <1>3, <1>4 DEF Bytes
<1> HIDE DEF s1, s2, s3, s4
<1>. QED
  BY <1>1, <1>5, <1>6

\* Four characters for every three bytes begun.
LEMMA EncodingLength ==
  ASSUME NEW src \in Seq(Octet), src # <<>>
  PROVE  Len(EncodeBase64(Len(src), src)) = 4 * ((Len(src) + 2) \div 3)
<1> DEFINE k == 4 * ((Len(src) + 2) \div 3)
           text == EncodeBase64(Len(src), src)
           given == IF Len(src) = 0 THEN Text(src) ELSE SubSeq(src, 1, Len(src))
<1>1. Len(src) \in Nat /\ Len(src) > 0
  BY EmptySeq, LenProperties
<1>2. given = src
  BY <1>1, SubSeqFull
<1>3. k \in Nat
  BY <1>1
<1>4. text = [n \in 1 .. 4 * ((Len(given) + 2) \div 3) |-> text[n]]
  BY Zenon DEF EncodeBase64
<1> HIDE DEF given, text
<1>5. text = [n \in 1 .. k |-> text[n]]
  BY <1>2, <1>4
<1> HIDE DEF k
<1>6. Len([n \in 1 .. k |-> text[n]]) = k
  BY <1>3
<1>7. Len(text) = k
  BY <1>5, <1>6, Zenon
<1>. QED
  BY <1>7 DEF k, text

\* What oauth_encode_base64 allocates for size bytes has room for the encoding
\* and the NUL after it, whatever the remainder of the size is.
THEOREM EncodingFits ==
  ASSUME NEW src \in Seq(Octet), src # <<>>
  PROVE  Len(EncodeBase64(Len(src), src)) + 1 <= Allocated(Len(src), src)
<1>1. Len(src) \in Nat /\ Len(src) > 0
  BY EmptySeq, LenProperties
<1>2. Len(EncodeBase64(Len(src), src)) = 4 * ((Len(src) + 2) \div 3)
  BY EncodingLength
<1>3. Allocated(Len(src), src) = (Len(src) * 4) \div 3 + 4
  BY <1>1 DEF Allocated
<1>4. \A n \in Nat : 4 * ((n + 2) \div 3) + 1 <= (n * 4) \div 3 + 4
  OBVIOUS
<1>. QED
  BY <1>1, <1>2, <1>3, <1>4

\* The byte at x of what is encoded: zero after the end.
ByteAt(src, x) == IF x <= Len(src) THEN src[x] ELSE 0

\* Every byte of a group is one, also where there is none in the text.
LEMMA BytesAreOctets ==
  ASSUME NEW src \in Seq(Octet), NEW x \in Nat \ {0}
  PROVE  ByteAt(src, x) \in Octet
<1>1. Len(src) \in Nat
  BY LenProperties
<1>2. CASE x <= Len(src)
  BY <1>1, <1>2, ElementOfSeq DEF ByteAt
<1>3. CASE ~(x <= Len(src))
  BY <1>3 DEF ByteAt, Octet
<1>. QED
  BY <1>2, <1>3

\* Where a character of the encoding comes from: the p-th of the q-th group,
\* both from 0.
LEMMA EncodedAt ==
  ASSUME NEW src \in Seq(Octet), src # <<>>,
         NEW q \in 0 .. (Len(src) + 2) \div 3 - 1, NEW p \in 0 .. 3
  PROVE  EncodeBase64(Len(src), src)[4 * q + p + 1] =
           IF Padded(Len(src), 3 * q, p) THEN Pad
           ELSE EncodeSextet(Sextets(ByteAt(src, 3 * q + 1), ByteAt(src, 3 * q + 2),
                                     ByteAt(src, 3 * q + 3))[p + 1])
<1> DEFINE n == 4 * q + p + 1
<1>1. Len(src) \in Nat /\ Len(src) > 0
  BY EmptySeq, LenProperties
<1>2. SubSeq(src, 1, Len(src)) = src
  BY SubSeqFull
<1>3. n \in 1 .. 4 * ((Len(src) + 2) \div 3)
  BY <1>1
<1>4. 3 * ((n - 1) \div 4) = 3 * q /\ (n - 1) % 4 = p
  BY <1>1
<1> DEFINE given == IF Len(src) = 0 THEN Text(src) ELSE SubSeq(src, 1, Len(src))
<1>5. given = src
  BY <1>1, <1>2
<1> HIDE DEF n
<1>6. EncodeBase64(Len(src), src)[n] =
        LET i == 3 * ((n - 1) \div 4)
            r == (n - 1) % 4
        IN IF Padded(Len(src), i, r) THEN Pad
           ELSE EncodeSextet(Sextets(ByteAt(src, i + 1), ByteAt(src, i + 2),
                                     ByteAt(src, i + 3))[r + 1])
  BY <1>3, <1>5, Zenon DEF EncodeBase64, ByteAt
<1>7. EncodeBase64(Len(src), src)[n] =
        IF Padded(Len(src), 3 * q, p) THEN Pad
        ELSE EncodeSextet(Sextets(ByteAt(src, 3 * q + 1), ByteAt(src, 3 * q + 2),
                                  ByteAt(src, 3 * q + 3))[p + 1])
  BY <1>4, <1>6, Zenon
<1>. QED
  BY <1>7 DEF n

\* The sextets of a group, and that the characters which are not written for
\* want of a byte stand for zeros.
LEMMA GroupSextets ==
  ASSUME NEW src \in Seq(Octet), NEW q \in Nat, NEW p \in 0 .. 3
  PROVE  LET s == Sextets(ByteAt(src, 3 * q + 1), ByteAt(src, 3 * q + 2),
                          ByteAt(src, 3 * q + 3))
         IN /\ s[p + 1] \in Sextet
            /\ p > 1 /\ Padded(Len(src), 3 * q, p) => s[p + 1] = 0
<1> DEFINE b(k) == ByteAt(src, 3 * q + k)
           s == Sextets(b(1), b(2), b(3))
<1>1. Len(src) \in Nat /\ DOMAIN src = 1 .. Len(src)
  BY LenProperties
<1>2. ASSUME NEW k \in 1 .. 3 PROVE b(k) \in Octet /\ (3 * q + k > Len(src) => b(k) = 0)
  <2>1. CASE 3 * q + k <= Len(src)
    <3>1. 3 * q + k \in 1 .. Len(src)
      BY <1>1, <2>1
    <3>2. src[3 * q + k] \in Octet
      BY <3>1, ElementOfSeq
    <3>. QED
      BY <2>1, <1>1, <3>2 DEF ByteAt
  <2>2. CASE ~(3 * q + k <= Len(src))
    BY <2>2, <1>1 DEF ByteAt, Octet
  <2>. QED
    BY <2>1, <2>2
<1> HIDE DEF b
<1>3. /\ b(1) \in Octet /\ b(2) \in Octet /\ b(3) \in Octet
      /\ 3 * q + 2 > Len(src) => b(2) = 0
      /\ 3 * q + 3 > Len(src) => b(3) = 0
  BY <1>2
<1>4. \A i \in 1 .. 4 : s[i] \in Sextet
  BY <1>3, GroupRoundTrips
<1>5. ASSUME p > 1, Padded(Len(src), 3 * q, p) PROVE s[p + 1] = 0
  <2>1. CASE p = 2
    <3>1. b(2) = 0 /\ b(3) = 0
      BY <1>1, <1>3, <1>5, <2>1 DEF Padded
    <3>. QED
      BY <2>1, <3>1 DEF Sextets
  <2>2. CASE p = 3
    <3>1. b(3) = 0
      BY <1>1, <1>3, <1>5, <2>2 DEF Padded
    <3>. QED
      BY <2>2, <3>1 DEF Sextets
  <2>. QED
    BY <1>5, <2>1, <2>2
<1>6. p + 1 \in 1 .. 4
  OBVIOUS
<1>. QED
  BY <1>4, <1>5, <1>6 DEF b

\* No two sequences of bytes have one encoding: what is sent for a digest or a
\* signature tells them apart, however many "=" it ends with.
THEOREM EncodingIsOneToOne ==
  ASSUME NEW a \in Seq(Octet), NEW b \in Seq(Octet), a # <<>>, b # <<>>,
         EncodeBase64(Len(a), a) = EncodeBase64(Len(b), b)
  PROVE  a = b
<1> DEFINE g(x) == (x + 2) \div 3
           s(x, q) == Sextets(ByteAt(x, 3 * q + 1), ByteAt(x, 3 * q + 2),
                              ByteAt(x, 3 * q + 3))
           char(x, q, p) == EncodeBase64(Len(x), x)[4 * q + p + 1]
<1>1. Len(a) \in Nat /\ Len(a) > 0 /\ Len(b) \in Nat /\ Len(b) > 0
  BY EmptySeq, LenProperties
<1>2. g(Len(a)) = g(Len(b))
  <2>1. 4 * g(Len(a)) = 4 * g(Len(b))
    BY EncodingLength, Zenon
  <2>. QED
    BY <1>1, <2>1
<1>3. ASSUME NEW x \in {a, b}, NEW q \in 0 .. g(Len(x)) - 1, NEW p \in 0 .. 3
      PROVE  char(x, q, p) = IF Padded(Len(x), 3 * q, p) THEN Pad
                             ELSE EncodeSextet(s(x, q)[p + 1])
  BY <1>3, EncodedAt
<1>4. ASSUME NEW x \in {a, b}, NEW q \in Nat, NEW p \in 0 .. 3
      PROVE  /\ s(x, q)[p + 1] \in Sextet
             /\ p > 1 /\ Padded(Len(x), 3 * q, p) => s(x, q)[p + 1] = 0
  BY <1>4, GroupSextets
<1> HIDE DEF s
<1>5. ASSUME NEW q \in 0 .. g(Len(a)) - 1, NEW p \in 0 .. 3
      PROVE  /\ Padded(Len(a), 3 * q, p) <=> Padded(Len(b), 3 * q, p)
             /\ Padded(Len(a), 3 * q, p) \/ s(a, q)[p + 1] = s(b, q)[p + 1]
  <2>0. q \in 0 .. g(Len(b)) - 1 /\ q \in Nat
    BY <1>1, <1>2, <1>5
  <2>1. char(a, q, p) = char(b, q, p)
    BY Zenon
  <2>2. /\ char(a, q, p) = IF Padded(Len(a), 3 * q, p) THEN Pad
                             ELSE EncodeSextet(s(a, q)[p + 1])
        /\ char(b, q, p) = IF Padded(Len(b), 3 * q, p) THEN Pad
                             ELSE EncodeSextet(s(b, q)[p + 1])
    BY <1>3, <2>0
  <2>3. s(a, q)[p + 1] \in Sextet /\ s(b, q)[p + 1] \in Sextet
    BY <1>4, <2>0
  <2>4. \A u \in Sextet : DecodeSextet(EncodeSextet(u)) = u /\ EncodeSextet(u) # Pad
    BY SextetBack
  <2>. QED
    BY <2>1, <2>2, <2>3, <2>4, Zenon
<1>6. Len(a) = Len(b)
  <2> DEFINE q == g(Len(a)) - 1
  <2>1. q \in 0 .. g(Len(a)) - 1
    BY <1>1
  <2>2. /\ Padded(Len(a), 3 * q, 2) <=> Padded(Len(b), 3 * q, 2)
        /\ Padded(Len(a), 3 * q, 3) <=> Padded(Len(b), 3 * q, 3)
    <3> HIDE DEF q
    <3>1. \A p \in 0 .. 3 : Padded(Len(a), 3 * q, p) <=> Padded(Len(b), 3 * q, p)
      BY <1>5, <2>1
    <3>2. 2 \in 0 .. 3 /\ 3 \in 0 .. 3
      OBVIOUS
    <3>. QED
      BY <3>1, <3>2, Zenon
  <2>3. /\ 3 * q + 2 > Len(a) <=> 3 * q + 2 > Len(b)
        /\ 3 * q + 3 > Len(a) <=> 3 * q + 3 > Len(b)
    BY <2>2 DEF Padded
  <2>4. \A m \in Nat : m > 0 => m \in 3 * g(m) - 2 .. 3 * g(m)
    OBVIOUS
  <2>5. Len(a) \in 3 * q + 1 .. 3 * q + 3 /\ Len(b) \in 3 * q + 1 .. 3 * q + 3
    BY <1>1, <1>2, <2>4
  <2>. QED
    BY <1>1, <2>1, <2>3, <2>5
<1>7. ASSUME NEW q \in 0 .. g(Len(a)) - 1, NEW p \in 0 .. 3
      PROVE  s(a, q)[p + 1] = s(b, q)[p + 1]
  <2>0. q \in Nat
    BY <1>1, <1>7
  <2>1. CASE p > 1 /\ Padded(Len(a), 3 * q, p)
    BY <1>4, <1>5, <2>0, <2>1
  <2>2. CASE ~Padded(Len(a), 3 * q, p)
    BY <1>5, <2>2
  <2>3. CASE p \in 0 .. 1
    <3>1. 3 * q + 1 <= Len(a)
      BY <1>1, <1>7
    <3>2. ~Padded(Len(a), 3 * q, p)
      BY <1>1, <2>0, <2>3, <3>1 DEF Padded
    <3>. QED
      BY <2>2, <3>2
  <2>. QED
    BY <2>1, <2>2, <2>3
<1>8. ASSUME NEW q \in 0 .. g(Len(a)) - 1, NEW k \in 1 .. 3
      PROVE  ByteAt(a, 3 * q + k) = ByteAt(b, 3 * q + k)
  <2>0. q \in Nat
    BY <1>1, <1>8
  <2>1. /\ s(a, q)[1] = s(b, q)[1] /\ s(a, q)[2] = s(b, q)[2]
        /\ s(a, q)[3] = s(b, q)[3] /\ s(a, q)[4] = s(b, q)[4]
    <3>1. \A p \in 0 .. 3 : s(a, q)[p + 1] = s(b, q)[p + 1]
      BY <1>7, <1>8
    <3>. QED
      BY <3>1
  <2>2. ASSUME NEW x \in {a, b}
        PROVE  Bytes(s(x, q)[1], s(x, q)[2], s(x, q)[3], s(x, q)[4])
                 = <<ByteAt(x, 3 * q + 1), ByteAt(x, 3 * q + 2), ByteAt(x, 3 * q + 3)>>
    <3>1. \A j \in 1 .. 3 : ByteAt(x, 3 * q + j) \in Octet
      BY <2>0, BytesAreOctets
    <3>. QED
      BY <3>1, GroupRoundTrips DEF s
  <2>3. <<ByteAt(a, 3 * q + 1), ByteAt(a, 3 * q + 2), ByteAt(a, 3 * q + 3)>>
          = <<ByteAt(b, 3 * q + 1), ByteAt(b, 3 * q + 2), ByteAt(b, 3 * q + 3)>>
    BY <2>1, <2>2, Zenon
  <2>4. k = 1 \/ k = 2 \/ k = 3
    BY <1>8
  <2>. QED
    BY <2>3, <2>4
<1>9. ASSUME NEW n \in 1 .. Len(a) PROVE a[n] = b[n]
  <2> DEFINE q == (n - 1) \div 3
             k == ((n - 1) % 3) + 1
  <2>1. q \in 0 .. g(Len(a)) - 1 /\ k \in 1 .. 3 /\ n = 3 * q + k
    BY <1>1
  <2> HIDE DEF q, k
  <2>2. ByteAt(a, n) = ByteAt(b, n)
    BY <1>8, <2>1
  <2>. QED
    BY <1>1, <1>6, <2>2 DEF ByteAt
<1>. QED
  BY <1>6, <1>9, SeqEqual

-----------------------------------------------------------------------------
(* Decoding.                                                               *)

Char == 1 .. 255

\* What oauth_decode_base64 takes of a text.
Buf(text) ==
  FlattenSeq([i \in DOMAIN text |-> IF IsBase64(text[i]) THEN <<text[i]>> ELSE <<>>])
CharAt(buf, k) == IF k <= Len(buf) THEN buf[k] ELSE 65
Decoded(buf, k) ==
  LET group == Bytes(DecodeSextet(CharAt(buf, k)), DecodeSextet(CharAt(buf, k + 1)),
                     DecodeSextet(CharAt(buf, k + 2)), DecodeSextet(CharAt(buf, k + 3)))
  IN <<group[1]>>
       \o (IF CharAt(buf, k + 2) # Pad THEN <<group[2]>> ELSE <<>>)
       \o (IF CharAt(buf, k + 3) # Pad THEN <<group[3]>> ELSE <<>>)

LEMMA TextIsAll ==
  ASSUME NEW s \in Seq(Char)
  PROVE  Text(s) = s
<1>1. ~Contains(s, 0)
  <2>1. \A i \in 1 .. Len(s) : s[i] \in Char
    BY ElementOfSeq
  <2>2. \A i \in 1 .. Len(s) : s[i] # 0
    <3>1. \A c \in Char : c # 0
      BY DEF Char
    <3>. QED
      BY <2>1, <3>1, Zenon
  <2>. QED
    BY <2>2, Zenon DEF Contains
<1>. QED
  BY <1>1, Zenon DEF Text

LEMMA DecodeIs ==
  ASSUME NEW s \in Seq(Char), NEW buf, buf = Buf(s)
  PROVE  DecodeBase64(s) = FlattenSeq([i \in 1 .. (Len(buf) + 3) \div 4 |-> Decoded(buf, 4 * i - 3)])
<1> DEFINE t == Text(s)
           b == Buf(t)
<1>1. DecodeBase64(s) = FlattenSeq([i \in 1 .. (Len(b) + 3) \div 4 |-> Decoded(b, 4 * i - 3)])
  BY Zenon DEF DecodeBase64, Buf, Decoded, CharAt
<1>2. b = buf
  BY TextIsAll, Zenon
<1> HIDE DEF b
<1>. QED
  BY <1>1, <1>2

LEMMA BufAppend ==
  ASSUME NEW s \in Seq(Char), NEW c \in Char
  PROVE  /\ Buf(s) \in Seq(Char)
         /\ Buf(Append(s, c)) = IF IsBase64(c) THEN Append(Buf(s), c) ELSE Buf(s)
<1> DEFINE n == Len(s)
           one(x) == IF IsBase64(x) THEN <<x>> ELSE <<>>
           f == [i \in 1 .. n |-> one(s[i])]
           more == Append(s, c)
           g == [i \in 1 .. n + 1 |-> one(more[i])]
<1>1. n \in Nat /\ DOMAIN s = 1 .. n /\ \A i \in 1 .. n : s[i] \in Char
  BY LenProperties, ElementOfSeq
<1>2. \A x \in Char : one(x) \in Seq(Char)
  <2>1. \A x \in Char : <<x>> \in Seq(Char)
    OBVIOUS
  <2>2. <<>> \in Seq(Char)
    BY EmptySeq
  <2>. QED
    BY <2>1, <2>2, Zenon
<1>3. /\ more \in Seq(Char) /\ Len(more) = n + 1 /\ more[n + 1] = c
      /\ DOMAIN more = 1 .. n + 1 /\ \A i \in 1 .. n : more[i] = s[i]
  BY <1>1, AppendProperties, LenProperties
<1>4. Buf(s) = FlattenSeq(f) /\ Buf(more) = FlattenSeq(g)
  BY <1>1, <1>3, Zenon DEF Buf
<1>5. f \in Seq(Seq(Char)) /\ Len(f) = n
  <2> HIDE DEF one
  <2>. QED
    BY <1>1, <1>2
<1>6. g = Append(f, one(c))
  <2> HIDE DEF one, more
  <2>0. \A i \in 1 .. n + 1 : more[i] \in Char
    BY <1>3, ElementOfSeq
  <2>1. g \in Seq(Seq(Char)) /\ Len(g) = n + 1
    BY <1>1, <1>2, <2>0
  <2>2. one(c) \in Seq(Char)
    BY <1>2
  <2>3. /\ Append(f, one(c)) \in Seq(Seq(Char)) /\ Len(Append(f, one(c))) = n + 1
        /\ Append(f, one(c))[n + 1] = one(c) /\ \A i \in 1 .. n : Append(f, one(c))[i] = f[i]
    <3> DEFINE o == one(c)
    <3> HIDE DEF f, n, o
    <3>. QED
      BY <1>5, <2>2, AppendProperties DEF o
  <2>4. \A i \in 1 .. n + 1 : g[i] = Append(f, one(c))[i]
    <3>1. g[n + 1] = one(c)
      BY <1>1, <1>3
    <3>2. \A i \in 1 .. n : g[i] = f[i]
      BY <1>1, <1>3
    <3>3. \A i \in 1 .. n + 1 : i = n + 1 \/ i \in 1 .. n
      BY <1>1
    <3> HIDE DEF f, g
    <3>. QED
      BY <2>3, <3>1, <3>2, <3>3
  <2> DEFINE h == Append(f, one(c))
  <2> HIDE DEF f, g, n, h
  <2>5. g = h
    BY <2>1, <2>3, <2>4, SeqEqual DEF h
  <2>. QED
    BY <2>5 DEF h
<1>7. FlattenSeq(f) \in Seq(Char) /\ FlattenSeq(g) = FlattenSeq(f) \o one(c)
  <2> DEFINE o == one(c)
  <2>1. o \in Seq(Char)
    BY <1>2
  <2> HIDE DEF f, g, o
  <2>2. g = Append(f, o)
    BY <1>6 DEF o
  <2>3. FlattenSeq(f) \in Seq(Char) /\ FlattenSeq(Append(f, o)) = FlattenSeq(f) \o o
    BY <1>5, <2>1, FlattenType, FlattenAppend
  <2>. QED
    BY <2>2, <2>3 DEF o
<1> DEFINE b == FlattenSeq(f)
<1> HIDE DEF f, g
<1>8. b \o <<c>> = Append(b, c) /\ b \o <<>> = b
  <2>1. b \in Seq(Char)
    BY <1>7
  <2> HIDE DEF b
  <2>. QED
    BY <2>1, AppendIsConcat, ConcatEmptySeq
<1>. QED
  BY <1>4, <1>7, <1>8

\* Characters of base 64 all stay.
LEMMA BufIsAll ==
  ASSUME NEW s \in Seq(Char), \A i \in 1 .. Len(s) : IsBase64(s[i])
  PROVE  Buf(s) = s
<1> DEFINE T == {n \in Nat : n <= Len(s) => Buf(SubSeq(s, 1, n)) = SubSeq(s, 1, n)}
<1>0. Len(s) \in Nat /\ \A i \in 1 .. Len(s) : s[i] \in Char
  BY LenProperties, ElementOfSeq
<1>1. 0 \in T
  <2>1. SubSeq(s, 1, 0) = <<>>
    BY SubSeqEmpty
  <2> DEFINE e == <<>>
  <2>2. Buf(e) = e
    <3>1. [i \in DOMAIN e |-> IF IsBase64(e[i]) THEN <<e[i]>> ELSE <<>>] = e
      OBVIOUS
    <3>2. Buf(e) = FlattenSeq([i \in DOMAIN e |-> IF IsBase64(e[i]) THEN <<e[i]>> ELSE <<>>])
      BY Zenon DEF Buf
    <3>. QED
      BY <3>1, <3>2, FlattenEmpty
  <2>. QED
    BY <2>1, <2>2
<1>2. ASSUME NEW n \in Nat, n \in T PROVE n + 1 \in T
  <2>1. SUFFICES ASSUME n + 1 <= Len(s) PROVE Buf(SubSeq(s, 1, n + 1)) = SubSeq(s, 1, n + 1)
    OBVIOUS
  <2>2. SubSeq(s, 1, n + 1) = Append(SubSeq(s, 1, n), s[n + 1]) /\ SubSeq(s, 1, n) \in Seq(Char)
    BY <1>0, <2>1, OneFurther
  <2>3. s[n + 1] \in Char /\ IsBase64(s[n + 1])
    BY <1>0, <2>1
  <2>4. Buf(SubSeq(s, 1, n)) = SubSeq(s, 1, n)
    BY <1>0, <1>2, <2>1
  <2> DEFINE a == SubSeq(s, 1, n)
             c == s[n + 1]
  <2> HIDE DEF a, c
  <2>5. Buf(Append(a, c)) = Append(a, c)
    BY <2>2, <2>3, <2>4, BufAppend DEF a, c
  <2>. QED
    BY <2>2, <2>5 DEF a, c
<1>3. Len(s) \in T
  <2> HIDE DEF T
  <2>. QED
    BY <1>0, <1>1, <1>2, NumberInduction
<1>. QED
  <2>1. Buf(SubSeq(s, 1, Len(s))) = SubSeq(s, 1, Len(s))
    BY <1>0, <1>3
  <2>2. SubSeq(s, 1, Len(s)) = s
    BY SubSeqFull
  <2>. QED
    BY <2>1, <2>2

\* Characters that are no characters of base 64 do not matter.
LEMMA BufOfLines ==
  ASSUME NEW s \in Seq(Char), \A i \in 1 .. Len(s) : IsBase64(s[i]),
         NEW pairs, pairs = [i \in 1 .. Len(s) |-> <<s[i], 10>>]
  PROVE  FlattenSeq(pairs) \in Seq(Char) /\ Buf(FlattenSeq(pairs)) = s
<1>0. Len(s) \in Nat /\ \A i \in 1 .. Len(s) : s[i] \in Char
  BY LenProperties, ElementOfSeq
<1>1. pairs \in Seq(Seq(Char)) /\ Len(pairs) = Len(s)
  <2>1. \A c \in Char : <<c, 10>> \in Seq(Char)
    <3>1. 10 \in Char
      BY DEF Char
    <3>. QED
      BY <3>1
  <2> DEFINE pair(i) == <<s[i], 10>>
  <2>2. \A i \in 1 .. Len(s) : pair(i) \in Seq(Char)
    BY <1>0, <2>1
  <2>3. pairs = [i \in 1 .. Len(s) |-> pair(i)]
    OBVIOUS
  <2> HIDE DEF pair
  <2>4. pairs \in [1 .. Len(s) -> Seq(Char)]
    BY <2>2, <2>3
  <2>. QED
    BY <1>0, <2>4, IsSeq
<1>2. PICK fl \in [0 .. Len(s) -> Seq(Char)] : Joins(fl, pairs) /\ FlattenSeq(pairs) = fl[Len(s)]
  BY <1>1, FlattenJoins
<1> DEFINE T == {n \in Nat : n <= Len(s) => Buf(fl[n]) = SubSeq(s, 1, n)}
<1>3. 0 \in T
  <2> DEFINE e == <<>>
  <2>1. SubSeq(s, 1, 0) = e /\ fl[0] = e
    BY <1>2, SubSeqEmpty DEF Joins
  <2>2. e \in Seq(Char) /\ \A i \in 1 .. Len(e) : IsBase64(e[i])
    BY EmptySeq
  <2>3. Buf(e) = e
    BY <2>2, BufIsAll
  <2>. QED
    BY <2>1, <2>3
<1>4. ASSUME NEW n \in Nat, n \in T PROVE n + 1 \in T
  <2>1. SUFFICES ASSUME n + 1 <= Len(s) PROVE Buf(fl[n + 1]) = SubSeq(s, 1, n + 1)
    OBVIOUS
  <2> DEFINE a == fl[n]
             c == s[n + 1]
  <2>2. SubSeq(s, 1, n + 1) = Append(SubSeq(s, 1, n), c)
    BY <1>0, <2>1, OneFurther
  <2>3. c \in Char /\ IsBase64(c) /\ a \in Seq(Char)
    BY <1>0, <2>1
  <2>4. Buf(a) = SubSeq(s, 1, n)
    BY <1>0, <1>4, <2>1
  <2>5. fl[n + 1] = a \o <<c, 10>>
    <3>1. n \in 0 .. Len(pairs) - 1 /\ n + 1 \in 1 .. Len(s)
      BY <1>0, <1>1, <2>1
    <3>2. fl[n + 1] = fl[n] \o pairs[n + 1]
      BY <1>2, <3>1 DEF Joins
    <3>. QED
      BY <3>1, <3>2
  <2> HIDE DEF a, c
  <2>6. a \o <<c, 10>> = Append(Append(a, c), 10) /\ Append(a, c) \in Seq(Char) /\ 10 \in Char
    <3>1. 10 \in Char
      BY DEF Char
    <3> HIDE DEF Char
    <3>2. a \o <<c, 10>> = Append(Append(a, c), 10)
      BY <2>3, <3>1
    <3>. QED
      BY <2>3, <3>1, <3>2, AppendProperties
  <2>7. ~IsBase64(10)
    BY DEF IsBase64, Pad
  <2> DEFINE ten == 10
  <2> HIDE DEF ten
  <2>8. Buf(Append(Append(a, c), ten)) = Append(Buf(a), c)
    BY <2>3, <2>6, <2>7, BufAppend DEF ten
  <2>. QED
    BY <2>2, <2>4, <2>5, <2>6, <2>8 DEF ten
<1>5. Len(s) \in T
  <2> HIDE DEF T
  <2>. QED
    BY <1>0, <1>3, <1>4, NumberInduction
<1>6. Buf(fl[Len(s)]) = s
  BY <1>0, <1>5, SubSeqFull
<1>7. Len(s) \in 0 .. Len(s)
  BY <1>0
<1>. QED
  BY <1>2, <1>6, <1>7

\* The encoding has characters of base 64 only.
LEMMA EncodedChars ==
  ASSUME NEW src \in Seq(Octet), src # <<>>, NEW text, text = EncodeBase64(Len(src), src)
  PROVE  /\ text \in Seq(Char) /\ Len(text) = 4 * ((Len(src) + 2) \div 3)
         /\ \A i \in 1 .. Len(text) : IsBase64(text[i])
<1> DEFINE N == 4 * ((Len(src) + 2) \div 3)
           given == IF Len(src) = 0 THEN Text(src) ELSE SubSeq(src, 1, Len(src))
<1>0. Len(src) \in Nat /\ Len(src) > 0
  BY EmptySeq, LenProperties
<1>1. given = src
  BY <1>0, SubSeqFull
<1>2. text = [n \in 1 .. 4 * ((Len(given) + 2) \div 3) |-> text[n]]
  BY Zenon DEF EncodeBase64
<1>3. text = [n \in 1 .. N |-> text[n]]
  <2> HIDE DEF given
  <2>. QED
    BY <1>1, <1>2
<1>4. Len(text) = N
  BY EncodingLength
<1>5. ASSUME NEW n \in 1 .. N PROVE IsBase64(text[n])
  <2> DEFINE q == (n - 1) \div 4
             p == (n - 1) % 4
  <2>1. q \in 0 .. (Len(src) + 2) \div 3 - 1 /\ p \in 0 .. 3 /\ n = 4 * q + p + 1 /\ q \in Nat
    BY <1>0
  <2> HIDE DEF q, p
  <2> DEFINE u == Sextets(ByteAt(src, 3 * q + 1), ByteAt(src, 3 * q + 2), ByteAt(src, 3 * q + 3))[p + 1]
  <2>2. text[n] = IF Padded(Len(src), 3 * q, p) THEN Pad ELSE EncodeSextet(u)
    BY <2>1, EncodedAt
  <2>3. u \in Sextet
    BY <2>1, GroupSextets
  <2> HIDE DEF u
  <2>4. IsBase64(EncodeSextet(u))
    BY <2>3, SextetBack
  <2>5. IsBase64(Pad)
    BY DEF IsBase64, Pad
  <2>. QED
    BY <2>2, <2>4, <2>5
<1>6. \A n \in 1 .. N : text[n] \in Char
  <2>1. \A c : IsBase64(c) => c \in Char
    BY DEF IsBase64, Pad, Char
  <2>. QED
    BY <1>5, <2>1
<1>7. text \in Seq(Char)
  <2> HIDE DEF N
  <2>1. text \in [1 .. N -> Char]
    BY <1>3, <1>6
  <2>2. N \in Nat
    BY <1>0 DEF N
  <2>. QED
    BY <2>1, <2>2, IsSeq
<1>. QED
  BY <1>4, <1>5, <1>7

\* Up to three bytes from a place on.
LEMMA ThreeOf ==
  ASSUME NEW S, NEW s, NEW m \in Nat
  PROVE  /\ (\A i \in m + 1 .. m + 1 : s[i] \in S) => SubSeq(s, m + 1, m + 1) = <<s[m + 1]>>
         /\ (\A i \in m + 1 .. m + 2 : s[i] \in S)
              => SubSeq(s, m + 1, m + 2) = <<s[m + 1], s[m + 2]>>
         /\ (\A i \in m + 1 .. m + 3 : s[i] \in S)
              => SubSeq(s, m + 1, m + 3) = <<s[m + 1], s[m + 2], s[m + 3]>>
<1> DEFINE part(n) == SubSeq(s, m + 1, m + n)
<1>1. ASSUME NEW n \in 1 .. 3, \A i \in m + 1 .. m + n : s[i] \in S
      PROVE  part(n) \in Seq(S) /\ Len(part(n)) = n /\ \A i \in 1 .. n : part(n)[i] = s[m + i]
  <2>1. m + 1 \in Int /\ m + n \in Int
    OBVIOUS
  <2>2. /\ part(n) \in Seq(S) /\ Len(part(n)) = (IF m + 1 <= m + n THEN m + n - (m + 1) + 1 ELSE 0)
        /\ \A i \in 1 .. m + n - (m + 1) + 1 : part(n)[i] = s[m + 1 + i - 1]
    BY <1>1, <2>1, SubSeqProperties
  <2> HIDE DEF part
  <2>3. ASSUME NEW i \in 1 .. n PROVE part(n)[i] = s[m + i]
    <3>1. i \in 1 .. m + n - (m + 1) + 1 /\ m + 1 + i - 1 = m + i
      OBVIOUS
    <3>. QED
      BY <2>2, <3>1
  <2>. QED
    BY <2>2, <2>3
<1> HIDE DEF part
<1>2. ASSUME \A i \in m + 1 .. m + 1 : s[i] \in S PROVE part(1) = <<s[m + 1]>>
  <2>1. part(1) \in Seq(S) /\ Len(part(1)) = 1 /\ \A i \in 1 .. 1 : part(1)[i] = s[m + i]
    BY <1>1, <1>2
  <2>. QED
    BY <2>1
<1>3. ASSUME \A i \in m + 1 .. m + 2 : s[i] \in S PROVE part(2) = <<s[m + 1], s[m + 2]>>
  <2>1. part(2) \in Seq(S) /\ Len(part(2)) = 2 /\ \A i \in 1 .. 2 : part(2)[i] = s[m + i]
    BY <1>1, <1>3
  <2>. QED
    BY <2>1
<1>4. ASSUME \A i \in m + 1 .. m + 3 : s[i] \in S PROVE part(3) = <<s[m + 1], s[m + 2], s[m + 3]>>
  <2>1. part(3) \in Seq(S) /\ Len(part(3)) = 3 /\ \A i \in 1 .. 3 : part(3)[i] = s[m + i]
    BY <1>1, <1>4
  <2>. QED
    BY <2>1
<1>. QED
  BY <1>2, <1>3, <1>4 DEF part

LEMMA ShortJoins ==
  ASSUME NEW S, NEW x \in S, NEW y \in S, NEW z \in S
  PROVE  /\ <<x>> \o <<y>> \o <<z>> = <<x, y, z>>
         /\ <<x>> \o <<y>> \o <<>> = <<x, y>>
         /\ <<x>> \o <<>> \o <<>> = <<x>>
<1>1. <<x>> \in Seq(S) /\ <<x, y>> \in Seq(S) /\ <<y>> \in Seq(S) /\ <<z>> \in Seq(S)
  OBVIOUS
<1>2. <<x>> \o <<y>> = Append(<<x>>, y) /\ <<x, y>> \o <<z>> = Append(<<x, y>>, z)
  BY <1>1, AppendIsConcat
<1>3. Append(<<x>>, y) = <<x, y>> /\ Append(<<x, y>>, z) = <<x, y, z>>
  <2> DEFINE one == <<x>>
             two == <<x, y>>
             three == <<x, y, z>>
             a == Append(one, y)
             b == Append(two, z)
  <2>1. one \in Seq(S) /\ Len(one) = 1 /\ one[1] = x
    OBVIOUS
  <2>2. two \in Seq(S) /\ Len(two) = 2 /\ two[1] = x /\ two[2] = y
    OBVIOUS
  <2>3. three \in Seq(S) /\ Len(three) = 3 /\ three[1] = x /\ three[2] = y /\ three[3] = z
    OBVIOUS
  <2> HIDE DEF one, two, three
  <2>4. a \in Seq(S) /\ Len(a) = Len(one) + 1 /\ a[Len(one) + 1] = y /\ \A i \in 1 .. Len(one) : a[i] = one[i]
    BY <2>1, AppendProperties
  <2>5. b \in Seq(S) /\ Len(b) = Len(two) + 1 /\ b[Len(two) + 1] = z /\ \A i \in 1 .. Len(two) : b[i] = two[i]
    <3>1. two \in Seq(S)
      BY <2>2
    <3>. QED
      BY <3>1, AppendProperties
  <2> HIDE DEF a, b
  <2>6. Len(a) = 2 /\ a[1] = x /\ a[2] = y
    BY <2>1, <2>4
  <2>7. Len(b) = 3 /\ b[1] = x /\ b[2] = y /\ b[3] = z
    BY <2>2, <2>5
  <2>8. a = two
    <3>1. \A i \in 1 .. Len(a) : a[i] = two[i]
      BY <2>2, <2>6
    <3>. QED
      BY <2>2, <2>4, <2>6, <3>1, SeqEqual
  <2>9. b = three
    <3>1. \A i \in 1 .. Len(b) : b[i] = three[i]
      BY <2>3, <2>7
    <3>. QED
      BY <2>3, <2>5, <2>7, <3>1, SeqEqual
  <2>. QED
    BY <2>8, <2>9 DEF a, b, one, two, three
<1>4. <<x>> \o <<>> = <<x>> /\ <<x, y>> \o <<>> = <<x, y>>
  BY <1>1, ConcatEmptySeq
<1>. QED
  BY <1>2, <1>3, <1>4, Zenon

\* A group of four characters gives back the bytes of its place.
LEMMA GroupDecodes ==
  ASSUME NEW src \in Seq(Octet), src # <<>>, NEW q \in 0 .. (Len(src) + 2) \div 3 - 1,
         NEW text, text = EncodeBase64(Len(src), src)
  PROVE  Decoded(text, 4 * q + 1) =
           SubSeq(src, 3 * q + 1, IF 3 * q + 3 <= Len(src) THEN 3 * q + 3 ELSE Len(src))
<1> DEFINE b(k) == ByteAt(src, 3 * q + k)
           s == Sextets(b(1), b(2), b(3))
           c(p) == CharAt(text, 4 * q + 1 + p)
           d(p) == DecodeSextet(c(p))
           L == Len(src)
<1>0. L \in Nat /\ L > 0 /\ q \in Nat /\ 3 * q + 1 <= L
  <2>1. L \in Nat /\ L > 0
    BY EmptySeq, LenProperties
  <2>. QED
    BY <2>1
<1>1. Len(text) = 4 * ((L + 2) \div 3)
  BY EncodedChars
<1>2. ASSUME NEW p \in 0 .. 3
      PROVE  /\ c(p) = IF Padded(L, 3 * q, p) THEN Pad ELSE EncodeSextet(s[p + 1])
             /\ s[p + 1] \in Sextet
  <2>1. 4 * q + 1 + p <= Len(text) /\ 4 * q + 1 + p = 4 * q + p + 1
    BY <1>0, <1>1
  <2>2. c(p) = text[4 * q + p + 1]
    BY <2>1 DEF CharAt
  <2>. QED
    BY <1>0, <2>2, EncodedAt, GroupSextets
<1>3. b(1) \in Octet /\ b(2) \in Octet /\ b(3) \in Octet
  BY <1>0, BytesAreOctets
<1>4. Bytes(s[1], s[2], s[3], s[4]) = <<b(1), b(2), b(3)>>
  BY <1>3, GroupRoundTrips
<1> HIDE DEF s
<1>5. /\ Decoded(text, 4 * q + 1) =
           LET threeBytes == Bytes(d(0), d(1), d(2), d(3))
           IN <<threeBytes[1]>> \o (IF c(2) # Pad THEN <<threeBytes[2]>> ELSE <<>>)
                \o (IF c(3) # Pad THEN <<threeBytes[3]>> ELSE <<>>)
  <2>1. 4 * q + 1 + 0 = 4 * q + 1
    BY <1>0
  <2>. QED
    BY <2>1 DEF Decoded
<1> HIDE DEF c
<1>6. ASSUME NEW p \in 0 .. 3
      PROVE  /\ Padded(L, 3 * q, p) => c(p) = Pad
             /\ ~Padded(L, 3 * q, p) => c(p) # Pad /\ d(p) = s[p + 1]
  BY <1>2, SextetBack
<1>7. /\ ~Padded(L, 3 * q, 0) /\ ~Padded(L, 3 * q, 1)
      /\ Padded(L, 3 * q, 2) <=> 3 * q + 2 > L
      /\ Padded(L, 3 * q, 3) <=> 3 * q + 3 > L
  BY <1>0 DEF Padded
<1>8. d(0) = s[1] /\ d(1) = s[2]
  <2>1. 0 \in 0 .. 3 /\ 1 \in 0 .. 3 /\ 0 + 1 = 1 /\ 1 + 1 = 2
    OBVIOUS
  <2>2. d(0) = s[0 + 1] /\ d(1) = s[1 + 1]
    BY <1>6, <1>7, <2>1
  <2>. QED
    BY <2>1, <2>2
<1>9. /\ 3 * q + 2 > L => c(2) = Pad
      /\ 3 * q + 2 <= L => c(2) # Pad /\ d(2) = s[3]
      /\ 3 * q + 3 > L => c(3) = Pad
      /\ 3 * q + 3 <= L => c(3) # Pad /\ d(3) = s[4]
  <2>1. 2 \in 0 .. 3 /\ 3 \in 0 .. 3 /\ 2 + 1 = 3 /\ 3 + 1 = 4
    OBVIOUS
  <2>2. /\ Padded(L, 3 * q, 2) => c(2) = Pad
        /\ ~Padded(L, 3 * q, 2) => c(2) # Pad /\ d(2) = s[2 + 1]
        /\ Padded(L, 3 * q, 3) => c(3) = Pad
        /\ ~Padded(L, 3 * q, 3) => c(3) # Pad /\ d(3) = s[3 + 1]
    BY <1>6, <2>1
  <2>. QED
    BY <1>0, <1>7, <2>1, <2>2
<1> HIDE DEF d
<1>10. \A i \in 1 .. L : src[i] = ByteAt(src, i) /\ src[i] \in Octet
  BY <1>0, ElementOfSeq DEF ByteAt
<1> DEFINE x == d(2)
           y == d(3)
<1>11. Bytes(s[1], s[2], s[3], y)[2] = b(2) /\ Bytes(s[1], s[2], s[3], y)[1] = b(1)
       /\ Bytes(s[1], s[2], x, y)[1] = b(1)
  <2>1. Bytes(s[1], s[2], s[3], s[4])[1] = b(1) /\ Bytes(s[1], s[2], s[3], s[4])[2] = b(2)
    BY <1>4
  <2> HIDE DEF b
  <2>. QED
    BY <2>1 DEF Bytes
<1>12. CASE 3 * q + 3 <= L
  <2>1. d(2) = s[3] /\ d(3) = s[4] /\ c(2) # Pad /\ c(3) # Pad
    BY <1>0, <1>9, <1>12
  <2>2. Decoded(text, 4 * q + 1) = <<b(1)>> \o <<b(2)>> \o <<b(3)>>
    BY <1>4, <1>5, <1>8, <2>1
  <2>3. SubSeq(src, 3 * q + 1, 3 * q + 3) = <<b(1), b(2), b(3)>>
    <3>1. \A i \in 3 * q + 1 .. 3 * q + 3 : src[i] \in Octet /\ src[i] = ByteAt(src, i)
      BY <1>0, <1>10, <1>12
    <3>. QED
      BY <1>0, <3>1, ThreeOf
  <2>4. <<b(1)>> \o <<b(2)>> \o <<b(3)>> = <<b(1), b(2), b(3)>>
    <3> HIDE DEF b
    <3>. QED
      BY <1>3, ShortJoins
  <2>. QED
    BY <1>12, <2>2, <2>3, <2>4
<1>13. CASE 3 * q + 2 = L
  <2>1. d(2) = s[3] /\ c(2) # Pad /\ c(3) = Pad
    BY <1>0, <1>9, <1>13
  <2>2. Decoded(text, 4 * q + 1) = <<b(1)>> \o <<b(2)>> \o <<>>
    BY <1>5, <1>8, <1>11, <2>1
  <2>3. SubSeq(src, 3 * q + 1, L) = <<b(1), b(2)>>
    <3>1. \A i \in 3 * q + 1 .. 3 * q + 2 : src[i] \in Octet /\ src[i] = ByteAt(src, i)
      BY <1>0, <1>10, <1>13
    <3>. QED
      BY <1>0, <1>13, <3>1, ThreeOf
  <2>4. <<b(1)>> \o <<b(2)>> \o <<>> = <<b(1), b(2)>>
    <3> HIDE DEF b
    <3>. QED
      BY <1>3, ShortJoins
  <2>. QED
    <3>1. (IF 3 * q + 3 <= Len(src) THEN 3 * q + 3 ELSE Len(src)) = L
      BY <1>0, <1>13
    <3>. QED
      BY <2>2, <2>3, <2>4, <3>1, Zenon
<1>14. CASE 3 * q + 1 = L
  <2>1. c(2) = Pad /\ c(3) = Pad
    BY <1>0, <1>9, <1>14
  <2>2. Decoded(text, 4 * q + 1) = <<b(1)>> \o <<>> \o <<>>
    BY <1>5, <1>8, <1>11, <2>1
  <2>3. SubSeq(src, 3 * q + 1, L) = <<b(1)>>
    <3>1. \A i \in 3 * q + 1 .. 3 * q + 1 : src[i] \in Octet /\ src[i] = ByteAt(src, i)
      BY <1>0, <1>10, <1>14
    <3>. QED
      BY <1>0, <1>14, <3>1, ThreeOf
  <2>4. <<b(1)>> \o <<>> \o <<>> = <<b(1)>>
    <3> HIDE DEF b
    <3>. QED
      BY <1>3, ShortJoins
  <2>. QED
    <3>1. (IF 3 * q + 3 <= Len(src) THEN 3 * q + 3 ELSE Len(src)) = L
      BY <1>0, <1>14
    <3>. QED
      BY <2>2, <2>3, <2>4, <3>1, Zenon
<1>. QED
  <2>1. 3 * q + 3 <= L \/ 3 * q + 2 = L \/ 3 * q + 1 = L
    <3> HIDE DEF L
    <3>. QED
      BY <1>0
  <2>. QED
    BY <1>12, <1>13, <1>14, <2>1, Zenon

\* oauth_decode_base64 gives back what oauth_encode_base64 has encoded, whatever
\* the bytes are and however many.
LEMMA DecodesBack ==
  ASSUME NEW src \in Seq(Octet), src # <<>>, NEW text, text = EncodeBase64(Len(src), src)
  PROVE  FlattenSeq([i \in 1 .. (Len(text) + 3) \div 4 |-> Decoded(text, 4 * i - 3)]) = src
<1> DEFINE L == Len(src)
           G == (L + 2) \div 3
           upto(i) == IF 3 * i <= L THEN 3 * i ELSE L
           groups == [i \in 1 .. G |-> Decoded(text, 4 * i - 3)]
           g == [i \in 0 .. G |-> SubSeq(src, 1, upto(i))]
<1>0. L \in Nat /\ L > 0 /\ G \in Nat /\ 3 * G >= L /\ 3 * (G - 1) < L /\ G > 0
  <2>1. L \in Nat /\ L > 0
    BY EmptySeq, LenProperties
  <2>. QED
    BY <2>1
<1>1. (Len(text) + 3) \div 4 = G
  <2>1. Len(text) = 4 * G
    BY EncodedChars
  <2> HIDE DEF G
  <2>. QED
    BY <1>0, <2>1
<1>2. \A i \in 1 .. L : src[i] \in Octet
  BY <1>0, ElementOfSeq
<1>3. ASSUME NEW i \in 0 .. G - 1
      PROVE  /\ groups[i + 1] = SubSeq(src, upto(i) + 1, upto(i + 1))
             /\ upto(i) \in 0 .. L /\ upto(i + 1) \in upto(i) .. L /\ i + 1 \in 0 .. G /\ i \in 0 .. G
  <2>1. i + 1 \in 1 .. G /\ 4 * (i + 1) - 3 = 4 * i + 1 /\ 3 * (i + 1) = 3 * i + 3
    BY <1>0
  <2>2. 3 * i < L /\ upto(i) = 3 * i
    BY <1>0
  <2>3. Decoded(text, 4 * i + 1) = SubSeq(src, 3 * i + 1, upto(i + 1))
    <3>1. i \in 0 .. (Len(src) + 2) \div 3 - 1
      OBVIOUS
    <3>. QED
      BY <2>1, <3>1, GroupDecodes
  <2>4. groups[i + 1] = Decoded(text, 4 * i + 1)
    BY <2>1
  <2>5. upto(i) \in 0 .. L /\ upto(i + 1) \in upto(i) .. L /\ i + 1 \in 0 .. G /\ i \in 0 .. G
    BY <1>0, <2>2
  <2> HIDE DEF upto, groups, L, G
  <2>. QED
    BY <2>2, <2>3, <2>4, <2>5
<1>4. \A i \in 0 .. G : upto(i) \in 0 .. L
  BY <1>0
<1>5. ASSUME NEW i \in 0 .. G PROVE SubSeq(src, 1, upto(i)) \in Seq(Octet)
  <2>1. upto(i) \in Int /\ \A k \in 1 .. upto(i) : src[k] \in Octet
    BY <1>0, <1>2, <1>4
  <2> HIDE DEF upto
  <2>. QED
    BY <2>1, SubSeqProperties
<1> HIDE DEF upto
<1>6. g \in [0 .. G -> Seq(Octet)]
  BY <1>5
<1>7. groups \in [1 .. G -> Seq(Octet)]
  <2>1. ASSUME NEW i \in 1 .. G PROVE groups[i] \in Seq(Octet)
    <3> DEFINE j == i - 1
    <3>1. j \in 0 .. G - 1 /\ j + 1 = i
      BY <1>0
    <3> HIDE DEF j, groups, G
    <3>2. groups[j + 1] = SubSeq(src, upto(j) + 1, upto(j + 1)) /\ upto(j) \in 0 .. L /\ upto(j + 1) \in upto(j) .. L
      BY <1>3, <3>1
    <3>3. upto(j) + 1 \in Int /\ upto(j + 1) \in Int /\ \A k \in upto(j) + 1 .. upto(j + 1) : src[k] \in Octet
      BY <1>0, <1>2, <3>2
    <3>4. SubSeq(src, upto(j) + 1, upto(j + 1)) \in Seq(Octet)
      BY <3>3, SubSeqProperties
    <3>. QED
      BY <3>1, <3>2, <3>4
  <2>2. groups = [i \in 1 .. G |-> groups[i]]
    OBVIOUS
  <2> HIDE DEF groups, G
  <2>. QED
    BY <2>1, <2>2
<1>8. groups \in Seq(Seq(Octet)) /\ Len(groups) = G
  <2> HIDE DEF groups, G
  <2>. QED
    BY <1>0, <1>7, IsSeq
<1>9. Joins(g, groups)
  <2>1. g[0] = <<>>
    <3>1. 0 \in 0 .. G /\ upto(0) = 0
      BY <1>0 DEF upto
    <3>2. SubSeq(src, 1, 0) = <<>>
      BY SubSeqEmpty
    <3>. QED
      BY <3>1, <3>2
  <2>2. ASSUME NEW i \in 0 .. Len(groups) - 1 PROVE g[i + 1] = g[i] \o groups[i + 1]
    <3> HIDE DEF groups, G
    <3>1. i \in 0 .. G - 1
      BY <1>8
    <3>2. /\ groups[i + 1] = SubSeq(src, upto(i) + 1, upto(i + 1))
          /\ upto(i) \in 0 .. L /\ upto(i + 1) \in upto(i) .. L /\ i + 1 \in 0 .. G /\ i \in 0 .. G
      BY <1>3, <3>1
    <3>3. g[i] = SubSeq(src, 1, upto(i)) /\ g[i + 1] = SubSeq(src, 1, upto(i + 1))
      BY <3>2
    <3> DEFINE m == upto(i)
               n == upto(i + 1)
    <3> HIDE DEF g, m, n
    <3>4. SubSeq(src, 1, m) \o SubSeq(src, m + 1, n) = SubSeq(src, 1, n)
      BY <3>2, PartsMeet DEF m, n
    <3>. QED
      BY <3>2, <3>3, <3>4 DEF m, n
  <2> HIDE DEF g, groups
  <2>. QED
    BY <2>1, <2>2 DEF Joins
<1>10. g[G] = src
  <2>1. upto(G) = L /\ G \in 0 .. G
    <3> HIDE DEF G, L
    <3>. QED
      BY <1>0 DEF upto
  <2>2. SubSeq(src, 1, L) = src
    BY SubSeqFull
  <2> HIDE DEF G
  <2>. QED
    BY <2>1, <2>2
<1>11. FlattenSeq(groups) = g[G]
  <2> HIDE DEF groups, g, G
  <2>1. g \in [0 .. Len(groups) -> Seq(Octet)]
    BY <1>6, <1>8
  <2>2. FlattenSeq(groups) = g[Len(groups)]
    BY <1>8, <1>9, <2>1, FlattenIsJoined
  <2>. QED
    BY <1>8, <2>2
<1>12. [i \in 1 .. (Len(text) + 3) \div 4 |-> Decoded(text, 4 * i - 3)] = groups
  <2> HIDE DEF G
  <2>. QED
    BY <1>1
<1> HIDE DEF groups
<1>. QED
  BY <1>10, <1>11, <1>12

\* Decoding gives back what was encoded, also when the characters are broken into
\* lines, and the encoding fits into its allocation with a NUL: for any bytes.
THEOREM Base64RoundTrips == \A src \in Seq(Octet) : RoundTrips(src)
<1> SUFFICES ASSUME NEW src \in Seq(Octet) PROVE RoundTrips(src)
  OBVIOUS
<1> DEFINE text == EncodeBase64(Len(src), src)
           pairs == [i \in DOMAIN text |-> <<text[i], 10>>]
<1>1. CASE src # <<>>
  <2>1. text \in Seq(Char) /\ \A i \in 1 .. Len(text) : IsBase64(text[i])
    BY <1>1, EncodedChars
  <2>2. FlattenSeq([i \in 1 .. (Len(text) + 3) \div 4 |-> Decoded(text, 4 * i - 3)]) = src
    BY <1>1, DecodesBack
  <2>3. Len(text) + 1 <= Allocated(Len(src), src)
    BY <1>1, EncodingFits
  <2>4. pairs = [i \in 1 .. Len(text) |-> <<text[i], 10>>]
    <3>1. DOMAIN text = 1 .. Len(text)
      BY <2>1, LenProperties
    <3> HIDE DEF text
    <3>. QED
      BY <3>1
  <2> HIDE DEF text, pairs
  <2>5. Buf(text) = text
    BY <2>1, BufIsAll
  <2>6. DecodeBase64(text) = src
    BY <2>1, <2>2, <2>5, DecodeIs
  <2>7. FlattenSeq(pairs) \in Seq(Char) /\ Buf(FlattenSeq(pairs)) = text
    BY <2>1, <2>4, BufOfLines
  <2>8. DecodeBase64(FlattenSeq(pairs)) = src
    BY <2>2, <2>7, DecodeIs
  <2>. QED
    BY <2>3, <2>6, <2>8, Zenon DEF RoundTrips, text, pairs
<1>2. CASE src = <<>>
  BY <1>2, Zenon DEF RoundTrips
<1>. QED
  BY <1>1, <1>2

-----------------------------------------------------------------------------
(* The hash of a file.                                                     *)

\* The block that is read n-th, and what a read makes of the buffer and of the
\* digest's context.
BlockEnd(file, n) == Min({n * BUFSIZ, Len(file)})
Block(file, n) == SubSeq(file, (n - 1) * BUFSIZ + 1, BlockEnd(file, n))
Read(s, b) == [fb |-> Over(s.fb, b), ctx |-> EVP_DigestUpdate(s.ctx, Over(s.fb, b), Len(b))]
Blocks(file) == (Len(file) + BUFSIZ - 1) \div BUFSIZ
Empty == [fb |-> [i \in 1 .. BUFSIZ |-> 0], ctx |-> <<>>]
Buffer == {fb \in Seq(Octet) : Len(fb) = BUFSIZ}

LEMMA MinIs ==
  ASSUME NEW a \in Int, NEW b \in Int
  PROVE  Min({a, b}) = IF a <= b THEN a ELSE b
<1>1. \E x \in {a, b} : \A y \in {a, b} : x <= y
  <2>1. CASE a <= b
    BY <2>1
  <2>2. CASE ~(a <= b)
    BY <2>2
  <2>. QED
    BY <2>1, <2>2
<1>2. Min({a, b}) \in {a, b} /\ \A y \in {a, b} : Min({a, b}) <= y
  BY <1>1 DEF Min
<1> DEFINE m == Min({a, b})
<1>3. (m = a \/ m = b) /\ m <= a /\ m <= b
  BY <1>2
<1> HIDE DEF m
<1>4. m = IF a <= b THEN a ELSE b
  BY <1>3
<1>. QED
  BY <1>4 DEF m

\* Every block but the last is full, and no block is empty.
LEMMA BlocksCover ==
  ASSUME NEW file \in Seq(Octet), NEW k \in 0 .. Blocks(file) - 1
  PROVE  /\ BlockEnd(file, k) = k * BUFSIZ
         /\ BlockEnd(file, k) \in 0 .. Len(file)
         /\ BlockEnd(file, k + 1) \in BlockEnd(file, k) + 1 .. Len(file)
         /\ BlockEnd(file, k + 1) <= BlockEnd(file, k) + BUFSIZ
<1> DEFINE L == Len(file)
           B == BUFSIZ
           K == Blocks(file)
           p == k * B
<1>0. L \in Nat /\ B \in Nat \ {0}
  BY LenProperties, BufferAssumption
<1>1. K \in Nat /\ K * B <= L + B - 1
  BY <1>0 DEF Blocks
<1>2. p + B <= L + B - 1 /\ p \in Nat /\ (k + 1) * B = p + B
  <2>1. K \in Nat /\ k \in Nat /\ k + 1 <= K
    BY <1>1
  <2> HIDE DEF K, B, L
  <2>2. (k + 1) * B = p + B /\ p \in Nat
    BY <1>0, <2>1
  <2>3. (k + 1) * B <= K * B
    BY <1>0, <2>1
  <2>. QED
    BY <1>0, <1>1, <2>1, <2>2, <2>3
<1>3. BlockEnd(file, k) = (IF p <= L THEN p ELSE L) /\ BlockEnd(file, k + 1) = (IF p + B <= L THEN p + B ELSE L)
  <2>1. BlockEnd(file, k) = Min({p, L}) /\ BlockEnd(file, k + 1) = Min({p + B, L})
    BY <1>2 DEF BlockEnd
  <2> HIDE DEF p, L, B
  <2>2. p \in Int /\ p + B \in Int /\ L \in Int
    BY <1>0, <1>2
  <2>. QED
    BY <2>1, <2>2, MinIs
<1> HIDE DEF p, L, B
<1>4. p < L
  BY <1>0, <1>2
<1>. QED
  BY <1>0, <1>2, <1>3, <1>4 DEF p, L, B

LEMMA LastBlock ==
  ASSUME NEW file \in Seq(Octet)
  PROVE  Blocks(file) \in Nat /\ BlockEnd(file, Blocks(file)) = Len(file) /\ BlockEnd(file, 0) = 0
<1> DEFINE L == Len(file)
           B == BUFSIZ
           K == Blocks(file)
           p == K * B
<1>0. L \in Nat /\ B \in Nat \ {0}
  BY LenProperties, BufferAssumption
<1>1. K \in Nat /\ p >= L /\ p \in Nat
  BY <1>0 DEF Blocks
<1>2. BlockEnd(file, K) = Min({p, L}) /\ BlockEnd(file, 0) = Min({0, L})
  <2>1. 0 * BUFSIZ = 0
    BY <1>0
  <2>. QED
    BY <2>1, Zenon DEF BlockEnd
<1> HIDE DEF p, L
<1>3. Min({p, L}) = (IF p <= L THEN p ELSE L) /\ Min({0, L}) = (IF 0 <= L THEN 0 ELSE L)
  BY <1>0, <1>1, MinIs
<1>. QED
  BY <1>0, <1>1, <1>2, <1>3 DEF L

\* A read leaves the buffer full and adds the block to what is hashed.
LEMMA ReadAdds ==
  ASSUME NEW fb \in Buffer, NEW ctx \in Seq(Octet), NEW b \in Seq(Octet), Len(b) <= BUFSIZ,
         NEW s, s = [fb |-> fb, ctx |-> ctx]
  PROVE  Read(s, b) \in [fb : Buffer, ctx : Seq(Octet)] /\ Read(s, b).ctx = ctx \o b
<1> DEFINE n == Len(b)
           rest == SubSeq(fb, n + 1, Len(fb))
           over == b \o rest
<1>0. BUFSIZ \in Nat /\ n \in 0 .. BUFSIZ /\ fb \in Seq(Octet) /\ Len(fb) = BUFSIZ
  BY LenProperties, BufferAssumption DEF Buffer
<1>1. rest \in Seq(Octet) /\ Len(rest) = BUFSIZ - n
  <2> DEFINE j == n + 1
  <2>1. j \in Int /\ Len(fb) \in Int /\ \A i \in j .. Len(fb) : fb[i] \in Octet
    <3>1. \A i \in j .. Len(fb) : i \in 1 .. Len(fb)
      BY <1>0
    <3>. QED
      BY <1>0, <3>1, ElementOfSeq
  <2>2. rest \in Seq(Octet) /\ Len(rest) = IF j <= Len(fb) THEN Len(fb) - j + 1 ELSE 0
    <3> HIDE DEF j
    <3>1. SubSeq(fb, j, Len(fb)) \in Seq(Octet) /\ Len(SubSeq(fb, j, Len(fb))) = IF j <= Len(fb) THEN Len(fb) - j + 1 ELSE 0
      BY <2>1, SubSeqProperties
    <3>. QED
      BY <3>1 DEF j
  <2> HIDE DEF rest
  <2>. QED
    BY <1>0, <2>2
<1> HIDE DEF rest
<1>2. /\ over \in Seq(Octet) /\ Len(over) = n + (BUFSIZ - n)
      /\ \A i \in 1 .. n + (BUFSIZ - n) : over[i] = IF i <= n THEN b[i] ELSE rest[i - n]
  BY <1>1, ConcatProperties
<1>3. over \in Buffer
  <2>1. n + (BUFSIZ - n) = BUFSIZ
    BY <1>0
  <2>. QED
    BY <1>2, <2>1 DEF Buffer
<1> HIDE DEF over
<1>4. SubSeq(over, 1, n) = b
  <2>1. \A i \in 1 .. n : over[i] = b[i] /\ over[i] \in Octet
    BY <1>0, <1>2, ElementOfSeq
  <2>2. 1 \in Int /\ n \in Int
    BY <1>0
  <2> DEFINE a == SubSeq(over, 1, n)
  <2>3. a \in Seq(Octet) /\ Len(a) = (IF 1 <= n THEN n - 1 + 1 ELSE 0) /\ \A i \in 1 .. n - 1 + 1 : a[i] = over[1 + i - 1]
    BY <2>1, <2>2, SubSeqProperties
  <2> HIDE DEF a
  <2>4. Len(a) = n /\ \A i \in 1 .. n : a[i] = b[i]
    BY <1>0, <2>1, <2>3
  <2>5. a = b
    BY <2>3, <2>4, SeqEqual
  <2>. QED
    BY <2>5 DEF a
<1>5. s.fb = fb /\ s.ctx = ctx
  OBVIOUS
<1>6. Over(s.fb, b) = over
  BY <1>5, Zenon DEF Over, over, rest, n
<1>7. Read(s, b) = [fb |-> over, ctx |-> ctx \o b]
  <2>1. EVP_DigestUpdate(s.ctx, over, n) = ctx \o b
    BY <1>4, <1>5, Zenon DEF EVP_DigestUpdate
  <2>. QED
    BY <1>6, <2>1, Zenon DEF Read, n
<1>8. ctx \o b \in Seq(Octet)
  BY ConcatProperties
<1> DEFINE hashed == ctx \o b
           r == Read(s, b)
<1>9. r = [fb |-> over, ctx |-> hashed] /\ hashed \in Seq(Octet)
  BY <1>7, <1>8
<1> HIDE DEF r, hashed
<1>10. r \in [fb : Buffer, ctx : Seq(Octet)] /\ r.ctx = hashed
  BY <1>3, <1>9
<1>. QED
  BY <1>10 DEF r, hashed

LEMMA BlockIs ==
  ASSUME NEW file \in Seq(Octet), NEW k \in 0 .. Blocks(file) - 1
  PROVE  /\ Block(file, k + 1) = SubSeq(file, BlockEnd(file, k) + 1, BlockEnd(file, k + 1))
         /\ Block(file, k + 1) \in Seq(Octet) /\ Len(Block(file, k + 1)) <= BUFSIZ
<1>0. BUFSIZ \in Nat /\ Len(file) \in Nat /\ k \in Nat
  BY LenProperties, BufferAssumption
<1>1. /\ BlockEnd(file, k) = k * BUFSIZ
      /\ BlockEnd(file, k) \in 0 .. Len(file)
      /\ BlockEnd(file, k + 1) \in BlockEnd(file, k) + 1 .. Len(file)
      /\ BlockEnd(file, k + 1) <= BlockEnd(file, k) + BUFSIZ
  BY BlocksCover
<1>2. (k + 1) - 1 = k
  BY <1>0
<1> DEFINE m == BlockEnd(file, k)
           n == BlockEnd(file, k + 1)
           j == m + 1
<1>3. Block(file, k + 1) = SubSeq(file, j, n)
  BY <1>1, <1>2, Zenon DEF Block
<1> HIDE DEF m, n
<1>4. j \in Int /\ n \in Int /\ n <= m + BUFSIZ /\ m \in Nat /\ n \in j .. Len(file)
  BY <1>0, <1>1 DEF m, n
<1>5. \A i \in j .. n : file[i] \in Octet
  BY <1>0, <1>4, ElementOfSeq
<1>6. SubSeq(file, j, n) \in Seq(Octet) /\ Len(SubSeq(file, j, n)) = IF j <= n THEN n - j + 1 ELSE 0
  <2> HIDE DEF j
  <2>. QED
    BY <1>4, <1>5, SubSeqProperties
<1>7. Len(SubSeq(file, j, n)) <= BUFSIZ
  <2> DEFINE l == Len(SubSeq(file, j, n))
  <2>1. l = IF j <= n THEN n - j + 1 ELSE 0
    BY <1>6
  <2> HIDE DEF l
  <2>2. l <= BUFSIZ
    BY <1>0, <1>4, <2>1
  <2>. QED
    BY <2>2 DEF l
<1>. QED
  BY <1>3, <1>6, <1>7 DEF m, n

LEMMA FileIsFolded ==
  ASSUME NEW file \in Seq(Octet)
  PROVE  \E st : /\ st[0] = Empty
                 /\ \A k \in 0 .. Blocks(file) - 1 : st[k + 1] = Read(st[k], Block(file, k + 1))
                 /\ BodyHashFile(file) = LET md == st[Blocks(file)].ctx IN BodyHashEncode(Len(md), md)
<1> DEFINE n == Blocks(file)
           T == [fb : Buffer, ctx : Seq(Octet)]
           s == [i \in 1 .. n |-> Block(file, i)]
           step == [q \in T \X (1 .. n) |-> Read(q[1], s[q[2]])]
           Eq(g) == g = [p \in SUBSET DOMAIN s |->
                           IF p = {} THEN Empty ELSE Read(g[p \ {Max(p)}], s[Max(p)])]
           chosen == CHOOSE g : Eq(g)
<1>1. n \in Nat /\ DOMAIN s = 1 .. n
  BY LastBlock
<1>2. Empty \in T
  <2>1. [i \in 1 .. BUFSIZ |-> 0] \in Buffer
    <3>1. BUFSIZ \in Nat /\ 0 \in Octet
      BY BufferAssumption DEF Octet
    <3>2. [i \in 1 .. BUFSIZ |-> 0] \in [1 .. BUFSIZ -> Octet]
      BY <3>1
    <3>3. [i \in 1 .. BUFSIZ |-> 0] \in Seq(Octet) /\ Len([i \in 1 .. BUFSIZ |-> 0]) = BUFSIZ
      BY <3>1, <3>2, IsSeq
    <3>. QED
      BY <3>3 DEF Buffer
  <2>2. <<>> \in Seq(Octet)
    BY EmptySeq
  <2>. QED
    BY <2>1, <2>2 DEF Empty
<1>3. step \in [T \X (1 .. n) -> T]
  <2>1. ASSUME NEW t \in T, NEW i \in 1 .. n PROVE Read(t, s[i]) \in T
    <3> DEFINE k == i - 1
               b == s[i]
    <3>1. k \in 0 .. n - 1 /\ k + 1 = i
      BY <1>1
    <3>2. b \in Seq(Octet) /\ Len(b) <= BUFSIZ
      <4> HIDE DEF k
      <4>1. Block(file, k + 1) \in Seq(Octet) /\ Len(Block(file, k + 1)) <= BUFSIZ
        BY <3>1, BlockIs
      <4>. QED
        BY <3>1, <4>1
    <3>3. t = [fb |-> t.fb, ctx |-> t.ctx] /\ t.fb \in Buffer /\ t.ctx \in Seq(Octet)
      OBVIOUS
    <3> HIDE DEF b
    <3>. QED
      BY <3>2, <3>3, ReadAdds DEF b
  <2>2. ASSUME NEW q \in T \X (1 .. n) PROVE Read(q[1], s[q[2]]) \in T
    <3> HIDE DEF s, T
    <3>. QED
      BY <2>1
  <2> HIDE DEF s, T
  <2>. QED
    BY <2>2, Zenon
<1> HIDE DEF step, T
<1>4. PICK iter \in [SUBSET (1 .. n) -> T] : Folds(iter, n, Empty, step)
  <2> HIDE DEF n
  <2>. QED
    BY <1>1, <1>2, <1>3, FoldExists
<1> HIDE DEF s
<1>5. Eq(iter)
  <2>1. ASSUME NEW p \in SUBSET (1 .. n)
        PROVE  iter[p] = IF p = {} THEN Empty
                         ELSE Read(iter[p \ {Max(p)}], s[Max(p)])
    <3>1. CASE p = {}
      BY <1>4, <3>1 DEF Folds
    <3>2. CASE p # {}
      <4>1. Max(p) \in 1 .. n
        BY <1>1, <3>2, MaxIs
      <4>2. <<iter[p \ {Max(p)}], Max(p)>> \in T \X (1 .. n)
        BY <4>1
      <4>3. step[<<iter[p \ {Max(p)}], Max(p)>>] = Read(iter[p \ {Max(p)}], s[Max(p)])
        BY <4>2 DEF step
      <4>4. iter[p] = step[<<iter[p \ {Max(p)}], Max(p)>>]
        BY <1>4, <3>2 DEF Folds
      <4>. QED
        BY <3>2, <4>3, <4>4
    <3>. QED
      BY <3>1, <3>2
  <2>. QED
    BY <1>1, <2>1
<1>6. Eq(chosen)
  BY <1>5, Zenon
<1>7. BodyHashFile(file) = LET md == chosen[1 .. n].ctx IN BodyHashEncode(Len(md), md)
  BY <1>1, Zenon DEF BodyHashFile, FoldLeft, MapThenFoldSet, Read, Block, BlockEnd, Blocks, Empty, s
<1> HIDE DEF chosen
<1>8. \A p \in SUBSET (1 .. n) :
        chosen[p] = IF p = {} THEN Empty ELSE Read(chosen[p \ {Max(p)}], s[Max(p)])
  BY <1>1, <1>6, Zenon
<1> DEFINE st == [k \in 0 .. n |-> chosen[1 .. k]]
<1>9. st[0] = Empty
  <2>1. 1 .. 0 = {} /\ {} \in SUBSET (1 .. n) /\ 0 \in 0 .. n
    BY <1>1
  <2>. QED
    BY <1>8, <2>1
<1>10. ASSUME NEW k \in 0 .. n - 1 PROVE st[k + 1] = Read(st[k], Block(file, k + 1))
  <2>1. k \in 0 .. n /\ k + 1 \in 0 .. n /\ k + 1 \in 1 .. n
    BY <1>1
  <2>2. st[k] = chosen[1 .. k] /\ st[k + 1] = chosen[1 .. k + 1]
    BY <2>1, Zenon
  <2>3. chosen[1 .. k + 1] = Read(chosen[1 .. k], s[k + 1])
    BY <1>1, <1>8, PlaceBefore
  <2>4. s[k + 1] = Block(file, k + 1)
    BY <2>1 DEF s
  <2>. QED
    BY <2>2, <2>3, <2>4
<1>11. st[n] = chosen[1 .. n]
  BY <1>1
<1> HIDE DEF st
<1>. QED
  BY <1>7, <1>9, <1>10, <1>11

\* Reading a file block by block hashes its bytes, whatever the size of the
\* blocks is, and the parameter that is sent decodes to the hash.
THEOREM HashesEveryByte == \A src \in Seq(Octet) : HashesAll(src)
<1> SUFFICES ASSUME NEW src \in Seq(Octet) PROVE HashesAll(src)
  OBVIOUS
<1> DEFINE n == Blocks(src)
           upto(k) == SubSeq(src, 1, BlockEnd(src, k))
           HasRead(s, c) == \E fb \in Buffer : s = [fb |-> fb, ctx |-> c]
<1>0. Len(src) \in Nat /\ n \in Nat /\ \A i \in 1 .. Len(src) : src[i] \in Octet
  BY LenProperties, ElementOfSeq, LastBlock
<1>1. PICK st : /\ st[0] = Empty
                /\ \A k \in 0 .. n - 1 : st[k + 1] = Read(st[k], Block(src, k + 1))
                /\ BodyHashFile(src) = LET md == st[n].ctx IN BodyHashEncode(Len(md), md)
  BY FileIsFolded
<1> DEFINE Done == {k \in Nat : k <= n => HasRead(st[k], upto(k))}
<1>2. 0 \in Done
  <2>1. upto(0) = <<>>
    BY LastBlock, SubSeqEmpty
  <2>2. [i \in 1 .. BUFSIZ |-> 0] \in Buffer
    <3>1. BUFSIZ \in Nat /\ 0 \in Octet
      BY BufferAssumption DEF Octet
    <3>2. [i \in 1 .. BUFSIZ |-> 0] \in [1 .. BUFSIZ -> Octet]
      BY <3>1
    <3>3. [i \in 1 .. BUFSIZ |-> 0] \in Seq(Octet) /\ Len([i \in 1 .. BUFSIZ |-> 0]) = BUFSIZ
      BY <3>1, <3>2, IsSeq
    <3>. QED
      BY <3>3 DEF Buffer
  <2> HIDE DEF upto
  <2>. QED
    BY <1>1, <2>1, <2>2 DEF Empty
<1>3. ASSUME NEW k \in Nat, k \in Done PROVE k + 1 \in Done
  <2>1. SUFFICES ASSUME k + 1 <= n PROVE HasRead(st[k + 1], upto(k + 1))
    <3> HIDE DEF HasRead, upto
    <3>. QED
      OBVIOUS
  <2>2. k \in 0 .. n - 1 /\ k <= n
    BY <1>0, <2>1
  <2> DEFINE b == Block(src, k + 1)
             m == BlockEnd(src, k)
             e == BlockEnd(src, k + 1)
  <2>3. b \in Seq(Octet) /\ Len(b) <= BUFSIZ /\ b = SubSeq(src, m + 1, e)
    BY <2>2, BlockIs
  <2>4. m \in 0 .. Len(src) /\ e \in m .. Len(src)
    <3>1. m \in 0 .. Len(src) /\ e \in m + 1 .. Len(src)
      BY <2>2, BlocksCover
    <3> HIDE DEF m, e
    <3>. QED
      BY <1>0, <3>1
  <2>5. PICK fb \in Buffer : st[k] = [fb |-> fb, ctx |-> upto(k)]
    <3>1. HasRead(st[k], upto(k))
      <4> HIDE DEF HasRead, upto
      <4>. QED
        BY <1>3, <2>2
    <3>. QED
      BY <3>1
  <2>6. st[k + 1] = Read(st[k], b)
    BY <1>1, <2>2
  <2> HIDE DEF b, m, e
  <2>7. upto(k) \in Seq(Octet) /\ upto(k) \o b = upto(k + 1)
    <3>1. m \in Int /\ \A i \in 1 .. m : src[i] \in Octet
      BY <1>0, <2>4
    <3>2. SubSeq(src, 1, m) \in Seq(Octet)
      BY <3>1, SubSeqProperties
    <3>3. SubSeq(src, 1, m) \o SubSeq(src, m + 1, e) = SubSeq(src, 1, e)
      BY <2>4, PartsMeet
    <3>. QED
      BY <2>3, <3>2, <3>3 DEF m, e
  <2> DEFINE c == upto(k)
             r == Read(st[k], b)
  <2> HIDE DEF upto, c
  <2>8. r \in [fb : Buffer, ctx : Seq(Octet)] /\ r.ctx = c \o b
    BY <2>3, <2>5, <2>7, ReadAdds DEF c
  <2> HIDE DEF r
  <2>9. r = [fb |-> r.fb, ctx |-> c \o b] /\ r.fb \in Buffer
    BY <2>8
  <2>. QED
    BY <2>6, <2>7, <2>9 DEF r, c
<1>4. n \in Done
  <2> HIDE DEF Done
  <2>. QED
    BY <1>0, <1>2, <1>3, NumberInduction
<1>5. st[n].ctx = src
  <2>1. PICK fb \in Buffer : st[n] = [fb |-> fb, ctx |-> upto(n)]
    <3>1. HasRead(st[n], upto(n))
      <4> HIDE DEF HasRead, upto
      <4>. QED
        BY <1>0, <1>4
    <3>. QED
      BY <3>1
  <2>2. upto(n) = src
    BY LastBlock, SubSeqFull
  <2>. QED
    BY <2>1, <2>2
<1>6. BodyHashFile(src) = BodyHashEncode(Len(src), src)
  BY <1>1, <1>5
<1>7. BodyHashData(Len(src), src) = BodyHashEncode(Len(src), src)
  <2>1. SubSeq(src, 1, Len(src)) = src /\ <<>> \o src = src
    BY SubSeqFull, ConcatEmptySeq
  <2>2. EVP_DigestUpdate(<<>>, src, Len(src)) = src
    BY <2>1, Zenon DEF EVP_DigestUpdate
  <2>. QED
    BY <2>2, Zenon DEF BodyHashData
<1>8. DecodeBase64(EncodeBase64(Len(src), src)) = src
  <2>1. CASE src # <<>>
    BY <2>1, Base64RoundTrips DEF RoundTrips
  <2>2. CASE src = <<>>
    <3> DEFINE e == <<>>
    <3>1. e \in Seq(Char) /\ \A i \in 1 .. Len(e) : IsBase64(e[i])
      BY EmptySeq
    <3>2. Text(e) = e /\ Buf(e) = e
      BY <3>1, TextIsAll, BufIsAll
    <3>3. DecodeBase64(e) = FlattenSeq([i \in 1 .. (Len(e) + 3) \div 4 |-> Decoded(e, 4 * i - 3)])
      <4> HIDE DEF e
      <4>. QED
        BY <3>1, <3>2, DecodeIs
    <3>4. Len(e) = 0 /\ (0 + 3) \div 4 = 0 /\ (0 + 2) \div 3 = 0 /\ 4 * 0 = 0
      OBVIOUS
    <3>5. [i \in 1 .. 0 |-> Decoded(e, 4 * i - 3)] = e
      OBVIOUS
    <3>6. DecodeBase64(e) = e
      <4>1. DecodeBase64(e) = FlattenSeq([i \in 1 .. 0 |-> Decoded(e, 4 * i - 3)])
        BY <3>3, <3>4
      <4>. QED
        BY <3>5, <4>1, FlattenEmpty
    <3>7. EncodeBase64(0, e) = e
      <4> DEFINE t == EncodeBase64(0, e)
                 given == IF 0 = 0 THEN Text(e) ELSE SubSeq(e, 1, 0)
      <4>1. t = [i \in 1 .. 4 * ((Len(given) + 2) \div 3) |-> t[i]]
        BY Zenon DEF EncodeBase64
      <4>2. given = e
        BY <3>2
      <4> HIDE DEF t, given
      <4>3. t = [i \in 1 .. 0 |-> t[i]]
        BY <3>4, <4>1, <4>2
      <4>. QED
        BY <4>3 DEF t
    <3>. QED
      BY <2>2, <3>4, <3>6, <3>7
  <2>. QED
    BY <2>1, <2>2
<1>. QED
  BY <1>6, <1>7, <1>8 DEF HashesAll, BodyHashEncode

-----------------------------------------------------------------------------
(* The comparison.                                                         *)

\* oauth_time_independent_equals is equality, although it goes around in the
\* second text while it has characters of the first.
THEOREM TimeIndependentIsEquality ==
  ASSUME NEW S, NEW a \in Seq(S), NEW b \in Seq(S)
  PROVE  TimeIndependentEquals(a, b) <=> a = b
<1>0. Len(a) \in Nat /\ Len(b) \in Nat /\ DOMAIN a = 1 .. Len(a)
  BY LenProperties
<1>1. CASE b = <<>>
  BY <1>1 DEF TimeIndependentEquals
<1>2. CASE b # <<>> /\ Len(a) # Len(b)
  BY <1>2 DEF TimeIndependentEquals, Differ
<1>3. CASE b # <<>> /\ Len(a) = Len(b)
  <2>1. \A i \in 1 .. Len(a) : ((i - 1) % Len(b)) + 1 = i
    <3> SUFFICES ASSUME NEW i \in 1 .. Len(a) PROVE ((i - 1) % Len(b)) + 1 = i
      OBVIOUS
    <3>1. \A m, n \in Nat : m < n => m % n = m
      OBVIOUS
    <3>2. i - 1 \in Nat /\ i - 1 < Len(b)
      BY <1>0, <1>3
    <3>. QED
      BY <1>0, <3>1, <3>2
  <2>2. TimeIndependentEquals(a, b) <=> \A i \in 1 .. Len(a) : a[i] = b[i]
    BY <1>0, <1>3, <2>1 DEF TimeIndependentEquals, Differ
  <2>. QED
    BY <1>3, <2>2, SeqEqual
<1>. QED
  BY <1>1, <1>2, <1>3

-----------------------------------------------------------------------------
(* Splitting a text into its parts.                                        *)

\* What the loop over the characters in Tokens does with one, and what is left of
\* the parts.
AddChar(parts, c, separators) ==
  IF c \in separators THEN Append(parts, <<>>)
  ELSE [parts EXCEPT ![Len(parts)] = Append(@, c)]
WithContent(parts) == Sift(parts, LAMBDA t : t # <<>>)
Unsigned(tokens) == Sift(tokens, LAMBDA t : ~IsSignature(t))
Elements(tokens) == [i \in DOMAIN tokens |-> Element(i, tokens[i])]

\* cut[n] are the parts of the first n characters of s.
IsCut(cut, s, separators) ==
  /\ cut[0] = << <<>> >>
  /\ \A k \in 0 .. Len(s) - 1 : cut[k + 1] = AddChar(cut[k], s[k + 1], separators)
  /\ Tokens(s, separators) = WithContent(cut[Len(s)])

LEMMA CutExists ==
  ASSUME NEW S, NEW s \in Seq(S), NEW separators
  PROVE  \E cut : IsCut(cut, s, separators)
<1> DEFINE n == Len(s)
           T == Seq(Seq(S)) \ {<<>>}
           base == << <<>> >>
           step == [q \in T \X (1 .. n) |-> AddChar(q[1], s[q[2]], separators)]
           Eq(g) == g = [p \in SUBSET DOMAIN s |->
                           IF p = {} THEN base ELSE AddChar(g[p \ {Max(p)}], s[Max(p)], separators)]
           chosen == CHOOSE g : Eq(g)
<1>1. n \in Nat /\ DOMAIN s = 1 .. n /\ \A i \in 1 .. n : s[i] \in S
  BY LenProperties, ElementOfSeq
<1>2. base \in T
  OBVIOUS
<1>3. step \in [T \X (1 .. n) -> T]
  <2>1. ASSUME NEW parts \in T, NEW c \in S PROVE AddChar(parts, c, separators) \in T
    <3>1. parts \in Seq(Seq(S)) /\ Len(parts) \in 1 .. Len(parts) /\ parts[Len(parts)] \in Seq(S)
      BY EmptySeq, LenProperties, ElementOfSeq
    <3>2. CASE c \in separators
      <4> DEFINE t == <<>>
      <4>1. t \in Seq(S)
        BY EmptySeq
      <4> HIDE DEF t
      <4>2. Append(parts, t) \in Seq(Seq(S)) /\ Append(parts, t) # <<>>
        BY <3>1, <4>1, AppendProperties
      <4>. QED
        BY <3>2, <4>2 DEF AddChar, t
    <3>3. CASE c \notin separators
      <4> DEFINE t == Append(parts[Len(parts)], c)
      <4>1. t \in Seq(S)
        BY <3>1, AppendProperties
      <4>2. [parts EXCEPT ![Len(parts)] = t] \in Seq(Seq(S)) /\ Len([parts EXCEPT ![Len(parts)] = t]) = Len(parts)
        BY <3>1, <4>1, ExceptSeq
      <4>3. [parts EXCEPT ![Len(parts)] = t] # <<>>
        BY <3>1, <4>2, EmptySeq
      <4>. QED
        BY <3>3, <4>2, <4>3 DEF AddChar
    <3>. QED
      BY <3>2, <3>3
  <2>2. ASSUME NEW q \in T \X (1 .. n) PROVE AddChar(q[1], s[q[2]], separators) \in T
    BY <1>1, <2>1
  <2>. QED
    BY <2>2, Zenon
<1> HIDE DEF step, base, T
<1>4. PICK iter \in [SUBSET (1 .. n) -> T] : Folds(iter, n, base, step)
  BY <1>1, <1>2, <1>3, FoldExists
<1>5. Eq(iter)
  <2>1. ASSUME NEW p \in SUBSET (1 .. n)
        PROVE  iter[p] = IF p = {} THEN base
                         ELSE AddChar(iter[p \ {Max(p)}], s[Max(p)], separators)
    <3>1. CASE p = {}
      BY <1>4, <3>1 DEF Folds
    <3>2. CASE p # {}
      <4>1. Max(p) \in 1 .. n
        BY <1>1, <3>2, MaxIs
      <4>2. <<iter[p \ {Max(p)}], Max(p)>> \in T \X (1 .. n)
        BY <4>1
      <4>3. step[<<iter[p \ {Max(p)}], Max(p)>>] = AddChar(iter[p \ {Max(p)}], s[Max(p)], separators)
        BY <4>2 DEF step
      <4>4. iter[p] = step[<<iter[p \ {Max(p)}], Max(p)>>]
        BY <1>4, <3>2 DEF Folds
      <4>. QED
        BY <3>2, <4>3, <4>4
    <3>. QED
      BY <3>1, <3>2
  <2>. QED
    BY <1>1, <2>1
<1>6. Eq(chosen)
  BY <1>5, Zenon
<1>7. Tokens(s, separators) = WithContent(chosen[1 .. n])
  BY <1>1, Zenon DEF Tokens, FoldLeft, MapThenFoldSet, AddChar, WithContent, base
<1> HIDE DEF chosen
<1>8. \A p \in SUBSET (1 .. n) :
        chosen[p] = IF p = {} THEN base ELSE AddChar(chosen[p \ {Max(p)}], s[Max(p)], separators)
  BY <1>1, <1>6, Zenon
<1> DEFINE cut == [k \in 0 .. n |-> chosen[1 .. k]]
<1>9. cut[0] = base
  <2>1. 1 .. 0 = {} /\ {} \in SUBSET (1 .. n) /\ 0 \in 0 .. n
    BY <1>1
  <2>. QED
    BY <1>8, <2>1
<1>10. ASSUME NEW k \in 0 .. n - 1 PROVE cut[k + 1] = AddChar(cut[k], s[k + 1], separators)
  <2>1. k \in 0 .. n /\ k + 1 \in 0 .. n
    BY <1>1
  <2>2. cut[k] = chosen[1 .. k] /\ cut[k + 1] = chosen[1 .. k + 1]
    BY <2>1, Zenon
  <2>3. chosen[1 .. k + 1] = AddChar(chosen[1 .. k], s[k + 1], separators)
    BY <1>1, <1>8, PlaceBefore
  <2>. QED
    BY <2>2, <2>3
<1>11. cut[n] = chosen[1 .. n]
  BY <1>1
<1> HIDE DEF cut
<1>. QED
  BY <1>7, <1>9, <1>10, <1>11 DEF IsCut, base

-----------------------------------------------------------------------------
(* Parts.                                                                  *)

\* Parts, seen from their end.
LEMMA AddCharAppend ==
  ASSUME NEW S, NEW D \in Seq(Seq(S)), NEW t \in Seq(S), NEW c \in S, NEW separators
  PROVE  AddChar(Append(D, t), c, separators) =
           IF c \in separators THEN Append(Append(D, t), <<>>) ELSE Append(D, Append(t, c))
<1> DEFINE parts == Append(D, t)
           n == Len(D)
<1>1. /\ n \in Nat /\ parts \in Seq(Seq(S)) /\ Len(parts) = n + 1 /\ parts[n + 1] = t
      /\ \A i \in 1 .. n : parts[i] = D[i]
  BY AppendProperties, LenProperties
<1>2. Append(t, c) \in Seq(S)
  BY AppendProperties
<1> HIDE DEF parts, n
<1>3. [parts EXCEPT ![n + 1] = Append(t, c)] = Append(D, Append(t, c))
  <2> DEFINE a == [parts EXCEPT ![n + 1] = Append(t, c)]
             b == Append(D, Append(t, c))
  <2>1. /\ b \in Seq(Seq(S)) /\ Len(b) = n + 1 /\ b[n + 1] = Append(t, c)
        /\ \A i \in 1 .. n : b[i] = D[i]
    BY <1>2, AppendProperties DEF n
  <2>2. n + 1 \in 1 .. Len(parts)
    BY <1>1
  <2>3. a \in Seq(Seq(S)) /\ Len(a) = n + 1 /\ \A i \in 1 .. n + 1 : a[i] = IF i = n + 1 THEN Append(t, c) ELSE parts[i]
    BY <1>1, <1>2, <2>2, ExceptSeq
  <2> HIDE DEF a, b
  <2>4. ASSUME NEW i \in 1 .. n + 1 PROVE a[i] = b[i]
    <3>1. CASE i = n + 1
      BY <2>1, <2>3, <3>1
    <3>2. CASE i # n + 1
      <4>1. i \in 1 .. n
        BY <1>1, <3>2
      <4>. QED
        BY <1>1, <2>1, <2>3, <3>2, <4>1
    <3>. QED
      BY <3>1, <3>2
  <2>5. a = b
    BY <2>1, <2>3, <2>4, SeqEqual
  <2>. QED
    BY <2>5 DEF a, b
<1>. QED
  BY <1>1, <1>3 DEF AddChar, parts

\* Concatenating one sequence more.
LEMMA FlattenMore ==
  ASSUME NEW S, NEW n \in Nat, NEW f \in [1 .. n -> Seq(S)],
         NEW more \in [1 .. n + 1 -> Seq(S)], \A i \in 1 .. n : more[i] = f[i]
  PROVE  /\ FlattenSeq(f) \in Seq(S)
         /\ FlattenSeq(more) = FlattenSeq(f) \o more[n + 1]
<1> DEFINE y == more[n + 1]
<1>1. f \in Seq(Seq(S)) /\ Len(f) = n /\ more \in Seq(Seq(S)) /\ Len(more) = n + 1
  OBVIOUS
<1>2. y \in Seq(S)
  OBVIOUS
<1> HIDE DEF y
<1>3. more = Append(f, y)
  <2>2. /\ Append(f, y) \in Seq(Seq(S)) /\ Len(Append(f, y)) = n + 1 /\ Append(f, y)[n + 1] = y
        /\ \A i \in 1 .. n : Append(f, y)[i] = f[i]
    BY <1>1, <1>2, AppendProperties
  <2>3. \A i \in 1 .. n + 1 : more[i] = Append(f, y)[i]
    BY <2>2 DEF y
  <2>. QED
    BY <1>1, <2>2, <2>3, SeqEqual
<1>4. FlattenSeq(more) = FlattenSeq(f) \o y
  BY <1>1, <1>2, <1>3, FlattenAppend
<1>5. FlattenSeq(f) \in Seq(S)
  BY <1>1, FlattenType
<1>. QED
  BY <1>4, <1>5 DEF y

LEMMA WithContentAppend ==
  ASSUME NEW S, NEW D \in Seq(Seq(S)), NEW t \in Seq(S)
  PROVE  /\ WithContent(D) \in Seq(Seq(S))
         /\ WithContent(Append(D, t)) = IF t = <<>> THEN WithContent(D)
                                        ELSE Append(WithContent(D), t)
<1> DEFINE n == Len(D)
           one(x) == IF x # <<>> THEN <<x>> ELSE <<>>
           f == [i \in 1 .. n |-> one(D[i])]
           more == Append(D, t)
<1>1. n \in Nat /\ DOMAIN D = 1 .. n /\ \A i \in 1 .. n : D[i] \in Seq(S)
  BY LenProperties, ElementOfSeq
<1>2. \A x \in Seq(S) : one(x) \in Seq(Seq(S))
  <2>1. \A x \in Seq(S) : <<x>> \in Seq(Seq(S))
    OBVIOUS
  <2>2. <<>> \in Seq(Seq(S))
    BY EmptySeq
  <2>. QED
    BY <2>1, <2>2, Zenon
<1>3. f \in [1 .. n -> Seq(Seq(S))]
  <2> HIDE DEF one
  <2>. QED
    BY <1>1, <1>2
<1>4. WithContent(D) = FlattenSeq(f)
  BY <1>1, Zenon DEF WithContent, Sift
<1>5. /\ more \in Seq(Seq(S)) /\ Len(more) = n + 1 /\ more[n + 1] = t
      /\ DOMAIN more = 1 .. n + 1 /\ \A i \in 1 .. n : more[i] = D[i]
  BY <1>1, AppendProperties, LenProperties
<1> DEFINE g == [i \in 1 .. n + 1 |-> one(more[i])]
<1>6. WithContent(more) = FlattenSeq(g)
  BY <1>5, Zenon DEF WithContent, Sift
<1>7. g \in [1 .. n + 1 -> Seq(Seq(S))]
  <2>1. \A i \in 1 .. n + 1 : more[i] \in Seq(S)
    BY <1>5, ElementOfSeq
  <2> HIDE DEF one, more
  <2>. QED
    BY <1>2, <2>1
<1>8. g[n + 1] = one(t) /\ \A i \in 1 .. n : g[i] = f[i]
  <2> HIDE DEF one, more
  <2>. QED
    BY <1>1, <1>5
<1>9. WithContent(D) \in Seq(Seq(S)) /\ WithContent(more) = WithContent(D) \o one(t)
  <2> HIDE DEF f, g, one, more
  <2>. QED
    BY <1>1, <1>3, <1>4, <1>6, <1>7, <1>8, FlattenMore
<1>10. CASE t = <<>>
  <2>1. WithContent(D) \o <<>> = WithContent(D)
    BY <1>9, ConcatEmptySeq
  <2>. QED
    BY <1>9, <1>10, <2>1
<1>11. CASE t # <<>>
  <2>1. WithContent(D) \o <<t>> = Append(WithContent(D), t)
    BY <1>9, AppendIsConcat
  <2>. QED
    BY <1>9, <1>11, <2>1
<1>. QED
  BY <1>9, <1>10, <1>11

LEMMA UnsignedAppend ==
  ASSUME NEW S, NEW D \in Seq(Seq(S)), NEW t \in Seq(S)
  PROVE  /\ Unsigned(D) \in Seq(Seq(S))
         /\ Unsigned(Append(D, t)) = IF IsSignature(t) THEN Unsigned(D)
                                        ELSE Append(Unsigned(D), t)
<1> DEFINE n == Len(D)
           one(x) == IF ~IsSignature(x) THEN <<x>> ELSE <<>>
           f == [i \in 1 .. n |-> one(D[i])]
           more == Append(D, t)
<1>1. n \in Nat /\ DOMAIN D = 1 .. n /\ \A i \in 1 .. n : D[i] \in Seq(S)
  BY LenProperties, ElementOfSeq
<1>2. \A x \in Seq(S) : one(x) \in Seq(Seq(S))
  <2>1. \A x \in Seq(S) : <<x>> \in Seq(Seq(S))
    OBVIOUS
  <2>2. <<>> \in Seq(Seq(S))
    BY EmptySeq
  <2>. QED
    BY <2>1, <2>2, Zenon
<1>3. f \in [1 .. n -> Seq(Seq(S))]
  <2> HIDE DEF one
  <2>. QED
    BY <1>1, <1>2
<1>4. Unsigned(D) = FlattenSeq(f)
  BY <1>1, Zenon DEF Unsigned, Sift
<1>5. /\ more \in Seq(Seq(S)) /\ Len(more) = n + 1 /\ more[n + 1] = t
      /\ DOMAIN more = 1 .. n + 1 /\ \A i \in 1 .. n : more[i] = D[i]
  BY <1>1, AppendProperties, LenProperties
<1> DEFINE g == [i \in 1 .. n + 1 |-> one(more[i])]
<1>6. Unsigned(more) = FlattenSeq(g)
  BY <1>5, Zenon DEF Unsigned, Sift
<1>7. g \in [1 .. n + 1 -> Seq(Seq(S))]
  <2>1. \A i \in 1 .. n + 1 : more[i] \in Seq(S)
    BY <1>5, ElementOfSeq
  <2> HIDE DEF one, more
  <2>. QED
    BY <1>2, <2>1
<1>8. g[n + 1] = one(t) /\ \A i \in 1 .. n : g[i] = f[i]
  <2> HIDE DEF one, more
  <2>. QED
    BY <1>1, <1>5
<1>9. Unsigned(D) \in Seq(Seq(S)) /\ Unsigned(more) = Unsigned(D) \o one(t)
  <2> HIDE DEF f, g, one, more
  <2>. QED
    BY <1>1, <1>3, <1>4, <1>6, <1>7, <1>8, FlattenMore
<1>10. CASE IsSignature(t)
  <2>1. Unsigned(D) \o <<>> = Unsigned(D)
    BY <1>9, ConcatEmptySeq
  <2>. QED
    BY <1>9, <1>10, <2>1
<1>11. CASE ~IsSignature(t)
  <2>1. Unsigned(D) \o <<t>> = Append(Unsigned(D), t)
    BY <1>9, AppendIsConcat
  <2>. QED
    BY <1>9, <1>11, <2>1
<1>. QED
  BY <1>9, <1>10, <1>11

LEMMA ElementsAppend ==
  ASSUME NEW S, NEW D \in Seq(S), NEW t \in S
  PROVE  /\ Len(Elements(D)) = Len(D)
         /\ Elements(Append(D, t)) = Append(Elements(D), Element(Len(Elements(D)) + 1, t))
<1> DEFINE n == Len(D)
           more == Append(D, t)
           R == {Elements(D)[i] : i \in 1 .. n} \cup {Element(n + 1, t)}
           x == Element(n + 1, t)
<1>1. /\ n \in Nat /\ DOMAIN D = 1 .. n /\ DOMAIN more = 1 .. n + 1 /\ more[n + 1] = t
      /\ \A i \in 1 .. n : more[i] = D[i]
  BY AppendProperties, LenProperties
<1>2. Elements(D) = [i \in 1 .. n |-> Element(i, D[i])]
  BY <1>1 DEF Elements
<1>3. \A i \in 1 .. n : Elements(D)[i] \in R
  OBVIOUS
<1>4. Elements(D) \in Seq(R) /\ Len(Elements(D)) = n
  <2> HIDE DEF R
  <2>1. [i \in 1 .. n |-> Elements(D)[i]] \in Seq(R) /\ Len([i \in 1 .. n |-> Elements(D)[i]]) = n
    BY <1>1, <1>3
  <2>2. Elements(D) = [i \in 1 .. n |-> Elements(D)[i]]
    BY <1>2
  <2>. QED
    BY <2>1, <2>2, Zenon
<1>5. x \in R
  OBVIOUS
<1>6. Elements(more) = [i \in 1 .. n + 1 |-> Element(i, more[i])]
  BY <1>1 DEF Elements
<1>7. \A i \in 1 .. n + 1 : Element(i, more[i]) = Append(Elements(D), x)[i]
  <2>1. /\ \A i \in 1 .. n : Append(Elements(D), x)[i] = Elements(D)[i]
        /\ Append(Elements(D), x)[n + 1] = x
    <3> HIDE DEF R, x, n
    <3>. QED
      BY <1>4, <1>5, AppendProperties
  <2>2. \A i \in 1 .. n : Elements(D)[i] = Element(i, D[i])
    BY <1>2
  <2>3. ASSUME NEW i \in 1 .. n + 1 PROVE Element(i, more[i]) = Append(Elements(D), x)[i]
    <3> HIDE DEF R, more
    <3>1. CASE i = n + 1
      BY <1>1, <2>1, <3>1
    <3>2. CASE i # n + 1
      <4>1. i \in 1 .. n
        BY <1>1, <3>2
      <4>. QED
        BY <1>1, <2>1, <2>2, <4>1
    <3>. QED
      BY <3>1, <3>2
  <2>. QED
    BY <2>3
<1>8. Elements(more) = Append(Elements(D), x)
  <2> DEFINE b == Append(Elements(D), x)
  <2>1. b \in Seq(R) /\ Len(b) = n + 1
    <3> HIDE DEF R, x, n
    <3>. QED
      BY <1>4, <1>5, AppendProperties
  <2>2. b = [i \in 1 .. n + 1 |-> b[i]]
    <3> HIDE DEF R, b
    <3>. QED
      BY <1>1, <2>1, LenProperties
  <2>3. [i \in 1 .. n + 1 |-> Element(i, more[i])] = [i \in 1 .. n + 1 |-> b[i]]
    <3> HIDE DEF R, more
    <3>. QED
      BY <1>7, Zenon
  <2>. QED
    BY <1>6, <2>2, <2>3, Zenon
<1>. QED
  BY <1>4, <1>8

\* The last of the parts is empty yet, and what the others are.
Closed(parts, tokens) ==
  \E C \in Seq(Seq(Symbol)) : parts = Append(C, <<>>) /\ WithContent(C) = tokens

\* What is left of parts the last of which is empty.
LEMMA ClosedIs ==
  ASSUME NEW parts, NEW tokens, Closed(parts, tokens)
  PROVE  WithContent(parts) = tokens /\ tokens \in Seq(Seq(Symbol))
<1> DEFINE e == <<>>
<1>1. PICK C \in Seq(Seq(Symbol)) : parts = Append(C, e) /\ WithContent(C) = tokens
  BY DEF Closed
<1>2. e \in Seq(Symbol)
  BY EmptySeq
<1>3. WithContent(Append(C, e)) = WithContent(C) /\ WithContent(C) \in Seq(Seq(Symbol))
  <2> HIDE DEF e
  <2>. QED
    BY <1>2, WithContentAppend DEF e
<1>. QED
  BY <1>1, <1>3

\* The characters from k + 1 to m are separators, or none of them is one.
AllIn(s, k, m, separators) == \A i \in k + 1 .. m : s[i] \in separators
NoneIn(s, k, m, separators) == \A i \in k + 1 .. m : s[i] \notin separators

\* Separators add nothing, and a run of other characters is one part.
LEMMA OverSeparators ==
  ASSUME NEW s \in Seq(Symbol), NEW separators, NEW cut, IsCut(cut, s, separators),
         NEW k \in 0 .. Len(s), NEW m \in k .. Len(s),
         NEW tokens, Closed(cut[k], tokens), AllIn(s, k, m, separators)
  PROVE  Closed(cut[m], tokens)
<1> DEFINE e == <<>>
           Good(i) == Closed(cut[i], tokens)
           T == {i \in Nat : k + i <= m => Good(k + i)}
<1>0. Len(s) \in Nat /\ e \in Seq(Symbol)
  BY LenProperties, EmptySeq
<1>1. 0 \in T
  <2>1. k + 0 = k
    BY <1>0
  <2>. QED
    BY <2>1
<1>2. ASSUME NEW i \in Nat, i \in T PROVE i + 1 \in T
  <2>1. SUFFICES ASSUME k + (i + 1) <= m PROVE Good(k + (i + 1))
    OBVIOUS
  <2> DEFINE j == k + i
  <2>2. j \in 0 .. Len(s) - 1 /\ j + 1 \in k + 1 .. m /\ j <= m /\ j + 1 \in 1 .. Len(s)
    BY <1>0, <2>1
  <2>3. k + (i + 1) = j + 1
    BY <1>0
  <2>4. Good(j)
    BY <1>2, <2>2
  <2> HIDE DEF j
  <2>5. PICK C \in Seq(Seq(Symbol)) : cut[j] = Append(C, e) /\ WithContent(C) = tokens
    BY <2>4 DEF Closed
  <2>6. s[j + 1] \in Symbol /\ s[j + 1] \in separators
    BY <2>2, ElementOfSeq DEF AllIn
  <2>7. cut[j + 1] = AddChar(cut[j], s[j + 1], separators)
    BY <2>2 DEF IsCut
  <2> DEFINE C2 == Append(C, e)
  <2> HIDE DEF e
  <2>8. cut[j + 1] = Append(C2, <<>>)
    BY <1>0, <2>5, <2>6, <2>7, AddCharAppend
  <2>9. C2 \in Seq(Seq(Symbol))
    BY <1>0, <2>5, AppendProperties
  <2>10. WithContent(C2) = tokens
    BY <1>0, <2>5, WithContentAppend DEF e
  <2> HIDE DEF C2
  <2>11. Good(j + 1)
    BY <2>8, <2>9, <2>10 DEF e, Closed
  <2>. QED
    BY <2>3, <2>11
<1>3. m - k \in Nat /\ k + (m - k) = m
  BY <1>0
<1>4. m - k \in T
  <2> HIDE DEF T
  <2>. QED
    BY <1>1, <1>2, <1>3, NumberInduction
<1>. QED
  BY <1>3, <1>4

\* A part is begun after D.
Opens(parts, D) == parts = Append(D, <<>>)

LEMMA OverToken ==
  ASSUME NEW s \in Seq(Symbol), NEW separators, NEW cut, IsCut(cut, s, separators),
         NEW k \in 0 .. Len(s), NEW m \in k .. Len(s),
         NEW D \in Seq(Seq(Symbol)), Opens(cut[k], D), NoneIn(s, k, m, separators)
  PROVE  cut[m] = Append(D, SubSeq(s, k + 1, m))
<1> DEFINE T == {i \in Nat : k + i <= m => cut[k + i] = Append(D, SubSeq(s, k + 1, k + i))}
<1>0. Len(s) \in Nat
  BY LenProperties
<1>1. 0 \in T
  <2>1. SubSeq(s, k + 1, k) = <<>>
    BY <1>0, SubSeqEmpty
  <2>2. k + 0 = k
    BY <1>0
  <2>. QED
    BY <2>1, <2>2 DEF Opens
<1>2. ASSUME NEW i \in Nat, i \in T PROVE i + 1 \in T
  <2>1. SUFFICES ASSUME k + (i + 1) <= m
                 PROVE  cut[k + (i + 1)] = Append(D, SubSeq(s, k + 1, k + (i + 1)))
    OBVIOUS
  <2> DEFINE j == k + i
  <2>2. j \in 0 .. Len(s) - 1 /\ j + 1 \in k + 1 .. m /\ j <= m /\ j + 1 \in 1 .. Len(s) /\ j \in Nat
    BY <1>0, <2>1
  <2>3. k + (i + 1) = j + 1
    BY <1>0
  <2>4. cut[j] = Append(D, SubSeq(s, k + 1, j))
    BY <1>2, <2>2
  <2>0. j >= k
    BY <1>0
  <2> HIDE DEF j
  <2>6. s[j + 1] \in Symbol /\ s[j + 1] \notin separators
    BY <2>2, ElementOfSeq DEF NoneIn
  <2>7. cut[j + 1] = AddChar(cut[j], s[j + 1], separators)
    BY <2>2 DEF IsCut
  <2>8. SubSeq(s, k + 1, j) \in Seq(Symbol)
    <3>1. \A n \in k + 1 .. j : n \in 1 .. Len(s)
      BY <1>0, <2>2
    <3>. QED
      BY <1>0, <2>2, <3>1, SubSeqProperties
  <2>9. cut[j + 1] = Append(D, Append(SubSeq(s, k + 1, j), s[j + 1]))
    <3> DEFINE t == SubSeq(s, k + 1, j)
               c == s[j + 1]
    <3> HIDE DEF t, c
    <3>1. t \in Seq(Symbol) /\ c \in Symbol /\ c \notin separators /\ cut[j] = Append(D, t)
      BY <2>4, <2>6, <2>8 DEF t, c
    <3>2. AddChar(Append(D, t), c, separators) = Append(D, Append(t, c))
      BY <3>1, AddCharAppend
    <3>. QED
      BY <2>7, <3>1, <3>2 DEF t, c
  <2>10. SubSeq(s, k + 1, j + 1) = Append(SubSeq(s, k + 1, j), s[j + 1])
    <3>1. k + 1 \in 1 .. Len(s) /\ j + 1 \in k + 1 .. Len(s)
      BY <1>0, <2>0, <2>2
    <3>2. SubSeq(s, k + 1, j + 1) = SubSeq(s, k + 1, (j + 1) - 1) \o <<s[j + 1]>>
      BY <3>1, SubSeqRecursiveSecond, Zenon
    <3>3. (j + 1) - 1 = j
      BY <2>2
    <3>4. Append(SubSeq(s, k + 1, j), s[j + 1]) = SubSeq(s, k + 1, j) \o <<s[j + 1]>>
      BY <2>6, <2>8, AppendIsConcat
    <3>. QED
      BY <3>2, <3>3, <3>4
  <2>. QED
    BY <2>3, <2>9, <2>10
<1>3. m - k \in Nat /\ k + (m - k) = m
  BY <1>0
<1>4. m - k \in T
  <2> HIDE DEF T
  <2>. QED
    BY <1>1, <1>2, <1>3, NumberInduction
<1>. QED
  BY <1>3, <1>4

-----------------------------------------------------------------------------
(* strtok.                                                                 *)

\* A part depends on its own places only.
SameIn(S, r, s, m, n) == \A k \in m .. n : r[k] = s[k] /\ s[k] \in S

LEMMA SamePart ==
  ASSUME NEW S, NEW r, NEW s, NEW m \in Int, NEW n \in Int, SameIn(S, r, s, m, n)
  PROVE  SubSeq(r, m, n) = SubSeq(s, m, n)
<1> DEFINE a == SubSeq(r, m, n)
           b == SubSeq(s, m, n)
<1>0. /\ \A k \in m .. n : r[k] \in S
      /\ \A k \in m .. n : s[k] \in S
      /\ \A k \in m .. n : r[k] = s[k]
  BY DEF SameIn
<1>1. /\ a \in Seq(S) /\ Len(a) = (IF m <= n THEN n - m + 1 ELSE 0)
      /\ \A k \in 1 .. n - m + 1 : a[k] = r[m + k - 1]
  BY <1>0, SubSeqProperties
<1>2. /\ b \in Seq(S) /\ Len(b) = (IF m <= n THEN n - m + 1 ELSE 0)
      /\ \A k \in 1 .. n - m + 1 : b[k] = s[m + k - 1]
  BY <1>0, SubSeqProperties
<1> HIDE DEF a, b
<1>3. ASSUME NEW k \in 1 .. Len(a) PROVE a[k] = b[k]
  <2>1. k \in 1 .. n - m + 1 /\ m + k - 1 \in m .. n
    BY <1>1
  <2>. QED
    BY <1>0, <1>1, <1>2, <2>1
<1>4. a = b
  BY <1>1, <1>2, <1>3, SeqEqual
<1>. QED
  BY <1>4 DEF a, b

\* The first of some places, or the end.
LEMMA FirstPlace ==
  ASSUME NEW a \in Nat, NEW b \in Nat, a <= b, NEW Y
  PROVE  \E n \in a .. b : (n = b \/ n \in Y) /\ \A k \in a .. n - 1 : k \notin Y
<1> DEFINE T == {n \in a .. b : n = b \/ n \in Y}
<1>1. T \in SUBSET Nat /\ b \in T
  OBVIOUS
<1>2. PICK n \in T : \A k \in T : n <= k
  <2> HIDE DEF T
  <2>. QED
    BY <1>1, LeastNumber
<1>3. ASSUME NEW k \in a .. n - 1 PROVE k \notin Y
  <2>1. k \in a .. b /\ ~(n <= k)
    OBVIOUS
  <2>. QED
    BY <1>2, <2>1
<1>. QED
  BY <1>3

Separator == {"&", "?"}

\* What a call of strtok finds from a place on: the end of the text, the first
\* character that is no separator, and the separator after it.
IsFound(s, i, end, first, stop) ==
  /\ end \in i .. Len(s) + 1 /\ (end = Len(s) + 1 \/ s[end] = NUL)
  /\ \A k \in i .. end - 1 : s[k] # NUL
  /\ first \in i .. end /\ (first = end \/ s[first] \notin Separator)
  /\ \A k \in i .. first - 1 : s[k] \in Separator
  /\ stop \in first .. end /\ (stop = end \/ s[stop] \in Separator)
  /\ \A k \in first .. stop - 1 : s[k] \notin Separator

LEMMA EndIs ==
  ASSUME NEW S, NEW s \in Seq(S), NEW i \in 1 .. Len(s) + 1
  PROVE  /\ End(s, i) \in i .. Len(s) + 1 /\ (End(s, i) = Len(s) + 1 \/ s[End(s, i)] = NUL)
         /\ \A k \in i .. End(s, i) - 1 : s[k] # NUL
<1> DEFINE Y == {k \in Nat : s[k] = NUL}
           L == Len(s) + 1
<1>0. i \in Nat /\ L \in Nat /\ i <= L
  BY LenProperties
<1> HIDE DEF Y
<1>1. PICK n \in i .. L : (n = L \/ n \in Y) /\ \A k \in i .. n - 1 : k \notin Y
  BY <1>0, FirstPlace
<1>2. n \in i .. Len(s) + 1 /\ (n = Len(s) + 1 \/ s[n] = NUL) /\ \A k \in i .. n - 1 : s[k] # NUL
  BY <1>0, <1>1 DEF Y
<1>. QED
  BY <1>2, Zenon DEF End

LEMMA StopIs ==
  ASSUME NEW S, NEW s \in Seq(S), NEW i \in 1 .. Len(s) + 1
  PROVE  /\ Stop(s, i) \in i .. End(s, i) /\ (Stop(s, i) = End(s, i) \/ s[Stop(s, i)] \in Separator)
         /\ \A k \in i .. Stop(s, i) - 1 : s[k] \notin Separator
<1> DEFINE Y == {k \in Nat : s[k] \in Separator}
           L == End(s, i)
<1>0. i \in Nat /\ L \in Nat /\ i <= L
  BY LenProperties, EndIs
<1> HIDE DEF Y, L
<1>1. PICK n \in i .. L : (n = L \/ n \in Y) /\ \A k \in i .. n - 1 : k \notin Y
  BY <1>0, FirstPlace
<1>2. n \in i .. L /\ (n = L \/ s[n] \in Separator) /\ \A k \in i .. n - 1 : s[k] \notin Separator
  BY <1>0, <1>1 DEF Y
<1>. QED
  BY <1>2, Zenon DEF Stop, Separator, L

LEMMA StrtokFinds ==
  ASSUME NEW S, NEW s \in Seq(S), NEW i \in 1 .. Len(s) + 1
  PROVE  \E end : IsFound(s, i, end, Strtok(s, i)[1], Strtok(s, i)[2])
<1> DEFINE Y == {k \in Nat : s[k] \notin Separator}
           L == End(s, i)
           first == CHOOSE n \in i .. End(s, i) :
                      /\ n = End(s, i) \/ s[n] \notin {"&", "?"}
                      /\ \A k \in i .. n - 1 : s[k] \in {"&", "?"}
<1>0. /\ i \in Nat /\ L \in Nat /\ i <= L /\ L <= Len(s) + 1 /\ Len(s) \in Nat
      /\ L = Len(s) + 1 \/ s[L] = NUL
      /\ \A k \in i .. L - 1 : s[k] # NUL
  BY LenProperties, EndIs
<1>1. first \in i .. L /\ (first = L \/ s[first] \notin Separator) /\ \A k \in i .. first - 1 : s[k] \in Separator
  <2> HIDE DEF Y, L, first
  <2>1. PICK n \in i .. L : (n = L \/ n \in Y) /\ \A k \in i .. n - 1 : k \notin Y
    BY <1>0, FirstPlace
  <2>2. n \in i .. L /\ (n = L \/ s[n] \notin Separator) /\ \A k \in i .. n - 1 : s[k] \in Separator
    BY <1>0, <2>1 DEF Y
  <2>. QED
    BY <2>2, Zenon DEF L, first, Separator
<1> HIDE DEF L, first
<1>2. first \in 1 .. Len(s) + 1
  BY <1>0, <1>1
<1>3. End(s, first) = L
  <2>1. /\ End(s, first) \in first .. Len(s) + 1
        /\ End(s, first) = Len(s) + 1 \/ s[End(s, first)] = NUL
        /\ \A k \in first .. End(s, first) - 1 : s[k] # NUL
    BY <1>2, EndIs
  <2> DEFINE M == End(s, first)
  <2> HIDE DEF M
  <2>2. M \in first .. Len(s) + 1 /\ (M = Len(s) + 1 \/ s[M] = NUL) /\ \A k \in first .. M - 1 : s[k] # NUL
    BY <2>1 DEF M
  <2>3. ~(M < L)
    <3>1. M < L => M \in i .. L - 1 /\ M # Len(s) + 1
      BY <1>0, <1>1, <2>2
    <3>. QED
      BY <1>0, <2>2, <3>1
  <2>4. ~(L < M)
    <3>1. L < M => L \in first .. M - 1 /\ L # Len(s) + 1
      BY <1>0, <1>1, <2>2
    <3>. QED
      BY <1>0, <2>2, <3>1
  <2>5. M = L
    BY <1>0, <1>1, <2>2, <2>3, <2>4
  <2>. QED
    BY <2>5 DEF M
<1>4. /\ Stop(s, first) \in first .. L /\ (Stop(s, first) = L \/ s[Stop(s, first)] \in Separator)
      /\ \A k \in first .. Stop(s, first) - 1 : s[k] \notin Separator
  BY <1>2, <1>3, StopIs
<1>5. Strtok(s, i) = <<first, Stop(s, first)>>
  BY Zenon DEF Strtok, first
<1>6. IsFound(s, i, L, first, Stop(s, first))
  BY <1>0, <1>1, <1>4 DEF IsFound
<1>. QED
  BY <1>5, <1>6

\* It is all that it can find.
LEMMA FoundIsUnique ==
  ASSUME NEW S, NEW s \in Seq(S), NEW i \in 1 .. Len(s) + 1,
         NEW e, NEW f, NEW p, IsFound(s, i, e, f, p),
         NEW d, NEW g, NEW q, IsFound(s, i, d, g, q)
  PROVE  f = g /\ p = q
<1>0. /\ Len(s) \in Nat /\ e \in Int /\ f \in Int /\ p \in Int /\ d \in Int /\ g \in Int /\ q \in Int
      /\ i \in Int /\ i <= f /\ f <= p /\ p <= e /\ i <= g /\ g <= q /\ q <= d
      /\ e <= Len(s) + 1 /\ d <= Len(s) + 1
  BY LenProperties DEF IsFound
<1>1. e = d
  <2>1. ~(e < d)
    <3>1. e < d => e \in i .. d - 1 /\ e # Len(s) + 1
      BY <1>0
    <3>. QED
      BY <3>1 DEF IsFound
  <2>2. ~(d < e)
    <3>1. d < e => d \in i .. e - 1 /\ d # Len(s) + 1
      BY <1>0
    <3>. QED
      BY <3>1 DEF IsFound
  <2>. QED
    BY <1>0, <2>1, <2>2
<1>2. f = g
  <2>1. ~(f < g)
    <3>1. f < g => f \in i .. g - 1 /\ f # e
      BY <1>0, <1>1
    <3>. QED
      BY <3>1 DEF IsFound
  <2>2. ~(g < f)
    <3>1. g < f => g \in i .. f - 1 /\ g # d
      BY <1>0, <1>1
    <3>. QED
      BY <3>1 DEF IsFound
  <2>. QED
    BY <1>0, <2>1, <2>2
<1>3. p = q
  <2>1. ~(p < q)
    <3>1. p < q => p \in g .. q - 1 /\ p # e
      BY <1>0, <1>1, <1>2
    <3>. QED
      BY <3>1 DEF IsFound
  <2>2. ~(q < p)
    <3>1. q < p => q \in f .. p - 1 /\ q # d
      BY <1>0, <1>1, <1>2
    <3>. QED
      BY <3>1 DEF IsFound
  <2>. QED
    BY <1>0, <2>1, <2>2
<1>. QED
  BY <1>2, <1>3

-----------------------------------------------------------------------------
(* A round of the loop.                                                    *)

\* Between two rounds: parts are cut off up to a place, and no part is open.
AtPart(cut, text, i) ==
  i = Len(text) + 1 \/ Closed(cut[i - 1], WithContent(cut[i - 1]))

AgreesFrom(s, text, i) == \A k \in i .. Len(text) : s[k] = text[k]

LEMMA RoundFinds ==
  ASSUME NEW text \in Seq(Symbol), NEW cut, IsCut(cut, text, Separator),
         NEW s \in Seq(Symbol \cup {NUL}), Len(s) = Len(text),
         NEW i \in 1 .. Len(text) + 1, AgreesFrom(s, text, i),
         AtPart(cut, text, i),
         NEW end, NEW first, NEW stop, IsFound(s, i, end, first, stop)
  PROVE  LET token == SubSeq(s, first, stop - 1)
             next == GoOn(s, stop)
         IN /\ token = <<>> => WithContent(cut[i - 1]) = WithContent(cut[Len(text)])
            /\ token # <<>> =>
                 /\ token \in Seq(Symbol) /\ WithContent(cut[i - 1]) \in Seq(Seq(Symbol))
                 /\ next \in 1 .. Len(text) + 1 /\ AtPart(cut, text, next)
                 /\ next = Len(text) + 1 \/ next > stop
                 /\ WithContent(cut[next - 1]) = Append(WithContent(cut[i - 1]), token)
<1> DEFINE N == Len(text)
           token == SubSeq(s, first, stop - 1)
           next == GoOn(s, stop)
<1>0. N \in Nat /\ \A k \in 1 .. N : text[k] \in Symbol /\ text[k] # NUL
  BY LenProperties, ElementOfSeq, SplitAssumption
<1>1. \A k \in i .. N : s[k] = text[k]
  BY DEF AgreesFrom
<1>2. end = N + 1
  <2>1. end # N + 1 => end \in i .. N /\ s[end] = NUL
    BY <1>0, <1>1 DEF IsFound
  <2>. QED
    BY <1>0, <1>1, <2>1
<1>3. /\ first \in i .. N + 1 /\ stop \in first .. N + 1
      /\ \A k \in i .. first - 1 : text[k] \in Separator
      /\ \A k \in first .. stop - 1 : text[k] \notin Separator
      /\ first = N + 1 \/ text[first] \notin Separator
      /\ stop = N + 1 \/ text[stop] \in Separator
  BY <1>0, <1>1, <1>2 DEF IsFound
<1>4. token = SubSeq(text, first, stop - 1)
  <2> DEFINE n == stop - 1
  <2>1. n \in Int /\ first \in Int /\ SameIn(Symbol, s, text, first, n)
    BY <1>0, <1>1, <1>3 DEF SameIn
  <2> HIDE DEF n
  <2>2. SubSeq(s, first, n) = SubSeq(text, first, n)
    BY <2>1, SamePart
  <2>. QED
    BY <2>2 DEF n
<1>5. token = <<>> <=> first = stop
  <2>1. \A k \in first .. stop - 1 : text[k] \in Symbol
    BY <1>0, <1>3
  <2>2. Len(SubSeq(text, first, stop - 1)) = IF first <= stop - 1 THEN stop - 1 - first + 1 ELSE 0
    BY <1>0, <1>3, <2>1, SubSeqProperties
  <2>3. SubSeq(text, first, stop - 1) \in Seq(Symbol)
    BY <1>0, <1>3, <2>1, SubSeqProperties
  <2>4. token = <<>> <=> Len(token) = 0
    BY <1>4, <2>3, EmptySeq
  <2>. QED
    BY <1>0, <1>3, <1>4, <2>2, <2>4
<1>6. CASE token = <<>>
  <2>1. first = N + 1
    BY <1>3, <1>5, <1>6
  <2>2. CASE i = N + 1
    BY <1>0, <1>6, <2>2
  <2>3. CASE i # N + 1
    <3> DEFINE j == i - 1
               tokens == WithContent(cut[j])
    <3>1. Closed(cut[j], tokens)
      BY <2>3 DEF AtPart
    <3>2. j \in 0 .. Len(text) /\ Len(text) \in j .. Len(text)
      BY <1>0, <2>3
    <3>3. AllIn(text, j, Len(text), Separator)
      BY <1>0, <1>3, <2>1 DEF AllIn
    <3>4. Closed(cut[Len(text)], tokens)
      <4> HIDE DEF j, tokens, N
      <4>. QED
        BY <3>1, <3>2, <3>3, OverSeparators
    <3>5. WithContent(cut[Len(text)]) = tokens
      <4> HIDE DEF tokens
      <4>. QED
        BY <3>4, ClosedIs
    <3>. QED
      BY <1>6, <3>5
  <2>. QED
    BY <2>2, <2>3
<1>7. CASE token # <<>>
  <2>1. first < stop /\ first \in 1 .. N
    BY <1>0, <1>3, <1>5, <1>7
  <2> DEFINE j == i - 1
             m == first - 1
             n == stop - 1
             tokens == WithContent(cut[j])
  <2>2. /\ j \in 0 .. Len(text) /\ m \in j .. Len(text)
        /\ m \in 0 .. Len(text) /\ n \in m .. Len(text) /\ m + 1 = first
    BY <1>0, <1>3, <2>1
  <2>3. Closed(cut[m], tokens)
    <3>1. Closed(cut[j], tokens)
      BY <1>0, <1>3, <2>1 DEF AtPart
    <3>2. AllIn(text, j, m, Separator)
      BY <1>0, <1>3 DEF AllIn
    <3> HIDE DEF j, m, tokens
    <3>. QED
      BY <2>2, <3>1, <3>2, OverSeparators
  <2>4. PICK C \in Seq(Seq(Symbol)) : cut[m] = Append(C, <<>>) /\ WithContent(C) = tokens
    BY <2>3 DEF Closed
  <2>5. token \in Seq(Symbol)
    <3>1. \A k \in first .. n : text[k] \in Symbol
      BY <1>0, <1>3
    <3>2. SubSeq(text, first, n) \in Seq(Symbol)
      BY <1>0, <1>3, <3>1, SubSeqProperties
    <3>. QED
      BY <1>4, <3>2
  <2>6. cut[n] = Append(C, token)
    <3>1. NoneIn(text, m, n, Separator)
      BY <1>3, <2>2 DEF NoneIn
    <3>2. cut[n] = Append(C, SubSeq(text, m + 1, n))
      <4>1. Opens(cut[m], C)
        BY <2>4 DEF Opens
      <4> HIDE DEF j, m, n, N, next
      <4>2. cut[n] = Append(C, SubSeq(text, m + 1, n))
        BY <2>2, <3>1, <4>1, OverToken
      <4>. QED
        BY <4>2
    <3>. QED
      BY <1>4, <2>2, <3>2
  <2> HIDE DEF token
  <2>7. tokens \in Seq(Seq(Symbol)) /\ WithContent(cut[n]) = Append(tokens, token)
    <3> HIDE DEF tokens
    <3>. QED
      BY <1>7, <2>4, <2>5, <2>6, WithContentAppend
  <2>8. CASE stop = N + 1
    <3>1. next = N + 1
      BY <1>0, <2>8 DEF GoOn
    <3>2. next - 1 = n /\ next \in 1 .. N + 1
      BY <1>0, <2>8, <3>1
    <3>3. AtPart(cut, text, next)
      BY <3>1 DEF AtPart
    <3>4. WithContent(cut[next - 1]) = Append(tokens, token)
      BY <2>7, <3>2
    <3>5. next = Len(text) + 1
      BY <3>1
    <3> HIDE DEF N
    <3>. QED
      BY <1>7, <2>5, <2>7, <3>5, <3>2, <3>3, <3>4 DEF token, N
  <2>9. CASE stop # N + 1
    <3>1. stop \in 1 .. N /\ stop \in i .. N
      <4>1. stop \in first .. N + 1 /\ first \in i .. N + 1 /\ i \in 1 .. N + 1 /\ stop # N + 1
        BY <1>3, <2>9
      <4> HIDE DEF N, next
      <4>. QED
        BY <1>0, <4>1
    <3>2. text[stop] \in Separator /\ text[stop] \in Symbol /\ s[stop] # NUL
      BY <1>0, <1>1, <1>3, <2>9, <3>1
    <3>3. next = stop + 1
      BY <3>1, <3>2 DEF GoOn
    <3>4. cut[stop] = AddChar(cut[n], text[stop], Separator)
      <4>1. n \in 0 .. Len(text) - 1 /\ n + 1 = stop
        BY <1>0, <3>1
      <4>2. cut[n + 1] = AddChar(cut[n], text[n + 1], Separator)
        BY <4>1 DEF IsCut
      <4>. QED
        BY <4>1, <4>2
    <3> DEFINE E == Append(C, token)
    <3>5. cut[stop] = Append(E, <<>>) /\ E \in Seq(Seq(Symbol))
      BY <2>5, <2>6, <3>2, <3>4, AddCharAppend, AppendProperties
    <3>6. WithContent(E) = Append(tokens, token)
      BY <2>6, <2>7
    <3> DEFINE after == Append(tokens, token)
    <3>7. Closed(cut[stop], after)
      <4> HIDE DEF E, after
      <4>. QED
        BY <3>5, <3>6 DEF Closed, after
    <3>8. WithContent(cut[stop]) = after
      <4> HIDE DEF after
      <4>. QED
        BY <3>7, ClosedIs
    <3>9. (stop + 1) - 1 = stop /\ stop + 1 \in 1 .. N + 1 /\ stop + 1 > stop
      BY <1>0, <3>1
    <3>10. AtPart(cut, text, stop + 1)
      <4> HIDE DEF after, tokens
      <4>. QED
        BY <3>7, <3>8, <3>9 DEF AtPart
    <3>11. WithContent(cut[next - 1]) = Append(tokens, token)
      BY <3>3, <3>8, <3>9
    <3>12. next \in 1 .. Len(text) + 1 /\ AtPart(cut, text, next) /\ next > stop
      BY <3>3, <3>9, <3>10
    <3> HIDE DEF next
    <3>. QED
      BY <1>7, <2>5, <2>7, <3>11, <3>12 DEF token, next
  <2>. QED
    BY <2>8, <2>9
<1>. QED
  BY <1>6, <1>7

\* r is s with a NUL in a place.
IsMarked(r, s, stop) == r = [k \in DOMAIN s |-> IF k = stop THEN NUL ELSE s[k]]

Token(s, first, stop) == SubSeq(s, first, stop - 1)

\* The same is found again after it has been cut off.
LEMMA FoundAgain ==
  ASSUME NEW S, NEW s \in Seq(S), NUL \in S, NEW i \in 1 .. Len(s) + 1,
         NEW end, NEW first, NEW stop, IsFound(s, i, end, first, stop),
         NEW r, IsMarked(r, s, stop)
  PROVE  /\ r \in Seq(S) /\ Len(r) = Len(s) /\ \A k \in 1 .. Len(s) : k # stop => r[k] = s[k]
         /\ IsFound(r, i, stop, first, stop)
         /\ Token(r, first, stop) = Token(s, first, stop)
<1> DEFINE N == Len(s)
<1>0. N \in Nat /\ DOMAIN s = 1 .. N /\ \A k \in 1 .. N : s[k] \in S
  BY LenProperties, ElementOfSeq
<1>1. r = [k \in 1 .. N |-> IF k = stop THEN NUL ELSE s[k]]
  BY <1>0 DEF IsMarked
<1>2. r \in Seq(S) /\ Len(r) = N
  <2>1. \A k \in 1 .. N : (IF k = stop THEN NUL ELSE s[k]) \in S
    BY <1>0
  <2> HIDE DEF N
  <2>. QED
    BY <1>0, <1>1, <2>1
<1>3. \A k \in 1 .. N : k # stop => r[k] = s[k]
  BY <1>1
<1>4. stop \in 1 .. N => r[stop] = NUL
  BY <1>1
<1>5. /\ end \in Int /\ first \in Int /\ stop \in Int /\ i \in 1 .. N + 1
      /\ i <= first /\ first <= stop /\ stop <= end /\ end <= N + 1
  BY <1>0 DEF IsFound
<1> HIDE DEF N
<1>6. IsFound(r, i, stop, first, stop)
  <2>1. stop \in i .. N + 1 /\ (stop = N + 1 \/ r[stop] = NUL)
    BY <1>0, <1>4, <1>5
  <2>2. \A k \in i .. stop - 1 : k \in 1 .. N /\ k # stop /\ k \in i .. end - 1
    BY <1>0, <1>5
  <2>3. \A k \in i .. stop - 1 : r[k] # NUL
    BY <1>3, <2>2 DEF IsFound
  <2>4. \A k \in i .. first - 1 : r[k] \in Separator
    <3>1. \A k \in i .. first - 1 : k \in i .. stop - 1
      BY <1>5
    <3>. QED
      BY <1>3, <2>2, <3>1 DEF IsFound
  <2>5. \A k \in first .. stop - 1 : r[k] \notin Separator
    <3>1. \A k \in first .. stop - 1 : k \in i .. stop - 1
      BY <1>5
    <3>. QED
      BY <1>3, <2>2, <3>1 DEF IsFound
  <2>6. first = stop \/ r[first] \notin Separator
    <3>1. first # stop => first \in first .. stop - 1
      BY <1>5
    <3>. QED
      BY <2>5, <3>1
  <2>7. Len(r) + 1 = N + 1
    BY <1>2
  <2>. QED
    BY <1>5, <2>1, <2>3, <2>4, <2>5, <2>6, <2>7 DEF IsFound
<1>7. SubSeq(r, first, stop - 1) = SubSeq(s, first, stop - 1)
  <2> DEFINE n == stop - 1
  <2>1. n \in Int /\ first \in Int /\ SameIn(S, r, s, first, n)
    BY <1>0, <1>3, <1>5 DEF SameIn
  <2> HIDE DEF n
  <2>2. SubSeq(r, first, n) = SubSeq(s, first, n)
    BY <2>1, SamePart
  <2>. QED
    BY <2>2 DEF n
<1>. QED
  BY <1>2, <1>3, <1>6, <1>7 DEF N, Token

-----------------------------------------------------------------------------
(* The loop.                                                               *)

Params(tokens) == Elements(Unsigned(tokens))

LEMMA InAscii == " " \in Symbol /\ "?" \in Symbol
<1>1. Ascii[2] = " " /\ Ascii[17] = "?" /\ 2 \in DOMAIN Ascii /\ 17 \in DOMAIN Ascii
  BY DEF Ascii
<1>. QED
  BY <1>1 DEF Symbol, ToSet

\* The text in which strtok looks, and what the call is to return.
LEMMA SplitIs ==
  ASSUME NEW u \in Seq(Symbol), NEW q \in BOOLEAN,
         NEW w, w = Plus(u, q), NEW cut, cut = CHOOSE k : IsCut(k, w, Separator)
  PROVE  /\ w \in Seq(Symbol) /\ IsCut(cut, w, Separator)
         /\ SplitParameters(u, q) = Params(WithContent(cut[Len(w)]))
<1>1. w \in Seq(Symbol)
  <2> DEFINE n == Len(u)
  <2>1. n \in Nat /\ DOMAIN u = 1 .. n /\ \A i \in 1 .. n : u[i] \in Symbol
    BY LenProperties, ElementOfSeq
  <2>2. Replace(u, "+", " ") \in Seq(Symbol)
    <3>1. \A i \in 1 .. n : (IF u[i] = "+" THEN " " ELSE u[i]) \in Symbol
      BY <2>1, InAscii
    <3> DEFINE f(i) == IF u[i] = "+" THEN " " ELSE u[i]
    <3> HIDE DEF n, f
    <3>2. [i \in 1 .. n |-> f(i)] \in Seq(Symbol)
      <4>1. \A i \in 1 .. n : f(i) \in Symbol
        BY <3>1 DEF f
      <4>. QED
        BY <2>1, <4>1
    <3>. QED
      BY <2>1, <3>2 DEF Replace, f
  <2>. QED
    BY <2>2 DEF Plus
<1>2. IsCut(cut, w, Separator)
  <2>1. \E k : IsCut(k, w, Separator)
    BY <1>1, CutExists
  <2>. QED
    BY <2>1, Zenon
<1>3. Tokens(w, Separator) = WithContent(cut[Len(w)])
  BY <1>2 DEF IsCut
<1>4. SplitParameters(u, q) = Params(Tokens(w, Separator))
  BY Zenon DEF SplitParameters, Params, Elements, Unsigned, Separator
<1>. QED
  BY <1>1, <1>2, <1>3, <1>4

\* Where the next call of strtok begins.  Before it the text w has been cut up,
\* from there on the copy s is as w was, and args is what the parts up to there
\* make.
InText(w, cut, s, i, args) ==
  /\ AgreesFrom(s, w, i)
  /\ AtPart(cut, w, i)
  /\ args = Params(WithContent(cut[i - 1]))
\* Or the text begins with an old signature, which is found again and again.
Stuck(s) ==
  \E end, first, stop :
    /\ IsFound(s, 1, end, first, stop)
    /\ SubSeq(s, first, stop - 1) # <<>> /\ IsSignature(SubSeq(s, first, stop - 1))

IsCopy(s, w) == s \in Seq(Symbol \cup {NUL}) /\ Len(s) = Len(w)
Going(w, cut, s, t, i, args) ==
  /\ IsCopy(s, w) /\ i \in 1 .. Len(w) + 1
  /\ t \in {"t1", "NULL"} /\ (t = "t1" => i = 1)
  /\ InText(w, cut, s, i, args) \/ (t = "t1" /\ Stuck(s))

LEMMA NothingYet ==
  ASSUME NEW cut, NEW w \in Seq(Symbol), IsCut(cut, w, Separator)
  PROVE  AtPart(cut, w, 1) /\ Params(WithContent(cut[0])) = <<>>
<1> DEFINE e == <<>>
           p == Append(e, e)
<1>1. e \in Seq(Symbol) /\ e \in Seq(Seq(Symbol)) /\ e \in Seq({e})
  BY EmptySeq
<1>2. cut[0] = p
  BY DEF IsCut
<1>3. WithContent(e) = e /\ Unsigned(e) = e /\ Elements(e) = e
  <2> DEFINE a == [i \in DOMAIN e |-> IF e[i] # <<>> THEN <<e[i]>> ELSE <<>>]
             b == [i \in DOMAIN e |-> IF ~IsSignature(e[i]) THEN <<e[i]>> ELSE <<>>]
             c == [i \in DOMAIN e |-> Element(i, e[i])]
  <2>1. a = e /\ b = e /\ c = e
    OBVIOUS
  <2>2. WithContent(e) = FlattenSeq(a) /\ Unsigned(e) = FlattenSeq(b) /\ Elements(e) = c
    BY Zenon DEF WithContent, Unsigned, Elements, Sift
  <2>. QED
    BY <2>1, <2>2, FlattenEmpty
<1> HIDE DEF p
<1>4. Closed(p, e)
  BY <1>1, <1>3 DEF Closed, p
<1> HIDE DEF e
<1>5. WithContent(p) = e
  BY <1>4, ClosedIs
<1>6. Closed(cut[1 - 1], WithContent(cut[1 - 1]))
  BY <1>2, <1>4, <1>5
<1>. QED
  BY <1>2, <1>3, <1>5, <1>6 DEF AtPart, Params, e

LEMMA GoingStarts ==
  ASSUME NEW cut, NEW w \in Seq(Symbol), IsCut(cut, w, Separator)
  PROVE  Going(w, cut, w, "t1", 1, <<>>)
<1> DEFINE e == <<>>
<1>1. AtPart(cut, w, 1) /\ Params(WithContent(cut[0])) = e
  BY NothingYet
<1> HIDE DEF e
<1>2. 1 \in 1 .. Len(w) + 1 /\ 1 - 1 = 0
  BY LenProperties
<1>3. IsCopy(w, w)
  <2>1. \A t \in Seq(Symbol) : t \in Seq(Symbol \cup {NUL})
    OBVIOUS
  <2>. QED
    BY <2>1 DEF IsCopy
<1>4. AgreesFrom(w, w, 1)
  BY DEF AgreesFrom
<1>5. InText(w, cut, w, 1, e)
  BY <1>1, <1>2, <1>4 DEF InText
<1>. QED
  BY <1>2, <1>3, <1>5 DEF Going, e

\* What a round that has found a token does with argv.
LEMMA OneMore ==
  ASSUME NEW tokens \in Seq(Seq(Symbol)), NEW token \in Seq(Symbol)
  PROVE  Params(Append(tokens, token)) =
           IF IsSignature(token) THEN Params(tokens)
           ELSE Append(Params(tokens), Element(Len(Params(tokens)) + 1, token))
<1>1. /\ Unsigned(tokens) \in Seq(Seq(Symbol))
      /\ Unsigned(Append(tokens, token)) = IF IsSignature(token) THEN Unsigned(tokens)
                                           ELSE Append(Unsigned(tokens), token)
  BY UnsignedAppend
<1> DEFINE u == Unsigned(tokens)
           S == Seq(Symbol)
<1> HIDE DEF u, S
<1>2. Elements(Append(u, token)) = Append(Elements(u), Element(Len(Elements(u)) + 1, token))
  <2>1. u \in Seq(S) /\ token \in S
    BY <1>1 DEF u, S
  <2>. QED
    BY <2>1, ElementsAppend
<1>. QED
  BY <1>1, <1>2 DEF Params, u

\* A round in the call's own copy.
HasFound(s, i, first, stop, token) ==
  /\ first = Strtok(s, i)[1] /\ stop = Strtok(s, i)[2]
  /\ token = SubSeq(s, first, stop - 1)
HasTaken(s, t, args, stop, token, next, r, more, t2, j) ==
  /\ next = GoOn(s, stop)
  /\ r = [k \in DOMAIN s |-> IF k = stop THEN NUL ELSE s[k]]
  /\ more = IF IsSignature(token) THEN args
            ELSE Append(args, Element(Len(args) + 1, token))
  /\ t2 = NextTmp(token, t) /\ j = IF t2 = "t1" THEN 1 ELSE next
LEMMA OneRound ==
  ASSUME NEW w \in Seq(Symbol), NEW cut, IsCut(cut, w, Separator),
         NEW s, NEW t, NEW i, NEW args, Going(w, cut, s, t, i, args),
         NEW first, NEW stop, NEW token, HasFound(s, i, first, stop, token),
         NEW next, NEW r, NEW more, NEW t2, NEW j,
         HasTaken(s, t, args, stop, token, next, r, more, t2, j)
  PROVE  IF token = <<>> THEN args = Params(WithContent(cut[Len(w)]))
         ELSE Going(w, cut, r, t2, j, more)
<1> DEFINE N == Len(w)
           S == Symbol \cup {NUL}
<1>1. /\ s \in Seq(S) /\ Len(s) = N /\ NUL \in S /\ i \in 1 .. N + 1
      /\ t \in {"t1", "NULL"} /\ (t = "t1" => i = 1)
      /\ InText(w, cut, s, i, args) \/ (t = "t1" /\ Stuck(s))
  BY DEF Going, IsCopy
<1>2. N \in Nat
  BY LenProperties
<1> HIDE DEF S, N
<1>3. PICK end : IsFound(s, i, end, first, stop)
  <2>1. i \in 1 .. Len(s) + 1
    BY <1>1
  <2>. QED
    BY <1>1, <2>1, StrtokFinds DEF HasFound
<1>4. /\ r \in Seq(S) /\ Len(r) = N /\ \A k \in 1 .. N : k # stop => r[k] = s[k]
      /\ IsFound(r, i, stop, first, stop)
      /\ SubSeq(r, first, stop - 1) = token
  <2>1. IsMarked(r, s, stop) /\ token = SubSeq(s, first, stop - 1)
    BY DEF IsMarked, HasFound, HasTaken
  <2>2. i \in 1 .. Len(s) + 1
    BY <1>1
  <2>3. /\ r \in Seq(S) /\ Len(r) = Len(s) /\ \A k \in 1 .. Len(s) : k # stop => r[k] = s[k]
        /\ IsFound(r, i, stop, first, stop)
        /\ Token(r, first, stop) = Token(s, first, stop)
    BY <1>1, <1>3, <2>1, <2>2, FoundAgain
  <2>. QED
    BY <1>1, <2>1, <2>3 DEF Token
<1>5. IsCopy(r, w)
  BY <1>4 DEF IsCopy, S, N
<1>6. ASSUME token # <<>>, t = "t1", IsSignature(token) PROVE Going(w, cut, r, t2, j, more)
  <2>1. t2 = "t1" /\ i = 1 /\ j = 1
    BY <1>1, <1>6 DEF NextTmp, HasTaken
  <2>2. Stuck(r)
    <3>1. IsFound(r, 1, stop, first, stop) /\ SubSeq(r, first, stop - 1) = token
      BY <1>4, <2>1
    <3>2. SubSeq(r, first, stop - 1) # <<>> /\ IsSignature(SubSeq(r, first, stop - 1))
      BY <1>6, <3>1, Zenon
    <3>. QED
      BY ONLY <3>1, <3>2, Zenon DEF Stuck
  <2>3. 1 \in 1 .. Len(w) + 1
    BY <1>1, <2>1 DEF N
  <2>. QED
    BY <1>5, <2>1, <2>2, <2>3 DEF Going
<1>7. CASE InText(w, cut, s, i, args)
  <2>1. /\ token = <<>> => WithContent(cut[i - 1]) = WithContent(cut[N])
        /\ token # <<>> =>
             /\ token \in Seq(Symbol) /\ WithContent(cut[i - 1]) \in Seq(Seq(Symbol))
             /\ next \in 1 .. N + 1 /\ AtPart(cut, w, next)
             /\ next = N + 1 \/ next > stop
             /\ WithContent(cut[next - 1]) = Append(WithContent(cut[i - 1]), token)
    <3>1. AgreesFrom(s, w, i) /\ AtPart(cut, w, i) /\ i \in 1 .. Len(w) + 1
      BY <1>1, <1>7 DEF InText, N
    <3>2. s \in Seq(Symbol \cup {NUL}) /\ Len(s) = Len(w)
      BY <1>1 DEF S, N
    <3>3. /\ SubSeq(s, first, stop - 1) = <<>> => WithContent(cut[i - 1]) = WithContent(cut[Len(w)])
          /\ SubSeq(s, first, stop - 1) # <<>> =>
               /\ SubSeq(s, first, stop - 1) \in Seq(Symbol)
               /\ WithContent(cut[i - 1]) \in Seq(Seq(Symbol))
               /\ GoOn(s, stop) \in 1 .. Len(w) + 1 /\ AtPart(cut, w, GoOn(s, stop))
               /\ GoOn(s, stop) = Len(w) + 1 \/ GoOn(s, stop) > stop
               /\ WithContent(cut[GoOn(s, stop) - 1])
                    = Append(WithContent(cut[i - 1]), SubSeq(s, first, stop - 1))
      <4>1. w \in Seq(Symbol) /\ IsCut(cut, w, Separator) /\ IsFound(s, i, end, first, stop)
        BY <1>3
      <4>. QED
        BY ONLY <3>1, <3>2, <4>1, RoundFinds, SMTT(60)
    <3>4. token = SubSeq(s, first, stop - 1) /\ next = GoOn(s, stop)
      BY DEF HasFound, HasTaken
    <3>. QED
      BY ONLY <3>3, <3>4, Zenon DEF N
  <2>2. args = Params(WithContent(cut[i - 1]))
    BY <1>7 DEF InText
  <2>3. CASE token = <<>>
    BY <2>1, <2>2, <2>3 DEF N
  <2>4. CASE token # <<>>
    <3>1. CASE t = "t1" /\ IsSignature(token)
      BY <1>6, <2>4, <3>1
    <3>2. CASE ~(t = "t1" /\ IsSignature(token))
      <4>1. t2 = "NULL" /\ j = next
        BY <1>1, <3>2 DEF NextTmp, HasTaken
      <4>2. AgreesFrom(r, w, next)
        <5>1. stop \in Int /\ i \in Int /\ i <= stop
          BY <1>1, <1>3 DEF IsFound
        <5>2. ASSUME NEW k \in next .. N PROVE k \in 1 .. N /\ k # stop /\ k \in i .. N
          BY <1>2, <2>1, <2>4, <5>1
        <5>3. \A k \in i .. N : s[k] = w[k]
          BY <1>7 DEF InText, AgreesFrom, N
        <5>. QED
          BY <1>4, <5>2, <5>3 DEF AgreesFrom, N
      <4>3. more = Params(WithContent(cut[next - 1]))
        <5>1. more = IF IsSignature(token) THEN args
                     ELSE Append(args, Element(Len(args) + 1, token))
          BY Zenon DEF HasTaken
        <5>. QED
          BY <2>1, <2>2, <2>4, <5>1, OneMore
      <4>4. InText(w, cut, r, j, more)
        BY <2>1, <2>4, <4>1, <4>2, <4>3 DEF InText
      <4>5. j \in 1 .. Len(w) + 1
        BY <2>1, <2>4, <4>1 DEF N
      <4>. QED
        BY <1>5, <2>4, <4>1, <4>4, <4>5 DEF Going
    <3>. QED
      BY <3>1, <3>2
  <2>. QED
    BY <2>3, <2>4
<1>8. CASE t = "t1" /\ Stuck(s)
  <2>1. i = 1
    BY <1>1, <1>8
  <2>2. PICK d, g, q : /\ IsFound(s, 1, d, g, q)
                       /\ SubSeq(s, g, q - 1) # <<>> /\ IsSignature(SubSeq(s, g, q - 1))
    BY <1>8 DEF Stuck
  <2>3. g = first /\ q = stop
    <3>1. IsFound(s, i, d, g, q) /\ i \in 1 .. Len(s) + 1
      BY <1>1, <2>1, <2>2
    <3>. QED
      BY <1>1, <1>3, <3>1, FoundIsUnique
  <2>4. token # <<>> /\ IsSignature(token)
    BY <2>2, <2>3 DEF HasFound
  <2>. QED
    BY <1>6, <1>8, <2>4
<1>. QED
  BY <1>1, <1>7, <1>8

-----------------------------------------------------------------------------
(* The callers.                                                            *)

WholeOf(c) == Plus(passed[c].url, passed[c].qesc)
CutOf(c) == CHOOSE k : IsCut(k, WholeOf(c), Separator)
From(c) == IF tmp[c] = "t1" THEN 1 ELSE saved

\* A call that has overlapped no other is the only one, and has the place of
\* strtok to itself.
Alone(c) ==
  /\ pc[c] = "loop" /\ \A d \in Caller : Running(d) => d = c
  /\ tmp[c] = "NULL" => owner = c
  /\ Going(WholeOf(c), CutOf(c), t1[c], tmp[c], From(c), argv[c])

AreArrays == /\ DOMAIN pc = Caller /\ DOMAIN passed = Caller /\ DOMAIN t1 = Caller
             /\ DOMAIN tmp = Caller /\ DOMAIN argv = Caller
IsText(x) == x.url \in Seq(Symbol) /\ x.qesc \in BOOLEAN
CallerInv(c) ==
  /\ IsText(passed[c])
  /\ pc[c] = "idle" => tmp[c] = "t1" /\ argv[c] = <<>>
  /\ Running(c) => c \in mixed \/ Alone(c)
  /\ pc[c] = "returned" => c \in mixed \/ Right(c)
SplitInv == AreArrays /\ \A c \in Caller : CallerInv(c)

LEMMA SplitStarts == SplitInit => SplitInv
<1> SUFFICES ASSUME SplitInit PROVE SplitInv
  OBVIOUS
<1>1. AreArrays
  BY DEF SplitInit, AreArrays
<1>2. ASSUME NEW c \in Caller PROVE CallerInv(c)
  <2>1. /\ pc[c] = "idle" /\ tmp[c] = "t1" /\ argv[c] = <<>>
        /\ passed[c].url = <<>> /\ passed[c].qesc = FALSE
    BY DEF SplitInit
  <2>. QED
    BY <2>1, EmptySeq DEF CallerInv, IsText, Running
<1>. QED
  BY <1>1, <1>2 DEF SplitInv

\* What a call keeps that a step leaves alone.
LEMMA OthersKeep ==
  ASSUME NEW c, CallerInv(c), pc'[c] = pc[c], passed'[c] = passed[c],
         tmp'[c] = tmp[c], argv'[c] = argv[c], c \in mixed => c \in mixed',
         Running(c) => c \in mixed'
  PROVE  CallerInv(c)'
BY Zenon DEF CallerInv, IsText, Running, Right

LEMMA CallKeeps ==
  ASSUME SplitInv, NEW c \in Caller, Call(c)
  PROVE  SplitInv'
<1> DEFINE others == {d \in Caller : Running(d)}
<1>1. PICK x \in TextOf[c] : /\ passed' = [passed EXCEPT ![c] = x]
                             /\ t1' = [t1 EXCEPT ![c] = Plus(x.url, x.qesc)]
  BY DEF Call
<1>2. /\ pc[c] = "idle" /\ pc' = [pc EXCEPT ![c] = "loop"]
      /\ mixed' = IF others = {} THEN mixed ELSE mixed \cup others \cup {c}
      /\ tmp' = tmp /\ argv' = argv /\ owner' = owner /\ saved' = saved
  BY Zenon DEF Call
<1>3. AreArrays /\ tmp[c] = "t1" /\ argv[c] = <<>>
  BY <1>2 DEF SplitInv, CallerInv
<1>4. AreArrays'
  BY <1>1, <1>2, <1>3 DEF AreArrays
<1>5. CallerInv(c)'
  <2>1. IsText(x)
    BY SplitAssumption DEF IsText
  <2>2. passed'[c] = x /\ t1'[c] = Plus(x.url, x.qesc) /\ pc'[c] = "loop"
    BY <1>1, <1>2, <1>3 DEF AreArrays
  <2>3. CASE others # {}
    <3>1. c \in mixed'
      BY <1>2, <2>3
    <3>. QED
      BY <2>1, <2>2, <3>1 DEF CallerInv
  <2>4. CASE others = {}
    <3>1. \A d \in Caller : Running(d)' => d = c
      BY <1>2, <1>3, <2>4 DEF Running, AreArrays
    <3>2. WholeOf(c)' = t1'[c] /\ From(c)' = 1 /\ tmp'[c] = "t1" /\ argv'[c] = <<>>
      BY <1>2, <1>3, <2>2 DEF WholeOf, From
    <3>3. CutOf(c)' = CHOOSE k : IsCut(k, WholeOf(c)', Separator)
      BY Zenon DEF CutOf
    <3>4. WholeOf(c)' \in Seq(Symbol) /\ IsCut(CutOf(c)', WholeOf(c)', Separator)
      <4> DEFINE w == WholeOf(c)'
                 cut == CutOf(c)'
      <4>1. w = Plus(x.url, x.qesc) /\ cut = CHOOSE k : IsCut(k, w, Separator)
        BY <2>2, <3>2, <3>3
      <4> HIDE DEF w, cut
      <4>2. w \in Seq(Symbol) /\ IsCut(cut, w, Separator)
        BY <2>1, <4>1, SplitIs DEF IsText
      <4>. QED
        BY <4>2 DEF w, cut
    <3>5. Going(WholeOf(c)', CutOf(c)', WholeOf(c)', "t1", 1, <<>>)
      BY <3>4, GoingStarts
    <3>6. Going(WholeOf(c), CutOf(c), t1[c], tmp[c], From(c), argv[c])'
      BY <3>2, <3>5
    <3>7. Alone(c)'
      BY <2>2, <3>1, <3>2, <3>6 DEF Alone
    <3>. QED
      BY <2>1, <2>2, <3>7 DEF CallerInv
  <2>. QED
    BY <2>3, <2>4
<1>6. ASSUME NEW d \in Caller, d # c PROVE CallerInv(d)'
  <2>1. /\ CallerInv(d) /\ pc'[d] = pc[d] /\ passed'[d] = passed[d]
        /\ tmp'[d] = tmp[d] /\ argv'[d] = argv[d]
    BY <1>1, <1>2, <1>3, <1>6 DEF SplitInv, AreArrays
  <2>2. (d \in mixed => d \in mixed') /\ (Running(d) => d \in mixed')
    BY <1>2
  <2>. QED
    BY <2>1, <2>2, OthersKeep
<1>. QED
  BY <1>4, <1>5, <1>6 DEF SplitInv

\* While c runs, every other call that runs has overlapped it.
LEMMA OthersAreMixed ==
  ASSUME SplitInv, NEW c \in Caller, Running(c), NEW d \in Caller, d # c, Running(d)
  PROVE  d \in mixed
BY DEF SplitInv, CallerInv, Alone

LEMMA RoundKeeps ==
  ASSUME SplitInv, NEW c \in Caller, Round(c)
  PROVE  SplitInv'
<1> DEFINE of == IF tmp[c] = "t1" THEN c ELSE owner
           first == Strtok(t1[of], From(c))[1]
           stop == Strtok(t1[of], From(c))[2]
           token == SubSeq(t1[of], first, stop - 1)
           Ends == /\ token = <<>>
                   /\ pc' = [pc EXCEPT ![c] = "returned"]
                   /\ t1' = [t1 EXCEPT ![c] = <<>>]
                   /\ owner' = IF of = c THEN NoCopy ELSE of
                   /\ UNCHANGED <<tmp, argv>>
           Goes == /\ token # <<>>
                   /\ t1' = [t1 EXCEPT ![of] =
                               [i \in DOMAIN @ |-> IF i = stop THEN NUL ELSE @[i]]]
                   /\ owner' = of
                   /\ tmp' = [tmp EXCEPT ![c] = NextTmp(token, @)]
                   /\ argv' = [argv EXCEPT ![c] =
                                 IF IsSignature(token) THEN @
                                 ELSE Append(@, Element(Len(@) + 1, token))]
                   /\ UNCHANGED pc
<1>1. pc[c] = "loop" /\ passed' = passed /\ mixed' = mixed
  BY DEF Round
<1>2. saved' = GoOn(t1[of], stop) /\ (Ends \/ Goes)
  <2>1. \E o \in {of} : \E at \in {Strtok(t1[o], From(c))} : Take(c, o, at)
    BY Zenon DEF Round, From
  <2>2. Take(c, of, Strtok(t1[of], From(c)))
    BY <2>1
  <2> HIDE DEF of
  <2>. QED
    BY <2>2, Zenon DEF Take
<1>3. AreArrays /\ CallerInv(c) /\ Running(c)
  BY <1>1 DEF SplitInv, Running
<1> HIDE DEF of, first, stop, token
<1>4. AreArrays'
  BY <1>1, <1>2, <1>3 DEF AreArrays
<1>5. ASSUME NEW d \in Caller, d # c PROVE CallerInv(d)'
  <2>1. /\ CallerInv(d) /\ pc'[d] = pc[d] /\ passed'[d] = passed[d]
        /\ tmp'[d] = tmp[d] /\ argv'[d] = argv[d]
    BY <1>1, <1>2, <1>3, <1>5 DEF SplitInv, AreArrays
  <2>2. Running(d) => d \in mixed'
    BY <1>1, <1>3, <1>5, OthersAreMixed
  <2>. QED
    BY <1>1, <2>1, <2>2, OthersKeep
<1>6. CallerInv(c)'
  <2>1. IsText(passed[c]) /\ IsText(passed'[c])
    BY <1>1, <1>3 DEF CallerInv
  <2>2. pc'[c] \in {"loop", "returned"} /\ (pc'[c] = "loop" => Goes) /\ (pc'[c] = "returned" => Ends)
    BY <1>1, <1>2, <1>3 DEF AreArrays
  <2> HIDE DEF Ends, Goes
  <2>3. CASE c \in mixed
    <3>1. c \in mixed'
      BY <1>1, <2>3
    <3>. QED
      BY <2>1, <2>2, <3>1 DEF CallerInv
  <2>4. CASE c \notin mixed
    <3>1. Alone(c)
      BY <1>3, <2>4 DEF CallerInv
    <3>2. of = c
      BY <3>1 DEF Alone, Going, of
    <3> DEFINE w == WholeOf(c)
               cut == CutOf(c)
               s == t1[c]
               t == tmp[c]
               i == From(c)
               args == argv[c]
               next == GoOn(s, stop)
               r == [k \in DOMAIN s |-> IF k = stop THEN NUL ELSE s[k]]
               more == IF IsSignature(token) THEN args
                       ELSE Append(args, Element(Len(args) + 1, token))
               t2 == NextTmp(token, t)
               j == IF t2 = "t1" THEN 1 ELSE next
    <3>3. /\ w \in Seq(Symbol) /\ IsCut(cut, w, Separator)
          /\ SplitParameters(passed[c].url, passed[c].qesc) = Params(WithContent(cut[Len(w)]))
      <4>1. w = Plus(passed[c].url, passed[c].qesc) /\ cut = CHOOSE k : IsCut(k, w, Separator)
        BY Zenon DEF WholeOf, CutOf
      <4> HIDE DEF w, cut
      <4>. QED
        BY <2>1, <4>1, SplitIs DEF IsText
    <3>4. Going(w, cut, s, t, i, args)
      BY <3>1 DEF Alone
    <3>5. HasFound(s, i, first, stop, token)
      BY <3>2 DEF first, stop, token, HasFound
    <3>6. IF token = <<>> THEN args = Params(WithContent(cut[Len(w)]))
          ELSE Going(w, cut, r, t2, j, more)
      <4>1. HasTaken(s, t, args, stop, token, next, r, more, t2, j)
        BY DEF HasTaken
      <4> HIDE DEF w, cut, s, t, i, args, next, r, more, t2, j
      <4>2. w \in Seq(Symbol) /\ IsCut(cut, w, Separator)
        BY <3>3
      <4>. QED
        BY ONLY <3>4, <3>5, <4>1, <4>2, OneRound
    <3>7. WholeOf(c)' = w /\ CutOf(c)' = cut
      BY <1>1, Zenon DEF WholeOf, CutOf
    <3>8. CASE Ends
      <4>1. argv'[c] = args /\ token = <<>>
        BY <3>8 DEF Ends
      <4>2. argv'[c] = SplitParameters(passed[c].url, passed[c].qesc)
        <5> HIDE DEF w, cut, s, t, i, args, next, r, more, t2, j
        <5>. QED
          BY <3>3, <3>6, <4>1
      <4>3. Right(c)' /\ pc'[c] = "returned"
        BY <1>1, <1>3, <3>8, <4>2 DEF Right, Ends, AreArrays
      <4>. QED
        BY <2>1, <4>3 DEF CallerInv, Running
    <3>9. CASE Goes
      <4>1. /\ t1'[c] = r /\ tmp'[c] = t2 /\ argv'[c] = more /\ owner' = c /\ pc' = pc
            /\ token # <<>>
        BY <1>3, <3>2, <3>9 DEF Goes, AreArrays
      <4>2. saved' = next
        BY <1>2, <3>2
      <4>3. From(c)' = j
        BY <4>1, <4>2 DEF From
      <4>4. Going(w, cut, r, t2, j, more)
        <5> HIDE DEF w, cut, s, t, i, args, next, r, more, t2, j
        <5>. QED
          BY <3>6, <4>1
      <4>5. Going(WholeOf(c), CutOf(c), t1[c], tmp[c], From(c), argv[c])'
        <5> HIDE DEF w, cut, s, t, i, args, next, r, more, t2, j
        <5>. QED
          BY <3>7, <4>1, <4>3, <4>4
      <4>6. \A d \in Caller : Running(d)' => d = c
        BY <3>1, <4>1 DEF Alone, Running
      <4>7. Alone(c)'
        BY <1>1, <4>1, <4>5, <4>6 DEF Alone
      <4>. QED
        BY <1>1, <2>1, <4>1, <4>7 DEF CallerInv
    <3>. QED
      BY <2>2, <3>8, <3>9
  <2>. QED
    BY <2>3, <2>4
<1>. QED
  BY <1>4, <1>5, <1>6 DEF SplitInv

LEMMA AstrayKeeps ==
  ASSUME SplitInv, NEW c \in Caller, Astray(c)
  PROVE  SplitInv'
<1>1. /\ pc[c] = "loop" /\ Dangling(c) /\ pc' = [pc EXCEPT ![c] = "astray"]
      /\ UNCHANGED <<passed, t1, tmp, argv, owner, saved, mixed>>
  BY DEF Astray
<1>2. AreArrays /\ CallerInv(c) /\ Running(c)
  BY <1>1 DEF SplitInv, Running
<1>3. c \in mixed
  <2>1. tmp[c] = "NULL" /\ owner # c
    BY <1>1 DEF Dangling
  <2>. QED
    BY <1>2, <2>1 DEF CallerInv, Alone
<1>4. AreArrays'
  BY <1>1, <1>2 DEF AreArrays
<1>5. CallerInv(c)'
  <2>1. pc'[c] = "astray" /\ c \in mixed' /\ passed'[c] = passed[c]
    BY <1>1, <1>2, <1>3 DEF AreArrays
  <2>. QED
    BY <1>2, <2>1 DEF CallerInv
<1>6. ASSUME NEW d \in Caller, d # c PROVE CallerInv(d)'
  <2>1. /\ CallerInv(d) /\ pc'[d] = pc[d] /\ passed'[d] = passed[d]
        /\ tmp'[d] = tmp[d] /\ argv'[d] = argv[d]
    BY <1>1, <1>2, <1>6 DEF SplitInv, AreArrays
  <2>2. Running(d) => d \in mixed'
    BY <1>1, <1>2, <1>6, OthersAreMixed
  <2>. QED
    BY <1>1, <2>1, <2>2, OthersKeep
<1>. QED
  BY <1>4, <1>5, <1>6 DEF SplitInv

LEMMA FreeArrayKeeps ==
  ASSUME SplitInv, NEW c \in Caller, FreeArray(c)
  PROVE  SplitInv'
<1>1. /\ pc[c] = "returned" /\ pc' = [pc EXCEPT ![c] = "idle"]
      /\ passed' = [passed EXCEPT ![c] = [url |-> <<>>, qesc |-> FALSE]]
      /\ tmp' = [tmp EXCEPT ![c] = "t1"] /\ argv' = [argv EXCEPT ![c] = <<>>]
      /\ mixed' = mixed \ {c} /\ t1' = t1 /\ owner' = owner /\ saved' = saved
  BY DEF FreeArray
<1>2. AreArrays
  BY DEF SplitInv
<1>3. AreArrays'
  BY <1>1, <1>2 DEF AreArrays
<1>4. CallerInv(c)'
  <2>1. /\ pc'[c] = "idle" /\ tmp'[c] = "t1" /\ argv'[c] = <<>>
        /\ passed'[c].url = <<>> /\ passed'[c].qesc = FALSE
    BY <1>1, <1>2 DEF AreArrays
  <2>. QED
    BY <2>1, EmptySeq DEF CallerInv, IsText, Running
<1>5. ASSUME NEW d \in Caller, d # c PROVE CallerInv(d)'
  <2>1. /\ CallerInv(d) /\ pc'[d] = pc[d] /\ passed'[d] = passed[d] /\ t1'[d] = t1[d]
        /\ tmp'[d] = tmp[d] /\ argv'[d] = argv[d] /\ (d \in mixed => d \in mixed')
    BY <1>1, <1>2, <1>5 DEF SplitInv, AreArrays
  <2>2. CASE Running(d) => d \in mixed'
    BY <2>1, <2>2, OthersKeep
  <2>3. CASE Running(d) /\ d \notin mixed'
    <3>1. Alone(d)
      BY <2>1, <2>3 DEF CallerInv
    <3>2. \A e \in Caller : Running(e)' => Running(e)
      BY <1>1, <1>2 DEF Running, AreArrays
    <3>3. WholeOf(d)' = WholeOf(d) /\ CutOf(d)' = CutOf(d) /\ From(d)' = From(d)
      BY <1>1, <2>1, Zenon DEF WholeOf, CutOf, From
    <3>4. Going(WholeOf(d), CutOf(d), t1[d], tmp[d], From(d), argv[d])'
      BY <2>1, <3>1, <3>3 DEF Alone
    <3>5. Alone(d)'
      BY <1>1, <2>1, <3>1, <3>2, <3>4 DEF Alone
    <3>. QED
      BY <2>1, <3>1, <3>5 DEF CallerInv, Alone
  <2>. QED
    BY <2>2, <2>3
<1>. QED
  BY <1>3, <1>4, <1>5 DEF SplitInv

LEMMA SplitStep == SplitInv /\ [SplitNext]_splitVars => SplitInv'
<1>1. ASSUME SplitInv, UNCHANGED splitVars PROVE SplitInv'
  <2>1. AreArrays' <=> AreArrays
    BY <1>1 DEF splitVars, AreArrays
  <2>2. ASSUME NEW c \in Caller PROVE CallerInv(c)' <=> CallerInv(c)
    BY <1>1, Zenon DEF splitVars, CallerInv, IsText, Running, Right, Alone, WholeOf, CutOf, From
  <2>. QED
    BY <1>1, <2>1, <2>2 DEF SplitInv
<1>. QED
  BY <1>1, CallKeeps, RoundKeeps, AstrayKeeps, FreeArrayKeeps DEF SplitNext

\* A call that overlaps no other returns the parts between the separators,
\* unescaped and without an old signature, whatever calls ran before it: what
\* strtok finds in the text it has cut is what is in the text.
THEOREM SplitIsRight == SplitSpec => []SplitsAtSeparators
<1>1. SplitInv => SplitsAtSeparators
  BY DEF SplitInv, CallerInv, SplitsAtSeparators
<1>. QED
  BY SplitStarts, SplitStep, <1>1, PTL DEF SplitSpec

-----------------------------------------------------------------------------
(* The text of a request.                                                  *)

Whole == Plus(Url, ~form.post)
Cut == CHOOSE k : IsCut(k, Whole, Separator)

LEMMA TextIs ==
  ASSUME form \in Form, query \in Seq(Symbol)
  PROVE  /\ Whole \in Seq(Symbol) /\ IsCut(Cut, Whole, Separator)
         /\ SplitParameters(Url, ~form.post) = Params(WithContent(Cut[Len(Whole)]))
<1>1. form.base \in Seq(Symbol)
  BY FormAssumption
<1>2. <<"?">> \in Seq(Symbol)
  <2>1. \A c \in Symbol : <<c>> \in Seq(Symbol)
    OBVIOUS
  <2>. QED
    BY <2>1, InAscii, Zenon
<1>3. Url \in Seq(Symbol)
  <2> DEFINE q == <<"?">>
  <2> HIDE DEF q
  <2>1. form.base \o query \in Seq(Symbol) /\ form.base \o q \in Seq(Symbol)
    BY <1>1, <1>2, ConcatProperties DEF q
  <2>2. (form.base \o q) \o query \in Seq(Symbol)
    BY <2>1, ConcatProperties
  <2>. QED
    BY <2>1, <2>2 DEF Url, q
<1> DEFINE u == Url
           p == ~form.post
           w == Whole
           cut == Cut
<1>4. u \in Seq(Symbol) /\ p \in BOOLEAN /\ w = Plus(u, p) /\ cut = CHOOSE k : IsCut(k, w, Separator)
  BY <1>3, Zenon DEF Whole, Cut
<1> HIDE DEF u, p, w, cut
<1>5. /\ w \in Seq(Symbol) /\ IsCut(cut, w, Separator)
      /\ SplitParameters(u, p) = Params(WithContent(cut[Len(w)]))
  BY <1>4, SplitIs
<1>. QED
  BY <1>5 DEF u, p, w, cut

-----------------------------------------------------------------------------
(* The bytes that are encoded and hashed.                                  *)

LEMMA ByteIsOctet == \A c \in DOMAIN Byte : Byte[c] \in Octet
  BY DEF Byte, Octet, Characters, Escapes, EscapedEquals, EscapedSpaces, EscapedUrl, Separators

\* In every form of request whose queries are made of the characters that
\* stand for bytes, what oauth_body_hash_file and oauth_body_hash_data send is
\* the hash of the whole body, and base 64 loses nothing of it.
THEOREM BodiesAreHashed ==
  ASSUME \A f \in Form : f.symbols \subseteq DOMAIN Byte
  PROVE  Spec => []BodyHashes
<1> DEFINE Grown == form \in Form /\ query \in Seq(form.symbols)
<1>1. Init => Grown
  BY EmptySeq DEF Init
<1>2. Grown /\ [Extend]_<<form, query>> => Grown'
  <2> SUFFICES ASSUME Grown, [Extend]_<<form, query>> PROVE Grown'
    OBVIOUS
  <2>1. CASE Extend
    <3>1. PICK c \in form.symbols : query' = Append(query, c)
      BY <2>1 DEF Extend
    <3>. QED
      BY <2>1, <3>1, AppendProperties DEF Extend
  <2>2. CASE UNCHANGED <<form, query>>
    BY <2>2
  <2>. QED
    BY <2>1, <2>2
<1>3. Grown => BodyHashes
  <2> SUFFICES ASSUME Grown PROVE RoundTrips(bytes) /\ HashesAll(bytes)
    BY DEF BodyHashes
  <2> DEFINE n == Len(query)
  <2>1. n \in Nat /\ DOMAIN query = 1 .. n /\ \A i \in 1 .. n : query[i] \in DOMAIN Byte
    BY LenProperties, ElementOfSeq
  <2>2. bytes \in [1 .. n -> Octet]
    <3> HIDE DEF n
    <3>. QED
      BY <2>1, ByteIsOctet DEF bytes
  <2>3. bytes \in Seq(Octet)
    BY <2>1, <2>2, IsSeq
  <2>. QED
    BY <2>3, Base64RoundTrips, HashesEveryByte
<1>. QED
  BY <1>1, <1>2, <1>3, PTL DEF Spec

\* The forms that are checked are such forms.
LEMMA CheckedForms == \A f \in Forms : f.symbols \subseteq DOMAIN Byte
<1> SUFFICES ASSUME NEW f \in Forms PROVE f.symbols \subseteq Characters
  BY DEF Byte
<1>1. CASE f = Reply
  BY <1>1 DEF Reply
<1>2. CASE f # Reply
  <2>1. f.symbols \in {Escapes, EscapedEquals, EscapedUrl, EscapedSpaces, Separators}
    BY <1>2 DEF Forms
  <2>. QED
    BY <2>1 DEF Characters
<1>. QED
  BY <1>1, <1>2
=============================================================================
