----------------------------- MODULE TextProofs -----------------------------
(***************************************************************************)
(* A reply survives being split: what chunk_text promises of the messages, *)
(* for every text and every cap of at least four bytes.                    *)
(***************************************************************************)
EXTENDS Text, FiniteSetTheorems, SequenceTheorems, WellFoundedInduction, TLAPS

(***************************************************************************)
(* Induction and recursion over the numbers, with sets and functions in    *)
(* the place of formulas: that much the provers can instantiate.           *)
(***************************************************************************)

(***************************************************************************)
(* Every set of natural numbers that is not empty has a least element.     *)
(***************************************************************************)
LEMMA LeastNatural ==
    ASSUME NEW T \in SUBSET Nat, T # {}
    PROVE  \E n \in T : \A m \in T : n <= m
  <1> DEFINE R == OpToRel(<, Nat)
  <1>1. R = {ss \in Nat \X Nat : ss[1] < ss[2]}
    BY Zenon DEF OpToRel
  <1>2. IsWellFoundedOn(R, Nat)
    BY NatLessThanWellFounded
  <1> HIDE DEF R
  <1>3. PICK n \in T : \A m \in T : ~(<<m, n>> \in R)
    BY <1>2, WFMin
  <1>4. \A m \in T : n <= m
    <2> TAKE m \in T
    <2>1. <<m, n>> \notin R /\ m \in Nat /\ n \in Nat
      BY <1>3
    <2> QED BY <1>1, <2>1
  <1> QED BY <1>4

(***************************************************************************)
(* Induction, for the numbers of a set.                                    *)
(***************************************************************************)
LEMMA Induction ==
    ASSUME NEW T, 0 \in T, \A n \in Nat : n \in T => n + 1 \in T
    PROVE  \A n \in Nat : n \in T
  <1> SUFFICES ASSUME NEW k \in Nat, k \notin T PROVE FALSE
    OBVIOUS
  <1>1. PICK n \in Nat \ T : \A m \in Nat \ T : n <= m
    BY LeastNatural
  <1>2. n # 0 /\ n - 1 \in Nat /\ n - 1 < n
    BY <1>1
  <1>3. n - 1 \in T
    BY <1>1, <1>2
  <1> QED BY <1>1, <1>2, <1>3

Iterates(g, S, base, F) ==
    /\ g \in [Nat -> S]
    /\ g[0] = base
    /\ \A n \in Nat : g[n + 1] = F[n + 1][g[n]]

(***************************************************************************)
(* What a definition by recursion over the numbers needs: there is a       *)
(* function that begins with `base` and goes on as F says.                 *)
(***************************************************************************)
LEMMA Recursion ==
    ASSUME NEW S, NEW base \in S, NEW F \in [Nat -> [S -> S]]
    PROVE  \E g : Iterates(g, S, base, F)
  <1> DEFINE Ok(n, h) == /\ h \in [0..n -> S]
                         /\ h[0] = base
                         /\ \A i \in 1..n : h[i] = F[i][h[i - 1]]
             Has == {n \in Nat : \E h : Ok(n, h)}
  <1>1. \A n \in Nat : n \in Has
    <2>1. 0 \in Has
      <3>1. Ok(0, [i \in 0..0 |-> base])
        OBVIOUS
      <3> QED BY <3>1
    <2>2. ASSUME NEW n \in Nat, n \in Has PROVE n + 1 \in Has
      <3>1. PICK h : Ok(n, h)
        BY <2>2
      <3> DEFINE k == [i \in 0..(n + 1) |-> IF i <= n THEN h[i] ELSE F[n + 1][h[n]]]
      <3>2. h \in [0..n -> S] /\ h[0] = base /\ \A i \in 1..n : h[i] = F[i][h[i - 1]]
        BY <3>1
      <3>3. n \in 0..n /\ h[n] \in S
        BY <3>2
      <3>4. F[n + 1][h[n]] \in S
        BY <3>3
      <3>5. \A i \in 0..n : i \in 0..(n + 1) /\ k[i] = h[i]
        OBVIOUS
      <3>6. k[n + 1] = F[n + 1][h[n]]
        OBVIOUS
      <3>7. k \in [0..(n + 1) -> S]
        BY <3>2, <3>4
      <3> HIDE DEF k
      <3>8. k[0] = base
        BY <3>2, <3>5
      <3>9. \A i \in 1..(n + 1) : k[i] = F[i][k[i - 1]]
        <4> TAKE i \in 1..(n + 1)
        <4>1. i - 1 \in 0..n
          OBVIOUS
        <4>2. k[i - 1] = h[i - 1]
          BY <3>5, <4>1
        <4>3. CASE i \in 1..n
          <5>1. k[i] = h[i] /\ h[i] = F[i][h[i - 1]]
            BY <3>2, <3>5, <4>3
          <5> QED BY <4>2, <5>1
        <4>4. CASE i = n + 1
          <5>1. i - 1 = n
            BY <4>4
          <5> QED BY <3>6, <4>2, <4>4, <5>1
        <4> QED BY <4>3, <4>4
      <3>10. Ok(n + 1, k)
        BY <3>7, <3>8, <3>9
      <3> QED BY <3>10
    <2> HIDE DEF Has
    <2> QED BY <2>1, <2>2, Induction
  <1> DEFINE H == [n \in Nat |-> CHOOSE h : Ok(n, h)]
  <1>2. \A n \in Nat : Ok(n, H[n])
    <2> TAKE n \in Nat
    <2>1. PICK h : Ok(n, h)
      BY <1>1
    <2> HIDE DEF Ok
    <2> QED BY <2>1
  <1> HIDE DEF H
  <1>3. \A n \in Nat : /\ H[n] \in [0..n -> S]
                       /\ H[n][0] = base
                       /\ \A i \in 1..n : H[n][i] = F[i][H[n][i - 1]]
    BY <1>2
  <1> HIDE DEF Ok
  <1>4. ASSUME NEW n \in Nat PROVE \A i \in 0..n : H[n + 1][i] = H[n][i]
    <2> DEFINE Same == {i \in Nat : i <= n => H[n + 1][i] = H[n][i]}
    <2>1. 0 \in Same
      <3>1. H[n + 1][0] = base /\ H[n][0] = base
        BY <1>3
      <3> QED BY <3>1
    <2>2. ASSUME NEW i \in Nat, i \in Same PROVE i + 1 \in Same
      <3> SUFFICES ASSUME i + 1 <= n PROVE H[n + 1][i + 1] = H[n][i + 1]
        OBVIOUS
      <3>1. i + 1 \in 1..n /\ i + 1 \in 1..(n + 1) /\ (i + 1) - 1 = i /\ n + 1 \in Nat
        OBVIOUS
      <3>2. H[n + 1][i + 1] = F[i + 1][H[n + 1][i]] /\ H[n][i + 1] = F[i + 1][H[n][i]]
        BY <1>3, <3>1
      <3>3. H[n + 1][i] = H[n][i]
        BY <2>2, <3>1
      <3> QED BY <3>2, <3>3
    <2>3. \A i \in Nat : i \in Same
      <3> HIDE DEF Same
      <3> QED BY <2>1, <2>2, Induction
    <2> QED BY <2>3
  <1> DEFINE g == [n \in Nat |-> H[n][n]]
  <1>5. g \in [Nat -> S] /\ g[0] = base
    <2>1. \A n \in Nat : n \in 0..n /\ H[n][n] \in S
      BY <1>3
    <2>2. H[0][0] = base
      BY <1>3
    <2> QED BY <2>1, <2>2
  <1>6. ASSUME NEW n \in Nat PROVE g[n + 1] = F[n + 1][g[n]]
    <2>1. n + 1 \in Nat /\ n + 1 \in 1..(n + 1) /\ (n + 1) - 1 = n /\ n \in 0..n
      OBVIOUS
    <2>2. H[n + 1][n + 1] = F[n + 1][H[n + 1][n]]
      BY <1>3, <2>1
    <2>3. H[n + 1][n] = H[n][n]
      BY <1>4, <2>1
    <2> QED BY <2>1, <2>2, <2>3
  <1> HIDE DEF g
  <1>7. Iterates(g, S, base, F)
    BY <1>5, <1>6 DEF Iterates
  <1> QED BY <1>7

(***************************************************************************)
(* Induction up to a number.                                               *)
(***************************************************************************)
LEMMA UpTo ==
    ASSUME NEW n \in Nat, NEW T, 0 \in T, \A i \in 1..n : i - 1 \in T => i \in T
    PROVE  \A i \in 0..n : i \in T
  <1> DEFINE U == {i \in Nat : i <= n => i \in T}
  <1>1. 0 \in U
    OBVIOUS
  <1>2. ASSUME NEW i \in Nat, i \in U PROVE i + 1 \in U
    <2> SUFFICES ASSUME i + 1 <= n PROVE i + 1 \in T
      OBVIOUS
    <2>1. i + 1 \in 1..n /\ (i + 1) - 1 = i /\ i \in T
      BY <1>2
    <2> QED BY <2>1
  <1>3. \A i \in Nat : i \in U
    <2> HIDE DEF U
    <2> QED BY <1>1, <1>2, Induction
  <1> QED BY <1>3

(***************************************************************************)
(* Induction over the sequences that Append makes.                         *)
(***************************************************************************)
LEMMA ByAppending ==
    ASSUME NEW X, NEW T, <<>> \in T, \A s \in Seq(X) : \A x \in X : s \in T => Append(s, x) \in T
    PROVE  \A s \in Seq(X) : s \in T
  <1> DEFINE U == {n \in Nat : \A s \in Seq(X) : Len(s) = n => s \in T}
  <1>1. 0 \in U
    <2> SUFFICES ASSUME NEW s \in Seq(X), Len(s) = 0 PROVE s \in T
      OBVIOUS
    <2>1. s = <<>>
      BY EmptySeq
    <2> QED BY <2>1
  <1>2. ASSUME NEW n \in Nat, n \in U PROVE n + 1 \in U
    <2> SUFFICES ASSUME NEW s \in Seq(X), Len(s) = n + 1 PROVE s \in T
      OBVIOUS
    <2>1. s # <<>>
      OBVIOUS
    <2>2. PICK r \in Seq(X), x \in X : s = Append(r, x)
      BY <2>1, SequenceEmptyOrAppend
    <2>3. Len(r) = n
      BY <2>2, AppendProperties
    <2>4. r \in T
      BY <1>2, <2>3
    <2> QED BY <2>2, <2>4
  <1>3. \A n \in Nat : n \in U
    <2> HIDE DEF U
    <2> QED BY <1>1, <1>2, Induction
  <1>4. \A s \in Seq(X) : Len(s) \in Nat
    OBVIOUS
  <1> QED BY <1>3, <1>4

(***************************************************************************)
(* A loop: it begins with `base`, and its i-th round is F[i].              *)
(***************************************************************************)
Loops(g, S, n, base, F) ==
    /\ g \in [0..n -> S]
    /\ g[0] = base
    /\ \A i \in 1..n : g[i] = F[i][g[i - 1]]

\* A definition by recursion up to n describes a loop.
LEMMA Loop ==
    ASSUME NEW S, NEW n \in Nat, NEW base \in S, NEW F \in [1..n -> [S -> S]]
    PROVE  \E g : Loops(g, S, n, base, F)
  <1> DEFINE G == [i \in Nat |-> IF i \in 1..n THEN F[i] ELSE [s \in S |-> s]]
  <1>1. G \in [Nat -> [S -> S]]
    OBVIOUS
  <1>2. \A i \in 1..n : G[i] = F[i]
    OBVIOUS
  <1> HIDE DEF G
  <1>3. PICK g : Iterates(g, S, base, G)
    BY <1>1, Recursion
  <1>4. /\ g \in [Nat -> S]
        /\ g[0] = base /\ \A i \in Nat : g[i + 1] = G[i + 1][g[i]]
    BY <1>3 DEF Iterates
  <1> DEFINE h == [i \in 0..n |-> g[i]]
  <1>5. h \in [0..n -> S] /\ h[0] = base /\ \A i \in 0..n : h[i] = g[i]
    BY <1>4
  <1> HIDE DEF h
  <1>6. ASSUME NEW i \in 1..n PROVE h[i] = F[i][h[i - 1]]
    <2>1. i - 1 \in Nat /\ (i - 1) + 1 = i /\ i \in 0..n /\ i - 1 \in 0..n
      OBVIOUS
    <2>2. g[i] = G[i][g[i - 1]]
      BY <1>4, <2>1
    <2> QED BY <1>2, <1>5, <2>1, <2>2
  <1>7. Loops(h, S, n, base, F)
    BY <1>5, <1>6 DEF Loops
  <1> QED BY <1>7

(***************************************************************************)
(* Whatever satisfies the equations of a loop is that loop.                *)
(***************************************************************************)
LEMMA LoopTyped ==
    ASSUME NEW S, NEW n \in Nat, NEW base \in S, NEW F \in [1..n -> [S -> S]], NEW f,
           DOMAIN f = 0..n, f = [i \in DOMAIN f |-> f[i]], f[0] = base,
           \A i \in 1..n : f[i - 1] \in S => f[i] = F[i][f[i - 1]]
    PROVE  Loops(f, S, n, base, F)
  <1> DEFINE T == {i \in 0..n : f[i] \in S}
  <1>1. 0 \in T
    OBVIOUS
  <1>2. ASSUME NEW i \in 1..n, i - 1 \in T PROVE i \in T
    <2>1. f[i] = F[i][f[i - 1]] /\ f[i - 1] \in S
      BY <1>2
    <2> QED BY <2>1
  <1>3. \A i \in 0..n : i \in T
    <2> HIDE DEF T
    <2> QED BY <1>1, <1>2, UpTo
  <1>4. f \in [0..n -> S]
    BY <1>3
  <1>5. \A i \in 1..n : f[i] = F[i][f[i - 1]]
    <2> TAKE i \in 1..n
    <2>1. i - 1 \in 0..n
      OBVIOUS
    <2> QED BY <1>4, <2>1
  <1> QED BY <1>4, <1>5 DEF Loops
-----------------------------------------------------------------------------
(***************************************************************************)
(* Sums.                                                                   *)
(***************************************************************************)

\* What Sums is, for numbers.
LEMMA SumsDef ==
    ASSUME NEW f \in Seq(Nat)
    PROVE  /\ Sums(f) \in [0..Len(f) -> Nat]
           /\ Sums(f)[0] = 0
           /\ \A i \in 1..Len(f) : Sums(f)[i] = Sums(f)[i - 1] + f[i]
  <1> DEFINE n == Len(f)
             F == [i \in 1..n |-> [s \in Nat |-> s + f[i]]]
             a == Sums(f)
  <1>1. n \in Nat /\ \A i \in 1..n : f[i] \in Nat
    OBVIOUS
  <1>2. F \in [1..n -> [Nat -> Nat]]
    BY <1>1
  <1>3. \A i \in 1..n : \A s \in Nat : F[i][s] = s + f[i]
    OBVIOUS
  <1>4. a = CHOOSE g : g = [i \in 0..n |-> IF i = 0 THEN 0 ELSE g[i - 1] + f[i]]
    BY DEF Sums
  <1> HIDE DEF F, a, n
  <1>5. PICK g : Loops(g, Nat, n, 0, F)
    BY <1>1, <1>2, Loop
  <1>6. g \in [0..n -> Nat] /\ g[0] = 0 /\ \A i \in 1..n : g[i] = F[i][g[i - 1]]
    BY <1>5 DEF Loops
  <1>7. \A i \in 1..n : g[i] = g[i - 1] + f[i]
    <2> TAKE i \in 1..n
    <2>1. i - 1 \in 0..n
      BY <1>1
    <2> QED BY <1>3, <1>6, <2>1
  <1>8. g = [i \in 0..n |-> IF i = 0 THEN 0 ELSE g[i - 1] + f[i]]
    BY <1>1, <1>6, <1>7
  <1>9. a = [i \in 0..n |-> IF i = 0 THEN 0 ELSE a[i - 1] + f[i]]
    BY <1>4, <1>8, Zenon
  <1>10. a[0] = 0 /\ \A i \in 1..n : a[i] = a[i - 1] + f[i]
    BY <1>1, <1>9
  <1>11. Loops(a, Nat, n, 0, F)
    <2>1. DOMAIN a = 0..n /\ a = [i \in DOMAIN a |-> a[i]]
      BY <1>9
    <2>2. \A i \in 1..n : a[i - 1] \in Nat => a[i] = F[i][a[i - 1]]
      BY <1>3, <1>10
    <2> QED BY <1>1, <1>2, <1>10, <2>1, <2>2, LoopTyped
  <1> QED BY <1>10, <1>11 DEF Loops, a, n

Total(f) == Sums(f)[Len(f)]

\* A total is a number; that of no numbers is zero, and one more number adds to it.
LEMMA TotalAppend ==
    /\ Total(<<>>) = 0
    /\ \A f \in Seq(Nat) : Total(f) \in Nat
    /\ \A f \in Seq(Nat) : \A x \in Nat : Total(Append(f, x)) = Total(f) + x
  <1>1. Total(<<>>) = 0
    <2>1. <<>> \in Seq(Nat) /\ Len(<<>>) = 0
      OBVIOUS
    <2>2. Sums(<<>>)[0] = 0
      BY <2>1, SumsDef
    <2> QED BY <2>1, <2>2 DEF Total
  <1>2. ASSUME NEW f \in Seq(Nat) PROVE Total(f) \in Nat
    <2>1. Len(f) \in 0..Len(f)
      OBVIOUS
    <2>2. Sums(f) \in [0..Len(f) -> Nat]
      BY SumsDef
    <2> QED BY <2>1, <2>2 DEF Total
  <1>3. ASSUME NEW f \in Seq(Nat), NEW x \in Nat PROVE Total(Append(f, x)) = Total(f) + x
    <2> DEFINE g == Append(f, x)
               a == Sums(f)
               b == Sums(g)
               n == Len(f)
    <2>1. n \in Nat /\ g \in Seq(Nat) /\ Len(g) = n + 1 /\ g[n + 1] = x
          /\ \A i \in 1..n : g[i] = f[i]
      BY AppendProperties
    <2>2. a[0] = 0 /\ \A i \in 1..n : a[i] = a[i - 1] + f[i]
      BY SumsDef
    <2> HIDE DEF g
    <2>3. b[0] = 0 /\ \A i \in 1..(n + 1) : b[i] = b[i - 1] + g[i]
      BY <2>1, SumsDef
    <2> HIDE DEF a, b, n
    <2> DEFINE T == {i \in 0..n : a[i] = b[i]}
    <2>4. 0 \in T
      BY <2>1, <2>2, <2>3
    <2>5. ASSUME NEW i \in 1..n, i - 1 \in T PROVE i \in T
      <3>1. a[i] = a[i - 1] + f[i] /\ b[i] = b[i - 1] + g[i] /\ g[i] = f[i]
        <4>1. i \in 1..(n + 1)
          BY <2>1
        <4> QED BY <2>1, <2>2, <2>3, <4>1
      <3>2. i \in 0..n /\ a[i - 1] = b[i - 1]
        BY <2>1, <2>5
      <3>3. a[i] = b[i]
        BY <3>1, <3>2
      <3> QED BY <3>2, <3>3
    <2>6. \A i \in 0..n : i \in T
      <3> HIDE DEF T
      <3> QED BY <2>1, <2>4, <2>5, UpTo
    <2>7. a[n] = b[n]
      BY <2>1, <2>6
    <2>8. n + 1 \in 1..(n + 1) /\ (n + 1) - 1 = n
      BY <2>1
    <2>9. b[n + 1] = b[n] + x
      BY <2>1, <2>3, <2>8
    <2> QED BY <2>1, <2>7, <2>9 DEF Total, a, b, n, g
  <1> QED BY <1>1, <1>2, <1>3

\* The total of two sequences one after the other is the sum of their totals.
LEMMA TotalConcat ==
    ASSUME NEW f \in Seq(Nat), NEW g \in Seq(Nat)
    PROVE  Total(f \o g) = Total(f) + Total(g)
  <1> DEFINE T == {h \in Seq(Nat) : Total(f \o h) = Total(f) + Total(h)}
  <1>1. <<>> \in T
    <2>1. f \o <<>> = f /\ <<>> \in Seq(Nat)
      OBVIOUS
    <2>2. Total(f) \in Nat /\ Total(<<>>) = 0
      BY TotalAppend
    <2> QED BY <2>1, <2>2
  <1>2. ASSUME NEW h \in Seq(Nat), NEW x \in Nat, h \in T PROVE Append(h, x) \in T
    <2>1. f \o Append(h, x) = Append(f \o h, x) /\ f \o h \in Seq(Nat)
          /\ Append(h, x) \in Seq(Nat)
      OBVIOUS
    <2>2. Total(Append(f \o h, x)) = Total(f \o h) + x
      BY <2>1, TotalAppend
    <2>3. Total(Append(h, x)) = Total(h) + x
      BY TotalAppend
    <2>4. Total(f) \in Nat /\ Total(h) \in Nat
      BY TotalAppend
    <2>5. Total(f \o h) = Total(f) + Total(h)
      BY <1>2
    <2>6. Total(f \o Append(h, x)) = Total(f) + Total(Append(h, x))
      BY <2>1, <2>2, <2>3, <2>4, <2>5
    <2> QED BY <2>1, <2>6
  <1>3. \A h \in Seq(Nat) : h \in T
    <2> HIDE DEF T
    <2> QED BY <1>1, <1>2, ByAppending
  <1> QED BY <1>3

\* Every character has at least one byte.
LEMMA SumsGrow ==
    ASSUME NEW f \in Seq(1..4)
    PROVE  /\ f \in Seq(Nat)
           /\ \A i \in 0..Len(f) : \A j \in i..Len(f) : Sums(f)[i] + (j - i) <= Sums(f)[j]
  <1> DEFINE a == Sums(f)
             n == Len(f)
  <1>1. f \in Seq(Nat) /\ n \in Nat /\ \A i \in 1..n : f[i] \in 1..4
    <2>1. f \in Seq(Nat)
      BY SeqMonotonic, 1..4 \subseteq Nat
    <2> QED BY <2>1
  <1>2. a \in [0..n -> Nat] /\ a[0] = 0 /\ \A i \in 1..n : a[i] = a[i - 1] + f[i]
    BY <1>1, SumsDef
  <1> HIDE DEF a, n
  <1>3. ASSUME NEW i \in 0..n PROVE \A j \in i..n : a[i] + (j - i) <= a[j]
    <2> DEFINE T == {j \in 0..n : i <= j => a[i] + (j - i) <= a[j]}
    <2>1. 0 \in T
      BY <1>1, <1>2
    <2>2. ASSUME NEW j \in 1..n, j - 1 \in T PROVE j \in T
      <3> SUFFICES ASSUME i <= j PROVE a[i] + (j - i) <= a[j]
        BY <1>1
      <3>1. a[j] = a[j - 1] + f[j] /\ f[j] \in 1..4 /\ j - 1 \in 0..n
        BY <1>1, <1>2
      <3>2. a[j] \in Nat /\ a[j - 1] \in Nat /\ a[i] \in Nat
        BY <1>1, <1>2, <3>1
      <3>3. CASE i = j
        BY <1>1, <3>2, <3>3
      <3>4. CASE i <= j - 1
        <4>1. a[i] + ((j - 1) - i) <= a[j - 1]
          BY <2>2, <3>4
        <4>2. i \in Int /\ j \in Int /\ f[j] \in Int /\ f[j] >= 1
          BY <1>1, <3>1
        <4>3. a[j] = a[j - 1] + f[j]
          BY <3>1
        <4> QED BY <3>2, <4>1, <4>2, <4>3, SMTT(30)
      <3> QED BY <1>1, <3>3, <3>4
    <2>3. \A j \in 0..n : j \in T
      <3> HIDE DEF T
      <3> QED BY <1>1, <2>1, <2>2, UpTo
    <2> QED BY <1>1, <2>3
  <1> QED BY <1>1, <1>3 DEF a, n
-----------------------------------------------------------------------------
(***************************************************************************)
(* Sequences put end to end.                                               *)
(***************************************************************************)

\* What FlattenSeq computes on the way.
Joined(seqs) ==
    CHOOSE flatten : flatten = [i \in 1..Len(seqs) |->
        IF i = 1 THEN seqs[i] ELSE flatten[i - 1] \o seqs[i]]

\* It is a loop over the sequences.
LEMMA JoinedDef ==
    ASSUME NEW X, NEW s \in Seq(Seq(X))
    PROVE  /\ Joined(s) \in [1..Len(s) -> Seq(X)]
           /\ s # <<>> => Joined(s)[1] = s[1]
           /\ \A i \in 2..Len(s) : Joined(s)[i] = Joined(s)[i - 1] \o s[i]
  <1> DEFINE n == Len(s)
             F == [i \in 1..n |-> [r \in Seq(X) |-> IF i = 1 THEN s[i] ELSE r \o s[i]]]
             a == Joined(s)
  <1>1. n \in Nat /\ (s # <<>> <=> n # 0) /\ \A i \in 1..n : s[i] \in Seq(X)
    OBVIOUS
  <1>2. F \in [1..n -> [Seq(X) -> Seq(X)]]
    BY <1>1
  <1>3. \A i \in 1..n : \A r \in Seq(X) : F[i][r] = IF i = 1 THEN s[i] ELSE r \o s[i]
    OBVIOUS
  <1>4. a = CHOOSE g : g = [i \in 1..n |-> IF i = 1 THEN s[i] ELSE g[i - 1] \o s[i]]
    BY DEF Joined
  <1>5. <<>> \in Seq(X)
    OBVIOUS
  <1> HIDE DEF F, a, n
  <1>6. PICK g : Loops(g, Seq(X), n, <<>>, F)
    BY <1>1, <1>2, <1>5, Loop
  <1>7. g \in [0..n -> Seq(X)] /\ g[0] = <<>> /\ \A i \in 1..n : g[i] = F[i][g[i - 1]]
    BY <1>6 DEF Loops
  <1> DEFINE h == [i \in 1..n |-> g[i]]
  <1>8. h = [i \in 1..n |-> IF i = 1 THEN s[i] ELSE h[i - 1] \o s[i]]
    <2> SUFFICES ASSUME NEW i \in 1..n
                 PROVE  g[i] = IF i = 1 THEN s[i] ELSE h[i - 1] \o s[i]
      BY Zenon
    <2>1. i - 1 \in 0..n
      BY <1>1
    <2>2. g[i] = IF i = 1 THEN s[i] ELSE g[i - 1] \o s[i]
      BY <1>3, <1>7, <2>1
    <2>3. i # 1 => i - 1 \in 1..n
      BY <1>1
    <2> QED BY <2>2, <2>3
  <1> HIDE DEF h
  <1>9. a = [i \in 1..n |-> IF i = 1 THEN s[i] ELSE a[i - 1] \o s[i]]
    BY <1>4, <1>8, Zenon
  <1>10. ASSUME NEW i \in 1..n PROVE a[i] = IF i = 1 THEN s[i] ELSE a[i - 1] \o s[i]
    BY <1>9, Zenon
  <1> DEFINE T == {i \in 0..n : i # 0 => a[i] \in Seq(X)}
  <1>11. 0 \in T
    BY <1>1
  <1>12. ASSUME NEW i \in 1..n, i - 1 \in T PROVE i \in T
    <2>1. i \in 0..n /\ s[i] \in Seq(X)
      BY <1>1
    <2>2. i # 1 => a[i - 1] \in Seq(X)
      BY <1>12
    <2>3. a[i] = IF i = 1 THEN s[i] ELSE a[i - 1] \o s[i]
      BY <1>10
    <2>4. a[i] \in Seq(X)
      BY <2>1, <2>2, <2>3
    <2> QED BY <2>1, <2>4
  <1>13. \A i \in 0..n : i \in T
    <2> HIDE DEF T
    <2> QED BY <1>1, <1>11, <1>12, UpTo
  <1>14. a \in [1..n -> Seq(X)]
    <2>1. \A i \in 1..n : a[i] \in Seq(X)
      BY <1>1, <1>13
    <2> QED BY <1>9, <2>1
  <1>15. s # <<>> => a[1] = s[1]
    <2> SUFFICES ASSUME s # <<>> PROVE a[1] = s[1]
      OBVIOUS
    <2>1. 1 \in 1..n
      BY <1>1
    <2> QED BY <1>10, <2>1
  <1>16. \A i \in 2..n : a[i] = a[i - 1] \o s[i]
    <2> TAKE i \in 2..n
    <2>1. i \in 1..n /\ i # 1
      BY <1>1
    <2> QED BY <1>10, <2>1
  <1> QED BY <1>14, <1>15, <1>16 DEF a, n

\* FlattenSeq on what Append and \o make.
LEMMA FlattenAppend ==
    ASSUME NEW X
    PROVE  /\ FlattenSeq(<<>>) = <<>>
           /\ \A s \in Seq(Seq(X)) : FlattenSeq(s) \in Seq(X)
           /\ \A s \in Seq(Seq(X)) : \A x \in Seq(X) :
                  FlattenSeq(Append(s, x)) = FlattenSeq(s) \o x
  <1>1. FlattenSeq(<<>>) = <<>>
    BY DEF FlattenSeq
  <1>2. ASSUME NEW s \in Seq(Seq(X)), s # <<>> PROVE FlattenSeq(s) = Joined(s)[Len(s)]
    <2>1. Len(s) # 0
      BY <1>2
    <2> QED BY <2>1 DEF FlattenSeq, Joined
  <1>3. ASSUME NEW s \in Seq(Seq(X)) PROVE FlattenSeq(s) \in Seq(X)
    <2>1. CASE s = <<>>
      <3>1. <<>> \in Seq(X)
        OBVIOUS
      <3> QED BY <1>1, <2>1, <3>1
    <2>2. CASE s # <<>>
      <3>1. Len(s) \in 1..Len(s)
        BY <2>2
      <3>2. Joined(s)[Len(s)] \in Seq(X)
        BY <3>1, JoinedDef
      <3> QED BY <1>2, <2>2, <3>2
    <2> QED BY <2>1, <2>2
  <1>4. ASSUME NEW s \in Seq(Seq(X)), NEW x \in Seq(X)
        PROVE  FlattenSeq(Append(s, x)) = FlattenSeq(s) \o x
    <2> DEFINE t == Append(s, x)
               a == Joined(s)
               b == Joined(t)
               n == Len(s)
    <2>1. n \in Nat /\ t \in Seq(Seq(X)) /\ t # <<>> /\ Len(t) = n + 1 /\ t[n + 1] = x
          /\ \A i \in 1..n : t[i] = s[i]
      BY AppendProperties
    <2>2. /\ s # <<>> => a[1] = s[1]
          /\ \A i \in 2..n : a[i] = a[i - 1] \o s[i]
      BY JoinedDef
    <2>3. FlattenSeq(t) = b[n + 1]
      BY <1>2, <2>1
    <2> HIDE DEF t
    <2>4. b[1] = t[1] /\ \A i \in 2..(n + 1) : b[i] = b[i - 1] \o t[i]
      BY <2>1, JoinedDef
    <2> HIDE DEF a, b
    <2>5. CASE s = <<>>
      <3>1. n = 0
        BY <2>5
      <3>2. b[n + 1] = x
        BY <2>1, <2>4, <3>1
      <3>3. FlattenSeq(s) \o x = x
        BY <1>1, <2>5
      <3> QED BY <2>3, <3>2, <3>3 DEF t
    <2>6. CASE s # <<>>
      <3>1. n # 0
        BY <2>6
      <3> HIDE DEF n
      <3> DEFINE T == {i \in 0..n : i # 0 => a[i] = b[i]}
      <3>2. 0 \in T
        BY <2>1
      <3>3. ASSUME NEW i \in 1..n, i - 1 \in T PROVE i \in T
        <4>1. i \in 0..n /\ t[i] = s[i]
          BY <2>1
        <4>2. CASE i = 1
          BY <2>2, <2>4, <2>6, <4>1, <4>2
        <4>3. CASE i # 1
          <5>1. i \in 2..n /\ i \in 2..(n + 1) /\ i - 1 # 0
            BY <2>1, <4>3
          <5>2. a[i] = a[i - 1] \o s[i] /\ b[i] = b[i - 1] \o t[i]
            BY <2>2, <2>4, <5>1
          <5>3. a[i - 1] = b[i - 1]
            BY <3>3, <5>1
          <5> QED BY <4>1, <5>2, <5>3
        <4> QED BY <4>2, <4>3
      <3>4. \A i \in 0..n : i \in T
        <4> HIDE DEF T
        <4> QED BY <2>1, <3>2, <3>3, UpTo
      <3>5. a[n] = b[n]
        BY <2>1, <3>1, <3>4
      <3>6. n + 1 \in 2..(n + 1) /\ (n + 1) - 1 = n
        BY <2>1, <3>1
      <3>7. b[n + 1] = b[n] \o x
        BY <2>1, <2>4, <3>6
      <3>8. FlattenSeq(s) = a[n]
        BY <1>2, <2>6 DEF a, n
      <3> QED BY <2>3, <3>5, <3>7, <3>8 DEF t
    <2> QED BY <2>5, <2>6
  <1> QED BY <1>1, <1>3, <1>4

\* The same for two sequences of sequences.
LEMMA FlattenConcat ==
    ASSUME NEW X, NEW s \in Seq(Seq(X)), NEW t \in Seq(Seq(X))
    PROVE  FlattenSeq(s \o t) = FlattenSeq(s) \o FlattenSeq(t)
  <1> DEFINE T == {u \in Seq(Seq(X)) : FlattenSeq(s \o u) = FlattenSeq(s) \o FlattenSeq(u)}
  <1>1. <<>> \in T
    <2>1. s \o <<>> = s /\ <<>> \in Seq(Seq(X))
      OBVIOUS
    <2>2. FlattenSeq(s) \in Seq(X) /\ FlattenSeq(<<>>) = <<>>
      BY FlattenAppend
    <2>3. FlattenSeq(s) \o <<>> = FlattenSeq(s)
      BY <2>2, ConcatEmptySeq
    <2> QED BY <2>1, <2>2, <2>3
  <1>2. ASSUME NEW u \in Seq(Seq(X)), NEW x \in Seq(X), u \in T PROVE Append(u, x) \in T
    <2>1. s \o Append(u, x) = Append(s \o u, x) /\ s \o u \in Seq(Seq(X))
          /\ Append(u, x) \in Seq(Seq(X))
      OBVIOUS
    <2>2. FlattenSeq(Append(s \o u, x)) = FlattenSeq(s \o u) \o x
      BY <2>1, FlattenAppend
    <2>3. FlattenSeq(Append(u, x)) = FlattenSeq(u) \o x
      BY FlattenAppend
    <2>4. FlattenSeq(s) \in Seq(X) /\ FlattenSeq(u) \in Seq(X)
      BY FlattenAppend
    <2>5. FlattenSeq(s \o u) = FlattenSeq(s) \o FlattenSeq(u)
      BY <1>2
    <2>6. (FlattenSeq(s) \o FlattenSeq(u)) \o x = FlattenSeq(s) \o (FlattenSeq(u) \o x)
      <3> DEFINE a == FlattenSeq(s)
                 b == FlattenSeq(u)
      <3>1. a \in Seq(X) /\ b \in Seq(X)
        BY <2>4
      <3> HIDE DEF a, b
      <3>2. (a \o b) \o x = a \o (b \o x)
        BY <3>1, ConcatAssociative, SMTT(30)
      <3> QED BY <3>2 DEF a, b
    <2>7. FlattenSeq(s \o Append(u, x)) = FlattenSeq(s) \o FlattenSeq(Append(u, x))
      BY <2>1, <2>2, <2>3, <2>5, <2>6, Zenon
    <2> QED BY <2>1, <2>7
  <1>3. \A u \in Seq(Seq(X)) : u \in T
    <2> HIDE DEF T
    <2> QED BY <1>1, <1>2, ByAppending
  <1> QED BY <1>3

\* One sequence alone is itself.
LEMMA FlattenOne ==
    ASSUME NEW X, NEW x \in Seq(X)
    PROVE  FlattenSeq(<<x>>) = x
  <1>1. <<x>> = Append(<<>>, x) /\ <<>> \in Seq(Seq(X))
    OBVIOUS
  <1>2. FlattenSeq(Append(<<>>, x)) = FlattenSeq(<<>>) \o x
    BY <1>1, FlattenAppend
  <1>3. FlattenSeq(<<>>) = <<>>
    BY FlattenAppend
  <1>4. <<>> \o x = x
    BY ConcatEmptySeq
  <1> QED BY <1>1, <1>2, <1>3, <1>4

Maps(f, S, R) == f \in [S -> R]
Image(f, s) == [i \in DOMAIN s |-> f[s[i]]]
IsImage(g, f, s, R) ==
    /\ g \in Seq(R)
    /\ Len(g) = Len(s)
    /\ \A i \in 1..Len(s) : g[i] = f[s[i]]

\* A function applied to each element of a sequence.
LEMMA ImageSeq ==
    ASSUME NEW S, NEW R, NEW f, Maps(f, S, R), NEW s \in Seq(S)
    PROVE  IsImage(Image(f, s), f, s, R)
  <1>1. DOMAIN s = 1..Len(s) /\ Len(s) \in Nat /\ \A i \in 1..Len(s) : s[i] \in S
    OBVIOUS
  <1>2. \A i \in 1..Len(s) : f[s[i]] \in R
    BY <1>1 DEF Maps
  <1> QED BY <1>1, <1>2 DEF Image, IsImage

ImageSplits(f, s, t) == Image(f, s \o t) = Image(f, s) \o Image(f, t)

\* It goes through \o.
LEMMA ImageConcat ==
    ASSUME NEW S, NEW R, NEW f, Maps(f, S, R), NEW s \in Seq(S), NEW t \in Seq(S)
    PROVE  ImageSplits(f, s, t)
  <1> DEFINE u == s \o t
             v == Image(f, s)
             w == Image(f, t)
             x == Image(f, u)
             z == v \o w
             n == Len(s)
             m == Len(t)
  <1>1. /\ n \in Nat /\ m \in Nat /\ u \in Seq(S) /\ Len(u) = n + m
        /\ \A i \in 1..(n + m) : u[i] = IF i <= n THEN s[i] ELSE t[i - n]
    BY ConcatProperties
  <1> HIDE DEF u
  <1>2. IsImage(v, f, s, R) /\ IsImage(w, f, t, R) /\ IsImage(x, f, u, R)
    BY <1>1, ImageSeq
  <1> HIDE DEF v, w, x
  <1>3. v \in Seq(R) /\ Len(v) = n /\ \A i \in 1..n : v[i] = f[s[i]]
    BY <1>2 DEF IsImage
  <1>4. w \in Seq(R) /\ Len(w) = m /\ \A i \in 1..m : w[i] = f[t[i]]
    BY <1>2 DEF IsImage
  <1>5. x \in Seq(R) /\ Len(x) = n + m /\ \A i \in 1..(n + m) : x[i] = f[u[i]]
    BY <1>1, <1>2 DEF IsImage
  <1> HIDE DEF n, m
  <1>6. /\ z \in Seq(R) /\ Len(z) = n + m
        /\ \A i \in 1..(n + m) : z[i] = IF i <= n THEN v[i] ELSE w[i - n]
    <2>1. /\ z \in Seq(R) /\ Len(z) = Len(v) + Len(w)
          /\ \A i \in 1..(Len(v) + Len(w)) : z[i] = IF i <= Len(v) THEN v[i] ELSE w[i - Len(v)]
      BY <1>3, <1>4, ConcatProperties
    <2> QED BY <1>3, <1>4, <2>1
  <1> HIDE DEF z
  <1>7. ASSUME NEW i \in 1..(n + m) PROVE x[i] = z[i]
    <2>1. CASE i <= n
      <3>1. i \in 1..n
        BY <1>1, <2>1
      <3>2. z[i] = f[s[i]]
        BY <1>3, <1>6, <2>1, <3>1
      <3>3. x[i] = f[s[i]]
        BY <1>1, <1>5, <2>1, <3>1
      <3> QED BY <3>2, <3>3
    <2>2. CASE ~(i <= n)
      <3>1. i - n \in 1..m
        BY <1>1, <2>2
      <3>2. z[i] = f[t[i - n]]
        BY <1>4, <1>6, <2>2, <3>1
      <3>3. x[i] = f[t[i - n]]
        BY <1>1, <1>5, <2>2
      <3> QED BY <3>2, <3>3
    <2> QED BY <2>1, <2>2
  <1>8. x = z
    BY <1>5, <1>6, <1>7, SeqEqual
  <1> QED BY <1>8 DEF x, u, v, w, z, ImageSplits
-----------------------------------------------------------------------------
(***************************************************************************)
(* Spans: their width, and the characters they cover.                      *)
(***************************************************************************)
Char == Nat \X Nat
Spans(text) ==
    {s \in [gap : Nat, line : 1..Len(text), from : Nat, to : Nat] :
        1 <= s.from /\ s.from <= s.to + 1 /\ s.to <= Len(text[s.line].chars)}

\* Characters put end to end.
LEMMA CharsAssociative ==
    ASSUME NEW a \in Seq(Char), NEW b \in Seq(Char), NEW c \in Seq(Char)
    PROVE  (a \o b) \o c = a \o (b \o c)
  BY ConcatAssociative

\* What a span is made of.
LEMMA SpanParts ==
    ASSUME NEW text \in Seq(Line), NEW s \in Spans(text)
    PROVE  /\ s \in [gap : Nat, line : 1..Len(text), from : Nat, to : Nat]
           /\ s.gap \in Nat /\ s.line \in 1..Len(text) /\ s.from \in Nat /\ s.to \in Nat
           /\ 1 <= s.from /\ s.from <= s.to + 1 /\ s.to <= Len(text[s.line].chars)
           /\ text[s.line] \in Line /\ text[s.line].chars \in Seq(1..4)
  <1>1. s.line \in 1..Len(text)
    BY DEF Spans
  <1>2. text[s.line] \in Line
    BY <1>1
  <1>3. text[s.line].chars \in Seq(1..4)
    BY <1>2 DEF Line
  <1> QED BY <1>1, <1>2, <1>3 DEF Spans

\* A span is at least as wide as it has characters and newlines.
LEMMA SpanWidth ==
    ASSUME NEW text \in Seq(Line), NEW s \in Spans(text)
    PROVE  /\ width(text, s) \in Nat
           /\ s.gap + ((s.to + 1) - s.from) <= width(text, s)
  <1> DEFINE chars == text[s.line].chars
             at == Sums(chars)
  <1>1. /\ s.gap \in Nat /\ s.from \in Nat /\ s.to \in Nat
        /\ 1 <= s.from /\ s.from <= s.to + 1 /\ s.to <= Len(chars)
        /\ chars \in Seq(1..4)
    BY SpanParts
  <1>2. width(text, s) = s.gap + (at[s.to] - at[s.from - 1])
    BY DEF width
  <1> HIDE DEF chars
  <1>3. /\ at \in [0..Len(chars) -> Nat]
        /\ \A i \in 0..Len(chars) : \A j \in i..Len(chars) : at[i] + (j - i) <= at[j]
    BY <1>1, SumsGrow, SumsDef
  <1> HIDE DEF at
  <1>4. Len(chars) \in Nat
    BY <1>1
  <1>5. s.from - 1 \in 0..Len(chars) /\ s.to \in (s.from - 1)..Len(chars) /\ s.to \in 0..Len(chars)
    BY <1>1, <1>4
  <1>6. at[s.from - 1] + (s.to - (s.from - 1)) <= at[s.to]
    BY <1>3, <1>5
  <1>7. at[s.from - 1] \in Nat /\ at[s.to] \in Nat
    BY <1>3, <1>5
  <1>8. s.gap \in Nat /\ s.from \in Nat /\ s.to \in Nat /\ s.from <= s.to + 1
    BY <1>1
  <1> DEFINE A == at[s.to]
             B == at[s.from - 1]
  <1>9. B + (s.to - (s.from - 1)) <= A /\ A \in Nat /\ B \in Nat
    BY <1>6, <1>7
  <1>10. width(text, s) = s.gap + (A - B)
    BY <1>2
  <1> HIDE DEF A, B
  <1>11. A - B \in Nat /\ (s.to + 1) - s.from <= A - B
    BY <1>8, <1>9
  <1> QED BY <1>8, <1>10, <1>11

\* The bytes of spans add up.
LEMMA LenConcat ==
    ASSUME NEW text \in Seq(Line)
    PROVE  /\ len(text, <<>>) = 0
           /\ \A a \in Seq(Spans(text)) : len(text, a) \in Nat
           /\ \A x \in Spans(text) : len(text, <<x>>) = width(text, x)
           /\ \A a, b \in Seq(Spans(text)) : len(text, a \o b) = len(text, a) + len(text, b)
  <1> DEFINE S == Spans(text)
             f == [x \in S |-> width(text, x)]
  <1>1. f \in [S -> Nat] /\ \A x \in S : f[x] = width(text, x)
    BY SpanWidth
  <1>2. Maps(f, S, Nat)
    BY <1>1 DEF Maps
  <1>3. ASSUME NEW a \in Seq(S) PROVE len(text, a) = Total(Image(f, a))
    <2>1. DOMAIN a = 1..Len(a) /\ \A i \in DOMAIN a : a[i] \in S
      OBVIOUS
    <2>2. [i \in DOMAIN a |-> width(text, a[i])] = Image(f, a)
      BY <2>1 DEF Image
    <2>3. Len(Image(f, a)) = Len(a)
      <3> HIDE DEF f, S
      <3> QED BY <1>2, ImageSeq DEF IsImage
    <2> QED BY <2>2, <2>3 DEF len, Total
  <1> HIDE DEF f, S
  <1>4. ASSUME NEW a \in Seq(S) PROVE Image(f, a) \in Seq(Nat)
    BY <1>2, ImageSeq DEF IsImage
  <1>5. len(text, <<>>) = 0
    <2>1. Image(f, <<>>) = <<>> /\ <<>> \in Seq(S)
      BY DEF Image
    <2> QED BY <1>3, <2>1, TotalAppend
  <1>6. ASSUME NEW x \in S PROVE len(text, <<x>>) = width(text, x)
    <2>1. Image(f, <<x>>) = Append(<<>>, f[x]) /\ <<x>> \in Seq(S) /\ <<>> \in Seq(Nat)
      BY DEF Image
    <2>2. f[x] = width(text, x) /\ f[x] \in Nat
      BY <1>1
    <2>3. Total(Append(<<>>, f[x])) = Total(<<>>) + f[x] /\ Total(<<>>) = 0
      BY <2>1, <2>2, TotalAppend
    <2>4. len(text, <<x>>) = Total(Append(<<>>, f[x]))
      BY <1>3, <2>1
    <2> QED BY <2>2, <2>3, <2>4
  <1>7. ASSUME NEW a \in Seq(S), NEW b \in Seq(S)
        PROVE  len(text, a \o b) = len(text, a) + len(text, b)
    <2>1. a \o b \in Seq(S)
      BY ConcatProperties
    <2>2. Image(f, a \o b) = Image(f, a) \o Image(f, b)
      BY <1>2, ImageConcat DEF ImageSplits
    <2>3. Image(f, a) \in Seq(Nat) /\ Image(f, b) \in Seq(Nat)
      BY <1>4
    <2>4. Total(Image(f, a) \o Image(f, b)) = Total(Image(f, a)) + Total(Image(f, b))
      BY <2>3, TotalConcat
    <2>5. len(text, a) = Total(Image(f, a)) /\ len(text, b) = Total(Image(f, b))
      BY <1>3
    <2>6. len(text, a \o b) = Total(Image(f, a \o b))
      BY <1>3, <2>1
    <2> QED BY <2>2, <2>4, <2>5, <2>6
  <1>8. ASSUME NEW a \in Seq(S) PROVE len(text, a) \in Nat
    BY <1>3, <1>4, TotalAppend
  <1> QED BY <1>5, <1>6, <1>7, <1>8 DEF S

\* The characters of a span.
LEMMA SpanCovers ==
    ASSUME NEW text \in Seq(Line), NEW s \in Spans(text)
    PROVE  /\ Covers(s) \in Seq(Char)
           /\ Len(Covers(s)) = (s.to + 1) - s.from
           /\ \A i \in 1..((s.to + 1) - s.from) : Covers(s)[i] = <<s.line, s.from + i - 1>>
  <1> DEFINE n == (s.to + 1) - s.from
  <1>1. s.line \in Nat /\ s.from \in Nat /\ s.to \in Nat /\ 1 <= s.from /\ s.from <= s.to + 1
    BY SpanParts
  <1>2. n \in Nat
    BY <1>1
  <1>3. \A i \in 1..n : <<s.line, s.from + i - 1>> \in Char
    BY <1>1 DEF Char
  <1>4. Covers(s) = [i \in 1..n |-> <<s.line, s.from + i - 1>>]
    <2>1. Covers(s) = [i \in 1..(s.to + 1 - s.from) |-> <<s.line, s.from + i - 1>>]
      BY Zenon DEF Covers
    <2>2. n = s.to + 1 - s.from
      BY <1>1
    <2> HIDE DEF n
    <2> QED BY <2>1, <2>2
  <1> HIDE DEF n
  <1>5. Covers(s) \in Seq(Char) /\ Len(Covers(s)) = n
    BY <1>2, <1>3, <1>4
  <1>6. \A i \in 1..n : Covers(s)[i] = <<s.line, s.from + i - 1>>
    BY <1>4
  <1> QED BY <1>5, <1>6 DEF n

\* The characters of spans come one after the other.
LEMMA ReadsConcat ==
    ASSUME NEW text \in Seq(Line)
    PROVE  /\ Reads(<<>>) = <<>>
           /\ \A a \in Seq(Spans(text)) : Reads(a) \in Seq(Char)
           /\ \A x \in Spans(text) : Reads(<<x>>) = Covers(x)
           /\ \A a, b \in Seq(Spans(text)) : Reads(a \o b) = Reads(a) \o Reads(b)
  <1> DEFINE S == Spans(text)
             f == [x \in S |-> Covers(x)]
  <1>1. f \in [S -> Seq(Char)] /\ \A x \in S : f[x] = Covers(x)
    BY SpanCovers
  <1>2. Maps(f, S, Seq(Char))
    BY <1>1 DEF Maps
  <1>3. ASSUME NEW a \in Seq(S) PROVE Reads(a) = FlattenSeq(Image(f, a))
    <2>1. DOMAIN a = 1..Len(a) /\ \A i \in DOMAIN a : a[i] \in S
      OBVIOUS
    <2>2. [i \in DOMAIN a |-> Covers(a[i])] = Image(f, a)
      BY <2>1 DEF Image
    <2> QED BY <2>2 DEF Reads
  <1> HIDE DEF f, S
  <1>4. ASSUME NEW a \in Seq(S) PROVE Image(f, a) \in Seq(Seq(Char))
    BY <1>2, ImageSeq DEF IsImage
  <1>5. Reads(<<>>) = <<>>
    <2>1. Image(f, <<>>) = <<>> /\ <<>> \in Seq(S)
      BY DEF Image
    <2> QED BY <1>3, <2>1, FlattenAppend
  <1>6. ASSUME NEW x \in S PROVE Reads(<<x>>) = Covers(x)
    <2>1. Image(f, <<x>>) = <<f[x]>> /\ <<x>> \in Seq(S)
      BY DEF Image
    <2>2. f[x] = Covers(x) /\ f[x] \in Seq(Char)
      BY <1>1
    <2>3. FlattenSeq(<<f[x]>>) = f[x]
      BY <2>2, FlattenOne
    <2> QED BY <1>3, <2>1, <2>2, <2>3
  <1>7. ASSUME NEW a \in Seq(S), NEW b \in Seq(S)
        PROVE  Reads(a \o b) = Reads(a) \o Reads(b)
    <2>1. a \o b \in Seq(S)
      BY ConcatProperties
    <2>2. Image(f, a \o b) = Image(f, a) \o Image(f, b)
      BY <1>2, ImageConcat DEF ImageSplits
    <2>3. Image(f, a) \in Seq(Seq(Char)) /\ Image(f, b) \in Seq(Seq(Char))
      BY <1>4
    <2>4. FlattenSeq(Image(f, a) \o Image(f, b)) = FlattenSeq(Image(f, a)) \o FlattenSeq(Image(f, b))
      BY <2>3, FlattenConcat
    <2>5. Reads(a) = FlattenSeq(Image(f, a)) /\ Reads(b) = FlattenSeq(Image(f, b))
      BY <1>3
    <2>6. Reads(a \o b) = FlattenSeq(Image(f, a \o b))
      BY <1>3, <2>1
    <2> QED BY <2>2, <2>4, <2>5, <2>6
  <1>8. ASSUME NEW a \in Seq(S) PROVE Reads(a) \in Seq(Char)
    BY <1>3, <1>4, FlattenAppend
  <1> QED BY <1>5, <1>6, <1>7, <1>8 DEF S

\* Spans of no bytes show nothing.
LEMMA EmptyReads ==
    ASSUME NEW text \in Seq(Line), NEW a \in Seq(Spans(text)), len(text, a) = 0
    PROVE  Reads(a) = <<>>
  <1> DEFINE S == Spans(text)
             T == {r \in Seq(S) : len(text, r) = 0 => Reads(r) = <<>>}
  <1>1. <<>> \in T
    BY ReadsConcat
  <1>2. ASSUME NEW r \in Seq(S), NEW x \in S, r \in T PROVE Append(r, x) \in T
    <2>1. Append(r, x) = r \o <<x>> /\ Append(r, x) \in Seq(S) /\ <<x>> \in Seq(S)
      BY AppendIsConcat
    <2> SUFFICES ASSUME len(text, r \o <<x>>) = 0 PROVE Reads(r \o <<x>>) = <<>>
      BY <2>1
    <2>2. len(text, r \o <<x>>) = len(text, r) + width(text, x)
      BY <2>1, LenConcat
    <2>3. len(text, r) \in Nat /\ width(text, x) \in Nat
          /\ x.gap + ((x.to + 1) - x.from) <= width(text, x)
      BY LenConcat, SpanWidth
    <2>4. len(text, r) = 0 /\ width(text, x) = 0
      BY <2>2, <2>3
    <2>5. Covers(x) = <<>>
      <3>1. x.gap \in Nat /\ x.to \in Nat /\ x.from \in Nat /\ x.from <= x.to + 1
        BY SpanParts
      <3>2. (x.to + 1) - x.from = 0
        BY <2>3, <2>4, <3>1
      <3>3. Covers(x) \in Seq(Char) /\ Len(Covers(x)) = 0
        BY <3>2, SpanCovers
      <3> QED BY <3>3, EmptySeq
    <2>6. Reads(r) = <<>>
      BY <1>2, <2>4
    <2>7. Reads(r \o <<x>>) = Reads(r) \o Covers(x)
      BY <2>1, ReadsConcat
    <2> QED BY <2>5, <2>6, <2>7
  <1>3. \A r \in Seq(S) : r \in T
    <2> HIDE DEF T, S
    <2> QED BY <1>1, <1>2, ByAppending
  <1> QED BY <1>3

\* A separator before a piece: so much wider, and else the same.
LEMMA AfterSame ==
    ASSUME NEW text \in Seq(Line), NEW piece \in Seq(Spans(text)), piece # <<>>,
           piece[1].gap = 0, NEW sep \in Nat
    PROVE  /\ after(sep, piece) \in Seq(Spans(text))
           /\ Len(after(sep, piece)) = Len(piece)
           /\ after(sep, piece)[1] = [piece[1] EXCEPT !.gap = sep]
           /\ \A i \in 2..Len(piece) : after(sep, piece)[i] = piece[i]
           /\ len(text, after(sep, piece)) = sep + len(text, piece)
           /\ Reads(after(sep, piece)) = Reads(piece)
  <1> DEFINE S == Spans(text)
             x == piece[1]
             y == [x EXCEPT !.gap = sep]
             tail == Tail(piece)
  <1>1. x \in S /\ tail \in Seq(S) /\ Len(piece) \in Nat \ {0} /\ Len(tail) = Len(piece) - 1
        /\ \A i \in 1..Len(tail) : tail[i] = piece[i + 1]
    BY HeadTailProperties
  <1>2. piece = <<x>> \o tail
    OBVIOUS
  <1>3. /\ x \in [gap : Nat, line : 1..Len(text), from : Nat, to : Nat]
        /\ 1 <= x.from /\ x.from <= x.to + 1 /\ x.to <= Len(text[x.line].chars)
    BY <1>1, SpanParts
  <1>4. y \in [gap : Nat, line : 1..Len(text), from : Nat, to : Nat]
        /\ y.line = x.line /\ y.from = x.from /\ y.to = x.to /\ y.gap = sep /\ x.gap = 0
    BY <1>3
  <1>5. y \in S
    BY <1>3, <1>4 DEF Spans
  <1>6. after(sep, piece) = <<y>> \o tail
    BY DEF after
  <1> HIDE DEF S, x, y, tail
  <1>7. width(text, y) = sep + width(text, x)
    <2> DEFINE d == Sums(text[x.line].chars)[x.to] - Sums(text[x.line].chars)[x.from - 1]
    <2>1. width(text, x) = 0 + d /\ width(text, y) = sep + d
      BY <1>4 DEF width
    <2>2. width(text, x) \in Nat
      BY <1>1, SpanWidth DEF S
    <2> HIDE DEF d
    <2>3. width(text, x) \in Nat /\ width(text, y) \in Nat
      BY <1>1, <1>5, SpanWidth DEF S
    <2>4. d \in Int
      <3>1. x \in Spans(text) /\ x.from \in Nat /\ x.to \in Nat
            /\ 1 <= x.from /\ x.from <= x.to + 1 /\ x.to <= Len(text[x.line].chars)
            /\ text[x.line].chars \in Seq(1..4)
        BY <1>1, SpanParts DEF S
      <3>2. text[x.line].chars \in Seq(Nat)
        BY <3>1, SumsGrow
      <3>3. Sums(text[x.line].chars) \in [0..Len(text[x.line].chars) -> Nat]
        BY <3>2, SumsDef
      <3>4. x.to \in 0..Len(text[x.line].chars) /\ x.from - 1 \in 0..Len(text[x.line].chars)
        <4> DEFINE k == Len(text[x.line].chars)
                   i == x.from
                   j == x.to
        <4>1. k \in Nat
          BY <3>2
        <4>2. i \in Nat /\ j \in Nat /\ 1 <= i /\ i <= j + 1 /\ j <= k
          BY <3>1
        <4> HIDE DEF i, j, k
        <4>3. j \in 0..k /\ i - 1 \in 0..k
          BY <4>1, <4>2
        <4> QED BY <4>3 DEF i, j, k
      <3>5. /\ Sums(text[x.line].chars)[x.to] \in Nat
            /\ Sums(text[x.line].chars)[x.from - 1] \in Nat
        BY <3>3, <3>4
      <3> QED BY <3>5 DEF d
    <2> QED BY <2>1, <2>4
  <1>8. Covers(y) = Covers(x)
    BY <1>4 DEF Covers
  <1>9. <<x>> \in Seq(S) /\ <<y>> \in Seq(S) /\ width(text, x) \in Nat /\ len(text, tail) \in Nat
    BY <1>1, <1>5, SpanWidth, LenConcat DEF S
  <1>10. len(text, <<y>> \o tail) = sep + len(text, <<x>> \o tail)
    <2>1. /\ len(text, <<y>> \o tail) = width(text, y) + len(text, tail)
          /\ len(text, <<x>> \o tail) = width(text, x) + len(text, tail)
      BY <1>1, <1>5, <1>9, LenConcat DEF S
    <2> QED BY <1>7, <1>9, <2>1
  <1>11. Reads(<<y>> \o tail) = Reads(<<x>> \o tail)
    <2>1. x \in Spans(text) /\ y \in Spans(text) /\ tail \in Seq(Spans(text))
          /\ <<x>> \in Seq(Spans(text)) /\ <<y>> \in Seq(Spans(text))
      BY <1>1, <1>5, <1>9 DEF S
    <2>2. Reads(<<y>> \o tail) = Reads(<<y>>) \o Reads(tail) /\ Reads(<<y>>) = Covers(y)
      BY <2>1, ReadsConcat
    <2>3. Reads(<<x>> \o tail) = Reads(<<x>>) \o Reads(tail) /\ Reads(<<x>>) = Covers(x)
      BY <2>1, ReadsConcat
    <2> QED BY <1>8, <2>2, <2>3
  <1>12. <<y>> \o tail \in Seq(S) /\ Len(<<y>> \o tail) = Len(piece) /\ (<<y>> \o tail)[1] = y
         /\ \A i \in 2..Len(piece) : (<<y>> \o tail)[i] = piece[i]
    BY <1>1, <1>9
  <1> QED BY <1>2, <1>6, <1>10, <1>11, <1>12 DEF S, x, y
-----------------------------------------------------------------------------
(***************************************************************************)
(* The lines of a text.                                                    *)
(***************************************************************************)
LineChars(text) == [l \in 1..Len(text) |-> [i \in 1..Len(text[l].chars) |-> <<l, i>>]]
Count(a, b) == [i \in 1..(b - a + 1) |-> a + i - 1]
Rows(text, a, b) == Reads(slice(text, a, b))
Interval(text, a, b) == a \in Nat /\ b \in Nat /\ 1 <= a /\ a <= b + 1 /\ b <= Len(text)

\* A line as one span.
LEMMA WholeLine ==
    ASSUME NEW text \in Seq(Line), NEW l \in 1..Len(text), NEW gap \in Nat
    PROVE  /\ Whole(text, gap, l) \in Spans(text)
           /\ Whole(text, gap, l).gap = gap /\ Whole(text, gap, l).line = l
           /\ Whole(text, gap, l).from = 1 /\ Whole(text, gap, l).to = Len(text[l].chars)
           /\ Covers(Whole(text, gap, l)) = LineChars(text)[l]
           /\ text[l].chars \in Seq(1..4)
  <1>1. text[l] \in Line /\ text[l].chars \in Seq(1..4) /\ Len(text[l].chars) \in Nat
    BY DEF Line
  <1> DEFINE w == Whole(text, gap, l)
             n == Len(text[l].chars)
  <1>2. w = [gap |-> gap, line |-> l, from |-> 1, to |-> n]
    BY DEF Whole, Span
  <1> HIDE DEF n, w
  <1>3. w \in [gap : Nat, line : 1..Len(text), from : Nat, to : Nat]
    BY <1>1, <1>2 DEF n
  <1>4. w.gap = gap /\ w.line = l /\ w.from = 1 /\ w.to = n
    BY <1>2
  <1>5. w \in Spans(text)
    BY <1>1, <1>3, <1>4 DEF Spans, n
  <1>6. Covers(w) = [i \in 1..n |-> <<l, i>>]
    <2>1. n + 1 - 1 = n /\ \A i \in 1..n : 1 + i - 1 = i
      BY <1>1 DEF n
    <2>2. Covers(w) = [i \in 1..(n + 1 - 1) |-> <<l, 1 + i - 1>>]
      BY <1>4, Zenon DEF Covers
    <2> QED BY <2>1, <2>2
  <1>7. LineChars(text)[l] = [i \in 1..n |-> <<l, i>>]
    BY Zenon DEF LineChars, n
  <1> QED BY <1>1, <1>4, <1>5, <1>6, <1>7 DEF w, n

IsSlice(text, s, a, b) ==
    /\ s \in Seq(Spans(text))
    /\ Len(s) = b - a + 1
    /\ \A i \in 1..(b - a + 1) : s[i] = Whole(text, IF i = 1 THEN 0 ELSE 1, a + i - 1)

\* The spans of a slice.
LEMMA SliceSpans ==
    ASSUME NEW text \in Seq(Line), NEW a, NEW b, Interval(text, a, b)
    PROVE  IsSlice(text, slice(text, a, b), a, b)
  <1>1. a \in Nat /\ b \in Nat /\ 1 <= a /\ a <= b + 1 /\ b <= Len(text) /\ b - a + 1 \in Nat
    BY DEF Interval
  <1>2. \A i \in 1..(b - a + 1) : a + i - 1 \in 1..Len(text)
    BY <1>1
  <1>3. \A i \in 1..(b - a + 1) : Whole(text, IF i = 1 THEN 0 ELSE 1, a + i - 1) \in Spans(text)
    BY <1>2, WholeLine
  <1> QED BY <1>1, <1>3 DEF slice, IsSlice

\* The characters of a line.
LEMMA LineCharsMap ==
    ASSUME NEW text \in Seq(Line)
    PROVE  Maps(LineChars(text), 1..Len(text), Seq(Char))
  <1>1. ASSUME NEW l \in 1..Len(text) PROVE LineChars(text)[l] \in Seq(Char)
    <2>1. Whole(text, 0, l) \in Spans(text) /\ Covers(Whole(text, 0, l)) = LineChars(text)[l]
      BY WholeLine
    <2>2. Covers(Whole(text, 0, l)) \in Seq(Char)
      BY <2>1, SpanCovers
    <2> QED BY <2>1, <2>2
  <1>2. LineChars(text) = [l \in 1..Len(text) |-> LineChars(text)[l]]
    BY DEF LineChars
  <1> QED BY <1>1, <1>2 DEF Maps

\* The numbers of the lines of a slice.
LEMMA CountSeq ==
    ASSUME NEW text \in Seq(Line), NEW a, NEW b, Interval(text, a, b)
    PROVE  /\ Count(a, b) \in Seq(1..Len(text))
           /\ Len(Count(a, b)) = b - a + 1
           /\ \A i \in 1..(b - a + 1) : Count(a, b)[i] = a + i - 1
  <1>1. a \in Nat /\ b \in Nat /\ 1 <= a /\ a <= b + 1 /\ b <= Len(text) /\ b - a + 1 \in Nat
    BY DEF Interval
  <1>2. \A i \in 1..(b - a + 1) : a + i - 1 \in 1..Len(text)
    BY <1>1
  <1> QED BY <1>1, <1>2 DEF Count

\* What a slice shows, line by line.
LEMMA RowsDef ==
    ASSUME NEW text \in Seq(Line), NEW a, NEW b, Interval(text, a, b)
    PROVE  Rows(text, a, b) = FlattenSeq(Image(LineChars(text), Count(a, b)))
  <1> DEFINE s == slice(text, a, b)
             n == b - a + 1
             c == Count(a, b)
             f == LineChars(text)
             g == [i \in DOMAIN s |-> Covers(s[i])]
  <1>1. n \in Nat /\ s \in Seq(Spans(text)) /\ Len(s) = n
        /\ \A i \in 1..n : s[i] = Whole(text, IF i = 1 THEN 0 ELSE 1, a + i - 1)
    <2>1. n \in Nat
      BY DEF Interval
    <2> QED BY <2>1, SliceSpans DEF IsSlice
  <1>2. c \in Seq(1..Len(text)) /\ Len(c) = n /\ \A i \in 1..n : c[i] = a + i - 1
    BY CountSeq
  <1>3. \A i \in 1..n : a + i - 1 \in 1..Len(text)
    BY DEF Interval
  <1>4. Rows(text, a, b) = FlattenSeq(g)
    BY DEF Rows, Reads
  <1> HIDE DEF n, c, f, s
  <1>5. \A i \in 1..n : Covers(s[i]) = f[c[i]]
    BY <1>1, <1>2, <1>3, WholeLine DEF f
  <1>6. DOMAIN s = 1..n /\ DOMAIN c = 1..n
    BY <1>1, <1>2
  <1>7. g = Image(f, c)
    BY <1>5, <1>6 DEF Image
  <1> QED BY <1>4, <1>7 DEF c, f

\* What a slice shows: characters.
LEMMA RowsType ==
    ASSUME NEW text \in Seq(Line), NEW a, NEW b, Interval(text, a, b)
    PROVE  Rows(text, a, b) \in Seq(Char)
  BY SliceSpans, ReadsConcat DEF Rows, IsSlice

\* What a function of the lines gives for the lines a..b, put end to end.
Gather(f, a, b) == FlattenSeq(Image(f, Count(a, b)))
GatherSplitAt(f, a, b, c) == Gather(f, a, c) = Gather(f, a, b) \o Gather(f, b + 1, c)

\* Two adjacent intervals give what the interval of both does.
LEMMA GatherSplit ==
    ASSUME NEW text \in Seq(Line), NEW a, NEW b, NEW c,
           Interval(text, a, b), Interval(text, b + 1, c),
           NEW X, NEW f, Maps(f, 1..Len(text), Seq(X))
    PROVE  GatherSplitAt(f, a, b, c)
  <1> DEFINE N == 1..Len(text)
             u == Count(a, b)
             v == Count(b + 1, c)
             w == Count(a, c)
  <1>1. a \in Nat /\ b \in Nat /\ c \in Nat /\ 1 <= a /\ a <= b + 1 /\ b + 1 <= c + 1
        /\ c <= Len(text) /\ Len(text) \in Nat
    BY DEF Interval
  <1>2. Interval(text, a, c)
    BY <1>1 DEF Interval
  <1>3. u \in Seq(N) /\ Len(u) = b - a + 1 /\ \A i \in 1..(b - a + 1) : u[i] = a + i - 1
    BY CountSeq
  <1>4. v \in Seq(N) /\ Len(v) = c - (b + 1) + 1
        /\ \A i \in 1..(c - (b + 1) + 1) : v[i] = (b + 1) + i - 1
    BY CountSeq
  <1>5. w \in Seq(N) /\ Len(w) = c - a + 1 /\ \A i \in 1..(c - a + 1) : w[i] = a + i - 1
    BY <1>2, CountSeq
  <1>6. Maps(f, N, Seq(X))
    OBVIOUS
  <1>7. /\ Gather(f, a, b) = FlattenSeq(Image(f, u))
        /\ Gather(f, b + 1, c) = FlattenSeq(Image(f, v))
        /\ Gather(f, a, c) = FlattenSeq(Image(f, w))
    BY DEF Gather
  <1> HIDE DEF N, u, v, w
  <1>8. w = u \o v
    <2>1. u \o v \in Seq(N) /\ Len(u \o v) = Len(u) + Len(v)
          /\ \A i \in 1..(Len(u) + Len(v)) :
                (u \o v)[i] = IF i <= Len(u) THEN u[i] ELSE v[i - Len(u)]
      BY <1>3, <1>4, ConcatProperties
    <2>2. Len(u) + Len(v) = c - a + 1
      BY <1>1, <1>3, <1>4
    <2>3. \A i \in 1..Len(w) : w[i] = (u \o v)[i]
      <3> TAKE i \in 1..Len(w)
      <3>1. i \in 1..(c - a + 1) /\ w[i] = a + i - 1
        BY <1>5
      <3>2. CASE i <= b - a + 1
        <4>1. i \in 1..(b - a + 1)
          BY <1>1, <3>1, <3>2
        <4> QED BY <1>3, <2>1, <2>2, <3>1, <3>2, <4>1
      <3>3. CASE ~(i <= b - a + 1)
        <4>1. i - (b - a + 1) \in 1..(c - (b + 1) + 1)
          BY <1>1, <3>1, <3>3
        <4>2. v[i - (b - a + 1)] = (b + 1) + (i - (b - a + 1)) - 1
          BY <1>4, <4>1
        <4>3. (b + 1) + (i - (b - a + 1)) - 1 = a + i - 1
          BY <1>1, <3>1
        <4>4. (u \o v)[i] = v[i - (b - a + 1)]
          BY <1>3, <2>1, <2>2, <3>1, <3>3
        <4> QED BY <3>1, <4>2, <4>3, <4>4
      <3> QED BY <3>2, <3>3
    <2> QED BY <1>5, <2>1, <2>2, <2>3, SeqEqual
  <1>9. Image(f, u \o v) = Image(f, u) \o Image(f, v)
    BY <1>3, <1>4, <1>6, ImageConcat DEF ImageSplits
  <1>10. Image(f, u) \in Seq(Seq(X)) /\ Image(f, v) \in Seq(Seq(X))
    BY <1>3, <1>4, <1>6, ImageSeq DEF IsImage
  <1>11. FlattenSeq(Image(f, u) \o Image(f, v)) = FlattenSeq(Image(f, u)) \o FlattenSeq(Image(f, v))
    BY <1>10, FlattenConcat
  <1> QED BY <1>7, <1>8, <1>9, <1>11 DEF GatherSplitAt

\* One line alone.
LEMMA GatherOne ==
    ASSUME NEW text \in Seq(Line), NEW l \in 1..Len(text),
           NEW X, NEW f, Maps(f, 1..Len(text), Seq(X))
    PROVE  Gather(f, l, l) = f[l] /\ f[l] \in Seq(X)
  <1>1. Count(l, l) = <<l>>
    BY DEF Count
  <1>2. Image(f, <<l>>) = <<f[l]>> /\ f[l] \in Seq(X)
    BY DEF Image, Maps
  <1>3. FlattenSeq(<<f[l]>>) = f[l]
    BY <1>2, FlattenOne
  <1> QED BY <1>1, <1>2, <1>3 DEF Gather

RowsSplitAt(text, a, b, c) == Rows(text, a, c) = Rows(text, a, b) \o Rows(text, b + 1, c)

\* Two adjacent slices show what the slice of both does.
LEMMA RowsSplit ==
    ASSUME NEW text \in Seq(Line), NEW a, NEW b, NEW c,
           Interval(text, a, b), Interval(text, b + 1, c)
    PROVE  RowsSplitAt(text, a, b, c)
  <1> DEFINE f == LineChars(text)
  <1>1. Interval(text, a, c)
    BY DEF Interval
  <1>2. Maps(f, 1..Len(text), Seq(Char))
    BY LineCharsMap
  <1>3. GatherSplitAt(f, a, b, c)
    <2> HIDE DEF f
    <2> QED BY <1>2, GatherSplit
  <1>4. /\ Rows(text, a, b) = Gather(f, a, b)
        /\ Rows(text, b + 1, c) = Gather(f, b + 1, c)
        /\ Rows(text, a, c) = Gather(f, a, c)
    BY <1>1, RowsDef DEF Gather
  <1> QED BY <1>3, <1>4 DEF GatherSplitAt, RowsSplitAt

\* A slice of no line, and of one.
LEMMA RowsFew ==
    ASSUME NEW text \in Seq(Line), NEW l \in Nat
    PROVE  /\ l <= Len(text) => Rows(text, l + 1, l) = <<>>
           /\ l \in 1..Len(text) => /\ Rows(text, l, l) = LineChars(text)[l]
                                    /\ blank(text[l]) => Rows(text, l, l) = <<>>
  <1>1. ASSUME l <= Len(text) PROVE Rows(text, l + 1, l) = <<>>
    <2>1. Interval(text, l + 1, l)
      BY <1>1 DEF Interval
    <2>2. slice(text, l + 1, l) \in Seq(Spans(text)) /\ Len(slice(text, l + 1, l)) = l - (l + 1) + 1
      BY <2>1, SliceSpans DEF IsSlice
    <2>3. slice(text, l + 1, l) = <<>>
      BY <2>2
    <2> QED BY <2>3, ReadsConcat DEF Rows
  <1>2. ASSUME l \in 1..Len(text) PROVE Rows(text, l, l) = LineChars(text)[l]
    <2> DEFINE s == slice(text, l, l)
    <2>1. Interval(text, l, l)
      BY <1>2 DEF Interval
    <2>2. IsSlice(text, s, l, l)
      BY <2>1, SliceSpans
    <2> HIDE DEF s
    <2>3. s \in Seq(Spans(text)) /\ Len(s) = 1
      BY <2>2 DEF IsSlice
    <2>4. s[1] = Whole(text, 0, l)
      BY <2>2 DEF IsSlice
    <2>5. s = <<Whole(text, 0, l)>>
      BY <2>3, <2>4
    <2>6. Whole(text, 0, l) \in Spans(text) /\ Covers(Whole(text, 0, l)) = LineChars(text)[l]
      BY <1>2, WholeLine
    <2> QED BY <2>5, <2>6, ReadsConcat DEF Rows, s
  <1>3. ASSUME l \in 1..Len(text), blank(text[l]) PROVE LineChars(text)[l] = <<>>
    BY <1>3 DEF LineChars, blank
  <1> QED BY <1>1, <1>2, <1>3
-----------------------------------------------------------------------------
(***************************************************************************)
(* A paragraph that does not fit: its lines, cut where they have to be.    *)
(***************************************************************************)
Joint(text, max, a, b) ==
    \/ a.to = Len(text[a.line].chars) /\ b.from = 1 /\ b.line = a.line + 1
    \/ width(text, a) + width(text, b) > max
Joints(text, max, r) == \A i \in 2..Len(r) : Joint(text, max, r[i - 1], r[i])
Pieces(text, max, r) == \A i \in 1..Len(r) : r[i].gap = 0 /\ width(text, r[i]) <= max

\* The lines a..b in pieces that fit, in order, and no two of a line can be joined.
Torn(text, max, r, a, b) ==
    /\ r \in Seq(Spans(text)) /\ r # <<>>
    /\ Pieces(text, max, r) /\ Joints(text, max, r)
    /\ r[1].line = a /\ r[1].from = 1
    /\ r[Len(r)].line = b /\ r[Len(r)].to = Len(text[b].chars)
    /\ Reads(r) = Rows(text, a, b)

\* A piece of a line.
LEMMA PieceSpan ==
    ASSUME NEW text \in Seq(Line), NEW l \in 1..Len(text), NEW from \in Nat, NEW to \in Nat,
           1 <= from, from <= to + 1, to <= Len(text[l].chars)
    PROVE  /\ Span(0, l, from, to) \in Spans(text)
           /\ Span(0, l, from, to).gap = 0 /\ Span(0, l, from, to).line = l
           /\ Span(0, l, from, to).from = from /\ Span(0, l, from, to).to = to
           /\ width(text, Span(0, l, from, to)) =
                 Sums(text[l].chars)[to] - Sums(text[l].chars)[from - 1]
  <1> DEFINE s == Span(0, l, from, to)
  <1>1. s = [gap |-> 0, line |-> l, from |-> from, to |-> to]
    BY DEF Span
  <1> HIDE DEF s
  <1>2. s.gap = 0 /\ s.line = l /\ s.from = from /\ s.to = to
    BY <1>1
  <1>3. s \in [gap : Nat, line : 1..Len(text), from : Nat, to : Nat]
    BY <1>1
  <1>4. s \in Spans(text)
    BY <1>2, <1>3 DEF Spans
  <1> DEFINE d == Sums(text[l].chars)[to] - Sums(text[l].chars)[from - 1]
  <1>5. width(text, s) = 0 + d
    BY <1>2 DEF width
  <1>6. d \in Int
    <2>1. text[l].chars \in Seq(1..4)
      BY WholeLine
    <2>2. text[l].chars \in Seq(Nat) /\ Len(text[l].chars) \in Nat
      BY <2>1, SumsGrow
    <2>3. Sums(text[l].chars) \in [0..Len(text[l].chars) -> Nat]
      BY <2>2, SumsDef
    <2>4. to \in 0..Len(text[l].chars) /\ from - 1 \in 0..Len(text[l].chars)
      BY <2>2
    <2>5. Sums(text[l].chars)[to] \in Nat /\ Sums(text[l].chars)[from - 1] \in Nat
      BY <2>3, <2>4
    <2> QED BY <2>5
  <1> HIDE DEF d
  <1>7. width(text, s) = d
    BY <1>5, <1>6
  <1> QED BY <1>2, <1>4, <1>7 DEF s, d

CoversSplitAt(l, m, n) == Covers(Span(0, l, 1, n)) = Covers(Span(0, l, 1, m)) \o Covers(Span(0, l, m + 1, n))

\* The beginning of a line and what comes next.
LEMMA CoversSplit ==
    ASSUME NEW text \in Seq(Line), NEW l \in 1..Len(text), NEW m \in Nat, NEW n \in Nat,
           m <= n, n <= Len(text[l].chars)
    PROVE  CoversSplitAt(l, m, n)
  <1> DEFINE u == Covers(Span(0, l, 1, m))
             v == Covers(Span(0, l, m + 1, n))
             w == Covers(Span(0, l, 1, n))
  <1>0. 1 \in Nat /\ 1 <= 1 /\ 1 <= m + 1 /\ 1 <= n + 1 /\ m <= Len(text[l].chars)
        /\ m + 1 \in Nat /\ 1 <= m + 1 /\ m + 1 <= n + 1
    <2>1. Len(text[l].chars) \in Nat
      BY WholeLine
    <2> QED BY <2>1
  <1>1. /\ u \in Seq(Char) /\ Len(u) = m
        /\ \A i \in 1..m : u[i] = <<l, i>>
    <2> DEFINE s == Span(0, l, 1, m)
    <2>1. s \in Spans(text) /\ s.line = l /\ s.from = 1 /\ s.to = m
      BY <1>0, PieceSpan
    <2> HIDE DEF s
    <2>2. Covers(s) \in Seq(Char) /\ Len(Covers(s)) = (m + 1) - 1
          /\ \A i \in 1..((m + 1) - 1) : Covers(s)[i] = <<l, 1 + i - 1>>
      BY <2>1, SpanCovers
    <2>3. (m + 1) - 1 = m /\ \A i \in 1..m : 1 + i - 1 = i
      OBVIOUS
    <2> QED BY <2>2, <2>3 DEF s
  <1>2. /\ w \in Seq(Char) /\ Len(w) = n
        /\ \A i \in 1..n : w[i] = <<l, i>>
    <2> DEFINE s == Span(0, l, 1, n)
    <2>1. s \in Spans(text) /\ s.line = l /\ s.from = 1 /\ s.to = n
      BY <1>0, PieceSpan
    <2> HIDE DEF s
    <2>2. Covers(s) \in Seq(Char) /\ Len(Covers(s)) = (n + 1) - 1
          /\ \A i \in 1..((n + 1) - 1) : Covers(s)[i] = <<l, 1 + i - 1>>
      BY <2>1, SpanCovers
    <2>3. (n + 1) - 1 = n /\ \A i \in 1..n : 1 + i - 1 = i
      OBVIOUS
    <2> QED BY <2>2, <2>3 DEF s
  <1>3. /\ v \in Seq(Char) /\ Len(v) = n - m
        /\ \A i \in 1..(n - m) : v[i] = <<l, m + i>>
    <2> DEFINE s == Span(0, l, m + 1, n)
    <2>1. s \in Spans(text) /\ s.line = l /\ s.from = m + 1 /\ s.to = n
      BY <1>0, PieceSpan
    <2> HIDE DEF s
    <2>2. Covers(s) \in Seq(Char) /\ Len(Covers(s)) = (n + 1) - (m + 1)
          /\ \A i \in 1..((n + 1) - (m + 1)) : Covers(s)[i] = <<l, (m + 1) + i - 1>>
      BY <2>1, SpanCovers
    <2>3. (n + 1) - (m + 1) = n - m /\ \A i \in 1..(n - m) : (m + 1) + i - 1 = m + i
      OBVIOUS
    <2> QED BY <2>2, <2>3 DEF s
  <1> HIDE DEF u, v, w
  <1>4. u \o v \in Seq(Char) /\ Len(u \o v) = Len(u) + Len(v)
        /\ \A i \in 1..(Len(u) + Len(v)) : (u \o v)[i] = IF i <= Len(u) THEN u[i] ELSE v[i - Len(u)]
    BY <1>1, <1>3, ConcatProperties
  <1>5. Len(u) + Len(v) = n
    BY <1>1, <1>3
  <1>6. ASSUME NEW i \in 1..n PROVE w[i] = (u \o v)[i]
    <2>1. CASE i <= m
      <3>1. i \in 1..m
        BY <2>1
      <3>2. (u \o v)[i] = u[i]
        BY <1>1, <1>4, <1>5, <2>1
      <3> QED BY <1>1, <1>2, <3>1, <3>2
    <2>2. CASE ~(i <= m)
      <3>1. i - m \in 1..(n - m) /\ m + (i - m) = i
        BY <2>2
      <3>2. v[i - m] = <<l, i>>
        BY <1>3, <3>1
      <3> QED BY <1>1, <1>2, <1>4, <1>5, <2>2, <3>2
    <2> QED BY <2>1, <2>2
  <1>7. w = u \o v
    BY <1>2, <1>4, <1>5, <1>6, SeqEqual
  <1> QED BY <1>7 DEF CoversSplitAt, u, v, w

\* What split_chars computes on the way.
NoCut == [out |-> <<>>, start |-> 1]
CutStep(text, l, max, s, i) ==
    IF Sums(text[l].chars)[i] - Sums(text[l].chars)[s.start - 1] > max
    THEN [out |-> Append(s.out, Span(0, l, s.start, i - 1)), start |-> i]
    ELSE s
Cuts(text, l, max) ==
    CHOOSE g : g = [i \in 0..Len(text[l].chars) |->
        IF i = 0 THEN NoCut ELSE CutStep(text, l, max, g[i - 1], i)]

\* split_chars, with that named.
LEMMA SplitCharsCuts ==
    ASSUME NEW text, NEW l, NEW max
    PROVE  split_chars(text, l, max) =
              Append(Cuts(text, l, max)[Len(text[l].chars)].out,
                     Span(0, l, Cuts(text, l, max)[Len(text[l].chars)].start, Len(text[l].chars)))
  BY DEF split_chars, Cuts, CutStep, NoCut

\* It is a loop over the characters of the line.
LEMMA CutsDef ==
    ASSUME NEW text \in Seq(Line), NEW l \in 1..Len(text), NEW max \in Nat
    PROVE  /\ Cuts(text, l, max)[0] = NoCut
           /\ \A i \in 1..Len(text[l].chars) :
                 Cuts(text, l, max)[i] = CutStep(text, l, max, Cuts(text, l, max)[i - 1], i)
  <1> DEFINE n == Len(text[l].chars)
             S == [out : Seq([gap : Nat, line : Nat, from : Nat, to : Nat]), start : Nat]
             F == [i \in 1..n |-> [s \in S |-> CutStep(text, l, max, s, i)]]
             a == Cuts(text, l, max)
  <1>1. n \in Nat
    BY WholeLine
  <1>2. NoCut \in S
    BY DEF NoCut
  <1>3. F \in [1..n -> [S -> S]]
    <2> SUFFICES ASSUME NEW i \in 1..n, NEW s \in S PROVE CutStep(text, l, max, s, i) \in S
      OBVIOUS
    <2>1. Span(0, l, s.start, i - 1) \in [gap : Nat, line : Nat, from : Nat, to : Nat]
      BY DEF Span
    <2>2. Append(s.out, Span(0, l, s.start, i - 1)) \in Seq([gap : Nat, line : Nat, from : Nat, to : Nat])
      BY <2>1, AppendProperties
    <2> QED BY <2>2 DEF CutStep
  <1>4. \A i \in 1..n : \A s \in S : F[i][s] = CutStep(text, l, max, s, i)
    OBVIOUS
  <1>5. a = CHOOSE g : g = [i \in 0..n |-> IF i = 0 THEN NoCut ELSE CutStep(text, l, max, g[i - 1], i)]
    BY DEF Cuts
  <1> HIDE DEF F, a, n, S
  <1>6. PICK g : Loops(g, S, n, NoCut, F)
    BY <1>1, <1>2, <1>3, Loop
  <1>7. g \in [0..n -> S] /\ g[0] = NoCut /\ \A i \in 1..n : g[i] = F[i][g[i - 1]]
    BY <1>6 DEF Loops
  <1>8. \A i \in 1..n : g[i] = CutStep(text, l, max, g[i - 1], i)
    <2> TAKE i \in 1..n
    <2>1. i - 1 \in 0..n
      BY <1>1
    <2> QED BY <1>4, <1>7, <2>1
  <1>9. g = [i \in 0..n |-> IF i = 0 THEN NoCut ELSE CutStep(text, l, max, g[i - 1], i)]
    BY <1>1, <1>7, <1>8
  <1>10. a = [i \in 0..n |-> IF i = 0 THEN NoCut ELSE CutStep(text, l, max, a[i - 1], i)]
    BY <1>5, <1>9, Zenon
  <1>11. a[0] = NoCut /\ \A i \in 1..n : a[i] = CutStep(text, l, max, a[i - 1], i)
    BY <1>1, <1>10
  <1> QED BY <1>11 DEF a, n

\* After i characters: pieces that fit up to where the next one begins, which the
\* last piece could not have been longer by, and what follows fits so far.
CutInv(text, l, max, s, i) ==
    /\ s.start \in Nat /\ 1 <= s.start /\ (s.start = 1 \/ s.start <= i)
    /\ s.out \in Seq(Spans(text)) /\ Pieces(text, max, s.out) /\ Joints(text, max, s.out)
    /\ s.out = <<>> <=> s.start = 1
    /\ s.out # <<>> => /\ s.out[1].line = l /\ s.out[1].from = 1
                       /\ width(text, s.out[Len(s.out)]) + text[l].chars[s.start] > max
    /\ Sums(text[l].chars)[i] - Sums(text[l].chars)[s.start - 1] <= max
    /\ Reads(s.out) = Covers(Span(0, l, 1, s.start - 1))

\* s is r with a span more.
OneMoreSpan(text, max, r, x, s) ==
    /\ s \in Seq(Spans(text)) /\ s # <<>>
    /\ Pieces(text, max, s) /\ Joints(text, max, s)
    /\ s[1] = IF r = <<>> THEN x ELSE r[1]
    /\ s[Len(s)] = x
    /\ Reads(s) = Reads(r) \o Covers(x)

\* One more span at the end of pieces.
LEMMA PiecesAppend ==
    ASSUME NEW text \in Seq(Line), NEW max \in Nat, NEW r \in Seq(Spans(text)),
           NEW x \in Spans(text), Pieces(text, max, r), Joints(text, max, r),
           x.gap = 0, width(text, x) <= max, r # <<>> => Joint(text, max, r[Len(r)], x)
    PROVE  OneMoreSpan(text, max, r, x, Append(r, x))
  <1> DEFINE s == Append(r, x)
             n == Len(r)
  <1>1. /\ n \in Nat /\ s \in Seq(Spans(text)) /\ s # <<>> /\ Len(s) = n + 1
        /\ \A i \in 1..n : s[i] = r[i]
        /\ s[n + 1] = x
    BY AppendProperties
  <1>2. r = <<>> <=> n = 0
    BY EmptySeq
  <1>3. s = r \o <<x>> /\ <<x>> \in Seq(Spans(text))
    BY AppendIsConcat
  <1>4. Reads(s) = Reads(r) \o Covers(x)
    BY <1>3, ReadsConcat
  <1> HIDE DEF s, n
  <1>5. Pieces(text, max, s)
    <2> SUFFICES ASSUME NEW i \in 1..(n + 1) PROVE s[i].gap = 0 /\ width(text, s[i]) <= max
      BY <1>1 DEF Pieces
    <2>1. CASE i \in 1..n
      BY <1>1, <2>1 DEF Pieces, n
    <2>2. CASE i = n + 1
      BY <1>1, <2>2
    <2> QED BY <1>1, <2>1, <2>2
  <1>6. Joints(text, max, s)
    <2> SUFFICES ASSUME NEW i \in 2..(n + 1) PROVE Joint(text, max, s[i - 1], s[i])
      BY <1>1 DEF Joints
    <2>1. CASE i \in 2..n
      <3>1. i \in 1..n /\ i - 1 \in 1..n
        BY <1>1, <2>1
      <3>2. s[i] = r[i] /\ s[i - 1] = r[i - 1]
        BY <1>1, <3>1
      <3>3. Joint(text, max, r[i - 1], r[i])
        BY <2>1 DEF Joints, n
      <3> QED BY <3>2, <3>3
    <2>2. CASE i = n + 1
      <3>1. i - 1 = n /\ n \in 1..n /\ n # 0
        BY <1>1, <2>2
      <3>2. s[i - 1] = r[n] /\ s[i] = x
        BY <1>1, <2>2, <3>1
      <3>3. Joint(text, max, r[n], x)
        BY <1>2, <3>1 DEF n
      <3> QED BY <3>2, <3>3
    <2> QED BY <1>1, <2>1, <2>2
  <1>7. s[1] = IF r = <<>> THEN x ELSE r[1]
    BY <1>1, <1>2
  <1>8. s[Len(s)] = x
    BY <1>1
  <1>9. OneMoreSpan(text, max, r, x, s)
    BY <1>1, <1>4, <1>5, <1>6, <1>7, <1>8 DEF OneMoreSpan
  <1> QED BY <1>9 DEF s

\* The loop keeps that.
LEMMA CutStepKeeps ==
    ASSUME NEW text \in Seq(Line), NEW l \in 1..Len(text), NEW max \in Nat, max >= 4,
           NEW s, NEW i \in 1..Len(text[l].chars), CutInv(text, l, max, s, i - 1)
    PROVE  CutInv(text, l, max, CutStep(text, l, max, s, i), i)
  <1> DEFINE chars == text[l].chars
             at == Sums(chars)
             n == Len(chars)
             b == s.start
  <1>1. chars \in Seq(1..4) /\ n \in Nat /\ i \in 1..n
    BY WholeLine
  <1>2. b \in Nat /\ 1 <= b /\ (b = 1 \/ b <= i - 1) /\ b <= i
    BY <1>1 DEF CutInv
  <1>3. /\ at \in [0..n -> Nat] /\ \A j \in 1..n : at[j] = at[j - 1] + chars[j]
    BY <1>1, SumsGrow, SumsDef
  <1>4. \A j \in 0..n : \A k \in j..n : at[j] + (k - j) <= at[k]
    BY <1>1, SumsGrow
  <1>5. \A j \in 1..n : chars[j] \in 1..4
    BY <1>1
  <1> HIDE DEF at, n, chars
  <1>6. i \in 1..n /\ i - 1 \in 0..n /\ i \in 0..n /\ b - 1 \in 0..n /\ b \in 1..n /\ b \in 0..n
    BY <1>1, <1>2
  <1>7. at[i - 1] - at[b - 1] <= max
    BY DEF CutInv, at, chars
  <1>8. at[i] \in Nat /\ at[i - 1] \in Nat /\ at[b - 1] \in Nat /\ at[b] \in Nat
    BY <1>3, <1>6
  <1>9. at[i] = at[i - 1] + chars[i] /\ chars[i] \in 1..4 /\ at[b] = at[b - 1] + chars[b]
        /\ chars[b] \in 1..4
    BY <1>3, <1>5, <1>6
  <1>10. CASE ~(at[i] - at[b - 1] > max)
    <2>1. CutStep(text, l, max, s, i) = s
      BY <1>10 DEF CutStep, at, chars
    <2>2. at[i] - at[b - 1] <= max
      BY <1>8, <1>10
    <2>3. b = 1 \/ b <= i
      BY <1>2
    <2> QED BY <2>1, <2>2, <2>3 DEF CutInv, at, chars
  <1>11. CASE at[i] - at[b - 1] > max
    <2> DEFINE x == Span(0, l, b, i - 1)
               r == Append(s.out, x)
               t == [out |-> r, start |-> i]
    <2>1. CutStep(text, l, max, s, i) = t
      BY <1>11 DEF CutStep, at, chars
    <2>2. b <= i - 1
      <3> SUFFICES ASSUME b = i PROVE FALSE
        BY <1>1, <1>2
      <3>1. at[i] - at[i - 1] > max
        BY <1>11
      <3> QED BY <1>8, <1>9, <3>1
    <2>3. x \in Spans(text) /\ x.gap = 0 /\ x.line = l /\ x.from = b /\ x.to = i - 1
          /\ width(text, x) = at[i - 1] - at[b - 1]
      <3>1. i - 1 \in Nat /\ b <= (i - 1) + 1 /\ i - 1 <= n
        BY <1>1, <1>2
      <3> QED BY <1>2, <3>1, PieceSpan DEF at, n, chars
    <2>4. at[b] <= at[i - 1]
      <3>1. b \in 0..n /\ i - 1 \in b..n
        BY <1>1, <1>2, <2>2
      <3>2. at[b] + ((i - 1) - b) <= at[i - 1]
        BY <1>4, <3>1
      <3>3. (i - 1) - b \in Nat
        BY <1>1, <1>2, <2>2
      <3> QED BY <1>8, <3>2, <3>3
    <2> HIDE DEF x, b
    <2>5. width(text, x) = at[i - 1] - at[b - 1]
      BY <2>3
    <2>6. chars[b] \in Int /\ chars[i] \in Int
           /\ at[b] = at[b - 1] + chars[b] /\ at[i] = at[i - 1] + chars[i]
      BY <1>9
    <2>7. width(text, x) <= max /\ width(text, x) >= chars[b]
      BY <1>7, <1>8, <2>4, <2>5, <2>6, SMTT(30)
    <2>8. width(text, x) + chars[i] > max
      BY <1>8, <1>11, <2>5, <2>6, SMTT(30)
    <2>9. s.out # <<>> => Joint(text, max, s.out[Len(s.out)], x)
      <3> SUFFICES ASSUME s.out # <<>> PROVE Joint(text, max, s.out[Len(s.out)], x)
        OBVIOUS
      <3> DEFINE y == s.out[Len(s.out)]
      <3>1. width(text, y) + chars[b] > max
        BY DEF CutInv, chars, b
      <3>2. y \in Spans(text)
        BY DEF CutInv
      <3>3. width(text, y) \in Nat /\ width(text, x) \in Nat
        BY <2>3, <3>2, SpanWidth
      <3> HIDE DEF y
      <3>4. width(text, y) + width(text, x) > max
        BY <1>9, <2>7, <3>1, <3>3
      <3> QED BY <3>4 DEF Joint, y
    <2>10. s.out \in Seq(Spans(text)) /\ Pieces(text, max, s.out) /\ Joints(text, max, s.out)
      BY DEF CutInv
    <2>11. OneMoreSpan(text, max, s.out, x, r)
      BY <2>3, <2>7, <2>9, <2>10, PiecesAppend
    <2> HIDE DEF r
    <2>12. /\ r \in Seq(Spans(text)) /\ Pieces(text, max, r) /\ Joints(text, max, r) /\ r # <<>>
           /\ r[1] = IF s.out = <<>> THEN x ELSE s.out[1]
           /\ r[Len(r)] = x /\ Reads(r) = Reads(s.out) \o Covers(x)
      BY <2>11 DEF OneMoreSpan
    <2>13. Reads(r) = Covers(Span(0, l, 1, i - 1))
      <3>1. Reads(s.out) = Covers(Span(0, l, 1, b - 1))
        BY DEF CutInv, b
      <3>2. b - 1 \in Nat /\ i - 1 \in Nat /\ b - 1 <= i - 1 /\ i - 1 <= n
        BY <1>1, <1>2
      <3>3. CoversSplitAt(l, b - 1, i - 1)
        BY <3>2, CoversSplit DEF n, chars
      <3>4. (b - 1) + 1 = b
        BY <1>2
      <3> QED BY <2>12, <3>1, <3>3, <3>4 DEF CoversSplitAt, x
    <2>14. t.out = r /\ t.start = i
      OBVIOUS
    <2>15. r[1].line = l /\ r[1].from = 1
      <3>1. CASE s.out = <<>>
        BY <2>3, <2>12, <3>1 DEF CutInv, b
      <3>2. CASE s.out # <<>>
        BY <2>12, <3>2 DEF CutInv
      <3> QED BY <3>1, <3>2
    <2>16. i # 1 /\ i \in Nat /\ 1 <= i /\ i <= i
      BY <1>1, <1>2, <2>2
    <2>17. at[i] - at[i - 1] <= max
      BY <1>8, <1>9, SMTT(30)
    <2>18. width(text, r[Len(r)]) + chars[i] > max
      BY <2>8, <2>12
    <2> HIDE DEF t
    <2> QED
      BY <2>1, <2>12, <2>13, <2>14, <2>15, <2>16, <2>17, <2>18
      DEF CutInv, at, chars
  <1> QED BY <1>10, <1>11

\* split_chars cuts a line into pieces that fit and say what it says.
LEMMA SplitChars ==
    ASSUME NEW text \in Seq(Line), NEW l \in 1..Len(text), NEW max \in Nat, max >= 4,
           ~blank(text[l])
    PROVE  Torn(text, max, split_chars(text, l, max), l, l)
  <1> DEFINE chars == text[l].chars
             at == Sums(chars)
             n == Len(chars)
             g == Cuts(text, l, max)
  <1>1. chars \in Seq(1..4) /\ n \in Nat \ {0}
    <2>1. chars \in Seq(1..4) /\ chars # <<>>
      BY WholeLine DEF blank
    <2> QED BY <2>1
  <1>2. g[0] = NoCut /\ \A i \in 1..n : g[i] = CutStep(text, l, max, g[i - 1], i)
    BY CutsDef
  <1>3. split_chars(text, l, max) = Append(g[n].out, Span(0, l, g[n].start, n))
    BY SplitCharsCuts
  <1> HIDE DEF g
  <1> DEFINE T == {i \in 0..n : CutInv(text, l, max, g[i], i)}
  <1>4. 0 \in T
    <2>1. NoCut.out = <<>> /\ NoCut.start = 1 /\ 1 - 1 = 0 /\ 0 \in 0..n
      BY <1>1 DEF NoCut
    <2>2. at[0] = 0
      BY <1>1, SumsGrow, SumsDef
    <2>3. <<>> \in Seq(Spans(text)) /\ Pieces(text, max, <<>>) /\ Joints(text, max, <<>>)
      BY DEF Pieces, Joints
    <2>4. Reads(<<>>) = Covers(Span(0, l, 1, 0))
      <3> DEFINE x == Span(0, l, 1, 0)
      <3>1. x \in Spans(text) /\ x.from = 1 /\ x.to = 0
        <4>1. 0 <= Len(text[l].chars) /\ 1 <= 0 + 1
          BY <1>1
        <4> QED BY <4>1, PieceSpan
      <3> HIDE DEF x
      <3>2. Covers(x) \in Seq(Char) /\ Len(Covers(x)) = (0 + 1) - 1
        BY <3>1, SpanCovers
      <3>3. Covers(x) = <<>>
        BY <3>2
      <3> QED BY <3>3, ReadsConcat DEF x
    <2>5. CutInv(text, l, max, NoCut, 0)
      BY <2>1, <2>2, <2>3, <2>4 DEF CutInv
    <2> QED BY <1>2, <2>1, <2>5
  <1>5. ASSUME NEW i \in 1..n, i - 1 \in T PROVE i \in T
    <2>1. CutInv(text, l, max, g[i - 1], i - 1)
      BY <1>5
    <2>2. CutInv(text, l, max, CutStep(text, l, max, g[i - 1], i), i)
      BY <2>1, CutStepKeeps
    <2> QED BY <1>2, <2>2
  <1>6. \A i \in 0..n : i \in T
    <2> HIDE DEF T, n
    <2> QED BY <1>1, <1>4, <1>5, UpTo
  <1> DEFINE s == g[n]
             b == s.start
             x == Span(0, l, b, n)
             r == Append(s.out, x)
  <1>7. CutInv(text, l, max, s, n)
    BY <1>1, <1>6
  <1> HIDE DEF T, s
  <1>8. b \in Nat /\ 1 <= b /\ b <= n /\ b <= n + 1 /\ n <= n
    BY <1>1, <1>7 DEF CutInv
  <1>9. x \in Spans(text) /\ x.gap = 0 /\ x.line = l /\ x.from = b /\ x.to = n
        /\ width(text, x) = at[n] - at[b - 1]
    BY <1>1, <1>8, PieceSpan
  <1>10. width(text, x) <= max
    BY <1>7, <1>9 DEF CutInv
  <1>11. width(text, x) >= chars[b] /\ chars[b] \in Nat
    <2>1. at \in [0..n -> Nat] /\ \A i \in 1..n : at[i] = at[i - 1] + chars[i]
      BY <1>1, SumsGrow, SumsDef
    <2>2. at[b] = at[b - 1] + chars[b] /\ chars[b] \in Nat
      <3>1. b \in 1..n
        BY <1>1, <1>8
      <3>2. chars[b] \in Nat
        BY <1>1, <3>1
      <3> QED BY <2>1, <3>1, <3>2
    <2>3. at[b] + (n - b) <= at[n]
      <3>1. b \in 0..n /\ n \in b..n
        BY <1>1, <1>8
      <3> QED BY <1>1, <3>1, SumsGrow
    <2>4. width(text, x) = at[n] - at[b - 1]
      BY <1>9
    <2> HIDE DEF at, n, chars, x, b
    <2>5. at[b] \in Nat /\ at[b - 1] \in Nat /\ at[n] \in Nat /\ n - b \in Nat
      <3>1. b \in 0..n /\ b - 1 \in 0..n /\ n \in 0..n /\ n - b \in Nat
        BY <1>1, <1>8
      <3> QED BY <2>1, <3>1
    <2> QED BY <2>2, <2>3, <2>5, <2>4
  <1>12. s.out \in Seq(Spans(text)) /\ Pieces(text, max, s.out) /\ Joints(text, max, s.out)
    BY <1>7 DEF CutInv
  <1> HIDE DEF x
  <1>13. s.out # <<>> => Joint(text, max, s.out[Len(s.out)], x)
    <2> SUFFICES ASSUME s.out # <<>> PROVE Joint(text, max, s.out[Len(s.out)], x)
      OBVIOUS
    <2> DEFINE y == s.out[Len(s.out)]
    <2>1. width(text, y) + chars[b] > max
      BY <1>7 DEF CutInv
    <2>2. y \in Spans(text)
      BY <1>12
    <2>3. width(text, y) \in Nat /\ width(text, x) \in Nat
      BY <1>9, <2>2, SpanWidth
    <2> HIDE DEF y
    <2>4. width(text, y) + width(text, x) > max
      BY <1>11, <2>1, <2>3
    <2> QED BY <2>4 DEF Joint, y
  <1>14. split_chars(text, l, max) = r /\ OneMoreSpan(text, max, s.out, x, r)
    BY <1>3, <1>9, <1>10, <1>12, <1>13, PiecesAppend DEF s, x
  <1> HIDE DEF r
  <1>15. /\ r \in Seq(Spans(text)) /\ Pieces(text, max, r) /\ Joints(text, max, r) /\ r # <<>>
         /\ r[1] = IF s.out = <<>> THEN x ELSE s.out[1]
         /\ r[Len(r)] = x /\ Reads(r) = Reads(s.out) \o Covers(x)
    BY <1>14 DEF OneMoreSpan
  <1>16. r[1].line = l /\ r[1].from = 1
    <2>1. CASE s.out = <<>>
      BY <1>7, <1>9, <1>15, <2>1 DEF CutInv
    <2>2. CASE s.out # <<>>
      BY <1>7, <1>15, <2>2 DEF CutInv
    <2> QED BY <2>1, <2>2
  <1>17. Reads(r) = Rows(text, l, l)
    <2>1. Reads(s.out) = Covers(Span(0, l, 1, b - 1))
      BY <1>7 DEF CutInv
    <2>2. b - 1 \in Nat /\ b - 1 <= n /\ (b - 1) + 1 = b
      BY <1>1, <1>8
    <2>3. CoversSplitAt(l, b - 1, n)
      BY <1>1, <2>2, CoversSplit
    <2>4. Reads(r) = Covers(Span(0, l, 1, n))
      BY <1>15, <2>1, <2>2, <2>3 DEF CoversSplitAt, x
    <2>5. Span(0, l, 1, n) = Whole(text, 0, l)
      BY DEF Whole
    <2> QED BY <2>4, <2>5, WholeLine, RowsFew
  <1>18. Torn(text, max, r, l, l)
    BY <1>9, <1>15, <1>16, <1>17 DEF Torn
  <1> QED BY <1>14, <1>18

\* Lines a..b in pieces, then lines b + 1..c in pieces.
LEMMA TornJoins ==
    ASSUME NEW text \in Seq(Line), NEW max \in Nat, NEW a, NEW b, NEW c, NEW r, NEW s,
           Interval(text, a, b), Interval(text, b + 1, c),
           Torn(text, max, r, a, b), Torn(text, max, s, b + 1, c)
    PROVE  Torn(text, max, r \o s, a, c)
  <1> DEFINE u == r \o s
             n == Len(r)
             m == Len(s)
             S == Spans(text)
  <1>1. r \in Seq(S) /\ r # <<>> /\ Pieces(text, max, r) /\ Joints(text, max, r)
        /\ r[1].line = a /\ r[1].from = 1 /\ r[n].line = b /\ r[n].to = Len(text[b].chars)
        /\ Reads(r) = Rows(text, a, b)
    BY DEF Torn
  <1>2. s \in Seq(S) /\ s # <<>> /\ Pieces(text, max, s) /\ Joints(text, max, s)
        /\ s[1].line = b + 1 /\ s[1].from = 1 /\ s[m].line = c /\ s[m].to = Len(text[c].chars)
        /\ Reads(s) = Rows(text, b + 1, c)
    BY DEF Torn
  <1>3. n \in Nat \ {0} /\ m \in Nat \ {0}
    BY <1>1, <1>2
  <1>4. u \in Seq(S) /\ Len(u) = n + m
        /\ \A i \in 1..(n + m) : u[i] = IF i <= n THEN r[i] ELSE s[i - n]
    BY <1>1, <1>2, ConcatProperties
  <1>5. Reads(u) = Reads(r) \o Reads(s)
    BY <1>1, <1>2, ReadsConcat
  <1>6. Reads(u) = Rows(text, a, c)
    <2>1. RowsSplitAt(text, a, b, c)
      BY RowsSplit
    <2>2. Reads(u) = Rows(text, a, b) \o Rows(text, b + 1, c)
      BY <1>1, <1>2, <1>5
    <2> QED BY <2>1, <2>2 DEF RowsSplitAt
  <1>7. /\ \A i \in 1..n : r[i].gap = 0 /\ width(text, r[i]) <= max
        /\ \A i \in 1..m : s[i].gap = 0 /\ width(text, s[i]) <= max
    BY <1>1, <1>2 DEF Pieces
  <1>8. /\ \A i \in 2..n : Joint(text, max, r[i - 1], r[i])
        /\ \A i \in 2..m : Joint(text, max, s[i - 1], s[i])
    BY <1>1, <1>2 DEF Joints
  <1> HIDE DEF u, n, m, S
  <1>9. Pieces(text, max, u)
    <2> SUFFICES ASSUME NEW i \in 1..(n + m) PROVE u[i].gap = 0 /\ width(text, u[i]) <= max
      BY <1>4 DEF Pieces
    <2>1. CASE i <= n
      <3>1. i \in 1..n /\ u[i] = r[i]
        BY <1>3, <1>4, <2>1
      <3> QED BY <1>7, <3>1
    <2>2. CASE ~(i <= n)
      <3>1. i - n \in 1..m /\ u[i] = s[i - n]
        BY <1>3, <1>4, <2>2
      <3> QED BY <1>7, <3>1
    <2> QED BY <2>1, <2>2
  <1>10. Joints(text, max, u)
    <2> SUFFICES ASSUME NEW i \in 2..(n + m) PROVE Joint(text, max, u[i - 1], u[i])
      BY <1>4 DEF Joints
    <2>0. i \in 1..(n + m) /\ i - 1 \in 1..(n + m)
      BY <1>3
    <2>1. CASE i <= n
      <3>1. i \in 2..n /\ u[i] = r[i] /\ u[i - 1] = r[i - 1]
        BY <1>3, <1>4, <2>0, <2>1
      <3> QED BY <1>8, <3>1
    <2>2. CASE i = n + 1
      <3>1. u[i] = s[i - n] /\ u[i - 1] = r[i - 1] /\ i - n = 1 /\ i - 1 = n
        BY <1>3, <1>4, <2>0, <2>2
      <3>2. u[i] = s[1] /\ u[i - 1] = r[n]
        BY <3>1
      <3> QED BY <1>1, <1>2, <3>2 DEF Joint
    <2>3. CASE i > n + 1
      <3>1. i - n \in 2..m /\ u[i] = s[i - n] /\ u[i - 1] = s[(i - 1) - n] /\ (i - 1) - n = (i - n) - 1
        BY <1>3, <1>4, <2>0, <2>3
      <3> QED BY <1>8, <3>1
    <2> QED BY <1>3, <2>1, <2>2, <2>3
  <1>11. u[1] = r[1] /\ u[Len(u)] = s[m]
    <2>1. 1 \in 1..(n + m) /\ 1 <= n /\ n + m \in 1..(n + m) /\ ~(n + m <= n) /\ (n + m) - n = m
      BY <1>3
    <2> QED BY <1>4, <2>1
  <1>12. u # <<>>
    BY <1>3, <1>4
  <1>13. Torn(text, max, u, a, c)
    BY <1>1, <1>2, <1>4, <1>6, <1>9, <1>10, <1>11, <1>12 DEF Torn, S
  <1> QED BY <1>13 DEF u

LinePieces(text, max) ==
    [l \in 1..Len(text) |-> IF width(text, Whole(text, 0, l)) <= max THEN <<Whole(text, 0, l)>>
                            ELSE split_chars(text, l, max)]

\* A line in pieces.
LEMMA TornLine ==
    ASSUME NEW text \in Seq(Line), NEW l \in 1..Len(text), NEW max \in Nat, max >= 4
    PROVE  Torn(text, max, LinePieces(text, max)[l], l, l)
  <1> DEFINE w == Whole(text, 0, l)
  <1>1. w \in Spans(text) /\ w.gap = 0 /\ w.line = l /\ w.from = 1 /\ w.to = Len(text[l].chars)
        /\ Covers(w) = LineChars(text)[l]
    BY WholeLine
  <1>2. LinePieces(text, max)[l] = IF width(text, w) <= max THEN <<w>> ELSE split_chars(text, l, max)
    BY DEF LinePieces
  <1> HIDE DEF w
  <1>3. CASE width(text, w) <= max
    <2>1. <<w>> \in Seq(Spans(text)) /\ <<w>> # <<>> /\ Len(<<w>>) = 1 /\ <<w>>[1] = w
      BY <1>1
    <2>2. Reads(<<w>>) = Rows(text, l, l)
      BY <1>1, ReadsConcat, RowsFew
    <2>3. Pieces(text, max, <<w>>) /\ Joints(text, max, <<w>>)
      BY <1>1, <1>3, <2>1 DEF Pieces, Joints
    <2>4. Torn(text, max, <<w>>, l, l)
      BY <1>1, <2>1, <2>2, <2>3 DEF Torn
    <2> QED BY <1>2, <1>3, <2>4
  <1>4. CASE ~(width(text, w) <= max)
    <2>1. ~blank(text[l])
      <3> SUFFICES ASSUME blank(text[l]) PROVE FALSE
        OBVIOUS
      <3>1. w = Span(0, l, 1, 0) /\ 0 <= Len(text[l].chars) /\ 1 <= 0 + 1
        BY DEF w, Whole, blank
      <3>2. width(text, w) = Sums(text[l].chars)[0] - Sums(text[l].chars)[1 - 1]
        BY <3>1, PieceSpan
      <3>3. Sums(text[l].chars)[0] = 0
        BY WholeLine, SumsGrow, SumsDef
      <3>4. width(text, w) = 0
        BY <3>2, <3>3
      <3> QED BY <1>4, <3>4
    <2>2. Torn(text, max, split_chars(text, l, max), l, l)
      BY <2>1, SplitChars
    <2> QED BY <1>2, <1>4, <2>2
  <1> QED BY <1>3, <1>4

\* split_lines cuts a paragraph into pieces that fit and say what it says.
LEMMA SplitLines ==
    ASSUME NEW text \in Seq(Line), NEW max \in Nat, max >= 4, NEW p, p[1] <= p[2],
           Interval(text, p[1], p[2])
    PROVE  Torn(text, max, split_lines(text, p, max), p[1], p[2])
  <1> DEFINE f == LinePieces(text, max)
             a == p[1]
             n == p[2] - p[1]
  <1>1. a \in 1..Len(text) /\ n \in Nat /\ p[2] = a + n /\ a + n <= Len(text)
    BY DEF Interval
  <1>2. Maps(f, 1..Len(text), Seq(Spans(text)))
    <2>1. \A l \in 1..Len(text) : f[l] \in Seq(Spans(text))
      BY TornLine DEF Torn
    <2>2. f = [l \in 1..Len(text) |-> f[l]]
      BY DEF LinePieces
    <2> HIDE DEF f
    <2> QED BY <2>1, <2>2 DEF Maps
  <1>3. split_lines(text, p, max) = Gather(f, a, p[2])
    <2> DEFINE q == p[2]
               N == 1..(q - a + 1)
    <2>1. \A i \in N : a + i - 1 \in 1..Len(text)
      BY DEF Interval
    <2>2. Image(f, Count(a, q)) = [i \in N |-> f[a + i - 1]]
      BY DEF Image, Count
    <2>3. split_lines(text, p, max) = FlattenSeq([i \in N |->
             IF width(text, Whole(text, 0, a + i - 1)) <= max THEN <<Whole(text, 0, a + i - 1)>>
             ELSE split_chars(text, a + i - 1, max)])
      BY DEF split_lines
    <2>4. \A i \in N : f[a + i - 1] =
             IF width(text, Whole(text, 0, a + i - 1)) <= max THEN <<Whole(text, 0, a + i - 1)>>
             ELSE split_chars(text, a + i - 1, max)
      BY <2>1 DEF LinePieces
    <2>5. [i \in N |-> f[a + i - 1]] = [i \in N |->
             IF width(text, Whole(text, 0, a + i - 1)) <= max THEN <<Whole(text, 0, a + i - 1)>>
             ELSE split_chars(text, a + i - 1, max)]
      BY <2>4
    <2> HIDE DEF N, q, a, f
    <2>6. split_lines(text, p, max) = FlattenSeq(Image(f, Count(a, q)))
      BY <2>2, <2>3, <2>5, Zenon
    <2> QED BY <2>6 DEF Gather, q
  <1> HIDE DEF f, a, n
  <1> DEFINE T == {k \in 0..n : Torn(text, max, Gather(f, a, a + k), a, a + k)}
  <1>4. 0 \in T
    <2>1. a + 0 = a /\ 0 \in 0..n
      BY <1>1
    <2>2. Gather(f, a, a) = f[a]
      BY <1>1, <1>2, GatherOne
    <2>3. Torn(text, max, f[a], a, a)
      BY <1>1, TornLine DEF f
    <2> QED BY <2>1, <2>2, <2>3
  <1>5. ASSUME NEW k \in 1..n, k - 1 \in T PROVE k \in T
    <2> DEFINE b == a + (k - 1)
               c == a + k
    <2>1. b + 1 = c /\ c \in 1..Len(text) /\ Interval(text, a, b) /\ Interval(text, c, c)
      BY <1>1 DEF Interval
    <2>2. Torn(text, max, Gather(f, a, b), a, b)
      BY <1>5
    <2> HIDE DEF b, c
    <2>3. GatherSplitAt(f, a, b, c)
      BY <1>2, <2>1, GatherSplit
    <2>4. Gather(f, c, c) = f[c]
      BY <1>2, <2>1, GatherOne
    <2>5. Torn(text, max, f[c], c, c)
      BY <2>1, TornLine DEF f
    <2>6. Torn(text, max, Gather(f, a, b) \o f[c], a, c)
      BY <2>1, <2>2, <2>5, TornJoins
    <2>7. Gather(f, a, c) = Gather(f, a, b) \o f[c]
      BY <2>1, <2>3, <2>4 DEF GatherSplitAt
    <2>8. Torn(text, max, Gather(f, a, c), a, c)
      BY <2>6, <2>7
    <2> QED BY <1>1, <2>8 DEF c
  <1>6. \A k \in 0..n : k \in T
    <2> HIDE DEF T
    <2> QED BY <1>1, <1>4, <1>5, UpTo
  <1>7. Torn(text, max, Gather(f, a, a + n), a, a + n)
    BY <1>1, <1>6
  <1> QED BY <1>1, <1>3, <1>7 DEF a
-----------------------------------------------------------------------------
(***************************************************************************)
(* The chunks.  What is in them and in the one under way is what was put   *)
(* in, in order; all fit; and in none is a line torn apart.                *)
(***************************************************************************)
State(text) == [chunks : Seq(Seq(Spans(text))), current : Seq(Spans(text))]
Neat(text, c) ==
    \A i \in 2..Len(c) : /\ c[i - 1].to = Len(text[c[i - 1].line].chars)
                         /\ c[i].from = 1
                         /\ c[i].gap \in 1..(c[i].line - c[i - 1].line)
Closed(text, max, chunks) ==
    \A c \in 1..Len(chunks) : len(text, chunks[c]) \in 1..max /\ Neat(text, chunks[c])
ChunkInv(text, max, s, shown) ==
    /\ s \in State(text)
    /\ Closed(text, max, s.chunks)
    /\ len(text, s.current) <= max /\ Neat(text, s.current)
    /\ shown = Shown(s.chunks) \o Reads(s.current)

LinesOf(c) == {x.line : x \in ToSet(c)}
Holds(text, s, a, b) ==
    \/ \E c \in 1..Len(s.chunks) : a..b \subseteq LinesOf(s.chunks[c])
    \/ len(text, s.current) # 0 /\ a..b \subseteq LinesOf(s.current)

\* A piece that fits, and when it may be joined to the chunk under way.
Fits(text, max, piece) ==
    /\ piece \in Seq(Spans(text)) /\ piece # <<>>
    /\ piece[1].gap = 0 /\ len(text, piece) <= max /\ Neat(text, piece)
Joins(text, max, c, piece, sep) ==
    len(text, c) # 0 /\ len(text, c) + sep + len(text, piece) <= max =>
        /\ c[Len(c)].to = Len(text[c[Len(c)].line].chars)
        /\ piece[1].from = 1
        /\ sep \in 1..(piece[1].line - c[Len(c)].line)

\* A piece was put in: t is s with it.
Put(text, max, s, t, piece, shown) ==
    /\ ChunkInv(text, max, t, shown \o Reads(piece))
    /\ t.current # <<>>
    /\ t.current[Len(t.current)].line = piece[Len(piece)].line
    /\ t.current[Len(t.current)].to = piece[Len(piece)].to
    /\ len(text, t.current) >= len(text, piece)
    /\ LinesOf(piece) \subseteq LinesOf(t.current)
    /\ \A a, b : Holds(text, s, a, b) => Holds(text, t, a, b)

\* What has been closed and one chunk more.
LEMMA ShownAppend ==
    ASSUME NEW text \in Seq(Line), NEW chunks \in Seq(Seq(Spans(text))), NEW c \in Seq(Spans(text))
    PROVE  /\ Shown(Append(chunks, c)) = Shown(chunks) \o Reads(c)
           /\ Shown(chunks) \in Seq(Char) /\ Reads(c) \in Seq(Char)
           /\ Shown(<<>>) = <<>>
  <1>1. FlattenSeq(Append(chunks, c)) = FlattenSeq(chunks) \o c
        /\ FlattenSeq(chunks) \in Seq(Spans(text)) /\ FlattenSeq(<<>>) = <<>>
    BY FlattenAppend
  <1>2. Reads(FlattenSeq(chunks) \o c) = Reads(FlattenSeq(chunks)) \o Reads(c)
        /\ Reads(FlattenSeq(chunks)) \in Seq(Char) /\ Reads(c) \in Seq(Char) /\ Reads(<<>>) = <<>>
    BY <1>1, ReadsConcat
  <1> QED BY <1>1, <1>2 DEF Shown

\* Another chunk under way.
LEMMA OtherCurrent ==
    ASSUME NEW A, NEW B, NEW s \in [chunks : A, current : B], NEW c
    PROVE  [s EXCEPT !.current = c] = [chunks |-> s.chunks, current |-> c]
  OBVIOUS

\* A chunk under way and those closed, one by one.
LEMMA ChunkParts ==
    ASSUME NEW text \in Seq(Line), NEW max \in Nat, NEW s, NEW shown, ChunkInv(text, max, s, shown)
    PROVE  /\ s.chunks \in Seq(Seq(Spans(text))) /\ s.current \in Seq(Spans(text))
           /\ Closed(text, max, s.chunks) /\ Neat(text, s.current)
           /\ len(text, s.current) \in Nat /\ len(text, s.current) <= max
           /\ shown = Shown(s.chunks) \o Reads(s.current)
           /\ Shown(s.chunks) \in Seq(Char) /\ Reads(s.current) \in Seq(Char) /\ shown \in Seq(Char)
           /\ \A c : [s EXCEPT !.current = c] = [chunks |-> s.chunks, current |-> c]
  <1>1. s \in State(text) /\ Closed(text, max, s.chunks) /\ Neat(text, s.current)
        /\ len(text, s.current) <= max /\ shown = Shown(s.chunks) \o Reads(s.current)
    BY DEF ChunkInv
  <1>2. s.chunks \in Seq(Seq(Spans(text))) /\ s.current \in Seq(Spans(text))
    BY <1>1 DEF State
  <1>3. len(text, s.current) \in Nat
    BY <1>2, LenConcat
  <1>4. Shown(s.chunks) \in Seq(Char) /\ Reads(s.current) \in Seq(Char)
    BY <1>2, ShownAppend
  <1>5. shown \in Seq(Char)
    BY <1>1, <1>4, ConcatProperties
  <1>6. ASSUME NEW c PROVE [s EXCEPT !.current = c] = [chunks |-> s.chunks, current |-> c]
    BY <1>1, OtherCurrent DEF State
  <1> QED BY <1>1, <1>2, <1>3, <1>4, <1>5, <1>6

\* The same the other way round.
LEMMA ChunkMade ==
    ASSUME NEW text \in Seq(Line), NEW max \in Nat,
           NEW chunks \in Seq(Seq(Spans(text))), NEW c \in Seq(Spans(text)),
           Closed(text, max, chunks), len(text, c) <= max, Neat(text, c)
    PROVE  ChunkInv(text, max, [chunks |-> chunks, current |-> c], Shown(chunks) \o Reads(c))
  <1> DEFINE t == [chunks |-> chunks, current |-> c]
  <1>1. t.chunks = chunks /\ t.current = c /\ t \in State(text)
    BY DEF State
  <1> HIDE DEF t
  <1>2. ChunkInv(text, max, t, Shown(chunks) \o Reads(c))
    BY <1>1 DEF ChunkInv
  <1> QED BY <1>2 DEF t

\* flush closes the chunk under way, if there is anything in it.
LEMMA FlushInv ==
    ASSUME NEW text \in Seq(Line), NEW max \in Nat, NEW s, NEW shown, ChunkInv(text, max, s, shown)
    PROVE  /\ ChunkInv(text, max, flush(text, s), shown)
           /\ len(text, flush(text, s).current) = 0
           /\ \A a, b : Holds(text, s, a, b) => Holds(text, flush(text, s), a, b)
  <1>1. CASE len(text, s.current) = 0
    BY <1>1 DEF flush
  <1>2. CASE len(text, s.current) # 0
    <2> DEFINE r == Append(s.chunks, s.current)
               t == [chunks |-> r, current |-> <<>>]
               n == Len(s.chunks)
    <2>1. flush(text, s) = t
      BY <1>2 DEF flush
    <2>2. s \in State(text) /\ s.chunks \in Seq(Seq(Spans(text))) /\ s.current \in Seq(Spans(text))
      BY DEF ChunkInv, State
    <2>3. r \in Seq(Seq(Spans(text))) /\ Len(r) = n + 1 /\ r[n + 1] = s.current /\ n \in Nat
          /\ \A i \in 1..n : r[i] = s.chunks[i]
      BY <2>2, AppendProperties
    <2>4. Shown(r) = Shown(s.chunks) \o Reads(s.current) /\ Shown(r) \in Seq(Char)
      BY <2>2, <2>3, ShownAppend
    <2> HIDE DEF r, n
    <2>5. t.chunks = r /\ t.current = <<>> /\ t \in State(text)
      BY <2>3 DEF State
    <2> HIDE DEF t
    <2>6. Closed(text, max, r)
      <3> SUFFICES ASSUME NEW i \in 1..(n + 1)
                   PROVE  len(text, r[i]) \in 1..max /\ Neat(text, r[i])
        BY <2>3 DEF Closed
      <3>1. CASE i \in 1..n
        BY <2>3, <3>1 DEF ChunkInv, Closed, n
      <3>2. CASE i = n + 1
        <4>1. len(text, s.current) \in Nat
          BY <2>2, LenConcat
        <4>2. len(text, s.current) <= max /\ Neat(text, s.current)
          BY DEF ChunkInv
        <4> QED BY <1>2, <2>3, <3>2, <4>1, <4>2
      <3> QED BY <2>3, <3>1, <3>2
    <2>7. len(text, <<>>) = 0 /\ Neat(text, <<>>) /\ Reads(<<>>) = <<>>
      BY LenConcat, ReadsConcat DEF Neat
    <2>8. shown = Shown(r) \o <<>>
      <3>1. shown = Shown(r)
        BY <2>4 DEF ChunkInv
      <3>2. Shown(r) \o <<>> = Shown(r)
        BY <2>4, ConcatEmptySeq
      <3> QED BY <3>1, <3>2
    <2>9. ChunkInv(text, max, t, shown)
      <3>1. <<>> \in Seq(Spans(text)) /\ len(text, <<>>) <= max
        BY <2>7
      <3>2. ChunkInv(text, max, [chunks |-> r, current |-> <<>>], Shown(r) \o Reads(<<>>))
        BY <2>3, <2>6, <2>7, <3>1, ChunkMade
      <3> QED BY <2>7, <2>8, <3>2 DEF t
    <2>10. ASSUME NEW a, NEW b, Holds(text, s, a, b) PROVE Holds(text, t, a, b)
      <3>1. CASE \E c \in 1..n : a..b \subseteq LinesOf(s.chunks[c])
        <4>1. PICK c \in 1..n : a..b \subseteq LinesOf(s.chunks[c])
          BY <3>1
        <4>2. c \in 1..Len(r) /\ r[c] = s.chunks[c]
          BY <2>3
        <4> QED BY <2>5, <4>1, <4>2 DEF Holds
      <3>2. CASE a..b \subseteq LinesOf(s.current)
        <4>1. n + 1 \in 1..Len(r) /\ r[n + 1] = s.current
          BY <2>3
        <4> QED BY <2>5, <3>2, <4>1 DEF Holds
      <3> QED BY <2>10, <3>1, <3>2 DEF Holds, n
    <2> QED BY <2>1, <2>5, <2>7, <2>9, <2>10
  <1> QED BY <1>1, <1>2

\* Two parts of a chunk, the second not torn from the first.
LEMMA NeatConcat ==
    ASSUME NEW text \in Seq(Line), NEW c \in Seq(Spans(text)), NEW d \in Seq(Spans(text)),
           c # <<>>, d # <<>>, Neat(text, c), Neat(text, d),
           c[Len(c)].to = Len(text[c[Len(c)].line].chars), d[1].from = 1,
           d[1].gap \in 1..(d[1].line - c[Len(c)].line)
    PROVE  Neat(text, c \o d)
  <1> DEFINE u == c \o d
             n == Len(c)
             m == Len(d)
  <1>1. n \in Nat \ {0} /\ m \in Nat \ {0}
    OBVIOUS
  <1>2. Len(u) = n + m /\ \A i \in 1..(n + m) : u[i] = IF i <= n THEN c[i] ELSE d[i - n]
    BY ConcatProperties
  <1>3. \A i \in 2..n : /\ c[i - 1].to = Len(text[c[i - 1].line].chars)
                        /\ c[i].from = 1
                        /\ c[i].gap \in 1..(c[i].line - c[i - 1].line)
    BY DEF Neat
  <1>4. \A i \in 2..m : /\ d[i - 1].to = Len(text[d[i - 1].line].chars)
                        /\ d[i].from = 1
                        /\ d[i].gap \in 1..(d[i].line - d[i - 1].line)
    BY DEF Neat
  <1>5. /\ c[n].to = Len(text[c[n].line].chars) /\ d[1].from = 1
        /\ d[1].gap \in 1..(d[1].line - c[n].line)
    OBVIOUS
  <1> HIDE DEF u, n, m
  <1>6. ASSUME NEW i \in 2..(n + m)
        PROVE  /\ u[i - 1].to = Len(text[u[i - 1].line].chars)
               /\ u[i].from = 1
               /\ u[i].gap \in 1..(u[i].line - u[i - 1].line)
    <2>0. i \in 1..(n + m) /\ i - 1 \in 1..(n + m)
      BY <1>1
    <2>1. CASE i <= n
      <3>1. i \in 2..n /\ u[i] = c[i] /\ u[i - 1] = c[i - 1]
        BY <1>1, <1>2, <2>0, <2>1
      <3> QED BY <1>3, <3>1
    <2>2. CASE i = n + 1
      <3>1. u[i] = d[i - n] /\ u[i - 1] = c[i - 1] /\ i - n = 1 /\ i - 1 = n
        BY <1>1, <1>2, <2>0, <2>2
      <3>2. u[i] = d[1] /\ u[i - 1] = c[n]
        BY <3>1
      <3> QED BY <1>5, <3>2
    <2>3. CASE i > n + 1
      <3>1. i - n \in 2..m /\ u[i] = d[i - n] /\ u[i - 1] = d[(i - 1) - n] /\ (i - 1) - n = (i - n) - 1
        BY <1>1, <1>2, <2>0, <2>3
      <3> QED BY <1>4, <3>1
    <2> QED BY <1>1, <2>1, <2>2, <2>3
  <1>7. Neat(text, u)
    BY <1>2, <1>6 DEF Neat
  <1> QED BY <1>7 DEF u

\* c with d after it, which is the piece with a separator before it.
Follows(c, piece, sep, d) ==
    /\ LinesOf(c) \subseteq LinesOf(c \o d)
    /\ LinesOf(piece) \subseteq LinesOf(c \o d)
    /\ d[1].gap = sep
    /\ \A i \in 1..Len(piece) : /\ d[i].line = piece[i].line
                                /\ d[i].from = piece[i].from /\ d[i].to = piece[i].to
    /\ \A i \in 2..Len(piece) : d[i] = piece[i]
    /\ (c \o d)[Len(c \o d)] = d[Len(piece)]

\* The lines a piece is of stay when a separator is put before it.
LEMMA AfterLines ==
    ASSUME NEW text \in Seq(Line), NEW c \in Seq(Spans(text)),
           NEW piece \in Seq(Spans(text)), piece # <<>>, piece[1].gap = 0, NEW sep \in Nat
    PROVE  Follows(c, piece, sep, after(sep, piece))
  <1> DEFINE d == after(sep, piece)
             u == c \o d
             n == Len(c)
             m == Len(piece)
  <1>1. d \in Seq(Spans(text)) /\ Len(d) = m /\ d[1] = [piece[1] EXCEPT !.gap = sep]
        /\ \A i \in 2..m : d[i] = piece[i]
    BY AfterSame
  <1>2. n \in Nat /\ m \in Nat \ {0} /\ piece[1] \in Spans(text)
    OBVIOUS
  <1>3. piece[1] \in [gap : Nat, line : 1..Len(text), from : Nat, to : Nat]
    BY <1>2, SpanParts
  <1>4. d[1].gap = sep /\ d[1].line = piece[1].line /\ d[1].from = piece[1].from /\ d[1].to = piece[1].to
    BY <1>1, <1>3
  <1>5. ASSUME NEW i \in 1..m
        PROVE  d[i].line = piece[i].line /\ d[i].from = piece[i].from /\ d[i].to = piece[i].to
    <2>1. CASE i = 1
      BY <1>4, <2>1
    <2>2. CASE i # 1
      <3>1. i \in 2..m
        BY <2>2
      <3> QED BY <1>1, <3>1
    <2> QED BY <2>1, <2>2
  <1> HIDE DEF d
  <1>6. u \in Seq(Spans(text)) /\ Len(u) = n + m
        /\ \A i \in 1..(n + m) : u[i] = IF i <= n THEN c[i] ELSE d[i - n]
    <2>1. d \in Seq(Spans(text)) /\ Len(d) = m
      BY <1>1
    <2> DEFINE S == Spans(text)
    <2>2. c \in Seq(S) /\ d \in Seq(S)
      BY <2>1
    <2> HIDE DEF S
    <2>3. c \o d \in Seq(S) /\ Len(c \o d) = Len(c) + Len(d)
          /\ \A i \in 1..(Len(c) + Len(d)) : (c \o d)[i] = IF i <= Len(c) THEN c[i] ELSE d[i - Len(c)]
      BY <2>2, ConcatProperties
    <2> QED BY <2>1, <2>3 DEF S
  <1>7. \A x \in ToSet(c) : \E i \in 1..n : x = c[i]
    BY DEF ToSet
  <1>8. \A x \in ToSet(piece) : \E i \in 1..m : x = piece[i]
    BY DEF ToSet
  <1> HIDE DEF u
  <1>9. \A i \in 1..(n + m) : u[i] \in ToSet(u)
    <2>1. DOMAIN u = 1..(n + m)
      BY <1>6
    <2> QED BY <2>1 DEF ToSet
  <1> HIDE DEF n, m
  <1>10. ASSUME NEW x \in ToSet(c) PROVE x.line \in LinesOf(u)
    <2>1. PICK i \in 1..n : x = c[i]
      BY <1>7
    <2>2. i \in 1..(n + m) /\ u[i] = x
      BY <1>2, <1>6, <2>1
    <2> QED BY <1>9, <2>2 DEF LinesOf
  <1>11. ASSUME NEW x \in ToSet(piece) PROVE x.line \in LinesOf(u)
    <2>1. PICK i \in 1..m : x = piece[i]
      BY <1>8
    <2>2. n + i \in 1..(n + m) /\ ~(n + i <= n) /\ (n + i) - n = i
      BY <1>2
    <2>3. u[n + i] = d[i]
      BY <1>6, <2>2
    <2>4. u[n + i].line = x.line
      BY <1>5, <2>1, <2>3
    <2>5. u[n + i] \in ToSet(u)
      BY <1>9, <2>2
    <2> QED BY <2>4, <2>5 DEF LinesOf
  <1>12. u[n + m] = d[m]
    <2>1. n + m \in 1..(n + m) /\ ~(n + m <= n) /\ (n + m) - n = m
      BY <1>2
    <2> QED BY <1>6, <2>1
  <1>13. LinesOf(c) \subseteq LinesOf(u) /\ LinesOf(piece) \subseteq LinesOf(u)
    BY <1>10, <1>11 DEF LinesOf
  <1>14. Follows(c, piece, sep, d)
    BY <1>1, <1>4, <1>5, <1>6, <1>12, <1>13 DEF Follows, u, m
  <1> QED BY <1>14 DEF d

\* append puts the piece in, in the chunk under way or in a new one.
LEMMA AppendInv ==
    ASSUME NEW text \in Seq(Line), NEW max \in Nat, NEW s, NEW shown, ChunkInv(text, max, s, shown),
           NEW piece, Fits(text, max, piece), NEW sep \in Nat, Joins(text, max, s.current, piece, sep)
    PROVE  Put(text, max, s, append(text, s, piece, sep, max), piece, shown)
  <1> DEFINE c == s.current
             n == Len(piece)
  <1>1. /\ s.chunks \in Seq(Seq(Spans(text))) /\ c \in Seq(Spans(text))
        /\ Closed(text, max, s.chunks) /\ Neat(text, c)
        /\ len(text, c) \in Nat /\ len(text, c) <= max
        /\ shown = Shown(s.chunks) \o Reads(c)
        /\ Shown(s.chunks) \in Seq(Char) /\ Reads(c) \in Seq(Char) /\ shown \in Seq(Char)
        /\ \A x : [s EXCEPT !.current = x] = [chunks |-> s.chunks, current |-> x]
    BY ChunkParts
  <1>2. piece \in Seq(Spans(text)) /\ piece # <<>> /\ piece[1].gap = 0
        /\ len(text, piece) <= max /\ Neat(text, piece)
    BY DEF Fits
  <1>3. len(text, piece) \in Nat /\ Reads(piece) \in Seq(Char) /\ n \in Nat \ {0}
    BY <1>2, LenConcat, ReadsConcat
  <1>4. \A x \in Seq(Char) : x \o <<>> = x
    BY ConcatEmptySeq
  <1> HIDE DEF c, n
  <1>5. CASE len(text, c) = 0
    <2> DEFINE t == [chunks |-> s.chunks, current |-> piece]
    <2>1. append(text, s, piece, sep, max) = t
      BY <1>1, <1>5 DEF append, c
    <2>2. shown = Shown(s.chunks)
      <3>1. Reads(c) = <<>>
        BY <1>1, <1>5, EmptyReads
      <3> QED BY <1>1, <1>4, <3>1
    <2>3. ChunkInv(text, max, t, shown \o Reads(piece))
      <3>1. ChunkInv(text, max, t, Shown(s.chunks) \o Reads(piece))
        BY <1>1, <1>2, ChunkMade
      <3> QED BY <2>2, <3>1
    <2>4. t.chunks = s.chunks /\ t.current = piece
      OBVIOUS
    <2>5. \A a, b : Holds(text, s, a, b) => Holds(text, t, a, b)
      BY <1>5, <2>4 DEF Holds, c
    <2> HIDE DEF t
    <2>6. Put(text, max, s, t, piece, shown)
      BY <1>2, <1>3, <2>3, <2>4, <2>5 DEF Put
    <2> QED BY <2>1, <2>6
  <1>6. CASE len(text, c) # 0 /\ len(text, c) + sep + len(text, piece) <= max
    <2> DEFINE d == after(sep, piece)
               u == c \o d
               t == [chunks |-> s.chunks, current |-> u]
    <2>1. append(text, s, piece, sep, max) = t
      <3>1. append(text, s, piece, sep, max) = [s EXCEPT !.current = @ \o d]
        BY <1>6 DEF append, c
      <3>2. [s EXCEPT !.current = @ \o d] = [s EXCEPT !.current = s.current \o d]
        OBVIOUS
      <3> QED BY <1>1, <3>1, <3>2 DEF c
    <2>2. d \in Seq(Spans(text)) /\ len(text, d) = sep + len(text, piece) /\ Reads(d) = Reads(piece)
          /\ Len(d) = n
      BY <1>2, AfterSame DEF n
    <2>3. Follows(c, piece, sep, d)
      BY <1>1, <1>2, AfterLines
    <2>4. /\ LinesOf(c) \subseteq LinesOf(u)
          /\ LinesOf(piece) \subseteq LinesOf(u)
          /\ d[1].gap = sep
          /\ \A i \in 1..n : /\ d[i].line = piece[i].line
                             /\ d[i].from = piece[i].from /\ d[i].to = piece[i].to
          /\ \A i \in 2..n : d[i] = piece[i]
          /\ u[Len(u)] = d[n]
      BY <2>3 DEF Follows, n
    <2>5. u \in Seq(Spans(text)) /\ len(text, u) = len(text, c) + len(text, d)
          /\ Reads(u) = Reads(c) \o Reads(d)
      BY <1>1, <2>2, LenConcat, ReadsConcat, ConcatProperties
    <2> HIDE DEF d
    <2>6. c # <<>>
      BY <1>6, LenConcat
    <2>7. /\ c[Len(c)].to = Len(text[c[Len(c)].line].chars)
          /\ piece[1].from = 1
          /\ sep \in 1..(piece[1].line - c[Len(c)].line)
      BY <1>6 DEF Joins, c
    <2>8. d[1].from = 1 /\ d[1].gap \in 1..(d[1].line - c[Len(c)].line) /\ d # <<>>
      <3>1. 1 \in 1..n
        BY <1>3
      <3> QED BY <1>3, <2>2, <2>4, <2>7, <3>1
    <2>9. Neat(text, d)
      <3>1. \A i \in 2..n : /\ piece[i - 1].to = Len(text[piece[i - 1].line].chars)
                            /\ piece[i].from = 1
                            /\ piece[i].gap \in 1..(piece[i].line - piece[i - 1].line)
        BY <1>2 DEF Neat, n
      <3> SUFFICES ASSUME NEW i \in 2..n
                   PROVE  /\ d[i - 1].to = Len(text[d[i - 1].line].chars)
                          /\ d[i].from = 1
                          /\ d[i].gap \in 1..(d[i].line - d[i - 1].line)
        BY <2>2 DEF Neat
      <3>2. i - 1 \in 1..n /\ i \in 1..n
        BY <1>3
      <3> QED BY <2>4, <3>1, <3>2
    <2>10. Neat(text, u)
      BY <1>1, <2>2, <2>6, <2>7, <2>8, <2>9, NeatConcat
    <2> HIDE DEF u
    <2>11. len(text, u) <= max /\ len(text, u) >= len(text, piece) /\ len(text, u) # 0
      BY <1>1, <1>3, <1>6, <2>2, <2>5, SMTT(30)
    <2>12. Shown(s.chunks) \o Reads(u) = shown \o Reads(piece)
      <3>1. Reads(u) = Reads(c) \o Reads(piece)
        BY <2>2, <2>5
      <3>2. (Shown(s.chunks) \o Reads(c)) \o Reads(piece) = Shown(s.chunks) \o (Reads(c) \o Reads(piece))
        <4> DEFINE p == Shown(s.chunks)
                   q == Reads(c)
                   r == Reads(piece)
        <4>1. p \in Seq(Char) /\ q \in Seq(Char) /\ r \in Seq(Char)
          BY <1>1, <1>3
        <4> HIDE DEF p, q, r
        <4>2. (p \o q) \o r = p \o (q \o r)
          BY <4>1, CharsAssociative
        <4> QED BY <4>2 DEF p, q, r
      <3> QED BY <1>1, <3>1, <3>2
    <2>13. ChunkInv(text, max, t, shown \o Reads(piece))
      <3>1. ChunkInv(text, max, t, Shown(s.chunks) \o Reads(u))
        BY <1>1, <2>5, <2>10, <2>11, ChunkMade
      <3> QED BY <2>12, <3>1
    <2>14. t.chunks = s.chunks /\ t.current = u
      OBVIOUS
    <2>15. \A a, b : Holds(text, s, a, b) => Holds(text, t, a, b)
      BY <2>4, <2>11, <2>14 DEF Holds, c
    <2>16. u # <<>> /\ u[Len(u)].line = piece[n].line /\ u[Len(u)].to = piece[n].to
      <3>1. n \in 1..n
        BY <1>3
      <3>2. u # <<>>
        BY <2>11, LenConcat
      <3> QED BY <2>4, <3>1, <3>2
    <2> HIDE DEF t
    <2>17. Put(text, max, s, t, piece, shown)
      BY <2>4, <2>11, <2>13, <2>14, <2>15, <2>16 DEF Put, n
    <2> QED BY <2>1, <2>17
  <1>7. CASE len(text, c) # 0 /\ ~(len(text, c) + sep + len(text, piece) <= max)
    <2> DEFINE f == flush(text, s)
               t == [chunks |-> f.chunks, current |-> piece]
    <2>1. ChunkInv(text, max, f, shown) /\ len(text, f.current) = 0
          /\ \A a, b : Holds(text, s, a, b) => Holds(text, f, a, b)
      BY FlushInv
    <2> HIDE DEF f
    <2>2. /\ f.chunks \in Seq(Seq(Spans(text))) /\ f.current \in Seq(Spans(text))
          /\ Closed(text, max, f.chunks)
          /\ shown = Shown(f.chunks) \o Reads(f.current)
          /\ Shown(f.chunks) \in Seq(Char)
          /\ \A x : [f EXCEPT !.current = x] = [chunks |-> f.chunks, current |-> x]
      BY <2>1, ChunkParts
    <2>3. append(text, s, piece, sep, max) = t
      <3>1. append(text, s, piece, sep, max) = [f EXCEPT !.current = piece]
        BY <1>7 DEF append, c, f
      <3> QED BY <2>2, <3>1
    <2>4. shown = Shown(f.chunks)
      <3>1. Reads(f.current) = <<>>
        BY <2>1, <2>2, EmptyReads
      <3> QED BY <1>4, <2>2, <3>1
    <2>5. ChunkInv(text, max, t, shown \o Reads(piece))
      <3>1. ChunkInv(text, max, t, Shown(f.chunks) \o Reads(piece))
        BY <1>2, <2>2, ChunkMade
      <3> QED BY <2>4, <3>1
    <2>6. t.chunks = f.chunks /\ t.current = piece
      OBVIOUS
    <2>7. \A a, b : Holds(text, f, a, b) => Holds(text, t, a, b)
      BY <2>1, <2>6 DEF Holds
    <2> HIDE DEF t
    <2>8. Put(text, max, s, t, piece, shown)
      BY <1>2, <1>3, <2>1, <2>5, <2>6, <2>7 DEF Put
    <2> QED BY <2>3, <2>8
  <1> QED BY <1>5, <1>6, <1>7

Grows(S, r) ==
    /\ SubSeq(r, 1, 0) = <<>> /\ SubSeq(r, 1, Len(r)) = r
    /\ \A i \in 1..Len(r) : /\ SubSeq(r, 1, i) = Append(SubSeq(r, 1, i - 1), r[i])
                            /\ SubSeq(r, 1, i - 1) \in Seq(S) /\ r[i] \in S

\* A sequence grows by one element at a time.
LEMMA PrefixesGrow ==
    ASSUME NEW S, NEW r \in Seq(S)
    PROVE  Grows(S, r)
  <1>1. \A i \in 0..Len(r) : /\ SubSeq(r, 1, i) \in Seq(S) /\ Len(SubSeq(r, 1, i)) = i
                             /\ \A j \in 1..i : SubSeq(r, 1, i)[j] = r[j]
    OBVIOUS
  <1>2. SubSeq(r, 1, 0) = <<>>
    BY <1>1, EmptySeq
  <1>3. SubSeq(r, 1, Len(r)) = r
    BY <1>1, SeqEqual
  <1>4. ASSUME NEW i \in 1..Len(r)
        PROVE  /\ SubSeq(r, 1, i) = Append(SubSeq(r, 1, i - 1), r[i])
               /\ SubSeq(r, 1, i - 1) \in Seq(S) /\ r[i] \in S
    <2> DEFINE a == SubSeq(r, 1, i)
               b == SubSeq(r, 1, i - 1)
               c == Append(b, r[i])
    <2>1. i \in 0..Len(r) /\ i - 1 \in 0..Len(r) /\ i \in Nat /\ r[i] \in S
      OBVIOUS
    <2>2. a \in Seq(S) /\ Len(a) = i /\ \A j \in 1..i : a[j] = r[j]
      BY <1>1, <2>1
    <2>3. b \in Seq(S) /\ Len(b) = i - 1 /\ \A j \in 1..(i - 1) : b[j] = r[j]
      BY <1>1, <2>1
    <2> HIDE DEF a, b
    <2>4. c \in Seq(S) /\ Len(c) = Len(b) + 1 /\ (\A j \in 1..Len(b) : c[j] = b[j]) /\ c[Len(b) + 1] = r[i]
      BY <2>1, <2>3, AppendProperties
    <2> HIDE DEF c
    <2>5. Len(b) + 1 = i /\ Len(c) = i
      BY <2>1, <2>3, <2>4
    <2>6. ASSUME NEW j \in 1..i PROVE a[j] = c[j]
      <3>1. CASE j = i
        BY <2>2, <2>4, <2>5, <3>1
      <3>2. CASE j # i
        <4>1. j \in 1..(i - 1)
          BY <2>1, <3>2
        <4> QED BY <2>2, <2>3, <2>4, <4>1
      <3> QED BY <3>1, <3>2
    <2>7. a = c
      BY <2>2, <2>4, <2>5, <2>6, SeqEqual
    <2> QED BY <2>1, <2>3, <2>7 DEF a, b, c
  <1> QED BY <1>2, <1>3, <1>4 DEF Grows

\* What append_lines computes on the way.
LineSteps(text, s, spans, max) ==
    CHOOSE g : g = [i \in 0..Len(spans) |->
        IF i = 0 THEN s ELSE append(text, g[i - 1], <<spans[i]>>, 1, max)]

\* append_lines, with that named.
LEMMA AppendLinesSteps ==
    ASSUME NEW text, NEW s, NEW spans, NEW max
    PROVE  append_lines(text, s, spans, max) = LineSteps(text, s, spans, max)[Len(spans)]
  BY DEF append_lines, LineSteps

\* flush and append give chunks of spans.
LEMMA AppendState ==
    ASSUME NEW text \in Seq(Line), NEW s \in State(text), NEW max, NEW sep \in Nat,
           NEW piece \in Seq(Spans(text)), piece # <<>>, piece[1].gap = 0
    PROVE  append(text, s, piece, sep, max) \in State(text) /\ flush(text, s) \in State(text)
  <1>1. s.chunks \in Seq(Seq(Spans(text))) /\ s.current \in Seq(Spans(text))
    BY DEF State
  <1>2. \A t \in State(text) : \A c \in Seq(Spans(text)) : [t EXCEPT !.current = c] \in State(text)
    BY DEF State
  <1>3. flush(text, s) \in State(text)
    <2>1. CASE len(text, s.current) = 0
      BY <2>1 DEF flush
    <2>2. CASE len(text, s.current) # 0
      <3>1. Append(s.chunks, s.current) \in Seq(Seq(Spans(text))) /\ <<>> \in Seq(Spans(text))
        BY <1>1, AppendProperties
      <3>2. flush(text, s) = [chunks |-> Append(s.chunks, s.current), current |-> <<>>]
        BY <2>2 DEF flush
      <3> QED BY <3>1, <3>2 DEF State
    <2> QED BY <2>1, <2>2
  <1>4. s.current \o after(sep, piece) \in Seq(Spans(text))
    <2>1. after(sep, piece) \in Seq(Spans(text))
      BY AfterSame
    <2> QED BY <1>1, <2>1, ConcatProperties
  <1>5. append(text, s, piece, sep, max) \in
           {[s EXCEPT !.current = piece], [s EXCEPT !.current = s.current \o after(sep, piece)],
            [flush(text, s) EXCEPT !.current = piece]}
    BY DEF append
  <1>6. append(text, s, piece, sep, max) \in State(text)
    BY <1>2, <1>3, <1>4, <1>5
  <1> QED BY <1>3, <1>6

\* It is a loop over the spans.
LEMMA LineStepsDef ==
    ASSUME NEW text \in Seq(Line), NEW s \in State(text), NEW max,
           NEW r \in Seq(Spans(text)), \A i \in 1..Len(r) : r[i].gap = 0
    PROVE  /\ LineSteps(text, s, r, max) \in [0..Len(r) -> State(text)]
           /\ LineSteps(text, s, r, max)[0] = s
           /\ \A i \in 1..Len(r) : LineSteps(text, s, r, max)[i] =
                 append(text, LineSteps(text, s, r, max)[i - 1], <<r[i]>>, 1, max)
  <1> DEFINE n == Len(r)
             S == State(text)
             F == [i \in 1..n |-> [t \in S |-> append(text, t, <<r[i]>>, 1, max)]]
             a == LineSteps(text, s, r, max)
  <1>1. n \in Nat /\ s \in S
    OBVIOUS
  <1>2. F \in [1..n -> [S -> S]]
    <2> SUFFICES ASSUME NEW i \in 1..n, NEW t \in S PROVE append(text, t, <<r[i]>>, 1, max) \in S
      OBVIOUS
    <2>1. <<r[i]>> \in Seq(Spans(text)) /\ <<r[i]>> # <<>> /\ <<r[i]>>[1].gap = 0
      OBVIOUS
    <2> QED BY <2>1, AppendState
  <1>3. \A i \in 1..n : \A t \in S : F[i][t] = append(text, t, <<r[i]>>, 1, max)
    OBVIOUS
  <1>4. a = CHOOSE g : g = [i \in 0..n |-> IF i = 0 THEN s ELSE append(text, g[i - 1], <<r[i]>>, 1, max)]
    BY DEF LineSteps
  <1> HIDE DEF F, a, n, S
  <1>5. PICK g : Loops(g, S, n, s, F)
    BY <1>1, <1>2, Loop
  <1>6. g \in [0..n -> S] /\ g[0] = s /\ \A i \in 1..n : g[i] = F[i][g[i - 1]]
    BY <1>5 DEF Loops
  <1>7. \A i \in 1..n : g[i] = append(text, g[i - 1], <<r[i]>>, 1, max)
    <2> TAKE i \in 1..n
    <2>1. i - 1 \in 0..n
      BY <1>1
    <2> QED BY <1>3, <1>6, <2>1
  <1>8. g = [i \in 0..n |-> IF i = 0 THEN s ELSE append(text, g[i - 1], <<r[i]>>, 1, max)]
    BY <1>1, <1>6, <1>7
  <1>9. a = [i \in 0..n |-> IF i = 0 THEN s ELSE append(text, a[i - 1], <<r[i]>>, 1, max)]
    BY <1>4, <1>8, Zenon
  <1>10. a[0] = s /\ \A i \in 1..n : a[i] = append(text, a[i - 1], <<r[i]>>, 1, max)
    <2>1. 0 \in 0..n /\ \A i \in 1..n : i \in 0..n /\ i # 0
      BY <1>1
    <2>2. a[0] = s
      BY <1>9, <2>1, Zenon
    <2>3. ASSUME NEW i \in 1..n PROVE a[i] = append(text, a[i - 1], <<r[i]>>, 1, max)
      BY <1>9, <2>1, Zenon
    <2> QED BY <2>2, <2>3
  <1>11. Loops(a, S, n, s, F)
    <2>1. DOMAIN a = 0..n /\ a = [i \in DOMAIN a |-> a[i]]
      BY <1>9
    <2>2. \A i \in 1..n : a[i - 1] \in S => a[i] = F[i][a[i - 1]]
      BY <1>3, <1>10
    <2> QED BY <1>1, <1>2, <1>10, <2>1, <2>2, LoopTyped
  <1> QED BY <1>10, <1>11 DEF Loops, a, n, S

\* The lines a..b were put in: t is s with them.
Placed(text, max, s, t, a, b, shown) ==
    /\ ChunkInv(text, max, t, shown \o Rows(text, a, b))
    /\ t.current # <<>>
    /\ t.current[Len(t.current)].line = b
    /\ t.current[Len(t.current)].to = Len(text[b].chars)
    /\ \A x, y : Holds(text, s, x, y) => Holds(text, t, x, y)

\* After the first i pieces of a paragraph.
LinesInv(text, max, s, t, r, i, shown) ==
    /\ ChunkInv(text, max, t, shown \o Reads(SubSeq(r, 1, i)))
    /\ i = 0 => len(text, t.current) = 0
    /\ i > 0 => /\ t.current # <<>>
                /\ t.current[Len(t.current)].line = r[i].line
                /\ t.current[Len(t.current)].to = r[i].to
                /\ len(text, t.current) >= width(text, r[i])
    /\ \A x, y : Holds(text, s, x, y) => Holds(text, t, x, y)

\* One piece more.
LEMMA LinesStep ==
    ASSUME NEW text \in Seq(Line), NEW max \in Nat, NEW s, NEW t, NEW shown \in Seq(Char),
           NEW r \in Seq(Spans(text)), Pieces(text, max, r), Joints(text, max, r),
           NEW i \in 1..Len(r), LinesInv(text, max, s, t, r, i - 1, shown)
    PROVE  LinesInv(text, max, s, append(text, t, <<r[i]>>, 1, max), r, i, shown)
  <1> DEFINE x == r[i]
             u == append(text, t, <<x>>, 1, max)
             c == t.current
             before == shown \o Reads(SubSeq(r, 1, i - 1))
  <1>1. x \in Spans(text) /\ x.gap = 0 /\ width(text, x) <= max
    BY DEF Pieces
  <1>2. width(text, x) \in Nat /\ len(text, <<x>>) = width(text, x)
    BY <1>1, SpanWidth, LenConcat
  <1>3. ChunkInv(text, max, t, before)
    BY DEF LinesInv
  <1>4. len(text, c) \in Nat
    BY <1>3, ChunkParts
  <1>5. /\ i - 1 = 0 => len(text, c) = 0
        /\ i - 1 > 0 => /\ c # <<>>
                        /\ c[Len(c)].line = r[i - 1].line
                        /\ c[Len(c)].to = r[i - 1].to
                        /\ len(text, c) >= width(text, r[i - 1])
        /\ \A a, b : Holds(text, s, a, b) => Holds(text, t, a, b)
    BY DEF LinesInv
  <1>6. i \in Nat /\ i >= 1 /\ i \in Int
    OBVIOUS
  <1>7. i > 1 => Joint(text, max, r[i - 1], x) /\ r[i - 1] \in Spans(text)
    <2> SUFFICES ASSUME i > 1 PROVE Joint(text, max, r[i - 1], x) /\ r[i - 1] \in Spans(text)
      OBVIOUS
    <2>1. i \in 2..Len(r) /\ i - 1 \in 1..Len(r)
      BY <1>6
    <2> QED BY <2>1 DEF Joints
  <1>8. Len(<<x>>) = 1 /\ <<x>>[1] = x /\ <<x>> # <<>> /\ <<x>> \in Seq(Spans(text))
    BY <1>1
  <1> HIDE DEF x, c, before
  <1>9. Fits(text, max, <<x>>)
    <2>1. Neat(text, <<x>>)
      BY <1>8 DEF Neat
    <2> QED BY <1>1, <1>2, <1>8, <2>1 DEF Fits
  <1>10. Joins(text, max, c, <<x>>, 1)
    <2> SUFFICES ASSUME len(text, c) # 0, len(text, c) + 1 + len(text, <<x>>) <= max
                 PROVE  /\ c[Len(c)].to = Len(text[c[Len(c)].line].chars)
                        /\ <<x>>[1].from = 1
                        /\ 1 \in 1..(<<x>>[1].line - c[Len(c)].line)
      BY DEF Joins
    <2>1. i > 1
      BY <1>5, <1>6
    <2> DEFINE y == r[i - 1]
    <2>2. /\ c[Len(c)].line = y.line /\ c[Len(c)].to = y.to
          /\ len(text, c) >= width(text, y) /\ Joint(text, max, y, x) /\ y \in Spans(text)
      BY <1>5, <1>6, <1>7, <2>1
    <2> HIDE DEF y
    <2>3. width(text, y) \in Nat /\ y.line \in Nat
      BY <2>2, SpanWidth, SpanParts
    <2>4. ~(width(text, y) + width(text, x) > max)
      BY <1>2, <1>4, <2>2, <2>3
    <2>5. y.to = Len(text[y.line].chars) /\ x.from = 1 /\ x.line = y.line + 1
      BY <2>2, <2>4 DEF Joint
    <2>6. 1 \in 1..(x.line - y.line)
      BY <2>3, <2>5
    <2> QED BY <1>8, <2>2, <2>5, <2>6
  <1>11. Put(text, max, t, u, <<x>>, before)
    BY <1>3, <1>9, <1>10, AppendInv DEF c
  <1> HIDE DEF u
  <1>12. before \o Reads(<<x>>) = shown \o Reads(SubSeq(r, 1, i))
    <2> DEFINE p == SubSeq(r, 1, i - 1)
    <2>1. SubSeq(r, 1, i) = Append(p, x) /\ p \in Seq(Spans(text))
      <3>1. Grows(Spans(text), r)
        BY PrefixesGrow
      <3> QED BY <3>1 DEF Grows, x
    <2> HIDE DEF p
    <2>2. Append(p, x) = p \o <<x>>
      BY <1>1, <2>1, AppendIsConcat
    <2>3. Reads(p \o <<x>>) = Reads(p) \o Reads(<<x>>) /\ Reads(p) \in Seq(Char) /\ Reads(<<x>>) \in Seq(Char)
      BY <1>8, <2>1, ReadsConcat
    <2>4. (shown \o Reads(p)) \o Reads(<<x>>) = shown \o (Reads(p) \o Reads(<<x>>))
      <3> DEFINE a == Reads(p)
                 b == Reads(<<x>>)
      <3>1. a \in Seq(Char) /\ b \in Seq(Char)
        BY <2>3
      <3> HIDE DEF a, b
      <3>2. (shown \o a) \o b = shown \o (a \o b)
        BY <3>1, CharsAssociative
      <3> QED BY <3>2 DEF a, b
    <2> QED BY <2>1, <2>2, <2>3, <2>4 DEF before, p
  <1>13. /\ ChunkInv(text, max, u, before \o Reads(<<x>>))
         /\ u.current # <<>>
         /\ u.current[Len(u.current)].line = x.line
         /\ u.current[Len(u.current)].to = x.to
         /\ len(text, u.current) >= width(text, x)
         /\ \A a, b : Holds(text, t, a, b) => Holds(text, u, a, b)
    BY <1>2, <1>8, <1>11 DEF Put
  <1>14. LinesInv(text, max, s, u, r, i, shown)
    <2>1. ChunkInv(text, max, u, shown \o Reads(SubSeq(r, 1, i)))
      BY <1>12, <1>13
    <2>2. i # 0
      BY <1>6
    <2> QED BY <1>5, <1>13, <2>1, <2>2 DEF LinesInv, x
  <1> QED BY <1>14 DEF u, x

\* append_lines puts a paragraph in that was cut.
LEMMA LinesPut ==
    ASSUME NEW text \in Seq(Line), NEW max \in Nat, NEW s, NEW shown, ChunkInv(text, max, s, shown),
           len(text, s.current) = 0, NEW r, NEW a, NEW b, Torn(text, max, r, a, b)
    PROVE  Placed(text, max, s, append_lines(text, s, r, max), a, b, shown)
  <1> DEFINE g == LineSteps(text, s, r, max)
             n == Len(r)
             T == {i \in 0..n : LinesInv(text, max, s, g[i], r, i, shown)}
  <1>1. /\ r \in Seq(Spans(text)) /\ r # <<>>
        /\ Pieces(text, max, r) /\ Joints(text, max, r)
        /\ r[n].line = b /\ r[n].to = Len(text[b].chars)
        /\ Reads(r) = Rows(text, a, b)
    BY DEF Torn
  <1>2. s \in State(text) /\ shown \in Seq(Char)
    BY ChunkParts DEF ChunkInv
  <1>3. g[0] = s /\ \A i \in 1..n : g[i] = append(text, g[i - 1], <<r[i]>>, 1, max)
    <2>1. \A i \in 1..n : r[i].gap = 0
      BY <1>1 DEF Pieces
    <2> QED BY <1>1, <1>2, <2>1, LineStepsDef
  <1>4. n \in Nat \ {0}
    BY <1>1
  <1>5. SubSeq(r, 1, 0) = <<>> /\ SubSeq(r, 1, n) = r
    <2>1. Grows(Spans(text), r)
      BY <1>1, PrefixesGrow
    <2> QED BY <2>1 DEF Grows
  <1>6. append_lines(text, s, r, max) = g[n]
    BY AppendLinesSteps
  <1> HIDE DEF g
  <1>7. 0 \in T
    <2>1. shown \o Reads(<<>>) = shown
      <3>1. Reads(<<>>) = <<>>
        BY ReadsConcat
      <3> QED BY <1>2, <3>1, ConcatEmptySeq
    <2>2. LinesInv(text, max, s, s, r, 0, shown)
      <3>1. ChunkInv(text, max, s, shown \o Reads(SubSeq(r, 1, 0)))
        BY <1>5, <2>1
      <3>2. ~(0 > 0)
        OBVIOUS
      <3> QED BY <3>1, <3>2 DEF LinesInv
    <2> QED BY <1>3, <1>4, <2>2
  <1>8. ASSUME NEW i \in 1..n, i - 1 \in T PROVE i \in T
    <2>1. LinesInv(text, max, s, g[i - 1], r, i - 1, shown)
      BY <1>8
    <2>2. LinesInv(text, max, s, append(text, g[i - 1], <<r[i]>>, 1, max), r, i, shown)
      BY <1>1, <1>2, <2>1, LinesStep
    <2> QED BY <1>3, <2>2
  <1>9. \A i \in 0..n : i \in T
    <2> HIDE DEF T, n
    <2> QED BY <1>4, <1>7, <1>8, UpTo
  <1>10. LinesInv(text, max, s, g[n], r, n, shown)
    <2>1. n \in 0..n
      BY <1>4
    <2> QED BY <1>9, <2>1
  <1>11. Placed(text, max, s, g[n], a, b, shown)
    <2>1. n > 0
      BY <1>4
    <2>2. ChunkInv(text, max, g[n], shown \o Rows(text, a, b))
      BY <1>1, <1>5, <1>10 DEF LinesInv
    <2> HIDE DEF n
    <2>3. LinesInv(text, max, s, g[n], r, n, shown)
      BY <1>10
    <2> QED BY <1>1, <2>1, <2>2, <2>3 DEF LinesInv, Placed
  <1> QED BY <1>6, <1>11

\* A line that is not blank shows.
LEMMA RowsShow ==
    ASSUME NEW text \in Seq(Line), NEW a, NEW b, Interval(text, a, b), a <= b, ~blank(text[a])
    PROVE  Rows(text, a, b) # <<>>
  <1>1. a \in 1..Len(text) /\ Interval(text, a, a) /\ Interval(text, a + 1, b)
    BY DEF Interval
  <1>2. RowsSplitAt(text, a, a, b)
    BY <1>1, RowsSplit
  <1>3. Rows(text, a, a) = LineChars(text)[a]
    BY <1>1, RowsFew
  <1>4. Rows(text, a, a) \in Seq(Char) /\ Rows(text, a + 1, b) \in Seq(Char)
    BY <1>1, RowsType
  <1>5. Len(LineChars(text)[a]) = Len(text[a].chars) /\ Len(text[a].chars) \in Nat \ {0}
    <2>1. text[a].chars \in Seq(1..4) /\ text[a].chars # <<>>
      BY <1>1, WholeLine DEF blank
    <2>2. Len(text[a].chars) \in Nat \ {0}
      BY <2>1
    <2>3. LineChars(text)[a] = [i \in 1..Len(text[a].chars) |-> <<a, i>>]
      BY <1>1 DEF LineChars
    <2>4. \A n \in Nat : \A f : f = [i \in 1..n |-> <<a, i>>] => Len(f) = n
      OBVIOUS
    <2> QED BY <2>2, <2>3, <2>4
  <1> DEFINE x == Rows(text, a, a)
             y == Rows(text, a + 1, b)
  <1>6. Rows(text, a, b) = x \o y
    BY <1>2 DEF RowsSplitAt
  <1>7. x \in Seq(Char) /\ y \in Seq(Char) /\ Len(x) \in Nat \ {0}
    BY <1>3, <1>4, <1>5
  <1> HIDE DEF x, y
  <1>8. Len(x \o y) = Len(x) + Len(y) /\ Len(y) \in Nat
    BY <1>7, ConcatProperties
  <1> QED BY <1>6, <1>7, <1>8

\* A paragraph as it is.
LEMMA SliceFits ==
    ASSUME NEW text \in Seq(Line), NEW max \in Nat, NEW a, NEW b, Interval(text, a, b), a <= b,
           len(text, slice(text, a, b)) <= max
    PROVE  LET piece == slice(text, a, b) IN
           /\ Fits(text, max, piece)
           /\ piece[1].from = 1 /\ piece[1].line = a
           /\ piece[Len(piece)].line = b /\ piece[Len(piece)].to = Len(text[b].chars)
           /\ a..b \subseteq LinesOf(piece)
  <1> DEFINE p == slice(text, a, b)
             n == b - a + 1
  <1>1. IsSlice(text, p, a, b)
    BY SliceSpans
  <1>2. n \in Nat \ {0} /\ a \in Nat /\ b \in Nat /\ 1 <= a /\ b <= Len(text) /\ Len(text) \in Nat
        /\ b = a + n - 1
    BY DEF Interval
  <1>3. p \in Seq(Spans(text)) /\ Len(p) = n
        /\ \A i \in 1..n : p[i] = Whole(text, IF i = 1 THEN 0 ELSE 1, a + i - 1)
    BY <1>1 DEF IsSlice
  <1> HIDE DEF n, p
  <1>4. ASSUME NEW i \in 1..n
        PROVE  /\ p[i].gap = IF i = 1 THEN 0 ELSE 1
               /\ p[i].line = a + i - 1
               /\ p[i].from = 1 /\ p[i].to = Len(text[a + i - 1].chars)
    <2> DEFINE l == a + i - 1
               gap == IF i = 1 THEN 0 ELSE 1
    <2>1. l \in 1..Len(text) /\ gap \in Nat
      BY <1>2
    <2>2. p[i] = Whole(text, gap, l)
      BY <1>3
    <2> HIDE DEF l, gap
    <2>3. p[i].gap = gap /\ p[i].line = l /\ p[i].from = 1 /\ p[i].to = Len(text[l].chars)
      BY <2>1, <2>2, WholeLine
    <2> QED BY <2>3 DEF l, gap
  <1>5. p # <<>>
    BY <1>2, <1>3
  <1>6. p[1].gap = 0 /\ p[1].from = 1 /\ p[1].line = a
    <2>1. 1 \in 1..n /\ a + 1 - 1 = a
      BY <1>2
    <2> QED BY <1>4, <2>1
  <1>7. p[n].line = b /\ p[n].to = Len(text[b].chars)
    <2>1. n \in 1..n
      BY <1>2
    <2> QED BY <1>2, <1>4, <2>1
  <1>8. Neat(text, p)
    <2> SUFFICES ASSUME NEW i \in 2..n
                 PROVE  /\ p[i - 1].to = Len(text[p[i - 1].line].chars)
                        /\ p[i].from = 1
                        /\ p[i].gap \in 1..(p[i].line - p[i - 1].line)
      BY <1>3 DEF Neat
    <2>1. i \in 1..n /\ i - 1 \in 1..n /\ i # 1 /\ i \in Int
      BY <1>2
    <2>2. /\ p[i].gap = 1 /\ p[i].line = a + i - 1 /\ p[i].from = 1
          /\ p[i - 1].line = a + (i - 1) - 1 /\ p[i - 1].to = Len(text[a + (i - 1) - 1].chars)
      BY <1>4, <2>1
    <2>3. 1 \in 1..((a + i - 1) - (a + (i - 1) - 1))
      BY <1>2, <2>1
    <2> QED BY <2>2, <2>3
  <1>9. Fits(text, max, p)
    BY <1>3, <1>5, <1>6, <1>8 DEF Fits, p
  <1>10. ASSUME NEW l \in a..b PROVE l \in LinesOf(p)
    <2>1. l - a + 1 \in 1..n /\ a + (l - a + 1) - 1 = l
      BY <1>2
    <2>2. p[l - a + 1].line = l
      BY <1>4, <2>1
    <2>3. p[l - a + 1] \in ToSet(p)
      <3>1. DOMAIN p = 1..n
        BY <1>3
      <3> QED BY <2>1, <3>1 DEF ToSet
    <2> QED BY <2>2, <2>3 DEF LinesOf
  <1> QED BY <1>3, <1>6, <1>7, <1>9, <1>10 DEF p

\* append_paragraph puts a paragraph in, after what ends two lines before; one that
\* fits into a message is in one.
LEMMA ParagraphPut ==
    ASSUME NEW text \in Seq(Line), NEW max \in Nat, max >= 4,
           NEW s, NEW shown, ChunkInv(text, max, s, shown),
           NEW p, Interval(text, p[1], p[2]), p[1] <= p[2], ~blank(text[p[1]]),
           s.current # <<>> =>
               /\ s.current[Len(s.current)].line + 2 <= p[1]
               /\ s.current[Len(s.current)].to = Len(text[s.current[Len(s.current)].line].chars)
    PROVE  /\ Placed(text, max, s, append_paragraph(text, s, p, max), p[1], p[2], shown)
           /\ len(text, slice(text, p[1], p[2])) <= max =>
                  Holds(text, append_paragraph(text, s, p, max), p[1], p[2])
  <1> DEFINE piece == slice(text, p[1], p[2])
             t == append_paragraph(text, s, p, max)
             c == s.current
  <1>1. p[1] \in Nat /\ p[2] \in Nat
    BY DEF Interval
  <1>2. IsSlice(text, piece, p[1], p[2])
    BY SliceSpans
  <1>3. len(text, piece) \in Nat
    BY <1>2, LenConcat DEF IsSlice
  <1>4. Reads(piece) = Rows(text, p[1], p[2])
    BY DEF Rows
  <1>5. CASE len(text, piece) <= max
    <2>1. /\ Fits(text, max, piece)
          /\ piece[1].from = 1 /\ piece[1].line = p[1]
          /\ piece[Len(piece)].line = p[2] /\ piece[Len(piece)].to = Len(text[p[2]].chars)
          /\ p[1]..p[2] \subseteq LinesOf(piece)
      BY <1>5, SliceFits
    <2>2. t = append(text, s, piece, 2, max)
      BY <1>3, <1>5 DEF append_paragraph
    <2>3. c \in Seq(Spans(text)) /\ len(text, c) \in Nat
      BY ChunkParts
    <2> HIDE DEF piece, t, c
    <2>4. Joins(text, max, c, piece, 2)
      <3> SUFFICES ASSUME len(text, c) # 0
                   PROVE  /\ c[Len(c)].to = Len(text[c[Len(c)].line].chars)
                          /\ piece[1].from = 1
                          /\ 2 \in 1..(piece[1].line - c[Len(c)].line)
        BY DEF Joins
      <3>1. c # <<>>
        BY LenConcat
      <3>2. c[Len(c)].line + 2 <= p[1] /\ c[Len(c)].to = Len(text[c[Len(c)].line].chars)
        BY <3>1 DEF c
      <3>3. c[Len(c)].line \in Nat
        <4>1. c[Len(c)] \in Spans(text)
          BY <2>3, <3>1
        <4> QED BY <4>1, SpanParts
      <3>4. 2 \in 1..(p[1] - c[Len(c)].line)
        BY <1>1, <3>2, <3>3
      <3> QED BY <2>1, <3>2, <3>4
    <2>5. Put(text, max, s, t, piece, shown)
      BY <2>1, <2>2, <2>4, AppendInv DEF c
    <2>6. Placed(text, max, s, t, p[1], p[2], shown)
      BY <1>4, <2>1, <2>5 DEF Put, Placed
    <2>7. Holds(text, t, p[1], p[2])
      <3>1. len(text, piece) # 0
        <4> SUFFICES ASSUME len(text, piece) = 0 PROVE FALSE
          OBVIOUS
        <4>1. Reads(piece) = <<>>
          BY <1>2, EmptyReads DEF IsSlice
        <4> QED BY <1>4, <4>1, RowsShow
      <3>2. len(text, t.current) >= len(text, piece) /\ LinesOf(piece) \subseteq LinesOf(t.current)
            /\ ChunkInv(text, max, t, shown \o Reads(piece))
        BY <2>5 DEF Put
      <3>3. len(text, t.current) \in Nat
        BY <3>2, ChunkParts
      <3>4. len(text, t.current) # 0
        BY <1>3, <3>1, <3>2, <3>3
      <3> QED BY <2>1, <3>2, <3>4 DEF Holds
    <2> QED BY <2>6, <2>7 DEF t
  <1>6. CASE ~(len(text, piece) <= max)
    <2> DEFINE f == flush(text, s)
               r == split_lines(text, p, max)
    <2>1. t = append_lines(text, f, r, max)
      BY <1>3, <1>6 DEF append_paragraph
    <2>2. ChunkInv(text, max, f, shown) /\ len(text, f.current) = 0
          /\ \A a, b : Holds(text, s, a, b) => Holds(text, f, a, b)
      BY FlushInv
    <2>3. Torn(text, max, r, p[1], p[2])
      BY SplitLines
    <2> HIDE DEF f, r
    <2>4. Placed(text, max, f, append_lines(text, f, r, max), p[1], p[2], shown)
      BY <2>2, <2>3, LinesPut
    <2> HIDE DEF t
    <2>5. Placed(text, max, s, t, p[1], p[2], shown)
      BY <2>1, <2>2, <2>4 DEF Placed
    <2> QED BY <1>6, <2>5 DEF t
  <1> QED BY <1>5, <1>6
-----------------------------------------------------------------------------
(***************************************************************************)
(* The paragraphs of a text: what paragraphs() finds is what Paragraphs    *)
(* says, in order, and nothing but blank lines is left out.                *)
(***************************************************************************)
Fences(text, l) == {k \in 1..l : text[k].fence}
Open(text, l) == Cardinality(Fences(text, l)) % 2 # 0

\* A fence opens or closes; every other line leaves it as it is.
LEMMA OpenStep ==
    ASSUME NEW text \in Seq(Line)
    PROVE  /\ ~Open(text, 0)
           /\ \A l \in 1..Len(text) :
                 Open(text, l) <=> IF text[l].fence THEN ~Open(text, l - 1) ELSE Open(text, l - 1)
  <1>1. ~Open(text, 0)
    <2>1. Fences(text, 0) = {}
      BY DEF Fences
    <2>2. Cardinality({}) = 0
      BY FS_EmptySet
    <2>3. 0 % 2 = 0
      OBVIOUS
    <2> QED BY <2>1, <2>2, <2>3 DEF Open
  <1>2. ASSUME NEW l \in 1..Len(text)
        PROVE  Open(text, l) <=> IF text[l].fence THEN ~Open(text, l - 1) ELSE Open(text, l - 1)
    <2> DEFINE A == Fences(text, l - 1)
               B == Fences(text, l)
    <2>0. l \in Nat /\ l - 1 \in Nat
      OBVIOUS
    <2>1. IsFiniteSet(A) /\ Cardinality(A) \in Nat
      <3>1. IsFiniteSet(1..(l - 1))
        BY <2>0, FS_Interval
      <3>2. A \subseteq 1..(l - 1)
        BY DEF Fences
      <3> QED BY <3>1, <3>2, FS_Subset, FS_CardinalityType
    <2>2. l \notin A
      BY DEF Fences
    <2>3. B = IF text[l].fence THEN A \cup {l} ELSE A
      BY DEF Fences
    <2> HIDE DEF A, B
    <2>4. CASE text[l].fence
      <3>1. Cardinality(B) = Cardinality(A) + 1
        BY <2>1, <2>2, <2>3, <2>4, FS_AddElement
      <3>2. \A c \in Nat : (c + 1) % 2 # 0 <=> c % 2 = 0
        OBVIOUS
      <3> QED BY <2>1, <2>4, <3>1, <3>2 DEF Open, A, B
    <2>5. CASE ~text[l].fence
      BY <2>3, <2>5 DEF Open, A, B
    <2> QED BY <2>4, <2>5
  <1> QED BY <1>1, <1>2

\* A paragraph is known by its first and its last line; this is what they show.
Passages(text) == {p \in Nat \X Nat : Interval(text, p[1], p[2])}
RowsOf(text) == [p \in Passages(text) |-> Rows(text, p[1], p[2])]
Shows(text, out) == FlattenSeq(Image(RowsOf(text), out))

\* One passage more.
LEMMA ShowsAppend ==
    ASSUME NEW text \in Seq(Line)
    PROVE  /\ Shows(text, <<>>) = <<>>
           /\ \A out \in Seq(Passages(text)) : Shows(text, out) \in Seq(Char)
           /\ \A out \in Seq(Passages(text)), p \in Passages(text) :
                 Shows(text, Append(out, p)) = Shows(text, out) \o Rows(text, p[1], p[2])
  <1> DEFINE P == Passages(text)
             f == RowsOf(text)
             C == Seq(Char)
  <1>1. \A p \in P : f[p] = Rows(text, p[1], p[2]) /\ f[p] \in C
    BY RowsType DEF RowsOf, Passages
  <1>2. Maps(f, P, C)
    <2>1. f = [p \in P |-> f[p]]
      BY DEF RowsOf
    <2> HIDE DEF f, P
    <2> QED BY <1>1, <2>1 DEF Maps
  <1>3. FlattenSeq(<<>>) = <<>> /\ \A s \in Seq(C) : FlattenSeq(s) \in C
    BY FlattenAppend
  <1> HIDE DEF f, P
  <1>4. \A out \in Seq(P) : Image(f, out) \in Seq(C)
    <2> TAKE out \in Seq(P)
    <2>1. IsImage(Image(f, out), f, out, C)
      BY <1>2, ImageSeq
    <2> QED BY <2>1 DEF IsImage
  <1>5. Shows(text, <<>>) = <<>>
    <2>1. Image(f, <<>>) = <<>>
      <3>1. <<>> \in Seq(P)
        OBVIOUS
      <3>2. IsImage(Image(f, <<>>), f, <<>>, C)
        BY <1>2, <3>1, ImageSeq
      <3>3. Image(f, <<>>) \in Seq(C) /\ Len(Image(f, <<>>)) = 0
        BY <3>2 DEF IsImage
      <3> QED BY <3>3, EmptySeq
    <2> QED BY <1>3, <2>1 DEF Shows, f
  <1>6. ASSUME NEW out \in Seq(P), NEW p \in P
        PROVE  Shows(text, Append(out, p)) = Shows(text, out) \o Rows(text, p[1], p[2])
    <2>1. Append(out, p) = out \o <<p>> /\ <<p>> \in Seq(P)
      BY AppendIsConcat
    <2>2. ImageSplits(f, out, <<p>>)
      BY <1>2, <2>1, ImageConcat
    <2>3. Image(f, <<p>>) = <<f[p]>>
      <3>1. IsImage(Image(f, <<p>>), f, <<p>>, C)
        BY <1>2, <2>1, ImageSeq
      <3>2. Image(f, <<p>>) \in Seq(C) /\ Len(Image(f, <<p>>)) = 1 /\ Image(f, <<p>>)[1] = f[p]
        BY <3>1 DEF IsImage
      <3> DEFINE z == Image(f, <<p>>)
      <3> HIDE DEF z
      <3>3. z \in Seq(C) /\ Len(z) = 1 /\ z[1] = f[p]
        BY <3>2 DEF z
      <3>4. z = <<f[p]>>
        BY <3>3
      <3> QED BY <3>4 DEF z
    <2>4. Image(f, out) \in Seq(C) /\ <<f[p]>> \in Seq(C) /\ f[p] \in C
      BY <1>1, <1>4
    <2>5. FlattenSeq(Image(f, out) \o <<f[p]>>) = FlattenSeq(Image(f, out)) \o FlattenSeq(<<f[p]>>)
      BY <2>4, FlattenConcat
    <2>6. FlattenSeq(<<f[p]>>) = f[p]
      BY <2>4, FlattenOne
    <2>7. Image(f, Append(out, p)) = Image(f, out) \o <<f[p]>>
      BY <2>1, <2>2, <2>3 DEF ImageSplits
    <2> QED BY <1>1, <2>5, <2>6, <2>7 DEF Shows, f
  <1>7. \A out \in Seq(P) : Shows(text, out) \in C
    BY <1>3, <1>4 DEF Shows, f
  <1> QED BY <1>5, <1>6, <1>7 DEF P

\* Passages with a line between them, the last ending two lines before `limit`, each
\* beginning with a line that is not blank.
Apart(text, out, limit) ==
    /\ out \in Seq(Passages(text))
    /\ \A k \in 1..Len(out) : /\ out[k][1] <= out[k][2] /\ ~blank(text[out[k][1]])
                              /\ out[k][2] + 2 <= limit
                              /\ k > 1 => out[k - 1][2] + 2 <= out[k][1]
Complete(text, out, limit) == \A p \in Paragraphs(text) : p[2] < limit => p \in ToSet(out)

\* Every line before `start` that shows anything is in one of them, and every
\* paragraph that ends there is one.
Found(text, out, start) ==
    /\ Apart(text, out, start) /\ Shows(text, out) = Rows(text, 1, start - 1)
    /\ Complete(text, out, start)

\* A paragraph begins at `start` and reaches to b at most.
Begins(text, start, b) ==
    /\ start > 1 => Separates(text, start - 1)
    /\ \A k \in start..b : ~Separates(text, k)

\* What a paragraph is, piece by piece.
LEMMA ParagraphParts ==
    ASSUME NEW text \in Seq(Line), NEW p \in Paragraphs(text)
    PROVE  /\ p[1] \in 1..Len(text) /\ p[2] \in 1..Len(text) /\ p[1] <= p[2] /\ p = <<p[1], p[2]>>
           /\ \A l \in p[1]..p[2] : ~Separates(text, l)
           /\ p[1] > 1 => Separates(text, p[1] - 1)
           /\ p[2] < Len(text) => Separates(text, p[2] + 1)
  BY DEF Paragraphs

\* There is no other paragraph between two separating lines than the one.
LEMMA OneParagraph ==
    ASSUME NEW text \in Seq(Line), NEW start \in 1..Len(text), NEW b \in Nat, b <= Len(text),
           start <= b, Begins(text, start, b), b < Len(text) => Separates(text, b + 1),
           NEW p \in Paragraphs(text), start <= p[2], p[2] <= b + 1
    PROVE  p = <<start, b>>
  <1> DEFINE x == p[1]
             y == p[2]
             n == Len(text)
  <1>1. /\ x \in 1..n /\ y \in 1..n /\ x <= y /\ p = <<x, y>>
        /\ \A l \in x..y : ~Separates(text, l)
        /\ x > 1 => Separates(text, x - 1)
        /\ y < n => Separates(text, y + 1)
    BY ParagraphParts
  <1>2. start <= y /\ y <= b + 1 /\ n \in Nat /\ start \in Int
    OBVIOUS
  <1>3. /\ start > 1 => Separates(text, start - 1)
        /\ \A k \in start..b : ~Separates(text, k)
        /\ b < n => Separates(text, b + 1)
        /\ b <= n
    BY DEF Begins
  <1> HIDE DEF x, y, n
  <1>4. y <= b
    <2> SUFFICES ASSUME y = b + 1 PROVE FALSE
      BY <1>1, <1>2
    <2>1. b < n /\ y \in x..y
      BY <1>1, <1>2
    <2> QED BY <1>1, <1>3, <2>1
  <1>5. y = b
    <2> SUFFICES ASSUME y < b PROVE FALSE
      BY <1>1, <1>4
    <2>1. y < n /\ y + 1 \in start..b
      BY <1>1, <1>2, <1>3
    <2> QED BY <1>1, <1>3, <2>1
  <1>6. ~(x > start)
    <2> SUFFICES ASSUME x > start PROVE FALSE
      OBVIOUS
    <2>1. x > 1 /\ x - 1 \in start..b
      BY <1>1, <1>2, <1>4
    <2> QED BY <1>1, <1>3, <2>1
  <1>7. ~(x < start)
    <2> SUFFICES ASSUME x < start PROVE FALSE
      OBVIOUS
    <2>1. start > 1 /\ start - 1 \in x..y
      BY <1>1, <1>2
    <2> QED BY <1>1, <1>3, <2>1
  <1>8. x = start
    BY <1>1, <1>2, <1>6, <1>7
  <1> QED BY <1>1, <1>5, <1>8

\* A paragraph is found.
LEMMA OneMore ==
    ASSUME NEW text \in Seq(Line), NEW out, NEW start \in 1..Len(text), Found(text, out, start),
           ~blank(text[start]), NEW b \in Nat, start <= b, b <= Len(text),
           Begins(text, start, b), b < Len(text) => Separates(text, b + 1)
    PROVE  /\ Apart(text, Append(out, <<start, b>>), b + 2)
           /\ Shows(text, Append(out, <<start, b>>)) = Rows(text, 1, b)
           /\ Complete(text, Append(out, <<start, b>>), b + 2)
  <1> DEFINE q == <<start, b>>
             o == Append(out, q)
             m == Len(out)
             P == Passages(text)
  <1>1. q \in P /\ q[1] = start /\ q[2] = b
    BY DEF Passages, Interval
  <1>2. out \in Seq(P) /\ Shows(text, out) = Rows(text, 1, start - 1)
        /\ Complete(text, out, start)
    BY DEF Found, Apart
  <1>3. \A k \in 1..m : /\ out[k][1] <= out[k][2] /\ ~blank(text[out[k][1]])
                        /\ out[k][2] + 2 <= start
                        /\ k > 1 => out[k - 1][2] + 2 <= out[k][1]
    BY DEF Found, Apart
  <1>4. \A k \in 1..m : out[k][1] \in Nat /\ out[k][2] \in Nat
    BY <1>2 DEF Passages
  <1> HIDE DEF q, P
  <1>5. o \in Seq(P) /\ Len(o) = m + 1 /\ (\A k \in 1..m : o[k] = out[k]) /\ o[m + 1] = q /\ m \in Nat
    BY <1>1, <1>2, AppendProperties
  <1>6. start \in Nat
    OBVIOUS
  <1> HIDE DEF o, m
  <1>7. Apart(text, o, b + 2)
    <2> SUFFICES ASSUME NEW k \in 1..(m + 1)
                 PROVE  /\ o[k][1] <= o[k][2] /\ ~blank(text[o[k][1]])
                        /\ o[k][2] + 2 <= b + 2
                        /\ k > 1 => o[k - 1][2] + 2 <= o[k][1]
      BY <1>5 DEF Apart, P
    <2>1. CASE k \in 1..m
      <3>1. o[k] = out[k] /\ (k > 1 => o[k - 1] = out[k - 1])
        <4>1. k > 1 => k - 1 \in 1..m
          BY <1>5
        <4> QED BY <1>5, <2>1, <4>1
      <3>2. out[k][2] + 2 <= start /\ out[k][2] \in Nat
        BY <1>3, <1>4, <2>1
      <3>3. out[k][2] + 2 <= b + 2
        BY <1>6, <3>2
      <3> QED BY <1>3, <2>1, <3>1, <3>3
    <2>2. CASE k = m + 1
      <3>1. o[k] = q /\ q[2] + 2 <= b + 2 /\ q[1] <= q[2]
        BY <1>1, <1>5, <2>2
      <3>2. ASSUME k > 1 PROVE o[k - 1][2] + 2 <= q[1]
        <4>1. k - 1 = m /\ m \in 1..m
          BY <1>5, <2>2, <3>2
        <4>2. o[k - 1] = out[m] /\ out[m][2] + 2 <= start
          BY <1>3, <1>5, <4>1
        <4> QED BY <1>1, <4>2
      <3> QED BY <1>1, <3>1, <3>2
    <2> QED BY <1>5, <2>1, <2>2
  <1>8. Shows(text, o) = Rows(text, 1, b)
    <2>1. Shows(text, o) = Shows(text, out) \o Rows(text, start, b)
      BY <1>1, <1>2, ShowsAppend DEF o, P
    <2>2. RowsSplitAt(text, 1, start - 1, b)
      <3>1. Interval(text, 1, start - 1) /\ Interval(text, (start - 1) + 1, b)
        BY DEF Interval
      <3> QED BY <3>1, RowsSplit
    <2>3. (start - 1) + 1 = start
      OBVIOUS
    <2> QED BY <1>2, <2>1, <2>2, <2>3 DEF RowsSplitAt
  <1>9. Complete(text, o, b + 2)
    <2> SUFFICES ASSUME NEW p \in Paragraphs(text), p[2] < b + 2 PROVE p \in ToSet(o)
      BY DEF Complete
    <2>0. DOMAIN o = 1..(m + 1) /\ DOMAIN out = 1..m
      BY <1>2, <1>5 DEF m
    <2>1. p[2] \in Nat
      BY ParagraphParts
    <2>2. CASE p[2] < start
      <3>1. p \in ToSet(out)
        BY <1>2, <2>2 DEF Complete
      <3>2. PICK k \in 1..m : p = out[k]
        BY <2>0, <3>1 DEF ToSet
      <3>3. k \in 1..(m + 1) /\ o[k] = p
        BY <1>5, <3>2
      <3> QED BY <2>0, <3>3 DEF ToSet
    <2>3. CASE ~(p[2] < start)
      <3>1. start <= p[2] /\ p[2] <= b + 1
        BY <1>6, <2>1, <2>3
      <3>2. p = <<start, b>>
        BY <3>1, OneParagraph
      <3>3. p = q /\ m + 1 \in 1..(m + 1)
        BY <1>5, <3>2 DEF q
      <3> QED BY <1>5, <2>0, <3>3 DEF ToSet
    <2> QED BY <2>2, <2>3
  <1> QED BY <1>7, <1>8, <1>9 DEF o, q

\* What paragraphs computes on the way.
ParStart == [in_fence |-> FALSE, out |-> <<>>, start |-> 1]
ParStep(text, s, l) ==
    LET fence == IF text[l].fence THEN ~s.in_fence ELSE s.in_fence
        ends == blank(text[l]) /\ ~fence
    IN [in_fence |-> fence,
        out |-> IF ends /\ l > s.start THEN Append(s.out, <<s.start, l - 1>>) ELSE s.out,
        start |-> IF ends THEN l + 1 ELSE s.start]
Pars(text) ==
    CHOOSE g : g = [l \in 0..Len(text) |-> IF l = 0 THEN ParStart ELSE ParStep(text, g[l - 1], l)]

\* paragraphs, with that named.
LEMMA ParagraphsPars ==
    ASSUME NEW text
    PROVE  paragraphs(text) =
              IF Len(text) >= Pars(text)[Len(text)].start
              THEN Append(Pars(text)[Len(text)].out, <<Pars(text)[Len(text)].start, Len(text)>>)
              ELSE Pars(text)[Len(text)].out
  BY DEF paragraphs, Pars, ParStart, ParStep

ParState == [in_fence : BOOLEAN, out : Seq(Nat \X Nat), start : Nat]

\* It is a loop over the lines.
LEMMA ParsDef ==
    ASSUME NEW text \in Seq(Line)
    PROVE  /\ Pars(text)[0] = ParStart
           /\ \A l \in 1..Len(text) : Pars(text)[l] = ParStep(text, Pars(text)[l - 1], l)
  <1> DEFINE n == Len(text)
             F == [l \in 1..n |-> [s \in ParState |-> ParStep(text, s, l)]]
             a == Pars(text)
  <1>1. n \in Nat
    OBVIOUS
  <1>2. ParStart \in ParState
    BY DEF ParStart, ParState
  <1>3. F \in [1..n -> [ParState -> ParState]]
    <2> SUFFICES ASSUME NEW l \in 1..n, NEW s \in ParState PROVE ParStep(text, s, l) \in ParState
      OBVIOUS
    <2>1. s.in_fence \in BOOLEAN /\ s.out \in Seq(Nat \X Nat) /\ s.start \in Nat /\ l \in Nat /\ l - 1 \in Nat
      BY DEF ParState
    <2>2. <<s.start, l - 1>> \in Nat \X Nat
      BY <2>1
    <2>3. Append(s.out, <<s.start, l - 1>>) \in Seq(Nat \X Nat)
      BY <2>1, <2>2, AppendProperties
    <2> DEFINE fence == IF text[l].fence THEN ~s.in_fence ELSE s.in_fence
               ends == blank(text[l]) /\ ~fence
               o == IF ends /\ l > s.start THEN Append(s.out, <<s.start, l - 1>>) ELSE s.out
               b == IF ends THEN l + 1 ELSE s.start
    <2>4. ParStep(text, s, l) = [in_fence |-> fence, out |-> o, start |-> b]
      BY DEF ParStep
    <2>5. fence \in BOOLEAN
      BY <2>1
    <2>6. o \in Seq(Nat \X Nat) /\ b \in Nat
      BY <2>1, <2>3
    <2> HIDE DEF fence, ends, o, b
    <2> QED BY <2>4, <2>5, <2>6 DEF ParState
  <1>4. \A l \in 1..n : \A s \in ParState : F[l][s] = ParStep(text, s, l)
    OBVIOUS
  <1>5. a = CHOOSE g : g = [l \in 0..n |-> IF l = 0 THEN ParStart ELSE ParStep(text, g[l - 1], l)]
    BY DEF Pars
  <1> HIDE DEF F, a, n
  <1>6. PICK g : Loops(g, ParState, n, ParStart, F)
    BY <1>1, <1>2, <1>3, Loop
  <1>7. g \in [0..n -> ParState] /\ g[0] = ParStart /\ \A l \in 1..n : g[l] = F[l][g[l - 1]]
    BY <1>6 DEF Loops
  <1>8. \A l \in 1..n : g[l] = ParStep(text, g[l - 1], l)
    <2> TAKE l \in 1..n
    <2>1. l - 1 \in 0..n
      BY <1>1
    <2> QED BY <1>4, <1>7, <2>1
  <1>9. g = [l \in 0..n |-> IF l = 0 THEN ParStart ELSE ParStep(text, g[l - 1], l)]
    BY <1>1, <1>7, <1>8
  <1>10. a = [l \in 0..n |-> IF l = 0 THEN ParStart ELSE ParStep(text, a[l - 1], l)]
    BY <1>5, <1>9, Zenon
  <1>11. a[0] = ParStart /\ \A l \in 1..n : a[l] = ParStep(text, a[l - 1], l)
    <2>1. 0 \in 0..n /\ \A l \in 1..n : l \in 0..n /\ l # 0
      BY <1>1
    <2>2. a[0] = ParStart
      BY <1>10, <2>1, Zenon
    <2>3. ASSUME NEW l \in 1..n PROVE a[l] = ParStep(text, a[l - 1], l)
      BY <1>10, <2>1, Zenon
    <2> QED BY <2>2, <2>3
  <1> QED BY <1>11 DEF a, n

\* After l lines.
ParInv(text, s, l) ==
    /\ s.in_fence \in BOOLEAN /\ (s.in_fence <=> Open(text, l))
    /\ s.start \in 1..(l + 1)
    /\ Begins(text, s.start, l)
    /\ s.start <= l => ~blank(text[s.start])
    /\ s.start = l + 1 => ~s.in_fence
    /\ Found(text, s.out, s.start)

\* One line more.
LEMMA ParStepKeeps ==
    ASSUME NEW text \in Seq(Line), NEW l \in 1..Len(text), NEW s, ParInv(text, s, l - 1)
    PROVE  ParInv(text, ParStep(text, s, l), l)
  <1> DEFINE fence == IF text[l].fence THEN ~s.in_fence ELSE s.in_fence
             ends == blank(text[l]) /\ ~fence
             o == IF ends /\ l > s.start THEN Append(s.out, <<s.start, l - 1>>) ELSE s.out
             b == IF ends THEN l + 1 ELSE s.start
             t == ParStep(text, s, l)
             start == s.start
  <1>1. /\ s.in_fence \in BOOLEAN /\ (s.in_fence <=> Open(text, l - 1))
        /\ start \in 1..((l - 1) + 1)
        /\ Begins(text, start, l - 1)
        /\ start <= l - 1 => ~blank(text[start])
        /\ start = (l - 1) + 1 => ~s.in_fence
        /\ Found(text, s.out, start)
    BY DEF ParInv
  <1>2. t.in_fence = fence /\ t.out = o /\ t.start = b
    BY DEF ParStep
  <1>3. fence \in BOOLEAN /\ (fence <=> Open(text, l))
    <2>1. Open(text, l) <=> IF text[l].fence THEN ~Open(text, l - 1) ELSE Open(text, l - 1)
      BY OpenStep
    <2> QED BY <1>1, <2>1, Zenon
  <1>4. ends <=> Separates(text, l)
    <2>1. Separates(text, l) <=> blank(text[l]) /\ ~Open(text, l)
      BY DEF Separates, Open, Fences
    <2> QED BY <1>3, <2>1, Zenon
  <1>5. l \in Nat /\ l - 1 \in Nat /\ l <= Len(text) /\ (l - 1) + 1 = l /\ Len(text) \in Nat /\ l >= 1
    OBVIOUS
  <1>6. start \in 1..l /\ start \in Nat /\ start >= 1 /\ start <= l
    BY <1>1, <1>5
  <1>7. text[l].fence => ~blank(text[l])
    <2>1. text[l] \in Line
      OBVIOUS
    <2> QED BY <2>1 DEF Line, blank
  <1> HIDE DEF t, start
  <1>8. CASE ends
    <2>1. Separates(text, l) /\ b = l + 1 /\ t.start = l + 1 /\ ~fence
      BY <1>2, <1>4, <1>8
    <2>2. Begins(text, l + 1, l)
      <3>1. (l + 1) - 1 = l /\ (l + 1)..l = {}
        BY <1>5
      <3> QED BY <2>1, <3>1 DEF Begins
    <2>3. Rows(text, 1, l) = Rows(text, 1, l - 1)
      <3>1. Interval(text, 1, l - 1) /\ Interval(text, (l - 1) + 1, l)
        BY <1>5 DEF Interval
      <3>2. RowsSplitAt(text, 1, l - 1, l)
        BY <3>1, RowsSplit
      <3>3. Rows(text, l, l) = <<>>
        BY <1>5, <1>8, RowsFew
      <3>4. Rows(text, 1, l - 1) \in Seq(Char)
        BY <3>1, RowsType
      <3>5. Rows(text, 1, l) = Rows(text, 1, l - 1) \o <<>>
        BY <1>5, <3>2, <3>3 DEF RowsSplitAt
      <3> QED BY <3>4, <3>5, ConcatEmptySeq
    <2>4. Found(text, o, l + 1)
      <3>1. CASE l > start
        <4>1. start \in 1..Len(text) /\ start <= l - 1 /\ l - 1 <= Len(text)
              /\ (l - 1 < Len(text) => Separates(text, (l - 1) + 1))
          BY <1>5, <1>6, <2>1, <3>1
        <4>2. o = Append(s.out, <<start, l - 1>>)
          BY <1>8, <3>1 DEF start
        <4> DEFINE u == Append(s.out, <<start, l - 1>>)
        <4>3. /\ Apart(text, u, (l - 1) + 2)
              /\ Shows(text, u) = Rows(text, 1, l - 1)
              /\ Complete(text, u, (l - 1) + 2)
          BY <1>1, <1>5, <4>1, OneMore
        <4>4. (l - 1) + 2 = l + 1 /\ (l + 1) - 1 = l
          BY <1>5
        <4> HIDE DEF u
        <4>5. Found(text, u, l + 1)
          BY <2>3, <4>3, <4>4 DEF Found
        <4> QED BY <4>2, <4>5 DEF u
      <3>2. CASE ~(l > start)
        <4>1. start = l /\ o = s.out
          BY <1>5, <1>6, <3>2 DEF start
        <4>2. Apart(text, s.out, l) /\ Shows(text, s.out) = Rows(text, 1, l - 1)
              /\ Complete(text, s.out, l)
          BY <1>1, <4>1 DEF Found
        <4>3. Apart(text, s.out, l + 1)
          <5>1. \A k \in 1..Len(s.out) : s.out[k][2] \in Nat
            BY <4>2 DEF Apart, Passages
          <5>2. \A k \in 1..Len(s.out) : s.out[k][2] + 2 <= l
            BY <4>2 DEF Apart
          <5>3. \A x \in Nat : x + 2 <= l => x + 2 <= l + 1
            BY <1>5
          <5>4. \A k \in 1..Len(s.out) : s.out[k][2] + 2 <= l + 1
            BY <5>1, <5>2, <5>3
          <5> QED BY <4>2, <5>4 DEF Apart
        <4>4. Complete(text, s.out, l + 1)
          <5> SUFFICES ASSUME NEW p \in Paragraphs(text), p[2] < l + 1 PROVE p \in ToSet(s.out)
            BY DEF Complete
          <5> DEFINE y == p[2]
          <5>1. y \in Nat /\ p[1] \in Nat /\ p[1] <= y /\ \A k \in p[1]..y : ~Separates(text, k)
            BY ParagraphParts
          <5>2. y < l + 1
            OBVIOUS
          <5> HIDE DEF y
          <5>3. y # l
            <6> SUFFICES ASSUME y = l PROVE FALSE
              OBVIOUS
            <6>1. l \in p[1]..y
              BY <1>5, <5>1
            <6> QED BY <2>1, <5>1, <6>1
          <5>4. y < l
            BY <1>5, <5>1, <5>2, <5>3
          <5> QED BY <4>2, <5>4 DEF Complete, y
        <4>5. (l + 1) - 1 = l
          BY <1>5
        <4>6. Found(text, s.out, l + 1)
          BY <2>3, <4>2, <4>3, <4>4, <4>5 DEF Found
        <4> QED BY <4>1, <4>6
      <3> QED BY <3>1, <3>2
    <2>5. l + 1 \in 1..(l + 1) /\ ~(l + 1 <= l)
      BY <1>5
    <2> HIDE DEF fence, o, b, ends
    <2>6. ParInv(text, t, l)
      BY <1>2, <1>3, <2>1, <2>2, <2>4, <2>5 DEF ParInv
    <2> QED BY <2>6 DEF t
  <1>9. CASE ~ends
    <2>1. ~Separates(text, l) /\ b = start /\ o = s.out
      BY <1>4, <1>9 DEF start
    <2>2. Begins(text, start, l)
      <3>1. \A k \in start..l : k \in start..(l - 1) \/ k = l
        BY <1>5, <1>6
      <3> QED BY <1>1, <2>1, <3>1 DEF Begins
    <2>3. ~blank(text[start])
      <3>1. CASE start <= l - 1
        BY <1>1, <3>1
      <3>2. CASE ~(start <= l - 1)
        <4>1. start = l
          BY <1>5, <1>6, <3>2
        <4>2. ~s.in_fence
          BY <1>1, <1>5, <4>1
        <4>3. ASSUME blank(text[l]) PROVE FALSE
          <5>1. ~text[l].fence
            BY <1>7, <4>3
          <5>2. fence = s.in_fence
            BY <5>1
          <5> QED BY <1>9, <4>2, <4>3, <5>2
        <4> QED BY <4>1, <4>3
      <3> QED BY <3>1, <3>2
    <2>4. start \in 1..(l + 1) /\ start # l + 1
      BY <1>5, <1>6
    <2> HIDE DEF fence, o, b, ends
    <2>5. ParInv(text, t, l)
      BY <1>1, <1>2, <1>3, <2>1, <2>2, <2>3, <2>4 DEF ParInv
    <2> QED BY <2>5 DEF t
  <1> HIDE DEF ends
  <1> QED BY <1>8, <1>9

\* All of the text is in the passages, and every paragraph is one.
AllFound(text, ps) ==
    /\ Apart(text, ps, Len(text) + 2) /\ Shows(text, ps) = Rows(text, 1, Len(text))
    /\ \A p \in Paragraphs(text) : p \in ToSet(ps)

\* paragraphs finds the paragraphs.
LEMMA ParagraphsFound ==
    ASSUME NEW text \in Seq(Line)
    PROVE  AllFound(text, paragraphs(text))
  <1> DEFINE g == Pars(text)
             n == Len(text)
             T == {l \in 0..n : ParInv(text, g[l], l)}
  <1>1. g[0] = ParStart /\ \A l \in 1..n : g[l] = ParStep(text, g[l - 1], l)
    BY ParsDef
  <1>2. n \in Nat
    OBVIOUS
  <1>3. paragraphs(text) = IF n >= g[n].start THEN Append(g[n].out, <<g[n].start, n>>) ELSE g[n].out
    BY ParagraphsPars
  <1>4. ParInv(text, ParStart, 0)
    <2>1. ParStart.in_fence = FALSE /\ ParStart.out = <<>> /\ ParStart.start = 1
      BY DEF ParStart
    <2>2. ~Open(text, 0)
      BY OpenStep
    <2>3. Begins(text, 1, 0)
      BY DEF Begins
    <2>4. Apart(text, <<>>, 1)
      BY DEF Apart
    <2>5. Shows(text, <<>>) = Rows(text, 1, 0)
      <3>1. Shows(text, <<>>) = <<>>
        BY ShowsAppend
      <3>2. Rows(text, 0 + 1, 0) = <<>>
        BY RowsFew
      <3> QED BY <3>1, <3>2
    <2>6. Complete(text, <<>>, 1)
      <3> SUFFICES ASSUME NEW p \in Paragraphs(text) PROVE ~(p[2] < 1)
        BY DEF Complete
      <3>1. p[2] \in 1..Len(text)
        BY ParagraphParts
      <3> QED BY <3>1
    <2>7. Found(text, <<>>, 1)
      BY <2>4, <2>5, <2>6 DEF Found
    <2>8. 1 \in 1..(0 + 1) /\ ~(1 <= 0)
      OBVIOUS
    <2> QED BY <2>1, <2>2, <2>3, <2>7, <2>8 DEF ParInv
  <1> HIDE DEF g, n
  <1>5. 0 \in T
    BY <1>1, <1>2, <1>4
  <1>6. ASSUME NEW l \in 1..n, l - 1 \in T PROVE l \in T
    <2>1. ParInv(text, g[l - 1], l - 1)
      BY <1>6
    <2>2. ParInv(text, ParStep(text, g[l - 1], l), l)
      BY <2>1, ParStepKeeps DEF n
    <2> QED BY <1>1, <2>2
  <1>7. \A l \in 0..n : l \in T
    <2> HIDE DEF T
    <2> QED BY <1>2, <1>5, <1>6, UpTo
  <1>8. ParInv(text, g[n], n)
    <2>1. n \in 0..n
      BY <1>2
    <2> QED BY <1>7, <2>1
  <1> DEFINE out == g[n].out
             start == g[n].start
  <1>9. /\ start \in 1..(n + 1) /\ Begins(text, start, n)
        /\ start <= n => ~blank(text[start])
        /\ Found(text, out, start)
    BY <1>8 DEF ParInv
  <1>10. paragraphs(text) = IF n >= start THEN Append(out, <<start, n>>) ELSE out
    BY <1>3
  <1> HIDE DEF out, start
  <1>11. \A p \in Paragraphs(text) : p[2] \in Nat /\ p[2] <= n
    <2> TAKE p \in Paragraphs(text)
    <2>1. p[2] \in 1..n
      BY ParagraphParts DEF n
    <2> QED BY <1>2, <2>1
  <1>12. start \in Nat /\ start >= 1
    BY <1>9
  <1>13. CASE n >= start
    <2> DEFINE ps == Append(out, <<start, n>>)
    <2>1. start \in 1..n /\ start <= n /\ n <= n /\ ~(n < n)
      BY <1>2, <1>12, <1>13
    <2>2. Apart(text, ps, n + 2) /\ Shows(text, ps) = Rows(text, 1, n) /\ Complete(text, ps, n + 2)
      BY <1>2, <1>9, <2>1, OneMore DEF n
    <2> HIDE DEF ps
    <2>3. \A p \in Paragraphs(text) : p[2] < n + 2
      BY <1>2, <1>11
    <2>4. AllFound(text, ps)
      BY <2>2, <2>3 DEF AllFound, Complete, n
    <2> QED BY <1>10, <1>13, <2>4 DEF ps
  <1>14. CASE ~(n >= start)
    <2>1. start = n + 1 /\ (n + 1) - 1 = n
      BY <1>2, <1>9, <1>12, <1>14
    <2>2. Apart(text, out, n + 1) /\ Shows(text, out) = Rows(text, 1, n) /\ Complete(text, out, n + 1)
      BY <1>9, <2>1 DEF Found
    <2>3. \A p \in Paragraphs(text) : p[2] < n + 1
      BY <1>2, <1>11
    <2>4. Apart(text, out, n + 2)
      <3>1. \A k \in 1..Len(out) : out[k][2] \in Nat
        BY <2>2 DEF Apart, Passages
      <3>2. \A k \in 1..Len(out) : out[k][2] + 2 <= n + 1
        BY <2>2 DEF Apart
      <3>3. \A x \in Nat : x + 2 <= n + 1 => x + 2 <= n + 2
        BY <1>2
      <3>4. \A k \in 1..Len(out) : out[k][2] + 2 <= n + 2
        BY <3>1, <3>2, <3>3
      <3> QED BY <2>2, <3>4 DEF Apart
    <2>5. AllFound(text, out)
      BY <2>2, <2>3, <2>4 DEF AllFound, Complete, n
    <2> QED BY <1>10, <1>14, <2>5
  <1> QED BY <1>13, <1>14
-----------------------------------------------------------------------------
(***************************************************************************)
(* chunk_text: the paragraphs one after the other.                         *)
(***************************************************************************)
Nothing == [chunks |-> <<>>, current |-> <<>>]
ParagraphSteps(text, ps, max) ==
    CHOOSE g : g = [k \in 0..Len(ps) |->
        IF k = 0 THEN Nothing ELSE append_paragraph(text, g[k - 1], ps[k], max)]

\* chunk_text, with what it computes on the way named.
LEMMA ChunkTextSteps ==
    ASSUME NEW whole, NEW max
    PROVE  LET text == trim_end(whole)
               all == slice(text, 1, Len(text))
               ps == paragraphs(text)
           IN chunk_text(whole, max) =
              IF text = <<>> THEN <<>>
              ELSE IF len(text, all) <= max THEN <<all>>
              ELSE flush(text, ParagraphSteps(text, ps, max)[Len(ps)]).chunks
  BY DEF chunk_text, ParagraphSteps, Nothing

\* append_paragraph gives chunks of spans.
LEMMA ParagraphState ==
    ASSUME NEW text \in Seq(Line), NEW s \in State(text), NEW max \in Nat, max >= 4,
           NEW p, Interval(text, p[1], p[2]), p[1] <= p[2]
    PROVE  append_paragraph(text, s, p, max) \in State(text)
  <1> DEFINE piece == slice(text, p[1], p[2])
             r == split_lines(text, p, max)
             f == flush(text, s)
  <1>1. len(text, piece) \in Nat
    BY SliceSpans, LenConcat DEF IsSlice
  <1>2. CASE len(text, piece) <= max
    <2>1. Fits(text, max, piece)
      BY <1>2, SliceFits
    <2>2. append_paragraph(text, s, p, max) = append(text, s, piece, 2, max)
      BY <1>1, <1>2 DEF append_paragraph
    <2> HIDE DEF piece
    <2>3. piece \in Seq(Spans(text)) /\ piece # <<>> /\ piece[1].gap = 0
      BY <2>1 DEF Fits
    <2> QED BY <2>2, <2>3, AppendState
  <1>3. CASE ~(len(text, piece) <= max)
    <2>1. append_paragraph(text, s, p, max) = append_lines(text, f, r, max)
      BY <1>1, <1>3 DEF append_paragraph
    <2>2. Torn(text, max, r, p[1], p[2])
      BY SplitLines
    <2> HIDE DEF r, f
    <2>3. r \in Seq(Spans(text)) /\ r # <<>> /\ \A i \in 1..Len(r) : r[i].gap = 0
      BY <2>2 DEF Torn, Pieces
    <2>4. f \in State(text)
      <3>1. 1 \in 1..Len(r) /\ 1 \in Nat
        BY <2>3
      <3>2. r[1].gap = 0
        BY <2>3, <3>1
      <3> QED BY <2>3, <3>2, AppendState DEF f
    <2>5. LineSteps(text, f, r, max) \in [0..Len(r) -> State(text)]
      BY <2>3, <2>4, LineStepsDef
    <2>6. Len(r) \in 0..Len(r)
      BY <2>3
    <2>7. append_lines(text, f, r, max) = LineSteps(text, f, r, max)[Len(r)]
      BY AppendLinesSteps
    <2> QED BY <2>1, <2>5, <2>6, <2>7
  <1> QED BY <1>2, <1>3

\* It is a loop over the paragraphs.
LEMMA ParagraphStepsDef ==
    ASSUME NEW text \in Seq(Line), NEW max \in Nat, max >= 4,
           NEW ps \in Seq(Passages(text)), \A k \in 1..Len(ps) : ps[k][1] <= ps[k][2]
    PROVE  /\ ParagraphSteps(text, ps, max)[0] = Nothing
           /\ \A k \in 1..Len(ps) : ParagraphSteps(text, ps, max)[k] =
                 append_paragraph(text, ParagraphSteps(text, ps, max)[k - 1], ps[k], max)
  <1> DEFINE n == Len(ps)
             S == State(text)
             F == [k \in 1..n |-> [t \in S |-> append_paragraph(text, t, ps[k], max)]]
             a == ParagraphSteps(text, ps, max)
  <1>1. n \in Nat
    OBVIOUS
  <1>2. Nothing \in S
    BY DEF Nothing, State
  <1>3. F \in [1..n -> [S -> S]]
    <2> SUFFICES ASSUME NEW k \in 1..n, NEW t \in S PROVE append_paragraph(text, t, ps[k], max) \in S
      OBVIOUS
    <2>1. Interval(text, ps[k][1], ps[k][2]) /\ ps[k][1] <= ps[k][2]
      <3>1. ps[k] \in Passages(text)
        OBVIOUS
      <3> QED BY <3>1 DEF Passages
    <2> QED BY <2>1, ParagraphState
  <1>4. \A k \in 1..n : \A t \in S : F[k][t] = append_paragraph(text, t, ps[k], max)
    OBVIOUS
  <1>5. a = CHOOSE g : g = [k \in 0..n |->
               IF k = 0 THEN Nothing ELSE append_paragraph(text, g[k - 1], ps[k], max)]
    BY DEF ParagraphSteps
  <1> HIDE DEF F, a, n, S
  <1>6. PICK g : Loops(g, S, n, Nothing, F)
    BY <1>1, <1>2, <1>3, Loop
  <1>7. g \in [0..n -> S] /\ g[0] = Nothing /\ \A k \in 1..n : g[k] = F[k][g[k - 1]]
    BY <1>6 DEF Loops
  <1>8. \A k \in 1..n : g[k] = append_paragraph(text, g[k - 1], ps[k], max)
    <2> TAKE k \in 1..n
    <2>1. k - 1 \in 0..n
      BY <1>1
    <2> QED BY <1>4, <1>7, <2>1
  <1>9. g = [k \in 0..n |-> IF k = 0 THEN Nothing ELSE append_paragraph(text, g[k - 1], ps[k], max)]
    BY <1>1, <1>7, <1>8
  <1>10. a = [k \in 0..n |-> IF k = 0 THEN Nothing ELSE append_paragraph(text, a[k - 1], ps[k], max)]
    BY <1>5, <1>9, Zenon
  <1>11. a[0] = Nothing /\ \A k \in 1..n : a[k] = append_paragraph(text, a[k - 1], ps[k], max)
    <2>1. 0 \in 0..n /\ \A k \in 1..n : k \in 0..n /\ k # 0
      BY <1>1
    <2>2. a[0] = Nothing
      BY <1>10, <2>1, Zenon
    <2>3. ASSUME NEW k \in 1..n PROVE a[k] = append_paragraph(text, a[k - 1], ps[k], max)
      BY <1>10, <2>1, Zenon
    <2> QED BY <2>2, <2>3
  <1> QED BY <1>11 DEF a, n

\* After k paragraphs.
ParagraphsInv(text, max, s, ps, k) ==
    /\ ChunkInv(text, max, s, Shows(text, SubSeq(ps, 1, k)))
    /\ k = 0 => s.current = <<>>
    /\ k > 0 => /\ s.current[Len(s.current)].line = ps[k][2]
                /\ s.current[Len(s.current)].to = Len(text[ps[k][2]].chars)
    /\ \A j \in 1..k : len(text, slice(text, ps[j][1], ps[j][2])) <= max =>
                          Holds(text, s, ps[j][1], ps[j][2])

\* One paragraph more.
LEMMA ParagraphsStep ==
    ASSUME NEW text \in Seq(Line), NEW max \in Nat, max >= 4, NEW s, NEW ps,
           Apart(text, ps, Len(text) + 2), NEW k \in 1..Len(ps),
           ParagraphsInv(text, max, s, ps, k - 1)
    PROVE  ParagraphsInv(text, max, append_paragraph(text, s, ps[k], max), ps, k)
  <1> DEFINE p == ps[k]
             t == append_paragraph(text, s, p, max)
             before == Shows(text, SubSeq(ps, 1, k - 1))
             c == s.current
  <1>1. ps \in Seq(Passages(text)) /\ p \in Passages(text) /\ p[1] <= p[2] /\ ~blank(text[p[1]])
        /\ (k > 1 => ps[k - 1][2] + 2 <= p[1])
    BY DEF Apart
  <1>2. Interval(text, p[1], p[2])
    BY <1>1 DEF Passages
  <1>3. /\ ChunkInv(text, max, s, before)
        /\ k - 1 = 0 => c = <<>>
        /\ k - 1 > 0 => /\ c[Len(c)].line = ps[k - 1][2]
                        /\ c[Len(c)].to = Len(text[ps[k - 1][2]].chars)
        /\ \A j \in 1..(k - 1) : len(text, slice(text, ps[j][1], ps[j][2])) <= max =>
                              Holds(text, s, ps[j][1], ps[j][2])
    BY DEF ParagraphsInv
  <1>4. k \in Nat /\ k >= 1
    OBVIOUS
  <1> HIDE DEF c
  <1>5. c # <<>> => c[Len(c)].line + 2 <= p[1] /\ c[Len(c)].to = Len(text[c[Len(c)].line].chars)
    <2> SUFFICES ASSUME c # <<>>
                 PROVE  c[Len(c)].line + 2 <= p[1] /\ c[Len(c)].to = Len(text[c[Len(c)].line].chars)
      OBVIOUS
    <2>1. k - 1 > 0 /\ k > 1
      BY <1>3, <1>4
    <2> QED BY <1>1, <1>3, <2>1
  <1> HIDE DEF p, before, t
  <1>6. /\ Placed(text, max, s, t, p[1], p[2], before)
        /\ len(text, slice(text, p[1], p[2])) <= max => Holds(text, t, p[1], p[2])
    BY <1>1, <1>2, <1>3, <1>5, ParagraphPut DEF c, t
  <1>7. before \o Rows(text, p[1], p[2]) = Shows(text, SubSeq(ps, 1, k))
    <2> DEFINE q == SubSeq(ps, 1, k - 1)
    <2>1. Grows(Passages(text), ps)
      BY <1>1, PrefixesGrow
    <2>2. SubSeq(ps, 1, k) = Append(q, p) /\ q \in Seq(Passages(text))
      BY <2>1 DEF Grows, p
    <2> HIDE DEF q
    <2>3. Shows(text, Append(q, p)) = Shows(text, q) \o Rows(text, p[1], p[2])
      BY <1>1, <2>2, ShowsAppend
    <2> QED BY <2>2, <2>3 DEF before, q
  <1>8. /\ ChunkInv(text, max, t, Shows(text, SubSeq(ps, 1, k)))
        /\ t.current[Len(t.current)].line = p[2]
        /\ t.current[Len(t.current)].to = Len(text[p[2]].chars)
        /\ \A a, b : Holds(text, s, a, b) => Holds(text, t, a, b)
    BY <1>6, <1>7 DEF Placed
  <1>9. ASSUME NEW j \in 1..k, len(text, slice(text, ps[j][1], ps[j][2])) <= max
        PROVE  Holds(text, t, ps[j][1], ps[j][2])
    <2>1. CASE j = k
      BY <1>6, <1>9, <2>1 DEF p
    <2>2. CASE j # k
      <3>1. j \in 1..(k - 1)
        BY <1>4, <2>2
      <3>2. Holds(text, s, ps[j][1], ps[j][2])
        BY <1>3, <1>9, <3>1
      <3> QED BY <1>8, <3>2
    <2> QED BY <2>1, <2>2
  <1>10. ParagraphsInv(text, max, t, ps, k)
    <2>1. k # 0
      BY <1>4
    <2> QED BY <1>8, <1>9, <2>1 DEF ParagraphsInv, p
  <1> QED BY <1>10 DEF t, p

\* What the chunks of a text are to be.
GoodChunks(text, max, chunks) ==
    /\ chunks \in Seq(Seq(Spans(text))) /\ Closed(text, max, chunks)
    /\ Shown(chunks) = Rows(text, 1, Len(text))
    /\ \A p \in Paragraphs(text) :
          len(text, slice(text, p[1], p[2])) <= max =>
              \E c \in 1..Len(chunks) : p[1]..p[2] \subseteq LinesOf(chunks[c])

\* The chunks of a text that does not fit into one.
LEMMA ManyChunks ==
    ASSUME NEW text \in Seq(Line), NEW max \in Nat, max >= 4, NEW ps, AllFound(text, ps)
    PROVE  GoodChunks(text, max, flush(text, ParagraphSteps(text, ps, max)[Len(ps)]).chunks)
  <1> DEFINE g == ParagraphSteps(text, ps, max)
             n == Len(ps)
             T == {k \in 0..n : ParagraphsInv(text, max, g[k], ps, k)}
  <1>1. Apart(text, ps, Len(text) + 2) /\ Shows(text, ps) = Rows(text, 1, Len(text))
        /\ \A p \in Paragraphs(text) : p \in ToSet(ps)
    BY DEF AllFound
  <1>2. ps \in Seq(Passages(text)) /\ \A k \in 1..n : ps[k][1] <= ps[k][2]
    BY <1>1 DEF Apart
  <1>3. g[0] = Nothing /\ \A k \in 1..n : g[k] = append_paragraph(text, g[k - 1], ps[k], max)
    BY <1>2, ParagraphStepsDef
  <1>4. n \in Nat
    BY <1>2
  <1>5. SubSeq(ps, 1, 0) = <<>> /\ SubSeq(ps, 1, n) = ps
    <2>1. Grows(Passages(text), ps)
      BY <1>2, PrefixesGrow
    <2> QED BY <2>1 DEF Grows
  <1> HIDE DEF g
  <1>6. ParagraphsInv(text, max, Nothing, ps, 0)
    <2>1. Nothing.chunks = <<>> /\ Nothing.current = <<>>
      BY DEF Nothing
    <2>2. <<>> \in Seq(Seq(Spans(text))) /\ <<>> \in Seq(Spans(text))
      OBVIOUS
    <2>3. Closed(text, max, <<>>) /\ Neat(text, <<>>) /\ len(text, <<>>) = 0
      BY LenConcat DEF Closed, Neat
    <2>4. ChunkInv(text, max, Nothing, Shown(<<>>) \o Reads(<<>>))
      <3>1. len(text, <<>>) <= max
        BY <2>3
      <3> QED BY <2>2, <2>3, <3>1, ChunkMade DEF Nothing
    <2>5. Shown(<<>>) \o Reads(<<>>) = Shows(text, SubSeq(ps, 1, 0))
      <3>1. Shown(<<>>) = <<>> /\ Reads(<<>>) = <<>> /\ Shows(text, <<>>) = <<>>
        BY <2>2, ShownAppend, ReadsConcat, ShowsAppend
      <3>2. <<>> \o <<>> = <<>>
        BY ConcatEmptySeq
      <3> QED BY <1>5, <3>1, <3>2
    <2>6. ChunkInv(text, max, Nothing, Shows(text, SubSeq(ps, 1, 0)))
      BY <2>4, <2>5
    <2>7. ~(0 > 0) /\ 1..0 = {}
      OBVIOUS
    <2> QED BY <2>1, <2>6, <2>7 DEF ParagraphsInv
  <1> HIDE DEF n
  <1>7. 0 \in T
    BY <1>3, <1>4, <1>6
  <1>8. ASSUME NEW k \in 1..n, k - 1 \in T PROVE k \in T
    <2>1. ParagraphsInv(text, max, g[k - 1], ps, k - 1)
      BY <1>8
    <2>2. ParagraphsInv(text, max, append_paragraph(text, g[k - 1], ps[k], max), ps, k)
      BY <1>1, <2>1, ParagraphsStep DEF n
    <2> QED BY <1>3, <2>2
  <1>9. \A k \in 0..n : k \in T
    <2> HIDE DEF T
    <2> QED BY <1>4, <1>7, <1>8, UpTo
  <1>10. ParagraphsInv(text, max, g[n], ps, n)
    <2>1. n \in 0..n
      BY <1>4
    <2> QED BY <1>9, <2>1
  <1> DEFINE f == flush(text, g[n])
  <1>11. ChunkInv(text, max, g[n], Rows(text, 1, Len(text)))
         /\ \A j \in 1..n : len(text, slice(text, ps[j][1], ps[j][2])) <= max =>
                          Holds(text, g[n], ps[j][1], ps[j][2])
    BY <1>1, <1>5, <1>10 DEF ParagraphsInv
  <1>12. ChunkInv(text, max, f, Rows(text, 1, Len(text))) /\ len(text, f.current) = 0
         /\ \A a, b : Holds(text, g[n], a, b) => Holds(text, f, a, b)
    BY <1>11, FlushInv
  <1> HIDE DEF f
  <1>13. /\ f.chunks \in Seq(Seq(Spans(text))) /\ f.current \in Seq(Spans(text))
         /\ Closed(text, max, f.chunks)
         /\ Rows(text, 1, Len(text)) = Shown(f.chunks) \o Reads(f.current)
         /\ Shown(f.chunks) \in Seq(Char)
    BY <1>12, ChunkParts
  <1>14. Shown(f.chunks) = Rows(text, 1, Len(text))
    <2>1. Reads(f.current) = <<>>
      BY <1>12, <1>13, EmptyReads
    <2>2. Shown(f.chunks) \o <<>> = Shown(f.chunks)
      BY <1>13, ConcatEmptySeq
    <2> QED BY <1>13, <2>1, <2>2
  <1>15. ASSUME NEW p \in Paragraphs(text), len(text, slice(text, p[1], p[2])) <= max
         PROVE  \E c \in 1..Len(f.chunks) : p[1]..p[2] \subseteq LinesOf(f.chunks[c])
    <2>1. PICK j \in 1..n : p = ps[j]
      <3>1. p \in ToSet(ps) /\ DOMAIN ps = 1..n
        BY <1>1, <1>2 DEF n
      <3> QED BY <3>1 DEF ToSet
    <2>2. Holds(text, f, p[1], p[2])
      BY <1>11, <1>12, <1>15, <2>1
    <2> QED BY <1>12, <2>2 DEF Holds
  <1>16. GoodChunks(text, max, f.chunks)
    BY <1>13, <1>14, <1>15 DEF GoodChunks
  <1> QED BY <1>16 DEF f, n, g

\* A text that fits into one chunk, and does not end with a blank line.
LEMMA OneChunk ==
    ASSUME NEW text \in Seq(Line), NEW max \in Nat, text # <<>>, ~blank(text[Len(text)]),
           len(text, slice(text, 1, Len(text))) <= max
    PROVE  GoodChunks(text, max, <<slice(text, 1, Len(text))>>)
  <1> DEFINE n == Len(text)
             all == slice(text, 1, n)
             chunks == <<all>>
  <1>1. n \in Nat \ {0} /\ 1 <= n /\ n \in 1..n
    OBVIOUS
  <1>2. Interval(text, 1, n) /\ Interval(text, n, n) /\ Interval(text, 1, n - 1) /\ (n - 1) + 1 = n
    BY <1>1 DEF Interval
  <1>3. Fits(text, max, all) /\ 1..n \subseteq LinesOf(all)
    BY <1>1, <1>2, SliceFits
  <1>4. Reads(all) = Rows(text, 1, n)
    BY DEF Rows
  <1> HIDE DEF all
  <1>5. all \in Seq(Spans(text)) /\ len(text, all) <= max /\ Neat(text, all)
    BY <1>3 DEF Fits
  <1>6. len(text, all) \in 1..max
    <2>1. len(text, all) \in Nat
      BY <1>5, LenConcat
    <2>2. len(text, all) # 0
      <3> SUFFICES ASSUME len(text, all) = 0 PROVE FALSE
        OBVIOUS
      <3>1. Rows(text, 1, n) = <<>>
        BY <1>4, <1>5, EmptyReads
      <3>2. RowsSplitAt(text, 1, n - 1, n)
        BY <1>2, RowsSplit
      <3> DEFINE x == Rows(text, 1, n - 1)
                 y == Rows(text, n, n)
      <3>3. x \in Seq(Char) /\ y \in Seq(Char)
        BY <1>2, RowsType
      <3>4. y # <<>>
        BY <1>1, <1>2, RowsShow
      <3>5. x \o y = <<>>
        BY <1>2, <3>1, <3>2 DEF RowsSplitAt
      <3> HIDE DEF x, y
      <3>6. Len(x \o y) = Len(x) + Len(y) /\ Len(x) \in Nat /\ Len(y) \in Nat /\ Len(y) # 0
        BY <3>3, <3>4, ConcatProperties
      <3> QED BY <3>5, <3>6
    <2> QED BY <1>5, <2>1, <2>2
  <1>7. chunks \in Seq(Seq(Spans(text))) /\ Len(chunks) = 1 /\ chunks[1] = all
    BY <1>5
  <1>8. Shown(chunks) = Rows(text, 1, n)
    <2>1. FlattenSeq(chunks) = all
      BY <1>5, FlattenOne
    <2> QED BY <1>4, <2>1 DEF Shown
  <1> HIDE DEF chunks
  <1>9. Closed(text, max, chunks)
    BY <1>5, <1>6, <1>7 DEF Closed
  <1>10. ASSUME NEW p \in Paragraphs(text)
         PROVE  \E c \in 1..Len(chunks) : p[1]..p[2] \subseteq LinesOf(chunks[c])
    <2>1. p[1] \in 1..n /\ p[2] \in 1..n
      BY ParagraphParts
    <2>2. p[1]..p[2] \subseteq 1..n
      BY <1>1, <2>1
    <2>3. p[1]..p[2] \subseteq LinesOf(chunks[1]) /\ 1 \in 1..Len(chunks)
      BY <1>3, <1>7, <2>2
    <2> QED BY <2>3
  <1>11. GoodChunks(text, max, chunks)
    BY <1>7, <1>8, <1>9, <1>10 DEF GoodChunks
  <1> QED BY <1>11 DEF chunks, all
-----------------------------------------------------------------------------
(***************************************************************************)
(* The blank lines at the end, which trim_end takes away.                  *)
(***************************************************************************)
Trims(whole, text) ==
    /\ text \in Seq(Line) /\ Len(text) <= Len(whole)
    /\ \A l \in 1..Len(text) : text[l] = whole[l]
    /\ \A l \in (Len(text) + 1)..Len(whole) : blank(whole[l])
    /\ text # <<>> => ~blank(text[Len(text)])

\* A set of numbers with a bound has a greatest element.
LEMMA Greatest ==
    ASSUME NEW n \in Nat, NEW T \in SUBSET (1..n), T # {}
    PROVE  Max(T) \in T /\ \A y \in T : Max(T) >= y
  <1> DEFINE U == {i \in Nat : i <= n /\ n - i \in T}
  <1>1. U \in SUBSET Nat /\ U # {}
    <2>1. PICK x \in T : TRUE
      OBVIOUS
    <2>2. x \in 1..n
      OBVIOUS
    <2>3. n - x \in Nat /\ n - x <= n /\ n - (n - x) = x
      BY <2>2
    <2> QED BY <2>1, <2>3
  <1> HIDE DEF U
  <1>2. PICK i \in U : \A m \in U : i <= m
    BY <1>1, LeastNatural
  <1>3. i \in Nat /\ i <= n /\ n - i \in T
    BY <1>2 DEF U
  <1>4. \A y \in T : n - i >= y
    <2> TAKE y \in T
    <2>1. y \in 1..n
      OBVIOUS
    <2>2. n - y \in Nat /\ n - y <= n /\ n - (n - y) = y
      BY <2>1
    <2>3. n - y \in U
      BY <2>2 DEF U
    <2>4. i <= n - y
      BY <1>2, <2>3
    <2> QED BY <1>3, <2>1, <2>4
  <1>5. \E x \in T : \A y \in T : x >= y
    BY <1>3, <1>4
  <1> QED BY <1>5, Zenon DEF Max

\* What trim_end does.
LEMMA TrimEnd ==
    ASSUME NEW whole \in Seq(Line)
    PROVE  Trims(whole, trim_end(whole))
  <1> DEFINE full == {l \in DOMAIN whole : ~blank(whole[l])}
             m == IF full = {} THEN 0 ELSE Max(full)
             text == SubSeq(whole, 1, m)
             n == Len(whole)
  <1>1. trim_end(whole) = text
    BY DEF trim_end
  <1>2. n \in Nat /\ DOMAIN whole = 1..n
    OBVIOUS
  <1>3. /\ m \in 0..n
        /\ \A l \in 1..n : l > m => blank(whole[l])
        /\ m > 0 => ~blank(whole[m])
    <2>1. CASE full = {}
      BY <1>2, <2>1
    <2>2. CASE full # {}
      <3>1. full \in SUBSET (1..n)
        BY <1>2
      <3> HIDE DEF full
      <3>2. m \in full /\ \A y \in full : m >= y
        BY <1>2, <2>2, <3>1, Greatest
      <3> HIDE DEF m
      <3>3. m \in 1..n /\ ~blank(whole[m])
        BY <3>1, <3>2 DEF full
      <3>4. ASSUME NEW l \in 1..n, l > m PROVE blank(whole[l])
        <4>1. l \notin full
          BY <3>2, <3>3, <3>4
        <4> QED BY <1>2, <4>1 DEF full
      <3> QED BY <3>3, <3>4
    <2> QED BY <2>1, <2>2
  <1> HIDE DEF m, full
  <1>4. text \in Seq(Line) /\ Len(text) = m /\ \A l \in 1..m : text[l] = whole[l]
    BY <1>2, <1>3
  <1> HIDE DEF text, n
  <1>5. m \in Nat /\ m <= n
    BY <1>2, <1>3
  <1>6. \A l \in (m + 1)..n : blank(whole[l])
    <2> TAKE l \in (m + 1)..n
    <2>1. l \in 1..n /\ l > m
      BY <1>2, <1>5
    <2> QED BY <1>3, <2>1
  <1>7. text # <<>> => ~blank(text[m])
    <2> SUFFICES ASSUME text # <<>> PROVE ~blank(text[m])
      OBVIOUS
    <2>1. m > 0 /\ m \in 1..m
      BY <1>4, <1>5
    <2> QED BY <1>3, <1>4, <2>1
  <1>8. Trims(whole, text)
    BY <1>4, <1>5, <1>6, <1>7 DEF Trims, n
  <1> QED BY <1>1, <1>8

\* Spans of the lines that stay are the same in both.
LEMMA TrimSpans ==
    ASSUME NEW whole \in Seq(Line), NEW text, Trims(whole, text)
    PROVE  /\ \A x \in Spans(text) : /\ x \in Spans(whole) /\ width(text, x) = width(whole, x)
                                     /\ text[x.line] = whole[x.line]
           /\ \A c \in Seq(Spans(text)) : c \in Seq(Spans(whole)) /\ len(text, c) = len(whole, c)
           /\ \A b \in 0..Len(text) : slice(text, 1, b) = slice(whole, 1, b)
           /\ \A a \in 1..Len(text) : \A b \in 1..Len(text) : slice(text, a, b) = slice(whole, a, b)
  <1>1. text \in Seq(Line) /\ Len(text) \in Nat /\ Len(whole) \in Nat /\ Len(text) <= Len(whole)
        /\ \A l \in 1..Len(text) : text[l] = whole[l]
    BY DEF Trims
  <1>2. ASSUME NEW x \in Spans(text)
        PROVE  x \in Spans(whole) /\ width(text, x) = width(whole, x) /\ text[x.line] = whole[x.line]
    <2>1. /\ x \in [gap : Nat, line : 1..Len(text), from : Nat, to : Nat]
          /\ x.line \in 1..Len(text)
          /\ 1 <= x.from /\ x.from <= x.to + 1 /\ x.to <= Len(text[x.line].chars)
      BY <1>1, SpanParts
    <2>2. text[x.line] = whole[x.line]
      BY <1>1, <2>1
    <2>3. 1..Len(text) \subseteq 1..Len(whole)
      BY <1>1
    <2>4. x \in [gap : Nat, line : 1..Len(whole), from : Nat, to : Nat]
      BY <2>1, <2>3
    <2>5. x \in Spans(whole)
      BY <2>1, <2>2, <2>4 DEF Spans
    <2>6. width(text, x) = width(whole, x)
      BY <2>2 DEF width
    <2> QED BY <2>2, <2>5, <2>6
  <1>3. ASSUME NEW c \in Seq(Spans(text))
        PROVE  c \in Seq(Spans(whole)) /\ len(text, c) = len(whole, c)
    <2>1. \A i \in DOMAIN c : c[i] \in Spans(text)
      OBVIOUS
    <2>2. \A i \in DOMAIN c : width(text, c[i]) = width(whole, c[i])
      BY <1>2, <2>1
    <2>3. [i \in DOMAIN c |-> width(text, c[i])] = [i \in DOMAIN c |-> width(whole, c[i])]
      BY <2>2
    <2>4. len(text, c) = len(whole, c)
      BY <2>3 DEF len
    <2>5. Spans(text) \subseteq Spans(whole)
      BY <1>2
    <2>6. c \in Seq(Spans(whole))
      <3> DEFINE A == Spans(text)
                 B == Spans(whole)
      <3>1. c \in Seq(A) /\ A \subseteq B
        BY <2>5
      <3> HIDE DEF A, B
      <3>2. c \in Seq(B)
        BY <3>1
      <3> QED BY <3>2 DEF B
    <2> QED BY <2>4, <2>6
  <1>4. ASSUME NEW a \in 1..(Len(text) + 1), NEW b \in 0..Len(text)
        PROVE  slice(text, a, b) = slice(whole, a, b)
    <2>1. \A i \in 1..(b - a + 1) : a + i - 1 \in 1..Len(text)
      BY <1>1
    <2>2. \A i \in 1..(b - a + 1) :
             Whole(text, IF i = 1 THEN 0 ELSE 1, a + i - 1) = Whole(whole, IF i = 1 THEN 0 ELSE 1, a + i - 1)
      BY <1>1, <2>1 DEF Whole
    <2> QED BY <2>2 DEF slice
  <1>5. \A a \in 1..Len(text) : a \in 1..(Len(text) + 1) /\ a \in 0..Len(text)
    BY <1>1
  <1>6. 1 \in 1..(Len(text) + 1)
    BY <1>1
  <1> QED BY <1>2, <1>3, <1>4, <1>5, <1>6

\* A whole text shows what is left of it.
LEMMA TrimShows ==
    ASSUME NEW whole \in Seq(Line), NEW text, Trims(whole, text)
    PROVE  Characters(whole) = Rows(text, 1, Len(text))
  <1> DEFINE n == Len(whole)
             m == Len(text)
  <1>1. /\ text \in Seq(Line) /\ m \in Nat /\ n \in Nat /\ m <= n
        /\ \A l \in (m + 1)..n : blank(whole[l])
    BY DEF Trims
  <1>2. Interval(whole, 1, n) /\ Interval(whole, 1, m) /\ Interval(whole, m + 1, n)
    BY <1>1 DEF Interval
  <1>3. Characters(whole) = Rows(whole, 1, n)
    <2>1. Rows(whole, 1, n) = FlattenSeq(Image(LineChars(whole), Count(1, n)))
      BY <1>2, RowsDef
    <2> DEFINE x == [l \in DOMAIN whole |-> [i \in DOMAIN whole[l].chars |-> <<l, i>>]]
               c == Count(1, n)
               y == Image(LineChars(whole), c)
    <2>2. DOMAIN whole = 1..n
      OBVIOUS
    <2>3. c \in Seq(1..n) /\ Len(c) = n - 1 + 1 /\ \A l \in 1..(n - 1 + 1) : c[l] = 1 + l - 1
      BY <1>2, CountSeq, SMTT(30)
    <2>4. n - 1 + 1 = n /\ \A l \in 1..n : 1 + l - 1 = l
      BY <1>1
    <2> HIDE DEF c
    <2>5. DOMAIN c = 1..n /\ \A l \in 1..n : c[l] = l
      BY <2>3, <2>4
    <2>6. ASSUME NEW l \in 1..n
          PROVE  LineChars(whole)[l] = [i \in DOMAIN whole[l].chars |-> <<l, i>>]
      <3>1. DOMAIN whole[l].chars = 1..Len(whole[l].chars)
        BY WholeLine
      <3> QED BY <3>1 DEF LineChars
    <2>7. x = [l \in 1..n |-> LineChars(whole)[l]]
      BY <2>2, <2>6
    <2>8. y = [l \in 1..n |-> LineChars(whole)[l]]
      BY <2>5 DEF Image
    <2>9. Characters(whole) = FlattenSeq(x)
      BY DEF Characters
    <2> HIDE DEF x, y
    <2> QED BY <2>1, <2>7, <2>8, <2>9 DEF c, y
  <1>4. RowsSplitAt(whole, 1, m, n)
    BY <1>2, RowsSplit
  <1>5. Rows(whole, 1, m) = Rows(text, 1, m)
    <2>1. m \in 0..m
      BY <1>1
    <2>2. slice(text, 1, m) = slice(whole, 1, m)
      BY <2>1, TrimSpans
    <2> QED BY <2>2 DEF Rows
  <1>6. Rows(whole, m + 1, n) = <<>>
    <2> DEFINE d == n - m
               T == {j \in 0..d : Rows(whole, m + 1, m + j) = <<>>}
    <2>1. d \in Nat /\ m + d = n
      BY <1>1
    <2> HIDE DEF n, m
    <2>2. 0 \in T
      <3>1. m + 0 = m /\ 0 \in 0..d
        BY <1>1, <2>1
      <3>2. Rows(whole, m + 1, m) = <<>>
        BY <1>1, RowsFew DEF n
      <3> QED BY <3>1, <3>2
    <2>3. ASSUME NEW j \in 1..d, j - 1 \in T PROVE j \in T
      <3> DEFINE b == m + (j - 1)
                 l == m + j
      <3>1. b + 1 = l /\ l \in (m + 1)..n /\ l \in 1..n /\ l \in Nat /\ b \in Nat /\ m + 1 <= b + 1 /\ b <= n
        BY <1>1, <2>1
      <3>2. Interval(whole, m + 1, b) /\ Interval(whole, b + 1, l)
        BY <1>1, <3>1 DEF Interval, n
      <3>3. Rows(whole, m + 1, b) = <<>>
        BY <2>3
      <3> HIDE DEF b, l
      <3>4. RowsSplitAt(whole, m + 1, b, l)
        BY <3>2, RowsSplit
      <3>5. Rows(whole, l, l) = <<>>
        BY <1>1, <3>1, RowsFew DEF n
      <3>6. Rows(whole, m + 1, l) = <<>> \o <<>>
        BY <3>1, <3>3, <3>4, <3>5 DEF RowsSplitAt
      <3>7. Rows(whole, m + 1, l) = <<>>
        BY <3>6, ConcatEmptySeq
      <3> QED BY <2>1, <3>7 DEF l
    <2>4. \A j \in 0..d : j \in T
      <3> HIDE DEF T, d
      <3> QED BY <2>1, <2>2, <2>3, UpTo
    <2>5. d \in 0..d
      BY <2>1
    <2> QED BY <2>1, <2>4, <2>5
  <1>7. Rows(text, 1, m) \in Seq(Char)
    <2>1. Interval(text, 1, m)
      BY <1>1 DEF Interval
    <2> QED BY <1>1, <2>1, RowsType
  <1>8. Characters(whole) = Rows(text, 1, m) \o <<>>
    BY <1>3, <1>4, <1>5, <1>6 DEF RowsSplitAt
  <1> HIDE DEF m
  <1>9. Rows(text, 1, m) \o <<>> = Rows(text, 1, m)
    BY <1>7, ConcatEmptySeq
  <1> QED BY <1>8, <1>9 DEF m

\* The chunks of a text are those of what trim_end leaves.
LEMMA ChunkTextGood ==
    ASSUME NEW whole \in Seq(Line), NEW max \in Nat, max >= 4
    PROVE  GoodChunks(trim_end(whole), max, chunk_text(whole, max))
  <1> DEFINE text == trim_end(whole)
             all == slice(text, 1, Len(text))
             ps == paragraphs(text)
             many == flush(text, ParagraphSteps(text, ps, max)[Len(ps)]).chunks
  <1>1. chunk_text(whole, max) =
           IF text = <<>> THEN <<>> ELSE IF len(text, all) <= max THEN <<all>> ELSE many
    BY ChunkTextSteps
  <1>2. text \in Seq(Line) /\ (text # <<>> => ~blank(text[Len(text)]))
    BY TrimEnd DEF Trims
  <1> HIDE DEF text
  <1>3. GoodChunks(text, max, many)
    BY <1>2, ParagraphsFound, ManyChunks
  <1>4. text # <<>> /\ len(text, all) <= max => GoodChunks(text, max, <<all>>)
    BY <1>2, OneChunk
  <1>5. text = <<>> => GoodChunks(text, max, <<>>)
    <2> SUFFICES ASSUME text = <<>> PROVE GoodChunks(text, max, <<>>)
      OBVIOUS
    <2>1. <<>> \in Seq(Seq(Spans(text))) /\ <<>> \in Seq(Spans(text)) /\ Closed(text, max, <<>>)
      BY DEF Closed
    <2>2. Shown(<<>>) = <<>>
      BY <1>2, <2>1, ShownAppend
    <2>3. Len(text) = 0 /\ 0 <= Len(text) /\ 0 \in Nat
      OBVIOUS
    <2>4. Rows(text, 0 + 1, 0) = <<>>
      BY <1>2, <2>3, RowsFew
    <2>5. Shown(<<>>) = Rows(text, 1, Len(text))
      BY <2>2, <2>3, <2>4
    <2>6. \A p \in Paragraphs(text) : FALSE
      <3> TAKE p \in Paragraphs(text)
      <3>1. p[1] \in 1..Len(text)
        BY <1>2, ParagraphParts
      <3> QED BY <2>3, <3>1
    <2> QED BY <2>1, <2>5, <2>6 DEF GoodChunks
  <1> HIDE DEF all, many
  <1>6. GoodChunks(text, max, chunk_text(whole, max))
    BY <1>1, <1>3, <1>4, <1>5
  <1> QED BY <1>6 DEF text

(***************************************************************************)
(* chunk_text, for every text and every cap of at least the four bytes a   *)
(* character can take: the messages fit, say something, and say together   *)
(* what the text says; no line gets a newline it has not had; a paragraph  *)
(* that fits is in one message; and a text that says something is at least *)
(* one message.                                                            *)
(***************************************************************************)
THEOREM SplittingIsExact ==
    ASSUME NEW whole \in Seq(Line), NEW max \in Nat, max >= 4
    PROVE  /\ SaysAll(whole, max)
           /\ LinesStayWhole(whole, max)
           /\ ParagraphsStayWhole(whole, max)
           /\ (\E l \in DOMAIN whole : ~blank(whole[l])) => chunk_text(whole, max) # <<>>
  <1> DEFINE text == trim_end(whole)
             chunks == chunk_text(whole, max)
             n == Len(chunks)
  <1>1. GoodChunks(text, max, chunks)
    BY ChunkTextGood
  <1>2. Trims(whole, text)
    BY TrimEnd
  <1> HIDE DEF text, chunks
  <1>3. /\ chunks \in Seq(Seq(Spans(text))) /\ Closed(text, max, chunks)
        /\ Shown(chunks) = Rows(text, 1, Len(text))
        /\ \A p \in Paragraphs(text) :
              len(text, slice(text, p[1], p[2])) <= max =>
                  \E c \in 1..n : p[1]..p[2] \subseteq LinesOf(chunks[c])
    BY <1>1 DEF GoodChunks
  <1>4. DOMAIN chunks = 1..n /\ n \in Nat /\ \A c \in 1..n : chunks[c] \in Seq(Spans(text))
    BY <1>3
  <1>5. \A c \in 1..n : len(text, chunks[c]) \in 1..max /\ Neat(text, chunks[c])
    BY <1>3 DEF Closed
  <1>6. Characters(whole) = Rows(text, 1, Len(text))
    BY <1>2, TrimShows
  <1>7. \A c \in Seq(Spans(text)) : len(text, c) = len(whole, c)
    BY <1>2, TrimSpans
  <1>8. \A x \in Spans(text) : text[x.line] = whole[x.line]
    BY <1>2, TrimSpans
  <1> HIDE DEF n
  <1>9. SaysAll(whole, max)
    <2>1. \A c \in DOMAIN chunks : len(whole, chunks[c]) \in 1..max
      BY <1>4, <1>5, <1>7
    <2>2. Shown(chunks) = Characters(whole)
      BY <1>3, <1>6
    <2> QED BY <2>1, <2>2 DEF SaysAll, chunks
  <1>10. LinesStayWhole(whole, max)
    <2>1. ASSUME NEW c \in 1..n, NEW i \in 2..Len(chunks[c])
          PROVE  /\ chunks[c][i - 1].to = Len(whole[chunks[c][i - 1].line].chars)
                 /\ chunks[c][i].from = 1
                 /\ chunks[c][i].gap \in 1..(chunks[c][i].line - chunks[c][i - 1].line)
      <3> DEFINE d == chunks[c]
      <3>1. d \in Seq(Spans(text)) /\ Neat(text, d)
        BY <1>4, <1>5
      <3>2. i \in 2..Len(d)
        OBVIOUS
      <3> HIDE DEF d
      <3>3. d[i - 1].to = Len(text[d[i - 1].line].chars)
            /\ d[i].from = 1 /\ d[i].gap \in 1..(d[i].line - d[i - 1].line)
        BY <3>1, <3>2 DEF Neat
      <3>4. d[i - 1] \in Spans(text)
        BY <3>1, <3>2
      <3>5. text[d[i - 1].line] = whole[d[i - 1].line]
        BY <1>8, <3>4
      <3>6. d[i - 1].to = Len(whole[d[i - 1].line].chars)
        BY <3>3, <3>5
      <3> QED BY <3>3, <3>6 DEF d
    <2> QED BY <1>4, <2>1 DEF LinesStayWhole, chunks
  <1>11. ParagraphsStayWhole(whole, max)
    <2>1. ASSUME NEW p \in Paragraphs(text), len(whole, slice(whole, p[1], p[2])) <= max
          PROVE  \E c \in 1..n : p[1]..p[2] \subseteq LinesOf(chunks[c])
      <3>1. text \in Seq(Line)
        BY <1>2 DEF Trims
      <3>2. p[1] \in 1..Len(text) /\ p[2] \in 1..Len(text) /\ p[1] <= p[2]
        BY <3>1, ParagraphParts
      <3>3. slice(text, p[1], p[2]) = slice(whole, p[1], p[2])
        BY <1>2, <3>2, TrimSpans
      <3>4. Interval(text, p[1], p[2])
        BY <3>1, <3>2 DEF Interval
      <3>5. slice(text, p[1], p[2]) \in Seq(Spans(text))
        BY <3>1, <3>4, SliceSpans DEF IsSlice
      <3>6. len(text, slice(text, p[1], p[2])) <= max
        BY <1>7, <2>1, <3>3, <3>5
      <3> QED BY <1>3, <3>6
    <2>2. \A c : {s.line : s \in ToSet(chunks[c])} = LinesOf(chunks[c])
      BY DEF LinesOf
    <2> QED BY <1>4, <2>1, <2>2 DEF ParagraphsStayWhole, chunks, text
  <1>12. ASSUME NEW l \in DOMAIN whole, ~blank(whole[l]) PROVE chunks # <<>>
    <2> SUFFICES ASSUME chunks = <<>> PROVE FALSE
      OBVIOUS
    <2>1. text \in Seq(Line) /\ Len(text) \in Nat /\ (text # <<>> => ~blank(text[Len(text)]))
          /\ \A k \in (Len(text) + 1)..Len(whole) : blank(whole[k])
      BY <1>2 DEF Trims
    <2>2. l \in 1..Len(whole)
      OBVIOUS
    <2> DEFINE m == Len(text)
    <2> HIDE DEF m
    <2>3. m \in Nat /\ l \in Nat /\ 1 <= l
      BY <2>1, <2>2 DEF m
    <2>4. l <= m
      <3> SUFFICES ASSUME ~(l <= m) PROVE FALSE
        OBVIOUS
      <3>1. l \in (m + 1)..Len(whole)
        BY <2>2, <2>3
      <3> QED BY <1>12, <2>1, <3>1 DEF m
    <2>5. l \in 1..m /\ text[l] = whole[l]
      BY <1>2, <2>3, <2>4 DEF Trims, m
    <2>6. /\ Interval(text, 1, l - 1) /\ Interval(text, (l - 1) + 1, m)
          /\ Interval(text, l, m) /\ (l - 1) + 1 = l
      BY <2>3, <2>4 DEF Interval, m
    <2>7. RowsSplitAt(text, 1, l - 1, m)
      BY <2>1, <2>6, RowsSplit
    <2> DEFINE x == Rows(text, 1, l - 1)
               y == Rows(text, l, m)
    <2>8. x \in Seq(Char) /\ y \in Seq(Char)
      BY <2>1, <2>6, RowsType
    <2>9. y # <<>>
      BY <1>12, <2>1, <2>4, <2>5, <2>6, RowsShow
    <2>10. Rows(text, 1, m) = x \o y
      BY <2>6, <2>7 DEF RowsSplitAt
    <2>11. Rows(text, 1, m) = <<>>
      <3>1. Shown(<<>>) = <<>>
        <4>1. <<>> \in Seq(Seq(Spans(text))) /\ <<>> \in Seq(Spans(text))
          OBVIOUS
        <4> QED BY <2>1, <4>1, ShownAppend
      <3> QED BY <1>3, <3>1 DEF m
    <2> HIDE DEF x, y
    <2>12. Len(x \o y) = Len(x) + Len(y) /\ Len(x) \in Nat /\ Len(y) \in Nat /\ Len(y) # 0
      BY <2>8, <2>9, ConcatProperties
    <2> QED BY <2>10, <2>11, <2>12
  <1> QED BY <1>9, <1>10, <1>11, <1>12 DEF chunks
=============================================================================
