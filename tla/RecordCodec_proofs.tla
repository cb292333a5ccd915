------------------------- MODULE RecordCodec_proofs -------------------------
(***************************************************************************)
(* Proofs about the version 0.1 codec, for every width, bound and record:  *)
(* what the writers and the readers of WirePrimitives do, that the decoder *)
(* of RecordCodec accepts exactly the images of the records it admits, and *)
(* how many octets an image takes.  A reader returns exactly the values    *)
(* whose image is at the position it reads from.                           *)
(*                                                                         *)
(* The recursive definitions are over the natural numbers; the first lemmas*)
(* say that such a function exists, and let the others argue by induction. *)
(***************************************************************************)
EXTENDS RecordCodec, WellFoundedInduction, SequenceTheorems, TLAPS

---------------------------------------------------------------------------
(* Induction and recursion on the natural numbers.                         *)

\* A nonempty set of naturals has a least element.
LEMMA LeastExists ==
    ASSUME NEW S \in SUBSET Nat, S # {}
    PROVE  \E m \in S : \A n \in S : m <= n
<1>1. PICK m \in S : \A n \in S : ~(<<n, m>> \in OpToRel(<, Nat))
  BY NatLessThanWellFounded, WFMin
<1>2. \A n \in S : ~(n < m)
  BY <1>1 DEF OpToRel
<1> QED
  BY <1>2

\* A set that holds zero and every successor of a member is all naturals.
LEMMA Induction ==
    ASSUME NEW P, 0 \in P, \A n \in P : n \in Nat => n + 1 \in P
    PROVE  \A n \in Nat : n \in P
<1>1. SUFFICES ASSUME Nat \ P # {}
               PROVE  FALSE
  OBVIOUS
<1>2. PICK m \in Nat \ P : \A n \in Nat \ P : m <= n
  BY <1>1, LeastExists
<1>3. m - 1 \in P /\ m - 1 \in Nat /\ (m - 1) + 1 = m
  BY <1>2
<1> QED
  BY <1>2, <1>3

\* The same for the naturals up to n.
LEMMA InductionUpTo ==
    ASSUME NEW n \in Nat, NEW P, 0 \in P, \A i \in P : i \in 0 .. (n - 1) => i + 1 \in P
    PROVE  \A i \in 0 .. n : i \in P
<1> DEFINE Q == {i \in Nat : i \in 0 .. n => i \in P}
<1>1. 0 \in Q /\ \A i \in Q : i + 1 \in Q
  OBVIOUS
<1>2. \A i \in Nat : i \in Q
  <2> HIDE DEF Q
  <2> QED
    BY <1>1, Induction
<1> QED
  BY <1>2

\* The step of a recursion: from what has been computed to what comes next.
Steps(indices, S, step) == \A i \in indices, s \in S : step[<<i, s>>] \in S

\* A function defined by recursion exists.
LEMMA RecursionExists ==
    ASSUME NEW S, NEW base \in S, NEW step,
           Steps(Nat, S, step)
    PROVE  \E f \in [Nat -> S] :
              f[0] = base /\ \A i \in Nat : f[i + 1] = step[<<i, f[i]>>]
<1> DEFINE Begins(n) == {f \in [0 .. n -> S] :
                            f[0] = base /\ \A i \in 0 .. (n - 1) : f[i + 1] = step[<<i, f[i]>>]}
<1>1. \A n \in Nat : Begins(n) # {}
  <2> DEFINE P == {n \in Nat : Begins(n) # {}}
  <2>1. [i \in 0 .. 0 |-> base] \in Begins(0)
    OBVIOUS
  <2>2. ASSUME NEW n \in P
        PROVE  n + 1 \in P
    <3>1. PICK f \in [0 .. n -> S] :
             f[0] = base /\ \A i \in 0 .. (n - 1) : f[i + 1] = step[<<i, f[i]>>]
      OBVIOUS
    <3> DEFINE g == [i \in 0 .. (n + 1) |-> IF i = n + 1 THEN step[<<n, f[n]>>] ELSE f[i]]
    <3>2. g \in [0 .. (n + 1) -> S]
      BY <3>1 DEF Steps
    <3>3. ASSUME NEW i \in 0 .. n
          PROVE  g[i + 1] = step[<<i, g[i]>>]
      <4>1. g[i] = f[i]
        OBVIOUS
      <4>2. CASE i = n
        <5>1. g[n + 1] = step[<<n, f[n]>>] /\ g[n] = f[n]
          OBVIOUS
        <5> HIDE DEF g
        <5> QED
          BY <4>2, <5>1
      <4>3. CASE i \in 0 .. (n - 1)
        <5>1. g[i + 1] = f[i + 1]
          BY <4>3
        <5> QED
          BY <3>1, <4>1, <4>3, <5>1
      <4> QED
        BY <4>2, <4>3
    <3>4. g[0] = base /\ (n + 1) - 1 = n
      BY <3>1
    <3> HIDE DEF g
    <3>5. g \in Begins(n + 1)
      BY <3>2, <3>3, <3>4
    <3> QED
      BY <3>5
  <2>3. 0 \in P
    BY <2>1
  <2>4. \A n \in Nat : n \in P
    <3> HIDE DEF P
    <3> QED
      BY <2>2, <2>3, Induction
  <2> QED
    BY <2>4
<1>2. ASSUME NEW n \in Nat, NEW m \in Nat, n <= m, NEW f \in Begins(n), NEW g \in Begins(m)
      PROVE  \A i \in 0 .. n : f[i] = g[i]
  <2> DEFINE P == {i \in 0 .. n : f[i] = g[i]}
  <2>1. 0 \in P
    BY <1>2
  <2>2. ASSUME NEW i \in P, i \in 0 .. (n - 1)
        PROVE  i + 1 \in P
    <3>1. f[i + 1] = step[<<i, f[i]>>]
      BY <2>2
    <3>2. g[i + 1] = step[<<i, g[i]>>]
      BY <1>2, <2>2
    <3> QED
      BY <2>2, <3>1, <3>2
  <2>3. \A i \in 0 .. n : i \in P
    <3> HIDE DEF P
    <3> QED
      BY <2>1, <2>2, InductionUpTo
  <2> QED
    BY <2>3
<1> DEFINE start == [n \in Nat |-> CHOOSE f \in Begins(n) : TRUE]
           whole == [n \in Nat |-> start[n][n]]
<1>3. \A n \in Nat : start[n] \in Begins(n)
  BY <1>1
<1>4. whole \in [Nat -> S]
  <2> SUFFICES ASSUME NEW n \in Nat
               PROVE  start[n][n] \in S
    OBVIOUS
  <2> HIDE DEF start
  <2> QED
    BY <1>3
<1>5. whole[0] = base
  <2> HIDE DEF start
  <2> QED
    BY <1>3
<1>6. ASSUME NEW n \in Nat
      PROVE  whole[n + 1] = step[<<n, whole[n]>>]
  <2> HIDE DEF start
  <2>1. start[n] \in Begins(n) /\ start[n + 1] \in Begins(n + 1)
    <3> HIDE DEF Begins
    <3> QED
      BY <1>3
  <2>2. start[n + 1][n] = start[n][n]
    <3> HIDE DEF Begins
    <3> QED
      BY <1>2, <2>1
  <2> QED
    BY <2>1, <2>2
<1> HIDE DEF whole
<1> QED
  BY <1>4, <1>5, <1>6

\* The same up to n; the step may depend on where it is taken.
LEMMA RecursionUpTo ==
    ASSUME NEW n \in Nat, NEW S, NEW base \in S, NEW step,
           Steps(1 .. n, S, step)
    PROVE  \E f \in [0 .. n -> S] :
              f[0] = base /\ \A i \in 1 .. n : f[i] = step[<<i, f[i - 1]>>]
<1>1. PICK onward :
         /\ Steps(Nat, S, onward)
         /\ \A i \in 1 .. n, s \in S : onward[<<i - 1, s>>] = step[<<i, s>>]
  <2> DEFINE shifted == [x \in Nat \X S |->
                           IF x[1] + 1 \in 1 .. n THEN step[<<x[1] + 1, x[2]>>] ELSE base]
  <2>1. Steps(Nat, S, shifted)
    BY DEF Steps
  <2>2. ASSUME NEW i \in 1 .. n, NEW s \in S
        PROVE  shifted[<<i - 1, s>>] = step[<<i, s>>]
    <3>1. i - 1 \in Nat /\ (i - 1) + 1 = i
      OBVIOUS
    <3> QED
      BY <3>1
  <2> HIDE DEF shifted
  <2> QED
    BY <2>1, <2>2
<1>2. PICK f \in [Nat -> S] :
         f[0] = base /\ \A i \in Nat : f[i + 1] = onward[<<i, f[i]>>]
  BY <1>1, RecursionExists
<1>3. \A i \in 1 .. n : f[i] = step[<<i, f[i - 1]>>]
  <2> SUFFICES ASSUME NEW i \in 1 .. n
               PROVE  f[i] = step[<<i, f[i - 1]>>]
    OBVIOUS
  <2>1. i - 1 \in Nat /\ (i - 1) + 1 = i
    OBVIOUS
  <2>2. f[i] = onward[<<i - 1, f[i - 1]>>]
    BY <1>2, <2>1
  <2> QED
    BY <1>1, <2>1, <2>2
<1> DEFINE g == [i \in 0 .. n |-> f[i]]
<1>4. g \in [0 .. n -> S]
  BY <1>2
<1>5. g[0] = base /\ \A i \in 1 .. n : g[i] = step[<<i, g[i - 1]>>]
  BY <1>2, <1>3
<1> HIDE DEF g
<1> QED
  BY <1>4, <1>5

---------------------------------------------------------------------------
(* The recursive definitions.                                              *)

\* The powers of 256.
LEMMA Pow256Facts ==
    /\ Pow256[0] = 1
    /\ \A k \in Nat : Pow256[k] \in Nat \ {0} /\ Pow256[k + 1] = 256 * Pow256[k]
<1>1. PICK step : Steps(Nat, Nat, step) /\ \A i \in Nat, s \in Nat : step[<<i, s>>] = 256 * s
  <2> DEFINE onward == [x \in Nat \X Nat |-> 256 * x[2]]
  <2>1. Steps(Nat, Nat, onward) /\ \A i \in Nat, s \in Nat : onward[<<i, s>>] = 256 * s
    BY DEF Steps
  <2> HIDE DEF onward
  <2> QED
    BY <2>1
<1>2. PICK f \in [Nat -> Nat] :
         f[0] = 1 /\ \A i \in Nat : f[i + 1] = step[<<i, f[i]>>]
  <2> DEFINE S == Nat
  <2>1. 1 \in S /\ Steps(Nat, S, step)
    BY <1>1
  <2>2. \E f \in [Nat -> S] : f[0] = 1 /\ \A i \in Nat : f[i + 1] = step[<<i, f[i]>>]
    <3> HIDE DEF S
    <3> QED
      BY <2>1, RecursionExists
  <2> QED
    BY <2>2
<1>3. ASSUME NEW i \in Nat
      PROVE  f[i + 1] = 256 * f[i]
  <2>1. f[i] \in Nat
    OBVIOUS
  <2> QED
    BY <1>1, <1>2, <2>1
<1>4. f = [k \in Nat |-> IF k = 0 THEN 1 ELSE 256 * f[k - 1]]
  <2>1. ASSUME NEW k \in Nat
        PROVE  f[k] = IF k = 0 THEN 1 ELSE 256 * f[k - 1]
    <3>1. CASE k = 0
      BY <1>2, <3>1
    <3>2. CASE k # 0
      <4>1. k - 1 \in Nat /\ (k - 1) + 1 = k
        BY <3>2
      <4> QED
        BY <1>3, <3>2, <4>1
    <3> QED
      BY <3>1, <3>2
  <2> QED
    BY <1>2, <2>1
<1>5. Pow256 = [k \in Nat |-> IF k = 0 THEN 1 ELSE 256 * Pow256[k - 1]]
  BY <1>4 DEF Pow256
<1>6. Pow256[0] = 1 /\ \A k \in Nat : Pow256[k + 1] = 256 * Pow256[k]
  <2>1. \A k \in Nat : (k + 1) - 1 = k /\ k + 1 # 0 /\ k + 1 \in Nat
    OBVIOUS
  <2> QED
    BY <1>5, <2>1
<1> DEFINE P == {k \in Nat : Pow256[k] \in Nat \ {0}}
<1>7. 0 \in P /\ \A k \in P : k + 1 \in P
  BY <1>6
<1>8. \A k \in Nat : k \in P
  <2> HIDE DEF P
  <2> QED
    BY <1>7, Induction
<1> QED
  BY <1>6, <1>8

\* SumOf by its partial sums.
LEMMA SumOfFacts ==
    ASSUME NEW n \in Nat, NEW numbers \in [1 .. n -> Nat]
    PROVE  \E total \in [0 .. n -> Nat] :
              /\ total[0] = 0
              /\ \A i \in 1 .. n : total[i] = total[i - 1] + numbers[i]
              /\ SumOf(numbers) = total[n]
<1>1. PICK step : /\ Steps(1 .. n, Nat, step)
                  /\ \A i \in 1 .. n, s \in Nat : step[<<i, s>>] = s + numbers[i]
  <2> DEFINE onward == [x \in (1 .. n) \X Nat |-> x[2] + numbers[x[1]]]
  <2>1. /\ Steps(1 .. n, Nat, onward)
        /\ \A i \in 1 .. n, s \in Nat : onward[<<i, s>>] = s + numbers[i]
    BY DEF Steps
  <2> HIDE DEF onward
  <2> QED
    BY <2>1
<1>2. PICK f \in [0 .. n -> Nat] :
         f[0] = 0 /\ \A i \in 1 .. n : f[i] = step[<<i, f[i - 1]>>]
  <2> DEFINE S == Nat
  <2>1. 0 \in S /\ Steps(1 .. n, S, step)
    BY <1>1
  <2>2. \E f \in [0 .. n -> S] : f[0] = 0 /\ \A i \in 1 .. n : f[i] = step[<<i, f[i - 1]>>]
    <3> HIDE DEF S
    <3> QED
      BY <2>1, RecursionUpTo
  <2> QED
    BY <2>2
<1>3. \A i \in 1 .. n : f[i] = f[i - 1] + numbers[i]
  <2> SUFFICES ASSUME NEW i \in 1 .. n
               PROVE  f[i] = f[i - 1] + numbers[i]
    OBVIOUS
  <2>1. f[i - 1] \in Nat
    OBVIOUS
  <2> QED
    BY <1>1, <1>2, <2>1
<1> DEFINE total == CHOOSE g : g = [i \in 0 .. n |-> IF i = 0 THEN 0 ELSE g[i - 1] + numbers[i]]
<1>4. f = [i \in 0 .. n |-> IF i = 0 THEN 0 ELSE f[i - 1] + numbers[i]]
  BY <1>2, <1>3
<1>5. total = [i \in 0 .. n |-> IF i = 0 THEN 0 ELSE total[i - 1] + numbers[i]]
  BY <1>4
<1>6. Len(numbers) = n
  OBVIOUS
<1>7. SumOf(numbers) = total[n]
  BY <1>6 DEF SumOf
<1> HIDE DEF total
<1> DEFINE P == {i \in 0 .. n : total[i] \in Nat}
<1>8. ASSUME NEW i \in P, i \in 0 .. (n - 1)
      PROVE  i + 1 \in P
  <2>1. total[i + 1] = total[i] + numbers[i + 1]
    BY <1>5, <1>8
  <2> QED
    BY <1>8, <2>1
<1>9. 0 \in P
  BY <1>5
<1>10. \A i \in 0 .. n : i \in P
  <2> HIDE DEF P
  <2> QED
    BY <1>8, <1>9, InductionUpTo
<1>11. total \in [0 .. n -> Nat]
  BY <1>5, <1>10
<1>12. total[0] = 0 /\ \A i \in 1 .. n : total[i] = total[i - 1] + numbers[i]
  BY <1>5
<1> QED
  BY <1>7, <1>11, <1>12

\* A sum is a natural, and at most so many times a bound of its terms.
LEMMA SumOfBound ==
    ASSUME NEW n \in Nat, NEW numbers \in [1 .. n -> Nat]
    PROVE  /\ SumOf(numbers) \in Nat
           /\ \A c \in Nat :
                 /\ (\A i \in 1 .. n : numbers[i] <= c) => SumOf(numbers) <= n * c
                 /\ (\A i \in 1 .. n : numbers[i] = c) => SumOf(numbers) = n * c
<1>1. PICK total \in [0 .. n -> Nat] :
         /\ total[0] = 0
         /\ \A i \in 1 .. n : total[i] = total[i - 1] + numbers[i]
         /\ SumOf(numbers) = total[n]
  BY SumOfFacts
<1>2. ASSUME NEW c \in Nat, \A i \in 1 .. n : numbers[i] <= c
      PROVE  total[n] <= n * c
  <2> DEFINE P == {i \in 0 .. n : total[i] <= i * c}
  <2>1. 0 \in P
    BY <1>1
  <2>2. ASSUME NEW i \in P, i \in 0 .. (n - 1)
        PROVE  i + 1 \in P
    <3>1. total[i + 1] = total[i] + numbers[i + 1] /\ numbers[i + 1] <= c
      BY <1>1, <1>2, <2>2
    <3>2. (i + 1) * c = i * c + c /\ i * c \in Nat
      BY <2>2
    <3>3. total[i] \in Nat /\ total[i + 1] \in Nat /\ numbers[i + 1] \in Nat /\ total[i] <= i * c
      BY <2>2
    <3>4. total[i + 1] <= (i + 1) * c
      BY <3>1, <3>2, <3>3
    <3> QED
      BY <2>2, <3>4
  <2>3. \A i \in 0 .. n : i \in P
    <3> HIDE DEF P
    <3> QED
      BY <2>1, <2>2, InductionUpTo
  <2> QED
    BY <2>3
<1>3. ASSUME NEW c \in Nat, \A i \in 1 .. n : numbers[i] = c
      PROVE  total[n] = n * c
  <2> DEFINE P == {i \in 0 .. n : total[i] = i * c}
  <2>1. 0 \in P
    BY <1>1
  <2>2. ASSUME NEW i \in P, i \in 0 .. (n - 1)
        PROVE  i + 1 \in P
    <3>1. total[i + 1] = total[i] + c
      BY <1>1, <1>3, <2>2
    <3>2. (i + 1) * c = i * c + c
      BY <2>2
    <3> QED
      BY <2>2, <3>1, <3>2
  <2>3. \A i \in 0 .. n : i \in P
    <3> HIDE DEF P
    <3> QED
      BY <2>1, <2>2, InductionUpTo
  <2> QED
    BY <2>3
<1> QED
  BY <1>1, <1>2, <1>3

\* FlattenSeq by the concatenations of its prefixes.
LEMMA FlattenFacts ==
    ASSUME NEW E, NEW n \in Nat, NEW seqs \in [1 .. n -> Seq(E)]
    PROVE  \E whole \in [0 .. n -> Seq(E)] :
              /\ whole[0] = << >>
              /\ \A i \in 1 .. n : whole[i] = whole[i - 1] \o seqs[i]
              /\ FlattenSeq(seqs) = whole[n]
<1> DEFINE Cat(s, t) == s \o t
<1>1. /\ \A s, t \in Seq(E) : Cat(s, t) \in Seq(E)
      /\ \A s \in Seq(E) : Cat(<< >>, s) = s
  OBVIOUS
<1>2. << >> \in Seq(E) /\ \A i \in 1 .. n : seqs[i] \in Seq(E)
  OBVIOUS
<1>3. SUFFICES \E whole \in [0 .. n -> Seq(E)] :
                 /\ whole[0] = << >>
                 /\ \A i \in 1 .. n : whole[i] = Cat(whole[i - 1], seqs[i])
                 /\ FlattenSeq(seqs) = whole[n]
  BY Zenon
<1> DEFINE flat == CHOOSE g : g = [i \in 1 .. n |-> IF i = 1 THEN seqs[i] ELSE Cat(g[i - 1], seqs[i])]
<1>4. FlattenSeq(seqs) = IF n = 0 THEN << >> ELSE flat[n]
  <2>1. Len(seqs) = n
    OBVIOUS
  <2>2. n = 0 => seqs = << >>
    OBVIOUS
  <2> QED
    BY <2>1, <2>2 DEF FlattenSeq
<1> DEFINE S == Seq(E)
           onward == [x \in (1 .. n) \X S |-> Cat(x[2], seqs[x[1]])]
<1>5. << >> \in S /\ (\A i \in 1 .. n : seqs[i] \in S) /\ \A s, t \in S : Cat(s, t) \in S
  BY <1>1, <1>2
<1> HIDE DEF S, Cat
<1>6. PICK step : /\ Steps(1 .. n, S, step)
                  /\ \A i \in 1 .. n, s \in S : step[<<i, s>>] = Cat(s, seqs[i])
  <2>1. /\ Steps(1 .. n, S, onward)
        /\ \A i \in 1 .. n, s \in S : onward[<<i, s>>] = Cat(s, seqs[i])
    BY <1>5 DEF Steps
  <2> HIDE DEF onward
  <2> QED
    BY <2>1
<1> HIDE DEF onward
<1>7. PICK whole \in [0 .. n -> S] :
         whole[0] = << >> /\ \A i \in 1 .. n : whole[i] = step[<<i, whole[i - 1]>>]
  <2>1. ASSUME NEW base \in S
        PROVE  \E f \in [0 .. n -> S] :
                  f[0] = base /\ \A i \in 1 .. n : f[i] = step[<<i, f[i - 1]>>]
    BY <1>6, RecursionUpTo
  <2> QED
    BY <1>5, <2>1
<1>8. ASSUME NEW i \in 1 .. n
      PROVE  whole[i] = Cat(whole[i - 1], seqs[i])
  <2>1. whole[i - 1] \in S
    OBVIOUS
  <2> QED
    BY <1>6, <1>7, <2>1
<1> DEFINE part == [i \in 1 .. n |-> whole[i]]
<1>9. part = [i \in 1 .. n |-> IF i = 1 THEN seqs[i] ELSE Cat(part[i - 1], seqs[i])]
  <2>1. ASSUME NEW i \in 1 .. n
        PROVE  whole[i] = IF i = 1 THEN seqs[i] ELSE Cat(part[i - 1], seqs[i])
    <3>1. CASE i = 1
      BY <1>1, <1>2, <1>7, <1>8, <3>1
    <3>2. CASE i # 1
      BY <1>8, <3>2
    <3> QED
      BY <3>1, <3>2
  <2> QED
    BY <2>1
<1> HIDE DEF part
<1>10. flat = [i \in 1 .. n |-> IF i = 1 THEN seqs[i] ELSE Cat(flat[i - 1], seqs[i])]
  BY <1>9
<1> HIDE DEF flat
<1> DEFINE P == {i \in 0 .. n : i = 0 \/ flat[i] = whole[i]}
<1>11. ASSUME NEW i \in P, i \in 0 .. (n - 1)
       PROVE  i + 1 \in P
  <2>1. whole[i + 1] = Cat(whole[i], seqs[i + 1])
    BY <1>8, <1>11
  <2>2. CASE i = 0
    BY <1>1, <1>2, <1>7, <1>10, <1>11, <2>1, <2>2
  <2>3. CASE i # 0
    <3>1. flat[i + 1] = Cat(flat[i], seqs[i + 1])
      BY <1>10, <1>11, <2>3
    <3> QED
      BY <1>11, <2>1, <2>3, <3>1
  <2> QED
    BY <2>2, <2>3
<1>12. 0 \in P
  OBVIOUS
<1>13. \A i \in 0 .. n : i \in P
  <2> HIDE DEF P
  <2> QED
    BY <1>11, <1>12, InductionUpTo
<1>14. FlattenSeq(seqs) = whole[n]
  BY <1>4, <1>7, <1>13
<1> QED
  BY <1>7, <1>8, <1>14 DEF S

\* One sequence more.
LEMMA FlattenAppend ==
    ASSUME NEW E, NEW n \in Nat, NEW seqs \in [1 .. n -> Seq(E)], NEW s \in Seq(E)
    PROVE  /\ FlattenSeq(seqs) \in Seq(E)
           /\ FlattenSeq(Append(seqs, s)) = FlattenSeq(seqs) \o s
<1> DEFINE longer == Append(seqs, s)
           Cat(a, b) == a \o b
<1>1. longer \in [1 .. (n + 1) -> Seq(E)] /\ longer[n + 1] = s
      /\ \A i \in 1 .. n : longer[i] = seqs[i]
  <2>1. seqs \in Seq(Seq(E)) /\ Len(seqs) = n
    OBVIOUS
  <2>2. Len(longer) = n + 1 /\ longer \in Seq(Seq(E))
    BY <2>1
  <2>3. longer[n + 1] = s /\ \A i \in 1 .. n : longer[i] = seqs[i]
    BY <2>1
  <2> HIDE DEF longer
  <2> QED
    BY <2>2, <2>3
<1>2. PICK whole \in [0 .. n -> Seq(E)] :
         /\ whole[0] = << >>
         /\ \A i \in 1 .. n : whole[i] = Cat(whole[i - 1], seqs[i])
         /\ FlattenSeq(seqs) = whole[n]
  BY FlattenFacts, Zenon
<1> HIDE DEF longer
<1>3. n + 1 \in Nat
  OBVIOUS
<1>4. PICK more \in [0 .. (n + 1) -> Seq(E)] :
         /\ more[0] = << >>
         /\ \A i \in 1 .. (n + 1) : more[i] = Cat(more[i - 1], longer[i])
         /\ FlattenSeq(longer) = more[n + 1]
  BY <1>1, <1>3, FlattenFacts, Zenon
<1> HIDE DEF Cat
<1> DEFINE P == {i \in 0 .. n : more[i] = whole[i]}
<1>5. 0 \in P
  BY <1>2, <1>4
<1>6. ASSUME NEW i \in P, i \in 0 .. (n - 1)
      PROVE  i + 1 \in P
  <2>1. whole[i + 1] = Cat(whole[i], seqs[i + 1])
    BY <1>2, <1>6
  <2>2. more[i + 1] = Cat(more[i], longer[i + 1])
    BY <1>4, <1>6
  <2>3. longer[i + 1] = seqs[i + 1]
    BY <1>1, <1>6
  <2> QED
    BY <1>6, <2>1, <2>2, <2>3
<1>7. \A i \in 0 .. n : i \in P
  <2> HIDE DEF P
  <2> QED
    BY <1>5, <1>6, InductionUpTo
<1>8. FlattenSeq(longer) = Cat(whole[n], s)
  BY <1>1, <1>4, <1>7
<1> QED
  BY <1>2, <1>8 DEF Cat, longer

\* The length of a concatenation is the sum of the lengths.
LEMMA LengthOfFlat ==
    ASSUME NEW E, NEW n \in Nat, NEW seqs \in [1 .. n -> Seq(E)]
    PROVE  Len(FlattenSeq(seqs)) = SumOf([i \in 1 .. n |-> Len(seqs[i])])
<1> DEFINE lens == [i \in 1 .. n |-> Len(seqs[i])]
<1>1. lens \in [1 .. n -> Nat]
  OBVIOUS
<1>2. PICK whole \in [0 .. n -> Seq(E)] :
         /\ whole[0] = << >>
         /\ \A i \in 1 .. n : whole[i] = whole[i - 1] \o seqs[i]
         /\ FlattenSeq(seqs) = whole[n]
  BY FlattenFacts, Zenon
<1>3. ASSUME NEW i \in 1 .. n
      PROVE  Len(whole[i]) = Len(whole[i - 1]) + lens[i]
  <2>1. whole[i - 1] \in Seq(E) /\ seqs[i] \in Seq(E)
    OBVIOUS
  <2>2. Len(whole[i - 1] \o seqs[i]) = Len(whole[i - 1]) + Len(seqs[i])
    BY <2>1
  <2> QED
    BY <1>2, <2>2, Zenon
<1> HIDE DEF lens
<1>4. PICK total \in [0 .. n -> Nat] :
         /\ total[0] = 0
         /\ \A i \in 1 .. n : total[i] = total[i - 1] + lens[i]
         /\ SumOf(lens) = total[n]
  BY <1>1, SumOfFacts
<1> DEFINE P == {i \in 0 .. n : Len(whole[i]) = total[i]}
<1>5. 0 \in P
  BY <1>2, <1>4
<1>6. ASSUME NEW i \in P, i \in 0 .. (n - 1)
      PROVE  i + 1 \in P
  BY <1>3, <1>4, <1>6
<1>7. \A i \in 0 .. n : i \in P
  <2> HIDE DEF P
  <2> QED
    BY <1>5, <1>6, InductionUpTo
<1> QED
  BY <1>2, <1>4, <1>7 DEF lens

---------------------------------------------------------------------------
(* What it means for a reader to read back what was written.               *)

\* The octets w hold an image from a position.
Holds(w, at, image) ==
    /\ at + Len(image) <= Len(w) + 1
    /\ \A i \in 1 .. Len(image) : w[at + i - 1] = image[i]

Places(w) == 1 .. (Len(w) + 1)

\* put maps values to their images.  A reader of w reads it if what it returns
\* is a value whose image is there, and if it returns every value whose image
\* is there: in particular at most one is.
Sound(w, got, at, put) ==
    got # << >> =>
        \E v \in DOMAIN put : got = Got(v, at + Len(put[v])) /\ Holds(w, at, put[v])

Complete(w, got, at, put) ==
    \A v \in DOMAIN put : Holds(w, at, put[v]) => got = Got(v, at + Len(put[v]))

Images(put) == \A v \in DOMAIN put : put[v] \in Seq(Octet)

Reads(w, Reader, put) ==
    /\ Images(put)
    /\ \A at \in Places(w) : Sound(w, Reader[at], at, put) /\ Complete(w, Reader[at], at, put)

\* What was read is a value and a position.
LEMMA GotFacts ==
    ASSUME NEW v, NEW next
    PROVE  Got(v, next) # << >> /\ Got(v, next)[1].value = v /\ Got(v, next)[1].next = next
BY DEF Got

\* An image made of two is there when the second follows the first.
LEMMA HoldsConcat ==
    ASSUME NEW w \in Seq(Octet), NEW at \in Places(w),
           NEW a \in Seq(Octet), NEW b \in Seq(Octet)
    PROVE  Holds(w, at, a \o b) <=> Holds(w, at, a) /\ Holds(w, at + Len(a), b)
<1> DEFINE ab == a \o b
<1>1. Len(ab) = Len(a) + Len(b) /\ Len(a) \in Nat /\ Len(b) \in Nat /\ Len(w) \in Nat
  OBVIOUS
<1>2. /\ \A i \in 1 .. Len(a) : ab[i] = a[i]
      /\ \A i \in 1 .. Len(b) : ab[Len(a) + i] = b[i]
  OBVIOUS
<1> HIDE DEF ab
<1>3. ASSUME Holds(w, at, ab)
      PROVE  Holds(w, at, a) /\ Holds(w, at + Len(a), b)
  <2>1. at \in Nat
    BY <1>1 DEF Places
  <2>2. ASSUME NEW i \in 1 .. Len(a)
        PROVE  w[at + i - 1] = a[i]
    BY <1>1, <1>2, <1>3 DEF Holds
  <2>3. ASSUME NEW i \in 1 .. Len(b)
        PROVE  w[(at + Len(a)) + i - 1] = b[i]
    <3>1. Len(a) + i \in 1 .. Len(ab)
      BY <1>1
    <3>2. w[at + (Len(a) + i) - 1] = ab[Len(a) + i]
      BY <1>3, <3>1 DEF Holds
    <3>3. at + (Len(a) + i) - 1 = (at + Len(a)) + i - 1
      BY <1>1, <2>1
    <3> QED
      BY <1>2, <3>2, <3>3
  <2> QED
    BY <1>1, <1>3, <2>1, <2>2, <2>3 DEF Holds
<1>4. ASSUME Holds(w, at, a), Holds(w, at + Len(a), b)
      PROVE  Holds(w, at, ab)
  <2>1. at \in Nat
    BY <1>1 DEF Places
  <2>2. ASSUME NEW i \in 1 .. Len(ab)
        PROVE  w[at + i - 1] = ab[i]
    <3>1. CASE i <= Len(a)
      <4>1. i \in 1 .. Len(a)
        BY <1>1, <3>1
      <4> QED
        BY <1>2, <1>4, <4>1 DEF Holds
    <3>2. CASE i > Len(a)
      <4>1. i - Len(a) \in 1 .. Len(b)
        BY <1>1, <3>2
      <4>2. w[(at + Len(a)) + (i - Len(a)) - 1] = b[i - Len(a)]
        BY <1>4, <4>1 DEF Holds
      <4>3. ab[Len(a) + (i - Len(a))] = b[i - Len(a)]
        BY <1>2, <4>1
      <4>4. Len(a) + (i - Len(a)) = i /\ (at + Len(a)) + (i - Len(a)) - 1 = at + i - 1
        BY <1>1, <2>1
      <4> QED
        BY <4>2, <4>3, <4>4
    <3> QED
      BY <1>1, <3>1, <3>2
  <2> QED
    BY <1>1, <1>4, <2>1, <2>2 DEF Holds
<1> QED
  BY <1>3, <1>4 DEF ab

\* After what is held there is a place to read from.
LEMMA PlaceAfter ==
    ASSUME NEW w \in Seq(Octet), NEW at \in Places(w), NEW a \in Seq(Octet), Holds(w, at, a)
    PROVE  at + Len(a) \in Places(w) /\ at + Len(a) \in Positions
BY DEF Places, Holds, Positions

---------------------------------------------------------------------------
(* Numbers.                                                                *)

\* Arithmetic the other lemmas are spared.  The radix has a name of its own, so
\* that they need not know which number it is.
Radix == 256

LEMMA DivideTwice ==
    ASSUME NEW n \in Nat
    PROVE  \A a, b \in Nat : a > 0 /\ b = Radix * a =>
              n \div a \in Nat /\ (n \div a) \div Radix = n \div b
BY DEF Radix

LEMMA DivideSmall ==
    ASSUME NEW n \in Nat, NEW a \in Nat, a > 0, n < a
    PROVE  n \div a = 0
OBVIOUS

LEMMA DivideByOne ==
    ASSUME NEW n \in Nat
    PROVE  n \div 1 = n
OBVIOUS

LEMMA LastOctet ==
    ASSUME NEW n \in Nat
    PROVE  n % Radix \in Octet /\ n \div Radix \in Nat /\ Radix * (n \div Radix) + (n % Radix) = n
BY DEF Octet, Radix

LEMMA OneOctetMore ==
    ASSUME NEW u \in Nat, NEW o \in Octet
    PROVE  /\ Radix * u + o \in Nat
           /\ (Radix * u + o) \div Radix = u
           /\ (Radix * u + o) % Radix = o
           /\ \A a, b \in Nat : u < a /\ b = Radix * a => Radix * u + o < b
BY DEF Octet, Radix

LEMMA PowerStep ==
    ASSUME NEW k \in Nat
    PROVE  k + 1 \in Nat /\ Pow256[k] \in Nat /\ Pow256[k] > 0 /\ Pow256[k + 1] \in Nat
           /\ Pow256[k + 1] = Radix * Pow256[k]
<1>1. k + 1 \in Nat
  OBVIOUS
<1>2. Pow256[k] \in Nat \ {0} /\ Pow256[k + 1] \in Nat \ {0}
  BY <1>1, Pow256Facts
<1> QED
  BY <1>1, <1>2, Pow256Facts DEF Radix

\* The numbers the prefixes of so many octets stand for.
Horner(n, value, octets) ==
    /\ value[0] = 0
    /\ \A i \in 1 .. n :
          /\ octets[i] \in Octet
          /\ value[i - 1] \in Nat
          /\ value[i] = Radix * value[i - 1] + octets[i]

LEMMA HornerStep ==
    ASSUME NEW n \in Nat, NEW value, NEW octets, Horner(n, value, octets), NEW i \in 1 .. n
    PROVE  /\ octets[i] \in Octet /\ value[i - 1] \in Nat /\ value[i] \in Nat
           /\ value[i] = Radix * value[i - 1] + octets[i]
           /\ value[i] \div Radix = value[i - 1]
           /\ value[i] % Radix = octets[i]
           /\ \A a, b \in Nat : value[i - 1] < a /\ b = Radix * a => value[i] < b
<1>1. octets[i] \in Octet /\ value[i - 1] \in Nat /\ value[i] = Radix * value[i - 1] + octets[i]
  BY Zenon DEF Horner
<1>2. PICK u \in Nat : u = value[i - 1]
  BY <1>1, Zenon
<1>3. PICK o \in Octet : o = octets[i]
  BY <1>1, Zenon
<1>4. PICK v : v = Radix * u + o /\ v = value[i]
  BY <1>1, <1>2, <1>3, Zenon
<1> DEFINE Facts(x) == /\ x \in Nat /\ x \div Radix = u /\ x % Radix = o
                       /\ \A a, b \in Nat : u < a /\ b = Radix * a => x < b
<1>5. Facts(v)
  <2>1. Facts(Radix * u + o)
    BY OneOctetMore
  <2> HIDE DEF Facts
  <2> QED
    BY <1>4, <2>1, Zenon
<1> QED
  BY <1>1, <1>2, <1>3, <1>4, <1>5, Zenon

LEMMA HornerValue ==
    ASSUME NEW n \in Nat, NEW value, NEW octets, Horner(n, value, octets), NEW i \in 0 .. n
    PROVE  value[i] \in Nat
<1>1. CASE i = 0
  BY <1>1 DEF Horner
<1>2. CASE i # 0
  <2>1. i \in 1 .. n
    BY <1>2
  <2> QED
    BY <2>1, HornerStep, Zenon
<1> QED
  BY <1>1, <1>2

\* FromBigEndian by the values of the prefixes.
LEMMA FromBigEndianFacts ==
    ASSUME NEW n \in Nat, NEW octets \in Seq(Octet), Len(octets) = n
    PROVE  \E value : Horner(n, value, octets) /\ FromBigEndian(octets) = value[n]
<1>0. PICK digits : digits = octets /\ digits \in [1 .. n -> Octet]
  <2>1. octets \in [1 .. n -> Octet]
    OBVIOUS
  <2> QED
    BY <2>1
<1>1. PICK step : /\ Steps(1 .. n, Nat, step)
                  /\ \A i \in 1 .. n, s \in Nat : step[<<i, s>>] = Radix * s + digits[i]
  <2> DEFINE onward == [x \in (1 .. n) \X Nat |-> Radix * x[2] + digits[x[1]]]
  <2>1. ASSUME NEW i \in 1 .. n, NEW s \in Nat
        PROVE  onward[<<i, s>>] = Radix * s + digits[i] /\ onward[<<i, s>>] \in Nat
    <3>1. digits[i] \in Octet
      BY <1>0
    <3>2. Radix * s + digits[i] \in Nat
      BY <3>1, OneOctetMore, Zenon
    <3> QED
      BY <3>2
  <2> HIDE DEF onward
  <2> QED
    BY <2>1 DEF Steps
<1>2. PICK f : /\ f \in [0 .. n -> Nat]
               /\ f[0] = 0 /\ \A i \in 1 .. n : f[i] = step[<<i, f[i - 1]>>]
  <2> DEFINE S == Nat
  <2>1. 0 \in S /\ Steps(1 .. n, S, step)
    BY <1>1
  <2>2. \E f \in [0 .. n -> S] : f[0] = 0 /\ \A i \in 1 .. n : f[i] = step[<<i, f[i - 1]>>]
    <3> HIDE DEF S
    <3> QED
      BY <2>1, RecursionUpTo
  <2> QED
    BY <2>2
<1>3. ASSUME NEW i \in 1 .. n
      PROVE  f[i - 1] \in Nat /\ f[i] = Radix * f[i - 1] + digits[i]
  <2>1. f[i - 1] \in Nat
    BY <1>2
  <2> QED
    BY <1>1, <1>2, <2>1, Zenon
<1>4. f = [i \in 0 .. n |-> IF i = 0 THEN 0 ELSE Radix * f[i - 1] + digits[i]]
  <2>1. ASSUME NEW i \in 0 .. n
        PROVE  f[i] = IF i = 0 THEN 0 ELSE Radix * f[i - 1] + digits[i]
    <3>1. CASE i = 0
      BY <1>2, <3>1
    <3>2. CASE i # 0
      <4>1. i \in 1 .. n
        BY <3>2
      <4> QED
        BY <1>3, <3>2, <4>1, Zenon
    <3> QED
      BY <3>1, <3>2
  <2> QED
    BY <1>2, <2>1
<1> DEFINE value == CHOOSE g : g = [i \in 0 .. n |-> IF i = 0 THEN 0 ELSE Radix * g[i - 1] + digits[i]]
<1>5. value = [i \in 0 .. n |-> IF i = 0 THEN 0 ELSE Radix * value[i - 1] + digits[i]]
  BY <1>4, Zenon
<1>6. FromBigEndian(octets) = value[n]
  BY <1>0 DEF FromBigEndian, Radix
<1> HIDE DEF value
<1>7. \A i \in 1 .. n : digits[i] \in Octet
  BY <1>0
<1>8. value[0] = 0 /\ \A i \in 1 .. n : value[i] = Radix * value[i - 1] + digits[i]
  <2>1. value[0] = 0
    BY <1>5
  <2>2. ASSUME NEW i \in 1 .. n
        PROVE  value[i] = Radix * value[i - 1] + digits[i]
    <3>1. i \in 0 .. n /\ i # 0
      OBVIOUS
    <3> QED
      BY <1>5, <3>1
  <2> QED
    BY <2>1, <2>2
<1> DEFINE P == {i \in 0 .. n : value[i] \in Nat}
<1>9. ASSUME NEW i \in P, i \in 0 .. (n - 1)
      PROVE  i + 1 \in P
  <2>1. i + 1 \in 1 .. n /\ (i + 1) - 1 = i /\ i + 1 \in 0 .. n
    BY <1>9
  <2>2. value[i + 1] = Radix * value[i] + digits[i + 1] /\ digits[i + 1] \in Octet
    BY <1>7, <1>8, <2>1, Zenon
  <2>3. value[i] \in Nat
    OBVIOUS
  <2>4. \A u \in Nat, o \in Octet : Radix * u + o \in Nat
    BY OneOctetMore
  <2>5. value[i + 1] \in Nat
    BY <2>2, <2>3, <2>4, Zenon
  <2> QED
    BY <2>1, <2>5
<1>10. 0 \in P
  BY <1>8
<1>11. \A i \in 0 .. n : i \in P
  <2> HIDE DEF P
  <2> QED
    BY <1>9, <1>10, InductionUpTo
<1>12. Horner(n, value, octets)
  <2>1. ASSUME NEW i \in 1 .. n
        PROVE  value[i - 1] \in Nat
    <3>1. i - 1 \in 0 .. n
      OBVIOUS
    <3> QED
      BY <1>11, <3>1
  <2> QED
    BY <1>0, <1>7, <1>8, <2>1, Zenon DEF Horner
<1> QED
  BY <1>6, <1>12

\* The quotients of a number by the powers of 256.
LEMMA Quotients ==
    ASSUME NEW n \in Nat
    PROVE  \E part :
              /\ part[0] = n
              /\ \A k \in Nat :
                    /\ part[k] = n \div Pow256[k]
                    /\ part[k] \in Nat
                    /\ part[k + 1] = part[k] \div Radix
                    /\ n < Pow256[k] => part[k] = 0
<1> DEFINE part == [k \in Nat |-> n \div Pow256[k]]
<1>1. \A a, b \in Nat : a > 0 /\ b = Radix * a =>
         n \div a \in Nat /\ (n \div a) \div Radix = n \div b
  BY DivideTwice
<1>2. \A a \in Nat : a > 0 /\ n < a => n \div a = 0
  BY DivideSmall
<1>3. \A k \in Nat : part[k] = n \div Pow256[k]
  OBVIOUS
<1> HIDE DEF part
<1>4. part[0] = n
  BY <1>3, Pow256Facts, DivideByOne
<1>5. ASSUME NEW k \in Nat
      PROVE  /\ part[k] \in Nat
             /\ part[k + 1] = part[k] \div Radix
             /\ n < Pow256[k] => part[k] = 0
  <2>1. k + 1 \in Nat /\ Pow256[k] \in Nat /\ Pow256[k] > 0 /\ Pow256[k + 1] \in Nat
        /\ Pow256[k + 1] = Radix * Pow256[k]
    BY PowerStep, Zenon
  <2>2. part[k] = n \div Pow256[k] /\ part[k + 1] = n \div Pow256[k + 1]
    BY <1>3, <2>1, Zenon
  <2>3. n \div Pow256[k] \in Nat /\ (n \div Pow256[k]) \div Radix = n \div Pow256[k + 1]
    BY <1>1, <2>1, Zenon
  <2>4. n < Pow256[k] => n \div Pow256[k] = 0
    BY <1>2, <2>1, Zenon
  <2> QED
    BY <2>2, <2>3, <2>4, Zenon
<1> QED
  BY <1>3, <1>4, <1>5

\* A number in range comes back from its octets.
LEMMA NumberThenOctets ==
    ASSUME NEW width \in Nat, NEW n \in Numbers(width)
    PROVE  /\ BigEndian(n, width) \in Seq(Octet)
           /\ Len(BigEndian(n, width)) = width
           /\ FromBigEndian(BigEndian(n, width)) = n
<1>1. n \in Nat /\ n < Pow256[width]
  <2>1. Pow256[width] \in Nat
    BY Pow256Facts
  <2> QED
    BY <2>1 DEF Numbers
<1>2. PICK part :
         /\ part[0] = n
         /\ \A k \in Nat :
               /\ part[k] = n \div Pow256[k]
               /\ part[k] \in Nat
               /\ part[k + 1] = part[k] \div Radix
               /\ n < Pow256[k] => part[k] = 0
  BY <1>1, Quotients
<1> DEFINE octets == BigEndian(n, width)
<1>3. ASSUME NEW i \in 1 .. width
      PROVE  octets[i] = part[width - i] % Radix /\ octets[i] \in Octet
  <2>1. width - i \in Nat
    OBVIOUS
  <2>2. octets[i] = (n \div Pow256[width - i]) % Radix
    BY DEF BigEndian, Radix
  <2>3. n \div Pow256[width - i] = part[width - i] /\ part[width - i] \in Nat
    BY <1>2, <2>1
  <2>4. part[width - i] % Radix \in Octet
    BY <2>3, LastOctet
  <2> QED
    BY <2>2, <2>3, <2>4, Zenon
<1>4. octets \in Seq(Octet) /\ Len(octets) = width
  <2>1. DOMAIN octets = 1 .. width /\ octets = [i \in 1 .. width |-> octets[i]]
    BY DEF BigEndian
  <2> HIDE DEF octets
  <2> QED
    BY <1>3, <2>1
<1> HIDE DEF octets
<1>5. PICK value : Horner(width, value, octets) /\ FromBigEndian(octets) = value[width]
  BY <1>4, FromBigEndianFacts
<1>a. \A i \in 1 .. width : value[i] = Radix * value[i - 1] + octets[i]
  BY <1>5, Zenon DEF Horner
<1> DEFINE P == {i \in 0 .. width : value[i] = part[width - i]}
<1>6. 0 \in P
  <2>1. value[0] = 0 /\ part[width] = 0
    BY <1>1, <1>2, <1>5 DEF Horner
  <2> QED
    BY <2>1
<1>7. ASSUME NEW i \in P, i \in 0 .. (width - 1)
      PROVE  i + 1 \in P
  <2>1. PICK k \in Nat : k = width - (i + 1) /\ k + 1 = width - i
    BY <1>7
  <2>2. i + 1 \in 1 .. width /\ (i + 1) - 1 = i /\ i + 1 \in 0 .. width
    BY <1>7
  <2>3. part[k] \in Nat /\ part[k] \div Radix = part[k + 1]
    BY <1>2, Zenon
  <2>4. octets[i + 1] = part[k] % Radix
    BY <1>3, <2>1, <2>2, Zenon
  <2>5. value[i + 1] = Radix * value[i] + octets[i + 1]
    BY <1>a, <2>2, Zenon
  <2>6. value[i] = part[k + 1]
    BY <2>1
  <2>7. Radix * (part[k] \div Radix) + (part[k] % Radix) = part[k]
    BY <2>3, LastOctet
  <2>8. value[i + 1] = part[k]
    BY <2>3, <2>4, <2>5, <2>6, <2>7, Zenon
  <2> QED
    BY <2>1, <2>2, <2>8
<1>8. \A i \in 0 .. width : i \in P
  <2> HIDE DEF P
  <2> QED
    BY <1>6, <1>7, InductionUpTo
<1>9. value[width] = n
  <2>1. value[width] = part[width - width] /\ width - width = 0
    BY <1>8
  <2> QED
    BY <1>2, <2>1
<1> QED
  BY <1>4, <1>5, <1>9, Zenon DEF octets

\* Octets come back from their number.
LEMMA OctetsThenNumber ==
    ASSUME NEW width \in Nat, NEW octets \in Seq(Octet), Len(octets) = width
    PROVE  /\ FromBigEndian(octets) \in Numbers(width)
           /\ BigEndian(FromBigEndian(octets), width) = octets
<1>1. PICK value : Horner(width, value, octets) /\ FromBigEndian(octets) = value[width]
  BY FromBigEndianFacts
<1>2. octets = [i \in 1 .. width |-> octets[i]]
  OBVIOUS
<1>a. ASSUME NEW i \in 1 .. width
      PROVE  /\ value[i] \div Radix = value[i - 1]
             /\ value[i] % Radix = octets[i]
             /\ \A a, b \in Nat : value[i - 1] < a /\ b = Radix * a => value[i] < b
  BY <1>1, HornerStep
<1> DEFINE P == {i \in 0 .. width : value[i] < Pow256[i]}
<1>3. 0 \in P
  <2>1. value[0] < Pow256[0]
    BY <1>1, Pow256Facts DEF Horner
  <2> QED
    BY <2>1
<1>4. ASSUME NEW i \in P, i \in 0 .. (width - 1)
      PROVE  i + 1 \in P
  <2>1. i + 1 \in 1 .. width /\ (i + 1) - 1 = i /\ i + 1 \in 0 .. width /\ i \in Nat
    BY <1>4
  <2>2. Pow256[i + 1] = Radix * Pow256[i] /\ Pow256[i] \in Nat /\ Pow256[i + 1] \in Nat
    BY <2>1, PowerStep, Zenon
  <2>3. value[i] < Pow256[i]
    OBVIOUS
  <2>4. value[i + 1] < Pow256[i + 1]
    <3>1. \A a, b \in Nat : value[(i + 1) - 1] < a /\ b = Radix * a => value[i + 1] < b
      BY <1>a, <2>1, Zenon
    <3>2. value[(i + 1) - 1] < Pow256[i]
      BY <2>1, <2>3, Zenon
    <3> QED
      BY <2>2, <3>1, <3>2, Zenon
  <2> QED
    BY <2>1, <2>4
<1>5. \A i \in 0 .. width : i \in P
  <2> HIDE DEF P
  <2> QED
    BY <1>3, <1>4, InductionUpTo
<1>6. PICK n \in Nat : n = value[width] /\ n < Pow256[width]
  BY <1>1, <1>5, HornerValue
<1>7. PICK part :
         /\ part[0] = n
         /\ \A k \in Nat :
               /\ part[k] = n \div Pow256[k]
               /\ part[k] \in Nat
               /\ part[k + 1] = part[k] \div Radix
               /\ n < Pow256[k] => part[k] = 0
  BY Quotients
<1> DEFINE Q == {k \in 0 .. width : part[k] = value[width - k]}
<1>8. 0 \in Q
  BY <1>6, <1>7
<1>9. ASSUME NEW k \in Q, k \in 0 .. (width - 1)
      PROVE  k + 1 \in Q
  <2>1. PICK i \in 1 .. width : i = width - k /\ i - 1 = width - (k + 1)
    BY <1>9
  <2>2. k \in Nat /\ k + 1 \in 0 .. width
    BY <1>9
  <2>3. part[k + 1] = part[k] \div Radix
    BY <1>7, <2>2, Zenon
  <2>4. part[k] = value[i]
    BY <2>1
  <2>5. value[i] \div Radix = value[i - 1]
    BY <1>a, Zenon
  <2>6. part[k + 1] = value[width - (k + 1)]
    BY <2>1, <2>3, <2>4, <2>5, Zenon
  <2> QED
    BY <2>2, <2>6
<1>10. \A k \in 0 .. width : k \in Q
  <2> HIDE DEF Q
  <2> QED
    BY <1>8, <1>9, InductionUpTo
<1>11. ASSUME NEW i \in 1 .. width
       PROVE  (n \div Pow256[width - i]) % Radix = octets[i]
  <2>1. PICK k \in 0 .. width : k = width - i /\ width - k = i
    OBVIOUS
  <2>2. k \in Nat
    OBVIOUS
  <2>3. part[k] = n \div Pow256[k]
    BY <1>7, <2>2, Zenon
  <2>4. part[k] = value[i]
    BY <1>10, <2>1
  <2>5. value[i] % Radix = octets[i]
    BY <1>a, Zenon
  <2> QED
    BY <2>1, <2>3, <2>4, <2>5, Zenon
<1>12. BigEndian(n, width) = octets
  BY <1>2, <1>11 DEF BigEndian, Radix
<1>13. n \in Numbers(width)
  <2>1. Pow256[width] \in Nat
    BY Pow256Facts
  <2> QED
    BY <1>6, <2>1 DEF Numbers
<1> QED
  BY <1>1, <1>6, <1>12, <1>13, Zenon

---------------------------------------------------------------------------
(* Readers made of readers.                                                *)

\* What it takes to be read.
LEMMA ReadsBy ==
    ASSUME NEW w, NEW Reader, NEW put, Images(put),
           \A at \in Places(w) : Sound(w, Reader[at], at, put) /\ Complete(w, Reader[at], at, put)
    PROVE  Reads(w, Reader, put)
BY Zenon DEF Reads

\* What being read gives.
LEMMA ReadsAt ==
    ASSUME NEW w \in Seq(Octet), NEW Reader, NEW put, Reads(w, Reader, put), NEW at \in Places(w)
    PROVE  /\ \A v \in DOMAIN put : put[v] \in Seq(Octet)
           /\ Reader[at] # << >> =>
                 \E v \in DOMAIN put :
                    /\ Reader[at] = Got(v, at + Len(put[v]))
                    /\ Holds(w, at, put[v])
                    /\ at + Len(put[v]) \in Places(w)
           /\ \A v \in DOMAIN put :
                 Holds(w, at, put[v]) =>
                    Reader[at] = Got(v, at + Len(put[v])) /\ at + Len(put[v]) \in Places(w)
<1>1. \A v \in DOMAIN put : put[v] \in Seq(Octet)
  BY Zenon DEF Reads, Images
<1>2. \A v \in DOMAIN put : Holds(w, at, put[v]) => at + Len(put[v]) \in Places(w)
  BY <1>1, PlaceAfter, Zenon
<1>3. Reader[at] # << >> =>
         \E v \in DOMAIN put : Reader[at] = Got(v, at + Len(put[v])) /\ Holds(w, at, put[v])
  BY Zenon DEF Reads, Sound
<1>4. \A v \in DOMAIN put : Holds(w, at, put[v]) => Reader[at] = Got(v, at + Len(put[v]))
  BY Zenon DEF Reads, Complete
<1> QED
  BY <1>1, <1>2, <1>3, <1>4, Zenon

\* A reader that converts what another one reads, where it can.
Converts(w, Reader, Raw, convert) ==
    \A at \in Places(w) :
        Reader[at] = IF Raw[at] = << >> THEN << >>
                     ELSE IF Raw[at][1].value \in DOMAIN convert
                     THEN Got(convert[Raw[at][1].value], Raw[at][1].next)
                     ELSE << >>

\* A value's image is the image of what it is converted from.
SameImages(convert, raw, put) ==
    /\ \A x \in DOMAIN convert :
          x \in DOMAIN raw /\ convert[x] \in DOMAIN put /\ put[convert[x]] = raw[x]
    /\ \A v \in DOMAIN put : \E x \in DOMAIN convert : convert[x] = v

LEMMA ReadsConverted ==
    ASSUME NEW w \in Seq(Octet), NEW Reader, NEW Raw, NEW convert, NEW raw, NEW put,
           Reads(w, Raw, raw), Converts(w, Reader, Raw, convert), SameImages(convert, raw, put)
    PROVE  Reads(w, Reader, put)
<1>1. Images(put)
  BY Zenon DEF Images, Reads, SameImages
<1>2. ASSUME NEW at \in Places(w)
      PROVE  Sound(w, Reader[at], at, put)
  <2>1. SUFFICES ASSUME Reader[at] # << >>
                 PROVE  \E v \in DOMAIN put :
                           Reader[at] = Got(v, at + Len(put[v])) /\ Holds(w, at, put[v])
    BY DEF Sound
  <2>2. /\ Raw[at] # << >> /\ Raw[at][1].value \in DOMAIN convert
        /\ Reader[at] = Got(convert[Raw[at][1].value], Raw[at][1].next)
    BY <2>1, Zenon DEF Converts
  <2>3. PICK x \in DOMAIN raw : Raw[at] = Got(x, at + Len(raw[x])) /\ Holds(w, at, raw[x])
    BY <2>2, ReadsAt
  <2>4. Raw[at][1].value = x /\ Raw[at][1].next = at + Len(raw[x])
    BY <2>3, GotFacts
  <2>5. convert[x] \in DOMAIN put /\ put[convert[x]] = raw[x]
    BY <2>2, <2>4, Zenon DEF SameImages
  <2> QED
    BY <2>2, <2>3, <2>4, <2>5, Zenon
<1>3. ASSUME NEW at \in Places(w)
      PROVE  Complete(w, Reader[at], at, put)
  <2>1. SUFFICES ASSUME NEW v \in DOMAIN put, Holds(w, at, put[v])
                 PROVE  Reader[at] = Got(v, at + Len(put[v]))
    BY Zenon DEF Complete
  <2>2. PICK x \in DOMAIN convert : convert[x] = v
    BY Zenon DEF SameImages
  <2>3. x \in DOMAIN raw /\ put[v] = raw[x]
    BY <2>2, Zenon DEF SameImages
  <2>4. Raw[at] = Got(x, at + Len(raw[x]))
    BY <2>1, <2>3, ReadsAt
  <2>5. Raw[at] # << >> /\ Raw[at][1].value = x /\ Raw[at][1].next = at + Len(raw[x])
    BY <2>4, GotFacts
  <2>6. Reader[at] = Got(convert[x], at + Len(raw[x]))
    BY <2>2, <2>5, Zenon DEF Converts
  <2> QED
    BY <2>2, <2>3, <2>6, Zenon
<1> QED
  BY <1>1, <1>2, <1>3, ReadsBy, Zenon

\* A reader that goes on with one of several readers, by what a first one read.
Continues(w, Reader, First, choices, Rest) ==
    \A at \in Places(w) :
        Reader[at] = IF First[at] = << >> THEN << >>
                     ELSE IF First[at][1].value \in choices
                     THEN Rest[First[at][1].value][First[at][1].next]
                     ELSE << >>

\* A value's image is the image of the choice and the image the choice gives it.
JoinedImages(choices, first, rest, put) ==
    /\ \A x \in choices : x \in DOMAIN first
    /\ \A x \in choices : \A v \in DOMAIN rest[x] :
          v \in DOMAIN put /\ put[v] = first[x] \o rest[x][v]
    /\ \A v \in DOMAIN put : \E x \in choices : v \in DOMAIN rest[x]

LEMMA ReadsJoined ==
    ASSUME NEW w \in Seq(Octet), NEW Reader, NEW First, NEW choices, NEW Rest,
           NEW first, NEW rest, NEW put,
           Reads(w, First, first),
           \A x \in choices : Reads(w, Rest[x], rest[x]),
           Continues(w, Reader, First, choices, Rest),
           JoinedImages(choices, first, rest, put)
    PROVE  Reads(w, Reader, put)
<1> DEFINE Cat(a, b) == a \o b
<1>a. \A x \in choices : \A v \in DOMAIN rest[x] :
         /\ x \in DOMAIN first /\ v \in DOMAIN put
         /\ put[v] = Cat(first[x], rest[x][v])
         /\ first[x] \in Seq(Octet) /\ rest[x][v] \in Seq(Octet)
  BY Zenon DEF JoinedImages, Reads, Images
<1>b. \A a, b \in Seq(Octet) :
         /\ Cat(a, b) \in Seq(Octet)
         /\ \A at \in Places(w) :
               Holds(w, at, Cat(a, b)) <=> Holds(w, at, a) /\ Holds(w, at + Len(a), b)
  <2>1. \A a, b \in Seq(Octet) : Cat(a, b) \in Seq(Octet)
    OBVIOUS
  <2>2. ASSUME NEW a \in Seq(Octet), NEW b \in Seq(Octet), NEW at \in Places(w)
        PROVE  Holds(w, at, Cat(a, b)) <=> Holds(w, at, a) /\ Holds(w, at + Len(a), b)
    BY HoldsConcat, Zenon
  <2> HIDE DEF Cat
  <2> QED
    BY <2>1, <2>2, Zenon
<1>c. \A a, b \in Seq(Octet), at \in Places(w) : (at + Len(a)) + Len(b) = at + Len(Cat(a, b))
  BY DEF Places
<1> HIDE DEF Cat
<1>e. ASSUME NEW x \in choices, NEW v \in DOMAIN rest[x], NEW at \in Places(w)
      PROVE  /\ Holds(w, at, put[v]) <=>
                   Holds(w, at, first[x]) /\ Holds(w, at + Len(first[x]), rest[x][v])
             /\ (at + Len(first[x])) + Len(rest[x][v]) = at + Len(put[v])
  <2>1. PICK a \in Seq(Octet) : a = first[x]
    BY <1>a, Zenon
  <2>2. PICK b \in Seq(Octet) : b = rest[x][v]
    BY <1>a, Zenon
  <2>3. put[v] = Cat(a, b)
    BY <1>a, <2>1, <2>2
  <2>4. Holds(w, at, Cat(a, b)) <=> Holds(w, at, a) /\ Holds(w, at + Len(a), b)
    BY <1>b, Zenon
  <2>5. (at + Len(a)) + Len(b) = at + Len(Cat(a, b))
    BY <1>c, Zenon
  <2> QED
    BY <2>1, <2>2, <2>3, <2>4, <2>5
<1>d. \A v \in DOMAIN put : \E x \in choices : v \in DOMAIN rest[x]
  BY Zenon DEF JoinedImages
<1>1. Images(put)
  <2>1. SUFFICES ASSUME NEW v \in DOMAIN put
                 PROVE  put[v] \in Seq(Octet)
    BY Zenon DEF Images
  <2>2. PICK x \in choices : v \in DOMAIN rest[x]
    BY <1>d, Zenon
  <2> QED
    BY <1>a, <1>b, <2>2, Zenon
<1>2. ASSUME NEW at \in Places(w)
      PROVE  Sound(w, Reader[at], at, put)
  <2>1. SUFFICES ASSUME Reader[at] # << >>
                 PROVE  \E v \in DOMAIN put :
                           Reader[at] = Got(v, at + Len(put[v])) /\ Holds(w, at, put[v])
    BY DEF Sound
  <2>2. /\ First[at] # << >> /\ First[at][1].value \in choices
        /\ Reader[at] = Rest[First[at][1].value][First[at][1].next]
    BY <2>1, Zenon DEF Continues
  <2>3. PICK x \in DOMAIN first : /\ First[at] = Got(x, at + Len(first[x]))
                                  /\ Holds(w, at, first[x])
                                  /\ at + Len(first[x]) \in Places(w)
    BY <2>2, ReadsAt
  <2>4. First[at][1].value = x /\ First[at][1].next = at + Len(first[x])
    BY <2>3, GotFacts
  <2>5. x \in choices /\ Reader[at] = Rest[x][at + Len(first[x])]
    BY <2>2, <2>4, Zenon
  <2>6. PICK v \in DOMAIN rest[x] :
           /\ Rest[x][at + Len(first[x])] = Got(v, (at + Len(first[x])) + Len(rest[x][v]))
           /\ Holds(w, at + Len(first[x]), rest[x][v])
    <3> DEFINE onto == at + Len(first[x])
    <3>1. Reads(w, Rest[x], rest[x])
      BY <2>5, Zenon
    <3>2. onto \in Places(w) /\ Rest[x][onto] # << >>
      BY <2>1, <2>3, <2>5, Zenon
    <3> HIDE DEF onto
    <3>3. Sound(w, Rest[x][onto], onto, rest[x])
      BY <3>1, <3>2, Zenon DEF Reads
    <3>4. \E v \in DOMAIN rest[x] :
             /\ Rest[x][onto] = Got(v, onto + Len(rest[x][v]))
             /\ Holds(w, onto, rest[x][v])
      BY <3>2, <3>3, Zenon DEF Sound
    <3> QED
      BY <3>4, Zenon DEF onto
  <2>7. Holds(w, at, put[v]) /\ (at + Len(first[x])) + Len(rest[x][v]) = at + Len(put[v])
    BY <1>e, <2>3, <2>5, <2>6
  <2> QED
    BY <1>a, <2>5, <2>6, <2>7, Zenon
<1>3. ASSUME NEW at \in Places(w)
      PROVE  Complete(w, Reader[at], at, put)
  <2>1. SUFFICES ASSUME NEW v \in DOMAIN put, Holds(w, at, put[v])
                 PROVE  Reader[at] = Got(v, at + Len(put[v]))
    BY Zenon DEF Complete
  <2>2. PICK x \in choices : v \in DOMAIN rest[x]
    BY <1>d, Zenon
  <2>3. /\ Holds(w, at, first[x]) /\ Holds(w, at + Len(first[x]), rest[x][v])
        /\ (at + Len(first[x])) + Len(rest[x][v]) = at + Len(put[v])
    BY <1>e, <2>1, <2>2
  <2>4. First[at] = Got(x, at + Len(first[x])) /\ at + Len(first[x]) \in Places(w)
    BY <1>a, <2>2, <2>3, ReadsAt, Zenon
  <2>5. /\ First[at] # << >> /\ First[at][1].value = x
        /\ First[at][1].next = at + Len(first[x])
    BY <2>4, GotFacts
  <2>6. Reader[at] = Rest[x][at + Len(first[x])]
    BY <2>2, <2>5, Zenon DEF Continues
  <2>7. Rest[x][at + Len(first[x])] = Got(v, (at + Len(first[x])) + Len(rest[x][v]))
    <3>1. Reads(w, Rest[x], rest[x])
      BY <2>2, Zenon
    <3> QED
      BY <2>2, <2>3, <2>4, <3>1, ReadsAt
  <2> QED
    BY <2>3, <2>6, <2>7, Zenon
<1> QED
  BY <1>1, <1>2, <1>3, ReadsBy, Zenon

---------------------------------------------------------------------------
(* One reader after the other.                                             *)

\* What TakeEach does with what it has, and the next reader.
Advance(reader, got) ==
    Then(got, LAMBDA values, from :
        Then(reader[from], LAMBDA x, next : Got(Append(values, x), next)))

LEMMA AdvanceFacts ==
    ASSUME NEW reader, NEW values, NEW from
    PROVE  /\ Advance(reader, << >>) = << >>
           /\ reader[from] = << >> => Advance(reader, Got(values, from)) = << >>
           /\ reader[from] # << >> =>
                 Advance(reader, Got(values, from)) =
                    Got(Append(values, reader[from][1].value), reader[from][1].next)
BY DEF Advance, Then, Got

\* The sequences of a value of each, and what TakeEach may have.
Tuples(puts, n) ==
    {values \in [1 .. n -> UNION {DOMAIN puts[i] : i \in 1 .. n}] :
        \A i \in 1 .. n : values[i] \in DOMAIN puts[i]}

EachPut(puts, n) ==
    [values \in Tuples(puts, n) |-> FlattenSeq([i \in 1 .. n |-> puts[i][values[i]]])]

AllRead(w, n, readers, puts) == \A i \in 1 .. n : Reads(w, readers[i], puts[i])

\* What TakeEach has after each of the readers.
Runs(n, readers, at, upto) ==
    /\ upto[0] = Got(<< >>, at)
    /\ \A i \in 1 .. n : upto[i] = Advance(readers[i], upto[i - 1])
    /\ TakeEach(readers)[at] = upto[n]

LEMMA EachFacts ==
    ASSUME NEW w \in Seq(Octet), NEW n \in Nat, NEW readers, Len(readers) = n, NEW puts,
           AllRead(w, n, readers, puts), NEW at \in Places(w)
    PROVE  \E upto : Runs(n, readers, at, upto)
<1> DEFINE V == UNION {DOMAIN puts[i] : i \in 1 .. n}
           S == {<< >>} \cup {Got(x[1], x[2]) : x \in Seq(V) \X Places(w)}
           Base == Got(<< >>, at)
<1>a. << >> \in S
  OBVIOUS
<1>b. ASSUME NEW values \in Seq(V), NEW from \in Places(w)
      PROVE  Got(values, from) \in S
  <2>1. <<values, from>> \in Seq(V) \X Places(w)
    OBVIOUS
  <2>2. Got(<<values, from>>[1], <<values, from>>[2]) \in {Got(x[1], x[2]) : x \in Seq(V) \X Places(w)}
    BY <2>1, Zenon
  <2>3. <<values, from>>[1] = values /\ <<values, from>>[2] = from
    OBVIOUS
  <2> QED
    BY <2>2, <2>3
<1>c. ASSUME NEW s \in S, s # << >>
      PROVE  \E values \in Seq(V), from \in Places(w) : s = Got(values, from)
  <2>1. PICK x \in Seq(V) \X Places(w) : s = Got(x[1], x[2])
    BY <1>c
  <2> QED
    BY <2>1
<1> DEFINE Entries == Seq(V)
<1>d. << >> \in Entries /\ \A values \in Entries, v \in V : Append(values, v) \in Entries
  OBVIOUS
<1> HIDE DEF S
<1>1. Base \in S
  <2>1. << >> \in Seq(V)
    OBVIOUS
  <2> QED
    BY <1>b, <2>1, Zenon
<1>2. ASSUME NEW i \in 1 .. n, NEW s \in S
      PROVE  Advance(readers[i], s) \in S
  <2>2. CASE s = << >>
    BY <1>a, <2>2, AdvanceFacts
  <2>3. CASE s # << >>
    <3>1. PICK values \in Entries, from \in Places(w) : s = Got(values, from)
      BY <1>c, <2>3
    <3> HIDE DEF Entries
    <3>2. CASE readers[i][from] = << >>
      BY <1>a, <3>1, <3>2, AdvanceFacts
    <3>3. CASE readers[i][from] # << >>
      <4>1. Reads(w, readers[i], puts[i])
        BY DEF AllRead
      <4>2. PICK v \in DOMAIN puts[i] : /\ readers[i][from] = Got(v, from + Len(puts[i][v]))
                                        /\ from + Len(puts[i][v]) \in Places(w)
        BY <3>3, <4>1, ReadsAt
      <4>3. Advance(readers[i], s) = Got(Append(values, v), from + Len(puts[i][v]))
        BY <3>1, <3>3, <4>2, AdvanceFacts, GotFacts
      <4>4. v \in V
        OBVIOUS
      <4>5. Append(values, v) \in Entries
        BY <1>d, <4>4
      <4>6. Got(Append(values, v), from + Len(puts[i][v])) \in S
        BY <1>b, <4>2, <4>5 DEF Entries
      <4> QED
        BY <4>3, <4>6
    <3> QED
      BY <3>2, <3>3
  <2> QED
    BY <2>2, <2>3
<1> HIDE DEF S, V
<1>3. PICK step : /\ Steps(1 .. n, S, step)
                  /\ \A i \in 1 .. n, s \in S : step[<<i, s>>] = Advance(readers[i], s)
  <2> DEFINE onward == [x \in (1 .. n) \X S |-> Advance(readers[x[1]], x[2])]
  <2>1. \A i \in 1 .. n, s \in S : onward[<<i, s>>] = Advance(readers[i], s)
    OBVIOUS
  <2> HIDE DEF onward
  <2> QED
    BY <1>2, <2>1 DEF Steps
<1> HIDE DEF Base
<1>4. PICK f \in [0 .. n -> S] :
          f[0] = Base /\ \A i \in 1 .. n : f[i] = step[<<i, f[i - 1]>>]
  <2>1. ASSUME NEW base \in S
        PROVE  \E f \in [0 .. n -> S] :
                  f[0] = base /\ \A i \in 1 .. n : f[i] = step[<<i, f[i - 1]>>]
    BY <1>3, RecursionUpTo
  <2> QED
    BY <1>1, <2>1
<1>5. ASSUME NEW i \in 1 .. n
      PROVE  f[i] = Advance(readers[i], f[i - 1])
  <2>1. f[i - 1] \in S
    BY <1>4
  <2> QED
    BY <1>3, <1>4, <2>1, Zenon
<1>6. f = [i \in 0 .. n |-> IF i = 0 THEN Base ELSE Advance(readers[i], f[i - 1])]
  <2>1. ASSUME NEW i \in 0 .. n
        PROVE  f[i] = IF i = 0 THEN Base ELSE Advance(readers[i], f[i - 1])
    <3>1. CASE i = 0
      BY <1>4, <3>1
    <3>2. CASE i # 0
      <4>1. i \in 1 .. n
        BY <3>2
      <4> QED
        BY <1>5, <3>2, <4>1, Zenon
    <3> QED
      BY <3>1, <3>2
  <2> QED
    BY <1>4, <2>1
<1> DEFINE upto == CHOOSE g : g = [i \in 0 .. n |-> IF i = 0 THEN Base ELSE Advance(readers[i], g[i - 1])]
<1>7. upto = [i \in 0 .. n |-> IF i = 0 THEN Base ELSE Advance(readers[i], upto[i - 1])]
  BY <1>6, Zenon
<1>8. TakeEach(readers)[at] = upto[n]
  <2>1. at \in Positions
    BY DEF Places, Positions
  <2> QED
    BY <2>1 DEF TakeEach, Advance, Base
<1> HIDE DEF upto
<1>9. upto[0] = Base /\ \A i \in 1 .. n : upto[i] = Advance(readers[i], upto[i - 1])
  <2>1. upto[0] = Base
    BY <1>7
  <2>2. ASSUME NEW i \in 1 .. n
        PROVE  upto[i] = Advance(readers[i], upto[i - 1])
    <3>1. i \in 0 .. n /\ i # 0
      OBVIOUS
    <3> QED
      BY <1>7, <3>1
  <2> QED
    BY <2>1, <2>2
<1> QED
  BY <1>8, <1>9, Zenon DEF Base, Runs

\* A tuple and one more value; its image and one more.
OneMore(puts, i) ==
    /\ \A values \in Tuples(puts, i - 1) : \A x \in DOMAIN puts[i] :
          /\ Append(values, x) \in Tuples(puts, i)
          /\ Append(values, x)[i] = x
          /\ EachPut(puts, i)[Append(values, x)] = EachPut(puts, i - 1)[values] \o puts[i][x]
    /\ \A values \in Tuples(puts, i) :
          \E front \in Tuples(puts, i - 1), x \in DOMAIN puts[i] : values = Append(front, x)

LEMMA TuplesAppend ==
    ASSUME NEW puts, NEW i \in Nat \ {0}, \A j \in 1 .. i : Images(puts[j])
    PROVE  OneMore(puts, i)
<1>1. ASSUME NEW values \in Tuples(puts, i - 1), NEW x \in DOMAIN puts[i]
      PROVE  /\ Append(values, x) \in Tuples(puts, i)
             /\ Append(values, x)[i] = x
             /\ EachPut(puts, i)[Append(values, x)] =
                   EachPut(puts, i - 1)[values] \o puts[i][x]
  <2> DEFINE V == UNION {DOMAIN puts[j] : j \in 1 .. i}
             more == Append(values, x)
             images == [j \in 1 .. (i - 1) |-> puts[j][values[j]]]
  <2>1. i - 1 \in Nat /\ (i - 1) + 1 = i
    OBVIOUS
  <2>2. \A j \in 1 .. (i - 1) : values[j] \in DOMAIN puts[j]
    BY DEF Tuples
  <2>3. values \in [1 .. (i - 1) -> V]
    <3>1. DOMAIN values = 1 .. (i - 1) /\ values = [j \in 1 .. (i - 1) |-> values[j]]
      BY DEF Tuples
    <3>2. ASSUME NEW j \in 1 .. (i - 1)
          PROVE  values[j] \in V
      BY <2>2
    <3> HIDE DEF V
    <3> QED
      BY <3>1, <3>2
  <2>4. x \in V
    OBVIOUS
  <2> HIDE DEF V
  <2>5. values \in Seq(V) /\ Len(values) = i - 1
    BY <2>1, <2>3
  <2>6. more \in [1 .. i -> V] /\ more[i] = x /\ \A j \in 1 .. (i - 1) : more[j] = values[j]
    <3>1. more \in Seq(V) /\ Len(more) = (i - 1) + 1
      BY <2>4, <2>5
    <3>2. \A j \in 1 .. Len(values) + 1 : more[j] = IF j <= Len(values) THEN values[j] ELSE x
      BY <2>4, <2>5
    <3>3. Len(more) = i /\ Len(values) + 1 = i
      BY <2>1, <2>5, <3>1, Zenon
    <3> HIDE DEF more
    <3>4. more[i] = x
      BY <2>5, <3>2, <3>3
    <3>5. \A j \in 1 .. (i - 1) : more[j] = values[j]
      BY <2>5, <3>2, <3>3
    <3> QED
      BY <3>1, <3>3, <3>4, <3>5
  <2> HIDE DEF more
  <2>7. ASSUME NEW j \in 1 .. i
        PROVE  more[j] \in DOMAIN puts[j]
    <3>1. CASE j = i
      BY <2>6, <3>1
    <3>2. CASE j # i
      <4>1. j \in 1 .. (i - 1)
        BY <3>2
      <4> QED
        BY <2>2, <2>6, <4>1, Zenon
    <3> QED
      BY <3>1, <3>2
  <2>8. more \in Tuples(puts, i)
    BY <2>6, <2>7 DEF Tuples, V
  <2>9. images \in [1 .. (i - 1) -> Seq(Octet)] /\ puts[i][x] \in Seq(Octet)
    <3>1. ASSUME NEW j \in 1 .. (i - 1)
          PROVE  puts[j][values[j]] \in Seq(Octet)
      <4>1. j \in 1 .. i
        OBVIOUS
      <4> QED
        BY <2>2, <4>1, Zenon DEF Images
    <3>2. puts[i][x] \in Seq(Octet)
      <4>1. i \in 1 .. i
        OBVIOUS
      <4> QED
        BY <4>1, Zenon DEF Images
    <3> QED
      BY <3>1, <3>2
  <2>10. [j \in 1 .. i |-> puts[j][more[j]]] = Append(images, puts[i][x])
    <3>1. images \in Seq(Seq(Octet)) /\ Len(images) = i - 1
      <4>1. PICK m \in Nat : m = i - 1
        BY <2>1
      <4> HIDE DEF images
      <4>2. images \in [1 .. m -> Seq(Octet)]
        BY <2>9, <4>1
      <4>3. images \in Seq(Seq(Octet)) /\ Len(images) = m
        BY <4>2
      <4> QED
        BY <4>1, <4>3
    <3>2. \A j \in 1 .. (i - 1) : images[j] = puts[j][more[j]]
      BY <2>6
    <3> HIDE DEF images
    <3>3. Append(images, puts[i][x]) = [j \in 1 .. i |-> IF j = i THEN puts[i][x] ELSE images[j]]
      BY <2>1, <2>9, <3>1
    <3>4. ASSUME NEW j \in 1 .. i
          PROVE  (IF j = i THEN puts[i][x] ELSE images[j]) = puts[j][more[j]]
      <4>1. CASE j = i
        BY <2>6, <4>1
      <4>2. CASE j # i
        <5>1. j \in 1 .. (i - 1)
          BY <4>2
        <5> QED
          BY <3>2, <4>2, <5>1, Zenon
      <4> QED
        BY <4>1, <4>2
    <3> QED
      BY <3>3, <3>4
  <2>11. EachPut(puts, i)[more] = FlattenSeq(Append(images, puts[i][x]))
    BY <2>8, <2>10 DEF EachPut
  <2>12. FlattenSeq(Append(images, puts[i][x])) = FlattenSeq(images) \o puts[i][x]
    BY <2>1, <2>9, FlattenAppend
  <2>13. EachPut(puts, i - 1)[values] = FlattenSeq(images)
    BY DEF EachPut
  <2> HIDE DEF images
  <2> QED
    BY <2>6, <2>8, <2>11, <2>12, <2>13, Zenon DEF more
<1>2. ASSUME NEW values \in Tuples(puts, i)
      PROVE  \E front \in Tuples(puts, i - 1), x \in DOMAIN puts[i] : values = Append(front, x)
  <2> DEFINE front == [j \in 1 .. (i - 1) |-> values[j]]
             V == UNION {DOMAIN puts[j] : j \in 1 .. i}
             W == UNION {DOMAIN puts[j] : j \in 1 .. (i - 1)}
  <2>1. i - 1 \in Nat /\ (i - 1) + 1 = i
    OBVIOUS
  <2>2. \A j \in 1 .. i : values[j] \in DOMAIN puts[j]
    BY DEF Tuples
  <2>3. values = [j \in 1 .. i |-> values[j]]
    BY DEF Tuples
  <2>4. \A j \in 1 .. (i - 1) : values[j] \in DOMAIN puts[j] /\ values[j] \in W
    BY <2>2
  <2>5. front \in Tuples(puts, i - 1)
    <3> HIDE DEF W
    <3>1. front \in [1 .. (i - 1) -> W] /\ \A j \in 1 .. (i - 1) : front[j] \in DOMAIN puts[j]
      BY <2>4
    <3> QED
      BY <3>1, Zenon DEF Tuples, W
  <2>6. values[i] \in DOMAIN puts[i]
    BY <2>2
  <2>7. Append(front, values[i]) = values
    <3> HIDE DEF W
    <3>1. front \in Seq(W) /\ Len(front) = i - 1
      BY <2>1, <2>4
    <3>2. \A j \in 1 .. (i - 1) : front[j] = values[j]
      OBVIOUS
    <3> HIDE DEF front
    <3>3. Append(front, values[i]) = [j \in 1 .. i |-> IF j = i THEN values[i] ELSE front[j]]
      BY <2>1, <3>1
    <3>4. ASSUME NEW j \in 1 .. i
          PROVE  (IF j = i THEN values[i] ELSE front[j]) = values[j]
      BY <3>2
    <3> QED
      BY <2>3, <3>3, <3>4
  <2> QED
    BY <2>5, <2>6, <2>7
<1> QED
  BY <1>1, <1>2, Zenon DEF OneMore

\* TakeEach reads the sequences of values whose images follow each other.
LEMMA ReadsEach ==
    ASSUME NEW w \in Seq(Octet), NEW n \in Nat, NEW readers, Len(readers) = n, NEW puts,
           AllRead(w, n, readers, puts)
    PROVE  Reads(w, TakeEach(readers), EachPut(puts, n))
<1> DEFINE run == [at \in Places(w) |-> CHOOSE upto : Runs(n, readers, at, upto)]
           After == [i \in 0 .. n |-> [at \in Places(w) |-> run[at][i]]]
<1>1. ASSUME NEW at \in Places(w)
      PROVE  Runs(n, readers, at, run[at])
  <2>1. \E upto : Runs(n, readers, at, upto)
    BY EachFacts
  <2>2. run[at] = CHOOSE upto : Runs(n, readers, at, upto)
    OBVIOUS
  <2> HIDE DEF run
  <2> QED
    BY <2>1, <2>2
<1> HIDE DEF run
<1>2. ASSUME NEW at \in Places(w)
      PROVE  /\ After[0][at] = Got(<< >>, at)
             /\ \A i \in 1 .. n : After[i][at] = Advance(readers[i], After[i - 1][at])
             /\ TakeEach(readers)[at] = After[n][at]
  <2>1. \A i \in 0 .. n : After[i][at] = run[at][i]
    OBVIOUS
  <2>2. 0 \in 0 .. n /\ n \in 0 .. n /\ \A i \in 1 .. n : i \in 0 .. n /\ i - 1 \in 0 .. n
    OBVIOUS
  <2>3. /\ run[at][0] = Got(<< >>, at)
        /\ \A i \in 1 .. n : run[at][i] = Advance(readers[i], run[at][i - 1])
        /\ TakeEach(readers)[at] = run[at][n]
    BY <1>1 DEF Runs
  <2> HIDE DEF After
  <2> QED
    BY <2>1, <2>2, <2>3
<1> HIDE DEF After
<1>3. \A i \in 1 .. n : Images(puts[i])
  BY Zenon DEF Reads, AllRead
<1> DEFINE P == {i \in 0 .. n : Reads(w, After[i], EachPut(puts, i))}
<1>4. 0 \in P
  <2>1. EachPut(puts, 0) = [values \in {<< >>} |-> << >>]
    <3>1. Tuples(puts, 0) = {<< >>}
      <4>1. ASSUME NEW values \in Tuples(puts, 0)
            PROVE  values = << >>
        <5>1. values = [i \in 1 .. 0 |-> values[i]] /\ 1 .. 0 = {}
          BY DEF Tuples
        <5> QED
          BY <5>1
      <4>2. << >> \in Tuples(puts, 0)
        BY DEF Tuples
      <4> QED
        BY <4>1, <4>2
    <3>2. \A values : [i \in 1 .. 0 |-> puts[i][values[i]]] = << >>
      OBVIOUS
    <3>3. FlattenSeq(<< >>) = << >>
      BY DEF FlattenSeq
    <3> QED
      BY <3>1, <3>2, <3>3 DEF EachPut
  <2>2. ASSUME NEW at \in Places(w)
        PROVE  Holds(w, at, << >>) /\ at + Len(<< >>) = at
    BY DEF Places, Holds
  <2>3. Reads(w, After[0], EachPut(puts, 0))
    <3> DEFINE put == [values \in {<< >>} |-> << >>]
    <3>1. DOMAIN put = {<< >>} /\ put[<< >>] = << >> /\ << >> \in Seq(Octet)
      OBVIOUS
    <3> HIDE DEF put
    <3>2. Images(put)
      BY <3>1 DEF Images
    <3>3. ASSUME NEW at \in Places(w)
          PROVE  Sound(w, After[0][at], at, put) /\ Complete(w, After[0][at], at, put)
      <4>1. After[0][at] = Got(<< >>, at)
        BY <1>2
      <4> QED
        BY <2>2, <3>1, <4>1 DEF Sound, Complete
    <3>4. Reads(w, After[0], put)
      BY <3>2, <3>3 DEF Reads
    <3> QED
      BY <2>1, <3>4 DEF put
  <2> QED
    BY <2>3
<1>5. ASSUME NEW j \in P, j \in 0 .. (n - 1)
      PROVE  j + 1 \in P
  <2>1. PICK i \in 1 .. n : i = j + 1 /\ i - 1 = j
    BY <1>5
  <2> DEFINE choices == Tuples(puts, i - 1)
             first == EachPut(puts, i - 1)
             Rest == [values \in choices |-> [at \in Places(w) |-> Advance(readers[i], Got(values, at))]]
             rest == [values \in choices |->
                         [more \in {Append(values, x) : x \in DOMAIN puts[i]} |-> puts[i][more[i]]]]
             put == EachPut(puts, i)
  <2>2. Reads(w, After[i - 1], first)
    BY <2>1
  <2>3. Reads(w, readers[i], puts[i])
    BY Zenon DEF AllRead
  <2>4. /\ \A values \in choices : \A x \in DOMAIN puts[i] :
              /\ Append(values, x) \in Tuples(puts, i)
              /\ Append(values, x)[i] = x
              /\ put[Append(values, x)] = first[values] \o puts[i][x]
        /\ \A values \in Tuples(puts, i) :
              \E front \in choices, x \in DOMAIN puts[i] : values = Append(front, x)
    <3>1. i \in Nat \ {0} /\ \A k \in 1 .. i : k \in 1 .. n
      OBVIOUS
    <3>2. \A k \in 1 .. i : Images(puts[k])
      BY <1>3, <3>1
    <3>3. OneMore(puts, i)
      BY <3>1, <3>2, TuplesAppend
    <3> QED
      BY <3>3, Zenon DEF OneMore
  <2>5. DOMAIN put = Tuples(puts, i) /\ DOMAIN first = choices
    BY DEF EachPut
  <2>6. ASSUME NEW values \in choices
        PROVE  Reads(w, Rest[values], rest[values])
    <3> DEFINE convert == [x \in DOMAIN puts[i] |-> Append(values, x)]
    <3>1. Converts(w, Rest[values], readers[i], convert)
      <4> SUFFICES ASSUME NEW at \in Places(w)
                   PROVE  Advance(readers[i], Got(values, at)) =
                             IF readers[i][at] = << >> THEN << >>
                             ELSE IF readers[i][at][1].value \in DOMAIN convert
                             THEN Got(convert[readers[i][at][1].value], readers[i][at][1].next)
                             ELSE << >>
        BY DEF Converts
      <4>1. CASE readers[i][at] = << >>
        BY <4>1, AdvanceFacts
      <4>2. CASE readers[i][at] # << >>
        <5>1. PICK x \in DOMAIN puts[i] : readers[i][at] = Got(x, at + Len(puts[i][x]))
          BY <2>3, <4>2, ReadsAt
        <5>2. readers[i][at][1].value = x
          BY <5>1, GotFacts
        <5>3. Advance(readers[i], Got(values, at)) =
                 Got(Append(values, readers[i][at][1].value), readers[i][at][1].next)
          BY <4>2, AdvanceFacts
        <5>4. convert[x] = Append(values, x) /\ x \in DOMAIN convert
          OBVIOUS
        <5> HIDE DEF convert
        <5> QED
          BY <4>2, <5>2, <5>3, <5>4
      <4> QED
        BY <4>1, <4>2
    <3>2. SameImages(convert, puts[i], rest[values])
      <4>1. \A more \in {Append(values, x) : x \in DOMAIN puts[i]} :
               rest[values][more] = puts[i][more[i]]
        OBVIOUS
      <4>2. DOMAIN rest[values] = {Append(values, x) : x \in DOMAIN puts[i]}
        OBVIOUS
      <4>3. ASSUME NEW x \in DOMAIN convert
            PROVE  /\ x \in DOMAIN puts[i] /\ convert[x] \in DOMAIN rest[values]
                   /\ rest[values][convert[x]] = puts[i][x]
        <5>1. x \in DOMAIN puts[i] /\ convert[x] = Append(values, x)
          OBVIOUS
        <5>2. convert[x][i] = x
          BY <2>4, <5>1
        <5>3. convert[x] \in {Append(values, y) : y \in DOMAIN puts[i]}
          BY <5>1
        <5> HIDE DEF convert, rest
        <5> QED
          BY <4>1, <4>2, <5>1, <5>2, <5>3
      <4>4. \A more \in DOMAIN rest[values] : \E x \in DOMAIN convert : convert[x] = more
        BY <4>2
      <4> HIDE DEF convert, rest
      <4> QED
        BY <4>3, <4>4, Zenon DEF SameImages
    <3> HIDE DEF convert, Rest, rest
    <3> QED
      BY <2>3, <3>1, <3>2, ReadsConverted
  <2>7. Continues(w, After[i], After[i - 1], choices, Rest)
    <3> SUFFICES ASSUME NEW at \in Places(w)
                 PROVE  After[i][at] =
                           IF After[i - 1][at] = << >> THEN << >>
                           ELSE IF After[i - 1][at][1].value \in choices
                           THEN Rest[After[i - 1][at][1].value][After[i - 1][at][1].next]
                           ELSE << >>
      BY DEF Continues
    <3>1. After[i][at] = Advance(readers[i], After[i - 1][at])
      BY <1>2
    <3>2. CASE After[i - 1][at] = << >>
      BY <3>1, <3>2, AdvanceFacts
    <3>3. CASE After[i - 1][at] # << >>
      <4>1. PICK values \in DOMAIN first :
               /\ After[i - 1][at] = Got(values, at + Len(first[values]))
               /\ at + Len(first[values]) \in Places(w)
        <5> HIDE DEF first
        <5> QED
          BY <2>2, <3>3, ReadsAt
      <4>2. values \in choices
        BY <2>5
      <4>3. PICK from \in Places(w) : After[i - 1][at] = Got(values, from)
        BY <4>1
      <4>4. After[i - 1][at][1].value = values /\ After[i - 1][at][1].next = from
        BY <4>3, GotFacts
      <4>5. Rest[values][from] = Advance(readers[i], Got(values, from))
        BY <4>2
      <4> HIDE DEF Rest, choices
      <4> QED
        BY <3>1, <3>3, <4>2, <4>3, <4>4, <4>5
    <3> QED
      BY <3>2, <3>3
  <2>8. JoinedImages(choices, first, rest, put)
    <3>1. ASSUME NEW values \in choices
          PROVE  /\ DOMAIN rest[values] = {Append(values, x) : x \in DOMAIN puts[i]}
                 /\ \A more \in DOMAIN rest[values] : rest[values][more] = puts[i][more[i]]
      OBVIOUS
    <3> HIDE DEF rest, choices, first, put
    <3>2. ASSUME NEW values \in choices, NEW more \in DOMAIN rest[values]
          PROVE  more \in DOMAIN put /\ put[more] = first[values] \o rest[values][more]
      <4>1. PICK x \in DOMAIN puts[i] : more = Append(values, x)
        BY <3>1
      <4>2. more[i] = x /\ put[more] = first[values] \o puts[i][x] /\ more \in DOMAIN put
        BY <2>4, <2>5, <4>1, Zenon
      <4>3. rest[values][more] = puts[i][x]
        BY <3>1, <4>2
      <4> QED
        BY <4>2, <4>3, Zenon
    <3>3. ASSUME NEW more \in DOMAIN put
          PROVE  \E values \in choices : more \in DOMAIN rest[values]
      BY <2>4, <2>5, <3>1
    <3> QED
      BY <2>5, <3>2, <3>3, Zenon DEF JoinedImages
  <2>9. Reads(w, After[i], put)
    <3> HIDE DEF Rest, rest, choices, first, put
    <3> QED
      BY <2>2, <2>6, <2>7, <2>8, ReadsJoined
  <2> QED
    BY <1>5, <2>1, <2>9
<1>6. \A i \in 0 .. n : i \in P
  <2> HIDE DEF P
  <2> QED
    BY <1>4, <1>5, InductionUpTo
<1>7. Reads(w, After[n], EachPut(puts, n))
  BY <1>6
<1> QED
  BY <1>2, <1>7, Zenon DEF Reads

---------------------------------------------------------------------------
(* The methods of the reader.                                              *)

\* The values of each and their images.
Blocks(width) == {octets \in Seq(Octet) : Len(octets) = width}
BlockImage(width) == [octets \in Blocks(width) |-> octets]
NumberImage(width) == [n \in Numbers(width) |-> BigEndian(n, width)]
OctetImage == [x \in Octet |-> <<x>>]
EnumImage(values) == [x \in ToSet(values) |-> PutEnum(values, x)]
BoolImage == [b \in BOOLEAN |-> PutBool(b)]
BitsImage == [bits \in SUBSET (0 .. 7) |-> PutBits(bits)]

LEMMA TakeFacts ==
    ASSUME NEW w \in Seq(Octet), NEW at \in Places(w), NEW count \in Nat
    PROVE  /\ at + count > Len(w) + 1 => Take(w, at, count) = << >>
           /\ at + count <= Len(w) + 1 =>
                 \E octets \in Blocks(count) :
                    /\ Take(w, at, count) = Got(octets, at + count)
                    /\ Holds(w, at, octets)
           /\ \A octets \in Blocks(count) :
                 Holds(w, at, octets) => Take(w, at, count) = Got(octets, at + count)
<1>1. Len(w) \in Nat /\ at \in Nat \ {0} /\ at <= Len(w) + 1
  BY DEF Places
<1>2. at + count > Len(w) + 1 => Take(w, at, count) = << >>
  BY DEF Take
<1>3. ASSUME at + count <= Len(w) + 1
      PROVE  /\ SubSeq(w, at, at + count - 1) \in Blocks(count)
             /\ Take(w, at, count) = Got(SubSeq(w, at, at + count - 1), at + count)
             /\ \A i \in 1 .. count : SubSeq(w, at, at + count - 1)[i] = w[at + i - 1]
  <2>1. Take(w, at, count) = Got(SubSeq(w, at, at + count - 1), at + count)
    BY <1>1, <1>3 DEF Take
  <2>2. \A i \in at .. (at + count - 1) : i \in 1 .. Len(w) /\ w[i] \in Octet
    BY <1>1, <1>3
  <2>3. SubSeq(w, at, at + count - 1) \in Seq(Octet)
    BY <1>1, <1>3, <2>2, SubSeqProperties
  <2>4. Len(SubSeq(w, at, at + count - 1)) = count
    BY <1>1, <1>3, <2>2, SubSeqProperties
  <2>5. \A i \in 1 .. count : SubSeq(w, at, at + count - 1)[i] = w[at + i - 1]
    BY <1>1, <1>3, <2>2, SubSeqProperties
  <2> QED
    BY <2>1, <2>3, <2>4, <2>5 DEF Blocks
<1>4. ASSUME at + count <= Len(w) + 1
      PROVE  \E octets \in Blocks(count) :
                Take(w, at, count) = Got(octets, at + count) /\ Holds(w, at, octets)
  <2> DEFINE octets == SubSeq(w, at, at + count - 1)
  <2>1. Len(octets) = count
    BY <1>3, <1>4 DEF Blocks
  <2>2. Holds(w, at, octets)
    BY <1>3, <1>4, <2>1 DEF Holds
  <2> HIDE DEF octets
  <2> QED
    BY <1>3, <1>4, <2>2 DEF octets
<1>5. ASSUME NEW octets \in Blocks(count), Holds(w, at, octets)
      PROVE  Take(w, at, count) = Got(octets, at + count)
  <2>1. octets \in Seq(Octet) /\ Len(octets) = count
    BY DEF Blocks
  <2>2. at + count <= Len(w) + 1 /\ \A i \in 1 .. count : w[at + i - 1] = octets[i]
    BY <1>5, <2>1 DEF Holds
  <2>3. PICK part \in Blocks(count) :
           /\ Take(w, at, count) = Got(part, at + count)
           /\ \A i \in 1 .. count : part[i] = w[at + i - 1]
    BY <1>3, <2>2
  <2>4. part \in Seq(Octet) /\ Len(part) = count
    BY DEF Blocks
  <2>5. part = octets
    BY <2>1, <2>2, <2>3, <2>4
  <2> QED
    BY <2>3, <2>5
<1> QED
  BY <1>2, <1>4, <1>5

\* Reader::take reads so many octets.
LEMMA ReadsExactly ==
    ASSUME NEW w \in Seq(Octet), NEW width \in Nat
    PROVE  Reads(w, TakeExactly(w, width), BlockImage(width))
<1> DEFINE put == BlockImage(width)
<1>1. DOMAIN put = Blocks(width) /\ \A octets \in Blocks(width) : put[octets] = octets
  BY DEF BlockImage
<1>2. \A octets \in Blocks(width) : octets \in Seq(Octet) /\ Len(octets) = width
  BY DEF Blocks
<1> HIDE DEF put
<1>3. Images(put)
  BY <1>1, <1>2 DEF Images
<1>4. ASSUME NEW at \in Places(w)
      PROVE  /\ Sound(w, TakeExactly(w, width)[at], at, put)
             /\ Complete(w, TakeExactly(w, width)[at], at, put)
  <2>1. at \in Nat /\ TakeExactly(w, width)[at] = Take(w, at, width)
    BY DEF TakeExactly, Places, Positions
  <2>2. CASE at + width > Len(w) + 1
    <3>1. Take(w, at, width) = << >>
      BY <2>2, TakeFacts
    <3>2. ASSUME NEW octets \in Blocks(width)
          PROVE  ~Holds(w, at, octets)
      BY <1>2, <2>1, <2>2 DEF Holds
    <3> QED
      BY <1>1, <2>1, <3>1, <3>2 DEF Sound, Complete
  <2>3. CASE at + width <= Len(w) + 1
    <3>1. PICK octets \in Blocks(width) :
             Take(w, at, width) = Got(octets, at + width) /\ Holds(w, at, octets)
      BY <2>3, TakeFacts
    <3>2. Sound(w, Take(w, at, width), at, put)
      BY <1>1, <1>2, <3>1 DEF Sound
    <3>3. \A v \in Blocks(width) : Holds(w, at, v) => Take(w, at, width) = Got(v, at + width)
      BY TakeFacts
    <3>4. Complete(w, Take(w, at, width), at, put)
      BY <1>1, <1>2, <3>3 DEF Complete
    <3> QED
      BY <2>1, <3>2, <3>4
  <2> QED
    BY <2>1, <2>2, <2>3 DEF Places
<1> QED
  BY <1>3, <1>4 DEF put, Reads

\* A reader that lets through or converts what Then gives it.
LEMMA ThenFacts ==
    ASSUME NEW w \in Seq(Octet), NEW Raw, NEW raw, Reads(w, Raw, raw), NEW at \in Places(w),
           Raw[at] # << >>
    PROVE  Raw[at][1].value \in DOMAIN raw /\ Raw[at][1].next \in Places(w)
<1>1. PICK x \in DOMAIN raw : /\ Raw[at] = Got(x, at + Len(raw[x]))
                              /\ at + Len(raw[x]) \in Places(w)
  BY ReadsAt
<1>2. Raw[at][1].value = x /\ Raw[at][1].next = at + Len(raw[x])
  BY <1>1, GotFacts
<1> QED
  BY <1>1, <1>2

\* Reader::u16, u32, u64 and array.
LEMMA ReadsNumber ==
    ASSUME NEW w \in Seq(Octet), NEW width \in Nat
    PROVE  Reads(w, TakeNumber(w, width), NumberImage(width))
<1> DEFINE convert == [octets \in Blocks(width) |-> FromBigEndian(octets)]
           Raw == TakeExactly(w, width)
<1>1. Reads(w, Raw, BlockImage(width))
  BY ReadsExactly
<1>2. Converts(w, TakeNumber(w, width), Raw, convert)
  <2> SUFFICES ASSUME NEW at \in Places(w)
               PROVE  TakeNumber(w, width)[at] =
                         IF Raw[at] = << >> THEN << >>
                         ELSE IF Raw[at][1].value \in DOMAIN convert
                         THEN Got(convert[Raw[at][1].value], Raw[at][1].next)
                         ELSE << >>
    BY DEF Converts
  <2>1. at \in Positions
    BY DEF Places, Positions
  <2>2. Raw[at] = Take(w, at, width)
    BY <2>1 DEF TakeExactly
  <2>3. TakeNumber(w, width)[at] =
           IF Raw[at] = << >> THEN << >>
           ELSE Got(FromBigEndian(Raw[at][1].value), Raw[at][1].next)
    BY <2>1, <2>2 DEF TakeNumber, Then
  <2>4. Raw[at] # << >> => Raw[at][1].value \in DOMAIN BlockImage(width)
    BY <1>1, ThenFacts
  <2>5. DOMAIN convert = Blocks(width) /\ DOMAIN BlockImage(width) = Blocks(width)
    BY DEF BlockImage
  <2>6. \A octets \in Blocks(width) : convert[octets] = FromBigEndian(octets)
    OBVIOUS
  <2> HIDE DEF Raw, convert
  <2> QED
    BY <2>3, <2>4, <2>5, <2>6
<1>3. SameImages(convert, BlockImage(width), NumberImage(width))
  <2>1. ASSUME NEW octets \in Blocks(width)
        PROVE  /\ FromBigEndian(octets) \in Numbers(width)
               /\ BigEndian(FromBigEndian(octets), width) = octets
    BY OctetsThenNumber DEF Blocks
  <2>2. ASSUME NEW n \in Numbers(width)
        PROVE  BigEndian(n, width) \in Blocks(width) /\ FromBigEndian(BigEndian(n, width)) = n
    BY NumberThenOctets DEF Blocks
  <2> QED
    BY <2>1, <2>2 DEF SameImages, BlockImage, NumberImage
<1> QED
  <2> HIDE DEF convert, Raw
  <2> QED
    BY <1>1, <1>2, <1>3, ReadsConverted

\* Reader::u8.
LEMMA ReadsU8 ==
    ASSUME NEW w \in Seq(Octet)
    PROVE  Reads(w, TakeU8(w), OctetImage)
<1>1. DOMAIN OctetImage = Octet /\ \A x \in Octet : OctetImage[x] = <<x>>
  BY DEF OctetImage
<1>2. \A x \in Octet : <<x>> \in Seq(Octet) /\ Len(<<x>>) = 1 /\ <<x>>[1] = x
  OBVIOUS
<1>3. Images(OctetImage)
  BY <1>1, <1>2 DEF Images
<1>4. ASSUME NEW at \in Places(w)
      PROVE  /\ Sound(w, TakeU8(w)[at], at, OctetImage)
             /\ Complete(w, TakeU8(w)[at], at, OctetImage)
  <2>1. at \in Nat \ {0} /\ at <= Len(w) + 1 /\ Len(w) \in Nat
    BY DEF Places
  <2>2. TakeU8(w)[at] = IF at > Len(w) THEN << >> ELSE Got(w[at], at + 1)
    BY <2>1 DEF TakeU8, Positions
  <2>3. \A x \in Octet : Holds(w, at, <<x>>) <=> at <= Len(w) /\ w[at] = x
    <3> SUFFICES ASSUME NEW x \in Octet
                 PROVE  Holds(w, at, <<x>>) <=> at <= Len(w) /\ w[at] = x
      OBVIOUS
    <3>1. at + 1 - 1 = at /\ (at + 1 <= Len(w) + 1 <=> at <= Len(w))
      BY <2>1
    <3>2. Len(<<x>>) = 1 /\ <<x>>[1] = x /\ 1 .. 1 = {1}
      OBVIOUS
    <3> QED
      BY <3>1, <3>2 DEF Holds
  <2>4. at <= Len(w) => w[at] \in Octet
    BY <2>1
  <2>5. ~(at > Len(w)) <=> at <= Len(w)
    BY <2>1
  <2>6. CASE at <= Len(w)
    <3>1. TakeU8(w)[at] = Got(w[at], at + 1)
      BY <2>2, <2>5, <2>6
    <3> QED
      BY <1>1, <1>2, <2>3, <2>4, <2>6, <3>1 DEF Sound, Complete
  <2>7. CASE ~(at <= Len(w))
    <3>1. TakeU8(w)[at] = << >>
      BY <2>2, <2>5, <2>7
    <3> QED
      BY <1>1, <1>2, <2>3, <2>7, <3>1 DEF Sound, Complete
  <2> QED
    BY <2>6, <2>7
<1> QED
  BY <1>3, <1>4 DEF Reads

\* A reader of one octet that stands for a value.
LEMMA ReadsOctetAs ==
    ASSUME NEW w \in Seq(Octet), NEW Reader, NEW convert, NEW put,
           Converts(w, Reader, TakeU8(w), convert), SameImages(convert, OctetImage, put)
    PROVE  Reads(w, Reader, put)
BY ReadsU8, ReadsConverted

\* An enumerated value of at most 256.
Enumeration(values, n) ==
    /\ n \in 1 .. 256
    /\ Len(values) = n
    /\ DOMAIN values = 1 .. n
    /\ \A i, j \in 1 .. n : values[i] = values[j] => i = j

\* The position a value has in it.
LEMMA EnumPosition ==
    ASSUME NEW values, NEW n, Enumeration(values, n), NEW i \in 1 .. n
    PROVE  PutEnum(values, values[i]) = <<i - 1>>
<1>1. (CHOOSE j \in DOMAIN values : values[j] = values[i]) = i
  BY DEF Enumeration
<1> QED
  BY <1>1 DEF PutEnum

LEMMA ReadsEnum ==
    ASSUME NEW w \in Seq(Octet), NEW values, NEW n, Enumeration(values, n)
    PROVE  Reads(w, TakeEnum(w, values), EnumImage(values))
<1> DEFINE convert == [x \in 0 .. (n - 1) |-> values[x + 1]]
<1>1. n \in 1 .. 256 /\ Len(values) = n /\ DOMAIN values = 1 .. n
  BY DEF Enumeration
<1>2. DOMAIN convert = 0 .. (n - 1) /\ \A x \in 0 .. (n - 1) : convert[x] = values[x + 1]
  OBVIOUS
<1>3. \A x \in 0 .. (n - 1) : x \in Octet
  BY <1>1 DEF Octet
<1>4. \A x \in Octet : x < n <=> x \in 0 .. (n - 1)
  BY <1>1 DEF Octet
<1> HIDE DEF convert
<1>5. Converts(w, TakeEnum(w, values), TakeU8(w), convert)
  <2> SUFFICES ASSUME NEW at \in Places(w)
               PROVE  TakeEnum(w, values)[at] =
                         IF TakeU8(w)[at] = << >> THEN << >>
                         ELSE IF TakeU8(w)[at][1].value \in DOMAIN convert
                         THEN Got(convert[TakeU8(w)[at][1].value], TakeU8(w)[at][1].next)
                         ELSE << >>
    BY DEF Converts
  <2>1. at \in Positions
    BY DEF Places, Positions
  <2>2. TakeEnum(w, values)[at] =
           IF TakeU8(w)[at] = << >> THEN << >>
           ELSE IF TakeU8(w)[at][1].value < n
           THEN Got(values[TakeU8(w)[at][1].value + 1], TakeU8(w)[at][1].next)
           ELSE << >>
    BY <1>1, <2>1 DEF TakeEnum, Then
  <2>3. TakeU8(w)[at] # << >> => TakeU8(w)[at][1].value \in Octet
    <3>1. DOMAIN OctetImage = Octet
      BY DEF OctetImage
    <3> QED
      BY <3>1, ReadsU8, ThenFacts
  <2> QED
    BY <1>2, <1>4, <2>2, <2>3
<1>6. SameImages(convert, OctetImage, EnumImage(values))
  <2>1. ASSUME NEW x \in 0 .. (n - 1)
        PROVE  /\ x \in Octet /\ convert[x] = values[x + 1]
               /\ values[x + 1] \in ToSet(values)
               /\ PutEnum(values, values[x + 1]) = <<x>>
    <3>1. PICK i \in 1 .. n : i = x + 1 /\ i - 1 = x
      BY <1>1
    <3>2. PutEnum(values, values[i]) = <<i - 1>>
      BY EnumPosition
    <3>3. values[i] \in ToSet(values)
      BY <1>1 DEF ToSet
    <3> QED
      BY <1>2, <1>3, <3>1, <3>2, <3>3
  <2>2. ASSUME NEW v \in ToSet(values)
        PROVE  \E x \in 0 .. (n - 1) : convert[x] = v
    <3>1. PICK i \in 1 .. n : values[i] = v
      BY <1>1 DEF ToSet
    <3>2. i - 1 \in 0 .. (n - 1) /\ (i - 1) + 1 = i
      BY <1>1
    <3> QED
      BY <1>2, <3>1, <3>2
  <2> QED
    BY <1>2, <2>1, <2>2 DEF SameImages, OctetImage, EnumImage
<1> QED
  BY <1>5, <1>6, ReadsOctetAs

\* Reader::boolean.
LEMMA ReadsBool ==
    ASSUME NEW w \in Seq(Octet)
    PROVE  Reads(w, TakeBool(w), BoolImage)
<1> DEFINE values == <<FALSE, TRUE>>
<1>1. Enumeration(values, 2)
  BY DEF Enumeration
<1>2. EnumImage(values) = BoolImage
  <2>2. values[1] = FALSE /\ values[2] = TRUE /\ DOMAIN values = {1, 2}
    OBVIOUS
  <2>1. ToSet(values) = BOOLEAN
    <3> HIDE DEF values
    <3>1. ToSet(values) = {values[i] : i \in {1, 2}}
      BY <2>2 DEF ToSet
    <3>2. {values[i] : i \in {1, 2}} = {values[1], values[2]}
      OBVIOUS
    <3>3. BOOLEAN = {FALSE, TRUE}
      OBVIOUS
    <3> QED
      BY <2>2, <3>1, <3>2, <3>3
  <2>3. PutEnum(values, values[1]) = <<1 - 1>> /\ PutEnum(values, values[2]) = <<2 - 1>>
    <3>1. 1 \in 1 .. 2 /\ 2 \in 1 .. 2
      OBVIOUS
    <3> HIDE DEF values
    <3> QED
      BY <1>1, <3>1, EnumPosition
  <2>4. PutEnum(values, FALSE) = PutBool(FALSE) /\ PutEnum(values, TRUE) = PutBool(TRUE)
    <3>1. PutBool(FALSE) = <<0>> /\ PutBool(TRUE) = <<1>>
      BY DEF PutBool
    <3>2. 1 - 1 = 0 /\ 2 - 1 = 1
      OBVIOUS
    <3> HIDE DEF values
    <3> QED
      BY <2>2, <2>3, <3>1, <3>2
  <2>5. \A b \in BOOLEAN : PutEnum(values, b) = PutBool(b)
    <3> HIDE DEF values
    <3> QED
      BY <2>4, Zenon
  <2> HIDE DEF values
  <2> QED
    BY <2>1, <2>5 DEF EnumImage, BoolImage
<1> HIDE DEF values
<1>3. Reads(w, TakeEnum(w, values), EnumImage(values))
  BY <1>1, ReadsEnum
<1> QED
  BY <1>2, <1>3 DEF TakeBool, values

\* An octet is the sum of its bits.
LEMMA BitsOfOctet ==
    ASSUME NEW x \in Octet
    PROVE  /\ \A k \in {1, 2, 4, 8, 16, 32, 64, 128} : (x \div k) % 2 \in {0, 1}
           /\ x = ((x \div 1) % 2) + 2 * ((x \div 2) % 2) + 4 * ((x \div 4) % 2)
                    + 8 * ((x \div 8) % 2) + 16 * ((x \div 16) % 2) + 32 * ((x \div 32) % 2)
                    + 64 * ((x \div 64) % 2) + 128 * ((x \div 128) % 2)
BY DEF Octet

LEMMA OctetOfBits ==
    ASSUME NEW b0 \in {0, 1}, NEW b1 \in {0, 1}, NEW b2 \in {0, 1}, NEW b3 \in {0, 1},
           NEW b4 \in {0, 1}, NEW b5 \in {0, 1}, NEW b6 \in {0, 1}, NEW b7 \in {0, 1},
           NEW x, x = b0 + 2 * b1 + 4 * b2 + 8 * b3 + 16 * b4 + 32 * b5 + 64 * b6 + 128 * b7
    PROVE  /\ x \in Octet
           /\ (x \div 1) % 2 = b0 /\ (x \div 2) % 2 = b1 /\ (x \div 4) % 2 = b2
           /\ (x \div 8) % 2 = b3 /\ (x \div 16) % 2 = b4 /\ (x \div 32) % 2 = b5
           /\ (x \div 64) % 2 = b6 /\ (x \div 128) % 2 = b7
BY DEF Octet

BitsAt(x) == {bit \in 0 .. 7 : (x \div BitValue[bit + 1]) % 2 = 1}

LEMMA BitsAtFacts ==
    ASSUME NEW x \in Octet
    PROVE  /\ 0 \in BitsAt(x) <=> (x \div 1) % 2 = 1
           /\ 1 \in BitsAt(x) <=> (x \div 2) % 2 = 1
           /\ 2 \in BitsAt(x) <=> (x \div 4) % 2 = 1
           /\ 3 \in BitsAt(x) <=> (x \div 8) % 2 = 1
           /\ 4 \in BitsAt(x) <=> (x \div 16) % 2 = 1
           /\ 5 \in BitsAt(x) <=> (x \div 32) % 2 = 1
           /\ 6 \in BitsAt(x) <=> (x \div 64) % 2 = 1
           /\ 7 \in BitsAt(x) <=> (x \div 128) % 2 = 1
<1>1. /\ BitValue[0 + 1] = 1 /\ BitValue[1 + 1] = 2 /\ BitValue[2 + 1] = 4
      /\ BitValue[3 + 1] = 8 /\ BitValue[4 + 1] = 16 /\ BitValue[5 + 1] = 32
      /\ BitValue[6 + 1] = 64 /\ BitValue[7 + 1] = 128
  BY DEF BitValue
<1>2. \A bit : bit \in BitsAt(x) <=> bit \in 0 .. 7 /\ (x \div BitValue[bit + 1]) % 2 = 1
  BY DEF BitsAt
<1>3. {0, 1, 2, 3, 4, 5, 6, 7} \subseteq 0 .. 7
  OBVIOUS
<1> QED
  BY <1>1, <1>2, <1>3

\* The octet of a bit set, by its eight bits.
HasBits(bits, b0, b1, b2, b3, b4, b5, b6, b7) ==
    /\ {b0, b1, b2, b3, b4, b5, b6, b7} \subseteq {0, 1}
    /\ (0 \in bits <=> b0 = 1) /\ (1 \in bits <=> b1 = 1) /\ (2 \in bits <=> b2 = 1)
    /\ (3 \in bits <=> b3 = 1) /\ (4 \in bits <=> b4 = 1) /\ (5 \in bits <=> b5 = 1)
    /\ (6 \in bits <=> b6 = 1) /\ (7 \in bits <=> b7 = 1)

LEMMA PutBitsFacts ==
    ASSUME NEW bits, NEW b0, NEW b1, NEW b2, NEW b3, NEW b4, NEW b5, NEW b6, NEW b7,
           HasBits(bits, b0, b1, b2, b3, b4, b5, b6, b7)
    PROVE  PutBits(bits) = << b0 + 2 * b1 + 4 * b2 + 8 * b3
                                + 16 * b4 + 32 * b5 + 64 * b6 + 128 * b7 >>
<1> DEFINE B(i) == IF i \in bits THEN 1 ELSE 0
<1>1. B(0) = b0 /\ B(1) = b1 /\ B(2) = b2 /\ B(3) = b3
      /\ B(4) = b4 /\ B(5) = b5 /\ B(6) = b6 /\ B(7) = b7
  BY DEF HasBits
<1>2. PutBits(bits) = << B(0) + 2 * B(1) + 4 * B(2) + 8 * B(3)
                           + 16 * B(4) + 32 * B(5) + 64 * B(6) + 128 * B(7) >>
  BY DEF PutBits
<1> HIDE DEF B
<1> QED
  BY <1>1, <1>2

LEMMA BitsThenOctet ==
    ASSUME NEW bits \in SUBSET (0 .. 7)
    PROVE  \E x \in Octet : BitsAt(x) = bits
<1> DEFINE B(i) == IF i \in bits THEN 1 ELSE 0
<1>1. /\ B(0) \in {0, 1} /\ B(1) \in {0, 1} /\ B(2) \in {0, 1} /\ B(3) \in {0, 1}
      /\ B(4) \in {0, 1} /\ B(5) \in {0, 1} /\ B(6) \in {0, 1} /\ B(7) \in {0, 1}
  OBVIOUS
<1>2. PICK b0 \in {0, 1}, b1 \in {0, 1}, b2 \in {0, 1}, b3 \in {0, 1},
           b4 \in {0, 1}, b5 \in {0, 1}, b6 \in {0, 1}, b7 \in {0, 1} :
              /\ B(0) = b0 /\ B(1) = b1 /\ B(2) = b2 /\ B(3) = b3
              /\ B(4) = b4 /\ B(5) = b5 /\ B(6) = b6 /\ B(7) = b7
  <2> HIDE DEF B
  <2> QED
    BY <1>1
<1> DEFINE x == b0 + 2 * b1 + 4 * b2 + 8 * b3 + 16 * b4 + 32 * b5 + 64 * b6 + 128 * b7
<1>3. /\ x \in Octet
      /\ (x \div 1) % 2 = b0 /\ (x \div 2) % 2 = b1 /\ (x \div 4) % 2 = b2
      /\ (x \div 8) % 2 = b3 /\ (x \div 16) % 2 = b4 /\ (x \div 32) % 2 = b5
      /\ (x \div 64) % 2 = b6 /\ (x \div 128) % 2 = b7
  BY OctetOfBits
<1> HIDE DEF x
<1>4. \A i : B(i) = 1 <=> i \in bits
  OBVIOUS
<1>5. \A i \in 0 .. 7 : i \in BitsAt(x) <=> i \in bits
  <2> HIDE DEF B
  <2> QED
    BY <1>2, <1>3, <1>4, BitsAtFacts
<1>6. BitsAt(x) \subseteq 0 .. 7
  BY DEF BitsAt
<1>7. BitsAt(x) = bits
  BY <1>5, <1>6
<1> QED
  BY <1>3, <1>7

LEMMA OctetThenBits ==
    ASSUME NEW x \in Octet
    PROVE  BitsAt(x) \in SUBSET (0 .. 7) /\ PutBits(BitsAt(x)) = <<x>>
<1> DEFINE Q(k) == (x \div k) % 2
<1>1. /\ Q(1) \in {0, 1} /\ Q(2) \in {0, 1} /\ Q(4) \in {0, 1} /\ Q(8) \in {0, 1}
      /\ Q(16) \in {0, 1} /\ Q(32) \in {0, 1} /\ Q(64) \in {0, 1} /\ Q(128) \in {0, 1}
      /\ x = Q(1) + 2 * Q(2) + 4 * Q(4) + 8 * Q(8)
               + 16 * Q(16) + 32 * Q(32) + 64 * Q(64) + 128 * Q(128)
  BY BitsOfOctet
<1>2. HasBits(BitsAt(x), Q(1), Q(2), Q(4), Q(8), Q(16), Q(32), Q(64), Q(128))
  <2>1. {Q(1), Q(2), Q(4), Q(8), Q(16), Q(32), Q(64), Q(128)} \subseteq {0, 1}
    <3> HIDE DEF Q
    <3> QED
      BY <1>1
  <2> QED
    BY <2>1, BitsAtFacts DEF HasBits
<1>3. PutBits(BitsAt(x)) = << Q(1) + 2 * Q(2) + 4 * Q(4) + 8 * Q(8)
                                + 16 * Q(16) + 32 * Q(32) + 64 * Q(64) + 128 * Q(128) >>
  BY <1>2, PutBitsFacts
<1>4. PutBits(BitsAt(x)) = <<x>>
  <2> HIDE DEF Q
  <2> QED
    BY <1>1, <1>3
<1> QED
  BY <1>4 DEF BitsAt

\* The octet of receipt levels.
LEMMA ReadsBits ==
    ASSUME NEW w \in Seq(Octet)
    PROVE  Reads(w, TakeBits(w), BitsImage)
<1> DEFINE convert == [x \in Octet |-> BitsAt(x)]
<1>1. Converts(w, TakeBits(w), TakeU8(w), convert)
  <2> SUFFICES ASSUME NEW at \in Places(w)
               PROVE  TakeBits(w)[at] =
                         IF TakeU8(w)[at] = << >> THEN << >>
                         ELSE IF TakeU8(w)[at][1].value \in DOMAIN convert
                         THEN Got(convert[TakeU8(w)[at][1].value], TakeU8(w)[at][1].next)
                         ELSE << >>
    BY DEF Converts
  <2>1. at \in Positions
    BY DEF Places, Positions
  <2>2. TakeBits(w)[at] =
           IF TakeU8(w)[at] = << >> THEN << >>
           ELSE Got(BitsAt(TakeU8(w)[at][1].value), TakeU8(w)[at][1].next)
    BY <2>1 DEF TakeBits, Then, BitsAt
  <2>3. TakeU8(w)[at] # << >> => TakeU8(w)[at][1].value \in Octet
    <3>1. DOMAIN OctetImage = Octet
      BY DEF OctetImage
    <3> QED
      BY <3>1, ReadsU8, ThenFacts
  <2>4. DOMAIN convert = Octet /\ \A x \in Octet : convert[x] = BitsAt(x)
    OBVIOUS
  <2> HIDE DEF convert
  <2> QED
    BY <2>2, <2>3, <2>4
<1>2. SameImages(convert, OctetImage, BitsImage)
  <2> DEFINE Sets == SUBSET (0 .. 7)
  <2>1. \A x \in Octet : BitsAt(x) \in Sets /\ PutBits(BitsAt(x)) = <<x>>
    BY OctetThenBits
  <2>2. \A bits \in Sets : \E x \in Octet : BitsAt(x) = bits
    BY BitsThenOctet
  <2>3. DOMAIN convert = Octet /\ \A x \in Octet : convert[x] = BitsAt(x)
    OBVIOUS
  <2>4. DOMAIN OctetImage = Octet /\ \A x \in Octet : OctetImage[x] = <<x>>
    BY DEF OctetImage
  <2>5. /\ DOMAIN BitsImage = Sets
        /\ \A bits \in Sets : BitsImage[bits] = PutBits(bits)
    BY DEF BitsImage
  <2> HIDE DEF convert, Sets
  <2>6. ASSUME NEW x \in DOMAIN convert
        PROVE  /\ x \in DOMAIN OctetImage /\ convert[x] \in DOMAIN BitsImage
               /\ BitsImage[convert[x]] = OctetImage[x]
    BY <2>1, <2>3, <2>4, <2>5
  <2>7. ASSUME NEW bits \in DOMAIN BitsImage
        PROVE  \E x \in DOMAIN convert : convert[x] = bits
    <3>1. PICK x \in Octet : BitsAt(x) = bits
      BY <2>2, <2>5
    <3> QED
      BY <2>3, <3>1
  <2> QED
    BY <2>6, <2>7, Zenon DEF SameImages
<1> QED
  <2> HIDE DEF convert
  <2> QED
    BY <1>1, <1>2, ReadsOctetAs

\* What a reader that goes on with what Then gives it is given.
LEMMA ThenPlace ==
    ASSUME NEW w \in Seq(Octet), NEW at \in Places(w)
    PROVE  at \in Positions
BY DEF Places, Positions

\* Only the values that are accepted.
Accepted(put, accepted) == [v \in {v \in DOMAIN put : v \in accepted} |-> put[v]]

LEMMA ReadsChecked ==
    ASSUME NEW w \in Seq(Octet), NEW Reader, NEW put, Reads(w, Reader, put), NEW accepted
    PROVE  Reads(w, Checked(Reader, accepted), Accepted(put, accepted))
<1> DEFINE kept == {v \in DOMAIN put : v \in accepted}
           convert == [v \in kept |-> v]
<1>1. DOMAIN convert = kept /\ \A v \in kept : convert[v] = v
  OBVIOUS
<1>2. DOMAIN Accepted(put, accepted) = kept /\ \A v \in kept : Accepted(put, accepted)[v] = put[v]
  BY DEF Accepted
<1>3. \A v : v \in kept <=> v \in DOMAIN put /\ v \in accepted
  OBVIOUS
<1> HIDE DEF kept, convert
<1>4. Converts(w, Checked(Reader, accepted), Reader, convert)
  <2> SUFFICES ASSUME NEW at \in Places(w)
               PROVE  Checked(Reader, accepted)[at] =
                         IF Reader[at] = << >> THEN << >>
                         ELSE IF Reader[at][1].value \in DOMAIN convert
                         THEN Got(convert[Reader[at][1].value], Reader[at][1].next)
                         ELSE << >>
    BY DEF Converts
  <2>1. Checked(Reader, accepted)[at] =
           IF Reader[at] = << >> THEN << >>
           ELSE IF Reader[at][1].value \in accepted
           THEN Got(Reader[at][1].value, Reader[at][1].next)
           ELSE << >>
    BY ThenPlace DEF Checked, Then
  <2>2. Reader[at] # << >> => Reader[at][1].value \in DOMAIN put
    BY ThenFacts
  <2> QED
    BY <1>1, <1>3, <2>1, <2>2
<1>5. SameImages(convert, put, Accepted(put, accepted))
  BY <1>1, <1>2, <1>3 DEF SameImages
<1> QED
  BY <1>4, <1>5, ReadsConverted

\* A length and as many octets: Reader::octets.
OctetsOf(length, maximum) ==
    {octets \in Seq(Octet) : Len(octets) \in DOMAIN length /\ Len(octets) <= maximum}

OctetsImage(length, maximum) ==
    [octets \in OctetsOf(length, maximum) |-> length[Len(octets)] \o octets]

LEMMA ReadsOctets ==
    ASSUME NEW w \in Seq(Octet), NEW Length, NEW length, Reads(w, Length, length),
           DOMAIN length \subseteq Nat, NEW maximum \in Nat
    PROVE  Reads(w, TakeOctets(w, Length, maximum), OctetsImage(length, maximum))
<1> DEFINE choices == {count \in DOMAIN length : count <= maximum}
           Rest == [count \in choices |-> TakeExactly(w, count)]
           rest == [count \in choices |-> BlockImage(count)]
           put == OctetsImage(length, maximum)
<1>1. \A count : count \in choices <=> count \in DOMAIN length /\ count <= maximum
  OBVIOUS
<1>2. \A count \in choices : count \in Nat
  OBVIOUS
<1>3. \A count \in choices : Rest[count] = TakeExactly(w, count) /\ rest[count] = BlockImage(count)
  OBVIOUS
<1>4. /\ DOMAIN put = OctetsOf(length, maximum)
      /\ \A octets \in OctetsOf(length, maximum) : put[octets] = length[Len(octets)] \o octets
  BY DEF OctetsImage
<1> HIDE DEF choices, Rest, rest, put
<1>5. ASSUME NEW count \in choices
      PROVE  Reads(w, Rest[count], rest[count])
  BY <1>2, <1>3, ReadsExactly
<1>6. Continues(w, TakeOctets(w, Length, maximum), Length, choices, Rest)
  <2> SUFFICES ASSUME NEW at \in Places(w)
               PROVE  TakeOctets(w, Length, maximum)[at] =
                         IF Length[at] = << >> THEN << >>
                         ELSE IF Length[at][1].value \in choices
                         THEN Rest[Length[at][1].value][Length[at][1].next]
                         ELSE << >>
    BY DEF Continues
  <2>1. TakeOctets(w, Length, maximum)[at] =
           IF Length[at] = << >> THEN << >>
           ELSE IF Length[at][1].value > maximum THEN << >>
           ELSE Take(w, Length[at][1].next, Length[at][1].value)
    BY ThenPlace DEF TakeOctets, Then
  <2>2. Length[at] # << >> =>
           Length[at][1].value \in DOMAIN length /\ Length[at][1].next \in Places(w)
    BY ThenFacts
  <2>3. \A count \in DOMAIN length : ~(count > maximum) <=> count \in choices
    <3>1. ASSUME NEW count \in DOMAIN length
          PROVE  ~(count > maximum) <=> count <= maximum
      <4>1. count \in Nat
        OBVIOUS
      <4> QED
        BY <4>1
    <3> QED
      BY <1>1, <3>1
  <2>4. \A count \in choices : \A from \in Places(w) : Rest[count][from] = Take(w, from, count)
    BY <1>3, ThenPlace DEF TakeExactly
  <2> QED
    BY <2>1, <2>2, <2>3, <2>4
<1>7. JoinedImages(choices, length, rest, put)
  <2>1. \A count \in choices : count \in DOMAIN length
    BY <1>1
  <2>2. ASSUME NEW count \in choices
        PROVE  /\ DOMAIN rest[count] = Blocks(count)
               /\ \A octets \in Blocks(count) : rest[count][octets] = octets
    BY <1>3 DEF BlockImage
  <2>3. ASSUME NEW count \in choices, NEW octets \in DOMAIN rest[count]
        PROVE  octets \in DOMAIN put /\ put[octets] = length[count] \o rest[count][octets]
    <3>1. octets \in Seq(Octet) /\ Len(octets) = count
      BY <2>2 DEF Blocks
    <3> QED
      BY <1>1, <1>4, <2>2, <3>1 DEF OctetsOf
  <2>4. ASSUME NEW octets \in DOMAIN put
        PROVE  \E count \in choices : octets \in DOMAIN rest[count]
    BY <1>1, <1>4, <2>2 DEF OctetsOf, Blocks
  <2> QED
    BY <2>1, <2>3, <2>4, Zenon DEF JoinedImages
<1> QED
  BY <1>5, <1>6, <1>7, ReadsJoined DEF put

\* A count and as many values: Reader::bounded_count and the loop after it.
ListsOf(put, counts) == {list \in Seq(DOMAIN put) : Len(list) \in counts}

ListBytes(put, list) == <<Len(list)>> \o FlattenSeq([i \in DOMAIN list |-> put[list[i]]])

ListImage(put, counts) == [list \in ListsOf(put, counts) |-> ListBytes(put, list)]

LEMMA ReadsList ==
    ASSUME NEW w \in Seq(Octet), NEW Reader, NEW put, Reads(w, Reader, put),
           NEW counts \in SUBSET Octet
    PROVE  Reads(w, TakeList(w, Reader, counts), ListImage(put, counts))
<1> DEFINE readers(count) == [i \in 1 .. count |-> Reader]
           puts(count) == [i \in 1 .. count |-> put]
           Rest == [count \in counts |-> TakeEach(readers(count))]
           rest == [count \in counts |-> EachPut(puts(count), count)]
           lists == ListImage(put, counts)
<1>1. \A count \in counts : count \in Nat /\ count \in Octet
  BY DEF Octet
<1>2. ASSUME NEW count \in counts
      PROVE  Rest[count] = TakeEach(readers(count)) /\ rest[count] = EachPut(puts(count), count)
  OBVIOUS
<1>3. /\ DOMAIN lists = ListsOf(put, counts)
      /\ \A list \in ListsOf(put, counts) :
            lists[list] = <<Len(list)>> \o FlattenSeq([i \in DOMAIN list |-> put[list[i]]])
  BY DEF ListImage, ListBytes
<1> HIDE DEF Rest, rest, lists
<1>4. ASSUME NEW count \in counts
      PROVE  Reads(w, Rest[count], rest[count])
  <2>1. Len(readers(count)) = count
    BY <1>1
  <2>2. \A i \in 1 .. count : readers(count)[i] = Reader /\ puts(count)[i] = put
    OBVIOUS
  <2> HIDE DEF readers, puts
  <2>3. AllRead(w, count, readers(count), puts(count))
    BY <2>2 DEF AllRead
  <2>4. Reads(w, TakeEach(readers(count)), EachPut(puts(count), count))
    BY <1>1, <2>1, <2>3, ReadsEach
  <2> QED
    BY <1>2, <2>4
<1>5. Continues(w, TakeList(w, Reader, counts), TakeU8(w), counts, Rest)
  <2> SUFFICES ASSUME NEW at \in Places(w)
               PROVE  TakeList(w, Reader, counts)[at] =
                         IF TakeU8(w)[at] = << >> THEN << >>
                         ELSE IF TakeU8(w)[at][1].value \in counts
                         THEN Rest[TakeU8(w)[at][1].value][TakeU8(w)[at][1].next]
                         ELSE << >>
    BY DEF Continues
  <2>1. TakeList(w, Reader, counts)[at] =
           IF TakeU8(w)[at] = << >> THEN << >>
           ELSE IF TakeU8(w)[at][1].value \in counts
           THEN TakeEach(readers(TakeU8(w)[at][1].value))[TakeU8(w)[at][1].next]
           ELSE << >>
    BY ThenPlace DEF TakeList, Then
  <2> HIDE DEF readers
  <2> QED
    BY <1>2, <2>1
<1>6. JoinedImages(counts, OctetImage, rest, lists)
  <2>1. \A count \in counts : count \in DOMAIN OctetImage /\ OctetImage[count] = <<count>>
    BY <1>1 DEF OctetImage
  <2>2. ASSUME NEW count \in counts
        PROVE  /\ DOMAIN rest[count] = Tuples(puts(count), count)
               /\ \A list \in Tuples(puts(count), count) :
                     rest[count][list] = FlattenSeq([i \in 1 .. count |-> puts(count)[i][list[i]]])
    BY <1>2 DEF EachPut
  <2>3. ASSUME NEW count \in counts, NEW list
        PROVE  list \in Tuples(puts(count), count) <=> list \in Seq(DOMAIN put) /\ Len(list) = count
    <3>1. count \in Nat
      BY <1>1
    <3>2. \A i \in 1 .. count : puts(count)[i] = put
      OBVIOUS
    <3> HIDE DEF puts
    <3>3. ASSUME list \in Tuples(puts(count), count)
          PROVE  list \in Seq(DOMAIN put) /\ Len(list) = count
      <4>1. list \in [1 .. count -> UNION {DOMAIN puts(count)[i] : i \in 1 .. count}]
        BY <3>3 DEF Tuples
      <4>2. \A i \in 1 .. count : list[i] \in DOMAIN put
        BY <3>2, <3>3 DEF Tuples
      <4>3. list = [i \in 1 .. count |-> list[i]]
        BY <4>1
      <4>4. list \in [1 .. count -> DOMAIN put]
        BY <4>2, <4>3
      <4> QED
        BY <3>1, <4>4
    <3>4. ASSUME list \in Seq(DOMAIN put), Len(list) = count
          PROVE  list \in Tuples(puts(count), count)
      <4>1. \A i \in 1 .. count : list[i] \in DOMAIN put
        BY <3>4
      <4>2. list = [i \in 1 .. count |-> list[i]]
        BY <3>4
      <4>3. \A i \in 1 .. count : list[i] \in UNION {DOMAIN puts(count)[j] : j \in 1 .. count}
        BY <3>2, <4>1
      <4>4. list \in [1 .. count -> UNION {DOMAIN puts(count)[i] : i \in 1 .. count}]
        BY <4>2, <4>3
      <4> QED
        BY <3>2, <4>1, <4>4 DEF Tuples
    <3> QED
      BY <3>3, <3>4
  <2>6. ASSUME NEW count \in counts, NEW list
        PROVE  list \in DOMAIN rest[count] <=> list \in Seq(DOMAIN put) /\ Len(list) = count
    <3> HIDE DEF puts
    <3> QED
      BY <2>2, <2>3
  <2>4. ASSUME NEW count \in counts, NEW list \in DOMAIN rest[count]
        PROVE  list \in DOMAIN lists /\ lists[list] = OctetImage[count] \o rest[count][list]
    <3>1. list \in Seq(DOMAIN put) /\ Len(list) = count /\ DOMAIN list = 1 .. count
      BY <2>6
    <3>2. [i \in 1 .. count |-> puts(count)[i][list[i]]] = [i \in DOMAIN list |-> put[list[i]]]
      BY <3>1
    <3> HIDE DEF puts
    <3>3. rest[count][list] = FlattenSeq([i \in DOMAIN list |-> put[list[i]]])
      <4>1. list \in Tuples(puts(count), count)
        BY <2>2, Zenon
      <4>2. rest[count][list] = FlattenSeq([i \in 1 .. count |-> puts(count)[i][list[i]]])
        BY <2>2, <4>1, Zenon
      <4> QED
        BY <3>2, <4>2, Zenon
    <3>4. list \in ListsOf(put, counts)
      BY <3>1 DEF ListsOf
    <3> QED
      BY <1>3, <2>1, <3>1, <3>3, <3>4
  <2>5. ASSUME NEW list \in DOMAIN lists
        PROVE  \E count \in counts : list \in DOMAIN rest[count]
    BY <1>3, <2>6 DEF ListsOf
  <2> QED
    BY <2>1, <2>4, <2>5, Zenon DEF JoinedImages
<1> QED
  BY <1>4, <1>5, <1>6, ReadsU8, ReadsJoined DEF lists

\* A list is written as the images of its members.
LEMMA ListImageFacts ==
    ASSUME NEW put, NEW counts, NEW list \in ListsOf(put, counts)
    PROVE  /\ DOMAIN list = 1 .. Len(list) /\ Len(list) \in counts /\ Len(list) \in Nat
           /\ \A i \in DOMAIN list : list[i] \in DOMAIN put
           /\ list \in DOMAIN ListImage(put, counts)
           /\ ListImage(put, counts)[list] = ListBytes(put, list)
BY DEF ListsOf, ListImage

LEMMA WidthFacts ==
    /\ Width.u16 \in Nat \ {0} /\ Width.u32 \in Nat \ {0} /\ Width.u64 \in Nat \ {0}
    /\ Width.id16 \in Nat \ {0} /\ Width.id \in Nat \ {0}
BY WidthAssumption

LEMMA NumbersAreNaturals ==
    ASSUME NEW width \in Nat
    PROVE  /\ Numbers(width) \subseteq Nat
           /\ \A n \in Nat : n \in Numbers(width) <=> n < Pow256[width]
           /\ \A n \in Numbers(width) : \A m \in Nat : m <= n => m \in Numbers(width)
<1>1. PICK power \in Nat : power = Pow256[width] /\ power > 0
  BY Pow256Facts
<1>2. Numbers(width) = 0 .. (power - 1)
  BY <1>1 DEF Numbers
<1> QED
  BY <1>1, <1>2

\* A length in Width.u16 octets, and as many octets.
BlobImage(maximum) == [octets \in Lists(Octet, maximum) |-> PutOctets(octets)]

LEMMA ReadsBlob ==
    ASSUME NEW w \in Seq(Octet), NEW maximum \in U16
    PROVE  Reads(w, TakeOctets(w, TakeU16(w), maximum), BlobImage(maximum))
<1> DEFINE length == NumberImage(Width.u16)
<1>1. DOMAIN length = U16 /\ \A n \in U16 : length[n] = PutU16(n)
  BY DEF NumberImage, U16, PutU16
<1>2. U16 \subseteq Nat /\ maximum \in Nat /\ \A n \in Nat : n <= maximum => n \in U16
  BY WidthFacts, NumbersAreNaturals DEF U16
<1>3. Reads(w, TakeU16(w), length)
  BY WidthFacts, ReadsNumber DEF TakeU16
<1> HIDE DEF length
<1>4. Reads(w, TakeOctets(w, TakeU16(w), maximum), OctetsImage(length, maximum))
  BY <1>1, <1>2, <1>3, ReadsOctets
<1>5. OctetsOf(length, maximum) = Lists(Octet, maximum)
  BY <1>1, <1>2 DEF OctetsOf, Lists
<1>6. \A octets \in Lists(Octet, maximum) :
         length[Len(octets)] \o octets = PutOctets(octets)
  <2>1. \A octets \in Lists(Octet, maximum) : Len(octets) \in U16
    BY <1>2 DEF Lists
  <2> QED
    BY <1>1, <2>1 DEF PutOctets
<1>7. OctetsImage(length, maximum) = BlobImage(maximum)
  BY <1>5, <1>6 DEF OctetsImage, BlobImage
<1> QED
  BY <1>4, <1>7

\* The lists of a count the code accepts.
LEMMA ListsFacts ==
    ASSUME NEW put
    PROVE  /\ ListsOf(put, {0, 1}) = Option(DOMAIN put)
           /\ \A maximum \in Nat : ListsOf(put, 0 .. maximum) = Lists(DOMAIN put, maximum)
<1>1. \A list \in Seq(DOMAIN put) : Len(list) \in Nat
  OBVIOUS
<1>2. \A n \in Nat : n \in {0, 1} <=> n <= 1
  OBVIOUS
<1>3. \A maximum \in Nat : \A n \in Nat : n \in 0 .. maximum <=> n <= maximum
  OBVIOUS
<1> QED
  BY <1>1, <1>2, <1>3 DEF ListsOf, Option, Lists

\* Reader::optional_text.
TextReader(maximum) == Accepted(BlobImage(maximum), Seq(Printable))

Texts(maximum) ==
    {text \in Option(Seq(Octet)) :
        \A i \in DOMAIN text : Len(text[i]) <= maximum /\ text[i] \in Seq(Printable)}

TextImage(maximum) == [text \in Texts(maximum) |-> PutText(text)]

LEMMA ReadsText ==
    ASSUME NEW w \in Seq(Octet), NEW maximum \in U16
    PROVE  Reads(w, TakeText(w, maximum), TextImage(maximum))
<1> DEFINE put == TextReader(maximum)
<1>1. Reads(w, TakeText(w, maximum), ListImage(put, {0, 1}))
  <2>1. Reads(w, Checked(TakeOctets(w, TakeU16(w), maximum), Seq(Printable)), put)
    BY ReadsBlob, ReadsChecked DEF TextReader
  <2>2. {0, 1} \in SUBSET Octet
    BY DEF Octet
  <2> HIDE DEF put
  <2>3. Reads(w, TakeList(w, Checked(TakeOctets(w, TakeU16(w), maximum), Seq(Printable)), {0, 1}),
              ListImage(put, {0, 1}))
    BY <2>1, <2>2, ReadsList
  <2> QED
    BY <2>3 DEF TakeText, TakeOption
<1>2. \A octets : octets \in DOMAIN put <=>
         octets \in Seq(Octet) /\ Len(octets) <= maximum /\ octets \in Seq(Printable)
  BY DEF TextReader, Accepted, BlobImage, Lists
<1>3. \A octets \in DOMAIN put : put[octets] = PutOctets(octets)
  BY DEF TextReader, Accepted, BlobImage
<1> HIDE DEF put
<1>4. ASSUME NEW text
      PROVE  text \in ListsOf(put, {0, 1}) <=> text \in Texts(maximum)
  <2>1. ASSUME text \in ListsOf(put, {0, 1})
        PROVE  text \in Texts(maximum)
    <3>1. text \in Seq(DOMAIN put) /\ Len(text) \in {0, 1} /\ DOMAIN text = 1 .. Len(text)
      BY <2>1 DEF ListsOf
    <3>2. \A i \in DOMAIN text : text[i] \in DOMAIN put
      BY <3>1
    <3>3. text \in Seq(Seq(Octet))
      <4>1. DOMAIN put \subseteq Seq(Octet)
        BY <1>2
      <4> QED
        BY <3>1, <4>1
    <3>4. Len(text) <= 1
      BY <3>1
    <3>5. \A i \in DOMAIN text : Len(text[i]) <= maximum /\ text[i] \in Seq(Printable)
      BY <1>2, <3>2
    <3> QED
      BY <3>3, <3>4, <3>5 DEF Texts, Option, Lists
  <2>2. ASSUME text \in Texts(maximum)
        PROVE  text \in ListsOf(put, {0, 1})
    <3>1. text \in Seq(Seq(Octet)) /\ Len(text) <= 1 /\ DOMAIN text = 1 .. Len(text)
      BY <2>2 DEF Texts, Option, Lists
    <3>2. \A i \in 1 .. Len(text) : text[i] \in DOMAIN put
      BY <1>2, <2>2, <3>1 DEF Texts
    <3>3. text \in Seq(DOMAIN put)
      BY <3>1, <3>2
    <3>4. Len(text) \in {0, 1}
      BY <3>1
    <3> QED
      BY <3>3, <3>4 DEF ListsOf
  <2> QED
    BY <2>1, <2>2
<1>5. ASSUME NEW text \in ListsOf(put, {0, 1})
      PROVE  ListImage(put, {0, 1})[text] = PutText(text)
  <2>1. \A i \in DOMAIN text : text[i] \in DOMAIN put
    BY ListImageFacts
  <2>2. [i \in DOMAIN text |-> put[text[i]]] = [i \in DOMAIN text |-> PutOctets(text[i])]
    BY <1>3, <2>1
  <2>3. PutText(text) = <<Len(text)>> \o FlattenSeq([i \in DOMAIN text |-> PutOctets(text[i])])
    BY DEF PutText, PutList, PutAll
  <2>4. ListImage(put, {0, 1})[text] = ListBytes(put, text)
    BY ListImageFacts
  <2> QED
    BY <2>2, <2>3, <2>4 DEF ListBytes
<1>6. ListImage(put, {0, 1}) = TextImage(maximum)
  <2>1. ListsOf(put, {0, 1}) = Texts(maximum)
    BY <1>4
  <2>2. ListImage(put, {0, 1}) = [text \in ListsOf(put, {0, 1}) |-> ListImage(put, {0, 1})[text]]
    BY DEF ListImage
  <2> QED
    BY <1>5, <2>1, <2>2 DEF TextImage
<1> QED
  BY <1>1, <1>6

\* An octet that says which reader is next, and what it reads.
Chosen(n, puts, put) ==
    /\ \A i \in 1 .. n : \A v \in DOMAIN puts[i] :
          v \in DOMAIN put /\ put[v] = <<i - 1>> \o puts[i][v]
    /\ \A v \in DOMAIN put : \E i \in 1 .. n : v \in DOMAIN puts[i]

LEMMA ReadsChoice ==
    ASSUME NEW w \in Seq(Octet), NEW n \in 1 .. 256, NEW readers, Len(readers) = n,
           NEW puts, NEW put, AllRead(w, n, readers, puts), Chosen(n, puts, put)
    PROVE  Reads(w, TakeChoice(w, readers), put)
<1> DEFINE choices == 0 .. (n - 1)
           Rest == [x \in choices |-> readers[x + 1]]
           rest == [x \in choices |-> puts[x + 1]]
<1>1. \A x \in choices : x \in Octet /\ x + 1 \in 1 .. n /\ x + 1 - 1 = x
  BY DEF Octet
<1>2. \A i \in 1 .. n : i - 1 \in choices /\ (i - 1) + 1 = i
  OBVIOUS
<1>3. \A x \in choices : Rest[x] = readers[x + 1] /\ rest[x] = puts[x + 1]
  OBVIOUS
<1>4. \A x \in Octet : x < n <=> x \in choices
  BY DEF Octet
<1> HIDE DEF choices, Rest, rest
<1>5. ASSUME NEW x \in choices
      PROVE  Reads(w, Rest[x], rest[x])
  BY <1>1, <1>3 DEF AllRead
<1>6. Continues(w, TakeChoice(w, readers), TakeU8(w), choices, Rest)
  <2> SUFFICES ASSUME NEW at \in Places(w)
               PROVE  TakeChoice(w, readers)[at] =
                         IF TakeU8(w)[at] = << >> THEN << >>
                         ELSE IF TakeU8(w)[at][1].value \in choices
                         THEN Rest[TakeU8(w)[at][1].value][TakeU8(w)[at][1].next]
                         ELSE << >>
    BY DEF Continues
  <2>1. TakeChoice(w, readers)[at] =
           IF TakeU8(w)[at] = << >> THEN << >>
           ELSE IF TakeU8(w)[at][1].value < n
           THEN readers[TakeU8(w)[at][1].value + 1][TakeU8(w)[at][1].next]
           ELSE << >>
    BY ThenPlace DEF TakeChoice, Then
  <2>2. TakeU8(w)[at] # << >> => TakeU8(w)[at][1].value \in Octet
    <3>1. DOMAIN OctetImage = Octet
      BY DEF OctetImage
    <3> QED
      BY <3>1, ReadsU8, ThenFacts
  <2> QED
    BY <1>3, <1>4, <2>1, <2>2
<1>7. JoinedImages(choices, OctetImage, rest, put)
  <2>1. \A x \in choices : x \in DOMAIN OctetImage /\ OctetImage[x] = <<x>>
    BY <1>1 DEF OctetImage
  <2>2. ASSUME NEW x \in choices, NEW v \in DOMAIN rest[x]
        PROVE  v \in DOMAIN put /\ put[v] = OctetImage[x] \o rest[x][v]
    <3>1. x \in Octet /\ x + 1 \in 1 .. n
      BY <1>1, Zenon
    <3>2. PICK i \in 1 .. n : i = x + 1
      BY <3>1, Zenon
    <3>3. i - 1 = x
      BY <3>1, <3>2 DEF Octet
    <3>4. rest[x] = puts[i]
      BY <1>3, <3>2
    <3>5. v \in DOMAIN put /\ put[v] = <<i - 1>> \o puts[i][v]
      BY <3>4 DEF Chosen
    <3> QED
      BY <2>1, <3>3, <3>4, <3>5
  <2>3. ASSUME NEW v \in DOMAIN put
        PROVE  \E x \in choices : v \in DOMAIN rest[x]
    <3>1. PICK i \in 1 .. n : v \in DOMAIN puts[i]
      BY DEF Chosen
    <3> QED
      BY <1>2, <1>3, <3>1
  <2> QED
    BY <2>1, <2>2, <2>3, Zenon DEF JoinedImages
<1> QED
  BY <1>5, <1>6, <1>7, ReadsU8, ReadsJoined

---------------------------------------------------------------------------
(* Records.                                                                *)

\* A record of the fields named is read by reading one field after the other:
\* its image is theirs, and every choice of their values is a record.
Fields(names, n) == {names[i] : i \in 1 .. n}

Assembles(n, names, puts, put) ==
    /\ \A i \in 1 .. n : \A j \in 1 .. n : names[i] = names[j] => i = j
    /\ \A r \in DOMAIN put :
          /\ r = [name \in Fields(names, n) |-> r[name]]
          /\ \A i \in 1 .. n : r[names[i]] \in DOMAIN puts[i]
          /\ put[r] = FlattenSeq([i \in 1 .. n |-> puts[i][r[names[i]]]])
    /\ \A values \in Tuples(puts, n) :
          \E r \in DOMAIN put : \A i \in 1 .. n : r[names[i]] = values[i]

FieldsRead(w, n, fields, names, puts) ==
    \A i \in 1 .. n : fields[i][1] = names[i] /\ Reads(w, fields[i][2], puts[i])

FieldAt(names, n, name) == CHOOSE i \in 1 .. n : names[i] = name

Assembled(names, n, values) ==
    [name \in Fields(names, n) |-> values[FieldAt(names, n, name)]]

LEMMA TakeFieldsFacts ==
    ASSUME NEW w, NEW n \in Nat, NEW fields, DOMAIN fields = 1 .. n,
           NEW names, \A i \in 1 .. n : fields[i][1] = names[i],
           NEW at \in Positions
    PROVE  LET Raw == TakeEach([i \in 1 .. n |-> fields[i][2]])
           IN  TakeFields(fields)[at] =
                  IF Raw[at] = << >> THEN << >>
                  ELSE Got(Assembled(names, n, Raw[at][1].value), Raw[at][1].next)
<1> DEFINE keys == [i \in DOMAIN fields |-> fields[i][1]]
           KeyAt(name) == CHOOSE i \in DOMAIN keys : keys[i] = name
           Raw == TakeEach([i \in 1 .. n |-> fields[i][2]])
<1>1. ASSUME NEW values
      PROVE  [name \in ToSet(keys) |-> values[KeyAt(name)]] = Assembled(names, n, values)
  <2>1. DOMAIN keys = 1 .. n /\ \A i \in 1 .. n : keys[i] = names[i]
    OBVIOUS
  <2> HIDE DEF keys
  <2>2. ToSet(keys) = Fields(names, n)
    BY <2>1 DEF ToSet, Fields
  <2>3. ASSUME NEW name
        PROVE  KeyAt(name) = FieldAt(names, n, name)
    BY <2>1 DEF FieldAt
  <2> HIDE DEF KeyAt
  <2> QED
    BY <2>2, <2>3 DEF Assembled
<1>2. TakeFields(fields)[at] =
         IF Raw[at] = << >> THEN << >>
         ELSE Got([name \in ToSet(keys) |-> Raw[at][1].value[KeyAt(name)]], Raw[at][1].next)
  BY DEF TakeFields, Then
<1> HIDE DEF keys, KeyAt, Raw
<1>3. TakeFields(fields)[at] =
         IF Raw[at] = << >> THEN << >>
         ELSE Got(Assembled(names, n, Raw[at][1].value), Raw[at][1].next)
  BY <1>1, <1>2
<1> QED
  BY <1>3 DEF Raw

LEMMA ReadsFields ==
    ASSUME NEW w \in Seq(Octet), NEW n \in Nat, NEW fields, DOMAIN fields = 1 .. n,
           NEW names, NEW puts, NEW put,
           FieldsRead(w, n, fields, names, puts), Assembles(n, names, puts, put)
    PROVE  Reads(w, TakeFields(fields), put)
<1> DEFINE readers == [i \in 1 .. n |-> fields[i][2]]
           tuples == Tuples(puts, n)
           raw == EachPut(puts, n)
           convert == [values \in tuples |-> Assembled(names, n, values)]
<1>1. Len(readers) = n /\ \A i \in 1 .. n : readers[i] = fields[i][2]
  OBVIOUS
<1>2. Reads(w, TakeEach(readers), raw)
  <2> HIDE DEF readers
  <2>1. AllRead(w, n, readers, puts)
    BY <1>1 DEF AllRead, FieldsRead
  <2> QED
    BY <1>1, <2>1, ReadsEach
<1>3. DOMAIN convert = tuples /\ \A values \in tuples : convert[values] = Assembled(names, n, values)
  OBVIOUS
<1>4. /\ DOMAIN raw = tuples
      /\ \A values \in tuples : raw[values] = FlattenSeq([i \in 1 .. n |-> puts[i][values[i]]])
  BY DEF EachPut
<1>5. \A values \in tuples :
         /\ values = [i \in 1 .. n |-> values[i]]
         /\ \A i \in 1 .. n : values[i] \in DOMAIN puts[i]
  BY DEF Tuples
<1>6. \A i \in 1 .. n : fields[i][1] = names[i]
  BY DEF FieldsRead
<1>7. Converts(w, TakeFields(fields), TakeEach(readers), convert)
  <2> SUFFICES ASSUME NEW at \in Places(w)
               PROVE  TakeFields(fields)[at] =
                         IF TakeEach(readers)[at] = << >> THEN << >>
                         ELSE IF TakeEach(readers)[at][1].value \in DOMAIN convert
                         THEN Got(convert[TakeEach(readers)[at][1].value],
                                  TakeEach(readers)[at][1].next)
                         ELSE << >>
    BY DEF Converts
  <2>1. TakeFields(fields)[at] =
           IF TakeEach(readers)[at] = << >> THEN << >>
           ELSE Got(Assembled(names, n, TakeEach(readers)[at][1].value),
                    TakeEach(readers)[at][1].next)
    BY <1>6, ThenPlace, TakeFieldsFacts
  <2> HIDE DEF readers, raw, convert, tuples
  <2>2. TakeEach(readers)[at] # << >> => TakeEach(readers)[at][1].value \in tuples
    BY <1>2, <1>4, ThenFacts
  <2> QED
    BY <1>3, <2>1, <2>2
<1> HIDE DEF readers, raw, convert, tuples
<1>8. ASSUME NEW r \in DOMAIN put, NEW values \in tuples,
             \A i \in 1 .. n : r[names[i]] = values[i]
      PROVE  convert[values] = r /\ put[r] = raw[values]
  <2>1. r = [name \in Fields(names, n) |-> r[name]]
    BY DEF Assembles
  <2>2. ASSUME NEW name \in Fields(names, n)
        PROVE  values[FieldAt(names, n, name)] = r[name]
    <3>1. PICK j \in 1 .. n : names[j] = name
      BY DEF Fields
    <3>2. FieldAt(names, n, name) = j
      BY <3>1 DEF Assembles, FieldAt
    <3> QED
      BY <1>8, <3>1, <3>2
  <2>3. convert[values] = r
    BY <1>3, <2>1, <2>2 DEF Assembled
  <2>4. [i \in 1 .. n |-> puts[i][r[names[i]]]] = [i \in 1 .. n |-> puts[i][values[i]]]
    BY <1>8
  <2>5. put[r] = FlattenSeq([i \in 1 .. n |-> puts[i][r[names[i]]]])
    BY DEF Assembles
  <2> QED
    BY <1>4, <2>3, <2>4, <2>5
<1>9. SameImages(convert, raw, put)
  <2>1. ASSUME NEW values \in DOMAIN convert
        PROVE  /\ values \in DOMAIN raw /\ convert[values] \in DOMAIN put
               /\ put[convert[values]] = raw[values]
    <3>1. PICK r \in DOMAIN put : \A i \in 1 .. n : r[names[i]] = values[i]
      BY <1>3 DEF Assembles, tuples
    <3> QED
      BY <1>3, <1>4, <1>8, <3>1
  <2>2. ASSUME NEW r \in DOMAIN put
        PROVE  \E values \in DOMAIN convert : convert[values] = r
    <3> DEFINE values == [i \in 1 .. n |-> r[names[i]]]
    <3>1. \A i \in 1 .. n : values[i] \in DOMAIN puts[i] /\ values[i] = r[names[i]]
      BY DEF Assembles
    <3>2. values \in tuples
      BY <3>1 DEF Tuples, tuples
    <3> HIDE DEF values
    <3> QED
      BY <1>3, <1>8, <3>1, <3>2
  <2> QED
    BY <2>1, <2>2, Zenon DEF SameImages
<1> QED
  BY <1>2, <1>7, <1>9, ReadsConverted

\* The images of a few fields, one after the other.
LEMMA FlattenShort ==
    ASSUME NEW E, NEW n \in 1 .. 12, NEW s \in [1 .. n -> Seq(E)]
    PROVE  /\ n = 1 => FlattenSeq(s) = s[1]
           /\ n = 2 => FlattenSeq(s) = s[1] \o s[2]
           /\ n = 3 => FlattenSeq(s) = s[1] \o s[2] \o s[3]
           /\ n = 4 => FlattenSeq(s) = s[1] \o s[2] \o s[3] \o s[4]
           /\ n = 5 => FlattenSeq(s) = s[1] \o s[2] \o s[3] \o s[4] \o s[5]
           /\ n = 6 => FlattenSeq(s) = s[1] \o s[2] \o s[3] \o s[4] \o s[5] \o s[6]
           /\ n = 7 => FlattenSeq(s) =
                    s[1] \o s[2] \o s[3] \o s[4] \o s[5] \o s[6] \o s[7]
           /\ n = 8 => FlattenSeq(s) =
                    s[1] \o s[2] \o s[3] \o s[4] \o s[5] \o s[6] \o s[7] \o s[8]
           /\ n = 12 => FlattenSeq(s) =
                    s[1] \o s[2] \o s[3] \o s[4] \o s[5] \o s[6] \o s[7] \o s[8]
                      \o s[9] \o s[10] \o s[11] \o s[12]
<1>1. PICK whole \in [0 .. n -> Seq(E)] :
         /\ whole[0] = << >>
         /\ \A i \in 1 .. n : whole[i] = whole[i - 1] \o s[i]
         /\ FlattenSeq(s) = whole[n]
  <2>1. n \in Nat
    OBVIOUS
  <2> QED
    BY <2>1, FlattenFacts
<1> DEFINE Cat(a, b) == a \o b
<1>2. Cat(<< >>, s[1]) = s[1]
  OBVIOUS
<1>3. \A i \in 1 .. n : whole[i] = Cat(whole[i - 1], s[i])
  BY <1>1
<1> HIDE DEF Cat
<1>4. whole[1] = s[1]
  <2>1. 1 \in 1 .. n /\ 1 - 1 = 0
    OBVIOUS
  <2> QED
    BY <1>1, <1>2, <1>3, <2>1
<1>5. n >= 2 => whole[2] = Cat(whole[1], s[2])
  <2>1. n >= 2 => 2 \in 1 .. n /\ 2 - 1 = 1
    OBVIOUS
  <2> QED
    BY <1>3, <2>1
<1>6. n >= 3 => whole[3] = Cat(whole[2], s[3])
  <2>1. n >= 3 => 3 \in 1 .. n /\ 3 - 1 = 2
    OBVIOUS
  <2> QED
    BY <1>3, <2>1
<1>7. n >= 4 => whole[4] = Cat(whole[3], s[4])
  <2>1. n >= 4 => 4 \in 1 .. n /\ 4 - 1 = 3
    OBVIOUS
  <2> QED
    BY <1>3, <2>1
<1>8. n >= 5 => whole[5] = Cat(whole[4], s[5])
  <2>1. n >= 5 => 5 \in 1 .. n /\ 5 - 1 = 4
    OBVIOUS
  <2> QED
    BY <1>3, <2>1
<1>9. n >= 6 => whole[6] = Cat(whole[5], s[6])
  <2>1. n >= 6 => 6 \in 1 .. n /\ 6 - 1 = 5
    OBVIOUS
  <2> QED
    BY <1>3, <2>1
<1>10. n >= 7 => whole[7] = Cat(whole[6], s[7])
  <2>1. n >= 7 => 7 \in 1 .. n /\ 7 - 1 = 6
    OBVIOUS
  <2> QED
    BY <1>3, <2>1
<1>11. n >= 8 => whole[8] = Cat(whole[7], s[8])
  <2>1. n >= 8 => 8 \in 1 .. n /\ 8 - 1 = 7
    OBVIOUS
  <2> QED
    BY <1>3, <2>1
<1>12. n >= 9 => whole[9] = Cat(whole[8], s[9])
  <2>1. n >= 9 => 9 \in 1 .. n /\ 9 - 1 = 8
    OBVIOUS
  <2> QED
    BY <1>3, <2>1
<1>13. n >= 10 => whole[10] = Cat(whole[9], s[10])
  <2>1. n >= 10 => 10 \in 1 .. n /\ 10 - 1 = 9
    OBVIOUS
  <2> QED
    BY <1>3, <2>1
<1>14. n >= 11 => whole[11] = Cat(whole[10], s[11])
  <2>1. n >= 11 => 11 \in 1 .. n /\ 11 - 1 = 10
    OBVIOUS
  <2> QED
    BY <1>3, <2>1
<1>15. n >= 12 => whole[12] = Cat(whole[11], s[12])
  <2>1. n >= 12 => 12 \in 1 .. n /\ 12 - 1 = 11
    OBVIOUS
  <2> QED
    BY <1>3, <2>1
<1>16. n = 1 => FlattenSeq(s) = s[1]
  BY <1>1, <1>4
<1>17. n = 2 => FlattenSeq(s) = Cat(s[1], s[2])
  BY <1>1, <1>4, <1>5
<1>18. n = 3 => FlattenSeq(s) = Cat(Cat(s[1], s[2]), s[3])
  BY <1>1, <1>4, <1>5, <1>6
<1>19. n = 4 => FlattenSeq(s) = Cat(Cat(Cat(s[1], s[2]), s[3]), s[4])
  BY <1>1, <1>4, <1>5, <1>6, <1>7
<1>20. n = 5 => FlattenSeq(s) = Cat(Cat(Cat(Cat(s[1], s[2]), s[3]), s[4]), s[5])
  BY <1>1, <1>4, <1>5, <1>6, <1>7, <1>8
<1>21. n = 6 => FlattenSeq(s) = Cat(Cat(Cat(Cat(Cat(s[1], s[2]), s[3]), s[4]), s[5]), s[6])
  BY <1>1, <1>4, <1>5, <1>6, <1>7, <1>8, <1>9
<1>22. n = 7 => FlattenSeq(s) = Cat(Cat(Cat(Cat(Cat(Cat(s[1], s[2]), s[3]), s[4]), s[5]), s[6]), s[7])
  BY <1>1, <1>4, <1>5, <1>6, <1>7, <1>8, <1>9, <1>10
<1>23. n = 8 => FlattenSeq(s) = Cat(Cat(Cat(Cat(Cat(Cat(Cat(s[1], s[2]), s[3]), s[4]), s[5]), s[6]), s[7]), s[8])
  BY <1>1, <1>4, <1>5, <1>6, <1>7, <1>8, <1>9, <1>10, <1>11
<1>24. n = 12 => FlattenSeq(s) = Cat(Cat(Cat(Cat(Cat(Cat(Cat(Cat(Cat(Cat(Cat(s[1], s[2]), s[3]), s[4]), s[5]), s[6]), s[7]), s[8]),
                                   s[9]), s[10]), s[11]), s[12])
  BY <1>1, <1>4, <1>5, <1>6, <1>7, <1>8, <1>9, <1>10, <1>11, <1>12, <1>13, <1>14, <1>15
<1> QED
  BY <1>16, <1>17, <1>18, <1>19, <1>20, <1>21, <1>22, <1>23, <1>24 DEF Cat

\* The octets a list takes: its count, and those of its members.
LEMMA ListSize ==
    ASSUME NEW put, Images(put), NEW counts \in SUBSET Octet, NEW list \in ListsOf(put, counts)
    PROVE  /\ ListImage(put, counts)[list] \in Seq(Octet)
           /\ Len(ListImage(put, counts)[list]) =
                 1 + SumOf([i \in 1 .. Len(list) |-> Len(put[list[i]])])
           /\ \A c \in Nat :
                 (\A v \in DOMAIN put : Len(put[v]) = c) =>
                    Len(ListImage(put, counts)[list]) = 1 + Len(list) * c
<1> DEFINE n == Len(list)
           seqs == [i \in 1 .. n |-> put[list[i]]]
           lens == [i \in 1 .. n |-> Len(put[list[i]])]
           flat == FlattenSeq(seqs)
           image == ListImage(put, counts)[list]
<1>1. n \in Nat /\ n \in Octet /\ DOMAIN list = 1 .. n /\ \A i \in 1 .. n : list[i] \in DOMAIN put
  BY ListImageFacts
<1>2. image = <<n>> \o flat
  <2>1. [i \in DOMAIN list |-> put[list[i]]] = seqs
    BY <1>1
  <2>2. image = ListBytes(put, list)
    BY ListImageFacts
  <2> QED
    BY <2>1, <2>2 DEF ListBytes
<1>3. seqs \in [1 .. n -> Seq(Octet)]
  <2>1. \A i \in 1 .. n : put[list[i]] \in Seq(Octet)
    BY <1>1 DEF Images
  <2> QED
    BY <2>1
<1>4. lens \in [1 .. n -> Nat]
  <2>1. \A i \in 1 .. n : Len(put[list[i]]) \in Nat
    BY <1>1 DEF Images
  <2> QED
    BY <2>1
<1>5. [i \in 1 .. n |-> Len(seqs[i])] = lens
  OBVIOUS
<1>6. \A i \in 1 .. n : lens[i] = Len(put[list[i]])
  OBVIOUS
<1> HIDE DEF n, seqs, lens
<1>7. flat \in Seq(Octet) /\ Len(flat) = SumOf(lens)
  <2>1. FlattenSeq(seqs) \in Seq(Octet)
    <3>1. << >> \in Seq(Octet)
      OBVIOUS
    <3> QED
      BY <1>1, <1>3, <3>1, FlattenAppend
  <2>2. Len(FlattenSeq(seqs)) = SumOf([i \in 1 .. n |-> Len(seqs[i])])
    BY <1>1, <1>3, LengthOfFlat
  <2> QED
    BY <1>5, <2>1, <2>2
<1> HIDE DEF flat, image
<1>8. image \in Seq(Octet) /\ Len(image) = 1 + Len(flat)
  <2>1. <<n>> \in Seq(Octet) /\ Len(<<n>>) = 1
    BY <1>1
  <2> QED
    BY <1>2, <1>7, <2>1
<1>9. ASSUME NEW c \in Nat, \A v \in DOMAIN put : Len(put[v]) = c
      PROVE  SumOf(lens) = n * c
  <2>1. \A i \in 1 .. n : lens[i] = c
    BY <1>1, <1>6, <1>9
  <2> QED
    BY <1>1, <1>4, <2>1, SumOfBound
<1>10. \A c \in Nat : (\A v \in DOMAIN put : Len(put[v]) = c) => Len(image) = 1 + n * c
  BY <1>7, <1>8, <1>9
<1> QED
  BY <1>7, <1>8, <1>10 DEF image, lens, n

LEMMA EmptyFlat ==
    ASSUME NEW E, NEW seqs \in [1 .. 0 -> Seq(E)]
    PROVE  FlattenSeq(seqs) = << >>
<1>1. PICK n \in Nat : n = 0
  OBVIOUS
<1>2. seqs \in [1 .. n -> Seq(E)]
  BY <1>1
<1>3. PICK whole \in [0 .. n -> Seq(E)] :
               /\ whole[0] = << >>
               /\ \A i \in 1 .. n : whole[i] = whole[i - 1] \o seqs[i]
               /\ FlattenSeq(seqs) = whole[n]
  BY <1>2, FlattenFacts, Zenon
<1> QED
  BY <1>1, <1>3

\* So many images: their octets, and how many they are.
LEMMA Parts1 ==
    ASSUME NEW s \in [1 .. 1 -> Seq(Octet)]
    PROVE  /\ FlattenSeq(s) = s[1]
           /\ FlattenSeq(s) \in Seq(Octet)
           /\ Len(FlattenSeq(s)) = Len(s[1])
<1> DEFINE a == s[1]
<1>1. {a} \subseteq Seq(Octet)
  OBVIOUS
<1>2. FlattenSeq(s) = a
  <2>1. 1 \in 1 .. 12
    OBVIOUS
  <2> QED
    BY <2>1, FlattenShort
<1> HIDE DEF a
<1>3. /\ FlattenSeq(s) \in Seq(Octet)
      /\ Len(FlattenSeq(s)) = Len(a)
  BY <1>1, <1>2
<1> QED
  BY <1>2, <1>3 DEF a

LEMMA Parts2 ==
    ASSUME NEW s \in [1 .. 2 -> Seq(Octet)]
    PROVE  /\ FlattenSeq(s) = s[1] \o s[2]
           /\ FlattenSeq(s) \in Seq(Octet)
           /\ Len(FlattenSeq(s)) = Len(s[1]) + Len(s[2])
<1> DEFINE a == s[1]  b == s[2]
<1>1. {a, b} \subseteq Seq(Octet)
  OBVIOUS
<1>2. FlattenSeq(s) = a \o b
  <2>1. 2 \in 1 .. 12
    OBVIOUS
  <2> QED
    BY <2>1, FlattenShort
<1> HIDE DEF a, b
<1>3. /\ FlattenSeq(s) \in Seq(Octet)
      /\ Len(FlattenSeq(s)) = Len(a) + Len(b)
  BY <1>1, <1>2
<1> QED
  BY <1>2, <1>3 DEF a, b

LEMMA Parts3 ==
    ASSUME NEW s \in [1 .. 3 -> Seq(Octet)]
    PROVE  /\ FlattenSeq(s) = s[1] \o s[2] \o s[3]
           /\ FlattenSeq(s) \in Seq(Octet)
           /\ Len(FlattenSeq(s)) = Len(s[1]) + Len(s[2]) + Len(s[3])
<1> DEFINE a == s[1]  b == s[2]  c == s[3]
<1>1. {a, b, c} \subseteq Seq(Octet)
  OBVIOUS
<1>2. FlattenSeq(s) = a \o b \o c
  <2>1. 3 \in 1 .. 12
    OBVIOUS
  <2> QED
    BY <2>1, FlattenShort
<1> HIDE DEF a, b, c
<1>3. /\ FlattenSeq(s) \in Seq(Octet)
      /\ Len(FlattenSeq(s)) = Len(a) + Len(b) + Len(c)
  BY <1>1, <1>2
<1> QED
  BY <1>2, <1>3 DEF a, b, c

LEMMA Parts4 ==
    ASSUME NEW s \in [1 .. 4 -> Seq(Octet)]
    PROVE  /\ FlattenSeq(s) = s[1] \o s[2] \o s[3] \o s[4]
           /\ FlattenSeq(s) \in Seq(Octet)
           /\ Len(FlattenSeq(s)) = Len(s[1]) + Len(s[2]) + Len(s[3]) + Len(s[4])
<1> DEFINE a == s[1]  b == s[2]  c == s[3]  d == s[4]
<1>1. {a, b, c, d} \subseteq Seq(Octet)
  OBVIOUS
<1>2. FlattenSeq(s) = a \o b \o c \o d
  <2>1. 4 \in 1 .. 12
    OBVIOUS
  <2> QED
    BY <2>1, FlattenShort
<1> HIDE DEF a, b, c, d
<1>3. /\ FlattenSeq(s) \in Seq(Octet)
      /\ Len(FlattenSeq(s)) = Len(a) + Len(b) + Len(c) + Len(d)
  BY <1>1, <1>2
<1> QED
  BY <1>2, <1>3 DEF a, b, c, d

LEMMA Parts5 ==
    ASSUME NEW s \in [1 .. 5 -> Seq(Octet)]
    PROVE  /\ FlattenSeq(s) = s[1] \o s[2] \o s[3] \o s[4] \o s[5]
           /\ FlattenSeq(s) \in Seq(Octet)
           /\ Len(FlattenSeq(s)) = Len(s[1]) + Len(s[2]) + Len(s[3]) + Len(s[4]) +
                                     Len(s[5])
<1> DEFINE a == s[1]  b == s[2]  c == s[3]  d == s[4]  e == s[5]
<1>1. {a, b, c, d, e} \subseteq Seq(Octet)
  OBVIOUS
<1>2. FlattenSeq(s) = a \o b \o c \o d \o e
  <2>1. 5 \in 1 .. 12
    OBVIOUS
  <2> QED
    BY <2>1, FlattenShort
<1> HIDE DEF a, b, c, d, e
<1>3. /\ FlattenSeq(s) \in Seq(Octet)
      /\ Len(FlattenSeq(s)) = Len(a) + Len(b) + Len(c) + Len(d) + Len(e)
  BY <1>1, <1>2
<1> QED
  BY <1>2, <1>3 DEF a, b, c, d, e

LEMMA Parts6 ==
    ASSUME NEW s \in [1 .. 6 -> Seq(Octet)]
    PROVE  /\ FlattenSeq(s) = s[1] \o s[2] \o s[3] \o s[4] \o s[5] \o s[6]
           /\ FlattenSeq(s) \in Seq(Octet)
           /\ Len(FlattenSeq(s)) = Len(s[1]) + Len(s[2]) + Len(s[3]) + Len(s[4]) +
                                     Len(s[5]) + Len(s[6])
<1> DEFINE a == s[1]  b == s[2]  c == s[3]  d == s[4]  e == s[5]  f == s[6]
<1>1. {a, b, c, d, e, f} \subseteq Seq(Octet)
  OBVIOUS
<1>2. FlattenSeq(s) = a \o b \o c \o d \o e \o f
  <2>1. 6 \in 1 .. 12
    OBVIOUS
  <2> QED
    BY <2>1, FlattenShort
<1> HIDE DEF a, b, c, d, e, f
<1>3. /\ FlattenSeq(s) \in Seq(Octet)
      /\ Len(FlattenSeq(s)) = Len(a) + Len(b) + Len(c) + Len(d) + Len(e) + Len(f)
  BY <1>1, <1>2
<1> QED
  BY <1>2, <1>3 DEF a, b, c, d, e, f

LEMMA Parts7 ==
    ASSUME NEW s \in [1 .. 7 -> Seq(Octet)]
    PROVE  /\ FlattenSeq(s) = s[1] \o s[2] \o s[3] \o s[4] \o s[5] \o s[6] \o s[7]
           /\ FlattenSeq(s) \in Seq(Octet)
           /\ Len(FlattenSeq(s)) = Len(s[1]) + Len(s[2]) + Len(s[3]) + Len(s[4]) +
                                     Len(s[5]) + Len(s[6]) + Len(s[7])
<1> DEFINE a == s[1]  b == s[2]  c == s[3]  d == s[4]  e == s[5]  f == s[6]  g == s[7]
<1>1. {a, b, c, d, e, f, g} \subseteq Seq(Octet)
  OBVIOUS
<1>2. FlattenSeq(s) = a \o b \o c \o d \o e \o f \o g
  <2>1. 7 \in 1 .. 12
    OBVIOUS
  <2> QED
    BY <2>1, FlattenShort
<1> HIDE DEF a, b, c, d, e, f, g
<1>3. /\ FlattenSeq(s) \in Seq(Octet)
      /\ Len(FlattenSeq(s)) = Len(a) + Len(b) + Len(c) + Len(d) + Len(e) + Len(f) +
                                Len(g)
  BY <1>1, <1>2
<1> QED
  BY <1>2, <1>3 DEF a, b, c, d, e, f, g

LEMMA Parts8 ==
    ASSUME NEW s \in [1 .. 8 -> Seq(Octet)]
    PROVE  /\ FlattenSeq(s) = s[1] \o s[2] \o s[3] \o s[4] \o s[5] \o s[6] \o s[7] \o
                                s[8]
           /\ FlattenSeq(s) \in Seq(Octet)
           /\ Len(FlattenSeq(s)) = Len(s[1]) + Len(s[2]) + Len(s[3]) + Len(s[4]) +
                                     Len(s[5]) + Len(s[6]) + Len(s[7]) + Len(s[8])
<1> DEFINE a == s[1]  b == s[2]  c == s[3]  d == s[4]  e == s[5]  f == s[6]  g == s[7]
           h == s[8]
<1>1. {a, b, c, d, e, f, g, h} \subseteq Seq(Octet)
  OBVIOUS
<1>2. FlattenSeq(s) = a \o b \o c \o d \o e \o f \o g \o h
  <2>1. 8 \in 1 .. 12
    OBVIOUS
  <2> QED
    BY <2>1, FlattenShort
<1> HIDE DEF a, b, c, d, e, f, g, h
<1>3. /\ FlattenSeq(s) \in Seq(Octet)
      /\ Len(FlattenSeq(s)) = Len(a) + Len(b) + Len(c) + Len(d) + Len(e) + Len(f) +
                                Len(g) + Len(h)
  BY <1>1, <1>2
<1> QED
  BY <1>2, <1>3 DEF a, b, c, d, e, f, g, h

LEMMA Parts12 ==
    ASSUME NEW s \in [1 .. 12 -> Seq(Octet)]
    PROVE  /\ FlattenSeq(s) = s[1] \o s[2] \o s[3] \o s[4] \o s[5] \o s[6] \o s[7] \o
                                s[8] \o s[9] \o s[10] \o s[11] \o s[12]
           /\ FlattenSeq(s) \in Seq(Octet)
           /\ Len(FlattenSeq(s)) = Len(s[1]) + Len(s[2]) + Len(s[3]) + Len(s[4]) +
                                     Len(s[5]) + Len(s[6]) + Len(s[7]) + Len(s[8]) +
                                     Len(s[9]) + Len(s[10]) + Len(s[11]) + Len(s[12])
<1> DEFINE a == s[1]  b == s[2]  c == s[3]  d == s[4]  e == s[5]  f == s[6]  g == s[7]
           h == s[8]  i == s[9]  j == s[10]  k == s[11]  l == s[12]
<1>1. {a, b, c, d, e, f, g, h, i, j, k, l} \subseteq Seq(Octet)
  OBVIOUS
<1>2. FlattenSeq(s) = a \o b \o c \o d \o e \o f \o g \o h \o i \o j \o k \o l
  <2>1. 12 \in 1 .. 12
    OBVIOUS
  <2> QED
    BY <2>1, FlattenShort
<1> HIDE DEF a, b, c, d, e, f, g, h, i, j, k, l
<1>3. /\ FlattenSeq(s) \in Seq(Octet)
      /\ Len(FlattenSeq(s)) = Len(a) + Len(b) + Len(c) + Len(d) + Len(e) + Len(f) +
                                Len(g) + Len(h) + Len(i) + Len(j) + Len(k) + Len(l)
  BY <1>1, <1>2
<1> QED
  BY <1>2, <1>3 DEF a, b, c, d, e, f, g, h, i, j, k, l

---------------------------------------------------------------------------
(* The fields of fixed width.                                              *)

U16Image == [n \in U16 |-> PutU16(n)]
U32Image == [n \in U32 |-> PutU32(n)]
U64Image == [n \in U64 |-> PutU64(n)]
Id16Image == [n \in Id16 |-> PutId16(n)]
IdImage == [n \in Id |-> PutId(n)]

LEMMA ReadsWidths ==
    ASSUME NEW w \in Seq(Octet)
    PROVE  /\ Reads(w, TakeU16(w), U16Image)
           /\ Reads(w, TakeU32(w), U32Image)
           /\ Reads(w, TakeU64(w), U64Image)
           /\ Reads(w, TakeId16(w), Id16Image)
           /\ Reads(w, TakeId(w), IdImage)
<1>1. Reads(w, TakeU16(w), U16Image)
  BY WidthFacts, ReadsNumber DEF TakeU16, U16Image, NumberImage, U16, PutU16
<1>2. Reads(w, TakeU32(w), U32Image)
  BY WidthFacts, ReadsNumber DEF TakeU32, U32Image, NumberImage, U32, PutU32
<1>3. Reads(w, TakeU64(w), U64Image)
  BY WidthFacts, ReadsNumber DEF TakeU64, U64Image, NumberImage, U64, PutU64
<1>4. Reads(w, TakeId16(w), Id16Image)
  BY WidthFacts, ReadsNumber DEF TakeId16, Id16Image, NumberImage, Id16, PutId16
<1>5. Reads(w, TakeId(w), IdImage)
  BY WidthFacts, ReadsNumber DEF TakeId, IdImage, NumberImage, Id, PutId
<1> QED
  BY <1>1, <1>2, <1>3, <1>4, <1>5

\* What is written of each value, and how many octets it takes.
LEMMA PutWidths ==
    /\ \A n \in U16 : PutU16(n) \in Seq(Octet) /\ Len(PutU16(n)) = Width.u16
    /\ \A n \in U32 : PutU32(n) \in Seq(Octet) /\ Len(PutU32(n)) = Width.u32
    /\ \A n \in U64 : PutU64(n) \in Seq(Octet) /\ Len(PutU64(n)) = Width.u64
    /\ \A n \in Id16 : PutId16(n) \in Seq(Octet) /\ Len(PutId16(n)) = Width.id16
    /\ \A n \in Id : PutId(n) \in Seq(Octet) /\ Len(PutId(n)) = Width.id
<1>1. \A n \in U16 : PutU16(n) \in Seq(Octet) /\ Len(PutU16(n)) = Width.u16
  BY WidthFacts, NumberThenOctets DEF U16, PutU16
<1>2. \A n \in U32 : PutU32(n) \in Seq(Octet) /\ Len(PutU32(n)) = Width.u32
  BY WidthFacts, NumberThenOctets DEF U32, PutU32
<1>3. \A n \in U64 : PutU64(n) \in Seq(Octet) /\ Len(PutU64(n)) = Width.u64
  BY WidthFacts, NumberThenOctets DEF U64, PutU64
<1>4. \A n \in Id16 : PutId16(n) \in Seq(Octet) /\ Len(PutId16(n)) = Width.id16
  BY WidthFacts, NumberThenOctets DEF Id16, PutId16
<1>5. \A n \in Id : PutId(n) \in Seq(Octet) /\ Len(PutId(n)) = Width.id
  BY WidthFacts, NumberThenOctets DEF Id, PutId
<1> QED
  BY <1>1, <1>2, <1>3, <1>4, <1>5

LEMMA WidthImages ==
    /\ DOMAIN U16Image = U16 /\ \A n \in U16 : U16Image[n] = PutU16(n)
    /\ DOMAIN U32Image = U32 /\ \A n \in U32 : U32Image[n] = PutU32(n)
    /\ DOMAIN U64Image = U64 /\ \A n \in U64 : U64Image[n] = PutU64(n)
    /\ DOMAIN Id16Image = Id16 /\ \A n \in Id16 : Id16Image[n] = PutId16(n)
    /\ DOMAIN IdImage = Id /\ \A n \in Id : IdImage[n] = PutId(n)
BY DEF U16Image, U32Image, U64Image, Id16Image, IdImage

\* Octet for octet the same.
LEMMA SameOctets ==
    ASSUME NEW a \in Seq(Octet), NEW b \in Seq(Octet), Len(a) = Len(b),
           \A i \in 1 .. Len(a) : a[i] = b[i]
    PROVE  a = b
<1>1. a = [i \in 1 .. Len(a) |-> a[i]] /\ b = [i \in 1 .. Len(b) |-> b[i]]
  OBVIOUS
<1> QED
  BY <1>1

\* A length of two sequences one after the other.
LEMMA Concat ==
    ASSUME NEW a \in Seq(Octet), NEW b \in Seq(Octet)
    PROVE  a \o b \in Seq(Octet) /\ Len(a \o b) = Len(a) + Len(b)
OBVIOUS

\* Of a value of a field: put has its image, of so many octets.
Writes(put, v, image, size) ==
    v \in DOMAIN put /\ put[v] = image /\ image \in Seq(Octet) /\ Len(image) = size

\* Lists of values whose images are all of one size.
UniformImage(put, size) ==
    Images(put) /\ size \in Nat /\ \A v \in DOMAIN put : Len(put[v]) = size

LEMMA UniformList ==
    ASSUME NEW put, NEW size, UniformImage(put, size), NEW counts \in SUBSET Octet,
           NEW list \in ListsOf(put, counts)
    PROVE  Writes(ListImage(put, counts), list, ListBytes(put, list), 1 + Len(list) * size)
<1>1. Images(put) /\ size \in Nat /\ \A v \in DOMAIN put : Len(put[v]) = size
  BY DEF UniformImage
<1>2. list \in DOMAIN ListImage(put, counts)
  BY ListImageFacts
<1>3. ListImage(put, counts)[list] = ListBytes(put, list)
  BY ListImageFacts
<1>4. ListImage(put, counts)[list] \in Seq(Octet)
  BY <1>1, ListSize
<1>5. Len(ListImage(put, counts)[list]) = 1 + Len(list) * size
  BY <1>1, ListSize
<1> QED
  BY <1>2, <1>3, <1>4, <1>5 DEF Writes

\* Lists of numbers of fixed width.
U64List(counts) == ListImage(U64Image, counts)
IdList(counts) == ListImage(IdImage, counts)

LEMMA PutNumberLists ==
    ASSUME NEW counts \in SUBSET Octet
    PROVE  /\ \A list \in ListsOf(U64Image, counts) :
                 /\ ListImage(U64Image, counts)[list] = PutList(PutU64, list)
                 /\ PutList(PutU64, list) \in Seq(Octet)
                 /\ Len(PutList(PutU64, list)) = 1 + Len(list) * Width.u64
           /\ \A list \in ListsOf(IdImage, counts) :
                 /\ ListImage(IdImage, counts)[list] = PutList(PutId, list)
                 /\ PutList(PutId, list) \in Seq(Octet)
                 /\ Len(PutList(PutId, list)) = 1 + Len(list) * Width.id
<1>1. ASSUME NEW list \in ListsOf(U64Image, counts)
      PROVE  /\ ListImage(U64Image, counts)[list] = PutList(PutU64, list)
             /\ PutList(PutU64, list) \in Seq(Octet)
             /\ Len(PutList(PutU64, list)) = 1 + Len(list) * Width.u64
  <2>1. PutList(PutU64, list) = <<Len(list)>> \o FlattenSeq([i \in DOMAIN list |-> PutU64(list[i])])
    BY DEF PutList, PutAll
  <2>2. \A i \in DOMAIN list : list[i] \in DOMAIN U64Image
    BY ListImageFacts
  <2>3. [i \in DOMAIN list |-> U64Image[list[i]]] = [i \in DOMAIN list |-> PutU64(list[i])]
    BY <2>2, WidthImages
  <2>4. ListBytes(U64Image, list) = PutList(PutU64, list)
    BY <2>1, <2>3 DEF ListBytes
  <2>5. UniformImage(U64Image, Width.u64)
    BY WidthImages, WidthFacts, PutWidths DEF Images, UniformImage
  <2>6. Writes(ListImage(U64Image, counts), list, ListBytes(U64Image, list), 1 + Len(list) * Width.u64)
    BY <2>5, UniformList
  <2> QED
    BY <2>4, <2>6 DEF Writes
<1>2. ASSUME NEW list \in ListsOf(IdImage, counts)
      PROVE  /\ ListImage(IdImage, counts)[list] = PutList(PutId, list)
             /\ PutList(PutId, list) \in Seq(Octet)
             /\ Len(PutList(PutId, list)) = 1 + Len(list) * Width.id
  <2>1. PutList(PutId, list) = <<Len(list)>> \o FlattenSeq([i \in DOMAIN list |-> PutId(list[i])])
    BY DEF PutList, PutAll
  <2>2. \A i \in DOMAIN list : list[i] \in DOMAIN IdImage
    BY ListImageFacts
  <2>3. [i \in DOMAIN list |-> IdImage[list[i]]] = [i \in DOMAIN list |-> PutId(list[i])]
    BY <2>2, WidthImages
  <2>4. ListBytes(IdImage, list) = PutList(PutId, list)
    BY <2>1, <2>3 DEF ListBytes
  <2>5. UniformImage(IdImage, Width.id)
    BY WidthImages, WidthFacts, PutWidths DEF Images, UniformImage
  <2>6. Writes(ListImage(IdImage, counts), list, ListBytes(IdImage, list), 1 + Len(list) * Width.id)
    BY <2>5, UniformList
  <2> QED
    BY <2>4, <2>6 DEF Writes
<1> QED
  BY <1>1, <1>2

---------------------------------------------------------------------------
(* Fields and records.                                                     *)

LEMMA WidthWrites ==
    /\ DOMAIN U16Image = U16 /\ \A n \in U16 : Writes(U16Image, n, PutU16(n), Width.u16)
    /\ DOMAIN U32Image = U32 /\ \A n \in U32 : Writes(U32Image, n, PutU32(n), Width.u32)
    /\ DOMAIN U64Image = U64 /\ \A n \in U64 : Writes(U64Image, n, PutU64(n), Width.u64)
    /\ DOMAIN Id16Image = Id16 /\ \A n \in Id16 : Writes(Id16Image, n, PutId16(n), Width.id16)
    /\ DOMAIN IdImage = Id /\ \A n \in Id : Writes(IdImage, n, PutId(n), Width.id)
BY WidthImages, PutWidths DEF Writes

\* Options and octets with their length.
U64Option == ListImage(U64Image, {0, 1})
IdOption == ListImage(IdImage, {0, 1})

LEMMA OptionWrites ==
    /\ DOMAIN U64Option = Option(U64)
    /\ \A x \in Option(U64) :
          Writes(U64Option, x, PutList(PutU64, x), (1 + Len(x) * Width.u64))
    /\ DOMAIN IdOption = Option(Id)
    /\ \A x \in Option(Id) : Writes(IdOption, x, PutList(PutId, x), (1 + Len(x) * Width.id))
<1>1. {0, 1} \in SUBSET Octet
  BY DEF Octet
<1>2. ListsOf(U64Image, {0, 1}) = Option(U64) /\ ListsOf(IdImage, {0, 1}) = Option(Id)
  BY WidthImages, ListsFacts
<1>3. DOMAIN U64Option = Option(U64) /\ DOMAIN IdOption = Option(Id)
  BY <1>2 DEF U64Option, IdOption, ListImage
<1> QED
  BY <1>1, <1>2, <1>3, PutNumberLists DEF U64Option, IdOption, Writes

LEMMA BlobWrites ==
    ASSUME NEW maximum \in U16
    PROVE  /\ DOMAIN BlobImage(maximum) = Lists(Octet, maximum)
           /\ \A x \in Lists(Octet, maximum) :
                 Writes(BlobImage(maximum), x, PutOctets(x), (Width.u16 + Len(x)))
<1>1. \A x \in Lists(Octet, maximum) : x \in Seq(Octet) /\ Len(x) \in U16
  BY WidthFacts, NumbersAreNaturals DEF Lists, U16
<1>2. ASSUME NEW x \in Lists(Octet, maximum)
      PROVE  PutOctets(x) \in Seq(Octet) /\ Len(PutOctets(x)) = Width.u16 + Len(x)
  <2>1. PutU16(Len(x)) \in Seq(Octet) /\ Len(PutU16(Len(x))) = Width.u16
    BY <1>1, PutWidths
  <2> QED
    BY <1>1, <2>1, Concat DEF PutOctets
<1> QED
  BY <1>2 DEF BlobImage, Writes

\* Fields of one octet.
LEMMA OctetWrites ==
    /\ DOMAIN OctetImage = Octet /\ \A x \in Octet : Writes(OctetImage, x, <<x>>, 1)
    /\ DOMAIN BoolImage = BOOLEAN /\ \A b \in BOOLEAN : Writes(BoolImage, b, PutBool(b), 1)
    /\ DOMAIN BitsImage = SUBSET (0 .. 7)
    /\ \A bits \in SUBSET (0 .. 7) : Writes(BitsImage, bits, PutBits(bits), 1)
<1>1. << >> \in Seq(Octet)
  OBVIOUS
<1>2. Images(OctetImage) /\ Images(BoolImage) /\ Images(BitsImage)
  BY <1>1, ReadsU8, ReadsBool, ReadsBits DEF Reads
<1>3. DOMAIN OctetImage = Octet /\ \A x \in Octet : Writes(OctetImage, x, <<x>>, 1)
  BY <1>2 DEF Images, OctetImage, Writes
<1>4. DOMAIN BoolImage = BOOLEAN /\ \A b \in BOOLEAN : Writes(BoolImage, b, PutBool(b), 1)
  <2>1. \A b \in BOOLEAN : Len(PutBool(b)) = 1
    BY DEF PutBool
  <2> QED
    BY <1>2, <2>1 DEF Images, BoolImage, Writes
<1>5. /\ DOMAIN BitsImage = SUBSET (0 .. 7)
      /\ \A bits \in SUBSET (0 .. 7) : Writes(BitsImage, bits, PutBits(bits), 1)
  <2> DEFINE Sets == SUBSET (0 .. 7)
  <2>1. \A bits \in Sets : Len(PutBits(bits)) = 1
    BY DEF PutBits
  <2>2. DOMAIN BitsImage = Sets /\ \A bits \in Sets : BitsImage[bits] = PutBits(bits)
    BY DEF BitsImage
  <2> HIDE DEF Sets
  <2>3. \A bits \in Sets : Writes(BitsImage, bits, PutBits(bits), 1)
    BY <1>2, <2>1, <2>2 DEF Images, Writes
  <2> QED
    BY <2>2, <2>3 DEF Sets
<1> QED
  BY <1>3, <1>4, <1>5

LEMMA EnumWrites ==
    ASSUME NEW values, NEW n, Enumeration(values, n)
    PROVE  /\ DOMAIN EnumImage(values) = ToSet(values)
           /\ \A x \in ToSet(values) : Writes(EnumImage(values), x, PutEnum(values, x), 1)
<1>1. << >> \in Seq(Octet)
  OBVIOUS
<1>2. Images(EnumImage(values))
  BY <1>1, ReadsEnum DEF Reads
<1>3. \A x \in ToSet(values) : Len(PutEnum(values, x)) = 1
  BY DEF PutEnum
<1>4. DOMAIN EnumImage(values) = ToSet(values)
      /\ \A x \in ToSet(values) : EnumImage(values)[x] = PutEnum(values, x)
  BY DEF EnumImage
<1> QED
  BY <1>2, <1>3, <1>4 DEF Images, Writes

LEMMA Enumerations ==
    /\ Enumeration(SecurityClasses, 3) /\ Enumeration(OfferModes, 2)
    /\ Enumeration(ReceiptStatuses, 4) /\ Enumeration(FailureCodes, 13)
<1>1. Enumeration(SecurityClasses, 3)
  BY DEF Enumeration, SecurityClasses
<1>2. Enumeration(OfferModes, 2)
  BY DEF Enumeration, OfferModes
<1>3. Enumeration(ReceiptStatuses, 4)
  BY DEF Enumeration, ReceiptStatuses
<1>4. Enumeration(FailureCodes, 13)
  BY DEF Enumeration, FailureCodes
<1> QED
  BY <1>1, <1>2, <1>3, <1>4

LEMMA ModeWrites ==
    /\ DOMAIN EnumImage(OfferModes) = ToSet(OfferModes)
    /\ \A x \in ToSet(OfferModes) : Writes(EnumImage(OfferModes), x, PutEnum(OfferModes, x), 1)
BY Enumerations, EnumWrites

LEMMA SecurityWrites ==
    /\ DOMAIN EnumImage(SecurityClasses) = ToSet(SecurityClasses)
    /\ \A x \in ToSet(SecurityClasses) :
          Writes(EnumImage(SecurityClasses), x, PutEnum(SecurityClasses, x), 1)
BY Enumerations, EnumWrites

LEMMA StatusWrites ==
    /\ DOMAIN EnumImage(ReceiptStatuses) = ToSet(ReceiptStatuses)
    /\ \A x \in ToSet(ReceiptStatuses) :
          Writes(EnumImage(ReceiptStatuses), x, PutEnum(ReceiptStatuses, x), 1)
BY Enumerations, EnumWrites

LEMMA CodeWrites ==
    /\ DOMAIN EnumImage(FailureCodes) = ToSet(FailureCodes)
    /\ \A x \in ToSet(FailureCodes) :
          Writes(EnumImage(FailureCodes), x, PutEnum(FailureCodes, x), 1)
BY Enumerations, EnumWrites

\* The lists of records: of the sum of their sizes.
LEMMA ListWrites ==
    ASSUME NEW put, Images(put), NEW counts \in SUBSET Octet,
           NEW list \in ListsOf(put, counts)
    PROVE  Writes(ListImage(put, counts), list,
                  <<Len(list)>> \o FlattenSeq([i \in DOMAIN list |-> put[list[i]]]),
                  1 + SumOf([i \in DOMAIN list |-> Len(put[list[i]])]))
<1> DEFINE bytes == <<Len(list)>> \o FlattenSeq([i \in DOMAIN list |-> put[list[i]]])
           image == ListImage(put, counts)[list]
           lens == [i \in DOMAIN list |-> Len(put[list[i]])]
<1>1. list \in DOMAIN ListImage(put, counts) /\ DOMAIN list = 1 .. Len(list)
  BY ListImageFacts
<1>2. image = ListBytes(put, list)
  BY ListImageFacts
<1>3. ListBytes(put, list) = bytes
  BY DEF ListBytes
<1>4. image \in Seq(Octet) /\ Len(image) = 1 + SumOf([i \in 1 .. Len(list) |-> Len(put[list[i]])])
  BY ListSize
<1>5. lens = [i \in 1 .. Len(list) |-> Len(put[list[i]])]
  BY <1>1
<1> HIDE DEF bytes, lens
<1>6. Writes(ListImage(put, counts), list, bytes, 1 + SumOf(lens))
  BY <1>1, <1>2, <1>3, <1>4, <1>5 DEF Writes
<1> QED
  BY <1>6 DEF bytes, lens

\* Counts up to a literal of the code are octets.
LEMMA Counts ==
    /\ 0 .. MaxCapabilityProtocols \in SUBSET Octet
    /\ 0 .. MaxCapabilitySchemas \in SUBSET Octet
    /\ 0 .. MaxCapabilityCodecs \in SUBSET Octet
    /\ 0 .. MaxExtensions \in SUBSET Octet
    /\ 0 .. MaxOfferDescriptors \in SUBSET Octet
    /\ 0 .. MaxRequestSelections \in SUBSET Octet
<1>1. \A m \in Nat : m <= 255 => 0 .. m \in SUBSET Octet
  BY DEF Octet
<1> QED
  BY <1>1, LimitsAssumption, BoundsAssumption DEF Octet

\* A descriptor.
DescriptorNames == << "sequence", "object_id", "part_id", "representation_id",
                      "schema_fingerprint", "codec_id", "codec_revision",
                      "codec_parameters", "encoded_length", "decoded_length",
                      "content_digest", "usefulness_expiry" >>
DescriptorPuts ==
    << U64Image, IdImage, U32Image, IdImage, IdImage, U32Image,
       U32Image, BlobImage(MaxCodecParameterOctets), U64Image, U64Option, IdImage,
       U64Option >>
FitEntry ==
    [ sequence : U64, object_id : Id, part_id : U32, representation_id : Id,
      schema_fingerprint : Id, codec_id : U32, codec_revision : U32,
      codec_parameters : Lists(Octet, MaxCodecParameterOctets), encoded_length : U64,
      decoded_length : Option(U64), content_digest : Id,
      usefulness_expiry : Option(U64) ]
DescriptorImage == [e \in FitEntry |-> PutDescriptor(e)]

LEMMA DescriptorFields ==
    /\ Assembles(12, DescriptorNames, DescriptorPuts, DescriptorImage)
    /\ \A e \in FitEntry :
          /\ PutDescriptor(e) \in Seq(Octet)
          /\ Len(PutDescriptor(e)) =
                Width.u64 + Width.id + Width.u32 +
                Width.id + Width.id + Width.u32 + Width.u32 +
                (Width.u16 + Len(e.codec_parameters)) + Width.u64 +
                (1 + Len(e.decoded_length) * Width.u64) + Width.id +
                (1 + Len(e.usefulness_expiry) * Width.u64)
<1>1. \A i \in 1 .. 12 : \A j \in 1 .. 12 : DescriptorNames[i] = DescriptorNames[j] => i = j
  BY DEF DescriptorNames
<1>2. Fields(DescriptorNames, 12) =
         {"sequence", "object_id", "part_id",
          "representation_id", "schema_fingerprint", "codec_id", "codec_revision",
          "codec_parameters", "encoded_length", "decoded_length", "content_digest",
          "usefulness_expiry"}
  BY DEF DescriptorNames, Fields
<1>3. /\ DOMAIN DescriptorPuts[1] = U64
      /\ DOMAIN DescriptorPuts[2] = Id
      /\ DOMAIN DescriptorPuts[3] = U32
      /\ DOMAIN DescriptorPuts[4] = Id
      /\ DOMAIN DescriptorPuts[5] = Id
      /\ DOMAIN DescriptorPuts[6] = U32
      /\ DOMAIN DescriptorPuts[7] = U32
      /\ DOMAIN DescriptorPuts[8] = Lists(Octet, MaxCodecParameterOctets)
      /\ DOMAIN DescriptorPuts[9] = U64
      /\ DOMAIN DescriptorPuts[10] = Option(U64)
      /\ DOMAIN DescriptorPuts[11] = Id
      /\ DOMAIN DescriptorPuts[12] = Option(U64)
  BY WidthWrites, BlobWrites, BoundsAssumption, OptionWrites DEF DescriptorPuts
<1>4. ASSUME NEW e \in FitEntry
      PROVE  /\ Writes(DescriptorPuts[1], e.sequence,
                       PutU64(e.sequence), Width.u64)
             /\ Writes(DescriptorPuts[2], e.object_id,
                       PutId(e.object_id), Width.id)
             /\ Writes(DescriptorPuts[3], e.part_id,
                       PutU32(e.part_id), Width.u32)
             /\ Writes(DescriptorPuts[4], e.representation_id,
                       PutId(e.representation_id), Width.id)
             /\ Writes(DescriptorPuts[5], e.schema_fingerprint,
                       PutId(e.schema_fingerprint), Width.id)
             /\ Writes(DescriptorPuts[6], e.codec_id,
                       PutU32(e.codec_id), Width.u32)
             /\ Writes(DescriptorPuts[7], e.codec_revision,
                       PutU32(e.codec_revision), Width.u32)
             /\ Writes(DescriptorPuts[8], e.codec_parameters,
                       PutOctets(e.codec_parameters), (Width.u16 + Len(e.codec_parameters)))
             /\ Writes(DescriptorPuts[9], e.encoded_length,
                       PutU64(e.encoded_length), Width.u64)
             /\ Writes(DescriptorPuts[10], e.decoded_length,
                       PutList(PutU64, e.decoded_length), (1 + Len(e.decoded_length) * Width.u64))
             /\ Writes(DescriptorPuts[11], e.content_digest,
                       PutId(e.content_digest), Width.id)
             /\ Writes(DescriptorPuts[12], e.usefulness_expiry,
                       PutList(PutU64, e.usefulness_expiry), (1 + Len(e.usefulness_expiry) * Width.u64))
  BY WidthWrites, BlobWrites, BoundsAssumption, OptionWrites, Zenon DEF DescriptorPuts, FitEntry
<1>5. ASSUME NEW e \in FitEntry
      PROVE  /\ e = [name \in Fields(DescriptorNames, 12) |-> e[name]]
             /\ \A i \in 1 .. 12 : e[DescriptorNames[i]] \in DOMAIN DescriptorPuts[i]
             /\ PutDescriptor(e) =
                   FlattenSeq([i \in 1 .. 12 |-> DescriptorPuts[i][e[DescriptorNames[i]]]])
             /\ PutDescriptor(e) \in Seq(Octet)
             /\ Len(PutDescriptor(e)) =
                   Width.u64 + Width.id +
                   Width.u32 + Width.id + Width.id + Width.u32 + Width.u32 +
                   (Width.u16 + Len(e.codec_parameters)) + Width.u64 +
                   (1 + Len(e.decoded_length) * Width.u64) + Width.id +
                   (1 + Len(e.usefulness_expiry) * Width.u64)
  <2> DEFINE image ==
             << PutU64(e.sequence), PutId(e.object_id),
                PutU32(e.part_id), PutId(e.representation_id),
                PutId(e.schema_fingerprint), PutU32(e.codec_id),
                PutU32(e.codec_revision), PutOctets(e.codec_parameters),
                PutU64(e.encoded_length), PutList(PutU64, e.decoded_length),
                PutId(e.content_digest), PutList(PutU64, e.usefulness_expiry) >>
             size ==
             << Width.u64, Width.id, Width.u32, Width.id, Width.id,
                Width.u32, Width.u32, (Width.u16 + Len(e.codec_parameters)), Width.u64,
                (1 + Len(e.decoded_length) * Width.u64), Width.id,
                (1 + Len(e.usefulness_expiry) * Width.u64) >>
  <2>1. e = [name \in {"sequence", "object_id", "part_id", "representation_id",
                  "schema_fingerprint", "codec_id", "codec_revision",
                  "codec_parameters", "encoded_length", "decoded_length",
                  "content_digest", "usefulness_expiry"} |-> e[name]]
    BY DEF FitEntry
  <2>2. \A i \in 1 .. 12 : Writes(DescriptorPuts[i], e[DescriptorNames[i]], image[i], size[i])
    <3>1. Writes(DescriptorPuts[1], e[DescriptorNames[1]], image[1], size[1])
      BY <1>4 DEF DescriptorNames
    <3>2. Writes(DescriptorPuts[2], e[DescriptorNames[2]], image[2], size[2])
      BY <1>4 DEF DescriptorNames
    <3>3. Writes(DescriptorPuts[3], e[DescriptorNames[3]], image[3], size[3])
      BY <1>4 DEF DescriptorNames
    <3>4. Writes(DescriptorPuts[4], e[DescriptorNames[4]], image[4], size[4])
      BY <1>4 DEF DescriptorNames
    <3>5. Writes(DescriptorPuts[5], e[DescriptorNames[5]], image[5], size[5])
      BY <1>4 DEF DescriptorNames
    <3>6. Writes(DescriptorPuts[6], e[DescriptorNames[6]], image[6], size[6])
      BY <1>4 DEF DescriptorNames
    <3>7. Writes(DescriptorPuts[7], e[DescriptorNames[7]], image[7], size[7])
      BY <1>4 DEF DescriptorNames
    <3>8. Writes(DescriptorPuts[8], e[DescriptorNames[8]], image[8], size[8])
      BY <1>4 DEF DescriptorNames
    <3>9. Writes(DescriptorPuts[9], e[DescriptorNames[9]], image[9], size[9])
      BY <1>4 DEF DescriptorNames
    <3>10. Writes(DescriptorPuts[10], e[DescriptorNames[10]], image[10], size[10])
      BY <1>4 DEF DescriptorNames
    <3>11. Writes(DescriptorPuts[11], e[DescriptorNames[11]], image[11], size[11])
      BY <1>4 DEF DescriptorNames
    <3>12. Writes(DescriptorPuts[12], e[DescriptorNames[12]], image[12], size[12])
      BY <1>4 DEF DescriptorNames
    <3> HIDE DEF image, size
    <3> QED
      BY <3>1, <3>2, <3>3, <3>4, <3>5, <3>6, <3>7, <3>8, <3>9, <3>10, <3>11, <3>12
  <2>3. PutDescriptor(e) = image[1] \o image[2] \o image[3] \o image[4] \o image[5] \o
            image[6] \o image[7] \o image[8] \o image[9] \o image[10] \o image[11] \o
            image[12]
    BY DEF PutDescriptor
  <2>4. size[1] + size[2] + size[3] + size[4] + size[5] + size[6] + size[7] + size[8] +
        size[9] + size[10] + size[11] + size[12] =
          Width.u64 + Width.id + Width.u32 + Width.id + Width.id + Width.u32 +
          Width.u32 + (Width.u16 + Len(e.codec_parameters)) + Width.u64 +
          (1 + Len(e.decoded_length) * Width.u64) + Width.id +
          (1 + Len(e.usefulness_expiry) * Width.u64)
    OBVIOUS
  <2>5. image = [i \in 1 .. 12 |-> image[i]]
    OBVIOUS
  <2> HIDE DEF image, size
  <2>6. /\ \A i \in 1 .. 12 : e[DescriptorNames[i]] \in DOMAIN DescriptorPuts[i]
        /\ [i \in 1 .. 12 |-> DescriptorPuts[i][e[DescriptorNames[i]]]] = image
        /\ image \in [1 .. 12 -> Seq(Octet)]
        /\ \A i \in 1 .. 12 : Len(image[i]) = size[i]
    <3>1. \A i \in 1 .. 12 :
             /\ e[DescriptorNames[i]] \in DOMAIN DescriptorPuts[i]
             /\ DescriptorPuts[i][e[DescriptorNames[i]]] = image[i]
             /\ image[i] \in Seq(Octet) /\ Len(image[i]) = size[i]
      BY <2>2 DEF Writes
    <3>2. [i \in 1 .. 12 |-> DescriptorPuts[i][e[DescriptorNames[i]]]] = [i \in 1 .. 12 |-> image[i]]
      BY <3>1
    <3>3. [i \in 1 .. 12 |-> image[i]] \in [1 .. 12 -> Seq(Octet)]
      BY <3>1
    <3> QED
      BY <2>5, <3>1, <3>2, <3>3
  <2>7. /\ FlattenSeq(image) \in Seq(Octet)
        /\ FlattenSeq(image) = image[1] \o image[2] \o image[3] \o image[4] \o
                              image[5] \o image[6] \o image[7] \o image[8] \o
                              image[9] \o image[10] \o image[11] \o image[12]
        /\ Len(FlattenSeq(image)) = Len(image[1]) + Len(image[2]) + Len(image[3]) +
                                    Len(image[4]) + Len(image[5]) + Len(image[6]) +
                                    Len(image[7]) + Len(image[8]) + Len(image[9]) +
                                    Len(image[10]) + Len(image[11]) + Len(image[12])
    BY <2>6, Parts12
  <2>8. /\ Len(image[1]) = size[1]
        /\ Len(image[2]) = size[2]
        /\ Len(image[3]) = size[3]
        /\ Len(image[4]) = size[4]
        /\ Len(image[5]) = size[5]
        /\ Len(image[6]) = size[6]
        /\ Len(image[7]) = size[7]
        /\ Len(image[8]) = size[8]
        /\ Len(image[9]) = size[9]
        /\ Len(image[10]) = size[10]
        /\ Len(image[11]) = size[11]
        /\ Len(image[12]) = size[12]
    BY <2>6
  <2>9. Len(FlattenSeq(image)) = size[1] + size[2] + size[3] + size[4] + size[5] +
                                 size[6] + size[7] + size[8] + size[9] + size[10] +
                                 size[11] + size[12]
    BY <2>7, <2>8
  <2>10. e = [name \in Fields(DescriptorNames, 12) |-> e[name]]
    BY <1>2, <2>1, Zenon
  <2>11. PutDescriptor(e) = FlattenSeq(image)
    BY <2>3, <2>7, Zenon
  <2>12. PutDescriptor(e) \in Seq(Octet)
    BY <2>7, <2>11, Zenon
  <2>13. PutDescriptor(e) = FlattenSeq([i \in 1 .. 12 |-> DescriptorPuts[i][e[DescriptorNames[i]]]])
    BY <2>6, <2>11, Zenon
  <2>14. Len(PutDescriptor(e)) =
           Width.u64 + Width.id + Width.u32 + Width.id + Width.id + Width.u32 +
           Width.u32 + (Width.u16 + Len(e.codec_parameters)) + Width.u64 +
           (1 + Len(e.decoded_length) * Width.u64) + Width.id +
           (1 + Len(e.usefulness_expiry) * Width.u64)
    BY <2>4, <2>9, <2>11, Zenon
  <2> QED
    BY <2>6, <2>10, <2>12, <2>13, <2>14, Zenon
<1>6. ASSUME NEW values \in Tuples(DescriptorPuts, 12)
      PROVE  \E e \in FitEntry : \A i \in 1 .. 12 : e[DescriptorNames[i]] = values[i]
  <2>1. /\ values[1] \in U64
        /\ values[2] \in Id
        /\ values[3] \in U32
        /\ values[4] \in Id
        /\ values[5] \in Id
        /\ values[6] \in U32
        /\ values[7] \in U32
        /\ values[8] \in Lists(Octet, MaxCodecParameterOctets)
        /\ values[9] \in U64
        /\ values[10] \in Option(U64)
        /\ values[11] \in Id
        /\ values[12] \in Option(U64)
    BY <1>3 DEF Tuples
  <2> DEFINE e == [ sequence |-> values[1], object_id |-> values[2],
                    part_id |-> values[3], representation_id |-> values[4],
                    schema_fingerprint |-> values[5], codec_id |-> values[6],
                    codec_revision |-> values[7], codec_parameters |-> values[8],
                    encoded_length |-> values[9], decoded_length |-> values[10],
                    content_digest |-> values[11], usefulness_expiry |-> values[12] ]
  <2>2. e \in FitEntry
    BY <2>1 DEF FitEntry
  <2>3. \A i \in 1 .. 12 : e[DescriptorNames[i]] = values[i]
    BY DEF DescriptorNames
  <2> HIDE DEF e
  <2> QED
    BY <2>2, <2>3
<1>7. DOMAIN DescriptorImage = FitEntry /\ \A e \in FitEntry : DescriptorImage[e] = PutDescriptor(e)
  BY DEF DescriptorImage
<1> QED
  BY <1>1, <1>5, <1>6, <1>7 DEF Assembles

LEMMA DescriptorListWrites ==
    ASSUME NEW maximum \in Nat, 0 .. maximum \in SUBSET Octet
    PROVE  /\ DOMAIN ListImage(DescriptorImage, 0 .. maximum) = Lists(FitEntry, maximum)
           /\ \A list \in Lists(FitEntry, maximum) :
                 Writes(ListImage(DescriptorImage, 0 .. maximum), list,
                        PutList(PutDescriptor, list), (1 + SumOver(DescriptorSize, list)))
<1>1. /\ DOMAIN DescriptorImage = FitEntry
      /\ \A x \in FitEntry : DescriptorImage[x] = PutDescriptor(x) /\ PutDescriptor(x) \in Seq(Octet)
      /\ \A x \in FitEntry : Len(PutDescriptor(x)) = DescriptorSize(x)
  BY DescriptorFields DEF DescriptorImage, DescriptorSize
<1>2. Images(DescriptorImage) /\ ListsOf(DescriptorImage, 0 .. maximum) = Lists(FitEntry, maximum)
  BY <1>1, ListsFacts DEF Images
<1>3. DOMAIN ListImage(DescriptorImage, 0 .. maximum) = Lists(FitEntry, maximum)
  BY <1>2 DEF ListImage
<1>4. ASSUME NEW list \in Lists(FitEntry, maximum)
      PROVE  Writes(ListImage(DescriptorImage, 0 .. maximum), list,
                    PutList(PutDescriptor, list), (1 + SumOver(DescriptorSize, list)))
  <2>1. \A i \in DOMAIN list : list[i] \in FitEntry
    BY DEF Lists
  <2>2. [i \in DOMAIN list |-> DescriptorImage[list[i]]] = [i \in DOMAIN list |-> PutDescriptor(list[i])]
    BY <1>1, <2>1
  <2>3. PutList(PutDescriptor, list) = <<Len(list)>> \o FlattenSeq([i \in DOMAIN list |-> PutDescriptor(list[i])])
    BY DEF PutList, PutAll
  <2>4. [i \in DOMAIN list |-> Len(DescriptorImage[list[i]])] = [i \in DOMAIN list |-> DescriptorSize(list[i])]
    BY <1>1, <2>1
  <2>5. Writes(ListImage(DescriptorImage, 0 .. maximum), list,
               <<Len(list)>> \o FlattenSeq([i \in DOMAIN list |-> DescriptorImage[list[i]]]),
               1 + SumOf([i \in DOMAIN list |-> Len(DescriptorImage[list[i]])]))
    BY <1>2, ListWrites
  <2>6. SumOver(DescriptorSize, list) = SumOf([i \in DOMAIN list |-> DescriptorSize(list[i])])
    BY DEF SumOver
  <2> QED
    BY <2>2, <2>3, <2>4, <2>5, <2>6
<1> QED
  BY <1>3, <1>4

\* A protocol generation, a codec preference, a declared extension, a selection.
GenerationNames == << "major", "minor" >>
GenerationPuts ==
    << U16Image, U16Image >>
GenerationImage == [g \in WireGeneration |-> PutGeneration(g)]

LEMMA GenerationFields ==
    /\ Assembles(2, GenerationNames, GenerationPuts, GenerationImage)
    /\ \A g \in WireGeneration :
          /\ PutGeneration(g) \in Seq(Octet)
          /\ Len(PutGeneration(g)) =
                Width.u16 + Width.u16
<1>1. \A i \in 1 .. 2 : \A j \in 1 .. 2 : GenerationNames[i] = GenerationNames[j] => i = j
  BY DEF GenerationNames
<1>2. Fields(GenerationNames, 2) =
         {"major", "minor"}
  BY DEF GenerationNames, Fields
<1>3. /\ DOMAIN GenerationPuts[1] = U16
      /\ DOMAIN GenerationPuts[2] = U16
  BY WidthWrites DEF GenerationPuts
<1>4. ASSUME NEW g \in WireGeneration
      PROVE  /\ Writes(GenerationPuts[1], g.major,
                       PutU16(g.major), Width.u16)
             /\ Writes(GenerationPuts[2], g.minor,
                       PutU16(g.minor), Width.u16)
  BY WidthWrites DEF GenerationPuts, WireGeneration
<1>5. ASSUME NEW g \in WireGeneration
      PROVE  /\ g = [name \in Fields(GenerationNames, 2) |-> g[name]]
             /\ \A i \in 1 .. 2 : g[GenerationNames[i]] \in DOMAIN GenerationPuts[i]
             /\ PutGeneration(g) =
                   FlattenSeq([i \in 1 .. 2 |-> GenerationPuts[i][g[GenerationNames[i]]]])
             /\ PutGeneration(g) \in Seq(Octet)
             /\ Len(PutGeneration(g)) =
                   Width.u16 + Width.u16
  <2> DEFINE image ==
             << PutU16(g.major), PutU16(g.minor) >>
             size ==
             << Width.u16, Width.u16 >>
  <2>1. g = [name \in {"major", "minor"} |-> g[name]]
    BY DEF WireGeneration
  <2>2. \A i \in 1 .. 2 : Writes(GenerationPuts[i], g[GenerationNames[i]], image[i], size[i])
    <3>1. Writes(GenerationPuts[1], g[GenerationNames[1]], image[1], size[1])
      BY <1>4 DEF GenerationNames
    <3>2. Writes(GenerationPuts[2], g[GenerationNames[2]], image[2], size[2])
      BY <1>4 DEF GenerationNames
    <3> HIDE DEF image, size
    <3> QED
      BY <3>1, <3>2
  <2>3. PutGeneration(g) = image[1] \o image[2]
    BY DEF PutGeneration
  <2>4. size[1] + size[2] =
          Width.u16 + Width.u16
    OBVIOUS
  <2>5. image = [i \in 1 .. 2 |-> image[i]]
    OBVIOUS
  <2> HIDE DEF image, size
  <2>6. /\ \A i \in 1 .. 2 : g[GenerationNames[i]] \in DOMAIN GenerationPuts[i]
        /\ [i \in 1 .. 2 |-> GenerationPuts[i][g[GenerationNames[i]]]] = image
        /\ image \in [1 .. 2 -> Seq(Octet)]
        /\ \A i \in 1 .. 2 : Len(image[i]) = size[i]
    <3>1. \A i \in 1 .. 2 :
             /\ g[GenerationNames[i]] \in DOMAIN GenerationPuts[i]
             /\ GenerationPuts[i][g[GenerationNames[i]]] = image[i]
             /\ image[i] \in Seq(Octet) /\ Len(image[i]) = size[i]
      BY <2>2 DEF Writes
    <3>2. [i \in 1 .. 2 |-> GenerationPuts[i][g[GenerationNames[i]]]] = [i \in 1 .. 2 |-> image[i]]
      BY <3>1
    <3>3. [i \in 1 .. 2 |-> image[i]] \in [1 .. 2 -> Seq(Octet)]
      BY <3>1
    <3> QED
      BY <2>5, <3>1, <3>2, <3>3
  <2>7. /\ FlattenSeq(image) \in Seq(Octet)
        /\ FlattenSeq(image) = image[1] \o image[2]
        /\ Len(FlattenSeq(image)) = Len(image[1]) + Len(image[2])
    BY <2>6, Parts2
  <2>8. /\ Len(image[1]) = size[1]
        /\ Len(image[2]) = size[2]
    BY <2>6
  <2>9. Len(FlattenSeq(image)) = size[1] + size[2]
    BY <2>7, <2>8
  <2> QED
    BY <1>2, <2>1, <2>3, <2>4, <2>6, <2>7, <2>9
<1>6. ASSUME NEW values \in Tuples(GenerationPuts, 2)
      PROVE  \E g \in WireGeneration : \A i \in 1 .. 2 : g[GenerationNames[i]] = values[i]
  <2>1. /\ values[1] \in U16
        /\ values[2] \in U16
    BY <1>3 DEF Tuples
  <2> DEFINE g == [ major |-> values[1], minor |-> values[2] ]
  <2>2. g \in WireGeneration
    BY <2>1 DEF WireGeneration
  <2>3. \A i \in 1 .. 2 : g[GenerationNames[i]] = values[i]
    BY DEF GenerationNames
  <2> HIDE DEF g
  <2> QED
    BY <2>2, <2>3
<1>7. DOMAIN GenerationImage = WireGeneration /\ \A g \in WireGeneration : GenerationImage[g] = PutGeneration(g)
  BY DEF GenerationImage
<1> QED
  BY <1>1, <1>5, <1>6, <1>7 DEF Assembles

LEMMA GenerationListWrites ==
    ASSUME NEW maximum \in Nat, 0 .. maximum \in SUBSET Octet
    PROVE  /\ DOMAIN ListImage(GenerationImage, 0 .. maximum) = Lists(WireGeneration, maximum)
           /\ \A list \in Lists(WireGeneration, maximum) :
                 Writes(ListImage(GenerationImage, 0 .. maximum), list,
                        PutList(PutGeneration, list), (1 + Len(list) * (Width.u16 + Width.u16)))
<1>1. /\ DOMAIN GenerationImage = WireGeneration
      /\ \A x \in WireGeneration : GenerationImage[x] = PutGeneration(x) /\ PutGeneration(x) \in Seq(Octet)
      /\ \A x \in WireGeneration : Len(PutGeneration(x)) = (Width.u16 + Width.u16)
  BY GenerationFields DEF GenerationImage, PutGeneration
<1>2. Images(GenerationImage) /\ ListsOf(GenerationImage, 0 .. maximum) = Lists(WireGeneration, maximum)
  BY <1>1, ListsFacts DEF Images
<1>3. DOMAIN ListImage(GenerationImage, 0 .. maximum) = Lists(WireGeneration, maximum)
  BY <1>2 DEF ListImage
<1>4. ASSUME NEW list \in Lists(WireGeneration, maximum)
      PROVE  Writes(ListImage(GenerationImage, 0 .. maximum), list,
                    PutList(PutGeneration, list), (1 + Len(list) * (Width.u16 + Width.u16)))
  <2>1. \A i \in DOMAIN list : list[i] \in WireGeneration
    BY DEF Lists
  <2>2. [i \in DOMAIN list |-> GenerationImage[list[i]]] = [i \in DOMAIN list |-> PutGeneration(list[i])]
    BY <1>1, <2>1
  <2>3. PutList(PutGeneration, list) = <<Len(list)>> \o FlattenSeq([i \in DOMAIN list |-> PutGeneration(list[i])])
    BY DEF PutList, PutAll
  <2>4. ListBytes(GenerationImage, list) = PutList(PutGeneration, list)
    BY <2>2, <2>3 DEF ListBytes
  <2>5. UniformImage(GenerationImage, (Width.u16 + Width.u16))
    BY <1>1, <1>2, WidthFacts DEF UniformImage
  <2>6. list \in ListsOf(GenerationImage, 0 .. maximum)
    BY <1>2
  <2> QED
    BY <2>4, <2>5, <2>6, UniformList
<1> QED
  BY <1>3, <1>4

PreferenceNames == << "codec_id", "revision", "schema_fingerprint" >>
PreferencePuts ==
    << U32Image, U32Image, IdImage >>
PreferenceImage == [p \in WirePreference |-> PutPreference(p)]

LEMMA PreferenceFields ==
    /\ Assembles(3, PreferenceNames, PreferencePuts, PreferenceImage)
    /\ \A p \in WirePreference :
          /\ PutPreference(p) \in Seq(Octet)
          /\ Len(PutPreference(p)) =
                Width.u32 + Width.u32 + Width.id
<1>1. \A i \in 1 .. 3 : \A j \in 1 .. 3 : PreferenceNames[i] = PreferenceNames[j] => i = j
  BY DEF PreferenceNames
<1>2. Fields(PreferenceNames, 3) =
         {"codec_id", "revision",
          "schema_fingerprint"}
  BY DEF PreferenceNames, Fields
<1>3. /\ DOMAIN PreferencePuts[1] = U32
      /\ DOMAIN PreferencePuts[2] = U32
      /\ DOMAIN PreferencePuts[3] = Id
  BY WidthWrites DEF PreferencePuts
<1>4. ASSUME NEW p \in WirePreference
      PROVE  /\ Writes(PreferencePuts[1], p.codec_id,
                       PutU32(p.codec_id), Width.u32)
             /\ Writes(PreferencePuts[2], p.revision,
                       PutU32(p.revision), Width.u32)
             /\ Writes(PreferencePuts[3], p.schema_fingerprint,
                       PutId(p.schema_fingerprint), Width.id)
  BY WidthWrites DEF PreferencePuts, WirePreference
<1>5. ASSUME NEW p \in WirePreference
      PROVE  /\ p = [name \in Fields(PreferenceNames, 3) |-> p[name]]
             /\ \A i \in 1 .. 3 : p[PreferenceNames[i]] \in DOMAIN PreferencePuts[i]
             /\ PutPreference(p) =
                   FlattenSeq([i \in 1 .. 3 |-> PreferencePuts[i][p[PreferenceNames[i]]]])
             /\ PutPreference(p) \in Seq(Octet)
             /\ Len(PutPreference(p)) =
                   Width.u32 + Width.u32 +
                   Width.id
  <2> DEFINE image ==
             << PutU32(p.codec_id), PutU32(p.revision),
                PutId(p.schema_fingerprint) >>
             size ==
             << Width.u32, Width.u32, Width.id >>
  <2>1. p = [name \in {"codec_id", "revision", "schema_fingerprint"} |-> p[name]]
    BY DEF WirePreference
  <2>2. \A i \in 1 .. 3 : Writes(PreferencePuts[i], p[PreferenceNames[i]], image[i], size[i])
    <3>1. Writes(PreferencePuts[1], p[PreferenceNames[1]], image[1], size[1])
      BY <1>4 DEF PreferenceNames
    <3>2. Writes(PreferencePuts[2], p[PreferenceNames[2]], image[2], size[2])
      BY <1>4 DEF PreferenceNames
    <3>3. Writes(PreferencePuts[3], p[PreferenceNames[3]], image[3], size[3])
      BY <1>4 DEF PreferenceNames
    <3> HIDE DEF image, size
    <3> QED
      BY <3>1, <3>2, <3>3
  <2>3. PutPreference(p) = image[1] \o image[2] \o image[3]
    BY DEF PutPreference
  <2>4. size[1] + size[2] + size[3] =
          Width.u32 + Width.u32 + Width.id
    OBVIOUS
  <2>5. image = [i \in 1 .. 3 |-> image[i]]
    OBVIOUS
  <2> HIDE DEF image, size
  <2>6. /\ \A i \in 1 .. 3 : p[PreferenceNames[i]] \in DOMAIN PreferencePuts[i]
        /\ [i \in 1 .. 3 |-> PreferencePuts[i][p[PreferenceNames[i]]]] = image
        /\ image \in [1 .. 3 -> Seq(Octet)]
        /\ \A i \in 1 .. 3 : Len(image[i]) = size[i]
    <3>1. \A i \in 1 .. 3 :
             /\ p[PreferenceNames[i]] \in DOMAIN PreferencePuts[i]
             /\ PreferencePuts[i][p[PreferenceNames[i]]] = image[i]
             /\ image[i] \in Seq(Octet) /\ Len(image[i]) = size[i]
      BY <2>2 DEF Writes
    <3>2. [i \in 1 .. 3 |-> PreferencePuts[i][p[PreferenceNames[i]]]] = [i \in 1 .. 3 |-> image[i]]
      BY <3>1
    <3>3. [i \in 1 .. 3 |-> image[i]] \in [1 .. 3 -> Seq(Octet)]
      BY <3>1
    <3> QED
      BY <2>5, <3>1, <3>2, <3>3
  <2>7. /\ FlattenSeq(image) \in Seq(Octet)
        /\ FlattenSeq(image) = image[1] \o image[2] \o image[3]
        /\ Len(FlattenSeq(image)) = Len(image[1]) + Len(image[2]) + Len(image[3])
    BY <2>6, Parts3
  <2>8. /\ Len(image[1]) = size[1]
        /\ Len(image[2]) = size[2]
        /\ Len(image[3]) = size[3]
    BY <2>6
  <2>9. Len(FlattenSeq(image)) = size[1] + size[2] + size[3]
    BY <2>7, <2>8
  <2> QED
    BY <1>2, <2>1, <2>3, <2>4, <2>6, <2>7, <2>9
<1>6. ASSUME NEW values \in Tuples(PreferencePuts, 3)
      PROVE  \E p \in WirePreference : \A i \in 1 .. 3 : p[PreferenceNames[i]] = values[i]
  <2>1. /\ values[1] \in U32
        /\ values[2] \in U32
        /\ values[3] \in Id
    BY <1>3 DEF Tuples
  <2> DEFINE p == [ codec_id |-> values[1], revision |-> values[2],
                    schema_fingerprint |-> values[3] ]
  <2>2. p \in WirePreference
    BY <2>1 DEF WirePreference
  <2>3. \A i \in 1 .. 3 : p[PreferenceNames[i]] = values[i]
    BY DEF PreferenceNames
  <2> HIDE DEF p
  <2> QED
    BY <2>2, <2>3
<1>7. DOMAIN PreferenceImage = WirePreference /\ \A p \in WirePreference : PreferenceImage[p] = PutPreference(p)
  BY DEF PreferenceImage
<1> QED
  BY <1>1, <1>5, <1>6, <1>7 DEF Assembles

LEMMA PreferenceListWrites ==
    ASSUME NEW maximum \in Nat, 0 .. maximum \in SUBSET Octet
    PROVE  /\ DOMAIN ListImage(PreferenceImage, 0 .. maximum) = Lists(WirePreference, maximum)
           /\ \A list \in Lists(WirePreference, maximum) :
                 Writes(ListImage(PreferenceImage, 0 .. maximum), list,
                        PutList(PutPreference, list), (1 + Len(list) * (Width.u32 + Width.u32 + Width.id)))
<1>1. /\ DOMAIN PreferenceImage = WirePreference
      /\ \A x \in WirePreference : PreferenceImage[x] = PutPreference(x) /\ PutPreference(x) \in Seq(Octet)
      /\ \A x \in WirePreference : Len(PutPreference(x)) = (Width.u32 + Width.u32 + Width.id)
  BY PreferenceFields DEF PreferenceImage, PutPreference
<1>2. Images(PreferenceImage) /\ ListsOf(PreferenceImage, 0 .. maximum) = Lists(WirePreference, maximum)
  BY <1>1, ListsFacts DEF Images
<1>3. DOMAIN ListImage(PreferenceImage, 0 .. maximum) = Lists(WirePreference, maximum)
  BY <1>2 DEF ListImage
<1>4. ASSUME NEW list \in Lists(WirePreference, maximum)
      PROVE  Writes(ListImage(PreferenceImage, 0 .. maximum), list,
                    PutList(PutPreference, list), (1 + Len(list) * (Width.u32 + Width.u32 + Width.id)))
  <2>1. \A i \in DOMAIN list : list[i] \in WirePreference
    BY DEF Lists
  <2>2. [i \in DOMAIN list |-> PreferenceImage[list[i]]] = [i \in DOMAIN list |-> PutPreference(list[i])]
    BY <1>1, <2>1
  <2>3. PutList(PutPreference, list) = <<Len(list)>> \o FlattenSeq([i \in DOMAIN list |-> PutPreference(list[i])])
    BY DEF PutList, PutAll
  <2>4. ListBytes(PreferenceImage, list) = PutList(PutPreference, list)
    BY <2>2, <2>3 DEF ListBytes
  <2>5. UniformImage(PreferenceImage, (Width.u32 + Width.u32 + Width.id))
    BY <1>1, <1>2, WidthFacts DEF UniformImage
  <2>6. list \in ListsOf(PreferenceImage, 0 .. maximum)
    BY <1>2
  <2> QED
    BY <2>4, <2>5, <2>6, UniformList
<1> QED
  BY <1>3, <1>4

DeclarationNames == << "id", "critical" >>
DeclarationPuts ==
    << U32Image, BoolImage >>
DeclarationImage == [x \in WireDeclaration |-> PutDeclaration(x)]

LEMMA DeclarationFields ==
    /\ Assembles(2, DeclarationNames, DeclarationPuts, DeclarationImage)
    /\ \A x \in WireDeclaration :
          /\ PutDeclaration(x) \in Seq(Octet)
          /\ Len(PutDeclaration(x)) =
                Width.u32 + 1
<1>1. \A i \in 1 .. 2 : \A j \in 1 .. 2 : DeclarationNames[i] = DeclarationNames[j] => i = j
  BY DEF DeclarationNames
<1>2. Fields(DeclarationNames, 2) =
         {"id", "critical"}
  BY DEF DeclarationNames, Fields
<1>3. /\ DOMAIN DeclarationPuts[1] = U32
      /\ DOMAIN DeclarationPuts[2] = BOOLEAN
  BY WidthWrites, OctetWrites DEF DeclarationPuts
<1>4. ASSUME NEW x \in WireDeclaration
      PROVE  /\ Writes(DeclarationPuts[1], x.id,
                       PutU32(x.id), Width.u32)
             /\ Writes(DeclarationPuts[2], x.critical,
                       PutBool(x.critical), 1)
  BY WidthWrites, OctetWrites DEF DeclarationPuts, WireDeclaration
<1>5. ASSUME NEW x \in WireDeclaration
      PROVE  /\ x = [name \in Fields(DeclarationNames, 2) |-> x[name]]
             /\ \A i \in 1 .. 2 : x[DeclarationNames[i]] \in DOMAIN DeclarationPuts[i]
             /\ PutDeclaration(x) =
                   FlattenSeq([i \in 1 .. 2 |-> DeclarationPuts[i][x[DeclarationNames[i]]]])
             /\ PutDeclaration(x) \in Seq(Octet)
             /\ Len(PutDeclaration(x)) =
                   Width.u32 + 1
  <2> DEFINE image ==
             << PutU32(x.id), PutBool(x.critical) >>
             size ==
             << Width.u32, 1 >>
  <2>1. x = [name \in {"id", "critical"} |-> x[name]]
    BY DEF WireDeclaration
  <2>2. \A i \in 1 .. 2 : Writes(DeclarationPuts[i], x[DeclarationNames[i]], image[i], size[i])
    <3>1. Writes(DeclarationPuts[1], x[DeclarationNames[1]], image[1], size[1])
      BY <1>4 DEF DeclarationNames
    <3>2. Writes(DeclarationPuts[2], x[DeclarationNames[2]], image[2], size[2])
      BY <1>4 DEF DeclarationNames
    <3> HIDE DEF image, size
    <3> QED
      BY <3>1, <3>2
  <2>3. PutDeclaration(x) = image[1] \o image[2]
    BY DEF PutDeclaration
  <2>4. size[1] + size[2] =
          Width.u32 + 1
    OBVIOUS
  <2>5. image = [i \in 1 .. 2 |-> image[i]]
    OBVIOUS
  <2> HIDE DEF image, size
  <2>6. /\ \A i \in 1 .. 2 : x[DeclarationNames[i]] \in DOMAIN DeclarationPuts[i]
        /\ [i \in 1 .. 2 |-> DeclarationPuts[i][x[DeclarationNames[i]]]] = image
        /\ image \in [1 .. 2 -> Seq(Octet)]
        /\ \A i \in 1 .. 2 : Len(image[i]) = size[i]
    <3>1. \A i \in 1 .. 2 :
             /\ x[DeclarationNames[i]] \in DOMAIN DeclarationPuts[i]
             /\ DeclarationPuts[i][x[DeclarationNames[i]]] = image[i]
             /\ image[i] \in Seq(Octet) /\ Len(image[i]) = size[i]
      BY <2>2 DEF Writes
    <3>2. [i \in 1 .. 2 |-> DeclarationPuts[i][x[DeclarationNames[i]]]] = [i \in 1 .. 2 |-> image[i]]
      BY <3>1
    <3>3. [i \in 1 .. 2 |-> image[i]] \in [1 .. 2 -> Seq(Octet)]
      BY <3>1
    <3> QED
      BY <2>5, <3>1, <3>2, <3>3
  <2>7. /\ FlattenSeq(image) \in Seq(Octet)
        /\ FlattenSeq(image) = image[1] \o image[2]
        /\ Len(FlattenSeq(image)) = Len(image[1]) + Len(image[2])
    BY <2>6, Parts2
  <2>8. /\ Len(image[1]) = size[1]
        /\ Len(image[2]) = size[2]
    BY <2>6
  <2>9. Len(FlattenSeq(image)) = size[1] + size[2]
    BY <2>7, <2>8
  <2> QED
    BY <1>2, <2>1, <2>3, <2>4, <2>6, <2>7, <2>9
<1>6. ASSUME NEW values \in Tuples(DeclarationPuts, 2)
      PROVE  \E x \in WireDeclaration : \A i \in 1 .. 2 : x[DeclarationNames[i]] = values[i]
  <2>1. /\ values[1] \in U32
        /\ values[2] \in BOOLEAN
    BY <1>3 DEF Tuples
  <2> DEFINE x == [ id |-> values[1], critical |-> values[2] ]
  <2>2. x \in WireDeclaration
    BY <2>1 DEF WireDeclaration
  <2>3. \A i \in 1 .. 2 : x[DeclarationNames[i]] = values[i]
    BY DEF DeclarationNames
  <2> HIDE DEF x
  <2> QED
    BY <2>2, <2>3
<1>7. DOMAIN DeclarationImage = WireDeclaration /\ \A x \in WireDeclaration : DeclarationImage[x] = PutDeclaration(x)
  BY DEF DeclarationImage
<1> QED
  BY <1>1, <1>5, <1>6, <1>7 DEF Assembles

LEMMA DeclarationListWrites ==
    ASSUME NEW maximum \in Nat, 0 .. maximum \in SUBSET Octet
    PROVE  /\ DOMAIN ListImage(DeclarationImage, 0 .. maximum) = Lists(WireDeclaration, maximum)
           /\ \A list \in Lists(WireDeclaration, maximum) :
                 Writes(ListImage(DeclarationImage, 0 .. maximum), list,
                        PutList(PutDeclaration, list), (1 + Len(list) * (Width.u32 + 1)))
<1>1. /\ DOMAIN DeclarationImage = WireDeclaration
      /\ \A x \in WireDeclaration : DeclarationImage[x] = PutDeclaration(x) /\ PutDeclaration(x) \in Seq(Octet)
      /\ \A x \in WireDeclaration : Len(PutDeclaration(x)) = (Width.u32 + 1)
  BY DeclarationFields DEF DeclarationImage, PutDeclaration
<1>2. Images(DeclarationImage) /\ ListsOf(DeclarationImage, 0 .. maximum) = Lists(WireDeclaration, maximum)
  BY <1>1, ListsFacts DEF Images
<1>3. DOMAIN ListImage(DeclarationImage, 0 .. maximum) = Lists(WireDeclaration, maximum)
  BY <1>2 DEF ListImage
<1>4. ASSUME NEW list \in Lists(WireDeclaration, maximum)
      PROVE  Writes(ListImage(DeclarationImage, 0 .. maximum), list,
                    PutList(PutDeclaration, list), (1 + Len(list) * (Width.u32 + 1)))
  <2>1. \A i \in DOMAIN list : list[i] \in WireDeclaration
    BY DEF Lists
  <2>2. [i \in DOMAIN list |-> DeclarationImage[list[i]]] = [i \in DOMAIN list |-> PutDeclaration(list[i])]
    BY <1>1, <2>1
  <2>3. PutList(PutDeclaration, list) = <<Len(list)>> \o FlattenSeq([i \in DOMAIN list |-> PutDeclaration(list[i])])
    BY DEF PutList, PutAll
  <2>4. ListBytes(DeclarationImage, list) = PutList(PutDeclaration, list)
    BY <2>2, <2>3 DEF ListBytes
  <2>5. UniformImage(DeclarationImage, (Width.u32 + 1))
    BY <1>1, <1>2, WidthFacts DEF UniformImage
  <2>6. list \in ListsOf(DeclarationImage, 0 .. maximum)
    BY <1>2
  <2> QED
    BY <2>4, <2>5, <2>6, UniformList
<1> QED
  BY <1>3, <1>4

SelectionNames == << "representation_id", "durable_prefix_offset",
                     "max_desired_payload_octets" >>
SelectionPuts ==
    << IdImage, U64Image, U64Image >>
SelectionImage == [s \in Selection |-> PutSelection(s)]

LEMMA SelectionFields ==
    /\ Assembles(3, SelectionNames, SelectionPuts, SelectionImage)
    /\ \A s \in Selection :
          /\ PutSelection(s) \in Seq(Octet)
          /\ Len(PutSelection(s)) =
                Width.id + Width.u64 + Width.u64
<1>1. \A i \in 1 .. 3 : \A j \in 1 .. 3 : SelectionNames[i] = SelectionNames[j] => i = j
  BY DEF SelectionNames
<1>2. Fields(SelectionNames, 3) =
         {"representation_id",
          "durable_prefix_offset", "max_desired_payload_octets"}
  BY DEF SelectionNames, Fields
<1>3. /\ DOMAIN SelectionPuts[1] = Id
      /\ DOMAIN SelectionPuts[2] = U64
      /\ DOMAIN SelectionPuts[3] = U64
  BY WidthWrites DEF SelectionPuts
<1>4. ASSUME NEW s \in Selection
      PROVE  /\ Writes(SelectionPuts[1], s.representation_id,
                       PutId(s.representation_id), Width.id)
             /\ Writes(SelectionPuts[2], s.durable_prefix_offset,
                       PutU64(s.durable_prefix_offset), Width.u64)
             /\ Writes(SelectionPuts[3], s.max_desired_payload_octets,
                       PutU64(s.max_desired_payload_octets), Width.u64)
  BY WidthWrites DEF SelectionPuts, Selection
<1>5. ASSUME NEW s \in Selection
      PROVE  /\ s = [name \in Fields(SelectionNames, 3) |-> s[name]]
             /\ \A i \in 1 .. 3 : s[SelectionNames[i]] \in DOMAIN SelectionPuts[i]
             /\ PutSelection(s) =
                   FlattenSeq([i \in 1 .. 3 |-> SelectionPuts[i][s[SelectionNames[i]]]])
             /\ PutSelection(s) \in Seq(Octet)
             /\ Len(PutSelection(s)) =
                   Width.id + Width.u64 +
                   Width.u64
  <2> DEFINE image ==
             << PutId(s.representation_id),
                PutU64(s.durable_prefix_offset), PutU64(s.max_desired_payload_octets) >>
             size ==
             << Width.id, Width.u64, Width.u64 >>
  <2>1. s = [name \in {"representation_id", "durable_prefix_offset",
                  "max_desired_payload_octets"} |-> s[name]]
    BY DEF Selection
  <2>2. \A i \in 1 .. 3 : Writes(SelectionPuts[i], s[SelectionNames[i]], image[i], size[i])
    <3>1. Writes(SelectionPuts[1], s[SelectionNames[1]], image[1], size[1])
      BY <1>4 DEF SelectionNames
    <3>2. Writes(SelectionPuts[2], s[SelectionNames[2]], image[2], size[2])
      BY <1>4 DEF SelectionNames
    <3>3. Writes(SelectionPuts[3], s[SelectionNames[3]], image[3], size[3])
      BY <1>4 DEF SelectionNames
    <3> HIDE DEF image, size
    <3> QED
      BY <3>1, <3>2, <3>3
  <2>3. PutSelection(s) = image[1] \o image[2] \o image[3]
    BY DEF PutSelection
  <2>4. size[1] + size[2] + size[3] =
          Width.id + Width.u64 + Width.u64
    OBVIOUS
  <2>5. image = [i \in 1 .. 3 |-> image[i]]
    OBVIOUS
  <2> HIDE DEF image, size
  <2>6. /\ \A i \in 1 .. 3 : s[SelectionNames[i]] \in DOMAIN SelectionPuts[i]
        /\ [i \in 1 .. 3 |-> SelectionPuts[i][s[SelectionNames[i]]]] = image
        /\ image \in [1 .. 3 -> Seq(Octet)]
        /\ \A i \in 1 .. 3 : Len(image[i]) = size[i]
    <3>1. \A i \in 1 .. 3 :
             /\ s[SelectionNames[i]] \in DOMAIN SelectionPuts[i]
             /\ SelectionPuts[i][s[SelectionNames[i]]] = image[i]
             /\ image[i] \in Seq(Octet) /\ Len(image[i]) = size[i]
      BY <2>2 DEF Writes
    <3>2. [i \in 1 .. 3 |-> SelectionPuts[i][s[SelectionNames[i]]]] = [i \in 1 .. 3 |-> image[i]]
      BY <3>1
    <3>3. [i \in 1 .. 3 |-> image[i]] \in [1 .. 3 -> Seq(Octet)]
      BY <3>1
    <3> QED
      BY <2>5, <3>1, <3>2, <3>3
  <2>7. /\ FlattenSeq(image) \in Seq(Octet)
        /\ FlattenSeq(image) = image[1] \o image[2] \o image[3]
        /\ Len(FlattenSeq(image)) = Len(image[1]) + Len(image[2]) + Len(image[3])
    BY <2>6, Parts3
  <2>8. /\ Len(image[1]) = size[1]
        /\ Len(image[2]) = size[2]
        /\ Len(image[3]) = size[3]
    BY <2>6
  <2>9. Len(FlattenSeq(image)) = size[1] + size[2] + size[3]
    BY <2>7, <2>8
  <2> QED
    BY <1>2, <2>1, <2>3, <2>4, <2>6, <2>7, <2>9
<1>6. ASSUME NEW values \in Tuples(SelectionPuts, 3)
      PROVE  \E s \in Selection : \A i \in 1 .. 3 : s[SelectionNames[i]] = values[i]
  <2>1. /\ values[1] \in Id
        /\ values[2] \in U64
        /\ values[3] \in U64
    BY <1>3 DEF Tuples
  <2> DEFINE s == [ representation_id |-> values[1],
                    durable_prefix_offset |-> values[2],
                    max_desired_payload_octets |-> values[3] ]
  <2>2. s \in Selection
    BY <2>1 DEF Selection
  <2>3. \A i \in 1 .. 3 : s[SelectionNames[i]] = values[i]
    BY DEF SelectionNames
  <2> HIDE DEF s
  <2> QED
    BY <2>2, <2>3
<1>7. DOMAIN SelectionImage = Selection /\ \A s \in Selection : SelectionImage[s] = PutSelection(s)
  BY DEF SelectionImage
<1> QED
  BY <1>1, <1>5, <1>6, <1>7 DEF Assembles

LEMMA SelectionListWrites ==
    ASSUME NEW maximum \in Nat, 0 .. maximum \in SUBSET Octet
    PROVE  /\ DOMAIN ListImage(SelectionImage, 0 .. maximum) = Lists(Selection, maximum)
           /\ \A list \in Lists(Selection, maximum) :
                 Writes(ListImage(SelectionImage, 0 .. maximum), list,
                        PutList(PutSelection, list), (1 + Len(list) * (Width.id + Width.u64 + Width.u64)))
<1>1. /\ DOMAIN SelectionImage = Selection
      /\ \A x \in Selection : SelectionImage[x] = PutSelection(x) /\ PutSelection(x) \in Seq(Octet)
      /\ \A x \in Selection : Len(PutSelection(x)) = (Width.id + Width.u64 + Width.u64)
  BY SelectionFields DEF SelectionImage, PutSelection
<1>2. Images(SelectionImage) /\ ListsOf(SelectionImage, 0 .. maximum) = Lists(Selection, maximum)
  BY <1>1, ListsFacts DEF Images
<1>3. DOMAIN ListImage(SelectionImage, 0 .. maximum) = Lists(Selection, maximum)
  BY <1>2 DEF ListImage
<1>4. ASSUME NEW list \in Lists(Selection, maximum)
      PROVE  Writes(ListImage(SelectionImage, 0 .. maximum), list,
                    PutList(PutSelection, list), (1 + Len(list) * (Width.id + Width.u64 + Width.u64)))
  <2>1. \A i \in DOMAIN list : list[i] \in Selection
    BY DEF Lists
  <2>2. [i \in DOMAIN list |-> SelectionImage[list[i]]] = [i \in DOMAIN list |-> PutSelection(list[i])]
    BY <1>1, <2>1
  <2>3. PutList(PutSelection, list) = <<Len(list)>> \o FlattenSeq([i \in DOMAIN list |-> PutSelection(list[i])])
    BY DEF PutList, PutAll
  <2>4. ListBytes(SelectionImage, list) = PutList(PutSelection, list)
    BY <2>2, <2>3 DEF ListBytes
  <2>5. UniformImage(SelectionImage, (Width.id + Width.u64 + Width.u64))
    BY <1>1, <1>2, WidthFacts DEF UniformImage
  <2>6. list \in ListsOf(SelectionImage, 0 .. maximum)
    BY <1>2
  <2> QED
    BY <2>4, <2>5, <2>6, UniformList
<1> QED
  BY <1>3, <1>4

\* Text, the octets of DATA, and a scope.
DataOctets == OctetsImage(U32Image, MaxRecordOctets)
ScopeOctets == OctetsImage(OctetImage, MaxFailureScopeOctets)

LEMMA TextWrites ==
    ASSUME NEW maximum \in U16
    PROVE  /\ DOMAIN TextImage(maximum) = Texts(maximum)
           /\ \A text \in Texts(maximum) :
                 Writes(TextImage(maximum), text, PutText(text), TextSize(text))
<1>1. << >> \in Seq(Octet)
  OBVIOUS
<1>2. Images(TextImage(maximum))
  BY <1>1, ReadsText DEF Reads
<1>3. /\ DOMAIN TextImage(maximum) = Texts(maximum)
      /\ \A text \in Texts(maximum) : TextImage(maximum)[text] = PutText(text)
  BY DEF TextImage
<1>4. ASSUME NEW text \in Texts(maximum)
      PROVE  Len(PutText(text)) = TextSize(text)
  <2>1. PutText(text) = <<Len(text)>> \o FlattenSeq([i \in DOMAIN text |-> PutOctets(text[i])])
    BY DEF PutText, PutList, PutAll
  <2>2. /\ text \in Seq(Seq(Octet)) /\ Len(text) \in Nat /\ Len(text) <= 1
        /\ DOMAIN text = 1 .. Len(text)
        /\ \A i \in DOMAIN text : Len(text[i]) <= maximum
    BY DEF Texts, Option, Lists
  <2>3. CASE text = << >>
    <3>1. FlattenSeq([i \in DOMAIN text |-> PutOctets(text[i])]) = << >>
      <4> DEFINE s == [i \in DOMAIN text |-> PutOctets(text[i])]
      <4>1. DOMAIN text = 1 .. 0
        BY <2>2, <2>3
      <4>2. s \in [1 .. 0 -> Seq(Octet)]
        BY <4>1
      <4> HIDE DEF s
      <4>3. FlattenSeq(s) = << >>
        BY <4>2, EmptyFlat, Zenon
      <4> QED
        BY <4>3 DEF s
    <3>2. PutText(text) = <<Len(text)>> \o << >>
      BY <2>1, <3>1
    <3> QED
      BY <2>3, <3>2 DEF TextSize
  <2>4. CASE text # << >>
    <3>1. Len(text) = 1 /\ DOMAIN text = 1 .. 1
      <4>1. \A s \in Seq(Seq(Octet)) : Len(s) = 0 => s = << >>
        OBVIOUS
      <4> QED
        BY <2>2, <2>4, <4>1
    <3>2. text[1] \in Lists(Octet, maximum)
      <4>1. 1 \in DOMAIN text /\ text[1] \in Seq(Octet)
        BY <2>2, <3>1
      <4> QED
        BY <2>2, <4>1 DEF Lists
    <3>3. PutOctets(text[1]) \in Seq(Octet) /\ Len(PutOctets(text[1])) = Width.u16 + Len(text[1])
      BY <3>2, BlobWrites DEF Writes
    <3>4. FlattenSeq([i \in DOMAIN text |-> PutOctets(text[i])]) = PutOctets(text[1])
      <4> DEFINE s == [i \in DOMAIN text |-> PutOctets(text[i])]
      <4>1. s \in [1 .. 1 -> Seq(Octet)] /\ s[1] = PutOctets(text[1])
        BY <3>1, <3>3
      <4> HIDE DEF s
      <4>2. FlattenSeq(s) = s[1]
        BY <4>1, Parts1
      <4> QED
        BY <4>1, <4>2 DEF s
    <3>5. PutText(text) = <<1>> \o PutOctets(text[1])
      BY <2>1, <3>1, <3>4
    <3>6. <<1>> \in Seq(Octet) /\ Len(<<1>>) = 1
      BY DEF Octet
    <3>7. Len(PutText(text)) = 1 + (Width.u16 + Len(text[1]))
      BY <3>3, <3>5, <3>6, Concat
    <3> QED
      BY <2>4, <3>7 DEF TextSize
  <2> QED
    BY <2>3, <2>4
<1> QED
  BY <1>2, <1>3, <1>4 DEF Images, Writes

LEMMA DataWrites ==
    /\ DOMAIN DataOctets = Lists(Octet, MaxRecordOctets)
    /\ \A x \in Lists(Octet, MaxRecordOctets) :
          Writes(DataOctets, x, PutU32(Len(x)) \o x, (Width.u32 + Len(x)))
<1>1. /\ MaxRecordOctets \in U32 /\ MaxRecordOctets \in Nat
      /\ \A n \in Nat : n <= MaxRecordOctets => n \in U32
  BY BoundsAssumption, WidthFacts, NumbersAreNaturals DEF U32
<1>2. OctetsOf(U32Image, MaxRecordOctets) = Lists(Octet, MaxRecordOctets)
  BY <1>1, WidthImages DEF OctetsOf, Lists
<1>3. ASSUME NEW x \in Lists(Octet, MaxRecordOctets)
      PROVE  Writes(DataOctets, x, PutU32(Len(x)) \o x, (Width.u32 + Len(x)))
  <2>1. x \in Seq(Octet) /\ Len(x) \in U32
    BY <1>1 DEF Lists
  <2>2. DataOctets[x] = PutU32(Len(x)) \o x
    BY <1>2, <2>1, WidthImages DEF DataOctets, OctetsImage
  <2>3. PutU32(Len(x)) \in Seq(Octet) /\ Len(PutU32(Len(x))) = Width.u32
    BY <2>1, PutWidths
  <2>4. /\ PutU32(Len(x)) \o x \in Seq(Octet)
        /\ Len(PutU32(Len(x)) \o x) = Width.u32 + Len(x)
    BY <2>1, <2>3, Concat
  <2> QED
    BY <1>2, <2>2, <2>4 DEF Writes, DataOctets, OctetsImage
<1> QED
  BY <1>2, <1>3 DEF DataOctets, OctetsImage

LEMMA ScopeWrites ==
    /\ DOMAIN ScopeOctets = Lists(Octet, MaxFailureScopeOctets)
    /\ \A x \in Lists(Octet, MaxFailureScopeOctets) :
          Writes(ScopeOctets, x, <<Len(x)>> \o x, (1 + Len(x)))
<1>1. /\ MaxFailureScopeOctets \in Nat
      /\ \A n \in Nat : n <= MaxFailureScopeOctets => n \in Octet
  BY BoundsAssumption DEF Octet
<1>2. DOMAIN OctetImage = Octet /\ \A n \in Octet : OctetImage[n] = <<n>>
  BY DEF OctetImage
<1>3. OctetsOf(OctetImage, MaxFailureScopeOctets) = Lists(Octet, MaxFailureScopeOctets)
  BY <1>1, <1>2 DEF OctetsOf, Lists
<1>4. ASSUME NEW x \in Lists(Octet, MaxFailureScopeOctets)
      PROVE  Writes(ScopeOctets, x, <<Len(x)>> \o x, (1 + Len(x)))
  <2>1. x \in Seq(Octet) /\ Len(x) \in Octet
    BY <1>1 DEF Lists
  <2>2. ScopeOctets[x] = <<Len(x)>> \o x
    BY <1>2, <1>3, <2>1 DEF ScopeOctets, OctetsImage
  <2>3. <<Len(x)>> \in Seq(Octet) /\ Len(<<Len(x)>>) = 1
    BY <2>1
  <2>4. <<Len(x)>> \o x \in Seq(Octet) /\ Len(<<Len(x)>> \o x) = 1 + Len(x)
    BY <2>1, <2>3, Concat
  <2> QED
    BY <1>3, <2>2, <2>4 DEF Writes, ScopeOctets, OctetsImage
<1> QED
  BY <1>3, <1>4 DEF ScopeOctets, OctetsImage

\* A cursor of either mode.
DeltaNames == << "sequence" >>
DeltaPuts ==
    << U64Image >>
DeltaImage == [c \in DeltaCursor |-> PutU64(c.sequence)]

LEMMA DeltaFields ==
    /\ Assembles(1, DeltaNames, DeltaPuts, DeltaImage)
    /\ \A c \in DeltaCursor :
          /\ PutU64(c.sequence) \in Seq(Octet)
          /\ Len(PutU64(c.sequence)) =
                Width.u64
<1>1. \A i \in 1 .. 1 : \A j \in 1 .. 1 : DeltaNames[i] = DeltaNames[j] => i = j
  BY DEF DeltaNames
<1>2. Fields(DeltaNames, 1) =
         {"sequence"}
  BY DEF DeltaNames, Fields
<1>3. /\ DOMAIN DeltaPuts[1] = U64
  BY WidthWrites DEF DeltaPuts
<1>4. ASSUME NEW c \in DeltaCursor
      PROVE  /\ Writes(DeltaPuts[1], c.sequence,
                       PutU64(c.sequence), Width.u64)
  BY WidthWrites DEF DeltaPuts, DeltaCursor
<1>5. ASSUME NEW c \in DeltaCursor
      PROVE  /\ c = [name \in Fields(DeltaNames, 1) |-> c[name]]
             /\ \A i \in 1 .. 1 : c[DeltaNames[i]] \in DOMAIN DeltaPuts[i]
             /\ PutU64(c.sequence) =
                   FlattenSeq([i \in 1 .. 1 |-> DeltaPuts[i][c[DeltaNames[i]]]])
             /\ PutU64(c.sequence) \in Seq(Octet)
             /\ Len(PutU64(c.sequence)) =
                   Width.u64
  <2> DEFINE image ==
             << PutU64(c.sequence) >>
             size ==
             << Width.u64 >>
  <2>1. c = [name \in {"sequence"} |-> c[name]]
    BY DEF DeltaCursor
  <2>2. \A i \in 1 .. 1 : Writes(DeltaPuts[i], c[DeltaNames[i]], image[i], size[i])
    <3>1. Writes(DeltaPuts[1], c[DeltaNames[1]], image[1], size[1])
      BY <1>4 DEF DeltaNames
    <3> HIDE DEF image, size
    <3> QED
      BY <3>1
  <2>3. PutU64(c.sequence) = image[1]
    OBVIOUS
  <2>4. size[1] =
          Width.u64
    OBVIOUS
  <2>5. image = [i \in 1 .. 1 |-> image[i]]
    OBVIOUS
  <2> HIDE DEF image, size
  <2>6. /\ \A i \in 1 .. 1 : c[DeltaNames[i]] \in DOMAIN DeltaPuts[i]
        /\ [i \in 1 .. 1 |-> DeltaPuts[i][c[DeltaNames[i]]]] = image
        /\ image \in [1 .. 1 -> Seq(Octet)]
        /\ \A i \in 1 .. 1 : Len(image[i]) = size[i]
    <3>1. \A i \in 1 .. 1 :
             /\ c[DeltaNames[i]] \in DOMAIN DeltaPuts[i]
             /\ DeltaPuts[i][c[DeltaNames[i]]] = image[i]
             /\ image[i] \in Seq(Octet) /\ Len(image[i]) = size[i]
      BY <2>2 DEF Writes
    <3>2. [i \in 1 .. 1 |-> DeltaPuts[i][c[DeltaNames[i]]]] = [i \in 1 .. 1 |-> image[i]]
      BY <3>1
    <3>3. [i \in 1 .. 1 |-> image[i]] \in [1 .. 1 -> Seq(Octet)]
      BY <3>1
    <3> QED
      BY <2>5, <3>1, <3>2, <3>3
  <2>7. /\ FlattenSeq(image) \in Seq(Octet)
        /\ FlattenSeq(image) = image[1]
        /\ Len(FlattenSeq(image)) = Len(image[1])
    BY <2>6, Parts1
  <2>8. /\ Len(image[1]) = size[1]
    BY <2>6
  <2>9. Len(FlattenSeq(image)) = size[1]
    BY <2>7, <2>8
  <2> QED
    BY <1>2, <2>1, <2>3, <2>4, <2>6, <2>7, <2>9
<1>6. ASSUME NEW values \in Tuples(DeltaPuts, 1)
      PROVE  \E c \in DeltaCursor : \A i \in 1 .. 1 : c[DeltaNames[i]] = values[i]
  <2>1. /\ values[1] \in U64
    BY <1>3 DEF Tuples
  <2> DEFINE c == [ sequence |-> values[1] ]
  <2>2. c \in DeltaCursor
    BY <2>1 DEF DeltaCursor
  <2>3. \A i \in 1 .. 1 : c[DeltaNames[i]] = values[i]
    BY DEF DeltaNames
  <2> HIDE DEF c
  <2> QED
    BY <2>2, <2>3
<1>7. DOMAIN DeltaImage = DeltaCursor /\ \A c \in DeltaCursor : DeltaImage[c] = PutU64(c.sequence)
  BY DEF DeltaImage
<1> QED
  BY <1>1, <1>5, <1>6, <1>7 DEF Assembles

FullNames == << "object_id", "part_id", "representation_id" >>
FullPuts ==
    << IdImage, U32Image, IdImage >>
FullImage == [c \in FullCursor |-> PutId(c.object_id) \o PutU32(c.part_id) \o PutId(c.representation_id)]

LEMMA FullFields ==
    /\ Assembles(3, FullNames, FullPuts, FullImage)
    /\ \A c \in FullCursor :
          /\ PutId(c.object_id) \o PutU32(c.part_id) \o PutId(c.representation_id) \in Seq(Octet)
          /\ Len(PutId(c.object_id) \o PutU32(c.part_id) \o PutId(c.representation_id)) =
                Width.id +
                Width.u32 + Width.id
<1>1. \A i \in 1 .. 3 : \A j \in 1 .. 3 : FullNames[i] = FullNames[j] => i = j
  BY DEF FullNames
<1>2. Fields(FullNames, 3) =
         {"object_id", "part_id", "representation_id"}
  BY DEF FullNames, Fields
<1>3. /\ DOMAIN FullPuts[1] = Id
      /\ DOMAIN FullPuts[2] = U32
      /\ DOMAIN FullPuts[3] = Id
  BY WidthWrites DEF FullPuts
<1>4. ASSUME NEW c \in FullCursor
      PROVE  /\ Writes(FullPuts[1], c.object_id,
                       PutId(c.object_id), Width.id)
             /\ Writes(FullPuts[2], c.part_id,
                       PutU32(c.part_id), Width.u32)
             /\ Writes(FullPuts[3], c.representation_id,
                       PutId(c.representation_id), Width.id)
  BY WidthWrites DEF FullPuts, FullCursor
<1>5. ASSUME NEW c \in FullCursor
      PROVE  /\ c = [name \in Fields(FullNames, 3) |-> c[name]]
             /\ \A i \in 1 .. 3 : c[FullNames[i]] \in DOMAIN FullPuts[i]
             /\ PutId(c.object_id) \o PutU32(c.part_id) \o PutId(c.representation_id) =
                   FlattenSeq([i \in 1 .. 3 |-> FullPuts[i][c[FullNames[i]]]])
             /\ PutId(c.object_id) \o PutU32(c.part_id) \o PutId(c.representation_id) \in Seq(Octet)
             /\ Len(PutId(c.object_id) \o PutU32(c.part_id) \o PutId(c.representation_id)) =
                   Width.id +
                   Width.u32 + Width.id
  <2> DEFINE image ==
             << PutId(c.object_id), PutU32(c.part_id),
                PutId(c.representation_id) >>
             size ==
             << Width.id, Width.u32, Width.id >>
  <2>1. c = [name \in {"object_id", "part_id", "representation_id"} |-> c[name]]
    BY DEF FullCursor
  <2>2. \A i \in 1 .. 3 : Writes(FullPuts[i], c[FullNames[i]], image[i], size[i])
    <3>1. Writes(FullPuts[1], c[FullNames[1]], image[1], size[1])
      BY <1>4 DEF FullNames
    <3>2. Writes(FullPuts[2], c[FullNames[2]], image[2], size[2])
      BY <1>4 DEF FullNames
    <3>3. Writes(FullPuts[3], c[FullNames[3]], image[3], size[3])
      BY <1>4 DEF FullNames
    <3> HIDE DEF image, size
    <3> QED
      BY <3>1, <3>2, <3>3
  <2>3. PutId(c.object_id) \o PutU32(c.part_id) \o PutId(c.representation_id) = image[1] \o
            image[2] \o image[3]
    OBVIOUS
  <2>4. size[1] + size[2] + size[3] =
          Width.id + Width.u32 + Width.id
    OBVIOUS
  <2>5. image = [i \in 1 .. 3 |-> image[i]]
    OBVIOUS
  <2> HIDE DEF image, size
  <2>6. /\ \A i \in 1 .. 3 : c[FullNames[i]] \in DOMAIN FullPuts[i]
        /\ [i \in 1 .. 3 |-> FullPuts[i][c[FullNames[i]]]] = image
        /\ image \in [1 .. 3 -> Seq(Octet)]
        /\ \A i \in 1 .. 3 : Len(image[i]) = size[i]
    <3>1. \A i \in 1 .. 3 :
             /\ c[FullNames[i]] \in DOMAIN FullPuts[i]
             /\ FullPuts[i][c[FullNames[i]]] = image[i]
             /\ image[i] \in Seq(Octet) /\ Len(image[i]) = size[i]
      BY <2>2 DEF Writes
    <3>2. [i \in 1 .. 3 |-> FullPuts[i][c[FullNames[i]]]] = [i \in 1 .. 3 |-> image[i]]
      BY <3>1
    <3>3. [i \in 1 .. 3 |-> image[i]] \in [1 .. 3 -> Seq(Octet)]
      BY <3>1
    <3> QED
      BY <2>5, <3>1, <3>2, <3>3
  <2>7. /\ FlattenSeq(image) \in Seq(Octet)
        /\ FlattenSeq(image) = image[1] \o image[2] \o image[3]
        /\ Len(FlattenSeq(image)) = Len(image[1]) + Len(image[2]) + Len(image[3])
    BY <2>6, Parts3
  <2>8. /\ Len(image[1]) = size[1]
        /\ Len(image[2]) = size[2]
        /\ Len(image[3]) = size[3]
    BY <2>6
  <2>9. Len(FlattenSeq(image)) = size[1] + size[2] + size[3]
    BY <2>7, <2>8
  <2> QED
    BY <1>2, <2>1, <2>3, <2>4, <2>6, <2>7, <2>9
<1>6. ASSUME NEW values \in Tuples(FullPuts, 3)
      PROVE  \E c \in FullCursor : \A i \in 1 .. 3 : c[FullNames[i]] = values[i]
  <2>1. /\ values[1] \in Id
        /\ values[2] \in U32
        /\ values[3] \in Id
    BY <1>3 DEF Tuples
  <2> DEFINE c == [ object_id |-> values[1], part_id |-> values[2],
                    representation_id |-> values[3] ]
  <2>2. c \in FullCursor
    BY <2>1 DEF FullCursor
  <2>3. \A i \in 1 .. 3 : c[FullNames[i]] = values[i]
    BY DEF FullNames
  <2> HIDE DEF c
  <2> QED
    BY <2>2, <2>3
<1>7. DOMAIN FullImage = FullCursor /\ \A c \in FullCursor : FullImage[c] = PutId(c.object_id) \o PutU32(c.part_id) \o PutId(c.representation_id)
  BY DEF FullImage
<1> QED
  BY <1>1, <1>5, <1>6, <1>7 DEF Assembles

CursorImage == [c \in Cursor |-> PutCursor(c)]

LEMMA CursorWrites ==
    /\ DOMAIN CursorImage = Cursor
    /\ \A c \in Cursor : Writes(CursorImage, c, PutCursor(c), CursorSize(c))
    /\ Chosen(2, <<DeltaImage, FullImage>>, CursorImage)
<1>1. ASSUME NEW c \in DeltaCursor
      PROVE  /\ IsDelta(c) /\ c \in DOMAIN DeltaImage
             /\ PutCursor(c) = <<0>> \o DeltaImage[c]
             /\ DeltaImage[c] \in Seq(Octet) /\ Len(DeltaImage[c]) = Width.u64
  <2>1. IsDelta(c)
    BY DEF IsDelta, DeltaCursor
  <2>2. c \in DOMAIN DeltaImage /\ DeltaImage[c] = PutU64(c.sequence)
    BY DEF DeltaImage
  <2>3. PutU64(c.sequence) \in Seq(Octet) /\ Len(PutU64(c.sequence)) = Width.u64
    BY DeltaFields
  <2> QED
    BY <2>1, <2>2, <2>3 DEF PutCursor
<1>2. ASSUME NEW c \in FullCursor
      PROVE  /\ ~IsDelta(c) /\ c \in DOMAIN FullImage
             /\ PutCursor(c) = <<1>> \o FullImage[c]
             /\ FullImage[c] \in Seq(Octet)
             /\ Len(FullImage[c]) = Width.id + Width.u32 + Width.id
  <2>1. ~IsDelta(c)
    BY DEF IsDelta, FullCursor
  <2>2. c \in DOMAIN FullImage
        /\ FullImage[c] = PutId(c.object_id) \o PutU32(c.part_id) \o PutId(c.representation_id)
    BY DEF FullImage
  <2>3. /\ PutId(c.object_id) \o PutU32(c.part_id) \o PutId(c.representation_id) \in Seq(Octet)
        /\ Len(PutId(c.object_id) \o PutU32(c.part_id) \o PutId(c.representation_id)) =
              Width.id + Width.u32 + Width.id
    BY FullFields
  <2> QED
    BY <2>1, <2>2, <2>3 DEF PutCursor
<1>3. /\ <<0>> \in Seq(Octet) /\ Len(<<0>>) = 1
      /\ <<1>> \in Seq(Octet) /\ Len(<<1>>) = 1
  BY DEF Octet
<1>4. ASSUME NEW c \in Cursor
      PROVE  PutCursor(c) \in Seq(Octet) /\ Len(PutCursor(c)) = CursorSize(c)
  <2>1. CASE c \in DeltaCursor
    BY <1>1, <1>3, <2>1, Concat DEF CursorSize
  <2>2. CASE c \in FullCursor
    BY <1>2, <1>3, <2>2, Concat DEF CursorSize
  <2> QED
    BY <2>1, <2>2 DEF Cursor
<1>5. DOMAIN CursorImage = Cursor /\ \A c \in Cursor : CursorImage[c] = PutCursor(c)
  BY DEF CursorImage
<1>6. Chosen(2, <<DeltaImage, FullImage>>, CursorImage)
  <2>1. DOMAIN DeltaImage = DeltaCursor /\ DOMAIN FullImage = FullCursor
    BY DEF DeltaImage, FullImage
  <2>2. \A c \in DeltaCursor : c \in DOMAIN CursorImage /\ CursorImage[c] = <<0>> \o DeltaImage[c]
    BY <1>1, <1>5 DEF Cursor
  <2>3. \A c \in FullCursor : c \in DOMAIN CursorImage /\ CursorImage[c] = <<1>> \o FullImage[c]
    BY <1>2, <1>5 DEF Cursor
  <2>4. \A c \in DOMAIN CursorImage : c \in DeltaCursor \/ c \in FullCursor
    BY <1>5 DEF Cursor
  <2>5. <<DeltaImage, FullImage>>[1] = DeltaImage /\ <<DeltaImage, FullImage>>[2] = FullImage
    OBVIOUS
  <2>6. 1 .. 2 = {1, 2} /\ 1 - 1 = 0 /\ 2 - 1 = 1
    OBVIOUS
  <2> QED
    BY <2>1, <2>2, <2>3, <2>4, <2>5, <2>6 DEF Chosen
<1> QED
  BY <1>4, <1>5, <1>6 DEF Writes

\* An extension.
ExtensionNames == << "id", "critical", "value" >>
ExtensionPuts ==
    << U32Image, BoolImage, BlobImage(MaxExtensionValueOctets) >>
FitExtension ==
    [id : U32, critical : BOOLEAN, value : Lists(Octet, MaxExtensionValueOctets)]
ExtensionImage == [x \in FitExtension |-> PutExtension(x)]

LEMMA ExtensionFields ==
    /\ Assembles(3, ExtensionNames, ExtensionPuts, ExtensionImage)
    /\ \A x \in FitExtension :
          /\ PutExtension(x) \in Seq(Octet)
          /\ Len(PutExtension(x)) =
                Width.u32 + 1 +
                (Width.u16 + Len(x.value))
<1>1. \A i \in 1 .. 3 : \A j \in 1 .. 3 : ExtensionNames[i] = ExtensionNames[j] => i = j
  BY DEF ExtensionNames
<1>2. Fields(ExtensionNames, 3) =
         {"id", "critical", "value"}
  BY DEF ExtensionNames, Fields
<1>3. /\ DOMAIN ExtensionPuts[1] = U32
      /\ DOMAIN ExtensionPuts[2] = BOOLEAN
      /\ DOMAIN ExtensionPuts[3] = Lists(Octet, MaxExtensionValueOctets)
  BY WidthWrites, OctetWrites, BlobWrites, BoundsAssumption DEF ExtensionPuts
<1>4. ASSUME NEW x \in FitExtension
      PROVE  /\ Writes(ExtensionPuts[1], x.id,
                       PutU32(x.id), Width.u32)
             /\ Writes(ExtensionPuts[2], x.critical,
                       PutBool(x.critical), 1)
             /\ Writes(ExtensionPuts[3], x.value,
                       PutOctets(x.value), (Width.u16 + Len(x.value)))
  BY WidthWrites, OctetWrites, BlobWrites, BoundsAssumption DEF ExtensionPuts, FitExtension
<1>5. ASSUME NEW x \in FitExtension
      PROVE  /\ x = [name \in Fields(ExtensionNames, 3) |-> x[name]]
             /\ \A i \in 1 .. 3 : x[ExtensionNames[i]] \in DOMAIN ExtensionPuts[i]
             /\ PutExtension(x) =
                   FlattenSeq([i \in 1 .. 3 |-> ExtensionPuts[i][x[ExtensionNames[i]]]])
             /\ PutExtension(x) \in Seq(Octet)
             /\ Len(PutExtension(x)) =
                   Width.u32 + 1 +
                   (Width.u16 + Len(x.value))
  <2> DEFINE image ==
             << PutU32(x.id), PutBool(x.critical),
                PutOctets(x.value) >>
             size ==
             << Width.u32, 1, (Width.u16 + Len(x.value)) >>
  <2>1. x = [name \in {"id", "critical", "value"} |-> x[name]]
    BY DEF FitExtension
  <2>2. \A i \in 1 .. 3 : Writes(ExtensionPuts[i], x[ExtensionNames[i]], image[i], size[i])
    <3>1. Writes(ExtensionPuts[1], x[ExtensionNames[1]], image[1], size[1])
      BY <1>4 DEF ExtensionNames
    <3>2. Writes(ExtensionPuts[2], x[ExtensionNames[2]], image[2], size[2])
      BY <1>4 DEF ExtensionNames
    <3>3. Writes(ExtensionPuts[3], x[ExtensionNames[3]], image[3], size[3])
      BY <1>4 DEF ExtensionNames
    <3> HIDE DEF image, size
    <3> QED
      BY <3>1, <3>2, <3>3
  <2>3. PutExtension(x) = image[1] \o image[2] \o image[3]
    BY DEF PutExtension
  <2>4. size[1] + size[2] + size[3] =
          Width.u32 + 1 + (Width.u16 + Len(x.value))
    OBVIOUS
  <2>5. image = [i \in 1 .. 3 |-> image[i]]
    OBVIOUS
  <2> HIDE DEF image, size
  <2>6. /\ \A i \in 1 .. 3 : x[ExtensionNames[i]] \in DOMAIN ExtensionPuts[i]
        /\ [i \in 1 .. 3 |-> ExtensionPuts[i][x[ExtensionNames[i]]]] = image
        /\ image \in [1 .. 3 -> Seq(Octet)]
        /\ \A i \in 1 .. 3 : Len(image[i]) = size[i]
    <3>1. \A i \in 1 .. 3 :
             /\ x[ExtensionNames[i]] \in DOMAIN ExtensionPuts[i]
             /\ ExtensionPuts[i][x[ExtensionNames[i]]] = image[i]
             /\ image[i] \in Seq(Octet) /\ Len(image[i]) = size[i]
      BY <2>2 DEF Writes
    <3>2. [i \in 1 .. 3 |-> ExtensionPuts[i][x[ExtensionNames[i]]]] = [i \in 1 .. 3 |-> image[i]]
      BY <3>1
    <3>3. [i \in 1 .. 3 |-> image[i]] \in [1 .. 3 -> Seq(Octet)]
      BY <3>1
    <3> QED
      BY <2>5, <3>1, <3>2, <3>3
  <2>7. /\ FlattenSeq(image) \in Seq(Octet)
        /\ FlattenSeq(image) = image[1] \o image[2] \o image[3]
        /\ Len(FlattenSeq(image)) = Len(image[1]) + Len(image[2]) + Len(image[3])
    BY <2>6, Parts3
  <2>8. /\ Len(image[1]) = size[1]
        /\ Len(image[2]) = size[2]
        /\ Len(image[3]) = size[3]
    BY <2>6
  <2>9. Len(FlattenSeq(image)) = size[1] + size[2] + size[3]
    BY <2>7, <2>8
  <2> QED
    BY <1>2, <2>1, <2>3, <2>4, <2>6, <2>7, <2>9
<1>6. ASSUME NEW values \in Tuples(ExtensionPuts, 3)
      PROVE  \E x \in FitExtension : \A i \in 1 .. 3 : x[ExtensionNames[i]] = values[i]
  <2>1. /\ values[1] \in U32
        /\ values[2] \in BOOLEAN
        /\ values[3] \in Lists(Octet, MaxExtensionValueOctets)
    BY <1>3 DEF Tuples
  <2> DEFINE x == [ id |-> values[1], critical |-> values[2], value |-> values[3] ]
  <2>2. x \in FitExtension
    BY <2>1 DEF FitExtension
  <2>3. \A i \in 1 .. 3 : x[ExtensionNames[i]] = values[i]
    BY DEF ExtensionNames
  <2> HIDE DEF x
  <2> QED
    BY <2>2, <2>3
<1>7. DOMAIN ExtensionImage = FitExtension /\ \A x \in FitExtension : ExtensionImage[x] = PutExtension(x)
  BY DEF ExtensionImage
<1> QED
  BY <1>1, <1>5, <1>6, <1>7 DEF Assembles

LEMMA ExtensionListWrites ==
    ASSUME NEW maximum \in Nat, 0 .. maximum \in SUBSET Octet
    PROVE  /\ DOMAIN ListImage(ExtensionImage, 0 .. maximum) = Lists(FitExtension, maximum)
           /\ \A list \in Lists(FitExtension, maximum) :
                 Writes(ListImage(ExtensionImage, 0 .. maximum), list,
                        PutList(PutExtension, list), (1 + SumOver(ExtensionSize, list)))
<1>1. /\ DOMAIN ExtensionImage = FitExtension
      /\ \A x \in FitExtension : ExtensionImage[x] = PutExtension(x) /\ PutExtension(x) \in Seq(Octet)
      /\ \A x \in FitExtension : Len(PutExtension(x)) = ExtensionSize(x)
  BY ExtensionFields DEF ExtensionImage, ExtensionSize
<1>2. Images(ExtensionImage) /\ ListsOf(ExtensionImage, 0 .. maximum) = Lists(FitExtension, maximum)
  BY <1>1, ListsFacts DEF Images
<1>3. DOMAIN ListImage(ExtensionImage, 0 .. maximum) = Lists(FitExtension, maximum)
  BY <1>2 DEF ListImage
<1>4. ASSUME NEW list \in Lists(FitExtension, maximum)
      PROVE  Writes(ListImage(ExtensionImage, 0 .. maximum), list,
                    PutList(PutExtension, list), (1 + SumOver(ExtensionSize, list)))
  <2>1. \A i \in DOMAIN list : list[i] \in FitExtension
    BY DEF Lists
  <2>2. [i \in DOMAIN list |-> ExtensionImage[list[i]]] = [i \in DOMAIN list |-> PutExtension(list[i])]
    BY <1>1, <2>1
  <2>3. PutList(PutExtension, list) = <<Len(list)>> \o FlattenSeq([i \in DOMAIN list |-> PutExtension(list[i])])
    BY DEF PutList, PutAll
  <2>4. [i \in DOMAIN list |-> Len(ExtensionImage[list[i]])] = [i \in DOMAIN list |-> ExtensionSize(list[i])]
    BY <1>1, <2>1
  <2>5. Writes(ListImage(ExtensionImage, 0 .. maximum), list,
               <<Len(list)>> \o FlattenSeq([i \in DOMAIN list |-> ExtensionImage[list[i]]]),
               1 + SumOf([i \in DOMAIN list |-> Len(ExtensionImage[list[i]])]))
    BY <1>2, ListWrites
  <2>6. SumOver(ExtensionSize, list) = SumOf([i \in DOMAIN list |-> ExtensionSize(list[i])])
    BY DEF SumOver
  <2> QED
    BY <2>2, <2>3, <2>4, <2>5, <2>6
<1> QED
  BY <1>3, <1>4

\* The lists of an operation, each with its maximum.
GenerationList == ListImage(GenerationImage, 0 .. MaxCapabilityProtocols)
SchemaList == ListImage(IdImage, 0 .. MaxCapabilitySchemas)
PreferenceList == ListImage(PreferenceImage, 0 .. MaxCapabilityCodecs)
DeclarationList == ListImage(DeclarationImage, 0 .. MaxExtensions)
DescriptorList == ListImage(DescriptorImage, 0 .. MaxOfferDescriptors)
SelectionList == ListImage(SelectionImage, 0 .. MaxRequestSelections)
ExtensionList == ListImage(ExtensionImage, 0 .. MaxExtensions)

LEMMA FieldLists ==
    /\ DOMAIN GenerationList = Lists(WireGeneration, MaxCapabilityProtocols)
    /\ \A list \in Lists(WireGeneration, MaxCapabilityProtocols) :
          Writes(GenerationList, list, PutList(PutGeneration, list), (1 + Len(list) * (Width.u16 + Width.u16)))
    /\ DOMAIN SchemaList = Lists(Id, MaxCapabilitySchemas)
    /\ \A list \in Lists(Id, MaxCapabilitySchemas) :
          Writes(SchemaList, list, PutList(PutId, list), (1 + Len(list) * Width.id))
    /\ DOMAIN PreferenceList = Lists(WirePreference, MaxCapabilityCodecs)
    /\ \A list \in Lists(WirePreference, MaxCapabilityCodecs) :
          Writes(PreferenceList, list, PutList(PutPreference, list), (1 + Len(list) * (Width.u32 + Width.u32 + Width.id)))
    /\ DOMAIN DeclarationList = Lists(WireDeclaration, MaxExtensions)
    /\ \A list \in Lists(WireDeclaration, MaxExtensions) :
          Writes(DeclarationList, list, PutList(PutDeclaration, list), (1 + Len(list) * (Width.u32 + 1)))
    /\ DOMAIN DescriptorList = Lists(FitEntry, MaxOfferDescriptors)
    /\ \A list \in Lists(FitEntry, MaxOfferDescriptors) :
          Writes(DescriptorList, list, PutList(PutDescriptor, list), (1 + SumOver(DescriptorSize, list)))
    /\ DOMAIN SelectionList = Lists(Selection, MaxRequestSelections)
    /\ \A list \in Lists(Selection, MaxRequestSelections) :
          Writes(SelectionList, list, PutList(PutSelection, list), (1 + Len(list) * (Width.id + Width.u64 + Width.u64)))
    /\ DOMAIN ExtensionList = Lists(FitExtension, MaxExtensions)
    /\ \A list \in Lists(FitExtension, MaxExtensions) :
          Writes(ExtensionList, list, PutList(PutExtension, list), (1 + SumOver(ExtensionSize, list)))
<1>1. /\ MaxCapabilityProtocols \in Nat /\ MaxCapabilitySchemas \in Nat
      /\ MaxCapabilityCodecs \in Nat /\ MaxExtensions \in Nat
      /\ MaxOfferDescriptors \in Nat /\ MaxRequestSelections \in Nat
  BY LimitsAssumption, BoundsAssumption DEF Octet
<1>2. /\ DOMAIN GenerationList = Lists(WireGeneration, MaxCapabilityProtocols)
      /\ \A list \in Lists(WireGeneration, MaxCapabilityProtocols) :
            Writes(GenerationList, list, PutList(PutGeneration, list), (1 + Len(list) * (Width.u16 + Width.u16)))
  BY <1>1, Counts, GenerationListWrites DEF GenerationList
<1>3. /\ DOMAIN SchemaList = Lists(Id, MaxCapabilitySchemas)
      /\ \A list \in Lists(Id, MaxCapabilitySchemas) :
            Writes(SchemaList, list, PutList(PutId, list), (1 + Len(list) * Width.id))
  <2>1. ListsOf(IdImage, 0 .. MaxCapabilitySchemas) = Lists(Id, MaxCapabilitySchemas)
    BY <1>1, WidthImages, ListsFacts
  <2>2. DOMAIN SchemaList = Lists(Id, MaxCapabilitySchemas)
    BY <2>1 DEF SchemaList, ListImage
  <2> QED
    BY <2>1, <2>2, Counts, PutNumberLists DEF SchemaList, Writes
<1>4. /\ DOMAIN PreferenceList = Lists(WirePreference, MaxCapabilityCodecs)
      /\ \A list \in Lists(WirePreference, MaxCapabilityCodecs) :
            Writes(PreferenceList, list, PutList(PutPreference, list), (1 + Len(list) * (Width.u32 + Width.u32 + Width.id)))
  BY <1>1, Counts, PreferenceListWrites DEF PreferenceList
<1>5. /\ DOMAIN DeclarationList = Lists(WireDeclaration, MaxExtensions)
      /\ \A list \in Lists(WireDeclaration, MaxExtensions) :
            Writes(DeclarationList, list, PutList(PutDeclaration, list), (1 + Len(list) * (Width.u32 + 1)))
  BY <1>1, Counts, DeclarationListWrites DEF DeclarationList
<1>6. /\ DOMAIN DescriptorList = Lists(FitEntry, MaxOfferDescriptors)
      /\ \A list \in Lists(FitEntry, MaxOfferDescriptors) :
            Writes(DescriptorList, list, PutList(PutDescriptor, list), (1 + SumOver(DescriptorSize, list)))
  BY <1>1, Counts, DescriptorListWrites DEF DescriptorList
<1>7. /\ DOMAIN SelectionList = Lists(Selection, MaxRequestSelections)
      /\ \A list \in Lists(Selection, MaxRequestSelections) :
            Writes(SelectionList, list, PutList(PutSelection, list), (1 + Len(list) * (Width.id + Width.u64 + Width.u64)))
  BY <1>1, Counts, SelectionListWrites DEF SelectionList
<1>8. /\ DOMAIN ExtensionList = Lists(FitExtension, MaxExtensions)
      /\ \A list \in Lists(FitExtension, MaxExtensions) :
            Writes(ExtensionList, list, PutList(PutExtension, list), (1 + SumOver(ExtensionSize, list)))
  BY <1>1, Counts, ExtensionListWrites DEF ExtensionList
<1> QED
  BY <1>2, <1>3, <1>4, <1>5, <1>6, <1>7, <1>8

---------------------------------------------------------------------------
(* The bodies of the operations, of what fits the literals of the code.    *)

Payload(kind, v) == EncodePayload([kind |-> kind, body |-> v])

\* CAPABILITIES.
CapabilitiesNames == << "protocol_generations", "schema_fingerprints",
                        "codec_preferences", "max_operation_octets",
                        "max_data_payload_octets", "receipt_levels", "security_class",
                        "extensions" >>
CapabilitiesPuts ==
    << GenerationList, SchemaList, PreferenceList, U32Image,
       U64Image, BitsImage, EnumImage(SecurityClasses), DeclarationList >>
FitCapabilities ==
    [ protocol_generations : Lists(WireGeneration, MaxCapabilityProtocols),
      schema_fingerprints : Lists(Id, MaxCapabilitySchemas),
      codec_preferences : Lists(WirePreference, MaxCapabilityCodecs),
      max_operation_octets : U32, max_data_payload_octets : U64,
      receipt_levels : SUBSET (0 .. 7), security_class : ToSet(SecurityClasses),
      extensions : Lists(WireDeclaration, MaxExtensions) ]
CapabilitiesImage == [v \in FitCapabilities |-> Payload("CAPABILITIES", v)]

LEMMA CapabilitiesFields ==
    /\ Assembles(8, CapabilitiesNames, CapabilitiesPuts, CapabilitiesImage)
    /\ \A v \in FitCapabilities :
          /\ Payload("CAPABILITIES", v) \in Seq(Octet)
          /\ Len(Payload("CAPABILITIES", v)) =
                (1 + Len(v.protocol_generations) * (Width.u16 + Width.u16)) +
                (1 + Len(v.schema_fingerprints) * Width.id) +
                (1 + Len(v.codec_preferences) * (Width.u32 + Width.u32 + Width.id)) +
                Width.u32 + Width.u64 + 1 + 1 +
                (1 + Len(v.extensions) * (Width.u32 + 1))
<1>1. \A i \in 1 .. 8 : \A j \in 1 .. 8 : CapabilitiesNames[i] = CapabilitiesNames[j] => i = j
  BY DEF CapabilitiesNames
<1>2. Fields(CapabilitiesNames, 8) =
         {"protocol_generations",
          "schema_fingerprints", "codec_preferences", "max_operation_octets",
          "max_data_payload_octets", "receipt_levels", "security_class", "extensions"}
  BY DEF CapabilitiesNames, Fields
<1>3. /\ DOMAIN CapabilitiesPuts[1] = Lists(WireGeneration, MaxCapabilityProtocols)
      /\ DOMAIN CapabilitiesPuts[2] = Lists(Id, MaxCapabilitySchemas)
      /\ DOMAIN CapabilitiesPuts[3] = Lists(WirePreference, MaxCapabilityCodecs)
      /\ DOMAIN CapabilitiesPuts[4] = U32
      /\ DOMAIN CapabilitiesPuts[5] = U64
      /\ DOMAIN CapabilitiesPuts[6] = SUBSET (0 .. 7)
      /\ DOMAIN CapabilitiesPuts[7] = ToSet(SecurityClasses)
      /\ DOMAIN CapabilitiesPuts[8] = Lists(WireDeclaration, MaxExtensions)
  BY FieldLists, WidthWrites, OctetWrites, SecurityWrites DEF CapabilitiesPuts
<1>4. ASSUME NEW v \in FitCapabilities
      PROVE  /\ Writes(CapabilitiesPuts[1], v.protocol_generations,
                       PutList(PutGeneration, v.protocol_generations), (1 + Len(v.protocol_generations) * (Width.u16 + Width.u16)))
             /\ Writes(CapabilitiesPuts[2], v.schema_fingerprints,
                       PutList(PutId, v.schema_fingerprints), (1 + Len(v.schema_fingerprints) * Width.id))
             /\ Writes(CapabilitiesPuts[3], v.codec_preferences,
                       PutList(PutPreference, v.codec_preferences), (1 + Len(v.codec_preferences) * (Width.u32 + Width.u32 + Width.id)))
             /\ Writes(CapabilitiesPuts[4], v.max_operation_octets,
                       PutU32(v.max_operation_octets), Width.u32)
             /\ Writes(CapabilitiesPuts[5], v.max_data_payload_octets,
                       PutU64(v.max_data_payload_octets), Width.u64)
             /\ Writes(CapabilitiesPuts[6], v.receipt_levels,
                       PutBits(v.receipt_levels), 1)
             /\ Writes(CapabilitiesPuts[7], v.security_class,
                       PutEnum(SecurityClasses, v.security_class), 1)
             /\ Writes(CapabilitiesPuts[8], v.extensions,
                       PutList(PutDeclaration, v.extensions), (1 + Len(v.extensions) * (Width.u32 + 1)))
  BY FieldLists, WidthWrites, OctetWrites, SecurityWrites DEF CapabilitiesPuts, FitCapabilities
<1>5. ASSUME NEW v \in FitCapabilities
      PROVE  /\ v = [name \in Fields(CapabilitiesNames, 8) |-> v[name]]
             /\ \A i \in 1 .. 8 : v[CapabilitiesNames[i]] \in DOMAIN CapabilitiesPuts[i]
             /\ Payload("CAPABILITIES", v) =
                   FlattenSeq([i \in 1 .. 8 |-> CapabilitiesPuts[i][v[CapabilitiesNames[i]]]])
             /\ Payload("CAPABILITIES", v) \in Seq(Octet)
             /\ Len(Payload("CAPABILITIES", v)) =
                   (1 + Len(v.protocol_generations) * (Width.u16 + Width.u16)) +
                   (1 + Len(v.schema_fingerprints) * Width.id) +
                   (1 + Len(v.codec_preferences) * (Width.u32 + Width.u32 + Width.id)) +
                   Width.u32 + Width.u64 + 1 + 1 +
                   (1 + Len(v.extensions) * (Width.u32 + 1))
  <2> DEFINE image ==
             << PutList(PutGeneration, v.protocol_generations),
                PutList(PutId, v.schema_fingerprints),
                PutList(PutPreference, v.codec_preferences),
                PutU32(v.max_operation_octets), PutU64(v.max_data_payload_octets),
                PutBits(v.receipt_levels), PutEnum(SecurityClasses, v.security_class),
                PutList(PutDeclaration, v.extensions) >>
             size ==
             << (1 + Len(v.protocol_generations) * (Width.u16 + Width.u16)),
                (1 + Len(v.schema_fingerprints) * Width.id),
                (1 + Len(v.codec_preferences) * (Width.u32 + Width.u32 + Width.id)),
                Width.u32, Width.u64, 1, 1, (1 + Len(v.extensions) * (Width.u32 + 1)) >>
  <2>1. v = [name \in {"protocol_generations", "schema_fingerprints",
                  "codec_preferences", "max_operation_octets",
                  "max_data_payload_octets", "receipt_levels", "security_class",
                  "extensions"} |-> v[name]]
    BY DEF FitCapabilities
  <2>2. \A i \in 1 .. 8 : Writes(CapabilitiesPuts[i], v[CapabilitiesNames[i]], image[i], size[i])
    <3>1. Writes(CapabilitiesPuts[1], v[CapabilitiesNames[1]], image[1], size[1])
      BY <1>4 DEF CapabilitiesNames
    <3>2. Writes(CapabilitiesPuts[2], v[CapabilitiesNames[2]], image[2], size[2])
      BY <1>4 DEF CapabilitiesNames
    <3>3. Writes(CapabilitiesPuts[3], v[CapabilitiesNames[3]], image[3], size[3])
      BY <1>4 DEF CapabilitiesNames
    <3>4. Writes(CapabilitiesPuts[4], v[CapabilitiesNames[4]], image[4], size[4])
      BY <1>4 DEF CapabilitiesNames
    <3>5. Writes(CapabilitiesPuts[5], v[CapabilitiesNames[5]], image[5], size[5])
      BY <1>4 DEF CapabilitiesNames
    <3>6. Writes(CapabilitiesPuts[6], v[CapabilitiesNames[6]], image[6], size[6])
      BY <1>4 DEF CapabilitiesNames
    <3>7. Writes(CapabilitiesPuts[7], v[CapabilitiesNames[7]], image[7], size[7])
      BY <1>4 DEF CapabilitiesNames
    <3>8. Writes(CapabilitiesPuts[8], v[CapabilitiesNames[8]], image[8], size[8])
      BY <1>4 DEF CapabilitiesNames
    <3> HIDE DEF image, size
    <3> QED
      BY <3>1, <3>2, <3>3, <3>4, <3>5, <3>6, <3>7, <3>8
  <2>3. Payload("CAPABILITIES", v) = image[1] \o image[2] \o image[3] \o image[4] \o
            image[5] \o image[6] \o image[7] \o image[8]
    BY DEF Payload, EncodePayload
  <2>4. size[1] + size[2] + size[3] + size[4] + size[5] + size[6] + size[7] + size[8] =
          (1 + Len(v.protocol_generations) * (Width.u16 + Width.u16)) +
          (1 + Len(v.schema_fingerprints) * Width.id) +
          (1 + Len(v.codec_preferences) * (Width.u32 + Width.u32 + Width.id)) +
          Width.u32 + Width.u64 + 1 + 1 + (1 + Len(v.extensions) * (Width.u32 + 1))
    OBVIOUS
  <2>5. image = [i \in 1 .. 8 |-> image[i]]
    OBVIOUS
  <2> HIDE DEF image, size
  <2>6. /\ \A i \in 1 .. 8 : v[CapabilitiesNames[i]] \in DOMAIN CapabilitiesPuts[i]
        /\ [i \in 1 .. 8 |-> CapabilitiesPuts[i][v[CapabilitiesNames[i]]]] = image
        /\ image \in [1 .. 8 -> Seq(Octet)]
        /\ \A i \in 1 .. 8 : Len(image[i]) = size[i]
    <3>1. \A i \in 1 .. 8 :
             /\ v[CapabilitiesNames[i]] \in DOMAIN CapabilitiesPuts[i]
             /\ CapabilitiesPuts[i][v[CapabilitiesNames[i]]] = image[i]
             /\ image[i] \in Seq(Octet) /\ Len(image[i]) = size[i]
      BY <2>2 DEF Writes
    <3>2. [i \in 1 .. 8 |-> CapabilitiesPuts[i][v[CapabilitiesNames[i]]]] = [i \in 1 .. 8 |-> image[i]]
      BY <3>1
    <3>3. [i \in 1 .. 8 |-> image[i]] \in [1 .. 8 -> Seq(Octet)]
      BY <3>1
    <3> QED
      BY <2>5, <3>1, <3>2, <3>3
  <2>7. /\ FlattenSeq(image) \in Seq(Octet)
        /\ FlattenSeq(image) = image[1] \o image[2] \o image[3] \o image[4] \o
                              image[5] \o image[6] \o image[7] \o image[8]
        /\ Len(FlattenSeq(image)) = Len(image[1]) + Len(image[2]) + Len(image[3]) +
                                    Len(image[4]) + Len(image[5]) + Len(image[6]) +
                                    Len(image[7]) + Len(image[8])
    BY <2>6, Parts8
  <2>8. /\ Len(image[1]) = size[1]
        /\ Len(image[2]) = size[2]
        /\ Len(image[3]) = size[3]
        /\ Len(image[4]) = size[4]
        /\ Len(image[5]) = size[5]
        /\ Len(image[6]) = size[6]
        /\ Len(image[7]) = size[7]
        /\ Len(image[8]) = size[8]
    BY <2>6
  <2>9. Len(FlattenSeq(image)) = size[1] + size[2] + size[3] + size[4] + size[5] +
                                 size[6] + size[7] + size[8]
    BY <2>7, <2>8
  <2> QED
    BY <1>2, <2>1, <2>3, <2>4, <2>6, <2>7, <2>9
<1>6. ASSUME NEW values \in Tuples(CapabilitiesPuts, 8)
      PROVE  \E v \in FitCapabilities : \A i \in 1 .. 8 : v[CapabilitiesNames[i]] = values[i]
  <2>1. /\ values[1] \in Lists(WireGeneration, MaxCapabilityProtocols)
        /\ values[2] \in Lists(Id, MaxCapabilitySchemas)
        /\ values[3] \in Lists(WirePreference, MaxCapabilityCodecs)
        /\ values[4] \in U32
        /\ values[5] \in U64
        /\ values[6] \in SUBSET (0 .. 7)
        /\ values[7] \in ToSet(SecurityClasses)
        /\ values[8] \in Lists(WireDeclaration, MaxExtensions)
    BY <1>3 DEF Tuples
  <2> DEFINE v == [ protocol_generations |-> values[1],
                    schema_fingerprints |-> values[2], codec_preferences |-> values[3],
                    max_operation_octets |-> values[4],
                    max_data_payload_octets |-> values[5], receipt_levels |-> values[6],
                    security_class |-> values[7], extensions |-> values[8] ]
  <2>2. v \in FitCapabilities
    BY <2>1 DEF FitCapabilities
  <2>3. \A i \in 1 .. 8 : v[CapabilitiesNames[i]] = values[i]
    BY DEF CapabilitiesNames
  <2> HIDE DEF v
  <2> QED
    BY <2>2, <2>3
<1>7. DOMAIN CapabilitiesImage = FitCapabilities /\ \A v \in FitCapabilities : CapabilitiesImage[v] = Payload("CAPABILITIES", v)
  BY DEF CapabilitiesImage
<1> QED
  BY <1>1, <1>5, <1>6, <1>7 DEF Assembles

\* SUMMARY.
SummaryNames == << "collection_id", "generation", "item_count", "collection_digest" >>
SummaryPuts ==
    << IdImage, U64Image, U64Image, IdImage >>
SummaryImage == [v \in Summary |-> Payload("SUMMARY", v)]

LEMMA SummaryFields ==
    /\ Assembles(4, SummaryNames, SummaryPuts, SummaryImage)
    /\ \A v \in Summary :
          /\ Payload("SUMMARY", v) \in Seq(Octet)
          /\ Len(Payload("SUMMARY", v)) =
                Width.id + Width.u64 +
                Width.u64 + Width.id
<1>1. \A i \in 1 .. 4 : \A j \in 1 .. 4 : SummaryNames[i] = SummaryNames[j] => i = j
  BY DEF SummaryNames
<1>2. Fields(SummaryNames, 4) =
         {"collection_id", "generation", "item_count",
          "collection_digest"}
  BY DEF SummaryNames, Fields
<1>3. /\ DOMAIN SummaryPuts[1] = Id
      /\ DOMAIN SummaryPuts[2] = U64
      /\ DOMAIN SummaryPuts[3] = U64
      /\ DOMAIN SummaryPuts[4] = Id
  BY WidthWrites DEF SummaryPuts
<1>4. ASSUME NEW v \in Summary
      PROVE  /\ Writes(SummaryPuts[1], v.collection_id,
                       PutId(v.collection_id), Width.id)
             /\ Writes(SummaryPuts[2], v.generation,
                       PutU64(v.generation), Width.u64)
             /\ Writes(SummaryPuts[3], v.item_count,
                       PutU64(v.item_count), Width.u64)
             /\ Writes(SummaryPuts[4], v.collection_digest,
                       PutId(v.collection_digest), Width.id)
  BY WidthWrites DEF SummaryPuts, Summary
<1>5. ASSUME NEW v \in Summary
      PROVE  /\ v = [name \in Fields(SummaryNames, 4) |-> v[name]]
             /\ \A i \in 1 .. 4 : v[SummaryNames[i]] \in DOMAIN SummaryPuts[i]
             /\ Payload("SUMMARY", v) =
                   FlattenSeq([i \in 1 .. 4 |-> SummaryPuts[i][v[SummaryNames[i]]]])
             /\ Payload("SUMMARY", v) \in Seq(Octet)
             /\ Len(Payload("SUMMARY", v)) =
                   Width.id + Width.u64 +
                   Width.u64 + Width.id
  <2> DEFINE image ==
             << PutId(v.collection_id), PutU64(v.generation),
                PutU64(v.item_count), PutId(v.collection_digest) >>
             size ==
             << Width.id, Width.u64, Width.u64, Width.id >>
  <2>1. v = [name \in {"collection_id", "generation", "item_count", "collection_digest"} |-> v[name]]
    BY DEF Summary
  <2>2. \A i \in 1 .. 4 : Writes(SummaryPuts[i], v[SummaryNames[i]], image[i], size[i])
    <3>1. Writes(SummaryPuts[1], v[SummaryNames[1]], image[1], size[1])
      BY <1>4 DEF SummaryNames
    <3>2. Writes(SummaryPuts[2], v[SummaryNames[2]], image[2], size[2])
      BY <1>4 DEF SummaryNames
    <3>3. Writes(SummaryPuts[3], v[SummaryNames[3]], image[3], size[3])
      BY <1>4 DEF SummaryNames
    <3>4. Writes(SummaryPuts[4], v[SummaryNames[4]], image[4], size[4])
      BY <1>4 DEF SummaryNames
    <3> HIDE DEF image, size
    <3> QED
      BY <3>1, <3>2, <3>3, <3>4
  <2>3. Payload("SUMMARY", v) = image[1] \o image[2] \o image[3] \o image[4]
    BY DEF Payload, EncodePayload
  <2>4. size[1] + size[2] + size[3] + size[4] =
          Width.id + Width.u64 + Width.u64 + Width.id
    OBVIOUS
  <2>5. image = [i \in 1 .. 4 |-> image[i]]
    OBVIOUS
  <2> HIDE DEF image, size
  <2>6. /\ \A i \in 1 .. 4 : v[SummaryNames[i]] \in DOMAIN SummaryPuts[i]
        /\ [i \in 1 .. 4 |-> SummaryPuts[i][v[SummaryNames[i]]]] = image
        /\ image \in [1 .. 4 -> Seq(Octet)]
        /\ \A i \in 1 .. 4 : Len(image[i]) = size[i]
    <3>1. \A i \in 1 .. 4 :
             /\ v[SummaryNames[i]] \in DOMAIN SummaryPuts[i]
             /\ SummaryPuts[i][v[SummaryNames[i]]] = image[i]
             /\ image[i] \in Seq(Octet) /\ Len(image[i]) = size[i]
      BY <2>2 DEF Writes
    <3>2. [i \in 1 .. 4 |-> SummaryPuts[i][v[SummaryNames[i]]]] = [i \in 1 .. 4 |-> image[i]]
      BY <3>1
    <3>3. [i \in 1 .. 4 |-> image[i]] \in [1 .. 4 -> Seq(Octet)]
      BY <3>1
    <3> QED
      BY <2>5, <3>1, <3>2, <3>3
  <2>7. /\ FlattenSeq(image) \in Seq(Octet)
        /\ FlattenSeq(image) = image[1] \o image[2] \o image[3] \o image[4]
        /\ Len(FlattenSeq(image)) = Len(image[1]) + Len(image[2]) + Len(image[3]) +
                                    Len(image[4])
    BY <2>6, Parts4
  <2>8. /\ Len(image[1]) = size[1]
        /\ Len(image[2]) = size[2]
        /\ Len(image[3]) = size[3]
        /\ Len(image[4]) = size[4]
    BY <2>6
  <2>9. Len(FlattenSeq(image)) = size[1] + size[2] + size[3] + size[4]
    BY <2>7, <2>8
  <2> QED
    BY <1>2, <2>1, <2>3, <2>4, <2>6, <2>7, <2>9
<1>6. ASSUME NEW values \in Tuples(SummaryPuts, 4)
      PROVE  \E v \in Summary : \A i \in 1 .. 4 : v[SummaryNames[i]] = values[i]
  <2>1. /\ values[1] \in Id
        /\ values[2] \in U64
        /\ values[3] \in U64
        /\ values[4] \in Id
    BY <1>3 DEF Tuples
  <2> DEFINE v == [ collection_id |-> values[1], generation |-> values[2],
                    item_count |-> values[3], collection_digest |-> values[4] ]
  <2>2. v \in Summary
    BY <2>1 DEF Summary
  <2>3. \A i \in 1 .. 4 : v[SummaryNames[i]] = values[i]
    BY DEF SummaryNames
  <2> HIDE DEF v
  <2> QED
    BY <2>2, <2>3
<1>7. DOMAIN SummaryImage = Summary /\ \A v \in Summary : SummaryImage[v] = Payload("SUMMARY", v)
  BY DEF SummaryImage
<1> QED
  BY <1>1, <1>5, <1>6, <1>7 DEF Assembles

\* OFFER.
OfferNames == << "collection_id", "mode", "base_generation", "target_generation",
                 "first_cursor", "last_cursor", "descriptors", "more" >>
OfferPuts ==
    << IdImage, EnumImage(OfferModes), U64Image, U64Image, CursorImage,
       CursorImage, DescriptorList, BoolImage >>
FitOffer ==
    [ collection_id : Id, mode : ToSet(OfferModes), base_generation : U64,
      target_generation : U64, first_cursor : Cursor, last_cursor : Cursor,
      descriptors : Lists(FitEntry, MaxOfferDescriptors), more : BOOLEAN ]
OfferImage == [v \in FitOffer |-> Payload("OFFER", v)]

LEMMA OfferFields ==
    /\ Assembles(8, OfferNames, OfferPuts, OfferImage)
    /\ \A v \in FitOffer :
          /\ Payload("OFFER", v) \in Seq(Octet)
          /\ Len(Payload("OFFER", v)) =
                Width.id + 1 + Width.u64 +
                Width.u64 + CursorSize(v.first_cursor) + CursorSize(v.last_cursor) +
                (1 + SumOver(DescriptorSize, v.descriptors)) + 1
<1>1. \A i \in 1 .. 8 : \A j \in 1 .. 8 : OfferNames[i] = OfferNames[j] => i = j
  BY DEF OfferNames
<1>2. Fields(OfferNames, 8) =
         {"collection_id", "mode", "base_generation",
          "target_generation", "first_cursor", "last_cursor", "descriptors", "more"}
  BY DEF OfferNames, Fields
<1>3. /\ DOMAIN OfferPuts[1] = Id
      /\ DOMAIN OfferPuts[2] = ToSet(OfferModes)
      /\ DOMAIN OfferPuts[3] = U64
      /\ DOMAIN OfferPuts[4] = U64
      /\ DOMAIN OfferPuts[5] = Cursor
      /\ DOMAIN OfferPuts[6] = Cursor
      /\ DOMAIN OfferPuts[7] = Lists(FitEntry, MaxOfferDescriptors)
      /\ DOMAIN OfferPuts[8] = BOOLEAN
  BY WidthWrites, ModeWrites, CursorWrites, FieldLists, OctetWrites DEF OfferPuts
<1>4. ASSUME NEW v \in FitOffer
      PROVE  /\ Writes(OfferPuts[1], v.collection_id,
                       PutId(v.collection_id), Width.id)
             /\ Writes(OfferPuts[2], v.mode,
                       PutEnum(OfferModes, v.mode), 1)
             /\ Writes(OfferPuts[3], v.base_generation,
                       PutU64(v.base_generation), Width.u64)
             /\ Writes(OfferPuts[4], v.target_generation,
                       PutU64(v.target_generation), Width.u64)
             /\ Writes(OfferPuts[5], v.first_cursor,
                       PutCursor(v.first_cursor), CursorSize(v.first_cursor))
             /\ Writes(OfferPuts[6], v.last_cursor,
                       PutCursor(v.last_cursor), CursorSize(v.last_cursor))
             /\ Writes(OfferPuts[7], v.descriptors,
                       PutList(PutDescriptor, v.descriptors), (1 + SumOver(DescriptorSize, v.descriptors)))
             /\ Writes(OfferPuts[8], v.more,
                       PutBool(v.more), 1)
  BY WidthWrites, ModeWrites, CursorWrites, FieldLists, OctetWrites DEF OfferPuts, FitOffer
<1>5. ASSUME NEW v \in FitOffer
      PROVE  /\ v = [name \in Fields(OfferNames, 8) |-> v[name]]
             /\ \A i \in 1 .. 8 : v[OfferNames[i]] \in DOMAIN OfferPuts[i]
             /\ Payload("OFFER", v) =
                   FlattenSeq([i \in 1 .. 8 |-> OfferPuts[i][v[OfferNames[i]]]])
             /\ Payload("OFFER", v) \in Seq(Octet)
             /\ Len(Payload("OFFER", v)) =
                   Width.id + 1 + Width.u64 +
                   Width.u64 + CursorSize(v.first_cursor) + CursorSize(v.last_cursor) +
                   (1 + SumOver(DescriptorSize, v.descriptors)) + 1
  <2> DEFINE image ==
             << PutId(v.collection_id),
                PutEnum(OfferModes, v.mode), PutU64(v.base_generation),
                PutU64(v.target_generation), PutCursor(v.first_cursor),
                PutCursor(v.last_cursor), PutList(PutDescriptor, v.descriptors),
                PutBool(v.more) >>
             size ==
             << Width.id, 1, Width.u64, Width.u64,
                CursorSize(v.first_cursor), CursorSize(v.last_cursor),
                (1 + SumOver(DescriptorSize, v.descriptors)), 1 >>
  <2>1. v = [name \in {"collection_id", "mode", "base_generation", "target_generation",
                  "first_cursor", "last_cursor", "descriptors", "more"} |-> v[name]]
    BY DEF FitOffer
  <2>2. \A i \in 1 .. 8 : Writes(OfferPuts[i], v[OfferNames[i]], image[i], size[i])
    <3>1. Writes(OfferPuts[1], v[OfferNames[1]], image[1], size[1])
      BY <1>4 DEF OfferNames
    <3>2. Writes(OfferPuts[2], v[OfferNames[2]], image[2], size[2])
      BY <1>4 DEF OfferNames
    <3>3. Writes(OfferPuts[3], v[OfferNames[3]], image[3], size[3])
      BY <1>4 DEF OfferNames
    <3>4. Writes(OfferPuts[4], v[OfferNames[4]], image[4], size[4])
      BY <1>4 DEF OfferNames
    <3>5. Writes(OfferPuts[5], v[OfferNames[5]], image[5], size[5])
      BY <1>4 DEF OfferNames
    <3>6. Writes(OfferPuts[6], v[OfferNames[6]], image[6], size[6])
      BY <1>4 DEF OfferNames
    <3>7. Writes(OfferPuts[7], v[OfferNames[7]], image[7], size[7])
      BY <1>4 DEF OfferNames
    <3>8. Writes(OfferPuts[8], v[OfferNames[8]], image[8], size[8])
      BY <1>4 DEF OfferNames
    <3> HIDE DEF image, size
    <3> QED
      BY <3>1, <3>2, <3>3, <3>4, <3>5, <3>6, <3>7, <3>8
  <2>3. Payload("OFFER", v) = image[1] \o image[2] \o image[3] \o image[4] \o
            image[5] \o image[6] \o image[7] \o image[8]
    BY DEF Payload, EncodePayload
  <2>4. size[1] + size[2] + size[3] + size[4] + size[5] + size[6] + size[7] + size[8] =
          Width.id + 1 + Width.u64 + Width.u64 + CursorSize(v.first_cursor) +
          CursorSize(v.last_cursor) + (1 + SumOver(DescriptorSize, v.descriptors)) + 1
    OBVIOUS
  <2>5. image = [i \in 1 .. 8 |-> image[i]]
    OBVIOUS
  <2> HIDE DEF image, size
  <2>6. /\ \A i \in 1 .. 8 : v[OfferNames[i]] \in DOMAIN OfferPuts[i]
        /\ [i \in 1 .. 8 |-> OfferPuts[i][v[OfferNames[i]]]] = image
        /\ image \in [1 .. 8 -> Seq(Octet)]
        /\ \A i \in 1 .. 8 : Len(image[i]) = size[i]
    <3>1. \A i \in 1 .. 8 :
             /\ v[OfferNames[i]] \in DOMAIN OfferPuts[i]
             /\ OfferPuts[i][v[OfferNames[i]]] = image[i]
             /\ image[i] \in Seq(Octet) /\ Len(image[i]) = size[i]
      BY <2>2 DEF Writes
    <3>2. [i \in 1 .. 8 |-> OfferPuts[i][v[OfferNames[i]]]] = [i \in 1 .. 8 |-> image[i]]
      BY <3>1
    <3>3. [i \in 1 .. 8 |-> image[i]] \in [1 .. 8 -> Seq(Octet)]
      BY <3>1
    <3> QED
      BY <2>5, <3>1, <3>2, <3>3
  <2>7. /\ FlattenSeq(image) \in Seq(Octet)
        /\ FlattenSeq(image) = image[1] \o image[2] \o image[3] \o image[4] \o
                              image[5] \o image[6] \o image[7] \o image[8]
        /\ Len(FlattenSeq(image)) = Len(image[1]) + Len(image[2]) + Len(image[3]) +
                                    Len(image[4]) + Len(image[5]) + Len(image[6]) +
                                    Len(image[7]) + Len(image[8])
    BY <2>6, Parts8
  <2>8. /\ Len(image[1]) = size[1]
        /\ Len(image[2]) = size[2]
        /\ Len(image[3]) = size[3]
        /\ Len(image[4]) = size[4]
        /\ Len(image[5]) = size[5]
        /\ Len(image[6]) = size[6]
        /\ Len(image[7]) = size[7]
        /\ Len(image[8]) = size[8]
    BY <2>6
  <2>9. Len(FlattenSeq(image)) = size[1] + size[2] + size[3] + size[4] + size[5] +
                                 size[6] + size[7] + size[8]
    BY <2>7, <2>8
  <2> QED
    BY <1>2, <2>1, <2>3, <2>4, <2>6, <2>7, <2>9
<1>6. ASSUME NEW values \in Tuples(OfferPuts, 8)
      PROVE  \E v \in FitOffer : \A i \in 1 .. 8 : v[OfferNames[i]] = values[i]
  <2>1. /\ values[1] \in Id
        /\ values[2] \in ToSet(OfferModes)
        /\ values[3] \in U64
        /\ values[4] \in U64
        /\ values[5] \in Cursor
        /\ values[6] \in Cursor
        /\ values[7] \in Lists(FitEntry, MaxOfferDescriptors)
        /\ values[8] \in BOOLEAN
    BY <1>3 DEF Tuples
  <2> DEFINE v == [ collection_id |-> values[1], mode |-> values[2],
                    base_generation |-> values[3], target_generation |-> values[4],
                    first_cursor |-> values[5], last_cursor |-> values[6],
                    descriptors |-> values[7], more |-> values[8] ]
  <2>2. v \in FitOffer
    BY <2>1 DEF FitOffer
  <2>3. \A i \in 1 .. 8 : v[OfferNames[i]] = values[i]
    BY DEF OfferNames
  <2> HIDE DEF v
  <2> QED
    BY <2>2, <2>3
<1>7. DOMAIN OfferImage = FitOffer /\ \A v \in FitOffer : OfferImage[v] = Payload("OFFER", v)
  BY DEF OfferImage
<1> QED
  BY <1>1, <1>5, <1>6, <1>7 DEF Assembles

\* REQUEST, for a page or for data.
PageNames == << "collection_id", "target_generation", "mode", "committed_cursor",
                "page_entry_limit" >>
PagePuts ==
    << IdImage, U64Image, EnumImage(OfferModes), CursorImage, OctetImage >>
PageImage == [v \in PageRequest |-> PutPageRequest(v)]

LEMMA PageFields ==
    /\ Assembles(5, PageNames, PagePuts, PageImage)
    /\ \A v \in PageRequest :
          /\ PutPageRequest(v) \in Seq(Octet)
          /\ Len(PutPageRequest(v)) =
                Width.id + Width.u64 + 1 +
                CursorSize(v.committed_cursor) + 1
<1>1. \A i \in 1 .. 5 : \A j \in 1 .. 5 : PageNames[i] = PageNames[j] => i = j
  BY DEF PageNames
<1>2. Fields(PageNames, 5) =
         {"collection_id", "target_generation", "mode",
          "committed_cursor", "page_entry_limit"}
  BY DEF PageNames, Fields
<1>3. /\ DOMAIN PagePuts[1] = Id
      /\ DOMAIN PagePuts[2] = U64
      /\ DOMAIN PagePuts[3] = ToSet(OfferModes)
      /\ DOMAIN PagePuts[4] = Cursor
      /\ DOMAIN PagePuts[5] = Octet
  BY WidthWrites, ModeWrites, CursorWrites, OctetWrites DEF PagePuts
<1>4. ASSUME NEW v \in PageRequest
      PROVE  /\ Writes(PagePuts[1], v.collection_id,
                       PutId(v.collection_id), Width.id)
             /\ Writes(PagePuts[2], v.target_generation,
                       PutU64(v.target_generation), Width.u64)
             /\ Writes(PagePuts[3], v.mode,
                       PutEnum(OfferModes, v.mode), 1)
             /\ Writes(PagePuts[4], v.committed_cursor,
                       PutCursor(v.committed_cursor), CursorSize(v.committed_cursor))
             /\ Writes(PagePuts[5], v.page_entry_limit,
                       <<v.page_entry_limit>>, 1)
  BY WidthWrites, ModeWrites, CursorWrites, OctetWrites DEF PagePuts, PageRequest
<1>5. ASSUME NEW v \in PageRequest
      PROVE  /\ v = [name \in Fields(PageNames, 5) |-> v[name]]
             /\ \A i \in 1 .. 5 : v[PageNames[i]] \in DOMAIN PagePuts[i]
             /\ PutPageRequest(v) =
                   FlattenSeq([i \in 1 .. 5 |-> PagePuts[i][v[PageNames[i]]]])
             /\ PutPageRequest(v) \in Seq(Octet)
             /\ Len(PutPageRequest(v)) =
                   Width.id + Width.u64 + 1 +
                   CursorSize(v.committed_cursor) + 1
  <2> DEFINE image ==
             << PutId(v.collection_id),
                PutU64(v.target_generation), PutEnum(OfferModes, v.mode),
                PutCursor(v.committed_cursor), <<v.page_entry_limit>> >>
             size ==
             << Width.id, Width.u64, 1,
                CursorSize(v.committed_cursor), 1 >>
  <2>1. v = [name \in {"collection_id", "target_generation", "mode", "committed_cursor",
                  "page_entry_limit"} |-> v[name]]
    BY DEF PageRequest
  <2>2. \A i \in 1 .. 5 : Writes(PagePuts[i], v[PageNames[i]], image[i], size[i])
    <3>1. Writes(PagePuts[1], v[PageNames[1]], image[1], size[1])
      BY <1>4 DEF PageNames
    <3>2. Writes(PagePuts[2], v[PageNames[2]], image[2], size[2])
      BY <1>4 DEF PageNames
    <3>3. Writes(PagePuts[3], v[PageNames[3]], image[3], size[3])
      BY <1>4 DEF PageNames
    <3>4. Writes(PagePuts[4], v[PageNames[4]], image[4], size[4])
      BY <1>4 DEF PageNames
    <3>5. Writes(PagePuts[5], v[PageNames[5]], image[5], size[5])
      BY <1>4 DEF PageNames
    <3> HIDE DEF image, size
    <3> QED
      BY <3>1, <3>2, <3>3, <3>4, <3>5
  <2>3. PutPageRequest(v) = image[1] \o image[2] \o image[3] \o image[4] \o image[5]
    BY DEF PutPageRequest
  <2>4. size[1] + size[2] + size[3] + size[4] + size[5] =
          Width.id + Width.u64 + 1 + CursorSize(v.committed_cursor) + 1
    OBVIOUS
  <2>5. image = [i \in 1 .. 5 |-> image[i]]
    OBVIOUS
  <2> HIDE DEF image, size
  <2>6. /\ \A i \in 1 .. 5 : v[PageNames[i]] \in DOMAIN PagePuts[i]
        /\ [i \in 1 .. 5 |-> PagePuts[i][v[PageNames[i]]]] = image
        /\ image \in [1 .. 5 -> Seq(Octet)]
        /\ \A i \in 1 .. 5 : Len(image[i]) = size[i]
    <3>1. \A i \in 1 .. 5 :
             /\ v[PageNames[i]] \in DOMAIN PagePuts[i]
             /\ PagePuts[i][v[PageNames[i]]] = image[i]
             /\ image[i] \in Seq(Octet) /\ Len(image[i]) = size[i]
      BY <2>2 DEF Writes
    <3>2. [i \in 1 .. 5 |-> PagePuts[i][v[PageNames[i]]]] = [i \in 1 .. 5 |-> image[i]]
      BY <3>1
    <3>3. [i \in 1 .. 5 |-> image[i]] \in [1 .. 5 -> Seq(Octet)]
      BY <3>1
    <3> QED
      BY <2>5, <3>1, <3>2, <3>3
  <2>7. /\ FlattenSeq(image) \in Seq(Octet)
        /\ FlattenSeq(image) = image[1] \o image[2] \o image[3] \o image[4] \o image[5]
        /\ Len(FlattenSeq(image)) = Len(image[1]) + Len(image[2]) + Len(image[3]) +
                                    Len(image[4]) + Len(image[5])
    BY <2>6, Parts5
  <2>8. /\ Len(image[1]) = size[1]
        /\ Len(image[2]) = size[2]
        /\ Len(image[3]) = size[3]
        /\ Len(image[4]) = size[4]
        /\ Len(image[5]) = size[5]
    BY <2>6
  <2>9. Len(FlattenSeq(image)) = size[1] + size[2] + size[3] + size[4] + size[5]
    BY <2>7, <2>8
  <2> QED
    BY <1>2, <2>1, <2>3, <2>4, <2>6, <2>7, <2>9
<1>6. ASSUME NEW values \in Tuples(PagePuts, 5)
      PROVE  \E v \in PageRequest : \A i \in 1 .. 5 : v[PageNames[i]] = values[i]
  <2>1. /\ values[1] \in Id
        /\ values[2] \in U64
        /\ values[3] \in ToSet(OfferModes)
        /\ values[4] \in Cursor
        /\ values[5] \in Octet
    BY <1>3 DEF Tuples
  <2> DEFINE v == [ collection_id |-> values[1], target_generation |-> values[2],
                    mode |-> values[3], committed_cursor |-> values[4],
                    page_entry_limit |-> values[5] ]
  <2>2. v \in PageRequest
    BY <2>1 DEF PageRequest
  <2>3. \A i \in 1 .. 5 : v[PageNames[i]] = values[i]
    BY DEF PageNames
  <2> HIDE DEF v
  <2> QED
    BY <2>2, <2>3
<1>7. DOMAIN PageImage = PageRequest /\ \A v \in PageRequest : PageImage[v] = PutPageRequest(v)
  BY DEF PageImage
<1> QED
  BY <1>1, <1>5, <1>6, <1>7 DEF Assembles

DataRequestNames == << "budget_id", "max_total_bempic_bytes",
                       "max_sender_to_receiver_bytes", "max_receiver_to_sender_bytes",
                       "selections" >>
DataRequestPuts ==
    << Id16Image, U64Image, U64Image, U64Image, SelectionList >>
FitDataRequest ==
    [ budget_id : Id16, max_total_bempic_bytes : U64, max_sender_to_receiver_bytes : U64,
      max_receiver_to_sender_bytes : U64, selections : Lists(Selection, MaxRequestSelections) ]
DataRequestImage == [v \in FitDataRequest |-> PutDataRequest(v)]

LEMMA DataRequestFields ==
    /\ Assembles(5, DataRequestNames, DataRequestPuts, DataRequestImage)
    /\ \A v \in FitDataRequest :
          /\ PutDataRequest(v) \in Seq(Octet)
          /\ Len(PutDataRequest(v)) =
                Width.id16 + Width.u64 +
                Width.u64 + Width.u64 +
                (1 + Len(v.selections) * (Width.id + Width.u64 + Width.u64))
<1>1. \A i \in 1 .. 5 : \A j \in 1 .. 5 : DataRequestNames[i] = DataRequestNames[j] => i = j
  BY DEF DataRequestNames
<1>2. Fields(DataRequestNames, 5) =
         {"budget_id", "max_total_bempic_bytes",
          "max_sender_to_receiver_bytes", "max_receiver_to_sender_bytes", "selections"}
  BY DEF DataRequestNames, Fields
<1>3. /\ DOMAIN DataRequestPuts[1] = Id16
      /\ DOMAIN DataRequestPuts[2] = U64
      /\ DOMAIN DataRequestPuts[3] = U64
      /\ DOMAIN DataRequestPuts[4] = U64
      /\ DOMAIN DataRequestPuts[5] = Lists(Selection, MaxRequestSelections)
  BY WidthWrites, FieldLists DEF DataRequestPuts
<1>4. ASSUME NEW v \in FitDataRequest
      PROVE  /\ Writes(DataRequestPuts[1], v.budget_id,
                       PutId16(v.budget_id), Width.id16)
             /\ Writes(DataRequestPuts[2], v.max_total_bempic_bytes,
                       PutU64(v.max_total_bempic_bytes), Width.u64)
             /\ Writes(DataRequestPuts[3], v.max_sender_to_receiver_bytes,
                       PutU64(v.max_sender_to_receiver_bytes), Width.u64)
             /\ Writes(DataRequestPuts[4], v.max_receiver_to_sender_bytes,
                       PutU64(v.max_receiver_to_sender_bytes), Width.u64)
             /\ Writes(DataRequestPuts[5], v.selections,
                       PutList(PutSelection, v.selections), (1 + Len(v.selections) * (Width.id + Width.u64 + Width.u64)))
  BY WidthWrites, FieldLists DEF DataRequestPuts, FitDataRequest
<1>5. ASSUME NEW v \in FitDataRequest
      PROVE  /\ v = [name \in Fields(DataRequestNames, 5) |-> v[name]]
             /\ \A i \in 1 .. 5 : v[DataRequestNames[i]] \in DOMAIN DataRequestPuts[i]
             /\ PutDataRequest(v) =
                   FlattenSeq([i \in 1 .. 5 |-> DataRequestPuts[i][v[DataRequestNames[i]]]])
             /\ PutDataRequest(v) \in Seq(Octet)
             /\ Len(PutDataRequest(v)) =
                   Width.id16 + Width.u64 +
                   Width.u64 + Width.u64 +
                   (1 + Len(v.selections) * (Width.id + Width.u64 + Width.u64))
  <2> DEFINE image ==
             << PutId16(v.budget_id),
                PutU64(v.max_total_bempic_bytes),
                PutU64(v.max_sender_to_receiver_bytes),
                PutU64(v.max_receiver_to_sender_bytes),
                PutList(PutSelection, v.selections) >>
             size ==
             << Width.id16, Width.u64, Width.u64, Width.u64,
                (1 + Len(v.selections) * (Width.id + Width.u64 + Width.u64)) >>
  <2>1. v = [name \in {"budget_id", "max_total_bempic_bytes",
                  "max_sender_to_receiver_bytes", "max_receiver_to_sender_bytes",
                  "selections"} |-> v[name]]
    BY DEF FitDataRequest
  <2>2. \A i \in 1 .. 5 : Writes(DataRequestPuts[i], v[DataRequestNames[i]], image[i], size[i])
    <3>1. Writes(DataRequestPuts[1], v[DataRequestNames[1]], image[1], size[1])
      BY <1>4 DEF DataRequestNames
    <3>2. Writes(DataRequestPuts[2], v[DataRequestNames[2]], image[2], size[2])
      BY <1>4 DEF DataRequestNames
    <3>3. Writes(DataRequestPuts[3], v[DataRequestNames[3]], image[3], size[3])
      BY <1>4 DEF DataRequestNames
    <3>4. Writes(DataRequestPuts[4], v[DataRequestNames[4]], image[4], size[4])
      BY <1>4 DEF DataRequestNames
    <3>5. Writes(DataRequestPuts[5], v[DataRequestNames[5]], image[5], size[5])
      BY <1>4 DEF DataRequestNames
    <3> HIDE DEF image, size
    <3> QED
      BY <3>1, <3>2, <3>3, <3>4, <3>5
  <2>3. PutDataRequest(v) = image[1] \o image[2] \o image[3] \o image[4] \o image[5]
    BY DEF PutDataRequest
  <2>4. size[1] + size[2] + size[3] + size[4] + size[5] =
          Width.id16 + Width.u64 + Width.u64 + Width.u64 +
          (1 + Len(v.selections) * (Width.id + Width.u64 + Width.u64))
    OBVIOUS
  <2>5. image = [i \in 1 .. 5 |-> image[i]]
    OBVIOUS
  <2> HIDE DEF image, size
  <2>6. /\ \A i \in 1 .. 5 : v[DataRequestNames[i]] \in DOMAIN DataRequestPuts[i]
        /\ [i \in 1 .. 5 |-> DataRequestPuts[i][v[DataRequestNames[i]]]] = image
        /\ image \in [1 .. 5 -> Seq(Octet)]
        /\ \A i \in 1 .. 5 : Len(image[i]) = size[i]
    <3>1. \A i \in 1 .. 5 :
             /\ v[DataRequestNames[i]] \in DOMAIN DataRequestPuts[i]
             /\ DataRequestPuts[i][v[DataRequestNames[i]]] = image[i]
             /\ image[i] \in Seq(Octet) /\ Len(image[i]) = size[i]
      BY <2>2 DEF Writes
    <3>2. [i \in 1 .. 5 |-> DataRequestPuts[i][v[DataRequestNames[i]]]] = [i \in 1 .. 5 |-> image[i]]
      BY <3>1
    <3>3. [i \in 1 .. 5 |-> image[i]] \in [1 .. 5 -> Seq(Octet)]
      BY <3>1
    <3> QED
      BY <2>5, <3>1, <3>2, <3>3
  <2>7. /\ FlattenSeq(image) \in Seq(Octet)
        /\ FlattenSeq(image) = image[1] \o image[2] \o image[3] \o image[4] \o image[5]
        /\ Len(FlattenSeq(image)) = Len(image[1]) + Len(image[2]) + Len(image[3]) +
                                    Len(image[4]) + Len(image[5])
    BY <2>6, Parts5
  <2>8. /\ Len(image[1]) = size[1]
        /\ Len(image[2]) = size[2]
        /\ Len(image[3]) = size[3]
        /\ Len(image[4]) = size[4]
        /\ Len(image[5]) = size[5]
    BY <2>6
  <2>9. Len(FlattenSeq(image)) = size[1] + size[2] + size[3] + size[4] + size[5]
    BY <2>7, <2>8
  <2> QED
    BY <1>2, <2>1, <2>3, <2>4, <2>6, <2>7, <2>9
<1>6. ASSUME NEW values \in Tuples(DataRequestPuts, 5)
      PROVE  \E v \in FitDataRequest : \A i \in 1 .. 5 : v[DataRequestNames[i]] = values[i]
  <2>1. /\ values[1] \in Id16
        /\ values[2] \in U64
        /\ values[3] \in U64
        /\ values[4] \in U64
        /\ values[5] \in Lists(Selection, MaxRequestSelections)
    BY <1>3 DEF Tuples
  <2> DEFINE v == [ budget_id |-> values[1], max_total_bempic_bytes |-> values[2],
                    max_sender_to_receiver_bytes |-> values[3],
                    max_receiver_to_sender_bytes |-> values[4], selections |-> values[5] ]
  <2>2. v \in FitDataRequest
    BY <2>1 DEF FitDataRequest
  <2>3. \A i \in 1 .. 5 : v[DataRequestNames[i]] = values[i]
    BY DEF DataRequestNames
  <2> HIDE DEF v
  <2> QED
    BY <2>2, <2>3
<1>7. DOMAIN DataRequestImage = FitDataRequest /\ \A v \in FitDataRequest : DataRequestImage[v] = PutDataRequest(v)
  BY DEF DataRequestImage
<1> QED
  BY <1>1, <1>5, <1>6, <1>7 DEF Assembles

\* DATA.
DataNames == << "representation_id", "offset", "payload" >>
DataPuts ==
    << IdImage, U64Image, DataOctets >>
FitData ==
    [representation_id : Id, offset : U64, payload : Lists(Octet, MaxRecordOctets)]
DataImage == [v \in FitData |-> Payload("DATA", v)]

LEMMA DataFields ==
    /\ Assembles(3, DataNames, DataPuts, DataImage)
    /\ \A v \in FitData :
          /\ Payload("DATA", v) \in Seq(Octet)
          /\ Len(Payload("DATA", v)) =
                Width.id + Width.u64 +
                (Width.u32 + Len(v.payload))
<1>1. \A i \in 1 .. 3 : \A j \in 1 .. 3 : DataNames[i] = DataNames[j] => i = j
  BY DEF DataNames
<1>2. Fields(DataNames, 3) =
         {"representation_id", "offset", "payload"}
  BY DEF DataNames, Fields
<1>3. /\ DOMAIN DataPuts[1] = Id
      /\ DOMAIN DataPuts[2] = U64
      /\ DOMAIN DataPuts[3] = Lists(Octet, MaxRecordOctets)
  BY WidthWrites, DataWrites DEF DataPuts
<1>4. ASSUME NEW v \in FitData
      PROVE  /\ Writes(DataPuts[1], v.representation_id,
                       PutId(v.representation_id), Width.id)
             /\ Writes(DataPuts[2], v.offset,
                       PutU64(v.offset), Width.u64)
             /\ Writes(DataPuts[3], v.payload,
                       (PutU32(Len(v.payload)) \o v.payload), (Width.u32 + Len(v.payload)))
  BY WidthWrites, DataWrites DEF DataPuts, FitData
<1>5. ASSUME NEW v \in FitData
      PROVE  /\ v = [name \in Fields(DataNames, 3) |-> v[name]]
             /\ \A i \in 1 .. 3 : v[DataNames[i]] \in DOMAIN DataPuts[i]
             /\ Payload("DATA", v) =
                   FlattenSeq([i \in 1 .. 3 |-> DataPuts[i][v[DataNames[i]]]])
             /\ Payload("DATA", v) \in Seq(Octet)
             /\ Len(Payload("DATA", v)) =
                   Width.id + Width.u64 +
                   (Width.u32 + Len(v.payload))
  <2> DEFINE image ==
             << PutId(v.representation_id), PutU64(v.offset),
                (PutU32(Len(v.payload)) \o v.payload) >>
             size ==
             << Width.id, Width.u64, (Width.u32 + Len(v.payload)) >>
  <2>1. v = [name \in {"representation_id", "offset", "payload"} |-> v[name]]
    BY DEF FitData
  <2>2. \A i \in 1 .. 3 : Writes(DataPuts[i], v[DataNames[i]], image[i], size[i])
    <3>1. Writes(DataPuts[1], v[DataNames[1]], image[1], size[1])
      BY <1>4 DEF DataNames
    <3>2. Writes(DataPuts[2], v[DataNames[2]], image[2], size[2])
      BY <1>4 DEF DataNames
    <3>3. Writes(DataPuts[3], v[DataNames[3]], image[3], size[3])
      BY <1>4 DEF DataNames
    <3> HIDE DEF image, size
    <3> QED
      BY <3>1, <3>2, <3>3
  <2>3. Payload("DATA", v) = image[1] \o image[2] \o image[3]
    BY DEF Payload, EncodePayload
  <2>4. size[1] + size[2] + size[3] =
          Width.id + Width.u64 + (Width.u32 + Len(v.payload))
    OBVIOUS
  <2>5. image = [i \in 1 .. 3 |-> image[i]]
    OBVIOUS
  <2> HIDE DEF image, size
  <2>6. /\ \A i \in 1 .. 3 : v[DataNames[i]] \in DOMAIN DataPuts[i]
        /\ [i \in 1 .. 3 |-> DataPuts[i][v[DataNames[i]]]] = image
        /\ image \in [1 .. 3 -> Seq(Octet)]
        /\ \A i \in 1 .. 3 : Len(image[i]) = size[i]
    <3>1. \A i \in 1 .. 3 :
             /\ v[DataNames[i]] \in DOMAIN DataPuts[i]
             /\ DataPuts[i][v[DataNames[i]]] = image[i]
             /\ image[i] \in Seq(Octet) /\ Len(image[i]) = size[i]
      BY <2>2 DEF Writes
    <3>2. [i \in 1 .. 3 |-> DataPuts[i][v[DataNames[i]]]] = [i \in 1 .. 3 |-> image[i]]
      BY <3>1
    <3>3. [i \in 1 .. 3 |-> image[i]] \in [1 .. 3 -> Seq(Octet)]
      BY <3>1
    <3> QED
      BY <2>5, <3>1, <3>2, <3>3
  <2>7. /\ FlattenSeq(image) \in Seq(Octet)
        /\ FlattenSeq(image) = image[1] \o image[2] \o image[3]
        /\ Len(FlattenSeq(image)) = Len(image[1]) + Len(image[2]) + Len(image[3])
    BY <2>6, Parts3
  <2>8. /\ Len(image[1]) = size[1]
        /\ Len(image[2]) = size[2]
        /\ Len(image[3]) = size[3]
    BY <2>6
  <2>9. Len(FlattenSeq(image)) = size[1] + size[2] + size[3]
    BY <2>7, <2>8
  <2> QED
    BY <1>2, <2>1, <2>3, <2>4, <2>6, <2>7, <2>9
<1>6. ASSUME NEW values \in Tuples(DataPuts, 3)
      PROVE  \E v \in FitData : \A i \in 1 .. 3 : v[DataNames[i]] = values[i]
  <2>1. /\ values[1] \in Id
        /\ values[2] \in U64
        /\ values[3] \in Lists(Octet, MaxRecordOctets)
    BY <1>3 DEF Tuples
  <2> DEFINE v == [ representation_id |-> values[1], offset |-> values[2],
                    payload |-> values[3] ]
  <2>2. v \in FitData
    BY <2>1 DEF FitData
  <2>3. \A i \in 1 .. 3 : v[DataNames[i]] = values[i]
    BY DEF DataNames
  <2> HIDE DEF v
  <2> QED
    BY <2>2, <2>3
<1>7. DOMAIN DataImage = FitData /\ \A v \in FitData : DataImage[v] = Payload("DATA", v)
  BY DEF DataImage
<1> QED
  BY <1>1, <1>5, <1>6, <1>7 DEF Assembles

\* RECEIPT.
ReceiptNames == << "subject_id", "status", "verified_digest", "idempotency_id", "reason" >>
ReceiptPuts ==
    << IdImage, EnumImage(ReceiptStatuses), IdOption, Id16Image,
       TextImage(MaxFailureDetailOctets) >>
FitReceipt ==
    [ subject_id : Id, status : ToSet(ReceiptStatuses), verified_digest : Option(Id),
      idempotency_id : Id16, reason : Texts(MaxFailureDetailOctets) ]
ReceiptImage == [v \in FitReceipt |-> Payload("RECEIPT", v)]

LEMMA ReceiptFields ==
    /\ Assembles(5, ReceiptNames, ReceiptPuts, ReceiptImage)
    /\ \A v \in FitReceipt :
          /\ Payload("RECEIPT", v) \in Seq(Octet)
          /\ Len(Payload("RECEIPT", v)) =
                Width.id + 1 +
                (1 + Len(v.verified_digest) * Width.id) + Width.id16 +
                TextSize(v.reason)
<1>1. \A i \in 1 .. 5 : \A j \in 1 .. 5 : ReceiptNames[i] = ReceiptNames[j] => i = j
  BY DEF ReceiptNames
<1>2. Fields(ReceiptNames, 5) =
         {"subject_id", "status", "verified_digest",
          "idempotency_id", "reason"}
  BY DEF ReceiptNames, Fields
<1>3. /\ DOMAIN ReceiptPuts[1] = Id
      /\ DOMAIN ReceiptPuts[2] = ToSet(ReceiptStatuses)
      /\ DOMAIN ReceiptPuts[3] = Option(Id)
      /\ DOMAIN ReceiptPuts[4] = Id16
      /\ DOMAIN ReceiptPuts[5] = Texts(MaxFailureDetailOctets)
  BY WidthWrites, StatusWrites, OptionWrites, TextWrites, BoundsAssumption DEF ReceiptPuts
<1>4. ASSUME NEW v \in FitReceipt
      PROVE  /\ Writes(ReceiptPuts[1], v.subject_id,
                       PutId(v.subject_id), Width.id)
             /\ Writes(ReceiptPuts[2], v.status,
                       PutEnum(ReceiptStatuses, v.status), 1)
             /\ Writes(ReceiptPuts[3], v.verified_digest,
                       PutList(PutId, v.verified_digest), (1 + Len(v.verified_digest) * Width.id))
             /\ Writes(ReceiptPuts[4], v.idempotency_id,
                       PutId16(v.idempotency_id), Width.id16)
             /\ Writes(ReceiptPuts[5], v.reason,
                       PutText(v.reason), TextSize(v.reason))
  BY WidthWrites, StatusWrites, OptionWrites, TextWrites, BoundsAssumption DEF ReceiptPuts, FitReceipt
<1>5. ASSUME NEW v \in FitReceipt
      PROVE  /\ v = [name \in Fields(ReceiptNames, 5) |-> v[name]]
             /\ \A i \in 1 .. 5 : v[ReceiptNames[i]] \in DOMAIN ReceiptPuts[i]
             /\ Payload("RECEIPT", v) =
                   FlattenSeq([i \in 1 .. 5 |-> ReceiptPuts[i][v[ReceiptNames[i]]]])
             /\ Payload("RECEIPT", v) \in Seq(Octet)
             /\ Len(Payload("RECEIPT", v)) =
                   Width.id + 1 +
                   (1 + Len(v.verified_digest) * Width.id) + Width.id16 +
                   TextSize(v.reason)
  <2> DEFINE image ==
             << PutId(v.subject_id),
                PutEnum(ReceiptStatuses, v.status), PutList(PutId, v.verified_digest),
                PutId16(v.idempotency_id), PutText(v.reason) >>
             size ==
             << Width.id, 1,
                (1 + Len(v.verified_digest) * Width.id), Width.id16, TextSize(v.reason) >>
  <2>1. v = [name \in {"subject_id", "status", "verified_digest", "idempotency_id",
                  "reason"} |-> v[name]]
    BY DEF FitReceipt
  <2>2. \A i \in 1 .. 5 : Writes(ReceiptPuts[i], v[ReceiptNames[i]], image[i], size[i])
    <3>1. Writes(ReceiptPuts[1], v[ReceiptNames[1]], image[1], size[1])
      BY <1>4 DEF ReceiptNames
    <3>2. Writes(ReceiptPuts[2], v[ReceiptNames[2]], image[2], size[2])
      BY <1>4 DEF ReceiptNames
    <3>3. Writes(ReceiptPuts[3], v[ReceiptNames[3]], image[3], size[3])
      BY <1>4 DEF ReceiptNames
    <3>4. Writes(ReceiptPuts[4], v[ReceiptNames[4]], image[4], size[4])
      BY <1>4 DEF ReceiptNames
    <3>5. Writes(ReceiptPuts[5], v[ReceiptNames[5]], image[5], size[5])
      BY <1>4 DEF ReceiptNames
    <3> HIDE DEF image, size
    <3> QED
      BY <3>1, <3>2, <3>3, <3>4, <3>5
  <2>3. Payload("RECEIPT", v) = image[1] \o image[2] \o image[3] \o image[4] \o image[5]
    BY DEF Payload, EncodePayload
  <2>4. size[1] + size[2] + size[3] + size[4] + size[5] =
          Width.id + 1 + (1 + Len(v.verified_digest) * Width.id) + Width.id16 +
          TextSize(v.reason)
    OBVIOUS
  <2>5. image = [i \in 1 .. 5 |-> image[i]]
    OBVIOUS
  <2> HIDE DEF image, size
  <2>6. /\ \A i \in 1 .. 5 : v[ReceiptNames[i]] \in DOMAIN ReceiptPuts[i]
        /\ [i \in 1 .. 5 |-> ReceiptPuts[i][v[ReceiptNames[i]]]] = image
        /\ image \in [1 .. 5 -> Seq(Octet)]
        /\ \A i \in 1 .. 5 : Len(image[i]) = size[i]
    <3>1. \A i \in 1 .. 5 :
             /\ v[ReceiptNames[i]] \in DOMAIN ReceiptPuts[i]
             /\ ReceiptPuts[i][v[ReceiptNames[i]]] = image[i]
             /\ image[i] \in Seq(Octet) /\ Len(image[i]) = size[i]
      BY <2>2 DEF Writes
    <3>2. [i \in 1 .. 5 |-> ReceiptPuts[i][v[ReceiptNames[i]]]] = [i \in 1 .. 5 |-> image[i]]
      BY <3>1
    <3>3. [i \in 1 .. 5 |-> image[i]] \in [1 .. 5 -> Seq(Octet)]
      BY <3>1
    <3> QED
      BY <2>5, <3>1, <3>2, <3>3
  <2>7. /\ FlattenSeq(image) \in Seq(Octet)
        /\ FlattenSeq(image) = image[1] \o image[2] \o image[3] \o image[4] \o image[5]
        /\ Len(FlattenSeq(image)) = Len(image[1]) + Len(image[2]) + Len(image[3]) +
                                    Len(image[4]) + Len(image[5])
    BY <2>6, Parts5
  <2>8. /\ Len(image[1]) = size[1]
        /\ Len(image[2]) = size[2]
        /\ Len(image[3]) = size[3]
        /\ Len(image[4]) = size[4]
        /\ Len(image[5]) = size[5]
    BY <2>6
  <2>9. Len(FlattenSeq(image)) = size[1] + size[2] + size[3] + size[4] + size[5]
    BY <2>7, <2>8
  <2> QED
    BY <1>2, <2>1, <2>3, <2>4, <2>6, <2>7, <2>9
<1>6. ASSUME NEW values \in Tuples(ReceiptPuts, 5)
      PROVE  \E v \in FitReceipt : \A i \in 1 .. 5 : v[ReceiptNames[i]] = values[i]
  <2>1. /\ values[1] \in Id
        /\ values[2] \in ToSet(ReceiptStatuses)
        /\ values[3] \in Option(Id)
        /\ values[4] \in Id16
        /\ values[5] \in Texts(MaxFailureDetailOctets)
    BY <1>3 DEF Tuples
  <2> DEFINE v == [ subject_id |-> values[1], status |-> values[2],
                    verified_digest |-> values[3], idempotency_id |-> values[4],
                    reason |-> values[5] ]
  <2>2. v \in FitReceipt
    BY <2>1 DEF FitReceipt
  <2>3. \A i \in 1 .. 5 : v[ReceiptNames[i]] = values[i]
    BY DEF ReceiptNames
  <2> HIDE DEF v
  <2> QED
    BY <2>2, <2>3
<1>7. DOMAIN ReceiptImage = FitReceipt /\ \A v \in FitReceipt : ReceiptImage[v] = Payload("RECEIPT", v)
  BY DEF ReceiptImage
<1> QED
  BY <1>1, <1>5, <1>6, <1>7 DEF Assembles

\* FAILURE.
FailureNames == << "code", "scope", "retryable", "detail" >>
FailurePuts ==
    << EnumImage(FailureCodes), ScopeOctets, BoolImage,
       TextImage(MaxFailureDetailOctets) >>
FitFailure ==
    [ code : ToSet(FailureCodes), scope : Lists(Octet, MaxFailureScopeOctets),
      retryable : BOOLEAN, detail : Texts(MaxFailureDetailOctets) ]
FailureImage == [v \in FitFailure |-> Payload("FAILURE", v)]

LEMMA FailureFields ==
    /\ Assembles(4, FailureNames, FailurePuts, FailureImage)
    /\ \A v \in FitFailure :
          /\ Payload("FAILURE", v) \in Seq(Octet)
          /\ Len(Payload("FAILURE", v)) =
                1 + (1 + Len(v.scope)) + 1 +
                TextSize(v.detail)
<1>1. \A i \in 1 .. 4 : \A j \in 1 .. 4 : FailureNames[i] = FailureNames[j] => i = j
  BY DEF FailureNames
<1>2. Fields(FailureNames, 4) =
         {"code", "scope", "retryable", "detail"}
  BY DEF FailureNames, Fields
<1>3. /\ DOMAIN FailurePuts[1] = ToSet(FailureCodes)
      /\ DOMAIN FailurePuts[2] = Lists(Octet, MaxFailureScopeOctets)
      /\ DOMAIN FailurePuts[3] = BOOLEAN
      /\ DOMAIN FailurePuts[4] = Texts(MaxFailureDetailOctets)
  BY CodeWrites, ScopeWrites, OctetWrites, TextWrites, BoundsAssumption DEF FailurePuts
<1>4. ASSUME NEW v \in FitFailure
      PROVE  /\ Writes(FailurePuts[1], v.code,
                       PutEnum(FailureCodes, v.code), 1)
             /\ Writes(FailurePuts[2], v.scope,
                       (<<Len(v.scope)>> \o v.scope), (1 + Len(v.scope)))
             /\ Writes(FailurePuts[3], v.retryable,
                       PutBool(v.retryable), 1)
             /\ Writes(FailurePuts[4], v.detail,
                       PutText(v.detail), TextSize(v.detail))
  BY CodeWrites, ScopeWrites, OctetWrites, TextWrites, BoundsAssumption DEF FailurePuts, FitFailure
<1>5. ASSUME NEW v \in FitFailure
      PROVE  /\ v = [name \in Fields(FailureNames, 4) |-> v[name]]
             /\ \A i \in 1 .. 4 : v[FailureNames[i]] \in DOMAIN FailurePuts[i]
             /\ Payload("FAILURE", v) =
                   FlattenSeq([i \in 1 .. 4 |-> FailurePuts[i][v[FailureNames[i]]]])
             /\ Payload("FAILURE", v) \in Seq(Octet)
             /\ Len(Payload("FAILURE", v)) =
                   1 + (1 + Len(v.scope)) +
                   1 + TextSize(v.detail)
  <2> DEFINE image ==
             << PutEnum(FailureCodes, v.code),
                (<<Len(v.scope)>> \o v.scope), PutBool(v.retryable), PutText(v.detail) >>
             size ==
             << 1, (1 + Len(v.scope)), 1, TextSize(v.detail) >>
  <2>1. v = [name \in {"code", "scope", "retryable", "detail"} |-> v[name]]
    BY DEF FitFailure
  <2>2. \A i \in 1 .. 4 : Writes(FailurePuts[i], v[FailureNames[i]], image[i], size[i])
    <3>1. Writes(FailurePuts[1], v[FailureNames[1]], image[1], size[1])
      BY <1>4 DEF FailureNames
    <3>2. Writes(FailurePuts[2], v[FailureNames[2]], image[2], size[2])
      BY <1>4 DEF FailureNames
    <3>3. Writes(FailurePuts[3], v[FailureNames[3]], image[3], size[3])
      BY <1>4 DEF FailureNames
    <3>4. Writes(FailurePuts[4], v[FailureNames[4]], image[4], size[4])
      BY <1>4 DEF FailureNames
    <3> HIDE DEF image, size
    <3> QED
      BY <3>1, <3>2, <3>3, <3>4
  <2>3. Payload("FAILURE", v) = image[1] \o image[2] \o image[3] \o image[4]
    BY DEF Payload, EncodePayload
  <2>4. size[1] + size[2] + size[3] + size[4] =
          1 + (1 + Len(v.scope)) + 1 + TextSize(v.detail)
    OBVIOUS
  <2>5. image = [i \in 1 .. 4 |-> image[i]]
    OBVIOUS
  <2> HIDE DEF image, size
  <2>6. /\ \A i \in 1 .. 4 : v[FailureNames[i]] \in DOMAIN FailurePuts[i]
        /\ [i \in 1 .. 4 |-> FailurePuts[i][v[FailureNames[i]]]] = image
        /\ image \in [1 .. 4 -> Seq(Octet)]
        /\ \A i \in 1 .. 4 : Len(image[i]) = size[i]
    <3>1. \A i \in 1 .. 4 :
             /\ v[FailureNames[i]] \in DOMAIN FailurePuts[i]
             /\ FailurePuts[i][v[FailureNames[i]]] = image[i]
             /\ image[i] \in Seq(Octet) /\ Len(image[i]) = size[i]
      BY <2>2 DEF Writes
    <3>2. [i \in 1 .. 4 |-> FailurePuts[i][v[FailureNames[i]]]] = [i \in 1 .. 4 |-> image[i]]
      BY <3>1
    <3>3. [i \in 1 .. 4 |-> image[i]] \in [1 .. 4 -> Seq(Octet)]
      BY <3>1
    <3> QED
      BY <2>5, <3>1, <3>2, <3>3
  <2>7. /\ FlattenSeq(image) \in Seq(Octet)
        /\ FlattenSeq(image) = image[1] \o image[2] \o image[3] \o image[4]
        /\ Len(FlattenSeq(image)) = Len(image[1]) + Len(image[2]) + Len(image[3]) +
                                    Len(image[4])
    BY <2>6, Parts4
  <2>8. /\ Len(image[1]) = size[1]
        /\ Len(image[2]) = size[2]
        /\ Len(image[3]) = size[3]
        /\ Len(image[4]) = size[4]
    BY <2>6
  <2>9. Len(FlattenSeq(image)) = size[1] + size[2] + size[3] + size[4]
    BY <2>7, <2>8
  <2> QED
    BY <1>2, <2>1, <2>3, <2>4, <2>6, <2>7, <2>9
<1>6. ASSUME NEW values \in Tuples(FailurePuts, 4)
      PROVE  \E v \in FitFailure : \A i \in 1 .. 4 : v[FailureNames[i]] = values[i]
  <2>1. /\ values[1] \in ToSet(FailureCodes)
        /\ values[2] \in Lists(Octet, MaxFailureScopeOctets)
        /\ values[3] \in BOOLEAN
        /\ values[4] \in Texts(MaxFailureDetailOctets)
    BY <1>3 DEF Tuples
  <2> DEFINE v == [ code |-> values[1], scope |-> values[2], retryable |-> values[3],
                    detail |-> values[4] ]
  <2>2. v \in FitFailure
    BY <2>1 DEF FitFailure
  <2>3. \A i \in 1 .. 4 : v[FailureNames[i]] = values[i]
    BY DEF FailureNames
  <2> HIDE DEF v
  <2> QED
    BY <2>2, <2>3
<1>7. DOMAIN FailureImage = FitFailure /\ \A v \in FitFailure : FailureImage[v] = Payload("FAILURE", v)
  BY DEF FailureImage
<1> QED
  BY <1>1, <1>5, <1>6, <1>7 DEF Assembles

---------------------------------------------------------------------------
(* What the decoder reads of each is what the encoder wrote.               *)

LEMMA ReadsOptions ==
    ASSUME NEW w \in Seq(Octet)
    PROVE  /\ Reads(w, TakeOption(w, TakeU64(w)), U64Option)
           /\ Reads(w, TakeOption(w, TakeId(w)), IdOption)
<1>1. {0, 1} \in SUBSET Octet
  BY DEF Octet
<1>2. Reads(w, TakeOption(w, TakeU64(w)), U64Option)
  BY <1>1, ReadsWidths, ReadsList DEF TakeOption, U64Option
<1>3. Reads(w, TakeOption(w, TakeId(w)), IdOption)
  BY <1>1, ReadsWidths, ReadsList DEF TakeOption, IdOption
<1> QED
  BY <1>2, <1>3

\* decode_cursor.
LEMMA ReadsDelta ==
    ASSUME NEW w \in Seq(Octet)
    PROVE  Reads(w, TakeFields(<<<<"sequence", TakeU64(w)>>>>), DeltaImage)
<1> DEFINE fields ==
         << <<"sequence", TakeU64(w)>> >>
<1>1. fields[1][1] = DeltaNames[1] /\ Reads(w, fields[1][2], DeltaPuts[1])
  <2>1. Reads(w, TakeU64(w), U64Image)
    BY ReadsWidths
  <2>2. fields[1] = <<"sequence", TakeU64(w)>>
    OBVIOUS
  <2> HIDE DEF fields
  <2> QED
    BY <2>1, <2>2 DEF DeltaNames, DeltaPuts
<1>2. DOMAIN fields = 1 .. 1 /\ 1 \in Nat
  OBVIOUS
<1>3. TakeFields(<<<<"sequence", TakeU64(w)>>>>) = TakeFields(fields)
  OBVIOUS
<1> HIDE DEF fields
<1>4. FieldsRead(w, 1, fields, DeltaNames, DeltaPuts)
  BY <1>1 DEF FieldsRead
<1>5. Assembles(1, DeltaNames, DeltaPuts, DeltaImage)
  BY DeltaFields
<1>6. Reads(w, TakeFields(fields), DeltaImage)
  BY <1>2, <1>4, <1>5, ReadsFields
<1> QED
  BY <1>3, <1>6

LEMMA ReadsFull ==
    ASSUME NEW w \in Seq(Octet)
    PROVE  Reads(w, TakeFields(<<<<"object_id", TakeId(w)>>, <<"part_id", TakeU32(w)>>,
                         <<"representation_id", TakeId(w)>>>>), FullImage)
<1> DEFINE fields ==
         << <<"object_id", TakeId(w)>>, <<"part_id", TakeU32(w)>>,
            <<"representation_id", TakeId(w)>> >>
<1>1. fields[1][1] = FullNames[1] /\ Reads(w, fields[1][2], FullPuts[1])
  <2>1. Reads(w, TakeId(w), IdImage)
    BY ReadsWidths
  <2>2. fields[1] = <<"object_id", TakeId(w)>>
    OBVIOUS
  <2> HIDE DEF fields
  <2> QED
    BY <2>1, <2>2 DEF FullNames, FullPuts
<1>2. fields[2][1] = FullNames[2] /\ Reads(w, fields[2][2], FullPuts[2])
  <2>1. Reads(w, TakeU32(w), U32Image)
    BY ReadsWidths
  <2>2. fields[2] = <<"part_id", TakeU32(w)>>
    OBVIOUS
  <2> HIDE DEF fields
  <2> QED
    BY <2>1, <2>2 DEF FullNames, FullPuts
<1>3. fields[3][1] = FullNames[3] /\ Reads(w, fields[3][2], FullPuts[3])
  <2>1. Reads(w, TakeId(w), IdImage)
    BY ReadsWidths
  <2>2. fields[3] = <<"representation_id", TakeId(w)>>
    OBVIOUS
  <2> HIDE DEF fields
  <2> QED
    BY <2>1, <2>2 DEF FullNames, FullPuts
<1>4. DOMAIN fields = 1 .. 3 /\ 3 \in Nat
  OBVIOUS
<1>5. TakeFields(<<<<"object_id", TakeId(w)>>, <<"part_id", TakeU32(w)>>,
                         <<"representation_id", TakeId(w)>>>>) = TakeFields(fields)
  OBVIOUS
<1> HIDE DEF fields
<1>6. FieldsRead(w, 3, fields, FullNames, FullPuts)
  BY <1>1, <1>2, <1>3 DEF FieldsRead
<1>7. Assembles(3, FullNames, FullPuts, FullImage)
  BY FullFields
<1>8. Reads(w, TakeFields(fields), FullImage)
  BY <1>4, <1>6, <1>7, ReadsFields
<1> QED
  BY <1>5, <1>8

LEMMA ReadsCursor ==
    ASSUME NEW w \in Seq(Octet)
    PROVE  Reads(w, TakeCursor(w), CursorImage)
<1> DEFINE readers ==
        << TakeFields(<<<<"sequence", TakeU64(w)>>>>),
           TakeFields(<<<<"object_id", TakeId(w)>>, <<"part_id", TakeU32(w)>>,
                        <<"representation_id", TakeId(w)>>>>) >>
           puts == <<DeltaImage, FullImage>>
<1>1. Reads(w, readers[1], puts[1])
  BY ReadsDelta
<1>2. Reads(w, readers[2], puts[2])
  BY ReadsFull
<1>3. Len(readers) = 2 /\ 2 \in 1 .. 256
  OBVIOUS
<1>4. Chosen(2, puts, CursorImage)
  BY CursorWrites
<1>5. TakeCursor(w) = TakeChoice(w, readers)
  BY DEF TakeCursor
<1> HIDE DEF readers, puts
<1>6. AllRead(w, 2, readers, puts)
  BY <1>1, <1>2 DEF AllRead
<1> QED
  BY <1>3, <1>4, <1>5, <1>6, ReadsChoice

\* decode_descriptor.
LEMMA ReadsDescriptor ==
    ASSUME NEW w \in Seq(Octet)
    PROVE  Reads(w, TakeDescriptor(w), DescriptorImage)
<1> DEFINE fields ==
         << <<"sequence", TakeU64(w)>>, <<"object_id", TakeId(w)>>,
            <<"part_id", TakeU32(w)>>, <<"representation_id", TakeId(w)>>,
            <<"schema_fingerprint", TakeId(w)>>, <<"codec_id", TakeU32(w)>>,
            <<"codec_revision", TakeU32(w)>>,
            <<"codec_parameters", TakeOctets(w, TakeU16(w), MaxCodecParameterOctets)>>,
            <<"encoded_length", TakeU64(w)>>,
            <<"decoded_length", TakeOption(w, TakeU64(w))>>,
            <<"content_digest", TakeId(w)>>,
            <<"usefulness_expiry", TakeOption(w, TakeU64(w))>> >>
<1>1. fields[1][1] = DescriptorNames[1] /\ Reads(w, fields[1][2], DescriptorPuts[1])
  <2>1. Reads(w, TakeU64(w), U64Image)
    BY ReadsWidths
  <2>2. fields[1] = <<"sequence", TakeU64(w)>>
    OBVIOUS
  <2> HIDE DEF fields
  <2> QED
    BY <2>1, <2>2 DEF DescriptorNames, DescriptorPuts
<1>2. fields[2][1] = DescriptorNames[2] /\ Reads(w, fields[2][2], DescriptorPuts[2])
  <2>1. Reads(w, TakeId(w), IdImage)
    BY ReadsWidths
  <2>2. fields[2] = <<"object_id", TakeId(w)>>
    OBVIOUS
  <2> HIDE DEF fields
  <2> QED
    BY <2>1, <2>2 DEF DescriptorNames, DescriptorPuts
<1>3. fields[3][1] = DescriptorNames[3] /\ Reads(w, fields[3][2], DescriptorPuts[3])
  <2>1. Reads(w, TakeU32(w), U32Image)
    BY ReadsWidths
  <2>2. fields[3] = <<"part_id", TakeU32(w)>>
    OBVIOUS
  <2> HIDE DEF fields
  <2> QED
    BY <2>1, <2>2 DEF DescriptorNames, DescriptorPuts
<1>4. fields[4][1] = DescriptorNames[4] /\ Reads(w, fields[4][2], DescriptorPuts[4])
  <2>1. Reads(w, TakeId(w), IdImage)
    BY ReadsWidths
  <2>2. fields[4] = <<"representation_id", TakeId(w)>>
    OBVIOUS
  <2> HIDE DEF fields
  <2> QED
    BY <2>1, <2>2 DEF DescriptorNames, DescriptorPuts
<1>5. fields[5][1] = DescriptorNames[5] /\ Reads(w, fields[5][2], DescriptorPuts[5])
  <2>1. Reads(w, TakeId(w), IdImage)
    BY ReadsWidths
  <2>2. fields[5] = <<"schema_fingerprint", TakeId(w)>>
    OBVIOUS
  <2> HIDE DEF fields
  <2> QED
    BY <2>1, <2>2 DEF DescriptorNames, DescriptorPuts
<1>6. fields[6][1] = DescriptorNames[6] /\ Reads(w, fields[6][2], DescriptorPuts[6])
  <2>1. Reads(w, TakeU32(w), U32Image)
    BY ReadsWidths
  <2>2. fields[6] = <<"codec_id", TakeU32(w)>>
    OBVIOUS
  <2> HIDE DEF fields
  <2> QED
    BY <2>1, <2>2 DEF DescriptorNames, DescriptorPuts
<1>7. fields[7][1] = DescriptorNames[7] /\ Reads(w, fields[7][2], DescriptorPuts[7])
  <2>1. Reads(w, TakeU32(w), U32Image)
    BY ReadsWidths
  <2>2. fields[7] = <<"codec_revision", TakeU32(w)>>
    OBVIOUS
  <2> HIDE DEF fields
  <2> QED
    BY <2>1, <2>2 DEF DescriptorNames, DescriptorPuts
<1>8. fields[8][1] = DescriptorNames[8] /\ Reads(w, fields[8][2], DescriptorPuts[8])
  <2>1. Reads(w, TakeOctets(w, TakeU16(w), MaxCodecParameterOctets), BlobImage(MaxCodecParameterOctets))
    BY BoundsAssumption, ReadsBlob
  <2>2. fields[8] = <<"codec_parameters", TakeOctets(w, TakeU16(w), MaxCodecParameterOctets)>>
    OBVIOUS
  <2> HIDE DEF fields
  <2> QED
    BY <2>1, <2>2 DEF DescriptorNames, DescriptorPuts
<1>9. fields[9][1] = DescriptorNames[9] /\ Reads(w, fields[9][2], DescriptorPuts[9])
  <2>1. Reads(w, TakeU64(w), U64Image)
    BY ReadsWidths
  <2>2. fields[9] = <<"encoded_length", TakeU64(w)>>
    OBVIOUS
  <2> HIDE DEF fields
  <2> QED
    BY <2>1, <2>2 DEF DescriptorNames, DescriptorPuts
<1>10. fields[10][1] = DescriptorNames[10] /\ Reads(w, fields[10][2], DescriptorPuts[10])
  <2>1. Reads(w, TakeOption(w, TakeU64(w)), U64Option)
    BY ReadsOptions
  <2>2. fields[10] = <<"decoded_length", TakeOption(w, TakeU64(w))>>
    OBVIOUS
  <2> HIDE DEF fields
  <2> QED
    BY <2>1, <2>2 DEF DescriptorNames, DescriptorPuts
<1>11. fields[11][1] = DescriptorNames[11] /\ Reads(w, fields[11][2], DescriptorPuts[11])
  <2>1. Reads(w, TakeId(w), IdImage)
    BY ReadsWidths
  <2>2. fields[11] = <<"content_digest", TakeId(w)>>
    OBVIOUS
  <2> HIDE DEF fields
  <2> QED
    BY <2>1, <2>2 DEF DescriptorNames, DescriptorPuts
<1>12. fields[12][1] = DescriptorNames[12] /\ Reads(w, fields[12][2], DescriptorPuts[12])
  <2>1. Reads(w, TakeOption(w, TakeU64(w)), U64Option)
    BY ReadsOptions
  <2>2. fields[12] = <<"usefulness_expiry", TakeOption(w, TakeU64(w))>>
    OBVIOUS
  <2> HIDE DEF fields
  <2> QED
    BY <2>1, <2>2 DEF DescriptorNames, DescriptorPuts
<1>13. DOMAIN fields = 1 .. 12 /\ 12 \in Nat
  OBVIOUS
<1>14. TakeDescriptor(w) = TakeFields(fields)
  BY DEF TakeDescriptor
<1> HIDE DEF fields
<1>15. FieldsRead(w, 12, fields, DescriptorNames, DescriptorPuts)
  BY <1>1, <1>2, <1>3, <1>4, <1>5, <1>6, <1>7, <1>8, <1>9, <1>10, <1>11, <1>12 DEF FieldsRead
<1>16. Assembles(12, DescriptorNames, DescriptorPuts, DescriptorImage)
  BY DescriptorFields
<1>17. Reads(w, TakeFields(fields), DescriptorImage)
  BY <1>13, <1>15, <1>16, ReadsFields
<1> QED
  BY <1>14, <1>17

LEMMA ReadsGeneration ==
    ASSUME NEW w \in Seq(Octet)
    PROVE  Reads(w, TakeGeneration(w), GenerationImage)
<1> DEFINE fields ==
         << <<"major", TakeU16(w)>>, <<"minor", TakeU16(w)>> >>
<1>1. fields[1][1] = GenerationNames[1] /\ Reads(w, fields[1][2], GenerationPuts[1])
  <2>1. Reads(w, TakeU16(w), U16Image)
    BY ReadsWidths
  <2>2. fields[1] = <<"major", TakeU16(w)>>
    OBVIOUS
  <2> HIDE DEF fields
  <2> QED
    BY <2>1, <2>2 DEF GenerationNames, GenerationPuts
<1>2. fields[2][1] = GenerationNames[2] /\ Reads(w, fields[2][2], GenerationPuts[2])
  <2>1. Reads(w, TakeU16(w), U16Image)
    BY ReadsWidths
  <2>2. fields[2] = <<"minor", TakeU16(w)>>
    OBVIOUS
  <2> HIDE DEF fields
  <2> QED
    BY <2>1, <2>2 DEF GenerationNames, GenerationPuts
<1>3. DOMAIN fields = 1 .. 2 /\ 2 \in Nat
  OBVIOUS
<1>4. TakeGeneration(w) = TakeFields(fields)
  BY DEF TakeGeneration
<1> HIDE DEF fields
<1>5. FieldsRead(w, 2, fields, GenerationNames, GenerationPuts)
  BY <1>1, <1>2 DEF FieldsRead
<1>6. Assembles(2, GenerationNames, GenerationPuts, GenerationImage)
  BY GenerationFields
<1>7. Reads(w, TakeFields(fields), GenerationImage)
  BY <1>3, <1>5, <1>6, ReadsFields
<1> QED
  BY <1>4, <1>7

LEMMA ReadsPreference ==
    ASSUME NEW w \in Seq(Octet)
    PROVE  Reads(w, TakePreference(w), PreferenceImage)
<1> DEFINE fields ==
         << <<"codec_id", TakeU32(w)>>, <<"revision", TakeU32(w)>>,
            <<"schema_fingerprint", TakeId(w)>> >>
<1>1. fields[1][1] = PreferenceNames[1] /\ Reads(w, fields[1][2], PreferencePuts[1])
  <2>1. Reads(w, TakeU32(w), U32Image)
    BY ReadsWidths
  <2>2. fields[1] = <<"codec_id", TakeU32(w)>>
    OBVIOUS
  <2> HIDE DEF fields
  <2> QED
    BY <2>1, <2>2 DEF PreferenceNames, PreferencePuts
<1>2. fields[2][1] = PreferenceNames[2] /\ Reads(w, fields[2][2], PreferencePuts[2])
  <2>1. Reads(w, TakeU32(w), U32Image)
    BY ReadsWidths
  <2>2. fields[2] = <<"revision", TakeU32(w)>>
    OBVIOUS
  <2> HIDE DEF fields
  <2> QED
    BY <2>1, <2>2 DEF PreferenceNames, PreferencePuts
<1>3. fields[3][1] = PreferenceNames[3] /\ Reads(w, fields[3][2], PreferencePuts[3])
  <2>1. Reads(w, TakeId(w), IdImage)
    BY ReadsWidths
  <2>2. fields[3] = <<"schema_fingerprint", TakeId(w)>>
    OBVIOUS
  <2> HIDE DEF fields
  <2> QED
    BY <2>1, <2>2 DEF PreferenceNames, PreferencePuts
<1>4. DOMAIN fields = 1 .. 3 /\ 3 \in Nat
  OBVIOUS
<1>5. TakePreference(w) = TakeFields(fields)
  BY DEF TakePreference
<1> HIDE DEF fields
<1>6. FieldsRead(w, 3, fields, PreferenceNames, PreferencePuts)
  BY <1>1, <1>2, <1>3 DEF FieldsRead
<1>7. Assembles(3, PreferenceNames, PreferencePuts, PreferenceImage)
  BY PreferenceFields
<1>8. Reads(w, TakeFields(fields), PreferenceImage)
  BY <1>4, <1>6, <1>7, ReadsFields
<1> QED
  BY <1>5, <1>8

LEMMA ReadsDeclaration ==
    ASSUME NEW w \in Seq(Octet)
    PROVE  Reads(w, TakeDeclaration(w), DeclarationImage)
<1> DEFINE fields ==
         << <<"id", TakeU32(w)>>, <<"critical", TakeBool(w)>> >>
<1>1. fields[1][1] = DeclarationNames[1] /\ Reads(w, fields[1][2], DeclarationPuts[1])
  <2>1. Reads(w, TakeU32(w), U32Image)
    BY ReadsWidths
  <2>2. fields[1] = <<"id", TakeU32(w)>>
    OBVIOUS
  <2> HIDE DEF fields
  <2> QED
    BY <2>1, <2>2 DEF DeclarationNames, DeclarationPuts
<1>2. fields[2][1] = DeclarationNames[2] /\ Reads(w, fields[2][2], DeclarationPuts[2])
  <2>1. Reads(w, TakeBool(w), BoolImage)
    BY ReadsBool
  <2>2. fields[2] = <<"critical", TakeBool(w)>>
    OBVIOUS
  <2> HIDE DEF fields
  <2> QED
    BY <2>1, <2>2 DEF DeclarationNames, DeclarationPuts
<1>3. DOMAIN fields = 1 .. 2 /\ 2 \in Nat
  OBVIOUS
<1>4. TakeDeclaration(w) = TakeFields(fields)
  BY DEF TakeDeclaration
<1> HIDE DEF fields
<1>5. FieldsRead(w, 2, fields, DeclarationNames, DeclarationPuts)
  BY <1>1, <1>2 DEF FieldsRead
<1>6. Assembles(2, DeclarationNames, DeclarationPuts, DeclarationImage)
  BY DeclarationFields
<1>7. Reads(w, TakeFields(fields), DeclarationImage)
  BY <1>3, <1>5, <1>6, ReadsFields
<1> QED
  BY <1>4, <1>7

LEMMA ReadsSelection ==
    ASSUME NEW w \in Seq(Octet)
    PROVE  Reads(w, TakeSelection(w), SelectionImage)
<1> DEFINE fields ==
         << <<"representation_id", TakeId(w)>>,
            <<"durable_prefix_offset", TakeU64(w)>>,
            <<"max_desired_payload_octets", TakeU64(w)>> >>
<1>1. fields[1][1] = SelectionNames[1] /\ Reads(w, fields[1][2], SelectionPuts[1])
  <2>1. Reads(w, TakeId(w), IdImage)
    BY ReadsWidths
  <2>2. fields[1] = <<"representation_id", TakeId(w)>>
    OBVIOUS
  <2> HIDE DEF fields
  <2> QED
    BY <2>1, <2>2 DEF SelectionNames, SelectionPuts
<1>2. fields[2][1] = SelectionNames[2] /\ Reads(w, fields[2][2], SelectionPuts[2])
  <2>1. Reads(w, TakeU64(w), U64Image)
    BY ReadsWidths
  <2>2. fields[2] = <<"durable_prefix_offset", TakeU64(w)>>
    OBVIOUS
  <2> HIDE DEF fields
  <2> QED
    BY <2>1, <2>2 DEF SelectionNames, SelectionPuts
<1>3. fields[3][1] = SelectionNames[3] /\ Reads(w, fields[3][2], SelectionPuts[3])
  <2>1. Reads(w, TakeU64(w), U64Image)
    BY ReadsWidths
  <2>2. fields[3] = <<"max_desired_payload_octets", TakeU64(w)>>
    OBVIOUS
  <2> HIDE DEF fields
  <2> QED
    BY <2>1, <2>2 DEF SelectionNames, SelectionPuts
<1>4. DOMAIN fields = 1 .. 3 /\ 3 \in Nat
  OBVIOUS
<1>5. TakeSelection(w) = TakeFields(fields)
  BY DEF TakeSelection
<1> HIDE DEF fields
<1>6. FieldsRead(w, 3, fields, SelectionNames, SelectionPuts)
  BY <1>1, <1>2, <1>3 DEF FieldsRead
<1>7. Assembles(3, SelectionNames, SelectionPuts, SelectionImage)
  BY SelectionFields
<1>8. Reads(w, TakeFields(fields), SelectionImage)
  BY <1>4, <1>6, <1>7, ReadsFields
<1> QED
  BY <1>5, <1>8

\* The lists, and the octets of DATA and of a scope.
LEMMA ReadsLists ==
    ASSUME NEW w \in Seq(Octet)
    PROVE  /\ Reads(w, TakeList(w, TakeGeneration(w), 0 .. MaxCapabilityProtocols), GenerationList)
           /\ Reads(w, TakeList(w, TakeId(w), 0 .. MaxCapabilitySchemas), SchemaList)
           /\ Reads(w, TakeList(w, TakePreference(w), 0 .. MaxCapabilityCodecs), PreferenceList)
           /\ Reads(w, TakeList(w, TakeDeclaration(w), 0 .. MaxExtensions), DeclarationList)
           /\ Reads(w, TakeList(w, TakeDescriptor(w), 0 .. MaxOfferDescriptors), DescriptorList)
           /\ Reads(w, TakeList(w, TakeSelection(w), 0 .. MaxRequestSelections), SelectionList)
<1>1. Reads(w, TakeList(w, TakeGeneration(w), 0 .. MaxCapabilityProtocols), GenerationList)
  <2>1. Reads(w, TakeGeneration(w), GenerationImage) /\ 0 .. MaxCapabilityProtocols \in SUBSET Octet
    BY ReadsGeneration, Counts
  <2> QED
    BY <2>1, ReadsList DEF GenerationList
<1>2. Reads(w, TakeList(w, TakeId(w), 0 .. MaxCapabilitySchemas), SchemaList)
  <2>1. Reads(w, TakeId(w), IdImage) /\ 0 .. MaxCapabilitySchemas \in SUBSET Octet
    BY ReadsWidths, Counts
  <2> QED
    BY <2>1, ReadsList DEF SchemaList
<1>3. Reads(w, TakeList(w, TakePreference(w), 0 .. MaxCapabilityCodecs), PreferenceList)
  <2>1. Reads(w, TakePreference(w), PreferenceImage) /\ 0 .. MaxCapabilityCodecs \in SUBSET Octet
    BY ReadsPreference, Counts
  <2> QED
    BY <2>1, ReadsList DEF PreferenceList
<1>4. Reads(w, TakeList(w, TakeDeclaration(w), 0 .. MaxExtensions), DeclarationList)
  <2>1. Reads(w, TakeDeclaration(w), DeclarationImage) /\ 0 .. MaxExtensions \in SUBSET Octet
    BY ReadsDeclaration, Counts
  <2> QED
    BY <2>1, ReadsList DEF DeclarationList
<1>5. Reads(w, TakeList(w, TakeDescriptor(w), 0 .. MaxOfferDescriptors), DescriptorList)
  <2>1. Reads(w, TakeDescriptor(w), DescriptorImage) /\ 0 .. MaxOfferDescriptors \in SUBSET Octet
    BY ReadsDescriptor, Counts
  <2> QED
    BY <2>1, ReadsList DEF DescriptorList
<1>6. Reads(w, TakeList(w, TakeSelection(w), 0 .. MaxRequestSelections), SelectionList)
  <2>1. Reads(w, TakeSelection(w), SelectionImage) /\ 0 .. MaxRequestSelections \in SUBSET Octet
    BY ReadsSelection, Counts
  <2> QED
    BY <2>1, ReadsList DEF SelectionList
<1> QED
  BY <1>1, <1>2, <1>3, <1>4, <1>5, <1>6

LEMMA ReadsLengths ==
    ASSUME NEW w \in Seq(Octet)
    PROVE  /\ Reads(w, TakeOctets(w, TakeU32(w), MaxRecordOctets), DataOctets)
           /\ Reads(w, TakeOctets(w, TakeU8(w), MaxFailureScopeOctets), ScopeOctets)
<1>1. Reads(w, TakeOctets(w, TakeU32(w), MaxRecordOctets), DataOctets)
  <2>1. DOMAIN U32Image \subseteq Nat /\ MaxRecordOctets \in Nat
    BY BoundsAssumption, WidthImages, WidthFacts, NumbersAreNaturals DEF U32
  <2> QED
    BY <2>1, ReadsWidths, ReadsOctets DEF DataOctets
<1>2. Reads(w, TakeOctets(w, TakeU8(w), MaxFailureScopeOctets), ScopeOctets)
  <2>1. DOMAIN OctetImage \subseteq Nat /\ MaxFailureScopeOctets \in Nat
    <3>1. DOMAIN OctetImage = Octet
      BY OctetWrites, Zenon
    <3>2. MaxFailureScopeOctets \in Octet
      BY BoundsAssumption, Zenon
    <3> QED
      BY <3>1, <3>2 DEF Octet
  <2> QED
    BY <2>1, ReadsU8, ReadsOctets DEF ScopeOctets
<1> QED
  BY <1>1, <1>2

\* decode_payload.
LEMMA ReadsCapabilities ==
    ASSUME NEW w \in Seq(Octet)
    PROVE  Reads(w, TakeCapabilities(w), CapabilitiesImage)
<1> DEFINE fields ==
         << <<"protocol_generations", TakeList(w, TakeGeneration(w), 0 .. MaxCapabilityProtocols)>>,
            <<"schema_fingerprints", TakeList(w, TakeId(w), 0 .. MaxCapabilitySchemas)>>,
            <<"codec_preferences", TakeList(w, TakePreference(w), 0 .. MaxCapabilityCodecs)>>,
            <<"max_operation_octets", TakeU32(w)>>,
            <<"max_data_payload_octets", TakeU64(w)>>,
            <<"receipt_levels", TakeBits(w)>>,
            <<"security_class", TakeEnum(w, SecurityClasses)>>,
            <<"extensions", TakeList(w, TakeDeclaration(w), 0 .. MaxExtensions)>> >>
<1>1. fields[1][1] = CapabilitiesNames[1] /\ Reads(w, fields[1][2], CapabilitiesPuts[1])
  <2>1. Reads(w, TakeList(w, TakeGeneration(w), 0 .. MaxCapabilityProtocols), GenerationList)
    BY ReadsLists
  <2>2. fields[1] = <<"protocol_generations", TakeList(w, TakeGeneration(w), 0 .. MaxCapabilityProtocols)>>
    OBVIOUS
  <2> HIDE DEF fields
  <2> QED
    BY <2>1, <2>2 DEF CapabilitiesNames, CapabilitiesPuts
<1>2. fields[2][1] = CapabilitiesNames[2] /\ Reads(w, fields[2][2], CapabilitiesPuts[2])
  <2>1. Reads(w, TakeList(w, TakeId(w), 0 .. MaxCapabilitySchemas), SchemaList)
    BY ReadsLists
  <2>2. fields[2] = <<"schema_fingerprints", TakeList(w, TakeId(w), 0 .. MaxCapabilitySchemas)>>
    OBVIOUS
  <2> HIDE DEF fields
  <2> QED
    BY <2>1, <2>2 DEF CapabilitiesNames, CapabilitiesPuts
<1>3. fields[3][1] = CapabilitiesNames[3] /\ Reads(w, fields[3][2], CapabilitiesPuts[3])
  <2>1. Reads(w, TakeList(w, TakePreference(w), 0 .. MaxCapabilityCodecs), PreferenceList)
    BY ReadsLists
  <2>2. fields[3] = <<"codec_preferences", TakeList(w, TakePreference(w), 0 .. MaxCapabilityCodecs)>>
    OBVIOUS
  <2> HIDE DEF fields
  <2> QED
    BY <2>1, <2>2 DEF CapabilitiesNames, CapabilitiesPuts
<1>4. fields[4][1] = CapabilitiesNames[4] /\ Reads(w, fields[4][2], CapabilitiesPuts[4])
  <2>1. Reads(w, TakeU32(w), U32Image)
    BY ReadsWidths
  <2>2. fields[4] = <<"max_operation_octets", TakeU32(w)>>
    OBVIOUS
  <2> HIDE DEF fields
  <2> QED
    BY <2>1, <2>2 DEF CapabilitiesNames, CapabilitiesPuts
<1>5. fields[5][1] = CapabilitiesNames[5] /\ Reads(w, fields[5][2], CapabilitiesPuts[5])
  <2>1. Reads(w, TakeU64(w), U64Image)
    BY ReadsWidths
  <2>2. fields[5] = <<"max_data_payload_octets", TakeU64(w)>>
    OBVIOUS
  <2> HIDE DEF fields
  <2> QED
    BY <2>1, <2>2 DEF CapabilitiesNames, CapabilitiesPuts
<1>6. fields[6][1] = CapabilitiesNames[6] /\ Reads(w, fields[6][2], CapabilitiesPuts[6])
  <2>1. Reads(w, TakeBits(w), BitsImage)
    BY ReadsBits
  <2>2. fields[6] = <<"receipt_levels", TakeBits(w)>>
    OBVIOUS
  <2> HIDE DEF fields
  <2> QED
    BY <2>1, <2>2 DEF CapabilitiesNames, CapabilitiesPuts
<1>7. fields[7][1] = CapabilitiesNames[7] /\ Reads(w, fields[7][2], CapabilitiesPuts[7])
  <2>1. Reads(w, TakeEnum(w, SecurityClasses), EnumImage(SecurityClasses))
    BY Enumerations, ReadsEnum
  <2>2. fields[7] = <<"security_class", TakeEnum(w, SecurityClasses)>>
    OBVIOUS
  <2> HIDE DEF fields
  <2> QED
    BY <2>1, <2>2 DEF CapabilitiesNames, CapabilitiesPuts
<1>8. fields[8][1] = CapabilitiesNames[8] /\ Reads(w, fields[8][2], CapabilitiesPuts[8])
  <2>1. Reads(w, TakeList(w, TakeDeclaration(w), 0 .. MaxExtensions), DeclarationList)
    BY ReadsLists
  <2>2. fields[8] = <<"extensions", TakeList(w, TakeDeclaration(w), 0 .. MaxExtensions)>>
    OBVIOUS
  <2> HIDE DEF fields
  <2> QED
    BY <2>1, <2>2 DEF CapabilitiesNames, CapabilitiesPuts
<1>9. DOMAIN fields = 1 .. 8 /\ 8 \in Nat
  OBVIOUS
<1>10. TakeCapabilities(w) = TakeFields(fields)
  BY DEF TakeCapabilities
<1> HIDE DEF fields
<1>11. FieldsRead(w, 8, fields, CapabilitiesNames, CapabilitiesPuts)
  BY <1>1, <1>2, <1>3, <1>4, <1>5, <1>6, <1>7, <1>8 DEF FieldsRead
<1>12. Assembles(8, CapabilitiesNames, CapabilitiesPuts, CapabilitiesImage)
  BY CapabilitiesFields
<1>13. Reads(w, TakeFields(fields), CapabilitiesImage)
  BY <1>9, <1>11, <1>12, ReadsFields
<1> QED
  BY <1>10, <1>13

LEMMA ReadsSummary ==
    ASSUME NEW w \in Seq(Octet)
    PROVE  Reads(w, TakeSummary(w), SummaryImage)
<1> DEFINE fields ==
         << <<"collection_id", TakeId(w)>>,
            <<"generation", TakeU64(w)>>, <<"item_count", TakeU64(w)>>,
            <<"collection_digest", TakeId(w)>> >>
<1>1. fields[1][1] = SummaryNames[1] /\ Reads(w, fields[1][2], SummaryPuts[1])
  <2>1. Reads(w, TakeId(w), IdImage)
    BY ReadsWidths
  <2>2. fields[1] = <<"collection_id", TakeId(w)>>
    OBVIOUS
  <2> HIDE DEF fields
  <2> QED
    BY <2>1, <2>2 DEF SummaryNames, SummaryPuts
<1>2. fields[2][1] = SummaryNames[2] /\ Reads(w, fields[2][2], SummaryPuts[2])
  <2>1. Reads(w, TakeU64(w), U64Image)
    BY ReadsWidths
  <2>2. fields[2] = <<"generation", TakeU64(w)>>
    OBVIOUS
  <2> HIDE DEF fields
  <2> QED
    BY <2>1, <2>2 DEF SummaryNames, SummaryPuts
<1>3. fields[3][1] = SummaryNames[3] /\ Reads(w, fields[3][2], SummaryPuts[3])
  <2>1. Reads(w, TakeU64(w), U64Image)
    BY ReadsWidths
  <2>2. fields[3] = <<"item_count", TakeU64(w)>>
    OBVIOUS
  <2> HIDE DEF fields
  <2> QED
    BY <2>1, <2>2 DEF SummaryNames, SummaryPuts
<1>4. fields[4][1] = SummaryNames[4] /\ Reads(w, fields[4][2], SummaryPuts[4])
  <2>1. Reads(w, TakeId(w), IdImage)
    BY ReadsWidths
  <2>2. fields[4] = <<"collection_digest", TakeId(w)>>
    OBVIOUS
  <2> HIDE DEF fields
  <2> QED
    BY <2>1, <2>2 DEF SummaryNames, SummaryPuts
<1>5. DOMAIN fields = 1 .. 4 /\ 4 \in Nat
  OBVIOUS
<1>6. TakeSummary(w) = TakeFields(fields)
  BY DEF TakeSummary
<1> HIDE DEF fields
<1>7. FieldsRead(w, 4, fields, SummaryNames, SummaryPuts)
  BY <1>1, <1>2, <1>3, <1>4 DEF FieldsRead
<1>8. Assembles(4, SummaryNames, SummaryPuts, SummaryImage)
  BY SummaryFields
<1>9. Reads(w, TakeFields(fields), SummaryImage)
  BY <1>5, <1>7, <1>8, ReadsFields
<1> QED
  BY <1>6, <1>9

LEMMA ReadsOffer ==
    ASSUME NEW w \in Seq(Octet)
    PROVE  Reads(w, TakeOffer(w), OfferImage)
<1> DEFINE fields ==
         << <<"collection_id", TakeId(w)>>,
            <<"mode", TakeEnum(w, OfferModes)>>, <<"base_generation", TakeU64(w)>>,
            <<"target_generation", TakeU64(w)>>, <<"first_cursor", TakeCursor(w)>>,
            <<"last_cursor", TakeCursor(w)>>,
            <<"descriptors", TakeList(w, TakeDescriptor(w), 0 .. MaxOfferDescriptors)>>,
            <<"more", TakeBool(w)>> >>
<1>1. fields[1][1] = OfferNames[1] /\ Reads(w, fields[1][2], OfferPuts[1])
  <2>1. Reads(w, TakeId(w), IdImage)
    BY ReadsWidths
  <2>2. fields[1] = <<"collection_id", TakeId(w)>>
    OBVIOUS
  <2> HIDE DEF fields
  <2> QED
    BY <2>1, <2>2 DEF OfferNames, OfferPuts
<1>2. fields[2][1] = OfferNames[2] /\ Reads(w, fields[2][2], OfferPuts[2])
  <2>1. Reads(w, TakeEnum(w, OfferModes), EnumImage(OfferModes))
    BY Enumerations, ReadsEnum
  <2>2. fields[2] = <<"mode", TakeEnum(w, OfferModes)>>
    OBVIOUS
  <2> HIDE DEF fields
  <2> QED
    BY <2>1, <2>2 DEF OfferNames, OfferPuts
<1>3. fields[3][1] = OfferNames[3] /\ Reads(w, fields[3][2], OfferPuts[3])
  <2>1. Reads(w, TakeU64(w), U64Image)
    BY ReadsWidths
  <2>2. fields[3] = <<"base_generation", TakeU64(w)>>
    OBVIOUS
  <2> HIDE DEF fields
  <2> QED
    BY <2>1, <2>2 DEF OfferNames, OfferPuts
<1>4. fields[4][1] = OfferNames[4] /\ Reads(w, fields[4][2], OfferPuts[4])
  <2>1. Reads(w, TakeU64(w), U64Image)
    BY ReadsWidths
  <2>2. fields[4] = <<"target_generation", TakeU64(w)>>
    OBVIOUS
  <2> HIDE DEF fields
  <2> QED
    BY <2>1, <2>2 DEF OfferNames, OfferPuts
<1>5. fields[5][1] = OfferNames[5] /\ Reads(w, fields[5][2], OfferPuts[5])
  <2>1. Reads(w, TakeCursor(w), CursorImage)
    BY ReadsCursor
  <2>2. fields[5] = <<"first_cursor", TakeCursor(w)>>
    OBVIOUS
  <2> HIDE DEF fields
  <2> QED
    BY <2>1, <2>2 DEF OfferNames, OfferPuts
<1>6. fields[6][1] = OfferNames[6] /\ Reads(w, fields[6][2], OfferPuts[6])
  <2>1. Reads(w, TakeCursor(w), CursorImage)
    BY ReadsCursor
  <2>2. fields[6] = <<"last_cursor", TakeCursor(w)>>
    OBVIOUS
  <2> HIDE DEF fields
  <2> QED
    BY <2>1, <2>2 DEF OfferNames, OfferPuts
<1>7. fields[7][1] = OfferNames[7] /\ Reads(w, fields[7][2], OfferPuts[7])
  <2>1. Reads(w, TakeList(w, TakeDescriptor(w), 0 .. MaxOfferDescriptors), DescriptorList)
    BY ReadsLists
  <2>2. fields[7] = <<"descriptors", TakeList(w, TakeDescriptor(w), 0 .. MaxOfferDescriptors)>>
    OBVIOUS
  <2> HIDE DEF fields
  <2> QED
    BY <2>1, <2>2 DEF OfferNames, OfferPuts
<1>8. fields[8][1] = OfferNames[8] /\ Reads(w, fields[8][2], OfferPuts[8])
  <2>1. Reads(w, TakeBool(w), BoolImage)
    BY ReadsBool
  <2>2. fields[8] = <<"more", TakeBool(w)>>
    OBVIOUS
  <2> HIDE DEF fields
  <2> QED
    BY <2>1, <2>2 DEF OfferNames, OfferPuts
<1>9. DOMAIN fields = 1 .. 8 /\ 8 \in Nat
  OBVIOUS
<1>10. TakeOffer(w) = TakeFields(fields)
  BY DEF TakeOffer
<1> HIDE DEF fields
<1>11. FieldsRead(w, 8, fields, OfferNames, OfferPuts)
  BY <1>1, <1>2, <1>3, <1>4, <1>5, <1>6, <1>7, <1>8 DEF FieldsRead
<1>12. Assembles(8, OfferNames, OfferPuts, OfferImage)
  BY OfferFields
<1>13. Reads(w, TakeFields(fields), OfferImage)
  BY <1>9, <1>11, <1>12, ReadsFields
<1> QED
  BY <1>10, <1>13

LEMMA ReadsPage ==
    ASSUME NEW w \in Seq(Octet)
    PROVE  Reads(w, TakePageRequest(w), PageImage)
<1> DEFINE fields ==
         << <<"collection_id", TakeId(w)>>,
            <<"target_generation", TakeU64(w)>>, <<"mode", TakeEnum(w, OfferModes)>>,
            <<"committed_cursor", TakeCursor(w)>>, <<"page_entry_limit", TakeU8(w)>> >>
<1>1. fields[1][1] = PageNames[1] /\ Reads(w, fields[1][2], PagePuts[1])
  <2>1. Reads(w, TakeId(w), IdImage)
    BY ReadsWidths
  <2>2. fields[1] = <<"collection_id", TakeId(w)>>
    OBVIOUS
  <2> HIDE DEF fields
  <2> QED
    BY <2>1, <2>2 DEF PageNames, PagePuts
<1>2. fields[2][1] = PageNames[2] /\ Reads(w, fields[2][2], PagePuts[2])
  <2>1. Reads(w, TakeU64(w), U64Image)
    BY ReadsWidths
  <2>2. fields[2] = <<"target_generation", TakeU64(w)>>
    OBVIOUS
  <2> HIDE DEF fields
  <2> QED
    BY <2>1, <2>2 DEF PageNames, PagePuts
<1>3. fields[3][1] = PageNames[3] /\ Reads(w, fields[3][2], PagePuts[3])
  <2>1. Reads(w, TakeEnum(w, OfferModes), EnumImage(OfferModes))
    BY Enumerations, ReadsEnum
  <2>2. fields[3] = <<"mode", TakeEnum(w, OfferModes)>>
    OBVIOUS
  <2> HIDE DEF fields
  <2> QED
    BY <2>1, <2>2 DEF PageNames, PagePuts
<1>4. fields[4][1] = PageNames[4] /\ Reads(w, fields[4][2], PagePuts[4])
  <2>1. Reads(w, TakeCursor(w), CursorImage)
    BY ReadsCursor
  <2>2. fields[4] = <<"committed_cursor", TakeCursor(w)>>
    OBVIOUS
  <2> HIDE DEF fields
  <2> QED
    BY <2>1, <2>2 DEF PageNames, PagePuts
<1>5. fields[5][1] = PageNames[5] /\ Reads(w, fields[5][2], PagePuts[5])
  <2>1. Reads(w, TakeU8(w), OctetImage)
    BY ReadsU8
  <2>2. fields[5] = <<"page_entry_limit", TakeU8(w)>>
    OBVIOUS
  <2> HIDE DEF fields
  <2> QED
    BY <2>1, <2>2 DEF PageNames, PagePuts
<1>6. DOMAIN fields = 1 .. 5 /\ 5 \in Nat
  OBVIOUS
<1>7. TakePageRequest(w) = TakeFields(fields)
  BY DEF TakePageRequest
<1> HIDE DEF fields
<1>8. FieldsRead(w, 5, fields, PageNames, PagePuts)
  BY <1>1, <1>2, <1>3, <1>4, <1>5 DEF FieldsRead
<1>9. Assembles(5, PageNames, PagePuts, PageImage)
  BY PageFields
<1>10. Reads(w, TakeFields(fields), PageImage)
  BY <1>6, <1>8, <1>9, ReadsFields
<1> QED
  BY <1>7, <1>10

LEMMA ReadsDataRequest ==
    ASSUME NEW w \in Seq(Octet)
    PROVE  Reads(w, TakeDataRequest(w), DataRequestImage)
<1> DEFINE fields ==
         << <<"budget_id", TakeId16(w)>>,
            <<"max_total_bempic_bytes", TakeU64(w)>>,
            <<"max_sender_to_receiver_bytes", TakeU64(w)>>,
            <<"max_receiver_to_sender_bytes", TakeU64(w)>>,
            <<"selections", TakeList(w, TakeSelection(w), 0 .. MaxRequestSelections)>> >>
<1>1. fields[1][1] = DataRequestNames[1] /\ Reads(w, fields[1][2], DataRequestPuts[1])
  <2>1. Reads(w, TakeId16(w), Id16Image)
    BY ReadsWidths
  <2>2. fields[1] = <<"budget_id", TakeId16(w)>>
    OBVIOUS
  <2> HIDE DEF fields
  <2> QED
    BY <2>1, <2>2 DEF DataRequestNames, DataRequestPuts
<1>2. fields[2][1] = DataRequestNames[2] /\ Reads(w, fields[2][2], DataRequestPuts[2])
  <2>1. Reads(w, TakeU64(w), U64Image)
    BY ReadsWidths
  <2>2. fields[2] = <<"max_total_bempic_bytes", TakeU64(w)>>
    OBVIOUS
  <2> HIDE DEF fields
  <2> QED
    BY <2>1, <2>2 DEF DataRequestNames, DataRequestPuts
<1>3. fields[3][1] = DataRequestNames[3] /\ Reads(w, fields[3][2], DataRequestPuts[3])
  <2>1. Reads(w, TakeU64(w), U64Image)
    BY ReadsWidths
  <2>2. fields[3] = <<"max_sender_to_receiver_bytes", TakeU64(w)>>
    OBVIOUS
  <2> HIDE DEF fields
  <2> QED
    BY <2>1, <2>2 DEF DataRequestNames, DataRequestPuts
<1>4. fields[4][1] = DataRequestNames[4] /\ Reads(w, fields[4][2], DataRequestPuts[4])
  <2>1. Reads(w, TakeU64(w), U64Image)
    BY ReadsWidths
  <2>2. fields[4] = <<"max_receiver_to_sender_bytes", TakeU64(w)>>
    OBVIOUS
  <2> HIDE DEF fields
  <2> QED
    BY <2>1, <2>2 DEF DataRequestNames, DataRequestPuts
<1>5. fields[5][1] = DataRequestNames[5] /\ Reads(w, fields[5][2], DataRequestPuts[5])
  <2>1. Reads(w, TakeList(w, TakeSelection(w), 0 .. MaxRequestSelections), SelectionList)
    BY ReadsLists
  <2>2. fields[5] = <<"selections", TakeList(w, TakeSelection(w), 0 .. MaxRequestSelections)>>
    OBVIOUS
  <2> HIDE DEF fields
  <2> QED
    BY <2>1, <2>2 DEF DataRequestNames, DataRequestPuts
<1>6. DOMAIN fields = 1 .. 5 /\ 5 \in Nat
  OBVIOUS
<1>7. TakeDataRequest(w) = TakeFields(fields)
  BY DEF TakeDataRequest
<1> HIDE DEF fields
<1>8. FieldsRead(w, 5, fields, DataRequestNames, DataRequestPuts)
  BY <1>1, <1>2, <1>3, <1>4, <1>5 DEF FieldsRead
<1>9. Assembles(5, DataRequestNames, DataRequestPuts, DataRequestImage)
  BY DataRequestFields
<1>10. Reads(w, TakeFields(fields), DataRequestImage)
  BY <1>6, <1>8, <1>9, ReadsFields
<1> QED
  BY <1>7, <1>10

LEMMA ReadsData ==
    ASSUME NEW w \in Seq(Octet)
    PROVE  Reads(w, TakeData(w), DataImage)
<1> DEFINE fields ==
         << <<"representation_id", TakeId(w)>>,
            <<"offset", TakeU64(w)>>,
            <<"payload", TakeOctets(w, TakeU32(w), MaxRecordOctets)>> >>
<1>1. fields[1][1] = DataNames[1] /\ Reads(w, fields[1][2], DataPuts[1])
  <2>1. Reads(w, TakeId(w), IdImage)
    BY ReadsWidths
  <2>2. fields[1] = <<"representation_id", TakeId(w)>>
    OBVIOUS
  <2> HIDE DEF fields
  <2> QED
    BY <2>1, <2>2 DEF DataNames, DataPuts
<1>2. fields[2][1] = DataNames[2] /\ Reads(w, fields[2][2], DataPuts[2])
  <2>1. Reads(w, TakeU64(w), U64Image)
    BY ReadsWidths
  <2>2. fields[2] = <<"offset", TakeU64(w)>>
    OBVIOUS
  <2> HIDE DEF fields
  <2> QED
    BY <2>1, <2>2 DEF DataNames, DataPuts
<1>3. fields[3][1] = DataNames[3] /\ Reads(w, fields[3][2], DataPuts[3])
  <2>1. Reads(w, TakeOctets(w, TakeU32(w), MaxRecordOctets), DataOctets)
    BY ReadsLengths
  <2>2. fields[3] = <<"payload", TakeOctets(w, TakeU32(w), MaxRecordOctets)>>
    OBVIOUS
  <2> HIDE DEF fields
  <2> QED
    BY <2>1, <2>2 DEF DataNames, DataPuts
<1>4. DOMAIN fields = 1 .. 3 /\ 3 \in Nat
  OBVIOUS
<1>5. TakeData(w) = TakeFields(fields)
  BY DEF TakeData
<1> HIDE DEF fields
<1>6. FieldsRead(w, 3, fields, DataNames, DataPuts)
  BY <1>1, <1>2, <1>3 DEF FieldsRead
<1>7. Assembles(3, DataNames, DataPuts, DataImage)
  BY DataFields
<1>8. Reads(w, TakeFields(fields), DataImage)
  BY <1>4, <1>6, <1>7, ReadsFields
<1> QED
  BY <1>5, <1>8

LEMMA ReadsReceipt ==
    ASSUME NEW w \in Seq(Octet)
    PROVE  Reads(w, TakeReceipt(w), ReceiptImage)
<1> DEFINE fields ==
         << <<"subject_id", TakeId(w)>>,
            <<"status", TakeEnum(w, ReceiptStatuses)>>,
            <<"verified_digest", TakeOption(w, TakeId(w))>>,
            <<"idempotency_id", TakeId16(w)>>,
            <<"reason", TakeText(w, MaxFailureDetailOctets)>> >>
<1>1. fields[1][1] = ReceiptNames[1] /\ Reads(w, fields[1][2], ReceiptPuts[1])
  <2>1. Reads(w, TakeId(w), IdImage)
    BY ReadsWidths
  <2>2. fields[1] = <<"subject_id", TakeId(w)>>
    OBVIOUS
  <2> HIDE DEF fields
  <2> QED
    BY <2>1, <2>2 DEF ReceiptNames, ReceiptPuts
<1>2. fields[2][1] = ReceiptNames[2] /\ Reads(w, fields[2][2], ReceiptPuts[2])
  <2>1. Reads(w, TakeEnum(w, ReceiptStatuses), EnumImage(ReceiptStatuses))
    BY Enumerations, ReadsEnum
  <2>2. fields[2] = <<"status", TakeEnum(w, ReceiptStatuses)>>
    OBVIOUS
  <2> HIDE DEF fields
  <2> QED
    BY <2>1, <2>2 DEF ReceiptNames, ReceiptPuts
<1>3. fields[3][1] = ReceiptNames[3] /\ Reads(w, fields[3][2], ReceiptPuts[3])
  <2>1. Reads(w, TakeOption(w, TakeId(w)), IdOption)
    BY ReadsOptions
  <2>2. fields[3] = <<"verified_digest", TakeOption(w, TakeId(w))>>
    OBVIOUS
  <2> HIDE DEF fields
  <2> QED
    BY <2>1, <2>2 DEF ReceiptNames, ReceiptPuts
<1>4. fields[4][1] = ReceiptNames[4] /\ Reads(w, fields[4][2], ReceiptPuts[4])
  <2>1. Reads(w, TakeId16(w), Id16Image)
    BY ReadsWidths
  <2>2. fields[4] = <<"idempotency_id", TakeId16(w)>>
    OBVIOUS
  <2> HIDE DEF fields
  <2> QED
    BY <2>1, <2>2 DEF ReceiptNames, ReceiptPuts
<1>5. fields[5][1] = ReceiptNames[5] /\ Reads(w, fields[5][2], ReceiptPuts[5])
  <2>1. Reads(w, TakeText(w, MaxFailureDetailOctets), TextImage(MaxFailureDetailOctets))
    BY BoundsAssumption, ReadsText
  <2>2. fields[5] = <<"reason", TakeText(w, MaxFailureDetailOctets)>>
    OBVIOUS
  <2> HIDE DEF fields
  <2> QED
    BY <2>1, <2>2 DEF ReceiptNames, ReceiptPuts
<1>6. DOMAIN fields = 1 .. 5 /\ 5 \in Nat
  OBVIOUS
<1>7. TakeReceipt(w) = TakeFields(fields)
  BY DEF TakeReceipt
<1> HIDE DEF fields
<1>8. FieldsRead(w, 5, fields, ReceiptNames, ReceiptPuts)
  BY <1>1, <1>2, <1>3, <1>4, <1>5 DEF FieldsRead
<1>9. Assembles(5, ReceiptNames, ReceiptPuts, ReceiptImage)
  BY ReceiptFields
<1>10. Reads(w, TakeFields(fields), ReceiptImage)
  BY <1>6, <1>8, <1>9, ReadsFields
<1> QED
  BY <1>7, <1>10

LEMMA ReadsFailure ==
    ASSUME NEW w \in Seq(Octet)
    PROVE  Reads(w, TakeFailure(w), FailureImage)
<1> DEFINE fields ==
         << <<"code", TakeEnum(w, FailureCodes)>>,
            <<"scope", TakeOctets(w, TakeU8(w), MaxFailureScopeOctets)>>,
            <<"retryable", TakeBool(w)>>,
            <<"detail", TakeText(w, MaxFailureDetailOctets)>> >>
<1>1. fields[1][1] = FailureNames[1] /\ Reads(w, fields[1][2], FailurePuts[1])
  <2>1. Reads(w, TakeEnum(w, FailureCodes), EnumImage(FailureCodes))
    BY Enumerations, ReadsEnum
  <2>2. fields[1] = <<"code", TakeEnum(w, FailureCodes)>>
    OBVIOUS
  <2> HIDE DEF fields
  <2> QED
    BY <2>1, <2>2 DEF FailureNames, FailurePuts
<1>2. fields[2][1] = FailureNames[2] /\ Reads(w, fields[2][2], FailurePuts[2])
  <2>1. Reads(w, TakeOctets(w, TakeU8(w), MaxFailureScopeOctets), ScopeOctets)
    BY ReadsLengths
  <2>2. fields[2] = <<"scope", TakeOctets(w, TakeU8(w), MaxFailureScopeOctets)>>
    OBVIOUS
  <2> HIDE DEF fields
  <2> QED
    BY <2>1, <2>2 DEF FailureNames, FailurePuts
<1>3. fields[3][1] = FailureNames[3] /\ Reads(w, fields[3][2], FailurePuts[3])
  <2>1. Reads(w, TakeBool(w), BoolImage)
    BY ReadsBool
  <2>2. fields[3] = <<"retryable", TakeBool(w)>>
    OBVIOUS
  <2> HIDE DEF fields
  <2> QED
    BY <2>1, <2>2 DEF FailureNames, FailurePuts
<1>4. fields[4][1] = FailureNames[4] /\ Reads(w, fields[4][2], FailurePuts[4])
  <2>1. Reads(w, TakeText(w, MaxFailureDetailOctets), TextImage(MaxFailureDetailOctets))
    BY BoundsAssumption, ReadsText
  <2>2. fields[4] = <<"detail", TakeText(w, MaxFailureDetailOctets)>>
    OBVIOUS
  <2> HIDE DEF fields
  <2> QED
    BY <2>1, <2>2 DEF FailureNames, FailurePuts
<1>5. DOMAIN fields = 1 .. 4 /\ 4 \in Nat
  OBVIOUS
<1>6. TakeFailure(w) = TakeFields(fields)
  BY DEF TakeFailure
<1> HIDE DEF fields
<1>7. FieldsRead(w, 4, fields, FailureNames, FailurePuts)
  BY <1>1, <1>2, <1>3, <1>4 DEF FieldsRead
<1>8. Assembles(4, FailureNames, FailurePuts, FailureImage)
  BY FailureFields
<1>9. Reads(w, TakeFields(fields), FailureImage)
  BY <1>5, <1>7, <1>8, ReadsFields
<1> QED
  BY <1>6, <1>9

LEMMA ReadsExtension ==
    ASSUME NEW w \in Seq(Octet)
    PROVE  Reads(w, TakeFields(<<<<"id", TakeU32(w)>>, <<"critical", TakeBool(w)>>,
                         <<"value", TakeOctets(w, TakeU16(w), MaxExtensionValueOctets)>>>>), ExtensionImage)
<1> DEFINE fields ==
         << <<"id", TakeU32(w)>>, <<"critical", TakeBool(w)>>,
            <<"value", TakeOctets(w, TakeU16(w), MaxExtensionValueOctets)>> >>
<1>1. fields[1][1] = ExtensionNames[1] /\ Reads(w, fields[1][2], ExtensionPuts[1])
  <2>1. Reads(w, TakeU32(w), U32Image)
    BY ReadsWidths
  <2>2. fields[1] = <<"id", TakeU32(w)>>
    OBVIOUS
  <2> HIDE DEF fields
  <2> QED
    BY <2>1, <2>2 DEF ExtensionNames, ExtensionPuts
<1>2. fields[2][1] = ExtensionNames[2] /\ Reads(w, fields[2][2], ExtensionPuts[2])
  <2>1. Reads(w, TakeBool(w), BoolImage)
    BY ReadsBool
  <2>2. fields[2] = <<"critical", TakeBool(w)>>
    OBVIOUS
  <2> HIDE DEF fields
  <2> QED
    BY <2>1, <2>2 DEF ExtensionNames, ExtensionPuts
<1>3. fields[3][1] = ExtensionNames[3] /\ Reads(w, fields[3][2], ExtensionPuts[3])
  <2>1. Reads(w, TakeOctets(w, TakeU16(w), MaxExtensionValueOctets), BlobImage(MaxExtensionValueOctets))
    BY BoundsAssumption, ReadsBlob
  <2>2. fields[3] = <<"value", TakeOctets(w, TakeU16(w), MaxExtensionValueOctets)>>
    OBVIOUS
  <2> HIDE DEF fields
  <2> QED
    BY <2>1, <2>2 DEF ExtensionNames, ExtensionPuts
<1>4. DOMAIN fields = 1 .. 3 /\ 3 \in Nat
  OBVIOUS
<1>5. TakeFields(<<<<"id", TakeU32(w)>>, <<"critical", TakeBool(w)>>,
                         <<"value", TakeOctets(w, TakeU16(w), MaxExtensionValueOctets)>>>>) = TakeFields(fields)
  OBVIOUS
<1> HIDE DEF fields
<1>6. FieldsRead(w, 3, fields, ExtensionNames, ExtensionPuts)
  BY <1>1, <1>2, <1>3 DEF FieldsRead
<1>7. Assembles(3, ExtensionNames, ExtensionPuts, ExtensionImage)
  BY ExtensionFields
<1>8. Reads(w, TakeFields(fields), ExtensionImage)
  BY <1>4, <1>6, <1>7, ReadsFields
<1> QED
  BY <1>5, <1>8

LEMMA ReadsExtensions ==
    ASSUME NEW w \in Seq(Octet)
    PROVE  Reads(w, TakeExtensions(w), ExtensionList)
<1> DEFINE Reader == TakeFields(<<<<"id", TakeU32(w)>>, <<"critical", TakeBool(w)>>,
                         <<"value", TakeOctets(w, TakeU16(w), MaxExtensionValueOctets)>>>>)
<1>1. Reads(w, Reader, ExtensionImage)
  BY ReadsExtension
<1>2. TakeExtensions(w) = TakeList(w, Reader, 0 .. MaxExtensions)
  BY DEF TakeExtensions
<1> HIDE DEF Reader
<1> QED
  BY <1>1, <1>2, Counts, ReadsList DEF ExtensionList

---------------------------------------------------------------------------
(* The payload of an operation.                                            *)

FitRequest == PageRequest \cup FitDataRequest
RequestImage == [v \in FitRequest |-> Payload("REQUEST", v)]

LEMMA RequestFacts ==
    /\ DOMAIN RequestImage = FitRequest
    /\ \A v \in FitRequest :
          Writes(RequestImage, v, Payload("REQUEST", v),
                 PayloadSize([kind |-> "REQUEST", body |-> v]))
    /\ Chosen(2, <<PageImage, DataRequestImage>>, RequestImage)
<1>1. ASSUME NEW v \in PageRequest
      PROVE  /\ v \in DOMAIN PageImage
             /\ Payload("REQUEST", v) = <<0>> \o PageImage[v]
             /\ PageImage[v] \in Seq(Octet)
             /\ PayloadSize([kind |-> "REQUEST", body |-> v]) = 1 + Len(PageImage[v])
  <2>1. "mode" \in DOMAIN v
    BY DEF PageRequest
  <2>2. v \in DOMAIN PageImage /\ PageImage[v] = PutPageRequest(v)
    BY DEF PageImage
  <2>3. Payload("REQUEST", v) = <<0>> \o PutPageRequest(v)
    BY <2>1 DEF Payload, EncodePayload
  <2>4. PayloadSize([kind |-> "REQUEST", body |-> v]) =
           1 + (Width.id + Width.u64 + 1 + CursorSize(v.committed_cursor) + 1)
    BY <2>1 DEF PayloadSize
  <2> QED
    BY <2>2, <2>3, <2>4, PageFields
<1>2. ASSUME NEW v \in FitDataRequest
      PROVE  /\ v \in DOMAIN DataRequestImage
             /\ Payload("REQUEST", v) = <<1>> \o DataRequestImage[v]
             /\ DataRequestImage[v] \in Seq(Octet)
             /\ PayloadSize([kind |-> "REQUEST", body |-> v]) = 1 + Len(DataRequestImage[v])
  <2>1. "mode" \notin DOMAIN v
    BY DEF FitDataRequest
  <2>2. v \in DOMAIN DataRequestImage /\ DataRequestImage[v] = PutDataRequest(v)
    BY DEF DataRequestImage
  <2>3. Payload("REQUEST", v) = <<1>> \o PutDataRequest(v)
    BY <2>1 DEF Payload, EncodePayload
  <2>4. PayloadSize([kind |-> "REQUEST", body |-> v]) =
           1 + (Width.id16 + Width.u64 + Width.u64 + Width.u64
                  + (1 + Len(v.selections) * (Width.id + Width.u64 + Width.u64)))
    BY <2>1 DEF PayloadSize
  <2> QED
    BY <2>2, <2>3, <2>4, DataRequestFields
<1>3. /\ <<0>> \in Seq(Octet) /\ Len(<<0>>) = 1
      /\ <<1>> \in Seq(Octet) /\ Len(<<1>>) = 1
  BY DEF Octet
<1>4. DOMAIN RequestImage = FitRequest
      /\ \A v \in FitRequest : RequestImage[v] = Payload("REQUEST", v)
  BY DEF RequestImage
<1>5. ASSUME NEW v \in FitRequest
      PROVE  Writes(RequestImage, v, Payload("REQUEST", v),
                    PayloadSize([kind |-> "REQUEST", body |-> v]))
  <2>1. CASE v \in PageRequest
    <3>1. /\ PageImage[v] \in Seq(Octet)
          /\ Payload("REQUEST", v) = <<0>> \o PageImage[v]
          /\ PayloadSize([kind |-> "REQUEST", body |-> v]) = 1 + Len(PageImage[v])
      BY <1>1, <2>1
    <3>2. <<0>> \o PageImage[v] \in Seq(Octet) /\ Len(<<0>> \o PageImage[v]) = 1 + Len(PageImage[v])
      BY <1>3, <3>1, Concat
    <3>3. v \in DOMAIN RequestImage /\ RequestImage[v] = Payload("REQUEST", v)
      BY <1>4
    <3> QED
      BY <3>1, <3>2, <3>3 DEF Writes
  <2>2. CASE v \in FitDataRequest
    <3>1. /\ DataRequestImage[v] \in Seq(Octet)
          /\ Payload("REQUEST", v) = <<1>> \o DataRequestImage[v]
          /\ PayloadSize([kind |-> "REQUEST", body |-> v]) = 1 + Len(DataRequestImage[v])
      BY <1>2, <2>2
    <3>2. <<1>> \o DataRequestImage[v] \in Seq(Octet) /\ Len(<<1>> \o DataRequestImage[v]) = 1 + Len(DataRequestImage[v])
      BY <1>3, <3>1, Concat
    <3>3. v \in DOMAIN RequestImage /\ RequestImage[v] = Payload("REQUEST", v)
      BY <1>4
    <3> QED
      BY <3>1, <3>2, <3>3 DEF Writes
  <2> QED
    BY <2>1, <2>2 DEF FitRequest
<1>6. Chosen(2, <<PageImage, DataRequestImage>>, RequestImage)
  <2>1. DOMAIN PageImage = PageRequest /\ DOMAIN DataRequestImage = FitDataRequest
    BY DEF PageImage, DataRequestImage
  <2>2. \A v \in PageRequest : v \in DOMAIN RequestImage /\ RequestImage[v] = <<0>> \o PageImage[v]
    BY <1>1, <1>4 DEF FitRequest
  <2>3. \A v \in FitDataRequest :
           v \in DOMAIN RequestImage /\ RequestImage[v] = <<1>> \o DataRequestImage[v]
    BY <1>2, <1>4 DEF FitRequest
  <2>4. \A v \in DOMAIN RequestImage : v \in PageRequest \/ v \in FitDataRequest
    BY <1>4 DEF FitRequest
  <2>5. /\ <<PageImage, DataRequestImage>>[1] = PageImage
        /\ <<PageImage, DataRequestImage>>[2] = DataRequestImage
    OBVIOUS
  <2>6. 1 .. 2 = {1, 2} /\ 1 - 1 = 0 /\ 2 - 1 = 1
    OBVIOUS
  <2> QED
    BY <2>1, <2>2, <2>3, <2>4, <2>5, <2>6 DEF Chosen
<1> QED
  BY <1>4, <1>5, <1>6

LEMMA ReadsRequest ==
    ASSUME NEW w \in Seq(Octet)
    PROVE  Reads(w, TakeChoice(w, <<TakePageRequest(w), TakeDataRequest(w)>>), RequestImage)
<1> DEFINE readers == <<TakePageRequest(w), TakeDataRequest(w)>>
           puts == <<PageImage, DataRequestImage>>
<1>1. Reads(w, readers[1], puts[1])
  BY ReadsPage
<1>2. Reads(w, readers[2], puts[2])
  BY ReadsDataRequest
<1>3. Len(readers) = 2 /\ 2 \in 1 .. 256
  OBVIOUS
<1>4. Chosen(2, puts, RequestImage)
  BY RequestFacts
<1> HIDE DEF readers, puts
<1>5. AllRead(w, 2, readers, puts)
  BY <1>1, <1>2 DEF AllRead
<1>6. Reads(w, TakeChoice(w, readers), RequestImage)
  BY <1>3, <1>4, <1>5, ReadsChoice
<1> QED
  BY <1>6 DEF readers

\* By tag: what fits, and its image.
Tags == 1 .. 7

FitBodies ==
    <<FitCapabilities, Summary, FitOffer, FitRequest, FitData, FitReceipt, FitFailure>>

BodyImages ==
    << CapabilitiesImage, SummaryImage, OfferImage, RequestImage, DataImage, ReceiptImage,
       FailureImage >>

\* What is written of an operation is as long as payload_size says.
BodyWritten(tag) ==
    /\ DOMAIN BodyImages[tag] = FitBodies[tag]
    /\ \A v \in FitBodies[tag] :
          Writes(BodyImages[tag], v, Payload(Kinds[tag], v),
                 PayloadSize([kind |-> Kinds[tag], body |-> v]))

LEMMA BodyWrites == \A tag \in Tags : BodyWritten(tag)
<1>1. BodyWritten(1)
  <2>1. DOMAIN CapabilitiesImage = FitCapabilities
        /\ \A v \in FitCapabilities : CapabilitiesImage[v] = Payload("CAPABILITIES", v)
    BY DEF CapabilitiesImage
  <2>2. ASSUME NEW v \in FitCapabilities
        PROVE  PayloadSize([kind |-> "CAPABILITIES", body |-> v]) =
                 (1 + Len(v.protocol_generations) * (Width.u16 + Width.u16)) +
                 (1 + Len(v.schema_fingerprints) * Width.id) +
                 (1 + Len(v.codec_preferences) * (Width.u32 + Width.u32 + Width.id)) +
                 Width.u32 + Width.u64 + 1 + 1 + (1 + Len(v.extensions) * (Width.u32 + 1))
    BY DEF PayloadSize
  <2>3. \A v \in FitCapabilities :
           Writes(CapabilitiesImage, v, Payload("CAPABILITIES", v),
                  PayloadSize([kind |-> "CAPABILITIES", body |-> v]))
    BY <2>1, <2>2, CapabilitiesFields DEF Writes
  <2> QED
    BY <2>1, <2>3 DEF BodyWritten, BodyImages, FitBodies, Kinds
<1>2. BodyWritten(2)
  <2>1. DOMAIN SummaryImage = Summary
        /\ \A v \in Summary : SummaryImage[v] = Payload("SUMMARY", v)
    BY DEF SummaryImage
  <2>2. ASSUME NEW v \in Summary
        PROVE  PayloadSize([kind |-> "SUMMARY", body |-> v]) =
                  Width.id + Width.u64 + Width.u64 + Width.id
    BY DEF PayloadSize
  <2>3. \A v \in Summary :
           Writes(SummaryImage, v, Payload("SUMMARY", v),
                  PayloadSize([kind |-> "SUMMARY", body |-> v]))
    BY <2>1, <2>2, SummaryFields DEF Writes
  <2> QED
    BY <2>1, <2>3 DEF BodyWritten, BodyImages, FitBodies, Kinds
<1>3. BodyWritten(3)
  <2>1. DOMAIN OfferImage = FitOffer
        /\ \A v \in FitOffer : OfferImage[v] = Payload("OFFER", v)
    BY DEF OfferImage
  <2>2. ASSUME NEW v \in FitOffer
        PROVE  PayloadSize([kind |-> "OFFER", body |-> v]) =
                  Width.id + 1 + Width.u64 + Width.u64 + CursorSize(v.first_cursor) +
                  CursorSize(v.last_cursor) + (1 + SumOver(DescriptorSize, v.descriptors)) + 1
    BY DEF PayloadSize
  <2>3. \A v \in FitOffer :
           Writes(OfferImage, v, Payload("OFFER", v),
                  PayloadSize([kind |-> "OFFER", body |-> v]))
    BY <2>1, <2>2, OfferFields DEF Writes
  <2> QED
    BY <2>1, <2>3 DEF BodyWritten, BodyImages, FitBodies, Kinds
<1>4. BodyWritten(4)
  BY RequestFacts DEF BodyWritten, BodyImages, FitBodies, Kinds
<1>5. BodyWritten(5)
  <2>1. DOMAIN DataImage = FitData
        /\ \A v \in FitData : DataImage[v] = Payload("DATA", v)
    BY DEF DataImage
  <2>2. ASSUME NEW v \in FitData
        PROVE  PayloadSize([kind |-> "DATA", body |-> v]) =
                  Width.id + Width.u64 + (Width.u32 + Len(v.payload))
    BY DEF PayloadSize
  <2>3. \A v \in FitData :
           Writes(DataImage, v, Payload("DATA", v), PayloadSize([kind |-> "DATA", body |-> v]))
    BY <2>1, <2>2, DataFields DEF Writes
  <2> QED
    BY <2>1, <2>3 DEF BodyWritten, BodyImages, FitBodies, Kinds
<1>6. BodyWritten(6)
  <2>1. DOMAIN ReceiptImage = FitReceipt
        /\ \A v \in FitReceipt : ReceiptImage[v] = Payload("RECEIPT", v)
    BY DEF ReceiptImage
  <2>2. ASSUME NEW v \in FitReceipt
        PROVE  PayloadSize([kind |-> "RECEIPT", body |-> v]) =
                  Width.id + 1 + (1 + Len(v.verified_digest) * Width.id) + Width.id16 +
                  TextSize(v.reason)
    BY DEF PayloadSize
  <2>3. \A v \in FitReceipt :
           Writes(ReceiptImage, v, Payload("RECEIPT", v),
                  PayloadSize([kind |-> "RECEIPT", body |-> v]))
    BY <2>1, <2>2, ReceiptFields DEF Writes
  <2> QED
    BY <2>1, <2>3 DEF BodyWritten, BodyImages, FitBodies, Kinds
<1>7. BodyWritten(7)
  <2>1. DOMAIN FailureImage = FitFailure
        /\ \A v \in FitFailure : FailureImage[v] = Payload("FAILURE", v)
    BY DEF FailureImage
  <2>2. ASSUME NEW v \in FitFailure
        PROVE  PayloadSize([kind |-> "FAILURE", body |-> v]) =
                  1 + (1 + Len(v.scope)) + 1 + TextSize(v.detail)
    BY DEF PayloadSize
  <2>3. \A v \in FitFailure :
           Writes(FailureImage, v, Payload("FAILURE", v),
                  PayloadSize([kind |-> "FAILURE", body |-> v]))
    BY <2>1, <2>2, FailureFields DEF Writes
  <2> QED
    BY <2>1, <2>3 DEF BodyWritten, BodyImages, FitBodies, Kinds
<1>8. \A tag \in Tags : \/ tag = 1 \/ tag = 2 \/ tag = 3 \/ tag = 4
                        \/ tag = 5 \/ tag = 6 \/ tag = 7
  BY DEF Tags
<1> QED
  BY <1>1, <1>2, <1>3, <1>4, <1>5, <1>6, <1>7, <1>8

LEMMA ReadsPayload ==
    ASSUME NEW w \in Seq(Octet), NEW tag \in Tags
    PROVE  Reads(w, TakePayload(w)[tag], BodyImages[tag])
<1>1. Reads(w, TakePayload(w)[1], BodyImages[1])
  BY ReadsCapabilities DEF TakePayload, BodyImages
<1>2. Reads(w, TakePayload(w)[2], BodyImages[2])
  BY ReadsSummary DEF TakePayload, BodyImages
<1>3. Reads(w, TakePayload(w)[3], BodyImages[3])
  BY ReadsOffer DEF TakePayload, BodyImages
<1>4. Reads(w, TakePayload(w)[4], BodyImages[4])
  BY ReadsRequest DEF TakePayload, BodyImages
<1>5. Reads(w, TakePayload(w)[5], BodyImages[5])
  BY ReadsData DEF TakePayload, BodyImages
<1>6. Reads(w, TakePayload(w)[6], BodyImages[6])
  BY ReadsReceipt DEF TakePayload, BodyImages
<1>7. Reads(w, TakePayload(w)[7], BodyImages[7])
  BY ReadsFailure DEF TakePayload, BodyImages
<1>8. \/ tag = 1 \/ tag = 2 \/ tag = 3 \/ tag = 4 \/ tag = 5 \/ tag = 6 \/ tag = 7
  BY DEF Tags
<1> QED
  BY <1>1, <1>2, <1>3, <1>4, <1>5, <1>6, <1>7, <1>8
---------------------------------------------------------------------------
(* What validation lets through fits the fields.                           *)

Valid(kind, v) == ValidOperation([kind |-> kind, body |-> v])

LEMMA ValidCases ==
    ASSUME NEW v
    PROVE  /\ Valid("CAPABILITIES", v) <=> ValidCapabilities(v)
           /\ Valid("SUMMARY", v) <=>
                 v.item_count <= MaxCollectionEntries /\ v.item_count <= v.generation
           /\ Valid("OFFER", v) <=> ValidOffer(v)
           /\ Valid("REQUEST", v) <=>
                 IF "mode" \in DOMAIN v THEN ValidPageRequest(v) ELSE ValidDataRequest(v)
           /\ Valid("DATA", v) <=>
                 v.payload # << >> /\ v.offset + Len(v.payload) <= MaxRepresentationOctets
           /\ Valid("RECEIPT", v) <=>
                 /\ ValidText(v.reason, MaxFailureDetailOctets)
                 /\ v.status = "RepresentationCommitted" => v.verified_digest # << >>
           /\ Valid("FAILURE", v) <=>
                 Len(v.scope) <= MaxFailureScopeOctets /\ ValidText(v.detail, MaxFailureDetailOctets)
<1>1. Valid("CAPABILITIES", v) <=> ValidCapabilities(v)
  BY DEF Valid, ValidOperation
<1>2. Valid("SUMMARY", v) <=>
         v.item_count <= MaxCollectionEntries /\ v.item_count <= v.generation
  BY DEF Valid, ValidOperation
<1>3. Valid("OFFER", v) <=> ValidOffer(v)
  BY DEF Valid, ValidOperation
<1>4. Valid("REQUEST", v) <=>
         IF "mode" \in DOMAIN v THEN ValidPageRequest(v) ELSE ValidDataRequest(v)
  BY DEF Valid, ValidOperation
<1>5. Valid("DATA", v) <=>
         v.payload # << >> /\ v.offset + Len(v.payload) <= MaxRepresentationOctets
  BY DEF Valid, ValidOperation
<1>6. Valid("RECEIPT", v) <=>
         /\ ValidText(v.reason, MaxFailureDetailOctets)
         /\ v.status = "RepresentationCommitted" => v.verified_digest # << >>
  BY DEF Valid, ValidOperation
<1>7. Valid("FAILURE", v) <=>
         Len(v.scope) <= MaxFailureScopeOctets /\ ValidText(v.detail, MaxFailureDetailOctets)
  BY DEF Valid, ValidOperation
<1> QED
  BY <1>1, <1>2, <1>3, <1>4, <1>5, <1>6, <1>7

LEMMA DetailBound == MaxFailureDetailOctets \in Nat
BY BoundsAssumption, WidthFacts, NumbersAreNaturals DEF U16

LEMMA ValidTexts ==
    ASSUME NEW maximum \in Nat, NEW text \in Option(Seq(Octet)), ValidText(text, maximum)
    PROVE  text \in Texts(maximum)
<1>1. \A i \in DOMAIN text : text[i] \in ToSet(text)
  BY DEF ToSet
<1> QED
  BY <1>1 DEF Texts, ValidText

LEMMA ValidEntriesFit ==
    ASSUME NEW e \in CollectionEntry, ValidEntry(e)
    PROVE  e \in FitEntry
<1>1. e.codec_parameters \in Lists(Octet, MaxCodecParameterOctets)
  BY DEF CollectionEntry, ValidEntry, Lists
<1> QED
  BY <1>1 DEF CollectionEntry, FitEntry

LEMMA ValidBodiesFit ==
    ASSUME NEW tag \in Tags, NEW v \in Bodies[tag], Valid(Kinds[tag], v),
           tag = 5 => Len(v.payload) <= MaxRecordOctets
    PROVE  v \in FitBodies[tag]
<1>1. CASE tag = 1
  <2>1. v \in WireCapabilities /\ ValidCapabilities(v)
    BY <1>1, ValidCases DEF Bodies, Kinds
  <2>2. /\ Len(v.protocol_generations) <= MaxCapabilityProtocols
        /\ Len(v.schema_fingerprints) <= MaxCapabilitySchemas
        /\ Len(v.codec_preferences) <= MaxCapabilityCodecs
        /\ Len(v.extensions) <= MaxExtensions
    BY <2>1, LimitsAssumption DEF ValidCapabilities, NonemptyUnique
  <2>3. /\ v.protocol_generations \in Lists(WireGeneration, MaxCapabilityProtocols)
        /\ v.schema_fingerprints \in Lists(Id, MaxCapabilitySchemas)
        /\ v.codec_preferences \in Lists(WirePreference, MaxCapabilityCodecs)
        /\ v.extensions \in Lists(WireDeclaration, MaxExtensions)
    BY <2>1, <2>2 DEF WireCapabilities, Lists
  <2>4. v \in FitCapabilities
    BY <2>1, <2>3 DEF WireCapabilities, FitCapabilities
  <2> QED
    BY <1>1, <2>4 DEF FitBodies
<1>2. CASE tag = 2
  BY <1>2 DEF Bodies, FitBodies
<1>3. CASE tag = 3
  <2>1. v \in Offer /\ ValidOffer(v)
    BY <1>3, ValidCases DEF Bodies, Kinds
  <2>2. /\ Len(v.descriptors) <= MaxOfferDescriptors
        /\ \A i \in DOMAIN v.descriptors : ValidEntry(v.descriptors[i])
    BY <2>1, BoundsAssumption DEF ValidOffer, Octet
  <2>3. /\ v.descriptors \in Seq(CollectionEntry)
        /\ DOMAIN v.descriptors = 1 .. Len(v.descriptors) /\ Len(v.descriptors) \in Nat
    BY <2>1 DEF Offer
  <2>4. \A i \in DOMAIN v.descriptors : v.descriptors[i] \in FitEntry
    BY <2>2, <2>3, ValidEntriesFit
  <2>5. v.descriptors \in Seq(FitEntry)
    <3>1. v.descriptors = [i \in 1 .. Len(v.descriptors) |-> v.descriptors[i]]
      BY <2>3
    <3> QED
      BY <2>3, <2>4, <3>1
  <2>6. v.descriptors \in Lists(FitEntry, MaxOfferDescriptors)
    BY <2>2, <2>5 DEF Lists
  <2>7. v \in FitOffer
    BY <2>1, <2>6 DEF Offer, FitOffer
  <2> QED
    BY <1>3, <2>7 DEF FitBodies
<1>4. CASE tag = 4
  <2>1. v \in PageRequest \cup DataRequest
    BY <1>4 DEF Bodies
  <2>2. CASE v \in PageRequest
    BY <1>4, <2>2 DEF FitBodies, FitRequest
  <2>3. CASE v \in DataRequest
    <3>1. "mode" \notin DOMAIN v
      BY <2>3 DEF DataRequest
    <3>2. ValidDataRequest(v)
      BY <1>4, <3>1, ValidCases DEF Kinds
    <3>3. v.selections \in Lists(Selection, MaxRequestSelections)
      BY <2>3, <3>2, BoundsAssumption DEF ValidDataRequest, DataRequest, Lists, Octet
    <3>4. v \in FitDataRequest
      BY <2>3, <3>3 DEF DataRequest, FitDataRequest
    <3> QED
      BY <1>4, <3>4 DEF FitBodies, FitRequest
  <2> QED
    BY <2>1, <2>2, <2>3
<1>5. CASE tag = 5
  <2>1. v \in Data
    BY <1>5 DEF Bodies
  <2>2. v.payload \in Lists(Octet, MaxRecordOctets)
    BY <1>5, <2>1 DEF Data, Lists
  <2>3. v \in FitData
    BY <2>1, <2>2 DEF Data, FitData
  <2> QED
    BY <1>5, <2>3 DEF FitBodies
<1>6. CASE tag = 6
  <2>1. v \in Receipt /\ ValidText(v.reason, MaxFailureDetailOctets)
    BY <1>6, ValidCases DEF Bodies, Kinds
  <2>2. v.reason \in Option(Seq(Octet))
    BY <2>1 DEF Receipt
  <2>3. v.reason \in Texts(MaxFailureDetailOctets)
    BY <2>1, <2>2, DetailBound, ValidTexts
  <2>4. v \in FitReceipt
    BY <2>1, <2>3 DEF Receipt, FitReceipt
  <2> QED
    BY <1>6, <2>4 DEF FitBodies
<1>7. CASE tag = 7
  <2>1. /\ v \in Failure /\ Len(v.scope) <= MaxFailureScopeOctets
        /\ ValidText(v.detail, MaxFailureDetailOctets)
    BY <1>7, ValidCases DEF Bodies, Kinds
  <2>2. v.detail \in Option(Seq(Octet)) /\ v.scope \in Lists(Octet, MaxFailureScopeOctets)
    BY <2>1 DEF Failure, Lists
  <2>3. v.detail \in Texts(MaxFailureDetailOctets)
    BY <2>1, <2>2, DetailBound, ValidTexts
  <2>4. v \in FitFailure
    BY <2>1, <2>2, <2>3 DEF Failure, FitFailure
  <2> QED
    BY <1>7, <2>4 DEF FitBodies
<1>8. \/ tag = 1 \/ tag = 2 \/ tag = 3 \/ tag = 4 \/ tag = 5 \/ tag = 6 \/ tag = 7
  BY DEF Tags
<1> QED
  BY <1>1, <1>2, <1>3, <1>4, <1>5, <1>6, <1>7, <1>8

LEMMA FitBodiesAreBodies ==
    ASSUME NEW tag \in Tags, NEW v \in FitBodies[tag]
    PROVE  v \in Bodies[tag]
<1>1. CASE tag = 1
  <2>1. v \in FitCapabilities
    BY <1>1 DEF FitBodies
  <2>2. v \in WireCapabilities
    BY <2>1 DEF FitCapabilities, WireCapabilities, Lists
  <2> QED
    BY <1>1, <2>2 DEF Bodies
<1>2. CASE tag = 2
  BY <1>2 DEF Bodies, FitBodies
<1>3. CASE tag = 3
  <2>1. v \in FitOffer
    BY <1>3 DEF FitBodies
  <2>2. \A e \in FitEntry : e \in CollectionEntry
    BY DEF FitEntry, CollectionEntry, Lists
  <2>3. v.descriptors \in Seq(CollectionEntry)
    <3>1. v.descriptors \in Seq(FitEntry)
      BY <2>1 DEF FitOffer, Lists
    <3>2. FitEntry \subseteq CollectionEntry
      BY <2>2
    <3> HIDE DEF FitEntry
    <3> QED
      BY <3>1, <3>2
  <2>4. v \in Offer
    BY <2>1, <2>3 DEF FitOffer, Offer
  <2> QED
    BY <1>3, <2>4 DEF Bodies
<1>4. CASE tag = 4
  <2>1. v \in PageRequest \cup FitDataRequest
    BY <1>4 DEF FitBodies, FitRequest
  <2>2. v \in PageRequest \cup DataRequest
    BY <2>1 DEF FitDataRequest, DataRequest, Lists
  <2> QED
    BY <1>4, <2>2 DEF Bodies
<1>5. CASE tag = 5
  <2>1. v \in FitData
    BY <1>5 DEF FitBodies
  <2>2. v \in Data
    BY <2>1 DEF FitData, Data, Lists
  <2> QED
    BY <1>5, <2>2 DEF Bodies
<1>6. CASE tag = 6
  <2>1. v \in FitReceipt
    BY <1>6 DEF FitBodies
  <2>2. v \in Receipt
    BY <2>1 DEF FitReceipt, Receipt, Texts
  <2> QED
    BY <1>6, <2>2 DEF Bodies
<1>7. CASE tag = 7
  <2>1. v \in FitFailure
    BY <1>7 DEF FitBodies
  <2>2. v \in Failure
    BY <2>1 DEF FitFailure, Failure, Texts, Lists
  <2> QED
    BY <1>7, <2>2 DEF Bodies
<1>8. \/ tag = 1 \/ tag = 2 \/ tag = 3 \/ tag = 4 \/ tag = 5 \/ tag = 6 \/ tag = 7
  BY DEF Tags
<1> QED
  BY <1>1, <1>2, <1>3, <1>4, <1>5, <1>6, <1>7, <1>8

---------------------------------------------------------------------------
(* A record is its envelope, its payload and its extensions.               *)

LEMMA TagFacts ==
    /\ DOMAIN Kinds = Tags
    /\ \A tag \in Tags : Tag(Kinds[tag]) = tag
<1>1. DOMAIN Kinds = Tags
  BY DEF Kinds, Tags
<1>2. \A i, j \in Tags : Kinds[i] = Kinds[j] => i = j
  BY DEF Kinds, Tags
<1>3. ASSUME NEW tag \in Tags
      PROVE  Tag(Kinds[tag]) = tag
  <2>1. \E i \in Tags : Kinds[i] = Kinds[tag]
    OBVIOUS
  <2>2. Tag(Kinds[tag]) = CHOOSE i \in Tags : Kinds[i] = Kinds[tag]
    BY <1>1 DEF Tag
  <2>3. Tag(Kinds[tag]) \in Tags /\ Kinds[Tag(Kinds[tag])] = Kinds[tag]
    BY <2>1, <2>2
  <2> QED
    BY <1>2, <2>3
<1> QED
  BY <1>1, <1>3

RecordOf(tag, v, x) == [operation |-> [kind |-> Kinds[tag], body |-> v], extensions |-> x]
FitExtensions == Lists(FitExtension, MaxExtensions)
Frame(tag, n) == MAGIC \o <<tag>> \o PutU32(n)
SizeOf(tag, v, x) == EnvelopeOctets + Len(BodyImages[tag][v]) + Len(ExtensionList[x])

\* The octets of a record that fits, and that exact_encoded_size counts them.
LEMMA EncodeFacts ==
    ASSUME NEW tag \in Tags, NEW v \in FitBodies[tag], NEW x \in FitExtensions
    PROVE  /\ v \in DOMAIN BodyImages[tag] /\ BodyImages[tag][v] \in Seq(Octet)
           /\ x \in DOMAIN ExtensionList /\ ExtensionList[x] \in Seq(Octet)
           /\ ExactEncodedSize(RecordOf(tag, v, x)) = SizeOf(tag, v, x)
           /\ SizeOf(tag, v, x) \in Nat
           /\ Encode(RecordOf(tag, v, x)) =
                 Frame(tag, SizeOf(tag, v, x) - EnvelopeOctets)
                   \o BodyImages[tag][v] \o ExtensionList[x]
           /\ SizeOf(tag, v, x) <= MaxRecordOctets =>
                 /\ Encode(RecordOf(tag, v, x)) \in Seq(Octet)
                 /\ Len(Encode(RecordOf(tag, v, x))) = SizeOf(tag, v, x)
                 /\ SizeOf(tag, v, x) - EnvelopeOctets \in U32
                 /\ Frame(tag, SizeOf(tag, v, x) - EnvelopeOctets) \in Seq(Octet)
                 /\ Len(Frame(tag, SizeOf(tag, v, x) - EnvelopeOctets)) = EnvelopeOctets
<1> DEFINE r == RecordOf(tag, v, x)
           body == BodyImages[tag][v]
           ext == ExtensionList[x]
           size == SizeOf(tag, v, x)
           rest == size - EnvelopeOctets
<1>1. /\ r.operation = [kind |-> Kinds[tag], body |-> v] /\ r.extensions = x
      /\ r.operation.kind = Kinds[tag]
  BY DEF RecordOf
<1>2. Writes(BodyImages[tag], v, Payload(Kinds[tag], v),
             PayloadSize([kind |-> Kinds[tag], body |-> v]))
  BY BodyWrites DEF BodyWritten
<1>3. /\ v \in DOMAIN BodyImages[tag] /\ body \in Seq(Octet)
      /\ body = EncodePayload(r.operation) /\ Len(body) = PayloadSize(r.operation)
  BY <1>1, <1>2 DEF Writes, Payload
<1>4. Writes(ExtensionList, x, PutList(PutExtension, x), (1 + SumOver(ExtensionSize, x)))
  BY FieldLists DEF FitExtensions
<1>5. /\ x \in DOMAIN ExtensionList /\ ext \in Seq(Octet)
      /\ ext = PutList(PutExtension, r.extensions) /\ Len(ext) = ExtensionsSize(r.extensions)
  BY <1>1, <1>4 DEF Writes, ExtensionsSize
<1>6. Tag(r.operation.kind) = tag
  BY <1>1, TagFacts
<1>7. ExactEncodedSize(r) = EnvelopeOctets + PayloadSize(r.operation) + ExtensionsSize(r.extensions)
  BY DEF ExactEncodedSize
<1>8. ExactEncodedSize(r) = size
  BY <1>3, <1>5, <1>7 DEF SizeOf
<1>9. Encode(r) = MAGIC \o <<Tag(r.operation.kind)>> \o PutU32(ExactEncodedSize(r) - EnvelopeOctets)
                    \o EncodePayload(r.operation) \o PutList(PutExtension, r.extensions)
  BY DEF Encode
<1>10. Encode(r) = Frame(tag, rest) \o body \o ext
  BY <1>3, <1>5, <1>6, <1>8, <1>9 DEF Frame
<1>11. EnvelopeOctets \in Nat /\ EnvelopeOctets = 3 + Width.u32 /\ Width.u32 \in Nat
  BY WidthFacts DEF EnvelopeOctets
<1>12. Len(body) \in Nat /\ Len(ext) \in Nat
  BY <1>3, <1>5
<1>13. /\ size \in Nat /\ size = EnvelopeOctets + Len(body) + Len(ext)
       /\ rest \in Nat /\ rest = Len(body) + Len(ext)
  <2>1. size = EnvelopeOctets + Len(body) + Len(ext)
    BY DEF SizeOf
  <2>2. PICK u \in Nat, b \in Nat, e \in Nat :
           u = EnvelopeOctets /\ b = Len(body) /\ e = Len(ext)
    BY <1>11, <1>12
  <2>3. size = u + b + e
    BY <2>1, <2>2
  <2> HIDE DEF size
  <2>4. size \in Nat /\ size - u \in Nat /\ size - u = b + e
    BY <2>3
  <2> QED
    BY <2>2, <2>3, <2>4
<1>14. ASSUME size <= MaxRecordOctets
       PROVE  /\ rest \in U32
              /\ Frame(tag, rest) \in Seq(Octet) /\ Len(Frame(tag, rest)) = EnvelopeOctets
              /\ Encode(r) \in Seq(Octet) /\ Len(Encode(r)) = size
  <2>1. MaxRecordOctets \in U32 /\ U32 \subseteq Nat
    BY BoundsAssumption, WidthFacts, NumbersAreNaturals DEF U32
  <2>2. rest <= MaxRecordOctets
    <3>1. PICK m \in Nat : m = MaxRecordOctets
      BY <2>1
    <3>2. PICK u \in Nat, n \in Nat, z \in Nat : u = EnvelopeOctets /\ n = rest /\ z = size
      BY <1>11, <1>13
    <3>3. n = z - u /\ z <= m
      BY <1>14, <3>1, <3>2
    <3>4. n <= m
      BY <3>3
    <3> QED
      BY <3>1, <3>2, <3>4
  <2>3. rest \in U32
    <3> HIDE DEF rest
    <3> QED
      BY <1>13, <2>1, <2>2, WidthFacts, NumbersAreNaturals DEF U32
  <2>4. PutU32(rest) \in Seq(Octet) /\ Len(PutU32(rest)) = Width.u32
    BY <2>3, PutWidths
  <2>5. MAGIC \in Seq(Octet) /\ Len(MAGIC) = 2 /\ <<tag>> \in Seq(Octet) /\ Len(<<tag>>) = 1
    BY DEF MAGIC, Octet, Tags
  <2>6. Frame(tag, rest) \in Seq(Octet) /\ Len(Frame(tag, rest)) = EnvelopeOctets
    <3> HIDE DEF rest
    <3>1. MAGIC \o <<tag>> \in Seq(Octet) /\ Len(MAGIC \o <<tag>>) = 3
      <4> DEFINE t == <<tag>>
      <4>1. t \in Seq(Octet) /\ Len(t) = 1
        BY <2>5
      <4> HIDE DEF t
      <4>2. MAGIC \o t \in Seq(Octet) /\ Len(MAGIC \o t) = Len(MAGIC) + Len(t)
        BY <2>5, <4>1, Concat
      <4>3. MAGIC \o t \in Seq(Octet) /\ Len(MAGIC \o t) = 3
        BY <2>5, <4>1, <4>2
      <4> QED
        BY <4>3 DEF t
    <3> DEFINE front == MAGIC \o <<tag>>
               number == PutU32(rest)
    <3>2. Frame(tag, rest) = front \o number
      BY DEF Frame
    <3>3. front \in Seq(Octet) /\ Len(front) = 3 /\ number \in Seq(Octet) /\ Len(number) = Width.u32
      BY <2>4, <3>1
    <3> HIDE DEF front, number
    <3> QED
      BY <1>11, <3>2, <3>3, Concat
  <2>7. Encode(r) \in Seq(Octet) /\ Len(Encode(r)) = size
    <3> DEFINE front == Frame(tag, rest)
    <3>1. front \in Seq(Octet) /\ Len(front) = EnvelopeOctets
      BY <2>6
    <3>2. Encode(r) = (front \o body) \o ext
      BY <1>10
    <3>3. body \in Seq(Octet) /\ ext \in Seq(Octet)
      BY <1>3, <1>5
    <3> HIDE DEF front, body, ext, r, size
    <3>4. front \o body \in Seq(Octet) /\ Len(front \o body) = EnvelopeOctets + Len(body)
      BY <3>1, <3>3, Concat
    <3>5. Encode(r) \in Seq(Octet) /\ Len(Encode(r)) = Len(front \o body) + Len(ext)
      BY <3>2, <3>3, <3>4, Concat
    <3> QED
      BY <1>11, <1>12, <1>13, <3>4, <3>5
  <2> QED
    BY <2>3, <2>6, <2>7
<1> QED
  BY <1>3, <1>5, <1>8, <1>10, <1>13, <1>14

\* Every record the encoder accepts is one that fits.
LEMMA EncodableFits ==
    ASSUME NEW r, IsRecord(r), Encodable(r)
    PROVE  \E tag \in Tags : \E v \in FitBodies[tag] : \E x \in FitExtensions :
              /\ r = RecordOf(tag, v, x) /\ Valid(Kinds[tag], v) /\ ValidExtensions(x)
              /\ v \in Bodies[tag]
              /\ SizeOf(tag, v, x) <= MaxRecordOctets
<1> DEFINE v == r.operation.body
           x == r.extensions
<1>1. PICK tag \in Tags : r.operation.kind = Kinds[tag] /\ v \in Bodies[tag]
  BY TagFacts DEF IsRecord
<1>2. r = RecordOf(tag, v, x) /\ r.operation = [kind |-> Kinds[tag], body |-> v]
  BY <1>1 DEF IsRecord, RecordOf
<1>3. Valid(Kinds[tag], v) /\ ValidExtensions(x) /\ ExactEncodedSize(r) <= MaxRecordOctets
  BY <1>2 DEF Encodable, Valid
<1>4. x \in FitExtensions
  <2>1. /\ x \in Seq(Extension) /\ Len(x) <= MaxExtensions
        /\ \A i \in DOMAIN x : Len(x[i].value) <= MaxExtensionValueOctets
    BY <1>3 DEF IsRecord, ValidExtensions
  <2> HIDE DEF x
  <2>2. \A i \in DOMAIN x : x[i] \in FitExtension
    <3> SUFFICES ASSUME NEW i \in DOMAIN x PROVE x[i] \in FitExtension
      OBVIOUS
    <3>1. x[i] \in Extension /\ Len(x[i].value) <= MaxExtensionValueOctets
      BY <2>1
    <3> QED
      BY <3>1 DEF Extension, FitExtension, Lists
  <2>3. x \in Seq(FitExtension)
    <3>1. x = [i \in 1 .. Len(x) |-> x[i]] /\ DOMAIN x = 1 .. Len(x) /\ Len(x) \in Nat
      BY <2>1
    <3> QED
      BY <2>2, <3>1
  <2> QED
    BY <2>1, <2>3 DEF FitExtensions, Lists
<1>5. tag = 5 => Len(v.payload) <= MaxRecordOctets
  <2> SUFFICES ASSUME tag = 5 PROVE Len(v.payload) <= MaxRecordOctets
    OBVIOUS
  <2>1. v \in Data /\ Kinds[tag] = "DATA"
    BY <1>1 DEF Bodies, Kinds
  <2>2. PayloadSize(r.operation) = Width.id + Width.u64 + (Width.u32 + Len(v.payload))
    BY <1>2, <2>1 DEF PayloadSize
  <2>3. Writes(ExtensionList, x, PutList(PutExtension, x), (1 + SumOver(ExtensionSize, x)))
    BY <1>4, FieldLists DEF FitExtensions
  <2>4. ExtensionsSize(x) \in Nat
    <3> DEFINE image == PutList(PutExtension, x)
    <3>1. image \in Seq(Octet) /\ Len(image) = ExtensionsSize(x)
      BY <2>3 DEF Writes, ExtensionsSize
    <3> HIDE DEF image
    <3>2. Len(image) \in Nat
      BY <3>1
    <3> QED
      BY <3>1, <3>2
  <2>5. Len(v.payload) \in Nat
    BY <2>1 DEF Data
  <2>6. ExactEncodedSize(r) =
           (2 + 1 + Width.u32) + (Width.id + Width.u64 + (Width.u32 + Len(v.payload)))
             + ExtensionsSize(x)
    BY <2>2 DEF ExactEncodedSize, EnvelopeOctets
  <2>7. MaxRecordOctets \in Nat
    BY BoundsAssumption, WidthFacts, NumbersAreNaturals DEF U32
  <2>8. PICK p \in Nat, e \in Nat, m \in Nat :
           p = Len(v.payload) /\ e = ExtensionsSize(x) /\ m = MaxRecordOctets
    BY <2>4, <2>5, <2>7
  <2>9. PICK a \in Nat, b \in Nat, c \in Nat : a = Width.u32 /\ b = Width.id /\ c = Width.u64
    BY WidthFacts
  <2>10. (2 + 1 + a) + (b + c + (a + p)) + e <= m
    BY <1>3, <2>6, <2>8, <2>9
  <2>11. p <= m
    BY <2>10
  <2> QED
    BY <2>8, <2>11
<1>6. v \in FitBodies[tag]
  BY <1>1, <1>3, <1>5, ValidBodiesFit
<1>7. SizeOf(tag, v, x) <= MaxRecordOctets
  BY <1>2, <1>3, <1>4, <1>6, EncodeFacts
<1> QED
  BY <1>1, <1>2, <1>3, <1>4, <1>6, <1>7

---------------------------------------------------------------------------
(* The decoder inverts the encoder.                                        *)

\* Octets are an image if they hold it and no more.
LEMMA HoldsWhole ==
    ASSUME NEW w \in Seq(Octet), NEW image \in Seq(Octet)
    PROVE  w = image <=> Holds(w, 1, image) /\ Len(w) = Len(image)
<1>1. \A i \in 1 .. Len(image) : 1 + i - 1 = i
  OBVIOUS
<1>2. ASSUME Holds(w, 1, image), Len(w) = Len(image)
      PROVE  w = image
  <2>1. \A i \in 1 .. Len(image) : w[i] = image[i]
    BY <1>1, <1>2 DEF Holds
  <2> QED
    BY <1>2, <2>1
<1>3. Holds(image, 1, image)
  <2>1. Len(image) \in Nat /\ 1 + Len(image) <= Len(image) + 1
    OBVIOUS
  <2> QED
    BY <1>1, <2>1 DEF Holds
<1> QED
  BY <1>2, <1>3

\* Two readers, one after the other.
PairRead(w, got, at, first, second) ==
    /\ got # << >> =>
          \E a \in DOMAIN first : \E b \in DOMAIN second :
             /\ got = Got(<<a, b>>, at + Len(first[a]) + Len(second[b]))
             /\ Holds(w, at, first[a] \o second[b])
    /\ \A a \in DOMAIN first : \A b \in DOMAIN second :
          Holds(w, at, first[a] \o second[b]) =>
             got = Got(<<a, b>>, at + Len(first[a]) + Len(second[b]))

LEMMA ReadsPair ==
    ASSUME NEW w \in Seq(Octet), NEW First, NEW Second, NEW first, NEW second,
           Reads(w, First, first), Reads(w, Second, second), NEW at \in Places(w)
    PROVE  PairRead(w, TakeEach(<<First, Second>>)[at], at, first, second)
<1> DEFINE readers == <<First, Second>>
           puts == <<first, second>>
           got == TakeEach(readers)[at]
           put == EachPut(puts, 2)
<1>1. Len(readers) = 2 /\ readers[1] = First /\ readers[2] = Second
      /\ puts[1] = first /\ puts[2] = second /\ 1 .. 2 = {1, 2}
  OBVIOUS
<1>2. Images(first) /\ Images(second)
  BY DEF Reads
<1> HIDE DEF readers, puts
<1>3. AllRead(w, 2, readers, puts)
  BY <1>1 DEF AllRead
<1>4. Reads(w, TakeEach(readers), put)
  BY <1>1, <1>3, ReadsEach
<1>5. Sound(w, got, at, put) /\ Complete(w, got, at, put)
  BY <1>4 DEF Reads
<1>6. ASSUME NEW a \in DOMAIN first, NEW b \in DOMAIN second
      PROVE  /\ <<a, b>> \in DOMAIN put
             /\ put[<<a, b>>] = first[a] \o second[b]
             /\ Len(put[<<a, b>>]) = Len(first[a]) + Len(second[b])
  <2>1. <<a, b>> \in Tuples(puts, 2)
    BY <1>1 DEF Tuples
  <2>2. DOMAIN put = Tuples(puts, 2)
    BY DEF EachPut
  <2> DEFINE s == [i \in 1 .. 2 |-> puts[i][<<a, b>>[i]]]
  <2>3. put[<<a, b>>] = FlattenSeq(s)
    BY <2>1 DEF EachPut
  <2>4. s[1] = first[a] /\ s[2] = second[b]
    BY <1>1
  <2>5. s \in [1 .. 2 -> Seq(Octet)]
    BY <1>1, <1>2, <2>4 DEF Images
  <2> HIDE DEF s
  <2>6. FlattenSeq(s) = s[1] \o s[2] /\ Len(FlattenSeq(s)) = Len(s[1]) + Len(s[2])
    BY <2>5, Parts2
  <2> QED
    BY <2>1, <2>2, <2>3, <2>4, <2>6
<1>7. ASSUME NEW values \in DOMAIN put
      PROVE  \E a \in DOMAIN first : \E b \in DOMAIN second : values = <<a, b>>
  <2>1. values \in Tuples(puts, 2)
    BY DEF EachPut
  <2>2. values = <<values[1], values[2]>> /\ values[1] \in DOMAIN first /\ values[2] \in DOMAIN second
    BY <1>1, <2>1 DEF Tuples
  <2> QED
    BY <2>2
<1>8. \A a \in DOMAIN first : \A b \in DOMAIN second :
         Len(first[a]) \in Nat /\ Len(second[b]) \in Nat
  BY <1>2 DEF Images
<1>9. at \in Nat
  BY DEF Places
<1>10. \A a \in DOMAIN first : \A b \in DOMAIN second :
          at + Len(put[<<a, b>>]) = at + Len(first[a]) + Len(second[b])
  <2> SUFFICES ASSUME NEW a \in DOMAIN first, NEW b \in DOMAIN second
               PROVE  at + Len(put[<<a, b>>]) = at + Len(first[a]) + Len(second[b])
    OBVIOUS
  <2> HIDE DEF put
  <2>1. PICK p \in Nat, q \in Nat : p = Len(first[a]) /\ q = Len(second[b])
    BY <1>8
  <2>2. Len(put[<<a, b>>]) = p + q
    BY <1>6, <2>1
  <2>3. at + (p + q) = at + p + q
    BY <1>9
  <2> QED
    BY <2>1, <2>2, <2>3
<1> HIDE DEF got, put
<1>11. ASSUME got # << >>
       PROVE  \E a \in DOMAIN first : \E b \in DOMAIN second :
                 /\ got = Got(<<a, b>>, at + Len(first[a]) + Len(second[b]))
                 /\ Holds(w, at, first[a] \o second[b])
  <2>1. PICK values \in DOMAIN put :
           got = Got(values, at + Len(put[values])) /\ Holds(w, at, put[values])
    BY <1>5, <1>11 DEF Sound
  <2>2. PICK a \in DOMAIN first, b \in DOMAIN second : values = <<a, b>>
    BY <1>7
  <2> QED
    BY <1>6, <1>10, <2>1, <2>2
<1>12. \A a \in DOMAIN first : \A b \in DOMAIN second :
          Holds(w, at, first[a] \o second[b]) =>
             got = Got(<<a, b>>, at + Len(first[a]) + Len(second[b]))
  <2> SUFFICES ASSUME NEW a \in DOMAIN first, NEW b \in DOMAIN second,
                      Holds(w, at, first[a] \o second[b])
               PROVE  got = Got(<<a, b>>, at + Len(first[a]) + Len(second[b]))
    OBVIOUS
  <2>1. Holds(w, at, put[<<a, b>>])
    BY <1>6
  <2>2. got = Got(<<a, b>>, at + Len(put[<<a, b>>]))
    BY <1>5, <1>6, <2>1 DEF Complete
  <2> QED
    BY <1>10, <2>2
<1> QED
  BY <1>11, <1>12 DEF got, readers, PairRead

\* The envelope names the kind and the length that follows.
LEMMA EnvelopeFacts ==
    ASSUME NEW w \in Seq(Octet), NEW tag \in Tags, NEW n \in Nat,
           Len(w) = EnvelopeOctets + n, Len(w) <= MaxRecordOctets
    PROVE  /\ n \in U32
           /\ EnvelopeHolds(w) /\ w[3] = tag <=> Holds(w, 1, Frame(tag, n))
<1>1. PICK width \in Nat : width = Width.u32 /\ width >= 1
  BY WidthFacts
<1>2. EnvelopeOctets = 3 + width
  BY <1>1 DEF EnvelopeOctets
<1>3. PICK size \in Nat : size = Len(w)
  OBVIOUS
<1>4. size = 3 + width + n /\ size >= 4 /\ Len(w) - EnvelopeOctets = n /\ EnvelopeOctets + 1 = 4 + width
  BY <1>1, <1>2, <1>3
<1>5. MaxRecordOctets \in U32 /\ MaxRecordOctets \in Nat
  BY BoundsAssumption, WidthFacts, NumbersAreNaturals DEF U32
<1>6. n \in U32
  <2>1. PICK m \in Nat : m = MaxRecordOctets
    BY <1>5
  <2>2. n <= m
    BY <1>1, <1>3, <1>4, <2>1
  <2> QED
    BY <1>5, <2>1, <2>2, WidthFacts, NumbersAreNaturals DEF U32
<1>7. Len(w) \in EnvelopeOctets .. MaxRecordOctets
  <2>1. PICK m \in Nat : m = MaxRecordOctets
    BY <1>5
  <2>2. size >= 3 + width /\ size <= m
    BY <1>3, <1>4, <2>1
  <2> QED
    BY <1>2, <1>3, <2>1, <2>2
<1>8. w[3] \in DOMAIN Kinds <=> w[3] \in Tags
  BY TagFacts
<1> DEFINE magic == MAGIC
           t == <<tag>>
           number == PutU32(n)
           front == magic \o t
<1>9. magic \in Seq(Octet) /\ Len(magic) = 2 /\ magic = <<66, 49>>
      /\ magic[1] = 66 /\ magic[2] = 49
  BY DEF MAGIC, Octet
<1>10. t \in Seq(Octet) /\ Len(t) = 1 /\ t[1] = tag
  BY DEF Octet, Tags
<1>11. number \in Seq(Octet) /\ Len(number) = width /\ number = U32Image[n] /\ n \in DOMAIN U32Image
  BY <1>1, <1>6, PutWidths, WidthImages
<1>12. Frame(tag, n) = front \o number
  BY DEF Frame
<1> HIDE DEF magic, t, number
<1>13. front \in Seq(Octet) /\ Len(front) = 3
  <2>1. front \in Seq(Octet) /\ Len(front) = Len(magic) + Len(t)
    BY <1>9, <1>10, Concat
  <2> HIDE DEF front
  <2> QED
    BY <1>9, <1>10, <2>1
<1>14. 1 \in Places(w) /\ 4 \in Places(w) /\ 1 + 2 = 3 /\ 1 + 3 = 4
  BY <1>3, <1>4 DEF Places
<1>15. Holds(w, 1, front) <=> Holds(w, 1, magic) /\ Holds(w, 3, t)
  <2>1. Holds(w, 1, magic \o t) <=> Holds(w, 1, magic) /\ Holds(w, 1 + Len(magic), t)
    <3>1. magic \in Seq(Octet) /\ t \in Seq(Octet) /\ 1 \in Places(w)
      BY <1>9, <1>10, <1>14
    <3> QED
      BY <3>1, HoldsConcat
  <2>2. 1 + Len(magic) = 3
    BY <1>9
  <2> QED
    BY <2>1, <2>2
<1>16. Holds(w, 1, Frame(tag, n)) <=> Holds(w, 1, front) /\ Holds(w, 4, number)
  <2> HIDE DEF front
  <2>1. Holds(w, 1, front \o number) <=> Holds(w, 1, front) /\ Holds(w, 1 + Len(front), number)
    BY <1>11, <1>13, <1>14, HoldsConcat
  <2> QED
    BY <1>12, <1>13, <1>14, <2>1
<1>17. Holds(w, 1, magic) <=> w[1] = 66 /\ w[2] = 49
  <2>1. Holds(w, 1, magic) <=> \A i \in {1, 2} : w[1 + i - 1] = magic[i]
    <3>1. 1 + 2 <= Len(w) + 1 /\ 1 .. 2 = {1, 2}
      BY <1>3, <1>4
    <3> QED
      BY <1>9, <3>1 DEF Holds
  <2>2. 1 + 1 - 1 = 1 /\ 1 + 2 - 1 = 2
    OBVIOUS
  <2> QED
    BY <1>9, <2>1, <2>2
<1>18. Holds(w, 3, t) <=> w[3] = tag
  <2>1. 3 + 1 <= Len(w) + 1 /\ 1 .. 1 = {1} /\ 3 + 1 - 1 = 3
    BY <1>3, <1>4
  <2> QED
    BY <1>10, <2>1 DEF Holds
<1>19. <<w[1], w[2]>> = MAGIC <=> w[1] = 66 /\ w[2] = 49
  BY <1>9 DEF magic
<1>20. Holds(w, 4, number) <=> TakeU32(w)[4] = Got(n, 4 + width)
  <2> DEFINE got == TakeU32(w)[4]
  <2>1. Reads(w, TakeU32(w), U32Image)
    BY ReadsWidths
  <2>2. Sound(w, got, 4, U32Image) /\ Complete(w, got, 4, U32Image)
    BY <1>14, <2>1 DEF Reads
  <2> HIDE DEF got
  <2>3. Holds(w, 4, number) => got = Got(n, 4 + width)
    BY <1>11, <2>2 DEF Complete
  <2>4. ASSUME got = Got(n, 4 + width)
        PROVE  Holds(w, 4, number)
    <3>1. PICK v \in DOMAIN U32Image :
             got = Got(v, 4 + Len(U32Image[v])) /\ Holds(w, 4, U32Image[v])
      BY <2>2, <2>4, GotFacts DEF Sound
    <3>2. v = n
      <4>1. got[1].value = v
        BY <3>1, GotFacts
      <4>2. got[1].value = n
        BY <2>4, GotFacts
      <4> QED
        BY <4>1, <4>2
    <3> QED
      BY <1>11, <3>1, <3>2
  <2> QED
    BY <2>3, <2>4 DEF got
<1>21. TakeU32(w)[4] = Got(Len(w) - EnvelopeOctets, EnvelopeOctets + 1)
          <=> TakeU32(w)[4] = Got(n, 4 + width)
  BY <1>4
<1>22. Holds(w, 1, Frame(tag, n)) <=>
          (w[1] = 66 /\ w[2] = 49) /\ w[3] = tag /\ TakeU32(w)[4] = Got(n, 4 + width)
  BY <1>15, <1>16, <1>17, <1>18, <1>20
<1>23. EnvelopeHolds(w) <=>
          /\ w[1] = 66 /\ w[2] = 49
          /\ w[3] \in Tags
          /\ TakeU32(w)[4] = Got(n, 4 + width)
  BY <1>7, <1>8, <1>19, <1>21 DEF EnvelopeHolds
<1> QED
  BY <1>6, <1>22, <1>23

\* Octets are a record's if they hold its envelope, then its two parts.
LEMMA EncodedAs ==
    ASSUME NEW w \in Seq(Octet),
           NEW tag \in Tags, NEW v \in FitBodies[tag], NEW x \in FitExtensions
    PROVE  SizeOf(tag, v, x) <= MaxRecordOctets /\ w = Encode(RecordOf(tag, v, x))
             <=> /\ Len(w) = SizeOf(tag, v, x)
                 /\ Len(w) <= MaxRecordOctets
                 /\ Holds(w, 1, Frame(tag, SizeOf(tag, v, x) - EnvelopeOctets))
                 /\ Holds(w, EnvelopeOctets + 1, BodyImages[tag][v] \o ExtensionList[x])
<1> DEFINE body == BodyImages[tag][v]
           ext == ExtensionList[x]
           size == SizeOf(tag, v, x)
           front == Frame(tag, size - EnvelopeOctets)
           image == Encode(RecordOf(tag, v, x))
<1>1. body \in Seq(Octet) /\ ext \in Seq(Octet) /\ image = (front \o body) \o ext
  BY EncodeFacts
<1>2. size <= MaxRecordOctets =>
         /\ image \in Seq(Octet) /\ Len(image) = size
         /\ front \in Seq(Octet) /\ Len(front) = EnvelopeOctets
  BY EncodeFacts
<1>3. EnvelopeOctets \in Nat
  BY WidthFacts DEF EnvelopeOctets
<1>4. SizeOf(tag, v, x) = EnvelopeOctets + Len(body) + Len(ext)
  BY DEF SizeOf
<1> HIDE DEF body, ext, size, front, image
<1>5. ASSUME size <= MaxRecordOctets
      PROVE  w = image <=>
                /\ Len(w) = size
                /\ Holds(w, 1, front)
                /\ Holds(w, EnvelopeOctets + 1, body \o ext)
  <2> DEFINE rest == body \o ext
  <2>1. front \in Seq(Octet) /\ body \in Seq(Octet) /\ ext \in Seq(Octet) /\ rest \in Seq(Octet)
    BY <1>1, <1>2, <1>5
  <2>2. image = front \o rest
    BY <1>1, <2>1
  <2>3. w = image <=> Holds(w, 1, image) /\ Len(w) = Len(image)
    BY <1>2, <1>5, HoldsWhole
  <2>4. 1 \in Places(w)
    BY DEF Places
  <2> HIDE DEF rest
  <2>5. Holds(w, 1, front \o rest) <=> Holds(w, 1, front) /\ Holds(w, 1 + Len(front), rest)
    BY <2>1, <2>4, HoldsConcat
  <2>6. 1 + Len(front) = EnvelopeOctets + 1
    BY <1>2, <1>3, <1>5
  <2> QED
    BY <1>2, <1>5, <2>2, <2>3, <2>5, <2>6 DEF rest
<1> QED
  BY <1>5 DEF body, ext, size, front, image

\* What DecodeUnvalidated reads after the envelope.
Parts(w, tag) == TakeEach(<<TakePayload(w)[tag], TakeExtensions(w)>>)[EnvelopeOctets + 1]

\* What it makes of them.
Outcome(w, tag, supported, got) ==
    IF got = << >> THEN << >>
    ELSE IF got[1].next # Len(w) + 1 \/ ~Admissible(got[1].value[2], supported) THEN << >>
    ELSE <<RecordOf(tag, got[1].value[1], Kept(got[1].value[2], supported))>>

LEMMA OutcomeFacts ==
    ASSUME NEW w, NEW supported, EnvelopeHolds(w)
    PROVE  DecodeUnvalidated(w, supported) = Outcome(w, w[3], supported, Parts(w, w[3]))
BY DEF DecodeUnvalidated, Outcome, Parts, Then, RecordOf

LEMMA DecodesImage ==
    ASSUME NEW w \in Seq(Octet), NEW supported,
           NEW tag \in Tags, NEW v \in FitBodies[tag], NEW x \in FitExtensions,
           SizeOf(tag, v, x) <= MaxRecordOctets, w = Encode(RecordOf(tag, v, x))
    PROVE  DecodeUnvalidated(w, supported) =
              IF Admissible(x, supported) THEN <<RecordOf(tag, v, Kept(x, supported))>> ELSE << >>
<1> DEFINE body == BodyImages[tag][v]
           ext == ExtensionList[x]
           n == SizeOf(tag, v, x) - EnvelopeOctets
<1>1. /\ Len(w) = SizeOf(tag, v, x) /\ Len(w) <= MaxRecordOctets
      /\ Holds(w, 1, Frame(tag, n))
      /\ Holds(w, EnvelopeOctets + 1, body \o ext)
  BY EncodedAs
<1>2. /\ v \in DOMAIN BodyImages[tag] /\ x \in DOMAIN ExtensionList
      /\ body \in Seq(Octet) /\ ext \in Seq(Octet)
  BY EncodeFacts
<1>3. SizeOf(tag, v, x) = EnvelopeOctets + Len(body) + Len(ext)
  BY DEF SizeOf
<1>4. PICK u \in Nat, b \in Nat, e \in Nat : u = EnvelopeOctets /\ b = Len(body) /\ e = Len(ext)
  BY <1>2, WidthFacts DEF EnvelopeOctets
<1>5. PICK size \in Nat : size = Len(w) /\ size = SizeOf(tag, v, x)
  BY <1>1
<1>6. size = u + b + e
  BY <1>3, <1>4, <1>5
<1>7. n \in Nat /\ Len(w) = EnvelopeOctets + n
  <2>1. n = size - u
    BY <1>4, <1>5
  <2> HIDE DEF n
  <2>2. n \in Nat /\ size = u + n
    BY <1>6, <2>1
  <2> QED
    BY <1>4, <1>5, <2>2
<1> HIDE DEF body, ext, n
<1>8. EnvelopeOctets + 1 \in Places(w) /\ EnvelopeOctets + 1 + Len(body) + Len(ext) = Len(w) + 1
  <2>1. u + 1 \in 1 .. (size + 1) /\ u + 1 + b + e = size + 1
    BY <1>6
  <2> QED
    BY <1>4, <1>5, <2>1 DEF Places
<1>9. EnvelopeHolds(w) /\ w[3] = tag
  BY <1>1, <1>7, EnvelopeFacts
<1>10. Reads(w, TakePayload(w)[tag], BodyImages[tag]) /\ Reads(w, TakeExtensions(w), ExtensionList)
  BY ReadsPayload, ReadsExtensions
<1>11. Parts(w, tag) = Got(<<v, x>>, EnvelopeOctets + 1 + Len(body) + Len(ext))
  <2>1. Holds(w, EnvelopeOctets + 1, BodyImages[tag][v] \o ExtensionList[x])
    BY <1>1 DEF body, ext
  <2>2. TakeEach(<<TakePayload(w)[tag], TakeExtensions(w)>>)[EnvelopeOctets + 1] =
           Got(<<v, x>>, EnvelopeOctets + 1 + Len(BodyImages[tag][v]) + Len(ExtensionList[x]))
    BY <1>2, <1>8, <1>10, <2>1, ReadsPair DEF PairRead
  <2> QED
    BY <2>2 DEF Parts, body, ext
<1>12. Parts(w, tag) = Got(<<v, x>>, Len(w) + 1)
  BY <1>8, <1>11
<1>13. DecodeUnvalidated(w, supported) = Outcome(w, tag, supported, Parts(w, tag))
  BY <1>9, OutcomeFacts
<1> HIDE DEF Parts
<1>14. /\ Parts(w, tag) # << >>
       /\ Parts(w, tag)[1].value = <<v, x>> /\ Parts(w, tag)[1].next = Len(w) + 1
  BY <1>12, GotFacts
<1>15. <<v, x>>[1] = v /\ <<v, x>>[2] = x
  OBVIOUS
<1> QED
  BY <1>13, <1>14, <1>15 DEF Outcome

\* And it decodes nothing else.
LEMMA DecodedIsImage ==
    ASSUME NEW w \in Seq(Octet), NEW supported, DecodeUnvalidated(w, supported) # << >>
    PROVE  \E tag \in Tags : \E v \in FitBodies[tag] : \E x \in FitExtensions :
              /\ SizeOf(tag, v, x) <= MaxRecordOctets /\ w = Encode(RecordOf(tag, v, x))
              /\ Admissible(x, supported)
              /\ DecodeUnvalidated(w, supported) = <<RecordOf(tag, v, Kept(x, supported))>>
<1>1. EnvelopeHolds(w)
  BY DEF DecodeUnvalidated
<1> DEFINE tag == w[3]
           n == Len(w) - EnvelopeOctets
<1>2. tag \in Tags /\ Len(w) \in EnvelopeOctets .. MaxRecordOctets
  BY <1>1, TagFacts DEF EnvelopeHolds
<1>3. PICK u \in Nat, m \in Nat, size \in Nat :
         u = EnvelopeOctets /\ m = MaxRecordOctets /\ size = Len(w)
  BY BoundsAssumption, WidthFacts, NumbersAreNaturals DEF U32, EnvelopeOctets
<1>4. size >= u /\ size <= m
  BY <1>2, <1>3
<1>5. n \in Nat /\ Len(w) = EnvelopeOctets + n /\ Len(w) <= MaxRecordOctets
      /\ EnvelopeOctets + 1 \in Places(w)
  BY <1>3, <1>4 DEF Places
<1> HIDE DEF tag, n
<1>6. Holds(w, 1, Frame(tag, n))
  BY <1>1, <1>2, <1>5, EnvelopeFacts DEF tag
<1>7. DecodeUnvalidated(w, supported) = Outcome(w, tag, supported, Parts(w, tag))
  BY <1>1, OutcomeFacts DEF tag
<1>8. Parts(w, tag) # << >>
  BY <1>7 DEF Outcome
<1>9. Reads(w, TakePayload(w)[tag], BodyImages[tag]) /\ Reads(w, TakeExtensions(w), ExtensionList)
  BY <1>2, ReadsPayload, ReadsExtensions
<1>10. PICK v \in DOMAIN BodyImages[tag], x \in DOMAIN ExtensionList :
          /\ Parts(w, tag) =
                Got(<<v, x>>, EnvelopeOctets + 1 + Len(BodyImages[tag][v]) + Len(ExtensionList[x]))
          /\ Holds(w, EnvelopeOctets + 1, BodyImages[tag][v] \o ExtensionList[x])
  <2> DEFINE got == TakeEach(<<TakePayload(w)[tag], TakeExtensions(w)>>)[EnvelopeOctets + 1]
  <2>1. got = Parts(w, tag)
    BY DEF Parts
  <2>2. got # << >> =>
           \E v \in DOMAIN BodyImages[tag] : \E x \in DOMAIN ExtensionList :
              /\ got = Got(<<v, x>>, EnvelopeOctets + 1 + Len(BodyImages[tag][v])
                                      + Len(ExtensionList[x]))
              /\ Holds(w, EnvelopeOctets + 1, BodyImages[tag][v] \o ExtensionList[x])
    <3> DEFINE First == TakePayload(w)[tag]  Second == TakeExtensions(w)
               first == BodyImages[tag]  second == ExtensionList
               at == EnvelopeOctets + 1
    <3>1. Reads(w, First, first) /\ Reads(w, Second, second) /\ at \in Places(w)
      BY <1>5, <1>9
    <3> HIDE DEF First, Second, first, second, at
    <3>2. PairRead(w, TakeEach(<<First, Second>>)[at], at, first, second)
      BY <3>1, ReadsPair
    <3>3. PairRead(w, got, EnvelopeOctets + 1, BodyImages[tag], ExtensionList)
      BY <3>2 DEF First, Second, first, second, at
    <3> HIDE DEF got
    <3> QED
      BY <3>3 DEF PairRead
  <2> HIDE DEF got, Parts
  <2> QED
    BY <1>8, <2>1, <2>2
<1> HIDE DEF Parts
<1>11. v \in FitBodies[tag] /\ x \in FitExtensions
  <2>1. DOMAIN BodyImages[tag] = FitBodies[tag]
    BY <1>2, BodyWrites DEF BodyWritten
  <2>2. DOMAIN ExtensionList = FitExtensions
    BY FieldLists DEF FitExtensions
  <2> QED
    BY <2>1, <2>2
<1> DEFINE next == EnvelopeOctets + 1 + Len(BodyImages[tag][v]) + Len(ExtensionList[x])
<1>12. /\ Parts(w, tag) # << >>
       /\ Parts(w, tag)[1].value = <<v, x>> /\ Parts(w, tag)[1].next = next
  BY <1>10, GotFacts
<1>13. <<v, x>>[1] = v /\ <<v, x>>[2] = x
  OBVIOUS
<1> HIDE DEF next
<1>14. next = Len(w) + 1 /\ Admissible(x, supported)
       /\ DecodeUnvalidated(w, supported) = <<RecordOf(tag, v, Kept(x, supported))>>
  BY <1>7, <1>12, <1>13 DEF Outcome
<1>17. SizeOf(tag, v, x) = Len(w)
  <2>1. BodyImages[tag][v] \in Seq(Octet) /\ ExtensionList[x] \in Seq(Octet)
    BY <1>2, <1>11, EncodeFacts
  <2>2. PICK b \in Nat, e \in Nat : b = Len(BodyImages[tag][v]) /\ e = Len(ExtensionList[x])
    BY <2>1
  <2>3. u + 1 + b + e = size + 1
    BY <1>3, <1>14, <2>2 DEF next
  <2>4. u + b + e = size
    BY <2>3
  <2> QED
    BY <1>3, <2>2, <2>4 DEF SizeOf
<1>18. SizeOf(tag, v, x) <= MaxRecordOctets /\ w = Encode(RecordOf(tag, v, x))
  <2>1. SizeOf(tag, v, x) - EnvelopeOctets = n
    BY <1>17 DEF n
  <2> QED
    BY <1>2, <1>5, <1>6, <1>10, <1>11, <1>17, <2>1, EncodedAs
<1> QED
  BY <1>2, <1>11, <1>14, <1>18

---------------------------------------------------------------------------
(* The extensions a receiver keeps.                                        *)

LEMMA AppendFacts ==
    ASSUME NEW n \in Nat, NEW numbers \in [1 .. n -> Nat], NEW k \in Nat
    PROVE  /\ Append(numbers, k) \in [1 .. (n + 1) -> Nat]
           /\ Append(numbers, k)[n + 1] = k
           /\ \A i \in 1 .. n : Append(numbers, k)[i] = numbers[i]
<1> DEFINE longer == Append(numbers, k)
<1>1. numbers \in Seq(Nat) /\ Len(numbers) = n
  OBVIOUS
<1>2. Len(longer) = n + 1 /\ longer \in Seq(Nat)
  BY <1>1
<1>3. longer[n + 1] = k /\ \A i \in 1 .. n : longer[i] = numbers[i]
  BY <1>1
<1> HIDE DEF longer
<1>4. longer \in [1 .. (n + 1) -> Nat]
  BY <1>2
<1> QED
  BY <1>3, <1>4 DEF longer

LEMMA SumAppend ==
    ASSUME NEW n \in Nat, NEW numbers \in [1 .. n -> Nat], NEW k \in Nat
    PROVE  SumOf(Append(numbers, k)) = SumOf(numbers) + k
<1> DEFINE longer == Append(numbers, k)
<1>1. /\ longer \in [1 .. (n + 1) -> Nat] /\ longer[n + 1] = k
      /\ \A i \in 1 .. n : longer[i] = numbers[i]
  BY AppendFacts
<1> HIDE DEF longer
<1>2. PICK total \in [0 .. n -> Nat] :
         /\ total[0] = 0
         /\ \A i \in 1 .. n : total[i] = total[i - 1] + numbers[i]
         /\ SumOf(numbers) = total[n]
  BY SumOfFacts
<1>3. n + 1 \in Nat
  OBVIOUS
<1>4. PICK more \in [0 .. (n + 1) -> Nat] :
         /\ more[0] = 0
         /\ \A i \in 1 .. (n + 1) : more[i] = more[i - 1] + longer[i]
         /\ SumOf(longer) = more[n + 1]
  BY <1>1, <1>3, SumOfFacts
<1> DEFINE P == {i \in 0 .. n : more[i] = total[i]}
<1>5. 0 \in P
  BY <1>2, <1>4
<1>6. ASSUME NEW i \in P, i \in 0 .. (n - 1)
      PROVE  i + 1 \in P
  <2>1. i + 1 \in 1 .. n /\ i + 1 \in 1 .. (n + 1) /\ i + 1 - 1 = i /\ i + 1 \in 0 .. n
    BY <1>6
  <2>2. more[i + 1] = more[i] + numbers[i + 1]
    BY <1>1, <1>4, <2>1
  <2>3. total[i + 1] = total[i] + numbers[i + 1]
    BY <1>2, <2>1
  <2> QED
    BY <2>1, <2>2, <2>3
<1> HIDE DEF P
<1>7. \A i \in 0 .. n : i \in P
  BY <1>5, <1>6, InductionUpTo
<1>8. more[n] = total[n]
  BY <1>7 DEF P
<1>9. more[n + 1] = more[n] + k
  <2>1. n + 1 \in 1 .. (n + 1) /\ n + 1 - 1 = n
    OBVIOUS
  <2> QED
    BY <1>1, <1>4, <2>1
<1> QED
  BY <1>2, <1>4, <1>8, <1>9 DEF longer

\* What is kept, extension by extension.
KeptUpTo(x, supported, whole) ==
    /\ whole \in [0 .. Len(x) -> Seq(FitExtension)]
    /\ whole[0] = << >>
    /\ \A i \in 1 .. Len(x) :
          whole[i] = IF x[i].id \in supported THEN Append(whole[i - 1], x[i]) ELSE whole[i - 1]
    /\ Kept(x, supported) = whole[Len(x)]

LEMMA KeptByStep ==
    ASSUME NEW x \in Seq(FitExtension), NEW supported
    PROVE  \E whole : KeptUpTo(x, supported, whole)
<1> DEFINE E == FitExtension
           n == Len(x)
           one == [i \in DOMAIN x |-> IF x[i].id \in supported THEN <<x[i]>> ELSE << >>]
<1> HIDE DEF E
<1>1. x \in Seq(E)
  BY DEF E
<1>2. n \in Nat /\ DOMAIN x = 1 .. n /\ \A i \in 1 .. n : x[i] \in E
  BY <1>1
<1>3. one \in [1 .. n -> Seq(E)]
      /\ \A i \in 1 .. n : one[i] = IF x[i].id \in supported THEN <<x[i]>> ELSE << >>
  BY <1>2
<1>4. Kept(x, supported) = FlattenSeq(one)
  BY DEF Kept
<1> HIDE DEF one, n
<1>5. PICK whole \in [0 .. n -> Seq(E)] :
         /\ whole[0] = << >>
         /\ \A i \in 1 .. n : whole[i] = whole[i - 1] \o one[i]
         /\ FlattenSeq(one) = whole[n]
  BY <1>2, <1>3, FlattenFacts
<1>6. ASSUME NEW i \in 1 .. n
      PROVE  whole[i] = IF x[i].id \in supported THEN Append(whole[i - 1], x[i]) ELSE whole[i - 1]
  <2>1. whole[i - 1] \in Seq(E) /\ x[i] \in E /\ whole[i] = whole[i - 1] \o one[i]
    <3>1. i - 1 \in 0 .. n
      BY <1>2
    <3> QED
      BY <1>2, <1>5, <3>1
  <2>2. CASE x[i].id \in supported
    <3>1. one[i] = <<x[i]>>
      BY <1>3, <2>2
    <3>2. \A s \in Seq(E), e \in E : s \o <<e>> = Append(s, e)
      OBVIOUS
    <3> QED
      BY <2>1, <2>2, <3>1, <3>2
  <2>3. CASE x[i].id \notin supported
    <3>1. one[i] = << >>
      BY <1>3, <2>3
    <3>2. \A s \in Seq(E) : s \o << >> = s
      OBVIOUS
    <3> QED
      BY <2>1, <2>3, <3>1, <3>2
  <2> QED
    BY <2>2, <2>3
<1>7. KeptUpTo(x, supported, whole)
  BY <1>4, <1>5, <1>6 DEF KeptUpTo, n, E
<1> QED
  BY <1>7

LEMMA ExtensionSizes ==
    /\ \A e \in FitExtension : ExtensionSize(e) \in Nat
    /\ \A x \in Seq(FitExtension) :
          /\ SumOver(ExtensionSize, x) \in Nat
          /\ \A e \in FitExtension :
                SumOver(ExtensionSize, Append(x, e)) = SumOver(ExtensionSize, x) + ExtensionSize(e)
    /\ SumOver(ExtensionSize, << >>) = 0
<1>1. ASSUME NEW e \in FitExtension
      PROVE  ExtensionSize(e) \in Nat
  <2>1. Len(e.value) \in Nat
    BY DEF FitExtension, Lists
  <2> QED
    BY <2>1, WidthFacts DEF ExtensionSize
<1>2. ASSUME NEW x \in Seq(FitExtension)
      PROVE  /\ SumOver(ExtensionSize, x) \in Nat
             /\ \A e \in FitExtension :
                   SumOver(ExtensionSize, Append(x, e)) =
                      SumOver(ExtensionSize, x) + ExtensionSize(e)
  <2> DEFINE E == FitExtension
             n == Len(x)
             sizes == [i \in DOMAIN x |-> ExtensionSize(x[i])]
  <2> HIDE DEF E
  <2>1. x \in Seq(E) /\ \A e \in E : ExtensionSize(e) \in Nat
    BY <1>1 DEF E
  <2>2. n \in Nat /\ DOMAIN x = 1 .. n /\ \A i \in 1 .. n : x[i] \in E
    BY <2>1
  <2>3. sizes \in [1 .. n -> Nat] /\ SumOver(ExtensionSize, x) = SumOf(sizes)
    BY <2>1, <2>2 DEF SumOver
  <2>4. SumOver(ExtensionSize, x) \in Nat
    <3> HIDE DEF sizes, n
    <3> QED
      BY <2>2, <2>3, SumOfBound
  <2>5. ASSUME NEW e \in E
        PROVE  SumOver(ExtensionSize, Append(x, e)) = SumOver(ExtensionSize, x) + ExtensionSize(e)
    <3> DEFINE y == Append(x, e)
               more == [i \in DOMAIN y |-> ExtensionSize(y[i])]
    <3>1. DOMAIN y = 1 .. (n + 1) /\ y[n + 1] = e /\ \A i \in 1 .. n : y[i] = x[i]
      BY <2>1
    <3> HIDE DEF y
    <3>2. SumOver(ExtensionSize, y) = SumOf(more)
      BY DEF SumOver
    <3>3. \A i \in 1 .. (n + 1) : more[i] = IF i = n + 1 THEN ExtensionSize(e) ELSE sizes[i]
      BY <2>2, <3>1
    <3>4. DOMAIN more = 1 .. (n + 1)
      BY <3>1
    <3>5. more = [i \in 1 .. (n + 1) |-> more[i]]
      BY <3>4
    <3> HIDE DEF more, sizes, n
    <3>6. Append(sizes, ExtensionSize(e)) =
             [i \in 1 .. (n + 1) |-> IF i = n + 1 THEN ExtensionSize(e) ELSE sizes[i]]
      <4> DEFINE longer == Append(sizes, ExtensionSize(e))
      <4>1. longer \in [1 .. (n + 1) -> Nat] /\ longer[n + 1] = ExtensionSize(e)
            /\ \A i \in 1 .. n : longer[i] = sizes[i]
        BY <2>1, <2>2, <2>3, AppendFacts
      <4>2. \A i \in 1 .. (n + 1) : i = n + 1 \/ i \in 1 .. n
        BY <2>2
      <4>3. \A i \in 1 .. n : i # n + 1
        BY <2>2
      <4> HIDE DEF longer
      <4>4. longer = [i \in 1 .. (n + 1) |-> longer[i]]
        BY <4>1
      <4>5. \A i \in 1 .. (n + 1) :
               longer[i] = IF i = n + 1 THEN ExtensionSize(e) ELSE sizes[i]
        BY <4>1, <4>2, <4>3
      <4>6. longer = [i \in 1 .. (n + 1) |-> IF i = n + 1 THEN ExtensionSize(e) ELSE sizes[i]]
        BY <4>4, <4>5
      <4> QED
        BY <4>6 DEF longer
    <3>7. more = Append(sizes, ExtensionSize(e))
      BY <3>3, <3>5, <3>6
    <3>8. SumOf(Append(sizes, ExtensionSize(e))) = SumOf(sizes) + ExtensionSize(e)
      BY <2>1, <2>2, <2>3, SumAppend
    <3> QED
      BY <2>3, <3>2, <3>7, <3>8 DEF y
  <2> QED
    BY <2>4, <2>5 DEF E
<1>3. SumOver(ExtensionSize, << >>) = 0
  <2> DEFINE none == [i \in DOMAIN << >> |-> ExtensionSize(<< >>[i])]
  <2>1. none \in [1 .. 0 -> Nat] /\ 0 \in Nat
    OBVIOUS
  <2>2. SumOver(ExtensionSize, << >>) = SumOf(none)
    BY DEF SumOver
  <2> HIDE DEF none
  <2>3. PICK total \in [0 .. 0 -> Nat] : total[0] = 0 /\ SumOf(none) = total[0]
    BY <2>1, SumOfFacts
  <2> QED
    BY <2>2, <2>3
<1> QED
  BY <1>1, <1>2, <1>3

UniqueIds(x) == \A i, j \in DOMAIN x : x[i].id = x[j].id => i = j

\* What is kept is an image of a record too, no longer, its identifiers still
\* distinct; and everything is kept when everything is known.
LEMMA KeptFacts ==
    ASSUME NEW x \in Seq(FitExtension), NEW supported
    PROVE  /\ Kept(x, supported) \in Seq(FitExtension)
           /\ Len(Kept(x, supported)) <= Len(x)
           /\ ExtensionsSize(Kept(x, supported)) <= ExtensionsSize(x)
           /\ ExtensionsSize(x) \in Nat /\ ExtensionsSize(Kept(x, supported)) \in Nat
           /\ UniqueIds(x) => UniqueIds(Kept(x, supported))
           /\ (\A i \in DOMAIN x : x[i].id \in supported) => Kept(x, supported) = x
<1> DEFINE E == FitExtension
           n == Len(x)
           Size(y) == SumOver(ExtensionSize, y)
<1>1. PICK whole : KeptUpTo(x, supported, whole)
  BY KeptByStep
<1>2. /\ x \in Seq(E) /\ n \in Nat /\ DOMAIN x = 1 .. n
      /\ \A i \in 1 .. n : x[i] \in E
  OBVIOUS
<1>3. /\ \A i \in 0 .. n : whole[i] \in Seq(E)
      /\ whole[0] = << >> /\ Kept(x, supported) = whole[n]
  BY <1>1 DEF KeptUpTo
<1>4. ASSUME NEW i \in 1 .. n
      PROVE  \/ x[i].id \in supported /\ whole[i] = Append(whole[i - 1], x[i])
             \/ x[i].id \notin supported /\ whole[i] = whole[i - 1]
  BY <1>1 DEF KeptUpTo
<1>5. \A y \in Seq(E), e \in E :
         /\ Len(Append(y, e)) = Len(y) + 1 /\ DOMAIN Append(y, e) = 1 .. (Len(y) + 1)
         /\ DOMAIN y = 1 .. Len(y) /\ Len(y) \in Nat
         /\ Append(y, e)[Len(y) + 1] = e
         /\ \A a \in 1 .. Len(y) : Append(y, e)[a] = y[a]
  <2> HIDE DEF E
  <2> QED
    OBVIOUS
<1>6. /\ \A e \in E : ExtensionSize(e) \in Nat
      /\ \A y \in Seq(E) : Size(y) \in Nat
      /\ \A y \in Seq(E), e \in E : Size(Append(y, e)) = Size(y) + ExtensionSize(e)
      /\ Size(<< >>) = 0
  BY ExtensionSizes
<1> HIDE DEF E, n, Size
<1>7. ASSUME NEW i, i \in 0 .. (n - 1)
      PROVE  /\ i + 1 \in 1 .. n /\ i + 1 \in 0 .. n /\ i \in 0 .. n /\ i \in Nat
             /\ whole[i] \in Seq(E) /\ whole[i + 1] \in Seq(E) /\ x[i + 1] \in E
             /\ \/ x[i + 1].id \in supported /\ whole[i + 1] = Append(whole[i], x[i + 1])
                \/ x[i + 1].id \notin supported /\ whole[i + 1] = whole[i]
  <2>1. i + 1 \in 1 .. n /\ i + 1 \in 0 .. n /\ i \in 0 .. n /\ i \in Nat /\ (i + 1) - 1 = i
    BY <1>2, <1>7
  <2>2. \/ x[i + 1].id \in supported /\ whole[i + 1] = Append(whole[(i + 1) - 1], x[i + 1])
        \/ x[i + 1].id \notin supported /\ whole[i + 1] = whole[(i + 1) - 1]
    BY <1>4, <2>1
  <2> QED
    BY <1>2, <1>3, <2>1, <2>2
<1>8. n \in 0 .. n
  BY <1>2
<1>9. Len(whole[n]) <= n
  <2> DEFINE P == {i \in 0 .. n : Len(whole[i]) <= i}
  <2>1. 0 \in P
    BY <1>2, <1>3
  <2>2. ASSUME NEW i \in P, i \in 0 .. (n - 1)
        PROVE  i + 1 \in P
    <3>1. Len(whole[i]) <= i /\ Len(whole[i]) \in Nat
      BY <1>5, <1>7, <2>2
    <3>2. Len(whole[i + 1]) = Len(whole[i]) + 1 \/ Len(whole[i + 1]) = Len(whole[i])
      BY <1>5, <1>7, <2>2
    <3>3. i + 1 \in 0 .. n /\ i \in Nat
      BY <1>7, <2>2
    <3> QED
      BY <3>1, <3>2, <3>3
  <2> HIDE DEF P
  <2>3. n \in P
    BY <1>2, <1>8, <2>1, <2>2, InductionUpTo
  <2> QED
    BY <2>3 DEF P
<1>10. Size(whole[n]) <= Size(x)
  <2> DEFINE sizes == [i \in 1 .. n |-> ExtensionSize(x[i])]
  <2>1. sizes \in [1 .. n -> Nat] /\ \A i \in 1 .. n : sizes[i] = ExtensionSize(x[i])
    BY <1>2, <1>6
  <2>2. Size(x) = SumOf(sizes)
    BY <1>2 DEF Size, SumOver
  <2> HIDE DEF sizes
  <2>3. PICK total \in [0 .. n -> Nat] :
           /\ total[0] = 0
           /\ \A i \in 1 .. n : total[i] = total[i - 1] + sizes[i]
           /\ SumOf(sizes) = total[n]
    BY <1>2, <2>1, SumOfFacts
  <2> DEFINE P == {i \in 0 .. n : Size(whole[i]) <= total[i]}
  <2>4. 0 \in P
    BY <1>2, <1>3, <1>6, <2>3
  <2>5. ASSUME NEW i \in P, i \in 0 .. (n - 1)
        PROVE  i + 1 \in P
    <3>1. i + 1 \in 1 .. n /\ i \in 0 .. n /\ i + 1 \in 0 .. n /\ (i + 1) - 1 = i
      BY <1>2, <2>5
    <3>2. PICK k \in Nat : k = ExtensionSize(x[i + 1])
      BY <1>6, <1>7, <2>5
    <3>3. total[i + 1] = total[i] + k
      BY <2>1, <2>3, <3>1, <3>2
    <3>4. Size(whole[i + 1]) = Size(whole[i]) + k \/ Size(whole[i + 1]) = Size(whole[i])
      <4>1. /\ whole[i] \in Seq(E) /\ x[i + 1] \in E
            /\ whole[i + 1] = Append(whole[i], x[i + 1]) \/ whole[i + 1] = whole[i]
        BY <1>7, <2>5, Zenon
      <4>2. Size(Append(whole[i], x[i + 1])) = Size(whole[i]) + k
        BY <1>6, <3>2, <4>1, Zenon
      <4> QED
        BY <4>1, <4>2, Zenon
    <3>5. PICK p \in Nat, t \in Nat : p = Size(whole[i]) /\ t = total[i]
      BY <1>6, <1>7, <2>3, <2>5, <3>1
    <3>6. p <= t
      BY <2>5, <3>5
    <3>7. p + k <= t + k /\ p <= t + k
      BY <3>6
    <3> QED
      BY <3>1, <3>3, <3>4, <3>5, <3>7
  <2> HIDE DEF P
  <2>6. n \in P
    BY <1>2, <1>8, <2>4, <2>5, InductionUpTo
  <2> QED
    BY <2>2, <2>3, <2>6 DEF P
<1>11. ASSUME UniqueIds(x)
       PROVE  UniqueIds(whole[n])
  <2> DEFINE P == {i \in 0 .. n :
                     /\ \A a \in DOMAIN whole[i] : \E b \in 1 .. i : whole[i][a] = x[b]
                     /\ UniqueIds(whole[i])}
  <2>1. 0 \in P
    <3>1. DOMAIN whole[0] = {}
      BY <1>3
    <3> QED
      BY <1>2, <3>1 DEF UniqueIds
  <2>2. ASSUME NEW i \in P, i \in 0 .. (n - 1)
        PROVE  i + 1 \in P
    <3> DEFINE old == whole[i]
               new == whole[i + 1]
               e == x[i + 1]
    <3>1. /\ \A a \in DOMAIN old : \E b \in 1 .. i : old[a] = x[b]
          /\ UniqueIds(old)
      BY <2>2
    <3>2. /\ i + 1 \in 1 .. n /\ i + 1 \in 0 .. n /\ i \in Nat
          /\ old \in Seq(E) /\ e \in E
          /\ new = Append(old, e) \/ new = old
      BY <1>7, <2>2
    <3> HIDE DEF old, new, e
    <3>3. \A b \in 1 .. i : b \in 1 .. (i + 1) /\ b \in 1 .. n /\ b # i + 1
      BY <1>2, <3>2
    <3>4. CASE new = old
      BY <3>1, <3>2, <3>3, <3>4 DEF old, new
    <3>5. CASE new = Append(old, e)
      <4>1. DOMAIN new = 1 .. (Len(old) + 1) /\ Len(old) \in Nat /\ DOMAIN old = 1 .. Len(old)
            /\ new[Len(old) + 1] = e /\ \A a \in 1 .. Len(old) : new[a] = old[a]
        BY <1>5, <3>2, <3>5
      <4>2. \A a \in DOMAIN new : a = Len(old) + 1 \/ a \in 1 .. Len(old)
        BY <4>1
      <4>3. \A a \in DOMAIN new : \E b \in 1 .. (i + 1) : new[a] = x[b]
        <5>1. i + 1 \in 1 .. (i + 1)
          BY <3>2
        <5> QED
          BY <3>1, <3>3, <4>1, <4>2, <5>1 DEF e
      <4>4. ASSUME NEW a \in 1 .. Len(old)
            PROVE  new[a].id # e.id
        <5>1. PICK b \in 1 .. i : old[a] = x[b]
          BY <3>1, <4>1
        <5>2. b \in DOMAIN x /\ i + 1 \in DOMAIN x /\ b # i + 1
          BY <1>2, <3>2, <3>3
        <5>3. x[b].id # x[i + 1].id
          BY <1>11, <5>2 DEF UniqueIds
        <5> QED
          BY <4>1, <5>1, <5>3 DEF e
      <4>5. UniqueIds(new)
        BY <3>1, <4>1, <4>2, <4>4 DEF UniqueIds
      <4> QED
        BY <3>2, <4>3, <4>5 DEF new
    <3> QED
      BY <3>2, <3>4, <3>5
  <2> HIDE DEF P
  <2>3. n \in P
    BY <1>2, <1>8, <2>1, <2>2, InductionUpTo
  <2> QED
    BY <2>3 DEF P
<1>12. ASSUME \A i \in DOMAIN x : x[i].id \in supported
       PROVE  whole[n] = x
  <2> DEFINE P == {i \in 0 .. n : Len(whole[i]) = i /\ \A a \in 1 .. i : whole[i][a] = x[a]}
  <2>1. 0 \in P
    BY <1>2, <1>3
  <2>2. ASSUME NEW i \in P, i \in 0 .. (n - 1)
        PROVE  i + 1 \in P
    <3>1. /\ i + 1 \in DOMAIN x /\ i + 1 \in 0 .. n /\ whole[i] \in Seq(E) /\ x[i + 1] \in E
          /\ whole[i + 1] = Append(whole[i], x[i + 1])
      BY <1>2, <1>7, <1>12, <2>2
    <3>2. Len(whole[i]) = i /\ \A a \in 1 .. i : whole[i][a] = x[a]
      BY <2>2
    <3>3. /\ Len(whole[i + 1]) = i + 1 /\ whole[i + 1][i + 1] = x[i + 1]
          /\ \A a \in 1 .. i : whole[i + 1][a] = whole[i][a]
      BY <1>5, <3>1, <3>2
    <3>4. \A a \in 1 .. (i + 1) : a = i + 1 \/ a \in 1 .. i
      BY <1>7, <2>2
    <3> QED
      BY <3>1, <3>2, <3>3, <3>4
  <2> HIDE DEF P
  <2>3. n \in P
    BY <1>2, <1>8, <2>1, <2>2, InductionUpTo
  <2>4. whole[n] \in Seq(E) /\ Len(whole[n]) = n /\ \A a \in 1 .. n : whole[n][a] = x[a]
    BY <1>3, <1>8, <2>3 DEF P
  <2> QED
    BY <1>2, <2>4 DEF n
<1>13. /\ whole[n] \in Seq(E)
       /\ ExtensionsSize(x) = 1 + Size(x) /\ ExtensionsSize(whole[n]) = 1 + Size(whole[n])
       /\ Size(x) \in Nat /\ Size(whole[n]) \in Nat
  BY <1>2, <1>3, <1>6, <1>8 DEF ExtensionsSize, Size
<1>14. ExtensionsSize(whole[n]) <= ExtensionsSize(x)
       /\ ExtensionsSize(x) \in Nat /\ ExtensionsSize(whole[n]) \in Nat
  BY <1>10, <1>13
<1> QED
  BY <1>3, <1>9, <1>11, <1>12, <1>13, <1>14 DEF n, E

---------------------------------------------------------------------------
(* The codec B1.                                                           *)

LEMMA Sizes ==
    /\ EnvelopeOctets \in Nat /\ EnvelopeOctets = 3 + Width.u32
    /\ MaxRecordOctets \in Nat /\ MaxRecordOctets \in U32
<1>1. MaxRecordOctets \in Nat /\ MaxRecordOctets \in U32
  BY BoundsAssumption, WidthFacts, NumbersAreNaturals DEF U32
<1>2. PICK width \in Nat : width = Width.u32
  BY WidthFacts
<1> QED
  BY <1>1, <1>2 DEF EnvelopeOctets

LEMMA FitsAreRecords ==
    ASSUME NEW tag \in Tags, NEW v \in FitBodies[tag], NEW x \in FitExtensions,
           Valid(Kinds[tag], v), UniqueIds(x), SizeOf(tag, v, x) <= MaxRecordOctets
    PROVE  IsRecord(RecordOf(tag, v, x)) /\ Encodable(RecordOf(tag, v, x))
<1> DEFINE r == RecordOf(tag, v, x)
<1>1. /\ r = [operation |-> [kind |-> Kinds[tag], body |-> v], extensions |-> x]
      /\ r.operation = [kind |-> Kinds[tag], body |-> v] /\ r.extensions = x
      /\ r.operation.kind = Kinds[tag] /\ r.operation.body = v
  BY DEF RecordOf
<1>2. v \in Bodies[tag] /\ tag \in DOMAIN Kinds
  BY FitBodiesAreBodies, TagFacts
<1>3. x \in Seq(FitExtension) /\ Len(x) <= MaxExtensions
  BY DEF FitExtensions, Lists
<1>4. \A e \in FitExtension : e \in Extension /\ Len(e.value) <= MaxExtensionValueOctets
  BY DEF FitExtension, Extension, Lists
<1>5. x \in Seq(Extension)
  <2>1. FitExtension \subseteq Extension
    BY <1>4
  <2> QED
    BY <1>3, <2>1
<1>6. ValidExtensions(x)
  <2>1. \A i \in DOMAIN x : x[i] \in FitExtension
    BY <1>3
  <2> QED
    BY <1>3, <1>4, <2>1 DEF ValidExtensions, UniqueIds
<1>7. ExactEncodedSize(r) <= MaxRecordOctets
  BY EncodeFacts
<1> HIDE DEF r
<1>8. IsRecord(r)
  BY <1>1, <1>2, <1>5 DEF IsRecord
<1>9. Encodable(r)
  BY <1>1, <1>6, <1>7 DEF Encodable, Valid
<1> QED
  BY <1>8, <1>9 DEF r

LEMMA B1Encodes ==
    ASSUME NEW r, IsRecord(r), Encodable(r)
    PROVE  /\ Encode(r) \in Seq(Octet)
           /\ ExactEncodedSize(r) \in Nat /\ ExactEncodedSize(r) >= EnvelopeOctets
           /\ Len(Encode(r)) = ExactEncodedSize(r)
<1>1. PICK tag \in Tags : \E v \in FitBodies[tag] : \E x \in FitExtensions :
         r = RecordOf(tag, v, x) /\ SizeOf(tag, v, x) <= MaxRecordOctets
  BY EncodableFits
<1>2. PICK v \in FitBodies[tag], x \in FitExtensions :
         r = RecordOf(tag, v, x) /\ SizeOf(tag, v, x) <= MaxRecordOctets
  BY <1>1
<1>3. SizeOf(tag, v, x) >= EnvelopeOctets
  <2>1. BodyImages[tag][v] \in Seq(Octet) /\ ExtensionList[x] \in Seq(Octet)
    BY EncodeFacts
  <2>2. PICK u \in Nat, b \in Nat, e \in Nat :
           u = EnvelopeOctets /\ b = Len(BodyImages[tag][v]) /\ e = Len(ExtensionList[x])
    <3>1. Len(BodyImages[tag][v]) \in Nat
      BY <2>1
    <3>2. Len(ExtensionList[x]) \in Nat
      BY <2>1
    <3> QED
      BY <3>1, <3>2, Sizes
  <2>3. SizeOf(tag, v, x) = u + b + e
    BY <2>2 DEF SizeOf
  <2>4. u + b + e >= u
    OBVIOUS
  <2> QED
    BY <2>2, <2>3, <2>4
<1>4. ExactEncodedSize(RecordOf(tag, v, x)) = SizeOf(tag, v, x)
  BY EncodeFacts
<1> QED
  BY <1>2, <1>3, <1>4, EncodeFacts

\* What a receiver has of a record.
Received(r, supported) == [r EXCEPT !.extensions = Kept(@, supported)]

LEMMA B1Receives ==
    ASSUME NEW r, IsRecord(r), Encodable(r), NEW supported
    PROVE  /\ IsRecord(Received(r, supported)) /\ Encodable(Received(r, supported))
           /\ Decode(Encode(r), supported) =
                 IF Admissible(r.extensions, supported) THEN <<Received(r, supported)>> ELSE << >>
           /\ (\A i \in DOMAIN r.extensions : r.extensions[i].id \in supported) =>
                 Received(r, supported) = r /\ Admissible(r.extensions, supported)
<1>1. PICK tag \in Tags : \E v \in FitBodies[tag] : \E x \in FitExtensions :
         /\ r = RecordOf(tag, v, x) /\ Valid(Kinds[tag], v) /\ ValidExtensions(x)
         /\ SizeOf(tag, v, x) <= MaxRecordOctets
  BY EncodableFits
<1>2. PICK v \in FitBodies[tag], x \in FitExtensions :
         /\ r = RecordOf(tag, v, x) /\ Valid(Kinds[tag], v) /\ ValidExtensions(x)
         /\ SizeOf(tag, v, x) <= MaxRecordOctets
  BY <1>1
<1> DEFINE kept == Kept(x, supported)
           d == RecordOf(tag, v, kept)
<1>3. Received(r, supported) = d /\ r.extensions = x
  BY <1>2 DEF Received, RecordOf
<1>4. UniqueIds(x) /\ x \in Seq(FitExtension) /\ Len(x) <= MaxExtensions
  BY <1>2 DEF ValidExtensions, UniqueIds, FitExtensions, Lists
<1>5. /\ kept \in Seq(FitExtension) /\ Len(kept) <= Len(x) /\ UniqueIds(kept)
      /\ ExtensionsSize(kept) <= ExtensionsSize(x)
      /\ ExtensionsSize(x) \in Nat /\ ExtensionsSize(kept) \in Nat
      /\ (\A i \in DOMAIN x : x[i].id \in supported) => kept = x
  BY <1>4, KeptFacts
<1>6. kept \in FitExtensions
  <2> HIDE DEF kept
  <2>1. Len(kept) \in Nat /\ Len(x) \in Nat /\ MaxExtensions \in Nat
    BY <1>4, <1>5, LimitsAssumption
  <2>2. Len(kept) <= MaxExtensions
    BY <1>4, <1>5, <2>1
  <2> QED
    BY <1>5, <2>2 DEF FitExtensions, Lists
<1>7. SizeOf(tag, v, kept) <= MaxRecordOctets
  <2> HIDE DEF kept
  <2>1. \A y \in FitExtensions : ExactEncodedSize(RecordOf(tag, v, y)) =
           EnvelopeOctets + PayloadSize([kind |-> Kinds[tag], body |-> v]) + ExtensionsSize(y)
    BY DEF ExactEncodedSize, RecordOf
  <2>2. \A y \in FitExtensions : ExactEncodedSize(RecordOf(tag, v, y)) = SizeOf(tag, v, y)
                                 /\ SizeOf(tag, v, y) \in Nat
    BY EncodeFacts
  <2>3. PayloadSize([kind |-> Kinds[tag], body |-> v]) \in Nat
    <3>1. Writes(BodyImages[tag], v, Payload(Kinds[tag], v),
                 PayloadSize([kind |-> Kinds[tag], body |-> v]))
      BY BodyWrites DEF BodyWritten
    <3> DEFINE image == Payload(Kinds[tag], v)
    <3>2. image \in Seq(Octet) /\ Len(image) = PayloadSize([kind |-> Kinds[tag], body |-> v])
      BY <3>1 DEF Writes
    <3> HIDE DEF image
    <3>3. Len(image) \in Nat
      BY <3>2
    <3> QED
      BY <3>2, <3>3
  <2>4. PICK u \in Nat, p \in Nat, a \in Nat, b \in Nat, m \in Nat :
           /\ u = EnvelopeOctets /\ p = PayloadSize([kind |-> Kinds[tag], body |-> v])
           /\ a = ExtensionsSize(x) /\ b = ExtensionsSize(kept) /\ m = MaxRecordOctets
    BY <1>5, <2>3, Sizes
  <2>5. SizeOf(tag, v, x) = u + p + a /\ SizeOf(tag, v, kept) = u + p + b
    BY <1>6, <2>1, <2>2, <2>4
  <2>6. b <= a /\ u + p + a <= m
    BY <1>2, <1>5, <2>4, <2>5
  <2>7. u + p + b <= m
    BY <2>6
  <2> QED
    BY <2>4, <2>5, <2>7
<1>8. IsRecord(d) /\ Encodable(d)
  <2> HIDE DEF kept
  <2> QED
    BY <1>2, <1>5, <1>6, <1>7, FitsAreRecords
<1>9. Encode(r) \in Seq(Octet)
  BY B1Encodes
<1>10. DecodeUnvalidated(Encode(r), supported) =
          IF Admissible(x, supported) THEN <<d>> ELSE << >>
  BY <1>2, <1>9, DecodesImage
<1>11. ValidOperation(d.operation)
  BY <1>2 DEF RecordOf, Valid
<1> HIDE DEF d, kept
<1>12. Decode(Encode(r), supported) = IF Admissible(x, supported) THEN <<d>> ELSE << >>
  <2>1. CASE Admissible(x, supported)
    <3>1. DecodeUnvalidated(Encode(r), supported) = <<d>> /\ <<d>> # << >> /\ <<d>>[1] = d
      BY <1>10, <2>1
    <3> QED
      BY <1>11, <2>1, <3>1 DEF Decode
  <2>2. CASE ~Admissible(x, supported)
    BY <1>10, <2>2 DEF Decode
  <2> QED
    BY <2>1, <2>2
<1>13. (\A i \in DOMAIN x : x[i].id \in supported) => d = r /\ Admissible(x, supported)
  BY <1>2, <1>4, <1>5 DEF d, Admissible, UniqueIds
<1> QED
  BY <1>3, <1>8, <1>12, <1>13

LEMMA B1Decoded ==
    ASSUME NEW w \in Seq(Octet), NEW supported, Decode(w, supported) # << >>
    PROVE  \E r : /\ IsRecord(r) /\ Encodable(r) /\ w = Encode(r)
                  /\ Decode(w, supported) = <<Received(r, supported)>>
<1> DEFINE got == DecodeUnvalidated(w, supported)
<1>1. got # << >> /\ ValidOperation(got[1].operation) /\ Decode(w, supported) = got
  BY DEF Decode
<1>2. PICK tag \in Tags : \E v \in FitBodies[tag] : \E x \in FitExtensions :
         /\ SizeOf(tag, v, x) <= MaxRecordOctets /\ w = Encode(RecordOf(tag, v, x))
         /\ Admissible(x, supported)
         /\ got = <<RecordOf(tag, v, Kept(x, supported))>>
  BY <1>1, DecodedIsImage
<1>3. PICK v \in FitBodies[tag], x \in FitExtensions :
         /\ SizeOf(tag, v, x) <= MaxRecordOctets /\ w = Encode(RecordOf(tag, v, x))
         /\ Admissible(x, supported)
         /\ got = <<RecordOf(tag, v, Kept(x, supported))>>
  BY <1>2
<1> HIDE DEF got
<1>4. Valid(Kinds[tag], v)
  <2>1. got[1] = RecordOf(tag, v, Kept(x, supported))
    BY <1>3
  <2> QED
    BY <1>1, <2>1 DEF RecordOf, Valid
<1>5. UniqueIds(x)
  BY <1>3 DEF Admissible, UniqueIds
<1>6. IsRecord(RecordOf(tag, v, x)) /\ Encodable(RecordOf(tag, v, x))
  BY <1>3, <1>4, <1>5, FitsAreRecords
<1>7. Received(RecordOf(tag, v, x), supported) = RecordOf(tag, v, Kept(x, supported))
  BY DEF Received, RecordOf
<1> QED
  BY <1>1, <1>3, <1>6, <1>7


---------------------------------------------------------------------------
(* No record is longer than the maximum its kind declares.                 *)

LEMMA TimesMonotone ==
    ASSUME NEW a \in Nat, NEW b \in Nat, NEW c \in Nat, a <= b
    PROVE  a * c \in Nat /\ b * c \in Nat /\ a * c <= b * c
<1>1. PICK d \in Nat : b = a + d
  <2>1. b - a \in Nat /\ b = a + (b - a)
    OBVIOUS
  <2> QED
    BY <2>1
<1>2. a * c \in Nat /\ d * c \in Nat
  OBVIOUS
<1>3. b * c = a * c + d * c
  BY <1>1
<1>4. PICK m \in Nat, n \in Nat : m = a * c /\ n = d * c
  BY <1>2
<1>5. m + n \in Nat /\ m <= m + n
  OBVIOUS
<1> QED
  BY <1>3, <1>4, <1>5

LEMMA CapabilitiesMaximum ==
    ASSUME NEW v \in FitCapabilities
    PROVE  /\ PayloadSize([kind |-> "CAPABILITIES", body |-> v]) <= MaximumPayload("CAPABILITIES")
           /\ MaximumPayload("CAPABILITIES") \in Nat
<1>1. PICK a \in Nat, c \in Nat, d \in Nat, e \in Nat :
         a = Width.u16 /\ c = Width.u32 /\ d = Width.u64 /\ e = Width.id
  BY WidthFacts
<1>2. PICK gm \in Nat, sm \in Nat, pm \in Nat, xm \in Nat :
         /\ gm = MaxCapabilityProtocols /\ sm = MaxCapabilitySchemas
         /\ pm = MaxCapabilityCodecs /\ xm = MaxExtensions
  BY LimitsAssumption
<1>3. /\ Len(v.protocol_generations) \in Nat /\ Len(v.protocol_generations) <= gm
      /\ Len(v.schema_fingerprints) \in Nat /\ Len(v.schema_fingerprints) <= sm
      /\ Len(v.codec_preferences) \in Nat /\ Len(v.codec_preferences) <= pm
      /\ Len(v.extensions) \in Nat /\ Len(v.extensions) <= xm
  BY <1>2 DEF FitCapabilities, Lists
<1>4. PICK g \in Nat, s \in Nat, p \in Nat, x \in Nat :
         /\ g = Len(v.protocol_generations) /\ s = Len(v.schema_fingerprints)
         /\ p = Len(v.codec_preferences) /\ x = Len(v.extensions)
         /\ g <= gm /\ s <= sm /\ p <= pm /\ x <= xm
  BY <1>3
<1>5. PayloadSize([kind |-> "CAPABILITIES", body |-> v]) =
         (1 + g * (a + a)) + (1 + s * e) + (1 + p * (c + c + e)) + c + d + 1 + 1
           + (1 + x * (c + 1))
  BY <1>1, <1>4 DEF PayloadSize
<1>6. MaximumPayload("CAPABILITIES") =
         1 + gm * 2 * a + 1 + sm * e + 1 + pm * (2 * c + e) + c + d + 2 + 1 + xm * (c + 1)
  BY <1>1, <1>2 DEF MaximumPayload
<1>7. /\ g * (a + a) \in Nat /\ gm * (a + a) \in Nat /\ g * (a + a) <= gm * (a + a)
      /\ gm * 2 * a = gm * (a + a)
  <2>1. a + a \in Nat
    OBVIOUS
  <2>2. g * (a + a) \in Nat /\ gm * (a + a) \in Nat /\ g * (a + a) <= gm * (a + a)
    BY <1>4, <2>1, TimesMonotone
  <2>3. gm * 2 * a = gm * (a + a)
    OBVIOUS
  <2> QED
    BY <2>2, <2>3
<1>8. s * e \in Nat /\ sm * e \in Nat /\ s * e <= sm * e
  BY <1>4, TimesMonotone
<1>9. /\ p * (c + c + e) \in Nat /\ pm * (c + c + e) \in Nat
      /\ p * (c + c + e) <= pm * (c + c + e) /\ pm * (2 * c + e) = pm * (c + c + e)
  <2>1. c + c + e \in Nat /\ 2 * c + e = c + c + e
    OBVIOUS
  <2> QED
    BY <1>4, <2>1, TimesMonotone
<1>10. x * (c + 1) \in Nat /\ xm * (c + 1) \in Nat /\ x * (c + 1) <= xm * (c + 1)
  <2>1. c + 1 \in Nat
    OBVIOUS
  <2> QED
    BY <1>4, <2>1, TimesMonotone
<1>11. PICK t1 \in Nat, t2 \in Nat, t3 \in Nat, t4 \in Nat, m1 \in Nat, m2 \in Nat, m3 \in Nat,
             m4 \in Nat :
         /\ t1 = g * (a + a) /\ t2 = s * e /\ t3 = p * (c + c + e) /\ t4 = x * (c + 1)
         /\ m1 = gm * 2 * a /\ m2 = sm * e /\ m3 = pm * (2 * c + e) /\ m4 = xm * (c + 1)
         /\ t1 <= m1 /\ t2 <= m2 /\ t3 <= m3 /\ t4 <= m4
  BY <1>7, <1>8, <1>9, <1>10
<1>12. /\ (1 + t1) + (1 + t2) + (1 + t3) + c + d + 1 + 1 + (1 + t4)
              <= 1 + m1 + 1 + m2 + 1 + m3 + c + d + 2 + 1 + m4
       /\ 1 + m1 + 1 + m2 + 1 + m3 + c + d + 2 + 1 + m4 \in Nat
  BY <1>11
<1> QED
  BY <1>5, <1>6, <1>11, <1>12

LEMMA CursorMaximum ==
    ASSUME NEW cursor \in Cursor
    PROVE  CursorSize(cursor) \in Nat /\ CursorSize(cursor) <= 1 + 2 * Width.id + Width.u32
<1>1. PICK c \in Nat, d \in Nat, e \in Nat :
         c = Width.u32 /\ d = Width.u64 /\ e = Width.id
  BY WidthFacts
<1>2. \/ CursorSize(cursor) = 1 + d
      \/ CursorSize(cursor) = 1 + (e + c + e)
  BY <1>1 DEF CursorSize
<1>3. d <= 2 * e + c
  BY <1>1, MaximumAssumption
<1> QED
  BY <1>1, <1>2, <1>3

LEMMA TextMaximum ==
    ASSUME NEW text \in Texts(MaxFailureDetailOctets)
    PROVE  TextSize(text) \in Nat /\ TextSize(text) <= MaximumText /\ MaximumText \in Nat
<1>1. PICK u \in Nat, m \in Nat : u = Width.u16 /\ m = MaxFailureDetailOctets
  BY WidthFacts, DetailBound
<1>2. CASE text = << >>
  BY <1>1, <1>2 DEF TextSize, MaximumText
<1>3. CASE text # << >>
  <2>1. text \in Option(Seq(Octet)) /\ 1 \in DOMAIN text /\ text[1] \in Seq(Octet)
        /\ Len(text[1]) <= m
    BY <1>1, <1>3 DEF Texts, Lists, Option
  <2>2. PICK n \in Nat : n = Len(text[1])
    BY <2>1
  <2>3. TextSize(text) = 1 + (u + n) /\ n <= m
    BY <1>1, <1>3, <2>1, <2>2 DEF TextSize
  <2> QED
    BY <1>1, <2>3 DEF MaximumText
<1> QED
  BY <1>2, <1>3

LEMMA DescriptorMaximum ==
    ASSUME NEW e \in FitEntry
    PROVE  DescriptorSize(e) \in Nat /\ DescriptorSize(e) <= MaximumDescriptor
           /\ MaximumDescriptor \in Nat
<1>1. PICK a \in Nat, c \in Nat, d \in Nat, i \in Nat, m \in Nat :
         /\ a = Width.u16 /\ c = Width.u32 /\ d = Width.u64 /\ i = Width.id
         /\ m = MaxCodecParameterOctets
  BY WidthFacts, BoundsAssumption, NumbersAreNaturals DEF U16
<1>2. /\ Len(e.codec_parameters) \in Nat /\ Len(e.codec_parameters) <= m
      /\ Len(e.decoded_length) \in Nat /\ Len(e.decoded_length) <= 1
      /\ Len(e.usefulness_expiry) \in Nat /\ Len(e.usefulness_expiry) <= 1
  BY <1>1 DEF FitEntry, Lists, Option
<1>3. PICK p \in Nat, x \in Nat, y \in Nat :
         /\ p = Len(e.codec_parameters) /\ x = Len(e.decoded_length)
         /\ y = Len(e.usefulness_expiry) /\ p <= m /\ x <= 1 /\ y <= 1
  BY <1>2
<1>4. DescriptorSize(e) =
         d + i + c + i + i + c + c + (a + p) + d + (1 + x * d) + i + (1 + y * d)
  BY <1>1, <1>3 DEF DescriptorSize
<1>5. MaximumDescriptor = 4 * d + 4 * i + 3 * c + a + m + 2
  BY <1>1 DEF MaximumDescriptor
<1>6. x * d \in Nat /\ x * d <= d /\ y * d \in Nat /\ y * d <= d
  <2>1. /\ x * d \in Nat /\ 1 * d \in Nat /\ x * d <= 1 * d
        /\ y * d \in Nat /\ y * d <= 1 * d
    BY <1>3, TimesMonotone
  <2> QED
    BY <2>1
<1>7. PICK xd \in Nat, yd \in Nat : xd = x * d /\ yd = y * d /\ xd <= d /\ yd <= d
  BY <1>6
<1>8. DescriptorSize(e) = d + i + c + i + i + c + c + (a + p) + d + (1 + xd) + i + (1 + yd)
  BY <1>4, <1>7
<1>9. d + i + c + i + i + c + c + (a + p) + d + (1 + xd) + i + (1 + yd) \in Nat
  OBVIOUS
<1>10. d + i + c + i + i + c + c + (a + p) + d + (1 + xd) + i + (1 + yd)
            <= 4 * d + 4 * i + 3 * c + a + m + 2
  <2>1. p <= m
    BY <1>3
  <2>2. xd <= d /\ yd <= d
    BY <1>7
  <2> QED
    BY <2>1, <2>2
<1>11. 4 * d + 4 * i + 3 * c + a + m + 2 \in Nat
  OBVIOUS
<1> QED
  BY <1>5, <1>8, <1>9, <1>10, <1>11

LEMMA OfferMaximum ==
    ASSUME NEW v \in FitOffer
    PROVE  /\ PayloadSize([kind |-> "OFFER", body |-> v]) <= MaximumPayload("OFFER")
           /\ MaximumPayload("OFFER") \in Nat
<1>1. PICK c \in Nat, d \in Nat, i \in Nat, m \in Nat :
         c = Width.u32 /\ d = Width.u64 /\ i = Width.id /\ m = MaxOfferDescriptors
  BY WidthFacts, BoundsAssumption DEF Octet
<1>2. PICK f \in Nat, l \in Nat :
         /\ f = CursorSize(v.first_cursor) /\ l = CursorSize(v.last_cursor)
         /\ f <= 1 + 2 * i + c /\ l <= 1 + 2 * i + c
  BY <1>1, CursorMaximum DEF FitOffer
<1> DEFINE list == v.descriptors
           sizes == [k \in DOMAIN list |-> DescriptorSize(list[k])]
<1>3. list \in Seq(FitEntry) /\ Len(list) <= m
  BY <1>1 DEF FitOffer, Lists
<1>4. PICK n \in Nat : n = Len(list) /\ n <= m /\ DOMAIN list = 1 .. n
  <2> HIDE DEF list
  <2> QED
    BY <1>3
<1>5. \A k \in 1 .. n : DescriptorSize(list[k]) \in Nat /\ DescriptorSize(list[k]) <= MaximumDescriptor
  <2> HIDE DEF list
  <2>1. \A k \in 1 .. n : list[k] \in FitEntry
    BY <1>3, <1>4
  <2> QED
    BY <2>1, DescriptorMaximum
<1>6. sizes \in [1 .. n -> Nat] /\ \A k \in 1 .. n : sizes[k] <= MaximumDescriptor
  <2> HIDE DEF list
  <2> QED
    BY <1>4, <1>5
<1>7. PICK q \in Nat : q = MaximumDescriptor
  BY <1>1, WidthFacts, BoundsAssumption, NumbersAreNaturals DEF MaximumDescriptor, U16
<1>8. SumOf(sizes) \in Nat /\ SumOf(sizes) <= n * q
  <2> HIDE DEF sizes
  <2> QED
    BY <1>6, <1>7, SumOfBound
<1>9. n * q \in Nat /\ m * q \in Nat /\ n * q <= m * q
  BY <1>4, TimesMonotone
<1>10. PICK s \in Nat, z \in Nat, nq \in Nat : s = SumOf(sizes) /\ z = m * q /\ nq = n * q
  BY <1>8, <1>9
<1>11. s <= z
  <2>1. s <= nq /\ nq <= z
    BY <1>8, <1>9, <1>10
  <2> QED
    BY <2>1
<1>12. SumOver(DescriptorSize, v.descriptors) = s
  BY <1>10 DEF SumOver
<1>13. PayloadSize([kind |-> "OFFER", body |-> v]) = i + 1 + d + d + f + l + (1 + s) + 1
  BY <1>1, <1>2, <1>12 DEF PayloadSize
<1>14. MaximumPayload("OFFER") = i + 1 + 2 * d + 2 * (1 + 2 * i + c) + 1 + z + 1
  BY <1>1, <1>7, <1>10 DEF MaximumPayload
<1> HIDE DEF sizes, list
<1>15. i + 1 + d + d + f + l + (1 + s) + 1 <= i + 1 + 2 * d + 2 * (1 + 2 * i + c) + 1 + z + 1
  BY <1>2, <1>11
<1>16. i + 1 + 2 * d + 2 * (1 + 2 * i + c) + 1 + z + 1 \in Nat
  OBVIOUS
<1> QED
  BY <1>13, <1>14, <1>15, <1>16

LEMMA RequestMaximum ==
    ASSUME NEW v \in FitRequest
    PROVE  /\ PayloadSize([kind |-> "REQUEST", body |-> v]) <= MaximumPayload("REQUEST")
           /\ MaximumPayload("REQUEST") \in Nat
<1>1. PICK c \in Nat, d \in Nat, i \in Nat, h \in Nat, m \in Nat :
         /\ c = Width.u32 /\ d = Width.u64 /\ i = Width.id /\ h = Width.id16
         /\ m = MaxRequestSelections
  BY WidthFacts, BoundsAssumption DEF Octet
<1>2. MaximumPayload("REQUEST") = 1 + h + 3 * d + 1 + m * (i + 2 * d)
  BY <1>1 DEF MaximumPayload
<1>3. m * (i + 2 * d) \in Nat
  OBVIOUS
<1>4. PICK z \in Nat : z = m * (i + 2 * d)
  BY <1>3
<1>5. CASE v \in PageRequest
  <2>1. PICK s \in Nat : s = CursorSize(v.committed_cursor) /\ s <= 1 + 2 * i + c
    BY <1>1, <1>5, CursorMaximum DEF PageRequest
  <2>2. "mode" \in DOMAIN v
    BY <1>5 DEF PageRequest
  <2>3. PayloadSize([kind |-> "REQUEST", body |-> v]) = 1 + (i + d + 1 + s + 1)
    BY <1>1, <2>1, <2>2 DEF PayloadSize
  <2>4. 4 + 3 * i + d + c <= 1 + h + 3 * d + 1 + z
    BY <1>1, <1>2, <1>4, MaximumAssumption
  <2>5. 1 + (i + d + 1 + s + 1) <= 1 + h + 3 * d + 1 + z
    BY <2>1, <2>4
  <2> QED
    BY <1>2, <1>4, <2>3, <2>5
<1>6. CASE v \in FitDataRequest
  <2>1. "mode" \notin DOMAIN v /\ Len(v.selections) \in Nat /\ Len(v.selections) <= m
    BY <1>1, <1>6 DEF FitDataRequest, Lists
  <2>2. PICK n \in Nat : n = Len(v.selections) /\ n <= m
    BY <2>1
  <2>3. PayloadSize([kind |-> "REQUEST", body |-> v]) = 1 + (h + d + d + d + (1 + n * (i + d + d)))
    BY <1>1, <2>1, <2>2 DEF PayloadSize
  <2>4. i + d + d \in Nat /\ i + 2 * d = i + d + d
    OBVIOUS
  <2>5. n * (i + d + d) \in Nat /\ n * (i + d + d) <= m * (i + d + d)
    BY <2>2, <2>4, TimesMonotone
  <2>6. PICK y \in Nat : y = n * (i + d + d) /\ y <= z
    BY <1>4, <2>4, <2>5
  <2>7. 1 + (h + d + d + d + (1 + y)) <= 1 + h + 3 * d + 1 + z
    BY <2>6
  <2> QED
    BY <1>2, <1>4, <2>3, <2>6, <2>7
<1>7. 1 + h + 3 * d + 1 + z \in Nat
  OBVIOUS
<1> QED
  BY <1>2, <1>4, <1>5, <1>6, <1>7 DEF FitRequest

LEMMA OtherMaxima ==
    /\ \A v \in Summary :
          PayloadSize([kind |-> "SUMMARY", body |-> v]) <= MaximumPayload("SUMMARY")
    /\ \A v \in FitReceipt :
          PayloadSize([kind |-> "RECEIPT", body |-> v]) <= MaximumPayload("RECEIPT")
    /\ \A v \in FitFailure :
          PayloadSize([kind |-> "FAILURE", body |-> v]) <= MaximumPayload("FAILURE")
    /\ MaximumPayload("SUMMARY") \in Nat /\ MaximumPayload("RECEIPT") \in Nat
    /\ MaximumPayload("FAILURE") \in Nat
<1>1. PICK d \in Nat, i \in Nat, h \in Nat, m \in Nat, u \in Nat, f \in Nat :
         /\ d = Width.u64 /\ i = Width.id /\ h = Width.id16 /\ m = MaxFailureScopeOctets
         /\ u = Width.u16 /\ f = MaxFailureDetailOctets
  <2>1. MaxFailureScopeOctets \in Nat
    BY BoundsAssumption DEF Octet
  <2> QED
    BY <2>1, WidthFacts, DetailBound
<1>2. MaximumPayload("SUMMARY") = 2 * i + 2 * d
  BY <1>1 DEF MaximumPayload
<1>3. MaximumPayload("RECEIPT") = i + 1 + 1 + i + h + MaximumText
  BY <1>1 DEF MaximumPayload
<1>4. MaximumPayload("FAILURE") = 1 + 1 + m + 1 + MaximumText
  BY <1>1 DEF MaximumPayload
<1>5. PICK t \in Nat : t = MaximumText
  BY <1>1 DEF MaximumText
<1>6. ASSUME NEW v \in Summary
      PROVE  PayloadSize([kind |-> "SUMMARY", body |-> v]) <= MaximumPayload("SUMMARY")
  <2>1. PayloadSize([kind |-> "SUMMARY", body |-> v]) = i + d + d + i
    BY <1>1 DEF PayloadSize
  <2> QED
    BY <1>2, <2>1
<1>7. ASSUME NEW v \in FitReceipt
      PROVE  PayloadSize([kind |-> "RECEIPT", body |-> v]) <= MaximumPayload("RECEIPT")
  <2>1. Len(v.verified_digest) \in Nat /\ Len(v.verified_digest) <= 1
    BY DEF FitReceipt, Lists, Option
  <2>2. PICK n \in Nat : n = Len(v.verified_digest) /\ n <= 1
    BY <2>1
  <2>3. PICK r \in Nat : r = TextSize(v.reason) /\ r <= t
    BY <1>5, TextMaximum DEF FitReceipt
  <2>4. PayloadSize([kind |-> "RECEIPT", body |-> v]) = i + 1 + (1 + n * i) + h + r
    BY <1>1, <2>2, <2>3 DEF PayloadSize
  <2>5. n * i \in Nat /\ 1 * i \in Nat /\ n * i <= 1 * i
    BY <2>2, TimesMonotone
  <2>6. PICK x \in Nat : x = n * i /\ x <= i
    BY <2>5
  <2>7. i + 1 + (1 + x) + h + r <= i + 1 + 1 + i + h + t
    BY <2>3, <2>6
  <2> QED
    BY <1>3, <1>5, <2>4, <2>6, <2>7
<1>8. ASSUME NEW v \in FitFailure
      PROVE  PayloadSize([kind |-> "FAILURE", body |-> v]) <= MaximumPayload("FAILURE")
  <2>1. Len(v.scope) \in Nat /\ Len(v.scope) <= m
    BY <1>1 DEF FitFailure, Lists
  <2>2. PICK n \in Nat : n = Len(v.scope) /\ n <= m
    BY <2>1
  <2>3. PICK r \in Nat : r = TextSize(v.detail) /\ r <= t
    BY <1>5, TextMaximum DEF FitFailure
  <2>4. PayloadSize([kind |-> "FAILURE", body |-> v]) = 1 + (1 + n) + 1 + r
    BY <2>2, <2>3 DEF PayloadSize
  <2>5. 1 + (1 + n) + 1 + r <= 1 + 1 + m + 1 + t
    BY <2>2, <2>3
  <2> QED
    BY <1>4, <1>5, <2>4, <2>5
<1> QED
  BY <1>2, <1>3, <1>4, <1>5, <1>6, <1>7, <1>8

LEMMA ExtensionsMaximum ==
    ASSUME NEW x \in FitExtensions
    PROVE  /\ ExtensionsSize(x) \in Nat /\ ExtensionsSize(x) <= MaximumExtensions
           /\ MaximumExtensions \in Nat
<1> DEFINE sizes == [k \in DOMAIN x |-> ExtensionSize(x[k])]
<1>1. PICK c \in Nat, a \in Nat, m \in Nat, l \in Nat :
         /\ c = Width.u32 /\ a = Width.u16 /\ m = MaxExtensions /\ l = MaxExtensionValueOctets
  BY WidthFacts, LimitsAssumption, BoundsAssumption, NumbersAreNaturals DEF U16
<1>2. x \in Seq(FitExtension) /\ Len(x) <= m
  BY <1>1 DEF FitExtensions, Lists
<1>3. PICK n \in Nat : n = Len(x) /\ n <= m /\ DOMAIN x = 1 .. n
  BY <1>2
<1>4. PICK q \in Nat : q = c + 1 + a + l
  OBVIOUS
<1>5. ASSUME NEW k \in 1 .. n
      PROVE  ExtensionSize(x[k]) \in Nat /\ ExtensionSize(x[k]) <= q
  <2> HIDE DEF sizes
  <2>1. x[k] \in FitExtension
    BY <1>2, <1>3
  <2>2. Len(x[k].value) \in Nat /\ Len(x[k].value) <= l
    BY <1>1, <2>1 DEF FitExtension, Lists
  <2>3. PICK p \in Nat : p = Len(x[k].value) /\ p <= l
    BY <2>2
  <2>4. ExtensionSize(x[k]) = c + 1 + (a + p)
    BY <1>1, <2>3 DEF ExtensionSize
  <2>5. c + 1 + (a + p) \in Nat
    OBVIOUS
  <2>6. p <= l
    BY <2>3
  <2>7. c + 1 + (a + p) <= c + 1 + a + l
    BY <2>6
  <2> QED
    BY <1>4, <2>4, <2>5, <2>7
<1>6. sizes \in [1 .. n -> Nat] /\ \A k \in 1 .. n : sizes[k] <= q
  BY <1>3, <1>5
<1>7. SumOf(sizes) \in Nat /\ SumOf(sizes) <= n * q
  <2> HIDE DEF sizes
  <2> QED
    BY <1>6, SumOfBound
<1>8. n * q \in Nat /\ m * q \in Nat /\ n * q <= m * q
  BY <1>3, TimesMonotone
<1>9. PICK s \in Nat, y \in Nat, z \in Nat :
         s = SumOf(sizes) /\ y = n * q /\ z = m * q /\ s <= y /\ y <= z
  BY <1>7, <1>8
<1>10. ExtensionsSize(x) = 1 + s
  BY <1>9 DEF ExtensionsSize, SumOver
<1>11. MaximumExtensions = 1 + z
  <2>1. MaximumExtensions = 1 + m * (c + 1 + a + l)
    BY <1>1 DEF MaximumExtensions
  <2> QED
    BY <1>4, <1>9, <2>1
<1> HIDE DEF sizes
<1>12. 1 + s <= 1 + z /\ 1 + s \in Nat /\ 1 + z \in Nat
  BY <1>9
<1> QED
  BY <1>10, <1>11, <1>12

LEMMA B1Maximum ==
    ASSUME NEW r, IsRecord(r), Encodable(r)
    PROVE  /\ ExactEncodedSize(r) <= DeclaredMaximum(r.operation.kind)
           /\ DeclaredMaximum(r.operation.kind) \in Nat
<1>1. PICK tag \in Tags : \E v \in FitBodies[tag] : \E x \in FitExtensions :
         r = RecordOf(tag, v, x) /\ SizeOf(tag, v, x) <= MaxRecordOctets
  BY EncodableFits
<1>2. PICK v \in FitBodies[tag], x \in FitExtensions :
         r = RecordOf(tag, v, x) /\ SizeOf(tag, v, x) <= MaxRecordOctets
  BY <1>1
<1>3. /\ r.operation = [kind |-> Kinds[tag], body |-> v] /\ r.extensions = x
      /\ r.operation.kind = Kinds[tag]
  BY <1>2 DEF RecordOf
<1>4. CASE tag = 5
  <2>1. DeclaredMaximum(r.operation.kind) = MaxRecordOctets
    BY <1>3, <1>4 DEF Kinds, DeclaredMaximum
  <2> QED
    BY <1>2, <2>1, EncodeFacts, Sizes
<1>5. CASE tag # 5
  <2>1. /\ PayloadSize([kind |-> Kinds[tag], body |-> v]) <= MaximumPayload(Kinds[tag])
        /\ MaximumPayload(Kinds[tag]) \in Nat
    <3>1. CASE tag = 1
      BY <3>1, CapabilitiesMaximum DEF FitBodies, Kinds
    <3>2. CASE tag = 2
      BY <3>2, OtherMaxima DEF FitBodies, Kinds
    <3>3. CASE tag = 3
      BY <3>3, OfferMaximum DEF FitBodies, Kinds
    <3>4. CASE tag = 4
      BY <3>4, RequestMaximum DEF FitBodies, Kinds
    <3>6. CASE tag = 6
      BY <3>6, OtherMaxima DEF FitBodies, Kinds
    <3>7. CASE tag = 7
      BY <3>7, OtherMaxima DEF FitBodies, Kinds
    <3> QED
      BY <1>5, <3>1, <3>2, <3>3, <3>4, <3>6, <3>7 DEF Tags
  <2>2. DeclaredMaximum(r.operation.kind) =
           EnvelopeOctets + MaximumPayload(Kinds[tag]) + MaximumExtensions
    BY <1>3, <1>5 DEF Kinds, DeclaredMaximum, Tags
  <2>3. ExactEncodedSize(r) =
           EnvelopeOctets + PayloadSize([kind |-> Kinds[tag], body |-> v]) + ExtensionsSize(x)
    BY <1>3 DEF ExactEncodedSize
  <2>4. PayloadSize([kind |-> Kinds[tag], body |-> v]) \in Nat
    <3>1. Writes(BodyImages[tag], v, Payload(Kinds[tag], v),
                 PayloadSize([kind |-> Kinds[tag], body |-> v]))
      BY BodyWrites DEF BodyWritten
    <3> DEFINE image == Payload(Kinds[tag], v)
    <3>2. image \in Seq(Octet) /\ Len(image) = PayloadSize([kind |-> Kinds[tag], body |-> v])
      BY <3>1 DEF Writes
    <3> HIDE DEF image
    <3>3. Len(image) \in Nat
      BY <3>2
    <3> QED
      BY <3>2, <3>3
  <2>5. PICK u \in Nat, p \in Nat, q \in Nat, e \in Nat, f \in Nat :
           /\ u = EnvelopeOctets /\ p = PayloadSize([kind |-> Kinds[tag], body |-> v])
           /\ q = MaximumPayload(Kinds[tag]) /\ e = ExtensionsSize(x) /\ f = MaximumExtensions
           /\ p <= q /\ e <= f
    BY <2>1, <2>4, Sizes, ExtensionsMaximum
  <2>6. u + p + e <= u + q + f /\ u + q + f \in Nat
    BY <2>5
  <2> QED
    BY <2>2, <2>3, <2>5, <2>6
<1> QED
  BY <1>4, <1>5

=============================================================================
