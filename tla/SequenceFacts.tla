--------------------------- MODULE SequenceFacts ----------------------------
(* Facts about numbers, sequences and sums that the proofs share:          *)
(* induction, what Append, Tail and FlattenSeq compute for every sequence, *)
(* and what MapThenSumSet computes for every finite set.                   *)
EXTENDS Naturals, SequencesExt, SequenceTheorems, FiniteSetTheorems,
        WellFoundedInduction, TLAPS

(* A set of naturals that is not empty has a least element. *)
LEMMA LeastNat ==
  ASSUME NEW T \in SUBSET Nat, T # {}
  PROVE  \E n \in T : \A m \in T : n <= m
  <1>1. PICK n \in T : \A m \in T : ~(<< m, n >> \in OpToRel(<, Nat))
    BY WFMin, NatLessThanWellFounded, Zenon
  <1>2. \A m \in T : ~(m < n)
    BY <1>1 DEF OpToRel
  <1>3. QED
    BY <1>2

(* Induction, on a set rather than on a formula: this is what lets the     *)
(* recursive definitions below be reasoned about.                          *)
LEMMA NatInd ==
  ASSUME NEW T, 0 \in T, \A n \in Nat : n \in T => n + 1 \in T
  PROVE  Nat \subseteq T
  <1> SUFFICES ASSUME Nat \ T # {} PROVE FALSE
    OBVIOUS
  <1>1. PICK n \in Nat \ T : \A m \in Nat \ T : n <= m
    BY LeastNat
  <1>2. n # 0 /\ n - 1 \in Nat /\ n - 1 \in T
    BY <1>1
  <1>3. QED
    BY <1>2

(* Only the empty sequence has no length. *)
LEMMA NonEmptyLength ==
  ASSUME NEW S, NEW s \in Seq(S)
  PROVE  s # << >> <=> Len(s) > 0
  BY EmptySeq, LenProperties

(* A piece of a sequence, as a function of the index. *)
LEMMA SliceIs ==
  ASSUME NEW S, NEW s \in Seq(S), NEW a \in Nat, NEW n \in Nat, a + n <= Len(s)
  PROVE  SubSeq(s, a + 1, a + n) = [k \in 1 .. n |-> s[a + k]]
  <1>1. Len(s) \in Nat
    BY LenProperties
  <1>2. SubSeq(s, a + 1, a + n) = [k \in 1 .. n |-> s[(a + 1) + k - 1]]
    BY <1>1
  <1>3. \A k \in 1 .. n : (a + 1) + k - 1 = a + k
    OBVIOUS
  <1>4. QED
    BY <1>2, <1>3

(* Append, and dropping the head before it, as functions of the index. *)
LEMMA AppendPointwise ==
  ASSUME NEW S, NEW s \in Seq(S), NEW e \in S
  PROVE  Append(s, e)
           = [k \in 1 .. Len(s) + 1 |-> IF k = Len(s) + 1 THEN e ELSE s[k]]
  <1> DEFINE t == [k \in 1 .. Len(s) + 1 |->
                     IF k = Len(s) + 1 THEN e ELSE s[k]]
  <1>1. Len(s) \in Nat /\ \A k \in 1 .. Len(s) : s[k] \in S
    BY ElementOfSeq, LenProperties
  <1>2. t \in Seq(S) /\ Len(t) = Len(s) + 1
    <2>1. \A k \in 1 .. Len(s) + 1 :
            (IF k = Len(s) + 1 THEN e ELSE s[k]) \in S
      BY <1>1
    <2>2. QED
      BY <1>1, <2>1
  <1>3. /\ Append(s, e) \in Seq(S)
        /\ Len(Append(s, e)) = Len(s) + 1
        /\ \A k \in 1 .. Len(s) + 1 : Append(s, e)[k] = t[k]
    <2>1. /\ Append(s, e) \in Seq(S)
          /\ Len(Append(s, e)) = Len(s) + 1
          /\ \A k \in 1 .. Len(s) : Append(s, e)[k] = s[k]
          /\ Append(s, e)[Len(s) + 1] = e
      BY AppendProperties
    <2>2. ASSUME NEW k \in 1 .. Len(s) + 1
          PROVE  Append(s, e)[k] = t[k]
      <3>1. t[k] = IF k = Len(s) + 1 THEN e ELSE s[k]
        OBVIOUS
      <3>2. CASE k = Len(s) + 1
        BY <2>1, <3>1, <3>2
      <3>3. CASE k # Len(s) + 1
        BY <1>1, <2>1, <3>1, <3>3
      <3>4. QED
        BY <3>2, <3>3
    <2>3. QED
      BY <2>1, <2>2
  <1> HIDE DEF t
  <1>4. t = Append(s, e)
    BY <1>2, <1>3, SeqEqual
  <1>5. QED
    BY <1>4 DEF t

LEMMA ShiftPointwise ==
  ASSUME NEW S, NEW s \in Seq(S), NEW e \in S, s # << >>
  PROVE  Append(Tail(s), e)
           = [k \in 1 .. Len(s) |-> IF k = Len(s) THEN e ELSE s[k + 1]]
  <1> DEFINE r == Tail(s)
  <1>1. /\ r \in Seq(S)
        /\ Len(r) = Len(s) - 1
        /\ Len(s) \in Nat
        /\ \A k \in 1 .. Len(r) : r[k] = s[k + 1]
    BY HeadTailProperties, LenProperties
  <1> HIDE DEF r
  <1>2. Append(r, e) = [k \in 1 .. Len(r) + 1 |->
                          IF k = Len(r) + 1 THEN e ELSE r[k]]
    BY <1>1, AppendPointwise
  <1>3. Len(r) + 1 = Len(s)
    BY <1>1
  <1>4. Append(r, e) = [k \in 1 .. Len(s) |-> IF k = Len(s) THEN e ELSE r[k]]
    BY <1>2, <1>3
  <1>5. \A k \in 1 .. Len(s) : k # Len(s) => r[k] = s[k + 1]
    BY <1>1
  <1>6. QED
    BY <1>4, <1>5 DEF r

-----------------------------------------------------------------------------
(* Concatenation. *)

(* The equation FlattenSeq's recursive function solves for n pieces. *)
FlattenStep(seqs, n, g) ==
  [i \in 1 .. n |-> IF i = 1 THEN seqs[i] ELSE g[i - 1] \o seqs[i]]

LEMMA FlattenExists ==
  ASSUME NEW seqs
  PROVE  \A n \in Nat : \E g : g = FlattenStep(seqs, n, g)
  <1> DEFINE T == {n \in Nat : \E g : g = FlattenStep(seqs, n, g)}
  <1>1. 0 \in T
    <2> DEFINE e == [i \in 1 .. 0 |-> 0]
    <2>1. e = FlattenStep(seqs, 0, e)
      BY DEF FlattenStep
    <2>2. QED
      BY <2>1
  <1>2. ASSUME NEW n \in Nat, n \in T PROVE n + 1 \in T
    <2>1. PICK g : g = FlattenStep(seqs, n, g)
      BY <1>2
    <2> DEFINE h == [i \in 1 .. n + 1 |->
                       IF i = n + 1
                       THEN IF i = 1 THEN seqs[i] ELSE g[n] \o seqs[i]
                       ELSE g[i]]
    <2>2. ASSUME NEW i \in 1 .. n + 1
          PROVE  h[i] = IF i = 1 THEN seqs[i] ELSE h[i - 1] \o seqs[i]
      <3>1. CASE i = n + 1
        <4>1. i # 1 => i - 1 = n /\ n \in 1 .. n + 1 /\ n # n + 1
          BY <3>1
        <4>2. QED
          BY <3>1, <4>1
      <3>2. CASE i # n + 1
        <4>1. /\ i \in 1 .. n
              /\ i # 1 => /\ i - 1 \in 1 .. n /\ i - 1 \in 1 .. n + 1
                          /\ i - 1 # n + 1
          BY <3>2
        <4>2. g[i] = IF i = 1 THEN seqs[i] ELSE g[i - 1] \o seqs[i]
          BY <2>1, <4>1 DEF FlattenStep
        <4>3. QED
          BY <3>2, <4>1, <4>2
      <3>3. QED
        BY <3>1, <3>2
    <2> HIDE DEF h
    <2>3. h = [i \in 1 .. n + 1 |->
                 IF i = 1 THEN seqs[i] ELSE h[i - 1] \o seqs[i]]
      <3>1. h = [i \in 1 .. n + 1 |-> h[i]]
        BY DEF h
      <3>2. QED
        BY <2>2, <3>1
    <2>4. h = FlattenStep(seqs, n + 1, h)
      BY <2>3 DEF FlattenStep
    <2>5. QED
      BY <2>4
  <1> HIDE DEF T
  <1>3. Nat \subseteq T
    BY <1>1, <1>2, NatInd
  <1>4. QED
    BY <1>3 DEF T

(* FlattenSeq is the last value of a solution. *)
LEMMA FlattenIs ==
  ASSUME NEW seqs, Len(seqs) \in Nat \ {0}
  PROVE  \E g : /\ g = FlattenStep(seqs, Len(seqs), g)
                /\ FlattenSeq(seqs) = g[Len(seqs)]
  <1> DEFINE f == CHOOSE g : g = FlattenStep(seqs, Len(seqs), g)
  <1>1. f = FlattenStep(seqs, Len(seqs), f)
    BY FlattenExists
  <1>2. FlattenSeq(seqs) = f[Len(seqs)]
    BY DEF FlattenSeq, FlattenStep
  <1> HIDE DEF f
  <1>3. QED
    BY <1>1, <1>2

(* acc[i - 1] is where the i-th piece begins. *)
Starts(R, seqs, acc) ==
  /\ seqs \in Seq(Seq(R))
  /\ acc[0] = 0
  /\ \A i \in 1 .. Len(seqs) :
       acc[i] \in Nat /\ acc[i] = acc[i - 1] + Len(seqs[i])

(* The pieces stand in flat one after the other, each where acc says. *)
LaidOut(R, seqs, acc, flat) ==
  /\ flat \in Seq(R)
  /\ Len(flat) = acc[Len(seqs)]
  /\ \A i \in 1 .. Len(seqs) : \A b \in 1 .. Len(seqs[i]) :
       /\ acc[i - 1] + b \in 1 .. acc[Len(seqs)]
       /\ flat[acc[i - 1] + b] = seqs[i][b]

(* An index of a piece, moved by where the piece starts. *)
LEMMA SumInRange ==
  ASSUME NEW a \in Nat, NEW n \in Nat, NEW b \in 1 .. n, NEW c, c = a + n
  PROVE  a + b \in 1 .. c
  OBVIOUS

(* Concatenation, by index: what FlattenSeq computes for every sequence of *)
(* sequences.                                                              *)
LEMMA FlattenIndex ==
  ASSUME NEW R, NEW seqs, NEW acc, Starts(R, seqs, acc)
  PROVE  LaidOut(R, seqs, acc, FlattenSeq(seqs))
  <1> USE DEF Starts, LaidOut
  <1> DEFINE n == Len(seqs)
  <1>0. /\ n \in Nat
        /\ \A i \in 1 .. n : seqs[i] \in Seq(R) /\ Len(seqs[i]) \in Nat
    OBVIOUS
  <1>1. CASE n = 0
    <2>1. FlattenSeq(seqs) = seqs /\ seqs = << >>
      BY <1>1 DEF FlattenSeq
    <2>2. QED
      BY <1>1, <2>1
  <1>2. CASE n # 0
    <2>1. PICK g : g = FlattenStep(seqs, n, g) /\ FlattenSeq(seqs) = g[n]
      BY <1>0, <1>2, FlattenIs
    <2>2. \A i \in 1 .. n :
            g[i] = IF i = 1 THEN seqs[i] ELSE g[i - 1] \o seqs[i]
      BY <2>1 DEF FlattenStep
    <2> HIDE DEF n
    <2> DEFINE Good(k) == /\ g[k] \in Seq(R)
                          /\ Len(g[k]) = acc[k]
                          /\ \A i \in 1 .. k : \A b \in 1 .. Len(seqs[i]) :
                               /\ acc[i - 1] + b \in 1 .. acc[k]
                               /\ g[k][acc[i - 1] + b] = seqs[i][b]
               T == {k \in Nat : k + 1 <= n => Good(k + 1)}
    <2>3. 0 \in T
      <3>1. g[1] = seqs[1] /\ 1 \in 1 .. n /\ acc[1] = Len(seqs[1])
        BY <1>0, <1>2, <2>2 DEF n
      <3>2. \A i \in 1 .. 1 : i = 1
        OBVIOUS
      <3>3. Good(1)
        BY <1>0, <3>1, <3>2
      <3>4. QED
        BY <3>3
    <2>4. ASSUME NEW k \in Nat, k \in T PROVE k + 1 \in T
      <3> SUFFICES ASSUME k + 2 <= n PROVE Good(k + 2)
        BY <2>4
      <3>1. Good(k + 1) /\ k + 1 \in 1 .. n /\ k + 2 \in 1 .. n
        <4>1. k + 1 <= n /\ k + 1 \in 1 .. n /\ k + 2 \in 1 .. n
          BY <1>0
        <4>2. (k + 1 <= n) => Good(k + 1)
          BY <2>4
        <4>3. QED
          BY <4>1, <4>2
      <3>2. g[k + 2] = g[k + 1] \o seqs[k + 2]
        <4>1. k + 2 # 1 /\ (k + 2) - 1 = k + 1
          OBVIOUS
        <4>2. QED
          BY <2>2, <3>1, <4>1
      <3>3. acc[k + 2] = acc[k + 1] + Len(seqs[k + 2]) /\ acc[k + 1] \in Nat
        BY <3>1 DEF n
      <3>4. /\ seqs[k + 2] \in Seq(R) /\ Len(seqs[k + 2]) \in Nat
            /\ g[k + 1] \in Seq(R) /\ Len(g[k + 1]) = acc[k + 1]
        BY <1>0, <3>1
      <3>5. /\ g[k + 2] \in Seq(R) /\ Len(g[k + 2]) = acc[k + 2]
            /\ \A j \in 1 .. acc[k + 1] : g[k + 2][j] = g[k + 1][j]
            /\ \A b \in 1 .. Len(seqs[k + 2]) :
                 g[k + 2][acc[k + 1] + b] = seqs[k + 2][b]
        <4> DEFINE s == g[k + 1]
                   t == seqs[k + 2]
        <4>1. s \in Seq(R) /\ t \in Seq(R) /\ Len(s) \in Nat /\ Len(t) \in Nat
          BY <3>4
        <4> HIDE DEF s, t
        <4>2. /\ s \o t \in Seq(R) /\ Len(s \o t) = Len(s) + Len(t)
              /\ \A j \in 1 .. Len(s) : (s \o t)[j] = s[j]
              /\ \A b \in 1 .. Len(t) : (s \o t)[Len(s) + b] = t[b]
          BY <4>1
        <4>3. QED
          BY <3>2, <3>3, <3>4, <4>2 DEF s, t
      <3>6. ASSUME NEW i \in 1 .. k + 2, NEW b \in 1 .. Len(seqs[i])
            PROVE  /\ acc[i - 1] + b \in 1 .. acc[k + 2]
                   /\ g[k + 2][acc[i - 1] + b] = seqs[i][b]
        <4>1. CASE i = k + 2
          <5>1. i - 1 = k + 1
            BY <4>1
          <5>2. b \in 1 .. Len(seqs[k + 2])
            BY <4>1
          <5>3. acc[k + 1] + b \in 1 .. acc[k + 2]
            BY <3>3, <3>4, <5>2, SumInRange
          <5>4. QED
            BY <3>5, <4>1, <5>1, <5>2, <5>3
        <4>2. CASE i # k + 2
          <5>1. i \in 1 .. k + 1
            BY <4>2
          <5>2. /\ acc[i - 1] + b \in 1 .. acc[k + 1]
                /\ g[k + 1][acc[i - 1] + b] = seqs[i][b]
            BY <3>1, <5>1
          <5>3. acc[k + 1] <= acc[k + 2]
            BY <3>3, <3>4
          <5>4. acc[i - 1] + b \in 1 .. acc[k + 2]
            <6> DEFINE x == acc[i - 1] + b
                       lo == acc[k + 1]
                       hi == acc[k + 2]
            <6>1. lo \in Nat /\ hi \in Nat
              BY <3>1, <3>3 DEF n
            <6>2. lo <= hi /\ x \in 1 .. lo
              BY <5>2, <5>3
            <6> HIDE DEF x, lo, hi
            <6>3. x \in 1 .. hi
              BY <6>1, <6>2
            <6>4. QED
              BY <6>3 DEF x, hi
          <5>5. QED
            BY <3>5, <5>2, <5>4
        <4>3. QED
          BY <4>1, <4>2
      <3>7. QED
        BY <3>5, <3>6
    <2> HIDE DEF T
    <2>5. Nat \subseteq T
      BY <2>3, <2>4, NatInd
    <2>6. Good(n)
      <3>1. n - 1 \in T /\ (n - 1) + 1 = n
        BY <1>0, <1>2, <2>5
      <3>2. QED
        BY <1>0, <3>1 DEF T
    <2>7. QED
      BY <2>1, <2>6 DEF n
  <1>3. QED
    BY <1>1, <1>2

(* acc[i] is the sum of the first i of f's values. *)
Sums(k, f, acc) ==
  /\ acc \in [0 .. k -> Nat]
  /\ acc[0] = 0
  /\ \A i \in 1 .. k : acc[i] = acc[i - 1] + f[i]

(* Lengths can be added up one after the other. *)
LEMMA RunningSum ==
  ASSUME NEW n \in Nat, NEW f \in [1 .. n -> Nat]
  PROVE  \E acc : /\ acc[0] = 0
                  /\ \A i \in 1 .. n :
                       acc[i] \in Nat /\ acc[i] = acc[i - 1] + f[i]
  <1> DEFINE T == {k \in Nat : k <= n => \E acc : Sums(k, f, acc)}
  <1>1. 0 \in T
    <2>1. Sums(0, f, [i \in 0 .. 0 |-> 0])
      BY DEF Sums
    <2>2. QED
      BY <2>1
  <1>2. ASSUME NEW k \in Nat, k \in T PROVE k + 1 \in T
    <2> SUFFICES ASSUME k + 1 <= n PROVE \E acc : Sums(k + 1, f, acc)
      BY <1>2
    <2>1. PICK acc : Sums(k, f, acc)
      BY <1>2
    <2> DEFINE more == [i \in 0 .. k + 1 |->
                          IF i = k + 1 THEN acc[k] + f[k + 1] ELSE acc[i]]
    <2>2. more \in [0 .. k + 1 -> Nat] /\ more[0] = 0
      <3>1. acc[k] + f[k + 1] \in Nat
        BY <2>1 DEF Sums
      <3>2. QED
        BY <2>1, <3>1 DEF Sums
    <2>3. ASSUME NEW i \in 1 .. k + 1 PROVE more[i] = more[i - 1] + f[i]
      <3>1. CASE i = k + 1
        <4>1. i - 1 = k /\ k \in 0 .. k + 1 /\ k # k + 1
          BY <3>1
        <4>2. QED
          BY <3>1, <4>1
      <3>2. CASE i # k + 1
        <4>1. /\ i \in 1 .. k /\ i \in 0 .. k + 1
              /\ i - 1 \in 0 .. k + 1 /\ i - 1 # k + 1
          BY <3>2
        <4>2. QED
          BY <2>1, <3>2, <4>1 DEF Sums
      <3>3. QED
        BY <3>1, <3>2
    <2> HIDE DEF more
    <2>4. Sums(k + 1, f, more)
      BY <2>2, <2>3 DEF Sums
    <2>5. QED
      BY <2>4
  <1> HIDE DEF T
  <1>3. Nat \subseteq T
    BY <1>1, <1>2, NatInd
  <1>4. PICK acc : Sums(n, f, acc)
    BY <1>3 DEF T
  <1>5. /\ acc[0] = 0
        /\ \A i \in 1 .. n : acc[i] \in Nat /\ acc[i] = acc[i - 1] + f[i]
    BY <1>4 DEF Sums
  <1>6. QED
    BY <1>5

(* Concatenation loses nothing. *)
LEMMA FlattenKeepsElements ==
  ASSUME NEW R, NEW seqs, seqs \in Seq(Seq(R))
  PROVE  /\ FlattenSeq(seqs) \in Seq(R)
         /\ \A i \in 1 .. Len(seqs) : \A b \in 1 .. Len(seqs[i]) :
              \E k \in 1 .. Len(FlattenSeq(seqs)) :
                FlattenSeq(seqs)[k] = seqs[i][b]
  <1> DEFINE n == Len(seqs)
             f == [i \in 1 .. n |-> Len(seqs[i])]
  <1>1. n \in Nat /\ f \in [1 .. n -> Nat]
    OBVIOUS
  <1>2. \A i \in 1 .. n : f[i] = Len(seqs[i])
    OBVIOUS
  <1> HIDE DEF n, f
  <1>3. PICK acc : /\ acc[0] = 0
                   /\ \A i \in 1 .. n :
                        acc[i] \in Nat /\ acc[i] = acc[i - 1] + f[i]
    BY <1>1, RunningSum
  <1>4. Starts(R, seqs, acc)
    BY <1>2, <1>3 DEF Starts, n
  <1>5. LaidOut(R, seqs, acc, FlattenSeq(seqs))
    BY <1>4, FlattenIndex
  <1>6. ASSUME NEW i \in 1 .. Len(seqs), NEW b \in 1 .. Len(seqs[i])
        PROVE  \E k \in 1 .. Len(FlattenSeq(seqs)) :
                 FlattenSeq(seqs)[k] = seqs[i][b]
    <2>1. /\ acc[i - 1] + b \in 1 .. Len(FlattenSeq(seqs))
          /\ FlattenSeq(seqs)[acc[i - 1] + b] = seqs[i][b]
      BY <1>5 DEF LaidOut
    <2>2. QED
      BY <2>1
  <1>7. FlattenSeq(seqs) \in Seq(R)
    BY <1>5 DEF LaidOut
  <1>8. QED
    BY <1>6, <1>7

(* A piece added at the end adds its elements at the end. *)
LEMMA FlattenAppend ==
  ASSUME NEW R, NEW seqs \in Seq(Seq(R)), NEW piece \in Seq(R)
  PROVE  FlattenSeq(Append(seqs, piece)) = FlattenSeq(seqs) \o piece
  <1> DEFINE n    == Len(seqs)
             more == Append(seqs, piece)
  <1>1. /\ n \in Nat /\ Len(more) = n + 1 /\ more[n + 1] = piece
        /\ \A i \in 1 .. n : more[i] = seqs[i]
    OBVIOUS
  <1> HIDE DEF n, more
  <1>2. PICK h : h = FlattenStep(more, n + 1, h) /\ FlattenSeq(more) = h[n + 1]
    BY <1>1, FlattenIs
  <1>3. \A i \in 1 .. n + 1 : h[i] = IF i = 1 THEN more[i] ELSE h[i - 1] \o more[i]
    BY <1>1, <1>2 DEF FlattenStep
  <1>4. CASE n = 0
    <2>1. FlattenSeq(seqs) = << >>
      BY <1>4 DEF FlattenSeq, n
    <2>2. FlattenSeq(more) = piece
      BY <1>1, <1>2, <1>3, <1>4
    <2>3. QED
      BY <2>1, <2>2 DEF more
  <1>5. CASE n # 0
    <2>1. PICK g : g = FlattenStep(seqs, n, g) /\ FlattenSeq(seqs) = g[n]
      BY <1>1, <1>5, FlattenIs DEF n
    <2>2. \A i \in 1 .. n : g[i] = IF i = 1 THEN seqs[i] ELSE g[i - 1] \o seqs[i]
      BY <1>1, <2>1 DEF FlattenStep
    <2> DEFINE T == {k \in Nat : k + 1 <= n => h[k + 1] = g[k + 1]}
    <2>3. 0 \in T
      BY <1>1, <1>3, <1>5, <2>2
    <2>4. ASSUME NEW k \in Nat, k \in T PROVE k + 1 \in T
      <3> SUFFICES ASSUME k + 2 <= n PROVE h[k + 2] = g[k + 2]
        BY <2>4
      <3>1. h[k + 1] = g[k + 1]
        BY <1>1, <2>4
      <3>2. /\ k + 2 \in 1 .. n /\ k + 2 \in 1 .. n + 1
            /\ k + 2 # 1 /\ (k + 2) - 1 = k + 1
        BY <1>1
      <3>3. QED
        BY <1>1, <1>3, <2>2, <3>1, <3>2
    <2> HIDE DEF T
    <2>5. Nat \subseteq T
      BY <2>3, <2>4, NatInd
    <2>6. h[n] = g[n]
      <3>1. n - 1 \in Nat /\ (n - 1) + 1 = n
        BY <1>1, <1>5
      <3>2. n - 1 \in T
        BY <2>5, <3>1
      <3>3. QED
        BY <3>1, <3>2, <1>1 DEF T
    <2>7. FlattenSeq(more) = h[n] \o piece
      <3>1. n \in Nat
        BY <1>1
      <3>2. n + 1 \in 1 .. n + 1 /\ n + 1 # 1 /\ (n + 1) - 1 = n
        BY <1>5, <3>1
      <3>3. QED
        BY <1>1, <1>2, <1>3, <3>2
    <2>8. QED
      BY <2>1, <2>6, <2>7 DEF more
  <1>6. QED
    BY <1>4, <1>5

-----------------------------------------------------------------------------
(* Sums over finite sets. *)

(* The element with which MapThenSumSet takes a set apart. *)
Chosen(s) == CHOOSE x \in s : TRUE

(* The equation its recursive function solves on the subsets of S, for the *)
(* terms f[x].                                                             *)
SumStep(S, f, g) ==
  [s \in SUBSET S |-> IF s = {} THEN 0 ELSE f[Chosen(s)] + g[s \ {Chosen(s)}]]

LEMMA ChosenIsIn ==
  ASSUME NEW s, s # {}
  PROVE  Chosen(s) \in s
  BY DEF Chosen

(* Taking an element out of a finite set. *)
LEMMA OneLess ==
  ASSUME NEW S, IsFiniteSet(S), NEW s \in SUBSET S, NEW x \in s
  PROVE  /\ Cardinality(s) \in Nat \ {0}
         /\ s \ {x} \in SUBSET S
         /\ Cardinality(s \ {x}) = Cardinality(s) - 1
  <1>1. IsFiniteSet(s) /\ Cardinality(s) \in Nat
    BY FS_Subset, FS_CardinalityType
  <1>2. Cardinality(s) # 0
    BY <1>1, FS_EmptySet
  <1>3. QED
    BY <1>1, <1>2, FS_RemoveElement

LEMMA SumExists ==
  ASSUME NEW S, IsFiniteSet(S), NEW f
  PROVE  \E g : g = SumStep(S, f, g)
  <1> DEFINE Solves(g, n) == \A s \in SUBSET S : Cardinality(s) <= n =>
                               g[s] = SumStep(S, f, g)[s]
             T == {n \in Nat : \E g : Solves(SumStep(S, f, g), n)}
  <1>1. \A g : \A s \in SUBSET S :
          SumStep(S, f, g)[s]
            = IF s = {} THEN 0 ELSE f[Chosen(s)] + g[s \ {Chosen(s)}]
    BY DEF SumStep
  <1>2. 0 \in T
    <2>1. ASSUME NEW s \in SUBSET S, Cardinality(s) <= 0 PROVE s = {}
      <3>1. IsFiniteSet(s) /\ Cardinality(s) \in Nat
        BY FS_Subset, FS_CardinalityType
      <3>2. Cardinality(s) = 0
        BY <2>1, <3>1
      <3>3. QED
        BY <3>1, <3>2, FS_EmptySet
    <2> DEFINE h == SumStep(S, f, << >>)
    <2>2. Solves(h, 0)
      <3>1. ASSUME NEW s \in SUBSET S, Cardinality(s) <= 0
            PROVE  h[s] = SumStep(S, f, h)[s]
        <4>1. s = {}
          BY <2>1, <3>1
        <4>2. h[s] = 0 /\ SumStep(S, f, h)[s] = 0
          BY <1>1, <4>1
        <4>3. QED
          BY <4>2
      <3>2. QED
        BY <3>1
    <2>3. QED
      BY <2>2
  <1>3. ASSUME NEW n \in Nat, n \in T PROVE n + 1 \in T
    <2>1. PICK g : Solves(SumStep(S, f, g), n)
      BY <1>3
    <2> DEFINE h == SumStep(S, f, g)
               k == SumStep(S, f, h)
    <2>2. ASSUME NEW s \in SUBSET S, Cardinality(s) <= n + 1
          PROVE  k[s] = SumStep(S, f, k)[s]
      <3>1. CASE s = {}
        <4>1. k[s] = 0 /\ SumStep(S, f, k)[s] = 0
          BY <1>1, <3>1
        <4>2. QED
          BY <4>1
      <3>2. CASE s # {}
        <4> DEFINE r == s \ {Chosen(s)}
        <4>1. r \in SUBSET S /\ Cardinality(r) <= n
          BY <2>2, <3>2, ChosenIsIn, OneLess
        <4>2. h[r] = k[r]
          BY <2>1, <4>1
        <4>3. k[s] = f[Chosen(s)] + h[r] /\ SumStep(S, f, k)[s] = f[Chosen(s)] + k[r]
          <5> HIDE DEF h, k
          <5>1. SumStep(S, f, h)[s] = f[Chosen(s)] + h[r]
                /\ SumStep(S, f, k)[s] = f[Chosen(s)] + k[r]
            BY <1>1, <3>2
          <5>2. QED
            BY <5>1 DEF k
        <4>4. QED
          BY <4>2, <4>3
      <3>3. QED
        BY <3>1, <3>2
    <2>3. Solves(k, n + 1)
      BY <2>2
    <2> HIDE DEF Solves
    <2>4. QED
      BY <2>3
  <1> HIDE DEF T
  <1>4. Nat \subseteq T
    BY <1>2, <1>3, NatInd
  <1>5. Cardinality(S) \in Nat /\ \A s \in SUBSET S : Cardinality(s) <= Cardinality(S)
    BY FS_CardinalityType, FS_Subset
  <1>6. PICK g : Solves(SumStep(S, f, g), Cardinality(S))
    BY <1>4, <1>5 DEF T
  <1> DEFINE h == SumStep(S, f, g)
  <1>7. \A s \in SUBSET S : h[s] = SumStep(S, f, h)[s]
    BY <1>5, <1>6
  <1>8. h = [s \in SUBSET S |-> h[s]]
    BY DEF SumStep
  <1>9. SumStep(S, f, h) = [s \in SUBSET S |-> SumStep(S, f, h)[s]]
    BY DEF SumStep
  <1> HIDE DEF h
  <1>10. h = SumStep(S, f, h)
    BY <1>7, <1>8, <1>9
  <1>11. QED
    BY <1>10

(* g[s] is the sum of f over s, for every subset s of S. *)
Summed(S, f, g) ==
  /\ IsFiniteSet(S)
  /\ \A x \in S : f[x] \in Nat
  /\ g = SumStep(S, f, g)

(* A sum of naturals is a natural. *)
LEMMA SumIsNat ==
  ASSUME NEW S, NEW f, NEW g, Summed(S, f, g)
  PROVE  \A s \in SUBSET S : g[s] \in Nat
  <1> USE DEF Summed
  <1> DEFINE T == {n \in Nat : \A s \in SUBSET S : Cardinality(s) = n => g[s] \in Nat}
  <1>1. \A s \in SUBSET S :
          g[s] = IF s = {} THEN 0 ELSE f[Chosen(s)] + g[s \ {Chosen(s)}]
    BY DEF Summed, SumStep
  <1>2. 0 \in T
    <2>1. ASSUME NEW s \in SUBSET S, Cardinality(s) = 0 PROVE s = {}
      BY <2>1, FS_Subset, FS_EmptySet
    <2>2. g[{}] = 0
      BY <1>1
    <2>3. QED
      BY <2>1, <2>2
  <1>3. ASSUME NEW n \in Nat, n \in T PROVE n + 1 \in T
    <2>1. ASSUME NEW s \in SUBSET S, Cardinality(s) = n + 1
          PROVE  g[s] \in Nat
      <3>1. s # {}
        BY <2>1, FS_EmptySet
      <3>2. Chosen(s) \in s /\ Chosen(s) \in S
        BY <3>1, ChosenIsIn
      <3>3. s \ {Chosen(s)} \in SUBSET S /\ Cardinality(s \ {Chosen(s)}) = n
        BY <2>1, <3>2, OneLess
      <3>4. f[Chosen(s)] \in Nat /\ g[s \ {Chosen(s)}] \in Nat
        BY <1>3, <3>2, <3>3
      <3>5. QED
        BY <1>1, <3>1, <3>4
    <2>2. QED
      BY <2>1
  <1> HIDE DEF T
  <1>4. Nat \subseteq T
    BY <1>2, <1>3, NatInd
  <1>5. ASSUME NEW s \in SUBSET S PROVE g[s] \in Nat
    <2>1. Cardinality(s) \in Nat
      BY FS_Subset, FS_CardinalityType
    <2>2. QED
      BY <1>4, <2>1 DEF T
  <1>6. QED
    BY <1>5

(* A sum may be taken apart at any of its elements. *)
LEMMA SumSplits ==
  ASSUME NEW S, NEW f, NEW g, Summed(S, f, g)
  PROVE  \A s \in SUBSET S : \A x \in s : g[s] = f[x] + g[s \ {x}]
  <1> USE DEF Summed
  <1> DEFINE Splits(s) == \A x \in s : g[s] = f[x] + g[s \ {x}]
             T == {n \in Nat : \A s \in SUBSET S : Cardinality(s) = n => Splits(s)}
  <1>1. \A s \in SUBSET S :
          g[s] = IF s = {} THEN 0 ELSE f[Chosen(s)] + g[s \ {Chosen(s)}]
    BY DEF Summed, SumStep
  <1>2. 0 \in T
    <2>1. ASSUME NEW s \in SUBSET S, Cardinality(s) = 0 PROVE s = {}
      BY <2>1, FS_Subset, FS_EmptySet
    <2>2. QED
      BY <2>1
  <1>3. ASSUME NEW n \in Nat, n \in T PROVE n + 1 \in T
    <2>1. \A s \in SUBSET S : Cardinality(s) = n => Splits(s)
      BY <1>3
    <2>2. ASSUME NEW s \in SUBSET S, Cardinality(s) = n + 1, NEW x \in s
          PROVE  g[s] = f[x] + g[s \ {x}]
      <3> DEFINE c == Chosen(s)
                 r == (s \ {c}) \ {x}
      <3>1. c \in s /\ c \in S /\ x \in S
        BY ChosenIsIn
      <3>2. g[s] = f[c] + g[s \ {c}]
        BY <1>1
      <3> HIDE DEF c
      <3>3. CASE x = c
        BY <3>2, <3>3
      <3>4. CASE x # c
        <4>1. /\ s \ {c} \in SUBSET S /\ Cardinality(s \ {c}) = n
              /\ s \ {x} \in SUBSET S /\ Cardinality(s \ {x}) = n
          BY <2>2, <3>1, OneLess
        <4>2. g[s \ {c}] = f[x] + g[r]
          BY <2>1, <3>4, <4>1
        <4>3. g[s \ {x}] = f[c] + g[(s \ {x}) \ {c}]
          BY <2>1, <3>1, <3>4, <4>1
        <4>4. r = (s \ {x}) \ {c}
          OBVIOUS
        <4>5. f[x] \in Nat /\ f[c] \in Nat /\ g[r] \in Nat
          BY <3>1, SumIsNat
        <4> HIDE DEF r
        <4>6. QED
          BY <3>2, <4>2, <4>3, <4>4, <4>5
      <3>5. QED
        BY <3>3, <3>4
    <2>3. QED
      BY <2>2
  <1> HIDE DEF T
  <1>4. Nat \subseteq T
    BY <1>2, <1>3, NatInd
  <1>5. ASSUME NEW s \in SUBSET S PROVE Splits(s)
    <2>1. Cardinality(s) \in Nat
      BY FS_Subset, FS_CardinalityType
    <2>2. QED
      BY <1>4, <2>1 DEF T
  <1>6. QED
    BY <1>5

(* An element more. *)
LEMMA SumGrows ==
  ASSUME NEW S, NEW f, NEW g, Summed(S, f, g),
         NEW s \in SUBSET S, NEW x \in S, x \notin s
  PROVE  /\ g[s \cup {x}] = g[s] + f[x]
         /\ g[s] \in Nat /\ f[x] \in Nat
  <1> DEFINE more == s \cup {x}
  <1>1. more \in SUBSET S /\ x \in more /\ more \ {x} = s
    OBVIOUS
  <1> HIDE DEF more
  <1>2. g[more] = f[x] + g[more \ {x}]
    BY <1>1, SumSplits
  <1>3. g[s] \in Nat /\ f[x] \in Nat
    BY SumIsNat DEF Summed
  <1>4. g[more] = f[x] + g[s]
    BY <1>1, <1>2
  <1>5. g[more] = g[s] + f[x]
    BY <1>3, <1>4
  <1>6. QED
    BY <1>3, <1>5 DEF more

(* An interval and its last element. *)
LEMMA LastOfInterval ==
  ASSUME NEW a \in Nat, NEW k \in Nat
  PROVE  /\ a .. (a + (k + 1) - 1) = (a .. (a + k - 1)) \cup {a + k}
         /\ a + k \notin a .. (a + k - 1)
  <1>1. \A x : x \in a .. (a + (k + 1) - 1) <=> x \in (a .. (a + k - 1)) \cup {a + k}
    OBVIOUS
  <1>2. QED
    BY <1>1

(* acc adds up the values of f from a on. *)
AddsUp(S, f, a, n, acc) ==
  /\ acc[0] = 0
  /\ \A k \in Nat : k < n => a + k \in S /\ acc[k + 1] = acc[k] + f[a + k]

(* Over an interval it is the running sum. *)
LEMMA SumOverInterval ==
  ASSUME NEW S, NEW f, NEW g, Summed(S, f, g),
         NEW a \in Nat, NEW n \in Nat, NEW acc, AddsUp(S, f, a, n, acc)
  PROVE  g[a .. (a + n - 1)] = acc[n]
  <1> DEFINE upto(k) == a .. (a + k - 1)
             T == {k \in Nat : k <= n => upto(k) \in SUBSET S /\ g[upto(k)] = acc[k]}
  <1>1. 0 \in T
    <2>1. upto(0) = {}
      OBVIOUS
    <2>2. g[{}] = 0
      BY DEF Summed, SumStep
    <2>3. QED
      BY <2>1, <2>2 DEF AddsUp
  <1>2. ASSUME NEW k \in Nat, k \in T PROVE k + 1 \in T
    <2> SUFFICES ASSUME k < n
                 PROVE  upto(k + 1) \in SUBSET S /\ g[upto(k + 1)] = acc[k + 1]
      OBVIOUS
    <2>1. upto(k) \in SUBSET S /\ g[upto(k)] = acc[k]
      BY <1>2
    <2>2. upto(k + 1) = upto(k) \cup {a + k} /\ a + k \notin upto(k)
      BY LastOfInterval
    <2>3. a + k \in S /\ acc[k + 1] = acc[k] + f[a + k]
      BY DEF AddsUp
    <2> HIDE DEF upto
    <2>4. g[upto(k) \cup {a + k}] = g[upto(k)] + f[a + k]
      BY <2>1, <2>2, <2>3, SumGrows
    <2>5. QED
      BY <2>1, <2>2, <2>3, <2>4
  <1> HIDE DEF T
  <1>3. Nat \subseteq T
    BY <1>1, <1>2, NatInd
  <1>4. n \in T
    BY <1>3
  <1>5. QED
    BY <1>4 DEF T

LEMMA SumBelow ==
  ASSUME NEW f, NEW g, NEW n \in Nat, Summed(0 .. n - 1, f, g),
         NEW acc, acc[0] = 0,
         \A k \in Nat : k < n => acc[k + 1] = acc[k] + f[k]
  PROVE  g[0 .. n - 1] = acc[n]
  <1> DEFINE S == 0 .. n - 1
             a == 0
  <1>1. Summed(S, f, g)
    OBVIOUS
  <1>2. a .. (a + n - 1) = S
    OBVIOUS
  <1>3. a \in Nat
    OBVIOUS
  <1>4. AddsUp(S, f, a, n, acc)
    BY DEF AddsUp
  <1> HIDE DEF S, a
  <1>5. g[a .. (a + n - 1)] = acc[n]
    BY <1>1, <1>3, <1>4, SumOverInterval
  <1>6. QED
    BY <1>2, <1>5 DEF S

LEMMA SumUpTo ==
  ASSUME NEW f, NEW g, NEW n \in Nat, Summed(1 .. n, f, g),
         NEW acc, acc[0] = 0,
         \A k \in Nat : k < n => acc[k + 1] = acc[k] + f[k + 1]
  PROVE  g[1 .. n] = acc[n]
  <1> DEFINE S == 1 .. n
             a == 1
  <1>1. Summed(S, f, g)
    OBVIOUS
  <1>2. a .. (a + n - 1) = S
    OBVIOUS
  <1>3. a \in Nat
    OBVIOUS
  <1>4. AddsUp(S, f, a, n, acc)
    BY DEF AddsUp
  <1> HIDE DEF S, a
  <1>5. g[a .. (a + n - 1)] = acc[n]
    BY <1>1, <1>3, <1>4, SumOverInterval
  <1>6. QED
    BY <1>2, <1>5 DEF S
=============================================================================
