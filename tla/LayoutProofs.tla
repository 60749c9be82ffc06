---------------------------- MODULE LayoutProofs ----------------------------
(***************************************************************************)
(* Where data lie.  On a disc: what becomes of its sectors, for any number  *)
(* of workers, any discs, chunks and blocks of any size (DiscMap).  In an   *)
(* archive: the chunks in their order, the index that says where they are,  *)
(* the file they can be read back from, and the ranges of a file that can   *)
(* be asked for (ArchiveRun), for any files, any cutting, any sizes and any *)
(* lengths of what is encoded.                                              *)
(*                                                                          *)
(* Both rest on the same facts: what the sum and the join of a sequence are *)
(* (both are folds over it), where in a join each part is, and what a       *)
(* finite set's elements in an order are.  These come first.                *)
(***************************************************************************)
EXTENDS LayoutInvariants, TLAPS, FiniteSetTheorems, SequenceTheorems, WellFoundedInduction

-----------------------------------------------------------------------------
(* Induction over a set of numbers. *)
LEMMA LeastOf ==
  ASSUME NEW S, S \subseteq Nat, S # {}
  PROVE  \E m \in S : \A n \in S : m <= n
<1> DEFINE Less == {ss \in Nat \X Nat : ss[1] < ss[2]}
<1>1. IsWellFoundedOn(Less, Nat)
  BY NatLessThanWellFounded DEF OpToRel, Less
<1>2. PICK m \in S : \A n \in S : ~(<<n, m>> \in Less)
  <2> HIDE DEF Less
  <2> QED
    BY <1>1, WFMin
<1>3. ASSUME NEW n \in S PROVE m <= n
  <2>1. m \in Nat /\ n \in Nat /\ ~(<<n, m>> \in Less)
    BY <1>2
  <2> QED
    BY <2>1
<1> QED
  BY <1>3

LEMMA UpFromZero ==
  ASSUME NEW S, 0 \in S, \A n \in Nat : n \in S => n + 1 \in S
  PROVE  Nat \subseteq S
<1> DEFINE Missing == {n \in Nat : n \notin S}
<1> SUFFICES ASSUME Missing # {} PROVE FALSE
  OBVIOUS
<1>1. PICK m \in Missing : \A n \in Missing : m <= n
  <2> Missing \subseteq Nat
    OBVIOUS
  <2> HIDE DEF Missing
  <2> QED
    BY LeastOf
<1>2. m \in Nat /\ m # 0 /\ m \notin S
  OBVIOUS
<1>3. m - 1 \in Nat /\ m - 1 \notin Missing
  BY <1>1, <1>2
<1>4. m - 1 \in S /\ (m - 1) + 1 = m
  BY <1>2, <1>3
<1> HIDE DEF Missing
<1>5. m \in S
  BY <1>3, <1>4
<1> QED
  BY <1>2, <1>5

(* The largest of some numbers up to n. *)
LEMMA MaxOf ==
  ASSUME NEW n \in Nat, NEW S, S \subseteq 0..n, S # {}
  PROVE  Max(S) \in S /\ \A m \in S : m <= Max(S)
<1> DEFINE T == {k \in Nat : n - k \in S}
<1>1. T # {}
  <2>1. PICK m \in S : TRUE
    OBVIOUS
  <2>2. n - m \in Nat /\ n - (n - m) = m
    BY <2>1
  <2> QED
    BY <2>1, <2>2
<1>2. PICK k \in T : \A j \in T : k <= j
  <2>1. T \subseteq Nat
    OBVIOUS
  <2> HIDE DEF T
  <2> QED
    BY <1>1, <2>1, LeastOf
<1>3. k \in Nat /\ n - k \in S
  OBVIOUS
<1>4. ASSUME NEW m \in S PROVE n - k >= m
  <2>1. n - m \in Nat /\ n - (n - m) = m
    OBVIOUS
  <2>2. n - m \in T
    BY <2>1
  <2>3. k <= n - m
    BY <1>2, <2>2
  <2> QED
    BY <1>3, <2>1, <2>3
<1>5. \E x \in S : \A y \in S : x >= y
  BY <1>3, <1>4
<1>6. Max(S) \in S /\ \A y \in S : Max(S) >= y
  BY <1>5 DEF Max
<1>7. ASSUME NEW m \in S PROVE m <= Max(S)
  <2>1. Max(S) \in 0..n /\ Max(S) >= m /\ m \in 0..n
    <3> HIDE DEF T
    <3> QED
      BY <1>6
  <2> QED
    BY <2>1
<1> QED
  BY <1>6, <1>7

(* The one number that is in a set and no smaller than any there. *)
LEMMA MaxIs ==
  ASSUME NEW S, S \subseteq Nat, NEW n \in S, \A m \in S : m <= n
  PROVE  Max(S) = n
<1>1. S \subseteq 0..n /\ S # {} /\ n \in Nat
  OBVIOUS
<1>2. Max(S) \in S /\ \A m \in S : m <= Max(S)
  BY <1>1, MaxOf
<1>3. Max(S) \in Nat /\ n <= Max(S) /\ Max(S) <= n
  BY <1>2
<1> QED
  BY <1>1, <1>3

LEMMA UpToIs ==
  ASSUME NEW k \in Nat
  PROVE  /\ k = 0 => 1..k = {}
         /\ k # 0 => Max(1..k) = k /\ (1..k) \ {Max(1..k)} = 1..(k - 1) /\ 1..k # {}
<1>1. k = 0 => 1..k = {}
  OBVIOUS
<1>2. k # 0 => Max(1..k) = k
  <2>1. k # 0 => k \in 1..k /\ 1..k \subseteq Nat /\ \A m \in 1..k : m <= k
    OBVIOUS
  <2> QED
    BY <2>1, MaxIs
<1>3. ASSUME k # 0 PROVE (1..k) \ {k} = 1..(k - 1) /\ 1..k # {}
  <2>1. ASSUME NEW n PROVE n \in (1..k) \ {k} <=> n \in 1..(k - 1)
    OBVIOUS
  <2>2. k \in 1..k
    BY <1>3
  <2> QED
    BY <2>1, <2>2
<1> QED
  BY <1>1, <1>2, <1>3

-----------------------------------------------------------------------------
(* FoldLeft goes up from the base, element by element: its recursion over   *)
(* the sets of places has a solution.                                       *)

LEMMA FoldExists ==
  ASSUME NEW A, NEW B, NEW base \in B, NEW step \in [B \X A -> B], NEW s \in Seq(A)
  PROVE  \E g \in [SUBSET (1..Len(s)) -> B] : Folds(step, base, s, Len(s), g)
<1> DEFINE Solved(n) == \E g \in [SUBSET (1..n) -> B] : Folds(step, base, s, n, g)
           S == {n \in Nat : n <= Len(s) => Solved(n)}
<1>1. Solved(0)
  <2>1. SUBSET (1..0) = {{}}
    OBVIOUS
  <2> DEFINE g == [t \in SUBSET (1..0) |-> base]
  <2>2. Folds(step, base, s, 0, g) /\ g \in [SUBSET (1..0) -> B]
    BY <2>1 DEF Folds
  <2> QED
    BY <2>2
<1>2. ASSUME NEW n \in Nat, n + 1 <= Len(s), Solved(n) PROVE Solved(n + 1)
  <2>1. PICK g \in [SUBSET (1..n) -> B] : Folds(step, base, s, n, g)
    BY <1>2
  <2>2. s[n + 1] \in A
    <3>1. n + 1 \in 1..Len(s)
      BY <1>2
    <3> QED
      BY <3>1, ElementOfSeq
  <2> DEFINE h == [t \in SUBSET (1..(n + 1)) |->
                     IF n + 1 \in t THEN step[<<g[t \ {n + 1}], s[n + 1]>>] ELSE g[t]]
  <2>3. \A t \in SUBSET (1..(n + 1)) : t \ {n + 1} \in SUBSET (1..n)
    OBVIOUS
  <2>4. h \in [SUBSET (1..(n + 1)) -> B]
    <3>1. ASSUME NEW t \in SUBSET (1..(n + 1))
          PROVE  (IF n + 1 \in t THEN step[<<g[t \ {n + 1}], s[n + 1]>>] ELSE g[t]) \in B
      <4>1. CASE n + 1 \in t
        <5>1. g[t \ {n + 1}] \in B
          BY <2>1, <2>3
        <5> QED
          BY <2>2, <4>1, <5>1
      <4>2. CASE n + 1 \notin t
        <5>1. t \in SUBSET (1..n)
          BY <4>2
        <5> QED
          BY <2>1, <4>2, <5>1
      <4> QED
        BY <4>1, <4>2
    <3> QED
      BY <3>1
  <2>5. ASSUME NEW t \in SUBSET (1..(n + 1))
        PROVE  h[t] = IF t = {} THEN base ELSE step[<<h[t \ {Max(t)}], s[Max(t)]>>]
    <3>1. CASE n + 1 \in t
      <4>1. Max(t) = n + 1
        <5>1. t \subseteq Nat /\ n + 1 \in t /\ \A m \in t : m <= n + 1
          BY <3>1
        <5> QED
          BY <5>1, MaxIs
      <4>2. t \ {n + 1} \in SUBSET (1..(n + 1)) /\ n + 1 \notin t \ {n + 1}
        OBVIOUS
      <4>3. h[t \ {n + 1}] = g[t \ {n + 1}]
        BY <4>2
      <4>4. h[t] = step[<<g[t \ {n + 1}], s[n + 1]>>]
        BY <3>1
      <4> QED
        BY <3>1, <4>1, <4>3, <4>4
    <3>2. CASE n + 1 \notin t
      <4>1. t \in SUBSET (1..n)
        BY <3>2
      <4>2. h[t] = g[t]
        BY <3>2
      <4>3. t # {} => h[t \ {Max(t)}] = g[t \ {Max(t)}]
        <5>1. t \ {Max(t)} \in SUBSET (1..(n + 1)) /\ n + 1 \notin t \ {Max(t)}
          BY <3>2
        <5> QED
          BY <5>1
      <4>4. g[t] = IF t = {} THEN base ELSE step[<<g[t \ {Max(t)}], s[Max(t)]>>]
        BY <2>1, <4>1 DEF Folds
      <4> QED
        BY <4>2, <4>3, <4>4
    <3> QED
      BY <3>1, <3>2
  <2> HIDE DEF h
  <2> QED
    BY <2>4, <2>5 DEF Folds
<1> HIDE DEF Solved
<1>3. Len(s) \in Nat
  OBVIOUS
<1>4. 0 \in S
  BY <1>1
<1>5. ASSUME NEW n \in Nat, n \in S PROVE n + 1 \in S
  BY <1>2, <1>3, <1>5
<1> HIDE DEF S
<1>6. Nat \subseteq S
  BY <1>4, <1>5, UpFromZero
<1>7. Solved(Len(s))
  BY <1>3, <1>6 DEF S
<1> QED
  BY <1>7 DEF Solved

LEMMA SumIs ==
  ASSUME NEW s \in Seq(Nat)
  PROVE  \E f \in [0..Len(s) -> Nat] :
           /\ f[0] = 0 /\ Sum(s) = f[Len(s)]
           /\ \A k \in 1..Len(s) : f[k] = f[k - 1] + s[k]
<1> DEFINE D == DOMAIN s
           step == [p \in Nat \X Nat |-> p[1] + p[2]]
           Body(g) == [t \in SUBSET D |-> IF t = {} THEN 0
                                          ELSE g[t \ {Max(t)}] + s[Max(t)]]
           iter == CHOOSE g : g = Body(g)
<1>1. Sum(s) = iter[D]
  BY DEF Sum, FoldLeft, MapThenFoldSet
<1>2. D = 1..Len(s) /\ Len(s) \in Nat
  OBVIOUS
<1>3. step \in [Nat \X Nat -> Nat]
  OBVIOUS
<1>4. PICK g \in [SUBSET D -> Nat] : Folds(step, 0, s, Len(s), g)
  <2> HIDE DEF step
  <2> QED
    BY <1>2, <1>3, FoldExists
<1>5. ASSUME NEW t \in SUBSET D, t # {} PROVE Max(t) \in t
  <2>1. t \subseteq 0..Len(s)
    BY <1>2
  <2> QED
    BY <1>2, <1>5, <2>1, MaxOf
<1>6. ASSUME NEW t \in SUBSET D
      PROVE  g[t] = IF t = {} THEN 0 ELSE g[t \ {Max(t)}] + s[Max(t)]
  <2>1. CASE t = {}
    BY <1>2, <1>4, <2>1 DEF Folds
  <2>2. CASE t # {}
    <3>1. g[t] = step[<<g[t \ {Max(t)}], s[Max(t)]>>]
      <4> HIDE DEF step
      <4> QED
        BY <1>2, <1>4, <2>2 DEF Folds
    <3>2. g[t \ {Max(t)}] \in Nat
      BY <1>4
    <3>3. s[Max(t)] \in Nat
      BY <1>2, <1>5, <2>2
    <3> QED
      BY <2>2, <3>1, <3>2, <3>3
  <2> QED
    BY <2>1, <2>2
<1>7. g = Body(g)
  BY <1>4, <1>6
<1>8. iter = Body(iter)
  <2> HIDE DEF Body
  <2> QED
    BY <1>7
<1> HIDE DEF iter
<1>9. ASSUME NEW k \in 0..Len(s)
      PROVE  iter[1..k] = IF k = 0 THEN 0 ELSE iter[1..(k - 1)] + s[k]
  <2>1. 1..k \in SUBSET D /\ k \in Nat
    BY <1>2
  <2>2. iter[1..k] = IF 1..k = {} THEN 0 ELSE iter[(1..k) \ {Max(1..k)}] + s[Max(1..k)]
    BY <1>8, <2>1
  <2> QED
    BY <2>1, <2>2, UpToIs
<1> DEFINE f == [k \in 0..Len(s) |-> iter[1..k]]
           Good == {k \in Nat : k <= Len(s) => iter[1..k] \in Nat}
<1>10. 0 \in Good
  BY <1>9
<1>11. ASSUME NEW k \in Nat, k \in Good PROVE k + 1 \in Good
  <2> SUFFICES ASSUME k + 1 <= Len(s) PROVE iter[1..(k + 1)] \in Nat
    OBVIOUS
  <2>1. k + 1 \in 0..Len(s) /\ k + 1 # 0 /\ (k + 1) - 1 = k
    BY <1>2
  <2>2. iter[1..(k + 1)] = iter[1..k] + s[k + 1]
    BY <1>9, <2>1
  <2>3. iter[1..k] \in Nat
    BY <1>2, <1>11
  <2> QED
    BY <2>1, <2>2, <2>3
<1>12. Nat \subseteq Good
  <2> HIDE DEF Good
  <2> QED
    BY <1>10, <1>11, UpFromZero
<1>13. f \in [0..Len(s) -> Nat]
  BY <1>2, <1>12
<1>14. f[0] = 0 /\ Sum(s) = f[Len(s)]
  BY <1>1, <1>2, <1>9
<1>15. ASSUME NEW k \in 1..Len(s) PROVE f[k] = f[k - 1] + s[k]
  <2>1. k \in 0..Len(s) /\ k - 1 \in 0..Len(s) /\ k # 0
    BY <1>2
  <2>2. f[k] = iter[1..k] /\ f[k - 1] = iter[1..(k - 1)]
    BY <2>1
  <2> QED
    BY <1>9, <2>1, <2>2
<1> HIDE DEF f
<1> QED
  BY <1>13, <1>14, <1>15

LEMMA SumAppend ==
  ASSUME NEW s \in Seq(Nat), NEW x \in Nat
  PROVE  /\ Sum(s) \in Nat /\ (s = << >> => Sum(s) = 0)
         /\ Sum(Append(s, x)) = Sum(s) + x
<1> DEFINE t == Append(s, x)
<1>1. /\ t \in Seq(Nat) /\ Len(s) \in Nat /\ Len(t) = Len(s) + 1
      /\ \A i \in 1..Len(s) : t[i] = s[i]
      /\ t[Len(s) + 1] = x
  BY AppendProperties
<1> HIDE DEF t
<1>2. PICK f \in [0..Len(s) -> Nat] :
        /\ f[0] = 0 /\ Sum(s) = f[Len(s)]
        /\ \A k \in 1..Len(s) : f[k] = f[k - 1] + s[k]
  BY SumIs
<1>3. PICK g \in [0..Len(t) -> Nat] :
        /\ g[0] = 0 /\ Sum(t) = g[Len(t)]
        /\ \A k \in 1..Len(t) : g[k] = g[k - 1] + t[k]
  BY <1>1, SumIs
<1> DEFINE Same == {k \in Nat : k <= Len(s) => g[k] = f[k]}
<1>4. 0 \in Same
  BY <1>2, <1>3
<1>5. ASSUME NEW k \in Nat, k \in Same PROVE k + 1 \in Same
  <2> SUFFICES ASSUME k + 1 <= Len(s) PROVE g[k + 1] = f[k + 1]
    OBVIOUS
  <2>1. k + 1 \in 1..Len(s) /\ k + 1 \in 1..Len(t) /\ (k + 1) - 1 = k /\ k <= Len(s)
    BY <1>1
  <2>2. g[k] = f[k] /\ t[k + 1] = s[k + 1]
    BY <1>1, <1>5, <2>1
  <2>3. g[k + 1] = g[k] + t[k + 1]
    BY <1>3, <2>1
  <2>4. f[k + 1] = f[k] + s[k + 1]
    BY <1>2, <2>1
  <2> QED
    BY <2>2, <2>3, <2>4
<1>6. Nat \subseteq Same
  <2> HIDE DEF Same
  <2> QED
    BY <1>4, <1>5, UpFromZero
<1>7. g[Len(s)] = f[Len(s)]
  <2>1. Len(s) \in Same
    <3> HIDE DEF Same
    <3> QED
      BY <1>1, <1>6
  <2> QED
    BY <1>1, <2>1
<1>8. Len(s) + 1 \in 1..Len(t) /\ (Len(s) + 1) - 1 = Len(s)
  BY <1>1
<1>9. g[Len(s) + 1] = g[Len(s)] + x
  BY <1>1, <1>3, <1>8
<1>10. s = << >> => Len(s) = 0
  OBVIOUS
<1>11. Sum(s) \in Nat /\ Sum(t) = Sum(s) + x
  BY <1>1, <1>2, <1>3, <1>7, <1>9
<1>12. s = << >> => Sum(s) = 0
  BY <1>2, <1>10
<1> QED
  BY <1>11, <1>12 DEF t

LEMMA SumType ==
  ASSUME NEW s \in Seq(Nat)
  PROVE  Sum(s) \in Nat
<1>1. 0 \in Nat
  OBVIOUS
<1> QED
  BY <1>1, SumAppend

-----------------------------------------------------------------------------
(* FlattenSeq joins sequences, one behind the other. *)

LEMMA JoinExists ==
  ASSUME NEW S, NEW seqs \in Seq(Seq(S))
  PROVE  \E f : IsJoined(seqs, S, f)
<1> DEFINE L == Len(seqs)
           Goes(n, f) == /\ f \in [0..n -> Seq(S)] /\ f[0] = << >>
                         /\ \A i \in 1..n : f[i] = f[i - 1] \o seqs[i]
           Joins(n) == \E f : Goes(n, f)
           G == {n \in Nat : n <= L => Joins(n)}
<1>1. L \in Nat /\ \A i \in 1..L : seqs[i] \in Seq(S)
  OBVIOUS
<1>2. Joins(0)
  <2>1. Goes(0, [k \in 0..0 |-> << >>])
    OBVIOUS
  <2> QED
    BY <2>1
<1>3. ASSUME NEW n \in Nat, n + 1 <= L, Joins(n) PROVE Joins(n + 1)
  <2>1. PICK f : Goes(n, f)
    BY <1>3
  <2> DEFINE g == [k \in 0..(n + 1) |-> IF k = n + 1 THEN f[n] \o seqs[n + 1] ELSE f[k]]
  <2>2. seqs[n + 1] \in Seq(S) /\ f[n] \in Seq(S)
    <3>1. n + 1 \in 1..L /\ n \in 0..n
      BY <1>1, <1>3
    <3> QED
      BY <1>1, <2>1, <3>1
  <2>3. f[n] \o seqs[n + 1] \in Seq(S)
    BY <2>2, ConcatProperties
  <2>4. g \in [0..(n + 1) -> Seq(S)] /\ g[0] = << >>
    BY <2>1, <2>3
  <2>5. ASSUME NEW i \in 1..(n + 1) PROVE g[i] = g[i - 1] \o seqs[i]
    <3>1. CASE i = n + 1
      <4>1. n + 1 \in 0..(n + 1) /\ n \in 0..(n + 1) /\ n # n + 1 /\ i - 1 = n
        BY <3>1
      <4>2. g[n + 1] = f[n] \o seqs[n + 1] /\ g[n] = f[n]
        BY <4>1
      <4> QED
        BY <3>1, <4>1, <4>2
    <3>2. CASE i # n + 1
      <4>1. i \in 1..n /\ g[i] = f[i] /\ g[i - 1] = f[i - 1]
        BY <3>2
      <4> QED
        BY <2>1, <4>1
    <3> QED
      BY <3>1, <3>2
  <2> HIDE DEF g
  <2>6. Goes(n + 1, g)
    BY <2>4, <2>5
  <2> HIDE DEF Goes
  <2> QED
    BY <2>6
<1> HIDE DEF Joins
<1>4. 0 \in G
  BY <1>2
<1>5. ASSUME NEW n \in Nat, n \in G PROVE n + 1 \in G
  BY <1>1, <1>3, <1>5
<1> HIDE DEF G
<1>6. Nat \subseteq G
  BY <1>4, <1>5, UpFromZero
<1>7. Joins(L)
  BY <1>1, <1>6 DEF G
<1> QED
  BY <1>7 DEF Joins, IsJoined, JoinsUpTo

LEMMA JoinUnique ==
  ASSUME NEW S, NEW seqs, Len(seqs) \in Nat, NEW f, IsJoined(seqs, S, f),
         NEW n \in 0..Len(seqs), NEW g, JoinsUpTo(seqs, n, g)
  PROVE  g[n] = f[n]
<1> USE DEF JoinsUpTo
<1> DEFINE Same == {k \in Nat : k <= n => g[k] = f[k]}
<1>1. 0 \in Same
  BY DEF IsJoined, JoinsUpTo
<1>2. ASSUME NEW k \in Nat, k \in Same PROVE k + 1 \in Same
  <2> SUFFICES ASSUME k + 1 <= n PROVE g[k + 1] = f[k + 1]
    OBVIOUS
  <2>1. k + 1 \in 1..n /\ k + 1 \in 1..Len(seqs) /\ (k + 1) - 1 = k /\ k <= n
    OBVIOUS
  <2>2. g[k + 1] = g[k] \o seqs[k + 1]
    BY <2>1
  <2>3. f[k + 1] = f[k] \o seqs[k + 1]
    BY <2>1 DEF IsJoined, JoinsUpTo
  <2> QED
    BY <1>2, <2>1, <2>2, <2>3
<1>3. Nat \subseteq Same
  <2> HIDE DEF Same
  <2> QED
    BY <1>1, <1>2, UpFromZero
<1> QED
  BY <1>3

LEMMA FlattenIs ==
  ASSUME NEW S, NEW seqs \in Seq(Seq(S)), NEW f, IsJoined(seqs, S, f)
  PROVE  FlattenSeq(seqs) = f[Len(seqs)] /\ FlattenSeq(seqs) \in Seq(S)
<1> DEFINE L == Len(seqs)
<1>1. L \in Nat /\ \A i \in 1..L : seqs[i] \in Seq(S)
  OBVIOUS
<1>2. f[L] \in Seq(S)
  BY <1>1 DEF IsJoined, JoinsUpTo
<1>3. CASE L = 0
  <2>1. FlattenSeq(seqs) = seqs /\ seqs = << >>
    BY <1>3 DEF FlattenSeq
  <2> QED
    BY <1>2, <1>3, <2>1 DEF IsJoined, JoinsUpTo
<1>4. CASE L # 0
  <2> DEFINE Turn(g) == [i \in 1..L |-> IF i = 1 THEN seqs[i] ELSE g[i - 1] \o seqs[i]]
             flatten == CHOOSE g : g = Turn(g)
             h == [i \in 1..L |-> f[i]]
  <2>1. FlattenSeq(seqs) = flatten[L]
    BY <1>1, <1>4 DEF FlattenSeq
  <2>2. f[1] = seqs[1] /\ 1 \in 1..L
    <3>1. 1 \in 1..L /\ 1 - 1 = 0
      BY <1>1, <1>4
    <3>2. f[1] = << >> \o seqs[1] /\ seqs[1] \in Seq(S)
      BY <1>1, <3>1 DEF IsJoined, JoinsUpTo
    <3> QED
      BY <3>1, <3>2, ConcatEmptySeq
  <2>3. ASSUME NEW i \in 1..L
        PROVE  h[i] = IF i = 1 THEN seqs[i] ELSE h[i - 1] \o seqs[i]
    <3>1. CASE i = 1
      BY <2>2, <3>1
    <3>2. CASE i # 1
      <4>1. i - 1 \in 1..L /\ h[i - 1] = f[i - 1] /\ h[i] = f[i]
        BY <1>1, <3>2
      <4> QED
        BY <3>2, <4>1 DEF IsJoined, JoinsUpTo
    <3> QED
      BY <3>1, <3>2
  <2>4. h = Turn(h)
    BY <2>3
  <2>5. flatten = Turn(flatten)
    <3> HIDE DEF Turn
    <3> QED
      BY <2>4
  <2> HIDE DEF flatten
  <2> DEFINE g == [i \in 0..L |-> IF i = 0 THEN << >> ELSE flatten[i]]
  <2>6. ASSUME NEW i \in 1..L PROVE g[i] = g[i - 1] \o seqs[i]
    <3>1. i \in 0..L /\ i - 1 \in 0..L /\ g[i] = flatten[i] /\ seqs[i] \in Seq(S)
      BY <1>1
    <3>2. CASE i = 1
      <4>1. g[i - 1] = << >>
        BY <1>1, <3>2
      <4>2. flatten[i] = seqs[i]
        BY <2>5, <3>2
      <4> QED
        BY <3>1, <4>1, <4>2, ConcatEmptySeq
    <3>3. CASE i # 1
      <4>1. g[i - 1] = flatten[i - 1]
        BY <1>1, <3>3
      <4>2. flatten[i] = flatten[i - 1] \o seqs[i]
        BY <2>5, <3>3
      <4> QED
        BY <3>1, <4>1, <4>2
    <3> QED
      BY <3>2, <3>3
  <2>7. g[0] = << >> /\ L \in 0..L /\ g[L] = flatten[L]
    BY <1>1, <1>4
  <2> HIDE DEF g
  <2>8. g[L] = f[L]
    <3>1. JoinsUpTo(seqs, L, g)
      BY <2>6, <2>7 DEF JoinsUpTo
    <3> QED
      BY <1>1, <2>7, <3>1, JoinUnique
  <2> QED
    BY <1>2, <2>1, <2>7, <2>8
<1> QED
  BY <1>3, <1>4

LEMMA FlattenType ==
  ASSUME NEW S, NEW seqs \in Seq(Seq(S))
  PROVE  FlattenSeq(seqs) \in Seq(S)
BY JoinExists, FlattenIs

LEMMA FlattenEmpty == FlattenSeq(<< >>) = << >>
BY DEF FlattenSeq

LEMMA FlattenAppend ==
  ASSUME NEW S, NEW seqs \in Seq(Seq(S)), NEW s \in Seq(S)
  PROVE  FlattenSeq(Append(seqs, s)) = FlattenSeq(seqs) \o s
<1> DEFINE more == Append(seqs, s)
<1>1. /\ more \in Seq(Seq(S)) /\ Len(seqs) \in Nat /\ Len(more) = Len(seqs) + 1
      /\ \A i \in 1..Len(seqs) : more[i] = seqs[i]
      /\ more[Len(seqs) + 1] = s
  BY AppendProperties
<1> HIDE DEF more
<1>2. PICK f : IsJoined(more, S, f)
  BY <1>1, JoinExists
<1>3. PICK g : IsJoined(seqs, S, g)
  BY JoinExists
<1>4. ASSUME NEW i \in 1..Len(seqs) PROVE f[i] = f[i - 1] \o seqs[i]
  <2>1. i \in 1..Len(more) /\ more[i] = seqs[i]
    BY <1>1
  <2>2. f[i] = f[i - 1] \o more[i]
    BY <1>2, <2>1 DEF IsJoined, JoinsUpTo
  <2> QED
    BY <2>1, <2>2
<1>5. f[Len(seqs)] = g[Len(seqs)]
  <2>1. f[0] = << >> /\ Len(seqs) \in 0..Len(seqs)
    BY <1>1, <1>2 DEF IsJoined, JoinsUpTo
  <2>2. JoinsUpTo(seqs, Len(seqs), f)
    BY <1>4, <2>1 DEF JoinsUpTo
  <2> QED
    BY <1>1, <1>3, <2>1, <2>2, JoinUnique
<1>6. Len(seqs) + 1 \in 1..Len(more) /\ (Len(seqs) + 1) - 1 = Len(seqs)
  BY <1>1
<1>7. f[Len(more)] = f[Len(seqs)] \o s
  BY <1>1, <1>2, <1>6 DEF IsJoined, JoinsUpTo
<1>8. FlattenSeq(more) = f[Len(more)] /\ FlattenSeq(seqs) = g[Len(seqs)]
  BY <1>1, <1>2, <1>3, FlattenIs
<1> QED
  BY <1>5, <1>7, <1>8 DEF more

-----------------------------------------------------------------------------
(* The pieces of a sequence are no longer than asked for, and none is empty.*)
LEMMA PieceCount ==
  ASSUME NEW l \in Nat, NEW n \in Nat \ {0}
  PROVE  /\ (l + n - 1) \div n \in Nat
         /\ \A k \in 1..((l + n - 1) \div n) : (k - 1) * n \in Nat /\ k * n \in Nat /\ (k - 1) * n < l
         /\ ((l + n - 1) \div n) * n >= l
<1> DEFINE q == (l + n - 1) \div n
<1>1. q \in Nat /\ n * q <= l + n - 1 /\ l + n - 1 < n * q + n
  OBVIOUS
<1> HIDE DEF q
<1>2. ASSUME NEW k \in 1..q PROVE (k - 1) * n \in Nat /\ k * n \in Nat /\ (k - 1) * n < l
  <2>1. k \in Nat /\ k - 1 \in Nat /\ q - k \in Nat
    BY <1>1
  <2>2. (q - k) * n >= 0 /\ (q - k) * n = n * q - k * n /\ (k - 1) * n = k * n - n
    BY <1>1, <2>1
  <2>3. k * n \in Nat /\ (k - 1) * n \in Nat /\ n * q \in Nat
    BY <1>1, <2>1
  <2> QED
    BY <1>1, <2>2, <2>3
<1>3. q * n = n * q
  BY <1>1
<1> QED
  BY <1>1, <1>2, <1>3 DEF q

-----------------------------------------------------------------------------
(* Partial sums. *)

LEMMA UpToSums ==
  ASSUME NEW s \in Seq(Nat)
  PROVE  /\ UpTo(s, 0) = 0
         /\ \A k \in 0..Len(s) : UpTo(s, k) \in Nat
         /\ \A k \in 1..Len(s) : UpTo(s, k) = UpTo(s, k - 1) + s[k]
         /\ UpTo(s, Len(s)) = Sum(s)
<1> DEFINE first(k) == [m \in 1..k |-> s[m]]
<1>1. Len(s) \in Nat /\ \A m \in 1..Len(s) : s[m] \in Nat
  OBVIOUS
<1>2. ASSUME NEW k \in 0..Len(s) PROVE first(k) \in Seq(Nat) /\ Len(first(k)) = k
  BY <1>1
<1>3. ASSUME NEW k \in 1..Len(s) PROVE UpTo(s, k) = UpTo(s, k - 1) + s[k]
  <2>1. k - 1 \in 0..Len(s) /\ k \in 0..Len(s) /\ s[k] \in Nat /\ (k - 1) + 1 = k
    BY <1>1
  <2> DEFINE one == first(k - 1)
             more == Append(first(k - 1), s[k])
             all == first(k)
  <2>2. one \in Seq(Nat) /\ Len(one) = k - 1 /\ \A m \in 1..(k - 1) : one[m] = s[m]
    BY <1>2, <2>1
  <2>3. all \in Seq(Nat) /\ Len(all) = k /\ \A m \in 1..k : all[m] = s[m]
    BY <1>2, <2>1
  <2>4. /\ more \in Seq(Nat) /\ Len(more) = k /\ more[k] = s[k]
        /\ \A m \in 1..(k - 1) : more[m] = s[m]
    <3> HIDE DEF one
    <3> QED
      BY <2>1, <2>2, AppendProperties DEF one
  <2>5. more = all
    <3> HIDE DEF more, all
    <3>1. \A m \in 1..k : m = k \/ m \in 1..(k - 1)
      BY <2>1
    <3>2. \A m \in 1..k : more[m] = all[m]
      BY <2>3, <2>4, <3>1
    <3> QED
      BY <2>3, <2>4, <3>2, SeqEqual
  <2>6. Sum(more) = Sum(one) + s[k]
    <3> HIDE DEF one
    <3> QED
      BY <2>1, <2>2, SumAppend DEF one
  <2> QED
    BY <2>5, <2>6 DEF UpTo
<1>4. ASSUME NEW k \in 0..Len(s) PROVE UpTo(s, k) \in Nat
  BY <1>2, SumType DEF UpTo
<1>5. UpTo(s, 0) = 0
  <2>1. first(0) = << >> /\ << >> \in Seq(Nat) /\ 0 \in Nat
    OBVIOUS
  <2> HIDE DEF first
  <2>2. Sum(first(0)) = 0
    BY <2>1, SumAppend
  <2> QED
    BY <2>2 DEF UpTo, first
<1>6. first(Len(s)) = s
  BY <1>1
<1> QED
  BY <1>3, <1>4, <1>5, <1>6 DEF UpTo

LEMMA UpToGrows ==
  ASSUME NEW s \in Seq(Nat), NEW i \in 0..Len(s), NEW j \in 0..Len(s), i <= j
  PROVE  UpTo(s, i) <= UpTo(s, j)
<1> DEFINE G == {d \in Nat : i + d <= Len(s) => UpTo(s, i) <= UpTo(s, i + d)}
<1>1. Len(s) \in Nat /\ \A k \in 0..Len(s) : UpTo(s, k) \in Nat
  BY UpToSums
<1>2. 0 \in G
  BY <1>1
<1>3. ASSUME NEW d \in Nat, d \in G PROVE d + 1 \in G
  <2> SUFFICES ASSUME i + (d + 1) <= Len(s) PROVE UpTo(s, i) <= UpTo(s, i + (d + 1))
    OBVIOUS
  <2>1. i + (d + 1) \in 1..Len(s) /\ (i + (d + 1)) - 1 = i + d /\ i + d \in 0..Len(s)
        /\ i + (d + 1) \in 0..Len(s)
    BY <1>1
  <2>2. UpTo(s, i + (d + 1)) = UpTo(s, i + d) + s[i + (d + 1)]
    BY <2>1, UpToSums
  <2>3. s[i + (d + 1)] \in Nat
    BY <2>1, ElementOfSeq
  <2>4. UpTo(s, i) <= UpTo(s, i + d)
    BY <1>3, <2>1
  <2>5. UpTo(s, i) \in Nat /\ UpTo(s, i + d) \in Nat
    BY <1>1, <2>1
  <2> DEFINE p == UpTo(s, i)
             q == UpTo(s, i + d)
             r == UpTo(s, i + (d + 1))
             x == s[i + (d + 1)]
  <2> HIDE DEF p, q, r, x
  <2>6. p \in Nat /\ q \in Nat /\ x \in Nat /\ r = q + x /\ p <= q
    BY <2>2, <2>3, <2>4, <2>5 DEF p, q, r, x
  <2>7. p <= r
    BY <2>6
  <2> QED
    BY <2>7 DEF p, r
<1> HIDE DEF G
<1>4. Nat \subseteq G
  BY <1>2, <1>3, UpFromZero
<1>5. j - i \in G /\ i + (j - i) = j
  BY <1>1, <1>4
<1> QED
  BY <1>1, <1>5 DEF G

-----------------------------------------------------------------------------
(* Where in a joined sequence each of its parts is. *)

LEMMA LengthsAre ==
  ASSUME NEW S, NEW seqs \in Seq(Seq(S))
  PROVE  /\ Lengths_(seqs) \in Seq(Nat) /\ Len(Lengths_(seqs)) = Len(seqs)
         /\ DOMAIN seqs = 1..Len(seqs) /\ Len(seqs) \in Nat
         /\ \A m \in 1..Len(seqs) : Lengths_(seqs)[m] = Len(seqs[m]) /\ Len(seqs[m]) \in Nat
                                   /\ seqs[m] \in Seq(S)
<1>1. DOMAIN seqs = 1..Len(seqs) /\ Len(seqs) \in Nat
  OBVIOUS
<1>2. \A m \in 1..Len(seqs) : seqs[m] \in Seq(S) /\ Len(seqs[m]) \in Nat
  OBVIOUS
<1> QED
  BY <1>1, <1>2 DEF Lengths_

LEMMA JoinedTwo ==
  ASSUME NEW S, NEW s \in Seq(S), NEW t \in Seq(S)
  PROVE  /\ s \o t \in Seq(S) /\ Len(s \o t) = Len(s) + Len(t)
         /\ \A p \in 1..Len(s) : (s \o t)[p] = s[p]
         /\ \A j \in 1..Len(t) : (s \o t)[Len(s) + j] = t[j]
<1> DEFINE m == Len(s)
           n == Len(t)
           u == s \o t
<1>1. /\ m \in Nat /\ n \in Nat /\ u \in Seq(S) /\ Len(u) = m + n
      /\ \A i \in 1..(m + n) : u[i] = IF i <= m THEN s[i] ELSE t[i - m]
  BY ConcatProperties
<1> HIDE DEF m, n, u
<1>2. \A p \in 1..m : p \in 1..(m + n) /\ p <= m
  BY <1>1
<1>3. \A j \in 1..n : m + j \in 1..(m + n) /\ ~(m + j <= m) /\ (m + j) - m = j
  BY <1>1
<1>4. \A p \in 1..m : u[p] = s[p]
  BY <1>1, <1>2
<1>5. \A j \in 1..n : u[m + j] = t[j]
  BY <1>1, <1>3
<1> QED
  BY <1>1, <1>4, <1>5 DEF m, n, u

LEMMA OnePartMore ==
  ASSUME NEW S, NEW seqs \in Seq(Seq(S)), NEW n \in 1..Len(seqs),
         NEW whole \in Seq(S), InPlace(seqs, n - 1, whole)
  PROVE  InPlace(seqs, n, whole \o seqs[n])
<1> DEFINE lens == Lengths_(seqs)
           more == whole \o seqs[n]
           b(m) == UpTo(Lengths_(seqs), m)
<1>1. /\ lens \in Seq(Nat) /\ Len(lens) = Len(seqs) /\ Len(seqs) \in Nat
      /\ \A m \in 1..Len(seqs) : lens[m] = Len(seqs[m]) /\ Len(seqs[m]) \in Nat
                                 /\ seqs[m] \in Seq(S)
  BY LengthsAre
<1>2. /\ \A m \in 0..Len(seqs) : b(m) \in Nat
      /\ b(n) = b(n - 1) + Len(seqs[n])
  BY <1>1, UpToSums
<1>3. \A m \in 1..n : b(m) <= b(n) /\ b(m) = b(m - 1) + Len(seqs[m]) /\ b(m - 1) \in Nat
                      /\ b(m) \in Nat
  <2> SUFFICES ASSUME NEW m \in 1..n
               PROVE  b(m) <= b(n) /\ b(m) = b(m - 1) + Len(seqs[m]) /\ b(m - 1) \in Nat
                      /\ b(m) \in Nat
    OBVIOUS
  <2>1. m \in 0..Len(lens) /\ n \in 0..Len(lens) /\ m <= n /\ m \in 1..Len(lens)
        /\ m - 1 \in 0..Len(seqs) /\ m \in 0..Len(seqs)
    BY <1>1
  <2> QED
    BY <1>1, <1>2, <2>1, UpToSums, UpToGrows
<1>4. n - 1 \in 0..Len(seqs) /\ b(n - 1) \in Nat /\ Len(seqs[n]) \in Nat /\ seqs[n] \in Seq(S)
  BY <1>1, <1>2
<1>5. Len(whole) = b(n - 1)
  BY DEF InPlace
<1> HIDE DEF b
<1>6. /\ more \in Seq(S) /\ Len(more) = b(n)
      /\ \A p \in 1..b(n - 1) : more[p] = whole[p]
      /\ \A j \in 1..Len(seqs[n]) : more[b(n - 1) + j] = seqs[n][j]
  <2> HIDE DEF more
  <2>1. /\ more \in Seq(S) /\ Len(more) = Len(whole) + Len(seqs[n])
        /\ \A p \in 1..Len(whole) : more[p] = whole[p]
        /\ \A j \in 1..Len(seqs[n]) : more[Len(whole) + j] = seqs[n][j]
    BY <1>4, JoinedTwo DEF more
  <2> QED
    BY <1>2, <1>5, <2>1
<1> HIDE DEF more
<1>7. ASSUME NEW m \in 1..n, NEW j \in 1..Len(seqs[m])
      PROVE  more[b(m - 1) + j] = seqs[m][j]
  <2>1. CASE m = n
    BY <1>6, <2>1
  <2>2. CASE m # n
    <3>1. m \in 1..(n - 1)
      BY <2>2
    <3>2. whole[b(m - 1) + j] = seqs[m][j]
      BY <3>1 DEF InPlace, b
    <3>3. b(m) <= b(n - 1)
      <4>1. m \in 0..Len(lens) /\ n - 1 \in 0..Len(lens) /\ m <= n - 1
        BY <1>1, <3>1
      <4> HIDE DEF lens
      <4>2. UpTo(lens, m) <= UpTo(lens, n - 1)
        BY <1>1, <4>1, UpToGrows
      <4> QED
        BY <4>2 DEF lens, b
    <3>4. Len(seqs[m]) \in Nat /\ b(m) = b(m - 1) + Len(seqs[m]) /\ b(m - 1) \in Nat
      BY <1>1, <1>3
    <3>5. b(m - 1) + j \in 1..b(n - 1)
      <4> DEFINE x == b(m - 1)
                 y == b(m)
                 z == b(n - 1)
                 l == Len(seqs[m])
      <4> HIDE DEF x, y, z, l
      <4>1. x \in Nat /\ l \in Nat /\ y = x + l /\ y <= z /\ z \in Nat /\ j \in 1..l
        BY <1>4, <3>3, <3>4 DEF x, y, z, l
      <4>2. x + j \in 1..z
        BY <4>1
      <4> QED
        BY <4>2 DEF x, z
    <3> QED
      BY <1>6, <3>2, <3>5
  <2> QED
    BY <2>1, <2>2
<1>8. ASSUME NEW p \in 1..Len(more)
      PROVE  \E m \in 1..n : \E j \in 1..Len(seqs[m]) : p = b(m - 1) + j
  <2>1. CASE p \in 1..b(n - 1)
    <3>1. \E m \in 1..(n - 1) : \E j \in 1..Len(seqs[m]) : p = b(m - 1) + j
      BY <1>5, <2>1 DEF InPlace, b
    <3>2. \A m \in 1..(n - 1) : m \in 1..n
      OBVIOUS
    <3> QED
      BY <3>1, <3>2
  <2>2. CASE p \notin 1..b(n - 1)
    <3> DEFINE x == b(n - 1)
               y == b(n)
               l == Len(seqs[n])
    <3> HIDE DEF x, y, l
    <3>1. x \in Nat /\ l \in Nat /\ y = x + l /\ p \in 1..y /\ p \notin 1..x
      BY <1>2, <1>4, <1>6, <2>2 DEF x, y, l
    <3>2. p - x \in 1..l /\ p = x + (p - x)
      BY <3>1
    <3>3. n \in 1..n
      OBVIOUS
    <3> QED
      BY <3>2, <3>3 DEF x, l
  <2> QED
    BY <2>1, <2>2
<1>9. Len(more) = b(n)
  BY <1>6
<1> QED
  BY <1>7, <1>8, <1>9 DEF InPlace, more, b

LEMMA FlattenInPlace ==
  ASSUME NEW S, NEW seqs \in Seq(Seq(S))
  PROVE  FlattenSeq(seqs) \in Seq(S) /\ InPlace(seqs, Len(seqs), FlattenSeq(seqs))
<1>1. PICK f : IsJoined(seqs, S, f)
  BY JoinExists
<1>2. /\ f \in [0..Len(seqs) -> Seq(S)] /\ f[0] = << >> /\ Len(seqs) \in Nat
      /\ \A i \in 1..Len(seqs) : f[i] = f[i - 1] \o seqs[i]
  <2>1. Len(seqs) \in Nat
    OBVIOUS
  <2> QED
    BY <1>1, <2>1 DEF IsJoined, JoinsUpTo
<1> HIDE DEF IsJoined
<1> DEFINE G == {n \in Nat : n <= Len(seqs) => InPlace(seqs, n, f[n])}
<1>3. 0 \in G
  <2>1. UpTo(Lengths_(seqs), 0) = 0
    BY LengthsAre, UpToSums
  <2> QED
    BY <1>2, <2>1 DEF InPlace
<1>4. ASSUME NEW n \in Nat, n \in G PROVE n + 1 \in G
  <2> SUFFICES ASSUME n + 1 <= Len(seqs) PROVE InPlace(seqs, n + 1, f[n + 1])
    OBVIOUS
  <2>1. n + 1 \in 1..Len(seqs) /\ (n + 1) - 1 = n /\ n \in 0..Len(seqs) /\ n <= Len(seqs)
    BY <1>2
  <2>2. InPlace(seqs, (n + 1) - 1, f[n]) /\ f[n] \in Seq(S) /\ f[n + 1] = f[n] \o seqs[n + 1]
    BY <1>2, <1>4, <2>1
  <2> QED
    BY <2>1, <2>2, OnePartMore
<1> HIDE DEF G
<1>5. Nat \subseteq G
  BY <1>3, <1>4, UpFromZero
<1>6. InPlace(seqs, Len(seqs), f[Len(seqs)])
  BY <1>2, <1>5 DEF G
<1> QED
  BY <1>1, <1>6, FlattenIs

-----------------------------------------------------------------------------
(* Parts of a sequence. *)
LEMMA SeqFrom ==
  ASSUME NEW S, NEW n \in Nat, NEW f, DOMAIN f = 1..n, f = [k \in DOMAIN f |-> f[k]],
         \A k \in 1..n : f[k] \in S
  PROVE  f \in Seq(S) /\ Len(f) = n
<1>1. f \in [1..n -> S]
  OBVIOUS
<1> QED
  BY <1>1

LEMMA PartIs ==
  ASSUME NEW S, NEW s \in Seq(S), NEW o \in Nat, NEW l \in Nat, o + l <= Len(s)
  PROVE  /\ SubSeq(s, o + 1, o + l) \in Seq(S) /\ Len(SubSeq(s, o + 1, o + l)) = l
         /\ \A i \in 1..l : SubSeq(s, o + 1, o + l)[i] = s[o + i]
<1> DEFINE n == Len(s)
           m == o + 1
           e == o + l
           t == SubSeq(s, m, e)
<1>1. n \in Nat /\ m \in Int /\ e \in Int /\ \A i \in m..e : i \in 1..n
  OBVIOUS
<1>2. \A i \in m..e : s[i] \in S
  BY <1>1
<1>3. e - m + 1 = l /\ (IF m <= e THEN e - m + 1 ELSE 0) = l
  OBVIOUS
<1>4. \A i \in 1..l : (m + i) - 1 = o + i
  OBVIOUS
<1>5. /\ t \in Seq(S) /\ Len(t) = (IF m <= e THEN e - m + 1 ELSE 0)
      /\ \A i \in 1..(e - m + 1) : t[i] = s[m + i - 1]
  <2> HIDE DEF m, e
  <2> QED
    BY <1>1, <1>2, SubSeqProperties
<1> HIDE DEF t
<1>6. ASSUME NEW i \in 1..l PROVE t[i] = s[o + i]
  <2> DEFINE p == o + i
             q == m + i - 1
  <2>1. i \in 1..(e - m + 1) /\ q = p
    OBVIOUS
  <2>2. t[i] = s[q]
    <3> HIDE DEF m, e
    <3> QED
      BY <1>5, <2>1
  <2> HIDE DEF p, q
  <2>3. t[i] = s[p]
    BY <2>1, <2>2
  <2> QED
    BY <2>3 DEF p
<1> QED
  BY <1>3, <1>5, <1>6 DEF t

LEMMA JoinedSubSeqs ==
  ASSUME NEW S, NEW c \in Seq(S), NEW o \in Nat, NEW x \in Nat, NEW y \in Nat,
         o <= x, x <= y, y <= Len(c)
  PROVE  SubSeq(c, o + 1, x) \o SubSeq(c, x + 1, y) = SubSeq(c, o + 1, y)
<1> DEFINE n == Len(c)
           m == o + 1
<1>1. n \in Nat /\ y <= n
  OBVIOUS
<1> HIDE DEF n
<1>2. m \in 1..(n + 1) /\ x \in (m - 1)..n /\ y \in x..n
  BY <1>1
<1> HIDE DEF m
<1>3. SubSeq(c, m, x) \o SubSeq(c, x + 1, y) = SubSeq(c, m, y)
  BY <1>2, ConcatAdjacentSubSeq DEF n
<1> QED
  BY <1>3 DEF m

LEMMA PartsJoined ==
  ASSUME NEW S, NEW c \in Seq(S), NEW o \in Nat, o <= Len(c),
         NEW parts, NEW n \in Nat, Listed(parts, n), NEW end, GoesOn(parts, c, o, end)
  PROVE  FlattenSeq(parts) = SubSeq(c, o + 1, end[n])
<1> USE DEF Listed
<1> DEFINE G == {j \in Nat : j <= n => end[j] \in Nat /\ o <= end[j] /\ end[j] <= Len(c)}
           f == [j \in 0..n |-> SubSeq(c, o + 1, end[j])]
<1>1. Len(c) \in Nat /\ \A i \in 1..Len(c) : c[i] \in S
  OBVIOUS
<1>2. 0 \in G
  BY DEF GoesOn
<1>3. ASSUME NEW j \in Nat, j \in G PROVE j + 1 \in G
  <2> SUFFICES ASSUME j + 1 <= n
               PROVE  end[j + 1] \in Nat /\ o <= end[j + 1] /\ end[j + 1] <= Len(c)
    OBVIOUS
  <2>1. j + 1 \in 1..Len(parts) /\ (j + 1) - 1 = j /\ j <= n
    OBVIOUS
  <2>2. end[j + 1] \in Nat /\ end[j] <= end[j + 1] /\ end[j + 1] <= Len(c)
    BY <2>1 DEF GoesOn
  <2>3. end[j] \in Nat /\ o <= end[j]
    BY <1>3, <2>1
  <2> QED
    BY <2>2, <2>3
<1> HIDE DEF G
<1>4. Nat \subseteq G
  BY <1>2, <1>3, UpFromZero
<1>5. ASSUME NEW j \in 0..n
      PROVE  end[j] \in Nat /\ o <= end[j] /\ end[j] <= Len(c) /\ SubSeq(c, o + 1, end[j]) \in Seq(S)
  <2>1. end[j] \in Nat /\ o <= end[j] /\ end[j] <= Len(c)
    BY <1>4 DEF G
  <2> DEFINE l == end[j] - o
  <2>2. l \in Nat /\ o + l = end[j] /\ o + l <= Len(c)
    BY <2>1
  <2> HIDE DEF l
  <2>3. SubSeq(c, o + 1, o + l) \in Seq(S)
    BY <2>2, PartIs
  <2> QED
    BY <2>1, <2>2, <2>3
<1>6. ASSUME NEW j \in 1..n
      PROVE  parts[j] \in Seq(S) /\ f[j] = f[j - 1] \o parts[j]
  <2>1. j \in 1..Len(parts) /\ j \in 0..n /\ j - 1 \in 0..n
    OBVIOUS
  <2> DEFINE x == end[j - 1]
             y == end[j]
  <2>2. x \in Nat /\ y \in Nat /\ o <= x /\ x <= y /\ y <= Len(c) /\ parts[j] = SubSeq(c, x + 1, y)
    BY <1>5, <2>1 DEF GoesOn
  <2>3. f[j] = SubSeq(c, o + 1, y) /\ f[j - 1] = SubSeq(c, o + 1, x)
    BY <2>1
  <2> HIDE DEF x, y, f
  <2>4. SubSeq(c, o + 1, x) \o SubSeq(c, x + 1, y) = SubSeq(c, o + 1, y)
    <3>1. x \in Nat /\ y \in Nat /\ o <= x /\ x <= y /\ y <= Len(c)
      BY <2>2
    <3>2. c \in Seq(S) /\ o \in Nat
      OBVIOUS
    <3> QED
      BY <3>1, <3>2, JoinedSubSeqs, ZenonT(60)
  <2> DEFINE l == y - x
  <2>5. l \in Nat /\ x + l = y /\ x + l <= Len(c)
    BY <2>2
  <2> HIDE DEF l
  <2>6. SubSeq(c, x + 1, x + l) \in Seq(S)
    BY <2>2, <2>5, PartIs
  <2> QED
    BY <2>2, <2>3, <2>4, <2>5, <2>6
<1>7. parts \in Seq(Seq(S))
  BY <1>6, SeqFrom
<1>8. f[0] = << >>
  <2>1. end[0] = o /\ o + 1 \in Int /\ o \in Int /\ o < o + 1
    BY DEF GoesOn
  <2>2. SubSeq(c, o + 1, o) = << >>
    BY <2>1, SubSeqEmpty
  <2> QED
    BY <2>1, <2>2
<1>9. f \in [0..n -> Seq(S)]
  BY <1>5
<1>10. f[n] = SubSeq(c, o + 1, end[n])
  <2>1. n \in 0..n
    OBVIOUS
  <2> QED
    BY <2>1
<1> HIDE DEF f
<1>11. IsJoined(parts, S, f)
  BY <1>6, <1>8, <1>9 DEF IsJoined, JoinsUpTo
<1>12. FlattenSeq(parts) = f[n]
  BY <1>7, <1>11, FlattenIs
<1> QED
  BY <1>10, <1>12

(* Parts of two sequences. *)
LEMMA JoinedThree ==
  ASSUME NEW S, NEW s \in Seq(S), NEW t \in Seq(S), NEW u \in Seq(S)
  PROVE  (s \o t) \o u = s \o (t \o u)
OBVIOUS

LEMMA FlattenConcat ==
  ASSUME NEW S, NEW a \in Seq(Seq(S)), NEW b \in Seq(Seq(S))
  PROVE  /\ a \o b \in Seq(Seq(S))
         /\ FlattenSeq(a \o b) = FlattenSeq(a) \o FlattenSeq(b)
<1> DEFINE n == Len(b)
           G == {k \in Nat : k <= n =>
                   FlattenSeq(a \o SubSeq(b, 1, k)) = FlattenSeq(a) \o FlattenSeq(SubSeq(b, 1, k))}
<1>1. n \in Nat /\ FlattenSeq(a) \in Seq(S)
  BY FlattenType
<1>2. 0 \in G
  <2>1. SubSeq(b, 1, 0) = << >>
    BY SubSeqEmpty
  <2> QED
    BY <1>1, <2>1, FlattenEmpty, ConcatEmptySeq
<1>3. ASSUME NEW k \in Nat, k \in G PROVE k + 1 \in G
  <2> SUFFICES ASSUME k + 1 <= n
               PROVE  FlattenSeq(a \o SubSeq(b, 1, k + 1)) = FlattenSeq(a) \o FlattenSeq(SubSeq(b, 1, k + 1))
    OBVIOUS
  <2> DEFINE c == SubSeq(b, 1, k)
             x == b[k + 1]
  <2>1. k + 1 \in 1..n /\ k <= n
    BY <1>1
  <2>2. x \in Seq(S)
    BY <2>1, ElementOfSeq
  <2>3. c \in Seq(Seq(S)) /\ SubSeq(b, 1, k + 1) = Append(c, x)
    <3>1. SubSeq(b, 1, k + 1) = SubSeq(b, 1, (k + 1) - 1) \o <<x>> /\ (k + 1) - 1 = k
      BY <1>1, <2>1, SubSeqRecursiveSecond
    <3>2. \A i \in 1..k : b[i] \in Seq(S)
      BY <1>1, <2>1, ElementOfSeq
    <3>3. c \in Seq(Seq(S))
      BY <3>2, SubSeqProperties
    <3> HIDE DEF c, x
    <3>4. Append(c, x) = c \o <<x>>
      BY <2>2, <3>3, AppendIsConcat
    <3> QED
      BY <3>1, <3>3, <3>4 DEF c
  <2>4. FlattenSeq(a \o c) = FlattenSeq(a) \o FlattenSeq(c)
    BY <1>3, <2>1
  <2> HIDE DEF c, x
  <2>5. a \o Append(c, x) = Append(a \o c, x) /\ a \o c \in Seq(Seq(S))
    <3>1. << x >> \in Seq(Seq(S)) /\ a \o c \in Seq(Seq(S))
      BY <2>2, <2>3, ConcatProperties
    <3>2. Append(c, x) = c \o <<x>> /\ Append(a \o c, x) = (a \o c) \o <<x>>
      BY <2>2, <2>3, <3>1, AppendIsConcat
    <3> HIDE DEF n, G
    <3>3. (a \o c) \o <<x>> = a \o (c \o <<x>>)
      BY <2>3, <3>1, SMTT(60)
    <3> QED
      BY <3>1, <3>2, <3>3
  <2>6. FlattenSeq(Append(a \o c, x)) = FlattenSeq(a \o c) \o x /\ FlattenSeq(Append(c, x)) = FlattenSeq(c) \o x
    BY <2>2, <2>3, <2>5, FlattenAppend
  <2>7. FlattenSeq(c) \in Seq(S)
    BY <2>3, FlattenType
  <2>8. (FlattenSeq(a) \o FlattenSeq(c)) \o x = FlattenSeq(a) \o (FlattenSeq(c) \o x)
    <3> DEFINE p == FlattenSeq(a)
               q == FlattenSeq(c)
    <3>1. p \in Seq(S) /\ q \in Seq(S)
      BY <1>1, <2>7
    <3> HIDE DEF p, q, n, G
    <3>2. (p \o q) \o x = p \o (q \o x)
      BY <2>2, <3>1, JoinedThree, SMTT(60)
    <3> QED
      BY <3>2 DEF p, q
  <2> QED
    BY <2>3, <2>4, <2>5, <2>6, <2>8
<1>4. n \in G
  <2> HIDE DEF G, n
  <2> QED
    BY <1>1, <1>2, <1>3, UpFromZero
<1>5. SubSeq(b, 1, n) = b
  BY SubSeqFull
<1>6. FlattenSeq(a \o b) = FlattenSeq(a) \o FlattenSeq(b)
  <2>1. n <= n
    BY <1>1
  <2>2. FlattenSeq(a \o SubSeq(b, 1, n)) = FlattenSeq(a) \o FlattenSeq(SubSeq(b, 1, n))
    BY <1>4, <2>1
  <2> QED
    BY <1>5, <2>2
<1> QED
  BY <1>6, ConcatProperties

LEMMA FlattenNone ==
  ASSUME NEW S, NEW a \in Seq(Seq(S)), \A k \in DOMAIN a : a[k] = << >>
  PROVE  FlattenSeq(a) = << >>
<1> DEFINE n == Len(a)
           f == [k \in 0..n |-> << >>]
<1>1. n \in Nat /\ << >> \in Seq(S) /\ << >> \o << >> = << >> /\ \A k \in 1..n : a[k] = << >>
  BY ConcatEmptySeq
<1> HIDE DEF n
<1>2. f \in [0..n -> Seq(S)] /\ f[0] = << >> /\ f[n] = << >> /\ \A k \in 1..n : f[k] = f[k - 1] \o a[k]
  <2>1. \A k \in 1..n : k \in 0..n /\ k - 1 \in 0..n
    BY <1>1
  <2>2. 0 \in 0..n /\ n \in 0..n
    BY <1>1
  <2>3. \A k \in 0..n : f[k] = << >>
    OBVIOUS
  <2>4. f \in [0..n -> Seq(S)]
    BY <1>1
  <2> HIDE DEF f
  <2>5. ASSUME NEW k \in 1..n PROVE f[k] = f[k - 1] \o a[k]
    <3>1. f[k] = << >> /\ f[k - 1] = << >> /\ a[k] = << >>
      BY <1>1, <2>1, <2>3
    <3> QED
      BY <1>1, <3>1
  <2> QED
    BY <2>2, <2>3, <2>4, <2>5
<1> HIDE DEF f
<1>3. IsJoined(a, S, f)
  BY <1>2 DEF IsJoined, JoinsUpTo, n
<1> QED
  BY <1>2, <1>3, FlattenIs DEF n

(* Numbers whose sum is zero are zero. *)
LEMMA SumZero ==
  ASSUME NEW s \in Seq(Nat), Sum(s) = 0, NEW k \in 1..Len(s)
  PROVE  s[k] = 0
<1>1. Len(s) \in Nat /\ k \in 0..Len(s) /\ k - 1 \in 0..Len(s) /\ Len(s) \in 0..Len(s) /\ k <= Len(s)
  OBVIOUS
<1>2. /\ UpTo(s, k) \in Nat /\ UpTo(s, k - 1) \in Nat /\ UpTo(s, k) = UpTo(s, k - 1) + s[k]
      /\ UpTo(s, Len(s)) = 0
  BY <1>1, UpToSums
<1>3. UpTo(s, k) <= UpTo(s, Len(s))
  BY <1>1, UpToGrows
<1>4. s[k] \in Nat
  BY ElementOfSeq
<1> QED
  BY <1>2, <1>3, <1>4

(* The sum of their triples is three times the sum. *)
LEMMA SumTriple ==
  ASSUME NEW s \in Seq(Nat), NEW t \in Seq(Nat), Len(t) = Len(s), \A k \in 1..Len(s) : t[k] = 3 * s[k]
  PROVE  Sum(t) = 3 * Sum(s)
<1> DEFINE G == {k \in Nat : k <= Len(s) => UpTo(t, k) = 3 * UpTo(s, k)}
<1>1. Len(s) \in Nat
  OBVIOUS
<1>2. 0 \in G
  BY <1>1, UpToSums
<1>3. ASSUME NEW k \in Nat, k \in G PROVE k + 1 \in G
  <2> SUFFICES ASSUME k + 1 <= Len(s) PROVE UpTo(t, k + 1) = 3 * UpTo(s, k + 1)
    OBVIOUS
  <2> DEFINE m == k + 1
  <2>1. m \in 1..Len(s) /\ m - 1 = k /\ k \in 0..Len(s) /\ k <= Len(s)
    BY <1>1
  <2>2. UpTo(t, k) = 3 * UpTo(s, k)
    BY <1>3, <2>1
  <2> HIDE DEF m
  <2>3. UpTo(t, m) = UpTo(t, k) + t[m] /\ UpTo(s, m) = UpTo(s, k) + s[m] /\ UpTo(s, k) \in Nat
    BY <2>1, UpToSums
  <2>4. t[m] = 3 * s[m] /\ s[m] \in Nat
    BY <2>1, ElementOfSeq
  <2> DEFINE u == UpTo(s, k)
             v == s[m]
  <2>5. u \in Nat /\ v \in Nat /\ UpTo(t, m) = 3 * u + 3 * v /\ UpTo(s, m) = u + v
    BY <2>2, <2>3, <2>4
  <2> HIDE DEF u, v
  <2>6. UpTo(t, m) = 3 * UpTo(s, m)
    BY <2>5
  <2> QED
    BY <2>6 DEF m
<1>4. Len(s) \in G
  <2> HIDE DEF G
  <2> QED
    BY <1>1, <1>2, <1>3, UpFromZero
<1> QED
  BY <1>1, <1>4, UpToSums

-----------------------------------------------------------------------------
(* A finite set's elements in an order. *)

LEMMA LastInOrder ==
  ASSUME NEW S, NEW R, IsOrder(S, R), IsFiniteSet(S), S # {}
  PROVE  \E m \in S : \A a \in S \ {m} : <<a, m>> \in R
<1> DEFINE HasLast(T) == \E m \in T : \A a \in T \ {m} : <<a, m>> \in R
           G == {n \in Nat : \A T \in SUBSET S : Cardinality(T) = n + 1 => HasLast(T)}
<1>1. ASSUME NEW T \in SUBSET S PROVE IsFiniteSet(T) /\ Cardinality(T) \in Nat
  BY FS_Subset, FS_CardinalityType
<1>2. 0 \in G
  <2> SUFFICES ASSUME NEW T \in SUBSET S, Cardinality(T) = 1 PROVE HasLast(T)
    OBVIOUS
  <2>1. \E x : T = {x}
    BY <1>1, FS_Singleton
  <2> QED
    BY <2>1
<1>3. ASSUME NEW n \in Nat, n \in G PROVE n + 1 \in G
  <2> SUFFICES ASSUME NEW T \in SUBSET S, Cardinality(T) = (n + 1) + 1 PROVE HasLast(T)
    OBVIOUS
  <2>1. PICK x \in T : TRUE
    BY <1>1, FS_EmptySet
  <2>2. Cardinality(T \ {x}) = n + 1 /\ T \ {x} \in SUBSET S
    BY <1>1, <2>1, FS_RemoveElement
  <2>3. PICK m \in T \ {x} : \A a \in (T \ {x}) \ {m} : <<a, m>> \in R
    BY <1>3, <2>2
  <2>4. CASE <<x, m>> \in R
    BY <2>3, <2>4
  <2>5. CASE <<x, m>> \notin R
    <3>1. <<m, x>> \in R
      BY <2>3, <2>5 DEF IsOrder
    <3>2. \A a \in T \ {x} : <<a, x>> \in R
      BY <2>3, <3>1 DEF IsOrder
    <3> QED
      BY <2>1, <3>2
  <2> QED
    BY <2>4, <2>5
<1> HIDE DEF G
<1>4. Nat \subseteq G
  BY <1>2, <1>3, UpFromZero
<1>5. Cardinality(S) \in Nat /\ Cardinality(S) # 0
  BY FS_EmptySet, FS_CardinalityType
<1>6. Cardinality(S) - 1 \in G /\ (Cardinality(S) - 1) + 1 = Cardinality(S)
  BY <1>4, <1>5
<1> QED
  BY <1>6 DEF G

LEMMA ArrangedExists ==
  ASSUME NEW S, NEW R, IsOrder(S, R), IsFiniteSet(S)
  PROVE  \E s : IsArranged(s, Cardinality(S), S, R)
<1> DEFINE Has(T, n) == \E s : IsArranged(s, n, T, R)
           G == {n \in Nat : \A T \in SUBSET S : Cardinality(T) = n => Has(T, n)}
<1>1. ASSUME NEW T \in SUBSET S PROVE IsFiniteSet(T) /\ Cardinality(T) \in Nat
  BY FS_Subset, FS_CardinalityType
<1>2. 0 \in G
  <2> SUFFICES ASSUME NEW T \in SUBSET S, Cardinality(T) = 0 PROVE Has(T, 0)
    OBVIOUS
  <2> DEFINE e == [i \in 1..0 |-> 0]
  <2>1. 1..0 = {}
    OBVIOUS
  <2>2. e \in [1..0 -> T] /\ \A i, j \in 1..0 : i < j => <<e[i], e[j]>> \in R
    BY <2>1
  <2> HIDE DEF e
  <2> QED
    BY <2>2 DEF IsArranged
<1>3. ASSUME NEW n \in Nat, n \in G PROVE n + 1 \in G
  <2> SUFFICES ASSUME NEW T \in SUBSET S, Cardinality(T) = n + 1 PROVE Has(T, n + 1)
    OBVIOUS
  <2>1. T # {}
    BY <1>1, FS_EmptySet
  <2>2. PICK m \in T : \A a \in T \ {m} : <<a, m>> \in R
    <3>1. IsOrder(T, R)
      BY DEF IsOrder
    <3> QED
      BY <1>1, <2>1, <3>1, LastInOrder
  <2>3. Cardinality(T \ {m}) = n /\ T \ {m} \in SUBSET S
    <3>1. Cardinality(T \ {m}) = Cardinality(T) - 1
      BY <1>1, <2>2, FS_RemoveElement
    <3> QED
      BY <3>1
  <2>4. PICK s : IsArranged(s, n, T \ {m}, R)
    BY <1>3, <2>3
  <2> DEFINE t == [i \in 1..(n + 1) |-> IF i = n + 1 THEN m ELSE s[i]]
  <2>5. \A i \in 1..(n + 1) : i = n + 1 \/ (i \in 1..n /\ i # n + 1)
    OBVIOUS
  <2>6. t \in [1..(n + 1) -> T]
    BY <2>2, <2>4, <2>5 DEF IsArranged
  <2>7. ASSUME NEW i \in 1..(n + 1), NEW j \in 1..(n + 1), i < j PROVE <<t[i], t[j]>> \in R
    <3>1. i \in 1..n /\ i # n + 1 /\ s[i] \in T \ {m}
      BY <2>4, <2>7 DEF IsArranged
    <3>2. CASE j = n + 1
      BY <2>2, <3>1, <3>2
    <3>3. CASE j # n + 1
      <4>1. j \in 1..n
        BY <3>3
      <4> QED
        BY <2>4, <2>7, <3>1, <3>3, <4>1 DEF IsArranged
    <3> QED
      BY <3>2, <3>3
  <2> HIDE DEF t
  <2> QED
    BY <2>6, <2>7 DEF IsArranged
<1> HIDE DEF G
<1>4. Nat \subseteq G
  BY <1>2, <1>3, UpFromZero
<1>5. Cardinality(S) \in G
  BY <1>1, <1>4
<1> QED
  BY <1>5 DEF G

LEMMA ArrangedHasAll ==
  ASSUME NEW S, NEW R, IsOrder(S, R), IsFiniteSet(S),
         NEW s, IsArranged(s, Cardinality(S), S, R)
  PROVE  /\ \A i, j \in 1..Cardinality(S) : s[i] = s[j] => i = j
         /\ \A a \in S : \E i \in 1..Cardinality(S) : s[i] = a
<1> DEFINE n == Cardinality(S)
<1>1. n \in Nat
  BY FS_CardinalityType
<1>2. s \in [1..n -> S]
  BY DEF IsArranged
<1>3. ASSUME NEW i \in 1..n, NEW j \in 1..n, s[i] = s[j] PROVE i = j
  <2>1. i < j => <<s[i], s[j]>> \in R
    BY DEF IsArranged
  <2>2. j < i => <<s[j], s[i]>> \in R
    BY DEF IsArranged
  <2>3. <<s[i], s[i]>> \notin R
    BY <1>2 DEF IsOrder
  <2>4. ~(i < j) /\ ~(j < i)
    BY <1>3, <2>1, <2>2, <2>3
  <2> QED
    BY <1>1, <2>4
<1>4. s \in Injection(1..n, S)
  BY <1>2, <1>3 DEF Injection, IsInjective
<1>5. Cardinality(1..n) = n
  BY <1>1, FS_Interval
<1>6. s \in Surjection(1..n, S)
  BY <1>4, <1>5, FS_Injection
<1> QED
  BY <1>3, <1>6 DEF Surjection

LEMMA ArrangedOne ==
  ASSUME NEW S, NEW R, IsOrder(S, R), IsFiniteSet(S),
         NEW s, IsArranged(s, Cardinality(S), S, R), NEW t, IsArranged(t, Cardinality(S), S, R)
  PROVE  s = t
<1> DEFINE n == Cardinality(S)
           Differ == {i \in 1..n : s[i] # t[i]}
<1>1. n \in Nat /\ s \in [1..n -> S] /\ t \in [1..n -> S]
  BY FS_CardinalityType DEF IsArranged
<1> SUFFICES ASSUME Differ # {} PROVE FALSE
  <2>1. \A i \in 1..n : s[i] = t[i]
    OBVIOUS
  <2> QED
    BY <1>1, <2>1
<1>2. PICK i \in Differ : \A j \in Differ : i <= j
  <2>1. Differ \subseteq Nat
    OBVIOUS
  <2> HIDE DEF Differ
  <2> QED
    BY <2>1, LeastOf
<1> s[i] \in S /\ t[i] \in S /\ i \in 1..n /\ s[i] # t[i]
  BY <1>1
<1>3. PICK j \in 1..n : s[j] = t[i]
  BY ArrangedHasAll
<1>4. PICK k \in 1..n : t[k] = s[i]
  BY ArrangedHasAll
<1>5. i < j
  <2>1. j # i
    BY <1>3
  <2>2. ~(j < i)
    <3> SUFFICES ASSUME j < i PROVE FALSE
      OBVIOUS
    <3>1. j \notin Differ
      BY <1>2
    <3>2. t[j] = t[i]
      BY <1>3, <3>1
    <3> QED
      BY <3>2, ArrangedHasAll
  <2> QED
    BY <1>1, <2>1, <2>2
<1>6. i < k
  <2>1. k # i
    BY <1>4
  <2>2. ~(k < i)
    <3> SUFFICES ASSUME k < i PROVE FALSE
      OBVIOUS
    <3>1. k \notin Differ
      BY <1>2
    <3>2. s[k] = s[i]
      BY <1>4, <3>1
    <3> QED
      BY <3>2, ArrangedHasAll
  <2> QED
    BY <1>1, <2>1, <2>2
<1>7. <<s[i], t[i]>> \in R
  BY <1>3, <1>5 DEF IsArranged
<1>8. <<t[i], s[i]>> \in R
  BY <1>4, <1>6 DEF IsArranged
<1> QED
  BY <1>1, <1>7, <1>8 DEF IsOrder

LEMMA ArrangedIs ==
  ASSUME NEW S, NEW R, IsOrder(S, R), IsFiniteSet(S)
  PROVE  /\ Cardinality(S) \in Nat
         /\ IsArranged(Arranged(S, R), Cardinality(S), S, R)
         /\ Arranged(S, R) \in Seq(S) /\ Len(Arranged(S, R)) = Cardinality(S)
         /\ DOMAIN Arranged(S, R) = 1..Cardinality(S)
<1>1. Cardinality(S) \in Nat
  BY FS_CardinalityType
<1>2. PICK s : IsArranged(s, Cardinality(S), S, R)
  BY ArrangedExists
<1>3. \E u \in [1..Cardinality(S) -> S] : \A i, j \in DOMAIN u : i < j => <<u[i], u[j]>> \in R
  BY <1>2 DEF IsArranged
<1>4. IsArranged(Arranged(S, R), Cardinality(S), S, R)
  BY <1>3 DEF Arranged, IsArranged
<1> QED
  BY <1>1, <1>4 DEF IsArranged

-----------------------------------------------------------------------------
(* DiscMap. *)
LEMMA PiecesAre ==
  ASSUME NEW S, NEW s \in Seq(S), NEW n \in Nat \ {0}
  PROVE  /\ Pieces(s, n) \in Seq(Seq(S))
         /\ \A k \in DOMAIN Pieces(s, n) : Len(Pieces(s, n)[k]) \in 1..n
<1> DEFINE q == (Len(s) + n - 1) \div n
           ends(k) == IF k * n < Len(s) THEN k * n ELSE Len(s)
           piece(k) == SubSeq(s, (k - 1) * n + 1, ends(k))
<1>1. Len(s) \in Nat /\ q \in Nat
  BY PieceCount
<1>2. ASSUME NEW k \in 1..q PROVE piece(k) \in Seq(S) /\ Len(piece(k)) \in 1..n
  <2>1. (k - 1) * n \in Nat /\ k * n \in Nat /\ (k - 1) * n < Len(s)
    BY <1>1, PieceCount
  <2>2. k * n = (k - 1) * n + n
    BY <1>1
  <2> DEFINE a == (k - 1) * n
             b == k * n
  <2>3. a \in Nat /\ b \in Nat /\ a < Len(s) /\ b = a + n
    BY <2>1, <2>2
  <2> HIDE DEF a, b
  <2>4. /\ (IF b < Len(s) THEN b ELSE Len(s)) \in (a + 1)..Len(s)
        /\ (IF b < Len(s) THEN b ELSE Len(s)) - a \in 1..n
    BY <1>1, <2>3
  <2> DEFINE c == IF b < Len(s) THEN b ELSE Len(s)
  <2>5. c \in Int /\ a + 1 \in Int /\ a + 1 <= c /\ c - (a + 1) + 1 \in 1..n
    BY <1>1, <2>3, <2>4
  <2>6. \A i \in (a + 1)..c : s[i] \in S
    BY <1>1, <2>3, <2>4
  <2> HIDE DEF c
  <2>7. SubSeq(s, a + 1, c) \in Seq(S) /\ Len(SubSeq(s, a + 1, c)) = c - (a + 1) + 1
    BY <2>5, <2>6, SubSeqProperties
  <2> QED
    BY <2>5, <2>7 DEF a, b, c
<1>3. Pieces(s, n) = [k \in 1..q |-> piece(k)]
  BY DEF Pieces
<1> HIDE DEF q, piece
<1>4. DOMAIN Pieces(s, n) = 1..q /\ \A k \in 1..q : Pieces(s, n)[k] = piece(k)
  BY <1>3
<1>5. Pieces(s, n) \in Seq(Seq(S))
  BY <1>1, <1>2, <1>3
<1> QED
  BY <1>2, <1>4, <1>5

-----------------------------------------------------------------------------
(* The disc and its cue sheet. *)
LEMMA DiscIs ==
  ASSUME NEW w \in Worker, disc \in Batches
  PROVE  /\ disc[w] \in Seq(Bins)
         /\ \A b \in DOMAIN disc[w] :
              disc[w][b].tracks \in Seq(Tracks) /\ disc[w][b].sectors \in Seq(Sector)
         /\ Sectors(w) \in Seq(Sector)
         /\ Total(w) \in Nat
         /\ \A i \in 0..(Total(w) - 1) : Raw(w, i) \in Sector
<1>1. disc[w] \in Seq(Bins)
  BY DiscMapAssumption
<1>2. \A b \in DOMAIN disc[w] : disc[w][b] \in Bins
  BY <1>1
<1>3. \A b \in DOMAIN disc[w] :
        disc[w][b].tracks \in Seq(Tracks) /\ disc[w][b].sectors \in Seq(Sector)
  BY <1>2 DEF Bins
<1>4. [b \in DOMAIN disc[w] |-> disc[w][b].sectors] \in Seq(Seq(Sector))
  BY <1>1, <1>3
<1>5. Sectors(w) \in Seq(Sector)
  <2> DEFINE parts == [b \in DOMAIN disc[w] |-> disc[w][b].sectors]
  <2>1. parts \in Seq(Seq(Sector))
    BY <1>4
  <2> HIDE DEF parts
  <2>2. FlattenSeq(parts) \in Seq(Sector)
    BY <2>1, FlattenType
  <2> QED
    BY <2>2 DEF Sectors, parts
<1>6. Total(w) \in Nat
  BY <1>5 DEF Total
<1>7. ASSUME NEW i \in 0..(Total(w) - 1) PROVE Raw(w, i) \in Sector
  <2>1. i + 1 \in 1..Len(Sectors(w))
    BY <1>6 DEF Total
  <2> QED
    BY <1>5, <2>1, ElementOfSeq DEF Raw
<1> QED
  BY <1>1, <1>3, <1>5, <1>6, <1>7

LEMMA NormalizedIs ==
  ASSUME NEW w \in Worker, disc \in Batches
  PROVE  Normalized(w) \in Seq(Tracks)
<1>1. disc[w] \in Seq(Bins)
  BY DiscIs
<1> DEFINE offset(b) == Sum([c \in 1..(b - 1) |-> Len(disc[w][c].sectors)])
           moved(b) == [t \in DOMAIN disc[w][b].tracks |->
                          [disc[w][b].tracks[t] EXCEPT !.zero = Shift(@, offset(b)),
                                                       !.one = Shift(@, offset(b))]]
<1>2. ASSUME NEW b \in DOMAIN disc[w] PROVE moved(b) \in Seq(Tracks)
  <2>1. offset(b) \in Nat
    <3>1. b \in Nat /\ \A c \in 1..(b - 1) : c \in DOMAIN disc[w]
      BY <1>1, <1>2
    <3>2. \A c \in 1..(b - 1) : Len(disc[w][c].sectors) \in Nat
      <4>1. \A c \in 1..(b - 1) : disc[w][c].sectors \in Seq(Sector)
        BY <3>1, DiscIs
      <4> QED
        BY <4>1, LenProperties
    <3>3. [c \in 1..(b - 1) |-> Len(disc[w][c].sectors)] \in Seq(Nat)
      BY <1>1, <1>2, <3>1, <3>2
    <3> QED
      BY <3>3, SumType
  <2>2. disc[w][b].tracks \in Seq(Tracks)
    BY DiscIs
  <2> HIDE DEF offset
  <2>3. ASSUME NEW t \in DOMAIN disc[w][b].tracks
        PROVE  [disc[w][b].tracks[t] EXCEPT !.zero = Shift(@, offset(b)),
                                            !.one = Shift(@, offset(b))] \in Tracks
    <3>1. disc[w][b].tracks[t] \in Tracks
      BY <2>2
    <3>2. \A index \in Index : Shift(index, offset(b)) \in Index
      BY <2>1, DiscMapAssumption DEF Shift, Index
    <3> QED
      BY <3>1, <3>2 DEF Tracks
  <2> DEFINE e(t) == [disc[w][b].tracks[t] EXCEPT !.zero = Shift(@, offset(b)),
                                                  !.one = Shift(@, offset(b))]
             n == Len(disc[w][b].tracks)
  <2>4. DOMAIN disc[w][b].tracks = 1..n /\ n \in Nat
    BY <2>2, LenProperties
  <2> HIDE DEF n
  <2>6. ASSUME NEW t \in 1..n PROVE e(t) \in Tracks
    <3>1. t \in DOMAIN disc[w][b].tracks
      BY <2>4
    <3> QED
      BY <2>3, <3>1
  <2> HIDE DEF e
  <2>5. [t \in 1..n |-> e(t)] \in Seq(Tracks)
    BY <2>4, <2>6
  <2> QED
    BY <2>4, <2>5 DEF e
<1> DEFINE all == [b \in DOMAIN disc[w] |-> moved(b)]
<1>3. Normalized(w) = FlattenSeq(all)
  BY DEF Normalized
<1> HIDE DEF moved
<1>4. all \in Seq(Seq(Tracks))
  BY <1>1, <1>2
<1> HIDE DEF all
<1> QED
  BY <1>3, <1>4, FlattenType

(* What the sheet says of a sector. *)
LEMMA CoarseIs ==
  ASSUME NEW w \in Worker, disc \in Batches, ~NoIndex01(w), NEW i \in Nat
  PROVE  Coarse(Normalized(w), i) \in {"None", "Audio", "PregapAudio", "Mode1", "PregapMode1",
                                       "Mode2Form1", "PregapMode2"}
<1> DEFINE tracks == Normalized(w)
           started == {t \in DOMAIN tracks : TrackStart(tracks[t]) <= i}
<1>1. tracks \in Seq(Tracks) /\ Len(tracks) \in Nat
  BY NormalizedIs
<1>2. started # {} => Max(started) \in DOMAIN tracks
  <2>1. started \subseteq 0..Len(tracks)
    BY <1>1
  <2> QED
    BY <1>1, <2>1, MaxOf
<1>3. started # {} => tracks[Max(started)].type \in {"AUDIO", "MODE1", "MODE2"}
  <2>1. \A t \in DOMAIN tracks : tracks[t] \in Tracks
    BY <1>1
  <2> QED
    BY <1>2, <2>1 DEF Tracks
<1> QED
  BY <1>3 DEF Coarse, Pregap, Content

LEMMA AnalyzedIs ==
  ASSUME NEW s \in Sector, Known(s), NEW coarse \in DataTypes
  PROVE  Analyzed(s, coarse) \in DataTypes
<1>1. s.mode \in {0, 1, 2} /\ s.form \in {1, 2}
  BY DiscMapAssumption DEF Known, Zero
<1> QED
  BY <1>1 DEF Analyzed, DataTypes, Mode1, Mode2Form1, Mode1Exception, Mode2Form1Exception, Zeroed

-----------------------------------------------------------------------------
(* Run-length coding: one sector more is one more in the last run, or a run *)
(* of its own.                                                              *)

LEMMA OneMoreIs ==
  ASSUME NEW runs \in Seq(RunRecords), NEW t \in SectorType
  PROVE  /\ OneMore(runs, t) \in Seq(RunRecords)
         /\ Sum(Counts(OneMore(runs, t))) = Sum(Counts(runs)) + 1
<1> DEFINE L == Len(runs)
<1>1. L \in Nat /\ \A r \in 1..L : runs[r] \in RunRecords /\ runs[r].count \in Nat \ {0}
  <2>1. L \in Nat /\ \A r \in 1..L : runs[r] \in RunRecords
    OBVIOUS
  <2> QED
    BY <2>1 DEF RunRecords
<1>2. Counts(runs) \in Seq(Nat)
  BY <1>1 DEF Counts
<1>3. CASE runs # << >> /\ Last(runs).type = t
  <2> DEFINE new == [runs EXCEPT ![L].count = @ + 1]
             e == [runs[L] EXCEPT !.count = @ + 1]
             front == [r \in 1..(L - 1) |-> runs[r].count]
  <2>1. L \in 1..L
    BY <1>1, <1>3, EmptySeq
  <2>2. e \in RunRecords /\ e.count = runs[L].count + 1
    BY <1>1, <2>1 DEF RunRecords
  <2>3. new = [runs EXCEPT ![L] = e]
    BY <2>1
  <2> HIDE DEF e
  <2>4. /\ new \in Seq(RunRecords) /\ Len(new) = L
        /\ \A r \in 1..L : new[r] = IF r = L THEN e ELSE runs[r]
    BY <2>1, <2>2, <2>3, ExceptSeq
  <2> HIDE DEF new
  <2>5. front \in Seq(Nat) /\ Len(front) = L - 1
    BY <1>1, <2>1
  <2>6. Counts(runs) = Append(front, runs[L].count)
    <3>0. runs[L].count \in Nat /\ \A r \in 1..L : r = L \/ r \in 1..(L - 1)
      BY <1>1, <2>1
    <3>4. /\ Append(front, runs[L].count) \in Seq(Nat)
          /\ Len(Append(front, runs[L].count)) = L
          /\ \A r \in 1..(L - 1) : Append(front, runs[L].count)[r] = front[r]
          /\ Append(front, runs[L].count)[L] = runs[L].count
      <4> HIDE DEF front
      <4> QED
        BY <1>1, <2>1, <2>5, <3>0, AppendProperties
    <3>1. \A r \in 1..L : Append(front, runs[L].count)[r] = runs[r].count
      BY <3>0, <3>4
    <3>2. Len(Counts(runs)) = L /\ \A r \in 1..L : Counts(runs)[r] = runs[r].count
      BY <1>1 DEF Counts
    <3> HIDE DEF front
    <3> QED
      BY <1>2, <3>1, <3>2, <3>4, SeqEqual
  <2>7. Counts(new) = Append(front, runs[L].count + 1)
    <3>0. runs[L].count + 1 \in Nat
      BY <1>1, <2>1
    <3>1. /\ Append(front, runs[L].count + 1) \in Seq(Nat)
          /\ Len(Append(front, runs[L].count + 1)) = L
          /\ \A r \in 1..L : Append(front, runs[L].count + 1)[r] = new[r].count
      BY <1>1, <2>1, <2>2, <2>4, <2>5, <3>0, AppendProperties
    <3>2. \A r \in 1..L : new[r].count \in Nat
      BY <1>1, <2>2, <2>4
    <3>3. /\ Len(Counts(new)) = L /\ \A r \in 1..L : Counts(new)[r] = new[r].count
          /\ Counts(new) \in Seq(Nat)
      BY <1>1, <2>4, <3>2 DEF Counts
    <3> HIDE DEF front
    <3> QED
      BY <3>1, <3>3, SeqEqual
  <2>11. runs[L].count \in Nat /\ runs[L].count + 1 \in Nat
    BY <1>1, <2>1
  <2> HIDE DEF front
  <2>8. Sum(Counts(new)) = Sum(front) + (runs[L].count + 1)
    BY <2>5, <2>7, <2>11, SumAppend
  <2>9. Sum(Counts(runs)) = Sum(front) + runs[L].count
    BY <2>5, <2>6, <2>11, SumAppend
  <2>10. Sum(front) \in Nat /\ runs[L].count \in Nat
    BY <1>1, <2>1, <2>5, SumType
  <2> QED
    BY <1>3, <2>4, <2>8, <2>9, <2>10 DEF OneMore, new
<1>4. CASE ~(runs # << >> /\ Last(runs).type = t)
  <2> DEFINE e == [count |-> 1, type |-> t]
             new == Append(runs, e)
  <2>1. e \in RunRecords /\ e.count = 1
    BY DEF RunRecords
  <2> HIDE DEF e
  <2>2. /\ new \in Seq(RunRecords) /\ Len(new) = L + 1
        /\ \A r \in 1..L : new[r] = runs[r]
        /\ new[L + 1] = e
    BY <2>1, AppendProperties
  <2> HIDE DEF new
  <2>3. Counts(new) = Append(Counts(runs), 1)
    <3>1. Len(Counts(runs)) = L /\ \A r \in 1..L : Counts(runs)[r] = runs[r].count
      BY <1>1 DEF Counts
    <3>2. /\ Append(Counts(runs), 1) \in Seq(Nat) /\ Len(Append(Counts(runs), 1)) = L + 1
          /\ \A r \in 1..L : Append(Counts(runs), 1)[r] = runs[r].count
          /\ Append(Counts(runs), 1)[L + 1] = 1
      BY <1>2, <3>1, AppendProperties
    <3>3. \A r \in 1..(L + 1) : r = L + 1 \/ r \in 1..L
      BY <1>1
    <3>4. \A r \in 1..(L + 1) : Append(Counts(runs), 1)[r] = new[r].count /\ new[r].count \in Nat
      BY <1>1, <2>1, <2>2, <3>2, <3>3
    <3>5. /\ Len(Counts(new)) = L + 1 /\ \A r \in 1..(L + 1) : Counts(new)[r] = new[r].count
          /\ Counts(new) \in Seq(Nat)
      BY <1>1, <2>2, <3>4 DEF Counts
    <3> QED
      BY <3>2, <3>4, <3>5, SeqEqual
  <2>4. Sum(Counts(new)) = Sum(Counts(runs)) + 1
    BY <1>2, <2>3, SumAppend
  <2> QED
    BY <1>4, <2>2, <2>4 DEF OneMore, new, e
<1> QED
  BY <1>3, <1>4

LEMMA RleIs ==
  ASSUME NEW types \in Seq(SectorType)
  PROVE  \E f \in [0..Len(types) -> Seq(RunRecords)] :
           /\ f[0] = << >> /\ rle_encode_map(types) = f[Len(types)]
           /\ \A k \in 1..Len(types) : f[k] = OneMore(f[k - 1], types[k])
<1> DEFINE D == DOMAIN types
           step == [p \in Seq(RunRecords) \X SectorType |-> OneMore(p[1], p[2])]
           Body(g) == [t \in SUBSET D |-> IF t = {} THEN << >>
                                          ELSE OneMore(g[t \ {Max(t)}], types[Max(t)])]
           iter == CHOOSE g : g = Body(g)
<1>1. rle_encode_map(types) = iter[D]
  BY DEF rle_encode_map, FoldLeft, MapThenFoldSet, OneMore
<1>2. D = 1..Len(types) /\ Len(types) \in Nat /\ << >> \in Seq(RunRecords)
  OBVIOUS
<1>3. step \in [Seq(RunRecords) \X SectorType -> Seq(RunRecords)]
  BY OneMoreIs
<1>4. PICK g \in [SUBSET D -> Seq(RunRecords)] : Folds(step, << >>, types, Len(types), g)
  <2> HIDE DEF step
  <2> QED
    BY <1>2, <1>3, FoldExists
<1>5. ASSUME NEW t \in SUBSET D, t # {} PROVE Max(t) \in t
  <2>1. t \subseteq 0..Len(types)
    BY <1>2
  <2> QED
    BY <1>2, <1>5, <2>1, MaxOf
<1>6. ASSUME NEW t \in SUBSET D
      PROVE  g[t] = IF t = {} THEN << >> ELSE OneMore(g[t \ {Max(t)}], types[Max(t)])
  <2>1. CASE t = {}
    BY <1>2, <1>4, <2>1 DEF Folds
  <2>2. CASE t # {}
    <3>1. g[t] = step[<<g[t \ {Max(t)}], types[Max(t)]>>]
      <4> HIDE DEF step
      <4> QED
        BY <1>2, <1>4, <2>2 DEF Folds
    <3>2. g[t \ {Max(t)}] \in Seq(RunRecords)
      BY <1>4
    <3>3. types[Max(t)] \in SectorType
      BY <1>2, <1>5, <2>2
    <3> QED
      BY <2>2, <3>1, <3>2, <3>3
  <2> QED
    BY <2>1, <2>2
<1>7. g = Body(g)
  BY <1>4, <1>6
<1>8. iter = Body(iter)
  <2> HIDE DEF Body
  <2> QED
    BY <1>7
<1> HIDE DEF iter
<1>9. ASSUME NEW k \in 0..Len(types)
      PROVE  iter[1..k] = IF k = 0 THEN << >> ELSE OneMore(iter[1..(k - 1)], types[k])
  <2>1. 1..k \in SUBSET D /\ k \in Nat
    BY <1>2
  <2>2. iter[1..k] = IF 1..k = {} THEN << >>
                     ELSE OneMore(iter[(1..k) \ {Max(1..k)}], types[Max(1..k)])
    BY <1>8, <2>1
  <2> QED
    BY <2>1, <2>2, UpToIs
<1> DEFINE f == [k \in 0..Len(types) |-> iter[1..k]]
           Good == {k \in Nat : k <= Len(types) => iter[1..k] \in Seq(RunRecords)}
<1>10. 0 \in Good
  <2>1. 0 \in 0..Len(types)
    BY <1>2
  <2>2. iter[1..0] = << >>
    BY <1>9, <2>1
  <2> QED
    BY <1>2, <2>2
<1>11. ASSUME NEW k \in Nat, k \in Good PROVE k + 1 \in Good
  <2> SUFFICES ASSUME k + 1 <= Len(types) PROVE iter[1..(k + 1)] \in Seq(RunRecords)
    OBVIOUS
  <2>1. k + 1 \in 1..Len(types) /\ k + 1 \in 0..Len(types) /\ k + 1 # 0 /\ (k + 1) - 1 = k
    BY <1>2
  <2>2. iter[1..(k + 1)] = OneMore(iter[1..k], types[k + 1])
    BY <1>9, <2>1
  <2>3. iter[1..k] \in Seq(RunRecords)
    BY <1>2, <1>11
  <2>4. types[k + 1] \in SectorType
    BY <2>1, ElementOfSeq
  <2> QED
    BY <2>2, <2>3, <2>4, OneMoreIs
<1>12. Nat \subseteq Good
  <2> HIDE DEF Good
  <2> QED
    BY <1>10, <1>11, UpFromZero
<1>13. f \in [0..Len(types) -> Seq(RunRecords)]
  BY <1>2, <1>12
<1>14. f[0] = << >> /\ rle_encode_map(types) = f[Len(types)]
  BY <1>1, <1>2, <1>9
<1>15. ASSUME NEW k \in 1..Len(types) PROVE f[k] = OneMore(f[k - 1], types[k])
  <2>1. k \in 0..Len(types) /\ k - 1 \in 0..Len(types) /\ k # 0
    BY <1>2
  <2>2. f[k] = iter[1..k] /\ f[k - 1] = iter[1..(k - 1)]
    BY <2>1
  <2> QED
    BY <1>9, <2>1, <2>2
<1> HIDE DEF f
<1> QED
  BY <1>13, <1>14, <1>15

(* The runs of a map hold as many sectors as it has. *)
LEMMA RunsAre ==
  ASSUME NEW types \in Seq(SectorType)
  PROVE  /\ rle_encode_map(types) \in Seq(RunRecords)
         /\ Sum(Counts(rle_encode_map(types))) = Len(types)
<1>1. Len(types) \in Nat /\ \A k \in 1..Len(types) : types[k] \in SectorType
  OBVIOUS
<1>2. PICK f \in [0..Len(types) -> Seq(RunRecords)] :
        /\ f[0] = << >> /\ rle_encode_map(types) = f[Len(types)]
        /\ \A k \in 1..Len(types) : f[k] = OneMore(f[k - 1], types[k])
  BY RleIs
<1> DEFINE Good == {k \in Nat : k <= Len(types) => Sum(Counts(f[k])) = k}
<1>3. 0 \in Good
  <2>1. Counts(<< >>) = << >> /\ << >> \in Seq(Nat) /\ 0 \in Nat
    BY DEF Counts
  <2>2. Sum(<< >>) = 0
    BY <2>1, SumAppend
  <2> QED
    BY <1>2, <2>1, <2>2
<1>4. ASSUME NEW k \in Nat, k \in Good PROVE k + 1 \in Good
  <2> SUFFICES ASSUME k + 1 <= Len(types) PROVE Sum(Counts(f[k + 1])) = k + 1
    OBVIOUS
  <2>1. k + 1 \in 1..Len(types) /\ (k + 1) - 1 = k /\ k \in 0..Len(types)
    BY <1>1
  <2>2. f[k + 1] = OneMore(f[k], types[k + 1]) /\ f[k] \in Seq(RunRecords)
    BY <1>2, <2>1
  <2>3. Sum(Counts(f[k])) = k
    BY <1>4, <2>1
  <2> QED
    BY <1>1, <2>1, <2>2, <2>3, OneMoreIs
<1>5. Nat \subseteq Good
  <2> HIDE DEF Good
  <2> QED
    BY <1>3, <1>4, UpFromZero
<1>6. Len(types) \in Good
  <2> HIDE DEF Good
  <2> QED
    BY <1>1, <1>5
<1> QED
  BY <1>1, <1>2, <1>6

-----------------------------------------------------------------------------
(* One more sector. *)

LEMMA Registers ==
  ASSUME NEW S, NEW registry \in Seq(S), NEW data \in S, NEW longer,
         longer = GetOrRegister(registry, data)
  PROVE  /\ longer \in Seq(S) /\ Extends(registry, longer)
         /\ IdOf(longer, data) \in DOMAIN longer /\ IdOf(longer, data) \in Nat
         /\ longer[IdOf(longer, data)] = data
<1>1. /\ longer \in Seq(S) /\ Extends(registry, longer)
      /\ \E id \in DOMAIN longer : longer[id] = data
  <2>0. Len(registry) \in Nat /\ DOMAIN registry = 1..Len(registry)
    OBVIOUS
  <2>1. CASE Contains(registry, data)
    BY <2>0, <2>1 DEF GetOrRegister, Contains, Extends
  <2>2. CASE ~Contains(registry, data)
    <3>1. longer = Append(registry, data)
      BY <2>2 DEF GetOrRegister
    <3>2. /\ longer \in Seq(S) /\ Len(longer) = Len(registry) + 1
          /\ \A i \in 1..Len(registry) : longer[i] = registry[i]
          /\ longer[Len(registry) + 1] = data
      BY <3>1, AppendProperties
    <3>3. DOMAIN longer = 1..(Len(registry) + 1)
      BY <3>2
    <3>4. Len(registry) + 1 \in DOMAIN longer
      BY <2>0, <3>3
    <3>5. DOMAIN registry \subseteq DOMAIN longer
      BY <2>0, <3>3
    <3> QED
      BY <2>0, <3>2, <3>4, <3>5 DEF Extends
  <2> QED
    BY <2>1, <2>2
<1>2. IdOf(longer, data) \in DOMAIN longer /\ longer[IdOf(longer, data)] = data
  BY <1>1 DEF IdOf
<1>3. DOMAIN longer \subseteq Nat
  BY <1>1
<1> QED
  BY <1>1, <1>2, <1>3

(* The places of a sequence and of one with an element more. *)
LEMMA Places ==
  ASSUME NEW L \in Nat
  PROVE  /\ L + 1 \in 1..(L + 1) /\ 1..L \subseteq 1..(L + 1)
         /\ \A k \in 1..(L + 1) : k \in Nat /\ (k \in 1..L \/ k = L + 1)
         /\ \A k, l \in 1..(L + 1) : k < l => k \in 1..L
         /\ \A k, l \in 1..L : k < l => k # L
         /\ \A k \in 1..L : k < L + 1 /\ k <= L
         /\ L # 0 => L \in 1..L
OBVIOUS

LEMMA EntriesGrow ==
  ASSUME NEW S, NEW E \in Seq(Runners), NEW M, NEW R, NEW T,
         EntriesOk(S, E, M, R, T),
         NEW longer, Extends(R, longer),
         NEW i \in Nat, \A j \in M : j \in Nat /\ j < i,
         NEW types, \A j \in M : types[j + 1] = T[j + 1],
         NEW id \in DOMAIN longer, id \in Nat,
         longer[id] = Metadata(S[i + 1], types[i + 1]),
         NEW new \in Seq(Runners),
         RunGrows(E, new, i, id)
  PROVE  EntriesOk(S, new, M \cup {i}, longer, types)
<1> DEFINE L == Len(E)
<1>0. /\ L \in Nat /\ DOMAIN E = 1..L /\ DOMAIN new = 1..Len(new)
      /\ \A k \in 1..L : E[k] \in Runners
  OBVIOUS
<1>7. E # << >> => L \in 1..L
  <2>1. E # << >> => L # 0
    BY EmptySeq
  <2> QED
    BY <1>0, <2>1, Places
<1>1. \A k \in 1..L : /\ E[k].start_lba \in Nat /\ E[k].count \in Nat \ {0} /\ E[k].data_id \in Nat
                      /\ E[k].data_id \in DOMAIN R
  BY <1>0 DEF Runners, EntriesOk
<1>2. \A k \in 1..L : longer[E[k].data_id] = R[E[k].data_id] /\ E[k].data_id \in DOMAIN longer
  BY <1>1 DEF Extends
<1>3. ASSUME NEW k \in 1..L PROVE E[k].start_lba + E[k].count <= i
  <2> DEFINE a == E[k].start_lba
             b == E[k].count
             end == a + b - 1
  <2>1. a \in Nat /\ b \in Nat \ {0}
    BY <1>1
  <2>2. Covers(E[k], end) <=> a <= end /\ end < a + b
    BY DEF Covers
  <2> HIDE DEF a, b
  <2>3. end \in Nat /\ Covers(E[k], end)
    BY <2>1, <2>2
  <2> HIDE DEF end
  <2>4. end \in M
    BY <1>0, <2>3 DEF EntriesOk
  <2>5. end < i
    BY <2>3, <2>4
  <2> QED
    BY <2>1, <2>5 DEF end, a, b
<1>4. \A k \in 1..L : \A j \in Nat : Covers(E[k], j) =>
        j \in M /\ j # i /\ longer[E[k].data_id] = Metadata(S[j + 1], types[j + 1])
  <2> TAKE k \in 1..L
  <2> TAKE j \in Nat
  <2> HAVE Covers(E[k], j)
  <2>1. j \in M /\ R[E[k].data_id] = Metadata(S[j + 1], T[j + 1])
    BY <1>0 DEF EntriesOk
  <2> QED
    BY <1>2, <2>1
<1>5. CASE new = Append(E, [start_lba |-> i, count |-> 1, data_id |-> id])
  <2> DEFINE e == [start_lba |-> i, count |-> 1, data_id |-> id]
  <2>1. e \in Runners /\ e.start_lba = i /\ e.count = 1 /\ e.data_id = id
    BY DEF Runners
  <2> HIDE DEF e
  <2>2. Len(new) = L + 1 /\ (\A k \in 1..L : new[k] = E[k]) /\ new[L + 1] = e
    BY <1>5, <2>1, AppendProperties DEF e
  <2>9. DOMAIN new = 1..(L + 1)
    BY <1>0, <2>2
  <2> HIDE DEF L
  <2>3. \A k \in DOMAIN new : k \in Nat /\ (k \in 1..L \/ k = L + 1)
    BY <1>0, <2>9, Places
  <2>10. L + 1 \in DOMAIN new /\ 1..L \subseteq DOMAIN new
    BY <1>0, <2>9, Places
  <2>4. \A j \in Nat : Covers(e, j) <=> j = i
    BY <2>1 DEF Covers
  <2>5. \A k \in DOMAIN new : new[k].data_id \in DOMAIN longer
    BY <1>2, <2>1, <2>2, <2>3
  <2>6. ASSUME NEW k \in DOMAIN new, NEW l \in DOMAIN new, k < l
        PROVE  new[k].start_lba + new[k].count <= new[l].start_lba
    <3>1. k \in 1..L
      BY <1>0, <2>6, <2>9, Places
    <3>2. CASE l \in 1..L
      BY <1>0, <2>2, <2>6, <3>1, <3>2 DEF EntriesOk
    <3>3. CASE l = L + 1
      BY <1>3, <2>1, <2>2, <3>1, <3>3
    <3> QED
      BY <2>3, <3>2, <3>3
  <2>7. ASSUME NEW k \in DOMAIN new, NEW j \in Nat, Covers(new[k], j)
        PROVE  j \in M \cup {i} /\ longer[new[k].data_id] = Metadata(S[j + 1], types[j + 1])
    <3>1. CASE k \in 1..L
      BY <1>4, <2>2, <2>7, <3>1
    <3>2. CASE k = L + 1
      <4>1. j = i
        BY <2>2, <2>4, <2>7, <3>2
      <4> QED
        BY <2>1, <2>2, <3>2, <4>1
    <3> QED
      BY <2>3, <3>1, <3>2
  <2>8. ASSUME NEW j \in M \cup {i} PROVE \E k \in DOMAIN new : Covers(new[k], j)
    <3>1. CASE j \in M
      <4>1. PICK k \in 1..L : Covers(E[k], j)
        BY <1>0, <3>1 DEF EntriesOk
      <4>2. k \in DOMAIN new /\ new[k] = E[k]
        BY <2>2, <2>10
      <4> QED
        BY <4>1, <4>2
    <3>2. CASE j = i
      <4>1. L + 1 \in DOMAIN new /\ Covers(new[L + 1], i)
        BY <2>2, <2>4, <2>10
      <4> QED
        BY <3>2, <4>1
    <3> QED
      BY <3>1, <3>2
  <2> QED
    BY <2>5, <2>6, <2>7, <2>8 DEF EntriesOk
<1>6. CASE /\ E # << >> /\ E[L].data_id = id /\ i = E[L].start_lba + E[L].count
           /\ Len(new) = L
           /\ \A k \in 1..L : new[k] = IF k = L THEN [E[k] EXCEPT !.count = @ + 1] ELSE E[k]
  <2>1. L \in 1..L
    BY <1>6, <1>7
  <2>2. /\ new[L].start_lba = E[L].start_lba /\ new[L].count = E[L].count + 1
        /\ new[L].data_id = id
        /\ \A k \in 1..L : k # L => new[k] = E[k]
    BY <1>0, <1>6, <2>1 DEF Runners
  <2>3. DOMAIN new = 1..L
    BY <1>0, <1>6
  <2> HIDE DEF L
  <2>4. \A j \in Nat : Covers(new[L], j) <=> Covers(E[L], j) \/ j = i
    <3> DEFINE a == E[L].start_lba
               c == E[L].count
    <3>1. a \in Nat /\ c \in Nat \ {0} /\ i = a + c
      BY <1>1, <1>6, <2>1
    <3>2. new[L].start_lba = a /\ new[L].count = c + 1
      BY <2>2
    <3> HIDE DEF a, c
    <3>3. \A j \in Nat : a <= j /\ j < a + (c + 1) <=> (a <= j /\ j < a + c) \/ j = i
      BY <3>1
    <3> QED
      BY <3>2, <3>3 DEF Covers, a, c
  <2>5. \A k \in DOMAIN new : new[k].data_id \in DOMAIN longer
    BY <1>2, <2>2, <2>3
  <2>6. ASSUME NEW k \in DOMAIN new, NEW l \in DOMAIN new, k < l
        PROVE  new[k].start_lba + new[k].count <= new[l].start_lba
    <3>0. k \in 1..L /\ l \in 1..L /\ k # L
      BY <1>0, <2>3, <2>6, Places
    <3>1. k \in DOMAIN E /\ l \in DOMAIN E /\ new[k] = E[k] /\ new[l].start_lba = E[l].start_lba
      BY <1>0, <2>2, <3>0
    <3> QED
      BY <1>0, <2>6, <3>1 DEF EntriesOk
  <2>7. ASSUME NEW k \in DOMAIN new, NEW j \in Nat, Covers(new[k], j)
        PROVE  j \in M \cup {i} /\ longer[new[k].data_id] = Metadata(S[j + 1], types[j + 1])
    <3>1. CASE k # L
      BY <1>4, <2>2, <2>3, <2>7, <3>1
    <3>2. CASE k = L /\ j = i
      BY <2>2, <3>2
    <3>3. CASE k = L /\ j # i
      <4>1. Covers(E[L], j)
        BY <2>4, <2>7, <3>3
      <4> QED
        BY <1>4, <1>6, <2>1, <2>2, <3>3, <4>1
    <3> QED
      BY <3>1, <3>2, <3>3
  <2>8. ASSUME NEW j \in M \cup {i} PROVE \E k \in DOMAIN new : Covers(new[k], j)
    <3>1. CASE j \in M
      <4>1. PICK k \in 1..L : Covers(E[k], j)
        BY <1>0, <3>1 DEF EntriesOk
      <4>2. CASE k = L
        BY <2>1, <2>3, <2>4, <3>1, <4>1, <4>2
      <4>3. CASE k # L
        BY <2>2, <2>3, <4>1, <4>3
      <4> QED
        BY <4>2, <4>3
    <3>2. CASE j = i
      BY <2>1, <2>3, <2>4, <3>2
    <3> QED
      BY <3>1, <3>2
  <2> QED
    BY <2>5, <2>6, <2>7, <2>8 DEF EntriesOk
<1> QED
  BY <1>5, <1>6 DEF RunGrows

LEMMA EntriesStay ==
  ASSUME NEW S, NEW E \in Seq(Runners), NEW M \in SUBSET Nat, NEW R, NEW T,
         EntriesOk(S, E, M, R, T),
         NEW longer, Extends(R, longer),
         NEW types, \A j \in M : types[j + 1] = T[j + 1]
  PROVE  EntriesOk(S, E, M, longer, types)
<1>1. \A k \in DOMAIN E : E[k].data_id \in DOMAIN longer /\ longer[E[k].data_id] = R[E[k].data_id]
  BY DEF EntriesOk, Extends
<1>2. \A k \in DOMAIN E : \A j \in Nat : Covers(E[k], j) =>
        j \in M /\ longer[E[k].data_id] = Metadata(S[j + 1], types[j + 1])
  BY <1>1 DEF EntriesOk
<1> QED
  BY <1>1, <1>2 DEF EntriesOk

(* One damaged sector more has its entry, one that is not has none. *)
LEMMA DamageGrow ==
  ASSUME NEW S, NEW X \in Seq(Nat \X Nat), NEW M \in SUBSET Nat, NEW R, NEW T,
         DamageOk(S, X, M, R, T),
         NEW longer, Extends(R, longer),
         NEW i \in Nat, i \notin M,
         NEW types, \A j \in M : types[j + 1] = T[j + 1],
         NEW ex, ex = ExceptionOf(S[i + 1], types[i + 1]),
         NEW id, ex # << >> => id \in DOMAIN longer /\ id \in Nat /\ << longer[id] >> = ex,
         NEW new, new = IF ex = << >> THEN X ELSE Append(X, <<i, id>>)
  PROVE  new \in Seq(Nat \X Nat) /\ DamageOk(S, new, M \cup {i}, longer, types)
<1> DEFINE L == Len(X)
<1>0. L \in Nat /\ DOMAIN X = 1..L
  OBVIOUS
<1>1. \A k \in 1..L : /\ X[k][1] \in M /\ X[k][2] \in DOMAIN longer
                      /\ << longer[X[k][2]] >> = ExceptionOf(S[X[k][1] + 1], types[X[k][1] + 1])
  BY <1>0 DEF DamageOk, Extends
<1>2. \A j \in M : ExceptionOf(S[j + 1], types[j + 1]) # << >> => \E k \in 1..L : X[k][1] = j
  BY <1>0 DEF DamageOk
<1>3. CASE ex = << >>
  BY <1>0, <1>1, <1>2, <1>3 DEF DamageOk
<1>4. CASE ex # << >>
  <2>1. <<i, id>> \in Nat \X Nat /\ new = Append(X, <<i, id>>)
    BY <1>4
  <2>2. /\ new \in Seq(Nat \X Nat) /\ Len(new) = L + 1
        /\ (\A k \in 1..L : new[k] = X[k]) /\ new[L + 1] = <<i, id>>
    BY <2>1, AppendProperties
  <2>3. DOMAIN new = 1..(L + 1)
    BY <2>2
  <2> HIDE DEF L
  <2>4. /\ L + 1 \in DOMAIN new /\ 1..L \subseteq DOMAIN new
        /\ \A k \in DOMAIN new : k \in 1..L \/ k = L + 1
    BY <1>0, <2>3, Places
  <2>5. ASSUME NEW k \in DOMAIN new
        PROVE  /\ new[k][1] \in M \cup {i} /\ new[k][2] \in DOMAIN longer
               /\ << longer[new[k][2]] >> = ExceptionOf(S[new[k][1] + 1], types[new[k][1] + 1])
    <3>1. CASE k \in 1..L
      BY <1>1, <2>2, <3>1
    <3>2. CASE k = L + 1
      BY <1>4, <2>2, <3>2
    <3> QED
      BY <2>4, <3>1, <3>2
  <2>6. ASSUME NEW j \in M \cup {i}, ExceptionOf(S[j + 1], types[j + 1]) # << >>
        PROVE  \E k \in DOMAIN new : new[k][1] = j
    <3>1. CASE j \in M
      BY <1>2, <2>2, <2>4, <2>6, <3>1
    <3>2. CASE j = i
      BY <2>2, <2>4, <3>2
    <3> QED
      BY <3>1, <3>2
  <2> QED
    BY <2>2, <2>5, <2>6 DEF DamageOk
<1> QED
  BY <1>3, <1>4

LEMMA DamageStays ==
  ASSUME NEW S, NEW X, NEW M \in SUBSET Nat, NEW R, NEW T,
         DamageOk(S, X, M, R, T),
         NEW longer, Extends(R, longer),
         NEW types, \A j \in M : types[j + 1] = T[j + 1]
  PROVE  DamageOk(S, X, M, longer, types)
BY DEF DamageOk, Extends

(* The table grows where the offset changes and the address is not below    *)
(* the sector's number.                                                     *)
LEMMA TableGrow ==
  ASSUME NEW S, NEW A \in Seq(Nat \X Nat), NEW M \in SUBSET Nat, TableOk(S, A, M),
         NEW i \in Nat, \A j \in M : j < i, S[i + 1].addr \in Nat,
         NEW new, new = LbaMap(A, i, S[i + 1].addr)
  PROVE  new \in Seq(Nat \X Nat) /\ TableOk(S, new, M \cup {i})
<1> DEFINE L == Len(A)
           addr == S[i + 1].addr
<1>0. L \in Nat /\ DOMAIN A = 1..L /\ \A k \in 1..L : A[k] \in Nat \X Nat
  OBVIOUS
<1>1. \A k \in 1..L : /\ A[k][1] \in M /\ A[k][1] \in Nat /\ A[k][2] \in Nat /\ A[k][1] < i
                      /\ S[A[k][1] + 1].addr = A[k][1] + A[k][2]
  BY <1>0 DEF TableOk
<1>2. A # << >> => L \in 1..L /\ Last(A) = A[L]
  <2>1. A # << >> => L # 0
    BY EmptySeq
  <2> QED
    BY <1>0, <2>1, Places DEF Last
<1>3. CASE addr >= i /\ (A = << >> \/ Last(A)[2] # addr - i)
  <2> DEFINE e == <<i, addr - i>>
  <2>1. e \in Nat \X Nat /\ e[1] = i /\ e[2] = addr - i /\ i + e[2] = addr
    BY <1>3
  <2> HIDE DEF e
  <2>2. /\ new \in Seq(Nat \X Nat) /\ Len(new) = L + 1
        /\ (\A k \in 1..L : new[k] = A[k]) /\ new[L + 1] = e
    BY <1>3, <2>1, AppendProperties DEF LbaMap, e
  <2>3. DOMAIN new = 1..(L + 1)
    BY <2>2
  <2>11. L \in 1..L => A[L][2] # e[2]
    <3>1. L \in 1..L => A # << >>
      BY EmptySeq
    <3> QED
      BY <1>2, <1>3, <2>1, <3>1
  <2> HIDE DEF L
  <2>4. /\ L + 1 \in DOMAIN new /\ 1..L \subseteq DOMAIN new
        /\ \A k \in DOMAIN new : k \in Nat /\ (k \in 1..L \/ k = L + 1)
        /\ \A k, l \in DOMAIN new : k < l => k \in 1..L
        /\ \A k \in 1..L : k <= L + 1
    BY <1>0, <2>3, Places
  <2>5. ASSUME NEW k \in DOMAIN new
        PROVE  new[k][1] \in M \cup {i} /\ S[new[k][1] + 1].addr = new[k][1] + new[k][2]
    <3>1. CASE k \in 1..L
      BY <1>1, <2>2, <3>1
    <3>2. CASE k = L + 1
      BY <2>1, <2>2, <3>2
    <3> QED
      BY <2>4, <3>1, <3>2
  <2>6. ASSUME NEW k \in DOMAIN new, NEW l \in DOMAIN new, k < l PROVE new[k][1] < new[l][1]
    <3>1. k \in 1..L
      BY <2>4, <2>6
    <3>2. CASE l \in 1..L
      BY <1>0, <2>2, <2>6, <3>1, <3>2 DEF TableOk
    <3>3. CASE l = L + 1
      BY <1>1, <2>1, <2>2, <3>1, <3>3
    <3> QED
      BY <2>4, <3>2, <3>3
  <2>7. ASSUME NEW k \in DOMAIN new, k + 1 \in DOMAIN new PROVE new[k][2] # new[k + 1][2]
    <3>1. k \in 1..L /\ (k + 1 \in 1..L \/ k = L)
      BY <1>0, <2>3, <2>7
    <3>2. CASE k + 1 \in 1..L
      BY <1>0, <2>2, <3>1, <3>2 DEF TableOk
    <3>3. CASE k = L
      BY <2>2, <2>11, <3>1, <3>3
    <3> QED
      BY <3>1, <3>2, <3>3
  <2>8. ASSUME NEW j \in M \cup {i}, S[j + 1].addr >= j
        PROVE  \E k \in DOMAIN new :
                 /\ new[k][1] <= j /\ j + new[k][2] = S[j + 1].addr
                 /\ \A l \in DOMAIN new : new[l][1] <= j => l <= k
    <3>1. CASE j \in M
      <4>1. PICK k \in 1..L : /\ A[k][1] <= j /\ j + A[k][2] = S[j + 1].addr
                              /\ \A l \in 1..L : A[l][1] <= j => l <= k
        BY <1>0, <2>8, <3>1 DEF TableOk
      <4>2. j \in Nat /\ ~(i <= j)
        BY <3>1
      <4>3. \A l \in DOMAIN new : new[l][1] <= j => l <= k
        BY <2>1, <2>2, <2>4, <4>1, <4>2
      <4>4. k \in DOMAIN new /\ new[k] = A[k]
        BY <2>2, <2>4
      <4> QED
        BY <4>1, <4>3, <4>4
    <3>2. CASE j = i
      <4>1. new[L + 1][1] <= j /\ j + new[L + 1][2] = S[j + 1].addr
        BY <2>1, <2>2, <3>2
      <4>2. \A l \in DOMAIN new : l <= L + 1
        BY <1>0, <2>4
      <4> QED
        BY <2>4, <4>1, <4>2
    <3> QED
      BY <3>1, <3>2
  <2> QED
    BY <2>2, <2>5, <2>6, <2>7, <2>8 DEF TableOk
<1>4. CASE ~(addr >= i /\ (A = << >> \/ Last(A)[2] # addr - i))
  <2>1. new = A
    BY <1>4 DEF LbaMap
  <2>2. addr >= i => A # << >> /\ A[L][2] = addr - i
    BY <1>2, <1>4
  <2> HIDE DEF addr
  <2>3. ASSUME addr >= i
        PROVE  \E k \in DOMAIN new :
                 /\ new[k][1] <= i /\ i + new[k][2] = addr
                 /\ \A l \in DOMAIN new : new[l][1] <= i => l <= k
    <3>1. L \in 1..L /\ A[L][2] = addr - i
      BY <1>2, <2>2, <2>3
    <3>2. A[L][1] <= i /\ \A l \in 1..L : l <= L
      BY <1>0, <1>1, <3>1
    <3>3. addr \in Nat /\ i + A[L][2] = addr
      BY <3>1 DEF addr
    <3> HIDE DEF L
    <3> QED
      BY <1>0, <2>1, <3>1, <3>2, <3>3
  <2>4. ASSUME NEW j \in M \cup {i}, S[j + 1].addr >= j
        PROVE  \E k \in DOMAIN new :
                 /\ new[k][1] <= j /\ j + new[k][2] = S[j + 1].addr
                 /\ \A l \in DOMAIN new : new[l][1] <= j => l <= k
    <3>1. CASE j \in M
      BY <2>1, <2>4, <3>1 DEF TableOk
    <3>2. CASE j = i
      BY <2>3, <2>4, <3>2 DEF addr
    <3> QED
      BY <3>1, <3>2
  <2>5. \A k \in DOMAIN new :
          new[k][1] \in M \cup {i} /\ S[new[k][1] + 1].addr = new[k][1] + new[k][2]
    BY <1>0, <1>1, <2>1
  <2> QED
    BY <2>1, <2>4, <2>5 DEF TableOk
<1> QED
  BY <1>3, <1>4

-----------------------------------------------------------------------------
(* Where the runs start. *)
LEMMA CountsAre ==
  ASSUME NEW runs \in Seq(RunRecords)
  PROVE  Len(runs) \in Nat /\ \A k \in 1..Len(runs) : runs[k] \in RunRecords /\ runs[k].count \in Nat \ {0}
<1>1. Len(runs) \in Nat /\ \A k \in 1..Len(runs) : runs[k] \in RunRecords
  OBVIOUS
<1> QED
  BY <1>1 DEF RunRecords

LEMMA PlaceIs ==
  ASSUME NEW runs \in Seq(RunRecords)
  PROVE  /\ Place(runs, 1) = 0
         /\ Place(runs, Len(runs) + 1) = Sum(Counts(runs))
         /\ \A r \in 1..(Len(runs) + 1) : Place(runs, r) \in Nat
         /\ \A r \in 1..Len(runs) : Place(runs, r + 1) = Place(runs, r) + runs[r].count
<1>1. Len(runs) \in Nat /\ \A r \in 1..Len(runs) : runs[r].count \in Nat \ {0}
  BY CountsAre
<1> DEFINE upto(r) == [q \in 1..(r - 1) |-> runs[q].count]
<1>2. ASSUME NEW r \in 1..(Len(runs) + 1) PROVE upto(r) \in Seq(Nat) /\ Len(upto(r)) = r - 1
  BY <1>1
<1>3. upto(1) = << >>
  OBVIOUS
<1>4. upto(Len(runs) + 1) = Counts(runs)
  BY <1>1 DEF Counts
<1>5. ASSUME NEW r \in 1..Len(runs) PROVE upto(r + 1) = Append(upto(r), runs[r].count)
  <2>1. r \in 1..(Len(runs) + 1) /\ r + 1 \in 1..(Len(runs) + 1) /\ runs[r].count \in Nat /\ r \in Nat
    BY <1>1
  <2>2. upto(r) \in Seq(Nat) /\ Len(upto(r)) = r - 1 /\ upto(r + 1) \in Seq(Nat) /\ Len(upto(r + 1)) = r
    BY <1>2, <2>1
  <2>3. \A q \in 1..r : upto(r + 1)[q] = runs[q].count
    BY <2>1
  <2>4. \A q \in 1..(r - 1) : upto(r)[q] = runs[q].count
    BY <2>1
  <2>6. (r - 1) + 1 = r /\ \A q \in 1..r : q \in 1..(r - 1) \/ q = r
    BY <2>1
  <2> HIDE DEF upto
  <2>5. /\ Append(upto(r), runs[r].count) \in Seq(Nat)
        /\ Len(Append(upto(r), runs[r].count)) = r
        /\ \A q \in 1..(r - 1) : Append(upto(r), runs[r].count)[q] = upto(r)[q]
        /\ Append(upto(r), runs[r].count)[r] = runs[r].count
    BY <2>1, <2>2, <2>6, AppendProperties
  <2>7. \A q \in 1..r : upto(r + 1)[q] = Append(upto(r), runs[r].count)[q]
    BY <2>3, <2>4, <2>5, <2>6
  <2> QED
    BY <2>2, <2>5, <2>7, SeqEqual
<1>6. \A r : Place(runs, r) = Sum(upto(r))
  BY DEF Place
<1> HIDE DEF upto
<1>7. \A r \in 1..(Len(runs) + 1) : Place(runs, r) \in Nat
  BY <1>2, <1>6, SumType
<1>8. ASSUME NEW r \in 1..Len(runs) PROVE Place(runs, r + 1) = Place(runs, r) + runs[r].count
  <2>1. r \in 1..(Len(runs) + 1) /\ runs[r].count \in Nat
    BY <1>1
  <2>2. upto(r) \in Seq(Nat)
    BY <1>2, <2>1
  <2> QED
    BY <1>5, <1>6, <2>1, <2>2, SumAppend
<1>9. Place(runs, 1) = 0
  <2>1. << >> \in Seq(Nat) /\ 0 \in Nat
    OBVIOUS
  <2> QED
    BY <1>3, <1>6, <2>1, SumAppend
<1> QED
  BY <1>4, <1>6, <1>7, <1>8, <1>9

(* They start one behind the other. *)
LEMMA PlacesGrow ==
  ASSUME NEW runs \in Seq(RunRecords), NEW r \in 1..(Len(runs) + 1), NEW q \in 1..(Len(runs) + 1), r < q
  PROVE  Place(runs, r) < Place(runs, q) /\ Place(runs, r + 1) <= Place(runs, q)
<1>1. Len(runs) \in Nat /\ \A k \in 1..Len(runs) : runs[k].count \in Nat \ {0}
  BY CountsAre
<1> DEFINE G == {k \in Nat : r + 1 + k <= Len(runs) + 1 => Place(runs, r + 1) <= Place(runs, r + 1 + k)}
<1>2. 0 \in G
  <2>1. r + 1 \in 1..(Len(runs) + 1) /\ r + 1 + 0 = r + 1
    BY <1>1
  <2>2. Place(runs, r + 1) \in Nat
    BY <2>1, PlaceIs
  <2> QED
    BY <2>1, <2>2
<1>3. ASSUME NEW k \in Nat, k \in G PROVE k + 1 \in G
  <2> SUFFICES ASSUME r + 1 + (k + 1) <= Len(runs) + 1
               PROVE  Place(runs, r + 1) <= Place(runs, r + 1 + (k + 1))
    OBVIOUS
  <2> DEFINE m == r + 1 + k
  <2>1. m \in 1..Len(runs) /\ m \in 1..(Len(runs) + 1) /\ r + 1 + (k + 1) = m + 1
        /\ r + 1 \in 1..(Len(runs) + 1)
    BY <1>1
  <2>2. Place(runs, r + 1) <= Place(runs, m)
    BY <1>1, <1>3, <2>1
  <2> HIDE DEF m
  <2>3. Place(runs, m + 1) = Place(runs, m) + runs[m].count
    BY <2>1, PlaceIs
  <2>4. Place(runs, m) \in Nat /\ Place(runs, r + 1) \in Nat /\ runs[m].count \in Nat
    BY <1>1, <2>1, PlaceIs
  <2> QED
    BY <2>1, <2>2, <2>3, <2>4, SMTT(30)
<1>4. Nat \subseteq G
  <2> HIDE DEF G
  <2> QED
    BY <1>2, <1>3, UpFromZero
<1>5. q - (r + 1) \in Nat /\ r + 1 + (q - (r + 1)) = q /\ q <= Len(runs) + 1
  BY <1>1
<1>6. q - (r + 1) \in G
  <2> HIDE DEF G
  <2> QED
    BY <1>4, <1>5
<1>7. Place(runs, r + 1) <= Place(runs, q)
  BY <1>5, <1>6
<1>8. r \in 1..Len(runs) /\ r + 1 \in 1..(Len(runs) + 1)
  BY <1>1
<1>9. Place(runs, r + 1) = Place(runs, r) + runs[r].count
  BY <1>8, PlaceIs
<1>10. Place(runs, r) \in Nat /\ Place(runs, q) \in Nat /\ runs[r].count \in Nat \ {0}
  BY <1>1, <1>8, PlaceIs
<1> QED
  BY <1>7, <1>9, <1>10

-----------------------------------------------------------------------------
(* What a step leaves alone. *)
LEMMA DiscKept ==
  ASSUME NEW w \in Worker, disc' = disc
  PROVE  /\ Sectors(w)' = Sectors(w) /\ Total(w)' = Total(w)
         /\ Normalized(w)' = Normalized(w) /\ NoIndex01(w)' = NoIndex01(w)
         /\ \A i : Raw(w, i)' = Raw(w, i) /\ Final(w, i)' = Final(w, i)
<1>1. Sectors(w)' = Sectors(w)
  BY DEF Sectors
<1>2. Normalized(w)' = Normalized(w)
  BY DEF Normalized
<1>3. \A i : Raw(w, i)' = Raw(w, i)
  BY <1>1 DEF Raw
<1> QED
  BY <1>1, <1>2, <1>3 DEF Total, NoIndex01, Final

LEMMA JobChange ==
  ASSUME NEW w \in Worker, job \in [Worker -> Jobs], NEW new \in Jobs, job' = [job EXCEPT ![w] = new]
  PROVE  job' \in [Worker -> Jobs] /\ job'[w] = new /\ \A v \in Worker \ {w} : job'[v] = job[v]
OBVIOUS

(* Another worker's entries in the registries change nothing for this one. *)
LEMMA OtherKept ==
  ASSUME Inv, NEW v \in Worker, disc' = disc, job'[v] = job[v],
         Extends(subheaders, subheaders'), Extends(exceptions, exceptions')
  PROVE  WorkerInv(v)'
<1>1. job[v] \in Jobs /\ WorkerInv(v)
  BY DEF Inv, Typed, WorkerInv
<1>2. /\ Sectors(v)' = Sectors(v) /\ Total(v)' = Total(v)
      /\ Normalized(v)' = Normalized(v) /\ NoIndex01(v)' = NoIndex01(v)
      /\ \A i : Raw(v, i)' = Raw(v, i) /\ Final(v, i)' = Final(v, i)
  BY DiscKept
<1>3. /\ MappedCount(v)' = MappedCount(v) /\ MappedData(v)' = MappedData(v)
      /\ Entries(v)' = Entries(v) /\ Runs(v)' = Runs(v)
  BY <1>2 DEF MappedCount, MappedData, Entries, Runs
<1>4. Entries(v) \in Seq(Runners) /\ job[v].exception_index \in Seq(Nat \X Nat)
  BY <1>1, ConcatProperties DEF Entries, Jobs
<1>5. MappedData(v) \in SUBSET Nat
  BY DEF MappedData
<1>6. InBounds(v)'
  BY <1>1, <1>2 DEF InBounds, WorkerInv
<1>7. PlaceInv(v)'
  BY <1>1, <1>2, <1>3 DEF PlaceInv, WorkerInv
<1>8. MapInv(v)'
  <2>1. EntriesOk(Sectors(v), Entries(v), MappedData(v), subheaders', job[v].types)
    BY <1>1, <1>4, <1>5, EntriesStay DEF MapInv, WorkerInv
  <2>2. DamageOk(Sectors(v), job[v].exception_index, MappedData(v), exceptions', job[v].types)
    BY <1>1, <1>4, <1>5, DamageStays DEF MapInv, WorkerInv
  <2>3. TableOk(Sectors(v), job[v].lba_map, MappedData(v))
    BY <1>1 DEF MapInv, WorkerInv
  <2> QED
    BY <1>2, <1>3, <2>1, <2>2, <2>3 DEF MapInv
<1> QED
  BY <1>6, <1>7, <1>8 DEF WorkerInv

(* Steps that leave what is mapped as it is. *)
LEMMA MapKept ==
  ASSUME Inv, NEW w \in Worker, UNCHANGED <<disc, subheaders, exceptions>>,
         Entries(w)' = Entries(w), MappedData(w)' = MappedData(w),
         job'[w].exception_index = job[w].exception_index, job'[w].lba_map = job[w].lba_map,
         \A i \in MappedData(w) : job'[w].types[i + 1] = job[w].types[i + 1]
  PROVE  MapInv(w)'
<1>1. job[w] \in Jobs /\ MapInv(w)
  BY DEF Inv, Typed
<1>2. Entries(w) \in Seq(Runners) /\ job[w].exception_index \in Seq(Nat \X Nat)
  BY <1>1, ConcatProperties DEF Entries, Jobs
<1>3. MappedData(w) \in SUBSET Nat
  BY DEF MappedData
<1>4. Extends(subheaders, subheaders) /\ Extends(exceptions, exceptions)
  BY DEF Extends
<1> DEFINE types == job'[w].types
<1>5. \A i \in MappedData(w) : types[i + 1] = job[w].types[i + 1]
  OBVIOUS
<1> HIDE DEF types
<1>6. EntriesOk(Sectors(w), Entries(w), MappedData(w), subheaders, types)
  BY <1>1, <1>2, <1>3, <1>4, <1>5, EntriesStay DEF MapInv
<1>7. DamageOk(Sectors(w), job[w].exception_index, MappedData(w), exceptions, types)
  BY <1>1, <1>2, <1>3, <1>4, <1>5, DamageStays DEF MapInv
<1>8. Sectors(w)' = Sectors(w)
  BY DiscKept
<1>9. TableOk(Sectors(w), job[w].lba_map, MappedData(w))
  BY <1>1 DEF MapInv
<1> QED
  BY <1>6, <1>7, <1>8, <1>9 DEF MapInv, types

(* A step of one worker. *)
LEMMA StepOf ==
  ASSUME Inv, NEW w \in Worker, NEW new \in Jobs, disc' = disc,
         job' = [job EXCEPT ![w] = new],
         subheaders' \in Seq(StoredUnits), Extends(subheaders, subheaders'),
         exceptions' \in Seq(Damage), Extends(exceptions, exceptions'),
         WorkerInv(w)'
  PROVE  Inv'
<1>1. job' \in [Worker -> Jobs] /\ \A v \in Worker \ {w} : job'[v] = job[v]
  BY JobChange DEF Inv, Typed
<1>2. ASSUME NEW v \in Worker PROVE WorkerInv(v)'
  <2>1. CASE v = w
    BY <2>1
  <2>2. CASE v # w
    BY <1>1, <2>2, OtherKept
  <2> QED
    BY <2>1, <2>2
<1>3. Typed'
  BY <1>1 DEF Inv, Typed
<1> QED
  BY <1>2, <1>3 DEF Inv, WorkerInv

-----------------------------------------------------------------------------
(* The steps. *)
LEMMA QuietStep ==
  ASSUME Inv, NEW w \in Worker, NEW new \in Jobs, UNCHANGED <<disc, subheaders, exceptions>>,
         job' = [job EXCEPT ![w] = new], WorkerInv(w)'
  PROVE  Inv'
<1>1. /\ subheaders' \in Seq(StoredUnits) /\ Extends(subheaders, subheaders')
      /\ exceptions' \in Seq(Damage) /\ Extends(exceptions, exceptions')
  BY DEF Inv, Typed, Extends
<1> QED
  BY <1>1, StepOf

LEMMA InvFail ==
  ASSUME Inv, NEW w \in Worker, job[w].pc \in {"open", "map"}, Fail(w)
  PROVE  Inv'
<1> DEFINE new == [job[w] EXCEPT !.pc = "failed"]
<1>1. job \in [Worker -> Jobs] /\ job[w] \in Jobs /\ WorkerInv(w)
  BY DEF Inv, Typed, WorkerInv
<1>2. /\ new \in Jobs /\ new.pc = "failed" /\ new.types = job[w].types /\ new.lba_map = job[w].lba_map
      /\ new.run = job[w].run /\ new.subheader_index = job[w].subheader_index
      /\ new.exception_index = job[w].exception_index /\ new.at = job[w].at
      /\ new.layout = job[w].layout /\ new.audio_map = job[w].audio_map
  BY <1>1 DEF Jobs
<1>3. job' = [job EXCEPT ![w] = new] /\ UNCHANGED <<disc, subheaders, exceptions>>
  BY DEF Fail
<1> HIDE DEF new
<1>4. job'[w] = new
  BY <1>1, <1>2, <1>3, JobChange
<1>5. /\ Total(w)' = Total(w) /\ Normalized(w)' = Normalized(w) /\ \A i : Raw(w, i)' = Raw(w, i)
  BY <1>3, DiscKept
<1>6. MappedCount(w) = job[w].at /\ MappedCount(w)' = job[w].at
  BY <1>2, <1>4, <1>5 DEF MappedCount
<1>7. InBounds(w)'
  BY <1>1, <1>2, <1>4, <1>5 DEF WorkerInv, InBounds
<1>8. PlaceInv(w)'
  BY <1>1, <1>2, <1>4, <1>5, <1>6 DEF WorkerInv, PlaceInv, AfterMapping
<1>9. MapInv(w)'
  <2>1. Entries(w)' = Entries(w) /\ MappedData(w)' = MappedData(w)
    BY <1>2, <1>4, <1>6 DEF Entries, MappedData
  <2> QED
    BY <1>2, <1>3, <1>4, <2>1, MapKept
<1> QED
  BY <1>2, <1>3, <1>7, <1>8, <1>9, QuietStep DEF WorkerInv

LEMMA InvOpen ==
  ASSUME Inv, NEW w \in Worker, Open(w)
  PROVE  Inv'
<1> DEFINE types == [k \in 1..Total(w) |-> Coarse(Normalized(w), k - 1)]
           new == [job[w] EXCEPT !.pc = "map", !.types = types]
<1>1. job \in [Worker -> Jobs] /\ job[w] \in Jobs /\ WorkerInv(w) /\ disc \in Batches
  BY DEF Inv, Typed, WorkerInv
<1>2. ~NoIndex01(w) /\ job[w] = NewJob
  BY <1>1 DEF Open, WorkerInv, PlaceInv
<1>3. Total(w) \in Nat
  BY <1>1, DiscIs
<1>4. types \in Seq(SectorType) /\ Len(types) = Total(w)
  <2>1. ASSUME NEW k \in 1..Total(w) PROVE Coarse(Normalized(w), k - 1) \in SectorType
    <3>1. k - 1 \in Nat
      BY <1>3
    <3> QED
      BY <1>1, <1>2, <3>1, CoarseIs DEF SectorType, DataTypes, AudioTypes, Mode1, Mode2Form1
  <2> QED
    BY <1>3, <2>1
<1>5. \A i \in 0..(Total(w) - 1) : types[i + 1] = Coarse(Normalized(w), i)
  BY <1>3
<1> HIDE DEF types
<1>14. /\ job[w].lba_map = << >> /\ job[w].run = << >> /\ job[w].subheader_index = << >>
       /\ job[w].exception_index = << >> /\ job[w].at = 0 /\ job[w].pc = "open"
       /\ job[w].layout = << >> /\ job[w].audio_map = << >>
  BY <1>2 DEF NewJob
<1>6. /\ new \in Jobs /\ new.pc = "map" /\ new.types = types /\ new.lba_map = job[w].lba_map
      /\ new.run = job[w].run /\ new.subheader_index = job[w].subheader_index
      /\ new.exception_index = job[w].exception_index /\ new.at = job[w].at
      /\ new.layout = job[w].layout /\ new.audio_map = job[w].audio_map
  BY <1>1, <1>4 DEF Jobs
<1>7. job' = [job EXCEPT ![w] = new] /\ UNCHANGED <<disc, subheaders, exceptions>>
  BY DEF Open, types
<1> HIDE DEF new
<1>8. job'[w] = new
  BY <1>1, <1>6, <1>7, JobChange
<1>9. /\ Total(w)' = Total(w) /\ Normalized(w)' = Normalized(w) /\ NoIndex01(w)' = NoIndex01(w)
      /\ \A i : Raw(w, i)' = Raw(w, i) /\ Final(w, i)' = Final(w, i)
  BY <1>7, DiscKept
<1>10. MappedCount(w) = 0 /\ MappedCount(w)' = 0
  BY <1>6, <1>8, <1>14 DEF MappedCount
<1>11. InBounds(w)'
  BY <1>1, <1>3, <1>6, <1>8, <1>9, <1>14 DEF InBounds, WorkerInv
<1>12. PlaceInv(w)'
  <2>1. \A i \in 0..(Total(w) - 1) : ~(i < 0)
    BY <1>3
  <2>2. \A i \in 0..(0 - 1) : FALSE
    OBVIOUS
  <2> QED
    BY <1>2, <1>4, <1>5, <1>6, <1>8, <1>9, <1>10, <1>14, <2>1, <2>2 DEF PlaceInv, AfterMapping
<1>13. MapInv(w)'
  <2>1. MappedData(w) = {} /\ MappedData(w)' = {}
    BY <1>10 DEF MappedData
  <2>2. Entries(w)' = Entries(w)
    BY <1>6, <1>8 DEF Entries
  <2> QED
    BY <1>6, <1>7, <1>8, <2>1, <2>2, MapKept
<1> QED
  BY <1>6, <1>7, <1>11, <1>12, <1>13, QuietStep DEF WorkerInv

LEMMA InvMapped ==
  ASSUME Inv, NEW w \in Worker, Mapped(w)
  PROVE  Inv'
<1> DEFINE old == job[w].types
           types == [k \in DOMAIN old |-> IF old[k] = "None" THEN "PregapAudio" ELSE old[k]]
           new == [job[w] EXCEPT !.pc = "chunk", !.at = 0, !.run = << >>,
                     !.subheader_index = job[w].subheader_index \o job[w].run, !.types = types]
<1>1. job \in [Worker -> Jobs] /\ job[w] \in Jobs /\ WorkerInv(w) /\ disc \in Batches
  BY DEF Inv, Typed, WorkerInv
<1>2. job[w].pc = "map" /\ job[w].at = Total(w)
  BY DEF Mapped, Here
<1>3. Total(w) \in Nat
  BY <1>1, DiscIs
<1>4. old \in Seq(SectorType) /\ Len(old) = Total(w) /\ DOMAIN old = 1..Total(w) /\ ~NoIndex01(w)
  BY <1>1, <1>2 DEF WorkerInv, PlaceInv, Jobs
<1>5. \A i \in 0..(Total(w) - 1) : i + 1 \in 1..Total(w) /\ old[i + 1] = Final(w, i)
  BY <1>1, <1>2, <1>3 DEF WorkerInv, PlaceInv
<1> HIDE DEF old
<1>6. types \in Seq(SectorType) /\ Len(types) = Total(w)
  <2>1. \A k \in 1..Total(w) : (IF old[k] = "None" THEN "PregapAudio" ELSE old[k]) \in SectorType
    BY <1>4 DEF SectorType, AudioTypes
  <2> QED
    BY <1>3, <1>4, <2>1
<1>7. \A k \in 1..Total(w) : types[k] = IF old[k] = "None" THEN "PregapAudio" ELSE old[k]
  BY <1>4
<1> HIDE DEF types
<1>8. /\ job[w].subheader_index \in Seq(Runners) /\ job[w].run \in Seq(Runners)
      /\ job[w].subheader_index \o job[w].run \in Seq(Runners)
      /\ << >> \in Seq(Runners)
  BY <1>1, ConcatProperties DEF Jobs
<1>9. /\ new \in Jobs /\ new.pc = "chunk" /\ new.types = types /\ new.lba_map = job[w].lba_map
      /\ new.run = << >> /\ new.subheader_index = job[w].subheader_index \o job[w].run
      /\ new.exception_index = job[w].exception_index /\ new.at = 0
      /\ new.layout = job[w].layout /\ new.audio_map = job[w].audio_map
  BY <1>1, <1>6, <1>8 DEF Jobs
<1>10. job' = [job EXCEPT ![w] = new] /\ UNCHANGED <<disc, subheaders, exceptions>>
  BY DEF Mapped, types, old
<1> HIDE DEF new
<1>11. job'[w] = new
  BY <1>1, <1>9, <1>10, JobChange
<1>12. /\ Total(w)' = Total(w) /\ Normalized(w)' = Normalized(w) /\ NoIndex01(w)' = NoIndex01(w)
       /\ \A i : Raw(w, i)' = Raw(w, i) /\ Final(w, i)' = Final(w, i)
  BY <1>10, DiscKept
<1>13. MappedCount(w) = Total(w) /\ MappedCount(w)' = Total(w)
  BY <1>2, <1>9, <1>11, <1>12 DEF MappedCount
<1>14. InBounds(w)'
  BY <1>1, <1>3, <1>9, <1>11, <1>12 DEF InBounds, WorkerInv
<1>15. PlaceInv(w)'
  <2>1. \E r \in 1..(Len(rle_encode_map(types)) + 1) : 0 = Place(rle_encode_map(types), r)
    <3>1. rle_encode_map(types) \in Seq(RunRecords)
      BY <1>6, RunsAre
    <3>2. 1 \in 1..(Len(rle_encode_map(types)) + 1)
      BY <3>1, CountsAre
    <3> QED
      BY <3>1, <3>2, PlaceIs
  <2>2. Runs(w)' = rle_encode_map(types)
    BY <1>9, <1>11 DEF Runs
  <2>3. \A i \in 0..(Total(w) - 1) :
          types[i + 1] = IF Final(w, i) = "None" THEN "PregapAudio" ELSE Final(w, i)
    BY <1>5, <1>7
  <2>4. \A i \in 0..(Total(w) - 1) : IsData(Coarse(Normalized(w), i)) => Known(Raw(w, i))
    BY <1>1, <1>13 DEF WorkerInv, PlaceInv
  <2>5. \A i : Known(Raw(w, i))' = Known(Raw(w, i))
    BY <1>12 DEF Known
  <2> QED
    BY <1>4, <1>6, <1>9, <1>11, <1>12, <1>13, <2>1, <2>2, <2>3, <2>4, <2>5 DEF PlaceInv, AfterMapping
<1>16. MapInv(w)'
  <2>1. Entries(w)' = Entries(w)
    <3>1. Entries(w)' = (job[w].subheader_index \o job[w].run) \o << >>
      BY <1>9, <1>11 DEF Entries
    <3> QED
      BY <1>8, <3>1, ConcatEmptySeq DEF Entries
  <2>2. \A i \in 0..(Total(w) - 1) : IsData(types[i + 1]) <=> IsData(old[i + 1])
    BY <1>5, <1>7 DEF IsData, DataTypes, Mode1, Mode2Form1, Mode1Exception, Mode2Form1Exception, Zeroed
  <2>3. MappedData(w)' = MappedData(w)
    BY <1>9, <1>11, <1>13, <2>2 DEF MappedData, old
  <2>4. \A i \in MappedData(w) : types[i + 1] = old[i + 1]
    <3>1. ~IsData("None")
      BY DEF IsData, DataTypes, Mode1, Mode2Form1, Mode1Exception, Mode2Form1Exception, Zeroed
    <3> QED
      BY <1>5, <1>7, <1>13, <3>1 DEF MappedData, old
  <2> QED
    BY <1>9, <1>10, <1>11, <2>1, <2>3, <2>4, MapKept DEF old
<1> QED
  BY <1>9, <1>10, <1>14, <1>15, <1>16, QuietStep DEF WorkerInv

(* The sector a worker looks at. *)
LEMMA AtMap ==
  ASSUME Inv, NEW w \in Worker, job[w].pc = "map", job[w].at < Total(w)
  PROVE  LET i == job[w].at
         IN /\ i \in Nat /\ i \in 0..(Total(w) - 1) /\ i + 1 \in 1..Total(w) /\ Total(w) \in Nat
            /\ job[w].types \in Seq(SectorType) /\ DOMAIN job[w].types = 1..Total(w)
            /\ job[w].types[i + 1] = Coarse(Normalized(w), i)
            /\ Raw(w, i) \in Sector /\ Raw(w, i) = Sectors(w)[i + 1]
            /\ MappedCount(w) = i
            /\ MappedData(w) \in SUBSET Nat /\ \A j \in MappedData(w) : j < i /\ j # i
<1>1. job[w] \in Jobs /\ PlaceInv(w) /\ disc \in Batches
  BY DEF Inv, Typed
<1>2. Total(w) \in Nat /\ job[w].at \in Nat
  BY <1>1, DiscIs DEF Jobs
<1>3. job[w].at \in 0..(Total(w) - 1) /\ job[w].at + 1 \in 1..Total(w)
  BY <1>2
<1>4. job[w].types \in Seq(SectorType) /\ DOMAIN job[w].types = 1..Total(w)
  BY <1>1 DEF PlaceInv, Jobs
<1>5. job[w].types[job[w].at + 1] = Coarse(Normalized(w), job[w].at)
  BY <1>1, <1>2, <1>3 DEF PlaceInv
<1>6. Raw(w, job[w].at) \in Sector /\ Raw(w, job[w].at) = Sectors(w)[job[w].at + 1]
  BY <1>1, <1>3, DiscIs DEF Raw
<1>7. MappedCount(w) = job[w].at
  BY DEF MappedCount
<1>8. MappedData(w) \in SUBSET Nat /\ \A j \in MappedData(w) : j < job[w].at /\ j # job[w].at
  BY <1>2, <1>7 DEF MappedData
<1> QED
  BY <1>2, <1>3, <1>4, <1>5, <1>6, <1>7, <1>8

LEMMA InvSkip ==
  ASSUME Inv, NEW w \in Worker, job[w].pc = "map", job[w].at < Total(w),
         ~IsData(job[w].types[job[w].at + 1]),
         job' = [job EXCEPT ![w].at = job[w].at + 1], UNCHANGED <<disc, subheaders, exceptions>>
  PROVE  Inv'
<1> DEFINE i == job[w].at
           new == [job[w] EXCEPT !.at = i + 1]
<1>1. job \in [Worker -> Jobs] /\ job[w] \in Jobs /\ WorkerInv(w)
  BY DEF Inv, Typed, WorkerInv
<1>2. /\ i \in Nat /\ i \in 0..(Total(w) - 1) /\ i + 1 \in 1..Total(w) /\ Total(w) \in Nat
      /\ job[w].types[i + 1] = Coarse(Normalized(w), i) /\ MappedCount(w) = i
  BY AtMap
<1>18. i + 1 \in Nat /\ i + 1 <= Total(w)
  BY <1>2
<1>3. /\ new \in Jobs /\ new.pc = job[w].pc /\ new.types = job[w].types /\ new.lba_map = job[w].lba_map
      /\ new.run = job[w].run /\ new.subheader_index = job[w].subheader_index
      /\ new.exception_index = job[w].exception_index /\ new.at = i + 1
      /\ new.layout = job[w].layout /\ new.audio_map = job[w].audio_map
  BY <1>1, <1>18 DEF Jobs
<1>4. job' = [job EXCEPT ![w] = new]
  OBVIOUS
<1>5. ~IsData(job[w].types[i + 1])
  OBVIOUS
<1>17. i = job[w].at
  OBVIOUS
<1> HIDE DEF new, i
<1>6. job'[w] = new
  BY <1>1, <1>3, <1>4, JobChange
<1>7. /\ Total(w)' = Total(w) /\ Normalized(w)' = Normalized(w) /\ NoIndex01(w)' = NoIndex01(w)
      /\ \A k : Raw(w, k)' = Raw(w, k) /\ Final(w, k)' = Final(w, k)
  BY DiscKept
<1>8. MappedCount(w)' = i + 1
  BY <1>3, <1>6 DEF MappedCount
<1>9. \A k : k \in 0..((i + 1) - 1) <=> k \in 0..(i - 1) \/ k = i
  BY <1>2
<1>10. InBounds(w)'
  BY <1>1, <1>3, <1>6, <1>7, <1>18 DEF InBounds, WorkerInv
<1>11. PlaceInv(w)'
  <2>1. \A k \in 0..(Total(w) - 1) :
          job[w].types[k + 1] = IF k < i + 1 THEN Final(w, k) ELSE Coarse(Normalized(w), k)
    <3>1. Final(w, i) = Coarse(Normalized(w), i)
      BY <1>2, <1>5 DEF Final
    <3>2. \A k \in 0..(Total(w) - 1) :
            job[w].types[k + 1] = IF k < i THEN Final(w, k) ELSE Coarse(Normalized(w), k)
      BY <1>1, <1>17 DEF WorkerInv, PlaceInv
    <3>3. \A k \in 0..(Total(w) - 1) : k < i + 1 <=> k < i \/ k = i
      BY <1>2
    <3> QED
      BY <1>2, <3>1, <3>2, <3>3
  <2>2. \A k \in 0..((i + 1) - 1) : IsData(Coarse(Normalized(w), k)) => Known(Raw(w, k))
    <3>1. \A k \in 0..(i - 1) : IsData(Coarse(Normalized(w), k)) => Known(Raw(w, k))
      BY <1>1, <1>2 DEF WorkerInv, PlaceInv
    <3> QED
      BY <1>2, <1>5, <1>9, <3>1
  <2>3. \A k : Known(Raw(w, k))' = Known(Raw(w, k))
    BY <1>7 DEF Known
  <2>4. ~NoIndex01(w) /\ Len(job[w].types) = Total(w)
    BY <1>1 DEF WorkerInv, PlaceInv
  <2> QED
    BY <1>3, <1>6, <1>7, <1>8, <2>1, <2>2, <2>3, <2>4 DEF PlaceInv, AfterMapping
<1>12. MapInv(w)'
  <2>1. Entries(w)' = Entries(w)
    BY <1>3, <1>6 DEF Entries
  <2>2. MappedData(w)' = MappedData(w)
    BY <1>2, <1>3, <1>5, <1>6, <1>8, <1>9 DEF MappedData
  <2> QED
    BY <1>3, <1>6, <2>1, <2>2, MapKept
<1> QED
  BY <1>3, <1>4, <1>10, <1>11, <1>12, QuietStep DEF WorkerInv

(* What is entered for a sector are bytes of that sector. *)
LEMMA BytesAre ==
  ASSUME NEW s \in Sector, NEW type
  PROVE  /\ Metadata(s, type) \in StoredUnits
         /\ ExceptionOf(s, type) # << >> =>
              /\ ExceptionOf(s, type)[1] \in Damage
              /\ ExceptionOf(s, type) = << ExceptionOf(s, type)[1] >>
<1>1. s.sub \in StoredUnits /\ <<"head", s.user>> \in StoredUnits /\ <<"tail", s.user>> \in StoredUnits
  BY DEF StoredUnits
<1>2. Metadata(s, type) \in StoredUnits
  BY <1>1 DEF Metadata
<1>3. <<s.addr, s.ecc>> \in Damage
  BY DEF Damage
<1> QED
  BY <1>2, <1>3 DEF ExceptionOf

LEMMA AtMostOne ==
  ASSUME NEW n \in Nat, n <= 1, n # 0
  PROVE  n = 1
OBVIOUS

LEMMA RunMoves ==
  ASSUME NEW index \in Seq(Runners), NEW run \in Seq(Runners), Len(run) <= 1,
         NEW i \in Nat, NEW id \in Nat
  PROVE  /\ RunAfter(run, i, id) \in Seq(Runners) /\ Len(RunAfter(run, i, id)) <= 1
         /\ IndexAfter(index, run, i, id) \in Seq(Runners)
         /\ index \o run \in Seq(Runners)
         /\ IndexAfter(index, run, i, id) \o RunAfter(run, i, id) \in Seq(Runners)
         /\ RunGrows(index \o run, IndexAfter(index, run, i, id) \o RunAfter(run, i, id), i, id)
<1>1. index \o run \in Seq(Runners)
  BY ConcatProperties
<1>2. CASE ~Continues(run, i, id)
  <2> DEFINE e == [start_lba |-> i, count |-> 1, data_id |-> id]
  <2>1. e \in Runners
    BY DEF Runners
  <2>2. RunAfter(run, i, id) = <<e>> /\ IndexAfter(index, run, i, id) = index \o run
    BY <1>2 DEF RunAfter, IndexAfter
  <2> HIDE DEF e
  <2>3. <<e>> \in Seq(Runners) /\ Len(<<e>>) = 1
    BY <2>1
  <2>4. (index \o run) \o <<e>> = Append(index \o run, e)
    BY <1>1, <2>1, AppendIsConcat
  <2>5. Append(index \o run, e) \in Seq(Runners)
    BY <1>1, <2>1, AppendProperties
  <2> QED
    BY <1>1, <2>2, <2>3, <2>4, <2>5 DEF RunGrows, e
<1>3. CASE Continues(run, i, id)
  <2>1. run # << >> /\ run[1].data_id = id /\ i = run[1].start_lba + run[1].count
    BY <1>3 DEF Continues
  <2>2. Len(run) \in Nat /\ Len(run) # 0
    BY <2>1, EmptySeq
  <2>3. Len(run) = 1
    BY <2>2, AtMostOne
  <2>4. PICK r \in Runners : r = run[1] /\ run = <<r>>
    BY <2>3
  <2> DEFINE e == [r EXCEPT !.count = @ + 1]
  <2>5. e \in Runners
    <3>1. r.start_lba \in Nat /\ r.count \in Nat \ {0} /\ r.data_id \in Nat
          /\ r = [start_lba |-> r.start_lba, count |-> r.count, data_id |-> r.data_id]
      BY <2>4 DEF Runners
    <3>2. r.count + 1 \in Nat \ {0}
      BY <3>1
    <3>3. e = [start_lba |-> r.start_lba, count |-> r.count + 1, data_id |-> r.data_id]
      BY <3>1
    <3> QED
      BY <3>1, <3>2, <3>3 DEF Runners
  <2>6. RunAfter(run, i, id) = <<e>> /\ IndexAfter(index, run, i, id) = index
    BY <1>3, <2>4 DEF RunAfter, IndexAfter
  <2> HIDE DEF e
  <2> DEFINE n == Len(index)
             E == Append(index, r)
             F == Append(index, e)
  <2>7. n \in Nat
    OBVIOUS
  <2>8. /\ E \in Seq(Runners) /\ Len(E) = n + 1 /\ E[n + 1] = r
        /\ \A k \in 1..n : E[k] = index[k]
    BY AppendProperties
  <2>9. /\ F \in Seq(Runners) /\ Len(F) = n + 1 /\ F[n + 1] = e
        /\ \A k \in 1..n : F[k] = index[k]
    BY <2>5, AppendProperties
  <2>10. index \o run = E /\ index \o <<e>> = F /\ <<e>> \in Seq(Runners) /\ Len(<<e>>) = 1
    BY <2>4, <2>5, AppendIsConcat
  <2> HIDE DEF n, E, F
  <2>11. \A k \in 1..(n + 1) : F[k] = IF k = n + 1 THEN [E[k] EXCEPT !.count = @ + 1] ELSE E[k]
    <3>1. \A k \in 1..(n + 1) : k = n + 1 \/ (k \in 1..n /\ k # n + 1)
      BY <2>7
    <3> QED
      BY <2>8, <2>9, <3>1 DEF e
  <2>12. E # << >>
    BY <2>7, <2>8, EmptySeq
  <2>13. RunGrows(E, F, i, id)
    BY <2>1, <2>4, <2>8, <2>9, <2>11, <2>12 DEF RunGrows
  <2>14. /\ RunAfter(run, i, id) \in Seq(Runners) /\ Len(RunAfter(run, i, id)) <= 1
         /\ IndexAfter(index, run, i, id) \in Seq(Runners)
    BY <2>6, <2>10
  <2>15. IndexAfter(index, run, i, id) \o RunAfter(run, i, id) = F
    BY <2>6, <2>10
  <2> QED
    BY <1>1, <2>9, <2>10, <2>13, <2>14, <2>15
<1> QED
  BY <1>2, <1>3

LEMMA InvEnter ==
  ASSUME Inv, NEW w \in Worker, NEW i, NEW s, NEW coarse, NEW type, NEW ex, NEW id, NEW xid,
         Looks(w, i, s, coarse, type, ex), Enters(s, type, ex, id, xid),
         disc' = disc, job' = [job EXCEPT ![w] = After(w, i, s, type, ex, id, xid)]
  PROVE  Inv'
<1>1. job \in [Worker -> Jobs] /\ job[w] \in Jobs /\ WorkerInv(w)
      /\ subheaders \in Seq(StoredUnits) /\ exceptions \in Seq(Damage)
  BY DEF Inv, Typed, WorkerInv
<1> DEFINE old == job[w].types
           types == [old EXCEPT ![i + 1] = type]
           M == MappedData(w)
           new == After(w, i, s, type, ex, id, xid)
<1>23. job[w].pc = "map" /\ job[w].at < Total(w) /\ i = job[w].at
  BY DEF Looks
<1>2. /\ i \in Nat /\ i \in 0..(Total(w) - 1) /\ i + 1 \in 1..Total(w) /\ Total(w) \in Nat
      /\ old \in Seq(SectorType) /\ DOMAIN old = 1..Total(w)
      /\ coarse = Coarse(Normalized(w), i) /\ s \in Sector /\ s = Sectors(w)[i + 1]
      /\ MappedCount(w) = i /\ M \in SUBSET Nat /\ \A j \in M : j < i /\ j # i
  BY <1>23, AtMap DEF Looks
<1> HIDE DEF new, types
<1>3. i + 1 \in Nat /\ i + 1 <= Total(w) /\ i \notin M
  BY <1>2
<1>4. type \in DataTypes /\ type = Final(w, i) /\ type \in SectorType
  <2>1. coarse \in DataTypes /\ Known(s) /\ type = Analyzed(s, coarse) /\ s = Raw(w, i)
    BY DEF IsData, Looks
  <2>2. type \in DataTypes
    BY <1>2, <2>1, AnalyzedIs
  <2> QED
    BY <1>2, <2>1, <2>2 DEF Final, SectorType, IsData
<1>5. /\ subheaders' \in Seq(StoredUnits) /\ Extends(subheaders, subheaders')
      /\ id \in DOMAIN subheaders' /\ id \in Nat /\ subheaders'[id] = Metadata(s, type)
  <2>1. Metadata(s, type) \in StoredUnits
    BY <1>2, BytesAre
  <2> QED
    BY <1>1, <2>1, Registers DEF Enters
<1>6. /\ exceptions' \in Seq(Damage) /\ Extends(exceptions, exceptions')
      /\ ex # << >> => xid \in DOMAIN exceptions' /\ xid \in Nat /\ << exceptions'[xid] >> = ex
  <2>1. CASE ex = << >>
    BY <1>1, <2>1 DEF Extends, Enters
  <2>2. CASE ex # << >>
    <3>1. ex[1] \in Damage /\ ex = << ex[1] >>
      BY <1>2, <2>2, BytesAre DEF Looks
    <3>2. exceptions' = GetOrRegister(exceptions, ex[1])
      BY <2>2 DEF Enters
    <3>3. /\ exceptions' \in Seq(Damage) /\ Extends(exceptions, exceptions')
          /\ xid \in DOMAIN exceptions' /\ xid \in Nat /\ exceptions'[xid] = ex[1]
      BY <1>1, <2>2, <3>1, <3>2, Registers DEF Enters
    <3> QED
      BY <3>1, <3>3
  <2> QED
    BY <2>1, <2>2
<1> USE DEF types
<1>7. /\ types \in Seq(SectorType) /\ Len(types) = Len(old) /\ types[i + 1] = type
      /\ \A j \in Nat : j # i => types[j + 1] = old[j + 1]
  <2>1. i + 1 \in DOMAIN old
    BY <1>2
  <2>2. types \in Seq(SectorType) /\ Len(types) = Len(old)
        /\ \A k \in DOMAIN old : types[k] = IF k = i + 1 THEN type ELSE old[k]
    <3> HIDE DEF old
    <3> QED
      BY <1>2, <1>4, <2>1
  <2>3. \A j \in Nat : j # i => types[j + 1] = old[j + 1]
    <3> HIDE DEF old
    <3> QED
      BY <1>2
  <2> QED
    BY <2>1, <2>2, <2>3
<1>8. \A j \in M : types[j + 1] = old[j + 1]
  BY <1>2, <1>7
<1>9. /\ job[w].run \in Seq(Runners) /\ job[w].subheader_index \in Seq(Runners)
      /\ job[w].exception_index \in Seq(Nat \X Nat) /\ job[w].lba_map \in Seq(Nat \X Nat)
      /\ Len(job[w].run) <= 1
  BY <1>1 DEF Jobs, WorkerInv, InBounds
<1> DEFINE run2 == RunAfter(job[w].run, i, id)
           index2 == IndexAfter(job[w].subheader_index, job[w].run, i, id)
           xindex2 == IF ex = << >> THEN job[w].exception_index
                      ELSE Append(job[w].exception_index, <<i, xid>>)
           table2 == LbaMap(job[w].lba_map, i, s.addr)
<1>10. /\ run2 \in Seq(Runners) /\ Len(run2) <= 1 /\ index2 \in Seq(Runners)
       /\ Entries(w) \in Seq(Runners) /\ index2 \o run2 \in Seq(Runners)
       /\ RunGrows(Entries(w), index2 \o run2, i, id)
  BY <1>2, <1>5, <1>9, RunMoves DEF Entries
<1>11. EntriesOk(Sectors(w), index2 \o run2, M \cup {i}, subheaders', types)
  <2>1. EntriesOk(Sectors(w), Entries(w), M, subheaders, old)
    BY <1>1 DEF WorkerInv, MapInv
  <2>2. \A j \in M : j \in Nat /\ j < i
    BY <1>2
  <2>3. subheaders'[id] = Metadata(Sectors(w)[i + 1], types[i + 1])
    BY <1>2, <1>5, <1>7
  <2> HIDE DEF types, M, run2, index2, old
  <2> QED
    BY <1>2, <1>5, <1>8, <1>10, <2>1, <2>2, <2>3, EntriesGrow
<1>12. xindex2 \in Seq(Nat \X Nat) /\ DamageOk(Sectors(w), xindex2, M \cup {i}, exceptions', types)
  <2>1. DamageOk(Sectors(w), job[w].exception_index, M, exceptions, old)
    BY <1>1 DEF WorkerInv, MapInv
  <2>2. ex = ExceptionOf(Sectors(w)[i + 1], types[i + 1])
    BY <1>2, <1>7 DEF Looks
  <2> HIDE DEF types, M, old
  <2> QED
    BY <1>2, <1>3, <1>6, <1>8, <1>9, <2>1, <2>2, DamageGrow
<1>13. table2 \in Seq(Nat \X Nat) /\ TableOk(Sectors(w), table2, M \cup {i})
  <2>1. TableOk(Sectors(w), job[w].lba_map, M)
    BY <1>1 DEF WorkerInv, MapInv
  <2>2. s.addr \in Nat
    BY <1>2, DiscMapAssumption
  <2>3. Sectors(w)[i + 1].addr \in Nat /\ table2 = LbaMap(job[w].lba_map, i, Sectors(w)[i + 1].addr)
    BY <1>2, <2>2
  <2> HIDE DEF M, table2
  <2> QED
    BY <1>2, <1>9, <2>1, <2>3, TableGrow
<1>14. /\ new \in Jobs /\ new.pc = "map" /\ new.types = types /\ new.lba_map = table2
       /\ new.run = run2 /\ new.subheader_index = index2 /\ new.exception_index = xindex2
       /\ new.at = i + 1 /\ new.layout = job[w].layout /\ new.audio_map = job[w].audio_map
  <2> USE DEF new
  <2>1. new = [job[w] EXCEPT !.at = i + 1, !.types = types, !.lba_map = table2, !.run = run2,
                 !.subheader_index = index2, !.exception_index = xindex2]
    BY <1>1 DEF Jobs, After
  <2> HIDE DEF new, old, types, table2, run2, index2, xindex2
  <2> QED
    BY <1>1, <1>3, <1>7, <1>10, <1>12, <1>13, <1>23, <2>1 DEF Jobs
<1> HIDE DEF types, new, table2, run2, index2, xindex2
<1>15. job'[w] = new
  BY <1>1, <1>14, JobChange DEF new
<1>16. /\ Total(w)' = Total(w) /\ Normalized(w)' = Normalized(w) /\ NoIndex01(w)' = NoIndex01(w)
       /\ Sectors(w)' = Sectors(w)
       /\ \A k : Raw(w, k)' = Raw(w, k) /\ Final(w, k)' = Final(w, k)
  BY DiscKept
<1>17. MappedCount(w)' = i + 1
  BY <1>14, <1>15 DEF MappedCount
<1>18. \A k : k \in 0..((i + 1) - 1) <=> k \in 0..(i - 1) \/ k = i
  BY <1>2
<1>19. InBounds(w)'
  BY <1>1, <1>3, <1>10, <1>14, <1>15, <1>16 DEF InBounds, WorkerInv
<1>20. PlaceInv(w)'
  <2>1. \A k \in 0..(Total(w) - 1) :
          types[k + 1] = IF k < i + 1 THEN Final(w, k) ELSE Coarse(Normalized(w), k)
    <3>1. \A k \in 0..(Total(w) - 1) :
            old[k + 1] = IF k < i THEN Final(w, k) ELSE Coarse(Normalized(w), k)
      BY <1>1, <1>23 DEF WorkerInv, PlaceInv
    <3>2. \A k \in 0..(Total(w) - 1) : (k < i + 1 <=> k < i \/ k = i) /\ k \in Nat
      BY <1>2
    <3> HIDE DEF old
    <3> QED
      BY <1>2, <1>4, <1>7, <3>1, <3>2
  <2>2. \A k \in 0..((i + 1) - 1) : IsData(Coarse(Normalized(w), k)) => Known(Raw(w, k))
    <3>1. \A k \in 0..(i - 1) : IsData(Coarse(Normalized(w), k)) => Known(Raw(w, k))
      BY <1>1, <1>2 DEF WorkerInv, PlaceInv
    <3>2. Known(Raw(w, i))
      BY DEF Looks
    <3> QED
      BY <1>18, <3>1, <3>2
  <2>3. \A k : Known(Raw(w, k))' = Known(Raw(w, k))
    BY <1>16 DEF Known
  <2>4. ~NoIndex01(w) /\ Len(types) = Total(w)
    BY <1>1, <1>7, <1>23 DEF WorkerInv, PlaceInv
  <2> QED
    BY <1>14, <1>15, <1>16, <1>17, <2>1, <2>2, <2>3, <2>4 DEF PlaceInv, AfterMapping
<1>21. MapInv(w)'
  <2>1. Entries(w)' = index2 \o run2
    BY <1>14, <1>15 DEF Entries
  <2>2. MappedData(w)' = M \cup {i}
    <3>1. M = {k \in 0..(i - 1) : IsData(old[k + 1])}
      BY <1>2 DEF MappedData
    <3>2. MappedData(w)' = {k \in 0..((i + 1) - 1) : IsData(types[k + 1])}
      BY <1>14, <1>15, <1>17 DEF MappedData
    <3>3. \A k \in 0..(i - 1) : types[k + 1] = old[k + 1]
      BY <1>2, <1>7
    <3>4. IsData(types[i + 1])
      BY <1>4, <1>7 DEF IsData
    <3> HIDE DEF M, old
    <3> QED
      BY <1>18, <3>1, <3>2, <3>3, <3>4
  <2> HIDE DEF M
  <2> QED
    BY <1>11, <1>12, <1>13, <1>14, <1>15, <1>16, <2>1, <2>2 DEF MapInv
<1>22. WorkerInv(w)'
  BY <1>19, <1>20, <1>21, ZenonT(60) DEF WorkerInv
<1> QED
  BY <1>5, <1>6, <1>14, <1>22, StepOf DEF new

LEMMA InvMapSector ==
  ASSUME Inv, NEW w \in Worker, MapSector(w)
  PROVE  Inv'
<1>1. PICK i, s, coarse, type, ex, id, xid :
        /\ i = Here(w) /\ s = Raw(w, i) /\ coarse = job[w].types[i + 1]
        /\ type = Analyzed(s, coarse) /\ ex = ExceptionOf(s, type)
        /\ id = IdOf(subheaders', Metadata(s, type))
        /\ xid = IdOf(exceptions', ex[1])
  OBVIOUS
<1>2. job[w].pc = "map" /\ job[w].at < Total(w) /\ disc' = disc /\ i = job[w].at
  BY <1>1, ZenonT(60) DEF MapSector, Here
<1>3. CASE ~IsData(coarse) /\ job' = [job EXCEPT ![w].at = i + 1] /\ UNCHANGED <<subheaders, exceptions>>
  BY <1>1, <1>2, <1>3, InvSkip, ZenonT(60)
<1>4. CASE /\ IsData(coarse) /\ Known(s)
           /\ subheaders' = GetOrRegister(subheaders, Metadata(s, type))
           /\ exceptions' = IF ex = << >> THEN exceptions ELSE GetOrRegister(exceptions, ex[1])
           /\ job' = [job EXCEPT ![w] = After(w, i, s, type, ex, id, xid)]
  <2>1. Looks(w, i, s, coarse, type, ex) /\ Enters(s, type, ex, id, xid)
    BY <1>1, <1>2, <1>4 DEF Looks, Enters
  <2> QED
    BY <1>2, <1>4, <2>1, InvEnter
<1> QED
  BY <1>1, <1>3, <1>4, ZenonT(60) DEF MapSector, After, RunAfter, IndexAfter

-----------------------------------------------------------------------------
(* Cutting. *)
LEMMA ConcatAll ==
  ASSUME NEW S, NEW s \in Seq(S), NEW t \in Seq(S), NEW n,
         \A k \in DOMAIN s : Len(s[k]) \in 1..n, \A k \in DOMAIN t : Len(t[k]) \in 1..n
  PROVE  s \o t \in Seq(S) /\ \A k \in DOMAIN (s \o t) : Len((s \o t)[k]) \in 1..n
<1> DEFINE a == Len(s)
           b == Len(t)
           u == s \o t
<1>1. /\ a \in Nat /\ b \in Nat /\ u \in Seq(S) /\ Len(u) = a + b
      /\ \A k \in 1..(a + b) : u[k] = IF k <= a THEN s[k] ELSE t[k - a]
  BY ConcatProperties
<1>2. DOMAIN s = 1..a /\ DOMAIN t = 1..b
  OBVIOUS
<1>3. DOMAIN u = 1..(a + b)
  BY <1>1
<1> HIDE DEF a, b, u
<1>4. \A k \in 1..(a + b) : (k <= a /\ k \in 1..a) \/ (~(k <= a) /\ k - a \in 1..b)
  BY <1>1
<1>5. \A k \in DOMAIN u : Len(u[k]) \in 1..n
  BY <1>1, <1>2, <1>3, <1>4
<1> QED
  BY <1>1, <1>5 DEF u

(* The run the worker cuts next, and the one behind it. *)
LEMMA RunAtIs ==
  ASSUME Inv, NEW w \in Worker, job[w].pc = "chunk", job[w].at < Total(w)
  PROVE  /\ Runs(w) \in Seq(RunRecords) /\ Sum(Counts(Runs(w))) = Total(w)
         /\ RunAt(w) \in 1..Len(Runs(w)) /\ Place(Runs(w), RunAt(w)) = job[w].at
         /\ Place(Runs(w), RunAt(w) + 1) = job[w].at + Runs(w)[RunAt(w)].count
         /\ job[w].at + Runs(w)[RunAt(w)].count <= Total(w)
<1>1. job[w] \in Jobs /\ PlaceInv(w) /\ disc \in Batches
  BY DEF Inv, Typed
<1>2. job[w].types \in Seq(SectorType) /\ Len(job[w].types) = Total(w)
  BY <1>1 DEF Jobs, PlaceInv, AfterMapping
<1>3. Runs(w) \in Seq(RunRecords) /\ Sum(Counts(Runs(w))) = Total(w)
  BY <1>2, RunsAre DEF Runs
<1> DEFINE L == Len(Runs(w))
<1>4. L \in Nat /\ DOMAIN Runs(w) = 1..L
  BY <1>3
<1>5. PICK r \in 1..(L + 1) : job[w].at = Place(Runs(w), r)
  BY <1>1 DEF PlaceInv
<1>6. r # L + 1
  BY <1>3, <1>5, PlaceIs, DiscIs, <1>1
<1>7. r \in DOMAIN Runs(w)
  <2> HIDE DEF L
  <2> QED
    BY <1>4, <1>5, <1>6
<1>8. RunAt(w) \in DOMAIN Runs(w) /\ Place(Runs(w), RunAt(w)) = job[w].at
  BY <1>5, <1>7 DEF RunAt, Place
<1>9. Place(Runs(w), RunAt(w) + 1) = job[w].at + Runs(w)[RunAt(w)].count
  BY <1>3, <1>4, <1>8, PlaceIs
<1>10. Place(Runs(w), RunAt(w) + 1) <= Total(w)
  <2>1. RunAt(w) \in 1..(L + 1) /\ L + 1 \in 1..(L + 1) /\ RunAt(w) < L + 1
    <3> HIDE DEF L
    <3> QED
      BY <1>4, <1>8
  <2> QED
    BY <1>3, <2>1, PlacesGrow, PlaceIs
<1> QED
  BY <1>3, <1>4, <1>8, <1>9, <1>10

LEMMA UserDataIs ==
  ASSUME disc \in Batches, NEW w \in Worker, NEW first \in Nat, NEW run \in RunRecords,
         first + run.count <= Total(w)
  PROVE  UserData(w, first, run) \in Seq(UserUnits)
<1> DEFINE units(k) == Units(Raw(w, first + k - 1).user, data_size(run.type))
           parts == [k \in 1..run.count |-> units(k)]
<1>1. run.count \in Nat /\ data_size(run.type) \in Nat /\ Total(w) \in Nat
  BY DiscIs DEF RunRecords, data_size
<1>2. ASSUME NEW k \in 1..run.count PROVE units(k) \in Seq(UserUnits)
  <2>1. first + k - 1 \in 0..(Total(w) - 1)
    BY <1>1
  <2>2. Raw(w, first + k - 1) \in Sector
    BY <2>1, DiscIs
  <2> DEFINE user == Raw(w, first + k - 1).user
  <2>3. user \in {s.user : s \in Sector}
    BY <2>2
  <2> HIDE DEF user
  <2>4. \A n \in Nat : <<"zero", 0>> \in UserUnits /\ <<user, n>> \in UserUnits
    BY <2>3 DEF UserUnits
  <2> DEFINE m == data_size(run.type)
  <2>5. m \in Nat
    BY <1>1
  <2> HIDE DEF m
  <2>6. \A j \in 1..m : (IF user = "zero" THEN <<"zero", 0>> ELSE <<user, j>>) \in UserUnits
    BY <2>4
  <2>7. Units(user, m) \in Seq(UserUnits)
    BY <2>5, <2>6 DEF Units
  <2> QED
    BY <2>7 DEF user, m
<1>3. parts \in Seq(Seq(UserUnits))
  <2> HIDE DEF units
  <2> QED
    BY <1>1, <1>2
<1>4. UserData(w, first, run) = FlattenSeq(parts)
  BY DEF UserData
<1> HIDE DEF parts
<1> QED
  BY <1>3, <1>4, FlattenType

LEMMA MoreAre ==
  ASSUME disc \in Batches, NEW w \in Worker, NEW first \in Nat, NEW run \in RunRecords,
         first + run.count <= Total(w)
  PROVE  /\ MoreLayout(w, first, run) \in Seq(Seq(UserUnits))
         /\ \A k \in DOMAIN MoreLayout(w, first, run) : Len(MoreLayout(w, first, run)[k]) \in 1..CHUNK
         /\ MoreAudio(w, first, run) \in Seq(AudioBlock)
         /\ \A k \in DOMAIN MoreAudio(w, first, run) :
              Len(MoreAudio(w, first, run)[k].content) \in 1..SECTOR_BLOCK
<1>1. /\ Pieces(UserData(w, first, run), CHUNK) \in Seq(Seq(UserUnits))
      /\ \A k \in DOMAIN Pieces(UserData(w, first, run), CHUNK) :
           Len(Pieces(UserData(w, first, run), CHUNK)[k]) \in 1..CHUNK
  <2>1. UserData(w, first, run) \in Seq(UserUnits)
    BY UserDataIs
  <2> QED
    BY <2>1, PiecesAre, DiscMapAssumption
<1>2. SubSeq(Sectors(w), first + 1, first + run.count) \in Seq(Sector)
  <2>1. Sectors(w) \in Seq(Sector) /\ Total(w) \in Nat /\ run.count \in Nat \ {0}
    BY DiscIs DEF RunRecords
  <2> DEFINE a == first + 1
             b == first + run.count
  <2>2. a \in Int /\ b \in Int /\ a <= b /\ \A i \in a..b : i \in 1..Total(w)
    BY <2>1
  <2>3. \A i \in a..b : Sectors(w)[i] \in Sector
    <3> HIDE DEF a, b
    <3> QED
      BY <2>1, <2>2, ElementOfSeq DEF Total
  <2> HIDE DEF a, b
  <2>4. SubSeq(Sectors(w), a, b) \in Seq(Sector)
    BY <2>2, <2>3, SubSeqProperties
  <2> QED
    BY <2>4 DEF a, b
<1>3. /\ Blocks(w, first, run) \in Seq(Seq(Sector))
      /\ \A k \in DOMAIN Blocks(w, first, run) : Len(Blocks(w, first, run)[k]) \in 1..SECTOR_BLOCK
  BY <1>2, PiecesAre, DiscMapAssumption DEF Blocks
<1> DEFINE blocks == Blocks(w, first, run)
           more == [k \in DOMAIN blocks |-> [start |-> BlockStart(first, k), content |-> blocks[k]]]
<1>4. more \in Seq(AudioBlock) /\ \A k \in DOMAIN more : Len(more[k].content) \in 1..SECTOR_BLOCK
  <2> HIDE DEF blocks
  <2>1. blocks \in Seq(Seq(Sector)) /\ \A k \in DOMAIN blocks : Len(blocks[k]) \in 1..SECTOR_BLOCK
    BY <1>3 DEF blocks
  <2> DEFINE n == Len(blocks)
  <2>2. n \in Nat /\ DOMAIN blocks = 1..n
    BY <2>1
  <2> HIDE DEF n
  <2>3. ASSUME NEW k \in 1..n PROVE [start |-> BlockStart(first, k), content |-> blocks[k]] \in AudioBlock
    <3>1. blocks[k] \in Seq(Sector)
      BY <2>1, <2>2
    <3>2. BlockStart(first, k) \in Nat
      <4>1. k - 1 \in Nat /\ SECTOR_BLOCK \in Nat
        BY <2>2, DiscMapAssumption
      <4>2. (k - 1) * SECTOR_BLOCK \in Nat
        BY <4>1
      <4> QED
        BY <4>2 DEF BlockStart
    <3> QED
      BY <3>1, <3>2 DEF AudioBlock
  <2>4. more = [k \in 1..n |-> [start |-> BlockStart(first, k), content |-> blocks[k]]]
    BY <2>2
  <2>5. more \in Seq(AudioBlock)
    BY <2>2, <2>3, <2>4
  <2>6. \A k \in DOMAIN more : Len(more[k].content) \in 1..SECTOR_BLOCK
    BY <2>1, <2>2, <2>4
  <2> QED
    BY <2>5, <2>6
<1>5. /\ << >> \in Seq(Seq(UserUnits)) /\ << >> \in Seq(AudioBlock)
      /\ \A k \in DOMAIN << >> : FALSE
  OBVIOUS
<1> HIDE DEF more, blocks
<1>6. CASE IsData(run.type)
  BY <1>1, <1>5, <1>6 DEF MoreLayout, MoreAudio
<1>7. CASE ~IsData(run.type)
  BY <1>4, <1>5, <1>7 DEF MoreLayout, MoreAudio, more, blocks
<1> QED
  BY <1>6, <1>7

LEMMA ConcatAudio ==
  ASSUME NEW s \in Seq(AudioBlock), NEW t \in Seq(AudioBlock), NEW n,
         \A k \in DOMAIN s : Len(s[k].content) \in 1..n,
         \A k \in DOMAIN t : Len(t[k].content) \in 1..n
  PROVE  s \o t \in Seq(AudioBlock) /\ \A k \in DOMAIN (s \o t) : Len((s \o t)[k].content) \in 1..n
<1> DEFINE a == Len(s)
           b == Len(t)
           u == s \o t
<1>1. /\ a \in Nat /\ b \in Nat /\ u \in Seq(AudioBlock) /\ Len(u) = a + b
      /\ \A k \in 1..(a + b) : u[k] = IF k <= a THEN s[k] ELSE t[k - a]
  BY ConcatProperties
<1>2. DOMAIN s = 1..a /\ DOMAIN t = 1..b
  OBVIOUS
<1>3. DOMAIN u = 1..(a + b)
  BY <1>1
<1> HIDE DEF a, b, u
<1>4. \A k \in 1..(a + b) : (k <= a /\ k \in 1..a) \/ (~(k <= a) /\ k - a \in 1..b)
  BY <1>1
<1>5. \A k \in DOMAIN u : Len(u[k].content) \in 1..n
  BY <1>1, <1>2, <1>3, <1>4
<1> QED
  BY <1>1, <1>5 DEF u

LEMMA RunChunkedIs ==
  ASSUME Inv, NEW w \in Worker, ChunkRun(w)
  PROVE  /\ job' = [job EXCEPT ![w] = RunChunked(w)] /\ UNCHANGED <<disc, subheaders, exceptions>>
         /\ job[w].pc = "chunk" /\ job[w].at < Total(w)
<1>1. job[w].layout \in Seq(Seq(UserUnits)) /\ job[w].audio_map \in Seq(AudioBlock)
  BY DEF Inv, Typed, Jobs
<1>2. job[w].layout \o << >> = job[w].layout /\ job[w].audio_map \o << >> = job[w].audio_map
  BY <1>1, ConcatEmptySeq
<1> QED
  BY <1>2 DEF ChunkRun, RunChunked, MoreLayout, MoreAudio, Blocks

LEMMA InvChunkRun ==
  ASSUME Inv, NEW w \in Worker, ChunkRun(w)
  PROVE  Inv'
<1>1. job \in [Worker -> Jobs] /\ job[w] \in Jobs /\ WorkerInv(w) /\ disc \in Batches
  BY DEF Inv, Typed, WorkerInv
<1>2. /\ job' = [job EXCEPT ![w] = RunChunked(w)] /\ UNCHANGED <<disc, subheaders, exceptions>>
      /\ job[w].pc = "chunk" /\ job[w].at < Total(w)
  BY RunChunkedIs
<1> DEFINE run == Runs(w)[RunAt(w)]
           first == job[w].at
           layout == job[w].layout \o MoreLayout(w, first, run)
           audio == job[w].audio_map \o MoreAudio(w, first, run)
           new == RunChunked(w)
<1>3. /\ Runs(w) \in Seq(RunRecords) /\ RunAt(w) \in 1..Len(Runs(w))
      /\ Place(Runs(w), RunAt(w) + 1) = first + run.count /\ first + run.count <= Total(w)
  BY <1>2, RunAtIs
<1>4. first \in Nat /\ run \in RunRecords /\ run.count \in Nat /\ first + run.count \in Nat
      /\ RunAt(w) + 1 \in 1..(Len(Runs(w)) + 1)
  <2>1. run \in RunRecords /\ run.count \in Nat /\ Len(Runs(w)) \in Nat
    BY <1>3, CountsAre
  <2>2. first \in Nat
    BY <1>1 DEF Jobs
  <2> QED
    BY <1>3, <2>1, <2>2
<1>5. /\ layout \in Seq(Seq(UserUnits)) /\ \A k \in DOMAIN layout : Len(layout[k]) \in 1..CHUNK
      /\ audio \in Seq(AudioBlock) /\ \A k \in DOMAIN audio : Len(audio[k].content) \in 1..SECTOR_BLOCK
  <2>1. /\ job[w].layout \in Seq(Seq(UserUnits)) /\ job[w].audio_map \in Seq(AudioBlock)
        /\ \A k \in DOMAIN job[w].layout : Len(job[w].layout[k]) \in 1..CHUNK
        /\ \A k \in DOMAIN job[w].audio_map : Len(job[w].audio_map[k].content) \in 1..SECTOR_BLOCK
    BY <1>1 DEF Jobs, WorkerInv, InBounds
  <2> HIDE DEF run, first
  <2>2. /\ MoreLayout(w, first, run) \in Seq(Seq(UserUnits))
        /\ \A k \in DOMAIN MoreLayout(w, first, run) : Len(MoreLayout(w, first, run)[k]) \in 1..CHUNK
        /\ MoreAudio(w, first, run) \in Seq(AudioBlock)
        /\ \A k \in DOMAIN MoreAudio(w, first, run) :
             Len(MoreAudio(w, first, run)[k].content) \in 1..SECTOR_BLOCK
    BY <1>1, <1>3, <1>4, MoreAre
  <2> QED
    BY <2>1, <2>2, ConcatAll, ConcatAudio
<1>6. /\ new \in Jobs /\ new.pc = job[w].pc /\ new.types = job[w].types /\ new.lba_map = job[w].lba_map
      /\ new.run = job[w].run /\ new.subheader_index = job[w].subheader_index
      /\ new.exception_index = job[w].exception_index /\ new.at = first + run.count
      /\ new.layout = layout /\ new.audio_map = audio
  <2>1. new = [job[w] EXCEPT !.at = first + run.count, !.layout = layout, !.audio_map = audio]
    BY <1>1 DEF RunChunked, Jobs
  <2> HIDE DEF new, run, first, layout, audio
  <2> QED
    BY <1>1, <1>4, <1>5, <2>1 DEF Jobs
<1> HIDE DEF new, run, first, layout, audio
<1>7. job'[w] = new
  BY <1>1, <1>2, <1>6, JobChange DEF new
<1>8. /\ Total(w)' = Total(w) /\ Normalized(w)' = Normalized(w) /\ NoIndex01(w)' = NoIndex01(w)
      /\ \A k : Raw(w, k)' = Raw(w, k) /\ Final(w, k)' = Final(w, k)
  BY <1>2, DiscKept
<1>9. MappedCount(w) = Total(w) /\ MappedCount(w)' = Total(w)
  BY <1>2, <1>6, <1>7, <1>8 DEF MappedCount
<1>10. InBounds(w)'
  BY <1>1, <1>3, <1>5, <1>6, <1>7, <1>8 DEF InBounds, WorkerInv
<1>11. PlaceInv(w)'
  <2>1. Runs(w)' = Runs(w)
    BY <1>6, <1>7 DEF Runs
  <2>2. \E r \in 1..(Len(Runs(w)) + 1) : first + run.count = Place(Runs(w), r)
    BY <1>3, <1>4
  <2>3. \A k : Known(Raw(w, k))' = Known(Raw(w, k))
    BY <1>8 DEF Known
  <2>4. /\ ~NoIndex01(w) /\ Len(job[w].types) = Total(w) /\ job[w].run = << >>
        /\ \A i \in 0..(Total(w) - 1) :
             job[w].types[i + 1] = IF Final(w, i) = "None" THEN "PregapAudio" ELSE Final(w, i)
        /\ \A i \in 0..(Total(w) - 1) : IsData(Coarse(Normalized(w), i)) => Known(Raw(w, i))
    BY <1>1, <1>2, <1>9 DEF WorkerInv, PlaceInv, AfterMapping
  <2> QED
    BY <1>2, <1>6, <1>7, <1>8, <1>9, <2>1, <2>2, <2>3, <2>4 DEF PlaceInv, AfterMapping
<1>12. MapInv(w)'
  <2>1. Entries(w)' = Entries(w) /\ MappedData(w)' = MappedData(w)
    BY <1>6, <1>7, <1>9 DEF Entries, MappedData
  <2> QED
    BY <1>2, <1>6, <1>7, <2>1, MapKept
<1>13. WorkerInv(w)'
  BY <1>10, <1>11, <1>12 DEF WorkerInv
<1> QED
  BY <1>2, <1>6, <1>13, QuietStep DEF new

(* Steps behind the cutting. *)
LEMMA InvEnd ==
  ASSUME Inv, NEW w \in Worker, job[w].pc \in {"chunk", "chunked"},
         NEW next \in {"chunked", "verified"},
         NEW verdict \in {"none", "ok", "HashMismatch", "Reconstruction", "panic"},
         job' = [job EXCEPT ![w] = [@ EXCEPT !.pc = next, !.verdict = verdict]],
         UNCHANGED <<disc, subheaders, exceptions>>
  PROVE  Inv'
<1> DEFINE new == [job[w] EXCEPT !.pc = next, !.verdict = verdict]
<1>1. job \in [Worker -> Jobs] /\ job[w] \in Jobs /\ WorkerInv(w)
  BY DEF Inv, Typed, WorkerInv
<1>2. job' = [job EXCEPT ![w] = new]
  OBVIOUS
<1>3. /\ new \in Jobs /\ new.pc = next /\ new.types = job[w].types /\ new.lba_map = job[w].lba_map
      /\ new.run = job[w].run /\ new.subheader_index = job[w].subheader_index
      /\ new.exception_index = job[w].exception_index /\ new.at = job[w].at
      /\ new.layout = job[w].layout /\ new.audio_map = job[w].audio_map
  BY <1>1 DEF Jobs
<1> HIDE DEF new
<1>4. job'[w] = new
  BY <1>1, <1>2, <1>3, JobChange
<1>5. /\ Total(w)' = Total(w) /\ Normalized(w)' = Normalized(w) /\ NoIndex01(w)' = NoIndex01(w)
      /\ \A k : Raw(w, k)' = Raw(w, k) /\ Final(w, k)' = Final(w, k)
  BY DiscKept
<1>6. MappedCount(w) = Total(w) /\ MappedCount(w)' = Total(w)
  BY <1>3, <1>4, <1>5 DEF MappedCount
<1>7. InBounds(w)'
  BY <1>1, <1>3, <1>4, <1>5 DEF InBounds, WorkerInv
<1>8. PlaceInv(w)'
  <2>3. \A k : Known(Raw(w, k))' = Known(Raw(w, k))
    BY <1>5 DEF Known
  <2>4. /\ ~NoIndex01(w) /\ Len(job[w].types) = Total(w) /\ job[w].run = << >>
        /\ \A i \in 0..(Total(w) - 1) :
             job[w].types[i + 1] = IF Final(w, i) = "None" THEN "PregapAudio" ELSE Final(w, i)
        /\ \A i \in 0..(Total(w) - 1) : IsData(Coarse(Normalized(w), i)) => Known(Raw(w, i))
    BY <1>1, <1>6 DEF WorkerInv, PlaceInv, AfterMapping
  <2> QED
    BY <1>3, <1>4, <1>5, <1>6, <2>3, <2>4 DEF PlaceInv, AfterMapping
<1>9. MapInv(w)'
  <2>1. Entries(w)' = Entries(w) /\ MappedData(w)' = MappedData(w)
    BY <1>3, <1>4, <1>6 DEF Entries, MappedData
  <2> QED
    BY <1>3, <1>4, <2>1, MapKept
<1>10. WorkerInv(w)'
  BY <1>7, <1>8, <1>9 DEF WorkerInv
<1> QED
  BY <1>2, <1>3, <1>10, QuietStep

LEMMA InvStay ==
  ASSUME Inv, UNCHANGED vars
  PROVE  Inv'
<1>1. /\ Extends(subheaders, subheaders') /\ Extends(exceptions, exceptions')
      /\ disc' = disc /\ \A v \in Worker : job'[v] = job[v]
  BY DEF vars, Extends
<1>2. ASSUME NEW v \in Worker PROVE WorkerInv(v)'
  BY <1>1, OtherKept
<1>3. Typed'
  BY DEF Inv, Typed, vars
<1> QED
  BY <1>2, <1>3 DEF Inv, WorkerInv

LEMMA InvInit ==
  ASSUME Init
  PROVE  Inv
<1>1. /\ << >> \in Seq(SectorType) /\ << >> \in Seq(Nat \X Nat) /\ << >> \in Seq(Runners)
      /\ << >> \in Seq(Seq(UserUnits)) /\ << >> \in Seq(AudioBlock)
      /\ << >> \in Seq(StoredUnits) /\ << >> \in Seq(Damage)
  OBVIOUS
<1>2. NewJob \in Jobs
  BY <1>1 DEF NewJob, Jobs
<1>3. Typed
  BY <1>1, <1>2 DEF Init, Typed
<1>4. ASSUME NEW w \in Worker PROVE InBounds(w) /\ PlaceInv(w) /\ MapInv(w)
  <2>1. job[w] = NewJob /\ disc \in Batches /\ Total(w) \in Nat
    BY DiscIs DEF Init
  <2>2. /\ job[w].pc = "open" /\ job[w].lba_map = << >> /\ job[w].run = << >> /\ job[w].subheader_index = << >>
        /\ job[w].exception_index = << >> /\ job[w].at = 0 /\ job[w].layout = << >> /\ job[w].audio_map = << >>
    BY <2>1 DEF NewJob
  <2>3. DOMAIN << >> = {} /\ Len(<< >>) = 0 /\ \A i \in 0..(0 - 1) : FALSE
    OBVIOUS
  <2>4. InBounds(w)
    BY <2>1, <2>2, <2>3 DEF InBounds
  <2>5. MappedCount(w) = 0 /\ MappedData(w) = {}
    BY <2>2, <2>3 DEF MappedCount, MappedData
  <2>6. PlaceInv(w)
    BY <2>1, <2>2, <2>3, <2>5 DEF PlaceInv, AfterMapping
  <2>7. Entries(w) = << >>
    BY <1>1, <2>2, ConcatEmptySeq DEF Entries
  <2>8. MapInv(w)
    BY <2>2, <2>3, <2>5, <2>7 DEF MapInv, EntriesOk, DamageOk, TableOk
  <2> QED
    BY <2>4, <2>6, <2>8
<1> QED
  BY <1>3, <1>4 DEF Inv

LEMMA InvNext ==
  ASSUME Inv, [Next]_vars
  PROVE  Inv'
<1>1. CASE UNCHANGED vars
  BY <1>1, InvStay
<1>2. ASSUME NEW w \in Worker, WorkerStep(w) PROVE Inv'
  <2>0. job[w] \in Jobs
    BY DEF Inv, Typed
  <2>1. CASE Refuse(w)
    BY <2>1, InvFail DEF Refuse
  <2>2. CASE Open(w)
    BY <2>2, InvOpen
  <2>3. CASE MapSector(w)
    BY <2>3, InvMapSector
  <2>4. CASE UnknownMode(w)
    BY <2>4, InvFail DEF UnknownMode
  <2>5. CASE Mapped(w)
    BY <2>5, InvMapped
  <2>6. CASE ChunkRun(w)
    BY <2>6, InvChunkRun
  <2>7. CASE Chunked(w)
    <3>1. job[w].verdict \in {"none", "ok", "HashMismatch", "Reconstruction", "panic"}
      BY <2>0 DEF Jobs
    <3>2. [job[w] EXCEPT !.pc = "chunked"] = [job[w] EXCEPT !.pc = "chunked", !.verdict = job[w].verdict]
      BY <2>0 DEF Jobs
    <3>3. job' = [job EXCEPT ![w] = [@ EXCEPT !.pc = "chunked", !.verdict = job[w].verdict]]
      BY <2>7, <3>2 DEF Chunked
    <3> QED
      BY <2>7, <3>1, <3>3, InvEnd DEF Chunked
  <2>8. CASE Verify(w)
    <3>1. Verdict(w) \in {"none", "ok", "HashMismatch", "Reconstruction", "panic"}
      BY DEF Verdict
    <3> DEFINE verdict == Verdict(w)
    <3>2. /\ job' = [job EXCEPT ![w] = [@ EXCEPT !.pc = "verified", !.verdict = verdict]]
          /\ UNCHANGED <<disc, subheaders, exceptions>> /\ job[w].pc = "chunked"
      BY <2>8 DEF Verify
    <3> HIDE DEF verdict
    <3> QED
      BY <3>1, <3>2, InvEnd DEF verdict
  <2> QED
    BY <1>2, <2>1, <2>2, <2>3, <2>4, <2>5, <2>6, <2>7, <2>8 DEF WorkerStep
<1> QED
  BY <1>1, <1>2 DEF Next, Done

(* The invariant holds for any number of workers with any discs. *)
THEOREM Invariant == Spec => []Inv
<1>1. Init => Inv
  BY InvInit
<1>2. Inv /\ [Next]_vars => Inv'
  BY InvNext
<1> QED
  BY <1>1, <1>2, PTL DEF Spec

-----------------------------------------------------------------------------
(* What it says of the code. *)
LEMMA InvTypes ==
  ASSUME Inv
  PROVE  TypeOK
<1>1. ASSUME NEW w \in Worker
      PROVE  /\ job[w].at \in 0..Total(w)
             /\ job[w] \in Jobs /\ InBounds(w)
  <2>1. job[w] \in Jobs /\ InBounds(w) /\ disc \in Batches
    BY DEF Inv, Typed
  <2>2. job[w].at \in Nat /\ Total(w) \in Nat /\ job[w].at <= Total(w)
    BY <2>1, DiscIs DEF Jobs, InBounds
  <2> QED
    BY <2>1, <2>2
<1> QED
  BY <1>1 DEF TypeOK, Inv, Typed, Jobs, InBounds

LEMMA InvIds ==
  ASSUME Inv
  PROVE  IdsNameTheirBytes
<1> SUFFICES ASSUME NEW w \in Worker
             PROVE /\ \A k \in DOMAIN Entries(w) :
                        \A i \in 0..(Total(w) - 1) : Covers(Entries(w)[k], i) =>
                           /\ i \in MappedData(w)
                           /\ subheaders[Entries(w)[k].data_id] = Metadata(Raw(w, i), job[w].types[i + 1])
                           /\ \A l \in DOMAIN Entries(w) : Covers(Entries(w)[l], i) => l = k
                   /\ \A i \in MappedData(w) : \E k \in DOMAIN Entries(w) : Covers(Entries(w)[k], i)
                   /\ \A k \in DOMAIN job[w].exception_index :
                        LET e == job[w].exception_index[k]
                        IN << exceptions[e[2]] >> = ExceptionOf(Raw(w, e[1]), job[w].types[e[1] + 1])
  BY DEF IdsNameTheirBytes
<1>1. job[w] \in Jobs /\ MapInv(w) /\ disc \in Batches
  BY DEF Inv, Typed
<1>2. Entries(w) \in Seq(Runners) /\ Total(w) \in Nat
  BY <1>1, ConcatProperties, DiscIs DEF Entries, Jobs
<1> DEFINE E == Entries(w)
<1>3. \A k \in DOMAIN E : /\ k \in Nat /\ E[k].start_lba \in Nat /\ E[k].count \in Nat
  <2>1. \A k \in DOMAIN E : k \in Nat /\ E[k] \in Runners
    BY <1>2
  <2> QED
    BY <2>1 DEF Runners
<1> HIDE DEF E
<1>4. ASSUME NEW k \in DOMAIN E, NEW i \in 0..(Total(w) - 1), Covers(E[k], i)
      PROVE  /\ i \in MappedData(w)
             /\ subheaders[E[k].data_id] = Metadata(Raw(w, i), job[w].types[i + 1])
             /\ \A l \in DOMAIN E : Covers(E[l], i) => l = k
  <2>1. i \in Nat
    BY <1>2
  <2>2. i \in MappedData(w) /\ subheaders[E[k].data_id] = Metadata(Raw(w, i), job[w].types[i + 1])
    BY <1>1, <1>4, <2>1 DEF MapInv, EntriesOk, E, Raw
  <2>3. ASSUME NEW l \in DOMAIN E, Covers(E[l], i), l # k PROVE FALSE
    <3>1. k < l \/ l < k
      BY <1>3, <2>3
    <3>2. k < l => E[k].start_lba + E[k].count <= E[l].start_lba
      BY <1>1 DEF MapInv, EntriesOk, E
    <3>3. l < k => E[l].start_lba + E[l].count <= E[k].start_lba
      BY <1>1 DEF MapInv, EntriesOk, E
    <3>4. /\ E[k].start_lba <= i /\ i < E[k].start_lba + E[k].count
          /\ E[l].start_lba <= i /\ i < E[l].start_lba + E[l].count
      BY <1>4, <2>3 DEF Covers
    <3>5. /\ E[k].start_lba \in Nat /\ E[k].count \in Nat
          /\ E[l].start_lba \in Nat /\ E[l].count \in Nat
      BY <1>3
    <3> QED
      BY <2>1, <3>1, <3>2, <3>3, <3>4, <3>5
  <2> QED
    BY <2>2, <2>3
<1>5. \A i \in MappedData(w) : \E k \in DOMAIN E : Covers(E[k], i)
  BY <1>1 DEF MapInv, EntriesOk, E
<1>6. \A k \in DOMAIN job[w].exception_index :
        LET e == job[w].exception_index[k]
        IN << exceptions[e[2]] >> = ExceptionOf(Raw(w, e[1]), job[w].types[e[1] + 1])
  BY <1>1 DEF MapInv, DamageOk, Raw
<1> QED
  BY <1>4, <1>5, <1>6 DEF E

LEMMA InvTable ==
  ASSUME Inv
  PROVE  TableGivesAddress
<1> SUFFICES ASSUME NEW w \in Worker, NEW i \in MappedData(w), Raw(w, i).addr >= i
             PROVE  LET table == job[w].lba_map
                        upto == {k \in DOMAIN table : table[k][1] <= i}
                    IN upto # {} /\ i + table[Max(upto)][2] = Raw(w, i).addr
  BY DEF TableGivesAddress
<1> DEFINE table == job[w].lba_map
           upto == {k \in DOMAIN table : table[k][1] <= i}
<1>1. table \in Seq(Nat \X Nat) /\ MapInv(w)
  BY DEF Inv, Typed, Jobs
<1>2. PICK k \in DOMAIN table : /\ table[k][1] <= i /\ i + table[k][2] = Raw(w, i).addr
                                /\ \A l \in DOMAIN table : table[l][1] <= i => l <= k
  BY <1>1 DEF MapInv, TableOk, Raw
<1>3. upto \subseteq Nat /\ k \in upto /\ \A l \in upto : l <= k
  <2>1. DOMAIN table \subseteq Nat
    BY <1>1
  <2> QED
    BY <1>2, <2>1
<1>4. Max(upto) = k
  <2> HIDE DEF upto
  <2> QED
    BY <1>3, MaxIs
<1> QED
  BY <1>2, <1>3, <1>4

(* The types of what the workers hold, and their bounds. *)
THEOREM DiscTypes == Spec => []TypeOK
BY Invariant, InvTypes, PTL

(* However the workers' entries into the shared registries interleave, the  *)
(* ids in a manifest name the bytes of the sectors they stand for.          *)
THEOREM IdsTrue == Spec => []IdsNameTheirBytes
BY Invariant, InvIds, PTL

(* And the table of addresses gives the address each header had. *)
THEOREM AddressesTrue == Spec => []TableGivesAddress
BY Invariant, InvTable, PTL

(* Both, with the types: what the run checks. *)
THEOREM DiscMapSafe == Spec => []Safe
<1>1. Inv => Safe
  BY InvTypes, InvIds, InvTable DEF Safe
<1> QED
  BY <1>1, Invariant, PTL

-----------------------------------------------------------------------------
(* Pieces put together again, and the piece an element is in. *)
LEMMA PiecesJoined ==
  ASSUME NEW S, NEW s \in Seq(S), NEW n \in Nat \ {0}
  PROVE  FlattenSeq(Pieces(s, n)) = s
<1> DEFINE l == Len(s)
           q == (l + n - 1) \div n
           end == [k \in 0..q |-> IF k * n < l THEN k * n ELSE l]
           parts == Pieces(s, n)
<1>1. /\ l \in Nat /\ q \in Nat /\ q * n >= l
      /\ \A k \in 1..q : (k - 1) * n \in Nat /\ k * n \in Nat /\ (k - 1) * n < l
  <2>1. l \in Nat
    OBVIOUS
  <2> HIDE DEF l
  <2> QED
    BY <2>1, PieceCount
<1>2. parts = [k \in 1..q |-> SubSeq(s, (k - 1) * n + 1, IF k * n < l THEN k * n ELSE l)]
  BY DEF Pieces
<1> HIDE DEF l, q, parts
<1>3. Listed(parts, q)
  BY <1>1, <1>2 DEF Listed
<1>4. ASSUME NEW j \in 1..q
      PROVE  /\ end[j] \in Nat /\ end[j - 1] <= end[j] /\ end[j] <= l
             /\ parts[j] = SubSeq(s, end[j - 1] + 1, end[j])
  <2> DEFINE a == (j - 1) * n
             b == j * n
  <2>1. a \in Nat /\ b \in Nat /\ a < l
    BY <1>1
  <2>2. b = a + n
    BY <1>1
  <2>3. j \in 0..q /\ j - 1 \in 0..q
    BY <1>1
  <2>4. end[j] = (IF b < l THEN b ELSE l) /\ end[j - 1] = (IF a < l THEN a ELSE l)
    BY <2>3
  <2>5. parts[j] = SubSeq(s, a + 1, IF b < l THEN b ELSE l)
    BY <1>2
  <2> HIDE DEF a, b, end
  <2> QED
    BY <1>1, <2>1, <2>2, <2>4, <2>5
<1>5. end[0] = 0 /\ end[q] = l
  <2>1. 0 \in 0..q /\ q \in 0..q /\ 0 * n = 0
    BY <1>1
  <2> QED
    BY <1>1, <2>1
<1> HIDE DEF end
<1>6. GoesOn(parts, s, 0, end)
  BY <1>3, <1>4, <1>5 DEF GoesOn, Listed, l
<1>7. FlattenSeq(parts) = SubSeq(s, 0 + 1, end[q])
  <2>1. 0 <= Len(s) /\ 0 \in Nat
    BY <1>1 DEF l
  <2> QED
    BY <1>1, <1>3, <1>6, <2>1, PartsJoined
<1>8. SubSeq(s, 1, Len(s)) = s
  BY SubSeqFull
<1> QED
  BY <1>5, <1>7, <1>8 DEF parts, l

LEMMA PieceHolds ==
  ASSUME NEW S, NEW s \in Seq(S), NEW n \in Nat \ {0}
  PROVE  PiecesHold(Pieces(s, n), s, n, Len(s))
<1> DEFINE l == Len(s)
           q == (l + n - 1) \div n
           parts == Pieces(s, n)
<1>1. /\ l \in Nat /\ q \in Nat /\ q * n >= l
      /\ \A k \in 1..q : (k - 1) * n \in Nat /\ k * n \in Nat /\ (k - 1) * n < l
  <2>1. l \in Nat
    OBVIOUS
  <2> HIDE DEF l
  <2> QED
    BY <2>1, PieceCount
<1>2. parts = [k \in 1..q |-> SubSeq(s, (k - 1) * n + 1, IF k * n < l THEN k * n ELSE l)]
  BY DEF Pieces
<1> DEFINE Holds(k, a, b) ==
             /\ a \in Nat /\ a + Len(parts[k]) <= l
             /\ \A j \in 1..Len(parts[k]) : parts[k][j] = s[a + j]
             /\ \A p \in 0..(l - 1) : a <= p /\ p < b => p < a + Len(parts[k])
<1> HIDE DEF q, parts, Holds
<1>3. ASSUME NEW k \in 1..q PROVE Holds(k, (k - 1) * n, k * n)
  <2> DEFINE a == (k - 1) * n
             b == k * n
             c == IF b < l THEN b ELSE l
             m == c - a
  <2>1. a \in Nat /\ b \in Nat /\ a < l
    BY <1>1
  <2>2. b = a + n
    BY <1>1
  <2>3. parts[k] = SubSeq(s, a + 1, c)
    BY <1>2
  <2> HIDE DEF a, b, l
  <2>4. m \in Nat /\ a + m = c /\ a + m <= l /\ \A p \in 0..(l - 1) : a <= p /\ p < b => p < a + m
    BY <1>1, <2>1, <2>2
  <2> HIDE DEF c, m
  <2>5. /\ Len(SubSeq(s, a + 1, a + m)) = m
        /\ \A i \in 1..m : SubSeq(s, a + 1, a + m)[i] = s[a + i]
    <3>1. s \in Seq(S) /\ a \in Nat /\ m \in Nat /\ a + m <= Len(s)
      BY <2>1, <2>4 DEF l
    <3> QED
      BY <3>1, PartIs, SMTT(60)
  <2>6. Len(parts[k]) = m /\ \A i \in 1..m : parts[k][i] = s[a + i]
    BY <2>3, <2>4, <2>5
  <2>7. Holds(k, a, b)
    BY <2>1, <2>4, <2>6 DEF Holds
  <2> QED
    BY <2>7 DEF a, b
<1>4. ASSUME NEW p \in 0..(l - 1) PROVE \E k \in 1..q : (k - 1) * n <= p /\ p < k * n
  <2> DEFINE T == {k \in Nat : p < k * n}
  <2>1. q \in T
    BY <1>1
  <2> HIDE DEF T
  <2>2. PICK k \in T : \A m \in T : k <= m
    <3>1. T \subseteq Nat
      BY DEF T
    <3> QED
      BY <2>1, <3>1, LeastOf
  <2>3. k \in Nat /\ p < k * n /\ k <= q
    BY <2>1, <2>2 DEF T
  <2>4. k # 0
    <3>1. 0 * n = 0
      OBVIOUS
    <3> QED
      BY <1>1, <2>3, <3>1
  <2>5. k - 1 \in Nat /\ k - 1 \notin T
    BY <2>2, <2>3, <2>4
  <2> DEFINE a == (k - 1) * n
  <2>6. ~(p < a)
    BY <2>5 DEF T
  <2>7. k \in 1..q
    BY <2>3, <2>4, <1>1
  <2>8. a \in Nat
    BY <1>1, <2>7
  <2> HIDE DEF a
  <2>9. a <= p
    BY <1>1, <2>6, <2>8
  <2> QED
    BY <2>3, <2>7, <2>9 DEF a
<1>5. DOMAIN parts = 1..q
  BY <1>2
<1>6. ASSUME NEW p \in 0..(l - 1)
      PROVE  \E k \in DOMAIN parts : (k - 1) * n <= p /\ p < (k - 1) * n + Len(parts[k])
  <2>1. PICK k \in 1..q : (k - 1) * n <= p /\ p < k * n
    BY <1>4
  <2>2. p < (k - 1) * n + Len(parts[k])
    BY <1>3, <2>1 DEF Holds
  <2> QED
    BY <1>5, <2>1, <2>2
<1> QED
  BY <1>3, <1>5, <1>6 DEF parts, l, Holds, PiecesHold

-----------------------------------------------------------------------------
(* The runs of a map say what the map says. *)

LEMMA ExpandedIs ==
  ASSUME NEW runs \in Seq(RunRecords)
  PROVE  /\ [r \in DOMAIN runs |-> Repeated(runs[r])] \in Seq(Seq(SectorType))
         /\ expand_sector_map(runs) = FlattenSeq([r \in DOMAIN runs |-> Repeated(runs[r])])
         /\ expand_sector_map(runs) \in Seq(SectorType)
<1>1. Len(runs) \in Nat /\ DOMAIN runs = 1..Len(runs) /\ \A r \in 1..Len(runs) : runs[r] \in RunRecords
  OBVIOUS
<1>2. ASSUME NEW e \in RunRecords PROVE Repeated(e) \in Seq(SectorType)
  <2> DEFINE c == e.count
             t == e.type
  <2>1. c \in Nat /\ t \in SectorType /\ Repeated(e) = [k \in 1..c |-> t]
    BY DEF RunRecords, Repeated
  <2> HIDE DEF c, t
  <2> QED
    BY <2>1
<1> DEFINE parts == [r \in DOMAIN runs |-> Repeated(runs[r])]
<1>3. parts \in Seq(Seq(SectorType))
  BY <1>1, <1>2
<1>4. expand_sector_map(runs) = FlattenSeq(parts)
  BY DEF expand_sector_map, Repeated
<1> HIDE DEF parts
<1>5. FlattenSeq(parts) \in Seq(SectorType)
  BY <1>3, FlattenType
<1> QED
  BY <1>3, <1>4, <1>5 DEF parts

LEMMA ExpandedAppend ==
  ASSUME NEW runs \in Seq(RunRecords), NEW e \in RunRecords
  PROVE  expand_sector_map(Append(runs, e)) = expand_sector_map(runs) \o Repeated(e)
<1> DEFINE more == Append(runs, e)
           parts == [r \in DOMAIN runs |-> Repeated(runs[r])]
           new == [r \in DOMAIN more |-> Repeated(more[r])]
           n == Len(runs)
<1>1. n \in Nat /\ DOMAIN runs = 1..n
  OBVIOUS
<1>2. /\ more \in Seq(RunRecords) /\ Len(more) = n + 1
      /\ \A r \in 1..n : more[r] = runs[r]
      /\ more[n + 1] = e
  BY AppendProperties
<1>3. /\ parts \in Seq(Seq(SectorType)) /\ expand_sector_map(runs) = FlattenSeq(parts)
      /\ new \in Seq(Seq(SectorType)) /\ expand_sector_map(more) = FlattenSeq(new)
  BY <1>2, ExpandedIs
<1>4. DOMAIN more = 1..(n + 1)
  BY <1>2
<1> HIDE DEF more
<1>5. Len(parts) = n /\ Len(new) = n + 1
  BY <1>1, <1>4
<1>6. Repeated(e) \in Seq(SectorType)
  <2>1. n + 1 \in 1..(n + 1)
    BY <1>1
  <2>2. new[n + 1] = Repeated(e)
    BY <1>2, <1>4, <2>1
  <2>3. new[n + 1] \in Seq(SectorType)
    BY <1>3, <1>5, <2>1, ElementOfSeq
  <2> QED
    BY <2>2, <2>3
<1>7. \A r \in 1..n : parts[r] = Repeated(runs[r])
  BY <1>1
<1>8. \A r \in 1..(n + 1) : new[r] = Repeated(more[r])
  BY <1>4
<1> HIDE DEF parts, new, n
<1>9. new = Append(parts, Repeated(e))
  <2> DEFINE p == Append(parts, Repeated(e))
  <2>1. /\ p \in Seq(Seq(SectorType)) /\ Len(p) = n + 1
        /\ \A r \in 1..n : p[r] = parts[r]
        /\ p[n + 1] = Repeated(e)
    BY <1>3, <1>5, <1>6, AppendProperties
  <2> HIDE DEF p
  <2>2. \A r \in 1..(n + 1) : r \in 1..n \/ r = n + 1
    BY <1>1
  <2>3. \A r \in 1..(n + 1) : p[r] = new[r]
    BY <1>2, <1>7, <1>8, <2>1, <2>2
  <2>4. p = new
    BY <1>3, <1>5, <2>1, <2>3, SeqEqual
  <2> QED
    BY <2>4 DEF p
<1> QED
  BY <1>3, <1>6, <1>9, FlattenAppend DEF more

LEMMA ExpandedMore ==
  ASSUME NEW runs \in Seq(RunRecords), NEW t \in SectorType
  PROVE  expand_sector_map(OneMore(runs, t)) = Append(expand_sector_map(runs), t)
<1>1. expand_sector_map(runs) \in Seq(SectorType) /\ <<t>> \in Seq(SectorType)
  <2>1. expand_sector_map(runs) \in Seq(SectorType)
    BY ExpandedIs
  <2>2. <<t>> \in Seq(SectorType)
    OBVIOUS
  <2> QED
    BY <2>1, <2>2
<1>2. Append(expand_sector_map(runs), t) = expand_sector_map(runs) \o <<t>>
  BY <1>1, AppendIsConcat
<1>3. CASE runs # << >> /\ Last(runs).type = t
  <2> DEFINE L == Len(runs)
             e == runs[L]
             more == [e EXCEPT !.count = @ + 1]
             front == SubSeq(runs, 1, L - 1)
  <2>1. L \in Nat \ {0} /\ Last(runs) = e
    BY <1>3, EmptySeq DEF Last
  <2>2. e \in RunRecords /\ more \in RunRecords /\ more.count = e.count + 1 /\ more.type = t /\ e.type = t
    <3>1. L \in 1..L
      BY <2>1
    <3>2. e \in RunRecords
      BY <3>1, ElementOfSeq
    <3> HIDE DEF e
    <3> QED
      BY <1>3, <2>1, <3>2 DEF RunRecords
  <2>3. front \in Seq(RunRecords) /\ Len(front) = L - 1 /\ \A r \in 1..(L - 1) : front[r] = runs[r]
    <3> DEFINE l == L - 1
    <3>1. l \in Nat /\ 0 + l <= Len(runs)
      BY <2>1
    <3> HIDE DEF l
    <3>2. /\ SubSeq(runs, 0 + 1, 0 + l) \in Seq(RunRecords) /\ Len(SubSeq(runs, 0 + 1, 0 + l)) = l
          /\ \A i \in 1..l : SubSeq(runs, 0 + 1, 0 + l)[i] = runs[0 + i]
      BY <3>1, PartIs
    <3>3. /\ SubSeq(runs, 1, l) \in Seq(RunRecords) /\ Len(SubSeq(runs, 1, l)) = l
          /\ \A i \in 1..l : SubSeq(runs, 1, l)[i] = runs[i]
      BY <3>1, <3>2
    <3> QED
      BY <3>3 DEF l
  <2>4. OneMore(runs, t) = [runs EXCEPT ![L] = more]
    BY <1>3 DEF OneMore
  <2>5. \A r \in 1..L : r \in 1..(L - 1) \/ r = L
    BY <2>1
  <2>6. (L - 1) + 1 = L /\ L \in 1..L /\ \A r \in 1..(L - 1) : r # L /\ r \in 1..L
    BY <2>1
  <2>7. ASSUME NEW x \in RunRecords PROVE [runs EXCEPT ![L] = x] = Append(front, x)
    <3> HIDE DEF front, e, more
    <3> DEFINE p == [runs EXCEPT ![L] = x]
               q == Append(front, x)
    <3>0. L \in 1..L
      BY <2>6
    <3>1. /\ p \in Seq(RunRecords) /\ Len(p) = L
          /\ \A r \in 1..L : p[r] = IF r = L THEN x ELSE runs[r]
      BY <3>0, ExceptSeq
    <3> HIDE DEF L
    <3>2. /\ q \in Seq(RunRecords) /\ Len(q) = L
          /\ \A r \in 1..(L - 1) : q[r] = front[r]
          /\ q[L] = x
      BY <2>3, <2>6, AppendProperties
    <3> HIDE DEF p, q
    <3>3. \A r \in 1..L : p[r] = q[r]
      BY <2>3, <2>5, <2>6, <3>1, <3>2
    <3> QED
      BY <3>1, <3>2, <3>3, SeqEqual DEF p, q
  <2>8. runs = Append(front, e)
    <3>1. [runs EXCEPT ![L] = e] = runs
      OBVIOUS
    <3> QED
      BY <2>2, <2>7, <3>1
  <2>9. OneMore(runs, t) = Append(front, more)
    BY <2>2, <2>4, <2>7
  <2> HIDE DEF e, more, front, L
  <2>10. Repeated(more) = Append(Repeated(e), t) /\ Repeated(e) \in Seq(SectorType)
    <3> DEFINE c == e.count
    <3>1. c \in Nat /\ Repeated(e) = [k \in 1..c |-> t] /\ Repeated(more) = [k \in 1..(c + 1) |-> t]
      BY <2>2 DEF Repeated, RunRecords
    <3> HIDE DEF c
    <3>2. [k \in 1..c |-> t] \in Seq(SectorType) /\ [k \in 1..(c + 1) |-> t] = Append([k \in 1..c |-> t], t)
      BY <3>1
    <3> QED
      BY <3>1, <3>2
  <2>11. /\ expand_sector_map(runs) = expand_sector_map(front) \o Repeated(e)
         /\ expand_sector_map(OneMore(runs, t)) = expand_sector_map(front) \o Repeated(more)
    BY <2>2, <2>3, <2>8, <2>9, ExpandedAppend
  <2>12. Repeated(more) = Repeated(e) \o <<t>>
    BY <2>10, AppendIsConcat
  <2>13. expand_sector_map(front) \in Seq(SectorType)
    BY <2>3, ExpandedIs
  <2> QED
    BY <1>1, <1>2, <2>10, <2>11, <2>12, <2>13, JoinedThree
<1>4. CASE ~(runs # << >> /\ Last(runs).type = t)
  <2> DEFINE e == [count |-> 1, type |-> t]
  <2>1. e \in RunRecords /\ e.count = 1 /\ e.type = t /\ OneMore(runs, t) = Append(runs, e)
    BY <1>4 DEF RunRecords, OneMore
  <2> HIDE DEF e
  <2>2. Repeated(e) = <<t>>
    BY <2>1 DEF Repeated
  <2> QED
    BY <1>2, <2>1, <2>2, ExpandedAppend
<1> QED
  BY <1>3, <1>4

LEMMA RunsExpand ==
  ASSUME NEW types \in Seq(SectorType)
  PROVE  expand_sector_map(rle_encode_map(types)) = types
<1>1. Len(types) \in Nat /\ \A k \in 1..Len(types) : types[k] \in SectorType
  OBVIOUS
<1>2. PICK f \in [0..Len(types) -> Seq(RunRecords)] :
        /\ f[0] = << >> /\ rle_encode_map(types) = f[Len(types)]
        /\ \A k \in 1..Len(types) : f[k] = OneMore(f[k - 1], types[k])
  BY RleIs
<1> DEFINE Good == {k \in Nat : k <= Len(types) => expand_sector_map(f[k]) = SubSeq(types, 1, k)}
<1>3. 0 \in Good
  <2>1. [r \in DOMAIN << >> |-> Repeated(<< >>[r])] = << >> /\ << >> \in Seq(RunRecords)
    OBVIOUS
  <2>2. expand_sector_map(<< >>) = FlattenSeq([r \in DOMAIN << >> |-> Repeated(<< >>[r])])
    BY <2>1, ExpandedIs
  <2>3. SubSeq(types, 1, 0) = << >>
    BY SubSeqEmpty
  <2> QED
    BY <1>2, <2>1, <2>2, <2>3, FlattenEmpty
<1>4. ASSUME NEW k \in Nat, k \in Good PROVE k + 1 \in Good
  <2> SUFFICES ASSUME k + 1 <= Len(types)
               PROVE  expand_sector_map(f[k + 1]) = SubSeq(types, 1, k + 1)
    OBVIOUS
  <2>1. k + 1 \in 1..Len(types) /\ (k + 1) - 1 = k /\ k \in 0..Len(types)
    BY <1>1
  <2>2. f[k + 1] = OneMore(f[k], types[k + 1]) /\ f[k] \in Seq(RunRecords)
    BY <1>2, <2>1
  <2>3. expand_sector_map(f[k]) = SubSeq(types, 1, k)
    BY <1>4, <2>1
  <2>4. expand_sector_map(f[k + 1]) = Append(SubSeq(types, 1, k), types[k + 1])
    BY <1>1, <2>1, <2>2, <2>3, ExpandedMore
  <2>5. SubSeq(types, 1, k + 1) = SubSeq(types, 1, k) \o <<types[k + 1]>>
    <3>1. SubSeq(types, 1, k + 1) = SubSeq(types, 1, (k + 1) - 1) \o <<types[k + 1]>>
      BY <1>1, <2>1, SubSeqRecursiveSecond
    <3> QED
      BY <2>1, <3>1
  <2>6. SubSeq(types, 1, k) \in Seq(SectorType)
    <3>1. \A i \in 1..k : types[i] \in SectorType
      BY <1>1, <2>1
    <3> QED
      BY <3>1, SubSeqProperties
  <2>7. Append(SubSeq(types, 1, k), types[k + 1]) = SubSeq(types, 1, k) \o <<types[k + 1]>>
    BY <1>1, <2>1, <2>6, AppendIsConcat
  <2> QED
    BY <2>4, <2>5, <2>7
<1>5. Nat \subseteq Good
  <2> HIDE DEF Good
  <2> QED
    BY <1>3, <1>4, UpFromZero
<1>6. Len(types) \in Good
  <2> HIDE DEF Good
  <2> QED
    BY <1>1, <1>5
<1>7. expand_sector_map(f[Len(types)]) = SubSeq(types, 1, Len(types))
  BY <1>1, <1>6
<1> QED
  BY <1>2, <1>7, SubSeqFull

(* A run's sectors have its type. *)
LEMMA RunsSay ==
  ASSUME NEW types \in Seq(SectorType), NEW runs, runs = rle_encode_map(types),
         NEW r \in 1..Len(runs), NEW k \in 1..runs[r].count
  PROVE  types[Place(runs, r) + k] = runs[r].type
<1> DEFINE parts == [q \in DOMAIN runs |-> Repeated(runs[q])]
           lens == Lengths_(parts)
<1>1. runs \in Seq(RunRecords) /\ FlattenSeq(parts) = types /\ parts \in Seq(Seq(SectorType))
  BY RunsAre, RunsExpand, ExpandedIs
<1>2. Len(runs) \in Nat /\ DOMAIN runs = 1..Len(runs) /\ \A q \in 1..Len(runs) : runs[q].count \in Nat
  BY <1>1, CountsAre
<1>3. Len(parts) = Len(runs) /\ \A q \in 1..Len(runs) : parts[q] = Repeated(runs[q])
  BY <1>2
<1>4. ASSUME NEW q \in 1..Len(runs) PROVE Len(parts[q]) = runs[q].count
  <2> DEFINE c == runs[q].count
  <2>1. c \in Nat /\ parts[q] = [j \in 1..c |-> runs[q].type]
    BY <1>2, <1>3 DEF Repeated
  <2> HIDE DEF c, parts
  <2>2. Len(parts[q]) = c
    BY <2>1
  <2> QED
    BY <2>2 DEF c
<1> HIDE DEF parts
<1>5. InPlace(parts, Len(parts), types)
  BY <1>1, FlattenInPlace
<1>6. types[UpTo(lens, r - 1) + k] = parts[r][k]
  BY <1>3, <1>4, <1>5 DEF InPlace
<1>7. parts[r][k] = runs[r].type
  BY <1>3 DEF Repeated
<1>8. UpTo(lens, r - 1) = Place(runs, r)
  <2>1. \A m \in 1..(r - 1) : lens[m] = runs[m].count
    <3>1. \A m \in 1..(r - 1) : m \in 1..Len(runs)
      BY <1>2
    <3>2. \A m \in 1..Len(parts) : lens[m] = Len(parts[m])
      BY <1>1, LengthsAre
    <3> QED
      BY <1>3, <1>4, <3>1, <3>2
  <2> HIDE DEF lens
  <2>2. [m \in 1..(r - 1) |-> lens[m]] = [q \in 1..(r - 1) |-> runs[q].count]
    BY <2>1
  <2> QED
    BY <2>2 DEF UpTo, Place
<1> QED
  BY <1>6, <1>7, <1>8

-----------------------------------------------------------------------------
(* What is laid out. *)

LEMMA UnitsAre ==
  ASSUME NEW s \in Sector, NEW n \in Nat
  PROVE  Units(s.user, n) \in Seq(UserUnits) /\ Len(Units(s.user, n)) = n
<1> DEFINE user == s.user
<1>1. \A k \in Nat : <<"zero", 0>> \in UserUnits /\ <<user, k>> \in UserUnits
  BY DEF UserUnits
<1> HIDE DEF user
<1>2. \A j \in 1..n : (IF user = "zero" THEN <<"zero", 0>> ELSE <<user, j>>) \in UserUnits
  BY <1>1
<1>3. Units(user, n) \in Seq(UserUnits) /\ Len(Units(user, n)) = n
  BY <1>2 DEF Units
<1> QED
  BY <1>3 DEF user

LEMMA AddedAre ==
  ASSUME NEW sectors \in Seq(Sector), NEW types \in Seq(SectorType), Len(types) = Len(sectors)
  PROVE  /\ DataParts(sectors, types) \in Seq(Seq(UserUnits))
         /\ Len(DataParts(sectors, types)) = Len(types)
         /\ AudioParts(sectors, types) \in Seq(Seq(Sector))
         /\ Len(AudioParts(sectors, types)) = Len(types)
<1> DEFINE n == Len(types)
           data == DataParts(sectors, types)
           audio == AudioParts(sectors, types)
<1>1. n \in Nat /\ \A k \in 1..n : types[k] \in SectorType /\ sectors[k] \in Sector
  OBVIOUS
<1>2. ASSUME NEW k \in 1..n PROVE data[k] \in Seq(UserUnits) /\ audio[k] \in Seq(Sector)
  <2>1. data_size(types[k]) \in Nat
    BY DEF data_size
  <2>2. Units(sectors[k].user, data_size(types[k])) \in Seq(UserUnits)
    BY <1>1, <2>1, UnitsAre
  <2>3. data[k] = IF IsData(types[k]) THEN Units(sectors[k].user, data_size(types[k])) ELSE << >>
    BY DEF DataParts
  <2>4. audio[k] = IF IsData(types[k]) THEN << >> ELSE << sectors[k] >>
    BY DEF AudioParts
  <2>5. << >> \in Seq(UserUnits) /\ << >> \in Seq(Sector) /\ << sectors[k] >> \in Seq(Sector)
    BY <1>1
  <2> HIDE DEF data, audio
  <2> QED
    BY <2>2, <2>3, <2>4, <2>5
<1>3. /\ DOMAIN data = 1..n /\ data = [k \in DOMAIN data |-> data[k]]
      /\ DOMAIN audio = 1..n /\ audio = [k \in DOMAIN audio |-> audio[k]]
  BY DEF DataParts, AudioParts
<1> HIDE DEF data, audio, n
<1>4. data \in Seq(Seq(UserUnits)) /\ Len(data) = n
  BY <1>1, <1>2, <1>3, SeqFrom
<1>5. audio \in Seq(Seq(Sector)) /\ Len(audio) = n
  BY <1>1, <1>2, <1>3, SeqFrom
<1> QED
  BY <1>4, <1>5 DEF data, audio, n

LEMMA FirstMore ==
  ASSUME NEW S, NEW parts \in Seq(Seq(S)), NEW a \in Nat, NEW b \in Nat, a <= b, b <= Len(parts)
  PROVE  /\ FirstOf(parts, 0) = << >>
         /\ FirstOf(parts, a) \in Seq(S)
         /\ FirstOf(parts, b) = FirstOf(parts, a) \o FlattenSeq(SubSeq(parts, a + 1, b))
<1> DEFINE p == SubSeq(parts, 1, a)
           q == SubSeq(parts, a + 1, b)
<1>1. Len(parts) \in Nat /\ \A k \in 1..Len(parts) : parts[k] \in Seq(S)
  OBVIOUS
<1>2. p \in Seq(Seq(S)) /\ q \in Seq(Seq(S))
  <2>1. \A k \in 1..a : parts[k] \in Seq(S)
    BY <1>1
  <2>2. \A k \in (a + 1)..b : parts[k] \in Seq(S)
    BY <1>1
  <2>3. 1 \in Int /\ a \in Int /\ a + 1 \in Int /\ b \in Int
    OBVIOUS
  <2>4. p \in Seq(Seq(S))
    BY <2>1, <2>3, SubSeqProperties
  <2> DEFINE m == a + 1
  <2>5. m \in Int /\ \A k \in m..b : parts[k] \in Seq(S)
    BY <2>2, <2>3
  <2> HIDE DEF m
  <2>6. SubSeq(parts, m, b) \in Seq(Seq(S))
    BY <2>3, <2>5, SubSeqProperties
  <2> QED
    BY <2>4, <2>6 DEF m
<1>3. SubSeq(parts, 1, b) = p \o q
  <2>1. 0 \in Nat /\ 0 <= a /\ 0 + 1 = 1
    OBVIOUS
  <2>2. SubSeq(parts, 0 + 1, a) \o SubSeq(parts, a + 1, b) = SubSeq(parts, 0 + 1, b)
    BY <2>1, JoinedSubSeqs
  <2> QED
    BY <2>1, <2>2
<1>4. SubSeq(parts, 1, 0) = << >>
  BY SubSeqEmpty
<1> HIDE DEF p, q
<1>5. FlattenSeq(p \o q) = FlattenSeq(p) \o FlattenSeq(q)
  BY <1>2, FlattenConcat
<1>6. FlattenSeq(p) \in Seq(S)
  BY <1>2, FlattenType
<1> QED
  BY <1>3, <1>4, <1>5, <1>6, FlattenEmpty DEF FirstOf, p, q

(* One element after the other. *)
LEMMA OnesJoined ==
  ASSUME NEW S, NEW s \in Seq(S), NEW a \in Nat, NEW n \in Nat, a + n <= Len(s),
         NEW ones, Listed(ones, n), \A k \in 1..n : ones[k] = << s[a + k] >>
  PROVE  FlattenSeq(ones) = SubSeq(s, a + 1, a + n)
<1> DEFINE end == [k \in 0..n |-> a + k]
           e == a + n
<1>1. ASSUME NEW j \in 1..n
      PROVE  /\ end[j] \in Nat /\ end[j - 1] <= end[j] /\ end[j] <= Len(s)
             /\ ones[j] = SubSeq(s, end[j - 1] + 1, end[j])
  <2>1. j \in 0..n /\ j - 1 \in 0..n /\ a + j \in 1..Len(s) /\ a + (j - 1) + 1 = a + j
    OBVIOUS
  <2>2. end[j] = a + j /\ end[j - 1] = a + (j - 1)
    BY <2>1
  <2>3. SubSeq(s, a + j, a + j) = << s[a + j] >>
    <3> DEFINE p == a + j
    <3>1. p \in 1..Len(s) /\ p \in p..Len(s) /\ p \in Int /\ p + 1 \in Int /\ p < p + 1
      BY <2>1
    <3>2. s[p] \in S
      BY <3>1, ElementOfSeq
    <3> HIDE DEF p
    <3>3. SubSeq(s, p, p) = << s[p] >> \o SubSeq(s, p + 1, p)
      BY <3>1, SubSeqRecursiveFirst
    <3>4. SubSeq(s, p + 1, p) = << >>
      BY <3>1, SubSeqEmpty
    <3>5. << s[p] >> \in Seq(S)
      BY <3>2
    <3>6. SubSeq(s, p, p) = << s[p] >>
      BY <3>3, <3>4, <3>5, ConcatEmptySeq
    <3> QED
      BY <3>6 DEF p
  <2>4. end[j] \in Nat /\ end[j - 1] <= end[j] /\ end[j] <= Len(s)
    BY <2>1, <2>2
  <2>5. ones[j] = << s[a + j] >>
    OBVIOUS
  <2> HIDE DEF end
  <2> QED
    BY <2>1, <2>2, <2>3, <2>4, <2>5
<1>2. end[0] = a /\ end[n] = e
  OBVIOUS
<1> HIDE DEF end, e
<1>3. GoesOn(ones, s, a, end)
  BY <1>1, <1>2 DEF GoesOn, Listed
<1>4. FlattenSeq(ones) = SubSeq(s, a + 1, end[n])
  <2>1. a <= Len(s)
    OBVIOUS
  <2> QED
    BY <1>3, <2>1, PartsJoined
<1> QED
  BY <1>2, <1>4 DEF e

LEMMA ContentsAre ==
  ASSUME NEW s \in Seq(AudioBlock), NEW t \in Seq(AudioBlock)
  PROVE  /\ Contents(s) \in Seq(Seq(Sector))
         /\ Contents(s \o t) = Contents(s) \o Contents(t)
<1> DEFINE a == Len(s)
           b == Len(t)
           u == s \o t
<1>1. /\ a \in Nat /\ b \in Nat /\ u \in Seq(AudioBlock) /\ Len(u) = a + b
      /\ \A k \in 1..(a + b) : u[k] = IF k <= a THEN s[k] ELSE t[k - a]
  BY ConcatProperties
<1>2. DOMAIN s = 1..a /\ DOMAIN t = 1..b
  OBVIOUS
<1>3. DOMAIN u = 1..(a + b)
  BY <1>1
<1>4. ASSUME NEW x \in Seq(AudioBlock)
      PROVE  Contents(x) \in Seq(Seq(Sector)) /\ Len(Contents(x)) = Len(x)
             /\ \A k \in 1..Len(x) : Contents(x)[k] = x[k].content
  <2>1. Len(x) \in Nat /\ DOMAIN x = 1..Len(x) /\ \A k \in 1..Len(x) : x[k] \in AudioBlock
    OBVIOUS
  <2>2. \A k \in 1..Len(x) : x[k].content \in Seq(Sector)
    BY <2>1 DEF AudioBlock
  <2> QED
    BY <2>1, <2>2 DEF Contents
<1> HIDE DEF a, b, u
<1> DEFINE c == Contents(s) \o Contents(t)
<1>5. /\ Contents(s) \in Seq(Seq(Sector)) /\ Len(Contents(s)) = a
      /\ \A k \in 1..a : Contents(s)[k] = s[k].content
  BY <1>4 DEF a
<1>6. /\ Contents(t) \in Seq(Seq(Sector)) /\ Len(Contents(t)) = b
      /\ \A k \in 1..b : Contents(t)[k] = t[k].content
  BY <1>4 DEF b
<1>7. /\ Contents(u) \in Seq(Seq(Sector)) /\ Len(Contents(u)) = a + b
      /\ \A k \in 1..(a + b) : Contents(u)[k] = u[k].content
  BY <1>1, <1>4
<1>8. /\ c \in Seq(Seq(Sector)) /\ Len(c) = a + b
      /\ \A k \in 1..(a + b) : c[k] = IF k <= a THEN Contents(s)[k] ELSE Contents(t)[k - a]
  BY <1>5, <1>6, ConcatProperties
<1> HIDE DEF c
<1>9. \A k \in 1..(a + b) : (k <= a /\ k \in 1..a) \/ (~(k <= a) /\ k - a \in 1..b)
  BY <1>1
<1>10. ASSUME NEW k \in 1..(a + b) PROVE Contents(u)[k] = c[k]
  <2>1. CASE k <= a /\ k \in 1..a
    BY <1>1, <1>5, <1>7, <1>8, <2>1
  <2>2. CASE ~(k <= a) /\ k - a \in 1..b
    <3>1. Contents(u)[k] = u[k].content /\ u[k] = t[k - a]
      BY <1>1, <1>7, <2>2
    <3>2. c[k] = Contents(t)[k - a]
      BY <1>8, <2>2
    <3>3. Contents(t)[k - a] = t[k - a].content
      BY <1>6, <2>2
    <3> QED
      BY <3>1, <3>2, <3>3
  <2> QED
    BY <1>9, <2>1, <2>2
<1>11. Contents(u) = c
  BY <1>7, <1>8, <1>10, SeqEqual
<1> QED
  BY <1>5, <1>11 DEF u, c

(* What the sectors of one type add. *)
LEMMA RunAdds ==
  ASSUME NEW sectors \in Seq(Sector), NEW types \in Seq(SectorType), Len(types) = Len(sectors),
         NEW first \in Nat, NEW c \in Nat, first + c <= Len(sectors),
         NEW t \in SectorType, \A k \in 1..c : types[first + k] = t
  PROVE  LET data == FlattenSeq(SubSeq(DataParts(sectors, types), first + 1, first + c))
             audio == FlattenSeq(SubSeq(AudioParts(sectors, types), first + 1, first + c))
         IN IF IsData(t)
            THEN data = FlattenSeq([k \in 1..c |-> Units(sectors[first + k].user, data_size(t))])
                 /\ audio = << >>
            ELSE data = << >> /\ audio = SubSeq(sectors, first + 1, first + c)
<1> DEFINE D == DataParts(sectors, types)
           A == AudioParts(sectors, types)
           d == SubSeq(D, first + 1, first + c)
           a == SubSeq(A, first + 1, first + c)
<1>1. /\ D \in Seq(Seq(UserUnits)) /\ Len(D) = Len(types)
      /\ A \in Seq(Seq(Sector)) /\ Len(A) = Len(types)
  BY AddedAre
<1>2. \A k \in 1..c : first + k \in 1..Len(types)
  OBVIOUS
<1>3. ASSUME NEW k \in 1..c
      PROVE  /\ D[first + k] = IF IsData(t) THEN Units(sectors[first + k].user, data_size(t)) ELSE << >>
             /\ A[first + k] = IF IsData(t) THEN << >> ELSE << sectors[first + k] >>
  <2> DEFINE p == first + k
  <2>1. p \in 1..Len(types) /\ types[p] = t
    BY <1>2
  <2> HIDE DEF p
  <2>2. /\ D[p] = IF IsData(t) THEN Units(sectors[p].user, data_size(t)) ELSE << >>
        /\ A[p] = IF IsData(t) THEN << >> ELSE << sectors[p] >>
    BY <2>1 DEF DataParts, AudioParts
  <2> QED
    BY <2>2 DEF p
<1> HIDE DEF D, A
<1>4. /\ d \in Seq(Seq(UserUnits)) /\ Len(d) = c /\ \A k \in 1..c : d[k] = D[first + k]
      /\ a \in Seq(Seq(Sector)) /\ Len(a) = c /\ \A k \in 1..c : a[k] = A[first + k]
  BY <1>1, PartIs
<1> HIDE DEF d, a
<1>5. DOMAIN d = 1..c /\ DOMAIN a = 1..c
  BY <1>4
<1>6. CASE IsData(t)
  <2>1. \A k \in 1..c : a[k] = << >>
    BY <1>3, <1>4, <1>6
  <2>2. FlattenSeq(a) = << >>
    BY <1>4, <1>5, <2>1, FlattenNone
  <2>3. d = [k \in 1..c |-> Units(sectors[first + k].user, data_size(t))]
    <3> DEFINE u(k) == Units(sectors[first + k].user, data_size(t))
    <3>1. \A k \in 1..c : d[k] = u(k)
      BY <1>3, <1>4, <1>6
    <3>2. d = [k \in DOMAIN d |-> d[k]]
      BY <1>4
    <3> HIDE DEF u
    <3>3. d = [k \in 1..c |-> u(k)]
      BY <1>5, <3>1, <3>2
    <3> QED
      BY <3>3 DEF u
  <2> QED
    BY <1>6, <2>2, <2>3 DEF d, a, D, A
<1>7. CASE ~IsData(t)
  <2>1. \A k \in 1..c : d[k] = << >>
    BY <1>3, <1>4, <1>7
  <2>2. FlattenSeq(d) = << >>
    BY <1>4, <1>5, <2>1, FlattenNone
  <2>3. \A k \in 1..c : a[k] = << sectors[first + k] >>
    BY <1>3, <1>4, <1>7
  <2>4. a = [k \in DOMAIN a |-> a[k]]
    BY <1>4
  <2>5. Listed(a, c)
    BY <1>4, <1>5, <2>4 DEF Listed
  <2>6. FlattenSeq(a) = SubSeq(sectors, first + 1, first + c)
    BY <2>3, <2>5, OnesJoined
  <2> QED
    BY <1>7, <2>2, <2>6 DEF d, a, D, A
<1> QED
  BY <1>6, <1>7

LEMMA RunBlocks ==
  ASSUME NEW sectors \in Seq(Sector), NEW first \in Nat, NEW end \in Nat,
         first <= end, end <= Len(sectors), NEW s, s = SubSeq(sectors, first + 1, end)
  PROVE  /\ FlattenSeq(Contents(BlocksOf(s, first))) = s
         /\ \A b \in DOMAIN BlocksOf(s, first) : Holding(BlocksOf(s, first)[b], sectors, end)
         /\ \A i \in first..(end - 1) : \E b \in DOMAIN BlocksOf(s, first) : Held(BlocksOf(s, first)[b], i)
<1> DEFINE P == Pieces(s, SECTOR_BLOCK)
           more == BlocksOf(s, first)
           c == end - first
<1>0. SECTOR_BLOCK \in Nat \ {0} /\ Len(sectors) \in Nat /\ c \in Nat /\ end = first + c
  BY DiscMapAssumption
<1> HIDE DEF c
<1>1. s \in Seq(Sector) /\ Len(s) = c /\ \A i \in 1..c : s[i] = sectors[first + i]
  <2>1. s = SubSeq(sectors, first + 1, first + c) /\ first + c <= Len(sectors)
    BY <1>0
  <2> QED
    BY <1>0, <2>1, PartIs
<1>2. FlattenSeq(P) = s /\ P \in Seq(Seq(Sector))
  BY <1>0, <1>1, PiecesJoined, PiecesAre
<1>3. PiecesHold(P, s, SECTOR_BLOCK, c)
  BY <1>0, <1>1, PieceHolds
<1> HIDE DEF P, more
<1>4. /\ DOMAIN more = DOMAIN P
      /\ \A k \in DOMAIN P : more[k].start = BlockStart(first, k) /\ more[k].content = P[k]
  BY DEF P, BlocksOf, more
<1>5. Contents(more) = P
  <2>1. P = [k \in DOMAIN P |-> P[k]]
    BY <1>2
  <2> QED
    BY <1>4, <2>1 DEF Contents
<1>6. \A k \in DOMAIN P : Len(P[k]) \in Nat /\ k \in Nat
  <2>1. \A k \in DOMAIN P : P[k] \in Seq(Sector) /\ k \in Nat
    BY <1>2
  <2> QED
    BY <2>1
<1>7. ASSUME NEW b \in DOMAIN more PROVE Holding(more[b], sectors, end)
  <2> DEFINE a == (b - 1) * SECTOR_BLOCK
             l == Len(P[b])
  <2>1. a \in Nat /\ a + l <= c /\ l \in Nat /\ \A j \in 1..l : P[b][j] = s[a + j]
    BY <1>3, <1>4, <1>6, <1>7 DEF PiecesHold
  <2>2. more[b].start = first + a /\ more[b].content = P[b]
    BY <1>4, <1>7 DEF BlockStart
  <2> HIDE DEF a
  <2>3. \A j \in 1..l : a + j \in 1..c /\ first + (a + j) = first + a + j
    <3> HIDE DEF l
    <3> QED
      BY <1>0, <2>1
  <2>4. \A j \in 1..l : P[b][j] = sectors[first + a + j]
    <3> HIDE DEF l
    <3> QED
      BY <1>1, <2>1, <2>3
  <2>5. first + a + l <= end
    <3> HIDE DEF l
    <3> QED
      BY <1>0, <2>1
  <2> QED
    BY <2>2, <2>4, <2>5 DEF Holding
<1>8. ASSUME NEW i \in first..(end - 1) PROVE \E b \in DOMAIN more : Held(more[b], i)
  <2> DEFINE p == i - first
  <2>1. p \in 0..(c - 1) /\ i = first + p
    BY <1>0
  <2> HIDE DEF p
  <2>2. PICK k \in DOMAIN P : (k - 1) * SECTOR_BLOCK <= p /\ p < (k - 1) * SECTOR_BLOCK + Len(P[k])
    BY <1>3, <2>1 DEF PiecesHold
  <2> DEFINE a == (k - 1) * SECTOR_BLOCK
             l == Len(P[k])
  <2>3. a <= p /\ p < a + l /\ a \in Nat /\ l \in Nat
    BY <1>3, <1>6, <2>2 DEF PiecesHold
  <2>4. more[k].start = first + a /\ more[k].content = P[k]
    BY <1>4 DEF BlockStart
  <2> HIDE DEF a
  <2>5. first + a <= i /\ i < first + a + l
    <3> HIDE DEF l
    <3> QED
      BY <2>1, <2>3
  <2>6. Held(more[k], i)
    BY <2>4, <2>5 DEF Held
  <2> QED
    BY <1>4, <2>6
<1> QED
  BY <1>2, <1>5, <1>7, <1>8 DEF more

(* Blocks behind those there are. *)
LEMMA BlocksMore ==
  ASSUME NEW sectors, NEW types, NEW s \in Seq(AudioBlock), NEW t \in Seq(AudioBlock),
         NEW a \in Nat, NEW b \in Nat, a <= b,
         BlocksOk(sectors, types, s, a),
         \A k \in DOMAIN t : Holding(t[k], sectors, b),
         \A i \in a..(b - 1) : ~IsData(types[i + 1]) => \E k \in DOMAIN t : Held(t[k], i)
  PROVE  BlocksOk(sectors, types, s \o t, b)
<1> DEFINE m == Len(s)
           n == Len(t)
           u == s \o t
<1>1. /\ m \in Nat /\ n \in Nat /\ u \in Seq(AudioBlock) /\ Len(u) = m + n
      /\ \A k \in 1..m : u[k] = s[k]
      /\ \A k \in 1..n : u[m + k] = t[k]
  BY JoinedTwo
<1>2. DOMAIN s = 1..m /\ DOMAIN t = 1..n
  OBVIOUS
<1>3. DOMAIN u = 1..(m + n)
  BY <1>1
<1>4. \A k \in 1..m : s[k].start \in Nat /\ Len(s[k].content) \in Nat
  <2>1. \A k \in 1..m : s[k] \in AudioBlock
    BY <1>2
  <2>2. \A k \in 1..m : s[k].start \in Nat /\ s[k].content \in Seq(Sector)
    BY <2>1 DEF AudioBlock
  <2> HIDE DEF m
  <2> QED
    BY <2>2
<1> HIDE DEF m, n, u
<1>5. \A k \in 1..(m + n) : k \in 1..m \/ \E l \in 1..n : k = m + l
  <2>1. \A k \in 1..(m + n) : k \in 1..m \/ (k - m \in 1..n /\ k = m + (k - m))
    BY <1>1
  <2> QED
    BY <2>1
<1>6. ASSUME NEW k \in 1..m PROVE Holding(u[k], sectors, b)
  <2> DEFINE x == s[k]
             e == x.start + Len(x.content)
  <2>1. Holding(x, sectors, a)
    BY <1>2 DEF BlocksOk
  <2>2. e \in Nat
    BY <1>4
  <2>3. e <= a /\ \A j \in 1..Len(x.content) : x.content[j] = sectors[x.start + j]
    BY <2>1 DEF Holding
  <2> HIDE DEF e
  <2>4. e <= b
    BY <2>2, <2>3
  <2>5. Holding(x, sectors, b)
    BY <2>3, <2>4 DEF Holding, e
  <2> QED
    BY <1>1, <2>5
<1>7. ASSUME NEW k \in DOMAIN u PROVE Holding(u[k], sectors, b)
  <2>1. CASE k \in 1..m
    BY <1>6, <2>1
  <2>2. ASSUME NEW l \in 1..n, k = m + l PROVE Holding(u[k], sectors, b)
    <3>1. u[k] = t[l] /\ l \in DOMAIN t
      BY <1>1, <1>2, <2>2
    <3> QED
      BY <3>1
  <2> QED
    BY <1>3, <1>5, <2>1, <2>2
<1>8. \A k \in 1..m : k \in DOMAIN u
  BY <1>1, <1>3
<1>9. \A k \in 1..n : m + k \in DOMAIN u
  BY <1>1, <1>3
<1>10. ASSUME NEW i \in 0..(b - 1), ~IsData(types[i + 1])
       PROVE  \E k \in DOMAIN u : Held(u[k], i)
  <2>1. CASE i \in 0..(a - 1)
    <3>1. PICK k \in 1..m : Held(s[k], i)
      BY <1>2, <1>10, <2>1 DEF BlocksOk
    <3> QED
      BY <1>1, <1>8, <3>1
  <2>2. CASE i \in a..(b - 1)
    <3>1. PICK k \in 1..n : Held(t[k], i)
      BY <1>2, <1>10, <2>2
    <3> QED
      BY <1>1, <1>9, <3>1
  <2>3. i \in 0..(a - 1) \/ i \in a..(b - 1)
    OBVIOUS
  <2> QED
    BY <2>1, <2>2, <2>3
<1>11. BlocksOk(sectors, types, u, b)
  BY <1>7, <1>10 DEF BlocksOk
<1> QED
  BY <1>11 DEF u

(* A run is laid out behind the others. *)
LEMMA LaidRun ==
  ASSUME Inv, NEW w \in Worker, ChunkRun(w), LaidOut(w)
  PROVE  LaidOut(w)'
<1> DEFINE run == Runs(w)[RunAt(w)]
           first == job[w].at
           c == run.count
           t == run.type
           end == first + c
           layout == job[w].layout
           audio == job[w].audio_map
           sectors == Sectors(w)
           types == job[w].types
           moreData == MoreLayout(w, first, run)
           moreAudio == MoreAudio(w, first, run)
           new == RunChunked(w)
           s == SubSeq(sectors, first + 1, end)
<1>1. /\ job \in [Worker -> Jobs] /\ job[w] \in Jobs /\ PlaceInv(w) /\ disc \in Batches
      /\ job' = [job EXCEPT ![w] = new] /\ disc' = disc
      /\ job[w].pc = "chunk" /\ first < Total(w)
  BY RunChunkedIs DEF Inv, Typed
<1>2. /\ Runs(w) \in Seq(RunRecords) /\ RunAt(w) \in 1..Len(Runs(w))
      /\ Place(Runs(w), RunAt(w)) = first /\ first + c <= Total(w)
  BY <1>1, RunAtIs
<1>3. run \in RunRecords /\ c \in Nat /\ t \in SectorType /\ first \in Nat
  <2>1. run \in RunRecords /\ c \in Nat
    BY <1>2, CountsAre
  <2>2. first \in Nat
    BY <1>1 DEF Jobs
  <2> HIDE DEF first
  <2> QED
    BY <2>1, <2>2 DEF RunRecords
<1>4. /\ types \in Seq(SectorType) /\ Len(types) = Total(w) /\ sectors \in Seq(Sector)
      /\ Len(types) = Len(sectors)
  BY <1>1, DiscIs DEF Jobs, PlaceInv, AfterMapping, Total
<1>5. \A k \in 1..c : types[first + k] = t
  <2>1. Runs(w) = rle_encode_map(types)
    BY DEF Runs
  <2>2. \A k \in 1..Runs(w)[RunAt(w)].count :
          types[Place(Runs(w), RunAt(w)) + k] = Runs(w)[RunAt(w)].type
    BY <1>2, <1>4, <2>1, RunsSay
  <2> QED
    BY <1>2, <2>2
<1>6. /\ layout \in Seq(Seq(UserUnits)) /\ audio \in Seq(AudioBlock)
      /\ Stream(w) = FlattenSeq(layout) /\ AudioStream(w) = FlattenSeq(Contents(audio))
  BY <1>1 DEF Jobs, Stream, AudioStream, Contents
<1>7. /\ Stream(w) = FirstOf(DataParts(sectors, types), first)
      /\ AudioStream(w) = FirstOf(AudioParts(sectors, types), first)
      /\ BlocksOk(sectors, types, audio, first)
  BY <1>1 DEF LaidOut, AfterMapping
<1>8. /\ moreData \in Seq(Seq(UserUnits)) /\ moreAudio \in Seq(AudioBlock)
  <2> HIDE DEF run, first
  <2> QED
    BY <1>1, <1>2, <1>3, MoreAre
<1>9. job'[w] = new
  BY <1>1
<1>10. /\ new.pc = "chunk" /\ new.at = end /\ new.types = types
       /\ new.layout = layout \o moreData /\ new.audio_map = audio \o moreAudio
  BY <1>1 DEF RunChunked, Jobs
<1>11. Sectors(w)' = sectors /\ Total(w)' = Total(w)
  BY <1>1, DiscKept
<1>12. /\ Stream(w)' = FlattenSeq(layout \o moreData)
       /\ AudioStream(w)' = FlattenSeq(Contents(audio \o moreAudio))
  <2> HIDE DEF new, layout, moreData, audio, moreAudio
  <2> QED
    BY <1>9, <1>10 DEF Stream, AudioStream, Contents
<1>13. UserData(w, first, run) = FlattenSeq([k \in 1..c |-> Units(sectors[first + k].user, data_size(t))])
  <2>1. \A k \in 1..c : (first + k - 1) + 1 = first + k
    <3> HIDE DEF first, c
    <3> QED
      BY <1>3
  <2>2. \A k \in 1..c : Raw(w, first + k - 1) = sectors[first + k]
    BY <2>1 DEF Raw
  <2>3. [k \in 1..c |-> Units(Raw(w, first + k - 1).user, data_size(t))]
          = [k \in 1..c |-> Units(sectors[first + k].user, data_size(t))]
    BY <2>2
  <2> QED
    BY <2>3 DEF UserData
<1>14. UserData(w, first, run) \in Seq(UserUnits)
  <2> HIDE DEF run, first
  <2> QED
    BY <1>1, <1>2, <1>3, UserDataIs
<1>15. /\ IsData(t) => moreData = Pieces(UserData(w, first, run), CHUNK) /\ moreAudio = << >>
       /\ ~IsData(t) =>
            /\ moreData = << >>
            /\ moreAudio = BlocksOf(s, first)
  BY DEF MoreLayout, MoreAudio, Blocks, BlocksOf
<1> DEFINE D == DataParts(sectors, types)
           A == AudioParts(sectors, types)
           d == FlattenSeq(SubSeq(D, first + 1, end))
           a == FlattenSeq(SubSeq(A, first + 1, end))
<1> HIDE DEF run, first, layout, audio, sectors, types, moreData, moreAudio, new
<1>16. IF IsData(t)
       THEN d = FlattenSeq([k \in 1..c |-> Units(sectors[first + k].user, data_size(t))]) /\ a = << >>
       ELSE d = << >> /\ a = s
  <2>1. first + c <= Len(sectors)
    BY <1>2, <1>4
  <2> HIDE DEF c, t
  <2> QED
    BY <1>3, <1>4, <1>5, <2>1, RunAdds
<1> HIDE DEF c, t, d, a, s
<1>17. /\ D \in Seq(Seq(UserUnits)) /\ Len(D) = Len(types)
       /\ A \in Seq(Seq(Sector)) /\ Len(A) = Len(types)
  BY <1>4, AddedAre
<1>18. first \in Nat /\ end \in Nat /\ first <= end /\ end <= Len(types) /\ end <= Len(sectors)
  BY <1>2, <1>3, <1>4
<1> HIDE DEF D, A
<1>19. /\ FirstOf(D, end) = FirstOf(D, first) \o d
       /\ FirstOf(A, end) = FirstOf(A, first) \o a
  <2> HIDE DEF end
  <2>1. FirstOf(D, end) = FirstOf(D, first) \o d
    BY <1>17, <1>18, FirstMore DEF d
  <2>2. FirstOf(A, end) = FirstOf(A, first) \o a
    BY <1>17, <1>18, FirstMore DEF a
  <2> QED
    BY <2>1, <2>2
<1>20. FlattenSeq(moreData) = d
  <2>1. CASE IsData(t)
    <3>1. d = UserData(w, first, run)
      BY <1>13, <1>16, <2>1
    <3>2. FlattenSeq(Pieces(UserData(w, first, run), CHUNK)) = UserData(w, first, run)
      BY <1>14, PiecesJoined, DiscMapAssumption
    <3> QED
      BY <1>15, <2>1, <3>1, <3>2
  <2>2. CASE ~IsData(t)
    BY <1>15, <1>16, <2>2, FlattenEmpty
  <2> QED
    BY <2>1, <2>2
<1>21. /\ FlattenSeq(Contents(moreAudio)) = a
       /\ \A k \in DOMAIN moreAudio : Holding(moreAudio[k], sectors, end)
       /\ ~IsData(t) => \A i \in first..(end - 1) : \E k \in DOMAIN moreAudio : Held(moreAudio[k], i)
  <2>1. CASE IsData(t)
    <3>1. moreAudio = << >> /\ a = << >>
      BY <1>15, <1>16, <2>1
    <3>2. Contents(<< >>) = << >> /\ DOMAIN << >> = {}
      BY DEF Contents
    <3> QED
      BY <2>1, <3>1, <3>2, FlattenEmpty
  <2>2. CASE ~IsData(t)
    <3>1. a = s /\ moreAudio = BlocksOf(s, first)
      BY <1>15, <1>16, <2>2
    <3> HIDE DEF end
    <3>2. /\ FlattenSeq(Contents(BlocksOf(s, first))) = s
          /\ \A b \in DOMAIN BlocksOf(s, first) : Holding(BlocksOf(s, first)[b], sectors, end)
          /\ \A i \in first..(end - 1) : \E b \in DOMAIN BlocksOf(s, first) : Held(BlocksOf(s, first)[b], i)
      BY <1>4, <1>18, RunBlocks DEF s
    <3> QED
      BY <3>1, <3>2
  <2> QED
    BY <2>1, <2>2
<1>22. Stream(w)' = FirstOf(D, end)
  <2>1. FlattenSeq(layout \o moreData) = FlattenSeq(layout) \o FlattenSeq(moreData)
    BY <1>6, <1>8, FlattenConcat
  <2> QED
    BY <1>6, <1>7, <1>12, <1>19, <1>20, <2>1 DEF D
<1>23. AudioStream(w)' = FirstOf(A, end)
  <2>1. /\ Contents(audio \o moreAudio) = Contents(audio) \o Contents(moreAudio)
        /\ Contents(audio) \in Seq(Seq(Sector)) /\ Contents(moreAudio) \in Seq(Seq(Sector))
    BY <1>6, <1>8, ContentsAre
  <2>2. FlattenSeq(Contents(audio) \o Contents(moreAudio)) = FlattenSeq(Contents(audio)) \o FlattenSeq(Contents(moreAudio))
    BY <2>1, FlattenConcat
  <2> QED
    BY <1>6, <1>7, <1>12, <1>19, <1>21, <2>1, <2>2 DEF A
<1>24. BlocksOk(sectors, types, audio \o moreAudio, end)
  <2>1. ASSUME NEW i \in first..(end - 1), ~IsData(types[i + 1])
        PROVE  \E k \in DOMAIN moreAudio : Held(moreAudio[k], i)
    <3> DEFINE k == i + 1 - first
    <3>1. k \in 1..c /\ first + k = i + 1
      BY <1>3
    <3> HIDE DEF k
    <3>2. types[i + 1] = t
      BY <1>5, <3>1
    <3> QED
      BY <1>21, <2>1, <3>2
  <2> HIDE DEF end
  <2> QED
    BY <1>6, <1>7, <1>8, <1>18, <1>21, <2>1, BlocksMore
<1> QED
  BY <1>9, <1>10, <1>11, <1>22, <1>23, <1>24 DEF LaidOut, D, A

-----------------------------------------------------------------------------
(* Reading. *)

(* What the types are when a disc is cut. *)
LEMMA TypesAfter ==
  ASSUME Inv, NEW w \in Worker, job[w].pc \in AfterMapping
  PROVE  /\ job[w].types \in Seq(SectorType) /\ Len(job[w].types) = Total(w)
         /\ Sectors(w) \in Seq(Sector) /\ Len(job[w].types) = Len(Sectors(w)) /\ Total(w) \in Nat
         /\ Types(w) = job[w].types
         /\ \A i \in 0..(Total(w) - 1) :
              /\ job[w].types[i + 1] \in DataTypes \cup AudioTypes
              /\ Raw(w, i) \in Sector
              /\ IsData(job[w].types[i + 1]) =>
                   /\ Known(Raw(w, i)) /\ IsData(Coarse(Normalized(w), i)) /\ i \in MappedData(w)
                   /\ Coarse(Normalized(w), i) \in {"Mode1", "PregapMode1", "Mode2Form1", "PregapMode2"}
                   /\ job[w].types[i + 1] = Analyzed(Raw(w, i), Coarse(Normalized(w), i))
              /\ IsData(Coarse(Normalized(w), i)) => IsData(job[w].types[i + 1])
<1> DEFINE types == job[w].types
<1>1. job[w] \in Jobs /\ PlaceInv(w) /\ disc \in Batches
  BY DEF Inv, Typed
<1>2. /\ types \in Seq(SectorType) /\ Len(types) = Total(w) /\ ~NoIndex01(w)
      /\ \A i \in 0..(Total(w) - 1) :
           types[i + 1] = IF Final(w, i) = "None" THEN "PregapAudio" ELSE Final(w, i)
  BY <1>1 DEF PlaceInv, Jobs, AfterMapping
<1>3. MappedCount(w) = Total(w)
  BY DEF MappedCount, AfterMapping
<1>4. /\ Sectors(w) \in Seq(Sector) /\ Total(w) \in Nat /\ Total(w) = Len(Sectors(w))
      /\ \A i \in 0..(Total(w) - 1) : Raw(w, i) \in Sector
  BY <1>1, DiscIs DEF Total
<1>5. Types(w) = types
  BY <1>2, RunsExpand DEF Types, Runs
<1> HIDE DEF types
<1>6. ASSUME NEW i \in 0..(Total(w) - 1)
      PROVE  /\ types[i + 1] \in DataTypes \cup AudioTypes
             /\ IsData(types[i + 1]) =>
                  /\ Known(Raw(w, i)) /\ IsData(Coarse(Normalized(w), i))
                  /\ Coarse(Normalized(w), i) \in {"Mode1", "PregapMode1", "Mode2Form1", "PregapMode2"}
                  /\ types[i + 1] = Analyzed(Raw(w, i), Coarse(Normalized(w), i))
             /\ IsData(Coarse(Normalized(w), i)) => IsData(types[i + 1])
  <2> DEFINE coarse == Coarse(Normalized(w), i)
  <2>1. coarse \in {"None", "Audio", "PregapAudio", "Mode1", "PregapMode1", "Mode2Form1", "PregapMode2"}
    BY <1>1, <1>2, CoarseIs
  <2>2. IsData(coarse) => Known(Raw(w, i))
    BY <1>1, <1>3 DEF PlaceInv
  <2>3. Final(w, i) = IF IsData(coarse) THEN Analyzed(Raw(w, i), coarse) ELSE coarse
    BY DEF Final
  <2>4. types[i + 1] = IF Final(w, i) = "None" THEN "PregapAudio" ELSE Final(w, i)
    BY <1>2
  <2>5. IsData(coarse) => Analyzed(Raw(w, i), coarse) \in DataTypes /\ Analyzed(Raw(w, i), coarse) # "None"
    <3> SUFFICES ASSUME IsData(coarse)
                 PROVE  Analyzed(Raw(w, i), coarse) \in DataTypes /\ Analyzed(Raw(w, i), coarse) # "None"
      OBVIOUS
    <3>1. coarse \in DataTypes
      BY DEF IsData
    <3> HIDE DEF coarse
    <3>2. Analyzed(Raw(w, i), coarse) \in DataTypes
      BY <1>4, <2>2, <3>1, AnalyzedIs
    <3>3. "None" \notin DataTypes
      BY DEF DataTypes, Mode1, Mode2Form1, Mode1Exception, Mode2Form1Exception, Zeroed
    <3> QED
      BY <3>2, <3>3
  <2> HIDE DEF coarse
  <2>6. /\ {"Mode1", "PregapMode1", "Mode2Form1", "PregapMode2"} \subseteq DataTypes
        /\ \A t \in {"None", "Audio", "PregapAudio"} : t \notin DataTypes
        /\ AudioTypes = {"Audio", "PregapAudio"}
    BY DEF DataTypes, AudioTypes, Mode1, Mode2Form1, Mode1Exception, Mode2Form1Exception, Zeroed
  <2>7. CASE IsData(coarse)
    <3>1. types[i + 1] = Analyzed(Raw(w, i), coarse) /\ types[i + 1] \in DataTypes
      BY <2>3, <2>4, <2>5, <2>7
    <3>2. coarse \in {"Mode1", "PregapMode1", "Mode2Form1", "PregapMode2"}
      BY <2>1, <2>6, <2>7 DEF IsData
    <3> QED
      BY <2>2, <2>7, <3>1, <3>2 DEF IsData, coarse
  <2>8. CASE ~IsData(coarse)
    <3>1. types[i + 1] \in {"Audio", "PregapAudio"}
      BY <2>1, <2>3, <2>4, <2>6, <2>8 DEF IsData
    <3> QED
      BY <2>6, <2>8, <3>1 DEF IsData, coarse
  <2> QED
    BY <2>7, <2>8
<1>7. \A i \in 0..(Total(w) - 1) : IsData(types[i + 1]) => i \in MappedData(w)
  BY <1>3 DEF MappedData, types
<1> QED
  BY <1>2, <1>4, <1>5, <1>6, <1>7 DEF types

(* Where a part is that is read from all of them. *)
LEMMA PartRead ==
  ASSUME NEW S, NEW parts \in Seq(Seq(S)), NEW i \in 1..Len(parts),
         NEW whole \in Seq(S), InPlace(parts, Len(parts), whole)
  PROVE  /\ UpTo(Lengths_(parts), i - 1) \in Nat
         /\ \A j \in 1..Len(parts[i]) : whole[UpTo(Lengths_(parts), i - 1) + j] = parts[i][j]
         /\ Slice(whole, UpTo(Lengths_(parts), i - 1), Len(parts[i])) = parts[i]
<1> DEFINE lens == Lengths_(parts)
           n == Len(parts[i])
           L == Len(whole)
           start == UpTo(lens, i - 1)
<1>3. /\ lens \in Seq(Nat) /\ Len(lens) = Len(parts) /\ Len(parts) \in Nat
      /\ lens[i] = n /\ n \in Nat /\ parts[i] \in Seq(S)
  BY LengthsAre
<1>4. \A j \in 1..n : whole[start + j] = parts[i][j]
  BY DEF InPlace
<1>5. L = UpTo(lens, Len(parts)) /\ L \in Nat
  BY DEF InPlace
<1> HIDE DEF lens, start
<1>6. i \in 0..Len(lens) /\ i - 1 \in 0..Len(lens) /\ Len(lens) \in 0..Len(lens) /\ i <= Len(lens) /\ i \in 1..Len(lens)
  BY <1>3
<1>7. UpTo(lens, i) = start + n /\ start \in Nat
  <2>1. UpTo(lens, i) = UpTo(lens, i - 1) + lens[i] /\ UpTo(lens, i - 1) \in Nat
    BY <1>3, <1>6, UpToSums
  <2> HIDE DEF n
  <2> QED
    BY <1>3, <2>1 DEF start
<1>8. UpTo(lens, i) <= L
  BY <1>3, <1>5, <1>6, UpToGrows
<1>9. start + n <= L
  BY <1>7, <1>8
<1>10. Slice(whole, start, n) = SubSeq(whole, start + 1, start + n)
  <2>1. (IF start + n < L THEN start + n ELSE L) = start + n
    <3>1. n \in Nat /\ L \in Nat /\ start \in Nat
      BY <1>3, <1>5, <1>7
    <3> HIDE DEF n, L
    <3> QED
      BY <1>9, <3>1
  <2> HIDE DEF n
  <2> QED
    BY <2>1 DEF Slice
<1>11. /\ SubSeq(whole, start + 1, start + n) \in Seq(S) /\ Len(SubSeq(whole, start + 1, start + n)) = n
       /\ \A j \in 1..n : SubSeq(whole, start + 1, start + n)[j] = whole[start + j]
  <2> HIDE DEF n
  <2> QED
    BY <1>3, <1>7, <1>9, PartIs
<1>12. SubSeq(whole, start + 1, start + n) = parts[i]
  <2> DEFINE p == SubSeq(whole, start + 1, start + n)
             q == parts[i]
  <2>1. p \in Seq(S) /\ q \in Seq(S) /\ Len(p) = n /\ Len(q) = n /\ \A j \in 1..n : p[j] = q[j]
    BY <1>3, <1>4, <1>11
  <2> HIDE DEF p, q, n
  <2>2. p = q
    BY <2>1, SeqEqual
  <2> QED
    BY <2>2 DEF p, q
<1> QED
  BY <1>4, <1>7, <1>10, <1>12 DEF start, lens

(* The sizes before a sector are those of the parts before its own. *)
LEMMA AddedLengths ==
  ASSUME Inv, NEW w \in Worker, job[w].pc \in AfterMapping, NEW k \in 1..Total(w)
  PROVE  LET types == job[w].types
         IN /\ Lengths_(DataParts(Sectors(w), types))[k] =
                 IF types[k] \in DataTypes THEN data_size(types[k]) ELSE 0
            /\ types[k] \in AudioTypes =>
                 Lengths_(AudioParts(Sectors(w), types))[k] = 1 /\ data_size(types[k]) = 3
            /\ types[k] \notin AudioTypes => Lengths_(AudioParts(Sectors(w), types))[k] = 0
<1> DEFINE types == job[w].types
           sectors == Sectors(w)
           D == DataParts(sectors, types)
           A == AudioParts(sectors, types)
<1>1. /\ types \in Seq(SectorType) /\ Len(types) = Total(w)
      /\ sectors \in Seq(Sector) /\ Len(types) = Len(sectors) /\ Total(w) \in Nat
      /\ \A i \in 0..(Total(w) - 1) : types[i + 1] \in DataTypes \cup AudioTypes /\ Raw(w, i) \in Sector
  BY TypesAfter
<1>2. types[k] \in DataTypes \cup AudioTypes /\ sectors[k] \in Sector
  <2>1. k - 1 \in 0..(Total(w) - 1) /\ (k - 1) + 1 = k
    BY <1>1
  <2> HIDE DEF types, sectors
  <2>2. types[(k - 1) + 1] \in DataTypes \cup AudioTypes /\ Raw(w, k - 1) \in Sector
    BY <1>1, <2>1
  <2> QED
    BY <2>1, <2>2 DEF Raw, sectors
<1> HIDE DEF types, sectors
<1>3. /\ D \in Seq(Seq(UserUnits)) /\ Len(D) = Total(w)
      /\ A \in Seq(Seq(Sector)) /\ Len(A) = Total(w)
  BY <1>1, AddedAre
<1>4. /\ D[k] = IF IsData(types[k]) THEN Units(sectors[k].user, data_size(types[k])) ELSE << >>
      /\ A[k] = IF IsData(types[k]) THEN << >> ELSE << sectors[k] >>
  BY <1>1 DEF DataParts, AudioParts
<1> HIDE DEF D, A
<1>5. Lengths_(D)[k] = Len(D[k]) /\ Lengths_(A)[k] = Len(A[k])
  BY <1>3, LengthsAre
<1>6. data_size(types[k]) \in Nat /\ (types[k] \in AudioTypes => data_size(types[k]) = 3)
  BY DEF data_size, AudioTypes
<1>7. types[k] \in AudioTypes <=> types[k] \notin DataTypes
  BY <1>2 DEF DataTypes, AudioTypes, Mode1, Mode2Form1, Mode1Exception, Mode2Form1Exception, Zeroed
<1>8. Len(Units(sectors[k].user, data_size(types[k]))) = data_size(types[k])
  BY <1>2, <1>6, UnitsAre
<1>9. Len(<< sectors[k] >>) = 1 /\ Len(<< >>) = 0
  OBVIOUS
<1> QED
  BY <1>4, <1>5, <1>6, <1>7, <1>8, <1>9 DEF IsData, D, A, types, sectors

LEMMA BeforeIs ==
  ASSUME Inv, NEW w \in Worker, job[w].pc \in AfterMapping, NEW i \in 0..Total(w)
  PROVE  /\ Before(w, i, DataTypes) = UpTo(Lengths_(DataParts(Sectors(w), job[w].types)), i)
         /\ UpTo(Lengths_(AudioParts(Sectors(w), job[w].types)), i) \in Nat
         /\ Before(w, i, AudioTypes) = 3 * UpTo(Lengths_(AudioParts(Sectors(w), job[w].types)), i)
<1> DEFINE types == job[w].types
           d == Lengths_(DataParts(Sectors(w), types))
           a == Lengths_(AudioParts(Sectors(w), types))
           size(k, wanted) == IF types[k] \in wanted THEN data_size(types[k]) ELSE 0
           s == [k \in 1..i |-> a[k]]
           t == [k \in 1..i |-> size(k, AudioTypes)]
<1>1. /\ \A k \in 1..Total(w) :
           /\ d[k] = size(k, DataTypes)
           /\ types[k] \in AudioTypes => a[k] = 1 /\ data_size(types[k]) = 3
           /\ types[k] \notin AudioTypes => a[k] = 0
      /\ Total(w) \in Nat
  BY AddedLengths, TypesAfter
<1>2. \A wanted : Before(w, i, wanted) = Sum([k \in 1..i |-> size(k, wanted)])
  BY DEF Before
<1>3. UpTo(a, i) = Sum(s) /\ UpTo(d, i) = Sum([k \in 1..i |-> d[k]])
  BY DEF UpTo
<1> HIDE DEF types, d, a
<1>4. \A k \in 1..i : k \in 1..Total(w)
  BY <1>1
<1>5. [k \in 1..i |-> d[k]] = [k \in 1..i |-> size(k, DataTypes)]
  BY <1>1, <1>4
<1>6. \A k \in 1..i : a[k] \in Nat /\ size(k, AudioTypes) = 3 * a[k] /\ 3 * a[k] \in Nat
  BY <1>1, <1>4
<1> HIDE DEF size
<1>7. s \in Seq(Nat) /\ t \in Seq(Nat) /\ Len(s) = i /\ Len(t) = i /\ \A k \in 1..i : t[k] = 3 * s[k]
  BY <1>1, <1>6
<1> HIDE DEF s, t
<1>8. Sum(t) = 3 * Sum(s) /\ Sum(s) \in Nat
  BY <1>7, SumTriple, SumType
<1>9. Before(w, i, DataTypes) = UpTo(d, i)
  BY <1>2, <1>3, <1>5
<1>10. Before(w, i, AudioTypes) = 3 * UpTo(a, i) /\ UpTo(a, i) \in Nat
  BY <1>2, <1>3, <1>8 DEF t
<1> QED
  BY <1>9, <1>10 DEF d, a, types

(* All data in one, and all audio. *)
LEMMA AllLaid ==
  ASSUME Inv, NEW w \in Worker, job[w].pc \in {"chunked", "verified"}, LaidOut(w)
  PROVE  LET D == DataParts(Sectors(w), job[w].types)
             A == AudioParts(Sectors(w), job[w].types)
         IN /\ D \in Seq(Seq(UserUnits)) /\ Len(D) = Total(w)
            /\ Stream(w) \in Seq(UserUnits) /\ InPlace(D, Total(w), Stream(w))
            /\ A \in Seq(Seq(Sector)) /\ Len(A) = Total(w)
            /\ AudioStream(w) \in Seq(Sector) /\ InPlace(A, Total(w), AudioStream(w))
            /\ BlocksOk(Sectors(w), job[w].types, job[w].audio_map, Total(w))
<1> DEFINE D == DataParts(Sectors(w), job[w].types)
           A == AudioParts(Sectors(w), job[w].types)
<1>1. /\ D \in Seq(Seq(UserUnits)) /\ Len(D) = Total(w)
      /\ A \in Seq(Seq(Sector)) /\ Len(A) = Total(w)
  <2>1. /\ job[w].types \in Seq(SectorType) /\ Len(job[w].types) = Total(w)
        /\ Sectors(w) \in Seq(Sector) /\ Len(job[w].types) = Len(Sectors(w))
    BY TypesAfter DEF AfterMapping
  <2> QED
    BY <2>1, AddedAre
<1>2. /\ Stream(w) = FirstOf(D, Total(w)) /\ AudioStream(w) = FirstOf(A, Total(w))
      /\ BlocksOk(Sectors(w), job[w].types, job[w].audio_map, Total(w))
  BY DEF LaidOut, AfterMapping
<1> HIDE DEF D, A
<1>3. FirstOf(D, Total(w)) = FlattenSeq(D) /\ FirstOf(A, Total(w)) = FlattenSeq(A)
  <2>1. SubSeq(D, 1, Len(D)) = D
    BY <1>1, SubSeqFull
  <2>2. SubSeq(A, 1, Len(A)) = A
    BY <1>1, SubSeqFull
  <2> QED
    BY <1>1, <2>1, <2>2 DEF FirstOf
<1>4. FlattenSeq(D) \in Seq(UserUnits) /\ InPlace(D, Len(D), FlattenSeq(D))
  BY <1>1, FlattenInPlace
<1>5. FlattenSeq(A) \in Seq(Sector) /\ InPlace(A, Len(A), FlattenSeq(A))
  BY <1>1, FlattenInPlace
<1> QED
  BY <1>1, <1>2, <1>3, <1>4, <1>5 DEF D, A

(* A data sector's user data is where the verification reads it. *)
LEMMA DataRead ==
  ASSUME Inv, NEW w \in Worker, job[w].pc \in {"chunked", "verified"}, LaidOut(w),
         NEW i \in 0..(Total(w) - 1), IsData(job[w].types[i + 1])
  PROVE  /\ Units(Raw(w, i).user, data_size(job[w].types[i + 1])) \in Seq(UserUnits)
         /\ Len(Units(Raw(w, i).user, data_size(job[w].types[i + 1]))) = data_size(job[w].types[i + 1])
         /\ Slice(Stream(w), Before(w, i, DataTypes), data_size(job[w].types[i + 1]))
              = Units(Raw(w, i).user, data_size(job[w].types[i + 1]))
<1> DEFINE D == DataParts(Sectors(w), job[w].types)
           p == i + 1
           n == data_size(job[w].types[p])
           u == Units(Raw(w, i).user, n)
<1>1. Total(w) \in Nat /\ Len(job[w].types) = Total(w) /\ Raw(w, i) \in Sector
  BY TypesAfter DEF AfterMapping
<1>2. p \in 1..Total(w) /\ p - 1 = i /\ i \in 0..Total(w)
  BY <1>1
<1>3. /\ D \in Seq(Seq(UserUnits)) /\ Len(D) = Total(w)
      /\ Stream(w) \in Seq(UserUnits) /\ InPlace(D, Total(w), Stream(w))
  BY AllLaid
<1>4. D[p] = u
  BY <1>1, <1>2 DEF DataParts, Raw
<1>5. n \in Nat
  BY DEF data_size
<1>6. u \in Seq(UserUnits) /\ Len(u) = n
  <2> HIDE DEF n
  <2> QED
    BY <1>1, <1>5, UnitsAre
<1>7. Before(w, i, DataTypes) = UpTo(Lengths_(D), i)
  BY <1>2, BeforeIs DEF AfterMapping
<1> HIDE DEF D, p, u
<1>8. Slice(Stream(w), UpTo(Lengths_(D), p - 1), Len(D[p])) = D[p]
  <2> DEFINE whole == Stream(w)
  <2>1. D \in Seq(Seq(UserUnits)) /\ p \in 1..Len(D) /\ whole \in Seq(UserUnits) /\ InPlace(D, Len(D), whole)
    BY <1>2, <1>3
  <2> HIDE DEF whole
  <2>2. Slice(whole, UpTo(Lengths_(D), p - 1), Len(D[p])) = D[p]
    BY <2>1, PartRead
  <2> QED
    BY <2>2 DEF whole
<1> QED
  BY <1>2, <1>4, <1>6, <1>7, <1>8 DEF u, p

(* And an audio sector is. *)
LEMMA AudioRead ==
  ASSUME Inv, NEW w \in Worker, job[w].pc \in {"chunked", "verified"}, LaidOut(w),
         NEW i \in 0..(Total(w) - 1), job[w].types[i + 1] \in AudioTypes
  PROVE  AudioStream(w)[(Before(w, i, AudioTypes) \div 3) + 1] = Raw(w, i)
<1> DEFINE A == AudioParts(Sectors(w), job[w].types)
           p == i + 1
           b == UpTo(Lengths_(A), i)
<1>1. Total(w) \in Nat /\ Len(job[w].types) = Total(w) /\ Raw(w, i) \in Sector
  BY TypesAfter DEF AfterMapping
<1>2. p \in 1..Total(w) /\ p - 1 = i /\ i \in 0..Total(w)
  BY <1>1
<1>3. /\ A \in Seq(Seq(Sector)) /\ Len(A) = Total(w)
      /\ AudioStream(w) \in Seq(Sector) /\ InPlace(A, Total(w), AudioStream(w))
  BY AllLaid
<1>4. A[p] = << Raw(w, i) >>
  <2>1. ~IsData(job[w].types[p])
    BY DEF IsData, DataTypes, AudioTypes, Mode1, Mode2Form1, Mode1Exception, Mode2Form1Exception, Zeroed
  <2> QED
    BY <1>1, <1>2, <2>1 DEF AudioParts, Raw
<1>5. b \in Nat /\ Before(w, i, AudioTypes) = 3 * b
  BY <1>2, BeforeIs DEF AfterMapping
<1>6. (3 * b) \div 3 = b
  <2> HIDE DEF b
  <2> QED
    BY <1>5
<1> HIDE DEF A, p
<1>7. \A j \in 1..Len(A[p]) : AudioStream(w)[UpTo(Lengths_(A), p - 1) + j] = A[p][j]
  <2> DEFINE whole == AudioStream(w)
  <2>1. A \in Seq(Seq(Sector)) /\ p \in 1..Len(A) /\ whole \in Seq(Sector) /\ InPlace(A, Len(A), whole)
    BY <1>2, <1>3
  <2> HIDE DEF whole
  <2>2. \A j \in 1..Len(A[p]) : whole[UpTo(Lengths_(A), p - 1) + j] = A[p][j]
    BY <2>1 DEF InPlace
  <2> QED
    BY <2>2 DEF whole
<1>8. 1 \in 1..Len(A[p]) /\ A[p][1] = Raw(w, i)
  BY <1>4
<1>9. AudioStream(w)[b + 1] = Raw(w, i)
  BY <1>2, <1>7, <1>8
<1> QED
  BY <1>5, <1>6, <1>9

-----------------------------------------------------------------------------
(* The address of a sector. *)

LEMMA IndexExists ==
  ASSUME NEW table, NEW types, NEW n \in Nat
  PROVE  \E f : IsIndex(table, types, n, f)
<1> DEFINE G == {m \in Nat : \E f : IsIndex(table, types, m, f)}
<1>1. 0 \in G
  <2>1. IsIndex(table, types, 0, [k \in 0..0 |-> 1])
    BY DEF IsIndex
  <2> QED
    BY <2>1
<1>2. ASSUME NEW m \in Nat, m \in G PROVE m + 1 \in G
  <2>1. PICK f : IsIndex(table, types, m, f)
    BY <1>2
  <2> DEFINE v == Moved(table, types, m + 1, f[m])
             g == [k \in 0..(m + 1) |-> IF k = m + 1 THEN v ELSE f[k]]
  <2>2. f \in [0..m -> Nat] /\ f[m] \in Nat /\ f[0] = 1
    BY <2>1 DEF IsIndex
  <2>3. v \in Nat
    BY <2>2 DEF Moved
  <2> HIDE DEF v
  <2>4. g \in [0..(m + 1) -> Nat] /\ g[0] = 1
    BY <2>2, <2>3
  <2>5. ASSUME NEW k \in 1..(m + 1) PROVE g[k] = Moved(table, types, k, g[k - 1])
    <3>1. CASE k = m + 1
      <4>1. k - 1 = m /\ g[k - 1] = f[m] /\ g[k] = v
        BY <3>1
      <4> HIDE DEF g
      <4> QED
        BY <3>1, <4>1 DEF v
    <3>2. CASE k # m + 1
      <4>1. k \in 1..m /\ g[k] = f[k] /\ g[k - 1] = f[k - 1]
        BY <3>2
      <4>2. f[k] = Moved(table, types, k, f[k - 1])
        BY <2>1, <4>1 DEF IsIndex
      <4> HIDE DEF g
      <4> QED
        BY <4>1, <4>2
    <3> QED
      BY <3>1, <3>2
  <2> HIDE DEF g
  <2>6. IsIndex(table, types, m + 1, g)
    BY <2>4, <2>5 DEF IsIndex
  <2> QED
    BY <2>6
<1> HIDE DEF G
<1>3. Nat \subseteq G
  BY <1>1, <1>2, UpFromZero
<1> QED
  BY <1>3 DEF G

(* The place is one of the table, and moves as the code moves it. *)
LEMMA LbaIndexIs ==
  ASSUME Inv, NEW w \in Worker, job[w].pc \in AfterMapping
  PROVE  IsIndex(job[w].lba_map, job[w].types, Total(w), LbaIndex(w))
<1> DEFINE table == job[w].lba_map
           types == job[w].types
           n == Total(w)
           Rec(f) == f = [k \in 0..n |->
             IF k = 0 THEN 1
             ELSE IF /\ types[k] \in DataTypes
                     /\ Len(table) > f[k - 1]
                     /\ table[f[k - 1]][2] + (k - 1) >= table[f[k - 1] + 1][1]
                  THEN f[k - 1] + 1 ELSE f[k - 1]]
           Rec_(f) == f = [k \in 0..n |-> IF k = 0 THEN 1 ELSE Moved(table, types, k, f[k - 1])]
<1>1. Types(w) = types /\ n \in Nat
  BY TypesAfter
<1>2. LbaIndex(w) = CHOOSE f : Rec(f)
  BY <1>1 DEF LbaIndex
<1> HIDE DEF table, types, n
<1>3. \A f : Rec(f) <=> Rec_(f)
  BY DEF Moved
<1>4. PICK f : IsIndex(table, types, n, f)
  BY <1>1, IndexExists
<1>5. Rec_(f)
  <2>1. f = [k \in 0..n |-> f[k]] /\ f[0] = 1
    BY <1>4 DEF IsIndex
  <2>2. \A k \in 0..n : k # 0 => k \in 1..n
    BY <1>1
  <2>3. \A k \in 0..n : f[k] = IF k = 0 THEN 1 ELSE Moved(table, types, k, f[k - 1])
    BY <1>4, <2>1, <2>2 DEF IsIndex
  <2> QED
    BY <2>1, <2>3
<1> DEFINE at == LbaIndex(w)
<1>6. Rec(at)
  <2> HIDE DEF Rec, Rec_
  <2> QED
    BY <1>2, <1>3, <1>5
<1>7. Rec_(at)
  BY <1>3, <1>6
<1> HIDE DEF at, Rec
<1> DEFINE G == {k \in Nat : k <= n => at[k] \in Nat}
<1>8. at[0] = 1 /\ \A k \in 1..n : at[k] = Moved(table, types, k, at[k - 1])
  <2>1. 0 \in 0..n /\ \A k \in 1..n : k \in 0..n /\ k # 0
    BY <1>1
  <2> QED
    BY <1>7, <2>1
<1>9. ASSUME NEW k \in Nat, k \in G PROVE k + 1 \in G
  <2> SUFFICES ASSUME k + 1 <= n PROVE at[k + 1] \in Nat
    OBVIOUS
  <2>1. k + 1 \in 1..n /\ (k + 1) - 1 = k /\ at[k] \in Nat
    BY <1>1, <1>9
  <2>2. at[k + 1] = Moved(table, types, k + 1, at[k])
    BY <1>8, <2>1
  <2> QED
    BY <2>1, <2>2 DEF Moved
<1>10. Nat \subseteq G
  <2>1. 0 \in G
    BY <1>8
  <2> HIDE DEF G
  <2> QED
    BY <1>9, <2>1, UpFromZero
<1>11. at \in [0..n -> Nat]
  <2>1. at = [k \in 0..n |-> IF k = 0 THEN 1 ELSE Moved(table, types, k, at[k - 1])]
    BY <1>7
  <2>2. DOMAIN at = 0..n
    BY <2>1
  <2>3. \A k \in 0..n : at[k] \in Nat
    BY <1>1, <1>10
  <2>4. at = [k \in 0..n |-> at[k]]
    BY <2>1, <2>2
  <2> QED
    BY <2>3, <2>4
<1> QED
  BY <1>8, <1>11 DEF IsIndex, at, table, types, n

LEMMA AddressOf ==
  ASSUME NEW table \in Seq(Nat \X Nat), NEW d \in Nat, PlainTable(table, d),
         NEW types, NEW n \in Nat, NEW at, IsIndex(table, types, n, at),
         NEW i \in 0..(n - 1), types[i + 1] \in DataTypes, table[Len(table)][1] <= i
  PROVE  table[at[i + 1]][2] = d
<1> DEFINE G == {k \in Nat : k <= n => at[k] \in 1..Len(table)}
<1>1. Len(table) \in {1, 2} /\ \A k \in 1..Len(table) : table[k][1] \in Nat /\ table[k][2] \in Nat
  BY DEF PlainTable
<1>2. at[0] = 1 /\ \A k \in 1..n : at[k] = Moved(table, types, k, at[k - 1])
  BY DEF IsIndex
<1>3. ASSUME NEW k \in Nat, k \in G PROVE k + 1 \in G
  <2> SUFFICES ASSUME k + 1 <= n PROVE at[k + 1] \in 1..Len(table)
    OBVIOUS
  <2>1. k + 1 \in 1..n /\ (k + 1) - 1 = k /\ at[k] \in 1..Len(table)
    BY <1>3
  <2>2. at[k + 1] = Moved(table, types, k + 1, at[k])
    BY <1>2, <2>1
  <2> DEFINE a == at[k]
             l == Len(table)
  <2> HIDE DEF a, l
  <2>3. a \in 1..l /\ l \in Nat
    BY <1>1, <2>1 DEF a, l
  <2>4. l > a => a + 1 \in 1..l
    BY <2>3
  <2> QED
    BY <2>1, <2>2, <2>3, <2>4 DEF Moved, a, l
<1>4. Nat \subseteq G
  <2>1. 0 \in G
    BY <1>1, <1>2
  <2> HIDE DEF G
  <2> QED
    BY <1>3, <2>1, UpFromZero
<1>5. at[i] \in 1..Len(table) /\ at[i + 1] = Moved(table, types, i + 1, at[i]) /\ (i + 1) - 1 = i
  <2>1. i \in Nat /\ i <= n /\ i + 1 \in 1..n /\ (i + 1) - 1 = i
    OBVIOUS
  <2> QED
    BY <1>2, <1>4, <2>1
<1>6. CASE Len(table) = 1
  <2>1. at[i] = 1 /\ ~(Len(table) > at[i])
    BY <1>5, <1>6
  <2>2. at[i + 1] = 1
    BY <1>5, <2>1 DEF Moved
  <2> QED
    BY <1>6, <2>2 DEF PlainTable
<1>7. CASE Len(table) = 2
  <2>1. table[1][2] = 0 /\ table[2][2] = d /\ table[2][1] <= i /\ table[2][1] \in Nat
    BY <1>1, <1>7 DEF PlainTable
  <2>2. CASE at[i] = 1
    <3>1. Len(table) > at[i] /\ table[at[i]][2] + i >= table[at[i] + 1][1]
      <4>1. at[i] + 1 = 2 /\ 2 > 1
        BY <2>2
      <4> DEFINE t == table[2][1]
      <4> HIDE DEF t
      <4>2. 0 + i >= t
        BY <2>1 DEF t
      <4> QED
        BY <1>7, <2>1, <2>2, <4>1, <4>2 DEF t
    <3>2. at[i + 1] = at[i] + 1
      BY <1>5, <3>1 DEF Moved
    <3>3. at[i + 1] = 2
      BY <2>2, <3>2
    <3> QED
      BY <2>1, <3>3
  <2>3. CASE at[i] = 2
    <3>1. ~(Len(table) > at[i])
      BY <1>7, <2>3
    <3>2. at[i + 1] = 2
      BY <1>5, <2>3, <3>1 DEF Moved
    <3> QED
      BY <2>1, <3>2
  <2>4. at[i] \in 1..2
    BY <1>5, <1>7
  <2> QED
    BY <2>2, <2>3, <2>4
<1> QED
  BY <1>1, <1>6, <1>7

(* The search from the start ends there as well. *)
LEMMA AddressSearched ==
  ASSUME NEW w, job[w].lba_map \in Seq(Nat \X Nat), NEW d \in Nat, PlainTable(job[w].lba_map, d),
         NEW i \in Nat, job[w].lba_map[Len(job[w].lba_map)][1] <= i
  PROVE  job[w].lba_map[LbaSearch(w, i)][2] = d
<1> DEFINE table == job[w].lba_map
           stays(k) == table[k][2] + i < table[k + 1][1]
           k == LbaSearch(w, i)
           Wanted(m) == (m = Len(table) \/ stays(m)) /\ \A j \in 1..(m - 1) : ~stays(j)
<1>1. Len(table) \in {1, 2} /\ \A m \in 1..Len(table) : table[m][1] \in Nat /\ table[m][2] \in Nat
  BY DEF PlainTable
<1>2. DOMAIN table = 1..Len(table)
  OBVIOUS
<1>3. k = CHOOSE m \in DOMAIN table : Wanted(m)
  BY DEF LbaSearch
<1>4. table[Len(table)][1] <= i /\ PlainTable(table, d)
  OBVIOUS
<1> HIDE DEF table, k
<1>5. CASE Len(table) = 1
  <2>1. 1 \in DOMAIN table /\ Wanted(1)
    BY <1>2, <1>5
  <2>2. k \in DOMAIN table
    <3> HIDE DEF Wanted
    <3> QED
      BY <1>3, <2>1
  <2>3. k = 1
    BY <1>2, <1>5, <2>2
  <2> QED
    BY <1>4, <1>5, <2>3 DEF PlainTable, table, k
<1>6. CASE Len(table) = 2
  <2>1. table[1][2] = 0 /\ table[2][2] = d /\ table[2][1] <= i /\ table[2][1] \in Nat
    BY <1>1, <1>4, <1>6 DEF PlainTable
  <2>2. ~stays(1)
    <3> DEFINE t == table[2][1]
    <3>1. 1 + 1 = 2
      OBVIOUS
    <3> HIDE DEF t
    <3>2. ~(0 + i < t)
      BY <2>1 DEF t
    <3> QED
      BY <2>1, <3>1, <3>2 DEF t
  <2> HIDE DEF stays
  <2>3. 2 \in DOMAIN table /\ Wanted(2)
    <3>1. \A j \in 1..(2 - 1) : j = 1
      OBVIOUS
    <3> QED
      BY <1>2, <1>6, <2>2, <3>1
  <2>4. k \in DOMAIN table /\ Wanted(k)
    <3> HIDE DEF Wanted
    <3> QED
      BY <1>3, <2>3
  <2>5. k \in 1..2 /\ k # 1
    BY <1>2, <1>6, <2>2, <2>4
  <2>6. k = 2
    BY <2>5
  <2> QED
    BY <2>1, <2>6 DEF table, k
<1> QED
  BY <1>1, <1>5, <1>6

LEMMA PlainSays ==
  ASSUME Inv, NEW w \in Worker, job[w].pc \in AfterMapping, Plain(w)
  PROVE  /\ Addressed(w) # {}
         /\ \E d \in Nat : \A i \in Addressed(w) : Raw(w, i).addr = i + d
         /\ \A i \in Addressed(w) : job[w].types[i + 1] \notin LostTypes
<1> DEFINE data == {i \in 0..(Total(w) - 1) : IsData(Coarse(Normalized(w), i))}
           addressed == {i \in data : Raw(w, i) # Zero}
<1>1. addressed # {}
  BY DEF Plain
<1>2. \A i \in addressed :
        /\ Raw(w, i).addr >= i
        /\ \A j \in addressed : Raw(w, i).addr - i = Raw(w, j).addr - j
        /\ Analyzed(Raw(w, i), Coarse(Normalized(w), i)) \notin LostTypes
  BY DEF Plain, LostTypes
<1>3. \A i \in 0..(Total(w) - 1) :
        /\ IsData(job[w].types[i + 1]) =>
             /\ IsData(Coarse(Normalized(w), i))
             /\ job[w].types[i + 1] = Analyzed(Raw(w, i), Coarse(Normalized(w), i))
        /\ IsData(Coarse(Normalized(w), i)) => IsData(job[w].types[i + 1])
        /\ Raw(w, i) \in Sector
  BY TypesAfter
<1>4. addressed = Addressed(w)
  BY <1>3 DEF Addressed
<1>5. \A i \in addressed : Raw(w, i).addr \in Nat /\ i \in Nat
  BY <1>3, DiscMapAssumption
<1> HIDE DEF addressed
<1>6. PICK a \in addressed : TRUE
  BY <1>1
<1>7. \E d \in Nat : \A i \in addressed : Raw(w, i).addr = i + d
  <2> DEFINE addr(i) == Raw(w, i).addr
  <2>1. \A i \in addressed : addr(i) \in Nat /\ i \in Nat /\ addr(i) - i = addr(a) - a
    BY <1>2, <1>5, <1>6
  <2>2. addr(a) >= a /\ a \in Nat /\ addr(a) \in Nat
    BY <1>2, <1>5, <1>6
  <2> HIDE DEF addr
  <2>3. addr(a) - a \in Nat
    BY <2>2
  <2>4. ASSUME NEW i \in addressed PROVE addr(i) = i + (addr(a) - a)
    <3> DEFINE x == addr(i)
               y == addr(a)
    <3>1. x \in Nat /\ i \in Nat /\ x - i = y - a /\ y \in Nat /\ a \in Nat
      BY <2>1, <2>2, <2>4
    <3> HIDE DEF x, y
    <3>2. x = i + (y - a)
      BY <3>1
    <3> QED
      BY <3>2 DEF x, y
  <2>5. \E d \in Nat : \A i \in addressed : addr(i) = i + d
    BY <2>3, <2>4
  <2> QED
    BY <2>5 DEF addr
<1>8. \A i \in addressed : job[w].types[i + 1] \notin LostTypes
  <2> SUFFICES ASSUME NEW i \in addressed PROVE job[w].types[i + 1] \notin LostTypes
    OBVIOUS
  <2>1. i \in 0..(Total(w) - 1) /\ IsData(job[w].types[i + 1])
    BY <1>4 DEF Addressed
  <2> QED
    BY <1>2, <1>3, <2>1
<1> QED
  BY <1>1, <1>4, <1>7, <1>8

(* Of a table of one offset. *)
LEMMA TwoAtMost ==
  ASSUME NEW table \in Seq(Nat \X Nat), NEW d \in Nat, NEW t \in DOMAIN table, table[t][2] = d,
         \A k \in DOMAIN table : table[k][2] = d \/ table[k] = <<0, 0>>,
         \A k, l \in DOMAIN table : k < l => table[k][1] < table[l][1],
         \A k \in DOMAIN table : k + 1 \in DOMAIN table => table[k][2] # table[k + 1][2]
  PROVE  PlainTable(table, d) /\ t = Len(table)
<1>1. Len(table) \in Nat /\ DOMAIN table = 1..Len(table) /\ \A k \in DOMAIN table : table[k][1] \in Nat
  OBVIOUS
<1>2. ASSUME NEW k \in DOMAIN table, k # 1 PROVE table[k][2] = d
  <2>1. 1 \in DOMAIN table /\ 1 < k
    BY <1>1, <1>2
  <2>2. table[1][1] < table[k][1] /\ table[1][1] \in Nat
    BY <1>1, <2>1
  <2>3. table[k][1] # 0
    BY <1>1, <2>2
  <2>4. table[k] # <<0, 0>>
    BY <2>3
  <2> QED
    BY <2>4
<1>3. Len(table) <= 2
  <2> SUFFICES ASSUME Len(table) > 2 PROVE FALSE
    BY <1>1
  <2>1. 2 \in DOMAIN table /\ 3 \in DOMAIN table /\ 2 + 1 = 3
    BY <1>1
  <2>2. table[2][2] = d /\ table[3][2] = d
    BY <1>2, <2>1
  <2> QED
    BY <2>1, <2>2
<1>4. CASE Len(table) = 1
  <2>1. t = 1
    BY <1>1, <1>4
  <2> QED
    BY <1>4, <2>1 DEF PlainTable
<1>5. CASE Len(table) = 2
  <2>1. 1 \in DOMAIN table /\ 2 \in DOMAIN table /\ 1 + 1 = 2
    BY <1>1, <1>5
  <2>2. table[2][2] = d /\ table[1][2] # table[2][2]
    BY <1>2, <2>1
  <2>3. table[1][2] # d
    BY <2>2
  <2>4. table[1] = <<0, 0>>
    BY <2>1, <2>3
  <2>5. table[1][2] = 0
    BY <2>4
  <2>6. t = 2
    <3>1. t \in {1, 2}
      BY <1>1, <1>5
    <3> QED
      BY <2>3, <3>1
  <2> QED
    BY <1>5, <2>2, <2>3, <2>5, <2>6 DEF PlainTable
<1>6. Len(table) \in {1, 2}
  BY <1>1, <1>3
<1> QED
  BY <1>4, <1>5, <1>6

LEMMA PlainTableIs ==
  ASSUME Inv, NEW w \in Worker, job[w].pc \in AfterMapping, Plain(w)
  PROVE  /\ job[w].lba_map \in Seq(Nat \X Nat)
         /\ \E d \in Nat :
              /\ PlainTable(job[w].lba_map, d)
              /\ \A i \in Addressed(w) :
                   Raw(w, i).addr = i + d /\ job[w].lba_map[Len(job[w].lba_map)][1] <= i
<1> DEFINE table == job[w].lba_map
<1>1. table \in Seq(Nat \X Nat) /\ MapInv(w)
  BY DEF Inv, Typed, Jobs
<1>2. TableOk(Sectors(w), table, MappedData(w))
  BY <1>1 DEF MapInv
<1>3. PICK d \in Nat : \A i \in Addressed(w) : Raw(w, i).addr = i + d
  BY PlainSays
<1>4. /\ Total(w) \in Nat
      /\ \A i \in 0..(Total(w) - 1) : IsData(job[w].types[i + 1]) => i \in MappedData(w)
  BY TypesAfter
<1>5. \A i \in MappedData(w) : i \in Nat /\ (i \in Addressed(w) \/ Raw(w, i) = Zero)
  <2>1. MappedCount(w) = Total(w)
    BY DEF MappedCount, AfterMapping
  <2> QED
    BY <1>4, <2>1 DEF MappedData, Addressed
<1>6. Addressed(w) \subseteq MappedData(w) /\ Addressed(w) # {} /\ Addressed(w) \subseteq Nat
  BY <1>4, PlainSays DEF Addressed
<1> HIDE DEF table
<1>7. \A k \in DOMAIN table : table[k][1] \in Nat /\ table[k][2] \in Nat /\ table[k] = <<table[k][1], table[k][2]>>
  <2>1. \A k \in DOMAIN table : table[k] \in Nat \X Nat
    BY <1>1
  <2> QED
    BY <2>1
<1>8. ASSUME NEW k \in DOMAIN table PROVE table[k][2] = d \/ table[k] = <<0, 0>>
  <2> DEFINE i == table[k][1]
             o == table[k][2]
  <2>1. i \in MappedData(w) /\ Raw(w, i).addr = i + o
    BY <1>2, <1>8 DEF TableOk, Raw
  <2>2. i \in Nat /\ o \in Nat /\ table[k] = <<i, o>>
    BY <1>7
  <2> HIDE DEF i, o
  <2>3. CASE i \in Addressed(w)
    <3>1. i + o = i + d
      BY <1>3, <2>1, <2>3
    <3>2. o = d
      BY <2>2, <3>1
    <3> QED
      BY <3>2 DEF o
  <2>4. CASE Raw(w, i) = Zero
    <3>1. i + o = 0
      BY <2>1, <2>4 DEF Zero
    <3>2. i = 0 /\ o = 0
      BY <2>2, <3>1
    <3> QED
      BY <2>2, <3>2
  <2> QED
    BY <1>5, <2>1, <2>3, <2>4
<1>9. ASSUME NEW i \in Addressed(w)
      PROVE  \E t \in DOMAIN table : table[t][1] <= i /\ table[t][2] = d
  <2>1. i \in MappedData(w) /\ i \in Nat /\ Raw(w, i).addr = i + d
    BY <1>3, <1>6
  <2>2. Raw(w, i).addr >= i
    BY <2>1
  <2>3. PICK t \in DOMAIN table : table[t][1] <= i /\ i + table[t][2] = Raw(w, i).addr
    BY <1>2, <2>1, <2>2 DEF TableOk, Raw
  <2> DEFINE o == table[t][2]
  <2>4. o \in Nat /\ i + o = i + d
    BY <1>7, <2>1, <2>3
  <2> HIDE DEF o
  <2>5. o = d
    BY <2>1, <2>4
  <2> QED
    BY <2>3, <2>5 DEF o
<1>10. /\ \A k, l \in DOMAIN table : k < l => table[k][1] < table[l][1]
       /\ \A k \in DOMAIN table : k + 1 \in DOMAIN table => table[k][2] # table[k + 1][2]
  BY <1>2 DEF TableOk
<1>11. \A t \in DOMAIN table : table[t][2] = d => PlainTable(table, d) /\ t = Len(table)
  BY <1>1, <1>8, <1>10, TwoAtMost
<1>12. \A i \in Addressed(w) : table[Len(table)][1] <= i
  <2> SUFFICES ASSUME NEW i \in Addressed(w) PROVE table[Len(table)][1] <= i
    OBVIOUS
  <2>1. PICK t \in DOMAIN table : table[t][1] <= i /\ table[t][2] = d
    BY <1>9
  <2> QED
    BY <1>11, <2>1
<1>13. PlainTable(table, d)
  <2>1. PICK i \in Addressed(w) : TRUE
    BY <1>6
  <2>2. PICK t \in DOMAIN table : table[t][2] = d
    BY <1>9
  <2> QED
    BY <1>11, <2>2
<1> QED
  BY <1>1, <1>3, <1>12, <1>13 DEF table

(* So both find the address. *)
LEMMA AddressFound ==
  ASSUME Inv, NEW w \in Worker, job[w].pc \in AfterMapping, Plain(w), NEW i \in Addressed(w)
  PROVE  /\ job[w].lba_map # << >>
         /\ i + job[w].lba_map[LbaIndex(w)[i + 1]][2] = Raw(w, i).addr
         /\ i + job[w].lba_map[LbaSearch(w, i)][2] = Raw(w, i).addr
<1>1. PICK d \in Nat : /\ PlainTable(job[w].lba_map, d)
                       /\ Raw(w, i).addr = i + d /\ job[w].lba_map[Len(job[w].lba_map)][1] <= i
  BY PlainTableIs
<1>2. i \in 0..(Total(w) - 1) /\ job[w].types[i + 1] \in DataTypes /\ Total(w) \in Nat
  BY TypesAfter DEF Addressed, IsData
<1>3. IsIndex(job[w].lba_map, job[w].types, Total(w), LbaIndex(w))
  BY LbaIndexIs
<1>4. job[w].lba_map \in Seq(Nat \X Nat) /\ i \in Nat
  BY <1>2, PlainTableIs
<1>5. job[w].lba_map[LbaSearch(w, i)][2] = d
  BY <1>1, <1>4, AddressSearched
<1>6. job[w].lba_map[LbaIndex(w)[i + 1]][2] = d
  <2> DEFINE table == job[w].lba_map
             types == job[w].types
             at == LbaIndex(w)
             n == Total(w)
  <2>1. /\ table \in Seq(Nat \X Nat) /\ PlainTable(table, d) /\ n \in Nat /\ IsIndex(table, types, n, at)
        /\ i \in 0..(n - 1) /\ types[i + 1] \in DataTypes /\ table[Len(table)][1] <= i
    BY <1>1, <1>2, <1>3, <1>4
  <2> HIDE DEF table, types, at, n
  <2>2. table[at[i + 1]][2] = d
    BY <2>1, AddressOf, SMTT(60)
  <2> QED
    BY <2>2 DEF table, at
<1>7. job[w].lba_map # << >>
  <2>1. Len(job[w].lba_map) # 0
    BY <1>1 DEF PlainTable
  <2> QED
    BY <2>1
<1> QED
  BY <1>1, <1>5, <1>6, <1>7

-----------------------------------------------------------------------------
(* Rebuilding a sector. *)

(* The last entry found is one of those found. *)
LEMMA LastIfIs ==
  ASSUME NEW T, NEW index \in Seq(T), NEW found, found \subseteq DOMAIN index, found # {}
  PROVE  \E k \in found : LastIf(index, found) = << index[k] >>
<1>1. Len(index) \in Nat /\ found \subseteq 0..Len(index)
  OBVIOUS
<1>2. Max(found) \in found
  BY <1>1, MaxOf
<1> QED
  BY <1>2 DEF LastIf

LEMMA SubheaderFound ==
  ASSUME Inv, NEW w \in Worker, job[w].pc \in AfterMapping,
         NEW i \in 0..(Total(w) - 1), IsData(job[w].types[i + 1])
  PROVE  /\ SubheaderOf(w, i) # << >>
         /\ subheaders[SubheaderOf(w, i)[1].data_id] = Metadata(Raw(w, i), job[w].types[i + 1])
<1> DEFINE index == job[w].subheader_index
           found == {k \in DOMAIN index : Covers(index[k], i)}
<1>1. index \in Seq(Runners) /\ MapInv(w) /\ PlaceInv(w)
  BY DEF Inv, Typed, Jobs
<1>2. Entries(w) = index
  BY <1>1, ConcatEmptySeq DEF PlaceInv, Entries
<1>3. i \in MappedData(w) /\ i \in Nat
  BY TypesAfter
<1>4. EntriesOk(Sectors(w), index, MappedData(w), subheaders, job[w].types)
  BY <1>1, <1>2 DEF MapInv
<1> HIDE DEF index
<1>5. found # {} /\ found \subseteq DOMAIN index
  BY <1>3, <1>4 DEF EntriesOk
<1>6. \A k \in found : subheaders[index[k].data_id] = Metadata(Raw(w, i), job[w].types[i + 1])
  BY <1>3, <1>4 DEF EntriesOk, Raw
<1>7. SubheaderOf(w, i) = LastIf(index, found)
  BY DEF SubheaderOf, index
<1> HIDE DEF found
<1>8. PICK k \in found : LastIf(index, found) = << index[k] >>
  BY <1>1, <1>5, LastIfIs
<1> QED
  BY <1>6, <1>7, <1>8

LEMMA ExceptionFound ==
  ASSUME Inv, NEW w \in Worker, job[w].pc \in AfterMapping,
         NEW i \in 0..(Total(w) - 1), IsData(job[w].types[i + 1]),
         job[w].types[i + 1] \in {"Mode1Exception", "Mode2Form1Exception", "Mode2Form2Exception"}
  PROVE  /\ ExceptionAt(w, i) # << >>
         /\ exceptions[ExceptionAt(w, i)[1][2]] = <<Raw(w, i).addr, Raw(w, i).ecc>>
<1> DEFINE index == job[w].exception_index
           found == {k \in DOMAIN index : index[k][1] = i}
<1>1. index \in Seq(Nat \X Nat) /\ MapInv(w)
  BY DEF Inv, Typed, Jobs
<1>2. i \in MappedData(w) /\ i \in Nat
  BY TypesAfter
<1>3. DamageOk(Sectors(w), index, MappedData(w), exceptions, job[w].types)
  BY <1>1 DEF MapInv
<1>4. ExceptionOf(Raw(w, i), job[w].types[i + 1]) = << <<Raw(w, i).addr, Raw(w, i).ecc>> >>
  BY DEF ExceptionOf
<1> HIDE DEF index
<1>5. found # {} /\ found \subseteq DOMAIN index
  <2>1. ExceptionOf(Raw(w, i), job[w].types[i + 1]) # << >>
    BY <1>4
  <2>2. \E k \in DOMAIN index : index[k][1] = i
    BY <1>2, <1>3, <2>1 DEF DamageOk, Raw
  <2> QED
    BY <2>2
<1>6. ASSUME NEW k \in found
      PROVE exceptions[index[k][2]] = <<Raw(w, i).addr, Raw(w, i).ecc>>
  <2>1. k \in DOMAIN index /\ index[k][1] = i
    OBVIOUS
  <2>2. << exceptions[index[k][2]] >> = << <<Raw(w, i).addr, Raw(w, i).ecc>> >>
    BY <1>3, <1>4, <2>1 DEF DamageOk, Raw
  <2> QED
    BY <2>2
<1>7. ExceptionAt(w, i) = LastIf(index, found)
  BY DEF ExceptionAt, index
<1> HIDE DEF found
<1>8. PICK k \in found : LastIf(index, found) = << index[k] >>
  BY <1>1, <1>5, LastIfIs
<1> QED
  BY <1>6, <1>7, <1>8

(* What a sector of each mode is analyzed as. *)
LEMMA KindsOf ==
  ASSUME NEW s \in Sector, Known(s), NEW coarse \in {"Mode1", "PregapMode1", "Mode2Form1", "PregapMode2"},
         s # Zero => Analyzed(s, coarse) \notin LostTypes
  PROVE  \/ s = Zero /\ Analyzed(s, coarse) \in Zeroed
         \/ s.mode = 1 /\ s.form = 1 /\ s.ecc = "good" /\ Analyzed(s, coarse) \in Mode1
         \/ s.mode = 1 /\ s.form = 1 /\ Analyzed(s, coarse) = "Mode1Exception"
         \/ s.mode = 2 /\ s.form = 1 /\ s.ecc = "good" /\ Analyzed(s, coarse) = "Mode2Form1"
         \/ s.mode = 2 /\ s.form = 1 /\ Analyzed(s, coarse) = "Mode2Form1Exception"
         \/ s.mode = 2 /\ s.form = 2 /\ s.ecc = "good" /\ Analyzed(s, coarse) = "Mode2Form2"
         \/ s.mode = 2 /\ s.form = 2 /\ Analyzed(s, coarse) = "Mode2Form2Exception"
<1> DEFINE type == Analyzed(s, coarse)
<1>1. s.form \in {1, 2} /\ (s.mode = 1 => s.form = 1)
  BY DiscMapAssumption
<1>2. CASE s = Zero
  <2>1. s.mode = 0
    BY <1>2 DEF Zero
  <2>2. type \in Zeroed
    BY <2>1 DEF Analyzed, Zeroed
  <2> QED
    BY <1>2, <2>2
<1>3. CASE s # Zero /\ s.mode = 1 /\ s.ecc = "good"
  <2>1. type \in Mode1
    BY <1>3 DEF Analyzed, Mode1
  <2> QED
    BY <1>1, <1>3, <2>1
<1>4. CASE s # Zero /\ s.mode = 1 /\ s.ecc # "good"
  <2>1. type = "Mode1Exception"
    BY <1>4 DEF Analyzed, LostTypes
  <2> QED
    BY <1>1, <1>4, <2>1
<1>5. CASE s # Zero /\ s.mode = 2 /\ s.form = 2
  <2>1. type = IF s.ecc = "good" THEN "Mode2Form2" ELSE "Mode2Form2Exception"
    BY <1>5 DEF Analyzed
  <2> QED
    BY <1>5, <2>1
<1>6. CASE s # Zero /\ s.mode = 2 /\ s.form = 1 /\ s.ecc = "good"
  <2>1. type = "Mode2Form1"
    BY <1>6 DEF Analyzed, LostTypes
  <2> QED
    BY <1>6, <2>1
<1>7. CASE s # Zero /\ s.mode = 2 /\ s.form = 1 /\ s.ecc # "good"
  <2>1. type = "Mode2Form1Exception"
    BY <1>7 DEF Analyzed, LostTypes
  <2> QED
    BY <1>7, <2>1
<1>8. s # Zero => s.mode \in {1, 2}
  BY DEF Known
<1> QED
  BY <1>1, <1>2, <1>3, <1>4, <1>5, <1>6, <1>7, <1>8

(* A sector comes back with the user data it is given, and as it was        *)
(* otherwise.                                                               *)
LEMMA Rebuilt ==
  ASSUME Inv, NEW w \in Worker, job[w].pc \in AfterMapping,
         NEW i \in 0..(Total(w) - 1), IsData(job[w].types[i + 1]),
         i \in Addressed(w) => job[w].types[i + 1] \notin LostTypes,
         NEW user, NEW addr, i \in Addressed(w) => addr = Raw(w, i).addr
  PROVE  /\ rebuild_sector(w, i, user, addr) = [Raw(w, i) EXCEPT !.user = user]
         /\ rebuild_sector(w, i, user, addr) # Failed
<1> DEFINE s == Raw(w, i)
           type == job[w].types[i + 1]
           entry == SubheaderOf(w, i)
           ex == ExceptionAt(w, i)
           got == rebuild_sector(w, i, user, addr)
           sub == subheaders[entry[1].data_id]
           kept == exceptions[ex[1][2]]
           form2 == type \in {"Mode2Form2", "Mode2Form2Exception"}
           mode == IF type \in Mode1 \cup Mode1Exception THEN 1 ELSE 2
           form == IF form2 THEN 2 ELSE 1
           with(lba, ecc) == [mode |-> mode, form |-> form, addr |-> lba, user |-> user,
                                 ecc |-> ecc, sub |-> sub]
           whole == [mode |-> s.mode, form |-> s.form, addr |-> s.addr, sub |-> s.sub, user |-> user,
                     ecc |-> s.ecc]
<1>1. /\ Types(w)[i + 1] = type /\ s \in Sector /\ Known(s) /\ type = Analyzed(s, Coarse(Normalized(w), i))
      /\ Coarse(Normalized(w), i) \in {"Mode1", "PregapMode1", "Mode2Form1", "PregapMode2"}
      /\ (s # Zero => i \in Addressed(w))
  BY TypesAfter DEF Addressed
<1>2. s = [mode |-> s.mode, form |-> s.form, addr |-> s.addr, sub |-> s.sub, user |-> s.user, ecc |-> s.ecc]
  BY <1>1, DiscMapAssumption
<1>3. [s EXCEPT !.user = user] = whole
  BY <1>2
<1>4. entry # << >> /\ sub = Metadata(s, type)
  BY SubheaderFound
<1>5. type \in {"Mode1Exception", "Mode2Form1Exception", "Mode2Form2Exception"} =>
        ex # << >> /\ kept = <<s.addr, s.ecc>>
  BY ExceptionFound
<1>6. got = CASE entry = << >> -> Failed
             [] type \in Zeroed -> [Zero EXCEPT !.user = user]
             [] type \in Mode1 \cup Mode2Form1 \cup {"Mode2Form2"} -> with(addr, "good")
             [] type \in Mode1Exception \cup Mode2Form1Exception \cup {"Mode2Form2Exception"} ->
                  IF ex = << >> THEN Failed ELSE with(kept[1], kept[2])
             [] OTHER -> Failed
  BY <1>1 DEF rebuild_sector
<1>7. whole # Failed
  <2>1. "error" \in DOMAIN Failed /\ "error" \notin DOMAIN whole
    BY DEF Failed
  <2> QED
    BY <2>1
<1>8. \/ s = Zero /\ type \in Zeroed
      \/ s.mode = 1 /\ s.form = 1 /\ s.ecc = "good" /\ type \in Mode1
      \/ s.mode = 1 /\ s.form = 1 /\ type = "Mode1Exception"
      \/ s.mode = 2 /\ s.form = 1 /\ s.ecc = "good" /\ type = "Mode2Form1"
      \/ s.mode = 2 /\ s.form = 1 /\ type = "Mode2Form1Exception"
      \/ s.mode = 2 /\ s.form = 2 /\ s.ecc = "good" /\ type = "Mode2Form2"
      \/ s.mode = 2 /\ s.form = 2 /\ type = "Mode2Form2Exception"
  BY <1>1, KindsOf
<1>9. s # Zero => addr = s.addr
  BY <1>1
<1>10. Zero.mode = 0 /\ Zero.form = 1
  BY DEF Zero
<1> HIDE DEF s, type, entry, ex, got, sub, kept
<1>11. got = whole
  <2>1. CASE s = Zero /\ type \in Zeroed
    <3>1. got = [Zero EXCEPT !.user = user]
      BY <1>4, <1>6, <2>1 DEF Mode1, Mode2Form1, Mode1Exception, Mode2Form1Exception, Zeroed
    <3> QED
      BY <1>3, <2>1, <3>1
  <2>2. CASE s.mode = 1 /\ s.form = 1 /\ s.ecc = "good" /\ type \in Mode1
    <3>1. s # Zero /\ sub = s.sub
      BY <1>4, <1>10, <2>2 DEF Metadata, Mode1, Mode2Form1Exception
    <3>2. got = with(addr, "good") /\ mode = 1 /\ form = 1
      BY <1>4, <1>6, <2>2 DEF Mode1, Mode2Form1, Mode1Exception, Mode2Form1Exception, Zeroed
    <3> QED
      BY <1>9, <2>2, <3>1, <3>2
  <2>3. CASE s.mode = 1 /\ s.form = 1 /\ type = "Mode1Exception"
    <3>1. sub = s.sub
      BY <1>4, <2>3 DEF Metadata, Mode2Form1Exception
    <3>2. got = with(s.addr, s.ecc) /\ mode = 1 /\ form = 1
      BY <1>4, <1>5, <1>6, <2>3 DEF Mode1, Mode2Form1, Mode1Exception, Mode2Form1Exception, Zeroed
    <3> QED
      BY <2>3, <3>1, <3>2
  <2>4. CASE s.mode = 2 /\ s.form = 1 /\ s.ecc = "good" /\ type = "Mode2Form1"
    <3>1. s # Zero /\ sub = s.sub
      BY <1>4, <1>10, <2>4 DEF Metadata
    <3>2. got = with(addr, "good") /\ mode = 2 /\ form = 1
      BY <1>4, <1>6, <2>4 DEF Mode1, Mode2Form1, Mode1Exception, Mode2Form1Exception, Zeroed
    <3> QED
      BY <1>9, <2>4, <3>1, <3>2
  <2>5. CASE s.mode = 2 /\ s.form = 1 /\ type = "Mode2Form1Exception"
    <3>1. sub = s.sub
      BY <1>4, <2>5 DEF Metadata, Mode2Form1Exception
    <3>2. got = with(s.addr, s.ecc) /\ mode = 2 /\ form = 1
      BY <1>4, <1>5, <1>6, <2>5 DEF Mode1, Mode2Form1, Mode1Exception, Mode2Form1Exception, Zeroed
    <3> QED
      BY <2>5, <3>1, <3>2
  <2>6. CASE s.mode = 2 /\ s.form = 2 /\ s.ecc = "good" /\ type = "Mode2Form2"
    <3>1. s # Zero /\ sub = s.sub
      BY <1>4, <1>10, <2>6 DEF Metadata
    <3>2. got = with(addr, "good") /\ mode = 2 /\ form = 2
      BY <1>4, <1>6, <2>6 DEF Mode1, Mode2Form1, Mode1Exception, Mode2Form1Exception, Zeroed
    <3> QED
      BY <1>9, <2>6, <3>1, <3>2
  <2>7. CASE s.mode = 2 /\ s.form = 2 /\ type = "Mode2Form2Exception"
    <3>1. sub = s.sub
      BY <1>4, <2>7 DEF Metadata
    <3>2. got = with(s.addr, s.ecc) /\ mode = 2 /\ form = 2
      BY <1>4, <1>5, <1>6, <2>7 DEF Mode1, Mode2Form1, Mode1Exception, Mode2Form1Exception, Zeroed
    <3> QED
      BY <2>7, <3>1, <3>2
  <2> QED
    BY <1>8, <2>1, <2>2, <2>3, <2>4, <2>5, <2>6, <2>7
<1> QED
  BY <1>3, <1>7, <1>11 DEF got, s

-----------------------------------------------------------------------------
(* What the verification finds. *)

LEMMA SectorIs ==
  ASSUME NEW s \in Sector
  PROVE  s # Failed
<1>1. s = [mode |-> s.mode, form |-> s.form, addr |-> s.addr, sub |-> s.sub, user |-> s.user, ecc |-> s.ecc]
  BY DiscMapAssumption
<1>2. "error" \in DOMAIN Failed /\ "error" \notin DOMAIN s
  BY <1>1 DEF Failed
<1> QED
  BY <1>2

LEMMA NoAudio ==
  ASSUME NEW type \in DataTypes
  PROVE  type \notin AudioTypes
BY DEF DataTypes, AudioTypes, Mode1, Mode2Form1, Mode1Exception, Mode2Form1Exception, Zeroed

LEMMA InOrderIs ==
  ASSUME Inv, NEW w \in Worker, job[w].pc \in {"chunked", "verified"}, LaidOut(w), Plain(w),
         NEW i \in 0..(Total(w) - 1)
  PROVE  InOrder(w, i) = Original(w, i) /\ InOrder(w, i) # Failed
<1> DEFINE type == job[w].types[i + 1]
           n == data_size(type)
           user == Slice(Stream(w), Before(w, i, DataTypes), n)
           addr == i + job[w].lba_map[LbaIndex(w)[i + 1]][2]
<1>1. job[w].pc \in AfterMapping
  BY DEF AfterMapping
<1>2. Types(w)[i + 1] = type /\ Raw(w, i) \in Sector /\ type \in DataTypes \cup AudioTypes
  BY <1>1, TypesAfter
<1>3. CASE type \in AudioTypes
  <2>1. InOrder(w, i) = AudioStream(w)[(Before(w, i, AudioTypes) \div 3) + 1]
    BY <1>2, <1>3 DEF InOrder
  <2>2. InOrder(w, i) = Raw(w, i)
    BY <1>3, <2>1, AudioRead
  <2>3. Original(w, i) = Raw(w, i)
    BY <1>2, <1>3 DEF Original
  <2> QED
    BY <1>2, <2>2, <2>3, SectorIs
<1>4. CASE type \notin AudioTypes
  <2>1. IsData(type)
    BY <1>2, <1>4 DEF IsData
  <2>2. InOrder(w, i) = rebuild_sector(w, i, user, addr)
    BY <1>2, <1>4 DEF InOrder
  <2>3. user = Units(Raw(w, i).user, n)
    BY <2>1, DataRead
  <2>4. i \in Addressed(w) => addr = Raw(w, i).addr /\ type \notin LostTypes
    BY <1>1, AddressFound, PlainSays
  <2>5. Original(w, i) = [Raw(w, i) EXCEPT !.user = Units(@, n)]
    BY <1>2, <1>4 DEF Original
  <2> HIDE DEF user, addr, n
  <2>6. /\ rebuild_sector(w, i, user, addr) = [Raw(w, i) EXCEPT !.user = user]
        /\ rebuild_sector(w, i, user, addr) # Failed
    BY <1>1, <2>1, <2>4, Rebuilt
  <2> QED
    BY <2>2, <2>3, <2>5, <2>6
<1> QED
  BY <1>3, <1>4

LEMMA VerdictOk ==
  ASSUME Inv, NEW w \in Worker, job[w].pc = "chunked", LaidOut(w), Plain(w)
  PROVE  Verdict(w) = "ok"
<1>1. job[w].pc \in AfterMapping /\ job[w].pc \in {"chunked", "verified"}
  BY DEF AfterMapping
<1>2. \A i \in 0..(Total(w) - 1) : InOrder(w, i) = Original(w, i) /\ InOrder(w, i) # Failed
  BY <1>1, InOrderIs
<1>3. job[w].lba_map # << >>
  <2>1. PICK i \in Addressed(w) : TRUE
    BY <1>1, PlainSays
  <2> QED
    BY <1>1, AddressFound
<1> QED
  BY <1>2, <1>3 DEF Verdict

-----------------------------------------------------------------------------
(* One sector alone. *)

LEMMA AudioAlone ==
  ASSUME Inv, NEW w \in Worker, job[w].pc \in {"chunked", "verified"}, LaidOut(w),
         NEW i \in 0..(Total(w) - 1), job[w].types[i + 1] \in AudioTypes
  PROVE  get_sector_data(w, i) = Raw(w, i)
<1> DEFINE blocks == job[w].audio_map
           found == {b \in DOMAIN blocks :
                       blocks[b].start <= i /\ i < blocks[b].start + Len(blocks[b].content)}
           block == LastIf(blocks, found)
<1>1. job[w].pc \in AfterMapping /\ blocks \in Seq(AudioBlock)
  BY DEF AfterMapping, Inv, Typed, Jobs
<1>2. Types(w)[i + 1] = job[w].types[i + 1] /\ i \in Nat
  BY <1>1, TypesAfter
<1>3. BlocksOk(Sectors(w), job[w].types, blocks, Total(w))
  BY AllLaid
<1>4. get_sector_data(w, i) = IF block = << >> THEN Zero ELSE block[1].content[i - block[1].start + 1]
  BY <1>2 DEF get_sector_data
<1> HIDE DEF blocks
<1>5. found # {} /\ found \subseteq DOMAIN blocks
  <2>1. ~IsData(job[w].types[i + 1])
    BY NoAudio DEF IsData
  <2>2. \E b \in DOMAIN blocks : Held(blocks[b], i)
    BY <1>3, <2>1 DEF BlocksOk
  <2> QED
    BY <2>2 DEF Held
<1>6. ASSUME NEW b \in found PROVE blocks[b].content[i - blocks[b].start + 1] = Raw(w, i)
  <2> DEFINE start == blocks[b].start
             content == blocks[b].content
             j == i - start + 1
             l == Len(content)
  <2>1. b \in DOMAIN blocks /\ start <= i /\ i < start + l
    OBVIOUS
  <2>2. Holding(blocks[b], Sectors(w), Total(w))
    BY <1>3, <2>1 DEF BlocksOk
  <2>3. start \in Nat /\ l \in Nat
    <3>1. blocks[b] \in AudioBlock
      BY <1>1, <2>1
    <3> QED
      BY <3>1 DEF AudioBlock
  <2>4. \A m \in 1..l : content[m] = Sectors(w)[start + m]
    BY <2>2 DEF Holding
  <2> HIDE DEF start, content, l
  <2>5. j \in 1..l /\ start + j = i + 1
    BY <1>2, <2>1, <2>3
  <2> HIDE DEF j
  <2>6. content[j] = Sectors(w)[i + 1]
    BY <2>4, <2>5
  <2> QED
    BY <2>6 DEF Raw, content, j, start
<1> HIDE DEF found
<1>7. PICK b \in found : block = << blocks[b] >>
  BY <1>1, <1>5, LastIfIs
<1>8. block # << >> /\ block[1] = blocks[b]
  BY <1>7
<1> HIDE DEF block
<1> QED
  BY <1>4, <1>6, <1>8

(* Without audio before a sector both offsets are the same. *)
LEMMA OffsetIs ==
  ASSUME Inv, NEW w \in Worker, job[w].pc \in AfterMapping,
         NEW i \in 0..Total(w), Before(w, i, AudioTypes) = 0
  PROVE  StreamOffset(w, i) = Before(w, i, DataTypes)
<1> DEFINE types == job[w].types
           a == Lengths_(AudioParts(Sectors(w), types))
           s == [k \in 1..i |-> a[k]]
           size(k, wanted) == IF types[k] \in wanted THEN data_size(types[k]) ELSE 0
<1>1. /\ \A k \in 1..Total(w) : types[k] \in AudioTypes => a[k] = 1
      /\ \A k \in 1..Total(w) : types[k] \notin AudioTypes => a[k] = 0
      /\ Total(w) \in Nat
  BY AddedLengths, TypesAfter
<1>2. UpTo(a, i) = 0
  <2> DEFINE u == UpTo(a, i)
  <2>1. u \in Nat /\ 0 = 3 * u
    BY BeforeIs
  <2> HIDE DEF u
  <2>2. u = 0
    BY <2>1
  <2> QED
    BY <2>2 DEF u
<1>3. Sum(s) = 0
  BY <1>2 DEF UpTo
<1>4. \A k \in 1..Total(w) : types[k] \in DataTypes \cup AudioTypes
  <2> SUFFICES ASSUME NEW k \in 1..Total(w) PROVE types[k] \in DataTypes \cup AudioTypes
    OBVIOUS
  <2>1. k - 1 \in 0..(Total(w) - 1) /\ (k - 1) + 1 = k
    BY <1>1
  <2> HIDE DEF types
  <2>2. types[(k - 1) + 1] \in DataTypes \cup AudioTypes
    BY <2>1, TypesAfter DEF types
  <2> QED
    BY <2>1, <2>2
<1>5. \A wanted : Before(w, i, wanted) = Sum([k \in 1..i |-> size(k, wanted)])
  BY DEF Before
<1> HIDE DEF a, types
<1>6. \A k \in 1..i : k \in 1..Total(w) /\ a[k] \in Nat
  BY <1>1
<1>7. s \in Seq(Nat) /\ Len(s) = i
  BY <1>6
<1>8. \A k \in 1..i : s[k] = 0
  <2> HIDE DEF s
  <2> QED
    BY <1>3, <1>7, SumZero
<1>9. \A k \in 1..i : types[k] \in DataTypes
  BY <1>1, <1>4, <1>6, <1>8
<1>10. \A k \in 1..i : size(k, SectorType) = size(k, DataTypes)
  <2>1. DataTypes \subseteq SectorType
    BY DEF SectorType
  <2> QED
    BY <1>9, <2>1
<1>11. [k \in 1..i |-> size(k, SectorType)] = [k \in 1..i |-> size(k, DataTypes)]
  <2> HIDE DEF size
  <2> QED
    BY <1>10
<1> QED
  BY <1>5, <1>11 DEF StreamOffset

LEMMA DataAlone ==
  ASSUME Inv, NEW w \in Worker, job[w].pc \in {"chunked", "verified"}, LaidOut(w), Plain(w),
         NEW i \in 0..(Total(w) - 1), job[w].types[i + 1] \notin AudioTypes,
         job[w].types[i + 1] # "PregapMode1", Before(w, i, AudioTypes) = 0
  PROVE  get_sector_data(w, i) = Original(w, i)
<1> DEFINE type == job[w].types[i + 1]
           n == data_size(type)
           units == Units(Raw(w, i).user, n)
           stored == Padded(Slice(Stream(w), StreamOffset(w, i), n), n)
           addr == i + job[w].lba_map[LbaSearch(w, i)][2]
           FromChunks == {"Mode1", "Mode2Form1", "Mode1Exception", "Mode2Form1Exception", "Mode2Form2",
                    "Mode2Form2Exception"}
           user == IF type \in FromChunks THEN stored ELSE Zeros(n)
<1>1. job[w].pc \in AfterMapping
  BY DEF AfterMapping
<1>2. /\ Types(w)[i + 1] = type /\ Raw(w, i) \in Sector /\ type \in DataTypes \cup AudioTypes
      /\ Total(w) \in Nat
  BY <1>1, TypesAfter
<1>3. IsData(type)
  BY <1>2 DEF IsData
<1>4. /\ Known(Raw(w, i)) /\ type = Analyzed(Raw(w, i), Coarse(Normalized(w), i))
      /\ Coarse(Normalized(w), i) \in {"Mode1", "PregapMode1", "Mode2Form1", "PregapMode2"}
  BY <1>1, <1>3, TypesAfter
<1>5. i \in Addressed(w) => addr = Raw(w, i).addr /\ type \notin LostTypes
  BY <1>1, AddressFound, PlainSays
<1>6. Raw(w, i) # Zero => i \in Addressed(w)
  BY <1>3 DEF Addressed
<1>7. get_sector_data(w, i) = rebuild_sector(w, i, user, addr)
  BY <1>2 DEF get_sector_data
<1>8. Original(w, i) = [Raw(w, i) EXCEPT !.user = units]
  BY <1>2 DEF Original
<1>9. stored = units
  <2>1. /\ units \in Seq(UserUnits) /\ Len(units) = n
        /\ Slice(Stream(w), Before(w, i, DataTypes), n) = units
    BY <1>3, DataRead
  <2>2. i \in 0..Total(w)
    BY <1>2
  <2>3. StreamOffset(w, i) = Before(w, i, DataTypes)
    BY <1>1, <2>2, OffsetIs
  <2>4. n \in Nat
    BY DEF data_size
  <2>5. Slice(Stream(w), StreamOffset(w, i), n) = units
    BY <2>1, <2>3
  <2>6. stored = units \o Zeros(n - Len(units))
    BY <2>5 DEF Padded
  <2> HIDE DEF units, n, stored
  <2>7. n - Len(units) = 0
    BY <2>1, <2>4
  <2>8. Zeros(0) = << >>
    BY DEF Zeros, Units
  <2>9. units \o << >> = units
    BY <2>1, ConcatEmptySeq
  <2> QED
    BY <2>6, <2>7, <2>8, <2>9
<1>10. type \in FromChunks \/ (Raw(w, i) = Zero /\ type \in Zeroed)
  <2> DEFINE s == Raw(w, i)
  <2>1. s # Zero => Analyzed(s, Coarse(Normalized(w), i)) \notin LostTypes
    BY <1>4, <1>5, <1>6
  <2> HIDE DEF s, type
  <2>2. s \in Sector /\ Known(s) /\ type = Analyzed(s, Coarse(Normalized(w), i)) /\ type # "PregapMode1"
    BY <1>2, <1>4 DEF s, type
  <2>3. \/ s = Zero /\ type \in Zeroed
        \/ type \in Mode1 \cup {"Mode1Exception", "Mode2Form1", "Mode2Form1Exception", "Mode2Form2",
                                "Mode2Form2Exception"}
    BY <1>4, <2>1, <2>2, KindsOf
  <2> QED
    BY <2>2, <2>3 DEF Mode1, s
<1>11. user = units
  <2>1. CASE type \in FromChunks
    BY <1>9, <2>1
  <2>2. CASE type \notin FromChunks
    <3>1. Raw(w, i).user = "zero"
      BY <1>10, <2>2 DEF Zero
    <3> QED
      BY <2>2, <3>1 DEF Zeros
  <2> QED
    BY <2>1, <2>2
<1> HIDE DEF user, addr, units
<1>12. rebuild_sector(w, i, user, addr) = [Raw(w, i) EXCEPT !.user = user]
  BY <1>1, <1>3, <1>5, Rebuilt
<1> QED
  BY <1>7, <1>8, <1>11, <1>12

-----------------------------------------------------------------------------
(* The second invariant. *)

LEMMA PlainKept ==
  ASSUME NEW w \in Worker, disc' = disc
  PROVE  Plain(w)' = Plain(w)
<1>1. /\ Total(w)' = Total(w) /\ Normalized(w)' = Normalized(w) /\ \A i : Raw(w, i)' = Raw(w, i)
  BY DiscKept
<1> QED
  BY <1>1 DEF Plain

LEMMA LaidStays ==
  ASSUME NEW v \in Worker, disc' = disc, job'[v] = job[v], WorkerLaid(v)
  PROVE  WorkerLaid(v)'
<1>1. Sectors(v)' = Sectors(v) /\ Total(v)' = Total(v) /\ Plain(v)' = Plain(v)
  BY DiscKept, PlainKept
<1>2. Stream(v)' = Stream(v) /\ AudioStream(v)' = AudioStream(v)
  BY DEF Stream, AudioStream
<1> QED
  BY <1>1, <1>2 DEF WorkerLaid, LaidOut

(* A worker with nothing cut. *)
LEMMA LaidEarly ==
  ASSUME NEW w \in Worker, job'[w].pc \in {"open", "map", "failed"},
         job'[w].pc = "map" => job'[w].layout = << >> /\ job'[w].audio_map = << >>
  PROVE  WorkerLaid(w)'
BY DEF WorkerLaid, LaidOut, AfterMapping

LEMMA LaidMap ==
  ASSUME Inv, NEW w \in Worker, MapSector(w), WorkerLaid(w)
  PROVE  /\ WorkerLaid(w)' /\ disc' = disc
         /\ \A v \in Worker \ {w} : job'[v] = job[v]
<1>0. job \in [Worker -> Jobs] /\ job[w] \in Jobs
  BY DEF Inv, Typed
<1>1. PICK i, s, coarse, type, ex, id, xid :
        /\ i = Here(w) /\ s = Raw(w, i) /\ coarse = job[w].types[i + 1]
        /\ type = Analyzed(s, coarse) /\ ex = ExceptionOf(s, type)
        /\ id = IdOf(subheaders', Metadata(s, type))
        /\ xid = IdOf(exceptions', ex[1])
  OBVIOUS
<1>2. job[w].pc = "map" /\ disc' = disc
  BY ZenonT(60) DEF MapSector
<1>3. job[w].layout = << >> /\ job[w].audio_map = << >>
  BY <1>2 DEF WorkerLaid, LaidOut
<1> DEFINE skipped == [job[w] EXCEPT !.at = i + 1]
           entered == After(w, i, s, type, ex, id, xid)
<1>4. job' = [job EXCEPT ![w].at = i + 1] \/ job' = [job EXCEPT ![w] = entered]
  BY <1>1, ZenonT(60) DEF MapSector, After, RunAfter, IndexAfter
<1>5. /\ skipped.pc = "map" /\ skipped.layout = << >> /\ skipped.audio_map = << >>
      /\ entered.pc = "map" /\ entered.layout = << >> /\ entered.audio_map = << >>
  BY <1>0, <1>2, <1>3 DEF Jobs, After
<1> HIDE DEF entered
<1>6. job' = [job EXCEPT ![w] = skipped] \/ job' = [job EXCEPT ![w] = entered]
  BY <1>4
<1> HIDE DEF skipped
<1>7. \A v \in Worker \ {w} : job'[v] = job[v]
  BY <1>0, <1>6
<1>8. job'[w].pc = "map" /\ job'[w].layout = << >> /\ job'[w].audio_map = << >>
  BY <1>0, <1>5, <1>6
<1>9. WorkerLaid(w)'
  BY <1>8, LaidEarly
<1> QED
  BY <1>2, <1>7, <1>9

LEMMA LaidMapped ==
  ASSUME Inv, NEW w \in Worker, Mapped(w), WorkerLaid(w)
  PROVE  /\ WorkerLaid(w)' /\ disc' = disc
         /\ \A v \in Worker \ {w} : job'[v] = job[v]
<1> DEFINE old == job[w].types
           types == [k \in DOMAIN old |-> IF old[k] = "None" THEN "PregapAudio" ELSE old[k]]
           new == [job[w] EXCEPT !.pc = "chunk", !.at = 0, !.run = << >>,
                     !.subheader_index = @ \o job[w].run, !.types = types]
           D == DataParts(Sectors(w), types)
           A == AudioParts(Sectors(w), types)
<1>1. /\ job \in [Worker -> Jobs] /\ job[w] \in Jobs /\ PlaceInv(w) /\ disc \in Batches
      /\ job[w].pc = "map" /\ disc' = disc
  BY DEF Inv, Typed, Mapped
<1>2. job[w].layout = << >> /\ job[w].audio_map = << >>
  BY <1>1 DEF WorkerLaid, LaidOut
<1>3. job' = [job EXCEPT ![w] = new]
  BY DEF Mapped
<1>4. /\ new.pc = "chunk" /\ new.at = 0 /\ new.types = types
      /\ new.layout = << >> /\ new.audio_map = << >>
  BY <1>1, <1>2 DEF Jobs
<1>5. old \in Seq(SectorType) /\ Len(old) = Total(w)
  BY <1>1 DEF Jobs, PlaceInv
<1>6. Sectors(w) \in Seq(Sector) /\ Total(w) = Len(Sectors(w)) /\ Total(w) \in Nat
  BY <1>1, DiscIs DEF Total
<1>7. types \in Seq(SectorType) /\ Len(types) = Len(Sectors(w))
  <2>1. "PregapAudio" \in SectorType
    BY DEF SectorType, AudioTypes
  <2> HIDE DEF old
  <2> QED
    BY <1>5, <1>6, <2>1
<1> HIDE DEF new, types
<1>8. \A v \in Worker \ {w} : job'[v] = job[v]
  BY <1>1, <1>3
<1>9. job'[w] = new
  BY <1>1, <1>3
<1>10. FirstOf(D, 0) = << >> /\ FirstOf(A, 0) = << >>
  <2>1. D \in Seq(Seq(UserUnits)) /\ A \in Seq(Seq(Sector))
    BY <1>6, <1>7, AddedAre
  <2>2. 0 \in Nat /\ 0 <= 0 /\ 0 <= Len(D) /\ 0 <= Len(A)
    BY <2>1
  <2> HIDE DEF D, A
  <2> QED
    BY <2>1, <2>2, FirstMore
<1>11. Stream(w)' = << >>
  BY <1>4, <1>9, FlattenEmpty DEF Stream
<1>12. AudioStream(w)' = << >>
  <2>1. AudioStream(w)' = FlattenSeq([b \in DOMAIN << >> |-> << >>[b].content])
    BY <1>4, <1>9 DEF AudioStream
  <2>2. [b \in DOMAIN << >> |-> << >>[b].content] = << >>
    OBVIOUS
  <2> QED
    BY <2>1, <2>2, FlattenEmpty
<1>13. BlocksOk(Sectors(w), types, << >>, 0)
  BY DEF BlocksOk
<1>14. Sectors(w)' = Sectors(w)
  BY <1>1, DiscKept
<1>15. LaidOut(w)'
  BY <1>4, <1>9, <1>10, <1>11, <1>12, <1>13, <1>14 DEF LaidOut, AfterMapping
<1> QED
  BY <1>1, <1>4, <1>8, <1>9, <1>15 DEF WorkerLaid

(* The last two steps change nothing of what is cut. *)
LEMMA LaidEnd ==
  ASSUME Inv, NEW w \in Worker, LaidOut(w), job[w].pc \in {"chunk", "chunked"}, job[w].at = Total(w),
         NEW next \in {"chunked", "verified"}, NEW verdict,
         next = "verified" /\ Plain(w) => verdict = "ok",
         job' = [job EXCEPT ![w] = [@ EXCEPT !.pc = next, !.verdict = verdict]], disc' = disc
  PROVE  /\ WorkerLaid(w)'
         /\ \A v \in Worker \ {w} : job'[v] = job[v]
<1> DEFINE new == [job[w] EXCEPT !.pc = next, !.verdict = verdict]
<1>1. job \in [Worker -> Jobs] /\ job[w] \in Jobs
  BY DEF Inv, Typed
<1>2. /\ new.pc = next /\ new.types = job[w].types /\ new.at = job[w].at /\ new.verdict = verdict
      /\ new.layout = job[w].layout /\ new.audio_map = job[w].audio_map
  BY <1>1 DEF Jobs
<1>3. job' = [job EXCEPT ![w] = new]
  OBVIOUS
<1> HIDE DEF new
<1>4. job'[w] = new /\ \A v \in Worker \ {w} : job'[v] = job[v]
  BY <1>1, <1>3
<1>5. Sectors(w)' = Sectors(w) /\ Total(w)' = Total(w) /\ Plain(w)' = Plain(w)
  BY DiscKept, PlainKept
<1>6. Stream(w)' = Stream(w) /\ AudioStream(w)' = AudioStream(w)
  BY <1>2, <1>4 DEF Stream, AudioStream
<1>7. job[w].pc \in AfterMapping /\ next \in AfterMapping /\ next # "map"
  BY DEF AfterMapping
<1>8. LaidOut(w)'
  BY <1>2, <1>4, <1>5, <1>6, <1>7 DEF LaidOut
<1>9. next = "verified" /\ Plain(w)' => new.verdict = "ok"
  BY <1>2, <1>5
<1> QED
  BY <1>2, <1>4, <1>8, <1>9 DEF WorkerLaid

LEMMA LaidStep ==
  ASSUME Inv, NEW w \in Worker, WorkerStep(w), WorkerLaid(w)
  PROVE  /\ WorkerLaid(w)' /\ disc' = disc
         /\ \A v \in Worker \ {w} : job'[v] = job[v]
<1>1. job \in [Worker -> Jobs] /\ job[w] \in Jobs /\ PlaceInv(w)
  BY DEF Inv, Typed
<1>2. CASE Fail(w)
  <2>1. job' = [job EXCEPT ![w] = [@ EXCEPT !.pc = "failed"]] /\ disc' = disc
    BY <1>2 DEF Fail
  <2>2. job'[w].pc = "failed"
    BY <1>1, <2>1 DEF Jobs
  <2>3. WorkerLaid(w)'
    BY <2>2, LaidEarly
  <2> QED
    BY <1>1, <2>1, <2>3
<1>3. CASE Open(w)
  <2>1. job[w] = NewJob
    BY <1>1, <1>3 DEF Open, PlaceInv
  <2> DEFINE types == [k \in 1..Total(w) |-> Coarse(Normalized(w), k - 1)]
             new == [job[w] EXCEPT !.pc = "map", !.types = types]
  <2>2. job' = [job EXCEPT ![w] = new] /\ disc' = disc
    BY <1>3 DEF Open
  <2> HIDE DEF types
  <2>3. new.pc = "map" /\ new.layout = << >> /\ new.audio_map = << >>
    BY <2>1 DEF NewJob
  <2> HIDE DEF new
  <2>4. job'[w] = new
    BY <1>1, <2>2
  <2>5. WorkerLaid(w)'
    BY <2>3, <2>4, LaidEarly
  <2> QED
    BY <1>1, <2>2, <2>5
<1>4. CASE MapSector(w)
  BY <1>4, LaidMap
<1>5. CASE Mapped(w)
  BY <1>5, LaidMapped
<1>6. CASE ChunkRun(w)
  <2>1. LaidOut(w)'
    BY <1>6, LaidRun DEF WorkerLaid
  <2> DEFINE new == RunChunked(w)
  <2>2. job' = [job EXCEPT ![w] = new] /\ disc' = disc /\ job[w].pc = "chunk"
    BY <1>6, RunChunkedIs
  <2>3. new.pc = "chunk"
    BY <1>1, <2>2 DEF RunChunked, Jobs
  <2> HIDE DEF new
  <2>4. job'[w].pc = "chunk" /\ \A v \in Worker \ {w} : job'[v] = job[v]
    BY <1>1, <2>2, <2>3
  <2> QED
    BY <2>1, <2>2, <2>4 DEF WorkerLaid
<1>7. CASE Chunked(w)
  <2>1. /\ job[w].pc = "chunk" /\ job[w].at = Total(w) /\ disc' = disc
        /\ job' = [job EXCEPT ![w].pc = "chunked"]
    BY <1>7 DEF Chunked
  <2> DEFINE verdict == job[w].verdict
  <2>2. [job[w] EXCEPT !.pc = "chunked"] = [job[w] EXCEPT !.pc = "chunked", !.verdict = verdict]
    BY <1>1 DEF Jobs
  <2>3. job' = [job EXCEPT ![w] = [@ EXCEPT !.pc = "chunked", !.verdict = verdict]]
    BY <2>1, <2>2
  <2> HIDE DEF verdict
  <2> QED
    BY <2>1, <2>3, LaidEnd DEF WorkerLaid
<1>8. CASE Verify(w)
  <2> DEFINE verdict == Verdict(w)
  <2>1. /\ job[w].pc = "chunked" /\ disc' = disc
        /\ job' = [job EXCEPT ![w] = [@ EXCEPT !.pc = "verified", !.verdict = verdict]]
    BY <1>8 DEF Verify
  <2>2. LaidOut(w) /\ job[w].at = Total(w)
    BY <2>1 DEF WorkerLaid, LaidOut
  <2>3. Plain(w) => verdict = "ok"
    BY <2>1, <2>2, VerdictOk
  <2> HIDE DEF verdict
  <2> QED
    BY <2>1, <2>2, <2>3, LaidEnd
<1> QED
  BY <1>2, <1>3, <1>4, <1>5, <1>6, <1>7, <1>8 DEF WorkerStep, Refuse, UnknownMode

LEMMA LaidInit ==
  ASSUME Init
  PROVE  DiscLaid
<1>1. \A w \in Worker : job[w].pc = "open"
  BY DEF Init, NewJob
<1> QED
  BY <1>1 DEF DiscLaid, WorkerLaid, LaidOut, AfterMapping

LEMMA LaidNext ==
  ASSUME Inv, DiscLaid, [Next]_vars
  PROVE  DiscLaid'
<1>1. CASE UNCHANGED vars
  BY <1>1, LaidStays DEF DiscLaid, vars
<1>2. ASSUME NEW w \in Worker, WorkerStep(w) PROVE DiscLaid'
  <2>1. /\ WorkerLaid(w)' /\ disc' = disc
        /\ \A v \in Worker \ {w} : job'[v] = job[v]
    BY <1>2, LaidStep DEF DiscLaid
  <2>2. ASSUME NEW v \in Worker \ {w} PROVE WorkerLaid(v)'
    BY <2>1, LaidStays DEF DiscLaid
  <2> QED
    BY <2>1, <2>2 DEF DiscLaid
<1> QED
  BY <1>1, <1>2 DEF Next, Done

(* Once a disc is cut the data chunks hold, one behind the other, the user  *)
(* data of its data sectors, and the audio blocks its audio sectors, each   *)
(* at its number: over all runs, blocks and chunks that end inside one.     *)
THEOREM Laid == Spec => []DiscLaid
<1>1. Init => DiscLaid
  BY LaidInit
<1>2. Inv /\ DiscLaid /\ [Next]_vars => DiscLaid'
  BY LaidNext
<1> QED
  BY <1>1, <1>2, Invariant, PTL DEF Spec

(* Every plain disc is verified, whatever its sectors, bins, chunk and      *)
(* block sizes are and however many workers share the registries.           *)
THEOREM PlainVerify == Spec => []PlainDiscsVerify
<1>1. DiscLaid => PlainDiscsVerify
  BY DEF DiscLaid, WorkerLaid, PlainDiscsVerify
<1> QED
  BY <1>1, Laid, PTL

(* And any one sector is given as it was: audio, and data of a plain disc   *)
(* that no audio precedes.                                                  *)
THEOREM AnySector == Spec => []RandomAccess
<1>1. Inv /\ DiscLaid => RandomAccess
  <2> SUFFICES ASSUME Inv, DiscLaid, NEW w \in Worker, job[w].pc = "verified",
                      NEW i \in 0..(Total(w) - 1),
                      \/ Types(w)[i + 1] \in AudioTypes
                      \/ Plain(w) /\ Types(w)[i + 1] # "PregapMode1" /\ Before(w, i, AudioTypes) = 0
               PROVE  get_sector_data(w, i) = Original(w, i)
    BY DEF RandomAccess
  <2>1. job[w].pc \in {"chunked", "verified"} /\ job[w].pc \in AfterMapping /\ LaidOut(w)
    BY DEF AfterMapping, DiscLaid, WorkerLaid
  <2>2. Types(w) = job[w].types
    BY <2>1, TypesAfter
  <2>3. CASE Types(w)[i + 1] \in AudioTypes
    <3>1. get_sector_data(w, i) = Raw(w, i)
      BY <2>1, <2>2, <2>3, AudioAlone
    <3> QED
      BY <2>3, <3>1 DEF Original
  <2>4. CASE Types(w)[i + 1] \notin AudioTypes
    BY <2>1, <2>2, <2>4, DataAlone
  <2> QED
    BY <2>3, <2>4
<1> QED
  BY <1>1, Invariant, Laid, PTL

-----------------------------------------------------------------------------
(* ArchiveRun. *)

LEMMA FoldRuns ==
  ASSUME NEW A, NEW B, NEW base \in B, NEW step \in [B \X A -> B], NEW s \in Seq(A), NEW r,
         FoldsIn(B, base, step, s, r)
  PROVE  \A k \in 0..Len(s) : r[k] \in B
<1> USE DEF FoldsIn
<1> DEFINE Good == {k \in Nat : k <= Len(s) => r[k] \in B}
<1>1. 0 \in Good
  OBVIOUS
<1>2. ASSUME NEW k \in Nat, k \in Good PROVE k + 1 \in Good
  <2> SUFFICES ASSUME k + 1 <= Len(s) PROVE r[k + 1] \in B
    OBVIOUS
  <2>1. k + 1 \in 1..Len(s) /\ (k + 1) - 1 = k /\ k <= Len(s)
    OBVIOUS
  <2>2. s[k + 1] \in A
    BY <2>1, ElementOfSeq
  <2>3. r[k] \in B
    BY <1>2, <2>1
  <2>4. r[k + 1] = step[<<r[k], s[k + 1]>>]
    BY <2>1, <2>3
  <2> QED
    BY <2>2, <2>3, <2>4
<1> HIDE DEF Good
<1>3. Nat \subseteq Good
  BY <1>1, <1>2, UpFromZero
<1> QED
  BY <1>3 DEF Good

-----------------------------------------------------------------------------
(* Dedupe leaves each hash once, and the first where it was. *)

LEMMA AddNewIs ==
  ASSUME NEW A, NEW d \in Distinct(A), NEW h \in A
  PROVE  /\ AddNew(d, h) \in Distinct(A)
         /\ ToSet(AddNew(d, h)) = ToSet(d) \cup {h}
         /\ AddNew(d, h) # << >>
         /\ d # << >> => AddNew(d, h)[1] = d[1]
         /\ d = << >> => AddNew(d, h)[1] = h
<1>1. d \in Seq(A) /\ Len(d) \in Nat /\ \A i, j \in 1..Len(d) : d[i] = d[j] => i = j
  BY DEF Distinct
<1>2. CASE Contains(d, h)
  <2>1. AddNew(d, h) = d
    BY <1>2 DEF AddNew
  <2>2. h \in ToSet(d) /\ d # << >>
    BY <1>1, <1>2 DEF Contains, ToSet
  <2> QED
    BY <2>1, <2>2
<1>3. CASE ~Contains(d, h)
  <2> DEFINE e == Append(d, h)
             n == Len(d)
  <2>1. /\ e \in Seq(A) /\ Len(e) = n + 1 /\ e[n + 1] = h
        /\ \A i \in 1..n : e[i] = d[i]
    BY <1>1, AppendProperties
  <2>2. AddNew(d, h) = e
    BY <1>3 DEF AddNew
  <2> HIDE DEF e
  <2>3. \A i \in 1..(n + 1) : i \in 1..n \/ i = n + 1
    BY <1>1
  <2>4. \A i \in 1..n : d[i] # h
    BY <1>3 DEF Contains
  <2>5. \A i, j \in 1..Len(e) : e[i] = e[j] => i = j
    BY <1>1, <2>1, <2>3, <2>4
  <2>6. ToSet(e) = ToSet(d) \cup {h}
    <3>1. \A i \in 1..n : i \in 1..(n + 1)
      BY <1>1
    <3>2. DOMAIN e = 1..(n + 1) /\ DOMAIN d = 1..n /\ n + 1 \in 1..(n + 1)
      BY <1>1, <2>1
    <3>3. \A x : x \in ToSet(e) => x \in ToSet(d) \cup {h}
      BY <2>1, <2>3, <3>2 DEF ToSet
    <3>4. \A x : x \in ToSet(d) \cup {h} => x \in ToSet(e)
      BY <2>1, <3>1, <3>2 DEF ToSet
    <3> QED
      BY <3>3, <3>4
  <2>7. e # << >> /\ (d # << >> => e[1] = d[1]) /\ (d = << >> => e[1] = h)
    BY <1>1, <2>1
  <2> QED
    BY <2>1, <2>2, <2>5, <2>6, <2>7 DEF Distinct
<1> QED
  BY <1>2, <1>3

LEMMA DedupeIs ==
  ASSUME NEW A, NEW s \in Seq(A)
  PROVE  /\ Dedupe(s) \in Distinct(A)
         /\ ToSet(Dedupe(s)) = ToSet(s)
         /\ s # << >> => Dedupe(s) # << >> /\ Dedupe(s)[1] = s[1]
<1> DEFINE D == DOMAIN s
           B == Distinct(A)
           step == [p \in B \X A |-> AddNew(p[1], p[2])]
           Body(g) == [t \in SUBSET D |-> IF t = {} THEN << >> ELSE AddNew(g[t \ {Max(t)}], s[Max(t)])]
           iter == CHOOSE g : g = Body(g)
<1>1. Dedupe(s) = iter[D]
  BY DEF Dedupe, FoldLeft, MapThenFoldSet
<1>2. D = 1..Len(s) /\ Len(s) \in Nat /\ << >> \in B
  BY DEF Distinct
<1>3. step \in [B \X A -> B]
  BY AddNewIs
<1>4. PICK g \in [SUBSET D -> B] : Folds(step, << >>, s, Len(s), g)
  <2> HIDE DEF step, B
  <2> QED
    BY <1>2, <1>3, FoldExists
<1>5. ASSUME NEW t \in SUBSET D, t # {} PROVE Max(t) \in t
  <2>1. t \subseteq 0..Len(s)
    BY <1>2
  <2> QED
    BY <1>2, <1>5, <2>1, MaxOf
<1>6. ASSUME NEW t \in SUBSET D
      PROVE  g[t] = IF t = {} THEN << >> ELSE AddNew(g[t \ {Max(t)}], s[Max(t)])
  <2> HIDE DEF B
  <2>1. CASE t = {}
    BY <1>2, <1>4, <2>1 DEF Folds
  <2>2. CASE t # {}
    <3>1. g[t] = step[<<g[t \ {Max(t)}], s[Max(t)]>>]
      <4> HIDE DEF step
      <4> QED
        BY <1>2, <1>4, <2>2 DEF Folds
    <3>2. g[t \ {Max(t)}] \in B
      BY <1>4
    <3>3. s[Max(t)] \in A
      BY <1>2, <1>5, <2>2
    <3> QED
      BY <2>2, <3>1, <3>2, <3>3
  <2> QED
    BY <2>1, <2>2
<1>7. g = Body(g)
  <2> HIDE DEF B
  <2> QED
    BY <1>4, <1>6
<1>8. iter = Body(iter)
  <2> HIDE DEF Body
  <2> QED
    BY <1>7
<1> HIDE DEF iter, B
<1>9. ASSUME NEW k \in 0..Len(s)
      PROVE  iter[1..k] = IF k = 0 THEN << >> ELSE AddNew(iter[1..(k - 1)], s[k])
  <2>1. 1..k \in SUBSET D /\ k \in Nat
    BY <1>2
  <2>2. iter[1..k] = IF 1..k = {} THEN << >> ELSE AddNew(iter[(1..k) \ {Max(1..k)}], s[Max(1..k)])
    BY <1>8, <2>1
  <2> QED
    BY <2>1, <2>2, UpToIs
<1> DEFINE r == [k \in 0..Len(s) |-> iter[1..k]]
<1>10. \A k \in 0..Len(s) : r[k] \in B
  <2>1. r[0] = << >>
    BY <1>2, <1>9
  <2>2. ASSUME NEW k \in 1..Len(s), r[k - 1] \in B PROVE r[k] = step[<<r[k - 1], s[k]>>]
    <3>1. s[k] \in A /\ k \in 0..Len(s) /\ k # 0 /\ k - 1 \in 0..Len(s)
      BY <1>2, ElementOfSeq
    <3>2. r[k] = AddNew(r[k - 1], s[k])
      BY <1>9, <3>1
    <3> QED
      BY <2>2, <3>1, <3>2
  <2> HIDE DEF step, r, D
  <2>3. FoldsIn(B, << >>, step, s, r)
    BY <2>1, <2>2 DEF FoldsIn
  <2> QED
    BY <1>2, <1>3, <2>3, FoldRuns
<1> DEFINE Good(k) == /\ ToSet(iter[1..k]) = {s[i] : i \in 1..k}
                      /\ k # 0 => iter[1..k] # << >> /\ iter[1..k][1] = s[1]
           G == {k \in Nat : k <= Len(s) => Good(k)}
<1>11. 0 \in G
  <2>1. iter[1..0] = << >>
    BY <1>2, <1>9
  <2> QED
    BY <2>1 DEF ToSet
<1>12. ASSUME NEW k \in Nat, k \in G PROVE k + 1 \in G
  <2> SUFFICES ASSUME k + 1 <= Len(s) PROVE Good(k + 1)
    OBVIOUS
  <2>1. k + 1 \in 0..Len(s) /\ k \in 0..Len(s) /\ k + 1 # 0 /\ (k + 1) - 1 = k /\ k + 1 \in 1..Len(s)
        /\ k <= Len(s)
    BY <1>2
  <2>2. iter[1..(k + 1)] = AddNew(iter[1..k], s[k + 1])
    BY <1>9, <2>1
  <2>3. s[k + 1] \in A /\ iter[1..k] \in Distinct(A)
    BY <1>10, <2>1, ElementOfSeq DEF B, r
  <2>4. Good(k)
    BY <1>12, <2>1
  <2>5. \A i \in 1..(k + 1) : i \in 1..k \/ i = k + 1
    OBVIOUS
  <2>6. {s[i] : i \in 1..(k + 1)} = {s[i] : i \in 1..k} \cup {s[k + 1]}
    <3>1. \A i \in 1..k : i \in 1..(k + 1)
      OBVIOUS
    <3>2. k + 1 \in 1..(k + 1)
      OBVIOUS
    <3> QED
      BY <2>5, <3>1, <3>2
  <2>7. ToSet(iter[1..(k + 1)]) = {s[i] : i \in 1..(k + 1)}
    <3>1. ToSet(AddNew(iter[1..k], s[k + 1])) = ToSet(iter[1..k]) \cup {s[k + 1]}
      BY <2>3, AddNewIs
    <3> QED
      BY <2>2, <2>4, <2>6, <3>1
  <2>8. CASE k = 0
    <3>1. iter[1..k] = << >>
      BY <1>2, <1>9, <2>8
    <3>2. iter[1..(k + 1)] # << >> /\ iter[1..(k + 1)][1] = s[k + 1]
      BY <2>2, <2>3, <3>1, AddNewIs
    <3> QED
      BY <2>7, <2>8, <3>2
  <2>9. CASE k # 0
    <3>1. iter[1..k] # << >> /\ iter[1..k][1] = s[1]
      BY <2>4, <2>9
    <3>2. AddNew(iter[1..k], s[k + 1]) # << >> /\ AddNew(iter[1..k], s[k + 1])[1] = iter[1..k][1]
      <4> DEFINE d == iter[1..k]
                 h == s[k + 1]
      <4>1. d \in Distinct(A) /\ d # << >> /\ h \in A
        BY <2>3, <3>1
      <4> HIDE DEF d, h
      <4>2. AddNew(d, h) # << >> /\ AddNew(d, h)[1] = d[1]
        BY <4>1, AddNewIs
      <4> QED
        BY <4>2 DEF d, h
    <3>3. iter[1..(k + 1)] # << >> /\ iter[1..(k + 1)][1] = s[1]
      BY <2>2, <3>1, <3>2
    <3> QED
      BY <2>1, <2>7, <3>3
  <2> QED
    BY <2>8, <2>9
<1> HIDE DEF G
<1>13. Nat \subseteq G
  BY <1>11, <1>12, UpFromZero
<1>14. Good(Len(s))
  BY <1>2, <1>13 DEF G
<1>15. ToSet(s) = {s[i] : i \in 1..Len(s)}
  BY <1>2 DEF ToSet
<1>16. s # << >> => Len(s) # 0
  BY <1>2
<1> QED
  BY <1>1, <1>2, <1>10, <1>14, <1>15, <1>16 DEF B, r

-----------------------------------------------------------------------------
(* Take never goes beyond what a dictionary is trained on. *)

LEMMA TakeIs ==
  ASSUME NEW t \in Taken, NEW size \in Nat
  PROVE  Take(t, size) \in Taken
<1>1. t \in [sizes : Seq(Nat), full : BOOLEAN] /\ Sum(t.sizes) <= MAX_SAMPLES_SIZE
  BY DEF Taken
<1>2. CASE t.full \/ ~Fits(t.sizes, size)
  BY <1>1, <1>2 DEF Take, Taken
<1>3. CASE ~(t.full \/ ~Fits(t.sizes, size))
  <2>1. Sum(Append(t.sizes, size)) = Sum(t.sizes) + size
    BY <1>1, SumAppend
  <2>2. Append(t.sizes, size) \in Seq(Nat)
    BY <1>1
  <2> QED
    BY <1>1, <1>3, <2>1, <2>2 DEF Take, Taken, Fits
<1> QED
  BY <1>2, <1>3

LEMMA TakenIs ==
  ASSUME NEW s \in Seq(Nat)
  PROVE  FoldLeft(Take, [sizes |-> << >>, full |-> FALSE], s) \in Taken
<1> DEFINE D == DOMAIN s
           none == [sizes |-> << >>, full |-> FALSE]
           step == [p \in Taken \X Nat |-> Take(p[1], p[2])]
           Body(g) == [t \in SUBSET D |-> IF t = {} THEN none ELSE Take(g[t \ {Max(t)}], s[Max(t)])]
           iter == CHOOSE g : g = Body(g)
<1>1. FoldLeft(Take, none, s) = iter[D]
  BY DEF FoldLeft, MapThenFoldSet
<1>2. D = 1..Len(s) /\ Len(s) \in Nat
  OBVIOUS
<1>21. none \in Taken
  <2>1. << >> \in Seq(Nat) /\ 0 \in Nat
    OBVIOUS
  <2>2. Sum(<< >>) = 0
    BY <2>1, SumAppend
  <2> QED
    BY <2>1, <2>2, SerializationAssumption DEF Taken
<1> HIDE DEF none
<1>3. step \in [Taken \X Nat -> Taken]
  BY TakeIs
<1>4. PICK g \in [SUBSET D -> Taken] : Folds(step, none, s, Len(s), g)
  <2> HIDE DEF step
  <2> QED
    BY <1>2, <1>21, <1>3, FoldExists
<1>5. ASSUME NEW t \in SUBSET D, t # {} PROVE Max(t) \in t
  <2>1. t \subseteq 0..Len(s)
    BY <1>2
  <2> QED
    BY <1>2, <1>5, <2>1, MaxOf
<1>6. ASSUME NEW t \in SUBSET D
      PROVE  g[t] = IF t = {} THEN none ELSE Take(g[t \ {Max(t)}], s[Max(t)])
  <2>1. CASE t = {}
    BY <1>2, <1>4, <2>1 DEF Folds
  <2>2. CASE t # {}
    <3>1. g[t] = step[<<g[t \ {Max(t)}], s[Max(t)]>>]
      <4> HIDE DEF step
      <4> QED
        BY <1>2, <1>4, <2>2 DEF Folds
    <3>2. g[t \ {Max(t)}] \in Taken
      BY <1>4
    <3>3. s[Max(t)] \in Nat
      BY <1>2, <1>5, <2>2
    <3> QED
      BY <2>2, <3>1, <3>2, <3>3
  <2> QED
    BY <2>1, <2>2
<1>7. g = Body(g)
  BY <1>4, <1>6
<1>8. iter = Body(iter)
  <2> HIDE DEF Body
  <2> QED
    BY <1>7
<1> HIDE DEF iter
<1>9. ASSUME NEW k \in 0..Len(s)
      PROVE  iter[1..k] = IF k = 0 THEN none ELSE Take(iter[1..(k - 1)], s[k])
  <2>1. 1..k \in SUBSET D /\ k \in Nat
    BY <1>2
  <2>2. iter[1..k] = IF 1..k = {} THEN none ELSE Take(iter[(1..k) \ {Max(1..k)}], s[Max(1..k)])
    BY <1>8, <2>1
  <2> QED
    BY <2>1, <2>2, UpToIs
<1> DEFINE r == [k \in 0..Len(s) |-> iter[1..k]]
<1>10. \A k \in 0..Len(s) : r[k] \in Taken
  <2>1. r[0] = none
    BY <1>2, <1>9
  <2>2. ASSUME NEW k \in 1..Len(s), r[k - 1] \in Taken PROVE r[k] = step[<<r[k - 1], s[k]>>]
    <3>1. s[k] \in Nat /\ k \in 0..Len(s) /\ k # 0 /\ k - 1 \in 0..Len(s)
      BY <1>2, ElementOfSeq
    <3>2. r[k] = Take(r[k - 1], s[k])
      BY <1>9, <3>1
    <3> QED
      BY <2>2, <3>1, <3>2
  <2> HIDE DEF step, r, D
  <2>3. FoldsIn(Taken, none, step, s, r)
    BY <2>1, <2>2 DEF FoldsIn
  <2> QED
    BY <1>2, <1>21, <1>3, <2>3, FoldRuns
<1> QED
  BY <1>1, <1>2, <1>10 DEF none

-----------------------------------------------------------------------------
(* What comes once in a sum is no more than what comes at least once in     *)
(* another.                                                                 *)
LEMMA SumWithout ==
  ASSUME NEW v \in Seq(Nat), NEW j \in 1..Len(v)
  PROVE  /\ [v EXCEPT ![j] = 0] \in Seq(Nat)
         /\ Sum(v) = Sum([v EXCEPT ![j] = 0]) + v[j]
<1> DEFINE e == [v EXCEPT ![j] = 0]
           n == Len(v)
<1>1. /\ e \in Seq(Nat) /\ Len(e) = n /\ n \in Nat /\ v[j] \in Nat /\ j \in 1..n
      /\ \A k \in 1..n : e[k] = IF k = j THEN 0 ELSE v[k]
  OBVIOUS
<1> HIDE DEF e, n
<1>2. /\ UpTo(v, 0) = 0 /\ UpTo(e, 0) = 0
      /\ \A k \in 0..n : UpTo(v, k) \in Nat /\ UpTo(e, k) \in Nat
      /\ \A k \in 1..n : UpTo(v, k) = UpTo(v, k - 1) + v[k] /\ UpTo(e, k) = UpTo(e, k - 1) + e[k]
      /\ UpTo(v, n) = Sum(v) /\ UpTo(e, n) = Sum(e)
  BY <1>1, UpToSums DEF n
<1> DEFINE G == {k \in Nat : k <= n => UpTo(v, k) = UpTo(e, k) + (IF j <= k THEN v[j] ELSE 0)}
<1>3. 0 \in G
  BY <1>1, <1>2
<1>4. ASSUME NEW k \in Nat, k \in G PROVE k + 1 \in G
  <2> SUFFICES ASSUME k + 1 <= n
               PROVE  UpTo(v, k + 1) = UpTo(e, k + 1) + (IF j <= k + 1 THEN v[j] ELSE 0)
    OBVIOUS
  <2>1. k + 1 \in 1..n /\ (k + 1) - 1 = k /\ k \in 0..n /\ k + 1 \in 0..n /\ k <= n
    BY <1>1
  <2>2. UpTo(v, k + 1) = UpTo(v, k) + v[k + 1] /\ UpTo(e, k + 1) = UpTo(e, k) + e[k + 1]
    BY <1>2, <2>1
  <2>3. UpTo(v, k) = UpTo(e, k) + (IF j <= k THEN v[j] ELSE 0)
    BY <1>4, <2>1
  <2>4. v[k + 1] \in Nat /\ e[k + 1] = IF k + 1 = j THEN 0 ELSE v[k + 1]
    BY <1>1, <2>1, ElementOfSeq DEF n
  <2> DEFINE a == UpTo(v, k)
             b == UpTo(e, k)
             c == UpTo(v, k + 1)
             d == UpTo(e, k + 1)
             x == v[k + 1]
             y == v[j]
             z == e[k + 1]
  <2> HIDE DEF a, b, c, d, x, y, z
  <2>5. /\ a \in Nat /\ b \in Nat /\ x \in Nat /\ y \in Nat /\ c = a + x /\ d = b + z
        /\ a = b + (IF j <= k THEN y ELSE 0) /\ z = IF k + 1 = j THEN 0 ELSE x
        /\ (k + 1 = j => x = y) /\ j \in Nat
    <3>1. a \in Nat /\ b \in Nat
      BY <1>2, <2>1 DEF a, b
    <3>2. c = a + x /\ d = b + z
      BY <2>2 DEF a, b, c, d, x, z
    <3>3. a = b + (IF j <= k THEN y ELSE 0)
      BY <2>3 DEF a, b, y
    <3>4. x \in Nat /\ z = (IF k + 1 = j THEN 0 ELSE x) /\ (k + 1 = j => x = y)
      BY <2>4 DEF x, y, z
    <3>5. y \in Nat /\ j \in Nat
      BY <1>1 DEF y
    <3> QED
      BY <3>1, <3>2, <3>3, <3>4, <3>5
  <2>6. c = d + (IF j <= k + 1 THEN y ELSE 0)
    BY <2>5
  <2> QED
    BY <2>6 DEF c, d, y
<1> HIDE DEF G
<1>5. Nat \subseteq G
  BY <1>3, <1>4, UpFromZero
<1>6. n \in G /\ j <= n
  BY <1>1, <1>5
<1> QED
  BY <1>1, <1>2, <1>6 DEF G, e

LEMMA LastOff ==
  ASSUME NEW S, NEW n \in Nat, NEW f \in Seq(S), NEW e \in S, NEW x \in Seq(S),
         Len(f) = n, Len(x) = n + 1, \A i \in 1..n : f[i] = x[i], x[n + 1] = e
  PROVE  x = Append(f, e)
<1> DEFINE a == Append(f, e)
<1>1. /\ a \in Seq(S) /\ Len(a) = Len(f) + 1 /\ a[Len(f) + 1] = e
      /\ \A i \in 1..Len(f) : a[i] = f[i]
  BY AppendProperties
<1> HIDE DEF a
<1>2. \A i \in 1..(n + 1) : i \in 1..n \/ i = n + 1
  OBVIOUS
<1>3. \A i \in 1..Len(x) : x[i] = a[i]
  BY <1>1, <1>2
<1>4. x = a
  BY <1>1, <1>3, SeqEqual
<1> QED
  BY <1>4 DEF a

LEMMA SumCovers ==
  ASSUME NEW u \in Seq(Nat), NEW v \in Seq(Nat), Covers_(u, v)
  PROVE  Sum(u) <= Sum(v)
<1> DEFINE G == {n \in Nat : \A x, y \in Seq(Nat) : Len(x) = n /\ Covers_(x, y) => Sum(x) <= Sum(y)}
<1>1. 0 \in G
  <2> SUFFICES ASSUME NEW x \in Seq(Nat), NEW y \in Seq(Nat), Len(x) = 0 PROVE Sum(x) <= Sum(y)
    OBVIOUS
  <2>1. x = << >> /\ 0 \in Nat
    OBVIOUS
  <2>2. Sum(x) = 0
    BY <2>1, SumAppend
  <2>3. Sum(y) \in Nat
    BY SumType
  <2> QED
    BY <2>2, <2>3
<1>2. ASSUME NEW n \in Nat, n \in G PROVE n + 1 \in G
  <2> SUFFICES ASSUME NEW x \in Seq(Nat), NEW y \in Seq(Nat), Len(x) = n + 1, Covers_(x, y)
               PROVE  Sum(x) <= Sum(y)
    OBVIOUS
  <2>1. PICK p \in [1..Len(x) -> 1..Len(y)] :
          /\ \A i, j \in 1..Len(x) : p[i] = p[j] => i = j
          /\ \A i \in 1..Len(x) : x[i] <= y[p[i]]
    BY DEF Covers_
  <2>2. n + 1 \in 1..Len(x) /\ \A i \in 1..n : i \in 1..Len(x) /\ i # n + 1
    OBVIOUS
  <2> DEFINE f == [i \in 1..n |-> x[i]]
             j == p[n + 1]
             e == [y EXCEPT ![j] = 0]
             q == [i \in 1..n |-> p[i]]
  <2>3. f \in Seq(Nat) /\ Len(f) = n /\ x[n + 1] \in Nat /\ x = Append(f, x[n + 1])
    <3>1. f \in Seq(Nat) /\ Len(f) = n /\ x[n + 1] \in Nat /\ \A i \in 1..n : f[i] = x[i]
      BY <2>2
    <3> HIDE DEF f
    <3> QED
      BY <3>1, LastOff
  <2>4. j \in 1..Len(y) /\ x[n + 1] <= y[j] /\ y[j] \in Nat
    BY <2>1, <2>2
  <2> HIDE DEF f, j
  <2>5. e \in Seq(Nat) /\ Sum(y) = Sum(e) + y[j]
    BY <2>4, SumWithout
  <2>6. Len(e) = Len(y) /\ \A i \in 1..Len(y) : i # j => e[i] = y[i]
    BY <2>4
  <2> HIDE DEF e
  <2>7. Covers_(f, e)
    <3>1. q \in [1..Len(f) -> 1..Len(e)]
      BY <2>1, <2>2, <2>3, <2>6
    <3>2. \A i, k \in 1..Len(f) : q[i] = q[k] => i = k
      BY <2>1, <2>2, <2>3
    <3>3. ASSUME NEW i \in 1..Len(f) PROVE f[i] <= e[q[i]]
      <4>1. i \in 1..n /\ f[i] = x[i] /\ q[i] = p[i] /\ p[i] # j /\ p[i] \in 1..Len(y)
        BY <2>1, <2>2, <2>3 DEF f, j
      <4> QED
        BY <2>1, <2>2, <2>6, <4>1
    <3> HIDE DEF q
    <3> QED
      BY <3>1, <3>2, <3>3 DEF Covers_
  <2>8. Sum(f) <= Sum(e)
    BY <1>2, <2>3, <2>5, <2>7
  <2>9. Sum(x) = Sum(f) + x[n + 1] /\ Sum(f) \in Nat /\ Sum(e) \in Nat
    BY <2>3, <2>5, SumAppend, SumType
  <2> DEFINE a == Sum(x)
             b == Sum(f)
             c == Sum(e)
             d == Sum(y)
             s == x[n + 1]
             t == y[j]
  <2> HIDE DEF a, b, c, d, s, t
  <2>10. b \in Nat /\ c \in Nat /\ s \in Nat /\ t \in Nat /\ s <= t /\ b <= c /\ a = b + s /\ d = c + t
    BY <2>3, <2>4, <2>5, <2>8, <2>9 DEF a, b, c, d, s, t
  <2>11. a <= d
    BY <2>10
  <2> QED
    BY <2>11 DEF a, d
<1> HIDE DEF G
<1>3. Nat \subseteq G
  BY <1>1, <1>2, UpFromZero
<1>4. Len(u) \in G
  BY <1>3
<1> QED
  BY <1>4 DEF G

-----------------------------------------------------------------------------
(* What is read from a joined sequence. *)

LEMMA ReadsIs ==
  ASSUME NEW S, NEW s \in Seq(S), NEW o \in Nat, NEW l \in Nat, NEW t \in Seq(S),
         o + l <= Len(s), Len(t) = l, \A i \in 1..l : s[o + i] = t[i]
  PROVE  Reads(s, o, l, t)
<1> DEFINE u == SubSeq(s, o + 1, o + l)
<1>1. u \in Seq(S) /\ Len(u) = l /\ \A i \in 1..l : u[i] = s[o + i]
  BY PartIs
<1> HIDE DEF u
<1>2. \A i \in 1..Len(t) : t[i] = u[i]
  BY <1>1
<1>3. u = t
  BY <1>1, <1>2, SeqEqual
<1> QED
  BY <1>3 DEF Reads, u

LEMMA ReadsGives ==
  ASSUME NEW S, NEW s \in Seq(S), NEW o, NEW l, NEW t, Reads(s, o, l, t)
  PROVE  /\ o \in Nat /\ l \in Nat /\ o + l <= Len(s) /\ t \in Seq(S) /\ Len(t) = l
         /\ \A i \in 1..l : s[o + i] = t[i]
BY PartIs DEF Reads

LEMMA ReadsAll ==
  ASSUME NEW S, NEW s \in Seq(S)
  PROVE  Reads(s, 0, Len(s), s)
<1>1. Len(s) \in Nat /\ 0 \in Nat /\ 0 + Len(s) <= Len(s) /\ \A i \in 1..Len(s) : s[0 + i] = s[i]
  OBVIOUS
<1> QED
  BY <1>1, ReadsIs

LEMMA ReadsFront ==
  ASSUME NEW S, NEW s \in Seq(S), NEW t \in Seq(S), NEW o, NEW l, NEW v, Reads(s, o, l, v)
  PROVE  Reads(s \o t, o, l, v)
<1> DEFINE n == Len(s)
           k == Len(t)
           u == s \o t
<1>1. /\ o \in Nat /\ l \in Nat /\ o + l <= n /\ v \in Seq(S) /\ Len(v) = l
      /\ \A i \in 1..l : s[o + i] = v[i]
  BY ReadsGives
<1>2. /\ u \in Seq(S) /\ Len(u) = n + k /\ n \in Nat /\ k \in Nat
      /\ \A p \in 1..n : u[p] = s[p]
  BY JoinedTwo
<1> HIDE DEF n, k, u
<1>3. \A i \in 1..l : o + i \in 1..n
  BY <1>1, <1>2
<1>4. o + l <= Len(u)
  <2>1. o \in Nat /\ l \in Nat /\ n \in Nat /\ k \in Nat /\ o + l <= n
    BY <1>1, <1>2
  <2>2. o + l <= n + k
    BY <2>1
  <2> QED
    BY <1>2, <2>2
<1>5. ASSUME NEW i \in 1..l PROVE u[o + i] = v[i]
  <2> DEFINE p == o + i
  <2>1. p \in 1..n /\ s[p] = v[i]
    BY <1>1, <1>3
  <2> HIDE DEF p
  <2>2. u[p] = v[i]
    BY <1>2, <2>1
  <2> QED
    BY <2>2 DEF p
<1>6. Reads(u, o, l, v)
  BY <1>1, <1>2, <1>4, <1>5, ReadsIs
<1> QED
  BY <1>6 DEF u

LEMMA ReadsBehind ==
  ASSUME NEW S, NEW s \in Seq(S), NEW t \in Seq(S), NEW o, NEW l, NEW v, Reads(t, o, l, v)
  PROVE  Reads(s \o t, Len(s) + o, l, v)
<1> DEFINE n == Len(s)
           k == Len(t)
           u == s \o t
<1>1. /\ o \in Nat /\ l \in Nat /\ o + l <= k /\ v \in Seq(S) /\ Len(v) = l
      /\ \A i \in 1..l : t[o + i] = v[i]
  BY ReadsGives
<1>2. /\ u \in Seq(S) /\ Len(u) = n + k /\ n \in Nat /\ k \in Nat
      /\ \A j \in 1..k : u[n + j] = t[j]
  BY JoinedTwo
<1> HIDE DEF n, k, u
<1>3. \A i \in 1..l : o + i \in 1..k /\ (n + o) + i = n + (o + i)
  BY <1>1, <1>2
<1>4. n + o \in Nat /\ (n + o) + l <= Len(u)
  <2>1. o \in Nat /\ l \in Nat /\ n \in Nat /\ k \in Nat /\ o + l <= k
    BY <1>1, <1>2
  <2>2. n + o \in Nat /\ (n + o) + l <= n + k
    BY <2>1
  <2> QED
    BY <1>2, <2>2
<1>5. ASSUME NEW i \in 1..l PROVE u[(n + o) + i] = v[i]
  <2> DEFINE p == o + i
  <2>1. p \in 1..k /\ t[p] = v[i] /\ (n + o) + i = n + p
    BY <1>1, <1>3
  <2> HIDE DEF p
  <2>2. u[n + p] = v[i]
    BY <1>2, <2>1
  <2> QED
    BY <2>1, <2>2
<1>6. Reads(u, n + o, l, v)
  BY <1>1, <1>2, <1>4, <1>5, ReadsIs
<1> QED
  BY <1>6 DEF u, n

LEMMA ReadsPart ==
  ASSUME NEW S, NEW seqs \in Seq(Seq(S)), NEW n \in 1..Len(seqs)
  PROVE  Reads(FlattenSeq(seqs), UpTo(Lengths_(seqs), n - 1), Len(seqs[n]), seqs[n])
<1> DEFINE whole == FlattenSeq(seqs)
           lens == Lengths_(seqs)
           b == UpTo(lens, n - 1)
           e == UpTo(lens, n)
           l == Len(seqs[n])
<1>1. /\ lens \in Seq(Nat) /\ Len(lens) = Len(seqs) /\ Len(seqs) \in Nat
      /\ lens[n] = l /\ l \in Nat /\ seqs[n] \in Seq(S)
  BY LengthsAre
<1>2. whole \in Seq(S) /\ InPlace(seqs, Len(seqs), whole)
  BY FlattenInPlace
<1>3. /\ b \in Nat /\ e = b + l /\ e <= UpTo(lens, Len(seqs)) /\ e \in Nat
      /\ UpTo(lens, Len(seqs)) \in Nat
  <2> HIDE DEF lens
  <2>1. n - 1 \in 0..Len(lens) /\ n \in 1..Len(lens) /\ n \in 0..Len(lens) /\ n <= Len(lens)
        /\ Len(lens) \in 0..Len(lens)
    BY <1>1
  <2> QED
    BY <1>1, <2>1, UpToSums, UpToGrows
<1>4. Len(whole) = UpTo(lens, Len(seqs)) /\ \A j \in 1..l : whole[b + j] = seqs[n][j]
  BY <1>2 DEF InPlace
<1> HIDE DEF whole, lens, b, e, l
<1>5. b + l <= Len(whole)
  BY <1>3, <1>4
<1>6. Reads(whole, b, l, seqs[n])
  BY <1>1, <1>2, <1>3, <1>4, <1>5, ReadsIs DEF l
<1> QED
  BY <1>6 DEF whole, lens, b, l

-----------------------------------------------------------------------------
(* The searches. *)
LEMMA InfinityIs == Infinity \in Nat /\ \A n \in Sizes : n \in Nat /\ n < Infinity
<1>1. Sizes \subseteq Nat /\ \E n \in Sizes : \A m \in Sizes : m <= n
  BY ArchiveRunAssumption
<1> DEFINE top == CHOOSE n \in Sizes : \A m \in Sizes : m <= n
<1>2. top \in Sizes /\ \A m \in Sizes : m <= top
  BY <1>1
<1> HIDE DEF top
<1>3. top \in Nat /\ 1 + top \in Nat /\ \A m \in Sizes : m \in Nat /\ m < 1 + top
  BY <1>1, <1>2
<1> QED
  BY <1>3 DEF Infinity, top

LEMMA ConstantsAre ==
  /\ LARGEST_CUT \in Nat \ {0} /\ FIRST_WINDOW \in Nat \ {0} /\ FIRST_DICT \in Nat \ {0}
  /\ DEFAULT_WINDOW \in Nat \ {0} /\ DEFAULT_DICT \in Nat \ {0} /\ LAST_DICT \in Nat \ {0}
  /\ FIRST_DICT <= LAST_DICT /\ Sizes \subseteq Nat \ {0}
  /\ SMALLEST_CUT \in Nat \ {0} /\ FIRST_WINDOW \in Cuttable /\ DEFAULT_WINDOW \in Cuttable
  /\ Arguments \subseteq [mode : {"default", "optical"}, auto_tune : BOOLEAN,
                          window : Nat, dictionary : Nat]
<1>1. /\ LARGEST_CUT \in Nat \ {0} /\ FIRST_DICT \in Nat \ {0} /\ DEFAULT_DICT \in Nat \ {0}
      /\ LAST_DICT \in Nat \ {0} /\ SMALLEST_CUT \in Nat \ {0}
      /\ FIRST_WINDOW \in Cuttable /\ DEFAULT_WINDOW \in Cuttable
  BY ArchiveRunAssumption
<1>2. FIRST_WINDOW \in Nat \ {0} /\ DEFAULT_WINDOW \in Nat \ {0}
  BY <1>1 DEF Cuttable
<1> QED
  BY <1>1, <1>2, ArchiveRunAssumption

LEMMA RangesAre ==
  ASSUME SearchesInv
  PROVE  window \in Nat /\ dict \in Nat /\ args.window \in Nat /\ args.dictionary \in Nat
<1>1. args.window \in Nat /\ args.dictionary \in Nat
  BY DEF SearchesInv, SearchInv
<1>2. \A n \in 0..(2 * LARGEST_CUT) : n \in Nat
  OBVIOUS
<1>3. \A n \in 0..LAST_DICT : n \in Nat
  OBVIOUS
<1> QED
  BY <1>1, <1>2, <1>3, ConstantsAre DEF SearchesInv, ArchiveTypeOK

LEMMA SearchInit ==
  ASSUME ArchiveInit PROVE SearchesInv
<1>1. 0 \in 0..(2 * LARGEST_CUT) /\ 0 \in 0..LAST_DICT
  BY ConstantsAre
<1>2. args \in [mode : {"default", "optical"}, auto_tune : BOOLEAN, window : Nat, dictionary : Nat]
  BY ConstantsAre DEF ArchiveInit
<1> QED
  BY <1>1, <1>2, InfinityIs DEF ArchiveInit, SearchesInv, ArchiveTypeOK, TunedIsBest, SearchInv

(* A step that leaves the search alone, or ends it. *)
LEMMA SearchRests ==
  ASSUME SearchesInv, args' = args, UNCHANGED <<window, dict>>,
         \/ UNCHANGED <<best, last, tests>>
         \/ tests' = {} /\ best' \in Nat /\ last' \in Nat,
         \/ UNCHANGED <<pc, result, best, last, tests>>
         \/ pc' \in {"serialize", "verify", "build", "write"} /\ tests' = {} /\ result' = result /\ result = "none"
         \/ pc' = "returned" /\ result' \in {"Ok", "Error", "Cancelled"} 
  PROVE  SearchesInv'
<1>1. ArchiveTypeOK'
  BY DEF SearchesInv, ArchiveTypeOK
<1>2. TunedIsBest'
  BY DEF SearchesInv, TunedIsBest, Settled
<1>3. SearchInv'
  BY DEF SearchesInv, SearchInv, Searching
<1> QED
  BY <1>1, <1>2, <1>3 DEF SearchesInv

(* One turn. *)
LEMMA MeasuredIs ==
  ASSUME SearchesInv, NEW tried \in Nat, Searching(tried), NEW size \in Sizes, Measured(tried, size)
  PROVE  /\ tests' # {} /\ \A t \in tests' : t.tried \in Nat /\ t.size \in Nat /\ t.size \in Sizes
         /\ best' \in Nat /\ last' \in Nat
         /\ Worse(size) => /\ tests # {} /\ tried = 2 * best /\ best' = best /\ last' = last
                           /\ \A limit : Settled(best, limit)'
         /\ ~Worse(size) => /\ best' = tried /\ last' = size
                            /\ [tried |-> tried, size |-> size] \in tests'
                            /\ \A u \in tests' : size <= u.size /\ (u.size = size => u.tried <= tried)
<1> DEFINE new == [tried |-> tried, size |-> size]
<1>1. size \in Nat /\ size < Infinity /\ Infinity \in Nat /\ best \in Nat /\ last \in Nat
  BY InfinityIs DEF SearchesInv, SearchInv
<1>2. new.tried = tried /\ new.size = size
  OBVIOUS
<1>3. tests' = tests \cup {new}
  BY DEF Measured
<1> HIDE DEF new
<1>4. \A t \in tests : t.tried \in Nat /\ t.size \in Nat /\ t.size \in Sizes
  BY DEF SearchesInv, SearchInv, ArchiveTypeOK
<1>5. tests' # {} /\ \A t \in tests' : t.tried \in Nat /\ t.size \in Nat /\ t.size \in Sizes
  BY <1>1, <1>2, <1>3, <1>4
<1>6. ASSUME Worse(size)
      PROVE  /\ tests # {} /\ tried = 2 * best /\ best' = best /\ last' = last
             /\ \A limit : Settled(best, limit)'
  <2>1. size > last
    BY <1>6 DEF Worse
  <2>2. tests # {} /\ tried = 2 * best
    BY <1>1, <2>1 DEF Searching
  <2>3. best' = best /\ last' = last
    BY <1>6 DEF Measured
  <2> DEFINE t == [tried |-> best, size |-> last]
  <2>4. t.tried = best /\ t.size = last
    OBVIOUS
  <2>5. t \in tests /\ \A u \in tests : last <= u.size /\ (u.size = last => u.tried <= best)
    BY <2>2 DEF Searching
  <2> HIDE DEF t
  <2>6. ASSUME NEW u \in tests' PROVE t.size <= u.size /\ (t.size = u.size => u.tried <= t.tried)
    <3>1. CASE u \in tests
      BY <2>4, <2>5, <3>1
    <3>2. CASE u = new
      BY <1>1, <1>2, <2>1, <2>4, <3>2
    <3> QED
      BY <1>3, <3>1, <3>2
  <2>7. new \in tests' /\ t \in tests' /\ new.tried = 2 * best /\ new.size > t.size
    BY <1>2, <1>3, <2>1, <2>2, <2>4, <2>5
  <2>8. \A limit : Settled(best, limit)'
    BY <2>3, <2>4, <2>6, <2>7 DEF Settled
  <2> QED
    BY <2>2, <2>3, <2>8
<1>7. ASSUME ~Worse(size)
      PROVE  /\ best' = tried /\ last' = size /\ new \in tests'
             /\ \A u \in tests' : size <= u.size /\ (u.size = size => u.tried <= tried)
  <2>1. size <= last /\ best' = tried /\ last' = size
    BY <1>1, <1>7 DEF Worse, Measured
  <2>2. ASSUME NEW u \in tests PROVE size <= u.size /\ (u.size = size => u.tried <= tried)
    <3>1. /\ tried = 2 * best /\ last <= u.size /\ (u.size = last => u.tried <= best)
      BY DEF Searching
    <3>2. u.size \in Nat /\ u.tried \in Nat
      BY <1>4
    <3> DEFINE a == u.size
               b == u.tried
    <3> HIDE DEF a, b
    <3>3. a \in Nat /\ b \in Nat /\ tried = 2 * best /\ last <= a /\ (a = last => b <= best)
      BY <3>1, <3>2 DEF a, b
    <3>4. size <= a /\ (a = size => b <= tried)
      BY <1>1, <2>1, <3>3
    <3> QED
      BY <3>4 DEF a, b
  <2>3. size <= new.size /\ new.tried <= tried
    BY <1>1, <1>2
  <2> QED
    BY <1>3, <2>1, <2>2, <2>3
<1>8. best' \in Nat /\ last' \in Nat
  BY <1>1, <1>6, <1>7
<1> QED
  BY <1>5, <1>6, <1>7, <1>8 DEF new

LEMMA WindowTurn ==
  ASSUME SearchesInv, TryWindow PROVE SearchesInv'
<1>1. /\ pc = "window" /\ dict' = dict /\ args' = args /\ Searching(window)
      /\ window >= SMALLEST_CUT /\ (tests # {} => best \in Cuttable) /\ result = "none"
  BY DEF TryWindow, Kept, SearchesInv, SearchInv, ArchiveTypeOK
<1>2. window \in Nat /\ SMALLEST_CUT \in Nat /\ LARGEST_CUT \in Nat /\ best \in Nat
  BY RangesAre, ConstantsAre DEF SearchesInv, SearchInv
<1>3. CASE window \notin Cuttable /\ Return("panic") /\ UNCHANGED <<window, best, last, tests>>
  <2>1. tests # {} => Settled(best, LARGEST_CUT)
    <3> SUFFICES ASSUME tests # {} PROVE Settled(best, LARGEST_CUT)
      OBVIOUS
    <3> DEFINE t == [tried |-> best, size |-> last]
    <3>1. t.tried = best /\ t.size = last
      OBVIOUS
    <3>2. /\ t \in tests /\ window = 2 * best
          /\ \A u \in tests : last <= u.size /\ (u.size = last => u.tried <= best)
      BY <1>1 DEF Searching
    <3>3. 2 * best > LARGEST_CUT
      BY <1>1, <1>2, <1>3, <3>2 DEF Cuttable
    <3> HIDE DEF t
    <3> QED
      BY <3>1, <3>2, <3>3 DEF Settled
  <2>2. pc' = "returned" /\ result' = "panic"
    BY <1>3 DEF Return
  <2>3. ArchiveTypeOK'
    BY <1>1, <1>3, <2>2 DEF SearchesInv, ArchiveTypeOK
  <2>4. TunedIsBest'
    BY <1>3, <2>1, <2>2 DEF TunedIsBest, Settled
  <2>5. SearchInv'
    BY <1>1, <1>3, <2>2 DEF SearchesInv, SearchInv
  <2> QED
    BY <2>3, <2>4, <2>5 DEF SearchesInv
<1>4. ASSUME window \in Cuttable, NEW size \in Sizes, Measured(window, size),
             IF Worse(size) THEN Goto("process") /\ window' = best
             ELSE UNCHANGED <<pc, result>> /\ window' = NextTried(window)
      PROVE  SearchesInv'
  <2>1. /\ tests' # {} /\ \A t \in tests' : t.tried \in Nat /\ t.size \in Nat /\ t.size \in Sizes
        /\ best' \in Nat /\ last' \in Nat
    BY <1>1, <1>2, <1>4, MeasuredIs
  <2>2. CASE Worse(size)
    <3>1. /\ tests # {} /\ window = 2 * best /\ best' = best /\ last' = last
          /\ \A limit : Settled(best, limit)'
      BY <1>1, <1>2, <1>4, <2>2, MeasuredIs
    <3>2. pc' = "process" /\ result' = result /\ window' = best /\ best \in Cuttable
      BY <1>1, <1>4, <2>2, <3>1 DEF Goto
    <3>3. best \in 0..(2 * LARGEST_CUT)
      BY <1>2, <3>2 DEF Cuttable
    <3>4. ArchiveTypeOK'
      BY <1>1, <2>1, <3>2, <3>3 DEF SearchesInv, ArchiveTypeOK
    <3>5. TunedIsBest'
      BY <1>1, <3>1, <3>2 DEF TunedIsBest, Settled
    <3>6. SearchInv'
      BY <1>1, <2>1, <3>2 DEF SearchesInv, SearchInv
    <3> QED
      BY <3>4, <3>5, <3>6 DEF SearchesInv
  <2>3. CASE ~Worse(size)
    <3>1. /\ best' = window /\ last' = size /\ [tried |-> window, size |-> size] \in tests'
          /\ \A u \in tests' : size <= u.size /\ (u.size = size => u.tried <= window)
      BY <1>1, <1>2, <1>4, <2>3, MeasuredIs
    <3>2. pc' = "window" /\ result' = "none" /\ window' = 2 * window
      BY <1>1, <1>4, <2>3 DEF NextTried
    <3>3. 2 * window \in 0..(2 * LARGEST_CUT) /\ 2 * window >= SMALLEST_CUT
      BY <1>1, <1>2, <1>4 DEF Cuttable
    <3>4. ArchiveTypeOK'
      BY <1>1, <2>1, <3>2, <3>3 DEF SearchesInv, ArchiveTypeOK
    <3>5. TunedIsBest'
      BY <3>2 DEF TunedIsBest
    <3>6. Searching(window)'
      BY <2>1, <3>1, <3>2 DEF Searching
    <3>7. SearchInv'
      BY <1>1, <1>4, <2>1, <3>1, <3>2, <3>3, <3>6 DEF SearchesInv, SearchInv
    <3> QED
      BY <3>4, <3>5, <3>7 DEF SearchesInv
  <2> QED
    BY <2>2, <2>3
<1>5. CASE (Return("Error") \/ Cancelled) /\ UNCHANGED <<window, best, last, tests>>
  BY <1>1, <1>5, SearchRests DEF Return, Cancelled
<1> QED
  BY <1>3, <1>4, <1>5 DEF TryWindow

LEMMA DictionaryTurn ==
  ASSUME SearchesInv, TryDictionary PROVE SearchesInv'
<1>1. /\ pc = "dict" /\ window' = window /\ args' = args /\ Searching(dict)
      /\ dict <= LAST_DICT /\ best <= LAST_DICT /\ result = "none"
  BY DEF TryDictionary, Kept, SearchesInv, SearchInv, ArchiveTypeOK
<1>2. dict \in Nat /\ LAST_DICT \in Nat /\ best \in Nat
  BY RangesAre, ConstantsAre DEF SearchesInv, SearchInv
<1>3. ASSUME NEW size \in Sizes, Measured(dict, size),
             IF Worse(size) THEN Goto("serialize") /\ dict' = best
             ELSE IF TooLarge(NextTried(dict)) THEN Goto("serialize") /\ UNCHANGED dict
             ELSE UNCHANGED <<pc, result>> /\ dict' = NextTried(dict)
      PROVE  SearchesInv'
  <2>1. /\ tests' # {} /\ \A t \in tests' : t.tried \in Nat /\ t.size \in Nat /\ t.size \in Sizes
        /\ best' \in Nat /\ last' \in Nat
    BY <1>1, <1>2, <1>3, MeasuredIs
  <2>2. ASSUME pc' = "serialize", result' = result, dict' \in Nat, dict' <= LAST_DICT,
               Settled(dict, LAST_DICT)'
        PROVE  SearchesInv'
    <3>1. dict' \in 0..LAST_DICT
      BY <1>2, <2>2
    <3>2. ArchiveTypeOK'
      BY <1>1, <2>1, <2>2, <3>1 DEF SearchesInv, ArchiveTypeOK
    <3>3. TunedIsBest'
      BY <1>1, <2>2 DEF TunedIsBest
    <3>4. SearchInv'
      BY <1>1, <2>1, <2>2 DEF SearchesInv, SearchInv
    <3> QED
      BY <3>2, <3>3, <3>4 DEF SearchesInv
  <2>3. CASE Worse(size)
    <3>1. /\ tests # {} /\ dict = 2 * best /\ best' = best /\ last' = last
          /\ \A limit : Settled(best, limit)'
      BY <1>1, <1>2, <1>3, <2>3, MeasuredIs
    <3>2. pc' = "serialize" /\ result' = result /\ dict' = best
      BY <1>3, <2>3 DEF Goto
    <3>3. Settled(dict, LAST_DICT)'
      BY <3>1, <3>2 DEF Settled
    <3> QED
      BY <1>1, <1>2, <2>2, <3>2, <3>3
  <2>4. CASE ~Worse(size)
    <3>1. /\ best' = dict /\ last' = size /\ [tried |-> dict, size |-> size] \in tests'
          /\ \A u \in tests' : size <= u.size /\ (u.size = size => u.tried <= dict)
      BY <1>1, <1>2, <1>3, <2>4, MeasuredIs
    <3>2. CASE TooLarge(NextTried(dict))
      <4>1. pc' = "serialize" /\ result' = result /\ dict' = dict /\ 2 * dict > LAST_DICT
        BY <1>3, <2>4, <3>2 DEF Goto, TooLarge, NextTried
      <4> DEFINE t == [tried |-> dict, size |-> size]
      <4>2. t.tried = dict /\ t.size = size /\ t \in tests'
        BY <3>1
      <4>3. \A u \in tests' : u.size \in Nat
        BY <2>1
      <4> HIDE DEF t
      <4>4. Settled(dict, LAST_DICT)'
        BY <3>1, <4>1, <4>2, <4>3 DEF Settled
      <4> QED
        BY <1>1, <1>2, <2>2, <4>1, <4>4
    <3>3. CASE ~TooLarge(NextTried(dict))
      <4>1. pc' = "dict" /\ result' = "none" /\ dict' = 2 * dict /\ ~(2 * dict > LAST_DICT)
        BY <1>1, <1>3, <2>4, <3>3 DEF TooLarge, NextTried
      <4>2. 2 * dict \in 0..LAST_DICT /\ 2 * dict <= LAST_DICT
        BY <1>2, <4>1
      <4>3. ArchiveTypeOK'
        BY <1>1, <2>1, <4>1, <4>2 DEF SearchesInv, ArchiveTypeOK
      <4>4. TunedIsBest'
        BY <4>1 DEF TunedIsBest
      <4>5. Searching(dict)'
        BY <2>1, <3>1, <4>1 DEF Searching
      <4>6. SearchInv'
        BY <1>1, <2>1, <3>1, <4>1, <4>2, <4>5 DEF SearchesInv, SearchInv
      <4> QED
        BY <4>3, <4>4, <4>6 DEF SearchesInv
    <3> QED
      BY <3>2, <3>3
  <2> QED
    BY <2>3, <2>4
<1>4. CASE (Return("Error") \/ Cancelled) /\ UNCHANGED <<dict, best, last, tests>>
  BY <1>1, <1>4, SearchRests DEF Return, Cancelled
<1> QED
  BY <1>3, <1>4 DEF TryDictionary

LEMMA ArgsTurn ==
  ASSUME SearchesInv, ValidateArgs PROVE SearchesInv'
<1>1. /\ pc = "start" /\ dict' = dict /\ tests' = tests /\ args' = args /\ tests = {}
      /\ result = "none"
  BY DEF ValidateArgs, Kept, SearchesInv, SearchInv, ArchiveTypeOK
<1>2. /\ FIRST_WINDOW \in Nat /\ Infinity \in Nat /\ args.window \in Nat
      /\ FIRST_WINDOW >= SMALLEST_CUT
  BY RangesAre, ConstantsAre, InfinityIs DEF Cuttable
<1>3. CASE Return("Error") /\ UNCHANGED <<window, best, last>>
  BY <1>1, <1>3, SearchRests DEF Return
<1>4. CASE /\ Goto("window")
           /\ window' = FIRST_WINDOW /\ best' = FIRST_WINDOW /\ last' = Infinity
  <2>1. pc' = "window" /\ result' = "none"
    BY <1>1, <1>4 DEF Goto
  <2>2. ArchiveTypeOK'
    BY <1>1, <1>4, <2>1 DEF SearchesInv, ArchiveTypeOK
  <2>3. TunedIsBest' /\ SearchInv'
    BY <1>1, <1>2, <1>4, <2>1 DEF SearchesInv, TunedIsBest, SearchInv, Searching, Infinity
  <2> QED
    BY <2>2, <2>3 DEF SearchesInv
<1>5. CASE /\ Goto("process")
           /\ window' = Given(args.window, DEFAULT_WINDOW) /\ UNCHANGED <<best, last>>
  <2>1. pc' = "process" /\ result' = "none" /\ window' \in {args.window, DEFAULT_WINDOW}
    BY <1>1, <1>5 DEF Goto, Given
  <2>2. ArchiveTypeOK'
    BY <1>1, <1>5, <2>1 DEF SearchesInv, ArchiveTypeOK
  <2>3. TunedIsBest' /\ SearchInv'
    BY <1>1, <1>5, <2>1 DEF SearchesInv, TunedIsBest, SearchInv
  <2> QED
    BY <2>2, <2>3 DEF SearchesInv
<1> QED
  BY <1>3, <1>4, <1>5 DEF ValidateArgs

LEMMA ProcessTurn ==
  ASSUME SearchesInv, Process PROVE SearchesInv'
<1>1. /\ pc = "process" /\ window' = window /\ args' = args /\ result = "none"
  BY DEF Process, Kept, SearchesInv, SearchInv, ArchiveTypeOK
<1>2. /\ FIRST_DICT \in Nat /\ Infinity \in Nat /\ FIRST_DICT <= LAST_DICT /\ 0 \in Nat
      /\ LAST_DICT \in Nat
  BY ConstantsAre, InfinityIs
<1>3. CASE window \notin Cuttable /\ Return("panic") /\ UNCHANGED search
  <2>1. tests = {}
    BY <1>1, <1>3, RangesAre, ConstantsAre DEF SearchesInv, SearchInv
  <2>2. pc' = "returned" /\ result' = "panic" /\ tests' = tests /\ dict' = dict /\ best' = best
        /\ last' = last
    BY <1>3 DEF Return, search
  <2>3. ArchiveTypeOK'
    BY <1>1, <2>1, <2>2 DEF SearchesInv, ArchiveTypeOK
  <2>4. TunedIsBest' /\ SearchInv'
    BY <1>1, <2>1, <2>2 DEF SearchesInv, TunedIsBest, SearchInv
  <2> QED
    BY <2>3, <2>4 DEF SearchesInv
<1>4. CASE (Return("Error") \/ Cancelled) /\ UNCHANGED search
  BY <1>1, <1>4, SearchRests DEF Return, Cancelled, search
<1>5. CASE /\ tests' = {} /\ last' = Infinity /\ Goto("dict")
           /\ dict' = FIRST_DICT /\ best' = FIRST_DICT
  <2>1. pc' = "dict" /\ result' = "none" /\ dict' \in 0..LAST_DICT
    BY <1>1, <1>2, <1>5 DEF Goto
  <2>2. ArchiveTypeOK'
    BY <1>1, <1>5, <2>1 DEF SearchesInv, ArchiveTypeOK
  <2>3. TunedIsBest' /\ SearchInv'
    BY <1>1, <1>2, <1>5, <2>1 DEF SearchesInv, TunedIsBest, SearchInv, Searching, Infinity
  <2> QED
    BY <2>2, <2>3 DEF SearchesInv
<1>6. CASE /\ tests' = {} /\ last' = Infinity /\ Goto("serialize")
           /\ dict' = Given(args.dictionary, DEFAULT_DICT) /\ best' = 0
  <2>1. pc' = "serialize" /\ result' = "none" /\ dict' \in {args.dictionary, DEFAULT_DICT}
    BY <1>1, <1>6 DEF Goto, Given
  <2>2. ArchiveTypeOK'
    BY <1>1, <1>6, <2>1 DEF SearchesInv, ArchiveTypeOK
  <2>3. TunedIsBest' /\ SearchInv'
    BY <1>1, <1>2, <1>6, <2>1 DEF SearchesInv, TunedIsBest, SearchInv
  <2> QED
    BY <2>2, <2>3 DEF SearchesInv
<1> QED
  BY <1>3, <1>4, <1>5, <1>6 DEF Process

LEMMA SearchNext ==
  ASSUME SearchesInv, [ArchiveNext]_archive_vars PROVE SearchesInv'
<1> USE DEF Kept, Goto, Return, Cancelled, search
<1>1. CASE ValidateArgs
  BY <1>1, ArgsTurn
<1>2. CASE TryWindow
  BY <1>2, WindowTurn
<1>3. CASE TryDictionary
  BY <1>3, DictionaryTurn
<1>4. CASE Process
  BY <1>4, ProcessTurn
<1>5. CASE Serialize
  <2>1. Infinity \in Nat /\ 0 \in Nat /\ result = "none"
    BY <1>5, InfinityIs DEF SearchesInv, ArchiveTypeOK, Serialize
  <2>2. /\ args' = args /\ UNCHANGED <<window, dict>> /\ tests' = {} /\ best' \in Nat
        /\ last' \in Nat
        /\ \/ pc' = "verify" /\ result' = result
           \/ pc' = "returned" /\ result' \in {"Error", "Cancelled"}
    BY <1>5, <2>1 DEF Serialize
  <2> QED
    BY <2>1, <2>2, SearchRests
<1>6. CASE VerifyFiles \/ Build \/ WriteArchive \/ WriteOptical
  <2>1. args' = args /\ UNCHANGED <<window, dict, best, last, tests>> /\ result = "none"
        /\ (pc \in {"verify", "build", "write", "start"})
    BY <1>6 DEF SearchesInv, ArchiveTypeOK, VerifyFiles, Build, WriteArchive, WriteOptical, KeptData
  <2>2. \/ pc' \in {"build", "write"} /\ result' = result /\ pc \in {"verify", "build"}
        \/ pc' = "returned" /\ result' \in {"Ok", "Error", "Cancelled"}
    BY <1>6 DEF VerifyFiles, Build, WriteArchive, WriteOptical, Write
  <2>3. CASE pc' = "returned" /\ result' \in {"Ok", "Error", "Cancelled"}
    BY <2>1, <2>3, SearchRests
  <2>4. CASE pc' \in {"build", "write"} /\ result' = result /\ pc \in {"verify", "build"}
    <3>1. ArchiveTypeOK'
      BY <2>1, <2>4 DEF SearchesInv, ArchiveTypeOK
    <3>2. TunedIsBest' /\ SearchInv'
      BY <2>1, <2>4 DEF SearchesInv, TunedIsBest, SearchInv
    <3> QED
      BY <3>1, <3>2 DEF SearchesInv
  <2> QED
    BY <2>2, <2>3, <2>4
<1>7. CASE Cancel
  BY <1>7, SearchRests DEF Cancel
<1>8. CASE UNCHANGED archive_vars
  BY <1>8, SearchRests DEF archive_vars
<1> QED
  BY <1>1, <1>2, <1>3, <1>4, <1>5, <1>6, <1>7, <1>8 DEF ArchiveNext, RunStep, Over

-----------------------------------------------------------------------------
(* A file as it was cut. *)

LEMMA ChunkIs == Chunk \subseteq Seq(Byte) /\ \A h \in Chunk : Len(h) \in Nat \ {0}
<1>1. ASSUME NEW h \in Chunk PROVE h \in Seq(Byte) /\ Len(h) \in Nat \ {0}
  <2>1. h \in Seq(Byte) /\ h # << >>
    BY DEF Chunk
  <2>2. Len(h) \in Nat /\ Len(h) # 0
    BY <2>1, EmptySeq
  <2> QED
    BY <2>1, <2>2
<1> QED
  BY <1>1

LEMMA HashesAre ==
  ASSUME NEW M \in Seq(Entry)
  PROVE  /\ Hashes(M) \in Seq(Chunk) /\ Hashes(M) \in Seq(Seq(Byte))
         /\ Len(Hashes(M)) = Len(M) /\ Len(M) \in Nat
         /\ DOMAIN M = 1..Len(M) /\ DOMAIN Hashes(M) = 1..Len(M)
         /\ \A k \in 1..Len(M) : /\ Hashes(M)[k] = M[k].hash /\ M[k].hash \in Chunk
                                 /\ M[k] \in Entry
                                 /\ M[k].offset \in Nat /\ M[k].length \in Nat \ {0}
<1>1. DOMAIN M = 1..Len(M) /\ Len(M) \in Nat
  OBVIOUS
<1>2. \A k \in 1..Len(M) : M[k] \in Entry
  OBVIOUS
<1>3. \A k \in 1..Len(M) : M[k].hash \in Chunk /\ M[k].offset \in Nat /\ M[k].length \in Nat \ {0}
  BY <1>2 DEF Entry
<1>4. Hashes(M) = [k \in 1..Len(M) |-> M[k].hash]
  BY <1>1 DEF Hashes
<1>5. Hashes(M) \in Seq(Chunk) /\ Len(Hashes(M)) = Len(M) /\ DOMAIN Hashes(M) = 1..Len(M)
  BY <1>1, <1>3, <1>4
<1>6. Seq(Chunk) \subseteq Seq(Seq(Byte))
  BY ChunkIs
<1> QED
  BY <1>1, <1>2, <1>3, <1>4, <1>5, <1>6

LEMMA CutIs ==
  ASSUME NEW given \in Inputs, NEW f \in DOMAIN given, NEW w \in Cuttable
  PROVE  /\ Cut(w, given[f].content) \in Seq(Chunk)
         /\ FlattenSeq(Cut(w, given[f].content)) = given[f].content
         /\ \A k \in DOMAIN Cut(w, given[f].content) :
              CompLen(Cut(w, given[f].content)[k]) \in Nat \ {0}
BY ArchiveRunAssumption DEF Chunk

LEMMA InputsAre ==
  ASSUME NEW given \in Inputs
  PROVE  /\ given \in Seq(File) /\ Len(given) \in Nat /\ DOMAIN given = 1..Len(given)
         /\ \A f \in DOMAIN given : /\ given[f] \in File /\ given[f].name \in Nat
                                    /\ given[f].content \in Seq(Byte)
<1>1. given \in Seq(File)
  BY ArchiveRunAssumption
<1>2. Len(given) \in Nat /\ DOMAIN given = 1..Len(given)
  BY <1>1
<1>3. \A f \in DOMAIN given : given[f] \in File
  BY <1>1
<1> QED
  BY <1>1, <1>2, <1>3 DEF File

LEMMA ManifestIs ==
  ASSUME NEW given \in Inputs, NEW f \in DOMAIN given, window \in Cuttable
  PROVE  /\ WellCut(ManifestOf(given[f].content), given[f].content)
         /\ Hashes(ManifestOf(given[f].content)) = Cut(window, given[f].content)
<1> DEFINE c == given[f].content
           pieces == Cut(window, c)
           n == Len(pieces)
           M == ManifestOf(c)
           lens == Lengths_(pieces)
<1>1. pieces \in Seq(Chunk) /\ FlattenSeq(pieces) = c /\ c \in Seq(Byte)
  BY CutIs, InputsAre
<1>2. Seq(Chunk) \subseteq Seq(Seq(Byte)) /\ pieces \in Seq(Seq(Byte))
  BY <1>1, ChunkIs
<1>3. n \in Nat /\ DOMAIN pieces = 1..n /\ \A k \in 1..n : pieces[k] \in Chunk
  BY <1>1
<1>4. /\ lens \in Seq(Nat) /\ Len(lens) = n
      /\ \A k \in 1..n : lens[k] = Len(pieces[k]) /\ Len(pieces[k]) \in Nat \ {0}
  <2> HIDE DEF pieces, lens
  <2> QED
    BY <1>2, <1>3, LengthsAre, ChunkIs DEF lens
<1>5. M = [k \in 1..n |-> [hash |-> pieces[k], length |-> Len(pieces[k]),
                           offset |-> Sum([j \in 1..(k - 1) |-> Len(pieces[j])])]]
  BY <1>3 DEF ManifestOf
<1> HIDE DEF M, pieces, n, lens
<1>6. ASSUME NEW k \in 1..n
      PROVE  Sum([j \in 1..(k - 1) |-> Len(pieces[j])]) = UpTo(lens, k - 1)
             /\ UpTo(lens, k - 1) \in Nat
  <2>1. k - 1 \in 0..Len(lens)
    BY <1>3, <1>4
  <2>2. \A j \in 1..(k - 1) : j \in 1..n
    BY <1>3
  <2>3. [j \in 1..(k - 1) |-> Len(pieces[j])] = [j \in 1..(k - 1) |-> lens[j]]
    BY <1>4, <2>2
  <2> QED
    BY <1>4, <2>1, <2>3, UpToSums DEF UpTo
<1>7. ASSUME NEW k \in 1..n
      PROVE  M[k].hash = pieces[k] /\ M[k].length = Len(pieces[k])
             /\ M[k].offset = UpTo(lens, k - 1) /\ M[k] \in Entry
  BY <1>3, <1>4, <1>5, <1>6 DEF Entry
<1>8. M \in Seq(Entry) /\ Len(M) = n /\ DOMAIN M = 1..n
  BY <1>3, <1>5, <1>7
<1>9. Hashes(M) = pieces
  <2>1. Hashes(M) \in Seq(Chunk) /\ Len(Hashes(M)) = n /\ \A k \in 1..n : Hashes(M)[k] = pieces[k]
    BY <1>7, <1>8, HashesAre
  <2> QED
    BY <1>1, <2>1, SeqEqual DEF n
<1>10. WellCut(M, c)
  BY <1>1, <1>7, <1>8, <1>9 DEF WellCut, lens
<1> QED
  BY <1>9, <1>10 DEF M, pieces

(* Its chunks lie behind one another. *)
LEMMA PlacesAre ==
  ASSUME NEW M, NEW c, WellCut(M, c)
  PROVE  /\ Len(c) = UpTo(Lengths_(Hashes(M)), Len(M)) /\ Len(c) \in Nat
         /\ Lengths_(Hashes(M)) \in Seq(Nat) /\ Len(Lengths_(Hashes(M))) = Len(M)
         /\ \A k \in 1..Len(M) :
              /\ M[k].offset = UpTo(Lengths_(Hashes(M)), k - 1)
              /\ M[k].offset + M[k].length = UpTo(Lengths_(Hashes(M)), k)
              /\ M[k].offset + M[k].length <= Len(c)
              /\ Lengths_(Hashes(M))[k] = M[k].length
         /\ \A i, j \in 1..Len(M) : i < j => M[i].offset + M[i].length <= M[j].offset
<1> DEFINE H == Hashes(M)
           n == Len(M)
           lens == Lengths_(H)
           b(k) == UpTo(lens, k)
<1>1. /\ M \in Seq(Entry) /\ FlattenSeq(H) = c /\ n \in Nat /\ Len(H) = n
      /\ H \in Seq(Seq(Byte))
      /\ \A k \in 1..n : H[k] = M[k].hash /\ M[k].length = Len(M[k].hash) /\ M[k].offset = b(k - 1)
                         /\ M[k].length \in Nat
  BY HashesAre DEF WellCut
<1> HIDE DEF H, n
<1>2. /\ lens \in Seq(Nat) /\ Len(lens) = n /\ \A k \in 1..n : lens[k] = M[k].length
  <2>1. /\ lens \in Seq(Nat) /\ Len(lens) = n
        /\ \A m \in 1..n : lens[m] = Len(H[m])
    BY <1>1, LengthsAre
  <2>2. ASSUME NEW k \in 1..n PROVE lens[k] = M[k].length
    BY <1>1, <2>1
  <2> QED
    BY <2>1, <2>2
<1> HIDE DEF lens
<1>3. /\ \A k \in 0..n : b(k) \in Nat
      /\ \A k \in 1..n : b(k) = b(k - 1) + M[k].length
  BY <1>2, UpToSums
<1>4. \A i, j \in 0..n : i <= j => b(i) <= b(j)
  BY <1>2, UpToGrows
<1> HIDE DEF b
<1>5. InPlace(H, n, c) /\ c \in Seq(Byte)
  BY <1>1, FlattenInPlace
<1>6. Len(c) = b(n) /\ Len(c) \in Nat
  <2>1. n \in 0..n
    BY <1>1
  <2> QED
    BY <1>3, <1>5, <2>1 DEF InPlace, b, lens
<1>7. ASSUME NEW k \in 1..n
      PROVE  M[k].offset = b(k - 1) /\ M[k].offset + M[k].length = b(k)
             /\ M[k].offset + M[k].length <= Len(c)
  <2>1. k \in 0..n /\ n \in 0..n /\ k <= n
    BY <1>1
  <2> QED
    BY <1>1, <1>3, <1>4, <1>6, <2>1
<1>8. ASSUME NEW i \in 1..n, NEW j \in 1..n, i < j
      PROVE  M[i].offset + M[i].length <= M[j].offset
  <2>1. i \in 0..n /\ j - 1 \in 0..n /\ i <= j - 1
    BY <1>1, <1>8
  <2>2. b(i) <= b(j - 1)
    BY <1>4, <2>1
  <2> QED
    BY <1>7, <2>2
<1> QED
  BY <1>2, <1>6, <1>7, <1>8 DEF H, n, lens, b

LEMMA SizeIs ==
  ASSUME NEW M, NEW c, WellCut(M, c)
  PROVE  (IF M = << >> THEN 0 ELSE Last(M).offset + Last(M).length) = Len(c)
<1>1. M \in Seq(Entry) /\ Len(M) \in Nat
  BY DEF WellCut
<1>2. CASE M = << >>
  <2>1. Len(M) = 0 /\ Len(c) = UpTo(Lengths_(Hashes(M)), 0) /\ Lengths_(Hashes(M)) \in Seq(Nat)
    BY <1>2, PlacesAre
  <2> QED
    BY <1>2, <2>1, UpToSums
<1>3. CASE M # << >>
  <2>1. Len(M) \in 1..Len(M) /\ Last(M) = M[Len(M)]
    BY <1>1, <1>3, EmptySeq DEF Last
  <2> QED
    BY <1>3, <2>1, PlacesAre
<1> QED
  BY <1>2, <1>3

LEMMA ByNumber ==
  ASSUME NEW D, D \subseteq Nat, NEW v \in [D -> Int], NEW R, IsBy(D, v, R)
  PROVE  IsOrder(D, R)
<1>1. ASSUME NEW a \in D, NEW b \in D
      PROVE  /\ a \in Nat /\ b \in Nat /\ v[a] \in Int /\ v[b] \in Int
             /\ <<a, b>> \in R <=> v[a] < v[b] \/ (v[a] = v[b] /\ a < b)
  BY DEF IsBy
<1>2. ASSUME NEW a \in D, NEW b \in D, a # b PROVE <<a, b>> \in R \/ <<b, a>> \in R
  <2>1. \/ v[a] < v[b] \/ (v[a] = v[b] /\ a < b)
        \/ v[b] < v[a] \/ (v[b] = v[a] /\ b < a)
    BY <1>1, <1>2
  <2> QED
    BY <1>1, <2>1
<1>3. ASSUME NEW a \in D PROVE <<a, a>> \notin R
  BY <1>1
<1>4. ASSUME NEW a \in D, NEW b \in D, NEW c \in D, <<a, b>> \in R, <<b, c>> \in R
      PROVE  <<a, c>> \in R
  <2> DEFINE x == v[a]
             y == v[b]
             z == v[c]
  <2>1. /\ a \in Nat /\ b \in Nat /\ c \in Nat /\ x \in Int /\ y \in Int /\ z \in Int
        /\ (x < y \/ (x = y /\ a < b)) /\ (y < z \/ (y = z /\ b < c))
    BY <1>1, <1>4
  <2>2. <<a, c>> \in R <=> x < z \/ (x = z /\ a < c)
    BY <1>1
  <2> HIDE DEF x, y, z
  <2> QED
    BY <2>1, <2>2
<1> QED
  BY <1>2, <1>3, <1>4 DEF IsOrder

LEMMA ByOffsetIs ==
  ASSUME NEW M, NEW c, WellCut(M, c)
  PROVE  ByOffset(M) = M
<1> DEFINE D == DOMAIN M
           R == {e \in D \X D :
                   \/ M[e[1]].offset < M[e[2]].offset
                   \/ M[e[1]].offset = M[e[2]].offset /\ e[1] < e[2]}
           order == Arranged(D, R)
           id == [k \in 1..Len(M) |-> k]
<1>1. /\ D = 1..Len(M) /\ Len(M) \in Nat /\ M \in Seq(Entry)
      /\ \A k \in D : M[k].offset \in Nat
  BY HashesAre DEF WellCut
<1>2. \A a, b \in D : <<a, b>> \in R <=>
                        \/ M[a].offset < M[b].offset
                        \/ M[a].offset = M[b].offset /\ a < b
  OBVIOUS
<1>3. \A a \in D : a \in Nat
  BY <1>1
<1>4. IsOrder(D, R)
  <2> DEFINE v == [k \in D |-> M[k].offset]
  <2>1. \A a, b \in D : <<a, b>> \in R <=> v[a] < v[b] \/ (v[a] = v[b] /\ a < b)
    BY <1>2
  <2>2. v \in [D -> Int] /\ D \subseteq Nat
    BY <1>1, <1>3
  <2> HIDE DEF D, R, v
  <2> QED
    BY <2>1, <2>2, ByNumber DEF IsBy
<1>5. IsFiniteSet(D) /\ Cardinality(D) = Len(M)
  BY <1>1, FS_Interval
<1>6. ASSUME NEW i \in 1..Len(M), NEW j \in 1..Len(M), i < j PROVE <<id[i], id[j]>> \in R
  <2>1. M[i].offset + M[i].length <= M[j].offset
    BY <1>6, PlacesAre
  <2>2. M[i].offset \in Nat /\ M[i].length \in Nat /\ M[j].offset \in Nat
    BY HashesAre DEF WellCut
  <2>3. M[i].offset <= M[j].offset
    BY <2>1, <2>2
  <2>4. \/ M[i].offset < M[j].offset
        \/ M[i].offset = M[j].offset /\ i < j
    BY <1>6, <2>2, <2>3
  <2>5. id[i] = i /\ id[j] = j /\ i \in D /\ j \in D
    BY <1>1
  <2> HIDE DEF R, id, D
  <2> QED
    BY <1>2, <2>4, <2>5
<1>7. IsArranged(id, Cardinality(D), D, R)
  BY <1>1, <1>5, <1>6 DEF IsArranged
<1>8. order = id
  <2> HIDE DEF D, R, id
  <2> QED
    BY <1>4, <1>5, <1>7, ArrangedIs, ArrangedOne
<1>9. ByOffset(M) = [n \in DOMAIN order |-> M[order[n]]]
  BY DEF ByOffset
<1>10. [n \in DOMAIN id |-> M[id[n]]] = [n \in 1..Len(M) |-> M[n]]
  OBVIOUS
<1>11. [n \in 1..Len(M) |-> M[n]] = M
  BY <1>1
<1> HIDE DEF order, id
<1> QED
  BY <1>8, <1>9, <1>10, <1>11

-----------------------------------------------------------------------------
(* Finite sets. *)
LEMMA UpToFinite ==
  ASSUME NEW n \in Nat
  PROVE  IsFiniteSet(1..n) /\ Cardinality(1..n) = n
<1>1. 1 \in Int /\ n \in Int /\ (IF 1 > n THEN 0 ELSE n - 1 + 1) = n
  OBVIOUS
<1> QED
  BY <1>1, FS_Interval

LEMMA ImageFinite ==
  ASSUME NEW S, IsFiniteSet(S), NEW f, DOMAIN f = S, f = [x \in S |-> f[x]]
  PROVE  /\ IsFiniteSet({f[x] : x \in S}) /\ Cardinality({f[x] : x \in S}) <= Cardinality(S)
         /\ Cardinality({f[x] : x \in S}) = Cardinality(S) =>
              \A x, y \in S : f[x] = f[y] => x = y
<1> DEFINE T == {f[x] : x \in S}
<1>1. f \in Surjection(S, T)
  <2>1. f \in [S -> T] /\ \A t \in T : \E x \in S : f[x] = t
    OBVIOUS
  <2> QED
    BY <2>1 DEF Surjection
<1> HIDE DEF T
<1>2. IsFiniteSet(T) /\ Cardinality(T) <= Cardinality(S)
      /\ (Cardinality(T) = Cardinality(S) <=> f \in Injection(S, T))
  BY <1>1, FS_Surjection
<1>3. f \in Injection(S, T) => \A x, y \in S : f[x] = f[y] => x = y
  BY DEF Injection, IsInjective
<1> QED
  BY <1>2, <1>3 DEF T

LEMMA ToSetIs ==
  ASSUME NEW A, NEW s \in Seq(A)
  PROVE  /\ ToSet(s) \subseteq A /\ IsFiniteSet(ToSet(s))
         /\ \A x : x \in ToSet(s) <=> \E i \in 1..Len(s) : s[i] = x
<1>1. DOMAIN s = 1..Len(s) /\ Len(s) \in Nat /\ s = [i \in 1..Len(s) |-> s[i]]
  OBVIOUS
<1>2. \A i \in 1..Len(s) : s[i] \in A
  OBVIOUS
<1>3. ToSet(s) = {s[i] : i \in 1..Len(s)}
  BY <1>1 DEF ToSet
<1>4. IsFiniteSet(1..Len(s))
  BY <1>1, UpToFinite
<1>5. IsFiniteSet({s[i] : i \in 1..Len(s)})
  BY <1>1, <1>4, ImageFinite
<1> QED
  BY <1>2, <1>3, <1>5

LEMMA AscendingIs ==
  ASSUME NEW S, S \subseteq Nat, IsFiniteSet(S)
  PROVE  /\ Cardinality(S) \in Nat /\ Ascending(S) \in Seq(S)
         /\ Len(Ascending(S)) = Cardinality(S) /\ DOMAIN Ascending(S) = 1..Cardinality(S)
         /\ \A i, j \in 1..Cardinality(S) : i < j => Ascending(S)[i] < Ascending(S)[j]
         /\ \A i, j \in 1..Cardinality(S) : Ascending(S)[i] = Ascending(S)[j] => i = j
         /\ \A a \in S : \E i \in 1..Cardinality(S) : Ascending(S)[i] = a
         /\ \A t \in Seq(S) : /\ Len(t) = Cardinality(S)
                              /\ \A i, j \in 1..Len(t) : i < j => t[i] < t[j]
                              => Ascending(S) = t
<1> DEFINE R == {e \in S \X S : e[1] < e[2]}
           a == Ascending(S)
           n == Cardinality(S)
<1>1. \A x, y \in S : <<x, y>> \in R <=> x < y
  OBVIOUS
<1>2. \A x, y, z \in S : /\ x # y => x < y \/ y < x
                         /\ ~(x < x)
                         /\ x < y /\ y < z => x < z
  OBVIOUS
<1>3. a = Arranged(S, R)
  BY DEF Ascending
<1> HIDE DEF R, a
<1>4. IsOrder(S, R)
  BY <1>1, <1>2 DEF IsOrder
<1>5. n \in Nat /\ IsArranged(a, n, S, R) /\ a \in Seq(S) /\ Len(a) = n /\ DOMAIN a = 1..n
  BY <1>3, <1>4, ArrangedIs
<1>6. /\ \A i, j \in 1..n : a[i] = a[j] => i = j
      /\ \A x \in S : \E i \in 1..n : a[i] = x
  BY <1>4, <1>5, ArrangedHasAll
<1>7. \A i, j \in 1..n : i < j => a[i] < a[j]
  BY <1>1, <1>5 DEF IsArranged
<1>8. ASSUME NEW t \in Seq(S), Len(t) = n, \A i, j \in 1..Len(t) : i < j => t[i] < t[j]
      PROVE  a = t
  <2>1. t \in [1..n -> S]
    BY <1>5, <1>8
  <2>2. ASSUME NEW i \in 1..n, NEW j \in 1..n, i < j PROVE <<t[i], t[j]>> \in R
    BY <1>1, <1>8, <2>1, <2>2
  <2>3. IsArranged(t, n, S, R)
    BY <2>1, <2>2 DEF IsArranged
  <2> QED
    BY <1>4, <1>5, <2>3, ArrangedOne
<1> QED
  BY <1>5, <1>6, <1>7, <1>8 DEF a

-----------------------------------------------------------------------------
(* How often chunks are used. *)
LEMMA FreqIs ==
  ASSUME NEW Ms \in Seq(Seq(Entry)), NEW i \in 1..Len(Ms), NEW k \in 1..Len(Ms[i])
  PROVE  chunk_freq(Ms, Ms[i][k].hash) \in Nat \ {0}
<1> DEFINE D == DOMAIN Ms
           f == [j \in D |-> {j} \X DOMAIN Ms[j]]
           P == UNION {f[j] : j \in D}
           hash == Ms[i][k].hash
           U == {e \in P : Ms[e[1]][e[2]].hash = hash}
<1>1. D = 1..Len(Ms) /\ Len(Ms) \in Nat /\ \A j \in D : Ms[j] \in Seq(Entry)
  OBVIOUS
<1>2. ASSUME NEW j \in D PROVE IsFiniteSet(f[j])
  <2>1. DOMAIN Ms[j] = 1..Len(Ms[j]) /\ Len(Ms[j]) \in Nat
    BY <1>1
  <2>2. IsFiniteSet({j}) /\ IsFiniteSet(DOMAIN Ms[j])
    <3>1. IsFiniteSet(1..Len(Ms[j]))
      BY <2>1, UpToFinite
    <3> QED
      BY <2>1, <3>1, FS_Singleton
  <2>3. IsFiniteSet({j} \X DOMAIN Ms[j])
    BY <2>2, FS_Product
  <2> QED
    BY <2>3
<1>3. IsFiniteSet(D)
  BY <1>1, UpToFinite
<1>4. IsFiniteSet({f[j] : j \in D})
  <2>1. DOMAIN f = D /\ f = [x \in D |-> f[x]]
    OBVIOUS
  <2> HIDE DEF f, D
  <2> QED
    BY <1>3, <2>1, ImageFinite, SMTT(30)
<1>5. IsFiniteSet(P)
  <2>1. \A T \in {f[j] : j \in D} : IsFiniteSet(T)
    BY <1>2
  <2> HIDE DEF f, D
  <2> QED
    BY <1>4, <2>1, FS_UNION
<1>6. P = UNION {{j} \X DOMAIN Ms[j] : j \in D}
  OBVIOUS
<1>7. <<i, k>> \in U
  <2>1. i \in D /\ k \in DOMAIN Ms[i]
    BY <1>1
  <2> QED
    BY <2>1
<1>8. chunk_freq(Ms, hash) = Cardinality(U)
  BY <1>6 DEF chunk_freq
<1>9. U \subseteq P
  OBVIOUS
<1> HIDE DEF U, P
<1>10. IsFiniteSet(U) /\ Cardinality(U) \in Nat /\ Cardinality(U) # 0
  BY <1>5, <1>7, <1>9, FS_Subset, FS_CardinalityType, FS_EmptySet
<1> QED
  BY <1>8, <1>10

LEMMA ScoreIs ==
  ASSUME NEW Ms \in Seq(Seq(Entry)), NEW i \in 1..Len(Ms)
  PROVE  Score(Ms, i) \in Nat /\ (Score(Ms, i) = 0 <=> Ms[i] = << >>)
<1> DEFINE s == [k \in DOMAIN Ms[i] |-> chunk_freq(Ms, Ms[i][k].hash)]
<1>1. Ms[i] \in Seq(Entry) /\ DOMAIN Ms[i] = 1..Len(Ms[i]) /\ Len(Ms[i]) \in Nat
  OBVIOUS
<1>2. \A k \in 1..Len(Ms[i]) : s[k] \in Nat \ {0}
  BY <1>1, FreqIs
<1>3. s \in Seq(Nat) /\ Len(s) = Len(Ms[i])
  <2>1. DOMAIN s = 1..Len(Ms[i])
    BY <1>1
  <2>2. s = [k \in DOMAIN s |-> s[k]]
    OBVIOUS
  <2> HIDE DEF s
  <2>3. \A k \in 1..Len(Ms[i]) : s[k] \in Nat
    BY <1>2
  <2> QED
    BY <1>1, <2>1, <2>2, <2>3, SeqFrom
<1>4. Score(Ms, i) = Sum(s)
  BY DEF Score
<1> HIDE DEF s
<1>5. Sum(s) \in Nat
  BY <1>3, SumType
<1>6. CASE Ms[i] = << >>
  <2>1. s = << >>
    BY <1>3, <1>6, EmptySeq
  <2>2. Sum(s) = 0
    BY <1>3, <2>1, SumAppend
  <2> QED
    BY <1>4, <1>6, <2>2
<1>7. CASE Ms[i] # << >>
  <2>1. 1 \in 1..Len(s)
    BY <1>1, <1>3, <1>7, EmptySeq
  <2> DEFINE rest == [s EXCEPT ![1] = 0]
  <2>2. rest \in Seq(Nat) /\ Sum(s) = Sum(rest) + s[1] /\ s[1] \in Nat \ {0}
    BY <1>2, <1>3, <2>1, SumWithout
  <2>3. Sum(rest) \in Nat
    BY <2>2, SumType
  <2> HIDE DEF rest
  <2>4. Sum(s) # 0
    BY <2>2, <2>3
  <2> QED
    BY <1>4, <1>5, <1>7, <2>4
<1> QED
  BY <1>4, <1>5, <1>6, <1>7

LEMMA ByNumberDown ==
  ASSUME NEW D, D \subseteq Nat, NEW v \in [D -> Nat], NEW R, IsByDown(D, v, R)
  PROVE  IsOrder(D, R)
<1> DEFINE w == [a \in D |-> 0 - v[a]]
<1>1. ASSUME NEW a \in D, NEW b \in D
      PROVE  <<a, b>> \in R <=> w[a] < w[b] \/ (w[a] = w[b] /\ a < b)
  <2> DEFINE x == v[a]
             y == v[b]
  <2>1. x \in Nat /\ y \in Nat /\ w[a] = 0 - x /\ w[b] = 0 - y
        /\ (<<a, b>> \in R <=> x > y \/ (x = y /\ a < b))
    BY DEF IsByDown
  <2>2. /\ x > y <=> 0 - x < 0 - y
        /\ x = y <=> 0 - x = 0 - y
    BY <2>1
  <2> QED
    BY <2>1, <2>2
<1>2. w \in [D -> Int]
  OBVIOUS
<1> HIDE DEF w
<1> QED
  BY <1>1, <1>2, ByNumber DEF IsBy

-----------------------------------------------------------------------------
(* The order of the chunks. *)
LEMMA SortedIs ==
  ASSUME NEW Ms \in Seq(Seq(Entry))
  PROVE  /\ sorted_hashes(Ms) \in Distinct(Chunk)
         /\ ToSet(sorted_hashes(Ms)) = UNION {ToSet(Hashes(Ms[i])) : i \in DOMAIN Ms}
         /\ sorted_hashes(Ms) # << >> =>
              \E i \in DOMAIN Ms :
                /\ \A j \in DOMAIN Ms : Score(Ms, j) <= Score(Ms, i)
                /\ Ms[i] # << >> /\ sorted_hashes(Ms)[1] = Ms[i][1].hash
<1> DEFINE D == DOMAIN Ms
           R == {e \in D \X D : \/ Score(Ms, e[1]) > Score(Ms, e[2])
                                \/ Score(Ms, e[1]) = Score(Ms, e[2]) /\ e[1] < e[2]}
           order == Arranged(D, R)
           n == Len(Ms)
           parts == [m \in DOMAIN order |-> Hashes(Ms[order[m]])]
           all == FlattenSeq(parts)
           score == [i \in D |-> Score(Ms, i)]
<1>1. /\ D = 1..n /\ n \in Nat /\ IsFiniteSet(D) /\ Cardinality(D) = n /\ D \subseteq Nat
      /\ \A i \in D : Ms[i] \in Seq(Entry)
  <2>1. D = 1..n /\ n \in Nat /\ \A i \in D : Ms[i] \in Seq(Entry)
    OBVIOUS
  <2> QED
    BY <2>1, UpToFinite
<1>2. \A i \in D : score[i] \in Nat /\ (score[i] = 0 <=> Ms[i] = << >>)
  BY <1>1, ScoreIs
<1>3. \A a, b \in D : <<a, b>> \in R <=> \/ score[a] > score[b]
                                         \/ score[a] = score[b] /\ a < b
  OBVIOUS
<1>4. IsByDown(D, score, R)
  BY <1>3 DEF IsByDown
<1>5. IsOrder(D, R)
  <2>1. score \in [D -> Nat]
    BY <1>2
  <2> HIDE DEF D, R, score
  <2> QED
    BY <1>1, <1>4, <2>1, ByNumberDown
<1>6. /\ order \in Seq(D) /\ Len(order) = n /\ DOMAIN order = 1..n /\ IsArranged(order, n, D, R)
      /\ \A a \in D : \E i \in 1..n : order[i] = a
  <2> HIDE DEF D, R, n
  <2>1. /\ order \in Seq(D) /\ Len(order) = n /\ DOMAIN order = 1..n
        /\ IsArranged(order, n, D, R)
    BY <1>1, <1>5, ArrangedIs
  <2> HIDE DEF order
  <2>2. \A a \in D : \E i \in 1..n : order[i] = a
    <3>1. IsFiniteSet(D) /\ IsArranged(order, Cardinality(D), D, R) /\ Cardinality(D) = n
      BY <1>1, <2>1
    <3>2. \A a \in D : \E i \in 1..Cardinality(D) : order[i] = a
      BY <1>5, <3>1, ArrangedHasAll
    <3> QED
      BY <3>1, <3>2
  <2> QED
    BY <2>1, <2>2
<1> HIDE DEF order
<1>7. \A m \in 1..n : order[m] \in D
  BY <1>1, <1>6
<1>8. \A m \in 1..n : parts[m] = Hashes(Ms[order[m]]) /\ parts[m] \in Seq(Chunk)
                      /\ Len(parts[m]) = Len(Ms[order[m]])
  BY <1>1, <1>6, <1>7, HashesAre
<1>9. parts \in Seq(Seq(Chunk)) /\ Len(parts) = n
  <2>1. DOMAIN parts = 1..n /\ parts = [k \in DOMAIN parts |-> parts[k]]
    BY <1>6
  <2> HIDE DEF parts
  <2> QED
    BY <1>1, <1>8, <2>1, SeqFrom
<1>10. sorted_hashes(Ms) = Dedupe(all)
  BY DEF sorted_hashes, order
<1> HIDE DEF parts, all
<1>11. all \in Seq(Chunk) /\ InPlace(parts, n, all)
  BY <1>9, FlattenInPlace DEF all
<1>12. /\ Dedupe(all) \in Distinct(Chunk) /\ ToSet(Dedupe(all)) = ToSet(all)
       /\ all # << >> => Dedupe(all) # << >> /\ Dedupe(all)[1] = all[1]
       /\ all = << >> => Dedupe(all) = << >>
  <2>1. /\ Dedupe(all) \in Distinct(Chunk) /\ ToSet(Dedupe(all)) = ToSet(all)
        /\ all # << >> => Dedupe(all) # << >> /\ Dedupe(all)[1] = all[1]
    BY <1>11, DedupeIs
  <2>2. ASSUME all = << >> PROVE Dedupe(all) = << >>
    <3>1. Dedupe(all) \in Seq(Chunk)
      BY <2>1 DEF Distinct
    <3>2. ToSet(all) = {}
      BY <2>2 DEF ToSet
    <3>3. ~ \E i \in 1..Len(Dedupe(all)) : TRUE
      BY <2>1, <3>1, <3>2, ToSetIs
    <3> QED
      BY <3>1, <3>3, EmptySeq
  <2> QED
    BY <2>1, <2>2
<1>13. ToSet(all) = UNION {ToSet(Hashes(Ms[i])) : i \in D}
  <2>1. ASSUME NEW x \in ToSet(all) PROVE \E i \in D : x \in ToSet(Hashes(Ms[i]))
    <3>1. PICK p \in 1..Len(all) : all[p] = x
      BY <1>11, <2>1, ToSetIs
    <3>a. PICK m \in 1..n : \E j \in 1..Len(parts[m]) : p = UpTo(Lengths_(parts), m - 1) + j
      BY <1>11, <3>1 DEF InPlace
    <3>2. PICK j \in 1..Len(parts[m]) : p = UpTo(Lengths_(parts), m - 1) + j
      BY <3>a
    <3>3. x = parts[m][j]
      BY <1>11, <3>1, <3>2 DEF InPlace
    <3>4. x \in ToSet(parts[m])
      BY <1>8, <3>3, ToSetIs
    <3> QED
      BY <1>7, <1>8, <3>4
  <2>2. ASSUME NEW i \in D, NEW x \in ToSet(Hashes(Ms[i])) PROVE x \in ToSet(all)
    <3>1. PICK m \in 1..n : order[m] = i
      BY <1>6
    <3>2. PICK j \in 1..Len(parts[m]) : parts[m][j] = x
      BY <1>8, <2>2, <3>1, ToSetIs, ZenonT(60)
    <3> DEFINE p == UpTo(Lengths_(parts), m - 1) + j
    <3>3. all[p] = x
      BY <1>11, <3>2 DEF InPlace
    <3>4. p \in 1..Len(all)
      <4> DEFINE lens == Lengths_(parts)
                 a == UpTo(lens, m - 1)
                 b == UpTo(lens, m)
                 z == UpTo(lens, n)
                 l == Len(parts[m])
      <4>1. lens \in Seq(Nat) /\ Len(lens) = n /\ lens[m] = l /\ l \in Nat
        BY <1>9, LengthsAre
      <4>2. m - 1 \in 0..n /\ m \in 0..n /\ n \in 0..n /\ m <= n /\ m \in 1..n
        BY <1>1
      <4> HIDE DEF lens
      <4>3. a \in Nat /\ b = a + l /\ z \in Nat /\ b <= z
        BY <4>1, <4>2, UpToSums, UpToGrows
      <4>4. Len(all) = z
        BY <1>11 DEF InPlace, lens
      <4> HIDE DEF a, b, z, l
      <4>5. a + j \in 1..z
        <5>1. j \in 1..l
          BY DEF l
        <5> QED
          BY <4>1, <4>3, <5>1
      <4> QED
        BY <4>4, <4>5 DEF a, lens
    <3> QED
      BY <1>11, <3>3, <3>4, ToSetIs
  <2> HIDE DEF D
  <2> QED
    BY <2>1, <2>2
<1>14. ASSUME Dedupe(all) # << >>
       PROVE  \E i \in D : /\ \A j \in D : Score(Ms, j) <= Score(Ms, i)
                           /\ Ms[i] # << >> /\ Dedupe(all)[1] = Ms[i][1].hash
  <2>1. all # << >> /\ Dedupe(all)[1] = all[1]
    BY <1>12, <1>14
  <2>2. 1 \in 1..Len(all)
    BY <1>11, <2>1, EmptySeq
  <2>a. PICK m \in 1..n : \E j \in 1..Len(parts[m]) : 1 = UpTo(Lengths_(parts), m - 1) + j
    BY <1>11, <2>2 DEF InPlace
  <2>3. PICK j \in 1..Len(parts[m]) : 1 = UpTo(Lengths_(parts), m - 1) + j
    BY <2>a
  <2>4. 1 \in 1..n
    BY <1>1
  <2> DEFINE i == order[1]
  <2>5. i \in D /\ order[m] \in D
    BY <1>7, <2>4
  <2>6. ASSUME NEW k \in D PROVE score[k] <= score[i]
    <3>1. PICK q \in 1..n : order[q] = k
      BY <1>6
    <3>2. CASE q = 1
      BY <1>2, <2>5, <3>1, <3>2
    <3>3. CASE q # 1
      <4>1. 1 < q
        BY <3>3
      <4>2. <<i, k>> \in R
        BY <1>6, <2>4, <3>1, <4>1 DEF IsArranged
      <4>3. score[i] > score[k] \/ score[i] = score[k]
        BY <1>3, <2>5, <4>2
      <4> DEFINE x == score[i]
                 y == score[k]
      <4>4. x \in Nat /\ y \in Nat /\ (x > y \/ x = y)
        BY <1>2, <2>5, <4>3
      <4> HIDE DEF x, y
      <4>5. y <= x
        BY <4>4
      <4> QED
        BY <4>5 DEF x, y
    <3> QED
      BY <3>2, <3>3
  <2>7. Ms[i] # << >>
    <3>1. Ms[order[m]] # << >>
      BY <1>8, <2>3, EmptySeq
    <3> DEFINE x == score[order[m]]
               y == score[i]
    <3>2. x \in Nat /\ y \in Nat /\ x # 0 /\ x <= y
      BY <1>2, <2>5, <2>6, <3>1
    <3> HIDE DEF x, y
    <3>4. y # 0
      BY <3>2
    <3>3. score[i] # 0
      BY <3>4 DEF y
    <3> QED
      BY <1>2, <2>5, <3>3
  <2>8. 1 \in 1..Len(parts[1]) /\ parts[1][1] = Ms[i][1].hash
    <3>1. Ms[i] \in Seq(Entry) /\ Len(Ms[i]) \in Nat /\ Len(Ms[i]) # 0
      BY <1>1, <2>5, <2>7, EmptySeq
    <3>2. 1 \in 1..Len(Ms[i])
      BY <3>1
    <3> QED
      BY <1>8, <2>4, <3>1, <3>2, HashesAre
  <2>9. all[1] = parts[1][1]
    <3>1. UpTo(Lengths_(parts), 0) = 0
      BY <1>9, LengthsAre, UpToSums
    <3>2. all[UpTo(Lengths_(parts), 1 - 1) + 1] = parts[1][1]
      BY <1>11, <2>4, <2>8 DEF InPlace
    <3>3. UpTo(Lengths_(parts), 1 - 1) + 1 = 1
      BY <3>1
    <3> QED
      BY <3>2, <3>3
  <2>10. \A k \in D : Score(Ms, k) <= Score(Ms, i)
    BY <2>5, <2>6
  <2> QED
    BY <2>1, <2>5, <2>7, <2>8, <2>9, <2>10
<1> QED
  BY <1>10, <1>12, <1>13, <1>14

-----------------------------------------------------------------------------
(* What the archive says of the files. *)
LEMMA NamesAre ==
  ASSUME input \in Inputs
  PROVE  /\ Names \subseteq Nat /\ IsFiniteSet(Names) /\ Cardinality(Names) \in Nat
         /\ DistinctNames => \A f, g \in DOMAIN input : input[f].name = input[g].name => f = g
<1> DEFINE n == Len(input)
           f == [g \in 1..n |-> input[g].name]
<1>1. /\ n \in Nat /\ DOMAIN input = 1..n /\ \A g \in 1..n : input[g].name \in Nat
  BY InputsAre
<1>2. Names = {f[g] : g \in 1..n} /\ DOMAIN f = 1..n /\ f = [g \in 1..n |-> f[g]]
  BY <1>1 DEF Names
<1>3. \A g \in 1..n : f[g] = input[g].name
  OBVIOUS
<1>4. IsFiniteSet(1..n) /\ Cardinality(1..n) = n
  BY <1>1, UpToFinite
<1> HIDE DEF n, f
<1>5. /\ IsFiniteSet(Names)
      /\ Cardinality(Names) = n => \A x, y \in 1..n : f[x] = f[y] => x = y
  BY <1>2, <1>4, ImageFinite
<1>6. Names \subseteq Nat
  BY <1>1, <1>2, <1>3
<1>7. DistinctNames => Cardinality(Names) = n
  BY DEF DistinctNames, n
<1> QED
  BY <1>1, <1>3, <1>5, <1>6, <1>7, FS_CardinalityType

LEMMA TocIs ==
  ASSUME input \in Inputs, window \in Cuttable, NEW m \in OneOfEach,
         NEW toc, toc = archive_toc(ManifestsOf(m)),
         NEW Ms, Ms = ser_file_manifest(ManifestsOf(m))
  PROVE  /\ Len(toc) = Cardinality(Names) /\ Cardinality(Names) \in Nat
         /\ DOMAIN toc = 1..Cardinality(Names)
         /\ Ms \in Seq(Seq(Entry)) /\ DOMAIN Ms = DOMAIN toc /\ Len(Ms) = Len(toc)
         /\ \A i \in DOMAIN toc :
              LET f == m[toc[i].filename]
              IN /\ toc[i].filename \in Names /\ f \in DOMAIN input
                 /\ input[f].name = toc[i].filename
                 /\ toc[i].uncompressed_size = Len(input[f].content)
                 /\ WellCut(Ms[i], input[f].content)
                 /\ Hashes(Ms[i]) = Cut(window, input[f].content)
<1> DEFINE fm == ManifestsOf(m)
           names == Ascending(Names)
           size(M) == IF M = << >> THEN 0 ELSE Last(M).offset + Last(M).length
           n == Cardinality(Names)
           of(i) == input[m[names[i]]].content
<1>1. /\ n \in Nat /\ DOMAIN names = 1..n /\ Len(names) = n /\ names \in Seq(Names)
  BY NamesAre, AscendingIs
<1>2. \A i \in 1..n : names[i] \in Names
  BY <1>1
<1>3. \A k \in Names : m[k] \in DOMAIN input /\ input[m[k]].name = k
  BY DEF OneOfEach
<1>4. DOMAIN fm = Names /\ \A k \in Names : fm[k] = ManifestOf(input[m[k]].content)
  BY DEF ManifestsOf
<1>5. toc = [i \in 1..n |-> [filename |-> names[i], uncompressed_size |-> size(fm[names[i]])]]
  <2>1. archive_toc(fm) = [i \in DOMAIN names |->
                             [filename |-> names[i], uncompressed_size |-> size(fm[names[i]])]]
    BY <1>4 DEF archive_toc
  <2> QED
    BY <1>1, <2>1
<1> HIDE DEF names, fm
<1>6. DOMAIN toc = 1..n /\ Len(toc) = n
  BY <1>1, <1>5
<1>7. ASSUME NEW i \in 1..n
      PROVE  /\ toc[i].filename = names[i] /\ WellCut(fm[names[i]], of(i))
             /\ toc[i].uncompressed_size = Len(of(i))
             /\ Hashes(fm[names[i]]) = Cut(window, of(i))
  <2>1. toc[i].filename = names[i] /\ toc[i].uncompressed_size = size(fm[names[i]])
    BY <1>5
  <2>2. fm[names[i]] = ManifestOf(of(i)) /\ m[names[i]] \in DOMAIN input
    BY <1>2, <1>3, <1>4
  <2>3. WellCut(fm[names[i]], of(i)) /\ Hashes(fm[names[i]]) = Cut(window, of(i))
    BY <2>2, ManifestIs
  <2> QED
    BY <2>1, <2>3, SizeIs
<1>8. Ms = [i \in 1..n |-> ByOffset(fm[toc[i].filename])]
  BY <1>6 DEF ser_file_manifest, fm
<1>9. ASSUME NEW i \in 1..n
      PROVE  Ms[i] = fm[names[i]] /\ Ms[i] \in Seq(Entry)
  <2> DEFINE M == fm[names[i]]
  <2>1. Ms[i] = ByOffset(M) /\ WellCut(M, of(i))
    BY <1>7, <1>8
  <2> HIDE DEF M
  <2>2. ByOffset(M) = M /\ M \in Seq(Entry)
    BY <2>1, ByOffsetIs DEF WellCut
  <2> QED
    BY <2>1, <2>2 DEF M
<1>10. DOMAIN Ms = 1..n /\ Ms \in Seq(Seq(Entry)) /\ Len(Ms) = n
  <2>1. DOMAIN Ms = 1..n /\ Ms = [i \in DOMAIN Ms |-> Ms[i]]
    BY <1>8
  <2> QED
    BY <1>1, <1>9, <2>1, SeqFrom
<1> QED
  BY <1>1, <1>2, <1>3, <1>6, <1>7, <1>9, <1>10

LEMMA CachedAre ==
  ASSUME input \in Inputs, window \in Cuttable
  PROVE  /\ Cached \subseteq Chunk /\ IsFiniteSet(Cached)
         /\ \A h \in Cached : CompLen(h) \in Nat \ {0}
<1> DEFINE D == DOMAIN input
           n == Len(input)
           c == [f \in D |-> ToSet(Cut(window, input[f].content))]
<1>1. D = 1..n /\ n \in Nat
  BY InputsAre
<1>2. ASSUME NEW f \in D
      PROVE  /\ c[f] \subseteq Chunk /\ IsFiniteSet(c[f])
             /\ \A h \in c[f] : CompLen(h) \in Nat \ {0}
  <2> DEFINE p == Cut(window, input[f].content)
  <2>1. p \in Seq(Chunk) /\ \A k \in DOMAIN p : CompLen(p[k]) \in Nat \ {0}
    BY CutIs
  <2> HIDE DEF p
  <2>2. ToSet(p) \subseteq Chunk /\ IsFiniteSet(ToSet(p))
    BY <2>1, ToSetIs
  <2>3. \A h \in ToSet(p) : CompLen(h) \in Nat \ {0}
    BY <2>1 DEF ToSet
  <2> QED
    BY <2>2, <2>3 DEF p
<1>3. Cached = UNION {c[f] : f \in D}
  BY DEF Cached
<1>4. DOMAIN c = D /\ c = [f \in D |-> c[f]]
  OBVIOUS
<1> HIDE DEF c
<1>5. IsFiniteSet(D)
  BY <1>1, UpToFinite
<1> HIDE DEF D
<1>6. IsFiniteSet({c[f] : f \in D})
  BY <1>4, <1>5, ImageFinite
<1>7. \A T \in {c[f] : f \in D} : IsFiniteSet(T)
  BY <1>2
<1>8. IsFiniteSet(Cached)
  BY <1>3, <1>6, <1>7, FS_UNION
<1> QED
  BY <1>2, <1>3, <1>8

LEMMA SetToSeqIs ==
  ASSUME NEW S, IsFiniteSet(S)
  PROVE  /\ SetToSeq(S) \in Seq(S) /\ Len(SetToSeq(S)) = Cardinality(S) /\ Cardinality(S) \in Nat
         /\ \A a \in S : \E i \in 1..Cardinality(S) : SetToSeq(S)[i] = a
<1> DEFINE n == Cardinality(S)
           s == SetToSeq(S)
           D == 1..n
<1>1. n \in Nat /\ ExistsBijection(D, S)
  BY FS_CardinalityType
<1>2. \E f \in [D -> S] : \A a, b \in D : f[a] = f[b] => a = b
  BY <1>1 DEF ExistsBijection, Bijection, Injection, IsInjective
<1>3. \A f \in [D -> S] : IsInjective(f) <=> \A a, b \in D : f[a] = f[b] => a = b
  BY DEF IsInjective
<1>4. s = CHOOSE f \in [D -> S] : IsInjective(f)
  BY DEF SetToSeq
<1> HIDE DEF D, s
<1>5. s \in [D -> S] /\ IsInjective(s)
  BY <1>2, <1>3, <1>4
<1>6. s \in Injection(D, S)
  BY <1>5 DEF Injection
<1>7. Cardinality(D) = n
  BY <1>1, UpToFinite DEF D
<1>8. s \in Surjection(D, S)
  BY <1>6, <1>7, FS_Injection
<1>9. s \in Seq(S) /\ Len(s) = n
  BY <1>1, <1>5 DEF D
<1> QED
  BY <1>1, <1>8, <1>9 DEF Surjection, s, D

-----------------------------------------------------------------------------
(* A dictionary's samples. *)
LEMMA CeilIs ==
  ASSUME NEW l \in Nat, NEW n \in Nat \ {0}
  PROVE  /\ Ceil(l, n) \in Nat /\ \A k \in 1..Ceil(l, n) : (k - 1) * n \in Nat /\ (k - 1) * n < l
         /\ l # 0 => Ceil(l, n) # 0
<1>1. /\ Ceil(l, n) \in Nat /\ \A k \in 1..Ceil(l, n) : (k - 1) * n \in Nat /\ (k - 1) * n < l
      /\ Ceil(l, n) * n >= l
  BY PieceCount DEF Ceil
<1> DEFINE q == Ceil(l, n)
<1> HIDE DEF q
<1>2. ASSUME l # 0, q = 0 PROVE FALSE
  <2>1. q * n >= l
    BY <1>1 DEF q
  <2>2. 0 * n = 0
    OBVIOUS
  <2> QED
    BY <1>2, <2>1, <2>2
<1> QED
  BY <1>1, <1>2 DEF q

LEMMA SamplesAre ==
  ASSUME input \in Inputs, window \in Cuttable, NEW hs \in Distinct(Chunk),
         ToSet(hs) \subseteq Cached
  PROVE  LET samples_ == sample_sizes(hs, CachedSize, [h \in ToSet(hs) |-> Len(h)])
         IN samples_ \in Seq(Nat) /\ Sum(samples_) <= MAX_SAMPLES_SIZE
<1> DEFINE length == [h \in ToSet(hs) |-> Len(h)]
           cached == SetToSeq(Cached)
           c == Cardinality(Cached)
           sizes == [k \in DOMAIN cached |-> Len(cached[k])]
           all == [n \in DOMAIN hs |-> length[hs[n]]]
           step == Ceil(CachedSize, MAX_SAMPLES_SIZE)
           count == Ceil(Len(hs), step)
           stepped == [n \in 1..count |-> length[hs[(n - 1) * step + 1]]]
<1>1. /\ hs \in Seq(Chunk) /\ Len(hs) \in Nat /\ DOMAIN hs = 1..Len(hs)
      /\ \A i, j \in 1..Len(hs) : hs[i] = hs[j] => i = j
      /\ \A i \in 1..Len(hs) : hs[i] \in ToSet(hs) /\ hs[i] \in Chunk
  <2>1. hs \in Seq(Chunk) /\ \A i, j \in 1..Len(hs) : hs[i] = hs[j] => i = j
    BY DEF Distinct
  <2>2. Len(hs) \in Nat /\ DOMAIN hs = 1..Len(hs)
    BY <2>1
  <2>3. \A i \in 1..Len(hs) : hs[i] \in ToSet(hs) /\ hs[i] \in Chunk
    BY <2>1, <2>2 DEF ToSet
  <2> QED
    BY <2>1, <2>2, <2>3
<1>2. MAX_SAMPLES_SIZE \in Nat \ {0}
  BY SerializationAssumption
<1>3. \A i \in 1..Len(hs) : length[hs[i]] = Len(hs[i]) /\ length[hs[i]] \in Nat
  BY <1>1, ChunkIs
<1>4. /\ cached \in Seq(Cached) /\ Len(cached) = c /\ c \in Nat /\ DOMAIN cached = 1..c
      /\ \A a \in Cached : \E i \in 1..c : cached[i] = a
  <2>1. IsFiniteSet(Cached)
    BY CachedAre
  <2>2. /\ cached \in Seq(Cached) /\ Len(cached) = c /\ c \in Nat
        /\ \A a \in Cached : \E i \in 1..c : cached[i] = a
    BY <2>1, SetToSeqIs
  <2> HIDE DEF cached, c
  <2> QED
    BY <2>2
<1>5. CachedSize = Sum(sizes)
  BY DEF CachedSize, Cached
<1> HIDE DEF length, cached, c
<1>6. \A k \in 1..c : sizes[k] = Len(cached[k]) /\ sizes[k] \in Nat
  <2>1. \A k \in 1..c : cached[k] \in Chunk
    BY <1>4, CachedAre
  <2> QED
    BY <1>4, <2>1, ChunkIs
<1>7. sizes \in Seq(Nat) /\ Len(sizes) = c
  <2>1. DOMAIN sizes = 1..c /\ sizes = [k \in DOMAIN sizes |-> sizes[k]]
    BY <1>4
  <2> HIDE DEF sizes
  <2>2. c \in Nat /\ \A k \in 1..c : sizes[k] \in Nat
    BY <1>4, <1>6
  <2> QED
    BY <2>1, <2>2, SeqFrom
<1> HIDE DEF sizes
<1>8. CachedSize \in Nat
  BY <1>5, <1>7, SumType
<1>9. CASE CachedSize <= MAX_SAMPLES_SIZE
  <2>1. sample_sizes(hs, CachedSize, length) = all
    BY <1>9 DEF sample_sizes
  <2>2. all \in Seq(Nat) /\ Len(all) = Len(hs) /\ \A i \in 1..Len(hs) : all[i] = Len(hs[i])
    <3>1. DOMAIN all = 1..Len(hs) /\ all = [k \in DOMAIN all |-> all[k]]
      BY <1>1
    <3>2. \A i \in 1..Len(hs) : all[i] = Len(hs[i]) /\ all[i] \in Nat
      BY <1>1, <1>3
    <3> HIDE DEF all
    <3> QED
      BY <1>1, <3>1, <3>2, SeqFrom
  <2> HIDE DEF all
  <2>3. \A i \in 1..Len(hs) : \E k \in 1..c : cached[k] = hs[i]
    BY <1>1, <1>4
  <2> DEFINE p == [i \in 1..Len(hs) |-> CHOOSE k \in 1..c : cached[k] = hs[i]]
  <2>4. \A i \in 1..Len(hs) : p[i] \in 1..c /\ cached[p[i]] = hs[i]
    BY <2>3
  <2>5. p \in [1..Len(all) -> 1..Len(sizes)]
    BY <1>7, <2>2, <2>4
  <2> HIDE DEF p
  <2>6. ASSUME NEW i \in 1..Len(all), NEW j \in 1..Len(all), p[i] = p[j] PROVE i = j
    <3>1. i \in 1..Len(hs) /\ j \in 1..Len(hs)
      BY <2>2
    <3>2. hs[i] = hs[j]
      BY <2>4, <2>6, <3>1
    <3> QED
      BY <1>1, <3>1, <3>2
  <2>7. ASSUME NEW i \in 1..Len(all) PROVE all[i] = sizes[p[i]] /\ all[i] \in Nat
    <3> DEFINE k == p[i]
    <3>1. k \in 1..c /\ cached[k] = hs[i] /\ all[i] = Len(hs[i])
      BY <2>2, <2>4
    <3> HIDE DEF k
    <3>2. sizes[k] = Len(cached[k]) /\ sizes[k] \in Nat
      BY <1>6, <3>1
    <3> QED
      BY <3>1, <3>2 DEF k
  <2>8. Covers_(all, sizes)
    BY <2>5, <2>6, <2>7 DEF Covers_
  <2>9. Sum(all) <= Sum(sizes) /\ Sum(all) \in Nat
    BY <1>7, <2>2, <2>8, SumCovers, SumType
  <2> DEFINE x == Sum(all)
             y == CachedSize
  <2> HIDE DEF x, y
  <2>10. x \in Nat /\ y \in Nat /\ x <= y /\ y <= MAX_SAMPLES_SIZE
    BY <1>5, <1>8, <1>9, <2>9 DEF x, y
  <2>11. x <= MAX_SAMPLES_SIZE
    BY <1>2, <2>10
  <2> QED
    BY <2>1, <2>2, <2>11 DEF x, length
<1>10. CASE ~(CachedSize <= MAX_SAMPLES_SIZE)
  <2>1. sample_sizes(hs, CachedSize, length)
          = FoldLeft(Take, [sizes |-> << >>, full |-> FALSE], stepped).sizes
    BY <1>10 DEF sample_sizes
  <2>2. step \in Nat \ {0}
    <3>1. CachedSize # 0
      BY <1>2, <1>10
    <3> QED
      BY <1>2, <1>8, <3>1, CeilIs
  <2> HIDE DEF step
  <2>3. count \in Nat /\ \A k \in 1..count : (k - 1) * step \in Nat /\ (k - 1) * step < Len(hs)
    BY <1>1, <2>2, CeilIs
  <2> HIDE DEF count
  <2>4. ASSUME NEW k \in 1..count PROVE stepped[k] \in Nat
    <3> DEFINE a == (k - 1) * step
    <3>1. a \in Nat /\ a < Len(hs)
      BY <2>3
    <3>2. stepped[k] = length[hs[a + 1]]
      OBVIOUS
    <3> HIDE DEF a, stepped
    <3>3. a + 1 \in 1..Len(hs)
      BY <1>1, <3>1
    <3> QED
      BY <1>3, <3>2, <3>3
  <2>5. stepped \in Seq(Nat)
    <3>1. DOMAIN stepped = 1..count /\ stepped = [k \in DOMAIN stepped |-> stepped[k]]
      OBVIOUS
    <3> HIDE DEF stepped
    <3> QED
      BY <2>3, <2>4, <3>1, SeqFrom
  <2> HIDE DEF stepped
  <2>6. FoldLeft(Take, [sizes |-> << >>, full |-> FALSE], stepped) \in Taken
    BY <2>5, TakenIs
  <2> QED
    BY <2>1, <2>6 DEF Taken, length
<1> QED
  BY <1>9, <1>10 DEF length

-----------------------------------------------------------------------------
(* What the run has made of the files. *)

LEMMA DataInit ==
  ASSUME ArchiveInit PROVE DataInv
<1>1. args.mode \in {"default", "optical"}
  BY ConstantsAre DEF ArchiveInit
<1>2. samples = << >> /\ Sum(<< >>) = 0
  <2>1. << >> \in Seq(Nat) /\ 0 \in Nat
    OBVIOUS
  <2> QED
    BY <2>1, SumAppend DEF ArchiveInit
<1>3. SamplesFit
  BY <1>2, SerializationAssumption DEF SamplesFit
<1>4. input \in IF args.mode = "default" THEN Inputs ELSE Sections
  BY DEF ArchiveInit
<1> QED
  BY <1>1, <1>3, <1>4 DEF ArchiveInit, DataInv

LEMMA KnownStays ==
  ASSUME FilesKnown, UNCHANGED <<input, window, file_manifest>> PROVE FilesKnown'
<1>1. Names' = Names
  BY DEF Names
<1>2. OneOfEach' = OneOfEach
  BY <1>1 DEF OneOfEach
<1>3. ASSUME NEW m \in OneOfEach PROVE ManifestsOf(m)' = ManifestsOf(m)
  BY <1>1 DEF ManifestsOf, ManifestOf
<1> QED
  BY <1>2, <1>3 DEF FilesKnown

(* A run that has ended with anything but Ok. *)
LEMMA DataEnds ==
  ASSUME DataInv, UNCHANGED <<input, args, samples>>, pc' = "returned", result' # "Ok"
  PROVE  DataInv'
<1>1. Sections' = Sections
  BY DEF Sections
<1> QED
  BY <1>1 DEF DataInv, SamplesFit

LEMMA DataStays ==
  ASSUME DataInv,
         UNCHANGED <<input, args, pc, result, window, best, file_manifest, ser, samples,
                     chunk_index, file, header, format_data>>
  PROVE  DataInv'
<1>1. Sections' = Sections
  BY DEF Sections
<1>2. FilesKnown => FilesKnown'
  BY KnownStays
<1>3. Indexed => Indexed'
  BY DEF Indexed
<1>4. WroteFiles => WroteFiles'
  BY <1>2, <1>3 DEF WroteFiles, Wrote, Blob
<1>5. WroteDiscs => WroteDiscs'
  BY DEF WroteDiscs, Wrote
<1>6. SamplesFit => SamplesFit'
  BY DEF SamplesFit
<1> QED
  BY <1>1, <1>2, <1>3, <1>4, <1>5, <1>6 DEF DataInv

(* The files, as serialize_store leaves them. *)
LEMMA SerIs ==
  ASSUME input \in Inputs, window \in Cuttable, FilesKnown, ser = SerOf(file_manifest)
  PROVE  /\ ser.manifests \in Seq(Seq(Entry))
         /\ ser.hashes \in Distinct(Chunk) /\ ser.hashes = sorted_hashes(ser.manifests)
         /\ ToSet(ser.hashes) \subseteq Cached
<1>1. PICK m \in OneOfEach : file_manifest = ManifestsOf(m)
  BY DEF FilesKnown
<1>2. /\ ser.toc = archive_toc(ManifestsOf(m)) /\ ser.manifests = ser_file_manifest(ManifestsOf(m))
      /\ ser.hashes = sorted_hashes(ser.manifests)
  BY <1>1 DEF SerOf
<1> DEFINE Ms == ser.manifests
           toc == ser.toc
<1> HIDE DEF Ms, toc
<1>3. /\ Ms \in Seq(Seq(Entry)) /\ DOMAIN Ms = DOMAIN toc
      /\ \A i \in DOMAIN toc : /\ m[toc[i].filename] \in DOMAIN input
                               /\ Hashes(Ms[i]) = Cut(window, input[m[toc[i].filename]].content)
  BY <1>2, TocIs DEF Ms, toc
<1>4. /\ sorted_hashes(Ms) \in Distinct(Chunk)
      /\ ToSet(sorted_hashes(Ms)) = UNION {ToSet(Hashes(Ms[i])) : i \in DOMAIN Ms}
  BY <1>3, SortedIs
<1>5. \A i \in DOMAIN Ms : ToSet(Hashes(Ms[i])) \subseteq Cached
  BY <1>3 DEF Cached
<1> QED
  BY <1>2, <1>3, <1>4, <1>5 DEF Ms

LEMMA DataNext ==
  ASSUME ArchiveInv, [ArchiveNext]_archive_vars PROVE DataInv'
<1> USE DEF ArchiveInv, Kept, KeptData, outcome, search, Goto, Return, Cancelled
<1>1. DataInv /\ (pc = "returned") = (result # "none")
  BY DEF SearchesInv, ArchiveTypeOK
<1>2. Sections' = Sections
  BY DEF Sections
<1>3. CASE ValidateArgs
  <2>1. /\ UNCHANGED <<input, args, samples>> /\ args.mode = "default"
        /\ \/ pc' = "returned" /\ result' = "Error"
           \/ pc' \in {"window", "process"} /\ result' = result
    BY <1>1, <1>3 DEF ValidateArgs
  <2>2. result = "none"
    BY <1>1, <1>3 DEF ValidateArgs
  <2> QED
    BY <1>1, <2>1, <2>2, DataEnds DEF DataInv, SamplesFit
<1>4. CASE TryWindow
  <2>1. pc = "window" /\ result = "none" /\ args.mode = "default"
        /\ UNCHANGED <<input, args, samples>>
    BY <1>1, <1>4 DEF TryWindow, DataInv
  <2>2. \/ pc' = "returned" /\ result' # "Ok"
        \/ pc' \in {"window", "process"} /\ result' = result
    <3>1. ASSUME NEW size \in Sizes, Measured(window, size),
                 IF Worse(size) THEN Goto("process") /\ window' = best
                 ELSE UNCHANGED <<pc, result>> /\ window' = NextTried(window)
          PROVE  pc' \in {"window", "process"} /\ result' = result
      BY <2>1, <3>1
    <3>2. CASE /\ window \notin Cuttable
               /\ Return("panic") /\ UNCHANGED <<window, best, last, tests>>
      BY <3>2
    <3>3. CASE (Return("Error") \/ Cancelled) /\ UNCHANGED <<window, best, last, tests>>
      BY <3>3
    <3> HIDE DEF Goto, Return, Cancelled
    <3> QED
      BY <1>4, <3>1, <3>2, <3>3 DEF TryWindow
  <2> QED
    BY <1>1, <2>1, <2>2, DataEnds DEF DataInv, SamplesFit
<1>5. CASE TryDictionary
  <2>1. /\ pc = "dict" /\ result = "none" /\ args.mode = "default" /\ FilesKnown
        /\ window \in Cuttable
        /\ UNCHANGED <<input, args, samples, window, file_manifest>>
    BY <1>1, <1>5 DEF TryDictionary, DataInv
  <2>2. \/ pc' = "returned" /\ result' # "Ok"
        \/ pc' \in {"dict", "serialize"} /\ result' = result
    BY <1>5, <2>1 DEF TryDictionary
  <2>3. FilesKnown'
    BY <2>1, KnownStays
  <2> QED
    BY <1>1, <2>1, <2>2, <2>3, DataEnds DEF DataInv, SamplesFit
<1>6. CASE Process
  <2>1. /\ pc = "process" /\ result = "none" /\ args.mode = "default"
        /\ UNCHANGED <<input, args, samples, window>>
    BY <1>1, <1>6 DEF Process, DataInv
  <2>2. CASE pc' = "returned" /\ result' # "Ok"
    BY <1>1, <2>1, <2>2, DataEnds
  <2>3. ASSUME NEW m \in OneOfEach, window \in Cuttable,
               file_manifest' = [n \in Names |-> ManifestOf(input[m[n]].content)],
               pc' \in {"dict", "serialize"}, result' = result
        PROVE  DataInv'
    <3>1. window' \in Cuttable
      BY <2>1, <2>3
    <3>2. Names' = Names /\ OneOfEach' = OneOfEach
      BY <2>1 DEF Names, OneOfEach
    <3>3. ManifestsOf(m)' = [n \in Names |-> ManifestOf(input[m[n]].content)]
      BY <2>1, <3>2 DEF ManifestsOf, ManifestOf
    <3>4. FilesKnown'
      BY <2>3, <3>2, <3>3 DEF FilesKnown
    <3> QED
      BY <1>1, <2>1, <2>3, <3>1, <3>4 DEF DataInv, SamplesFit
  <2>4. \/ pc' = "returned" /\ result' # "Ok"
        \/ /\ window \in Cuttable /\ pc' \in {"dict", "serialize"} /\ result' = result
           /\ \E m \in OneOfEach :
                file_manifest' = [n \in Names |-> ManifestOf(input[m[n]].content)]
    BY <1>6 DEF Process
  <2> QED
    BY <2>2, <2>3, <2>4
<1>7. CASE Serialize
  <2>1. /\ pc = "serialize" /\ result = "none" /\ args.mode = "default" /\ FilesKnown
        /\ window \in Cuttable
        /\ UNCHANGED <<input, args, samples, window, file_manifest>>
    BY <1>1, <1>7 DEF Serialize, DataInv
  <2>2. CASE pc' = "returned" /\ result' # "Ok"
    BY <1>1, <2>1, <2>2, DataEnds
  <2>3. CASE pc' = "verify" /\ result' = result /\ ser' = SerOf(file_manifest)
    <3>1. FilesKnown'
      BY <2>1, KnownStays
    <3>2. ser' = SerOf(file_manifest')
      BY <2>1, <2>3
    <3> QED
      BY <1>1, <2>1, <2>3, <3>1, <3>2 DEF DataInv, SamplesFit
  <2>4. \/ pc' = "returned" /\ result' # "Ok"
        \/ pc' = "verify" /\ result' = result /\ ser' = SerOf(file_manifest)
    BY <1>7 DEF Serialize, SerOf
  <2> QED
    BY <2>2, <2>3, <2>4
<1>8. CASE VerifyFiles
  <2>1. /\ pc = "verify" /\ result = "none" /\ args.mode = "default" /\ FilesKnown
        /\ window \in Cuttable /\ ser = SerOf(file_manifest)
        /\ UNCHANGED <<input, args, samples, window, file_manifest, ser>>
    BY <1>1, <1>8 DEF VerifyFiles, DataInv
  <2>2. \/ pc' = "returned" /\ result' # "Ok"
        \/ pc' = "build" /\ result' = result
    BY <1>8 DEF VerifyFiles
  <2>3. FilesKnown' /\ ser' = SerOf(file_manifest')
    BY <2>1, KnownStays
  <2> QED
    BY <1>1, <2>1, <2>2, <2>3, DataEnds DEF DataInv, SamplesFit
<1>9. CASE Build
  <2>1. /\ pc = "build" /\ result = "none" /\ args.mode = "default" /\ FilesKnown
        /\ window \in Cuttable /\ ser = SerOf(file_manifest) /\ input \in Inputs
        /\ UNCHANGED <<input, args, window, file_manifest, ser>>
    BY <1>1, <1>9 DEF Build, DataInv
  <2>2. CASE pc' = "returned" /\ result' # "Ok" /\ UNCHANGED samples
    BY <1>1, <2>1, <2>2, DataEnds
  <2>3. CASE /\ ser.hashes # << >> /\ pc' = "write" /\ result' = result
             /\ samples' = sample_sizes(ser.hashes, CachedSize,
                                        [h \in ToSet(ser.hashes) |-> Len(h)])
             /\ chunk_index' = Locations(ser.hashes, [h \in ToSet(ser.hashes) |-> CompLen(h)])
    <3>1. FilesKnown' /\ ser' = SerOf(file_manifest')
      BY <2>1, KnownStays
    <3>2. SamplesFit'
      <4>1. ser.hashes \in Distinct(Chunk) /\ ToSet(ser.hashes) \subseteq Cached
        BY <2>1, SerIs
      <4>2. Sum(samples') <= MAX_SAMPLES_SIZE
        BY <2>1, <2>3, <4>1, SamplesAre
      <4> QED
        BY <4>2 DEF SamplesFit
    <3>3. Indexed'
      BY <2>1, <2>3 DEF Indexed
    <3> QED
      BY <1>1, <2>1, <2>3, <3>1, <3>2, <3>3 DEF DataInv
  <2> QED
    BY <1>9, <2>2, <2>3 DEF Build
<1>10. CASE WriteArchive
  <2>1. /\ pc = "write" /\ result = "none" /\ args.mode = "default" /\ FilesKnown /\ Indexed
        /\ window \in Cuttable /\ ser = SerOf(file_manifest) /\ input \in Inputs
        /\ UNCHANGED <<input, args, window, file_manifest, ser, samples, chunk_index>>
    BY <1>1, <1>10 DEF WriteArchive, DataInv
  <2>2. CASE pc' = "returned" /\ result' # "Ok"
    BY <1>1, <2>1, <2>2, DataEnds
  <2>3. CASE Write(SSMC, [manifest |-> Len(ser.manifests), dictionary |-> 1,
                          chunk_index |-> Len(chunk_index)],
                   Len(ser.toc), Len(input), Blob)
    <3>1. FilesKnown' /\ ser' = SerOf(file_manifest')
      BY <2>1, KnownStays
    <3>2. Indexed' /\ Blob' = Blob
      BY <2>1 DEF Indexed, Blob
    <3>3. WroteFiles' /\ pc' = "returned"
      BY <2>1, <2>3, <3>1, <3>2 DEF WroteFiles, Wrote, Write
    <3> QED
      BY <1>1, <2>1, <3>3 DEF DataInv, SamplesFit
  <2> QED
    BY <1>10, <2>2, <2>3 DEF WriteArchive
<1>11. CASE WriteOptical
  <2>1. /\ pc = "start" /\ args.mode = "optical" /\ input \in Sections
        /\ UNCHANGED <<input, args, samples>>
    BY <1>1, <1>11 DEF WriteOptical, DataInv
  <2>2. WroteDiscs' /\ pc' = "returned"
    BY <1>11, <2>1 DEF WroteDiscs, Wrote, WriteOptical, Write
  <2> QED
    BY <1>1, <1>2, <2>1, <2>2 DEF DataInv, SamplesFit
<1>12. CASE Cancel
  BY <1>1, <1>12, DataStays DEF Cancel
<1>13. CASE UNCHANGED archive_vars
  BY <1>1, <1>13, DataStays DEF archive_vars
<1> QED
  BY <1>3, <1>4, <1>5, <1>6, <1>7, <1>8, <1>9, <1>10, <1>11, <1>12, <1>13
     DEF ArchiveNext, RunStep, Over

LEMMA ArchiveInvHolds == ArchiveSpec => []ArchiveInv
<1>1. ArchiveInit => ArchiveInv
  BY SearchInit, DataInit DEF ArchiveInv
<1>2. ArchiveInv /\ [ArchiveNext]_archive_vars => ArchiveInv'
  BY SearchNext, DataNext DEF ArchiveInv
<1> QED
  BY <1>1, <1>2, PTL DEF ArchiveSpec

(* pc and what has been settled on stay in their ranges, a search settles   *)
(* on the best it has measured, and a dictionary's samples never are more   *)
(* than zstd takes.                                                         *)
THEOREM ArchiveIsSafe == ArchiveSpec => []ArchiveSafe
<1>1. ArchiveInv => ArchiveSafe
  BY DEF ArchiveInv, SearchesInv, DataInv, ArchiveSafe
<1> QED
  BY <1>1, ArchiveInvHolds, PTL

(* The chunks of an archive are those of its manifests, each once, and the  *)
(* first are those of a file that no other shares more chunks than          *)
(* (serialize_uncompressed_data).                                           *)
THEOREM ChunksAreOnceInOrder == ArchiveSpec => []ChunksOnceInOrder
<1>1. ASSUME ArchiveInv, pc = "verify"
      PROVE  /\ IsInjective(ser.hashes)
             /\ ToSet(ser.hashes) = UNION {ToSet(Hashes(ser.manifests[i])) : i \in DOMAIN ser.manifests}
             /\ ser.hashes # << >> =>
                  \E i \in DOMAIN ser.manifests :
                    /\ \A j \in DOMAIN ser.manifests : Score(ser.manifests, j) <= Score(ser.manifests, i)
                    /\ ser.hashes[1] = ser.manifests[i][1].hash
  <2>1. input \in Inputs /\ window \in Cuttable /\ FilesKnown /\ ser = SerOf(file_manifest)
    BY <1>1 DEF ArchiveInv, DataInv
  <2>2. /\ ser.manifests \in Seq(Seq(Entry)) /\ ser.hashes \in Distinct(Chunk)
        /\ ser.hashes = sorted_hashes(ser.manifests)
    BY <2>1, SerIs
  <2> DEFINE Ms == ser.manifests
             hs == ser.hashes
  <2> HIDE DEF Ms, hs
  <2>3. Ms \in Seq(Seq(Entry)) /\ hs \in Distinct(Chunk) /\ hs = sorted_hashes(Ms)
    BY <2>2 DEF Ms, hs
  <2>4. /\ ToSet(hs) = UNION {ToSet(Hashes(Ms[i])) : i \in DOMAIN Ms}
        /\ hs # << >> => \E i \in DOMAIN Ms : /\ \A j \in DOMAIN Ms : Score(Ms, j) <= Score(Ms, i)
                                              /\ hs[1] = Ms[i][1].hash
    BY <2>3, SortedIs
  <2>5. IsInjective(hs)
    <3>1. hs \in Seq(Chunk) /\ \A i, j \in 1..Len(hs) : hs[i] = hs[j] => i = j
      BY <2>3 DEF Distinct
    <3>2. DOMAIN hs = 1..Len(hs)
      BY <3>1
    <3> QED
      BY <3>1, <3>2 DEF IsInjective
  <2> QED
    BY <2>4, <2>5 DEF Ms, hs
<1>2. ArchiveInv => ChunksOnceInOrder
  BY <1>1 DEF ChunksOnceInOrder
<1> QED
  BY <1>2, ArchiveInvHolds, PTL

-----------------------------------------------------------------------------
(* A random access. *)
LEMMA SmallRest ==
  ASSUME NEW a \in Nat, NEW n \in Nat \ {0}, a < n
  PROVE  a % n = a
OBVIOUS

LEMMA LeastGreatest ==
  ASSUME NEW n \in Nat, NEW P, P \subseteq 1..n, P # {}
  PROVE  \E a, z \in P : \A k \in P : a <= k /\ k <= z
<1>1. P \subseteq Nat /\ P \subseteq 0..n
  OBVIOUS
<1>2. PICK a \in P : \A k \in P : a <= k
  BY <1>1, LeastOf
<1>3. Max(P) \in P /\ \A k \in P : k <= Max(P)
  BY <1>1, MaxOf
<1> HIDE DEF Max
<1> QED
  BY <1>2, <1>3

LEMMA PartOfChunk ==
  ASSUME NEW S, NEW c \in Seq(S), NEW b \in Nat, NEW len \in Nat, NEW h \in Seq(S),
         Reads(c, b, len, h), NEW o \in Nat, NEW e \in Nat, o <= e, b < e, b + len > o,
         NEW s, StartsAt(s, o, b), NEW t, EndsAt(t, e, b, len)
  PROVE  /\ SubSeq(h, s + 1, t) = SubSeq(c, Begin(o, b) + 1, End(e, b + len))
         /\ Begin(o, b) \in Nat /\ End(e, b + len) \in Nat
         /\ Begin(o, b) <= End(e, b + len) /\ End(e, b + len) <= Len(c)
<1> DEFINE x == Begin(o, b)
           y == End(e, b + len)
           n == Len(c)
<1>1. /\ s \in Nat /\ t \in Nat /\ s <= t /\ t <= len /\ b + s = x /\ b + t = y /\ x \in Nat /\ y \in Nat
      /\ x <= y
  BY DEF Begin, End, StartsAt, EndsAt
<1>2. n \in Nat /\ b + len <= n /\ SubSeq(c, b + 1, b + len) = h /\ Len(h) = len
  BY ReadsGives DEF Reads
<1>3. y <= n
  BY <1>1, <1>2
<1>4. SubSeq(h, s + 1, t) = SubSeq(c, x + 1, y)
  <2>1. CASE s = t
    <3>1. s + 1 \in Int /\ t \in Int /\ t < s + 1 /\ x + 1 \in Int /\ y \in Int /\ y < x + 1
      BY <1>1, <2>1
    <3> HIDE DEF x, y
    <3> QED
      BY <3>1, SubSeqEmpty
  <2>2. CASE s # t
    <3> DEFINE i == b + 1
               j == b + len
               m == s + 1
    <3>1. i \in 1..n /\ j \in 1..n /\ m \in 1..(j - i + 1) /\ t \in 1..(j - i + 1)
          /\ i + m - 1 = x + 1 /\ i + t - 1 = y
      <4> HIDE DEF n, x, y
      <4> QED
        BY <1>1, <1>2, <2>2
    <3> HIDE DEF i, j, m, x, y, n
    <3>2. SubSeq(SubSeq(c, i, j), m, t) = SubSeq(c, i + m - 1, i + t - 1)
      BY <3>1, SubSeqOfSubSeq DEF n
    <3> QED
      BY <1>2, <3>1, <3>2 DEF i, j, m
  <2> QED
    BY <2>1, <2>2
<1> QED
  BY <1>1, <1>3, <1>4

LEMMA SeekAnswer ==
  ASSUME NEW M, NEW c, WellCut(M, c), NEW o \in Nat, NEW l \in Nat, o + l < U64,
         NEW q, IsNeeded(q, M, o, o + l)
  PROVE  /\ o + l > Len(c) => get_seek_chunks(M, o, l) = OutOfBounds
         /\ o + l <= Len(c) =>
              get_seek_chunks(M, o, l) =
                [k \in DOMAIN q |->
                   [hash |-> M[q[k]].hash,
                    start |-> IF o > M[q[k]].offset THEN o - M[q[k]].offset ELSE 0,
                    end |-> IF (o + l) - M[q[k]].offset < M[q[k]].length
                            THEN (o + l) - M[q[k]].offset ELSE M[q[k]].length]]
<1> USE DEF IsNeeded
<1> DEFINE e == o + l
           lens == Lengths_(Hashes(M))
           needed == [k \in DOMAIN q |-> M[q[k]]]
           total == Sum([k \in DOMAIN M |-> M[k].length])
           start(x) == IF o > x.offset THEN o - x.offset ELSE 0
<1>1. e \in Nat /\ e % U64 = e
  BY SmallRest, SerializationAssumption
<1>2. total = Len(c) /\ Len(c) \in Nat
  <2>1. /\ lens \in Seq(Nat) /\ Len(lens) = Len(M) /\ Len(c) = UpTo(lens, Len(M)) /\ Len(c) \in Nat
        /\ \A k \in 1..Len(M) : lens[k] = M[k].length
    BY PlacesAre
  <2>2. DOMAIN M = 1..Len(M)
    BY HashesAre DEF WellCut
  <2>3. lens = [k \in DOMAIN M |-> M[k].length]
    <3>1. lens = [k \in 1..Len(M) |-> lens[k]]
      <4> HIDE DEF lens
      <4> QED
        BY <2>1, SMTT(30)
    <3> HIDE DEF lens
    <3> QED
      BY <2>1, <2>2, <3>1
  <2> HIDE DEF lens
  <2> QED
    BY <2>1, <2>3, UpToSums
<1>3. get_seek_chunks(M, o, l) =
        IF e > total THEN OutOfBounds
        ELSE [k \in DOMAIN needed |-> [hash |-> needed[k].hash, start |-> start(needed[k]),
                                       end |-> EndInChunk(e, needed[k])]]
  <2>1. NeededPlaces(M, o, e) = {k \in DOMAIN M : /\ M[k].offset < e
                                                  /\ M[k].offset + M[k].length > o}
    BY DEF NeededPlaces
  <2> HIDE DEF e
  <2> QED
    BY <1>1, <2>1, ZenonT(60) DEF get_seek_chunks, e
<1>4. [k \in DOMAIN needed |-> [hash |-> needed[k].hash, start |-> start(needed[k]),
                                end |-> EndInChunk(e, needed[k])]]
      = [k \in DOMAIN q |->
           [hash |-> M[q[k]].hash,
            start |-> IF o > M[q[k]].offset THEN o - M[q[k]].offset ELSE 0,
            end |-> IF e - M[q[k]].offset < M[q[k]].length
                    THEN e - M[q[k]].offset ELSE M[q[k]].length]]
  BY DEF EndInChunk
<1> HIDE DEF total, needed
<1>5. e > total <=> e > Len(c)
  BY <1>2
<1> QED
  BY <1>1, <1>2, <1>3, <1>4, <1>5

LEMMA SeekGives ==
  ASSUME NEW M, NEW c, WellCut(M, c), NEW o \in Nat, NEW e \in Nat, o <= e, e <= Len(c),
         NEW q, IsNeeded(q, M, o, e), NEW parts, ArePartsOf(parts, q, M, o, e)
  PROVE  FlattenSeq(parts) = SubSeq(c, o + 1, e)
<1> USE DEF IsNeeded, ArePartsOf
<1> DEFINE n == Len(M)
           H == Hashes(M)
           lens == Lengths_(H)
           b(k) == UpTo(lens, k)
           P == NeededPlaces(M, o, e)
<1>1. /\ n \in Nat /\ DOMAIN M = 1..n /\ H \in Seq(Seq(Byte)) /\ Len(H) = n
      /\ \A k \in 1..n : H[k] = M[k].hash /\ M[k].length \in Nat
      /\ c = FlattenSeq(H) /\ c \in Seq(Byte)
  BY HashesAre DEF WellCut
<1>2. /\ lens \in Seq(Nat) /\ Len(lens) = n /\ Len(c) = b(n) /\ Len(c) \in Nat
      /\ \A k \in 1..n : /\ M[k].offset = b(k - 1) /\ M[k].offset + M[k].length = b(k)
  BY PlacesAre
<1>3. e \in Nat /\ o <= e /\ e <= Len(c)
  OBVIOUS
<1>4. \A k \in 1..n : Reads(c, b(k - 1), M[k].length, H[k]) /\ H[k] \in Seq(Byte)
  <2> SUFFICES ASSUME NEW k \in 1..n
               PROVE  Reads(c, b(k - 1), M[k].length, H[k]) /\ H[k] \in Seq(Byte)
    OBVIOUS
  <2>1. H[k] \in Seq(Byte) /\ M[k].length = Len(H[k])
    <3>1. H[k] = M[k].hash
      BY <1>1
    <3>2. M[k].length = Len(M[k].hash)
      BY DEF WellCut
    <3>3. k \in 1..Len(H)
      BY <1>1
    <3> HIDE DEF H
    <3>4. H[k] \in Seq(Byte)
      BY <1>1, <3>3, ElementOfSeq
    <3> QED
      BY <3>1, <3>2, <3>4
  <2>2. Reads(c, b(k - 1), Len(H[k]), H[k])
    <3> HIDE DEF H
    <3> QED
      BY <1>1, ReadsPart
  <2> QED
    BY <2>1, <2>2
<1> HIDE DEF n, H
<1>a. n \in Nat /\ \A k \in 1..n : k \in 0..n /\ k - 1 \in 0..n /\ k \in Nat
  BY <1>1
<1>5. InPlace(H, n, c)
  BY <1>1, FlattenInPlace
<1> HIDE DEF lens
<1>6. /\ \A k \in 0..n : b(k) \in Nat
      /\ b(0) = 0
  BY <1>2, UpToSums
<1>7. \A i, j \in 0..n : i <= j => b(i) <= b(j)
  BY <1>2, UpToGrows
<1>8. P = {k \in 1..n : b(k - 1) < e /\ b(k) > o}
  BY <1>1, <1>2 DEF NeededPlaces
<1> HIDE DEF b, P
<1>9. P \subseteq 1..n /\ IsFiniteSet(P) /\ P \subseteq Nat
  <2>1. IsFiniteSet(1..n) /\ P \subseteq 1..n
    BY <1>1, <1>8, UpToFinite
  <2>2. P \subseteq Nat
    BY <1>a, <2>1
  <2> QED
    BY <2>1, <2>2, FS_Subset
<1>10. q = Ascending(P)
  BY DEF P
<1>11. CASE P = {}
  <2>1. Cardinality(P) = 0
    BY <1>11, FS_EmptySet
  <2>2. DOMAIN q = {}
    <3>1. DOMAIN q = 1..0
      BY <1>9, <1>10, <2>1, AscendingIs
    <3> QED
      BY <3>1
  <2>3. parts = << >>
    BY <2>2
  <2>4. e = o
    <3> SUFFICES ASSUME e # o PROVE FALSE
      OBVIOUS
    <3>1. o + 1 \in 1..Len(c) /\ o + 1 <= e
      BY <1>2, <1>3
    <3>2. PICK k \in 1..n : \E j \in 1..Len(H[k]) : o + 1 = b(k - 1) + j
      BY <1>5, <3>1 DEF InPlace, b, lens
    <3>3. PICK j \in 1..Len(H[k]) : o + 1 = b(k - 1) + j
      BY <3>2
    <3>4. b(k - 1) \in Nat /\ b(k) = b(k - 1) + Len(H[k]) /\ Len(H[k]) \in Nat
      <4>1. k - 1 \in 0..n /\ H[k] \in Seq(Byte)
        BY <1>4, <1>a
      <4>2. M[k].length = Len(H[k])
        BY <1>1, ReadsGives, <1>4 DEF WellCut, n
      <4> QED
        BY <1>2, <1>6, <4>1, <4>2
    <3> DEFINE x == b(k - 1)
               y == b(k)
               z == Len(H[k])
    <3> HIDE DEF x, y, z
    <3>5. x \in Nat /\ z \in Nat /\ y = x + z /\ j \in 1..z /\ o + 1 = x + j
      BY <3>3, <3>4 DEF x, y, z
    <3>6. x < e /\ y > o
      BY <1>3, <3>1, <3>5
    <3> QED
      BY <1>8, <1>11, <3>6 DEF x, y
  <2>5. SubSeq(c, o + 1, e) = << >>
    <3>1. o + 1 \in Int /\ e \in Int /\ e < o + 1
      BY <2>4
    <3> QED
      BY <3>1, SubSeqEmpty
  <2> QED
    BY <2>3, <2>5, FlattenEmpty
<1>12. CASE P # {}
  <2>1. PICK a, z \in P : \A k \in P : a <= k /\ k <= z
    BY <1>1, <1>9, <1>12, LeastGreatest
  <2>2. a \in 1..n /\ z \in 1..n /\ a <= z /\ b(a) > o /\ b(z - 1) < e
    BY <1>8, <2>1
  <2>3. ASSUME NEW k \in a..z PROVE k \in P
    <3>1. k \in 1..n /\ k - 1 \in 0..n /\ z - 1 \in 0..n /\ k - 1 <= z - 1 /\ k \in 0..n
          /\ a \in 0..n /\ a <= k
      <4>1. a \in Nat /\ z \in Nat /\ a >= 1 /\ z <= n /\ a <= n
        BY <1>a, <2>2
      <4> QED
        BY <1>a, <4>1
    <3>2. b(k - 1) <= b(z - 1) /\ b(a) <= b(k)
      BY <1>7, <3>1
    <3> DEFINE x1 == b(k - 1)
               x2 == b(z - 1)
               x3 == b(a)
               x4 == b(k)
    <3> HIDE DEF x1, x2, x3, x4
    <3>3. x1 \in Nat /\ x2 \in Nat /\ x3 \in Nat /\ x4 \in Nat /\ x1 <= x2 /\ x3 <= x4
          /\ x3 > o /\ x2 < e
      BY <1>6, <2>2, <3>1, <3>2 DEF x1, x2, x3, x4
    <3>4. x1 < e /\ x4 > o
      BY <1>3, <3>3
    <3> QED
      BY <1>8, <3>1, <3>4 DEF x1, x4
  <2>4. P = a..z
    <3>1. a \in Nat /\ z \in Nat
      BY <1>9
    <3>2. ASSUME NEW k \in P PROVE k \in a..z
      <4>1. k \in Nat /\ a <= k /\ k <= z
        BY <1>9, <2>1
      <4> QED
        BY <3>1, <4>1
    <3> QED
      BY <2>3, <3>2
  <2> DEFINE p == z - a + 1
             t == [j \in 1..p |-> a + j - 1]
  <2>5. p \in Nat /\ p # 0 /\ Cardinality(P) = p
    <3>1. a \in Int /\ z \in Int /\ ~(a > z) /\ p \in Nat /\ p # 0
      BY <2>2
    <3>2. Cardinality(a..z) = p
      BY <3>1, FS_Interval
    <3> QED
      BY <2>4, <3>1, <3>2
  <2>a. a \in Nat /\ z \in Nat
    BY <1>9
  <2>6. ASSUME NEW j \in 1..p
        PROVE  t[j] = a + j - 1 /\ a + j - 1 \in P /\ a + j - 1 \in 1..n
    <3>1. a + j - 1 \in a..z
      BY <2>2, <2>a
    <3>2. a + j - 1 \in P
      BY <2>3, <3>1
    <3> QED
      BY <1>9, <3>2
  <2> HIDE DEF p
  <2>7. t \in Seq(P) /\ Len(t) = p
    <3>1. DOMAIN t = 1..p /\ t = [k \in DOMAIN t |-> t[k]]
      OBVIOUS
    <3> HIDE DEF t
    <3> QED
      BY <2>5, <2>6, <3>1, SeqFrom
  <2>8. ASSUME NEW i \in 1..Len(t), NEW j \in 1..Len(t), i < j PROVE t[i] < t[j]
    <3>1. i \in 1..p /\ j \in 1..p /\ t[i] = a + i - 1 /\ t[j] = a + j - 1
      BY <2>6, <2>7
    <3>2. a + i - 1 < a + j - 1
      BY <2>5, <2>8, <2>a, <3>1
    <3> QED
      BY <3>1, <3>2
  <2> HIDE DEF t
  <2>9. q = t
    BY <1>9, <1>10, <2>5, <2>7, <2>8, AscendingIs
  <2> DEFINE end == [j \in 0..p |-> IF j = 0 THEN o ELSE End(e, b(a + j - 1))]
  <2>10. ASSUME NEW j \in 1..p
         PROVE  /\ parts[j] = SubSeq(c, end[j - 1] + 1, end[j])
                /\ end[j] \in Nat /\ end[j - 1] <= end[j] /\ end[j] <= Len(c)
    <3> DEFINE k == a + j - 1
               off == b(k - 1)
               len == M[k].length
    <3>1. k \in P /\ k \in 1..n /\ t[j] = k
      BY <2>6
    <3>2. /\ off \in Nat /\ len \in Nat /\ off + len = b(k) /\ M[k].offset = off
          /\ off < e /\ off + len > o /\ Reads(c, off, len, H[k]) /\ H[k] \in Seq(Byte)
          /\ H[k] = M[k].hash
      <4>1. k - 1 \in 0..n
        BY <1>a, <3>1
      <4> HIDE DEF k
      <4> QED
        BY <1>1, <1>2, <1>4, <1>6, <1>8, <3>1, <4>1 DEF b
    <3> DEFINE s == IF o > off THEN o - off ELSE 0
               u == IF e - off < len THEN e - off ELSE len
    <3>3. parts[j] = SubSeq(H[k], s + 1, u)
      <4>1. j \in DOMAIN q /\ q[j] = k
        BY <2>7, <2>9, <3>1
      <4> HIDE DEF k, off, len
      <4> QED
        BY <3>2, <4>1 DEF len, SeekPart
    <3>4. /\ SubSeq(H[k], s + 1, u) = SubSeq(c, Begin(o, off) + 1, End(e, off + len))
          /\ Begin(o, off) \in Nat /\ End(e, off + len) \in Nat
          /\ Begin(o, off) <= End(e, off + len) /\ End(e, off + len) <= Len(c)
      <4>1. StartsAt(s, o, off) /\ EndsAt(u, e, off, len)
        BY DEF StartsAt, EndsAt
      <4> DEFINE h == H[k]
      <4> HIDE DEF k, off, len, s, u, h
      <4>2. /\ off \in Nat /\ len \in Nat /\ h \in Seq(Byte) /\ Reads(c, off, len, h)
            /\ off < e /\ off + len > o /\ c \in Seq(Byte)
        BY <1>1, <3>2 DEF h
      <4>3. o \in Nat /\ e \in Nat /\ o <= e
        BY <1>3
      <4>4. /\ SubSeq(h, s + 1, u) = SubSeq(c, Begin(o, off) + 1, End(e, off + len))
            /\ Begin(o, off) \in Nat /\ End(e, off + len) \in Nat
            /\ Begin(o, off) <= End(e, off + len) /\ End(e, off + len) <= Len(c)
        BY <4>1, <4>2, <4>3, PartOfChunk
      <4> QED
        BY <4>4 DEF h
    <3>5. end[j] = End(e, off + len)
      <4>1. j \in 0..p /\ j # 0
        BY <2>5
      <4>2. end[j] = End(e, b(k))
        BY <4>1
      <4> HIDE DEF off, len, end
      <4> QED
        BY <3>2, <4>2
    <3>6. end[j - 1] = Begin(o, off)
      <4>1. CASE j = 1
        <5>1. end[j - 1] = o /\ k = a
          <6>1. 0 \in 0..p /\ j - 1 = 0 /\ a + j - 1 = a
            BY <2>5, <2>a, <4>1
          <6> QED
            BY <6>1
        <5>2. off <= o
          <6>1. CASE a = 1
            BY <1>6, <2>2, <5>1, <6>1
          <6>2. CASE a # 1
            <7>1. a - 1 \in 1..n /\ a - 1 \in 0..n /\ (a - 1) - 1 \in 0..n /\ (a - 1) - 1 <= a - 1
                  /\ ~(a <= a - 1)
              BY <1>a, <2>2, <2>a, <6>2
            <7>2. a - 1 \notin P
              BY <2>1, <7>1
            <7>3. b((a - 1) - 1) <= b(a - 1) /\ b(a - 1) < e /\ b((a - 1) - 1) \in Nat
                  /\ b(a - 1) \in Nat
              BY <1>6, <1>7, <3>2, <5>1, <7>1
            <7> DEFINE x == b((a - 1) - 1)
                       y == b(a - 1)
            <7> HIDE DEF x, y
            <7>4. x < e /\ y \in Nat
              <8>1. x \in Nat /\ y \in Nat /\ x <= y /\ y < e
                BY <7>3 DEF x, y
              <8> QED
                BY <1>3, <8>1
            <7>5. ~(y > o)
              BY <1>8, <7>1, <7>2, <7>4 DEF x, y
            <7>6. y <= o
              BY <7>4, <7>5
            <7> QED
              BY <5>1, <7>6 DEF y
          <6> QED
            BY <6>1, <6>2
        <5> HIDE DEF off, end
        <5> QED
          BY <3>2, <5>1, <5>2 DEF Begin
      <4>2. CASE j # 1
        <5>1. j - 1 \in 1..p /\ j - 1 \in 0..p /\ j - 1 # 0 /\ a + (j - 1) - 1 = k - 1
          BY <2>2, <2>5, <4>2
        <5>2. k - 1 \in P
          BY <2>6, <5>1
        <5>3. off > o
          BY <1>8, <5>2
        <5>4. end[j - 1] = End(e, off)
          BY <5>1
        <5> HIDE DEF off, end
        <5> QED
          BY <1>3, <3>2, <5>3, <5>4 DEF Begin, End
      <4> QED
        BY <4>1, <4>2
    <3> HIDE DEF off, len, end, k, s, u
    <3> QED
      BY <3>3, <3>4, <3>5, <3>6
  <2>11. end[p] = e
    <3>1. p \in 0..p /\ p # 0 /\ a + p - 1 = z
      BY <2>2, <2>5 DEF p
    <3>2. end[p] = End(e, b(z))
      BY <3>1
    <3> DEFINE y == b(z)
    <3>3. y \in Nat
      BY <1>6, <2>2
    <3>4. ASSUME y < e PROVE FALSE
      <4>1. z # n
        BY <1>2, <1>3, <3>4
      <4>2. z + 1 \in 1..n /\ z + 1 \in 0..n /\ z \in 0..n /\ (z + 1) - 1 = z /\ z <= z + 1
            /\ a \in 0..n /\ a <= z + 1 /\ ~(z + 1 <= z)
        BY <1>1, <2>2, <4>1
      <4>3. b(a) <= b(z + 1) /\ b(a) \in Nat /\ b(z + 1) \in Nat
        BY <1>6, <1>7, <4>2
      <4>4. b(z + 1) > o
        <5> DEFINE x1 == b(a)
                   x2 == b(z + 1)
        <5> HIDE DEF x1, x2
        <5>1. x1 \in Nat /\ x2 \in Nat /\ x1 <= x2 /\ x1 > o
          BY <2>2, <4>3 DEF x1, x2
        <5>2. x2 > o
          BY <5>1
        <5> QED
          BY <5>2 DEF x2
      <4>5. z + 1 \in P
        BY <1>8, <3>4, <4>2, <4>4
      <4> QED
        BY <2>1, <4>2, <4>5
    <3> HIDE DEF y, end
    <3>5. End(e, y) = e
      BY <1>3, <3>3, <3>4 DEF End
    <3> QED
      BY <3>2, <3>5 DEF y
  <2>12. Listed(parts, p) /\ Len(parts) = p
    <3>1. DOMAIN q = 1..p
      BY <2>7, <2>9
    <3>2. DOMAIN parts = DOMAIN q /\ parts = [k \in DOMAIN parts |-> parts[k]]
      OBVIOUS
    <3>3. Len(parts) = p
      BY <2>5, <3>1, <3>2
    <3> QED
      BY <3>1, <3>2, <3>3 DEF Listed
  <2>13. end[0] = o
    BY <2>5
  <2> HIDE DEF end
  <2>14. GoesOn(parts, c, o, end)
    BY <2>10, <2>12, <2>13 DEF GoesOn
  <2>15. o <= Len(c)
    BY <1>2, <1>3
  <2>16. FlattenSeq(parts) = SubSeq(c, o + 1, end[p])
    <3>1. c \in Seq(Byte) /\ p \in Nat /\ o \in Nat
      BY <1>1, <2>5
    <3> HIDE DEF p, IsNeeded, ArePartsOf, Listed, GoesOn
    <3> QED
      BY <2>12, <2>14, <2>15, <3>1, PartsJoined
  <2> QED
    BY <2>11, <2>16
<1> QED
  BY <1>11, <1>12

LEMMA SeekIs ==
  ASSUME NEW M, NEW c, WellCut(M, c), NEW o \in Nat, NEW l \in Nat, o + l < U64
  PROVE  /\ o + l > Len(c) => get_seek_chunks(M, o, l) = OutOfBounds
         /\ ~(o + l > Len(c)) => Joined(get_seek_chunks(M, o, l)) = SubSeq(c, o + 1, o + l)
<1> DEFINE q == Ascending(NeededPlaces(M, o, o + l))
           parts == [k \in DOMAIN q |-> SeekPart(M[q[k]], o, o + l)]
           given == [k \in DOMAIN q |->
                       [hash |-> M[q[k]].hash,
                        start |-> IF o > M[q[k]].offset THEN o - M[q[k]].offset ELSE 0,
                        end |-> IF (o + l) - M[q[k]].offset < M[q[k]].length
                                THEN (o + l) - M[q[k]].offset ELSE M[q[k]].length]]
<1>1. Len(c) \in Nat /\ o + l \in Nat
  BY PlacesAre
<1>2. IsNeeded(q, M, o, o + l) /\ ArePartsOf(parts, q, M, o, o + l)
  BY DEF IsNeeded, ArePartsOf
<1>3. Joined(given) = FlattenSeq(parts)
  <2>1. [k \in DOMAIN given |-> SubSeq(given[k].hash, given[k].start + 1, given[k].end)] = parts
    <3> HIDE DEF q
    <3> QED
      BY DEF SeekPart
  <2> HIDE DEF given, parts
  <2> QED
    BY <2>1 DEF Joined
<1>4. o + l <= Len(c) => get_seek_chunks(M, o, l) = given
  <2> HIDE DEF q
  <2> QED
    BY <1>2, SeekAnswer
<1>5. o + l > Len(c) => get_seek_chunks(M, o, l) = OutOfBounds
  <2> HIDE DEF q
  <2> QED
    BY <1>2, SeekAnswer
<1> HIDE DEF q, parts, given
<1>6. ASSUME o + l <= Len(c) PROVE FlattenSeq(parts) = SubSeq(c, o + 1, o + l)
  <2> DEFINE e == o + l
  <2>1. IsNeeded(q, M, o, e) /\ ArePartsOf(parts, q, M, o, e) /\ e \in Nat /\ o <= e /\ e <= Len(c)
    BY <1>1, <1>2, <1>6
  <2> HIDE DEF e
  <2>2. FlattenSeq(parts) = SubSeq(c, o + 1, e)
    BY <2>1, SeekGives
  <2> QED
    BY <2>2 DEF e
<1>7. ~(o + l > Len(c)) => o + l <= Len(c)
  BY <1>1
<1> QED
  BY <1>3, <1>4, <1>5, <1>6, <1>7

(* The files an archive was made of, by the places of their manifests. *)
LEMMA FilesAre ==
  ASSUME input \in Inputs, window \in Cuttable, FilesKnown, ser = SerOf(file_manifest)
  PROVE  /\ Len(ser.toc) = Cardinality(Names) /\ Cardinality(Names) \in Nat
         /\ DOMAIN ser.toc = 1..Cardinality(Names) /\ DOMAIN ser.manifests = DOMAIN ser.toc
         /\ Len(ser.manifests) = Len(ser.toc)
         /\ \A i \in DOMAIN ser.toc :
              \E f \in DOMAIN input :
                /\ ser.toc[i].filename = input[f].name
                /\ ser.toc[i].uncompressed_size = Len(input[f].content)
                /\ WellCut(ser.manifests[i], input[f].content)
<1>1. PICK m \in OneOfEach : file_manifest = ManifestsOf(m)
  BY DEF FilesKnown
<1>2. ser.toc = archive_toc(ManifestsOf(m)) /\ ser.manifests = ser_file_manifest(ManifestsOf(m))
  BY <1>1 DEF SerOf
<1> DEFINE Ms == ser.manifests
           toc == ser.toc
<1> HIDE DEF Ms, toc
<1>3. /\ Len(toc) = Cardinality(Names) /\ Cardinality(Names) \in Nat
      /\ DOMAIN toc = 1..Cardinality(Names) /\ DOMAIN Ms = DOMAIN toc /\ Len(Ms) = Len(toc)
      /\ \A i \in DOMAIN toc :
           LET f == m[toc[i].filename]
           IN /\ f \in DOMAIN input /\ input[f].name = toc[i].filename
              /\ toc[i].uncompressed_size = Len(input[f].content)
              /\ WellCut(Ms[i], input[f].content)
  BY <1>2, TocIs DEF Ms, toc
<1> QED
  BY <1>3 DEF Ms, toc

(* A random access to any range of a file gets the chunks and the parts of  *)
(* them that make up the range, or is refused (get_seek_chunks).            *)
THEOREM SeekIsRange == ArchiveSpec => []SeekGivesRange
<1>1. ASSUME ArchiveInv, pc = "verify", NEW i \in DOMAIN ser.manifests,
             NEW offset \in 0..(U64 - 1), NEW length \in 0..(U64 - 1), offset + length < U64
      PROVE  LET content == FlattenSeq(Hashes(ser.manifests[i]))
                 answer == get_seek_chunks(ser.manifests[i], offset, length)
             IN IF offset + length > Len(content) THEN answer = OutOfBounds
                ELSE Joined(answer) = SubSeq(content, offset + 1, offset + length)
  <2>1. input \in Inputs /\ window \in Cuttable /\ FilesKnown /\ ser = SerOf(file_manifest)
    BY <1>1 DEF ArchiveInv, DataInv
  <2>2. \E f \in DOMAIN input : WellCut(ser.manifests[i], input[f].content)
    BY <1>1, <2>1, FilesAre
  <2> DEFINE M == ser.manifests[i]
             c == FlattenSeq(Hashes(M))
             answer == get_seek_chunks(M, offset, length)
  <2>3. WellCut(M, c)
    BY <2>2 DEF WellCut
  <2>4. offset \in Nat /\ length \in Nat
    OBVIOUS
  <2> HIDE DEF M, c
  <2>5. /\ offset + length > Len(c) => answer = OutOfBounds
        /\ ~(offset + length > Len(c)) => Joined(answer) = SubSeq(c, offset + 1, offset + length)
    BY <1>1, <2>3, <2>4, SeekIs
  <2> HIDE DEF answer
  <2>6. IF offset + length > Len(c) THEN answer = OutOfBounds
        ELSE Joined(answer) = SubSeq(c, offset + 1, offset + length)
    BY <2>5
  <2> QED
    BY <2>6 DEF M, c, answer
<1>2. ArchiveInv => SeekGivesRange
  BY <1>1 DEF SeekGivesRange, Joined
<1> QED
  BY <1>2, ArchiveInvHolds, PTL

-----------------------------------------------------------------------------
(* The sections of a file. *)

LEMMA SectionIs ==
  ASSUME NEW part \in Part
  PROVE  <<part, << >>>> \in Section
<1>1. << >> \in Seq(Byte)
  OBVIOUS
<1> QED
  BY <1>1 DEF Section

LEMMA CellsAre ==
  ASSUME NEW x \in Section, NEW l \in Nat
  PROVE  /\ Cells(x, l) \in Seq(Cell) /\ Len(Cells(x, l)) = l
         /\ l # 0 => Decode(Cells(x, l)) = x
<1> DEFINE c == Cells(x, l)
<1>1. c = [k \in 1..l |-> <<x, k, l>>]
  BY DEF Cells
<1>2. \A k \in 1..l : <<x, k, l>> \in Cell
  BY DEF Cell
<1>3. c \in Seq(Cell) /\ Len(c) = l
  <2>1. c \in [1..l -> Cell]
    BY <1>1, <1>2
  <2> QED
    BY <1>1, <2>1
<1>4. ASSUME l # 0 PROVE c[1][1] = x /\ c # << >>
  <2>1. 1 \in 1..l
    BY <1>4
  <2>2. c[1] = <<x, 1, l>>
    BY <1>1, <2>1
  <2> QED
    BY <1>3, <1>4, <2>2
<1>5. c = Cells(x, Len(c))
  BY <1>3
<1> HIDE DEF c
<1>6. l # 0 => Decode(c) = x
  BY <1>4, <1>5 DEF Decode
<1> QED
  BY <1>3, <1>6 DEF c

LEMMA ReadIs ==
  ASSUME NEW f \in Seq(Cell), NEW o, NEW l, NEW v, Reads(f, o, l, v)
  PROVE  read_file_data(f, o, l) = v
<1>1. o + l <= Len(f) /\ SubSeq(f, o + 1, o + l) = v
  BY DEF Reads
<1>2. o \in Nat /\ l \in Nat /\ Len(f) \in Nat /\ ~(o + l > Len(f))
  BY <1>1 DEF Reads
<1> QED
  BY <1>1, <1>2 DEF read_file_data

LEMMA ReadDecodes ==
  ASSUME NEW f \in Seq(Cell), NEW x \in Section, NEW o, NEW l \in Nat \ {0},
         Reads(f, o, l, Cells(x, l))
  PROVE  Decode(read_file_data(f, o, l)) = x
BY ReadIs, CellsAre

(* What is read from behind others. *)
LEMMA ReadsJoined ==
  ASSUME NEW S, NEW a \in Seq(S), NEW b \in Seq(S), NEW c \in Seq(S), NEW d \in Seq(S),
         NEW e \in Seq(S), NEW f, f = a \o b \o c \o d \o e
  PROVE  /\ f \in Seq(S)
         /\ Reads(f, 0, Len(a), a) /\ Reads(f, Len(a), Len(b), b)
         /\ Reads(f, Len(a) + Len(b), Len(c), c)
         /\ \A o, l, v : Reads(d, o, l, v) => Reads(f, Len(a) + Len(b) + Len(c) + o, l, v)
         /\ \A o, l, v : Reads(e, o, l, v)
              => Reads(f, Len(a) + Len(b) + Len(c) + Len(d) + o, l, v)
<1> DEFINE ab == a \o b
           abc == ab \o c
           abcd == abc \o d
<1>1. ab \in Seq(S) /\ Len(ab) = Len(a) + Len(b)
  BY JoinedTwo
<1> HIDE DEF ab
<1>2. abc \in Seq(S) /\ Len(abc) = Len(ab) + Len(c)
  BY <1>1, JoinedTwo
<1> HIDE DEF abc
<1>3. abcd \in Seq(S) /\ Len(abcd) = Len(abc) + Len(d)
  BY <1>2, JoinedTwo
<1> HIDE DEF abcd
<1>4. f = abcd \o e
  BY DEF ab, abc, abcd
<1>5. f \in Seq(S)
  BY <1>3, <1>4, JoinedTwo
<1>6. /\ Len(a) \in Nat /\ Len(b) \in Nat /\ Len(c) \in Nat /\ Len(d) \in Nat
      /\ Len(a) + 0 = Len(a) /\ (Len(a) + Len(b)) + 0 = Len(a) + Len(b)
  OBVIOUS
<1>7. \A o, l, v : Reads(ab, o, l, v) => Reads(f, o, l, v)
  <2> SUFFICES ASSUME NEW o, NEW l, NEW v, Reads(ab, o, l, v) PROVE Reads(f, o, l, v)
    OBVIOUS
  <2>1. Reads(abc, o, l, v)
    BY <1>1, ReadsFront DEF abc
  <2>2. Reads(abcd, o, l, v)
    BY <1>2, <2>1, ReadsFront DEF abcd
  <2> QED
    BY <1>3, <1>4, <2>2, ReadsFront
<1>8. Reads(f, 0, Len(a), a)
  <2>1. Reads(a, 0, Len(a), a)
    BY ReadsAll
  <2>2. Reads(ab, 0, Len(a), a)
    BY <2>1, ReadsFront DEF ab
  <2> QED
    BY <1>7, <2>2
<1>9. Reads(f, Len(a), Len(b), b)
  <2>1. Reads(b, 0, Len(b), b)
    BY ReadsAll
  <2>2. Reads(ab, Len(a) + 0, Len(b), b)
    BY <2>1, ReadsBehind DEF ab
  <2> QED
    BY <1>6, <1>7, <2>2
<1>10. Reads(f, Len(a) + Len(b), Len(c), c)
  <2>1. Reads(c, 0, Len(c), c)
    BY ReadsAll
  <2>2. Reads(abc, Len(ab) + 0, Len(c), c)
    BY <1>1, <2>1, ReadsBehind DEF abc
  <2>3. Reads(abc, Len(a) + Len(b), Len(c), c)
    BY <1>1, <1>6, <2>2
  <2>4. Reads(abcd, Len(a) + Len(b), Len(c), c)
    BY <1>2, <2>3, ReadsFront DEF abcd
  <2> QED
    BY <1>3, <1>4, <2>4, ReadsFront
<1>11. ASSUME NEW o, NEW l, NEW v, Reads(d, o, l, v)
       PROVE  Reads(f, Len(a) + Len(b) + Len(c) + o, l, v)
  <2>1. Reads(abcd, Len(abc) + o, l, v)
    BY <1>2, <1>11, ReadsBehind DEF abcd
  <2>2. Reads(f, Len(abc) + o, l, v)
    BY <1>3, <1>4, <2>1, ReadsFront
  <2> QED
    BY <1>1, <1>2, <2>2
<1>12. ASSUME NEW o, NEW l, NEW v, Reads(e, o, l, v)
       PROVE  Reads(f, Len(a) + Len(b) + Len(c) + Len(d) + o, l, v)
  <2>1. Reads(f, Len(abcd) + o, l, v)
    BY <1>3, <1>4, <1>12, ReadsBehind
  <2> QED
    BY <1>1, <1>2, <1>3, <2>1
<1> QED
  BY <1>5, <1>8, <1>9, <1>10, <1>11, <1>12

LEMMA RegionsAre ==
  ASSUME NEW parts, NEW length, Lengthened(parts, length)
  PROVE  LET d == FlattenSeq(Regions(parts, length))
         IN /\ d \in Seq(Cell) /\ Len(d) = LengthBefore(parts, Len(parts) + 1, length)
            /\ \A n \in 1..Len(parts) :
                 /\ Reads(d, LengthBefore(parts, n, length), length[parts[n]],
                          Cells(<<parts[n], << >>>>, length[parts[n]]))
                 /\ LengthBefore(parts, n + 1, length)
                      = LengthBefore(parts, n, length) + length[parts[n]]
            /\ LengthBefore(parts, 1, length) = 0
            /\ \A n \in 1..(Len(parts) + 1) : LengthBefore(parts, n, length) \in Nat
<1> DEFINE rs == Regions(parts, length)
           N == Len(parts)
           lens == Lengths_(rs)
           d == FlattenSeq(rs)
           len(n) == length[parts[n]]
<1>1. N \in Nat /\ DOMAIN parts = 1..N /\ \A n \in 1..N : parts[n] \in Part /\ len(n) \in Nat
  BY DEF Lengthened
<1>2. ASSUME NEW n \in 1..N
      PROVE  rs[n] = Cells(<<parts[n], << >>>>, len(n)) /\ rs[n] \in Seq(Cell) /\ Len(rs[n]) = len(n)
  <2>1. <<parts[n], << >>>> \in Section
    BY <1>1, SectionIs
  <2>2. rs[n] = Cells(<<parts[n], << >>>>, len(n))
    BY <1>1 DEF Regions
  <2> QED
    BY <1>1, <2>1, <2>2, CellsAre
<1>3. rs \in Seq(Seq(Cell)) /\ Len(rs) = N
  <2>1. DOMAIN rs = 1..N /\ rs = [n \in DOMAIN rs |-> rs[n]]
    BY <1>1 DEF Regions
  <2> HIDE DEF rs
  <2> QED
    BY <1>1, <1>2, <2>1, SeqFrom
<1> HIDE DEF rs, N
<1>4. /\ lens \in Seq(Nat) /\ Len(lens) = N /\ \A n \in 1..N : lens[n] = len(n)
  <2>1. /\ lens \in Seq(Nat) /\ Len(lens) = Len(rs)
        /\ \A m \in 1..Len(rs) : lens[m] = Len(rs[m])
    BY <1>3, LengthsAre
  <2> HIDE DEF lens
  <2> QED
    BY <1>2, <1>3, <2>1
<1> HIDE DEF lens
<1>5. ASSUME NEW n \in 1..(N + 1) PROVE LengthBefore(parts, n, length) = UpTo(lens, n - 1)
  <2>1. \A m \in 1..(n - 1) : m \in 1..N
    BY <1>1
  <2>2. [m \in 1..(n - 1) |-> len(m)] = [m \in 1..(n - 1) |-> lens[m]]
    BY <1>4, <2>1
  <2> QED
    BY <2>2 DEF LengthBefore, UpTo
<1>6. /\ UpTo(lens, 0) = 0 /\ \A k \in 0..N : UpTo(lens, k) \in Nat
      /\ \A k \in 1..N : UpTo(lens, k) = UpTo(lens, k - 1) + lens[k]
  BY <1>4, UpToSums
<1>7. d \in Seq(Cell) /\ Len(d) = UpTo(lens, N)
  BY <1>3, FlattenInPlace DEF InPlace, lens
<1>8. ASSUME NEW n \in 1..N PROVE Reads(d, UpTo(lens, n - 1), Len(rs[n]), rs[n])
  BY <1>3, ReadsPart DEF lens
<1>9. /\ \A n \in 1..N : /\ n \in 1..(N + 1) /\ n + 1 \in 1..(N + 1) /\ (n + 1) - 1 = n
                         /\ n - 1 \in 0..N
      /\ N + 1 \in 1..(N + 1) /\ (N + 1) - 1 = N /\ 1 \in 1..(N + 1) /\ 1 - 1 = 0
      /\ \A n \in 1..(N + 1) : n - 1 \in 0..N
  BY <1>1
<1> HIDE DEF d
<1>10. Len(d) = LengthBefore(parts, N + 1, length) /\ LengthBefore(parts, 1, length) = 0
  BY <1>5, <1>6, <1>7, <1>9
<1>11. ASSUME NEW n \in 1..N
       PROVE  /\ Reads(d, LengthBefore(parts, n, length), len(n), Cells(<<parts[n], << >>>>, len(n)))
              /\ LengthBefore(parts, n + 1, length) = LengthBefore(parts, n, length) + len(n)
  <2>1. /\ LengthBefore(parts, n, length) = UpTo(lens, n - 1)
        /\ LengthBefore(parts, n + 1, length) = UpTo(lens, n)
    BY <1>5, <1>9
  <2>2. UpTo(lens, n) = UpTo(lens, n - 1) + len(n)
    BY <1>4, <1>6
  <2>3. Reads(d, UpTo(lens, n - 1), len(n), Cells(<<parts[n], << >>>>, len(n)))
    BY <1>2, <1>8
  <2> QED
    BY <2>1, <2>2, <2>3
<1>12. \A n \in 1..(N + 1) : LengthBefore(parts, n, length) \in Nat
  BY <1>5, <1>6, <1>9
<1> QED
  BY <1>7, <1>10, <1>11, <1>12 DEF d, N, rs

(* Where the regions of an archive are said to be. *)
LEMMA PartsAre ==
  /\ Parts(SSMC) = MetadataParts(SSMC)
  /\ MetadataParts(SSMC) = << "manifest", "dictionary", "chunk_index" >>
  /\ Parts(SSMD) = Append(MetadataParts(SSMD), "audio")
  /\ MetadataParts(SSMC) \in Seq(Part) /\ Len(MetadataParts(SSMC)) = 3
  /\ MetadataParts(SSMD) \in Seq(Part) /\ Len(MetadataParts(SSMD)) = 7
<1>1. SSMC # SSMD
  BY DEF SSMC, SSMD
<1>2. /\ << "manifest", "dictionary", "chunk_index" >> \in Seq(Part)
      /\ << "manifest", "dictionary", "chunk_index", "audio_index", "excep_index", "subheaders",
            "exceptions" >> \in Seq(Part)
  BY DEF Part
<1>3. MetadataParts(SSMC) = << "manifest", "dictionary", "chunk_index" >>
  BY DEF MetadataParts
<1>4. Len(MetadataParts(SSMC)) = 3
  BY <1>3
<1>5. Len(MetadataParts(SSMD)) = 7
  BY <1>1 DEF MetadataParts
<1>6. MetadataParts(SSMC) \in Seq(Part) /\ MetadataParts(SSMD) \in Seq(Part)
  BY <1>2 DEF MetadataParts
<1>7. Parts(SSMC) = MetadataParts(SSMC) /\ Parts(SSMD) = Append(MetadataParts(SSMD), "audio")
  BY <1>1 DEF Parts
<1> QED
  BY <1>3, <1>4, <1>5, <1>6, <1>7

LEMMA WrittenIs ==
  ASSUME NEW format \in {SSMC, SSMD}, NEW length, NEW toc_length \in Nat \ {0}, NEW file_count,
         NEW data \in Seq(Cell), Lengthened(MetadataParts(format), length),
         Wrote(format, length, toc_length, file_count, data)
  PROVE  /\ file \in Seq(Cell) /\ HeadReadable(file, header) /\ MetadataAt(format, toc_length) \in Nat
         /\ Encoded(format, length) \in Seq(Cell)
         /\ \A o, l, v : Reads(Encoded(format, length), o, l, v)
                           => Reads(file, MetadataAt(format, toc_length) + o, l, v)
         /\ \A o, l, v : Reads(data, o, l, v)
              => Reads(file, MetadataAt(format, toc_length) + Len(Encoded(format, length)) + o, l, v)
<1> DEFINE a == Cells(<<"header", << >>>>, HEADER_SIZE)
           b == Cells(<<"toc", << >>>>, toc_length)
           c == Cells(<<"format", << >>>>, FORMAT_SIZE(format))
           d == Encoded(format, length)
           h == HEADER_SIZE
           F == FORMAT_SIZE(format)
<1>1. h \in Nat \ {0} /\ F \in Nat \ {0} /\ SUPPORTED_VERSION \in Nat
  BY ArchiveFileAssumption
<1>2. /\ <<"header", << >>>> \in Section /\ <<"toc", << >>>> \in Section
      /\ <<"format", << >>>> \in Section
  BY SectionIs DEF Part
<1>3. /\ a \in Seq(Cell) /\ b \in Seq(Cell) /\ c \in Seq(Cell)
      /\ Len(a) = h /\ Len(b) = toc_length /\ Len(c) = F
  <2> HIDE DEF h, F
  <2> QED
    BY <1>1, <1>2, CellsAre DEF h, F
<1>4. d \in Seq(Cell)
  BY RegionsAre DEF Encoded
<1>5. file = a \o b \o c \o d \o data
  BY DEF Wrote, final_data, Encoded, Regions
<1> HIDE DEF a, b, c, d
<1>6. /\ file \in Seq(Cell)
      /\ Reads(file, 0, Len(a), a) /\ Reads(file, Len(a), Len(b), b)
      /\ Reads(file, Len(a) + Len(b), Len(c), c)
      /\ \A o, l, v : Reads(d, o, l, v) => Reads(file, Len(a) + Len(b) + Len(c) + o, l, v)
      /\ \A o, l, v : Reads(data, o, l, v)
           => Reads(file, Len(a) + Len(b) + Len(c) + Len(d) + o, l, v)
  BY <1>3, <1>4, <1>5, ReadsJoined
<1> HIDE DEF h, F
<1>7. /\ Decode(read_file_data(file, 0, h)) = <<"header", << >>>>
      /\ Decode(read_file_data(file, h, toc_length)) = <<"toc", << >>>>
      /\ Decode(read_file_data(file, h + toc_length, F)) = <<"format", << >>>>
  <2>1. /\ Reads(file, 0, h, Cells(<<"header", << >>>>, h))
        /\ Reads(file, h, toc_length, Cells(<<"toc", << >>>>, toc_length))
        /\ Reads(file, h + toc_length, F, Cells(<<"format", << >>>>, F))
    BY <1>3, <1>6 DEF a, b, c, h, F
  <2> QED
    BY <1>1, <1>2, <1>6, <2>1, ReadDecodes
<1>8. /\ header.version = SUPPORTED_VERSION /\ header.format_id = format
      /\ header.enc_toc_offset = h /\ header.enc_toc_length = toc_length
      /\ header.format_data_offset = h + toc_length
  BY DEF Wrote, build_file_header, h
<1>9. HeadReadable(file, header)
  <2>1. header.version <= SUPPORTED_VERSION
    BY <1>1, <1>8
  <2>2. FORMAT_SIZE(header.format_id) = F
    BY <1>8 DEF F
  <2> QED
    BY <1>7, <1>8, <2>1, <2>2 DEF HeadReadable, parse_file_header, h
<1>10. MetadataAt(format, toc_length) = Len(a) + Len(b) + Len(c) /\ MetadataAt(format, toc_length) \in Nat
  BY <1>1, <1>3 DEF MetadataAt, h, F
<1> QED
  BY <1>4, <1>6, <1>9, <1>10 DEF d

(* The regions of the metadata are where the format's data say. *)
LEMMA RegionIs ==
  ASSUME NEW format \in {SSMC, SSMD}, NEW length, NEW toc_length \in Nat \ {0}, NEW file_count,
         NEW data \in Seq(Cell), Lengthened(MetadataParts(format), length),
         Wrote(format, length, toc_length, file_count, data),
         NEW n \in 1..Len(MetadataParts(format))
  PROVE  LET part == MetadataParts(format)[n]
             at == LengthBefore(MetadataParts(format), n, length)
         IN /\ n \in DOMAIN format_data.region /\ Parts(format)[n] = part /\ at \in Nat
            /\ format_data.region[n] = [offset |-> MetadataAt(format, toc_length) + at,
                                        length |-> length[part]]
            /\ Reads(file, format_data.region[n].offset, length[part],
                     Cells(<<part, << >>>>, length[part]))
            /\ length[part] > 0 =>
                 Decode(read_file_data(file, format_data.region[n].offset, length[part]))
                   = <<part, << >>>>
<1> DEFINE parts == Parts(format)
           meta == MetadataParts(format)
           part == meta[n]
           at == LengthBefore(meta, n, length)
           l == length[part]
<1>1. /\ meta \in Seq(Part) /\ n \in DOMAIN parts /\ parts[n] = part
      /\ LengthBefore(parts, n, length) = at
  <2>1. meta \in Seq(Part) /\ (parts = meta \/ parts = Append(meta, "audio"))
    BY PartsAre
  <2>2. CASE parts = meta
    BY <2>1, <2>2
  <2>3. CASE parts = Append(meta, "audio")
    <3> HIDE DEF meta, parts
    <3>1. /\ DOMAIN parts = 1..(Len(meta) + 1) /\ Len(meta) \in Nat
          /\ \A m \in 1..Len(meta) : parts[m] = meta[m]
      BY <2>1, <2>3, AppendProperties
    <3>2. n \in 1..Len(meta)
      BY DEF meta
    <3>3. \A m \in 1..(n - 1) : m \in 1..Len(meta)
      BY <3>1, <3>2
    <3>4. [m \in 1..(n - 1) |-> length[parts[m]]] = [m \in 1..(n - 1) |-> length[meta[m]]]
      BY <3>1, <3>3
    <3>5. LengthBefore(parts, n, length) = LengthBefore(meta, n, length)
      BY <3>4 DEF LengthBefore
    <3> QED
      BY <2>1, <3>1, <3>2, <3>5
  <2> QED
    BY <2>1, <2>2, <2>3
<1>2. format_data.region = [m \in DOMAIN parts |->
                              [offset |-> HEADER_SIZE + toc_length + FORMAT_SIZE(format)
                                            + LengthBefore(parts, m, length),
                               length |-> length[parts[m]]]]
  BY DEF Wrote, build_format_data
<1>3. format_data.region[n] = [offset |-> MetadataAt(format, toc_length) + at, length |-> l]
  <2> HIDE DEF parts, meta
  <2> QED
    BY <1>1, <1>2 DEF MetadataAt
<1>4. /\ Reads(Encoded(format, length), at, l, Cells(<<part, << >>>>, l)) /\ at \in Nat /\ l \in Nat
  <2>1. /\ Reads(Encoded(format, length), at, l, Cells(<<part, << >>>>, l))
        /\ \A m \in 1..(Len(meta) + 1) : LengthBefore(meta, m, length) \in Nat
    <3> HIDE DEF meta
    <3>1. n \in 1..Len(meta) /\ Lengthened(meta, length)
      BY DEF meta
    <3> QED
      BY <3>1, RegionsAre DEF Encoded, meta
  <2>2. n \in 1..(Len(meta) + 1) /\ l \in Nat
    BY <1>1 DEF Lengthened
  <2> QED
    BY <2>1, <2>2
<1>5. file \in Seq(Cell) /\ Reads(file, MetadataAt(format, toc_length) + at, l, Cells(<<part, << >>>>, l))
  <2> HIDE DEF part, at, l
  <2> QED
    BY <1>4, WrittenIs
<1>6. ASSUME l > 0
      PROVE  Decode(read_file_data(file, MetadataAt(format, toc_length) + at, l)) = <<part, << >>>>
  <2>1. <<part, << >>>> \in Section
    <3>1. part \in Part
      BY <1>1
    <3> HIDE DEF part
    <3> QED
      BY <3>1, SectionIs
  <2>2. l \in Nat \ {0}
    BY <1>4, <1>6
  <2> HIDE DEF part, at, l
  <2> QED
    BY <1>5, <2>1, <2>2, ReadDecodes
<1>7. n \in DOMAIN format_data.region
  BY <1>1, <1>2
<1> HIDE DEF parts, meta, part, at, l
<1>8. format_data.region[n].offset = MetadataAt(format, toc_length) + at
  BY <1>3
<1>9. /\ n \in DOMAIN format_data.region /\ parts[n] = part /\ at \in Nat
      /\ format_data.region[n] = [offset |-> MetadataAt(format, toc_length) + at, length |-> l]
      /\ Reads(file, format_data.region[n].offset, l, Cells(<<part, << >>>>, l))
      /\ l > 0 => Decode(read_file_data(file, format_data.region[n].offset, l)) = <<part, << >>>>
  BY <1>1, <1>3, <1>4, <1>5, <1>6, <1>7, <1>8
<1> QED
  BY <1>9 DEF parts, meta, part, at, l

LEMMA OneLonger ==
  ASSUME NEW S, NEW s \in Seq(S), NEW x \in S
  PROVE  /\ Len(Append(s, x)) = Len(s) + 1 /\ DOMAIN Append(s, x) = 1..(Len(s) + 1)
         /\ \A n \in 1..Len(s) : Append(s, x)[n] = s[n]
         /\ Append(s, x)[Len(s) + 1] = x
BY AppendProperties

LEMMA DiscsReadBack ==
  ASSUME input \in Sections, WroteDiscs
  PROVE  HeadReadable(file, header) /\ SectionsReadable(file, header, format_data)
<1> DEFINE parts == Parts(SSMD)
           meta == MetadataParts(SSMD)
           audio == input["audio"]
           toc_length == input["toc"]
           chunks == input["data"]
           blocks == Cells(<<"audio", << >>>>, audio)
           data == blocks \o Cells(<<"chunk", << >>>>, chunks)
           at == MetadataAt(SSMD, toc_length)
<1>1. /\ parts = Append(meta, "audio") /\ meta \in Seq(Part) /\ Len(meta) = 7
      /\ Len(parts) = 8 /\ DOMAIN parts = 1..8 /\ parts[8] = "audio"
      /\ \A n \in 1..7 : parts[n] = meta[n]
  <2>1. parts = Append(meta, "audio") /\ meta \in Seq(Part) /\ Len(meta) = 7
    BY PartsAre
  <2> DEFINE x == "audio"
  <2> HIDE DEF parts, meta
  <2>2. x \in Part /\ Len(meta) + 1 = 8 /\ parts = Append(meta, x) /\ meta \in Seq(Part)
    BY <2>1 DEF Part
  <2> HIDE DEF x
  <2>3. /\ Len(parts) = Len(meta) + 1 /\ DOMAIN parts = 1..(Len(meta) + 1)
        /\ \A n \in 1..Len(meta) : parts[n] = meta[n]
        /\ parts[Len(meta) + 1] = x
    BY <2>2, OneLonger
  <2> QED
    BY <2>1, <2>2, <2>3 DEF x
<1>2. \A p \in ToSet(parts) \cup {"toc", "data"} : input[p] \in Nat
  <2>1. input \in [ToSet(parts) \cup {"toc", "data"} -> Lengths]
    BY DEF Sections
  <2>2. Lengths \subseteq Nat
    BY ArchiveRunAssumption
  <2> HIDE DEF parts
  <2> QED
    BY <2>1, <2>2
<1> HIDE DEF parts, meta
<1>3. \A n \in 1..8 : parts[n] \in ToSet(parts)
  BY <1>1 DEF ToSet
<1>4. audio \in Nat /\ toc_length \in Nat \ {0} /\ chunks \in Nat
  <2>1. 8 \in 1..8
    OBVIOUS
  <2>2. "audio" \in ToSet(parts)
    BY <1>1, <1>3, <2>1
  <2>3. toc_length > 0
    BY DEF Sections
  <2> QED
    BY <1>2, <2>2, <2>3
<1>5. Lengthened(meta, input)
  <2>1. \A n \in 1..7 : n \in 1..8
    OBVIOUS
  <2>2. \A n \in 1..7 : meta[n] \in ToSet(parts)
    BY <1>1, <1>3, <2>1
  <2> QED
    BY <1>1, <1>2, <2>2 DEF Lengthened
<1>6. /\ blocks \in Seq(Cell) /\ Len(blocks) = audio /\ data \in Seq(Cell)
      /\ Reads(data, 0, audio, blocks)
  <2> DEFINE c == Cells(<<"chunk", << >>>>, chunks)
  <2>1. <<"audio", << >>>> \in Section /\ <<"chunk", << >>>> \in Section
    BY SectionIs DEF Part
  <2>2. /\ blocks \in Seq(Cell) /\ Len(blocks) = audio /\ c \in Seq(Cell)
    <3> HIDE DEF audio, chunks
    <3> QED
      BY <1>4, <2>1, CellsAre
  <2> HIDE DEF blocks, c
  <2>3. Reads(blocks, 0, audio, blocks)
    BY <2>2, ReadsAll
  <2> QED
    BY <2>2, <2>3, JoinedTwo, ReadsFront DEF c
<1> HIDE DEF blocks, data, audio, toc_length, chunks
<1>7. Wrote(SSMD, input, toc_length, toc_length, data)
  BY DEF WroteDiscs, toc_length, data, blocks, audio, chunks
<1>8. /\ file \in Seq(Cell) /\ HeadReadable(file, header) /\ at \in Nat
      /\ \A o, l, v : Reads(data, o, l, v) => Reads(file, at + Len(Encoded(SSMD, input)) + o, l, v)
  BY <1>4, <1>5, <1>6, <1>7, WrittenIs DEF meta
<1>9. ASSUME NEW n \in 1..7
      PROVE  LET r == format_data.region[n]
             IN r.length > 0 => Decode(read_file_data(file, r.offset, r.length)) = <<parts[n], << >>>>
  <2>1. n \in 1..Len(meta)
    BY <1>1
  <2> DEFINE l == input[meta[n]]
             r == format_data.region[n]
  <2>2. /\ parts[n] = meta[n] /\ r = [offset |-> at + LengthBefore(meta, n, input), length |-> l]
        /\ l > 0 => Decode(read_file_data(file, r.offset, l)) = <<meta[n], << >>>>
    BY <1>4, <1>5, <1>6, <1>7, <2>1, RegionIs DEF meta, parts
  <2> HIDE DEF l, r
  <2>3. r.length = l
    BY <2>2
  <2> QED
    BY <2>2, <2>3 DEF r
<1>10. LET r == format_data.region[8]
       IN r.length > 0 => Decode(read_file_data(file, r.offset, r.length)) = <<parts[8], << >>>>
  <2> DEFINE r == format_data.region[8]
  <2>1. r = [offset |-> at + LengthBefore(parts, 8, input), length |-> audio]
    <3>1. format_data.region = [m \in DOMAIN parts |->
                              [offset |-> HEADER_SIZE + toc_length + FORMAT_SIZE(SSMD)
                                            + LengthBefore(parts, m, input),
                               length |-> input[parts[m]]]]
      BY <1>7 DEF Wrote, build_format_data, parts
    <3>2. 8 \in DOMAIN parts /\ input[parts[8]] = audio
      BY <1>1 DEF audio
    <3> QED
      BY <3>1, <3>2 DEF MetadataAt
  <2>2. LengthBefore(parts, 8, input) = Len(Encoded(SSMD, input))
    <3>1. [m \in 1..(8 - 1) |-> input[parts[m]]] = [m \in 1..(8 - 1) |-> input[meta[m]]]
      BY <1>1
    <3>2. LengthBefore(parts, 8, input) = LengthBefore(meta, 8, input)
      BY <3>1 DEF LengthBefore
    <3>3. Len(Encoded(SSMD, input)) = LengthBefore(meta, Len(meta) + 1, input)
      BY <1>5, RegionsAre DEF Encoded, meta
    <3>4. Len(meta) + 1 = 8
      BY <1>1
    <3> QED
      BY <3>2, <3>3, <3>4
  <2>3. r.length = audio /\ r.offset = at + Len(Encoded(SSMD, input))
    BY <2>1, <2>2
  <2> HIDE DEF r
  <2>4. Reads(file, r.offset, audio, blocks)
    <3>1. Reads(file, at + Len(Encoded(SSMD, input)) + 0, audio, blocks)
      BY <1>6, <1>8
    <3>2. Len(Encoded(SSMD, input)) \in Nat
      BY <1>4, <1>5, <1>6, <1>7, WrittenIs DEF meta
    <3>3. at + Len(Encoded(SSMD, input)) + 0 = at + Len(Encoded(SSMD, input))
      BY <1>8, <3>2
    <3> QED
      BY <2>3, <3>1, <3>3
  <2>5. <<"audio", << >>>> \in Section
    BY SectionIs DEF Part
  <2>6. audio # 0 => Decode(read_file_data(file, r.offset, audio)) = <<"audio", << >>>>
    <3> SUFFICES ASSUME audio # 0
                 PROVE  Decode(read_file_data(file, r.offset, audio)) = <<"audio", << >>>>
      OBVIOUS
    <3>1. audio \in Nat \ {0}
      BY <1>4
    <3> QED
      BY <1>8, <2>4, <2>5, <3>1, ReadDecodes DEF blocks
  <2>7. audio > 0 => audio # 0
    BY <1>4
  <2> QED
    BY <1>1, <2>3, <2>6, <2>7 DEF r
<1>11. DOMAIN format_data.region = 1..8 /\ header.format_id = SSMD
  BY <1>1, <1>7 DEF Wrote, build_format_data, build_file_header, parts
<1>12. SectionsReadable(file, header, format_data)
  <2>1. \A n \in 1..8 : n \in 1..7 \/ n = 8
    OBVIOUS
  <2>2. \A n \in DOMAIN format_data.region :
          LET r == format_data.region[n]
          IN r.length > 0 => Decode(read_file_data(file, r.offset, r.length)) = <<parts[n], << >>>>
    BY <1>9, <1>10, <1>11, <2>1
  <2> QED
    BY <1>11, <2>2 DEF SectionsReadable, parts
<1> QED
  BY <1>8, <1>12

(* The chunks lie in the blob where the index says, each of them once. *)
LEMMA IndexIs ==
  ASSUME NEW hashes \in Distinct(Chunk), \A h \in ToSet(hashes) : CompLen(h) \in Nat \ {0},
         chunk_index = Locations(hashes, [h \in ToSet(hashes) |-> CompLen(h)])
  PROVE  /\ Blob \in Seq(Cell) /\ DOMAIN chunk_index = 1..Len(hashes)
         /\ Len(chunk_index) = Len(hashes)
         /\ \A n \in 1..Len(hashes) :
              LET c == chunk_index[n]
              IN /\ c.hash = hashes[n] /\ c.compressed_length \in Nat \ {0}
                 /\ Reads(Blob, c.offset, c.compressed_length,
                          Cells(<<"chunk", hashes[n]>>, c.compressed_length))
         /\ \A n \in 1..Len(hashes) : Located(hashes[n]) = {n}
<1> DEFINE N == Len(hashes)
           L == [h \in ToSet(hashes) |-> CompLen(h)]
           len(n) == CompLen(hashes[n])
           rs == [n \in DOMAIN chunk_index |->
                    Cells(<<"chunk", chunk_index[n].hash>>, chunk_index[n].compressed_length)]
           lens == Lengths_(rs)
<1>1. /\ N \in Nat /\ DOMAIN hashes = 1..N
      /\ \A n \in 1..N : hashes[n] \in ToSet(hashes) /\ hashes[n] \in Chunk
      /\ \A m, n \in 1..N : hashes[m] = hashes[n] => m = n
  <2>1. hashes \in Seq(Chunk) /\ \A m, n \in 1..N : hashes[m] = hashes[n] => m = n
    BY DEF Distinct
  <2>2. N \in Nat /\ DOMAIN hashes = 1..N /\ \A n \in 1..N : hashes[n] \in Chunk
    BY <2>1
  <2> QED
    BY <2>1, <2>2 DEF ToSet
<1>2. \A n \in 1..N : len(n) \in Nat \ {0} /\ L[hashes[n]] = len(n)
  BY <1>1
<1> HIDE DEF N
<1>3. chunk_index = [n \in 1..N |-> [hash |-> hashes[n],
                                     offset |-> Sum([m \in 1..(n - 1) |-> L[hashes[m]]]),
                                     compressed_length |-> L[hashes[n]]]]
  BY <1>1 DEF Locations
<1>4. DOMAIN chunk_index = 1..N /\ Len(chunk_index) = N
  BY <1>1, <1>3
<1>5. ASSUME NEW n \in 1..N
      PROVE  /\ chunk_index[n].hash = hashes[n] /\ chunk_index[n].compressed_length = len(n)
             /\ chunk_index[n].offset = Sum([m \in 1..(n - 1) |-> L[hashes[m]]])
  <2> DEFINE off == Sum([m \in 1..(n - 1) |-> L[hashes[m]]])
  <2>1. chunk_index[n] = [hash |-> hashes[n], offset |-> off, compressed_length |-> L[hashes[n]]]
    BY <1>3
  <2>2. L[hashes[n]] = len(n)
    BY <1>2
  <2> HIDE DEF off, L, len
  <2>3. chunk_index[n].hash = hashes[n] /\ chunk_index[n].offset = off
        /\ chunk_index[n].compressed_length = len(n)
    BY <2>1, <2>2
  <2> QED
    BY <2>3 DEF off
<1>6. ASSUME NEW n \in 1..N
      PROVE  /\ rs[n] = Cells(<<"chunk", hashes[n]>>, len(n))
             /\ rs[n] \in Seq(Cell) /\ Len(rs[n]) = len(n)
  <2>1. rs[n] = Cells(<<"chunk", hashes[n]>>, len(n))
    BY <1>4, <1>5
  <2>2. <<"chunk", hashes[n]>> \in Section
    <3>1. "chunk" \in Part /\ hashes[n] \in Seq(Byte)
      BY <1>1, ChunkIs DEF Part
    <3> QED
      BY <3>1 DEF Section
  <2>3. len(n) \in Nat
    BY <1>2
  <2> HIDE DEF rs
  <2> QED
    BY <2>1, <2>2, <2>3, CellsAre
<1>7. rs \in Seq(Seq(Cell)) /\ Len(rs) = N
  <2>1. DOMAIN rs = 1..N /\ rs = [n \in DOMAIN rs |-> rs[n]]
    BY <1>4
  <2> HIDE DEF rs
  <2> QED
    BY <1>1, <1>6, <2>1, SeqFrom
<1>8. Blob = FlattenSeq(rs)
  BY DEF Blob
<1> HIDE DEF rs, L
<1>9. \A m \in 1..N : lens[m] = len(m)
  <2>1. \A m \in 1..Len(rs) : lens[m] = Len(rs[m])
    BY <1>7, LengthsAre
  <2> HIDE DEF lens
  <2> QED
    BY <1>6, <1>7, <2>1
<1>10. Blob \in Seq(Cell)
  BY <1>7, <1>8, FlattenType
<1>11. ASSUME NEW n \in 1..N
       PROVE  Reads(Blob, chunk_index[n].offset, len(n), Cells(<<"chunk", hashes[n]>>, len(n)))
  <2>1. \A m \in 1..(n - 1) : m \in 1..N
    BY <1>1
  <2>2. [m \in 1..(n - 1) |-> L[hashes[m]]] = [m \in 1..(n - 1) |-> lens[m]]
    <3> HIDE DEF lens
    <3> QED
      BY <1>2, <1>9, <2>1
  <2>3. chunk_index[n].offset = UpTo(lens, n - 1)
    BY <1>5, <2>2 DEF UpTo
  <2>4. Reads(FlattenSeq(rs), UpTo(lens, n - 1), Len(rs[n]), rs[n])
    BY <1>7, ReadsPart
  <2> QED
    BY <1>6, <1>8, <2>3, <2>4
<1>12. ASSUME NEW n \in 1..N PROVE Located(hashes[n]) = {n}
  <2>1. \A m \in 1..N : chunk_index[m].hash = hashes[m]
    BY <1>5
  <2>2. \A m \in 1..N : chunk_index[m].hash = hashes[n] <=> m = n
    BY <1>1, <2>1
  <2> QED
    BY <1>4, <2>2 DEF Located
<1> QED
  BY <1>2, <1>4, <1>5, <1>10, <1>11, <1>12 DEF N

LEMMA ChunksRead ==
  ASSUME NEW hashes \in Distinct(Chunk), \A h \in ToSet(hashes) : CompLen(h) \in Nat \ {0},
         chunk_index = Locations(hashes, [h \in ToSet(hashes) |-> CompLen(h)]),
         NEW length, NEW toc_length \in Nat \ {0}, NEW file_count,
         Lengthened(MetadataParts(SSMC), length), Wrote(SSMC, length, toc_length, file_count, Blob),
         NEW h \in ToSet(hashes)
  PROVE  /\ Cardinality(Located(h)) = 1
         /\ ReadChunk(file, format_data, chunk_index[CHOOSE n \in Located(h) : TRUE]) = <<"chunk", h>>
<1> DEFINE meta == MetadataParts(SSMC)
           at == MetadataAt(SSMC, toc_length)
           D == Encoded(SSMC, length)
<1>1. PICK n \in 1..Len(hashes) : hashes[n] = h
  <2>1. DOMAIN hashes = 1..Len(hashes)
    BY DEF Distinct
  <2> QED
    BY <2>1 DEF ToSet
<1> DEFINE c == chunk_index[n]
<1>2. /\ Blob \in Seq(Cell) /\ c.compressed_length \in Nat \ {0}
      /\ Reads(Blob, c.offset, c.compressed_length, Cells(<<"chunk", h>>, c.compressed_length))
      /\ Located(h) = {n}
  BY <1>1, IndexIs
<1>3. Cardinality(Located(h)) = 1 /\ (CHOOSE m \in Located(h) : TRUE) = n
  BY <1>2, FS_Singleton
<1>4. /\ file \in Seq(Cell)
      /\ \A o, l, v : Reads(Blob, o, l, v) => Reads(file, at + Len(D) + o, l, v)
  <2>1. SSMC \in {SSMC, SSMD}
    OBVIOUS
  <2> HIDE DEF at, D
  <2> QED
    BY <1>2, <2>1, WrittenIs DEF at, D
<1>5. format_data.data_offset = at + Len(D)
  <2>1. format_data.data_offset = HEADER_SIZE + toc_length + FORMAT_SIZE(SSMC)
                                    + LengthBefore(Parts(SSMC), Len(Parts(SSMC)) + 1, length)
    BY DEF Wrote, build_format_data
  <2>2. Len(D) = LengthBefore(meta, Len(meta) + 1, length)
    BY RegionsAre DEF Encoded
  <2>3. Parts(SSMC) = meta
    BY PartsAre
  <2> QED
    BY <2>1, <2>2, <2>3 DEF MetadataAt
<1>6. <<"chunk", h>> \in Section
  <2>1. h \in Chunk /\ "chunk" \in Part
    <3>1. hashes \in Seq(Chunk)
      BY DEF Distinct
    <3> QED
      BY <1>1, <3>1, ElementOfSeq DEF Part
  <2> QED
    BY <2>1, ChunkIs DEF Section
<1> HIDE DEF c, at, D
<1>7. Reads(file, format_data.data_offset + c.offset, c.compressed_length,
            Cells(<<"chunk", h>>, c.compressed_length))
  BY <1>2, <1>4, <1>5
<1>8. Decode(read_file_data(file, format_data.data_offset + c.offset, c.compressed_length))
        = <<"chunk", h>>
  BY <1>2, <1>4, <1>6, <1>7, ReadDecodes
<1> QED
  BY <1>3, <1>8 DEF ReadChunk, c

(* The parts of the metadata, from one read. *)
LEMMA MetadataReads ==
  ASSUME NEW length, NEW toc_length \in Nat \ {0}, NEW file_count, NEW data \in Seq(Cell),
         Lengthened(MetadataParts(SSMC), length), Wrote(SSMC, length, toc_length, file_count, data),
         \A n \in 1..3 : length[MetadataParts(SSMC)[n]] # 0
  PROVE  MetadataReadable(file, format_data) /\ SectionsReadable(file, header, format_data)
<1> DEFINE meta == MetadataParts(SSMC)
           at == MetadataAt(SSMC, toc_length)
           D == Encoded(SSMC, length)
           l(n) == length[meta[n]]
           cut(n) == LengthBefore(meta, n, length)
           region == format_data.region
           block == read_file_data(file, region[1].offset, l(1) + l(2) + l(3))
<1>1. /\ meta = << "manifest", "dictionary", "chunk_index" >> /\ Len(meta) = 3
      /\ meta \in Seq(Part) /\ Parts(SSMC) = meta /\ DOMAIN meta = 1..3
      /\ 1 \in 1..3 /\ 2 \in 1..3 /\ 3 \in 1..3
  BY PartsAre
<1> HIDE DEF meta
<1>2. /\ file \in Seq(Cell) /\ D \in Seq(Cell) /\ at \in Nat
      /\ \A o, s, v : Reads(D, o, s, v) => Reads(file, at + o, s, v)
  <2>1. SSMC \in {SSMC, SSMD}
    OBVIOUS
  <2> HIDE DEF at, D
  <2> QED
    BY <2>1, WrittenIs DEF at, D
<1>3. /\ \A n \in 1..3 : /\ l(n) \in Nat \ {0} /\ cut(n) \in Nat /\ cut(n + 1) = cut(n) + l(n)
                         /\ Reads(D, cut(n), l(n), Cells(<<meta[n], << >>>>, l(n)))
      /\ cut(1) = 0 /\ Len(D) = cut(4)
  <2>1. Lengthened(meta, length)
    BY DEF meta
  <2>2. \A n \in 1..3 : l(n) \in Nat \ {0}
    BY <1>1, <2>1 DEF Lengthened, meta
  <2>3. /\ \A n \in 1..3 : /\ cut(n) \in Nat /\ cut(n + 1) = cut(n) + l(n)
                           /\ Reads(D, cut(n), l(n), Cells(<<meta[n], << >>>>, l(n)))
        /\ cut(1) = 0 /\ Len(D) = cut(4)
    <3>1. Len(meta) + 1 = 4 /\ \A n \in 1..3 : n \in 1..Len(meta) /\ n \in 1..(Len(meta) + 1)
      BY <1>1
    <3> HIDE DEF l, cut
    <3>2. /\ Len(D) = cut(Len(meta) + 1) /\ cut(1) = 0
          /\ \A n \in 1..Len(meta) :
               /\ Reads(D, cut(n), l(n), Cells(<<meta[n], << >>>>, l(n)))
               /\ cut(n + 1) = cut(n) + l(n)
          /\ \A n \in 1..(Len(meta) + 1) : cut(n) \in Nat
      BY <2>1, RegionsAre DEF Encoded, meta, l, cut
    <3> HIDE DEF D
    <3> QED
      BY <3>1, <3>2
  <2> QED
    BY <2>2, <2>3
<1>4. ASSUME NEW n \in 1..3
      PROVE  /\ region[n].offset = at + cut(n) /\ region[n].length = l(n)
             /\ Decode(read_file_data(file, region[n].offset, l(n))) = <<meta[n], << >>>>
  <2>1. SSMC \in {SSMC, SSMD} /\ n \in 1..Len(MetadataParts(SSMC))
    BY <1>1 DEF meta
  <2>2. /\ region[n] = [offset |-> at + cut(n), length |-> l(n)]
        /\ l(n) > 0 => Decode(read_file_data(file, region[n].offset, l(n))) = <<meta[n], << >>>>
    BY <2>1, RegionIs, ZenonT(60) DEF meta
  <2>3. l(n) > 0
    <3>1. l(n) \in Nat \ {0}
      BY <1>3
    <3> HIDE DEF l
    <3> QED
      BY <3>1
  <2> HIDE DEF l, cut, at, region
  <2> QED
    BY <2>2, <2>3
<1>5. DOMAIN region = 1..3 /\ header.format_id = SSMC
  BY <1>1 DEF Wrote, build_format_data, build_file_header
<1>6. SectionsReadable(file, header, format_data)
  <2>1. \A n \in DOMAIN region :
          Decode(read_file_data(file, region[n].offset, region[n].length)) = <<meta[n], << >>>>
    BY <1>4, <1>5
  <2> HIDE DEF region
  <2> QED
    BY <1>1, <1>5, <2>1 DEF SectionsReadable, region
<1>7. /\ cut(1) = 0 /\ cut(2) = l(1) /\ cut(3) = l(1) + l(2) /\ Len(D) = l(1) + l(2) + l(3)
  <2>1. cut(1 + 1) = cut(1) + l(1) /\ cut(2 + 1) = cut(2) + l(2) /\ cut(3 + 1) = cut(3) + l(3)
        /\ l(1) \in Nat /\ l(2) \in Nat /\ l(3) \in Nat
    BY <1>1, <1>3
  <2> DEFINE c1 == cut(1)
             c2 == cut(2)
             c3 == cut(3)
             c4 == cut(4)
  <2>2. c2 = c1 + l(1) /\ c3 = c2 + l(2) /\ c4 = c3 + l(3)
    BY <2>1
  <2>3. c1 = 0 /\ Len(D) = c4
    BY <1>3
  <2> HIDE DEF c1, c2, c3, c4, D, l
  <2>4. c1 = 0 /\ c2 = l(1) /\ c3 = l(1) + l(2) /\ Len(D) = l(1) + l(2) + l(3)
    BY <2>1, <2>2, <2>3
  <2> QED
    BY <2>4 DEF c1, c2, c3
<1>8. block = D
  <2>1. Reads(D, 0, Len(D), D)
    BY <1>2, ReadsAll
  <2>2. Reads(file, at + 0, Len(D), D)
    BY <1>2, <2>1
  <2>3. region[1].offset = at + 0
    BY <1>1, <1>4, <1>7
  <2> HIDE DEF at, D, l, region
  <2>4. Reads(file, region[1].offset, l(1) + l(2) + l(3), D)
    BY <1>7, <2>2, <2>3
  <2> QED
    BY <1>2, <2>4, ReadIs
<1>9. ASSUME NEW n \in 1..3
      PROVE  Decode(SubSeq(D, cut(n) + 1, cut(n) + l(n))) = <<meta[n], << >>>>
  <2>1. SubSeq(D, cut(n) + 1, cut(n) + l(n)) = Cells(<<meta[n], << >>>>, l(n))
    BY <1>3 DEF Reads
  <2>2. l(n) \in Nat \ {0} /\ meta[n] \in Part
    BY <1>1, <1>3
  <2>3. <<meta[n], << >>>> \in Section
    BY <2>2, SectionIs
  <2> HIDE DEF l
  <2> QED
    BY <2>1, <2>2, <2>3, CellsAre
<1>10. /\ Decode(SubSeq(D, 1, l(1))) = <<"manifest", << >>>>
       /\ Decode(SubSeq(D, l(1) + 1, l(1) + l(2))) = <<"dictionary", << >>>>
       /\ Decode(SubSeq(D, l(1) + l(2) + 1, Len(D))) = <<"chunk_index", << >>>>
  <2>1. cut(1) + 1 = 1 /\ cut(1) + l(1) = l(1)
    BY <1>1, <1>3, <1>7
  <2>2. meta[1] = "manifest" /\ meta[2] = "dictionary" /\ meta[3] = "chunk_index"
    BY <1>1
  <2> HIDE DEF l, cut, D
  <2> QED
    BY <1>1, <1>7, <1>9, <2>1, <2>2
<1>11. region[1].length = l(1) /\ region[2].length = l(2) /\ region[3].length = l(3)
  BY <1>1, <1>4
<1>12. MetadataReadable(file, format_data)
  <2> DEFINE whole == read_file_data(file, region[1].offset,
                                     region[1].length + region[2].length + region[3].length)
  <2>1. whole = D
    BY <1>8, <1>11
  <2> HIDE DEF l, D, whole
  <2>2. /\ Decode(SubSeq(whole, 1, region[1].length)) = <<"manifest", << >>>>
        /\ Decode(SubSeq(whole, region[1].length + 1, region[1].length + region[2].length))
             = <<"dictionary", << >>>>
        /\ Decode(SubSeq(whole, region[1].length + region[2].length + 1, Len(whole)))
             = <<"chunk_index", << >>>>
    BY <1>10, <1>11, <2>1
  <2> QED
    BY <2>2 DEF MetadataReadable, whole
<1> QED
  BY <1>6, <1>12

(* Each file of an archive comes back. *)
LEMMA FilesReadBack ==
  ASSUME input \in Inputs, WroteFiles
  PROVE  /\ HeadReadable(file, header) /\ SectionsReadable(file, header, format_data)
         /\ MetadataReadable(file, format_data)
         /\ DistinctNames =>
              /\ header.file_count = Len(ser.toc)
              /\ \A i \in DOMAIN ser.toc :
                   LET content == ContentOf(ser.toc[i].filename)
                       chunks == Extracted(i)
                   IN /\ \A k \in DOMAIN chunks : chunks[k][1] = "chunk"
                      /\ FlattenSeq([k \in DOMAIN chunks |-> chunks[k][2]]) = content
                      /\ ser.toc[i].uncompressed_size = Len(content)
<1> DEFINE hs == ser.hashes
           toc == ser.toc
           Ms == ser.manifests
           toc_length == Len(toc)
           length == [manifest |-> Len(Ms), dictionary |-> 1, chunk_index |-> Len(chunk_index)]
           count == Len(input)
<1>1. /\ window \in Cuttable /\ FilesKnown /\ ser = SerOf(file_manifest)
      /\ hs # << >> /\ chunk_index = Locations(hs, [h \in ToSet(hs) |-> CompLen(h)])
      /\ Wrote(SSMC, length, toc_length, count, Blob)
  BY DEF WroteFiles, Indexed
<1>2. /\ Ms \in Seq(Seq(Entry)) /\ hs \in Distinct(Chunk) /\ hs = sorted_hashes(Ms)
      /\ ToSet(hs) \subseteq Cached
  BY <1>1, SerIs
<1>3. /\ Len(toc) = Cardinality(Names) /\ Cardinality(Names) \in Nat /\ Len(Ms) = Len(toc)
      /\ DOMAIN toc = 1..Cardinality(Names) /\ DOMAIN Ms = DOMAIN toc
      /\ \A i \in DOMAIN toc :
           \E f \in DOMAIN input :
             /\ toc[i].filename = input[f].name
             /\ toc[i].uncompressed_size = Len(input[f].content)
             /\ WellCut(Ms[i], input[f].content)
  BY <1>1, FilesAre
<1>4. Cached \subseteq Chunk /\ \A h \in Cached : CompLen(h) \in Nat \ {0}
  BY <1>1, CachedAre
<1>5. \A h \in ToSet(hs) : CompLen(h) \in Nat \ {0}
  BY <1>2, <1>4
<1>6. hs \in Seq(Chunk) /\ Len(hs) \in Nat \ {0} /\ 1 \in DOMAIN hs
  BY <1>1, <1>2 DEF Distinct
<1>7. toc_length \in Nat \ {0} /\ Len(Ms) = toc_length
  <2>1. hs[1] \in Cached
    BY <1>2, <1>6 DEF ToSet
  <2>2. PICK f \in DOMAIN input : TRUE
    BY <2>1 DEF Cached
  <2>3. input[f].name \in Names
    BY DEF Names
  <2>4. IsFiniteSet(Names) /\ Cardinality(Names) # 0
    BY <2>3, NamesAre, FS_EmptySet
  <2> QED
    BY <1>3, <2>4
<1> HIDE DEF hs, toc, Ms, toc_length
<1>8. /\ Blob \in Seq(Cell) /\ Len(chunk_index) = Len(hs)
  BY <1>1, <1>2, <1>5, IndexIs
<1>9. /\ length["manifest"] = Len(Ms) /\ length["dictionary"] = 1
      /\ length["chunk_index"] = Len(chunk_index)
  OBVIOUS
<1>10. /\ Lengthened(MetadataParts(SSMC), length)
       /\ \A n \in 1..3 : length[MetadataParts(SSMC)[n]] # 0
  <2> DEFINE meta == MetadataParts(SSMC)
  <2>1. /\ meta = << "manifest", "dictionary", "chunk_index" >> /\ Len(meta) = 3
        /\ meta \in Seq(Part)
    BY PartsAre
  <2> HIDE DEF meta, length
  <2>2. length[meta[1]] = Len(Ms) /\ length[meta[2]] = 1 /\ length[meta[3]] = Len(chunk_index)
    BY <1>9, <2>1
  <2>3. Len(Ms) \in Nat \ {0} /\ Len(chunk_index) \in Nat \ {0}
    BY <1>6, <1>7, <1>8
  <2>4. \A n \in 1..3 : length[meta[n]] \in Nat \ {0}
    <3>1. \A n \in 1..3 : n = 1 \/ n = 2 \/ n = 3
      OBVIOUS
    <3> QED
      BY <2>2, <2>3, <3>1
  <2> QED
    BY <2>1, <2>4 DEF Lengthened, meta
<1> HIDE DEF length
<1>11. HeadReadable(file, header)
  <2>1. SSMC \in {SSMC, SSMD}
    OBVIOUS
  <2> QED
    BY <1>1, <1>7, <1>8, <1>10, <2>1, WrittenIs
<1>12. MetadataReadable(file, format_data) /\ SectionsReadable(file, header, format_data)
  BY <1>1, <1>7, <1>8, <1>10, MetadataReads
<1>13. DistinctNames => header.file_count = toc_length
  <2>1. header.file_count = count
    BY <1>1 DEF Wrote, build_file_header
  <2> QED
    BY <1>3, <2>1 DEF DistinctNames, toc_length
<1>14. ASSUME DistinctNames, NEW i \in DOMAIN toc
       PROVE  LET content == ContentOf(toc[i].filename)
                  chunks == Extracted(i)
              IN /\ \A k \in DOMAIN chunks : chunks[k][1] = "chunk"
                 /\ FlattenSeq([k \in DOMAIN chunks |-> chunks[k][2]]) = content
                 /\ toc[i].uncompressed_size = Len(content)
  <2> DEFINE M == Ms[i]
             chunks == Extracted(i)
  <2>1. PICK f \in DOMAIN input : /\ toc[i].filename = input[f].name
                                  /\ toc[i].uncompressed_size = Len(input[f].content)
                                  /\ WellCut(M, input[f].content)
    BY <1>3
  <2>2. ContentOf(toc[i].filename) = input[f].content
    <3> DEFINE P(x) == x.name = toc[i].filename
               files == {input[g] : g \in DOMAIN input}
    <3>1. input[f] \in files /\ P(input[f])
      BY <2>1
    <3>2. \A x \in files : P(x) => x = input[f]
      BY <1>14, <2>1, NamesAre
    <3>3. (CHOOSE x \in files : P(x)) = input[f]
      <4> HIDE DEF files, P
      <4> QED
        BY <3>1, <3>2
    <3> QED
      BY <3>3 DEF ContentOf
  <2>3. ASSUME NEW k \in DOMAIN M
        PROVE  LET found == Located(M[k].hash)
               IN (IF Cardinality(found) = 1
                   THEN ReadChunk(file, format_data, chunk_index[CHOOSE n \in found : TRUE])
                   ELSE DAMAGED) = <<"chunk", M[k].hash>>
    <3> DEFINE h == M[k].hash
    <3>1. h \in ToSet(hs)
      <4>1. h \in ToSet(Hashes(M))
        BY DEF Hashes, ToSet
      <4>2. ToSet(hs) = UNION {ToSet(Hashes(Ms[j])) : j \in DOMAIN Ms}
        BY <1>2, SortedIs
      <4>3. i \in DOMAIN Ms
        BY <1>3
      <4> QED
        BY <4>1, <4>2, <4>3
    <3> HIDE DEF h
    <3>2. /\ Cardinality(Located(h)) = 1
          /\ ReadChunk(file, format_data, chunk_index[CHOOSE n \in Located(h) : TRUE])
               = <<"chunk", h>>
      BY <1>1, <1>2, <1>5, <1>7, <1>10, <3>1, ChunksRead
    <3> QED
      BY <3>2 DEF h
  <2>4. chunks = [k \in DOMAIN M |-> <<"chunk", M[k].hash>>]
    <3>1. chunks = [k \in DOMAIN M |->
                      LET found == Located(M[k].hash)
                      IN IF Cardinality(found) = 1
                         THEN ReadChunk(file, format_data, chunk_index[CHOOSE n \in found : TRUE])
                         ELSE DAMAGED]
      BY DEF Extracted, Ms
    <3> HIDE DEF M, chunks
    <3> QED
      BY <2>3, <3>1
  <2>5. [k \in DOMAIN chunks |-> chunks[k][2]] = Hashes(M)
    BY <2>4 DEF Hashes
  <2>6. \A k \in DOMAIN chunks : chunks[k][1] = "chunk"
    BY <2>4
  <2>7. FlattenSeq(Hashes(M)) = input[f].content
    BY <2>1 DEF WellCut
  <2> HIDE DEF chunks, M
  <2>8. FlattenSeq([k \in DOMAIN chunks |-> chunks[k][2]]) = input[f].content
    BY <2>5, <2>7
  <2> QED
    BY <2>1, <2>2, <2>6, <2>8 DEF chunks
<1> QED
  BY <1>11, <1>12, <1>13, <1>14 DEF toc, toc_length

(* From an archive whose run ended with Ok, each file comes back: header,   *)
(* table, format data and sections decode from where they are said to be,   *)
(* and each chunk of each manifest lies where the index says.               *)
THEOREM ArchiveIsReadable == ArchiveSpec => []ArchiveReadsBack
<1>1. ASSUME ArchiveInv, result = "Ok"
      PROVE  /\ HeadReadable(file, header)
             /\ SectionsReadable(file, header, format_data)
             /\ args.mode = "default" =>
                  /\ MetadataReadable(file, format_data)
                  /\ DistinctNames =>
                       /\ header.file_count = Len(ser.toc)
                       /\ \A i \in DOMAIN ser.toc :
                            LET content == ContentOf(ser.toc[i].filename)
                                chunks == Extracted(i)
                            IN /\ \A k \in DOMAIN chunks : chunks[k][1] = "chunk"
                               /\ FlattenSeq([k \in DOMAIN chunks |-> chunks[k][2]]) = content
                               /\ ser.toc[i].uncompressed_size = Len(content)
  <2>1. CASE args.mode = "default"
    <3>1. input \in Inputs /\ WroteFiles
      BY <1>1, <2>1 DEF ArchiveInv, DataInv
    <3> QED
      BY <3>1, FilesReadBack
  <2>2. CASE args.mode = "optical"
    <3>1. input \in Sections /\ WroteDiscs
      BY <1>1, <2>2 DEF ArchiveInv, DataInv
    <3>2. args.mode # "default"
      BY <2>2
    <3> QED
      BY <3>1, <3>2, DiscsReadBack
  <2> QED
    BY <1>1, <2>1, <2>2 DEF ArchiveInv, DataInv
<1>2. ArchiveInv => ArchiveReadsBack
  BY <1>1 DEF ArchiveReadsBack
<1> QED
  BY <1>2, ArchiveInvHolds, PTL
=============================================================================
