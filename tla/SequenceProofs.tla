-------------------------- MODULE SequenceProofs ---------------------------
(***************************************************************************)
(* Lemmas for the proofs about libft: a least number in a set of numbers,  *)
(* which stands in for induction where the provers cannot instantiate the  *)
(* library's theorems, chains of nodes in a heap, and the operators        *)
(* SequenceSpec is made of, element by element.                            *)
(***************************************************************************)
EXTENDS Heap, SequenceTheorems, FiniteSetTheorems, WellFoundedInduction, TLAPS

(* A set of numbers that is not empty has a least one.                     *)
LEMMA LeastNumber ==
    ASSUME NEW T, T \subseteq Nat, T # {}
    PROVE  \E n \in T : \A k \in T : n <= k
<1>. DEFINE R == {p \in Nat \X Nat : p[1] < p[2]}
<1>1. IsWellFoundedOn(R, Nat)
  BY NatLessThanWellFounded DEF OpToRel
<1>. HIDE DEF R
<1>2. \E n \in T : \A k \in T : ~(<<k, n>> \in R)
  BY <1>1, WFMin
<1>3. \A k, n \in Nat : ~(<<k, n>> \in R) => n <= k
  BY DEF R
<1>. QED  BY <1>2, <1>3

(* What holds of a number as soon as it holds of all smaller ones, holds   *)
(* of all: no number is the least one that is missing from good.           *)
LEMMA NoLeastMissing ==
    ASSUME NEW good,
           \A n \in Nat : (\A k \in 0..n - 1 : k \in good) => n \in good
    PROVE  Nat \subseteq good
<1>. SUFFICES ASSUME Nat \ good # {}  PROVE FALSE
  OBVIOUS
<1>1. PICK n \in Nat \ good : \A k \in Nat \ good : n <= k
  BY LeastNumber
<1>. QED  BY <1>1

(***************************************************************************)
(* Recursive functions.  One that looks itself up at next[s], below s, and *)
(* makes a value of what it finds there, is what its definition says.      *)
(***************************************************************************)
Descends(D, V, base, val, next, step, rank, N) ==
    /\ base \in SUBSET D /\ val \in [base -> V] /\ V # {}
    /\ next \in [D \ base -> D] /\ step \in [D \ base -> [V -> V]]
    /\ N \in Nat /\ rank \in [D -> 0..N]
    /\ \A s \in D \ base : rank[next[s]] < rank[s]

LEMMA RecursionExists ==
    ASSUME NEW D, NEW V, NEW base, NEW val, NEW next, NEW step, NEW rank, NEW N,
           Descends(D, V, base, val, next, step, rank, N)
    PROVE  \E f \in [D -> V] : \A s \in D :
              f[s] = IF s \in base THEN val[s] ELSE step[s][f[next[s]]]
<1>. DEFINE Rhs(f, s) == IF s \in base THEN val[s] ELSE step[s][f[next[s]]]
            UpTo(f, n) == \A s \in D : rank[s] < n => f[s] = Rhs(f, s)
            good == {n \in Nat : \E f \in [D -> V] : UpTo(f, n)}
<1>7. \A s \in D, n \in Nat : rank[s] < n => (rank[s] = n - 1 \/ rank[s] < n - 1)
  <2>1. \A s \in D : rank[s] \in Nat
    BY DEF Descends
  <2>. QED  BY <2>1
<1>. USE DEF Descends
<1>1. \A f \in [D -> V], s \in D : Rhs(f, s) \in V
  OBVIOUS
<1>2. \A f, g \in [D -> V], s \in D :
         (s \notin base => f[next[s]] = g[next[s]]) => Rhs(f, s) = Rhs(g, s)
  OBVIOUS
<1>. HIDE DEF Rhs
<1>3. ASSUME NEW n \in Nat, \A k \in 0..n - 1 : k \in good
      PROVE  n \in good
  <2>1. CASE n = 0
    <3>. PICK v0 \in V : TRUE
      OBVIOUS
    <3>. DEFINE f == [s \in D |-> v0]
    <3>1. f \in [D -> V] /\ UpTo(f, 0)
      OBVIOUS
    <3>. QED  BY <2>1, <3>1
  <2>2. CASE n > 0
    <3>1. n - 1 \in good
      BY <1>3, <2>2
    <3>2. PICK f \in [D -> V] : UpTo(f, n - 1)
      BY <3>1
    <3>. DEFINE g == [s \in D |-> IF rank[s] = n - 1 THEN Rhs(f, s) ELSE f[s]]
    <3>3. g \in [D -> V]
      BY <1>1
    <3>4. \A s \in D : rank[s] # n - 1 => g[s] = f[s]
      OBVIOUS
    <3>5. \A s \in D : rank[s] = n - 1 => g[s] = Rhs(f, s)
      OBVIOUS
    <3>. HIDE DEF g
    <3>6. ASSUME NEW s \in D, rank[s] < n  PROVE g[s] = Rhs(g, s)
      <4>1. s \notin base => f[next[s]] = g[next[s]]
        BY <3>4, <3>6
      <4>2. Rhs(f, s) = Rhs(g, s)
        BY <1>2, <3>3, <4>1
      <4>3. rank[s] = n - 1 \/ rank[s] < n - 1
        BY <1>7, <3>6
      <4>. QED  BY <3>2, <3>4, <3>5, <4>2, <4>3
    <3>. QED  BY <3>3, <3>6
  <2>. QED  BY <2>1, <2>2
<1>4. Nat \subseteq good
  <2>. HIDE DEF good
  <2>. QED  BY <1>3, NoLeastMissing
<1>5. PICK f \in [D -> V] : UpTo(f, N + 1)
  <2>1. N + 1 \in good
    <3>. HIDE DEF good
    <3>. QED  BY <1>4
  <2>. QED  BY <2>1
<1>6. \A s \in D : f[s] = Rhs(f, s)
  <2>1. \A s \in D : rank[s] \in 0..N
    OBVIOUS
  <2>. QED  BY <1>5, <2>1
<1>. QED  BY <1>6 DEF Rhs

(* Whatever is defined so has only values of that kind.                    *)
LEMMA RecursionType ==
    ASSUME NEW D, NEW V, NEW base, NEW val, NEW next, NEW step, NEW rank, NEW N,
           Descends(D, V, base, val, next, step, rank, N),
           NEW g,
           \A s \in D : (s \notin base => g[next[s]] \in V) =>
              g[s] = IF s \in base THEN val[s] ELSE step[s][g[next[s]]]
    PROVE  \A s \in D : g[s] \in V
<1>. USE DEF Descends
<1>. DEFINE good == {n \in Nat : \A s \in D : rank[s] = n => g[s] \in V}
<1>1. ASSUME NEW n \in Nat, \A k \in 0..n - 1 : k \in good, NEW s \in D, rank[s] = n
      PROVE  g[s] \in V
  <2>1. CASE s \in base
    BY <2>1
  <2>2. CASE s \notin base
    <3>1. next[s] \in D /\ rank[next[s]] \in 0..n - 1
      BY <1>1, <2>2
    <3>2. g[next[s]] \in V
      BY <1>1, <3>1
    <3>3. step[s] \in [V -> V]
      BY <2>2
    <3>. QED  BY <2>2, <3>2, <3>3
  <2>. QED  BY <2>1, <2>2
<1>2. Nat \subseteq good
  <2>1. \A n \in Nat : (\A k \in 0..n - 1 : k \in good) => n \in good
    BY <1>1
  <2>. HIDE DEF good
  <2>. QED  BY <2>1, NoLeastMissing
<1>. QED  BY <1>2

(***************************************************************************)
(* Sequences                                                               *)
(***************************************************************************)
LEMMA Inserted ==
    ASSUME NEW S, NEW s \in Seq(S), NEW e \in S, NEW i \in 1..Len(s) + 1
    PROVE  /\ InsertAt(s, i, e) \in Seq(S)
           /\ Len(InsertAt(s, i, e)) = Len(s) + 1
           /\ \A k \in 1..Len(s) + 1 :
                 InsertAt(s, i, e)[k] = IF k < i THEN s[k] ELSE IF k = i THEN e ELSE s[k - 1]
<1>. DEFINE low == SubSeq(s, 1, i - 1)
            high == SubSeq(s, i, Len(s))
            lower == low \o <<e>>
<1>1. Len(s) \in Nat
  OBVIOUS
<1>2. low \in Seq(S) /\ Len(low) = i - 1 /\ \A k \in 1..i - 1 : low[k] = s[k]
  <2>1. \A k \in 1..i - 1 : s[k] \in S
    BY <1>1, ElementOfSeq
  <2>. QED  BY <1>1, <2>1, SubSeqProperties
<1>3. high \in Seq(S) /\ Len(high) = Len(s) - i + 1
      /\ \A k \in 1..Len(s) - i + 1 : high[k] = s[k + i - 1]
  <2>1. \A k \in i..Len(s) : s[k] \in S
    BY <1>1, ElementOfSeq
  <2>. QED  BY <1>1, <2>1, SubSeqProperties
<1>4. <<e>> \in Seq(S) /\ Len(<<e>>) = 1 /\ <<e>>[1] = e
  OBVIOUS
<1>. HIDE DEF low, high
<1>5. lower \in Seq(S) /\ Len(lower) = i
      /\ \A k \in 1..i : lower[k] = IF k < i THEN s[k] ELSE e
  <2>1. lower \in Seq(S) /\ Len(lower) = i
        /\ \A k \in 1..i : lower[k] = IF k <= i - 1 THEN low[k] ELSE <<e>>[k - (i - 1)]
    BY <1>1, <1>2, <1>4, ConcatProperties
  <2>. HIDE DEF lower
  <2>2. ASSUME NEW k \in 1..i  PROVE lower[k] = IF k < i THEN s[k] ELSE e
    <3>1. CASE k < i
      BY <1>2, <2>1, <3>1
    <3>2. CASE k = i
      <4>1. i - (i - 1) = 1 /\ ~(i <= i - 1)
        BY <1>1
      <4>2. lower[i] = <<e>>[i - (i - 1)]
        BY <1>1, <2>1, <4>1
      <4>. QED  BY <1>4, <3>2, <4>1, <4>2
    <3>. QED  BY <1>1, <3>1, <3>2
  <2>. QED  BY <2>1, <2>2
<1>. HIDE DEF lower
<1>6. /\ lower \o high \in Seq(S) /\ Len(lower \o high) = Len(lower) + Len(high)
      /\ \A k \in 1..Len(lower) + Len(high) :
            (lower \o high)[k] = IF k <= Len(lower) THEN lower[k] ELSE high[k - Len(lower)]
  BY <1>3, <1>5, ConcatProperties
<1>7. InsertAt(s, i, e) = lower \o high
  BY DEF InsertAt, lower, low, high
<1>8. Len(lower) + Len(high) = Len(s) + 1
  BY <1>1, <1>3, <1>5
<1>9. ASSUME NEW k \in 1..Len(s) + 1
      PROVE  (lower \o high)[k] = IF k < i THEN s[k] ELSE IF k = i THEN e ELSE s[k - 1]
  <2>1. CASE k <= i
    BY <1>5, <1>6, <1>8, <2>1
  <2>2. CASE k > i
    <3>1. k - i \in 1..Len(s) - i + 1 /\ k - i + i - 1 = k - 1
      BY <1>1, <2>2
    <3>2. (lower \o high)[k] = high[k - i]
      BY <1>1, <1>5, <1>6, <1>8, <2>2
    <3>. QED  BY <1>1, <1>3, <2>2, <3>1, <3>2
  <2>3. k <= i \/ k > i
    BY <1>1
  <2>. QED  BY <2>1, <2>2, <2>3
<1>. QED  BY <1>6, <1>7, <1>8, <1>9

(* Behind the last element, to insert is to append.                        *)
LEMMA InsertedLast ==
    ASSUME NEW S, NEW s \in Seq(S), NEW e \in S, NEW n, n = Len(s) + 1
    PROVE  InsertAt(s, n, e) = Append(s, e)
<1>. DEFINE t == InsertAt(s, n, e)
<1>1. n \in 1..Len(s) + 1 /\ n \in Nat
  OBVIOUS
<1>2. /\ t \in Seq(S) /\ Len(t) = Len(s) + 1
      /\ \A k \in 1..Len(s) + 1 :
            t[k] = IF k < n THEN s[k] ELSE IF k = n THEN e ELSE s[k - 1]
  BY <1>1, Inserted, SMTT(90)
<1>. HIDE DEF t
<1>3. /\ Append(s, e) \in Seq(S) /\ Len(Append(s, e)) = n
      /\ \A k \in 1..n : Append(s, e)[k] = IF k <= Len(s) THEN s[k] ELSE e
  BY AppendProperties
<1>4. \A k \in 1..n : (k < n /\ k <= Len(s)) \/ (k = n /\ ~(k <= Len(s)))
  BY <1>1
<1>5. \A k \in 1..Len(t) : t[k] = Append(s, e)[k]
  BY <1>1, <1>2, <1>3, <1>4
<1>6. t = Append(s, e)
  BY <1>2, <1>3, <1>5, SeqEqual
<1>. QED  BY <1>6 DEF t

LEMMA Removed ==
    ASSUME NEW S, NEW s \in Seq(S), NEW i \in 1..Len(s)
    PROVE  /\ RemoveAt(s, i) \in Seq(S)
           /\ Len(RemoveAt(s, i)) = Len(s) - 1
           /\ \A k \in 1..Len(s) - 1 :
                 RemoveAt(s, i)[k] = IF k < i THEN s[k] ELSE s[k + 1]
<1>. DEFINE low == SubSeq(s, 1, i - 1)
            high == SubSeq(s, i + 1, Len(s))
<1>1. Len(s) \in Nat
  OBVIOUS
<1>2. low \in Seq(S) /\ Len(low) = i - 1 /\ \A k \in 1..i - 1 : low[k] = s[k]
  <2>1. \A k \in 1..i - 1 : s[k] \in S
    BY <1>1, ElementOfSeq
  <2>. QED  BY <1>1, <2>1, SubSeqProperties
<1>3. high \in Seq(S) /\ Len(high) = Len(s) - i
      /\ \A k \in 1..Len(s) - i : high[k] = s[k + i]
  <2>1. \A k \in i + 1..Len(s) : s[k] \in S
    BY <1>1, ElementOfSeq
  <2>. QED  BY <1>1, <2>1, SubSeqProperties
<1>. HIDE DEF low, high
<1>4. /\ low \o high \in Seq(S) /\ Len(low \o high) = Len(low) + Len(high)
      /\ \A k \in 1..Len(low) + Len(high) :
            (low \o high)[k] = IF k <= Len(low) THEN low[k] ELSE high[k - Len(low)]
  BY <1>2, <1>3, ConcatProperties
<1>5. RemoveAt(s, i) = low \o high
  BY DEF RemoveAt, low, high
<1>6. Len(low) + Len(high) = Len(s) - 1
  BY <1>1, <1>2, <1>3
<1>7. ASSUME NEW k \in 1..Len(s) - 1
      PROVE  (low \o high)[k] = IF k < i THEN s[k] ELSE s[k + 1]
  <2>1. CASE k < i
    BY <1>1, <1>2, <1>4, <1>6, <2>1
  <2>2. CASE k >= i
    <3>1. k - (i - 1) \in 1..Len(s) - i /\ k - (i - 1) + i = k + 1
      BY <1>1, <2>2
    <3>2. (low \o high)[k] = high[k - (i - 1)]
      BY <1>1, <1>2, <1>4, <1>6, <2>2
    <3>. QED  BY <1>1, <1>3, <2>2, <3>1, <3>2
  <2>3. k < i \/ k >= i
    BY <1>1
  <2>. QED  BY <2>1, <2>2, <2>3
<1>. QED  BY <1>4, <1>5, <1>6, <1>7

LEMMA LeastOf ==
    ASSUME NEW I, I \subseteq Nat, I # {}
    PROVE  Min(I) \in I /\ \A k \in I : Min(I) <= k
BY LeastNumber DEF Min

(***************************************************************************)
(* Sequences of sequences                                                  *)
(***************************************************************************)
(* The function inside FlattenSeq joins the first i of them.               *)
Joins(g, s) ==
    /\ DOMAIN g = 1..Len(s)
    /\ \A i \in 1..Len(s) : g[i] = IF i = 1 THEN s[i] ELSE g[i - 1] \o s[i]

LEMMA JoinExists ==
    ASSUME NEW S, NEW s \in Seq(Seq(S))
    PROVE  \E g \in [1..Len(s) -> Seq(S)] : Joins(g, s)
<1>. DEFINE D == 1..Len(s)
            V == Seq(S)
            base == {i \in D : i = 1}
            val == [i \in base |-> s[i]]
            next == [i \in D \ base |-> i - 1]
            step == [i \in D \ base |-> [v \in V |-> v \o s[i]]]
            rank == [i \in D |-> i]
<1>1. Len(s) \in Nat /\ \A i \in D : s[i] \in V
  OBVIOUS
<1>2. step \in [D \ base -> [V -> V]]
  <2>1. \A i \in D \ base : [v \in V |-> v \o s[i]] \in [V -> V]
    BY <1>1, ConcatProperties
  <2>. QED  BY <2>1
<1>3. next \in [D \ base -> D]
  BY <1>1
<1>4. Descends(D, V, base, val, next, step, rank, Len(s))
  <2>1. val \in [base -> V]
    BY <1>1
  <2>2. rank \in [D -> 0..Len(s)]
    BY <1>1
  <2>3. \A i \in D \ base : rank[next[i]] < rank[i]
    BY <1>3
  <2>4. V # {}
    BY EmptySeq
  <2>5. base \in SUBSET D
    OBVIOUS
  <2>. HIDE DEF D, V, base, val, next, step, rank
  <2>. QED  BY <1>1, <1>2, <1>3, <2>1, <2>2, <2>3, <2>4, <2>5 DEF Descends
<1>5. PICK g \in [D -> V] : \A i \in D :
         g[i] = IF i \in base THEN val[i] ELSE step[i][g[next[i]]]
  <2>. HIDE DEF D, V, base, val, next, step, rank
  <2>. QED  BY <1>4, RecursionExists
<1>6. ASSUME NEW i \in D  PROVE g[i] = IF i = 1 THEN s[i] ELSE g[i - 1] \o s[i]
  <2>1. CASE i = 1
    BY <1>5, <2>1
  <2>2. CASE i # 1
    <3>1. next[i] = i - 1 /\ i - 1 \in D /\ g[i - 1] \in V
      BY <1>1, <1>3, <2>2
    <3>2. g[i] = step[i][g[i - 1]]
      BY <1>5, <2>2, <3>1
    <3>. QED  BY <2>2, <3>1, <3>2
  <2>. QED  BY <2>1, <2>2
<1>. QED  BY <1>6 DEF Joins

LEMMA FlattenIs ==
    ASSUME NEW S, NEW s \in Seq(Seq(S)), s # <<>>
    PROVE  \E g \in [1..Len(s) -> Seq(S)] : Joins(g, s) /\ FlattenSeq(s) = g[Len(s)]
<1>. DEFINE D == 1..Len(s)
            of == CHOOSE f : f = [i \in D |-> IF i = 1 THEN s[i] ELSE f[i - 1] \o s[i]]
<1>1. Len(s) \in Nat \ {0}
  OBVIOUS
<1>2. PICK g \in [D -> Seq(S)] : Joins(g, s)
  BY JoinExists
<1>3. g = [i \in D |-> IF i = 1 THEN s[i] ELSE g[i - 1] \o s[i]]
  BY <1>2 DEF Joins
<1>4. of = [i \in D |-> IF i = 1 THEN s[i] ELSE of[i - 1] \o s[i]]
  BY <1>3
<1>5. FlattenSeq(s) = of[Len(s)]
  BY <1>1 DEF FlattenSeq
<1>. HIDE DEF of
<1>6. Joins(of, s)
  <2>1. DOMAIN of = D
    BY <1>4
  <2>2. ASSUME NEW i \in D  PROVE of[i] = IF i = 1 THEN s[i] ELSE of[i - 1] \o s[i]
    BY <1>4
  <2>. QED  BY <2>1, <2>2 DEF Joins
<1>7. of = g
  <2>. DEFINE good == {n \in Nat : n \in D => of[n] = g[n]}
  <2>1. ASSUME NEW n \in Nat, \A k \in 0..n - 1 : k \in good  PROVE n \in good
    <3>1. CASE n \in D /\ n # 1
      <4>1. n - 1 \in D /\ n - 1 \in 0..n - 1
        BY <3>1
      <4>2. of[n - 1] = g[n - 1]
        BY <2>1, <4>1
      <4>. QED  BY <1>2, <1>6, <3>1, <4>2, ZenonT(30) DEF Joins
    <3>2. CASE n = 1
      BY <1>2, <1>6, <3>2 DEF Joins
    <3>. QED  BY <3>1, <3>2
  <2>2. Nat \subseteq good
    <3>. HIDE DEF good
    <3>. QED  BY <2>1, NoLeastMissing
  <2>3. \A n \in D : of[n] = g[n]
    BY <2>2
  <2>4. of = [i \in D |-> of[i]] /\ g = [i \in D |-> g[i]]
    BY <1>4
  <2>. QED  BY <2>3, <2>4
<1>. QED  BY <1>2, <1>5, <1>7

LEMMA FlattenEmpty == FlattenSeq(<<>>) = <<>>
BY DEF FlattenSeq

(* The joined sequence grows behind as its parts do.                       *)
LEMMA FlattenAppend ==
    ASSUME NEW S, NEW s \in Seq(Seq(S)), NEW e \in Seq(S)
    PROVE  /\ FlattenSeq(s) \in Seq(S)
           /\ FlattenSeq(Append(s, e)) = FlattenSeq(s) \o e
<1>. DEFINE t == Append(s, e)
            n == Len(s)
<1>1. n \in Nat /\ t \in Seq(Seq(S)) /\ Len(t) = n + 1 /\ t # <<>>
      /\ t[n + 1] = e /\ \A i \in 1..n : t[i] = s[i]
  <2>1. n \in Nat /\ t \in Seq(Seq(S)) /\ Len(t) = n + 1
        /\ t[n + 1] = e /\ \A i \in 1..n : t[i] = s[i]
    BY AppendProperties
  <2>. HIDE DEF t
  <2>2. t # <<>>
    BY <2>1
  <2>. QED  BY <2>1, <2>2
<1>. HIDE DEF t
<1>2. PICK h \in [1..n + 1 -> Seq(S)] : Joins(h, t) /\ FlattenSeq(t) = h[n + 1]
  BY <1>1, FlattenIs
<1>3. CASE s = <<>>
  <2>1. n = 0 /\ h[1] = t[1]
    BY <1>1, <1>2, <1>3 DEF Joins
  <2>2. FlattenSeq(t) = e
    BY <1>1, <1>2, <2>1
  <2>3. FlattenSeq(s) = <<>> /\ <<>> \o e = e
    BY <1>3, FlattenEmpty, ConcatEmptySeq
  <2>. QED  BY <2>2, <2>3, EmptySeq DEF t
<1>4. CASE s # <<>>
  <2>1. PICK g \in [1..n -> Seq(S)] : Joins(g, s) /\ FlattenSeq(s) = g[n]
    BY <1>4, FlattenIs
  <2>2. n # 0
    BY <1>4
  <2>. DEFINE good == {i \in Nat : i \in 1..n => h[i] = g[i]}
  <2>3. ASSUME NEW i \in Nat, \A k \in 0..i - 1 : k \in good  PROVE i \in good
    <3>1. CASE i \in 1..n /\ i # 1
      <4>1. i - 1 \in 1..n /\ i - 1 \in 0..i - 1 /\ i \in 1..Len(t) /\ i \in 1..n
        BY <1>1, <3>1
      <4>2. h[i - 1] = g[i - 1]
        BY <2>3, <4>1
      <4>3. h[i] = h[i - 1] \o t[i]
        BY <1>2, <3>1, <4>1 DEF Joins
      <4>4. g[i] = g[i - 1] \o s[i]
        BY <2>1, <3>1, <4>1 DEF Joins
      <4>. QED  BY <1>1, <4>1, <4>2, <4>3, <4>4
    <3>2. CASE i = 1 /\ i \in 1..n
      <4>1. 1 \in 1..n /\ 1 \in 1..Len(t)
        BY <1>1, <3>2
      <4>2. h[1] = t[1] /\ g[1] = s[1]
        BY <1>2, <2>1, <4>1 DEF Joins
      <4>. QED  BY <1>1, <3>2, <4>2
    <3>3. i \notin 1..n \/ (i \in 1..n /\ i # 1) \/ (i = 1 /\ i \in 1..n)
      OBVIOUS
    <3>. QED  BY <3>1, <3>2, <3>3
  <2>4. Nat \subseteq good
    <3>. HIDE DEF good
    <3>. QED  BY <2>3, NoLeastMissing
  <2>5. n \in 1..n
    BY <1>1, <2>2
  <2>6. h[n] = g[n]
    BY <1>1, <2>4, <2>5
  <2>7. n + 1 \in 1..Len(t) /\ n + 1 # 1 /\ n + 1 - 1 = n
    BY <1>1, <2>2
  <2>8. h[n + 1] = h[n] \o t[n + 1]
    <3>. DEFINE k == n + 1
    <3>1. k \in 1..Len(t) /\ k # 1 /\ k - 1 = n
      BY <2>7
    <3>. HIDE DEF k
    <3>2. h[k] = h[k - 1] \o t[k]
      BY <1>2, <3>1 DEF Joins
    <3>. QED  BY <3>1, <3>2 DEF k
  <2>9. g[n] \in Seq(S)
    BY <2>1, <2>5
  <2>. QED  BY <1>1, <1>2, <2>1, <2>6, <2>8, <2>9 DEF t
<1>. QED  BY <1>3, <1>4

(* A call is recorded with its result behind its arguments, its name stays *)
(* in front.                                                               *)
LEMMA Named ==
    ASSUME NEW S, NEW c \in Seq(S), c # <<>>, NEW r
    PROVE  Append(c, r)[1] = c[1]
<1>1. c \in Seq(S \cup {r}) /\ Len(c) \in Nat \ {0}
  BY SeqMonotonic, EmptySeq
<1>. QED  BY <1>1, AppendProperties

LEMMA Names ==
    ASSUME NEW a, NEW b, NEW d, NEW r
    PROVE  /\ Append(<<a>>, r)[1] = a
           /\ Append(<<a, b>>, r)[1] = a
           /\ Append(<<a, b, d>>, r)[1] = a
<1>1. <<a>> \in Seq({a, b, d}) /\ <<a, b>> \in Seq({a, b, d}) /\ <<a, b, d>> \in Seq({a, b, d})
  OBVIOUS
<1>2. <<a>> # <<>> /\ <<a, b>> # <<>> /\ <<a, b, d>> # <<>>
  OBVIOUS
<1>. QED  BY <1>1, <1>2, Named

(***************************************************************************)
(* Chains of nodes                                                         *)
(***************************************************************************)
(* p holds the nodes met from start on.                                    *)
Chain(h, f, start, p) ==
    /\ NULL \notin DOMAIN h
    /\ p \in Seq(DOMAIN h)
    /\ start = IF Len(p) = 0 THEN NULL ELSE p[1]
    /\ \A i \in 1..Len(p) : h[p[i]][f] = IF i < Len(p) THEN p[i + 1] ELSE NULL

NextMet(h, f, start, at, k) ==
    IF k = 1 THEN start
    ELSE LET m == at[k - 1] IN IF m \in DOMAIN h THEN h[m][f] ELSE NULL

LEMMA NodeType ==
    ASSUME NEW h, NEW f, NEW start, NEW p, Chain(h, f, start, p)
    PROVE  Len(p) \in Nat /\ \A k \in 1..Len(p) : p[k] \in DOMAIN h /\ p[k] # NULL
<1>1. p \in Seq(DOMAIN h) /\ NULL \notin DOMAIN h
  BY DEF Chain
<1>. QED  BY <1>1, ElementOfSeq, LenProperties

(* Following the pointers of a chain meets its nodes in order, and nothing *)
(* behind them.                                                            *)
LEMMA ChainMet ==
    ASSUME NEW h, NEW f, NEW start, NEW p, Chain(h, f, start, p),
           NEW N \in Nat, NEW at, \A k \in 1..N + 1 : at[k] = NextMet(h, f, start, at, k)
    PROVE  \A k \in 1..N + 1 : at[k] = IF k <= Len(p) THEN p[k] ELSE NULL
<1>. DEFINE good == {k \in Nat : k \in 1..N + 1 => at[k] = IF k <= Len(p) THEN p[k] ELSE NULL}
<1>1. Len(p) \in Nat /\ \A k \in 1..Len(p) : p[k] \in DOMAIN h /\ p[k] # NULL
  BY NodeType
<1>2. ASSUME NEW n \in Nat, \A k \in 0..n - 1 : k \in good, n \in 1..N + 1
      PROVE  at[n] = IF n <= Len(p) THEN p[n] ELSE NULL
  <2>1. at[n] = NextMet(h, f, start, at, n)
    BY <1>2
  <2>2. CASE n = 1
    <3>1. at[n] = start
      BY <2>1, <2>2 DEF NextMet
    <3>2. start = IF Len(p) = 0 THEN NULL ELSE p[1]
      BY DEF Chain
    <3>. QED  BY <1>1, <2>2, <3>1, <3>2
  <2>3. CASE n # 1
    <3>1. n - 1 \in Nat /\ n - 1 \in 0..n - 1 /\ n - 1 \in 1..N + 1 /\ (n - 1) + 1 = n
      BY <1>2, <2>3
    <3>2. at[n - 1] = IF n - 1 <= Len(p) THEN p[n - 1] ELSE NULL
      BY <1>2, <3>1
    <3>3. at[n] = IF at[n - 1] \in DOMAIN h THEN h[at[n - 1]][f] ELSE NULL
      BY <2>1, <2>3 DEF NextMet
    <3>4. CASE n - 1 <= Len(p)
      <4>1. n - 1 \in 1..Len(p)
        BY <1>1, <3>1, <3>4
      <4>2. h[p[n - 1]][f] = IF n - 1 < Len(p) THEN p[(n - 1) + 1] ELSE NULL
        BY <4>1 DEF Chain
      <4>3. at[n] = h[p[n - 1]][f]
        BY <1>1, <3>2, <3>3, <3>4, <4>1
      <4>4. n - 1 < Len(p) <=> n <= Len(p)
        BY <1>1, <3>1
      <4>. QED  BY <3>1, <4>2, <4>3, <4>4
    <3>5. CASE ~(n - 1 <= Len(p))
      <4>1. at[n - 1] = NULL
        BY <3>2, <3>5
      <4>2. at[n] = NULL
        BY <3>3, <4>1 DEF Chain
      <4>3. ~(n <= Len(p))
        BY <1>1, <3>5
      <4>. QED  BY <4>2, <4>3
    <3>. QED  BY <3>4, <3>5
  <2>. QED  BY <2>2, <2>3
<1>3. \A n \in Nat : (\A k \in 0..n - 1 : k \in good) => n \in good
  BY <1>2
<1>4. Nat \subseteq good
  <2>. HIDE DEF good
  <2>. QED  BY <1>3, NoLeastMissing
<1>. QED  BY <1>4

LEMMA UpToCounted ==
    ASSUME NEW n \in Nat
    PROVE  IsFiniteSet(1..n) /\ Cardinality(1..n) = n
<1>1. 1 \in Int /\ n \in Int
  OBVIOUS
<1>2. IsFiniteSet(1..n) /\ Cardinality(1..n) = IF 1 > n THEN 0 ELSE n - 1 + 1
  BY <1>1, FS_Interval, Zenon
<1>3. (IF 1 > n THEN 0 ELSE n - 1 + 1) = n
  OBVIOUS
<1>. QED  BY <1>2, <1>3

(* A chain without a node twice is no longer than there are addresses.     *)
LEMMA ChainBounded ==
    ASSUME HeapAssumption, NEW h, DOMAIN h \subseteq Addresses,
           NEW p \in Seq(DOMAIN h), \A i, j \in 1..Len(p) : p[i] = p[j] => i = j
    PROVE  Cardinality(Addresses) \in Nat /\ Len(p) <= Cardinality(Addresses)
<1>1. IsFiniteSet(Addresses) /\ Len(p) \in Nat
  BY LenProperties DEF HeapAssumption
<1>2. IsFiniteSet(1..Len(p)) /\ Cardinality(1..Len(p)) = Len(p)
  BY <1>1, UpToCounted
<1>3. p \in Injection(1..Len(p), Addresses)
  <2>1. p \in [1..Len(p) -> Addresses]
    BY <1>1, ElementOfSeq, LenProperties
  <2>. QED  BY <2>1 DEF Injection, IsInjective
<1>4. Cardinality(Addresses) \in Nat
  BY <1>1, FS_CardinalityType
<1>5. Cardinality(1..Len(p)) <= Cardinality(Addresses)
  BY <1>1, <1>2, <1>3, FS_Injection
<1>. QED  BY <1>2, <1>4, <1>5

(* What Path collects of a chain is the chain.                             *)
LEMMA PathIsChain ==
    ASSUME HeapAssumption, NEW h, DOMAIN h \subseteq Addresses, NEW f, NEW start,
           NEW p, Chain(h, f, start, p), \A i, j \in 1..Len(p) : p[i] = p[j] => i = j
    PROVE  Path(h, f, start) = p
<1>. DEFINE N == Cardinality(Addresses)
            expected == [k \in 1..N + 1 |-> IF k <= Len(p) THEN p[k] ELSE NULL]
            at == CHOOSE g : g = [k \in 1..N + 1 |-> NextMet(h, f, start, g, k)]
            met == {k \in DOMAIN at : at[k] # NULL}
<1>1. /\ p \in Seq(DOMAIN h) /\ N \in Nat /\ Len(p) <= N /\ Len(p) \in Nat
      /\ \A k \in 1..Len(p) : p[k] \in DOMAIN h /\ p[k] # NULL
  <2>1. p \in Seq(DOMAIN h)
    BY DEF Chain
  <2>. QED  BY <2>1, ChainBounded, NodeType
<1>. HIDE DEF N
<1>2. expected = [k \in 1..N + 1 |-> NextMet(h, f, start, expected, k)]
  <2>1. ASSUME NEW k \in 1..N + 1
        PROVE  expected[k] = NextMet(h, f, start, expected, k)
    <3>1. CASE k = 1
      <4>1. start = IF Len(p) = 0 THEN NULL ELSE p[1]
        BY DEF Chain
      <4>. QED  BY <1>1, <3>1, <4>1 DEF NextMet
    <3>2. CASE k # 1
      <4>1. k - 1 \in 1..N + 1 /\ (k - 1) + 1 = k
        BY <1>1, <3>2
      <4>2. expected[k - 1] = IF k - 1 <= Len(p) THEN p[k - 1] ELSE NULL
        BY <4>1
      <4>. DEFINE m == expected[k - 1]
      <4>3. NextMet(h, f, start, expected, k) = IF m \in DOMAIN h THEN h[m][f] ELSE NULL
        BY <3>2 DEF NextMet
      <4>. HIDE DEF m
      <4>4. CASE k - 1 <= Len(p)
        <5>1. k - 1 \in 1..Len(p) /\ m = p[k - 1] /\ (k - 1 < Len(p) <=> k <= Len(p))
          BY <1>1, <4>1, <4>2, <4>4 DEF m
        <5>2. h[p[k - 1]][f] = IF k - 1 < Len(p) THEN p[(k - 1) + 1] ELSE NULL
          BY <5>1 DEF Chain
        <5>. QED  BY <1>1, <4>1, <4>3, <5>1, <5>2
      <4>5. CASE ~(k - 1 <= Len(p))
        <5>1. m = NULL /\ ~(k <= Len(p))
          BY <1>1, <4>1, <4>2, <4>5 DEF m
        <5>. QED  BY <4>3, <5>1 DEF Chain
      <4>. QED  BY <4>4, <4>5
    <3>. QED  BY <3>1, <3>2
  <2>. QED  BY <2>1
<1>. HIDE DEF expected
<1>3. at = [k \in 1..N + 1 |-> NextMet(h, f, start, at, k)]
  BY <1>2
<1>4. Path(h, f, start) = [k \in 1..Cardinality(met) |-> at[k]]
  BY DEF Path, NextMet, N
<1>. HIDE DEF at
<1>5. DOMAIN at = 1..N + 1 /\ \A k \in 1..N + 1 : at[k] = NextMet(h, f, start, at, k)
  BY <1>3
<1>6. \A k \in 1..N + 1 : at[k] = IF k <= Len(p) THEN p[k] ELSE NULL
  BY <1>1, <1>5, ChainMet
<1>7. met = 1..Len(p)
  BY <1>1, <1>5, <1>6
<1>8. Cardinality(met) = Len(p)
  BY <1>1, <1>7, UpToCounted
<1>. HIDE DEF met
<1>9. Path(h, f, start) = [k \in 1..Len(p) |-> p[k]]
  BY <1>1, <1>4, <1>6, <1>8
<1>. QED  BY <1>1, <1>9

(* The node k hops along a chain is its node k.                            *)
LEMMA HopIsChain ==
    ASSUME NEW h, NEW f, NEW start, NEW p, Chain(h, f, start, p), NEW k \in 0..Len(p) - 1
    PROVE  Hop(h, f, start, k) = p[k + 1]
<1>. DEFINE expected == [i \in 0..k |-> p[i + 1]]
            at == CHOOSE g : g = [i \in 0..k |-> IF i = 0 THEN start ELSE h[g[i - 1]][f]]
            good == {n \in Nat : n \in 0..k => at[n] = p[n + 1]}
<1>1. Len(p) \in Nat /\ k \in Nat /\ Len(p) # 0
  BY NodeType
<1>2. start = p[1] /\ \A i \in 1..Len(p) : h[p[i]][f] = IF i < Len(p) THEN p[i + 1] ELSE NULL
  BY <1>1 DEF Chain
<1>3. ASSUME NEW i \in 0..k, i # 0  PROVE h[p[i]][f] = p[i + 1]
  <2>1. i \in 1..Len(p) /\ i < Len(p)
    BY <1>1, <1>3
  <2>. QED  BY <1>2, <2>1
<1>4. expected = [i \in 0..k |-> IF i = 0 THEN start ELSE h[expected[i - 1]][f]]
  <2>1. ASSUME NEW i \in 0..k
        PROVE  p[i + 1] = IF i = 0 THEN start ELSE h[expected[i - 1]][f]
    <3>1. CASE i = 0
      BY <1>2, <3>1
    <3>2. CASE i # 0
      <4>1. i - 1 \in 0..k /\ (i - 1) + 1 = i
        BY <1>1, <3>2
      <4>2. expected[i - 1] = p[i]
        BY <4>1
      <4>. QED  BY <1>3, <3>2, <4>2
    <3>. QED  BY <3>1, <3>2
  <2>. QED  BY <2>1
<1>. HIDE DEF expected
<1>5. at = [i \in 0..k |-> IF i = 0 THEN start ELSE h[at[i - 1]][f]]
  BY <1>4
<1>6. Hop(h, f, start, k) = at[k]
  BY DEF Hop
<1>. HIDE DEF at
<1>7. ASSUME NEW n \in Nat, \A i \in 0..n - 1 : i \in good, n \in 0..k
      PROVE  at[n] = p[n + 1]
  <2>1. at[n] = IF n = 0 THEN start ELSE h[at[n - 1]][f]
    BY <1>5, <1>7
  <2>2. CASE n = 0
    BY <1>2, <2>1, <2>2
  <2>3. CASE n # 0
    <3>1. n - 1 \in 0..n - 1 /\ n - 1 \in 0..k /\ (n - 1) + 1 = n
      BY <1>1, <1>7, <2>3
    <3>2. at[n - 1] = p[n]
      BY <1>7, <3>1
    <3>. QED  BY <1>3, <1>7, <2>1, <2>3, <3>2
  <2>. QED  BY <2>2, <2>3
<1>8. \A n \in Nat : (\A i \in 0..n - 1 : i \in good) => n \in good
  BY <1>7
<1>9. Nat \subseteq good
  <2>. HIDE DEF good
  <2>. QED  BY <1>8, NoLeastMissing
<1>. QED  BY <1>1, <1>6, <1>9
=============================================================================
