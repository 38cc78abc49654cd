--------------------------- MODULE VectorProofs ----------------------------
(***************************************************************************)
(* libft's vector stays within its block and does what a sequence does,    *)
(* for every set of elements, every first capacity and every factor.       *)
(***************************************************************************)
EXTENDS Vector, SequenceProofs

(* A caller that resizes to 0 is left with a capacity no factor makes      *)
(* grow (ft_vector_resize): the argument needs that nobody does.           *)
Growing == VectorAssumption /\ 0 \notin Capacities

(***************************************************************************)
(* The header and its block                                                *)
(***************************************************************************)
IsVector(v) ==
    /\ v = [data |-> v.data, size |-> v.size, capacity |-> v.capacity]
    /\ v.size \in Nat /\ v.capacity \in Nat \ {0} /\ v.size <= v.capacity
    /\ v.data \in [0..v.capacity - 1 -> Elements]

VectorInv == ~stray /\ (vector # NULL => IsVector(vector))

(* A header is not the null pointer, and neither is a sequence.            *)
NullApart == (\A v : IsVector(v) => v # NULL) /\ NULL \notin Seq(Elements)

LEMMA SizeType ==
    ASSUME VectorInv
    PROVE  Size \in Nat /\ Capacity \in Nat /\ Size <= Capacity
BY DEF VectorInv, IsVector, Size, Capacity

LEMMA ResizedVector ==
    ASSUME VectorInv, NEW n \in Nat \ {0}, Resizable(n)
    PROVE  IsVector(Resized(n)) /\ Resized(n).size = Size /\ Resized(n).capacity = n
           /\ \A k \in 0..Size - 1 : Resized(n).data[k] = vector.data[k]
<1>. DEFINE block == [i \in 0..n - 1 |-> IF i < Size THEN vector.data[i] ELSE NULL]
<1>1. /\ vector # NULL /\ IsVector(vector) /\ Size <= n /\ Size = vector.size
      /\ Capacity = vector.capacity /\ Size \in Nat /\ Size <= Capacity /\ Capacity \in Nat
  BY SizeType DEF Resizable, VectorInv, Size, Capacity
<1>2. \A i \in 0..n - 1 : (IF i < Size THEN vector.data[i] ELSE NULL) \in Elements
  <2>1. \A i \in 0..n - 1 : i < Size => i \in 0..Capacity - 1
    BY <1>1
  <2>2. \A i \in 0..Capacity - 1 : vector.data[i] \in Elements
    BY <1>1 DEF IsVector
  <2>. QED  BY <2>1, <2>2 DEF Elements
<1>3. block \in [0..n - 1 -> Elements]
  BY <1>2
<1>4. \A k \in 0..Size - 1 : block[k] = vector.data[k]
  BY <1>1
<1>5. Resized(n) = [data |-> block, size |-> vector.size, capacity |-> n]
  BY DEF Resized
<1>. HIDE DEF block
<1>. QED  BY <1>1, <1>3, <1>4, <1>5 DEF IsVector

(* The block an insertion writes to has a slot for the new element.        *)
LEMMA GrownVector ==
    ASSUME Growing, VectorInv, vector # NULL, CanGrow
    PROVE  IsVector(Grown) /\ Grown.size = Size /\ Size < Grown.capacity
           /\ \A k \in 0..Size - 1 : Grown.data[k] = vector.data[k]
<1>. DEFINE n == Capacity * VECTOR_GROWTH_FACTOR
<1>1. /\ IsVector(vector) /\ Capacity = vector.capacity /\ Size = vector.size
      /\ Capacity \in Nat \ {0} /\ Size \in Nat /\ Size <= Capacity
  BY DEF VectorInv, IsVector, Size, Capacity
<1>2. CASE Full
  <2>1. n \in Nat \ {0} /\ Size < n
    <3>1. VECTOR_GROWTH_FACTOR \in Nat /\ VECTOR_GROWTH_FACTOR >= 2
      BY DEF Growing, VectorAssumption
    <3>2. \A c \in Nat \ {0}, g \in Nat : g >= 2 => c * g \in Nat /\ c * g > c
      <4>. SUFFICES ASSUME NEW c \in Nat \ {0}, NEW g \in Nat, g >= 2
                    PROVE  c * g \in Nat /\ c * g > c
        OBVIOUS
      <4>1. c * g = c + c * (g - 1) /\ g - 1 \in Nat /\ g - 1 >= 1
        OBVIOUS
      <4>2. c * (g - 1) \in Nat /\ c * (g - 1) >= 1
        BY <4>1
      <4>. QED  BY <4>1, <4>2
    <3>. QED  BY <1>1, <3>1, <3>2
  <2>2. Resizable(n) /\ Grown = Resized(n)
    BY <1>2 DEF CanGrow, Grown
  <2>. HIDE DEF n
  <2>. QED  BY <2>1, <2>2, ResizedVector
<1>3. CASE ~Full
  BY <1>1, <1>3 DEF Full, Grown
<1>. QED  BY <1>2, <1>3

(***************************************************************************)
(* Two ways to change a block: put an element in, take one out             *)
(***************************************************************************)
LEMMA PutVector ==
    ASSUME Growing, VectorInv, NEW c, NEW i \in Nat, i <= Size, NEW d \in Elements,
           Put(c, i, d)
    PROVE  /\ IsVector(vector') /\ ~stray' /\ call' = Append(c, TRUE)
           /\ vector'.size = Size + 1
           /\ \A k \in 0..Size :
                 vector'.data[k] = IF k = i THEN d
                                   ELSE IF k > i THEN vector.data[k - 1] ELSE vector.data[k]
<1>. DEFINE v == Grown
            block == [k \in DOMAIN v.data |->
                         IF k = i THEN d
                         ELSE IF k > i /\ k <= Size THEN v.data[k - 1] ELSE v.data[k]]
<1>1. /\ IsVector(v) /\ v.size = Size /\ Size < v.capacity /\ Size \in Nat
      /\ \A k \in 0..Size - 1 : v.data[k] = vector.data[k]
  BY GrownVector, SizeType DEF Put
<1>2. /\ vector' = [v EXCEPT !.data = block, !.size = Size + 1]
      /\ stray' = (stray \/ Size \notin DOMAIN v.data)
      /\ call' = Append(c, TRUE)
  BY DEF Put, Returns
<1>. HIDE DEF v
<1>3. DOMAIN v.data = 0..v.capacity - 1 /\ v.capacity \in Nat
      /\ \A k \in 0..v.capacity - 1 : v.data[k] \in Elements
  BY <1>1 DEF IsVector
<1>4. block \in [0..v.capacity - 1 -> Elements]
  <2>. SUFFICES ASSUME NEW k \in 0..v.capacity - 1
                PROVE  (IF k = i THEN d
                        ELSE IF k > i /\ k <= Size THEN v.data[k - 1] ELSE v.data[k]) \in Elements
    BY <1>3
  <2>1. k > i => k - 1 \in 0..v.capacity - 1
    BY <1>3
  <2>. QED  BY <1>3, <2>1
<1>5. \A k \in 0..Size : block[k] = IF k = i THEN d
                                    ELSE IF k > i THEN vector.data[k - 1] ELSE vector.data[k]
  <2>. SUFFICES ASSUME NEW k \in 0..Size
                PROVE  block[k] = IF k = i THEN d
                                  ELSE IF k > i THEN vector.data[k - 1] ELSE vector.data[k]
    OBVIOUS
  <2>1. k \in 0..v.capacity - 1 /\ k <= Size
    BY <1>1, <1>3
  <2>2. block[k] = IF k = i THEN d ELSE IF k > i THEN v.data[k - 1] ELSE v.data[k]
    BY <1>3, <2>1
  <2>3. CASE k = i
    BY <2>2, <2>3
  <2>4. CASE k > i
    <3>1. k - 1 \in 0..Size - 1 /\ k # i
      BY <1>1, <2>4
    <3>. QED  BY <1>1, <2>2, <2>4, <3>1
  <2>5. CASE k < i
    <3>1. k \in 0..Size - 1 /\ k # i /\ ~(k > i)
      BY <1>1, <2>5
    <3>. QED  BY <1>1, <2>2, <2>5, <3>1
  <2>. QED  BY <1>1, <2>3, <2>4, <2>5
<1>. HIDE DEF block
<1>6. vector' = [data |-> block, size |-> Size + 1, capacity |-> v.capacity]
  BY <1>1, <1>2 DEF IsVector
<1>7. Size \in DOMAIN v.data
  BY <1>1, <1>3
<1>8. Size + 1 \in Nat /\ v.capacity \in Nat \ {0} /\ Size + 1 <= v.capacity
  BY <1>1, <1>3
<1>. QED  BY <1>2, <1>4, <1>5, <1>6, <1>7, <1>8 DEF IsVector, VectorInv

LEMMA TakeVector ==
    ASSUME VectorInv, NEW c, NEW i \in Nat, i < Size, Take(c, i)
    PROVE  /\ vector # NULL /\ IsVector(vector') /\ ~stray'
           /\ call' = Append(c, vector.data[i])
           /\ vector'.size = Size - 1
           /\ \A k \in 0..Size - 2 :
                 vector'.data[k] = IF k < i THEN vector.data[k] ELSE vector.data[k + 1]
<1>. DEFINE block == [k \in DOMAIN vector.data |->
                         IF k = Size - 1 THEN NULL
                         ELSE IF k >= i /\ k < Size - 1 THEN vector.data[k + 1]
                         ELSE vector.data[k]]
<1>1. /\ vector # NULL /\ IsVector(vector) /\ Size = vector.size /\ Size \in Nat
      /\ Size <= vector.capacity /\ vector.capacity \in Nat \ {0}
      /\ DOMAIN vector.data = 0..vector.capacity - 1
      /\ \A k \in 0..vector.capacity - 1 : vector.data[k] \in Elements
  BY DEF VectorInv, IsVector, Size
<1>2. /\ vector' = [vector EXCEPT !.data = block, !.size = Size - 1]
      /\ stray' = stray /\ call' = Append(c, vector.data[i])
  BY DEF Take, Returns
<1>3. block \in [0..vector.capacity - 1 -> Elements]
  <2>. SUFFICES ASSUME NEW k \in 0..vector.capacity - 1
                PROVE  (IF k = Size - 1 THEN NULL
                        ELSE IF k >= i /\ k < Size - 1 THEN vector.data[k + 1]
                        ELSE vector.data[k]) \in Elements
    BY <1>1
  <2>1. k < Size - 1 => k + 1 \in 0..vector.capacity - 1
    BY <1>1
  <2>. QED  BY <1>1, <2>1 DEF Elements
<1>4. \A k \in 0..Size - 2 :
         block[k] = IF k < i THEN vector.data[k] ELSE vector.data[k + 1]
  <2>. SUFFICES ASSUME NEW k \in 0..Size - 2
                PROVE  block[k] = IF k < i THEN vector.data[k] ELSE vector.data[k + 1]
    OBVIOUS
  <2>1. k \in DOMAIN vector.data /\ k # Size - 1 /\ k < Size - 1 /\ (k >= i <=> ~(k < i))
    BY <1>1
  <2>. QED  BY <2>1
<1>. HIDE DEF block
<1>5. vector' = [data |-> block, size |-> Size - 1, capacity |-> vector.capacity]
  BY <1>1, <1>2 DEF IsVector
<1>6. Size - 1 \in Nat /\ Size - 1 <= vector.capacity
  BY <1>1
<1>. QED  BY <1>1, <1>2, <1>3, <1>4, <1>5, <1>6 DEF IsVector, VectorInv

(***************************************************************************)
(* The binary search                                                       *)
(***************************************************************************)
Spans == (0..Size) \X (-1..Size - 1)
Left(s) == s[1]
Right(s) == s[2]
Middle(s) == Left(s) + (Right(s) - Left(s)) \div 2

(* One turn of the loop: what f makes of a span.                           *)
Turn(f, target, below, s) ==
    IF Left(s) > Right(s) THEN -1
    ELSE IF vector.data[Middle(s)] = target THEN Middle(s)
    ELSE IF vector.data[Middle(s)] \in below THEN f[<<Middle(s) + 1, Right(s)>>]
    ELSE IF Middle(s) = 0 THEN -1 ELSE f[<<Left(s), Middle(s) - 1>>]

LEMMA MiddleWithin ==
    ASSUME NEW l \in Int, NEW r \in Int, l <= r
    PROVE  Middle(<<l, r>>) \in l..r
<1>1. \A k \in Nat : k \div 2 \in 0..k
  OBVIOUS
<1>2. r - l \in Nat
  OBVIOUS
<1>. QED  BY <1>1, <1>2 DEF Middle, Left, Right

(* The loop ends: each turn leaves a shorter span.                         *)
LEMMA SearchExists ==
    ASSUME VectorInv, NEW target, NEW below
    PROVE  \E f : f = [s \in Spans |-> Turn(f, target, below, s)]
<1>. DEFINE here(s) == vector.data[Middle(s)]
            base == {s \in Spans : \/ Left(s) > Right(s) \/ here(s) = target
                                   \/ here(s) \notin below /\ Middle(s) = 0}
            val == [s \in base |-> IF Left(s) <= Right(s) /\ here(s) = target THEN Middle(s) ELSE -1]
            next == [s \in Spans \ base |-> IF here(s) \in below THEN <<Middle(s) + 1, Right(s)>>
                                             ELSE <<Left(s), Middle(s) - 1>>]
            step == [s \in Spans \ base |-> [v \in Int |-> v]]
            rank == [s \in Spans |-> IF Left(s) > Right(s) THEN 0 ELSE Right(s) - Left(s) + 1]
<1>1. Size \in Nat
  BY SizeType
<1>2. \A s \in Spans : /\ Left(s) \in 0..Size /\ Right(s) \in -1..Size - 1
                       /\ Left(s) \in Int /\ Right(s) \in Int /\ Right(s) - Left(s) + 1 <= Size
                       /\ Left(s) <= Right(s) => Middle(s) \in Left(s)..Right(s) /\ Middle(s) \in Int
                       /\ Left(s) > Right(s) <=> ~(Left(s) <= Right(s))
  <2>1. \A s \in Spans : s = <<Left(s), Right(s)>> /\ Left(s) \in 0..Size /\ Right(s) \in -1..Size - 1
    BY DEF Spans, Left, Right
  <2>2. \A s \in Spans : Left(s) \in Int /\ Right(s) \in Int /\ Right(s) - Left(s) + 1 <= Size
    BY <1>1, <2>1
  <2>3. \A l, r \in Int : \A m \in l..r : m \in Int
    OBVIOUS
  <2>4. \A l, r \in Int : l > r <=> ~(l <= r)
    OBVIOUS
  <2>5. \A s \in Spans : Left(s) <= Right(s) => Middle(s) \in Left(s)..Right(s)
    BY <2>1, <2>2, MiddleWithin
  <2>. QED  BY <2>1, <2>2, <2>3, <2>4, <2>5
<1>. HIDE DEF here
<1>3. base \in SUBSET Spans /\ val \in [base -> Int]
  <2>1. base \subseteq Spans
    OBVIOUS
  <2>2. \A s \in base : (IF Left(s) <= Right(s) /\ here(s) = target THEN Middle(s) ELSE -1) \in Int
    BY <1>2, <2>1
  <2>. QED  BY <2>1, <2>2
<1>4. ASSUME NEW s \in Spans \ base
      PROVE  /\ next[s] \in Spans
             /\ rank[next[s]] < rank[s]
  <2>1. /\ Left(s) \in Nat /\ Right(s) \in Nat /\ Left(s) <= Right(s) /\ Right(s) <= Size - 1
        /\ Middle(s) \in Left(s)..Right(s) /\ Middle(s) \in Nat
        /\ here(s) \notin below => Middle(s) # 0
    <3>1. Left(s) <= Right(s) /\ (here(s) \notin below => Middle(s) # 0)
      BY <1>2
    <3>. HIDE DEF base
    <3>2. Left(s) \in 0..Size /\ Right(s) \in -1..Size - 1 /\ Middle(s) \in Left(s)..Right(s) /\ Middle(s) \in Int
      BY <1>2, <3>1
    <3>. QED  BY <1>1, <3>1, <3>2
  <2>2. CASE here(s) \in below
    <3>1. next[s] = <<Middle(s) + 1, Right(s)>>
      BY <2>2
    <3>2. next[s] \in Spans
      BY <1>1, <2>1, <3>1 DEF Spans
    <3>3. Left(next[s]) = Middle(s) + 1 /\ Right(next[s]) = Right(s)
      BY <3>1 DEF Left, Right
    <3>4. rank[next[s]] = IF Middle(s) + 1 > Right(s) THEN 0 ELSE Right(s) - (Middle(s) + 1) + 1
      BY <3>2, <3>3
    <3>5. rank[s] = Right(s) - Left(s) + 1
      BY <2>1
    <3>. QED  BY <2>1, <3>2, <3>4, <3>5
  <2>3. CASE here(s) \notin below
    <3>1. next[s] = <<Left(s), Middle(s) - 1>>
      BY <2>3
    <3>2. next[s] \in Spans
      BY <1>1, <2>1, <2>3, <3>1 DEF Spans
    <3>3. Left(next[s]) = Left(s) /\ Right(next[s]) = Middle(s) - 1
      BY <3>1 DEF Left, Right
    <3>4. rank[next[s]] = IF Left(s) > Middle(s) - 1 THEN 0 ELSE Middle(s) - 1 - Left(s) + 1
      BY <3>2, <3>3
    <3>5. rank[s] = Right(s) - Left(s) + 1
      BY <2>1
    <3>. QED  BY <2>1, <3>2, <3>4, <3>5
  <2>. QED  BY <2>2, <2>3
<1>5. next \in [Spans \ base -> Spans] /\ step \in [Spans \ base -> [Int -> Int]]
  BY <1>4
<1>6. rank \in [Spans -> 0..Size]
  <2>1. \A s \in Spans : (IF Left(s) > Right(s) THEN 0 ELSE Right(s) - Left(s) + 1) \in 0..Size
    BY <1>1, <1>2
  <2>. QED  BY <2>1
<1>7. -1 \in Int
  OBVIOUS
<1>. HIDE DEF base, val, next, step, rank
<1>8. PICK f \in [Spans -> Int] : \A s \in Spans :
         f[s] = IF s \in base THEN val[s] ELSE step[s][f[next[s]]]
  <2>1. Descends(Spans, Int, base, val, next, step, rank, Size)
    BY <1>1, <1>3, <1>4, <1>5, <1>6, <1>7 DEF Descends
  <2>. QED  BY <2>1, RecursionExists
<1>9. ASSUME NEW s \in Spans  PROVE f[s] = Turn(f, target, below, s)
  <2>1. CASE s \in base
    <3>1. f[s] = IF Left(s) <= Right(s) /\ here(s) = target THEN Middle(s) ELSE -1
      BY <1>8, <2>1 DEF val
    <3>2. Left(s) > Right(s) <=> ~(Left(s) <= Right(s))
      BY <1>2
    <3>. QED  BY <2>1, <3>1, <3>2 DEF base, Turn, here
  <2>2. CASE s \notin base
    <3>1. f[s] = f[next[s]]
      <4>1. f[next[s]] \in Int
        BY <1>4, <2>2
      <4>. QED  BY <1>8, <2>2, <4>1 DEF step
    <3>. QED  BY <2>2, <3>1 DEF next, base, Turn, here
  <2>. QED  BY <2>1, <2>2
<1>. QED  BY <1>9

LEMMA SearchTurns ==
    ASSUME VectorInv, NEW target, NEW below
    PROVE  \E f : /\ BinarySearch(target, below) = f[<<0, Size - 1>>]
                  /\ \A s \in Spans : f[s] = Turn(f, target, below, s)
<1>. DEFINE f == CHOOSE g : g = [s \in Spans |-> Turn(g, target, below, s)]
<1>1. f = [s \in Spans |-> Turn(f, target, below, s)]
  BY SearchExists
<1>2. BinarySearch(target, below) = f[<<0, Size - 1>>]
  BY DEF BinarySearch, Spans, Turn, Middle, Left, Right
<1>. HIDE DEF f
<1>. QED  BY <1>1, <1>2

(* below are the elements that the caller's cmp finds smaller than target: *)
(* the smaller ones come first, the greater ones last.                     *)
Ordered(target, below) ==
    \A i, j \in 0..Size - 1 : i < j =>
        /\ vector.data[j] \in below => vector.data[i] \in below
        /\ vector.data[j] = target => vector.data[i] \in below \cup {target}

(* What a search of span s may return.                                     *)
Outcome(result, target, below, s) ==
    \/ result \in Left(s)..Right(s) /\ vector.data[result] = target
    \/ /\ result = -1
       /\ Ordered(target, below) =>
             \A k \in Left(s)..Right(s) : vector.data[k] # target

LEMMA SearchOutcome ==
    ASSUME VectorInv, NEW target, NEW below, target \notin below, NEW f,
           \A s \in Spans : f[s] = Turn(f, target, below, s)
    PROVE  \A s \in Spans : Outcome(f[s], target, below, s)
<1>. DEFINE good == {n \in Nat : \A s \in Spans :
                        Right(s) - Left(s) + 1 <= n => Outcome(f[s], target, below, s)}
<1>1. Size \in Nat
  BY SizeType
<1>2. \A s \in Spans : /\ Left(s) \in 0..Size /\ Right(s) \in -1..Size - 1
                       /\ Left(s) \in Nat /\ Right(s) \in Int
                       /\ Right(s) - Left(s) + 1 <= Size
  <2>1. \A s \in Spans : s = <<Left(s), Right(s)>> /\ Left(s) \in 0..Size /\ Right(s) \in -1..Size - 1
    BY DEF Spans, Left, Right
  <2>. QED  BY <1>1, <2>1
<1>3. ASSUME NEW n \in Nat, \A k \in 0..n - 1 : k \in good,
             NEW s \in Spans, Right(s) - Left(s) + 1 <= n
      PROVE  Outcome(f[s], target, below, s)
  <2>. DEFINE m == Middle(s)
              here == vector.data[m]
  <2>1. CASE Left(s) > Right(s)
    <3>1. f[s] = -1
      BY <2>1 DEF Turn
    <3>2. \A k \in Left(s)..Right(s) : FALSE
      BY <1>2, <2>1
    <3>. QED  BY <3>1, <3>2 DEF Outcome
  <2>2. CASE Left(s) <= Right(s)
    <3>1. /\ m \in Left(s)..Right(s) /\ m \in 0..Size - 1 /\ ~(Left(s) > Right(s))
          /\ Left(s) \in Nat /\ Right(s) \in Nat /\ Right(s) <= Size - 1 /\ m \in Nat
      <4>1. Middle(<<Left(s), Right(s)>>) \in Left(s)..Right(s)
        BY <1>2, <2>2, MiddleWithin
      <4>2. Middle(<<Left(s), Right(s)>>) = m
        BY DEF Middle, Left, Right
      <4>. HIDE DEF m
      <4>3. Left(s) \in Nat /\ Right(s) \in Int /\ Left(s) \in 0..Size /\ Right(s) \in -1..Size - 1
        BY <1>2
      <4>. QED  BY <1>1, <2>2, <4>1, <4>2, <4>3
    <3>. HIDE DEF m
    (* A shorter span that was left to search.                             *)
    <3>2. ASSUME NEW l \in 0..Size, NEW r \in -1..Size - 1, r - l < Right(s) - Left(s),
                 Left(s) <= l, r <= Right(s), f[s] = f[<<l, r>>],
                 Ordered(target, below) =>
                     \A k \in Left(s)..Right(s) : k \in l..r \/ vector.data[k] # target
          PROVE  Outcome(f[s], target, below, s)
      <4>. DEFINE t == <<l, r>>
      <4>1. t \in Spans /\ Left(t) = l /\ Right(t) = r
        BY DEF Spans, Left, Right
      <4>2. l \in Int /\ r \in Int /\ n - 1 \in 0..n - 1 /\ r - l + 1 <= n - 1
        BY <1>1, <1>3, <2>2, <3>1, <3>2
      <4>3. Outcome(f[t], target, below, t)
        <5>1. n - 1 \in good
          BY <1>3, <4>2
        <5>. HIDE DEF t
        <5>. QED  BY <4>1, <4>2, <5>1
      <4>4. \A k \in l..r : k \in Left(s)..Right(s)
        BY <3>1, <3>2, <4>2
      <4>. HIDE DEF t
      <4>5. f[s] = f[t]
        BY <3>2 DEF t
      <4>. QED  BY <3>2, <4>1, <4>3, <4>4, <4>5 DEF Outcome
    <3>3. CASE here = target
      <4>1. f[s] = m
        BY <3>1, <3>3 DEF Turn, m
      <4>. QED  BY <3>1, <3>3, <4>1 DEF Outcome
    <3>4. CASE here # target /\ here \in below
      <4>1. f[s] = f[<<m + 1, Right(s)>>]
        BY <3>1, <3>4 DEF Turn, m
      <4>2. ASSUME Ordered(target, below), NEW k \in Left(s)..Right(s), k \notin m + 1..Right(s)
            PROVE  vector.data[k] # target
        <5>1. k \in 0..Size - 1 /\ (k = m \/ k < m)
          BY <1>1, <3>1, <4>2
        <5>2. k < m => vector.data[k] \in below
          BY <3>1, <3>4, <4>2, <5>1 DEF Ordered
        <5>. QED  BY <3>4, <5>1, <5>2
      <4>3. m + 1 \in 0..Size /\ Right(s) \in -1..Size - 1 /\ Right(s) - (m + 1) < Right(s) - Left(s)
            /\ Left(s) <= m + 1 /\ Right(s) <= Right(s)
        BY <1>1, <3>1
      <4>. QED  BY <3>2, <4>1, <4>2, <4>3
    <3>5. CASE here # target /\ here \notin below
      <4>1. ASSUME Ordered(target, below), NEW k \in Left(s)..Right(s), k >= m
            PROVE  vector.data[k] # target
        <5>1. k \in 0..Size - 1 /\ (k = m \/ m < k)
          BY <1>1, <3>1, <4>1
        <5>2. m < k /\ vector.data[k] = target => here \in below \cup {target}
          BY <3>1, <4>1, <5>1 DEF Ordered
        <5>. QED  BY <3>5, <5>1, <5>2
      <4>2. CASE m = 0
        <5>1. f[s] = -1
          BY <3>1, <3>5, <4>2 DEF Turn, m
        <5>2. \A k \in Left(s)..Right(s) : k >= m
          BY <3>1, <4>2
        <5>. QED  BY <4>1, <5>1, <5>2 DEF Outcome
      <4>3. CASE m # 0
        <5>1. f[s] = f[<<Left(s), m - 1>>]
          BY <3>1, <3>5, <4>3 DEF Turn, m
        <5>2. \A k \in Left(s)..Right(s) : k \in Left(s)..m - 1 \/ k >= m
          BY <3>1
        <5>3. Left(s) \in 0..Size /\ m - 1 \in -1..Size - 1 /\ m - 1 - Left(s) < Right(s) - Left(s)
              /\ Left(s) <= Left(s) /\ m - 1 <= Right(s)
          BY <1>1, <3>1, <4>3
        <5>. QED  BY <3>2, <4>1, <5>1, <5>2, <5>3
      <4>. QED  BY <4>2, <4>3
    <3>. QED  BY <3>3, <3>4, <3>5
  <2>3. Left(s) > Right(s) \/ Left(s) <= Right(s)
    BY <1>2
  <2>. QED  BY <2>1, <2>2, <2>3
<1>4. Nat \subseteq good
  <2>1. \A n \in Nat : (\A k \in 0..n - 1 : k \in good) => n \in good
    BY <1>3
  <2>. HIDE DEF good
  <2>. QED  BY <2>1, NoLeastMissing
<1>5. Size \in good
  <2>. HIDE DEF good
  <2>. QED  BY <1>1, <1>4
<1>. QED  BY <1>2, <1>5

(* The search returns a place of target, or -1 where there is none.        *)
LEMMA SearchFinds ==
    ASSUME VectorInv, NEW target, NEW below, target \notin below,
           NEW result, result = BinarySearch(target, below)
    PROVE  \/ result \in 0..Size - 1 /\ vector.data[result] = target
           \/ /\ result = -1
              /\ Ordered(target, below) => \A k \in 0..Size - 1 : vector.data[k] # target
<1>1. PICK f : /\ BinarySearch(target, below) = f[<<0, Size - 1>>]
               /\ \A s \in Spans : f[s] = Turn(f, target, below, s)
  BY SearchTurns
<1>. DEFINE s == <<0, Size - 1>>
<1>2. s \in Spans /\ Left(s) = 0 /\ Right(s) = Size - 1
  BY SizeType DEF Spans, Left, Right
<1>3. f[s] = result
  BY <1>1
<1>. HIDE DEF s
<1>4. Outcome(f[s], target, below, s)
  BY <1>1, <1>2, SearchOutcome
<1>. QED  BY <1>2, <1>3, <1>4 DEF Outcome

(***************************************************************************)
(* The block as a sequence                                                 *)
(***************************************************************************)
View == IF vector = NULL THEN NULL ELSE Items

LEMMA ItemsType ==
    ASSUME VectorInv, vector # NULL
    PROVE  /\ Items \in Seq(Elements) /\ Len(Items) = Size
           /\ \A i \in 1..Size : Items[i] = vector.data[i - 1]
<1>1. Size \in Nat /\ Size <= vector.capacity /\ vector.capacity \in Nat
      /\ \A k \in 0..vector.capacity - 1 : vector.data[k] \in Elements
  BY DEF VectorInv, IsVector, Size
<1>2. \A i \in 1..Size : vector.data[i - 1] \in Elements
  <2>1. \A i \in 1..Size : i - 1 \in 0..vector.capacity - 1
    BY <1>1
  <2>. QED  BY <1>1, <2>1
<1>3. Items \in [1..Size -> Elements]
  BY <1>2 DEF Items
<1>4. Items \in Seq(Elements) /\ Len(Items) = Size
  BY <1>1, <1>3
<1>. QED  BY <1>4 DEF Items

(* The abstract sequence, read through the mapping.                        *)
LEMMA AbstractView ==
    ASSUME VectorInv, NullApart
    PROVE  /\ Abstract!Size = Size /\ Abstract!Elements = Elements
           /\ (View = NULL) <=> (vector = NULL)
           /\ vector # NULL => View = Items
           /\ \A i \in 0..Size - 1 : Abstract!At(i) = vector.data[i]
<1>1. CASE vector = NULL
  <2>1. Size = 0 /\ View = NULL /\ Abstract!Size = 0 /\ Abstract!Elements = Elements
    BY <1>1 DEF Size, View, Abstract!Size, Abstract!Elements, Elements
  <2>. QED  BY <1>1, <2>1
<1>2. CASE vector # NULL
  <2>1. /\ Items \in Seq(Elements) /\ Len(Items) = Size /\ Items # NULL /\ View = Items
        /\ \A i \in 1..Size : Items[i] = vector.data[i - 1]
    BY <1>2, ItemsType DEF NullApart, View
  <2>2. Abstract!Size = Size /\ Abstract!Elements = Elements
    BY <1>2, <2>1 DEF Abstract!Size, Abstract!Elements, Elements
  <2>3. \A i \in 0..Size - 1 : Abstract!At(i) = vector.data[i]
    <3>1. Size \in Nat
      BY SizeType
    <3>2. \A i \in 0..Size - 1 : i + 1 \in 1..Size /\ (i + 1) - 1 = i
      BY <3>1
    <3>. QED  BY <1>2, <2>1, <2>2, <3>2 DEF Abstract!At
  <2>4. View = NULL <=> vector = NULL
    BY <1>2, <2>1
  <2>. QED  BY <2>1, <2>2, <2>3, <2>4
<1>. QED  BY <1>1, <1>2

(* What a step leaves is the sequence s if it agrees with it everywhere.   *)
LEMMA ViewAfter ==
    ASSUME NullApart, IsVector(vector'), NEW s \in Seq(Elements), Len(s) = vector'.size,
           \A k \in 0..vector'.size - 1 : vector'.data[k] = s[k + 1]
    PROVE  View' = s
<1>. DEFINE n == vector'.size
            t == [i \in 1..n |-> vector'.data[i - 1]]
<1>1. vector' # NULL /\ n \in Nat
  BY DEF NullApart, IsVector
<1>2. View' = t
  BY <1>1 DEF View, Items, Size
<1>. HIDE DEF n
<1>3. \A i \in 1..n : i - 1 \in 0..n - 1 /\ (i - 1) + 1 = i
  BY <1>1
<1>4. \A i \in 1..n : t[i] = s[i]
  BY <1>3 DEF n
<1>5. t \in Seq(Elements) /\ Len(t) = n
  <2>1. \A i \in 1..n : s[i] \in Elements
    BY ElementOfSeq DEF n
  <2>2. t \in [1..n -> Elements]
    BY <1>4, <2>1
  <2>. QED  BY <1>1, <2>2
<1>. HIDE DEF t
<1>6. t = s
  BY <1>4, <1>5, SeqEqual DEF n
<1>. QED  BY <1>2, <1>6

LEMMA PutIsInsertion ==
    ASSUME Growing, VectorInv, NullApart, NEW c, NEW i \in Nat, i <= Size,
           NEW d \in Elements, Put(c, i, d)
    PROVE  VectorInv' /\ Abstract!Insert(c, i, d)
<1>1. /\ IsVector(vector') /\ ~stray' /\ call' = Append(c, TRUE)
      /\ vector'.size = Size + 1
      /\ \A k \in 0..Size :
            vector'.data[k] = IF k = i THEN d
                              ELSE IF k > i THEN vector.data[k - 1] ELSE vector.data[k]
  BY PutVector
<1>2. vector # NULL /\ Size \in Nat
  BY SizeType DEF Put
<1>3. Items \in Seq(Elements) /\ Len(Items) = Size /\ \A k \in 1..Size : Items[k] = vector.data[k - 1]
  BY <1>2, ItemsType
<1>. DEFINE s == InsertAt(Items, i + 1, d)
<1>4. /\ s \in Seq(Elements) /\ Len(s) = Size + 1
      /\ \A k \in 1..Size + 1 :
            s[k] = IF k < i + 1 THEN Items[k] ELSE IF k = i + 1 THEN d ELSE Items[k - 1]
  <2>. DEFINE j == i + 1
  <2>1. j \in 1..Len(Items) + 1
    BY <1>2, <1>3
  <2>. DEFINE items == Items
  <2>2. items \in Seq(Elements) /\ d \in Elements /\ j \in 1..Len(items) + 1
    BY <1>3, <2>1
  <2>. HIDE DEF j, items
  <2>3. /\ InsertAt(items, j, d) \in Seq(Elements)
        /\ Len(InsertAt(items, j, d)) = Len(items) + 1
        /\ \A k \in 1..Len(items) + 1 :
              InsertAt(items, j, d)[k] = IF k < j THEN items[k] ELSE IF k = j THEN d ELSE items[k - 1]
    BY <2>2, Inserted
  <2>. QED  BY <1>3, <2>3 DEF j, items
<1>. HIDE DEF s
<1>5. ASSUME NEW k \in 0..Size  PROVE vector'.data[k] = s[k + 1]
  <2>1. k + 1 \in 1..Size + 1 /\ k \in Int /\ (k + 1) - 1 = k
    BY <1>2
  <2>2. s[k + 1] = IF k + 1 < i + 1 THEN Items[k + 1]
                   ELSE IF k + 1 = i + 1 THEN d ELSE Items[k]
    BY <1>4, <2>1
  <2>3. CASE k = i
    <3>1. ~(k + 1 < i + 1) /\ k + 1 = i + 1
      BY <2>3
    <3>. QED  BY <1>1, <2>2, <2>3, <3>1
  <2>4. CASE k > i
    <3>1. k \in 1..Size /\ ~(k + 1 < i + 1) /\ k + 1 # i + 1 /\ k # i
      BY <1>2, <2>4
    <3>2. Items[k] = vector.data[k - 1]
      BY <1>3, <3>1
    <3>. QED  BY <1>1, <2>2, <2>4, <3>1, <3>2
  <2>5. CASE k < i
    <3>1. k + 1 \in 1..Size /\ k + 1 < i + 1 /\ k # i /\ ~(k > i)
      BY <1>2, <2>5
    <3>2. Items[k + 1] = vector.data[k]
      BY <1>3, <2>1, <3>1
    <3>. QED  BY <1>1, <2>2, <3>1, <3>2
  <2>6. k = i \/ k > i \/ k < i
    BY <2>1
  <2>. QED  BY <2>3, <2>4, <2>5, <2>6
<1>6. View' = s
  <2>1. vector'.size - 1 = Size
    BY <1>1, <1>2
  <2>2. \A k \in 0..vector'.size - 1 : vector'.data[k] = s[k + 1]
    BY <1>5, <2>1
  <2>. QED  BY <1>1, <1>4, <2>2, ViewAfter
<1>7. VectorInv'
  BY <1>1 DEF VectorInv
<1>8. View # NULL /\ View = Items /\ i <= Abstract!Size
  BY <1>2, AbstractView
<1>9. s = Abstract!InsertAt(View, i + 1, d)
  BY <1>8 DEF s, InsertAt, Abstract!InsertAt
<1>10. View # NULL /\ i <= Abstract!Size /\ Abstract!Becomes(c, Abstract!InsertAt(View, i + 1, d), TRUE)
  BY <1>1, <1>6, <1>8, <1>9 DEF Abstract!Becomes, View
<1>. QED  BY <1>7, <1>10 DEF Abstract!Insert, View

LEMMA TakeIsRemoval ==
    ASSUME VectorInv, NullApart, NEW c, NEW i \in Nat, i < Size, Take(c, i)
    PROVE  VectorInv' /\ Abstract!RemoveItem(c, i)
<1>1. /\ vector # NULL /\ IsVector(vector') /\ ~stray'
      /\ call' = Append(c, vector.data[i])
      /\ vector'.size = Size - 1
      /\ \A k \in 0..Size - 2 :
            vector'.data[k] = IF k < i THEN vector.data[k] ELSE vector.data[k + 1]
  BY TakeVector
<1>2. Size \in Nat
  BY SizeType
<1>3. Items \in Seq(Elements) /\ Len(Items) = Size /\ \A k \in 1..Size : Items[k] = vector.data[k - 1]
  BY <1>1, ItemsType
<1>. DEFINE s == RemoveAt(Items, i + 1)
<1>4. /\ s \in Seq(Elements) /\ Len(s) = Size - 1
      /\ \A k \in 1..Size - 1 : s[k] = IF k < i + 1 THEN Items[k] ELSE Items[k + 1]
  <2>1. i + 1 \in 1..Len(Items)
    BY <1>2, <1>3
  <2>. QED  BY <1>3, <2>1, Removed
<1>. HIDE DEF s
<1>5. ASSUME NEW k \in 0..Size - 2  PROVE vector'.data[k] = s[k + 1]
  <2>1. /\ k + 1 \in 1..Size - 1 /\ k + 1 \in 1..Size /\ (k + 1) + 1 \in 1..Size /\ k \in Int
        /\ (k + 1) - 1 = k /\ ((k + 1) + 1) - 1 = k + 1 /\ (k + 1 < i + 1 <=> k < i)
    BY <1>2
  <2>2. s[k + 1] = IF k + 1 < i + 1 THEN Items[k + 1] ELSE Items[(k + 1) + 1]
    BY <1>4, <2>1
  <2>3. Items[k + 1] = vector.data[k] /\ Items[(k + 1) + 1] = vector.data[k + 1]
    BY <1>3, <2>1
  <2>. QED  BY <1>1, <2>1, <2>2, <2>3
<1>6. View' = s
  <2>1. vector'.size - 1 = Size - 2
    BY <1>1, <1>2
  <2>2. \A k \in 0..vector'.size - 1 : vector'.data[k] = s[k + 1]
    BY <1>5, <2>1
  <2>. QED  BY <1>1, <1>4, <2>2, ViewAfter
<1>7. VectorInv'
  BY <1>1 DEF VectorInv
<1>8. i \in 0..Abstract!Size - 1 /\ Abstract!At(i) = vector.data[i] /\ View = Items
  BY <1>1, <1>2, AbstractView
<1>9. s = Abstract!RemoveAt(View, i + 1)
  BY <1>8 DEF s, RemoveAt, Abstract!RemoveAt
<1>10. Abstract!Becomes(c, Abstract!RemoveAt(View, i + 1), Abstract!At(i))
  BY <1>1, <1>6, <1>8, <1>9 DEF Abstract!Becomes, View
<1>. QED  BY <1>7, <1>8, <1>10 DEF Abstract!RemoveItem, View

LEMMA FailingStep ==
    ASSUME VectorInv, NEW c, NEW result, Fails(c, result)
    PROVE  VectorInv' /\ View' = View /\ Abstract!Refuses(c, result)
BY DEF Fails, Returns, VectorInv, View, Items, Size, Abstract!Refuses

(* Exchanging the block for another one does not show.                     *)
LEMMA ResizeHidden ==
    ASSUME Growing, VectorInv, NullApart, NEW n \in Nat \ {0}, Resizable(n),
           vector' = Resized(n), UNCHANGED stray
    PROVE  VectorInv' /\ View' = View
<1>1. /\ IsVector(vector') /\ vector'.size = Size
      /\ \A k \in 0..Size - 1 : vector'.data[k] = vector.data[k]
  BY ResizedVector
<1>2. vector # NULL /\ Size \in Nat
  BY SizeType DEF Resizable
<1>3. Items \in Seq(Elements) /\ Len(Items) = Size /\ \A k \in 1..Size : Items[k] = vector.data[k - 1]
  BY <1>2, ItemsType
<1>4. ASSUME NEW k \in 0..vector'.size - 1  PROVE vector'.data[k] = Items[k + 1]
  <2>1. k \in 0..Size - 1 /\ k + 1 \in 1..Size /\ (k + 1) - 1 = k
    BY <1>1, <1>2
  <2>. QED  BY <1>1, <1>3, <2>1
<1>5. View' = Items
  BY <1>1, <1>3, <1>4, ViewAfter
<1>. QED  BY <1>1, <1>2, <1>5 DEF VectorInv, View

(***************************************************************************)
(* Every call is a call of the abstract sequence                           *)
(***************************************************************************)
LEMMA CreateStep ==
    ASSUME Growing, VectorInv, NullApart, Create
    PROVE  VectorInv' /\ Abstract!Create /\ call'[1] = "create"
<1>. DEFINE N == VECTOR_INITIAL_CAPACITY
            block == [i \in 0..N - 1 |-> NULL]
<1>1. CASE vector' = [data |-> block, size |-> 0, capacity |-> N] /\ UNCHANGED stray
           /\ Returns(<<"create">>, TRUE)
  <2>1. N \in Nat \ {0} /\ block \in [0..N - 1 -> Elements]
    BY DEF Growing, VectorAssumption, Elements
  <2>. HIDE DEF block
  <2>2. IsVector(vector') /\ vector'.size = 0
    BY <1>1, <2>1 DEF IsVector
  <2>3. <<>> \in Seq(Elements) /\ Len(<<>>) = 0 /\ \A k \in 0..0 - 1 : FALSE
    OBVIOUS
  <2>4. View' = <<>>
    BY <2>2, <2>3, ViewAfter
  <2>5. VectorInv'
    BY <1>1, <2>2 DEF VectorInv
  <2>6. call' = Append(<<"create">>, TRUE)
    BY <1>1 DEF Returns
  <2>. QED  BY <2>4, <2>5, <2>6, Names DEF Abstract!Create, Abstract!Becomes, View
<1>2. CASE Fails(<<"create">>, FALSE)
  <2>1. VectorInv' /\ Abstract!Refuses(<<"create">>, FALSE)
    BY <1>2, FailingStep
  <2>. QED  BY <2>1, Names DEF Abstract!Create, Abstract!Refuses
<1>. QED  BY <1>1, <1>2 DEF Create

LEMMA AddBackStep ==
    ASSUME Growing, VectorInv, NullApart, AddBack
    PROVE  VectorInv' /\ Abstract!Inserts /\ call'[1] = "push_back"
<1>1. PICK d \in Elements : \/ Put(<<"push_back", d>>, Size, d)
                            \/ Fails(<<"push_back", d>>, FALSE)
  BY DEF AddBack
<1>2. VectorInv' /\ Abstract!Insert(<<"push_back", d>>, Size, d)
  <2>1. CASE Put(<<"push_back", d>>, Size, d)
    <3>1. Size \in Nat /\ Size <= Size
      BY SizeType
    <3>. QED  BY <2>1, <3>1, PutIsInsertion
  <2>2. CASE Fails(<<"push_back", d>>, FALSE)
    BY <2>2, FailingStep DEF Abstract!Insert
  <2>. QED  BY <1>1, <2>1, <2>2
<1>3. call'[1] = "push_back"
  <2>1. call' = Append(<<"push_back", d>>, FALSE) \/ call' = Append(<<"push_back", d>>, TRUE)
    BY <1>2 DEF Abstract!Insert, Abstract!Refuses, Abstract!Becomes
  <2>2. Append(<<"push_back", d>>, FALSE)[1] = "push_back"
    BY Names
  <2>3. Append(<<"push_back", d>>, TRUE)[1] = "push_back"
    BY Names
  <2>. QED  BY <2>1, <2>2, <2>3
<1>4. Abstract!Size = Size /\ d \in Abstract!Elements
  BY AbstractView
<1>. QED  BY <1>2, <1>3, <1>4 DEF Abstract!Inserts

LEMMA InsertStep ==
    ASSUME Growing, VectorInv, NullApart, Insert
    PROVE  VectorInv' /\ Abstract!Inserts /\ call'[1] = "insert"
<1>1. PICK i \in Indices, d \in Elements :
         \/ i <= Size /\ d # NULL /\ Put(<<"insert", i, d>>, i, d)
         \/ Fails(<<"insert", i, d>>, FALSE)
  BY DEF Insert
<1>2. VectorInv' /\ Abstract!Insert(<<"insert", i, d>>, i, d)
  <2>1. CASE i <= Size /\ Put(<<"insert", i, d>>, i, d)
    <3>1. i \in Nat
      BY DEF Growing, VectorAssumption
    <3>. QED  BY <2>1, <3>1, PutIsInsertion
  <2>2. CASE Fails(<<"insert", i, d>>, FALSE)
    BY <2>2, FailingStep DEF Abstract!Insert
  <2>. QED  BY <1>1, <2>1, <2>2
<1>3. call'[1] = "insert"
  <2>1. call' = Append(<<"insert", i, d>>, FALSE) \/ call' = Append(<<"insert", i, d>>, TRUE)
    BY <1>2 DEF Abstract!Insert, Abstract!Refuses, Abstract!Becomes
  <2>2. Append(<<"insert", i, d>>, FALSE)[1] = "insert"
    BY Names
  <2>3. Append(<<"insert", i, d>>, TRUE)[1] = "insert"
    BY Names
  <2>. QED  BY <2>1, <2>2, <2>3
<1>4. d \in Abstract!Elements
  BY AbstractView
<1>. QED  BY <1>2, <1>3, <1>4 DEF Abstract!Inserts

LEMMA PopBackStep ==
    ASSUME VectorInv, NullApart, PopBack
    PROVE  VectorInv' /\ Abstract!Removes /\ call'[1] = "pop_back"
<1>1. Abstract!Size = Size /\ Size \in Nat
  BY AbstractView, SizeType
<1>2. VectorInv' /\ Abstract!RemoveItem(<<"pop_back">>, Size - 1)
  <2>1. CASE Size = 0
    <3>1. VectorInv' /\ Abstract!Refuses(<<"pop_back">>, NULL)
      BY <2>1, FailingStep DEF PopBack
    <3>2. Size - 1 \notin 0..Size - 1
      BY <2>1
    <3>. QED  BY <1>1, <3>1, <3>2 DEF Abstract!RemoveItem
  <2>2. CASE Size # 0
    <3>1. Size - 1 \in Nat /\ Size - 1 < Size
      BY <1>1, <2>2
    <3>. QED  BY <2>2, <3>1, TakeIsRemoval DEF PopBack
  <2>. QED  BY <2>1, <2>2
<1>3. call'[1] = "pop_back"
  BY <1>2, Names DEF Abstract!RemoveItem, Abstract!Refuses, Abstract!Becomes
<1>. QED  BY <1>1, <1>2, <1>3 DEF Abstract!Removes

LEMMA RemoveStep ==
    ASSUME Growing, VectorInv, NullApart, RemoveIndex
    PROVE  VectorInv' /\ Abstract!Removes /\ call'[1] = "remove"
<1>1. PICK i \in Indices : IF i >= Size THEN Fails(<<"remove", i>>, NULL)
                                        ELSE Take(<<"remove", i>>, i)
  BY DEF RemoveIndex
<1>2. Abstract!Size = Size /\ Size \in Nat /\ i \in Nat
  BY AbstractView, SizeType DEF Growing, VectorAssumption
<1>3. VectorInv' /\ Abstract!RemoveItem(<<"remove", i>>, i)
  <2>1. CASE i >= Size
    <3>1. VectorInv' /\ Abstract!Refuses(<<"remove", i>>, NULL)
      BY <1>1, <2>1, FailingStep
    <3>2. i \notin 0..Size - 1
      BY <1>2, <2>1
    <3>. QED  BY <1>2, <3>1, <3>2 DEF Abstract!RemoveItem
  <2>2. CASE ~(i >= Size)
    <3>1. i < Size
      BY <1>2, <2>2
    <3>. QED  BY <1>1, <1>2, <2>2, <3>1, TakeIsRemoval
  <2>. QED  BY <2>1, <2>2
<1>4. call'[1] = "remove"
  BY <1>3, Names DEF Abstract!RemoveItem, Abstract!Refuses, Abstract!Becomes
<1>. QED  BY <1>3, <1>4 DEF Abstract!Removes

LEMMA SetStep ==
    ASSUME Growing, VectorInv, NullApart, Set
    PROVE  VectorInv' /\ Abstract!Set /\ call'[1] = "set"
<1>1. PICK i \in Indices, d \in Elements :
         IF i >= Size \/ d = NULL THEN Fails(<<"set", i, d>>, FALSE)
         ELSE /\ vector' = [vector EXCEPT !.data[i] = d]
              /\ UNCHANGED stray
              /\ Returns(<<"set", i, d>>, TRUE)
  BY DEF Set
<1>2. /\ Abstract!Size = Size /\ Size \in Nat /\ i \in Nat /\ d \in Abstract!Elements
  BY AbstractView, SizeType DEF Growing, VectorAssumption
<1>3. CASE i >= Size \/ d = NULL
  <2>1. VectorInv' /\ Abstract!Refuses(<<"set", i, d>>, FALSE)
    BY <1>1, <1>3, FailingStep
  <2>2. ~(i < Size /\ d # NULL)
    BY <1>2, <1>3
  <2>3. call'[1] = "set"
    BY <2>1, Names DEF Abstract!Refuses
  <2>. QED  BY <1>2, <2>1, <2>2, <2>3 DEF Abstract!Set
<1>4. CASE ~(i >= Size \/ d = NULL)
  <2>1. /\ vector' = [vector EXCEPT !.data[i] = d] /\ stray' = stray
        /\ call' = Append(<<"set", i, d>>, TRUE)
        /\ i < Size /\ d # NULL
    <3>1. ~(i >= Size) /\ d # NULL
      BY <1>4
    <3>2. i < Size
      BY <1>2, <3>1
    <3>. QED  BY <1>1, <1>4, <3>1, <3>2 DEF Returns
  <2>2. /\ vector # NULL /\ IsVector(vector) /\ Size = vector.size
        /\ Size <= vector.capacity /\ vector.capacity \in Nat
    BY <1>2, <2>1 DEF VectorInv, IsVector, Size
  <2>. DEFINE block == [vector.data EXCEPT ![i] = d]
  <2>3. vector' = [data |-> block, size |-> Size, capacity |-> vector.capacity]
    BY <2>1, <2>2 DEF IsVector
  <2>4. block \in [0..vector.capacity - 1 -> Elements]
    BY <2>2 DEF IsVector
  <2>5. \A k \in 0..Size - 1 : block[k] = IF k = i THEN d ELSE vector.data[k]
    <3>1. \A k \in 0..Size - 1 : k \in DOMAIN vector.data
      BY <1>2, <2>2 DEF IsVector
    <3>. QED  BY <3>1
  <2>. HIDE DEF block
  <2>6. IsVector(vector') /\ vector'.size = Size
        /\ \A k \in 0..Size - 1 : vector'.data[k] = IF k = i THEN d ELSE vector.data[k]
    BY <2>2, <2>3, <2>4, <2>5 DEF IsVector
  <2>7. Items \in Seq(Elements) /\ Len(Items) = Size /\ \A k \in 1..Size : Items[k] = vector.data[k - 1]
    BY <2>2, ItemsType
  <2>. DEFINE s == [Items EXCEPT ![i + 1] = d]
  <2>8. /\ s \in Seq(Elements) /\ Len(s) = Size
        /\ \A k \in 1..Size : s[k] = IF k = i + 1 THEN d ELSE Items[k]
    <3>1. i + 1 \in 1..Len(Items)
      BY <1>2, <2>1, <2>7
    <3>. QED  BY <2>7, <3>1, ExceptSeq
  <2>. HIDE DEF s
  <2>9. ASSUME NEW k \in 0..vector'.size - 1  PROVE vector'.data[k] = s[k + 1]
    <3>1. k \in 0..Size - 1 /\ k + 1 \in 1..Size /\ (k + 1) - 1 = k /\ (k + 1 = i + 1 <=> k = i)
      BY <1>2, <2>6
    <3>2. Items[k + 1] = vector.data[k]
      BY <2>7, <3>1
    <3>. QED  BY <2>6, <2>8, <3>1, <3>2
  <2>10. View' = s
    BY <2>6, <2>8, <2>9, ViewAfter
  <2>11. s = Abstract!ReplaceAt(View, i + 1, d)
    BY <2>2 DEF s, View, Abstract!ReplaceAt
  <2>12. VectorInv' /\ call'[1] = "set"
    BY <2>1, <2>6, Names DEF VectorInv
  <2>13. Abstract!Becomes(<<"set", i, d>>, Abstract!ReplaceAt(View, i + 1, d), TRUE)
    BY <2>1, <2>10, <2>11 DEF Abstract!Becomes, View
  <2>. QED  BY <1>2, <2>1, <2>12, <2>13 DEF Abstract!Set, View
<1>. QED  BY <1>3, <1>4

LEMMA ResizeStep ==
    ASSUME Growing, VectorInv, NullApart, Resize \/ Reserve
    PROVE  VectorInv' /\ Abstract!Reserve /\ call'[1] \in {"resize", "reserve"}
<1>1. PICK n \in Capacities, c \in {"resize", "reserve"}, ok \in BOOLEAN :
         /\ call' = Append(<<c, n>>, ok)
         /\ \/ Resizable(n) /\ vector' = Resized(n) /\ UNCHANGED stray
            \/ UNCHANGED <<vector, stray>>
  <2>1. CASE Resize
    <3>1. PICK n \in Capacities :
             \/ /\ Resizable(n) /\ vector' = Resized(n)
                /\ UNCHANGED stray /\ Returns(<<"resize", n>>, TRUE)
             \/ Fails(<<"resize", n>>, FALSE)
      BY <2>1 DEF Resize
    <3>2. \/ call' = Append(<<"resize", n>>, TRUE) /\ Resizable(n) /\ vector' = Resized(n)
             /\ UNCHANGED stray
          \/ call' = Append(<<"resize", n>>, FALSE) /\ UNCHANGED <<vector, stray>>
      BY <3>1 DEF Fails, Returns
    <3>. QED  BY <3>2
  <2>2. CASE Reserve
    <3>1. PICK n \in Capacities :
             \/ /\ n > Capacity /\ Resizable(n) /\ vector' = Resized(n)
                /\ UNCHANGED stray /\ Returns(<<"reserve", n>>, TRUE)
             \/ Fails(<<"reserve", n>>, vector # NULL /\ n <= Capacity)
      BY <2>2 DEF Reserve
    <3>. DEFINE ok == vector # NULL /\ n <= Capacity
    <3>2. ok \in BOOLEAN
      OBVIOUS
    <3>. HIDE DEF ok
    <3>3. \/ call' = Append(<<"reserve", n>>, TRUE) /\ Resizable(n) /\ vector' = Resized(n)
             /\ UNCHANGED stray
          \/ call' = Append(<<"reserve", n>>, ok) /\ UNCHANGED <<vector, stray>>
      BY <3>1 DEF Fails, Returns, ok
    <3>. QED  BY <3>2, <3>3
  <2>. QED  BY <2>1, <2>2
<1>2. VectorInv' /\ View' = View
  <2>1. CASE Resizable(n) /\ vector' = Resized(n) /\ UNCHANGED stray
    <3>1. n \in Nat \ {0}
      BY DEF Growing, VectorAssumption
    <3>. QED  BY <2>1, <3>1, ResizeHidden
  <2>2. CASE UNCHANGED <<vector, stray>>
    BY <2>2 DEF VectorInv, View, Items, Size
  <2>. QED  BY <1>1, <2>1, <2>2
<1>3. Abstract!Refuses(<<c, n>>, ok)
  BY <1>1, <1>2 DEF Abstract!Refuses, View
<1>4. call'[1] = c
  BY <1>1, Names
<1>. QED  BY <1>2, <1>3, <1>4 DEF Abstract!Reserve

LEMMA ClearStep ==
    ASSUME Growing, VectorInv, NullApart, Clear
    PROVE  VectorInv' /\ Abstract!Clear /\ call'[1] = "clear"
<1>. DEFINE block == [k \in DOMAIN vector.data |->
                         IF k < Size THEN NULL ELSE vector.data[k]]
<1>1. /\ vector # NULL /\ IsVector(vector) /\ stray' = stray
      /\ vector' = [vector EXCEPT !.data = block, !.size = 0]
      /\ call' = Append(<<"clear">>, TRUE)
  BY DEF Clear, Returns, VectorInv
<1>2. block \in [0..vector.capacity - 1 -> Elements]
  BY <1>1 DEF IsVector, Elements
<1>. HIDE DEF block
<1>3. vector' = [data |-> block, size |-> 0, capacity |-> vector.capacity]
  BY <1>1 DEF IsVector
<1>4. IsVector(vector') /\ vector'.size = 0
  <2>1. vector.capacity \in Nat \ {0} /\ 0 \in Nat /\ 0 <= vector.capacity
    BY <1>1 DEF IsVector
  <2>. QED  BY <1>2, <1>3, <2>1 DEF IsVector
<1>5. <<>> \in Seq(Elements) /\ Len(<<>>) = 0 /\ \A k \in 0..0 - 1 : FALSE
  OBVIOUS
<1>6. View' = <<>>
  BY <1>4, <1>5, ViewAfter
<1>7. VectorInv' /\ View # NULL
  BY <1>1, <1>4, AbstractView DEF VectorInv
<1>. QED  BY <1>1, <1>6, <1>7, Names DEF Abstract!Clear, Abstract!Becomes, View

LEMMA DestroyStep ==
    ASSUME VectorInv, NullApart, Destroy
    PROVE  VectorInv' /\ Abstract!Destroy /\ call'[1] = "destroy"
<1>1. /\ vector # NULL /\ vector' = NULL /\ stray' = stray
      /\ call' = Append(<<"destroy">>, TRUE)
  BY DEF Destroy, Returns
<1>2. VectorInv' /\ View' = NULL /\ View # NULL
  BY <1>1, AbstractView DEF VectorInv, View
<1>. QED  BY <1>1, <1>2, Names DEF Abstract!Destroy, Abstract!Becomes, View

(* The sequence an answer is read from.                                    *)
LEMMA ShownItems ==
    ASSUME VectorInv, NullApart
    PROVE  /\ (IF View = NULL THEN <<>> ELSE View) = Items
           /\ Items \in Seq(Elements) /\ Len(Items) = Size
           /\ \A i \in 1..Size : Items[i] = vector.data[i - 1]
<1>1. CASE vector = NULL
  <2>1. Size = 0 /\ View = NULL
    BY <1>1 DEF Size, View
  <2>2. Items = <<>>
    BY <2>1 DEF Items
  <2>. QED  BY <2>1, <2>2
<1>2. CASE vector # NULL
  BY <1>2, ItemsType, AbstractView
<1>. QED  BY <1>1, <1>2

LEMMA ReadStep ==
    ASSUME Growing, VectorInv, NullApart, Read
    PROVE  /\ VectorInv'
           /\ \/ Abstract!Read /\ call'[1] \in Abstract!ReadOps
              \/ Abstract!BinarySearch /\ call'[1] = "binary_search"
<1>1. VectorInv' /\ View' = View
  BY DEF Read, VectorInv, View, Items, Size
<1>. DEFINE s == IF View = NULL THEN <<>> ELSE View
<1>2. s = Items /\ Len(Items) = Size /\ \A i \in 1..Size : Items[i] = vector.data[i - 1]
  BY ShownItems
<1>3. Size \in Nat
  BY SizeType
<1>. HIDE DEF s
<1>4. ASSUME call'[1] \in Abstract!ReadOps, Abstract!Last(call') = Abstract!Answer(call', s)
      PROVE  Abstract!Read /\ call'[1] \in Abstract!ReadOps
  BY <1>1, <1>4 DEF Abstract!Read, View, s
<1>5. CASE call' = <<"size", Size>>
  <2>1. call'[1] = "size" /\ Len(call') = 2 /\ call'[2] = Size
    BY <1>5
  <2>2. Abstract!Answer(call', s) = Len(s)
    BY <2>1 DEF Abstract!Answer
  <2>3. call'[1] \in Abstract!ReadOps
    BY <2>1 DEF Abstract!ReadOps
  <2>. QED  BY <1>1, <1>2, <1>4, <2>1, <2>2, <2>3 DEF Abstract!Last
<1>6. CASE call' = <<"is_empty", IsEmpty>>
  <2>1. call'[1] = "is_empty" /\ Len(call') = 2 /\ call'[2] = IsEmpty
    BY <1>6
  <2>2. Abstract!Answer(call', s) = (s = <<>>)
    BY <2>1 DEF Abstract!Answer
  <2>3. IsEmpty = (Items = <<>>)
    <3>1. Size = 0 <=> Items = <<>>
      BY <1>2, <1>3, ShownItems, EmptySeq
    <3>. QED  BY <3>1 DEF IsEmpty
  <2>4. call'[1] \in Abstract!ReadOps
    BY <2>1 DEF Abstract!ReadOps
  <2>. QED  BY <1>1, <1>2, <1>4, <2>1, <2>2, <2>3, <2>4 DEF Abstract!Last
<1>7. CASE call' = <<"print", Items>>
  <2>1. call'[1] = "print" /\ Len(call') = 2 /\ call'[2] = Items
    BY <1>7
  <2>2. Abstract!Answer(call', s) = s
    BY <2>1 DEF Abstract!Answer
  <2>3. call'[1] \in Abstract!ReadOps
    BY <2>1 DEF Abstract!ReadOps
  <2>. QED  BY <1>1, <1>2, <1>4, <2>1, <2>2, <2>3 DEF Abstract!Last
<1>8. ASSUME NEW i \in Indices, call' = <<"get", i, Get(i)>>
      PROVE  Abstract!Read /\ call'[1] \in Abstract!ReadOps
  <2>1. call'[1] = "get" /\ Len(call') = 3 /\ call'[2] = i /\ call'[3] = Get(i)
    BY <1>8
  <2>2. Abstract!Answer(call', s) = IF i \in 0..Len(s) - 1 THEN s[i + 1] ELSE NULL
    BY <2>1 DEF Abstract!Answer
  <2>3. i \in Nat
    BY DEF Growing, VectorAssumption
  <2>4. Get(i) = IF i \in 0..Size - 1 THEN Items[i + 1] ELSE NULL
    <3>1. i < Size => i + 1 \in 1..Size /\ (i + 1) - 1 = i
      BY <1>3, <2>3
    <3>2. i < Size <=> i \in 0..Size - 1
      BY <1>3, <2>3
    <3>. QED  BY <1>2, <3>1, <3>2 DEF Get
  <2>5. call'[1] \in Abstract!ReadOps
    BY <2>1 DEF Abstract!ReadOps
  <2>6. call'[3] = Abstract!Answer(call', s)
    BY <1>2, <2>1, <2>2, <2>4
  <2>. QED  BY <1>4, <2>1, <2>5, <2>6 DEF Abstract!Last
<1>9. ASSUME NEW d \in Data, NEW below \in SUBSET (Data \ {d}),
             call' = <<"binary_search", d, below, BinarySearch(d, below)>>
      PROVE  Abstract!BinarySearch /\ call'[1] = "binary_search"
  <2>. DEFINE result == BinarySearch(d, below)
  <2>1. /\ call'[1] = "binary_search" /\ Len(call') = 4 /\ call'[2] = d
        /\ call'[3] = below /\ call'[4] = result
    BY <1>9
  <2>2. \/ result \in 0..Size - 1 /\ vector.data[result] = d
        \/ /\ result = -1
           /\ Ordered(d, below) => \A k \in 0..Size - 1 : vector.data[k] # d
    <3>1. d \notin below
      OBVIOUS
    <3>. QED  BY <3>1, SearchFinds
  <2>. HIDE DEF result
  <2>3. Abstract!Size = Size /\ \A i \in 0..Size - 1 : Abstract!At(i) = vector.data[i]
    BY AbstractView
  <2>. DEFINE rank(e) == IF e = d THEN 1 ELSE IF e \in below THEN 0 ELSE 2
              ascending == \A i, j \in 1..Size : i < j => rank(View[i]) <= rank(View[j])
  <2>4. ASSUME ascending, Size > 0  PROVE Ordered(d, below)
    <3>1. View = Items
      BY <2>4, AbstractView DEF Size
    <3>2. ASSUME NEW i \in 0..Size - 1, NEW j \in 0..Size - 1, i < j
          PROVE  /\ vector.data[j] \in below => vector.data[i] \in below
                 /\ vector.data[j] = d => vector.data[i] \in below \cup {d}
      <4>1. /\ i + 1 \in 1..Size /\ j + 1 \in 1..Size /\ i + 1 < j + 1
            /\ (i + 1) - 1 = i /\ (j + 1) - 1 = j
        BY <1>3, <3>2
      <4>2. View[i + 1] = vector.data[i] /\ View[j + 1] = vector.data[j]
        BY <1>2, <3>1, <4>1
      <4>3. rank(View[i + 1]) <= rank(View[j + 1])
        BY <2>4, <4>1
      <4>4. rank(vector.data[i]) <= rank(vector.data[j])
        BY <4>2, <4>3
      <4>. QED  BY <4>4
    <3>. QED  BY <3>2 DEF Ordered
  <2>5. result = -1 /\ ascending => Abstract!First(d) = -1
    <3>. SUFFICES ASSUME result = -1, ascending, Size # 0
                  PROVE  Abstract!First(d) = -1
      BY <2>3 DEF Abstract!First
    <3>1. Size > 0 /\ vector # NULL /\ View = Items
      BY <1>3, AbstractView DEF Size
    <3>2. \A k \in 0..Size - 1 : vector.data[k] # d
      <4>1. Ordered(d, below)
        BY <2>4, <3>1
      <4>. QED  BY <2>2, <4>1
    <3>3. \A k \in 1..Size : Items[k] # d
      <4>1. \A k \in 1..Size : k - 1 \in 0..Size - 1
        BY <1>3
      <4>. QED  BY <1>2, <3>2, <4>1
    <3>4. Abstract!SelectInSeq(View, LAMBDA e : e = d) = 0
      <4>1. {k \in 1..Len(View) : View[k] = d} = {}
        BY <1>2, <3>1, <3>3
      <4>. QED  BY <4>1 DEF Abstract!SelectInSeq
    <3>. QED  BY <2>3, <3>4 DEF Abstract!First, View
  <2>6. Abstract!Last(call') = result
    BY <2>1 DEF Abstract!Last
  <2>7. \/ result \in 0..Abstract!Size - 1 /\ Abstract!At(result) = d
        \/ result = -1 /\ (ascending => Abstract!First(d) = -1)
    BY <2>2, <2>3, <2>5
  <2>. QED  BY <1>1, <2>1, <2>3, <2>6, <2>7 DEF Abstract!BinarySearch, View
<1>10. \/ call' \in {<<"size", Size>>, <<"is_empty", IsEmpty>>, <<"print", Items>>}
       \/ \E i \in Indices : call' = <<"get", i, Get(i)>>
       \/ \E d \in Data : \E below \in SUBSET (Data \ {d}) :
             call' = <<"binary_search", d, below, BinarySearch(d, below)>>
  BY DEF Read, Reads
<1>. QED  BY <1>1, <1>5, <1>6, <1>7, <1>8, <1>9, <1>10

LEMMA InitVector ==
    ASSUME NullApart, Init
    PROVE  VectorInv /\ Abstract!Init
BY DEF Init, VectorInv, Abstract!Init

LEMMA NextVector ==
    ASSUME Growing, VectorInv, NullApart, [Next]_vectorVars
    PROVE  VectorInv' /\ [Abstract!Next]_(Abstract!specVars)
<1>1. CASE UNCHANGED vectorVars
  BY <1>1 DEF vectorVars, VectorInv, View, Items, Size, Abstract!specVars
<1>. SUFFICES ASSUME Next, Abstract!specVars' # Abstract!specVars
              PROVE  VectorInv' /\ Abstract!Next
  <2>1. CASE Next
    <3>1. VectorInv'
      BY <2>1, CreateStep, AddBackStep, InsertStep, PopBackStep, RemoveStep, SetStep,
         ResizeStep, ClearStep, DestroyStep, ReadStep DEF Next
    <3>. QED  BY <2>1, <3>1
  <2>. QED  BY <1>1, <2>1
<1>2. CASE Create
  BY <1>2, CreateStep DEF Abstract!Next, Abstract!Op
<1>3. CASE AddBack
  BY <1>3, AddBackStep DEF Abstract!Next, Abstract!Op
<1>4. CASE Insert
  BY <1>4, InsertStep DEF Abstract!Next, Abstract!Op
<1>5. CASE PopBack
  BY <1>5, PopBackStep DEF Abstract!Next, Abstract!Op
<1>6. CASE RemoveIndex
  BY <1>6, RemoveStep DEF Abstract!Next, Abstract!Op
<1>7. CASE Set
  BY <1>7, SetStep DEF Abstract!Next, Abstract!Op
<1>8. CASE Resize \/ Reserve
  BY <1>8, ResizeStep DEF Abstract!Next, Abstract!Op
<1>9. CASE Clear
  BY <1>9, ClearStep DEF Abstract!Next, Abstract!Op
<1>10. CASE Destroy
  BY <1>10, DestroyStep DEF Abstract!Next, Abstract!Op
<1>11. CASE Read
  BY <1>11, ReadStep DEF Abstract!Next, Abstract!Op
<1>. QED
  BY <1>2, <1>3, <1>4, <1>5, <1>6, <1>7, <1>8, <1>9, <1>10, <1>11 DEF Next

(* No call reads or writes a slot outside the block, and the header tells  *)
(* the truth about it (inc/libft/data_structures/vector).                  *)
THEOREM AlwaysWithinBlock ==
    ASSUME Growing, NullApart
    PROVE  Spec => []WithinBlock
<1>1. VectorInv => WithinBlock
  BY DEF VectorInv, IsVector, WithinBlock, Size, Capacity
<1>. QED  BY <1>1, InitVector, NextVector, PTL DEF Spec

(* The vector is the sequence that SequenceSpec makes of its calls, every  *)
(* result included: where it grows, reserves and shrinks its block never   *)
(* shows, and a binary search finds what is there to be found.             *)
THEOREM VectorIsSequence ==
    ASSUME Growing, NullApart
    PROVE  Spec => Implements
<1>. QED  BY InitVector, NextVector, PTL DEF Spec, Implements, Abstract!Spec
=============================================================================
