------------------------------ MODULE Sorting -------------------------------
(***************************************************************************)
(* libft's sorts.  An array is a function on 0..n-1, a sort maps it to     *)
(* what it leaves in it.  Loops are folds over the indices they visit.     *)
(* starved are the allocations of a call that fail: most sorts leave that  *)
(* part of the work undone then, and say nothing.                          *)
(***************************************************************************)
EXTENDS Integers, Sequences, FiniteSets, SequencesExt, FiniteSetsExt

CONSTANTS
    Arrays,           \* the arrays that are sorted
    RUN,              \* tim_sort's run, 32 in the code
    INTRO_RUN,        \* intro_sort leaves this and less to insertion, 16
    HYBRID_SMALL,     \* the hybrids' small array, 5
    CHUNK_COUNT,      \* hybrid2_sort's chunks, 5 or 11
    K,                \* what ksort is given
    BITS              \* the width of an int

SortingAssumption ==
    /\ {RUN, INTRO_RUN, HYBRID_SMALL, CHUNK_COUNT, K, BITS} \subseteq Nat \ {0}
    /\ \A a \in Arrays : \A i \in DOMAIN a : a[i] \in -2^(BITS - 1)..2^(BITS - 1) - 1

(* What an int holds of a sum or a difference.                             *)
IntMax == 2^(BITS - 1) - 1
Wrap(v) == ((v + 2^(BITS - 1)) % 2^BITS) - 2^(BITS - 1)

Size(a) == Cardinality(DOMAIN a)
Upto(m, n) == [k \in 1..Max({0, n - m + 1}) |-> m + k - 1]
Downto(m, n) == [k \in 1..Max({0, m - n + 1}) |-> m - k + 1]
Over(indices, a, op(_, _)) == FoldLeft(op, a, indices)

Values(a) == {a[i] : i \in DOMAIN a}
GetMin(a) == Min(Values(a))
GetMax(a) == Max(Values(a))
ToArray(s) == [i \in 0..Len(s) - 1 |-> s[i + 1]]
Slice(a, l, r) == [k \in 1..r - l + 1 |-> a[l + k - 1]]
Paste(a, l, s) == [i \in DOMAIN a |-> IF i \in l..l + Len(s) - 1 THEN s[i - l + 1] ELSE a[i]]

(* ft_swap, and the comparison that most sorts make before it.             *)
Swap(a, i, j) == [a EXCEPT ![i] = a[j], ![j] = a[i]]
Order(a, i, j) == IF a[i] > a[j] THEN Swap(a, i, j) ELSE a

(* Element i goes down in steps of gap, past all that are greater, not     *)
(* below index low.                                                        *)
Sink(a, i, low, gap) ==
    LET stops(m) == i - (m + 1) * gap < low \/ a[i - (m + 1) * gap] <= a[i]
        steps == Min({m \in 0..i : stops(m)})
    IN  [k \in DOMAIN a |->
            IF k = i - steps * gap THEN a[i]
            ELSE IF k <= i /\ k > i - steps * gap /\ (i - k) % gap = 0 THEN a[k - gap]
            ELSE a[k]]


Insertion(a, left, right) ==
    Over(Upto(left + 1, right), a, LAMBDA x, i : Sink(x, i, left, 1))

(* A pass that swaps nothing ends the sort: swaps never undo each other.   *)
RECURSIVE Bubble(_, _)
Bubble(a, i) ==
    LET pass == Over(Upto(0, Size(a) - i - 2), a, LAMBDA x, j : Order(x, j, j + 1))
    IN  IF i >= Size(a) - 1 \/ pass = a THEN a ELSE Bubble(pass, i + 1)

ForwardPass(a, start, end) == Over(Upto(start, end - 1), a, LAMBDA x, i : Order(x, i, i + 1))
BackwardPass(a, start, end) == Over(Downto(end, start + 1), a, LAMBDA x, i : Order(x, i - 1, i))

RECURSIVE Cocktail(_, _, _)
Cocktail(a, start, end) ==
    LET forward == ForwardPass(a, start, end)
    IN  IF forward = a THEN a
        ELSE Cocktail(BackwardPass(forward, start, end - 1), start + 1, end - 1)

NextGap(gap) == Max({1, (gap * 10) \div 13})

RECURSIVE Comb(_, _)
Comb(a, gap) ==
    LET next == NextGap(gap)
        pass == Over(Upto(0, Size(a) - next - 1), a, LAMBDA x, i : Order(x, i, i + next))
    IN  IF next = 1 /\ pass = a THEN a ELSE Comb(pass, next)

PairsAt(a, parity) == SelectSeq(Upto(0, Size(a) - 2), LAMBDA i : i % 2 = parity)
OddPass(a) == Over(PairsAt(a, 1), a, LAMBDA x, i : Order(x, i, i + 1))
EvenPass(a) == Over(PairsAt(a, 0), a, LAMBDA x, i : Order(x, i, i + 1))

RECURSIVE OddEven(_)
OddEven(a) ==
    LET pass == EvenPass(OddPass(a)) IN IF pass = a THEN a ELSE OddEven(pass)

RECURSIVE Gnome(_, _)
Gnome(a, index) ==
    LET i == Max({index, 1})
    IN  IF index >= Size(a) THEN a
        ELSE IF a[i] >= a[i - 1] THEN Gnome(a, i + 1)
        ELSE Gnome(Swap(a, i, i - 1), i - 1)

(* The first index of the least, or the greatest, in m..n.                 *)
FirstLeast(a, m, n) == CHOOSE i \in m..n : \A j \in m..n : a[i] < a[j] \/ (a[i] = a[j] /\ i <= j)
FirstGreatest(a, m, n) == CHOOSE i \in m..n : \A j \in m..n : a[i] > a[j] \/ (a[i] = a[j] /\ i <= j)

Selection(a) ==
    Over(Upto(0, Size(a) - 2), a, LAMBDA x, i : Swap(x, i, FirstLeast(x, i, Size(a) - 1)))

Flip(a, i) == [k \in DOMAIN a |-> IF k <= i THEN a[i - k] ELSE a[k]]
Pancake(a) ==
    Over(Downto(Size(a) - 1, 1), a,
         LAMBDA x, last : IF FirstGreatest(x, 0, last) = last THEN x
                          ELSE Flip(Flip(x, FirstGreatest(x, 0, last)), last))

RECURSIVE Shell(_, _)
Shell(a, gap) ==
    IF gap = 0 THEN a
    ELSE Shell(Over(Upto(gap, Size(a) - 1), a, LAMBDA x, i : Sink(x, i, 0, gap)), gap \div 2)

(* First the ends, then two thirds three times.                            *)
RECURSIVE Stooge(_, _, _)
Stooge(a, l, h) ==
    LET t == (h - l + 1) \div 3
    IN  IF l >= h THEN a
        ELSE IF a[l] > a[h] THEN Stooge(Swap(a, l, h), l, h)
        ELSE IF h - l + 1 <= 2 THEN a
        ELSE Stooge(Stooge(Stooge(a, l, h - t), l + t, h), l, h - t)

(* The heap of n elements that starts at index low.                        *)
RECURSIVE Heapify(_, _, _, _)
Heapify(a, low, n, i) ==
    LET l == 2 * i + 1
        r == 2 * i + 2
        one == IF l < n /\ a[low + l] > a[low + i] THEN l ELSE i
        largest == IF r < n /\ a[low + r] > a[low + one] THEN r ELSE one
    IN  IF largest = i THEN a
        ELSE Heapify(Swap(a, low + i, low + largest), low, n, largest)

Heap(a, low, n) ==
    LET heap == Over(Downto((n \div 2) - 1, 0), a, LAMBDA x, i : Heapify(x, low, n, i))
    IN  Over(Downto(n - 1, 1), heap,
             LAMBDA x, i : Heapify(Swap(x, low, low + i), low, i, 0))
HeapSort(a) == Heap(a, 0, Size(a))

(* Where the pivot, the last element, ends up; the rest around it.         *)
Partition(a, low, high) ==
    LET s == FoldLeft(LAMBDA x, j : IF x.arr[j] < x.arr[high]
                                    THEN [arr |-> Swap(x.arr, x.i + 1, j), i |-> x.i + 1]
                                    ELSE x,
                      [arr |-> a, i |-> low - 1], Upto(low, high - 1))
    IN  [arr |-> Swap(s.arr, s.i + 1, high), pivot |-> s.i + 1]

RECURSIVE Quick(_, _, _)
Quick(a, low, high) ==
    LET p == Partition(a, low, high)
    IN  IF low >= high THEN a
        ELSE Quick(Quick(p.arr, low, p.pivot - 1), p.pivot + 1, high)

RECURSIVE Intro(_, _, _, _)
Intro(a, low, high, depth) ==
    LET p == Partition(a, low, high)
    IN  IF high - low < INTRO_RUN THEN Insertion(a, low, high)
        ELSE IF depth = 0 THEN Heap(a, low, high - low + 1)
        ELSE Intro(Intro(p.arr, low, p.pivot - 1, depth - 1), p.pivot + 1, high, depth - 1)

Log2(n) == Max({k \in 0..n : 2^k <= n})
IntroSort(a) == Intro(a, 0, Size(a) - 1, 2 * Log2(Size(a)))

(* The lesser head first, the left one of two equals.                      *)
RECURSIVE MergeTwo(_, _)
MergeTwo(s, t) ==
    IF s = <<>> THEN t
    ELSE IF t = <<>> THEN s
    ELSE IF s[1] <= t[1] THEN <<s[1]>> \o MergeTwo(Tail(s), t)
    ELSE <<t[1]>> \o MergeTwo(s, Tail(t))

RECURSIVE MergeThree(_, _, _)
MergeThree(s, t, u) ==
    IF s = <<>> THEN MergeTwo(t, u)
    ELSE IF t = <<>> THEN MergeTwo(s, u)
    ELSE IF u = <<>> THEN MergeTwo(s, t)
    ELSE IF s[1] <= t[1] /\ s[1] <= u[1] THEN <<s[1]>> \o MergeThree(Tail(s), t, u)
    ELSE IF t[1] <= s[1] /\ t[1] <= u[1] THEN <<t[1]>> \o MergeThree(s, Tail(t), u)
    ELSE <<u[1]>> \o MergeThree(s, t, Tail(u))

(* Each merge asks for its own two buffers.                                *)
Merge(a, l, m, r, starved) ==
    IF <<l, r>> \in starved THEN a
    ELSE Paste(a, l, MergeTwo(Slice(a, l, m), Slice(a, m + 1, r)))

RECURSIVE MergeSort(_, _, _, _), MergeSpans(_, _)
MergeSort(a, l, r, starved) ==
    LET m == l + ((r - l) \div 2)
    IN  IF l >= r THEN a
        ELSE Merge(MergeSort(MergeSort(a, l, m, starved), m + 1, r, starved), l, m, r, starved)

(* The merges of a merge sort, by what they merge.                         *)
MergeSpans(l, r) ==
    LET m == l + ((r - l) \div 2)
    IN  IF l >= r THEN {} ELSE MergeSpans(l, m) \cup MergeSpans(m + 1, r) \cup {<<l, r>>}

RECURSIVE ThreeWay(_, _, _)
ThreeWay(a, l, r) ==
    LET m1 == l + ((r - l) \div 3)
        m2 == l + ((2 * (r - l)) \div 3)
        b == ThreeWay(ThreeWay(ThreeWay(a, l, m1), m1 + 1, m2), m2 + 1, r)
    IN  IF r - l < 1 THEN a
        ELSE Paste(b, l, MergeThree(Slice(b, l, m1), Slice(b, m1 + 1, m2), Slice(b, m2 + 1, r)))

ThreeWaySort(a, m) == IF m THEN ThreeWay(a, 0, Size(a) - 1) ELSE a

TimRuns(a) ==
    Over(SelectSeq(Upto(0, Size(a) - 1), LAMBDA i : i % RUN = 0), a,
         LAMBDA x, i : Insertion(x, i, Min({i + RUN - 1, Size(a) - 1})))

(* The left ends of the pairs of runs of one round, and their right ends.  *)
TimLefts(a, size) == {i \in 0..Size(a) - 2 : i % (2 * size) = 0}
TimRight(a, size, i) == Min({i + 2 * size - 1, Size(a) - 1})
TimPairs(a, size) == {i \in TimLefts(a, size) : i + size - 1 < TimRight(a, size, i)}

RECURSIVE TimMerge(_, _, _)
TimMerge(a, size, starved) ==
    LET merge(i, x) == Merge(x, i, i + size - 1, TimRight(a, size, i), starved)
    IN  IF size >= Size(a) THEN a
        ELSE TimMerge(FoldSet(merge, a, TimPairs(a, size)), 2 * size, starved)
TimSort(a, starved) == TimMerge(TimRuns(a), RUN, starved)
TimSpans(a) ==
    UNION {{<<i, TimRight(a, RUN * 2^k, i)>> : i \in TimPairs(a, RUN * 2^k)} : k \in DOMAIN a}

(* counting_sort and pigeonhole_sort: every value as often as it occurs.   *)
CountElements(a) ==
    [v \in GetMin(a)..GetMax(a) |-> Cardinality({i \in DOMAIN a : a[i] = v})]
PlaceElements(count, min, max) ==
    ToArray(FoldLeft(LAMBDA s, v : s \o [i \in 1..count[v] |-> v], <<>>, Upto(min, max)))
Counted(a) == PlaceElements(CountElements(a), GetMin(a), GetMax(a))

(* max - min + 1 as an int.  A negative one asks for more memory than      *)
(* there is.                                                               *)
Extent(a) == Wrap(GetMax(a) - GetMin(a) + 1)
Counting(a, m) == IF m /\ Extent(a) > 0 THEN Counted(a) ELSE a
Pigeonhole(a, m) == IF m /\ Extent(a) > 0 THEN Counted(a) ELSE a

(* radix_sort, bit by bit: zeros before ones, otherwise in order.          *)
MaxBits(n) == Min({b \in 0..BITS : n \div 2^b = 0})
Bit(v, b) == (v \div 2^b) % 2
CollectZeros(s, b) == SelectSeq(s, LAMBDA v : Bit(v, b) = 0)
CollectOnes(s, b) == SelectSeq(s, LAMBDA v : Bit(v, b) = 1)
Radix(a, m) ==
    IF m THEN ToArray(FoldLeft(LAMBDA s, b : CollectZeros(s, b) \o CollectOnes(s, b),
                               Slice(a, 0, Size(a) - 1), Upto(0, MaxBits(GetMax(a)) - 1)))
    ELSE a

(* tag_sort: the rank of each element, equal ones in the order they have.  *)
TaggedArray(a) ==
    [i \in DOMAIN a |-> Cardinality({j \in DOMAIN a : a[j] < a[i] \/ (a[j] = a[i] /\ j < i)})]
PlaceByTags(a, tag) == [r \in DOMAIN a |-> a[CHOOSE i \in DOMAIN a : tag[i] = r]]
TagSort(a, m) == IF m THEN PlaceByTags(a, TaggedArray(a)) ELSE a

(* ksort: element i looks at most k places back, then a full insertion.    *)
KWayInsertion(a, k) ==
    Over(Upto(1, Size(a) - 1), a, LAMBDA x, i : Sink(x, i, Max({0, i - k}), 1))
Ksort(a, k) ==
    Insertion(IF k >= Size(a) - 1 THEN a ELSE KWayInsertion(a, k), 0, Size(a) - 1)

(* ft_cycle_sort: the item of each start is carried round, written where   *)
(* it belongs, until it comes back to its start or there is no place.      *)
CorrectPosition(a, first, item) == Cardinality({i \in DOMAIN a : i >= first /\ a[i] < item})
PastEqual(a, pos, item) ==
    Min({p \in pos..Size(a) : p = Size(a) \/ a[p] # item})
WriteItem(x, pos) ==
    IF pos < Size(x.arr) THEN [arr |-> [x.arr EXCEPT ![pos] = x.item], item |-> x.arr[pos],
                               pos |-> pos]
    ELSE [x EXCEPT !.pos = pos]

RECURSIVE Carry(_, _)
Carry(x, start) ==
    IF x.pos = start \/ x.pos >= Size(x.arr) THEN x.arr
    ELSE Carry(WriteItem(x, PastEqual(x.arr, CorrectPosition(x.arr, 0, x.item), x.item)), start)

CycleItem(x, start) ==
    LET item == x[start]
        pos == CorrectPosition(x, start + 1, item) + start
    IN  IF pos = start THEN x
        ELSE Carry(WriteItem([arr |-> x, item |-> item, pos |-> pos], PastEqual(x, pos, item)),
                   start)
Cycle(a) == Over(Upto(0, Size(a) - 2), a, CycleItem)

(* Two halves of a bitonic sequence: the pairs out of order are exchanged, *)
(* then each half is merged.                                               *)
RECURSIVE BitonicMerge(_, _, _, _), BitonicRec(_, _, _, _)
BitonicMerge(a, low, count, up) ==
    LET k == count \div 2
        misplaced == {i \in low..low + k - 1 : IF up THEN a[i] > a[i + k] ELSE a[i] < a[i + k]}
        exchanged == FoldSet(LAMBDA i, x : Swap(x, i, i + k), a, misplaced)
    IN  IF count <= 1 THEN a
        ELSE IF misplaced # {} THEN BitonicMerge(exchanged, low, count, up)
        ELSE BitonicMerge(BitonicMerge(a, low, k, up), low + k, k, up)
BitonicRec(a, low, count, up) ==
    LET k == count \div 2
    IN  IF count <= 1 THEN a
        ELSE BitonicMerge(BitonicRec(BitonicRec(a, low, k, TRUE), low + k, k, FALSE),
                          low, count, up)

(* The padding overwrites the copy: what comes back is padding.            *)
PowerFrom(n) == Min({2^k : k \in 0..n} \ 0..n - 1)
CopyAndPad(a) == [i \in 0..PowerFrom(Size(a)) - 1 |-> IntMax]
Bitonic(a, m) ==
    LET n == Size(a)
        padded == BitonicRec(CopyAndPad(a), 0, PowerFrom(n), TRUE)
    IN  IF PowerFrom(n) = n THEN BitonicRec(a, 0, n, TRUE)
        ELSE IF m THEN [i \in DOMAIN a |-> padded[i]] ELSE a

(* Search trees: <<>> or a node.                                           *)
Leaf(d) == [data |-> d, left |-> <<>>, right |-> <<>>]

RECURSIVE InsertNode(_, _), InOrder(_)
InsertNode(t, d) ==
    IF t = <<>> THEN Leaf(d)
    ELSE IF d < t.data THEN [t EXCEPT !.left = InsertNode(@, d)]
    ELSE IF d > t.data THEN [t EXCEPT !.right = InsertNode(@, d)]
    ELSE t
InOrder(t) == IF t = <<>> THEN <<>> ELSE InOrder(t.left) \o <<t.data>> \o InOrder(t.right)

(* An element that is equal to an earlier one gets no node.                *)
TreeSort(a) == Paste(a, 0, InOrder(Over(Slice(a, 0, Size(a) - 1), <<>>, InsertNode)))

(* hybrid_sort: the tag array is thrown away; one counting_sort for each   *)
(* bit of the greatest element.                                            *)
HybridRadix(a, starved) ==
    Over(Upto(1, MaxBits(GetMax(a))), a, LAMBDA x, bit : Counting(x, bit \notin starved))
Hybrid(a, starved) ==
    IF Size(a) <= HYBRID_SMALL THEN Insertion(a, 0, Size(a) - 1) ELSE HybridRadix(a, starved)

(* ft_vector_binary_search, and the tagging of the hybrids: the index that *)
(* it finds, -1 without one.  Its left bound is never above 0 when the     *)
(* middle is 0, so it ends there.                                          *)
RECURSIVE BinarySearch(_, _, _, _)
BinarySearch(a, item, left, right) ==
    LET mid == (left + right) \div 2
    IN  IF left > right THEN -1
        ELSE IF a[mid] = item THEN mid
        ELSE IF a[mid] < item THEN BinarySearch(a, item, mid + 1, right)
        ELSE BinarySearch(a, item, left, mid - 1)

(* qsort with the comparison of hybrid2_sort and mini_pushswap_hybrid, the *)
(* difference as an int: it may leave any arrangement in which no element  *)
(* compares greater than the next.  That is the ascending one unless a     *)
(* difference overflows.                                                   *)
CmpInt(x, y) == Wrap(x - y)
Comparable(a) == GetMax(a) - GetMin(a) <= IntMax
Permuted(a, b) ==
    \A v \in Values(a) \cup Values(b) :
        Cardinality({i \in DOMAIN a : a[i] = v}) = Cardinality({i \in DOMAIN b : b[i] = v})
Qsorts(a) ==
    IF Comparable(a) THEN {Counted(a)}
    ELSE {s \in [DOMAIN a -> Values(a)] :
             /\ \A i \in DOMAIN a \ {0} : CmpInt(s[i - 1], s[i]) <= 0
             /\ Permuted(a, s)}

(* The two replace each element by its index in what qsort left, which is  *)
(* tag_to_value.  One that the search misses stays as it is in the first,  *)
(* and becomes 0 in the second.                                            *)
Rank(a, i, sorted) == BinarySearch(sorted, a[i], 0, Size(a) - 1)
BinarySearchAndTag(a, sorted) ==
    [i \in DOMAIN a |-> IF Rank(a, i, sorted) = -1 THEN a[i] ELSE Rank(a, i, sorted)]
BinarySearchTag(a, sorted) == [i \in DOMAIN a |-> Max({0, Rank(a, i, sorted)})]

(* One element for each tag, tags in order, chunk by chunk.                *)
GreedyChunks(tags) ==
    LET n == Size(tags)
        size == (n + CHUNK_COUNT - 1) \div CHUNK_COUNT
        chunk(c) == SelectSeq(Upto(c * size, Min({(c + 1) * size, n}) - 1),
                              LAMBDA t : t \in Values(tags))
    IN  ToArray(FoldLeft(LAMBDA s, c : s \o chunk(c), <<>>, Upto(0, CHUNK_COUNT - 1)))

Hybrid2(a, sorted) ==
    LET tags == BinarySearchAndTag(a, sorted)
    IN  IF Size(a) <= HYBRID_SMALL THEN Insertion(tags, 0, Size(a) - 1) ELSE GreedyChunks(tags)

(* push_elements, all of src to dest: the last one comes to lie on top.    *)
PushAll(src) == FoldLeft(LAMBDA dest, e : <<e>> \o dest, <<>>, src)


MiniPushSwap(a, sorted) ==
    ToArray(PushAll(PushAll(Slice(BinarySearchTag(a, sorted), 0, Size(a) - 1))))

(* Those that work in place, those that return where malloc fails, those   *)
(* that use what it returned unseen, and two with an outcome of their own. *)
InPlace == {"insertion", "bubble", "cocktail", "comb", "odd_even", "gnome", "selection",
            "pancake", "shell", "stooge", "heap", "quick", "intro", "ksort"}
Buffered == {"counting", "pigeonhole", "radix", "tag", "three_way"}
Allocating == Buffered \cup {"merge", "tim"}
Ranking == {"hybrid2", "mini_pushswap"}
Sorts == InPlace \cup Allocating \cup Ranking \cup {"hybrid", "tree", "bitonic", "cycle"}

(* The allocations of a call that are checked: one for each merge, by what *)
(* it merges, one for each counting_sort of hybrid_sort, or one for the    *)
(* whole array.                                                            *)
Whole(a) == <<0, Size(a) - 1>>
Allocations(name, a) ==
    CASE name = "merge" -> MergeSpans(0, Size(a) - 1)
      [] name = "tim" -> TimSpans(a)
      [] name = "hybrid" -> IF Size(a) <= HYBRID_SMALL THEN {} ELSE 1..MaxBits(GetMax(a))
      [] name \in Buffered -> {Whole(a)}
      [] name = "bitonic" -> IF PowerFrom(Size(a)) = Size(a) THEN {} ELSE {Whole(a)}
      [] OTHER -> {}

Sorted(name, a, starved, sorted) ==
    LET n == Size(a)
        m == Whole(a) \notin starved
    IN  CASE name = "insertion" -> Insertion(a, 0, n - 1)
          [] name = "bubble" -> Bubble(a, 0)
          [] name = "cocktail" -> Cocktail(a, 0, n - 1)
          [] name = "comb" -> Comb(a, n)
          [] name = "odd_even" -> OddEven(a)
          [] name = "gnome" -> Gnome(a, 0)
          [] name = "selection" -> Selection(a)
          [] name = "pancake" -> Pancake(a)
          [] name = "shell" -> Shell(a, n \div 2)
          [] name = "stooge" -> Stooge(a, 0, n - 1)
          [] name = "heap" -> HeapSort(a)
          [] name = "quick" -> Quick(a, 0, n - 1)
          [] name = "intro" -> IntroSort(a)
          [] name = "ksort" -> Ksort(a, K)
          [] name = "cycle" -> Cycle(a)
          [] name = "merge" -> MergeSort(a, 0, n - 1, starved)
          [] name = "tim" -> TimSort(a, starved)
          [] name = "counting" -> Counting(a, m)
          [] name = "pigeonhole" -> Pigeonhole(a, m)
          [] name = "radix" -> Radix(a, m)
          [] name = "tag" -> TagSort(a, m)
          [] name = "three_way" -> ThreeWaySort(a, m)
          [] name = "hybrid" -> Hybrid(a, starved)
          [] name = "tree" -> TreeSort(a)
          [] name = "hybrid2" -> Hybrid2(a, sorted)
          [] name = "mini_pushswap" -> MiniPushSwap(a, sorted)
          [] name = "bitonic" -> Bitonic(a, m)

Distinct(a) == \A i, j \in DOMAIN a : a[i] = a[j] => i = j

(* What the callers have to see to: no shift of a negative number, no      *)
(* block of no size for the counts; what qsort left has every rank met     *)
(* that goes into the chunks.                                              *)
Legal(name, a) ==
    /\ name = "radix" => GetMin(a) >= 0
    /\ name = "hybrid" /\ Size(a) > HYBRID_SMALL => GetMax(a) >= 0
    /\ name \in {"counting", "pigeonhole", "hybrid"} => Extent(a) # 0
EveryRankMet(name, a, sorted) ==
    name = "hybrid2" /\ Size(a) > HYBRID_SMALL
        => DOMAIN a \subseteq Values(BinarySearchAndTag(a, sorted))

VARIABLES array, sort, starved, tag_to_value

vars == <<array, sort, starved, tag_to_value>>

Output == Sorted(sort, array, starved, tag_to_value)

Started == sort = "none" /\ starved = {} /\ tag_to_value = <<>>
Init == array \in Arrays /\ Started

(* An array of one element is left alone by all.  The allocations that are *)
(* not checked succeed.                                                    *)
Call(name) ==
    /\ sort = "none"
    /\ Size(array) > 1
    /\ Legal(name, array)
    /\ sort' = name
    /\ starved' \in SUBSET Allocations(name, array)
    /\ tag_to_value' \in IF name \in Ranking THEN Qsorts(array) ELSE {tag_to_value}
    /\ EveryRankMet(name, array, tag_to_value')
    /\ UNCHANGED array

Next == \E name \in Sorts : Call(name)
Spec == Init /\ [][Next]_vars

----------------------------------------------------------------------------
Ascending(a) == \A i, j \in DOMAIN a : i <= j => a[i] <= a[j]


(* No element is lost or doubled on the way, whichever of its allocations  *)
(* fail: a merge that is left out, or one of halves that are not in order, *)
(* moves elements only.  tree_sort keeps every value, if not as often as   *)
(* it was there, and ft_cycle_sort brings in none from outside.            *)
KeepsElements ==
    /\ \/ sort \in InPlace \cup Allocating \cup {"hybrid"}
       \/ sort = "bitonic" /\ (PowerFrom(Size(array)) = Size(array) \/ starved # {})
       => Permuted(array, Output)
    /\ sort = "tree" => Values(array) = Values(Output)
    /\ sort = "cycle" => Values(Output) \subseteq Values(array)

=============================================================================
