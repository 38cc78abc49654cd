------------------------------- MODULE Vector -------------------------------
(***************************************************************************)
(* libft's vector: a block of capacity slots of which the first size are   *)
(* in use.  One call is one step.  malloc(0) returns a block of no slot,   *)
(* as the C library of the build does.                                     *)
(***************************************************************************)
EXTENDS Integers, Sequences, SequencesExt, Null

CONSTANTS Data, Indices,
          Capacities,                  \* what a caller asks to resize to
          Largest,                     \* bound: malloc fails beyond it
          VECTOR_INITIAL_CAPACITY, VECTOR_GROWTH_FACTOR

VectorAssumption ==
    /\ VECTOR_INITIAL_CAPACITY \in Nat \ {0}
    /\ VECTOR_GROWTH_FACTOR \in Nat \ {0, 1}
    /\ Capacities \subseteq Nat
    /\ Indices \subseteq Nat

VARIABLES vector,   \* NULL, or the header and the block data points to
          stray,    \* a slot outside the block was written
          call

vectorVars == <<vector, stray, call>>

Init == vector = NULL /\ stray = FALSE /\ call = <<"none">>

Elements == Data \cup {NULL}
Size == IF vector = NULL THEN 0 ELSE vector.size
Capacity == IF vector = NULL THEN 0 ELSE vector.capacity

Returns(c, result) == call' = Append(c, result)
Fails(c, result) == Returns(c, result) /\ UNCHANGED <<vector, stray>>

Create ==
    /\ vector = NULL
    /\ \/ /\ vector' = [data |-> [i \in 0..VECTOR_INITIAL_CAPACITY - 1 |-> NULL],
                        size |-> 0,
                        capacity |-> VECTOR_INITIAL_CAPACITY]
          /\ UNCHANGED stray
          /\ Returns(<<"create">>, TRUE)
       \/ Fails(<<"create">>, FALSE)

(* ft_vector_resize: the new block holds what was in use, the rest of it   *)
(* is whatever malloc left there.                                          *)
Resizable(n) == vector # NULL /\ Size <= n /\ n <= Largest
Resized(n) ==
    [data |-> [i \in 0..n - 1 |-> IF i < Size THEN vector.data[i] ELSE NULL],
     size |-> vector.size,
     capacity |-> n]

(* The block an insertion writes to: a full one is exchanged first.        *)
Full == Size >= Capacity
Grown == IF Full THEN Resized(Capacity * VECTOR_GROWTH_FACTOR) ELSE vector
CanGrow == Full => Resizable(Capacity * VECTOR_GROWTH_FACTOR)

(* The elements from index i move up, d takes their place.  Only slots of  *)
(* the block are kept, a write elsewhere is noted.                         *)
Put(c, i, d) ==
    /\ vector # NULL /\ CanGrow
    /\ LET v == Grown
       IN  /\ vector' = [v EXCEPT
                !.data = [k \in DOMAIN v.data |->
                             IF k = i THEN d
                             ELSE IF k > i /\ k <= Size THEN v.data[k - 1]
                             ELSE v.data[k]],
                !.size = Size + 1]
           /\ stray' = (stray \/ Size \notin DOMAIN v.data)
    /\ Returns(c, TRUE)

AddBack ==
    \E d \in Elements : \/ Put(<<"push_back", d>>, Size, d)
                        \/ Fails(<<"push_back", d>>, FALSE)

Insert ==
    \E i \in Indices, d \in Elements :
        \/ i <= Size /\ d # NULL /\ Put(<<"insert", i, d>>, i, d)
        \/ Fails(<<"insert", i, d>>, FALSE)

(* The elements above index i move down, the slot left free is cleared.    *)
Take(c, i) ==
    /\ vector' = [vector EXCEPT
          !.data = [k \in DOMAIN vector.data |->
                       IF k = Size - 1 THEN NULL
                       ELSE IF k >= i /\ k < Size - 1 THEN vector.data[k + 1]
                       ELSE vector.data[k]],
          !.size = Size - 1]
    /\ UNCHANGED stray
    /\ Returns(c, vector.data[i])

PopBack == IF Size = 0 THEN Fails(<<"pop_back">>, NULL)
                       ELSE Take(<<"pop_back">>, Size - 1)

RemoveIndex ==
    \E i \in Indices : IF i >= Size THEN Fails(<<"remove", i>>, NULL)
                                    ELSE Take(<<"remove", i>>, i)

Set ==
    \E i \in Indices, d \in Elements :
        IF i >= Size \/ d = NULL THEN Fails(<<"set", i, d>>, FALSE)
        ELSE /\ vector' = [vector EXCEPT !.data[i] = d]
             /\ UNCHANGED stray
             /\ Returns(<<"set", i, d>>, TRUE)

Resize ==
    \E n \in Capacities :
        \/ /\ Resizable(n) /\ vector' = Resized(n)
           /\ UNCHANGED stray /\ Returns(<<"resize", n>>, TRUE)
        \/ Fails(<<"resize", n>>, FALSE)

Reserve ==
    \E n \in Capacities :
        \/ /\ n > Capacity /\ Resizable(n) /\ vector' = Resized(n)
           /\ UNCHANGED stray /\ Returns(<<"reserve", n>>, TRUE)
        \/ Fails(<<"reserve", n>>, vector # NULL /\ n <= Capacity)

Clear ==
    /\ vector # NULL
    /\ vector' = [vector EXCEPT
          !.data = [k \in DOMAIN vector.data |->
                       IF k < Size THEN NULL ELSE vector.data[k]],
          !.size = 0]
    /\ UNCHANGED stray
    /\ Returns(<<"clear">>, TRUE)

Destroy ==
    /\ vector # NULL
    /\ vector' = NULL
    /\ UNCHANGED stray
    /\ Returns(<<"destroy">>, TRUE)

IsEmpty == Size = 0
Get(i) == IF i < Size THEN vector.data[i] ELSE NULL
Items == [i \in 1..Size |-> vector.data[i - 1]]

(* The caller's cmp finds the elements of below smaller than target.       *)
BinarySearch(target, below) ==
    LET search[span \in (0..Size) \X (-1..Size - 1)] ==
            LET left == span[1]
                right == span[2]
                mid == left + (right - left) \div 2
            IN  IF left > right THEN -1
                ELSE IF vector.data[mid] = target THEN mid
                ELSE IF vector.data[mid] \in below THEN search[<<mid + 1, right>>]
                ELSE IF mid = 0 THEN -1 ELSE search[<<left, mid - 1>>]
    IN  search[<<0, Size - 1>>]

Reads ==
    {<<"size", Size>>, <<"is_empty", IsEmpty>>, <<"print", Items>>}
    \cup {<<"get", i, Get(i)>> : i \in Indices}
    \cup UNION {{<<"binary_search", d, below, BinarySearch(d, below)>> :
                     below \in SUBSET (Data \ {d})} : d \in Data}

Read == call' \in Reads /\ UNCHANGED <<vector, stray>>

Next == \/ Create \/ AddBack \/ Insert \/ PopBack \/ RemoveIndex \/ Set
        \/ Resize \/ Reserve \/ Clear \/ Destroy \/ Read

Spec == Init /\ [][Next]_vectorVars

(***************************************************************************)
(* Properties                                                              *)
(***************************************************************************)

(* The header tells the truth about the block, and every call stayed       *)
(* within it.                                                              *)
WithinBlock ==
    /\ ~stray
    /\ vector # NULL => /\ DOMAIN vector.data = 0..Capacity - 1
                        /\ Size <= Capacity

(* The vector does what a sequence does: growing, reserving and shrinking  *)
(* the block never shows.                                                  *)
Abstract == INSTANCE SequenceSpec WITH
    items <- IF vector = NULL THEN NULL ELSE Items,
    Blanks <- {NULL}, Sizes <- Capacities
Implements == Abstract!Spec
=============================================================================
