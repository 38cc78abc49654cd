---------------------------- MODULE CircularList ----------------------------
(***************************************************************************)
(* libft's circular list: the header points to the last node, the last     *)
(* node to the first.  One call is one step; every loop of the code counts *)
(* to the size of the header, for no pointer of the ring is NULL.          *)
(***************************************************************************)
EXTENDS Heap

CONSTANTS Data, Indices

VARIABLES heap, list, call

clVars == <<heap, list, call>>

Init == heap = Empty /\ list = NULL /\ call = <<"none">>

NoNodes == [last |-> NULL, size |-> 0]
Size == IF list = NULL THEN 0 ELSE list.size
IsEmpty == Size = 0
First == heap[list.last].next

Returns(c, result) == call' = Append(c, result)
Fails(c, result) == Returns(c, result) /\ UNCHANGED <<heap, list>>

Create ==
    \/ list = NULL /\ list' = NoNodes /\ UNCHANGED heap /\ Returns(<<"create">>, TRUE)
    \/ list = NULL /\ Fails(<<"create">>, FALSE)

(* A new node between the last node and the first; front tells which of    *)
(* the two it becomes.                                                     *)
Push(c, d, front) ==
    /\ list # NULL /\ HasRoom(heap)
    /\ LET n == Fresh(heap)
       IN  /\ heap' = IF IsEmpty
                      THEN Alloc(heap, [data |-> d, next |-> n])
                      ELSE Alloc([heap EXCEPT ![list.last].next = n],
                                 [data |-> d, next |-> First])
           /\ list' = [last |-> IF IsEmpty \/ ~front THEN n ELSE list.last,
                       size |-> list.size + 1]
    /\ Returns(c, TRUE)

InsertAfter(c, i, d) ==
    /\ HasRoom(heap)
    /\ LET current == Hop(heap, "next", First, i - 1)
       IN  heap' = Alloc([heap EXCEPT ![current].next = Fresh(heap)],
                         [data |-> d, next |-> heap[current].next])
    /\ list' = [list EXCEPT !.size = @ + 1]
    /\ Returns(c, TRUE)

Insert ==
    \E d \in Data :
        \/ Push(<<"push_front", d>>, d, TRUE)
        \/ Push(<<"push_back", d>>, d, FALSE)
        \/ Fails(<<"push_front", d>>, FALSE)
        \/ Fails(<<"push_back", d>>, FALSE)
        \/ \E i \in Indices :
            \/ Fails(<<"insert", i, d>>, FALSE)
            \/ /\ list # NULL /\ i <= Size
               /\ \/ i = 0 /\ Push(<<"insert", i, d>>, d, TRUE)
                  \/ i # 0 /\ i = Size /\ Push(<<"insert", i, d>>, d, FALSE)
                  \/ i # 0 /\ i # Size /\ InsertAfter(<<"insert", i, d>>, i, d)

PopFront(c, result) ==
    /\ heap' = Free(IF Size = 1 THEN heap
                    ELSE [heap EXCEPT ![list.last].next = heap[First].next],
                    {First})
    /\ list' = [last |-> IF Size = 1 THEN NULL ELSE list.last,
                size |-> list.size - 1]
    /\ Returns(c, result)

(* The node before the last is found by going round.                       *)
PopBack(c, result) ==
    /\ LET current == Hop(heap, "next", First, Size - 2)
       IN  IF Size = 1
           THEN heap' = Free(heap, {list.last}) /\ list' = NoNodes
           ELSE /\ heap' = Free([heap EXCEPT ![current].next = First], {list.last})
                /\ list' = [last |-> current, size |-> list.size - 1]
    /\ Returns(c, result)

RemoveAfter(c, i, result) ==
    /\ LET current == Hop(heap, "next", First, i - 1)
           gone == heap[current].next
       IN  heap' = Free([heap EXCEPT ![current].next = heap[gone].next], {gone})
    /\ list' = [list EXCEPT !.size = @ - 1]
    /\ Returns(c, result)

(* ft_cl_remove, for an index in range.                                    *)
RemoveIndex(c, i, result) ==
    \/ i = 0 /\ PopFront(c, result)
    \/ i # 0 /\ i = Size - 1 /\ PopBack(c, result)
    \/ i # 0 /\ i # Size - 1 /\ RemoveAfter(c, i, result)

Nodes == [i \in 1..Size |-> Hop(heap, "next", First, i - 1)]
Items == Contents(heap, Nodes)
Find(d) == IndexOf(Items, d)

RemoveAny ==
    \/ IsEmpty /\ \E c \in {"pop_front", "pop_back"} : Fails(<<c>>, NULL)
    \/ ~IsEmpty /\ PopFront(<<"pop_front">>, heap[First].data)
    \/ ~IsEmpty /\ PopBack(<<"pop_back">>, heap[list.last].data)
    \/ \E i \in Indices :
        \/ i >= Size /\ Fails(<<"remove", i>>, NULL)
        \/ i < Size /\ RemoveIndex(<<"remove", i>>, i, Items[i + 1])
    \/ \E d \in Data :
        \/ Find(d) = -1 /\ Fails(<<"remove_data", d>>, FALSE)
        \/ Find(d) # -1 /\ RemoveIndex(<<"remove_data", d>>, Find(d), TRUE)

Set ==
    \E i \in Indices, d \in Data :
        \/ i >= Size /\ Fails(<<"set", i, d>>, FALSE)
        \/ /\ i < Size
           /\ heap' = [heap EXCEPT ![Nodes[i + 1]].data = d]
           /\ UNCHANGED list
           /\ Returns(<<"set", i, d>>, TRUE)

Clear ==
    /\ list # NULL
    /\ heap' = Free(heap, ToSet(Nodes))
    /\ list' = NoNodes
    /\ Returns(<<"clear">>, TRUE)

Destroy ==
    /\ list # NULL
    /\ heap' = Free(heap, ToSet(Nodes))
    /\ list' = NULL
    /\ Returns(<<"destroy">>, TRUE)

(* Mutant: one hop too many.                                               *)
Rotate_OneMore(c, hops) ==
    /\ list' = IF Size <= 1 THEN list
               ELSE [list EXCEPT !.last = Hop(heap, "next", list.last, hops + 1)]
    /\ UNCHANGED heap
    /\ Returns(c, TRUE)

(* Backward is forward by what is left of the round.                       *)
Rotate(c, hops) ==
    /\ list' = IF Size <= 1 THEN list
               ELSE [list EXCEPT !.last = Hop(heap, "next", list.last, hops)]
    /\ UNCHANGED heap
    /\ Returns(c, TRUE)

RotateAny ==
    \E k \in Indices : list # NULL /\
        \/ Rotate(<<"rotate_forward", k>>, IF IsEmpty THEN 0 ELSE k % Size)
        \/ Rotate(<<"rotate_backward", k>>, IF IsEmpty THEN 0 ELSE Size - (k % Size))

FrontItem == IF IsEmpty THEN NULL ELSE heap[First].data
BackItem == IF IsEmpty THEN NULL ELSE heap[list.last].data
ItemsTimes(n) == [i \in 1..n * Size |-> heap[Hop(heap, "next", First, i - 1)].data]

Reads ==
    {<<"size", Size>>, <<"is_empty", IsEmpty>>,
     <<"front", FrontItem>>, <<"back", BackItem>>, <<"print", Items>>}
    \cup {<<"get", i, IF i < Size THEN Items[i + 1] ELSE NULL>> : i \in Indices}
    \cup {<<"find", d, Find(d)>> : d \in Data}
    \cup {<<"contains", d, Find(d) # -1>> : d \in Data}
    \cup {<<"print_n_times", n, ItemsTimes(n)>> : n \in 0..2}

Read == call' \in Reads /\ UNCHANGED <<heap, list>>

Next == Create \/ Insert \/ RemoveAny \/ Set \/ Clear \/ Destroy \/ RotateAny \/ Read

Spec == Init /\ [][Next]_clVars

(***************************************************************************)
(* Properties                                                              *)
(***************************************************************************)

(* size hops from the last node come back to it and meet every node that   *)
(* is allocated on the way: no pointer of the ring leads out of it, the    *)
(* size that ends every loop is right, nothing leaks.                      *)
Shape ==
    /\ Cardinality(ToSet(Nodes)) = Size
    /\ ToSet(Nodes) = DOMAIN heap
    /\ IF IsEmpty THEN list \in {NULL, NoNodes} ELSE Last(Nodes) = list.last

(* The ring, read from its first node, does what a sequence does.          *)
Abstract == INSTANCE SequenceSpec WITH
    items <- IF list = NULL THEN NULL ELSE Items,
    Blanks <- {}, Sizes <- {}
Implements == Abstract!Spec

(***************************************************************************)
(* What the repository says and the program does not do                    *)
(***************************************************************************)

(* README.md of the list, "Usage Example": ft_cl_rotate_backward(list, 2)  *)
(* turns [10, 20, 30] into [30, 10, 20].                                   *)
BackwardByTwo ==
    [][Size = 3 /\ call'[1] = "rotate_backward" /\ call'[2] = 2
           => Items' = <<Items[3], Items[1], Items[2]>>]_clVars
=============================================================================
