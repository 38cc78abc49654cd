----------------------------- MODULE DoublyList -----------------------------
(***************************************************************************)
(* libft's doubly linked list: nodes on the heap, a header with both ends  *)
(* and a size that is kept beside the nodes.  One call is one step.  list  *)
(* is NULL where ft_dll_create has failed or ft_dll_destroy has run: each  *)
(* function accepts that.                                                  *)
(***************************************************************************)
EXTENDS Heap

CONSTANTS Data, Indices     \* elements and arguments of type size_t

IndicesAssumption == Indices \subseteq Nat

VARIABLES heap, list, call

dllVars == <<heap, list, call>>

Init == heap = Empty /\ list = NULL /\ call = <<"none">>

NoNodes == [head |-> NULL, tail |-> NULL, size |-> 0]
Size == IF list = NULL THEN 0 ELSE list.size
IsEmpty == Size = 0

Returns(c, result) == call' = Append(c, result)
Fails(c, result) == Returns(c, result) /\ UNCHANGED <<heap, list>>

Create ==
    \/ list = NULL /\ list' = NoNodes /\ UNCHANGED heap /\ Returns(<<"create">>, TRUE)
    \/ list = NULL /\ Fails(<<"create">>, FALSE)

(* h with field f of node n set to v, if there is a node n.                *)
Link(h, n, f, v) == IF n = NULL THEN h ELSE [h EXCEPT ![n][f] = v]

PushFront(c, d) ==
    /\ list # NULL /\ HasRoom(heap)
    /\ LET n == Fresh(heap)
       IN  /\ heap' = Alloc(Link(heap, list.head, "prev", n),
                            [data |-> d, next |-> list.head, prev |-> NULL])
           /\ list' = [head |-> n,
                       tail |-> IF list.head = NULL THEN n ELSE list.tail,
                       size |-> list.size + 1]
    /\ Returns(c, TRUE)

PushBack(c, d) ==
    /\ list # NULL /\ HasRoom(heap)
    /\ LET n == Fresh(heap)
       IN  /\ heap' = Alloc(Link(heap, list.tail, "next", n),
                            [data |-> d, next |-> NULL, prev |-> list.tail])
           /\ list' = [head |-> IF list.tail = NULL THEN n ELSE list.head,
                       tail |-> n,
                       size |-> list.size + 1]
    /\ Returns(c, TRUE)

InsertBetween(c, i, d) ==
    /\ HasRoom(heap)
    /\ LET n == Fresh(heap)
           current == Hop(heap, "next", list.head, i)
           before == heap[current].prev
       IN  heap' = Alloc(Link(Link(heap, before, "next", n), current, "prev", n),
                         [data |-> d, next |-> current, prev |-> before])
    /\ list' = [list EXCEPT !.size = @ + 1]
    /\ Returns(c, TRUE)

(* malloc returns NULL, or there is no list, or the index is out of range. *)
Push == \E d \in Data : \/ PushFront(<<"push_front", d>>, d)
                        \/ PushBack(<<"push_back", d>>, d)
                        \/ Fails(<<"push_front", d>>, FALSE)
                        \/ Fails(<<"push_back", d>>, FALSE)

Insert ==
    \E i \in Indices, d \in Data :
        LET c == <<"insert", i, d>>
        IN  \/ Fails(c, FALSE)
            \/ /\ list # NULL /\ i <= Size
               /\ \/ i = 0 /\ PushFront(c, d)
                  \/ i # 0 /\ i = Size /\ PushBack(c, d)
                  \/ i # 0 /\ i # Size /\ InsertBetween(c, i, d)

PopFront(c, result) ==
    /\ LET first == heap[list.head].next
       IN  /\ heap' = Free(Link(heap, first, "prev", NULL), {list.head})
           /\ list' = [head |-> first,
                       tail |-> IF first = NULL THEN NULL ELSE list.tail,
                       size |-> list.size - 1]
    /\ Returns(c, result)

PopBack(c, result) ==
    /\ LET last == heap[list.tail].prev
       IN  /\ heap' = Free(Link(heap, last, "next", NULL), {list.tail})
           /\ list' = [head |-> IF last = NULL THEN NULL ELSE list.head,
                       tail |-> last,
                       size |-> list.size - 1]
    /\ Returns(c, result)

(* Mutant: the back link is left as it was.                                *)
RemoveBetween_NoPrev(c, i, result) ==
    /\ LET current == Hop(heap, "next", list.head, i)
       IN  heap' = Free(Link(heap, heap[current].prev, "next", heap[current].next), {current})
    /\ list' = [list EXCEPT !.size = @ - 1]
    /\ Returns(c, result)

RemoveBetween(c, i, result) ==
    /\ LET current == Hop(heap, "next", list.head, i)
       IN  heap' = Free(Link(Link(heap, heap[current].prev, "next", heap[current].next),
                             heap[current].next, "prev", heap[current].prev),
                        {current})
    /\ list' = [list EXCEPT !.size = @ - 1]
    /\ Returns(c, result)

(* ft_dll_remove, for an index in range.                                   *)
RemoveIndex(c, i, result) ==
    \/ i = 0 /\ PopFront(c, result)
    \/ i # 0 /\ i = Size - 1 /\ PopBack(c, result)
    \/ i # 0 /\ i # Size - 1 /\ RemoveBetween(c, i, result)

Nodes == IF list = NULL THEN <<>> ELSE Path(heap, "next", list.head)
NodesBack == IF list = NULL THEN <<>> ELSE Path(heap, "prev", list.tail)
Find(d) == IndexOf(Contents(heap, Nodes), d)

(* The node at index i, reached from the nearer end.                       *)
NodeAt(i) ==
    IF i < Size \div 2 THEN Hop(heap, "next", list.head, i)
                       ELSE Hop(heap, "prev", list.tail, Size - 1 - i)
Get(i) == IF i < Size THEN heap[NodeAt(i)].data ELSE NULL

RemoveAny ==
    \/ IsEmpty /\ \E c \in {"pop_front", "pop_back"} : Fails(<<c>>, NULL)
    \/ ~IsEmpty /\ PopFront(<<"pop_front">>, heap[list.head].data)
    \/ ~IsEmpty /\ PopBack(<<"pop_back">>, heap[list.tail].data)
    \/ \E i \in Indices :
        \/ i >= Size /\ Fails(<<"remove", i>>, NULL)
        \/ i < Size /\ RemoveIndex(<<"remove", i>>, i,
                                   heap[Hop(heap, "next", list.head, i)].data)
    \/ \E d \in Data :
        \/ Find(d) = -1 /\ Fails(<<"remove_data", d>>, FALSE)
        \/ Find(d) # -1 /\ RemoveIndex(<<"remove_data", d>>, Find(d), TRUE)

Set ==
    \E i \in Indices, d \in Data :
        \/ i >= Size /\ Fails(<<"set", i, d>>, FALSE)
        \/ /\ i < Size
           /\ heap' = [heap EXCEPT ![NodeAt(i)].data = d]
           /\ UNCHANGED list
           /\ Returns(<<"set", i, d>>, TRUE)

Clear ==
    /\ list # NULL
    /\ heap' = Free(heap, ToSet(Nodes))
    /\ list' = NoNodes
    /\ Returns(<<"clear">>, TRUE)

Destroy ==
    /\ list # NULL
    /\ heap' = Free(heap, ToSet(Nodes))
    /\ list' = NULL
    /\ Returns(<<"destroy">>, TRUE)

Flip ==
    /\ list # NULL
    /\ IF Size <= 1 THEN UNCHANGED <<heap, list>>
       ELSE /\ heap' = [n \in DOMAIN heap |->
                            IF n \in ToSet(Nodes)
                            THEN [heap[n] EXCEPT !.next = heap[n].prev,
                                                 !.prev = heap[n].next]
                            ELSE heap[n]]
            /\ list' = [list EXCEPT !.head = list.tail, !.tail = list.head]
    /\ Returns(<<"reverse">>, TRUE)

FrontItem == IF IsEmpty THEN NULL ELSE heap[list.head].data
BackItem == IF IsEmpty THEN NULL ELSE heap[list.tail].data

Reads ==
    {<<"size", Size>>, <<"is_empty", IsEmpty>>,
     <<"front", FrontItem>>, <<"back", BackItem>>,
     <<"print", Contents(heap, Nodes)>>,
     <<"print_reverse", Contents(heap, NodesBack)>>}
    \cup {<<"get", i, Get(i)>> : i \in Indices}
    \cup {<<"find", d, Find(d)>> : d \in Data}
    \cup {<<"contains", d, Find(d) # -1>> : d \in Data}

Read == call' \in Reads /\ UNCHANGED <<heap, list>>

Next == Create \/ Push \/ Insert \/ RemoveAny \/ Set \/ Clear \/ Destroy \/ Flip \/ Read

Spec == Init /\ [][Next]_dllVars

(***************************************************************************)
(* Properties                                                              *)
(***************************************************************************)

(* The way back is the way forth, the size counts it, and it meets every   *)
(* node that is allocated: the calls leak nothing and free nothing twice.  *)
Shape ==
    /\ NodesBack = Reverse(Nodes)
    /\ Len(Nodes) = Size
    /\ ToSet(Nodes) = DOMAIN heap

(* The list does what a sequence does.                                     *)
Abstract == INSTANCE SequenceSpec WITH
    items <- IF list = NULL THEN NULL ELSE Contents(heap, Nodes),
    Blanks <- {}, Sizes <- {}
Implements == Abstract!Spec
=============================================================================
