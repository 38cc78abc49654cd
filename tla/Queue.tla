-------------------------------- MODULE Queue --------------------------------
(***************************************************************************)
(* libft's queue: a singly linked list with a pointer to either end.  One  *)
(* call is one step.                                                       *)
(***************************************************************************)
EXTENDS Heap

CONSTANTS Data, Indices

VARIABLES heap, queue, call

queueVars == <<heap, queue, call>>

Init == heap = Empty /\ queue = NULL /\ call = <<"none">>

NoNodes == [front |-> NULL, rear |-> NULL, size |-> 0]
Size == IF queue = NULL THEN 0 ELSE queue.size
IsEmpty == Size = 0

Returns(c, result) == call' = Append(c, result)
Fails(c, result) == Returns(c, result) /\ UNCHANGED <<heap, queue>>

Create ==
    \/ queue = NULL /\ queue' = NoNodes /\ UNCHANGED heap /\ Returns(<<"create">>, TRUE)
    \/ queue = NULL /\ Fails(<<"create">>, FALSE)

Enqueue(d) ==
    /\ queue # NULL /\ HasRoom(heap)
    /\ LET n == Fresh(heap)
           old == IF IsEmpty THEN heap ELSE [heap EXCEPT ![queue.rear].next = n]
       IN  /\ heap' = Alloc(old, [data |-> d, next |-> NULL])
           /\ queue' = [front |-> IF IsEmpty THEN n ELSE queue.front,
                        rear |-> n,
                        size |-> queue.size + 1]
    /\ Returns(<<"push_back", d>>, TRUE)

EnqueueFails == \E d \in Data : Fails(<<"push_back", d>>, FALSE)

Dequeue ==
    /\ ~IsEmpty
    /\ LET first == heap[queue.front].next
       IN  queue' = [front |-> first,
                     rear |-> IF first = NULL THEN NULL ELSE queue.rear,
                     size |-> queue.size - 1]
    /\ heap' = Free(heap, {queue.front})
    /\ Returns(<<"pop_front">>, heap[queue.front].data)

DequeueFails == IsEmpty /\ Fails(<<"pop_front">>, NULL)

Nodes == IF queue = NULL THEN <<>> ELSE Path(heap, "next", queue.front)

Clear ==
    /\ queue # NULL
    /\ heap' = Free(heap, ToSet(Nodes))
    /\ queue' = NoNodes
    /\ Returns(<<"clear">>, TRUE)

Destroy ==
    /\ queue # NULL
    /\ heap' = Free(heap, ToSet(Nodes))
    /\ queue' = NULL
    /\ Returns(<<"destroy">>, TRUE)

FrontItem == IF IsEmpty THEN NULL ELSE heap[queue.front].data
RearItem == IF IsEmpty THEN NULL ELSE heap[queue.rear].data

Reads ==
    {<<"size", Size>>, <<"is_empty", IsEmpty>>,
     <<"front", FrontItem>>, <<"back", RearItem>>,
     <<"print", Contents(heap, Nodes)>>}

Read == call' \in Reads /\ UNCHANGED <<heap, queue>>

Next ==
    \/ Create
    \/ \E d \in Data : Enqueue(d)
    \/ EnqueueFails
    \/ Dequeue
    \/ DequeueFails
    \/ Clear
    \/ Destroy
    \/ Read

Spec == Init /\ [][Next]_queueVars

(***************************************************************************)
(* Properties                                                              *)
(***************************************************************************)

(* The path from the front counts size nodes, ends at the rear and is all  *)
(* that is allocated.                                                      *)
Shape ==
    /\ Len(Nodes) = Size
    /\ ToSet(Nodes) = DOMAIN heap
    /\ IF IsEmpty THEN queue \in {NULL, NoNodes} ELSE Last(Nodes) = queue.rear

(* The queue does what a sequence does.                                    *)
Abstract == INSTANCE SequenceSpec WITH
    items <- IF queue = NULL THEN NULL ELSE Contents(heap, Nodes),
    Blanks <- {}, Sizes <- {}
Implements == Abstract!Spec
=============================================================================
