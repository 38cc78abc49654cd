---------------------------- MODULE QueueProofs -----------------------------
(***************************************************************************)
(* libft's queue is the chain of its nodes and does what a sequence does,  *)
(* for every set of elements and of addresses.                             *)
(***************************************************************************)
EXTENDS Queue, SequenceProofs

(***************************************************************************)
(* The queue and its nodes                                                 *)
(***************************************************************************)
(* p is the nodes of the queue q, from the front to the rear.              *)
Linked(h, q, p) ==
    /\ q = [front |-> q.front, rear |-> q.rear, size |-> q.size]
    /\ Chain(h, "next", q.front, p)
    /\ \A i, j \in 1..Len(p) : p[i] = p[j] => i = j
    /\ \A n \in DOMAIN h : h[n] \in [data : Data, next : Addresses \cup {NULL}]
    /\ \A n \in DOMAIN h : \E i \in 1..Len(p) : p[i] = n
    /\ q.size = Len(p)
    /\ q.rear = IF Len(p) = 0 THEN NULL ELSE p[Len(p)]

QueueInv ==
    /\ DOMAIN heap \subseteq Addresses
    /\ IF queue = NULL THEN DOMAIN heap = {} ELSE \E p : Linked(heap, queue, p)

(* A header is not the null pointer, and neither is a sequence.            *)
NullApart ==
    /\ \A f, r, s : [front |-> f, rear |-> r, size |-> s] # NULL
    /\ NULL \notin Seq(Data)

LEMMA NodesLinked ==
    ASSUME HeapAssumption, QueueInv, queue # NULL
    PROVE  Linked(heap, queue, Nodes) /\ Size = Len(Nodes) /\ Nodes \in Seq(DOMAIN heap)
<1>1. PICK p : Linked(heap, queue, p)
  BY DEF QueueInv
<1>2. Nodes = p
  <2>1. DOMAIN heap \subseteq Addresses
    BY DEF QueueInv
  <2>2. Chain(heap, "next", queue.front, p) /\ \A i, j \in 1..Len(p) : p[i] = p[j] => i = j
    BY <1>1 DEF Linked
  <2>3. Path(heap, "next", queue.front) = p
    BY <2>1, <2>2, PathIsChain
  <2>. QED  BY <2>3 DEF Nodes
<1>. QED  BY <1>1, <1>2 DEF Linked, Chain, Size

(* The same of the nodes a step leaves.                                    *)
LEMMA NodesAfter ==
    ASSUME HeapAssumption, DOMAIN heap' \subseteq Addresses, queue' # NULL,
           NEW p, Linked(heap', queue', p)
    PROVE  QueueInv' /\ Nodes' = p
<1>1. Chain(heap', "next", queue'.front, p) /\ \A i, j \in 1..Len(p) : p[i] = p[j] => i = j
  BY DEF Linked
<1>2. Path(heap', "next", queue'.front) = p
  BY <1>1, PathIsChain
<1>. QED  BY <1>2 DEF QueueInv, Nodes

(* What the nodes hold.                                                    *)
View == IF queue = NULL THEN NULL ELSE Contents(heap, Nodes)

LEMMA ItemsType ==
    ASSUME HeapAssumption, QueueInv, queue # NULL
    PROVE  /\ Contents(heap, Nodes) \in Seq(Data)
           /\ Len(Contents(heap, Nodes)) = Size /\ Size \in Nat
           /\ \A i \in 1..Size : Contents(heap, Nodes)[i] = heap[Nodes[i]].data
<1>1. Linked(heap, queue, Nodes) /\ Size = Len(Nodes) /\ Nodes \in Seq(DOMAIN heap)
  BY NodesLinked
<1>2. Size \in Nat /\ DOMAIN Nodes = 1..Size
  BY <1>1, LenProperties
<1>3. \A i \in 1..Size : heap[Nodes[i]].data \in Data
  <2>1. \A i \in 1..Size : Nodes[i] \in DOMAIN heap
    BY <1>1, <1>2, ElementOfSeq
  <2>. QED  BY <1>1, <2>1 DEF Linked
<1>. DEFINE t == [i \in 1..Size |-> heap[Nodes[i]].data]
<1>4. Contents(heap, Nodes) = t
  BY <1>2 DEF Contents
<1>5. t \in [1..Size -> Data]
  BY <1>3
<1>6. t \in Seq(Data) /\ Len(t) = Size
  BY <1>2, <1>5
<1>. QED  BY <1>2, <1>4, <1>6

LEMMA AbstractView ==
    ASSUME HeapAssumption, QueueInv, NullApart
    PROVE  /\ Abstract!Size = Size /\ Abstract!Elements = Data
           /\ (View = NULL) <=> (queue = NULL)
           /\ queue # NULL => View = Contents(heap, Nodes) /\ View \in Seq(Data) /\ Len(View) = Size
<1>1. CASE queue = NULL
  BY <1>1 DEF Size, View, Abstract!Size, Abstract!Elements
<1>2. CASE queue # NULL
  <2>1. /\ Contents(heap, Nodes) \in Seq(Data) /\ Len(Contents(heap, Nodes)) = Size
        /\ View = Contents(heap, Nodes) /\ Contents(heap, Nodes) # NULL
    BY <1>2, ItemsType DEF NullApart, View
  <2>2. Abstract!Size = Size /\ Abstract!Elements = Data
    BY <1>2, <2>1 DEF Abstract!Size, Abstract!Elements, View
  <2>. QED  BY <1>2, <2>1, <2>2
<1>. QED  BY <1>1, <1>2

(* What a step leaves is the sequence s if it agrees with it everywhere.   *)
LEMMA ViewAfter ==
    ASSUME HeapAssumption, QueueInv', queue' # NULL, NEW s \in Seq(Data),
           Len(s) = Len(Nodes'),
           \A i \in 1..Len(s) : heap'[Nodes'[i]].data = s[i]
    PROVE  View' = s
<1>1. Len(s) \in Nat /\ s = [i \in 1..Len(s) |-> s[i]]
  BY LenProperties
<1>2. DOMAIN (Nodes') = 1..Len(s)
  <2>1. Linked(heap', queue', Nodes')
    <3>1. PICK p : Linked(heap', queue', p)
      BY DEF QueueInv
    <3>2. Nodes' = p
      BY <3>1, NodesAfter DEF QueueInv
    <3>. QED  BY <3>1, <3>2
  <2>2. Nodes' \in Seq(DOMAIN (heap'))
    BY <2>1 DEF Linked, Chain
  <2>. QED  BY <2>2, LenProperties
<1>3. View' = [i \in 1..Len(s) |-> heap'[Nodes'[i]].data]
  BY <1>2 DEF View, Contents
<1>. QED  BY <1>1, <1>3

LEMMA CreateStep ==
    ASSUME HeapAssumption, QueueInv, NullApart, Create
    PROVE  QueueInv' /\ Abstract!Create /\ call'[1] = "create"
<1>1. CASE queue = NULL /\ queue' = NoNodes /\ UNCHANGED heap /\ Returns(<<"create">>, TRUE)
  <2>1. DOMAIN heap' = {} /\ queue' # NULL
    BY <1>1 DEF QueueInv, NullApart, NoNodes
  <2>2. /\ <<>> \in Seq(DOMAIN (heap')) /\ Len(<<>>) = 0 /\ 1..0 = {}
        /\ <<>> \in Seq(Data)
    OBVIOUS
  <2>3. Linked(heap', queue', <<>>)
    BY <1>1, <2>1, <2>2 DEF Linked, Chain, NoNodes
  <2>4. QueueInv' /\ Nodes' = <<>>
    BY <2>1, <2>3, NodesAfter
  <2>5. View' = <<>>
    BY <2>1, <2>2, <2>4, ViewAfter
  <2>6. call' = Append(<<"create">>, TRUE)
    BY <1>1 DEF Returns
  <2>. QED  BY <2>4, <2>5, <2>6, Names DEF Abstract!Create, Abstract!Becomes, View
<1>2. CASE queue = NULL /\ Fails(<<"create">>, FALSE)
  <2>1. QueueInv' /\ View' = View /\ call' = Append(<<"create">>, FALSE)
    BY <1>2 DEF Fails, Returns, QueueInv, View, Nodes
  <2>. QED  BY <2>1, Names DEF Abstract!Create, Abstract!Refuses, View
<1>. QED  BY <1>1, <1>2 DEF Create

LEMMA EnqueueFailsStep ==
    ASSUME HeapAssumption, QueueInv, NullApart, EnqueueFails
    PROVE  QueueInv' /\ Abstract!Inserts /\ call'[1] = "push_back"
<1>1. PICK d \in Data : Fails(<<"push_back", d>>, FALSE)
  BY DEF EnqueueFails
<1>2. QueueInv' /\ View' = View /\ call' = Append(<<"push_back", d>>, FALSE)
  BY <1>1 DEF Fails, Returns, QueueInv, View, Nodes
<1>3. Abstract!Insert(<<"push_back", d>>, Abstract!Size, d)
  BY <1>2 DEF Abstract!Insert, Abstract!Refuses, View
<1>4. d \in Abstract!Elements
  BY DEF Abstract!Elements
<1>. QED  BY <1>2, <1>3, <1>4, Names DEF Abstract!Inserts

LEMMA DequeueFailsStep ==
    ASSUME HeapAssumption, QueueInv, NullApart, DequeueFails
    PROVE  QueueInv' /\ Abstract!Removes /\ call'[1] = "pop_front"
<1>1. QueueInv' /\ View' = View /\ call' = Append(<<"pop_front">>, NULL) /\ Size = 0
  BY DEF DequeueFails, Fails, Returns, QueueInv, View, Nodes, IsEmpty
<1>2. Abstract!Size = 0
  BY <1>1, AbstractView
<1>3. Abstract!RemoveItem(<<"pop_front">>, 0)
  BY <1>1, <1>2 DEF Abstract!RemoveItem, Abstract!Refuses, View
<1>. QED  BY <1>1, <1>3, Names DEF Abstract!Removes

LEMMA FreshNode ==
    ASSUME HasRoom(heap), HeapAssumption
    PROVE  Fresh(heap) \in Addresses /\ Fresh(heap) \notin DOMAIN heap /\ Fresh(heap) # NULL
<1>1. \E n \in Addresses : n \notin DOMAIN heap
  BY DEF HasRoom
<1>2. Fresh(heap) \in Addresses /\ Fresh(heap) \notin DOMAIN heap
  BY <1>1 DEF Fresh
<1>. QED  BY <1>2 DEF HeapAssumption

(* A new node goes behind the last one, and nothing else changes.          *)
LEMMA Enqueued ==
    ASSUME HeapAssumption, QueueInv, NullApart, NEW d \in Data, Enqueue(d)
    PROVE  /\ QueueInv' /\ queue' # NULL
           /\ Nodes' = Append(Nodes, Fresh(heap))
           /\ \A i \in 1..Size : heap'[Nodes[i]].data = heap[Nodes[i]].data
           /\ heap'[Fresh(heap)].data = d
<1>. DEFINE n == Fresh(heap)
            p == Append(Nodes, n)
            block == [data |-> d, next |-> NULL]
            old == IF IsEmpty THEN heap ELSE [heap EXCEPT ![queue.rear].next = n]
<1>1. /\ queue # NULL /\ HasRoom(heap)
      /\ heap' = Alloc(old, block)
      /\ queue' = [front |-> IF IsEmpty THEN n ELSE queue.front, rear |-> n, size |-> queue.size + 1]
  BY DEF Enqueue
<1>2. n \in Addresses /\ n \notin DOMAIN heap /\ n # NULL
  BY <1>1, FreshNode
<1>3. Linked(heap, queue, Nodes) /\ Size = Len(Nodes) /\ Nodes \in Seq(DOMAIN heap)
      /\ Size \in Nat /\ queue.size = Size /\ (IsEmpty <=> Size = 0)
      /\ DOMAIN heap \subseteq Addresses
  <2>1. Linked(heap, queue, Nodes) /\ Size = Len(Nodes) /\ Nodes \in Seq(DOMAIN heap)
    BY <1>1, NodesLinked
  <2>. QED  BY <1>1, <2>1, LenProperties DEF Size, IsEmpty, QueueInv
<1>4. DOMAIN old = DOMAIN heap /\ Fresh(old) = n
  BY DEF Fresh
<1>. HIDE DEF n
<1>5. \A m \in DOMAIN heap :
         old[m] = IF ~IsEmpty /\ m = queue.rear THEN [heap[m] EXCEPT !.next = n] ELSE heap[m]
  OBVIOUS
<1>. HIDE DEF old, block
<1>6. heap' = [m \in DOMAIN heap \cup {n} |-> IF m = n THEN block ELSE old[m]]
  BY <1>1, <1>4 DEF Alloc
<1>7. /\ DOMAIN heap' = DOMAIN heap \cup {n} /\ heap'[n] = block
      /\ \A m \in DOMAIN heap :
            heap'[m] = IF ~IsEmpty /\ m = queue.rear THEN [heap[m] EXCEPT !.next = n] ELSE heap[m]
  BY <1>2, <1>5, <1>6
<1>8. \A m \in DOMAIN heap : heap[m] \in [data : Data, next : Addresses \cup {NULL}]
  BY <1>3 DEF Linked
<1>9. block \in [data : Data, next : Addresses \cup {NULL}] /\ block.data = d /\ block.next = NULL
  BY DEF block
<1>10. \A m \in DOMAIN heap :
          /\ heap'[m] \in [data : Data, next : Addresses \cup {NULL}]
          /\ heap'[m].data = heap[m].data
          /\ heap'[m].next = IF ~IsEmpty /\ m = queue.rear THEN n ELSE heap[m].next
  <2>. TAKE m \in DOMAIN heap
  <2>1. heap[m] \in [data : Data, next : Addresses \cup {NULL}]
    BY <1>8
  <2>2. CASE ~IsEmpty /\ m = queue.rear
    <3>1. heap'[m] = [heap[m] EXCEPT !.next = n]
      BY <1>7, <2>2
    <3>. QED  BY <1>2, <2>1, <2>2, <3>1
  <2>3. CASE ~(~IsEmpty /\ m = queue.rear)
    BY <1>7, <2>1, <2>3
  <2>. QED  BY <2>2, <2>3
<1>11. /\ p \in Seq(DOMAIN (heap')) /\ Len(p) = Size + 1 /\ p[Size + 1] = n
       /\ \A i \in 1..Size : p[i] = Nodes[i] /\ Nodes[i] \in DOMAIN heap
  <2>1. Nodes \in Seq(DOMAIN (heap'))
    <3>1. DOMAIN heap \subseteq DOMAIN (heap')
      BY <1>7
    <3>. QED  BY <1>3, <3>1, SeqMonotonic
  <2>2. n \in DOMAIN (heap')
    BY <1>7
  <2>3. \A i \in 1..Size : Nodes[i] \in DOMAIN heap
    BY <1>3, ElementOfSeq
  <2>. QED  BY <1>3, <2>1, <2>2, <2>3, AppendProperties
<1>. HIDE DEF p
<1>12. /\ \A i \in 1..Size : heap[Nodes[i]].next = IF i < Size THEN Nodes[i + 1] ELSE NULL
       /\ \A i, j \in 1..Size : Nodes[i] = Nodes[j] => i = j
       /\ queue.front = IF Size = 0 THEN NULL ELSE Nodes[1]
       /\ queue.rear = IF Size = 0 THEN NULL ELSE Nodes[Size]
       /\ \A m \in DOMAIN heap : \E i \in 1..Size : Nodes[i] = m
  <2>1. \A i \in 1..Len(Nodes) :
           heap[Nodes[i]].next = IF i < Len(Nodes) THEN Nodes[i + 1] ELSE NULL
    BY <1>3 DEF Linked, Chain
  <2>. QED  BY <1>3, <2>1 DEF Linked, Chain
<1>13. \A i \in 1..Len(p) : heap'[p[i]].next = IF i < Len(p) THEN p[i + 1] ELSE NULL
  <2>. TAKE i \in 1..Len(p)
  <2>1. CASE i = Size + 1
    BY <1>3, <1>7, <1>9, <1>11, <2>1
  <2>2. CASE i = Size /\ Size # 0
    <3>1. i \in 1..Size /\ i + 1 = Size + 1 /\ i < Len(p) /\ Nodes[i] = queue.rear /\ ~IsEmpty
      BY <1>3, <1>11, <1>12, <2>2
    <3>. QED  BY <1>10, <1>11, <3>1
  <2>3. CASE i < Size
    <3>1. i \in 1..Size /\ i + 1 \in 1..Size /\ Size \in 1..Size /\ i < Len(p) /\ i # Size
      BY <1>3, <1>11, <2>3
    <3>2. Nodes[i] # queue.rear
      BY <1>12, <3>1
    <3>3. heap'[Nodes[i]].next = heap[Nodes[i]].next
      BY <1>10, <1>11, <3>1, <3>2
    <3>. QED  BY <1>11, <1>12, <2>3, <3>1, <3>3
  <2>4. i = Size + 1 \/ (i = Size /\ Size # 0) \/ i < Size
    BY <1>3, <1>11
  <2>. QED  BY <2>1, <2>2, <2>3, <2>4
<1>14. Linked(heap', queue', p)
  <2>1. queue'.front = IF Len(p) = 0 THEN NULL ELSE p[1]
    <3>1. Len(p) # 0 /\ 1 \in 1..Size + 1
      BY <1>3, <1>11
    <3>2. CASE Size = 0
      BY <1>1, <1>3, <1>11, <3>1, <3>2
    <3>3. CASE Size # 0
      <4>1. 1 \in 1..Size
        BY <1>3, <3>3
      <4>. QED  BY <1>1, <1>3, <1>11, <1>12, <3>1, <3>3, <4>1
    <3>. QED  BY <3>2, <3>3
  <2>2. NULL \notin DOMAIN heap'
    BY <1>2, <1>3, <1>7 DEF Linked, Chain
  <2>3. Chain(heap', "next", queue'.front, p)
    BY <1>11, <1>13, <2>1, <2>2 DEF Chain
  <2>4. \A i, j \in 1..Len(p) : p[i] = p[j] => i = j
    <3>. TAKE i, j \in 1..Len(p)
    <3>1. i \in 1..Size \/ i = Size + 1
      BY <1>3, <1>11
    <3>2. j \in 1..Size \/ j = Size + 1
      BY <1>3, <1>11
    <3>. QED  BY <1>2, <1>11, <1>12, <3>1, <3>2
  <2>5. \A m \in DOMAIN heap' : heap'[m] \in [data : Data, next : Addresses \cup {NULL}]
    BY <1>7, <1>9, <1>10
  <2>6. \A m \in DOMAIN heap' : \E i \in 1..Len(p) : p[i] = m
    <3>1. ASSUME NEW m \in DOMAIN heap  PROVE \E i \in 1..Len(p) : p[i] = m
      <4>1. PICK i \in 1..Size : Nodes[i] = m
        BY <1>12
      <4>2. i \in 1..Len(p)
        BY <1>3, <1>11
      <4>. QED  BY <1>11, <4>1, <4>2
    <3>2. Size + 1 \in 1..Len(p)
      BY <1>3, <1>11
    <3>. QED  BY <1>7, <1>11, <3>1, <3>2
  <2>7. queue'.size = Len(p) /\ queue'.rear = p[Len(p)] /\ Len(p) # 0
    BY <1>1, <1>3, <1>11
  <2>8. queue' = [front |-> queue'.front, rear |-> queue'.rear, size |-> queue'.size]
    BY <1>1
  <2>. QED  BY <2>3, <2>4, <2>5, <2>6, <2>7, <2>8 DEF Linked
<1>15. queue' # NULL /\ DOMAIN heap' \subseteq Addresses
  BY <1>1, <1>2, <1>3, <1>7 DEF NullApart
<1>16. QueueInv' /\ Nodes' = p
  BY <1>14, <1>15, NodesAfter
<1>17. /\ \A i \in 1..Size : heap'[Nodes[i]].data = heap[Nodes[i]].data
       /\ heap'[n].data = d
  BY <1>7, <1>9, <1>10, <1>11
<1>. QED  BY <1>15, <1>16, <1>17 DEF p, n

LEMMA EnqueueStep ==
    ASSUME HeapAssumption, QueueInv, NullApart, NEW d \in Data, Enqueue(d)
    PROVE  QueueInv' /\ Abstract!Inserts /\ call'[1] = "push_back"
<1>1. /\ QueueInv' /\ queue' # NULL
      /\ Nodes' = Append(Nodes, Fresh(heap))
      /\ \A i \in 1..Size : heap'[Nodes[i]].data = heap[Nodes[i]].data
      /\ heap'[Fresh(heap)].data = d
  BY Enqueued
<1>2. queue # NULL /\ call' = Append(<<"push_back", d>>, TRUE)
  BY DEF Enqueue, Returns
<1>3. /\ View = Contents(heap, Nodes) /\ View \in Seq(Data) /\ Len(View) = Size /\ Size \in Nat
      /\ \A i \in 1..Size : View[i] = heap[Nodes[i]].data
      /\ Abstract!Size = Size /\ View # NULL
  BY <1>2, AbstractView, ItemsType
<1>. DEFINE s == InsertAt(View, Size + 1, d)
<1>4. /\ s \in Seq(Data) /\ Len(s) = Size + 1
      /\ \A k \in 1..Size + 1 : s[k] = IF k < Size + 1 THEN View[k] ELSE d
  <2>1. s = Append(View, d)
    BY <1>3, InsertedLast
  <2>. HIDE DEF s
  <2>2. /\ Append(View, d) \in Seq(Data) /\ Len(Append(View, d)) = Size + 1
        /\ \A k \in 1..Size + 1 : Append(View, d)[k] = IF k <= Size THEN View[k] ELSE d
    BY <1>3, AppendProperties
  <2>3. \A k \in 1..Size + 1 : k <= Size <=> k < Size + 1
    BY <1>3
  <2>. QED  BY <2>1, <2>2, <2>3
<1>. HIDE DEF s
<1>5. Len(Nodes') = Size + 1 /\ Nodes'[Size + 1] = Fresh(heap)
      /\ \A i \in 1..Size : Nodes'[i] = Nodes[i]
  <2>1. Nodes \in Seq(DOMAIN heap) /\ Len(Nodes) = Size
    BY <1>2, NodesLinked
  <2>2. Nodes \in Seq(DOMAIN heap \cup {Fresh(heap)})
    BY <2>1, SeqMonotonic
  <2>. QED  BY <1>1, <2>1, <2>2, AppendProperties
<1>6. View' = s
  <2>1. ASSUME NEW i \in 1..Len(s)  PROVE heap'[Nodes'[i]].data = s[i]
    <3>1. (i \in 1..Size /\ i < Size + 1) \/ (i = Size + 1 /\ ~(i < Size + 1))
      BY <1>3, <1>4
    <3>2. i \in 1..Size + 1
      BY <1>4
    <3>3. s[i] = IF i < Size + 1 THEN View[i] ELSE d
      BY <1>4, <3>2
    <3>. QED  BY <1>1, <1>3, <1>5, <3>1, <3>3
  <2>. QED  BY <1>1, <1>4, <1>5, <2>1, ViewAfter
<1>7. s = Abstract!InsertAt(View, Abstract!Size + 1, d)
  BY <1>3 DEF s, InsertAt, Abstract!InsertAt
<1>8. Abstract!Insert(<<"push_back", d>>, Abstract!Size, d)
  <2>1. View # NULL /\ Abstract!Size <= Abstract!Size
        /\ Abstract!Becomes(<<"push_back", d>>, Abstract!InsertAt(View, Abstract!Size + 1, d), TRUE)
    BY <1>2, <1>3, <1>6, <1>7 DEF Abstract!Becomes, View
  <2>. QED  BY <2>1 DEF Abstract!Insert, View
<1>9. d \in Abstract!Elements
  BY DEF Abstract!Elements
<1>. QED  BY <1>1, <1>2, <1>8, <1>9, Names DEF Abstract!Inserts

(* The first node goes, and nothing else changes.                          *)
LEMMA Dequeued ==
    ASSUME HeapAssumption, QueueInv, NullApart, Dequeue
    PROVE  /\ QueueInv' /\ queue' # NULL /\ queue # NULL /\ Size > 0
           /\ Nodes' = Tail(Nodes)
           /\ \A i \in 2..Size : heap'[Nodes[i]].data = heap[Nodes[i]].data
           /\ call' = Append(<<"pop_front">>, heap[Nodes[1]].data)
<1>. DEFINE p == Tail(Nodes)
            first == heap[queue.front].next
<1>1. /\ Size # 0 /\ queue # NULL
      /\ queue' = [front |-> first, rear |-> IF first = NULL THEN NULL ELSE queue.rear,
                   size |-> queue.size - 1]
      /\ heap' = Free(heap, {queue.front})
      /\ call' = Append(<<"pop_front">>, heap[queue.front].data)
  <2>1. queue # NULL
    BY DEF Dequeue, IsEmpty, Size
  <2>. QED  BY <2>1 DEF Dequeue, IsEmpty, Returns
<1>. HIDE DEF first
<1>2. Linked(heap, queue, Nodes) /\ Size = Len(Nodes) /\ Nodes \in Seq(DOMAIN heap)
      /\ Size \in Nat /\ queue.size = Size /\ DOMAIN heap \subseteq Addresses /\ Size > 0
  <2>1. Linked(heap, queue, Nodes) /\ Size = Len(Nodes) /\ Nodes \in Seq(DOMAIN heap)
    BY <1>1, NodesLinked
  <2>2. Size \in Nat
    BY <2>1, LenProperties
  <2>. QED  BY <1>1, <2>1, <2>2 DEF Size, QueueInv
<1>3. /\ \A i \in 1..Size : heap[Nodes[i]].next = IF i < Size THEN Nodes[i + 1] ELSE NULL
      /\ \A i, j \in 1..Size : Nodes[i] = Nodes[j] => i = j
      /\ queue.front = Nodes[1]
      /\ queue.rear = Nodes[Size]
      /\ \A m \in DOMAIN heap : \E i \in 1..Size : Nodes[i] = m
      /\ \A i \in 1..Size : Nodes[i] \in DOMAIN heap /\ Nodes[i] # NULL
  <2>1. \A i \in 1..Len(Nodes) :
           heap[Nodes[i]].next = IF i < Len(Nodes) THEN Nodes[i + 1] ELSE NULL
    BY <1>2 DEF Linked, Chain
  <2>2. \A i \in 1..Len(Nodes) : Nodes[i] \in DOMAIN heap /\ Nodes[i] # NULL
    <3>1. Chain(heap, "next", queue.front, Nodes)
      BY <1>2 DEF Linked
    <3>. QED  BY <3>1, NodeType
  <2>. QED  BY <1>2, <2>1, <2>2 DEF Linked, Chain
<1>4. 1 \in 1..Size /\ Size \in 1..Size
  BY <1>2
<1>5. heap' = [m \in DOMAIN heap \ {Nodes[1]} |-> heap[m]]
  BY <1>1, <1>3 DEF Free
<1>6. /\ Len(p) = Size - 1 /\ \A i \in 1..Size - 1 : p[i] = Nodes[i + 1]
  <2>1. Nodes # <<>>
    BY <1>2
  <2>. QED  BY <1>2, <2>1, HeadTailProperties
<1>7. p \in Seq(DOMAIN (heap'))
  <2>1. \A i \in 1..Size - 1 : p[i] \in DOMAIN (heap')
    <3>. TAKE i \in 1..Size - 1
    <3>1. i + 1 \in 1..Size /\ i + 1 # 1
      BY <1>2
    <3>. QED  BY <1>3, <1>4, <1>5, <1>6, <3>1, SMTT(30)
  <2>2. p = [i \in 1..Size - 1 |-> p[i]]
    <3>1. Tail(Nodes) \in Seq(DOMAIN heap)
      BY <1>2, HeadTailProperties
    <3>. QED  BY <1>6, <3>1, LenProperties
  <2>. HIDE DEF p
  <2>3. p \in [1..Size - 1 -> DOMAIN (heap')]
    BY <2>1, <2>2
  <2>4. Size - 1 \in Nat
    BY <1>2
  <2>. QED  BY <2>3, <2>4
<1>. HIDE DEF p
<1>8. first = IF Size = 1 THEN NULL ELSE p[1]
  <2>1. first = IF 1 < Size THEN Nodes[1 + 1] ELSE NULL
    BY <1>3, <1>4 DEF first
  <2>2. CASE Size = 1
    BY <2>1, <2>2
  <2>3. CASE Size # 1
    <3>1. 1 < Size /\ 1 \in 1..Size - 1
      BY <1>2, <2>3
    <3>. QED  BY <1>6, <2>1, <2>3, <3>1
  <2>. QED  BY <2>2, <2>3
<1>9. \A i \in 1..Len(p) : heap'[p[i]].next = IF i < Len(p) THEN p[i + 1] ELSE NULL
  <2>. TAKE i \in 1..Len(p)
  <2>1. i \in 1..Size - 1 /\ i + 1 \in 1..Size /\ i + 1 # 1 /\ (i < Len(p) <=> i + 1 < Size)
    BY <1>2, <1>6
  <2>2. heap'[p[i]].next = heap[Nodes[i + 1]].next
    BY <1>3, <1>4, <1>5, <1>6, <2>1, SMTT(30)
  <2>3. heap[Nodes[i + 1]].next = IF i + 1 < Size THEN Nodes[(i + 1) + 1] ELSE NULL
    BY <1>3, <2>1
  <2>4. i < Len(p) => p[i + 1] = Nodes[(i + 1) + 1]
    <3>1. i < Len(p) => i + 1 \in 1..Size - 1
      BY <1>2, <1>6, <2>1
    <3>. QED  BY <1>6, <3>1
  <2>. QED  BY <2>1, <2>2, <2>3, <2>4
<1>10. Linked(heap', queue', p)
  <2>1. queue'.front = IF Len(p) = 0 THEN NULL ELSE p[1]
    <3>1. Len(p) = 0 <=> Size = 1
      BY <1>2, <1>6
    <3>. QED  BY <1>1, <1>8, <3>1
  <2>2. NULL \notin DOMAIN heap'
    BY <1>2, <1>5 DEF Linked, Chain
  <2>3. Chain(heap', "next", queue'.front, p)
    BY <1>7, <1>9, <2>1, <2>2 DEF Chain
  <2>4. \A i, j \in 1..Len(p) : p[i] = p[j] => i = j
    <3>. TAKE i, j \in 1..Len(p)
    <3>1. i \in 1..Size - 1 /\ i + 1 \in 1..Size /\ j \in 1..Size - 1 /\ j + 1 \in 1..Size
          /\ (i + 1 = j + 1 => i = j)
      BY <1>2, <1>6
    <3>. QED  BY <1>3, <1>6, <3>1, SMTT(30)
  <2>5. \A m \in DOMAIN heap' : heap'[m] \in [data : Data, next : Addresses \cup {NULL}]
    BY <1>2, <1>5 DEF Linked
  <2>6. \A m \in DOMAIN heap' : \E i \in 1..Len(p) : p[i] = m
    <3>. TAKE m \in DOMAIN heap'
    <3>1. m \in DOMAIN heap /\ m # Nodes[1]
      BY <1>5
    <3>2. PICK i \in 1..Size : Nodes[i] = m
      BY <1>3, <3>1
    <3>3. i # 1
      BY <3>1, <3>2
    <3>4. i - 1 \in 1..Size - 1 /\ (i - 1) + 1 = i
      BY <1>2, <3>3
    <3>. QED  BY <1>6, <3>2, <3>4
  <2>7. queue'.size = Len(p)
    BY <1>1, <1>2, <1>6
  <2>8. queue'.rear = IF Len(p) = 0 THEN NULL ELSE p[Len(p)]
    <3>1. CASE Size = 1
      <4>1. Len(p) = 0 /\ first = NULL
        BY <1>6, <1>8, <3>1
      <4>. QED  BY <1>1, <4>1
    <3>2. CASE Size # 1
      <4>1. Len(p) = Size - 1 /\ Size - 1 \in 1..Size - 1 /\ Size - 1 # 0 /\ (Size - 1) + 1 = Size
            /\ 1 \in 1..Size - 1 /\ 2 \in 1..Size /\ 1 + 1 = 2
        BY <1>2, <1>6, <3>2
      <4>2. p[Size - 1] = Nodes[Size] /\ p[1] = Nodes[2]
        BY <1>6, <4>1
      <4>3. first # NULL
        BY <1>3, <1>8, <3>2, <4>1, <4>2
      <4>. QED  BY <1>1, <1>3, <4>1, <4>2, <4>3
    <3>. QED  BY <3>1, <3>2
  <2>9. queue' = [front |-> queue'.front, rear |-> queue'.rear, size |-> queue'.size]
    BY <1>1
  <2>. QED  BY <2>3, <2>4, <2>5, <2>6, <2>7, <2>8, <2>9 DEF Linked
<1>11. queue' # NULL /\ DOMAIN heap' \subseteq Addresses
  BY <1>1, <1>2, <1>5 DEF NullApart
<1>12. QueueInv' /\ Nodes' = p
  BY <1>10, <1>11, NodesAfter
<1>13. \A i \in 2..Size : heap'[Nodes[i]].data = heap[Nodes[i]].data
  <2>. TAKE i \in 2..Size
  <2>1. i \in 1..Size /\ i # 1
    BY <1>2
  <2>. QED  BY <1>3, <1>4, <1>5, <2>1
<1>14. call' = Append(<<"pop_front">>, heap[Nodes[1]].data)
  BY <1>1, <1>3
<1>. QED  BY <1>1, <1>2, <1>11, <1>12, <1>13, <1>14 DEF p

LEMMA DequeueStep ==
    ASSUME HeapAssumption, QueueInv, NullApart, Dequeue
    PROVE  QueueInv' /\ Abstract!Removes /\ call'[1] = "pop_front"
<1>1. /\ QueueInv' /\ queue' # NULL /\ queue # NULL /\ Size > 0
      /\ Nodes' = Tail(Nodes)
      /\ \A i \in 2..Size : heap'[Nodes[i]].data = heap[Nodes[i]].data
      /\ call' = Append(<<"pop_front">>, heap[Nodes[1]].data)
  BY Dequeued
<1>2. /\ View = Contents(heap, Nodes) /\ View \in Seq(Data) /\ Len(View) = Size /\ Size \in Nat
      /\ \A i \in 1..Size : View[i] = heap[Nodes[i]].data
      /\ Abstract!Size = Size
  BY <1>1, AbstractView, ItemsType
<1>. DEFINE s == RemoveAt(View, 1)
<1>3. /\ s \in Seq(Data) /\ Len(s) = Size - 1
      /\ \A k \in 1..Size - 1 : s[k] = View[k + 1]
  <2>1. 1 \in 1..Len(View)
    BY <1>1, <1>2
  <2>2. /\ s \in Seq(Data) /\ Len(s) = Len(View) - 1
        /\ \A k \in 1..Len(View) - 1 : s[k] = IF k < 1 THEN View[k] ELSE View[k + 1]
    BY <1>2, <2>1, Removed
  <2>3. \A k \in 1..Size - 1 : ~(k < 1)
    BY <1>2
  <2>. HIDE DEF s
  <2>. QED  BY <1>2, <2>2, <2>3
<1>. HIDE DEF s
<1>4. Len(Nodes') = Size - 1 /\ \A i \in 1..Size - 1 : Nodes'[i] = Nodes[i + 1]
  <2>1. Nodes \in Seq(DOMAIN heap) /\ Len(Nodes) = Size /\ Nodes # <<>>
    <3>1. Nodes \in Seq(DOMAIN heap) /\ Len(Nodes) = Size
      BY <1>1, NodesLinked
    <3>. QED  BY <1>1, <3>1
  <2>. QED  BY <1>1, <2>1, HeadTailProperties
<1>5. View' = s
  <2>1. ASSUME NEW i \in 1..Len(s)  PROVE heap'[Nodes'[i]].data = s[i]
    <3>1. i \in 1..Size - 1 /\ i + 1 \in 2..Size /\ i + 1 \in 1..Size
      BY <1>2, <1>3
    <3>. QED  BY <1>1, <1>2, <1>3, <1>4, <3>1, ZenonT(30)
  <2>. QED  BY <1>1, <1>3, <1>4, <2>1, ViewAfter
<1>6. s = Abstract!RemoveAt(View, 1)
  BY DEF s, RemoveAt, Abstract!RemoveAt
<1>7. 0 \in 0..Abstract!Size - 1 /\ Abstract!At(0) = heap[Nodes[1]].data
  <2>1. 0 \in 0..Size - 1 /\ 1 \in 1..Size /\ 0 + 1 = 1
    BY <1>1, <1>2
  <2>2. Abstract!At(0) = View[1]
    BY <1>2, <2>1 DEF Abstract!At, View
  <2>. QED  BY <1>2, <2>1, <2>2
<1>8. 0 + 1 = 1
  OBVIOUS
<1>9. Abstract!Becomes(<<"pop_front">>, Abstract!RemoveAt(View, 0 + 1), Abstract!At(0))
  BY <1>1, <1>5, <1>6, <1>7, <1>8 DEF Abstract!Becomes, View
<1>10. Abstract!RemoveItem(<<"pop_front">>, 0)
  BY <1>7, <1>9 DEF Abstract!RemoveItem, View
<1>. QED  BY <1>1, <1>10, Names DEF Abstract!Removes

(* All nodes are freed, by a walk along the chain.                         *)
LEMMA AllFreed ==
    ASSUME HeapAssumption, QueueInv, queue # NULL, heap' = Free(heap, ToSet(Nodes))
    PROVE  DOMAIN heap' = {}
<1>1. Linked(heap, queue, Nodes) /\ Nodes \in Seq(DOMAIN heap)
  BY NodesLinked
<1>2. \A m \in DOMAIN heap : m \in ToSet(Nodes)
  BY <1>1 DEF Linked, ToSet
<1>. QED  BY <1>2 DEF Free

LEMMA ClearStep ==
    ASSUME HeapAssumption, QueueInv, NullApart, Clear
    PROVE  QueueInv' /\ Abstract!Clear /\ call'[1] = "clear"
<1>1. queue # NULL /\ queue' = NoNodes /\ DOMAIN heap' = {} /\ call' = Append(<<"clear">>, TRUE)
  BY AllFreed DEF Clear, Returns
<1>2. queue' # NULL /\ View # NULL
  BY <1>1, AbstractView DEF NullApart, NoNodes
<1>3. /\ <<>> \in Seq(DOMAIN (heap')) /\ Len(<<>>) = 0 /\ 1..0 = {}
      /\ <<>> \in Seq(Data)
  OBVIOUS
<1>4. Linked(heap', queue', <<>>)
  BY <1>1, <1>3 DEF Linked, Chain, NoNodes
<1>5. QueueInv' /\ Nodes' = <<>>
  BY <1>1, <1>2, <1>4, NodesAfter
<1>6. View' = <<>>
  BY <1>2, <1>3, <1>5, ViewAfter
<1>. QED  BY <1>1, <1>2, <1>5, <1>6, Names DEF Abstract!Clear, Abstract!Becomes, View

LEMMA DestroyStep ==
    ASSUME HeapAssumption, QueueInv, NullApart, Destroy
    PROVE  QueueInv' /\ Abstract!Destroy /\ call'[1] = "destroy"
<1>1. queue # NULL /\ queue' = NULL /\ DOMAIN heap' = {} /\ call' = Append(<<"destroy">>, TRUE)
  BY AllFreed DEF Destroy, Returns
<1>2. QueueInv' /\ View # NULL /\ View' = NULL
  BY <1>1, AbstractView DEF QueueInv, View
<1>. QED  BY <1>1, <1>2, Names DEF Abstract!Destroy, Abstract!Becomes, View

(* The sequence an answer is read from, and both its ends.                 *)
LEMMA ShownItems ==
    ASSUME HeapAssumption, QueueInv, NullApart
    PROVE  LET s == IF View = NULL THEN <<>> ELSE View
           IN  /\ s = Contents(heap, Nodes) /\ s \in Seq(Data)
               /\ Len(s) = Size /\ Size \in Nat
               /\ FrontItem = IF Size = 0 THEN NULL ELSE s[1]
               /\ RearItem = IF Size = 0 THEN NULL ELSE s[Size]
<1>1. CASE queue = NULL
  <2>1. Size = 0 /\ View = NULL /\ Nodes = <<>> /\ FrontItem = NULL /\ RearItem = NULL
    BY <1>1 DEF Size, View, Nodes, FrontItem, RearItem, IsEmpty
  <2>2. Contents(heap, Nodes) = <<>>
    BY <2>1 DEF Contents
  <2>3. <<>> \in Seq(Data) /\ Len(<<>>) = 0
    OBVIOUS
  <2>. QED  BY <2>1, <2>2, <2>3
<1>2. CASE queue # NULL
  <2>1. /\ View = Contents(heap, Nodes) /\ View \in Seq(Data) /\ Len(View) = Size /\ View # NULL
        /\ Size \in Nat /\ \A i \in 1..Size : View[i] = heap[Nodes[i]].data
    BY <1>2, AbstractView, ItemsType
  <2>2. Linked(heap, queue, Nodes) /\ Size = Len(Nodes)
    BY <1>2, NodesLinked
  <2>3. Size # 0 => 1 \in 1..Size /\ Size \in 1..Size /\ queue.front = Nodes[1] /\ queue.rear = Nodes[Size]
    BY <2>1, <2>2 DEF Linked, Chain
  <2>4. /\ FrontItem = IF Size = 0 THEN NULL ELSE View[1]
        /\ RearItem = IF Size = 0 THEN NULL ELSE View[Size]
    BY <2>1, <2>3 DEF FrontItem, RearItem, IsEmpty
  <2>. QED  BY <2>1, <2>4
<1>. QED  BY <1>1, <1>2

LEMMA ReadStep ==
    ASSUME HeapAssumption, QueueInv, NullApart, Read
    PROVE  QueueInv' /\ Abstract!Read /\ call'[1] \in Abstract!ReadOps
<1>1. QueueInv' /\ View' = View
  BY DEF Read, QueueInv, View, Nodes
<1>. DEFINE s == IF View = NULL THEN <<>> ELSE View
<1>2. /\ s = Contents(heap, Nodes) /\ s \in Seq(Data) /\ Len(s) = Size /\ Size \in Nat
      /\ FrontItem = IF Size = 0 THEN NULL ELSE s[1]
      /\ RearItem = IF Size = 0 THEN NULL ELSE s[Size]
  BY ShownItems
<1>. HIDE DEF s
<1>3. ASSUME call'[1] \in {"size", "is_empty", "front", "back", "print"}, Len(call') = 2,
             call'[2] = Abstract!Answer(call', s)
      PROVE  Abstract!Read /\ call'[1] \in Abstract!ReadOps
  <2>1. Abstract!Last(call') = Abstract!Answer(call', s)
    BY <1>3 DEF Abstract!Last
  <2>. QED  BY <1>1, <1>3, <2>1 DEF Abstract!Read, Abstract!ReadOps, View, s
<1>4. CASE call' = <<"size", Size>>
  <2>1. call'[1] = "size" /\ Len(call') = 2 /\ call'[2] = Size
    BY <1>4
  <2>2. Abstract!Answer(call', s) = Len(s)
    BY <2>1 DEF Abstract!Answer
  <2>. QED  BY <1>1, <1>2, <1>3, <2>1, <2>2
<1>5. CASE call' = <<"is_empty", IsEmpty>>
  <2>1. call'[1] = "is_empty" /\ Len(call') = 2 /\ call'[2] = IsEmpty
    BY <1>5
  <2>2. Abstract!Answer(call', s) = (s = <<>>)
    BY <2>1 DEF Abstract!Answer
  <2>3. IsEmpty = (s = <<>>)
    <3>1. Len(s) = 0 <=> s = <<>>
      BY <1>2, EmptySeq
    <3>. QED  BY <1>2, <3>1 DEF IsEmpty
  <2>. QED  BY <1>1, <1>3, <2>1, <2>2, <2>3
<1>6. CASE call' = <<"front", FrontItem>>
  <2>1. call'[1] = "front" /\ Len(call') = 2 /\ call'[2] = FrontItem
    BY <1>6
  <2>2. Abstract!Answer(call', s) = IF 0 \in 0..Len(s) - 1 THEN s[0 + 1] ELSE NULL
    BY <2>1 DEF Abstract!Answer
  <2>3. (0 \in 0..Len(s) - 1 <=> Size # 0) /\ 0 + 1 = 1
    BY <1>2
  <2>4. FrontItem = Abstract!Answer(call', s)
    BY <1>2, <2>2, <2>3
  <2>. QED  BY <1>1, <1>3, <2>1, <2>4
<1>7. CASE call' = <<"back", RearItem>>
  <2>1. call'[1] = "back" /\ Len(call') = 2 /\ call'[2] = RearItem
    BY <1>7
  <2>2. Abstract!Answer(call', s)
           = IF Len(s) - 1 \in 0..Len(s) - 1 THEN s[(Len(s) - 1) + 1] ELSE NULL
    BY <2>1 DEF Abstract!Answer
  <2>3. (Len(s) - 1 \in 0..Len(s) - 1 <=> Size # 0) /\ (Len(s) - 1) + 1 = Size
    BY <1>2
  <2>4. RearItem = Abstract!Answer(call', s)
    BY <1>2, <2>2, <2>3
  <2>. QED  BY <1>1, <1>3, <2>1, <2>4
<1>8. CASE call' = <<"print", Contents(heap, Nodes)>>
  <2>1. call'[1] = "print" /\ Len(call') = 2 /\ call'[2] = Contents(heap, Nodes)
    BY <1>8
  <2>2. Abstract!Answer(call', s) = s
    BY <2>1 DEF Abstract!Answer
  <2>. QED  BY <1>1, <1>2, <1>3, <2>1, <2>2
<1>9. call' \in {<<"size", Size>>, <<"is_empty", IsEmpty>>, <<"front", FrontItem>>,
                 <<"back", RearItem>>, <<"print", Contents(heap, Nodes)>>}
  BY DEF Read, Reads
<1>. QED  BY <1>1, <1>4, <1>5, <1>6, <1>7, <1>8, <1>9

(***************************************************************************)
(* The theorems                                                            *)
(***************************************************************************)
LEMMA InitQueue ==
    ASSUME HeapAssumption, NullApart, Init
    PROVE  QueueInv /\ Abstract!Init
BY DEF Init, Empty, QueueInv, Abstract!Init

LEMMA NextQueue ==
    ASSUME HeapAssumption, QueueInv, NullApart, [Next]_queueVars
    PROVE  QueueInv' /\ [Abstract!Next]_(Abstract!specVars)
<1>1. CASE UNCHANGED queueVars
  BY <1>1 DEF queueVars, QueueInv, View, Nodes, Abstract!specVars
<1>. SUFFICES ASSUME Next, Abstract!specVars' # Abstract!specVars
              PROVE  QueueInv' /\ Abstract!Next
  <2>1. CASE Next
    <3>1. QueueInv'
      BY <2>1, CreateStep, EnqueueStep, EnqueueFailsStep, DequeueStep, DequeueFailsStep,
         ClearStep, DestroyStep, ReadStep DEF Next
    <3>. QED  BY <2>1, <3>1
  <2>. QED  BY <1>1, <2>1
<1>2. CASE Create
  BY <1>2, CreateStep DEF Abstract!Next, Abstract!Op
<1>3. CASE \E d \in Data : Enqueue(d)
  BY <1>3, EnqueueStep DEF Abstract!Next, Abstract!Op
<1>4. CASE EnqueueFails
  BY <1>4, EnqueueFailsStep DEF Abstract!Next, Abstract!Op
<1>5. CASE Dequeue
  BY <1>5, DequeueStep DEF Abstract!Next, Abstract!Op
<1>6. CASE DequeueFails
  BY <1>6, DequeueFailsStep DEF Abstract!Next, Abstract!Op
<1>7. CASE Clear
  BY <1>7, ClearStep DEF Abstract!Next, Abstract!Op
<1>8. CASE Destroy
  BY <1>8, DestroyStep DEF Abstract!Next, Abstract!Op
<1>9. CASE Read
  BY <1>9, ReadStep DEF Abstract!Next, Abstract!Op
<1>. QED
  BY <1>2, <1>3, <1>4, <1>5, <1>6, <1>7, <1>8, <1>9 DEF Next

(* The nodes are exactly what is allocated, as many as the header counts,  *)
(* and the header points to both ends (inc/libft/data_structures/queue):   *)
(* no call loses or shares a node, whenever malloc fails.                  *)
THEOREM QueueKeepsShape ==
    ASSUME HeapAssumption, NullApart
    PROVE  Spec => []Shape
<1>1. QueueInv => Shape
  <2>. SUFFICES ASSUME QueueInv  PROVE Shape
    OBVIOUS
  <2>1. CASE queue = NULL
    <3>1. Nodes = <<>> /\ Size = 0 /\ DOMAIN heap = {}
      BY <2>1 DEF Nodes, Size, QueueInv
    <3>. QED  BY <2>1, <3>1 DEF Shape, ToSet, IsEmpty
  <2>2. CASE queue # NULL
    <3>1. Linked(heap, queue, Nodes) /\ Size = Len(Nodes) /\ Nodes \in Seq(DOMAIN heap)
      BY <2>2, NodesLinked
    <3>2. DOMAIN Nodes = 1..Len(Nodes) /\ Len(Nodes) \in Nat
      BY <3>1, LenProperties
    <3>3. ToSet(Nodes) = DOMAIN heap
      <4>1. \A i \in 1..Len(Nodes) : Nodes[i] \in DOMAIN heap
        BY <3>1, ElementOfSeq
      <4>2. \A n \in DOMAIN heap : \E i \in 1..Len(Nodes) : Nodes[i] = n
        BY <3>1 DEF Linked
      <4>3. ToSet(Nodes) = {Nodes[i] : i \in 1..Len(Nodes)}
        BY <3>2 DEF ToSet
      <4>. QED  BY <4>1, <4>2, <4>3
    <3>4. Size = 0 => queue = NoNodes
      <4>. SUFFICES ASSUME Size = 0  PROVE queue = NoNodes
        OBVIOUS
      <4>1. queue.front = NULL /\ queue.rear = NULL /\ queue.size = 0
        BY <3>1 DEF Linked, Chain
      <4>2. queue = [front |-> queue.front, rear |-> queue.rear, size |-> queue.size]
        BY <3>1 DEF Linked
      <4>. QED  BY <4>1, <4>2 DEF NoNodes
    <3>5. Size # 0 => Last(Nodes) = queue.rear
      BY <3>1 DEF Linked, Last
    <3>. QED  BY <3>1, <3>3, <3>4, <3>5 DEF Shape, IsEmpty
  <2>. QED  BY <2>1, <2>2
<1>. QED  BY <1>1, InitQueue, NextQueue, PTL DEF Spec

(* The queue is the sequence that SequenceSpec makes of its calls, every   *)
(* result included, first in, first out.                                   *)
THEOREM QueueIsSequence ==
    ASSUME HeapAssumption, NullApart
    PROVE  Spec => Implements
<1>. QED  BY InitQueue, NextQueue, PTL DEF Spec, Implements, Abstract!Spec
=============================================================================
