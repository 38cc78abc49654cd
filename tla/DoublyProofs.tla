---------------------------- MODULE DoublyProofs ----------------------------
(***************************************************************************)
(* libft's doubly linked list reads the same both ways and does what a     *)
(* sequence does, for every set of elements, indices and addresses.        *)
(***************************************************************************)
EXTENDS DoublyList, SequenceProofs

(***************************************************************************)
(* The list and its nodes                                                  *)
(***************************************************************************)
(* Node i of p, NULL beyond its ends.                                      *)
Node(p, i) == IF i \in 1..Len(p) THEN p[i] ELSE NULL

(* p is the nodes of the list l, from the head to the tail, and each block *)
(* points to its neighbours.                                               *)
Linked(h, l, p) ==
    /\ l = [head |-> Node(p, 1), tail |-> Node(p, Len(p)), size |-> Len(p)]
    /\ NULL \notin DOMAIN h
    /\ p \in Seq(DOMAIN h)
    /\ \A i, j \in 1..Len(p) : p[i] = p[j] => i = j
    /\ \A n \in DOMAIN h : \E i \in 1..Len(p) : p[i] = n
    /\ \A i \in 1..Len(p) :
          /\ h[p[i]].data \in Data
          /\ h[p[i]] = [data |-> h[p[i]].data, next |-> Node(p, i + 1), prev |-> Node(p, i - 1)]

DoublyInv ==
    /\ DOMAIN heap \subseteq Addresses
    /\ IF list = NULL THEN DOMAIN heap = {} ELSE \E p : Linked(heap, list, p)

(* A header is not the null pointer, and neither is a sequence or an       *)
(* element.                                                                *)
NullApart ==
    /\ \A a, b, s : [head |-> a, tail |-> b, size |-> s] # NULL
    /\ NULL \notin Seq(Data) /\ NULL \notin Data

LEMMA NodesType ==
    ASSUME NEW h, NEW l, NEW p, Linked(h, l, p)
    PROVE  /\ Len(p) \in Nat
           /\ \A i \in 1..Len(p) : p[i] \in DOMAIN h /\ p[i] # NULL
           /\ \A i \in Int : Node(p, i) # NULL <=> i \in 1..Len(p)
<1>1. p \in Seq(DOMAIN h) /\ NULL \notin DOMAIN h
  BY DEF Linked
<1>2. Len(p) \in Nat /\ \A i \in 1..Len(p) : p[i] \in DOMAIN h /\ p[i] # NULL
  BY <1>1, ElementOfSeq, LenProperties
<1>. QED  BY <1>2 DEF Node

(* Followed forwards and backwards, the nodes are a chain each way.        *)
LEMMA Chains ==
    ASSUME NEW h, NEW l, NEW p, Linked(h, l, p)
    PROVE  /\ Chain(h, "next", l.head, p)
           /\ Chain(h, "prev", l.tail, Reverse(p))
           /\ Len(Reverse(p)) = Len(p)
           /\ \A i \in 1..Len(p) : Reverse(p)[i] = p[Len(p) - i + 1]
           /\ \A i, j \in 1..Len(p) : Reverse(p)[i] = Reverse(p)[j] => i = j
<1>. DEFINE r == Reverse(p)
<1>1. Len(p) \in Nat /\ \A i \in 1..Len(p) : p[i] \in DOMAIN h /\ p[i] # NULL
  BY NodesType
<1>2. \A i \in 1..Len(p) : h[p[i]].next = Node(p, i + 1) /\ h[p[i]].prev = Node(p, i - 1)
  <2>. TAKE i \in 1..Len(p)
  <2>1. h[p[i]] = [data |-> h[p[i]].data, next |-> Node(p, i + 1), prev |-> Node(p, i - 1)]
    BY DEF Linked
  <2>. QED  BY <2>1
<1>3. l.head = Node(p, 1) /\ l.tail = Node(p, Len(p)) /\ NULL \notin DOMAIN h /\ p \in Seq(DOMAIN h)
  BY DEF Linked
<1>4. Chain(h, "next", l.head, p)
  <2>1. \A i \in 1..Len(p) : Node(p, i + 1) = IF i < Len(p) THEN p[i + 1] ELSE NULL
    BY <1>1 DEF Node
  <2>2. l.head = IF Len(p) = 0 THEN NULL ELSE p[1]
    BY <1>1, <1>3 DEF Node
  <2>. QED  BY <1>2, <1>3, <2>1, <2>2 DEF Chain
<1>5. \A i \in 1..Len(p) : Len(p) - i + 1 \in 1..Len(p)
  BY <1>1
<1>6. r = [i \in 1..Len(p) |-> p[Len(p) - i + 1]]
  BY DEF Reverse
<1>. HIDE DEF r
<1>7. r \in Seq(DOMAIN h) /\ Len(r) = Len(p) /\ \A i \in 1..Len(p) : r[i] = p[Len(p) - i + 1]
  <2>1. r \in [1..Len(p) -> DOMAIN h]
    BY <1>1, <1>5, <1>6
  <2>. QED  BY <1>1, <1>6, <2>1
<1>8. Chain(h, "prev", l.tail, r)
  <2>1. ASSUME NEW i \in 1..Len(p)
        PROVE  h[r[i]].prev = IF i < Len(p) THEN r[i + 1] ELSE NULL
    <3>1. h[r[i]].prev = Node(p, (Len(p) - i + 1) - 1)
      BY <1>2, <1>5, <1>7
    <3>2. (Len(p) - i + 1) - 1 = Len(p) - (i + 1) + 1
      BY <1>1
    <3>3. i < Len(p) => i + 1 \in 1..Len(p) /\ Len(p) - (i + 1) + 1 \in 1..Len(p)
      BY <1>1
    <3>4. ~(i < Len(p)) => Len(p) - (i + 1) + 1 \notin 1..Len(p)
      BY <1>1
    <3>. QED  BY <1>7, <3>1, <3>2, <3>3, <3>4 DEF Node
  <2>2. l.tail = IF Len(r) = 0 THEN NULL ELSE r[1]
    <3>1. Len(p) # 0 => 1 \in 1..Len(p) /\ Len(p) \in 1..Len(p) /\ Len(p) - 1 + 1 = Len(p)
      BY <1>1
    <3>. QED  BY <1>1, <1>3, <1>7, <3>1 DEF Node
  <2>. QED  BY <1>3, <1>7, <2>1, <2>2 DEF Chain
<1>9. \A i, j \in 1..Len(p) : r[i] = r[j] => i = j
  <2>. TAKE i, j \in 1..Len(p)
  <2>1. \A k, m \in 1..Len(p) : p[k] = p[m] => k = m
    BY DEF Linked
  <2>2. Len(p) - i + 1 = Len(p) - j + 1 => i = j
    BY <1>1
  <2>. QED  BY <1>5, <1>7, <2>1, <2>2
<1>. QED  BY <1>4, <1>7, <1>8, <1>9 DEF r

LEMMA PathsAre ==
    ASSUME HeapAssumption, NEW h, DOMAIN h \subseteq Addresses, NEW l, NEW p, Linked(h, l, p)
    PROVE  Path(h, "next", l.head) = p /\ Path(h, "prev", l.tail) = Reverse(p)
<1>1. /\ Chain(h, "next", l.head, p) /\ Chain(h, "prev", l.tail, Reverse(p))
      /\ Len(Reverse(p)) = Len(p)
      /\ \A i, j \in 1..Len(p) : Reverse(p)[i] = Reverse(p)[j] => i = j
  BY Chains
<1>2. \A i, j \in 1..Len(p) : p[i] = p[j] => i = j
  BY DEF Linked
<1>3. Path(h, "next", l.head) = p
  BY <1>1, <1>2, PathIsChain
<1>4. Path(h, "prev", l.tail) = Reverse(p)
  BY <1>1, PathIsChain
<1>. QED  BY <1>3, <1>4

LEMMA NodesLinked ==
    ASSUME HeapAssumption, DoublyInv, list # NULL
    PROVE  /\ Linked(heap, list, Nodes) /\ NodesBack = Reverse(Nodes)
           /\ Nodes \in Seq(DOMAIN heap) /\ Size = Len(Nodes) /\ Size \in Nat
<1>1. PICK p : Linked(heap, list, p)
  BY DEF DoublyInv
<1>2. Nodes = p /\ NodesBack = Reverse(p)
  BY <1>1, PathsAre DEF DoublyInv, Nodes, NodesBack
<1>3. p \in Seq(DOMAIN heap) /\ list.size = Len(p)
  BY <1>1 DEF Linked
<1>. QED  BY <1>1, <1>2, <1>3, LenProperties DEF Size

(* The same of the nodes a step leaves.                                    *)
LEMMA NodesAfter ==
    ASSUME HeapAssumption, DOMAIN heap' \subseteq Addresses, list' # NULL,
           NEW p, Linked(heap', list', p)
    PROVE  DoublyInv' /\ Nodes' = p
<1>1. Path(heap', "next", list'.head) = p
  BY PathsAre
<1>. QED  BY <1>1 DEF DoublyInv, Nodes

(* What the nodes hold.                                                    *)
View == IF list = NULL THEN NULL ELSE Contents(heap, Nodes)

LEMMA ItemsType ==
    ASSUME HeapAssumption, DoublyInv, list # NULL
    PROVE  /\ Contents(heap, Nodes) \in Seq(Data)
           /\ Len(Contents(heap, Nodes)) = Size /\ Size \in Nat
           /\ \A i \in 1..Size : Contents(heap, Nodes)[i] = heap[Nodes[i]].data
<1>1. Linked(heap, list, Nodes) /\ Nodes \in Seq(DOMAIN heap) /\ Size = Len(Nodes) /\ Size \in Nat
  BY NodesLinked
<1>2. DOMAIN Nodes = 1..Size
  BY <1>1, LenProperties
<1>3. \A i \in 1..Size : heap[Nodes[i]].data \in Data
  BY <1>1 DEF Linked
<1>. DEFINE t == [i \in 1..Size |-> heap[Nodes[i]].data]
<1>4. Contents(heap, Nodes) = t
  BY <1>2 DEF Contents
<1>5. t \in [1..Size -> Data]
  BY <1>3
<1>6. t \in Seq(Data) /\ Len(t) = Size
  BY <1>1, <1>5
<1>. QED  BY <1>1, <1>4, <1>6

LEMMA AbstractView ==
    ASSUME HeapAssumption, DoublyInv, NullApart
    PROVE  /\ Abstract!Size = Size /\ Abstract!Elements = Data /\ Size \in Nat
           /\ (View = NULL) <=> (list = NULL)
           /\ list # NULL => /\ View = Contents(heap, Nodes) /\ View \in Seq(Data) /\ Len(View) = Size
                             /\ \A i \in 1..Size : View[i] = heap[Nodes[i]].data
           /\ \A i \in 0..Size - 1 : Abstract!At(i) = heap[Nodes[i + 1]].data
<1>1. CASE list = NULL
  BY <1>1 DEF Size, View, Abstract!Size, Abstract!Elements
<1>2. CASE list # NULL
  <2>1. /\ Contents(heap, Nodes) \in Seq(Data) /\ Len(Contents(heap, Nodes)) = Size
        /\ View = Contents(heap, Nodes) /\ Contents(heap, Nodes) # NULL /\ Size \in Nat
        /\ \A i \in 1..Size : View[i] = heap[Nodes[i]].data
    BY <1>2, ItemsType DEF NullApart, View
  <2>2. Abstract!Size = Size /\ Abstract!Elements = Data
    BY <1>2, <2>1 DEF Abstract!Size, Abstract!Elements, View
  <2>3. ASSUME NEW i \in 0..Size - 1  PROVE Abstract!At(i) = heap[Nodes[i + 1]].data
    <3>1. i + 1 \in 1..Size
      BY <2>1
    <3>2. Abstract!At(i) = View[i + 1]
      BY <2>2 DEF Abstract!At, View
    <3>. QED  BY <2>1, <3>1, <3>2
  <2>. QED  BY <1>2, <2>1, <2>2, <2>3
<1>. QED  BY <1>1, <1>2

(* What a step leaves is the sequence s if it agrees with it everywhere.   *)
LEMMA ViewAfter ==
    ASSUME HeapAssumption, DOMAIN heap' \subseteq Addresses, list' # NULL,
           NEW p, Linked(heap', list', p), NEW s \in Seq(Data), Len(s) = Len(p),
           \A i \in 1..Len(s) : heap'[p[i]].data = s[i]
    PROVE  DoublyInv' /\ View' = s
<1>1. DoublyInv' /\ Nodes' = p
  BY NodesAfter
<1>2. Len(s) \in Nat /\ s = [i \in 1..Len(s) |-> s[i]]
  BY LenProperties
<1>3. DOMAIN p = 1..Len(s)
  <2>1. p \in Seq(DOMAIN (heap'))
    BY DEF Linked
  <2>. QED  BY <2>1, LenProperties
<1>4. View' = [i \in 1..Len(s) |-> heap'[p[i]].data]
  BY <1>1, <1>3 DEF View, Contents
<1>. QED  BY <1>1, <1>2, <1>4

LEMMA FailingStep ==
    ASSUME DoublyInv, NEW c, NEW result, Fails(c, result)
    PROVE  DoublyInv' /\ View' = View /\ Abstract!Refuses(c, result)
BY DEF Fails, Returns, DoublyInv, View, Nodes, Abstract!Refuses

(***************************************************************************)
(* Setting links                                                           *)
(***************************************************************************)
LEMMA NodeIs ==
    ASSUME NEW h, NEW l, NEW p, Linked(h, l, p)
    PROVE  /\ \A j \in Int : Node(p, j) \in DOMAIN h \cup {NULL}
           /\ \A k \in 1..Len(p), j \in Int : p[k] = Node(p, j) <=> k = j
<1>1. \A i, j \in 1..Len(p) : p[i] = p[j] => i = j
  BY DEF Linked
<1>. QED  BY <1>1, NodesType DEF Node

(* Both neighbours of a place are linked to what is there from now on.     *)
LEMMA Relinked ==
    ASSUME NEW h, NULL \notin DOMAIN h,
           \A m \in DOMAIN h : h[m] = [data |-> h[m].data, next |-> h[m].next, prev |-> h[m].prev],
           NEW a, a \in DOMAIN h \cup {NULL}, NEW v, NEW b, b \in DOMAIN h \cup {NULL}, NEW w,
           NEW g, g = Link(Link(h, a, "next", v), b, "prev", w)
    PROVE  /\ DOMAIN g = DOMAIN h
           /\ \A m \in DOMAIN h : g[m] = [data |-> h[m].data,
                                          next |-> IF m = a THEN v ELSE h[m].next,
                                          prev |-> IF m = b THEN w ELSE h[m].prev]
<1>. DEFINE f == Link(h, a, "next", v)
<1>1. /\ DOMAIN f = DOMAIN h
      /\ \A m \in DOMAIN h : f[m] = [data |-> h[m].data,
                                     next |-> IF m = a THEN v ELSE h[m].next,
                                     prev |-> h[m].prev]
  <2>1. CASE a = NULL
    <3>1. f = h /\ \A m \in DOMAIN h : m # a
      BY <2>1 DEF Link
    <3>. QED  BY <3>1
  <2>2. CASE a # NULL
    <3>1. f = [h EXCEPT ![a]["next"] = v] /\ a \in DOMAIN h
      BY <2>2 DEF Link
    <3>2. DOMAIN f = DOMAIN h /\ \A m \in DOMAIN h : m # a => f[m] = h[m]
      BY <3>1
    <3>3. f[a] = [h[a] EXCEPT !["next"] = v]
      BY <3>1
    <3>4. h[a] = [data |-> h[a].data, next |-> h[a].next, prev |-> h[a].prev]
      BY <3>1
    <3>5. f[a] = [data |-> h[a].data, next |-> v, prev |-> h[a].prev]
      BY <3>3, <3>4
    <3>. HIDE DEF f
    <3>. QED  BY <3>2, <3>5
  <2>. QED  BY <2>1, <2>2
<1>. HIDE DEF f
<1>2. g = Link(f, b, "prev", w)
  BY DEF f
<1>3. CASE b = NULL
  <2>1. g = f /\ \A m \in DOMAIN h : m # b
    BY <1>2, <1>3 DEF Link
  <2>. QED  BY <1>1, <2>1
<1>4. CASE b # NULL
  <2>1. g = [f EXCEPT ![b]["prev"] = w] /\ b \in DOMAIN f
    BY <1>1, <1>2, <1>4 DEF Link
  <2>2. DOMAIN g = DOMAIN f /\ \A m \in DOMAIN f : m # b => g[m] = f[m]
    BY <2>1
  <2>3. g[b] = [f[b] EXCEPT !["prev"] = w]
    BY <2>1
  <2>4. f[b] = [data |-> h[b].data, next |-> IF b = a THEN v ELSE h[b].next, prev |-> h[b].prev]
    BY <1>1, <2>1
  <2>5. g[b] = [data |-> h[b].data, next |-> IF b = a THEN v ELSE h[b].next, prev |-> w]
    BY <2>3, <2>4
  <2>. QED  BY <1>1, <2>1, <2>2, <2>5
<1>. QED  BY <1>3, <1>4

LEMMA RelinkedNodes ==
    ASSUME NEW h, NEW l, NEW p, Linked(h, l, p), NEW i \in Int, NEW j \in Int, NEW v, NEW w,
           NEW g, g = Link(Link(h, Node(p, i), "next", v), Node(p, j), "prev", w)
    PROVE  /\ DOMAIN g = DOMAIN h
           /\ \A k \in 1..Len(p) : g[p[k]] = [data |-> h[p[k]].data,
                                              next |-> IF k = i THEN v ELSE Node(p, k + 1),
                                              prev |-> IF k = j THEN w ELSE Node(p, k - 1)]
<1>1. \A k \in 1..Len(p) :
         /\ p[k] \in DOMAIN h
         /\ h[p[k]] = [data |-> h[p[k]].data, next |-> Node(p, k + 1), prev |-> Node(p, k - 1)]
  BY NodesType DEF Linked
<1>2. \A k \in 1..Len(p) : h[p[k]].next = Node(p, k + 1) /\ h[p[k]].prev = Node(p, k - 1)
  <2>. TAKE k \in 1..Len(p)
  <2>1. h[p[k]] = [data |-> h[p[k]].data, next |-> Node(p, k + 1), prev |-> Node(p, k - 1)]
    BY <1>1
  <2>. QED  BY <2>1
<1>3. \A m \in DOMAIN h : h[m] = [data |-> h[m].data, next |-> h[m].next, prev |-> h[m].prev]
  <2>. TAKE m \in DOMAIN h
  <2>1. PICK k \in 1..Len(p) : p[k] = m
    BY DEF Linked
  <2>. QED  BY <1>1, <1>2, <2>1
<1>4. NULL \notin DOMAIN h /\ \A k \in Int : Node(p, k) \in DOMAIN h \cup {NULL}
  BY NodeIs DEF Linked
<1>5. /\ DOMAIN g = DOMAIN h
      /\ \A m \in DOMAIN h : g[m] = [data |-> h[m].data,
                                     next |-> IF m = Node(p, i) THEN v ELSE h[m].next,
                                     prev |-> IF m = Node(p, j) THEN w ELSE h[m].prev]
  BY <1>3, <1>4, Relinked
<1>6. \A k \in 1..Len(p) : (p[k] = Node(p, i) <=> k = i) /\ (p[k] = Node(p, j) <=> k = j)
  BY NodeIs
<1>. SUFFICES ASSUME NEW k \in 1..Len(p)
              PROVE  g[p[k]] = [data |-> h[p[k]].data,
                                next |-> IF k = i THEN v ELSE Node(p, k + 1),
                                prev |-> IF k = j THEN w ELSE Node(p, k - 1)]
  BY <1>5
<1>7. g[p[k]] = [data |-> h[p[k]].data,
                 next |-> IF p[k] = Node(p, i) THEN v ELSE h[p[k]].next,
                 prev |-> IF p[k] = Node(p, j) THEN w ELSE h[p[k]].prev]
  BY <1>1, <1>5
<1>. QED  BY <1>2, <1>6, <1>7

(***************************************************************************)
(* Insertion                                                               *)
(***************************************************************************)
LEMMA FreshNode ==
    ASSUME HasRoom(heap), HeapAssumption
    PROVE  Fresh(heap) \in Addresses /\ Fresh(heap) \notin DOMAIN heap /\ Fresh(heap) # NULL
<1>1. \E n \in Addresses : n \notin DOMAIN heap
  BY DEF HasRoom
<1>2. Fresh(heap) \in Addresses /\ Fresh(heap) \notin DOMAIN heap
  BY <1>1 DEF Fresh
<1>. QED  BY <1>2 DEF HeapAssumption

(* A node with d becomes number i, whichever function puts it there.       *)
InsertsNode(i, d) ==
    LET n == Fresh(heap)
    IN  /\ list # NULL /\ HasRoom(heap)
        /\ heap' = Alloc(Link(Link(heap, Node(Nodes, i - 1), "next", n), Node(Nodes, i), "prev", n),
                         [data |-> d, next |-> Node(Nodes, i), prev |-> Node(Nodes, i - 1)])
        /\ list' = [head |-> IF i = 1 THEN n ELSE list.head,
                    tail |-> IF i = Size + 1 THEN n ELSE list.tail,
                    size |-> Size + 1]

LEMMA NodesInserted ==
    ASSUME NEW S, NEW p \in Seq(S), NEW n \in S, n # NULL, NEW i \in 1..Len(p) + 1,
           NEW q, q = InsertAt(p, i, n)
    PROVE  /\ q \in Seq(S) /\ Len(q) = Len(p) + 1
           /\ \A k \in 1..Len(p) + 1 : q[k] = IF k < i THEN p[k] ELSE IF k = i THEN n ELSE p[k - 1]
           /\ \A k \in Int :
                 Node(q, k) = IF k < i THEN Node(p, k) ELSE IF k = i THEN n ELSE Node(p, k - 1)
<1>1. /\ q \in Seq(S) /\ Len(q) = Len(p) + 1
      /\ \A k \in 1..Len(p) + 1 : q[k] = IF k < i THEN p[k] ELSE IF k = i THEN n ELSE p[k - 1]
  <2>1. ASSUME NEW e \in S, NEW j \in 1..Len(p) + 1
        PROVE  /\ InsertAt(p, j, e) \in Seq(S) /\ Len(InsertAt(p, j, e)) = Len(p) + 1
               /\ \A k \in 1..Len(p) + 1 :
                     InsertAt(p, j, e)[k] = IF k < j THEN p[k] ELSE IF k = j THEN e ELSE p[k - 1]
    BY ONLY Inserted, p \in Seq(S), e \in S, j \in 1..Len(p) + 1
  <2>. QED  BY <2>1
<1>2. Len(p) \in Nat
  BY LenProperties
<1>3. ASSUME NEW k \in Int
      PROVE  Node(q, k) = IF k < i THEN Node(p, k) ELSE IF k = i THEN n ELSE Node(p, k - 1)
  <2>1. CASE k \in 1..Len(p) + 1
    <3>1. k < i => k \in 1..Len(p)
      BY <1>2, <2>1
    <3>2. ~(k < i) /\ k # i => k - 1 \in 1..Len(p)
      BY <1>2, <2>1
    <3>. QED  BY <1>1, <2>1, <3>1, <3>2 DEF Node
  <2>2. CASE k \notin 1..Len(p) + 1
    <3>1. k # i /\ (k < i => k \notin 1..Len(p)) /\ (~(k < i) => k - 1 \notin 1..Len(p))
      BY <1>2, <2>2
    <3>. QED  BY <1>1, <2>2, <3>1 DEF Node
  <2>. QED  BY <2>1, <2>2
<1>. QED  BY <1>1, <1>3

LEMMA InsertedNode ==
    ASSUME HeapAssumption, DoublyInv, NullApart, NEW i \in 1..Size + 1, NEW d \in Data,
           InsertsNode(i, d)
    PROVE  DoublyInv' /\ list # NULL /\ list' # NULL /\ View' = InsertAt(View, i, d)
<1>. DEFINE n == Fresh(heap)
            p == Nodes
            q == InsertAt(p, i, n)
            g == Link(Link(heap, Node(p, i - 1), "next", n), Node(p, i), "prev", n)
            block == [data |-> d, next |-> Node(p, i), prev |-> Node(p, i - 1)]
<1>1. /\ list # NULL /\ HasRoom(heap) /\ heap' = Alloc(g, block)
      /\ list' = [head |-> IF i = 1 THEN n ELSE list.head,
                  tail |-> IF i = Size + 1 THEN n ELSE list.tail,
                  size |-> Size + 1]
  BY DEF InsertsNode
<1>2. n \in Addresses /\ n \notin DOMAIN heap /\ n # NULL
  BY <1>1, FreshNode
<1>3. /\ Linked(heap, list, p) /\ p \in Seq(DOMAIN heap) /\ Size = Len(p) /\ Size \in Nat
      /\ DOMAIN heap \subseteq Addresses
  BY <1>1, NodesLinked DEF DoublyInv
<1>4. \A k \in 1..Size : p[k] \in DOMAIN heap /\ p[k] # NULL /\ p[k] # n
  BY <1>2, <1>3, NodesType
<1>5. i \in Int /\ i - 1 \in Int /\ i \in 1..Len(p) + 1
  BY <1>3
<1>6. /\ DOMAIN g = DOMAIN heap
      /\ \A k \in 1..Size : g[p[k]] = [data |-> heap[p[k]].data,
                                       next |-> IF k = i - 1 THEN n ELSE Node(p, k + 1),
                                       prev |-> IF k = i THEN n ELSE Node(p, k - 1)]
  <2>. DEFINE j == i - 1
  <2>1. /\ g = Link(Link(heap, Node(p, j), "next", n), Node(p, i), "prev", n)
        /\ Linked(heap, list, p) /\ j \in Int /\ i \in Int
    BY <1>3, <1>5
  <2>. HIDE DEF n, p, g, j
  <2>2. /\ DOMAIN g = DOMAIN heap
        /\ \A k \in 1..Len(p) : g[p[k]] = [data |-> heap[p[k]].data,
                                           next |-> IF k = j THEN n ELSE Node(p, k + 1),
                                           prev |-> IF k = i THEN n ELSE Node(p, k - 1)]
    BY <2>1, RelinkedNodes
  <2>. QED  BY <1>3, <2>2 DEF j
<1>7. Fresh(g) = n
  BY <1>6 DEF Fresh
<1>. HIDE DEF g, block, n, p
<1>8. heap' = [m \in DOMAIN heap \cup {n} |-> IF m = n THEN block ELSE g[m]]
  BY <1>1, <1>6, <1>7 DEF Alloc
<1>9. /\ DOMAIN heap' = DOMAIN heap \cup {n} /\ heap'[n] = block
      /\ \A k \in 1..Size : heap'[p[k]] = [data |-> heap[p[k]].data,
                                           next |-> IF k = i - 1 THEN n ELSE Node(p, k + 1),
                                           prev |-> IF k = i THEN n ELSE Node(p, k - 1)]
  BY <1>4, <1>6, <1>8
<1>10. /\ q \in Seq(DOMAIN (heap')) /\ Len(q) = Size + 1
       /\ \A k \in 1..Size + 1 : q[k] = IF k < i THEN p[k] ELSE IF k = i THEN n ELSE p[k - 1]
       /\ \A k \in Int :
             Node(q, k) = IF k < i THEN Node(p, k) ELSE IF k = i THEN n ELSE Node(p, k - 1)
  <2>1. p \in Seq(DOMAIN (heap')) /\ n \in DOMAIN (heap')
    <3>1. DOMAIN heap \subseteq DOMAIN (heap')
      BY <1>9
    <3>. QED  BY <1>3, <1>9, <3>1, SeqMonotonic
  <2>. QED  BY <1>2, <1>3, <1>5, <2>1, NodesInserted
<1>. HIDE DEF q
<1>11. ASSUME NEW k \in 1..Size + 1
       PROVE  /\ heap'[q[k]] = [data |-> heap'[q[k]].data, next |-> Node(q, k + 1), prev |-> Node(q, k - 1)]
              /\ heap'[q[k]].data \in Data
              /\ heap'[q[k]].data = IF k < i THEN heap[p[k]].data ELSE IF k = i THEN d ELSE heap[p[k - 1]].data
  <2>1. CASE k < i
    <3>1. k \in 1..Size /\ k # i /\ (k = i - 1 <=> k + 1 = i) /\ k + 1 \in Int /\ k - 1 \in Int
          /\ k - 1 < i /\ (k # i - 1 => k + 1 < i)
      BY <1>3, <1>5, <2>1
    <3>2. q[k] = p[k]
      BY <1>10, <2>1
    <3>3. Node(q, k + 1) = IF k = i - 1 THEN n ELSE Node(p, k + 1)
      BY <1>10, <3>1
    <3>4. Node(q, k - 1) = Node(p, k - 1)
      BY <1>10, <3>1
    <3>5. heap'[q[k]] = [data |-> heap[p[k]].data, next |-> Node(q, k + 1), prev |-> Node(q, k - 1)]
      BY <1>9, <3>1, <3>2, <3>3, <3>4
    <3>6. heap[p[k]].data \in Data
      BY <1>3, <3>1 DEF Linked
    <3>. QED  BY <2>1, <3>5, <3>6
  <2>2. CASE k = i
    <3>1. k + 1 \in Int /\ k - 1 \in Int /\ ~(k + 1 < i) /\ k + 1 # i /\ (k + 1) - 1 = i /\ k - 1 < i /\ ~(k < i)
      BY <1>5, <2>2
    <3>2. q[k] = n
      BY <1>10, <2>2, <3>1
    <3>3. Node(q, k + 1) = Node(p, i)
      BY <1>10, <3>1
    <3>4. Node(q, k - 1) = Node(p, i - 1)
      BY <1>10, <2>2, <3>1
    <3>5. heap'[q[k]] = [data |-> d, next |-> Node(q, k + 1), prev |-> Node(q, k - 1)]
      BY <1>9, <3>2, <3>3, <3>4 DEF block
    <3>. QED  BY <2>2, <3>1, <3>5
  <2>3. CASE k > i
    <3>1. /\ k - 1 \in 1..Size /\ ~(k < i) /\ k # i /\ k - 1 # i - 1 /\ k + 1 \in Int /\ k - 1 \in Int
          /\ ~(k + 1 < i) /\ k + 1 # i /\ (k + 1) - 1 = (k - 1) + 1 /\ ~(k - 1 < i)
      BY <1>3, <1>5, <2>3
    <3>2. q[k] = p[k - 1]
      BY <1>10, <3>1
    <3>3. Node(q, k + 1) = Node(p, (k - 1) + 1)
      BY <1>10, <3>1
    <3>4. Node(q, k - 1) = IF k - 1 = i THEN n ELSE Node(p, (k - 1) - 1)
      BY <1>10, <3>1
    <3>5. heap'[q[k]] = [data |-> heap[p[k - 1]].data, next |-> Node(q, k + 1), prev |-> Node(q, k - 1)]
      BY <1>9, <3>1, <3>2, <3>3, <3>4
    <3>6. heap[p[k - 1]].data \in Data
      BY <1>3, <3>1 DEF Linked
    <3>. QED  BY <3>1, <3>5, <3>6
  <2>4. k < i \/ k = i \/ k > i
    BY <1>5
  <2>. QED  BY <2>1, <2>2, <2>3, <2>4
<1>12. Linked(heap', list', q)
  <2>1. list' = [head |-> Node(q, 1), tail |-> Node(q, Len(q)), size |-> Len(q)]
    <3>1. list.head = Node(p, 1) /\ list.tail = Node(p, Size)
      BY <1>3 DEF Linked
    <3>2. Node(q, 1) = IF i = 1 THEN n ELSE Node(p, 1)
      <4>1. i # 1 => 1 < i
        BY <1>5
      <4>. QED  BY <1>10, <4>1
    <3>3. Node(q, Size + 1) = IF i = Size + 1 THEN n ELSE Node(p, Size)
      <4>1. Size + 1 \in Int /\ ~(Size + 1 < i) /\ (Size + 1) - 1 = Size
        BY <1>3, <1>5
      <4>. QED  BY <1>10, <4>1
    <3>. QED  BY <1>1, <1>10, <3>1, <3>2, <3>3
  <2>2. NULL \notin DOMAIN (heap')
    BY <1>2, <1>3, <1>9 DEF Linked
  <2>3. \A k, m \in 1..Len(q) : q[k] = q[m] => k = m
    <3>. TAKE k, m \in 1..Len(q)
    <3>. DEFINE old(j) == IF j < i THEN j ELSE j - 1
    <3>1. \A j \in 1..Len(q) : j # i => old(j) \in 1..Size /\ q[j] = p[old(j)]
      <4>. TAKE j \in 1..Len(q)
      <4>1. j # i => (j < i /\ j \in 1..Size) \/ (~(j < i) /\ j - 1 \in 1..Size)
        BY <1>3, <1>5, <1>10
      <4>. QED  BY <1>10, <4>1
    <3>2. \A j \in 1..Len(q) : j # i => q[j] # n
      BY <1>4, <3>1
    <3>3. q[i] = n /\ i \in 1..Len(q)
      BY <1>3, <1>5, <1>10
    <3>4. CASE k = i \/ m = i
      BY <3>2, <3>3, <3>4
    <3>5. CASE k # i /\ m # i
      <4>1. \A a, b \in 1..Size : p[a] = p[b] => a = b
        BY <1>3 DEF Linked
      <4>2. old(k) = old(m) => k = m
        BY <1>3, <1>5, <1>10, <3>5
      <4>3. old(k) \in 1..Size /\ q[k] = p[old(k)] /\ old(m) \in 1..Size /\ q[m] = p[old(m)]
        BY <3>1, <3>5
      <4>. HIDE DEF old
      <4>. QED  BY <4>1, <4>2, <4>3
    <3>. QED  BY <3>4, <3>5
  <2>4. \A m \in DOMAIN (heap') : \E k \in 1..Len(q) : q[k] = m
    <3>. TAKE m \in DOMAIN (heap')
    <3>1. CASE m = n
      <4>1. q[i] = n /\ i \in 1..Len(q)
        BY <1>3, <1>5, <1>10
      <4>. QED  BY <3>1, <4>1
    <3>2. CASE m # n
      <4>1. PICK k \in 1..Size : p[k] = m
        BY <1>3, <1>9, <3>2 DEF Linked
      <4>2. CASE k < i
        <5>1. k \in 1..Size + 1
          BY <1>3
        <5>. QED  BY <1>10, <4>1, <4>2, <5>1
      <4>3. CASE ~(k < i)
        <5>1. k + 1 \in 1..Size + 1 /\ ~(k + 1 < i) /\ k + 1 # i /\ (k + 1) - 1 = k
          BY <1>3, <1>5, <4>3
        <5>. QED  BY <1>10, <4>1, <5>1
      <4>. QED  BY <4>2, <4>3
    <3>. QED  BY <3>1, <3>2
  <2>5. \A k \in 1..Len(q) :
           /\ heap'[q[k]].data \in Data
           /\ heap'[q[k]] = [data |-> heap'[q[k]].data, next |-> Node(q, k + 1), prev |-> Node(q, k - 1)]
    BY <1>10, <1>11
  <2>. QED  BY <1>10, <2>1, <2>2, <2>3, <2>4, <2>5 DEF Linked
<1>13. list' # NULL /\ DOMAIN heap' \subseteq Addresses
  BY <1>1, <1>2, <1>3, <1>9 DEF NullApart
<1>14. /\ View \in Seq(Data) /\ Len(View) = Size
       /\ \A k \in 1..Size : View[k] = heap[p[k]].data
  BY <1>1, AbstractView DEF p
<1>. DEFINE s == InsertAt(View, i, d)
<1>15. /\ s \in Seq(Data) /\ Len(s) = Size + 1
       /\ \A k \in 1..Size + 1 : s[k] = IF k < i THEN View[k] ELSE IF k = i THEN d ELSE View[k - 1]
  <2>. DEFINE v == View
  <2>1. v \in Seq(Data) /\ i \in 1..Len(v) + 1
    BY <1>14
  <2>. HIDE DEF v
  <2>2. /\ InsertAt(v, i, d) \in Seq(Data) /\ Len(InsertAt(v, i, d)) = Len(v) + 1
        /\ \A k \in 1..Len(v) + 1 :
              InsertAt(v, i, d)[k] = IF k < i THEN v[k] ELSE IF k = i THEN d ELSE v[k - 1]
    BY <2>1, Inserted
  <2>. QED  BY <1>14, <2>2 DEF v
<1>. HIDE DEF s
<1>16. ASSUME NEW k \in 1..Len(s)  PROVE heap'[q[k]].data = s[k]
  <2>1. k \in 1..Size + 1 /\ (k < i => k \in 1..Size) /\ (~(k < i) /\ k # i => k - 1 \in 1..Size)
    BY <1>3, <1>5, <1>15
  <2>. QED  BY <1>11, <1>14, <1>15, <2>1
<1>17. DoublyInv' /\ View' = s
  BY <1>10, <1>12, <1>13, <1>15, <1>16, ViewAfter
<1>. QED  BY <1>1, <1>13, <1>17 DEF s

(***************************************************************************)
(* Removal                                                                 *)
(***************************************************************************)
(* Node number i goes, whichever function takes it out.                    *)
RemovesNode(i) ==
    LET before == Node(Nodes, i - 1)
        after == Node(Nodes, i + 1)
    IN  /\ list # NULL
        /\ heap' = Free(Link(Link(heap, before, "next", after), after, "prev", before), {Nodes[i]})
        /\ list' = [head |-> IF i = 1 THEN after ELSE list.head,
                    tail |-> IF i = Size THEN before ELSE list.tail,
                    size |-> Size - 1]

LEMMA NodesRemoved ==
    ASSUME NEW S, NEW p \in Seq(S), NEW i \in 1..Len(p), NEW q, q = RemoveAt(p, i)
    PROVE  /\ q \in Seq(S) /\ Len(q) = Len(p) - 1
           /\ \A k \in 1..Len(p) - 1 : q[k] = IF k < i THEN p[k] ELSE p[k + 1]
           /\ \A k \in Int : Node(q, k) = IF k < i THEN Node(p, k) ELSE Node(p, k + 1)
<1>1. /\ q \in Seq(S) /\ Len(q) = Len(p) - 1
      /\ \A k \in 1..Len(p) - 1 : q[k] = IF k < i THEN p[k] ELSE p[k + 1]
  <2>1. ASSUME NEW j \in 1..Len(p)
        PROVE  /\ RemoveAt(p, j) \in Seq(S) /\ Len(RemoveAt(p, j)) = Len(p) - 1
               /\ \A k \in 1..Len(p) - 1 : RemoveAt(p, j)[k] = IF k < j THEN p[k] ELSE p[k + 1]
    BY ONLY Removed, p \in Seq(S), j \in 1..Len(p)
  <2>. QED  BY <2>1
<1>2. Len(p) \in Nat
  BY LenProperties
<1>3. ASSUME NEW k \in Int
      PROVE  Node(q, k) = IF k < i THEN Node(p, k) ELSE Node(p, k + 1)
  <2>1. CASE k \in 1..Len(p) - 1
    <3>1. (k < i => k \in 1..Len(p)) /\ k + 1 \in 1..Len(p)
      BY <1>2, <2>1
    <3>. QED  BY <1>1, <2>1, <3>1 DEF Node
  <2>2. CASE k \notin 1..Len(p) - 1
    <3>1. (k < i => k \notin 1..Len(p)) /\ (~(k < i) => k + 1 \notin 1..Len(p))
      BY <1>2, <2>2
    <3>. QED  BY <1>1, <2>2, <3>1 DEF Node
  <2>. QED  BY <2>1, <2>2
<1>. QED  BY <1>1, <1>3

LEMMA RemovedNode ==
    ASSUME HeapAssumption, DoublyInv, NullApart, NEW i \in 1..Size, RemovesNode(i)
    PROVE  DoublyInv' /\ list # NULL /\ list' # NULL /\ View' = RemoveAt(View, i)
<1>. DEFINE p == Nodes
            q == RemoveAt(p, i)
            before == Node(p, i - 1)
            after == Node(p, i + 1)
            g == Link(Link(heap, before, "next", after), after, "prev", before)
<1>1. /\ list # NULL /\ heap' = Free(g, {p[i]})
      /\ list' = [head |-> IF i = 1 THEN after ELSE list.head,
                  tail |-> IF i = Size THEN before ELSE list.tail,
                  size |-> Size - 1]
  BY DEF RemovesNode
<1>2. /\ Linked(heap, list, p) /\ p \in Seq(DOMAIN heap) /\ Size = Len(p) /\ Size \in Nat
      /\ DOMAIN heap \subseteq Addresses
  BY <1>1, NodesLinked DEF DoublyInv
<1>3. i \in Int /\ i - 1 \in Int /\ i + 1 \in Int /\ i \in 1..Len(p)
  BY <1>2
<1>4. /\ \A k \in 1..Size : p[k] \in DOMAIN heap
      /\ \A k, m \in 1..Size : p[k] = p[m] => k = m
      /\ \A m \in DOMAIN heap : \E k \in 1..Size : p[k] = m
      /\ \A k \in 1..Size : heap[p[k]].data \in Data
  BY <1>2, NodesType DEF Linked
<1>5. /\ DOMAIN g = DOMAIN heap
      /\ \A k \in 1..Size : g[p[k]] = [data |-> heap[p[k]].data,
                                       next |-> IF k = i - 1 THEN after ELSE Node(p, k + 1),
                                       prev |-> IF k = i + 1 THEN before ELSE Node(p, k - 1)]
  <2>. DEFINE j == i - 1
              m == i + 1
  <2>1. /\ g = Link(Link(heap, Node(p, j), "next", after), Node(p, m), "prev", before)
        /\ Linked(heap, list, p) /\ j \in Int /\ m \in Int
    BY <1>2, <1>3
  <2>. HIDE DEF p, g, j, m, before, after
  <2>2. /\ DOMAIN g = DOMAIN heap
        /\ \A k \in 1..Len(p) : g[p[k]] = [data |-> heap[p[k]].data,
                                           next |-> IF k = j THEN after ELSE Node(p, k + 1),
                                           prev |-> IF k = m THEN before ELSE Node(p, k - 1)]
    BY <2>1, RelinkedNodes
  <2>. QED  BY <1>2, <2>2 DEF j, m
<1>. HIDE DEF g, p
<1>6. heap' = [m \in DOMAIN heap \ {p[i]} |-> g[m]]
  BY <1>1, <1>5 DEF Free
<1>7. /\ DOMAIN heap' = DOMAIN heap \ {p[i]}
      /\ \A k \in 1..Size : k # i => heap'[p[k]] = [data |-> heap[p[k]].data,
                                       next |-> IF k = i - 1 THEN after ELSE Node(p, k + 1),
                                       prev |-> IF k = i + 1 THEN before ELSE Node(p, k - 1)]
  <2>1. \A k \in 1..Size : k # i => p[k] \in DOMAIN heap \ {p[i]}
    BY <1>4
  <2>. HIDE DEF before, after
  <2>. QED  BY <1>5, <1>6, <2>1
<1>8. /\ q \in Seq(DOMAIN heap) /\ Len(q) = Size - 1
      /\ \A k \in 1..Size - 1 : q[k] = IF k < i THEN p[k] ELSE p[k + 1]
      /\ \A k \in Int : Node(q, k) = IF k < i THEN Node(p, k) ELSE Node(p, k + 1)
  <2>. DEFINE S == DOMAIN heap
  <2>1. p \in Seq(S) /\ i \in 1..Len(p)
    BY <1>2, <1>3
  <2>. HIDE DEF S, before, after
  <2>2. /\ q \in Seq(S) /\ Len(q) = Len(p) - 1
        /\ \A k \in 1..Len(p) - 1 : q[k] = IF k < i THEN p[k] ELSE p[k + 1]
        /\ \A k \in Int : Node(q, k) = IF k < i THEN Node(p, k) ELSE Node(p, k + 1)
    BY <2>1, NodesRemoved
  <2>. QED  BY <1>2, <2>2 DEF S
<1>. HIDE DEF q
<1>9. ASSUME NEW k \in 1..Size - 1
      PROVE  /\ heap'[q[k]] = [data |-> heap'[q[k]].data, next |-> Node(q, k + 1), prev |-> Node(q, k - 1)]
             /\ heap'[q[k]].data \in Data
             /\ heap'[q[k]].data = IF k < i THEN heap[p[k]].data ELSE heap[p[k + 1]].data
             /\ q[k] \in DOMAIN heap \ {p[i]}
  <2>1. CASE k < i
    <3>1. /\ k \in 1..Size /\ k # i /\ k # i + 1 /\ k + 1 \in Int /\ k - 1 \in Int /\ k - 1 < i
          /\ (k = i - 1 => ~(k + 1 < i) /\ (k + 1) + 1 = i + 1) /\ (k # i - 1 => k + 1 < i)
      BY <1>2, <1>3, <2>1
    <3>2. q[k] = p[k]
      BY <1>8, <2>1
    <3>3. Node(q, k + 1) = IF k = i - 1 THEN after ELSE Node(p, k + 1)
      BY <1>8, <3>1
    <3>4. Node(q, k - 1) = Node(p, k - 1)
      BY <1>8, <3>1
    <3>5. heap'[q[k]] = [data |-> heap[p[k]].data, next |-> Node(q, k + 1), prev |-> Node(q, k - 1)]
      BY <1>7, <3>1, <3>2, <3>3, <3>4
    <3>. QED  BY <1>3, <1>4, <2>1, <3>1, <3>2, <3>5
  <2>2. CASE ~(k < i)
    <3>1. /\ k + 1 \in 1..Size /\ k + 1 # i /\ k + 1 # i - 1 /\ k + 1 \in Int /\ k - 1 \in Int
          /\ ~(k + 1 < i) /\ (k + 1 = i + 1 => k - 1 = i - 1 /\ k - 1 < i)
          /\ (k + 1 # i + 1 => ~(k - 1 < i)) /\ (k - 1) + 1 = (k + 1) - 1
      BY <1>2, <1>3, <2>2
    <3>2. q[k] = p[k + 1]
      BY <1>8, <2>2
    <3>3. Node(q, k + 1) = Node(p, (k + 1) + 1)
      BY <1>8, <3>1
    <3>4. Node(q, k - 1) = IF k + 1 = i + 1 THEN before ELSE Node(p, (k + 1) - 1)
      BY <1>8, <3>1
    <3>5. heap'[q[k]] = [data |-> heap[p[k + 1]].data, next |-> Node(q, k + 1), prev |-> Node(q, k - 1)]
      BY <1>7, <3>1, <3>2, <3>3, <3>4
    <3>. QED  BY <1>3, <1>4, <2>2, <3>1, <3>2, <3>5
  <2>. QED  BY <2>1, <2>2
<1>10. Linked(heap', list', q)
  <2>1. list' = [head |-> Node(q, 1), tail |-> Node(q, Len(q)), size |-> Len(q)]
    <3>1. list.head = Node(p, 1) /\ list.tail = Node(p, Size)
      BY <1>2 DEF Linked
    <3>2. Node(q, 1) = IF i = 1 THEN after ELSE Node(p, 1)
      <4>1. (i # 1 => 1 < i) /\ (i = 1 => ~(1 < i) /\ 1 + 1 = i + 1)
        BY <1>3
      <4>. QED  BY <1>8, <4>1
    <3>3. Node(q, Size - 1) = IF i = Size THEN before ELSE Node(p, Size)
      <4>1. Size - 1 \in Int /\ (i = Size => Size - 1 < i /\ Size - 1 = i - 1)
            /\ (i # Size => ~(Size - 1 < i)) /\ (Size - 1) + 1 = Size
        BY <1>2, <1>3
      <4>. QED  BY <1>8, <4>1
    <3>. HIDE DEF before, after
    <3>. QED  BY <1>1, <1>8, <3>1, <3>2, <3>3
  <2>2. NULL \notin DOMAIN (heap')
    BY <1>2, <1>7 DEF Linked
  <2>3. q \in Seq(DOMAIN (heap'))
    <3>1. \A k \in 1..Len(q) : q[k] \in DOMAIN (heap')
      BY <1>7, <1>8, <1>9
    <3>2. Len(q) \in Nat /\ q = [k \in 1..Len(q) |-> q[k]]
      BY <1>8, LenProperties
    <3>3. [k \in 1..Len(q) |-> q[k]] \in [1..Len(q) -> DOMAIN (heap')]
      BY <3>1
    <3>. QED  BY <3>2, <3>3
  <2>4. \A k, m \in 1..Len(q) : q[k] = q[m] => k = m
    <3>. SUFFICES ASSUME NEW k \in 1..Size - 1, NEW m \in 1..Size - 1, q[k] = q[m]
                  PROVE  k = m
      BY <1>8
    <3>. DEFINE old(j) == IF j < i THEN j ELSE j + 1
    <3>1. \A j \in 1..Size - 1 : old(j) \in 1..Size /\ q[j] = p[old(j)]
      <4>. TAKE j \in 1..Size - 1
      <4>1. j \in 1..Size /\ j + 1 \in 1..Size
        BY <1>2
      <4>. QED  BY <1>8, <4>1
    <3>2. old(k) = old(m) => k = m
      BY <1>2, <1>3
    <3>. HIDE DEF old
    <3>3. old(k) \in 1..Size /\ old(m) \in 1..Size /\ p[old(k)] = p[old(m)]
      BY <3>1
    <3>. QED  BY <1>4, <3>2, <3>3
  <2>5. \A m \in DOMAIN (heap') : \E k \in 1..Len(q) : q[k] = m
    <3>. TAKE m \in DOMAIN (heap')
    <3>1. PICK k \in 1..Size : p[k] = m /\ k # i
      BY <1>4, <1>7
    <3>2. CASE k < i
      <4>1. k \in 1..Size - 1
        BY <1>2, <1>3, <3>2
      <4>. QED  BY <1>8, <3>1, <3>2, <4>1
    <3>3. CASE ~(k < i)
      <4>1. k - 1 \in 1..Size - 1 /\ ~(k - 1 < i) /\ (k - 1) + 1 = k
        BY <1>2, <1>3, <3>1, <3>3
      <4>. QED  BY <1>8, <3>1, <4>1
    <3>. QED  BY <3>2, <3>3
  <2>6. \A k \in 1..Len(q) :
           /\ heap'[q[k]].data \in Data
           /\ heap'[q[k]] = [data |-> heap'[q[k]].data, next |-> Node(q, k + 1), prev |-> Node(q, k - 1)]
    BY <1>8, <1>9
  <2>. QED  BY <2>1, <2>2, <2>3, <2>4, <2>5, <2>6 DEF Linked
<1>11. list' # NULL /\ DOMAIN heap' \subseteq Addresses
  BY <1>1, <1>2, <1>7 DEF NullApart
<1>12. /\ View \in Seq(Data) /\ Len(View) = Size
       /\ \A k \in 1..Size : View[k] = heap[p[k]].data
  BY <1>1, AbstractView DEF p
<1>. DEFINE s == RemoveAt(View, i)
<1>13. /\ s \in Seq(Data) /\ Len(s) = Size - 1
       /\ \A k \in 1..Size - 1 : s[k] = IF k < i THEN View[k] ELSE View[k + 1]
  <2>. DEFINE v == View
  <2>1. v \in Seq(Data) /\ i \in 1..Len(v)
    BY <1>12
  <2>. HIDE DEF v
  <2>2. /\ RemoveAt(v, i) \in Seq(Data) /\ Len(RemoveAt(v, i)) = Len(v) - 1
        /\ \A k \in 1..Len(v) - 1 : RemoveAt(v, i)[k] = IF k < i THEN v[k] ELSE v[k + 1]
    BY <2>1, Removed
  <2>. QED  BY <1>12, <2>2 DEF v
<1>. HIDE DEF s
<1>14. ASSUME NEW k \in 1..Len(s)  PROVE heap'[q[k]].data = s[k]
  <2>1. k \in 1..Size - 1 /\ k \in 1..Size /\ k + 1 \in 1..Size
    BY <1>2, <1>13
  <2>. QED  BY <1>9, <1>12, <1>13, <2>1
<1>15. DoublyInv' /\ View' = s
  BY <1>8, <1>10, <1>11, <1>13, <1>14, ViewAfter
<1>. QED  BY <1>1, <1>11, <1>15 DEF s

(***************************************************************************)
(* What the functions do to the nodes                                      *)
(***************************************************************************)
LEMMA Neighbours ==
    ASSUME HeapAssumption, DoublyInv, list # NULL
    PROVE  /\ list = [head |-> list.head, tail |-> list.tail, size |-> list.size]
           /\ list.head = Node(Nodes, 1) /\ list.tail = Node(Nodes, Size) /\ list.size = Size
           /\ Size \in Nat
           /\ \A k \in Int : Node(Nodes, k) = NULL <=> k \notin 1..Size
           /\ \A k \in 1..Size : /\ Nodes[k] = Node(Nodes, k)
                                 /\ heap[Nodes[k]].next = Node(Nodes, k + 1)
                                 /\ heap[Nodes[k]].prev = Node(Nodes, k - 1)
<1>. DEFINE p == Nodes
<1>1. Linked(heap, list, p) /\ Size = Len(p) /\ Size \in Nat
  BY NodesLinked
<1>. HIDE DEF p
<1>2. list = [head |-> Node(p, 1), tail |-> Node(p, Size), size |-> Size]
  BY <1>1 DEF Linked
<1>3. \A k \in Int : Node(p, k) = NULL <=> k \notin 1..Size
  BY <1>1, NodesType
<1>4. ASSUME NEW k \in 1..Size
      PROVE  /\ p[k] = Node(p, k) /\ heap[p[k]].next = Node(p, k + 1)
             /\ heap[p[k]].prev = Node(p, k - 1)
  <2>1. heap[p[k]] = [data |-> heap[p[k]].data, next |-> Node(p, k + 1), prev |-> Node(p, k - 1)]
    BY <1>1 DEF Linked
  <2>. QED  BY <1>1, <2>1 DEF Node
<1>. QED  BY <1>1, <1>2, <1>3, <1>4 DEF p

(* A walk from either end.                                                 *)
LEMMA Walks ==
    ASSUME HeapAssumption, DoublyInv, IndicesAssumption, NEW i \in Nat, i < Size
    PROVE  /\ list # NULL /\ i + 1 \in 1..Size
           /\ Hop(heap, "next", list.head, i) = Nodes[i + 1]
           /\ NodeAt(i) = Nodes[i + 1]
<1>1. list # NULL
  BY DEF Size
<1>2. Linked(heap, list, Nodes) /\ Size = Len(Nodes) /\ Size \in Nat
  BY <1>1, NodesLinked
<1>. DEFINE p == Nodes
            r == Reverse(p)
            j == Size - 1 - i
<1>3. /\ Chain(heap, "next", list.head, p) /\ Chain(heap, "prev", list.tail, r)
      /\ Len(r) = Len(p) /\ \A k \in 1..Len(p) : r[k] = p[Len(p) - k + 1]
  BY <1>2, Chains
<1>4. i \in 0..Len(p) - 1 /\ j \in 0..Len(r) - 1 /\ j + 1 \in 1..Len(p) /\ Len(p) - (j + 1) + 1 = i + 1
      /\ i + 1 \in 1..Size
  <2>. HIDE DEF p, r
  <2>1. Len(p) = Size /\ Len(r) = Size
    BY <1>2, <1>3 DEF p
  <2>. QED  BY <1>2, <2>1
<1>. HIDE DEF p, r, j
<1>5. Hop(heap, "next", list.head, i) = p[i + 1]
  BY <1>3, <1>4, HopIsChain
<1>6. Hop(heap, "prev", list.tail, j) = r[j + 1]
  BY <1>3, <1>4, HopIsChain
<1>7. r[j + 1] = p[i + 1]
  BY <1>3, <1>4
<1>. QED  BY <1>1, <1>4, <1>5, <1>6, <1>7 DEF NodeAt, p, j

LEMMA NoLink ==
    ASSUME NEW h, NEW f, NEW v
    PROVE  Link(h, NULL, f, v) = h
BY DEF Link

LEMMA PushesFront ==
    ASSUME HeapAssumption, DoublyInv, NEW c, NEW d, PushFront(c, d)
    PROVE  InsertsNode(1, d) /\ call' = Append(c, TRUE)
<1>1. list # NULL
  BY DEF PushFront
<1>2. /\ list.head = Node(Nodes, 1) /\ list.size = Size /\ Size \in Nat
      /\ \A k \in Int : Node(Nodes, k) = NULL <=> k \notin 1..Size
  BY <1>1, Neighbours
<1>3. Node(Nodes, 1 - 1) = NULL /\ (list.head = NULL <=> 1 = Size + 1)
  BY <1>2
<1>4. Link(heap, Node(Nodes, 1 - 1), "next", Fresh(heap)) = heap
  BY <1>3, NoLink
<1>. QED  BY <1>1, <1>2, <1>3, <1>4 DEF PushFront, InsertsNode, Returns

LEMMA PushesBack ==
    ASSUME HeapAssumption, DoublyInv, NEW c, NEW d, PushBack(c, d)
    PROVE  InsertsNode(Size + 1, d) /\ call' = Append(c, TRUE)
<1>1. list # NULL
  BY DEF PushBack
<1>2. /\ list.tail = Node(Nodes, Size) /\ list.size = Size /\ Size \in Nat
      /\ \A k \in Int : Node(Nodes, k) = NULL <=> k \notin 1..Size
  BY <1>1, Neighbours
<1>3. Node(Nodes, Size + 1) = NULL /\ (list.tail = NULL <=> Size + 1 = 1) /\ (Size + 1) - 1 = Size
  BY <1>2
<1>4. \A h : Link(h, Node(Nodes, Size + 1), "prev", Fresh(heap)) = h
  BY <1>3, NoLink
<1>. QED  BY <1>1, <1>2, <1>3, <1>4 DEF PushBack, InsertsNode, Returns

LEMMA InsertsBetween ==
    ASSUME HeapAssumption, DoublyInv, IndicesAssumption, NEW c, NEW i \in Nat, NEW d,
           i # 0, i < Size, InsertBetween(c, i, d)
    PROVE  InsertsNode(i + 1, d) /\ call' = Append(c, TRUE)
<1>. DEFINE current == Hop(heap, "next", list.head, i)
<1>1. list # NULL /\ i + 1 \in 1..Size /\ current = Nodes[i + 1]
  BY Walks
<1>2. /\ list = [head |-> list.head, tail |-> list.tail, size |-> list.size]
      /\ list.size = Size /\ Size \in Nat
      /\ Nodes[i + 1] = Node(Nodes, i + 1) /\ heap[Nodes[i + 1]].prev = Node(Nodes, (i + 1) - 1)
  BY <1>1, Neighbours
<1>3. i + 1 # 1 /\ i + 1 # Size + 1
  BY <1>2
<1>4. list' = [head |-> list.head, tail |-> list.tail, size |-> Size + 1]
  BY <1>2 DEF InsertBetween
<1>5. HasRoom(heap) /\ call' = Append(c, TRUE)
      /\ heap' = Alloc(Link(Link(heap, heap[current].prev, "next", Fresh(heap)),
                            current, "prev", Fresh(heap)),
                       [data |-> d, next |-> current, prev |-> heap[current].prev])
  BY DEF InsertBetween, Returns
<1>. HIDE DEF current
<1>6. current = Node(Nodes, i + 1) /\ heap[current].prev = Node(Nodes, (i + 1) - 1)
  BY <1>1, <1>2
<1>. QED  BY <1>1, <1>3, <1>4, <1>5, <1>6 DEF InsertsNode

LEMMA Insertion ==
    ASSUME HeapAssumption, DoublyInv, NullApart, NEW c, NEW i \in 0..Size, NEW d \in Data,
           InsertsNode(i + 1, d), call' = Append(c, TRUE)
    PROVE  DoublyInv' /\ Abstract!Insert(c, i, d)
<1>. DEFINE j == i + 1
<1>1. Size \in Nat /\ Abstract!Size = Size
  BY AbstractView
<1>2. j \in 1..Size + 1 /\ i <= Abstract!Size
  BY <1>1
<1>3. DoublyInv' /\ list # NULL /\ View' = InsertAt(View, j, d)
  <2>1. InsertsNode(j, d)
    OBVIOUS
  <2>. HIDE DEF j
  <2>. QED  BY <1>2, <2>1, InsertedNode
<1>4. InsertAt(View, j, d) = Abstract!InsertAt(View, j, d)
  BY DEF InsertAt, Abstract!InsertAt
<1>5. View # NULL
  BY <1>3, AbstractView
<1>6. Abstract!Becomes(c, Abstract!InsertAt(View, i + 1, d), TRUE)
  BY <1>3, <1>4 DEF Abstract!Becomes, View
<1>. QED  BY <1>2, <1>3, <1>5, <1>6 DEF Abstract!Insert, View

LEMMA PopsFront ==
    ASSUME HeapAssumption, DoublyInv, Size # 0, NEW c, NEW result, PopFront(c, result)
    PROVE  RemovesNode(1) /\ call' = Append(c, result)
<1>1. list # NULL
  BY DEF Size
<1>2. /\ list.head = Node(Nodes, 1) /\ list.tail = Node(Nodes, Size) /\ list.size = Size /\ Size \in Nat
      /\ \A k \in Int : Node(Nodes, k) = NULL <=> k \notin 1..Size
      /\ \A k \in 1..Size : Nodes[k] = Node(Nodes, k) /\ heap[Nodes[k]].next = Node(Nodes, k + 1)
  BY <1>1, Neighbours
<1>3. 1 \in 1..Size /\ 1 - 1 = 0 /\ (1 + 1 \notin 1..Size <=> 1 = Size)
  BY <1>2
<1>4. /\ Node(Nodes, 1 - 1) = NULL /\ (Node(Nodes, 1 + 1) = NULL <=> 1 = Size)
      /\ list.head = Nodes[1] /\ heap[list.head].next = Node(Nodes, 1 + 1)
  BY <1>2, <1>3
<1>5. Link(heap, Node(Nodes, 1 - 1), "next", Node(Nodes, 1 + 1)) = heap
  BY <1>4, NoLink
<1>. QED  BY <1>1, <1>2, <1>4, <1>5 DEF PopFront, RemovesNode, Returns

LEMMA PopsBack ==
    ASSUME HeapAssumption, DoublyInv, Size # 0, NEW c, NEW result, PopBack(c, result)
    PROVE  RemovesNode(Size) /\ call' = Append(c, result)
<1>1. list # NULL
  BY DEF Size
<1>2. /\ list.head = Node(Nodes, 1) /\ list.tail = Node(Nodes, Size) /\ list.size = Size /\ Size \in Nat
      /\ \A k \in Int : Node(Nodes, k) = NULL <=> k \notin 1..Size
      /\ \A k \in 1..Size : Nodes[k] = Node(Nodes, k) /\ heap[Nodes[k]].prev = Node(Nodes, k - 1)
  BY <1>1, Neighbours
<1>3. Size \in 1..Size /\ Size + 1 \in Int /\ Size + 1 \notin 1..Size /\ Size - 1 \in Int
      /\ (Size - 1 \notin 1..Size <=> Size = 1)
  BY <1>2
<1>4. /\ Node(Nodes, Size + 1) = NULL /\ (Node(Nodes, Size - 1) = NULL <=> Size = 1)
      /\ list.tail = Nodes[Size] /\ heap[list.tail].prev = Node(Nodes, Size - 1)
  BY <1>2, <1>3
<1>5. \A h : Link(h, Node(Nodes, Size + 1), "prev", Node(Nodes, Size - 1)) = h
  BY <1>4, NoLink
<1>. QED  BY <1>1, <1>2, <1>4, <1>5 DEF PopBack, RemovesNode, Returns

LEMMA RemovesBetween ==
    ASSUME HeapAssumption, DoublyInv, IndicesAssumption, NEW c, NEW i \in Nat, NEW result,
           i # 0, i < Size, i # Size - 1, RemoveBetween(c, i, result)
    PROVE  RemovesNode(i + 1) /\ call' = Append(c, result)
<1>. DEFINE current == Hop(heap, "next", list.head, i)
<1>1. list # NULL /\ i + 1 \in 1..Size /\ current = Nodes[i + 1]
  BY Walks
<1>2. /\ list = [head |-> list.head, tail |-> list.tail, size |-> list.size]
      /\ list.size = Size /\ Size \in Nat
      /\ heap[Nodes[i + 1]].prev = Node(Nodes, (i + 1) - 1)
      /\ heap[Nodes[i + 1]].next = Node(Nodes, (i + 1) + 1)
  BY <1>1, Neighbours
<1>3. i + 1 # 1 /\ i + 1 # Size
  BY <1>2
<1>4. list' = [head |-> list.head, tail |-> list.tail, size |-> Size - 1]
  BY <1>2 DEF RemoveBetween
<1>5. call' = Append(c, result)
      /\ heap' = Free(Link(Link(heap, heap[current].prev, "next", heap[current].next),
                           heap[current].next, "prev", heap[current].prev), {current})
  BY DEF RemoveBetween, Returns
<1>. HIDE DEF current
<1>6. heap[current].prev = Node(Nodes, (i + 1) - 1) /\ heap[current].next = Node(Nodes, (i + 1) + 1)
  BY <1>1, <1>2
<1>. QED  BY <1>1, <1>3, <1>4, <1>5, <1>6 DEF RemovesNode

LEMMA Removal ==
    ASSUME HeapAssumption, DoublyInv, NullApart, NEW c, NEW i \in 0..Size - 1, NEW result,
           RemovesNode(i + 1), call' = Append(c, result)
    PROVE  /\ DoublyInv' /\ i \in 0..Abstract!Size - 1
           /\ Abstract!Becomes(c, Abstract!RemoveAt(View, i + 1), result)
<1>. DEFINE j == i + 1
<1>1. Size \in Nat /\ Abstract!Size = Size
  BY AbstractView
<1>2. j \in 1..Size
  BY <1>1
<1>3. DoublyInv' /\ View' = RemoveAt(View, j)
  <2>1. RemovesNode(j)
    OBVIOUS
  <2>. HIDE DEF j
  <2>. QED  BY <1>2, <2>1, RemovedNode
<1>4. RemoveAt(View, j) = Abstract!RemoveAt(View, j)
  BY DEF RemoveAt, Abstract!RemoveAt
<1>5. Abstract!Becomes(c, Abstract!RemoveAt(View, i + 1), result)
  BY <1>3, <1>4 DEF Abstract!Becomes, View
<1>. QED  BY <1>1, <1>3, <1>5

(***************************************************************************)
(* The calls                                                               *)
(***************************************************************************)
LEMMA CreateStep ==
    ASSUME HeapAssumption, DoublyInv, NullApart, Create
    PROVE  DoublyInv' /\ Abstract!Create /\ call'[1] = "create"
<1>1. CASE list = NULL /\ list' = NoNodes /\ UNCHANGED heap /\ Returns(<<"create">>, TRUE)
  <2>1. DOMAIN heap' = {} /\ list' # NULL
    BY <1>1 DEF DoublyInv, NullApart, NoNodes
  <2>2. /\ <<>> \in Seq(DOMAIN (heap')) /\ Len(<<>>) = 0 /\ 1..0 = {}
        /\ <<>> \in Seq(Data)
    OBVIOUS
  <2>3. Linked(heap', list', <<>>)
    BY <1>1, <2>1, <2>2 DEF Linked, Node, NoNodes
  <2>4. DoublyInv' /\ View' = <<>>
    BY <2>1, <2>2, <2>3, ViewAfter
  <2>5. call' = Append(<<"create">>, TRUE)
    BY <1>1 DEF Returns
  <2>. QED  BY <2>4, <2>5, Names DEF Abstract!Create, Abstract!Becomes, View
<1>2. CASE list = NULL /\ Fails(<<"create">>, FALSE)
  <2>1. DoublyInv' /\ Abstract!Refuses(<<"create">>, FALSE)
    BY <1>2, FailingStep
  <2>2. call'[1] = "create"
    BY <2>1, Names DEF Abstract!Refuses
  <2>. QED  BY <2>1, <2>2 DEF Abstract!Create
<1>. QED  BY <1>1, <1>2 DEF Create

LEMMA PushStep ==
    ASSUME HeapAssumption, DoublyInv, NullApart, Push
    PROVE  DoublyInv' /\ Abstract!Inserts /\ call'[1] \in {"push_front", "push_back"}
<1>1. PICK d \in Data : \/ PushFront(<<"push_front", d>>, d)
                        \/ PushBack(<<"push_back", d>>, d)
                        \/ Fails(<<"push_front", d>>, FALSE)
                        \/ Fails(<<"push_back", d>>, FALSE)
  BY DEF Push
<1>2. Size \in Nat /\ Abstract!Size = Size /\ d \in Abstract!Elements
  BY AbstractView
<1>3. CASE PushFront(<<"push_front", d>>, d)
  <2>1. 0 \in 0..Size /\ 0 + 1 = 1
    BY <1>2
  <2>2. InsertsNode(0 + 1, d) /\ call' = Append(<<"push_front", d>>, TRUE)
    BY <1>3, <2>1, PushesFront
  <2>3. DoublyInv' /\ Abstract!Insert(<<"push_front", d>>, 0, d)
    BY <2>1, <2>2, Insertion
  <2>. QED  BY <1>2, <2>2, <2>3, Names DEF Abstract!Inserts
<1>4. CASE PushBack(<<"push_back", d>>, d)
  <2>1. Size \in 0..Size
    BY <1>2
  <2>2. InsertsNode(Size + 1, d) /\ call' = Append(<<"push_back", d>>, TRUE)
    BY <1>4, PushesBack
  <2>3. DoublyInv' /\ Abstract!Insert(<<"push_back", d>>, Abstract!Size, d)
    BY <1>2, <2>1, <2>2, Insertion
  <2>. QED  BY <1>2, <2>2, <2>3, Names DEF Abstract!Inserts
<1>5. CASE Fails(<<"push_front", d>>, FALSE)
  <2>1. DoublyInv' /\ Abstract!Refuses(<<"push_front", d>>, FALSE)
    BY <1>5, FailingStep
  <2>2. Abstract!Insert(<<"push_front", d>>, 0, d) /\ call'[1] = "push_front"
    BY <2>1, Names DEF Abstract!Insert, Abstract!Refuses
  <2>. QED  BY <1>2, <2>1, <2>2 DEF Abstract!Inserts
<1>6. CASE Fails(<<"push_back", d>>, FALSE)
  <2>1. DoublyInv' /\ Abstract!Refuses(<<"push_back", d>>, FALSE)
    BY <1>6, FailingStep
  <2>2. Abstract!Insert(<<"push_back", d>>, Abstract!Size, d) /\ call'[1] = "push_back"
    BY <2>1, Names DEF Abstract!Insert, Abstract!Refuses
  <2>. QED  BY <1>2, <2>1, <2>2 DEF Abstract!Inserts
<1>. QED  BY <1>1, <1>3, <1>4, <1>5, <1>6

LEMMA InsertStep ==
    ASSUME HeapAssumption, IndicesAssumption, DoublyInv, NullApart, Insert
    PROVE  DoublyInv' /\ Abstract!Inserts /\ call'[1] = "insert"
<1>1. PICK i \in Indices, d \in Data :
         \/ Fails(<<"insert", i, d>>, FALSE)
         \/ /\ list # NULL /\ i <= Size
            /\ \/ i = 0 /\ PushFront(<<"insert", i, d>>, d)
               \/ i # 0 /\ i = Size /\ PushBack(<<"insert", i, d>>, d)
               \/ i # 0 /\ i # Size /\ InsertBetween(<<"insert", i, d>>, i, d)
  BY DEF Insert
<1>. DEFINE c == <<"insert", i, d>>
<1>2. Size \in Nat /\ Abstract!Size = Size /\ d \in Abstract!Elements /\ i \in Nat
  BY AbstractView DEF IndicesAssumption
<1>3. \A r : Append(c, r)[1] = "insert"
  BY Names
<1>4. ASSUME DoublyInv' /\ Abstract!Insert(c, i, d) /\ call'[1] = "insert"
      PROVE  DoublyInv' /\ Abstract!Inserts /\ call'[1] = "insert"
  BY <1>2, <1>4 DEF Abstract!Inserts
<1>5. CASE Fails(c, FALSE)
  <2>1. DoublyInv' /\ Abstract!Refuses(c, FALSE)
    BY <1>5, FailingStep
  <2>2. Abstract!Insert(c, i, d) /\ call'[1] = "insert"
    BY <1>3, <2>1 DEF Abstract!Insert, Abstract!Refuses
  <2>. QED  BY <1>4, <2>1, <2>2
<1>6. CASE ~Fails(c, FALSE)
  <2>1. /\ list # NULL /\ i <= Size
        /\ \/ i = 0 /\ PushFront(c, d)
           \/ i # 0 /\ i = Size /\ PushBack(c, d)
           \/ i # 0 /\ i # Size /\ InsertBetween(c, i, d)
    BY <1>1, <1>6
  <2>. HIDE DEF c
  <2>2. InsertsNode(i + 1, d) /\ call' = Append(c, TRUE)
    <3>1. CASE i = 0 /\ PushFront(c, d)
      <4>1. InsertsNode(1, d) /\ call' = Append(c, TRUE)
        BY <3>1, PushesFront
      <4>2. i + 1 = 1
        BY <3>1
      <4>. QED  BY <4>1, <4>2
    <3>2. CASE i # 0 /\ i = Size /\ PushBack(c, d)
      BY <3>2, PushesBack
    <3>3. CASE i # 0 /\ i # Size /\ InsertBetween(c, i, d)
      <4>1. i < Size
        BY <1>2, <2>1, <3>3
      <4>. QED  BY <1>2, <3>3, <4>1, InsertsBetween
    <3>. QED  BY <2>1, <3>1, <3>2, <3>3
  <2>3. i \in 0..Size
    BY <1>2, <2>1
  <2>4. DoublyInv' /\ Abstract!Insert(c, i, d)
    BY <2>2, <2>3, Insertion
  <2>. QED  BY <1>3, <1>4, <2>2, <2>4
<1>. QED  BY <1>5, <1>6

(* ft_dll_remove takes out node i, whichever of its three cases that is.   *)
LEMMA RemoveIndexStep ==
    ASSUME HeapAssumption, IndicesAssumption, DoublyInv, NullApart,
           NEW c, NEW i \in 0..Size - 1, NEW result, RemoveIndex(c, i, result)
    PROVE  /\ DoublyInv' /\ i \in 0..Abstract!Size - 1 /\ call' = Append(c, result)
           /\ Abstract!Becomes(c, Abstract!RemoveAt(View, i + 1), result)
<1>1. Size \in Nat /\ Size # 0 /\ i \in Nat /\ i < Size
  BY AbstractView
<1>2. CASE i = 0 /\ PopFront(c, result)
  <2>1. i + 1 = 1
    BY <1>2
  <2>2. RemovesNode(i + 1) /\ call' = Append(c, result)
    BY <1>1, <1>2, <2>1, PopsFront
  <2>. QED  BY <2>2, Removal
<1>3. CASE i # 0 /\ i = Size - 1 /\ PopBack(c, result)
  <2>1. i + 1 = Size
    BY <1>1, <1>3
  <2>2. RemovesNode(i + 1) /\ call' = Append(c, result)
    BY <1>1, <1>3, <2>1, PopsBack
  <2>. QED  BY <2>2, Removal
<1>4. CASE i # 0 /\ i # Size - 1 /\ RemoveBetween(c, i, result)
  <2>1. RemovesNode(i + 1) /\ call' = Append(c, result)
    BY <1>1, <1>4, RemovesBetween
  <2>. QED  BY <2>1, Removal
<1>. QED  BY <1>2, <1>3, <1>4 DEF RemoveIndex

(* What ft_dll_find finds is the first of the sequence.                    *)
LEMMA FindIsFirst ==
    ASSUME HeapAssumption, DoublyInv, NullApart, NEW d
    PROVE  /\ Find(d) = Abstract!First(d)
           /\ Find(d) # -1 => Find(d) \in 0..Size - 1
<1>. DEFINE s == Contents(heap, Nodes)
            I == {i \in 1..Len(s) : s[i] = d}
            m == IF I # {} THEN Min(I) ELSE 0
<1>1. Find(d) = m - 1
  BY DEF Find, IndexOf, SelectInSeq
<1>2. CASE list = NULL
  <2>1. Nodes = <<>> /\ Size = 0
    BY <1>2 DEF Nodes, Size
  <2>2. s = <<>>
    BY <2>1 DEF Contents
  <2>. HIDE DEF s
  <2>3. I = {}
    BY <2>2
  <2>4. Abstract!Size = 0
    BY <2>1, AbstractView
  <2>. QED  BY <1>1, <2>3, <2>4 DEF Abstract!First
<1>3. CASE list # NULL
  <2>1. s \in Seq(Data) /\ Len(s) = Size /\ Size \in Nat /\ View = s /\ Abstract!Size = Size
    BY <1>3, ItemsType, AbstractView
  <2>. HIDE DEF s
  <2>2. I \subseteq 1..Size /\ I \subseteq Nat
    BY <2>1
  <2>3. I # {} => Min(I) \in I
    BY <2>2, LeastOf
  <2>4. Size = 0 => I = {}
    BY <2>1, <2>2
  <2>5. Abstract!SelectInSeq(s, LAMBDA e : e = d) = m
    BY DEF Abstract!SelectInSeq, Abstract!Min, Min
  <2>6. Abstract!First(d) = IF Size = 0 THEN -1 ELSE Abstract!SelectInSeq(s, LAMBDA e : e = d) - 1
    BY <2>1 DEF Abstract!First, View
  <2>. HIDE DEF I
  <2>7. I = {} => m - 1 = -1
    OBVIOUS
  <2>8. ASSUME I # {}  PROVE m - 1 \in 0..Size - 1
    <3>1. m = Min(I)
      BY <2>8
    <3>. HIDE DEF m
    <3>2. m \in 1..Size
      BY <2>2, <2>3, <2>8, <3>1
    <3>. QED  BY <2>1, <3>2
  <2>. QED  BY <1>1, <2>4, <2>5, <2>6, <2>7, <2>8
<1>. QED  BY <1>2, <1>3

LEMMA RemoveStep ==
    ASSUME HeapAssumption, IndicesAssumption, DoublyInv, NullApart, RemoveAny
    PROVE  /\ DoublyInv' /\ Abstract!Removes
           /\ call'[1] \in {"pop_front", "pop_back", "remove", "remove_data"}
<1>1. /\ Size \in Nat /\ Abstract!Size = Size
      /\ \A i \in 0..Size - 1 : Abstract!At(i) = heap[Nodes[i + 1]].data
  BY AbstractView
<1>2. Size # 0 => /\ list.head = Nodes[1] /\ list.tail = Nodes[Size]
                  /\ heap[list.head].data = Abstract!At(0)
                  /\ heap[list.tail].data = Abstract!At(Size - 1)
  <2>. SUFFICES ASSUME Size # 0
                PROVE  /\ list.head = Nodes[1] /\ list.tail = Nodes[Size]
                       /\ heap[list.head].data = Abstract!At(0)
                       /\ heap[list.tail].data = Abstract!At(Size - 1)
    OBVIOUS
  <2>1. 1 \in 1..Size /\ Size \in 1..Size /\ 0 \in 0..Size - 1 /\ Size - 1 \in 0..Size - 1
        /\ 0 + 1 = 1 /\ (Size - 1) + 1 = Size
    BY <1>1
  <2>2. list # NULL
    BY DEF Size
  <2>3. list.head = Nodes[1] /\ list.tail = Nodes[Size]
    BY <2>1, <2>2, Neighbours
  <2>4. Abstract!At(0) = heap[Nodes[0 + 1]].data /\ Abstract!At(Size - 1) = heap[Nodes[(Size - 1) + 1]].data
    BY <1>1, <2>1
  <2>. QED  BY <2>1, <2>3, <2>4
<1>3. CASE IsEmpty /\ \E c \in {"pop_front", "pop_back"} : Fails(<<c>>, NULL)
  <2>1. PICK c \in {"pop_front", "pop_back"} : Fails(<<c>>, NULL)
    BY <1>3
  <2>2. DoublyInv' /\ Abstract!Refuses(<<c>>, NULL)
    BY <2>1, FailingStep
  <2>3. 0 \notin 0..Abstract!Size - 1 /\ Abstract!Size - 1 \notin 0..Abstract!Size - 1
    BY <1>1, <1>3 DEF IsEmpty
  <2>4. Abstract!RemoveItem(<<c>>, 0) /\ Abstract!RemoveItem(<<c>>, Abstract!Size - 1)
    BY <2>2, <2>3 DEF Abstract!RemoveItem
  <2>5. call'[1] = c
    BY <2>2, Names DEF Abstract!Refuses
  <2>6. CASE c = "pop_front"
    BY <2>2, <2>4, <2>5, <2>6 DEF Abstract!Removes
  <2>7. CASE c = "pop_back"
    BY <2>2, <2>4, <2>5, <2>7 DEF Abstract!Removes
  <2>. QED  BY <2>6, <2>7
<1>4. CASE ~IsEmpty /\ PopFront(<<"pop_front">>, heap[list.head].data)
  <2>. DEFINE result == heap[list.head].data
  <2>1. Size # 0 /\ result = Abstract!At(0) /\ 0 \in 0..Size - 1
    BY <1>1, <1>2, <1>4 DEF IsEmpty
  <2>2. RemoveIndex(<<"pop_front">>, 0, result)
    BY <1>4 DEF RemoveIndex
  <2>. HIDE DEF result
  <2>3. /\ DoublyInv' /\ 0 \in 0..Abstract!Size - 1 /\ call' = Append(<<"pop_front">>, result)
        /\ Abstract!Becomes(<<"pop_front">>, Abstract!RemoveAt(View, 0 + 1), result)
    BY <2>1, <2>2, RemoveIndexStep
  <2>4. Abstract!RemoveItem(<<"pop_front">>, 0)
    BY <2>1, <2>3 DEF Abstract!RemoveItem, View
  <2>. QED  BY <2>3, <2>4, Names DEF Abstract!Removes
<1>5. CASE ~IsEmpty /\ PopBack(<<"pop_back">>, heap[list.tail].data)
  <2>. DEFINE result == heap[list.tail].data
              i == Size - 1
  <2>1. Size # 0 /\ result = Abstract!At(i) /\ i \in 0..Size - 1 /\ i = Abstract!Size - 1
    BY <1>1, <1>2, <1>5 DEF IsEmpty
  <2>2. RemovesNode(Size) /\ call' = Append(<<"pop_back">>, result)
    BY <1>5, <2>1, PopsBack
  <2>3. i + 1 = Size
    BY <1>1
  <2>4. RemovesNode(i + 1)
    BY <2>2, <2>3
  <2>. HIDE DEF result, i
  <2>5. /\ DoublyInv' /\ i \in 0..Abstract!Size - 1
        /\ Abstract!Becomes(<<"pop_back">>, Abstract!RemoveAt(View, i + 1), result)
    BY <2>1, <2>2, <2>4, Removal
  <2>6. Abstract!RemoveItem(<<"pop_back">>, i)
    BY <2>1, <2>5 DEF Abstract!RemoveItem, View
  <2>. QED  BY <2>1, <2>2, <2>5, <2>6, Names DEF Abstract!Removes
<1>6. ASSUME NEW i \in Indices,
             \/ i >= Size /\ Fails(<<"remove", i>>, NULL)
             \/ i < Size /\ RemoveIndex(<<"remove", i>>, i, heap[Hop(heap, "next", list.head, i)].data)
      PROVE  DoublyInv' /\ Abstract!Removes /\ call'[1] = "remove"
  <2>. DEFINE c == <<"remove", i>>
  <2>1. i \in Nat
    BY DEF IndicesAssumption
  <2>2. \A r : Append(c, r)[1] = "remove"
    BY Names
  <2>3. CASE i >= Size /\ Fails(c, NULL)
    <3>1. DoublyInv' /\ Abstract!Refuses(c, NULL)
      BY <2>3, FailingStep
    <3>2. i \notin 0..Abstract!Size - 1
      BY <1>1, <2>1, <2>3
    <3>3. Abstract!RemoveItem(c, i) /\ call'[1] = "remove"
      BY <2>2, <3>1, <3>2 DEF Abstract!RemoveItem, Abstract!Refuses
    <3>. QED  BY <3>1, <3>3 DEF Abstract!Removes
  <2>4. CASE i < Size /\ RemoveIndex(c, i, heap[Hop(heap, "next", list.head, i)].data)
    <3>. DEFINE result == heap[Hop(heap, "next", list.head, i)].data
    <3>1. i \in 0..Size - 1
      BY <1>1, <2>1, <2>4
    <3>2. result = Abstract!At(i)
      <4>1. Hop(heap, "next", list.head, i) = Nodes[i + 1]
        BY <2>1, <2>4, Walks
      <4>. QED  BY <1>1, <3>1, <4>1
    <3>3. RemoveIndex(c, i, result)
      BY <2>4
    <3>. HIDE DEF c, result
    <3>4. /\ DoublyInv' /\ i \in 0..Abstract!Size - 1 /\ call' = Append(c, result)
          /\ Abstract!Becomes(c, Abstract!RemoveAt(View, i + 1), result)
      BY <3>1, <3>3, RemoveIndexStep
    <3>5. Abstract!RemoveItem(c, i)
      BY <3>2, <3>4 DEF Abstract!RemoveItem, View
    <3>. QED  BY <2>2, <3>4, <3>5 DEF Abstract!Removes, c
  <2>. QED  BY <1>6, <2>3, <2>4
<1>7. ASSUME NEW d \in Data,
             \/ Find(d) = -1 /\ Fails(<<"remove_data", d>>, FALSE)
             \/ Find(d) # -1 /\ RemoveIndex(<<"remove_data", d>>, Find(d), TRUE)
      PROVE  DoublyInv' /\ Abstract!Removes /\ call'[1] = "remove_data"
  <2>. DEFINE c == <<"remove_data", d>>
              i == Find(d)
  <2>1. i = Abstract!First(d) /\ (i # -1 => i \in 0..Size - 1)
    BY FindIsFirst
  <2>2. \A r : Append(c, r)[1] = "remove_data"
    BY Names
  <2>3. CASE i = -1 /\ Fails(c, FALSE)
    <3>1. DoublyInv' /\ Abstract!Refuses(c, FALSE)
      BY <2>3, FailingStep
    <3>2. Abstract!RemoveData(d) /\ call'[1] = "remove_data"
      BY <2>1, <2>2, <2>3, <3>1 DEF Abstract!RemoveData, Abstract!Refuses
    <3>. QED  BY <3>1, <3>2 DEF Abstract!Removes
  <2>4. CASE i # -1 /\ RemoveIndex(c, i, TRUE)
    <3>. HIDE DEF i
    <3>1. /\ DoublyInv' /\ call' = Append(c, TRUE)
          /\ Abstract!Becomes(c, Abstract!RemoveAt(View, i + 1), TRUE)
      BY <2>1, <2>4, RemoveIndexStep
    <3>2. Abstract!RemoveData(d)
      BY <2>1, <2>4, <3>1 DEF Abstract!RemoveData, View
    <3>. QED  BY <2>2, <3>1, <3>2 DEF Abstract!Removes
  <2>. QED  BY <1>7, <2>3, <2>4
<1>8. \/ IsEmpty /\ \E c \in {"pop_front", "pop_back"} : Fails(<<c>>, NULL)
      \/ ~IsEmpty /\ PopFront(<<"pop_front">>, heap[list.head].data)
      \/ ~IsEmpty /\ PopBack(<<"pop_back">>, heap[list.tail].data)
      \/ \E i \in Indices :
            \/ i >= Size /\ Fails(<<"remove", i>>, NULL)
            \/ i < Size /\ RemoveIndex(<<"remove", i>>, i, heap[Hop(heap, "next", list.head, i)].data)
      \/ \E d \in Data :
            \/ Find(d) = -1 /\ Fails(<<"remove_data", d>>, FALSE)
            \/ Find(d) # -1 /\ RemoveIndex(<<"remove_data", d>>, Find(d), TRUE)
  BY DEF RemoveAny
<1>. QED  BY <1>3, <1>4, <1>5, <1>6, <1>7, <1>8

LEMMA SetStep ==
    ASSUME HeapAssumption, IndicesAssumption, DoublyInv, NullApart, Set
    PROVE  DoublyInv' /\ Abstract!Set /\ call'[1] = "set"
<1>1. PICK i \in Indices, d \in Data :
         \/ i >= Size /\ Fails(<<"set", i, d>>, FALSE)
         \/ /\ i < Size
            /\ heap' = [heap EXCEPT ![NodeAt(i)].data = d]
            /\ UNCHANGED list
            /\ Returns(<<"set", i, d>>, TRUE)
  BY DEF Set
<1>2. /\ Size \in Nat /\ Abstract!Size = Size /\ i \in Nat /\ d \in Abstract!Elements /\ d # NULL
  BY AbstractView DEF IndicesAssumption, NullApart
<1>3. CASE i >= Size /\ Fails(<<"set", i, d>>, FALSE)
  <2>1. DoublyInv' /\ Abstract!Refuses(<<"set", i, d>>, FALSE)
    BY <1>3, FailingStep
  <2>2. ~(i < Size)
    BY <1>2, <1>3
  <2>3. call'[1] = "set"
    BY <2>1, Names DEF Abstract!Refuses
  <2>. QED  BY <1>2, <2>1, <2>2, <2>3 DEF Abstract!Set
<1>4. CASE /\ i < Size
           /\ heap' = [heap EXCEPT ![NodeAt(i)].data = d]
           /\ UNCHANGED list
           /\ Returns(<<"set", i, d>>, TRUE)
  <2>. DEFINE p == Nodes
              n == i + 1
  <2>1. list # NULL /\ n \in 1..Size /\ NodeAt(i) = p[n]
    BY <1>2, <1>4, Walks
  <2>2. /\ Linked(heap, list, p) /\ Size = Len(p) /\ p \in Seq(DOMAIN heap)
        /\ DOMAIN heap \subseteq Addresses
    BY <2>1, NodesLinked DEF DoublyInv
  <2>. HIDE DEF p, n
  <2>3. /\ \A k \in 1..Size : p[k] \in DOMAIN heap
        /\ \A k, m \in 1..Size : p[k] = p[m] => k = m
        /\ \A k \in 1..Size :
              /\ heap[p[k]].data \in Data
              /\ heap[p[k]] = [data |-> heap[p[k]].data, next |-> Node(p, k + 1), prev |-> Node(p, k - 1)]
    BY <2>2, NodesType DEF Linked
  <2>4. heap' = [heap EXCEPT ![p[n]] = [heap[p[n]] EXCEPT !.data = d]]
    BY <1>4, <2>1
  <2>5. DOMAIN heap' = DOMAIN heap
    BY <2>4
  <2>6. ASSUME NEW k \in 1..Size
        PROVE  /\ heap'[p[k]] = [data |-> heap'[p[k]].data, next |-> Node(p, k + 1), prev |-> Node(p, k - 1)]
               /\ heap'[p[k]].data = IF k = n THEN d ELSE heap[p[k]].data
               /\ heap'[p[k]].data \in Data
    <3>1. CASE k = n
      <4>1. heap'[p[k]] = [heap[p[k]] EXCEPT !.data = d]
        BY <2>3, <2>4, <3>1
      <4>. DEFINE b == heap[p[k]]
      <4>2. b = [data |-> b.data, next |-> Node(p, k + 1), prev |-> Node(p, k - 1)]
            /\ heap'[p[k]] = [b EXCEPT !.data = d]
        BY <2>3, <4>1
      <4>. HIDE DEF b
      <4>3. heap'[p[k]] = [data |-> d, next |-> Node(p, k + 1), prev |-> Node(p, k - 1)]
        BY <4>2
      <4>. QED  BY <3>1, <4>3
    <3>2. CASE k # n
      <4>1. p[k] # p[n]
        BY <2>1, <2>3, <3>2
      <4>2. heap'[p[k]] = heap[p[k]]
        BY <2>3, <2>4, <4>1
      <4>. QED  BY <2>3, <3>2, <4>2
    <3>. QED  BY <3>1, <3>2
  <2>7. Linked(heap', list', p)
    <3>1. /\ list = [head |-> Node(p, 1), tail |-> Node(p, Len(p)), size |-> Len(p)]
          /\ NULL \notin DOMAIN heap
          /\ \A m \in DOMAIN heap : \E k \in 1..Len(p) : p[k] = m
      BY <2>2 DEF Linked
    <3>2. list' = list
      BY <1>4
    <3>3. p \in Seq(DOMAIN (heap'))
      BY <2>2, <2>5
    <3>. QED  BY <2>2, <2>3, <2>5, <2>6, <3>1, <3>2, <3>3 DEF Linked
  <2>8. list' # NULL /\ DOMAIN heap' \subseteq Addresses /\ call' = Append(<<"set", i, d>>, TRUE)
    BY <1>4, <2>1, <2>2, <2>5 DEF Returns
  <2>9. /\ View \in Seq(Data) /\ Len(View) = Size
        /\ \A k \in 1..Size : View[k] = heap[p[k]].data
    BY <2>1, AbstractView DEF p
  <2>. DEFINE s == [View EXCEPT ![n] = d]
  <2>10. s \in Seq(Data) /\ Len(s) = Size /\ \A k \in 1..Size : s[k] = IF k = n THEN d ELSE View[k]
    <3>1. n \in 1..Len(View)
      BY <2>1, <2>9
    <3>. QED  BY <2>9, <3>1, ExceptSeq
  <2>. HIDE DEF s
  <2>11. DoublyInv' /\ View' = s
    <3>1. Len(s) = Len(p) /\ \A k \in 1..Len(s) : heap'[p[k]].data = s[k]
      BY <2>2, <2>6, <2>9, <2>10
    <3>. QED  BY <2>7, <2>8, <2>10, <3>1, ViewAfter
  <2>12. Abstract!Becomes(<<"set", i, d>>, Abstract!ReplaceAt(View, i + 1, d), TRUE)
    BY <2>8, <2>11 DEF Abstract!Becomes, Abstract!ReplaceAt, View, s, n
  <2>13. call'[1] = "set"
    BY <2>8, Names
  <2>. QED  BY <1>2, <1>4, <2>11, <2>12, <2>13 DEF Abstract!Set, View
<1>. QED  BY <1>1, <1>3, <1>4

(* All nodes are freed, by a walk along the list.                          *)
LEMMA AllFreed ==
    ASSUME HeapAssumption, DoublyInv, list # NULL, heap' = Free(heap, ToSet(Nodes))
    PROVE  DOMAIN heap' = {}
<1>1. Linked(heap, list, Nodes) /\ Nodes \in Seq(DOMAIN heap)
  BY NodesLinked
<1>2. \A m \in DOMAIN heap : m \in ToSet(Nodes)
  BY <1>1 DEF Linked, ToSet
<1>. QED  BY <1>2 DEF Free

LEMMA ClearStep ==
    ASSUME HeapAssumption, DoublyInv, NullApart, Clear
    PROVE  DoublyInv' /\ Abstract!Clear /\ call'[1] = "clear"
<1>1. list # NULL /\ list' = NoNodes /\ DOMAIN heap' = {} /\ call' = Append(<<"clear">>, TRUE)
  BY AllFreed DEF Clear, Returns
<1>2. list' # NULL /\ View # NULL
  BY <1>1, AbstractView DEF NullApart, NoNodes
<1>3. /\ <<>> \in Seq(DOMAIN (heap')) /\ Len(<<>>) = 0 /\ 1..0 = {}
      /\ <<>> \in Seq(Data)
  OBVIOUS
<1>4. Linked(heap', list', <<>>)
  BY <1>1, <1>3 DEF Linked, Node, NoNodes
<1>5. DoublyInv' /\ View' = <<>>
  BY <1>1, <1>2, <1>3, <1>4, ViewAfter
<1>. QED  BY <1>1, <1>2, <1>5, Names DEF Abstract!Clear, Abstract!Becomes, View

LEMMA DestroyStep ==
    ASSUME HeapAssumption, DoublyInv, NullApart, Destroy
    PROVE  DoublyInv' /\ Abstract!Destroy /\ call'[1] = "destroy"
<1>1. list # NULL /\ list' = NULL /\ DOMAIN heap' = {} /\ call' = Append(<<"destroy">>, TRUE)
  BY AllFreed DEF Destroy, Returns
<1>2. DoublyInv' /\ View # NULL /\ View' = NULL
  BY <1>1, AbstractView DEF DoublyInv, View
<1>. QED  BY <1>1, <1>2, Names DEF Abstract!Destroy, Abstract!Becomes, View

LEMMA Reversed ==
    ASSUME NEW S, NEW s \in Seq(S)
    PROVE  /\ Reverse(s) \in Seq(S) /\ Len(Reverse(s)) = Len(s)
           /\ \A k \in 1..Len(s) : Reverse(s)[k] = s[Len(s) - k + 1]
<1>1. Len(s) \in Nat /\ \A k \in 1..Len(s) : s[k] \in S
  BY LenProperties, ElementOfSeq
<1>2. \A k \in 1..Len(s) : Len(s) - k + 1 \in 1..Len(s)
  BY <1>1
<1>3. [k \in 1..Len(s) |-> s[Len(s) - k + 1]] \in [1..Len(s) -> S]
  BY <1>1, <1>2
<1>. QED  BY <1>1, <1>3 DEF Reverse

(* Each node's pointers are exchanged, and the header's.                   *)
LEMMA FlipStep ==
    ASSUME HeapAssumption, DoublyInv, NullApart, Flip
    PROVE  DoublyInv' /\ Abstract!Flip /\ call'[1] = "reverse"
<1>. DEFINE p == Nodes
            r == Reverse(p)
            s == Reverse(View)
<1>1. list # NULL /\ call' = Append(<<"reverse">>, TRUE)
  BY DEF Flip, Returns
<1>2. /\ Linked(heap, list, p) /\ p \in Seq(DOMAIN heap) /\ Size = Len(p) /\ Size \in Nat
      /\ DOMAIN heap \subseteq Addresses
  BY <1>1, NodesLinked DEF DoublyInv
<1>3. /\ View \in Seq(Data) /\ Len(View) = Size /\ View # NULL
      /\ \A k \in 1..Size : View[k] = heap[p[k]].data
  BY <1>1, AbstractView
<1>4. /\ s \in Seq(Data) /\ Len(s) = Size
      /\ \A k \in 1..Size : s[k] = View[Size - k + 1]
  <2>. DEFINE v == View
  <2>1. v \in Seq(Data) /\ Len(v) = Size
    BY <1>3
  <2>. HIDE DEF v
  <2>2. /\ Reverse(v) \in Seq(Data) /\ Len(Reverse(v)) = Len(v)
        /\ \A k \in 1..Len(v) : Reverse(v)[k] = v[Len(v) - k + 1]
    BY <2>1, Reversed
  <2>. QED  BY <2>1, <2>2 DEF v
<1>. HIDE DEF p
<1>5. CASE Size <= 1
  <2>1. UNCHANGED <<heap, list>>
    BY <1>5 DEF Flip
  <2>2. DoublyInv' /\ View' = View
    BY <2>1 DEF DoublyInv, View, Nodes
  <2>3. s = View
    <3>. HIDE DEF s
    <3>1. \A k \in 1..Size : s[k] = View[k]
      <4>1. \A k \in 1..Size : Size - k + 1 = k
        BY <1>2, <1>5
      <4>. QED  BY <1>4, <4>1
    <3>2. /\ View = [k \in 1..Size |-> View[k]]
          /\ s = [k \in 1..Size |-> s[k]]
      BY <1>3, <1>4, LenProperties
    <3>. QED  BY <3>1, <3>2
  <2>. QED  BY <1>1, <1>3, <2>2, <2>3, Names
            DEF Abstract!Flip, Abstract!Becomes, Abstract!Reverse, Reverse, View
<1>6. CASE ~(Size <= 1)
  <2>1. /\ heap' = [n \in DOMAIN heap |->
                       IF n \in ToSet(p) THEN [heap[n] EXCEPT !.next = heap[n].prev, !.prev = heap[n].next]
                       ELSE heap[n]]
        /\ list' = [list EXCEPT !.head = list.tail, !.tail = list.head]
    BY <1>6 DEF Flip, p
  <2>2. /\ \A k \in 1..Size : p[k] \in DOMAIN heap /\ p[k] \in ToSet(p)
        /\ \A k, m \in 1..Size : p[k] = p[m] => k = m
        /\ \A m \in DOMAIN heap : \E k \in 1..Size : p[k] = m
        /\ \A k \in 1..Size : heap[p[k]].data \in Data
        /\ list = [head |-> Node(p, 1), tail |-> Node(p, Size), size |-> Size]
        /\ NULL \notin DOMAIN heap
    <3>1. \A k \in 1..Size : p[k] \in ToSet(p)
      BY <1>2, LenProperties DEF ToSet
    <3>. QED  BY <1>2, <3>1, NodesType DEF Linked
  <2>3. ASSUME NEW k \in 1..Size
        PROVE  heap'[p[k]] = [data |-> heap[p[k]].data, next |-> Node(p, k - 1), prev |-> Node(p, k + 1)]
    <3>1. heap'[p[k]] = [heap[p[k]] EXCEPT !.next = heap[p[k]].prev, !.prev = heap[p[k]].next]
      BY <2>1, <2>2
    <3>2. heap[p[k]] = [data |-> heap[p[k]].data, next |-> Node(p, k + 1), prev |-> Node(p, k - 1)]
      BY <1>2 DEF Linked
    <3>. DEFINE b == heap[p[k]]
    <3>3. b = [data |-> b.data, next |-> Node(p, k + 1), prev |-> Node(p, k - 1)]
          /\ heap'[p[k]] = [b EXCEPT !.next = b.prev, !.prev = b.next]
      BY <3>1, <3>2
    <3>. HIDE DEF b
    <3>4. b.next = Node(p, k + 1) /\ b.prev = Node(p, k - 1)
      BY <3>3
    <3>5. heap'[p[k]] = [data |-> b.data, next |-> b.prev, prev |-> b.next]
      BY <3>3
    <3>. QED  BY <3>4, <3>5 DEF b
  <2>4. DOMAIN heap' = DOMAIN heap
    BY <2>1
  <2>5. /\ r \in Seq(DOMAIN (heap')) /\ Len(r) = Size
        /\ \A k \in 1..Size : r[k] = p[Size - k + 1] /\ Size - k + 1 \in 1..Size
    <3>1. /\ r \in Seq(DOMAIN heap) /\ Len(r) = Len(p)
          /\ \A k \in 1..Len(p) : r[k] = p[Len(p) - k + 1]
      BY <1>2, Reversed
    <3>2. \A k \in 1..Size : Size - k + 1 \in 1..Size
      BY <1>2
    <3>. QED  BY <1>2, <2>4, <3>1, <3>2
  <2>. HIDE DEF r
  <2>6. \A k \in Int : Node(r, k) = Node(p, Size - k + 1)
    <3>. TAKE k \in Int
    <3>1. k \in 1..Size <=> Size - k + 1 \in 1..Size
      BY <1>2
    <3>. QED  BY <1>2, <2>5, <3>1 DEF Node
  <2>7. ASSUME NEW k \in 1..Size
        PROVE  /\ heap'[r[k]] = [data |-> heap'[r[k]].data, next |-> Node(r, k + 1), prev |-> Node(r, k - 1)]
               /\ heap'[r[k]].data = heap[p[Size - k + 1]].data
               /\ heap'[r[k]].data \in Data
    <3>. DEFINE m == Size - k + 1
    <3>1. /\ m \in 1..Size /\ r[k] = p[m] /\ k + 1 \in Int /\ k - 1 \in Int
          /\ Size - (k + 1) + 1 = m - 1 /\ Size - (k - 1) + 1 = m + 1
      <4>1. m \in 1..Size /\ r[k] = p[m]
        BY <2>5
      <4>. QED  BY <1>2, <4>1
    <3>2. Node(r, k + 1) = Node(p, m - 1) /\ Node(r, k - 1) = Node(p, m + 1)
      <4>1. /\ Node(r, k + 1) = Node(p, Size - (k + 1) + 1)
            /\ Node(r, k - 1) = Node(p, Size - (k - 1) + 1)
        BY <2>6, <3>1
      <4>. QED  BY <3>1, <4>1
    <3>. HIDE DEF m
    <3>3. heap'[p[m]] = [data |-> heap[p[m]].data, next |-> Node(p, m - 1), prev |-> Node(p, m + 1)]
      BY <2>3, <3>1
    <3>4. heap'[r[k]] = [data |-> heap[p[m]].data, next |-> Node(r, k + 1), prev |-> Node(r, k - 1)]
      BY <3>1, <3>2, <3>3
    <3>. QED  BY <2>2, <3>1, <3>4 DEF m
  <2>8. Linked(heap', list', r)
    <3>1. list' = [head |-> Node(r, 1), tail |-> Node(r, Len(r)), size |-> Len(r)]
      <4>1. list' = [head |-> Node(p, Size), tail |-> Node(p, 1), size |-> Size]
        BY <2>1, <2>2
      <4>2. Size - 1 + 1 = Size /\ Size - Size + 1 = 1 /\ Size \in Int
        BY <1>2
      <4>3. Node(r, 1) = Node(p, Size) /\ Node(r, Size) = Node(p, 1)
        BY <2>6, <4>2
      <4>. QED  BY <2>5, <4>1, <4>3
    <3>2. \A k, m \in 1..Len(r) : r[k] = r[m] => k = m
      <4>. SUFFICES ASSUME NEW k \in 1..Size, NEW m \in 1..Size, r[k] = r[m]
                    PROVE  k = m
        BY <2>5
      <4>1. /\ Size - k + 1 \in 1..Size /\ Size - m + 1 \in 1..Size
            /\ p[Size - k + 1] = p[Size - m + 1]
        BY <2>5
      <4>2. Size - k + 1 = Size - m + 1
        BY <2>2, <4>1
      <4>. QED  BY <1>2, <4>2
    <3>3. \A m \in DOMAIN (heap') : \E k \in 1..Len(r) : r[k] = m
      <4>. TAKE m \in DOMAIN (heap')
      <4>1. PICK k \in 1..Size : p[k] = m
        BY <2>2, <2>4
      <4>2. Size - k + 1 \in 1..Size /\ Size - (Size - k + 1) + 1 = k
        BY <1>2
      <4>3. r[Size - k + 1] = p[Size - (Size - k + 1) + 1]
        BY <2>5, <4>2
      <4>. QED  BY <2>5, <4>1, <4>2, <4>3
    <3>4. \A k \in 1..Len(r) :
             /\ heap'[r[k]].data \in Data
             /\ heap'[r[k]] = [data |-> heap'[r[k]].data, next |-> Node(r, k + 1), prev |-> Node(r, k - 1)]
      BY <2>5, <2>7
    <3>5. NULL \notin DOMAIN (heap')
      BY <2>2, <2>4
    <3>. QED  BY <2>5, <3>1, <3>2, <3>3, <3>4, <3>5 DEF Linked
  <2>9. list' # NULL /\ DOMAIN heap' \subseteq Addresses
    <3>1. list' = [head |-> Node(p, Size), tail |-> Node(p, 1), size |-> Size]
      BY <2>1, <2>2
    <3>. QED  BY <1>2, <2>4, <3>1 DEF NullApart
  <2>. HIDE DEF s
  <2>10. ASSUME NEW k \in 1..Len(s)  PROVE heap'[r[k]].data = s[k]
    <3>1. k \in 1..Size /\ Size - k + 1 \in 1..Size
      BY <1>4, <2>5
    <3>. QED  BY <1>3, <1>4, <2>7, <3>1
  <2>11. DoublyInv' /\ View' = s
    BY <1>4, <2>5, <2>8, <2>9, <2>10, ViewAfter
  <2>. QED  BY <1>1, <1>3, <2>11, Names
            DEF Abstract!Flip, Abstract!Becomes, Abstract!Reverse, Reverse, View, s
<1>. QED  BY <1>5, <1>6

(* The sequence an answer is read from, and both its ends.                 *)
LEMMA ShownItems ==
    ASSUME HeapAssumption, IndicesAssumption, DoublyInv, NullApart
    PROVE  LET s == IF View = NULL THEN <<>> ELSE View
           IN  /\ s = Contents(heap, Nodes) /\ s \in Seq(Data)
               /\ Len(s) = Size /\ Size \in Nat
               /\ Contents(heap, NodesBack) = Reverse(s)
               /\ FrontItem = IF Size = 0 THEN NULL ELSE s[1]
               /\ BackItem = IF Size = 0 THEN NULL ELSE s[Size]
               /\ \A i \in Indices : Get(i) = IF i \in 0..Size - 1 THEN s[i + 1] ELSE NULL
<1>1. CASE list = NULL
  <2>1. /\ Size = 0 /\ View = NULL /\ Nodes = <<>> /\ NodesBack = <<>>
        /\ FrontItem = NULL /\ BackItem = NULL
    BY <1>1 DEF Size, View, Nodes, NodesBack, FrontItem, BackItem, IsEmpty
  <2>2. Contents(heap, Nodes) = <<>> /\ Contents(heap, NodesBack) = <<>>
    BY <2>1 DEF Contents
  <2>3. <<>> \in Seq(Data) /\ Len(<<>>) = 0 /\ Reverse(<<>>) = <<>>
    BY DEF Reverse
  <2>4. \A i \in Indices : Get(i) = NULL /\ i \notin 0..Size - 1
    BY <2>1 DEF Get, IndicesAssumption
  <2>. QED  BY <2>1, <2>2, <2>3, <2>4
<1>2. CASE list # NULL
  <2>. DEFINE p == Nodes
  <2>1. /\ View = Contents(heap, p) /\ View \in Seq(Data) /\ Len(View) = Size /\ View # NULL
        /\ Size \in Nat /\ \A i \in 1..Size : View[i] = heap[p[i]].data
    BY <1>2, AbstractView
  <2>2. /\ Linked(heap, list, p) /\ Size = Len(p) /\ NodesBack = Reverse(p)
        /\ p \in Seq(DOMAIN heap)
    BY <1>2, NodesLinked
  <2>3. Size # 0 => 1 \in 1..Size /\ Size \in 1..Size /\ list.head = p[1] /\ list.tail = p[Size]
    <3>1. list.head = Node(p, 1) /\ list.tail = Node(p, Size)
      BY <1>2, Neighbours
    <3>. QED  BY <2>1, <2>2, <3>1 DEF Node
  <2>4. /\ FrontItem = IF Size = 0 THEN NULL ELSE View[1]
        /\ BackItem = IF Size = 0 THEN NULL ELSE View[Size]
    BY <2>1, <2>3 DEF FrontItem, BackItem, IsEmpty
  <2>5. ASSUME NEW i \in Indices
        PROVE  Get(i) = IF i \in 0..Size - 1 THEN View[i + 1] ELSE NULL
    <3>1. i \in Nat /\ (i < Size <=> i \in 0..Size - 1)
      <4>1. i \in Nat
        BY DEF IndicesAssumption
      <4>. HIDE DEF p
      <4>. QED  BY <2>1, <4>1
    <3>2. i < Size => i + 1 \in 1..Size /\ NodeAt(i) = p[i + 1]
      BY <3>1, Walks
    <3>. QED  BY <2>1, <3>1, <3>2 DEF Get
  <2>6. Contents(heap, NodesBack) = Reverse(View)
    <3>. HIDE DEF p
    <3>1. /\ Reverse(p) \in Seq(DOMAIN heap) /\ Len(Reverse(p)) = Size
          /\ \A k \in 1..Size : Reverse(p)[k] = p[Size - k + 1]
      BY <2>2, Reversed
    <3>2. DOMAIN Reverse(p) = 1..Size
      BY <3>1, LenProperties
    <3>3. Contents(heap, NodesBack) = [k \in 1..Size |-> heap[Reverse(p)[k]].data]
      BY <2>2, <3>2 DEF Contents
    <3>4. \A k \in 1..Size : Size - k + 1 \in 1..Size
      BY <2>1
    <3>5. \A k \in 1..Size : heap[Reverse(p)[k]].data = View[Size - k + 1]
      BY <2>1, <3>1, <3>4
    <3>6. Reverse(View) = [k \in 1..Size |-> View[Size - k + 1]]
      BY <2>1 DEF Reverse
    <3>. QED  BY <3>3, <3>5, <3>6
  <2>. QED  BY <2>1, <2>4, <2>5, <2>6
<1>. QED  BY <1>1, <1>2

LEMMA ReadStep ==
    ASSUME HeapAssumption, IndicesAssumption, DoublyInv, NullApart, Read
    PROVE  DoublyInv' /\ Abstract!Read /\ call'[1] \in Abstract!ReadOps
<1>1. DoublyInv' /\ View' = View
  BY DEF Read, DoublyInv, View, Nodes
<1>. DEFINE s == IF View = NULL THEN <<>> ELSE View
<1>2. /\ s = Contents(heap, Nodes) /\ s \in Seq(Data) /\ Len(s) = Size /\ Size \in Nat
      /\ Contents(heap, NodesBack) = Reverse(s)
      /\ FrontItem = IF Size = 0 THEN NULL ELSE s[1]
      /\ BackItem = IF Size = 0 THEN NULL ELSE s[Size]
      /\ \A i \in Indices : Get(i) = IF i \in 0..Size - 1 THEN s[i + 1] ELSE NULL
  BY ShownItems
<1>3. \A d \in Data : Find(d) = Abstract!SelectInSeq(s, LAMBDA e : e = d) - 1
  <2>1. s = Contents(heap, Nodes)
    BY <1>2
  <2>. HIDE DEF s
  <2>. QED  BY <2>1 DEF Find, IndexOf, SelectInSeq, Abstract!SelectInSeq, Min, Abstract!Min
<1>. HIDE DEF s
<1>4. ASSUME call'[1] \in {"size", "is_empty", "front", "back", "get", "find", "contains",
                           "print", "print_reverse"},
             Abstract!Last(call') = Abstract!Answer(call', s)
      PROVE  Abstract!Read /\ call'[1] \in Abstract!ReadOps
  BY <1>1, <1>4 DEF Abstract!Read, Abstract!ReadOps, View, s
<1>5. CASE call' = <<"size", Size>>
  <2>1. call'[1] = "size" /\ Len(call') = 2 /\ call'[2] = Size
    BY <1>5
  <2>2. Abstract!Answer(call', s) = Len(s)
    BY <2>1 DEF Abstract!Answer
  <2>. QED  BY <1>1, <1>2, <1>4, <2>1, <2>2 DEF Abstract!Last
<1>6. CASE call' = <<"is_empty", IsEmpty>>
  <2>1. call'[1] = "is_empty" /\ Len(call') = 2 /\ call'[2] = IsEmpty
    BY <1>6
  <2>2. Abstract!Answer(call', s) = (s = <<>>)
    BY <2>1 DEF Abstract!Answer
  <2>3. IsEmpty = (s = <<>>)
    <3>1. Len(s) = 0 <=> s = <<>>
      BY <1>2, EmptySeq
    <3>. QED  BY <1>2, <3>1 DEF IsEmpty
  <2>. QED  BY <1>1, <1>4, <2>1, <2>2, <2>3 DEF Abstract!Last
<1>7. CASE call' = <<"front", FrontItem>>
  <2>1. call'[1] = "front" /\ Len(call') = 2 /\ call'[2] = FrontItem
    BY <1>7
  <2>2. Abstract!Answer(call', s) = IF 0 \in 0..Len(s) - 1 THEN s[0 + 1] ELSE NULL
    BY <2>1 DEF Abstract!Answer
  <2>3. (0 \in 0..Len(s) - 1 <=> Size # 0) /\ 0 + 1 = 1
    BY <1>2
  <2>4. FrontItem = Abstract!Answer(call', s)
    BY <1>2, <2>2, <2>3
  <2>. QED  BY <1>1, <1>4, <2>1, <2>4 DEF Abstract!Last
<1>8. CASE call' = <<"back", BackItem>>
  <2>1. call'[1] = "back" /\ Len(call') = 2 /\ call'[2] = BackItem
    BY <1>8
  <2>2. Abstract!Answer(call', s)
           = IF Len(s) - 1 \in 0..Len(s) - 1 THEN s[(Len(s) - 1) + 1] ELSE NULL
    BY <2>1 DEF Abstract!Answer
  <2>3. (Len(s) - 1 \in 0..Len(s) - 1 <=> Size # 0) /\ (Len(s) - 1) + 1 = Size
    BY <1>2
  <2>4. BackItem = Abstract!Answer(call', s)
    BY <1>2, <2>2, <2>3
  <2>. QED  BY <1>1, <1>4, <2>1, <2>4 DEF Abstract!Last
<1>9. CASE call' = <<"print", Contents(heap, Nodes)>>
  <2>1. call'[1] = "print" /\ Len(call') = 2 /\ call'[2] = Contents(heap, Nodes)
    BY <1>9
  <2>2. Abstract!Answer(call', s) = s
    BY <2>1 DEF Abstract!Answer
  <2>. QED  BY <1>1, <1>2, <1>4, <2>1, <2>2 DEF Abstract!Last
<1>10. CASE call' = <<"print_reverse", Contents(heap, NodesBack)>>
  <2>1. call'[1] = "print_reverse" /\ Len(call') = 2 /\ call'[2] = Contents(heap, NodesBack)
    BY <1>10
  <2>2. Abstract!Answer(call', s) = Reverse(s)
    BY <2>1 DEF Abstract!Answer, Abstract!Reverse, Reverse
  <2>. QED  BY <1>1, <1>2, <1>4, <2>1, <2>2 DEF Abstract!Last
<1>11. ASSUME NEW i \in Indices, call' = <<"get", i, Get(i)>>
       PROVE  Abstract!Read /\ call'[1] \in Abstract!ReadOps
  <2>1. call'[1] = "get" /\ Len(call') = 3 /\ call'[2] = i /\ call'[3] = Get(i)
    BY <1>11
  <2>2. Abstract!Answer(call', s) = IF i \in 0..Len(s) - 1 THEN s[i + 1] ELSE NULL
    BY <2>1 DEF Abstract!Answer
  <2>3. call'[3] = Abstract!Answer(call', s)
    BY <1>2, <2>1, <2>2
  <2>. QED  BY <1>4, <2>1, <2>3 DEF Abstract!Last
<1>12. ASSUME NEW d \in Data, call' = <<"find", d, Find(d)>>
       PROVE  Abstract!Read /\ call'[1] \in Abstract!ReadOps
  <2>1. call'[1] = "find" /\ Len(call') = 3 /\ call'[2] = d /\ call'[3] = Find(d)
    BY <1>12
  <2>2. Abstract!Answer(call', s) = Abstract!SelectInSeq(s, LAMBDA e : e = d) - 1
    BY <2>1 DEF Abstract!Answer
  <2>3. call'[3] = Abstract!Answer(call', s)
    BY <1>3, <2>1, <2>2
  <2>. QED  BY <1>4, <2>1, <2>3 DEF Abstract!Last
<1>13. ASSUME NEW d \in Data, call' = <<"contains", d, Find(d) # -1>>
       PROVE  Abstract!Read /\ call'[1] \in Abstract!ReadOps
  <2>1. call'[1] = "contains" /\ Len(call') = 3 /\ call'[2] = d /\ call'[3] = (Find(d) # -1)
    BY <1>13
  <2>2. Abstract!Answer(call', s) = (Abstract!SelectInSeq(s, LAMBDA e : e = d) - 1 # -1)
    BY <2>1 DEF Abstract!Answer
  <2>3. call'[3] = Abstract!Answer(call', s)
    BY <1>3, <2>1, <2>2
  <2>. QED  BY <1>4, <2>1, <2>3 DEF Abstract!Last
<1>14. \/ call' \in {<<"size", Size>>, <<"is_empty", IsEmpty>>,
                     <<"front", FrontItem>>, <<"back", BackItem>>,
                     <<"print", Contents(heap, Nodes)>>,
                     <<"print_reverse", Contents(heap, NodesBack)>>}
       \/ \E i \in Indices : call' = <<"get", i, Get(i)>>
       \/ \E d \in Data : call' = <<"find", d, Find(d)>>
       \/ \E d \in Data : call' = <<"contains", d, Find(d) # -1>>
  BY DEF Read, Reads
<1>. QED  BY <1>1, <1>5, <1>6, <1>7, <1>8, <1>9, <1>10, <1>11, <1>12, <1>13, <1>14

(***************************************************************************)
(* The theorems                                                            *)
(***************************************************************************)
LEMMA InitDoubly ==
    ASSUME HeapAssumption, NullApart, Init
    PROVE  DoublyInv /\ Abstract!Init
BY DEF Init, Empty, DoublyInv, Abstract!Init

LEMMA NextDoubly ==
    ASSUME HeapAssumption, IndicesAssumption, DoublyInv, NullApart, [Next]_dllVars
    PROVE  DoublyInv' /\ [Abstract!Next]_(Abstract!specVars)
<1>1. CASE UNCHANGED dllVars
  BY <1>1 DEF dllVars, DoublyInv, View, Nodes, Abstract!specVars
<1>. SUFFICES ASSUME Next, Abstract!specVars' # Abstract!specVars
              PROVE  DoublyInv' /\ Abstract!Next
  <2>1. CASE Next
    <3>1. DoublyInv'
      BY <2>1, CreateStep, PushStep, InsertStep, RemoveStep, SetStep, ClearStep, DestroyStep,
         FlipStep, ReadStep DEF Next
    <3>. QED  BY <2>1, <3>1
  <2>. QED  BY <1>1, <2>1
<1>2. CASE Create
  BY <1>2, CreateStep DEF Abstract!Next, Abstract!Op
<1>3. CASE Push
  BY <1>3, PushStep DEF Abstract!Next, Abstract!Op
<1>4. CASE Insert
  BY <1>4, InsertStep DEF Abstract!Next, Abstract!Op
<1>5. CASE RemoveAny
  BY <1>5, RemoveStep DEF Abstract!Next, Abstract!Op
<1>6. CASE Set
  BY <1>6, SetStep DEF Abstract!Next, Abstract!Op
<1>7. CASE Clear
  BY <1>7, ClearStep DEF Abstract!Next, Abstract!Op
<1>8. CASE Destroy
  BY <1>8, DestroyStep DEF Abstract!Next, Abstract!Op
<1>9. CASE Flip
  BY <1>9, FlipStep DEF Abstract!Next, Abstract!Op
<1>10. CASE Read
  BY <1>10, ReadStep DEF Abstract!Next, Abstract!Op
<1>. QED
  BY <1>2, <1>3, <1>4, <1>5, <1>6, <1>7, <1>8, <1>9, <1>10 DEF Next

(* The nodes met from the tail are those met from the head in reverse,     *)
(* they are exactly what is allocated, and the header counts them          *)
(* (inc/libft/data_structures/doubly_linked_list): no call leaves a link   *)
(* to a freed node, drops a node or forgets one of a node's two links.     *)
THEOREM DoublyKeepsShape ==
    ASSUME HeapAssumption, IndicesAssumption, NullApart
    PROVE  Spec => []Shape
<1>1. DoublyInv => Shape
  <2>. SUFFICES ASSUME DoublyInv  PROVE Shape
    OBVIOUS
  <2>1. CASE list = NULL
    <3>1. Nodes = <<>> /\ NodesBack = <<>> /\ Size = 0 /\ DOMAIN heap = {}
      BY <2>1 DEF Nodes, NodesBack, Size, DoublyInv
    <3>2. Reverse(<<>>) = <<>> /\ Len(<<>>) = 0
      BY DEF Reverse
    <3>. QED  BY <3>1, <3>2 DEF Shape, ToSet
  <2>2. CASE list # NULL
    <3>1. /\ Linked(heap, list, Nodes) /\ NodesBack = Reverse(Nodes)
          /\ Nodes \in Seq(DOMAIN heap) /\ Size = Len(Nodes)
      BY <2>2, NodesLinked
    <3>2. DOMAIN Nodes = 1..Len(Nodes) /\ \A i \in 1..Len(Nodes) : Nodes[i] \in DOMAIN heap
      BY <3>1, LenProperties, ElementOfSeq
    <3>3. \A n \in DOMAIN heap : \E i \in 1..Len(Nodes) : Nodes[i] = n
      BY <3>1 DEF Linked
    <3>4. ToSet(Nodes) = {Nodes[i] : i \in 1..Len(Nodes)}
      BY <3>2 DEF ToSet
    <3>5. ToSet(Nodes) = DOMAIN heap
      BY <3>2, <3>3, <3>4
    <3>. QED  BY <3>1, <3>5 DEF Shape
  <2>. QED  BY <2>1, <2>2
<1>. QED  BY <1>1, InitDoubly, NextDoubly, PTL DEF Spec

(* The list is the sequence that SequenceSpec makes of its calls: every    *)
(* push, insertion, removal and reversal, from whichever end it walks, and *)
(* every result it returns.                                                *)
THEOREM DoublyIsSequence ==
    ASSUME HeapAssumption, IndicesAssumption, NullApart
    PROVE  Spec => Implements
<1>. QED  BY InitDoubly, NextDoubly, PTL DEF Spec, Implements, Abstract!Spec
=============================================================================
