----------------------------- MODULE LinkedList -----------------------------
(***************************************************************************)
(* libft's t_list: a chain of nodes without a header, each with an integer *)
(* of its own (the pointer to it is not followed: which integers are freed *)
(* with their node is the caller's affair).  Two lists share the heap, so  *)
(* that they can be merged and mapped into each other.  One call is one    *)
(* step; one that allocates in a loop may run out of memory at any turn.   *)
(***************************************************************************)
EXTENDS Heap

CONSTANTS Data,        \* integers
          Arrays,      \* what create_linked_list is given
          Positions    \* what deleteatposition and the search for the kth are given

VARIABLES heap,   \* the nodes
          head,   \* the two lists
          call

listVars == <<heap, head, call>>

Lists == {1, 2}
Init == heap = Empty /\ head = [l \in Lists |-> NULL] /\ call = <<"none">>

Nodes(l) == Path(heap, "next", head[l])
Items(l) == LET ns == Nodes(l) IN [i \in DOMAIN ns |-> heap[ns[i]].content]

Length(l) == Len(Items(l))

Returns(c, result) == call' = Append(c, result)
Fails(c, result) == Returns(c, result) /\ UNCHANGED <<heap, head>>

(* The next k blocks malloc hands out.                                     *)
FreshBlocks(k) == CHOOSE s \in [1..k -> Addresses \ DOMAIN heap] : IsInjective(s)
Room(k) == k <= Cardinality(Addresses \ DOMAIN heap)

(* h with chain ns linked in it, with contents s, ending in rest.          *)
Chained(h, ns, s, rest) ==
    [n \in DOMAIN h \cup ToSet(ns) |->
        IF n \in ToSet(ns)
        THEN LET i == IndexOf(ns, n) + 1
             IN  [content |-> s[i], next |-> IF i = Len(ns) THEN rest ELSE ns[i + 1]]
        ELSE h[n]]

(* ft_lstnew or create_node, and the link to it: without memory for a node *)
(* there is nothing to link.                                               *)
AddFront(l, d) ==
    LET n == FreshBlocks(1)
    IN  \/ Fails(<<"add_front", l, d>>, FALSE)
        \/ /\ Room(1)
           /\ heap' = Chained(heap, n, <<d>>, head[l])
           /\ head' = [head EXCEPT ![l] = n[1]]
           /\ Returns(<<"add_front", l, d>>, TRUE)

AddBack(l, d) ==
    LET n == FreshBlocks(1)
        old == IF head[l] = NULL THEN heap
               ELSE [heap EXCEPT ![Last(Nodes(l))].next = n[1]]
    IN  \/ Fails(<<"add_back", l, d>>, FALSE)
        \/ /\ Room(1)
           /\ heap' = Chained(old, n, <<d>>, NULL)
           /\ head' = [head EXCEPT ![l] = IF @ = NULL THEN n[1] ELSE @]
           /\ Returns(<<"add_back", l, d>>, TRUE)

(* A chain for the first k values; nobody is told when k is not all.       *)
Build(c, l, s, k) ==
    /\ head[l] = NULL /\ Room(k)
    /\ LET ns == FreshBlocks(k)
       IN  /\ heap' = Chained(heap, ns, s, NULL)
           /\ head' = [head EXCEPT ![l] = IF k = 0 THEN NULL ELSE ns[1]]
    /\ Returns(c, k)

Create(l) ==
    \E s \in Arrays : \E k \in 0..Len(s) : Build(<<"create", l, s>>, l, s, k)

(* The function the callers map with.                                      *)
Negate(d) == 1 - d

(* ft_lstmap of list l into the other one.  When a node cannot be had the  *)
(* nodes before it are cleared.                                            *)
Map(l) ==
    LET s == [i \in DOMAIN Items(l) |-> Negate(Items(l)[i])]
    IN  \/ Build(<<"map", l>>, 3 - l, s, Len(s))
        \/ s # <<>> /\ Fails(<<"map", l>>, 0)

(* Node i of list l is taken out of the chain and freed.                   *)
Unlink(l, i) ==
    LET ns == Nodes(l)
        after == heap[ns[i]].next
    IN  /\ heap' = Free(IF i = 1 THEN heap ELSE [heap EXCEPT ![ns[i - 1]].next = after],
                        {ns[i]})
        /\ head' = [head EXCEPT ![l] = IF i = 1 THEN after ELSE @]

(* deleteatposition counts from 1; what is below 1 takes the second node,  *)
(* like 2.                                                                 *)
Delete(l) ==
    \E pos \in Positions :
        LET i == IF pos = 1 THEN 1 ELSE IF pos <= 2 THEN 2 ELSE pos
        IN  IF i <= Length(l)
            THEN Unlink(l, i) /\ Returns(<<"delete", l, pos>>, TRUE)
            ELSE Fails(<<"delete", l, pos>>, FALSE)

DeleteHead(l) ==
    IF head[l] = NULL THEN Fails(<<"delete", l, 1>>, FALSE)
    ELSE Unlink(l, 1) /\ Returns(<<"delete", l, 1>>, TRUE)

(* remove_duplicates keeps the first of each run of equal integers.        *)
FirstOfRun(s, i) == i = 1 \/ s[i] # s[i - 1]
RemoveDuplicates(l) ==
    LET s == Items(l)
        kept == SelectSeq([i \in DOMAIN s |-> i], LAMBDA i : FirstOfRun(s, i))
        ns == [j \in DOMAIN kept |-> Nodes(l)[kept[j]]]
        t == [j \in DOMAIN kept |-> s[kept[j]]]
    IN  /\ heap' = Chained(Free(heap, ToSet(Nodes(l))), ns, t, NULL)
        /\ UNCHANGED head
        /\ Returns(<<"remove_duplicates", l>>, TRUE)

(* How many of the first k nodes sorted_merge takes are from list 1.       *)
Merge ==
    LET s == Items(1)
        t == Items(2)
        fromFirst[k \in 0..Len(s) + Len(t)] ==
            IF k = 0 THEN 0
            ELSE LET i == fromFirst[k - 1] + 1
                     j == k - fromFirst[k - 1]
                 IN  IF i <= Len(s) /\ (j > Len(t) \/ s[i] <= t[j]) THEN i ELSE i - 1
        pick(k, p, q) == IF fromFirst[k] = fromFirst[k - 1] THEN q[k - fromFirst[k]]
                                                            ELSE p[fromFirst[k]]
        ns == [k \in 1..Len(s) + Len(t) |-> pick(k, Nodes(1), Nodes(2))]
        all == [k \in DOMAIN ns |-> pick(k, s, t)]
    IN  /\ heap' = Chained(heap, ns, all, NULL)
        /\ head' = [l \in Lists |-> IF l = 2 \/ ns = <<>> THEN NULL ELSE ns[1]]
        /\ Returns(<<"merge">>, TRUE)

(* ft_lstclear with a del, which ft_lstdelone calls for each node.         *)
Clear(l) ==
    /\ heap' = Free(heap, ToSet(Nodes(l)))
    /\ head' = [head EXCEPT ![l] = NULL]
    /\ Returns(<<"clear", l>>, TRUE)

(* kth_end_from_linked_list: a second pointer follows k - 1 nodes behind.  *)
KthFromEnd(s, k) ==
    LET lead == IF k > 1 THEN k - 1 ELSE 0
    IN  IF lead >= Len(s) THEN -1 ELSE s[Len(s) - lead]
Monotone(s) ==
    \/ \A i \in 2..Len(s) : ~(s[i - 1] > s[i])
    \/ \A i \in 2..Len(s) : ~(s[i - 1] < s[i])

Holds(s, d) == \E i \in DOMAIN s : s[i] = d

(* What the functions that only look at a list return.                     *)
View(l) ==
    LET s == Items(l)
    IN  [size |-> Length(l), iter |-> s, is_sorted |-> Monotone(s),
         last |-> IF s = <<>> THEN NULL ELSE Last(s),
         kth |-> [k \in Positions |-> KthFromEnd(s, k)],
         search |-> [d \in Data |-> Holds(s, d)]]

Read(l) == Fails(<<"read", l>>, View(l))

Next ==
    \/ Merge
    \/ \E l \in Lists :
        \/ \E d \in Data : AddFront(l, d) \/ AddBack(l, d)
        \/ Create(l) \/ Map(l) \/ Delete(l) \/ DeleteHead(l)
        \/ RemoveDuplicates(l) \/ Clear(l) \/ Read(l)

Spec == Init /\ [][Next]_listVars

(***************************************************************************)
(* Properties                                                              *)
(***************************************************************************)

(* The two chains share no node, end, and meet every node that is          *)
(* allocated: nothing leaks, nothing is freed twice.                       *)
Shape ==
    LET both == Nodes(1) \o Nodes(2)
    IN  IsInjective(both) /\ ToSet(both) = DOMAIN heap

(* What each call does to the two lists, read as sequences.                *)
Changes(op, l) ==
    LET s == Items(l)
        s2 == Items(l)'
    IN  CASE op = "add_front" -> s2 \in {s} \cup {<<d>> \o s : d \in Data}
          [] op = "add_back" -> s2 \in {s} \cup {Append(s, d) : d \in Data}
          [] op = "create" -> s2 = SubSeq(call'[3], 1, call'[4])
          [] op = "delete" ->
                IF call'[3] \in DOMAIN s THEN s2 = RemoveAt(s, call'[3])
                ELSE s2 \in {s} \cup {RemoveAt(s, i) : i \in DOMAIN s \cap {2}}
          [] op = "remove_duplicates" ->
                /\ \A i \in 1..Len(s2) - 1 : s2[i] # s2[i + 1]
                /\ ToSet(s2) = ToSet(s)
          [] op = "read" ->
                /\ s2 = s
                /\ call'[3].is_sorted <=> IsSorted(s, <=) \/ IsSorted(s, >=)
                /\ \A k \in Positions \ {0} :
                      call'[3].kth[k] = IF k <= Len(s) THEN Reverse(s)[k] ELSE -1
          [] op = "clear" -> s2 = <<>>
          [] OTHER -> s2 = s

Others(op, l) ==
    Items(3 - l)' = IF op = "map" /\ call'[3] > 0
                    THEN [i \in DOMAIN Items(l) |-> Negate(Items(l)[i])]
                    ELSE Items(3 - l)

Merged ==
    LET all == Items(1) \o Items(2)
    IN  /\ \A d \in ToSet(all) \cup ToSet(Items(1)') :
                Cardinality({i \in DOMAIN all : all[i] = d}) =
                Cardinality({i \in DOMAIN Items(1)' : Items(1)'[i] = d})
        /\ IsSorted(Items(1), <=) /\ IsSorted(Items(2), <=) => IsSorted(Items(1)', <=)
        /\ Items(2)' = <<>>

(* A call changes the list it is given and no other, keeps the elements    *)
(* it is not about, and a merge of two sorted lists is the sorted list of  *)
(* all their elements.                                                     *)
Implements ==
    [][CASE call'[1] = "none" -> FALSE
         [] call'[1] = "merge" -> Merged
         [] OTHER -> \E l \in Lists : /\ l = call'[2]
                                    /\ Changes(call'[1], l) /\ Others(call'[1], l)]_listVars
=============================================================================
