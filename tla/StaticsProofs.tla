---------------------------- MODULE StaticsProofs ----------------------------
(***************************************************************************)
(* What get_next_line promises, for every set of descriptors, every        *)
(* contents, every size of the buffer, every way the reads cut a file and  *)
(* every failure; then what ft_strtok and ft_split promise, for every      *)
(* string and every set of delimiters; that the calls of the two keep what *)
(* belongs to their callers apart; and that the memory tracker knows every *)
(* block.                                                                  *)
(***************************************************************************)
EXTENDS Statics, SequenceProofs

Nodes == [fd : Fds, memory : Seq(Nat) \cup {NULL}]

(* A descriptor has one node at most.                                      *)
ListInv ==
    /\ fdList \in Seq(Nodes)
    /\ \A j, k \in DOMAIN fdList : fdList[j].fd = fdList[k].fd => j = k

LinesType ==
    /\ file \in [Fds -> Seq(Nat)] /\ unread \in [Fds -> Seq(Nat)]
    /\ given \in [Fds -> Seq(Seq(Nat))] /\ ended \in [Fds -> BOOLEAN]
    /\ failed \subseteq Fds /\ blocks \in Int
    /\ ListInv
    /\ reading # NULL => reading \in Nodes /\ HasNode(reading.fd)

(* Where the bytes are that were read from fd and not returned yet.        *)
Memory(fd) == IF reading # NULL /\ reading.fd = fd THEN reading.memory ELSE Kept(fd)

(* A line without a newline was the last: nothing is kept any more.        *)
NothingFollows ==
    \A fd \in Fds : \A k \in DOMAIN given[fd] :
        NewlineAt(given[fd][k]) = 0 => Held(fd) = <<>>

LinesInv == LinesType /\ LinesAreTheFile /\ NothingFollows /\ NothingLeaks

(***************************************************************************)
(* Newlines, and what reads leave                                          *)
(***************************************************************************)
LEMMA NewlineFacts ==
    ASSUME NEW s \in Seq(Nat)
    PROVE  /\ NewlineAt(s) \in 0..Len(s)
           /\ NewlineAt(s) = 0 => \A i \in 1..Len(s) : s[i] # NEWLINE
           /\ NewlineAt(s) # 0 => /\ s[NewlineAt(s)] = NEWLINE
                                  /\ \A i \in 1..NewlineAt(s) - 1 : s[i] # NEWLINE
<1>. DEFINE I == {i \in 1..Len(s) : s[i] = NEWLINE}
<1>1. NewlineAt(s) = IF I # {} THEN Min(I) ELSE 0
  BY DEF NewlineAt, SelectInSeq
<1>2. Len(s) \in Nat /\ I \subseteq Nat
  OBVIOUS
<1>3. CASE I = {}
  BY <1>1, <1>2, <1>3
<1>4. CASE I # {}
  <2>1. Min(I) \in I /\ \A k \in I : Min(I) <= k
    BY <1>2, <1>4, LeastOf
  <2>2. NewlineAt(s) \in I /\ \A k \in I : NewlineAt(s) <= k
    BY <1>1, <1>4, <2>1
  <2>3. \A i \in 1..NewlineAt(s) - 1 : s[i] # NEWLINE
    BY <1>2, <2>2
  <2>. QED  BY <1>2, <2>2, <2>3
<1>. QED  BY <1>3, <1>4

(* The first newline is where there is one and none before.                *)
LEMMA NewlineIs ==
    ASSUME NEW s \in Seq(Nat), NEW n \in 1..Len(s), s[n] = NEWLINE,
           \A i \in 1..n - 1 : s[i] # NEWLINE
    PROVE  NewlineAt(s) = n
<1>. DEFINE m == NewlineAt(s)
<1>1. /\ m \in 0..Len(s)
      /\ m = 0 => \A i \in 1..Len(s) : s[i] # NEWLINE
      /\ m # 0 => s[m] = NEWLINE /\ \A i \in 1..m - 1 : s[i] # NEWLINE
  BY NewlineFacts
<1>. HIDE DEF m
<1>2. m # 0 /\ n \in Nat /\ m \in Nat
  BY <1>1
<1>3. ~(m < n) /\ ~(n < m)
  BY <1>1, <1>2
<1>. QED  BY <1>2, <1>3 DEF m

(* A chunk without a NUL is a string as it is.                             *)
LEMMA NoNul ==
    ASSUME NEW s \in Seq(Nat), \A i \in 1..Len(s) : s[i] # NUL
    PROVE  AsString(s) = s
<1>. DEFINE I == {i \in 1..Len(s) : s[i] = NUL}
<1>1. I = {}
  OBVIOUS
<1>2. SelectInSeq(s, LAMBDA b : b = NUL) = 0
  BY <1>1 DEF SelectInSeq
<1>. QED  BY <1>2 DEF AsString

LEMMA StringType ==
    ASSUME NEW s \in Seq(Nat)
    PROVE  AsString(s) \in Seq(Nat)
<1>. DEFINE I == {i \in 1..Len(s) : s[i] = NUL}
            n == IF I # {} THEN Min(I) ELSE 0
<1>1. SelectInSeq(s, LAMBDA b : b = NUL) = n
  BY DEF SelectInSeq
<1>2. AsString(s) = IF n = 0 THEN s ELSE SubSeq(s, 1, n - 1)
  BY <1>1 DEF AsString
<1>3. n \in 0..Len(s)
  <2>1. I \subseteq Nat /\ Len(s) \in Nat
    OBVIOUS
  <2>2. I # {} => Min(I) \in I
    BY <2>1, LeastOf
  <2>. QED  BY <2>1, <2>2
<1>. HIDE DEF n
<1>4. \A i \in 1..n - 1 : s[i] \in Nat
  BY <1>3
<1>5. SubSeq(s, 1, n - 1) \in Seq(Nat)
  BY <1>3, <1>4, SubSeqProperties
<1>. QED  BY <1>2, <1>5

LEMMA JoinAssociates == \A a, b, c \in Seq(Nat) : (a \o b) \o c = a \o (b \o c)
BY ConcatAssociative, SMTT(30)

LEMMA JoinType == ASSUME NEW a \in Seq(Nat), NEW b \in Seq(Nat) PROVE a \o b \in Seq(Nat)
BY ConcatProperties

(* What is behind the first of two joined strings is the second.           *)
LEMMA Behind ==
    ASSUME NEW s \in Seq(Nat), NEW t \in Seq(Nat), NEW i \in 1..Len(t)
    PROVE  \E k \in DOMAIN (s \o t) : (s \o t)[k] = t[i]
<1>. DEFINE p == Len(s)
            n == Len(t)
            k == p + i
<1>1. /\ s \o t \in Seq(Nat) /\ Len(s \o t) = p + n
      /\ \A j \in 1..p + n : (s \o t)[j] = IF j <= p THEN s[j] ELSE t[j - p]
  BY ConcatProperties
<1>2. p \in Nat /\ n \in Nat /\ i \in 1..n
  OBVIOUS
<1>. HIDE DEF p, n
<1>3. k \in 1..p + n /\ ~(k <= p) /\ k - p = i
  BY <1>2
<1>. HIDE DEF k
<1>4. (s \o t)[k] = t[i]
  BY <1>1, <1>3
<1>5. k \in DOMAIN (s \o t)
  BY <1>1, <1>3
<1>. QED  BY <1>4, <1>5

LEMMA Cut ==
    ASSUME NEW s \in Seq(Nat), NEW n \in 0..Len(s)
    PROVE  /\ SubSeq(s, 1, n) \in Seq(Nat) /\ Len(SubSeq(s, 1, n)) = n
           /\ \A i \in 1..n : SubSeq(s, 1, n)[i] = s[i]
           /\ SubSeq(s, n + 1, Len(s)) \in Seq(Nat)
           /\ SubSeq(s, 1, n) \o SubSeq(s, n + 1, Len(s)) = s
<1>1. Len(s) \in Nat /\ n \in Nat /\ \A i \in 1..Len(s) : s[i] \in Nat
  OBVIOUS
<1>2. SubSeq(s, 1, n) \in Seq(Nat) /\ Len(SubSeq(s, 1, n)) = n
      /\ \A i \in 1..n : SubSeq(s, 1, n)[i] = s[i]
  BY <1>1, SubSeqProperties
<1>3. SubSeq(s, n + 1, Len(s)) \in Seq(Nat)
  BY <1>1, SubSeqProperties
<1>4. SubSeq(s, 1, n) \o SubSeq(s, n + 1, Len(s)) = SubSeq(s, 1, Len(s))
  <2>1. 1 \in 1..Len(s) + 1 /\ n \in 1 - 1..Len(s) /\ Len(s) \in n..Len(s)
    BY <1>1
  <2>. QED  BY <2>1, ConcatAdjacentSubSeq
<1>5. SubSeq(s, 1, Len(s)) = s
  BY SubSeqFull
<1>. QED  BY <1>2, <1>3, <1>4, <1>5

(***************************************************************************)
(* The nodes                                                               *)
(***************************************************************************)
Entries == {fdList[k] : k \in DOMAIN fdList}

LEMMA NodeFacts ==
    ASSUME ListInv
    PROVE  /\ Entries \subseteq Nodes
           /\ \A n \in Entries : HasNode(n.fd) /\ NodeOf(n.fd) = n
           /\ \A fd : HasNode(fd) => NodeOf(fd) \in Entries /\ NodeOf(fd).fd = fd
<1>1. Entries \subseteq Nodes
  BY DEF Entries, ListInv
<1>2. ASSUME NEW fd, HasNode(fd)  PROVE NodeOf(fd) \in Entries /\ NodeOf(fd).fd = fd
  <2>. DEFINE k == CHOOSE j \in DOMAIN fdList : fdList[j].fd = fd
  <2>1. k \in DOMAIN fdList /\ fdList[k].fd = fd
    BY <1>2 DEF HasNode
  <2>2. NodeOf(fd) = fdList[k]
    BY DEF NodeOf
  <2>. HIDE DEF k
  <2>. QED  BY <2>1, <2>2 DEF Entries
<1>3. ASSUME NEW n \in Entries  PROVE HasNode(n.fd) /\ NodeOf(n.fd) = n
  <2>1. PICK j \in DOMAIN fdList : fdList[j] = n
    BY DEF Entries
  <2>2. HasNode(n.fd)
    BY <2>1 DEF HasNode
  <2>3. PICK k \in DOMAIN fdList : NodeOf(n.fd) = fdList[k] /\ fdList[k].fd = n.fd
    BY <1>2, <2>2 DEF Entries
  <2>4. j = k
    BY <2>1, <2>3 DEF ListInv
  <2>. QED  BY <2>1, <2>2, <2>3, <2>4
<1>. QED  BY <1>1, <1>2, <1>3

LEMMA KeptType ==
    ASSUME ListInv, NEW fd
    PROVE  Kept(fd) \in Seq(Nat) \cup {NULL}
<1>1. CASE HasNode(fd)
  <2>1. NodeOf(fd) \in Nodes
    BY <1>1, NodeFacts
  <2>. QED  BY <1>1, <2>1 DEF Nodes, Kept
<1>2. CASE ~HasNode(fd)
  BY <1>2 DEF Kept
<1>. QED  BY <1>1, <1>2

LEMMA MemoryType ==
    ASSUME LinesType, NEW fd
    PROVE  Memory(fd) \in Seq(Nat) \cup {NULL} /\ Held(fd) = Bytes(Memory(fd))
<1>1. Memory(fd) \in Seq(Nat) \cup {NULL}
  BY KeptType DEF Memory, LinesType, Nodes
<1>2. Held(fd) = Bytes(Memory(fd))
  BY DEF Held, Memory
<1>. QED  BY <1>1, <1>2

LEMMA BytesType ==
    ASSUME LinesAssumption, NEW memory \in Seq(Nat) \cup {NULL}
    PROVE  Bytes(memory) \in Seq(Nat) /\ Block(memory) \in 0..1
<1>1. Bytes(memory) \in Seq(Nat)
  BY EmptySeq DEF Bytes
<1>. QED  BY <1>1 DEF Block

(* A node that is neither added, removed nor changed is found as before.   *)
LEMMA SameNode ==
    ASSUME ListInv, ListInv', NEW g, \A n : n.fd = g => (n \in Entries' <=> n \in Entries)
    PROVE  /\ HasNode(g)' <=> HasNode(g)
           /\ Node(g)' = Node(g) /\ Kept(g)' = Kept(g)
<1>1. CASE HasNode(g)
  <2>. DEFINE n == NodeOf(g)
  <2>1. n \in Entries /\ n.fd = g
    BY <1>1, NodeFacts
  <2>. HIDE DEF n
  <2>2. PICK i \in DOMAIN fdList' : fdList'[i] = n
    BY <2>1 DEF Entries
  <2>3. fdList'[CHOOSE k \in DOMAIN fdList' : fdList'[k].fd = g] = n
    BY <2>1, <2>2 DEF ListInv
  <2>4. HasNode(g)' /\ NodeOf(g)' = n
    BY <2>1, <2>2, <2>3 DEF HasNode, NodeOf
  <2>. QED  BY <1>1, <2>4 DEF n, Node, Kept
<1>2. CASE ~HasNode(g)
  <2>1. ~HasNode(g)'
    <3>. SUFFICES ASSUME HasNode(g)'  PROVE FALSE
      OBVIOUS
    <3>. PICK k \in DOMAIN fdList' : fdList'[k].fd = g
      BY DEF HasNode
    <3>. DEFINE n == fdList'[k]
    <3>1. n \in Entries' /\ n.fd = g
      BY DEF Entries
    <3>. HIDE DEF n
    <3>2. n \in Entries
      BY <3>1
    <3>. QED  BY <1>2, <3>1, <3>2, NodeFacts
  <2>. QED  BY <1>2, <2>1 DEF Node, Kept
<1>. QED  BY <1>1, <1>2

(* A new node goes in front.                                               *)
LEMMA NodeAdded ==
    ASSUME LinesAssumption, ListInv, NEW fd \in Fds, ~HasNode(fd),
           fdList' = <<[fd |-> fd, memory |-> NULL]>> \o fdList
    PROVE  ListInv' /\ Entries' = Entries \cup {[fd |-> fd, memory |-> NULL]}
<1>. DEFINE new == [fd |-> fd, memory |-> NULL]
            n == Len(fdList)
<1>1. new \in Nodes /\ new.fd = fd /\ <<new>> \in Seq(Nodes) /\ Len(<<new>>) = 1 /\ <<new>>[1] = new
  BY DEF Nodes
<1>2. fdList \in Seq(Nodes) /\ n \in Nat /\ DOMAIN fdList = 1..n
  BY DEF ListInv
<1>. HIDE DEF new
<1>3. /\ fdList' \in Seq(Nodes) /\ Len(fdList') = n + 1
      /\ \A k \in 1..n + 1 : fdList'[k] = IF k <= 1 THEN <<new>>[k] ELSE fdList[k - 1]
  <2>1. fdList' = <<new>> \o fdList
    BY DEF new
  <2>. QED  BY <1>1, <1>2, <2>1, ConcatProperties
<1>4. DOMAIN fdList' = 1..n + 1
  BY <1>2, <1>3
<1>5. fdList'[1] = new /\ \A k \in 1..n : fdList'[k + 1] = fdList[k]
  BY <1>1, <1>2, <1>3
<1>6. \A k \in 1..n + 1 : k = 1 \/ (k - 1 \in 1..n /\ fdList'[k] = fdList[k - 1])
  BY <1>1, <1>2, <1>3
<1>7. \A k \in 1..n : fdList[k].fd # fd
  BY <1>2 DEF HasNode
<1>8. ASSUME NEW j \in DOMAIN fdList', NEW k \in DOMAIN fdList', fdList'[j].fd = fdList'[k].fd
      PROVE  j = k
  BY <1>1, <1>2, <1>4, <1>5, <1>6, <1>7, <1>8 DEF ListInv
<1>9. Entries' = Entries \cup {new}
  <2>1. \A e : e \in Entries' => e \in Entries \cup {new}
    BY <1>2, <1>4, <1>5, <1>6 DEF Entries
  <2>2. new \in Entries'
    BY <1>2, <1>4, <1>5 DEF Entries
  <2>3. \A e : e \in Entries => e \in Entries'
    <3>1. \A k \in 1..n : k + 1 \in DOMAIN fdList'
      BY <1>2, <1>4
    <3>. QED  BY <1>2, <1>5, <3>1 DEF Entries
  <2>. QED  BY <2>1, <2>2, <2>3
<1>. QED  BY <1>3, <1>8, <1>9 DEF ListInv, new

(* ft_remove_fd_node unlinks the first node of fd, and there is no other.  *)
LEMMA NodeRemoved ==
    ASSUME ListInv, NEW fd, fdList' = Without(fd)
    PROVE  ListInv' /\ Entries' = {e \in Entries : e.fd # fd}
<1>. DEFINE n == Len(fdList)
            I == {k \in 1..n : fdList[k].fd = fd}
<1>1. fdList \in Seq(Nodes) /\ n \in Nat /\ DOMAIN fdList = 1..n
  BY DEF ListInv
<1>2. CASE HasNode(fd)
  <2>. DEFINE m == Min(I)
  <2>1. I # {} /\ I \subseteq Nat
    BY <1>1, <1>2 DEF HasNode
  <2>2. m \in I
    BY <2>1, LeastOf
  <2>3. fdList' = RemoveAt(fdList, m)
    <3>1. SelectInSeq(fdList, LAMBDA node : node.fd = fd) = m
      BY <2>1 DEF SelectInSeq
    <3>2. \E k \in 1..Len(fdList) : fdList[k].fd = fd
      BY <2>2
    <3>. QED  BY <3>1, <3>2 DEF Without, RemoveFirstMatch
  <2>4. m \in 1..n /\ fdList[m].fd = fd
    BY <2>2
  <2>. HIDE DEF m
  <2>5. /\ fdList' \in Seq(Nodes) /\ Len(fdList') = n - 1
        /\ \A k \in 1..n - 1 : fdList'[k] = IF k < m THEN fdList[k] ELSE fdList[k + 1]
    BY <1>1, <2>3, <2>4, Removed
  <2>6. DOMAIN fdList' = 1..n - 1
    BY <1>1, <2>5
  <2>. DEFINE at(k) == IF k < m THEN k ELSE k + 1
  <2>7. \A k \in 1..n - 1 : at(k) \in 1..n /\ at(k) # m /\ fdList'[k] = fdList[at(k)]
    BY <1>1, <2>4, <2>5
  <2>8. \A j, k \in 1..n - 1 : at(j) = at(k) => j = k
    BY <1>1, <2>4
  <2>9. \A j \in 1..n : j # m => \E k \in 1..n - 1 : at(k) = j
    <3>. SUFFICES ASSUME NEW j \in 1..n, j # m  PROVE \E k \in 1..n - 1 : at(k) = j
      OBVIOUS
    <3>1. CASE j < m
      BY <1>1, <2>4, <3>1
    <3>2. CASE j > m
      <4>1. j - 1 \in 1..n - 1 /\ at(j - 1) = j
        BY <1>1, <2>4, <3>2
      <4>. QED  BY <4>1
    <3>. QED  BY <1>1, <2>4, <3>1, <3>2
  <2>. HIDE DEF at
  <2>10. \A j \in 1..n : fdList[j].fd = fd <=> j = m
    BY <1>1, <2>4 DEF ListInv
  <2>11. ListInv'
    BY <1>1, <2>5, <2>6, <2>7, <2>8 DEF ListInv
  <2>12. \A e : e \in Entries' => e \in Entries /\ e.fd # fd
    BY <1>1, <2>6, <2>7, <2>10 DEF Entries
  <2>13. ASSUME NEW e \in Entries, e.fd # fd  PROVE e \in Entries'
    <3>1. PICK j \in 1..n : fdList[j] = e
      BY <1>1 DEF Entries
    <3>2. PICK k \in 1..n - 1 : at(k) = j
      BY <2>9, <2>10, <2>13, <3>1
    <3>. QED  BY <2>6, <2>7, <3>1, <3>2 DEF Entries
  <2>. QED  BY <2>11, <2>12, <2>13
<1>3. CASE ~HasNode(fd)
  <2>1. ~\E k \in 1..n : fdList[k].fd = fd
    BY <1>1, <1>3 DEF HasNode
  <2>2. fdList' = fdList
    BY <2>1 DEF Without, RemoveFirstMatch
  <2>3. \A e \in Entries : e.fd # fd
    BY <1>1, <2>1 DEF Entries
  <2>. QED  BY <2>2, <2>3 DEF ListInv, Entries
<1>. QED  BY <1>2, <1>3

(* What is left is kept in the node of fd.                                 *)
LEMMA NodeKeeping ==
    ASSUME ListInv, NEW fd \in Fds, HasNode(fd), NEW memory \in Seq(Nat) \cup {NULL},
           fdList' = Keeping(fd, memory)
    PROVE  /\ ListInv'
           /\ Entries' = {e \in Entries : e.fd # fd} \cup {[fd |-> fd, memory |-> memory]}
<1>. DEFINE new == [fd |-> fd, memory |-> memory]
            n == Len(fdList)
<1>1. fdList \in Seq(Nodes) /\ n \in Nat /\ DOMAIN fdList = 1..n /\ fdList \in [1..n -> Nodes]
  BY DEF ListInv
<1>2. new \in Nodes /\ new.fd = fd
  BY DEF Nodes
<1>. HIDE DEF new
<1>3. fdList' = [k \in 1..n |-> IF fdList[k].fd = fd THEN new ELSE fdList[k]]
  BY <1>1 DEF Keeping, new
<1>4. fdList' \in [1..n -> Nodes] /\ DOMAIN fdList' = 1..n
  BY <1>1, <1>2, <1>3
<1>5. fdList' \in Seq(Nodes)
  BY <1>1, <1>4
<1>6. \A k \in 1..n : fdList'[k] = IF fdList[k].fd = fd THEN new ELSE fdList[k]
  BY <1>3
<1>7. \A k \in 1..n : fdList'[k].fd = fdList[k].fd
  BY <1>2, <1>6
<1>8. ListInv'
  BY <1>1, <1>4, <1>5, <1>7 DEF ListInv
<1>9. \A e : e \in Entries' => (e \in Entries /\ e.fd # fd) \/ e = new
  BY <1>1, <1>4, <1>6 DEF Entries
<1>10. \A e : e \in Entries /\ e.fd # fd => e \in Entries'
  BY <1>1, <1>4, <1>6 DEF Entries
<1>11. new \in Entries'
  <2>1. PICK k \in 1..n : fdList[k].fd = fd
    BY <1>1 DEF HasNode
  <2>2. fdList'[k] = new
    BY <1>6, <2>1
  <2>. QED  BY <1>4, <2>2 DEF Entries
<1>. QED  BY <1>8, <1>9, <1>10, <1>11 DEF new

(***************************************************************************)
(* Where a step leaves the bytes that are kept                             *)
(***************************************************************************)
(* A step of the call for f leaves the other descriptors as they are.      *)
Elsewhere(f) == \A g \in Fds \ {f} : Memory(g)' = Memory(g) /\ Node(g)' = Node(g)

LEMMA Entered ==
    ASSUME LinesAssumption, LinesType, NEW f \in Fds, GetNextLine(f)
    PROVE  /\ ListInv' /\ reading' \in Nodes /\ HasNode(reading.fd)'
           /\ Memory(f)' = Memory(f) /\ Elsewhere(f)
<1>. DEFINE new == [fd |-> f, memory |-> NULL]
<1>1. ListInv /\ reading = NULL /\ reading' = [fd |-> f, memory |-> Kept(f)]
  BY DEF LinesType, GetNextLine
<1>2. reading' \in Nodes /\ reading'.fd = f /\ reading'.memory = Kept(f)
  BY <1>1, KeptType DEF Nodes
<1>3. reading' # NULL
  BY <1>2 DEF Nodes, LinesAssumption
<1>4. /\ ListInv' /\ HasNode(f)'
      /\ \A n : n.fd # f => (n \in Entries' <=> n \in Entries)
  <2>1. CASE HasNode(f)
    BY <1>1, <2>1 DEF GetNextLine, ListInv, HasNode, Entries
  <2>2. CASE ~HasNode(f)
    <3>1. ListInv' /\ Entries' = Entries \cup {new}
      BY <1>1, <2>2, NodeAdded DEF GetNextLine
    <3>2. new.fd = f
      OBVIOUS
    <3>. HIDE DEF new
    <3>3. HasNode(f)'
      <4>1. new \in Entries'
        BY <3>1
      <4>. QED  BY <3>2, <4>1 DEF Entries, HasNode
    <3>. QED  BY <3>1, <3>2, <3>3
  <2>. QED  BY <2>1, <2>2
<1>5. ASSUME NEW g \in Fds \ {f}  PROVE Node(g)' = Node(g) /\ Kept(g)' = Kept(g)
  <2>1. \A n : n.fd = g => (n \in Entries' <=> n \in Entries)
    BY <1>4
  <2>. QED  BY <1>1, <1>4, <2>1, SameNode
<1>6. Memory(f)' = Memory(f)
  BY <1>1, <1>2, <1>3 DEF Memory
<1>7. Elsewhere(f)
  BY <1>1, <1>2, <1>3, <1>5 DEF Elsewhere, Memory
<1>. QED  BY <1>2, <1>4, <1>6, <1>7 DEF HasNode

LEMMA Dropped ==
    ASSUME LinesType, NEW f \in Fds, fdList' = Without(f), reading' = NULL,
           reading # NULL => reading.fd = f
    PROVE  ListInv' /\ Memory(f)' = NULL /\ Elsewhere(f)
<1>1. ListInv
  BY DEF LinesType
<1>2. ListInv' /\ Entries' = {e \in Entries : e.fd # f}
  BY <1>1, NodeRemoved
<1>3. ~HasNode(f)'
  <2>1. \A e \in Entries' : e.fd # f
    BY <1>2
  <2>. QED  BY <2>1 DEF Entries, HasNode
<1>4. ASSUME NEW g \in Fds \ {f}  PROVE Node(g)' = Node(g) /\ Kept(g)' = Kept(g)
  <2>1. \A n : n.fd = g => (n \in Entries' <=> n \in Entries)
    BY <1>2
  <2>. QED  BY <1>1, <1>2, <2>1, SameNode
<1>. QED  BY <1>2, <1>3, <1>4 DEF Memory, Kept, Elsewhere

LEMMA Joined ==
    ASSUME LinesAssumption, LinesType, reading # NULL, fdList' = fdList,
           NEW m \in Seq(Nat), reading' = [reading EXCEPT !.memory = m]
    PROVE  /\ ListInv' /\ reading' \in Nodes /\ HasNode(reading.fd)'
           /\ reading'.fd = reading.fd /\ Memory(reading.fd)' = m /\ Elsewhere(reading.fd)
<1>1. ListInv /\ reading \in Nodes /\ HasNode(reading.fd)
  BY DEF LinesType
<1>2. reading' \in Nodes /\ reading'.fd = reading.fd /\ reading'.memory = m
  BY <1>1 DEF Nodes
<1>3. reading' # NULL
  BY <1>2 DEF Nodes, LinesAssumption
<1>4. ListInv' /\ \A fd : (HasNode(fd)' <=> HasNode(fd)) /\ Kept(fd)' = Kept(fd) /\ Node(fd)' = Node(fd)
  BY <1>1 DEF ListInv, HasNode, NodeOf, Kept, Node
<1>5. Memory(reading.fd)' = m
  <2>1. \A fd : fd = reading'.fd => Memory(fd)' = m
    BY <1>2, <1>3 DEF Memory
  <2>. QED  BY <1>2, <2>1 DEF Memory
<1>6. Elsewhere(reading.fd)
  BY <1>2, <1>3, <1>4 DEF Elsewhere, Memory
<1>7. HasNode(reading.fd)'
  BY <1>1, <1>2, <1>4 DEF HasNode
<1>. QED  BY <1>2, <1>4, <1>5, <1>6, <1>7

LEMMA Gave ==
    ASSUME LinesType, reading # NULL, NEW f, f = reading.fd,
           NEW leftover \in Seq(Nat) \cup {NULL},
           fdList' = Keeping(f, leftover), reading' = NULL
    PROVE  ListInv' /\ Memory(f)' = leftover /\ Elsewhere(f)
<1>. DEFINE new == [fd |-> f, memory |-> leftover]
<1>1. ListInv /\ f \in Fds /\ HasNode(f)
  BY DEF LinesType, Nodes
<1>2. ListInv' /\ Entries' = {e \in Entries : e.fd # f} \cup {new}
  BY <1>1, NodeKeeping
<1>3. new.fd = f /\ new.memory = leftover
  OBVIOUS
<1>. HIDE DEF new
<1>4. HasNode(f)' /\ Kept(f)' = leftover
  <2>1. PICK i \in DOMAIN fdList' : fdList'[i] = new
    BY <1>2 DEF Entries
  <2>2. fdList'[CHOOSE k \in DOMAIN fdList' : fdList'[k].fd = f] = new
    BY <1>2, <1>3, <2>1 DEF ListInv
  <2>. QED  BY <1>3, <2>1, <2>2 DEF HasNode, NodeOf, Kept
<1>5. ASSUME NEW g \in Fds \ {f}  PROVE Node(g)' = Node(g) /\ Kept(g)' = Kept(g)
  <2>1. \A n : n.fd = g => (n \in Entries' <=> n \in Entries)
    BY <1>2, <1>3
  <2>. QED  BY <1>1, <1>2, <2>1, SameNode
<1>. QED  BY <1>2, <1>4, <1>5 DEF Memory, Elsewhere

(***************************************************************************)
(* LinesInv, a descriptor at a time                                        *)
(***************************************************************************)
Intact(fd) ==
    IsText(fd) => /\ FlattenSeq(given[fd]) \o Held(fd) \o unread[fd] = file[fd]
                  /\ ended[fd] => FlattenSeq(given[fd]) = file[fd]
Ended(fd, k) ==
    LET line == given[fd][k]
    IN  IF NewlineAt(line) = 0
        THEN line # <<>> /\ unread[fd] = <<>> /\ k = Len(given[fd]) /\ Held(fd) = <<>>
        ELSE NewlineAt(line) = Len(line)

FdInv(fd) == (fd \notin failed => Intact(fd)) /\ \A k \in DOMAIN given[fd] : Ended(fd, k)

Occupied == {fd \in Fds : Memory(fd) # NULL}
BlocksInv == blocks >= Cardinality(Occupied) /\ (failed = {} => blocks = Cardinality(Occupied))

LEMMA InvParts == LinesInv <=> LinesType /\ (\A fd \in Fds : FdInv(fd)) /\ BlocksInv
<1>1. LinesAreTheFile /\ NothingFollows <=> \A fd \in Fds : FdInv(fd)
  BY Zenon DEF LinesAreTheFile, NothingLost, LinesEndOnce, NothingFollows, FdInv, Intact, Ended
<1>2. ASSUME LinesType  PROVE NothingLeaks <=> BlocksInv
  <2>1. Occupied = {fd \in Fds : IF reading # NULL /\ reading.fd = fd THEN reading.memory # NULL
                                 ELSE Kept(fd) # NULL}
    BY DEF Occupied, Memory
  <2>. QED  BY <1>2, <2>1 DEF NothingLeaks, BlocksInv, LinesType, ListInv
<1>. QED  BY <1>1, <1>2 DEF LinesInv

LEMMA InvPartsNext ==
    LinesInv' <=> LinesType' /\ (\A fd \in Fds : FdInv(fd))' /\ BlocksInv'
BY InvParts, PTL

(* A descriptor of which nothing changes keeps what holds of it.           *)
LEMMA FdUntouched ==
    ASSUME NEW g \in Fds, FdInv(g), Held(g)' = Held(g), file' = file,
           unread'[g] = unread[g], given'[g] = given[g], ended'[g] = ended[g],
           failed \subseteq failed'
    PROVE  FdInv(g)'
BY DEF FdInv, Intact, Ended, IsText

(* The blocks are counted step by step.                                    *)
LEMMA BlocksCounted ==
    ASSUME LinesAssumption, LinesType, BlocksInv, NEW f \in Fds, Elsewhere(f),
           Memory(f)' \in Seq(Nat) \cup {NULL}, blocks' \in Int, failed \subseteq failed',
           blocks' >= blocks - Block(Memory(f)) + Block(Memory(f)'),
           failed' = {} => blocks' = blocks - Block(Memory(f)) + Block(Memory(f)')
    PROVE  BlocksInv'
<1>. DEFINE rest == Occupied \ {f}
            n == Cardinality(rest)
<1>1. IsFiniteSet(Occupied) /\ IsFiniteSet(rest) /\ f \notin rest
  <2>1. Occupied \subseteq Fds /\ rest \subseteq Fds /\ IsFiniteSet(Fds)
    BY DEF LinesAssumption, Occupied
  <2>. QED  BY <2>1, FS_Subset
<1>2. n \in Nat /\ Cardinality(rest \cup {f}) = n + 1
  BY <1>1, FS_AddElement, FS_CardinalityType
<1>3. Cardinality(Occupied) = n + Block(Memory(f))
  <2>1. CASE Memory(f) = NULL
    <3>1. Occupied = rest
      BY <2>1 DEF Occupied
    <3>2. Cardinality(Occupied) = n /\ Block(Memory(f)) = 0
      BY <2>1, <3>1 DEF Block
    <3>. QED  BY <1>2, <3>2
  <2>2. CASE Memory(f) # NULL
    <3>1. Occupied = rest \cup {f}
      BY <2>2 DEF Occupied
    <3>. QED  BY <1>2, <2>2, <3>1 DEF Block
  <2>. QED  BY <2>1, <2>2
<1>4. Cardinality(Occupied') = n + Block(Memory(f)')
  <2>1. \A g \in Fds : g # f => (g \in Occupied' <=> g \in rest)
    BY DEF Elsewhere, Occupied
  <2>2. Occupied' \subseteq Fds /\ rest \subseteq Fds
    BY DEF Occupied
  <2>3. CASE Memory(f)' = NULL
    <3>1. f \notin Occupied'
      BY <2>3 DEF Occupied
    <3>2. Occupied' = rest
      BY <2>1, <2>2, <3>1
    <3>. QED  BY <1>2, <2>3, <3>2 DEF Block
  <2>4. CASE Memory(f)' # NULL
    <3>1. f \in Occupied'
      BY <2>4 DEF Occupied
    <3>2. Occupied' = rest \cup {f}
      BY <2>1, <2>2, <3>1
    <3>. QED  BY <1>2, <2>4, <3>2 DEF Block
  <2>. QED  BY <2>3, <2>4
<1>5. blocks \in Int /\ Block(Memory(f)) \in Nat /\ Block(Memory(f)') \in Nat
  BY DEF LinesType, Block
<1>6. failed' = {} => failed = {}
  OBVIOUS
<1>7. blocks' >= n + Block(Memory(f)') /\ (failed' = {} => blocks' = n + Block(Memory(f)'))
  BY <1>2, <1>3, <1>5, <1>6 DEF BlocksInv
<1>. QED  BY <1>4, <1>7 DEF BlocksInv

(* What is kept elsewhere is held elsewhere.                               *)
LEMMA HeldElsewhere ==
    ASSUME LinesType, LinesType', NEW f, Elsewhere(f)
    PROVE  \A g \in Fds \ {f} : Held(g)' = Held(g)
BY DEF Elsewhere, Held, Memory

(***************************************************************************)
(* The steps                                                               *)
(***************************************************************************)
LEMMA GetNextLineKeepsInv ==
    ASSUME LinesAssumption, LinesInv, NEW f \in Fds, GetNextLine(f)
    PROVE  LinesInv' /\ Elsewhere(f)
<1>1. /\ ListInv' /\ reading' \in Nodes /\ HasNode(reading.fd)'
      /\ Memory(f)' = Memory(f) /\ Elsewhere(f)
  BY Entered DEF LinesInv
<1>2. LinesType'
  BY <1>1 DEF LinesInv, LinesType, GetNextLine
<1>3. \A g \in Fds : Held(g)' = Held(g)
  <2>1. Held(f)' = Held(f)
    BY <1>1 DEF Held, Memory
  <2>. QED  BY <1>1, <1>2, <2>1, HeldElsewhere DEF LinesInv
<1>4. \A g \in Fds : FdInv(g)'
  BY <1>3, InvParts, FdUntouched DEF GetNextLine
<1>5. BlocksInv'
  <2>1. Memory(f) \in Seq(Nat) \cup {NULL} /\ Block(Memory(f)) \in Int
    BY MemoryType DEF LinesInv, Block
  <2>2. blocks' = blocks /\ failed' = failed /\ blocks \in Int
    BY DEF GetNextLine, LinesInv, LinesType
  <2>. QED  BY <1>1, <2>1, <2>2, InvParts, BlocksCounted DEF LinesInv
<1>. QED  BY <1>1, <1>2, <1>4, <1>5, InvPartsNext

(* A failure drops what is kept for f, and f is remembered.                *)
LEMMA FailureKeepsInv ==
    ASSUME LinesAssumption, LinesInv, NEW f \in Fds, reading # NULL => reading.fd = f,
           fdList' = Without(f), reading' = NULL, ended' = [ended EXCEPT ![f] = TRUE],
           given' = given, file' = file, failed' = failed \cup {f},
           unread' \in [Fds -> Seq(Nat)], \A g \in Fds \ {f} : unread'[g] = unread[g],
           unread[f] = <<>> => unread'[f] = <<>>,
           blocks' \in Int, blocks' >= blocks - Block(Memory(f))
    PROVE  LinesInv' /\ Elsewhere(f)
<1>1. LinesType /\ (\A fd \in Fds : FdInv(fd)) /\ BlocksInv
  BY InvParts
<1>2. ListInv' /\ Memory(f)' = NULL /\ Elsewhere(f)
  BY <1>1, Dropped
<1>3. LinesType'
  BY <1>1, <1>2 DEF LinesType
<1>4. ASSUME NEW g \in Fds \ {f}  PROVE FdInv(g)'
  <2>1. Held(g)' = Held(g)
    BY <1>1, <1>2, <1>3, HeldElsewhere
  <2>2. ended'[g] = ended[g]
    BY <1>1 DEF LinesType
  <2>. QED  BY <1>1, <2>1, <2>2, FdUntouched
<1>5. FdInv(f)'
  <2>1. Held(f)' = <<>>
    BY <1>2 DEF Held, Memory, Bytes
  <2>2. f \in failed'
    OBVIOUS
  <2>3. \A k \in DOMAIN given[f] : Ended(f, k)
    BY <1>1 DEF FdInv
  <2>4. \A k \in DOMAIN given'[f] : Ended(f, k)'
    BY <2>1, <2>3 DEF Ended
  <2>. QED  BY <2>2, <2>4 DEF FdInv
<1>6. BlocksInv'
  <2>1. Block(Memory(f)') = 0
    BY <1>2 DEF Block
  <2>2. failed' # {} /\ failed \subseteq failed'
    OBVIOUS
  <2>3. blocks \in Int /\ Block(Memory(f)) \in Int
    BY <1>1 DEF LinesType, Block
  <2>4. blocks' >= blocks - Block(Memory(f)) + Block(Memory(f)')
    BY <2>1, <2>3
  <2>. QED  BY <1>1, <1>2, <2>2, <2>4, BlocksCounted
<1>. QED  BY <1>2, <1>3, <1>4, <1>5, <1>6, InvPartsNext

LEMMA GiveUpKeepsInv ==
    ASSUME LinesAssumption, LinesInv, NEW f \in Fds, reading # NULL => reading.fd = f,
           GiveUp(f), file' = file,
           unread' \in [Fds -> Seq(Nat)], \A g \in Fds \ {f} : unread'[g] = unread[g],
           unread[f] = <<>> => unread'[f] = <<>>
    PROVE  LinesInv' /\ Elsewhere(f)
<1>1. blocks \in Int /\ Block(Memory(f)) \in Nat /\ Block(NULL) = 0
  BY DEF LinesInv, LinesType, Block
<1>2. blocks' = blocks
  BY <1>1 DEF GiveUp, ReturnNull
<1>3. blocks' \in Int /\ blocks' >= blocks - Block(Memory(f))
  BY <1>1, <1>2
<1>4. /\ fdList' = Without(f) /\ reading' = NULL /\ ended' = [ended EXCEPT ![f] = TRUE]
      /\ given' = given /\ failed' = failed \cup {f}
  BY DEF GiveUp, ReturnNull
<1>. QED  BY <1>3, <1>4, FailureKeepsInv

(* The line, and what is behind it, are what is held.                      *)
LEMMA LineFacts ==
    ASSUME LinesAssumption, LinesType, LineReady, NEW f, f = reading.fd
    PROVE  /\ f \in Fds /\ reading # NULL /\ Memory(f) = reading.memory
           /\ Line \in Seq(Nat) /\ Leftover \in Seq(Nat) \cup {NULL}
           /\ Line \o Bytes(Leftover) = Held(f)
           /\ Line # <<>> => reading.memory # NULL
           /\ Line = <<>> => WantsMore
           /\ WantsMore => Leftover = NULL /\ unread[f] = <<>> /\ NewlineAt(Line) = 0
           /\ ~WantsMore => Line # <<>> /\ NewlineAt(Line) # 0 /\ NewlineAt(Line) = Len(Line)
<1>. DEFINE b == Bytes(reading.memory)
            n == NewlineAt(b)
<1>1. reading # NULL /\ reading \in Nodes /\ f \in Fds
  BY DEF LinesType, LineReady, Nodes
<1>2. reading.memory \in Seq(Nat) \cup {NULL} /\ b \in Seq(Nat)
  BY <1>1, BytesType DEF Nodes
<1>3. Memory(f) = reading.memory /\ Held(f) = b
  BY <1>1 DEF Memory, Held
<1>4. WantsMore <=> n = 0
  BY <1>1 DEF WantsMore
<1>5. /\ n \in 0..Len(b)
      /\ n # 0 => b[n] = NEWLINE /\ \A i \in 1..n - 1 : b[i] # NEWLINE
  BY <1>2, NewlineFacts
<1>6. ASSUME WantsMore
      PROVE  /\ Line = b /\ Leftover = NULL /\ unread[f] = <<>> /\ NewlineAt(Line) = 0
             /\ Line \o Bytes(Leftover) = b
  <2>1. Line = b
    BY <1>2, <1>6, SubSeqFull DEF Line, LineLength
  <2>2. Leftover = NULL /\ Bytes(Leftover) = <<>>
    BY <1>6 DEF Leftover, Bytes
  <2>3. b \o <<>> = b
    BY <1>2, ConcatEmptySeq
  <2>. QED  BY <1>4, <1>6, <2>1, <2>2, <2>3 DEF LineReady
<1>7. ASSUME ~WantsMore
      PROVE  /\ Line \in Seq(Nat) /\ Len(Line) = n /\ NewlineAt(Line) = n /\ Line # <<>>
             /\ Leftover \in Seq(Nat) /\ Line \o Bytes(Leftover) = b
             /\ reading.memory # NULL
  <2>1. n # 0 /\ n \in 1..Len(b)
    BY <1>4, <1>5, <1>7
  <2>2. reading.memory # NULL /\ b = reading.memory
    <3>1. CASE reading.memory = NULL
      <4>1. b = <<>>
        BY <3>1 DEF Bytes
      <4>2. Len(b) = 0
        BY <4>1
      <4>. QED  BY <2>1, <4>2
    <3>. QED  BY <3>1 DEF Bytes
  <2>3. LineLength = n /\ Line = SubSeq(b, 1, n)
    BY <1>7, <2>2 DEF Line, LineLength
  <2>4. Leftover = SubSeq(b, n + 1, Len(b))
    BY <1>7, <2>2, <2>3 DEF Leftover
  <2>. HIDE DEF b, n
  <2>5. /\ Line \in Seq(Nat) /\ Len(Line) = n
        /\ \A i \in 1..n : Line[i] = b[i]
        /\ Leftover \in Seq(Nat) /\ Line \o Leftover = b
    BY <1>2, <1>5, <2>3, <2>4, Cut
  <2>6. NewlineAt(Line) = n
    <3>1. n \in 1..Len(Line) /\ Line[n] = NEWLINE
      BY <1>5, <2>1, <2>5
    <3>2. \A i \in 1..n - 1 : Line[i] # NEWLINE
      BY <1>5, <2>1, <2>5
    <3>. QED  BY <2>5, <3>1, <3>2, NewlineIs
  <2>7. Line # <<>>
    BY <2>1, <2>5
  <2>8. Bytes(Leftover) = Leftover
    BY <2>5 DEF Bytes, LinesAssumption
  <2>. QED  BY <2>2, <2>5, <2>6, <2>7, <2>8
<1>. HIDE DEF n
<1>8. Line # <<>> => reading.memory # NULL
  BY <1>6, <1>7 DEF Bytes
<1>9. ~WantsMore => NewlineAt(Line) # 0
  BY <1>4, <1>7
<1>. QED  BY <1>1, <1>2, <1>3, <1>6, <1>7, <1>8, <1>9

(* A line is given, and what is behind it kept or, by a failure, lost.     *)
LEMMA GiveLineKeepsInv ==
    ASSUME LinesAssumption, LinesInv, LineReady, Line # <<>>, NEW f, f = reading.fd,
           NEW kept, GiveLine(kept), file' = file, unread' = unread,
           \/ kept = Leftover /\ failed' = failed
           \/ kept = NULL /\ failed' = failed \cup {f}
    PROVE  LinesInv' /\ Elsewhere(f)
<1>1. LinesType /\ (\A fd \in Fds : FdInv(fd)) /\ BlocksInv
  BY InvParts
<1>2. /\ f \in Fds /\ reading # NULL /\ Memory(f) = reading.memory
      /\ Line \in Seq(Nat) /\ Leftover \in Seq(Nat) \cup {NULL}
      /\ Line \o Bytes(Leftover) = Held(f)
      /\ reading.memory # NULL
      /\ WantsMore => Leftover = NULL /\ unread[f] = <<>> /\ NewlineAt(Line) = 0
      /\ ~WantsMore => NewlineAt(Line) # 0 /\ NewlineAt(Line) = Len(Line)
  BY <1>1, LineFacts
<1>3. /\ fdList' = Keeping(f, kept) /\ reading' = NULL
      /\ given' = [given EXCEPT ![f] = Append(given[f], Line)]
      /\ ended' = ended /\ kept \in Seq(Nat) \cup {NULL}
      /\ blocks' = blocks - 1 + Block(kept)
  BY <1>2 DEF GiveLine
<1>4. ListInv' /\ Memory(f)' = kept /\ Elsewhere(f)
  BY <1>1, <1>2, <1>3, Gave
<1>5. /\ given[f] \in Seq(Seq(Nat)) /\ given'[f] = Append(given[f], Line)
      /\ \A g \in Fds \ {f} : given'[g] = given[g]
      /\ Held(f) \in Seq(Nat) /\ unread[f] \in Seq(Nat)
  <2>1. Held(f) \in Seq(Nat)
    BY <1>1, MemoryType, BytesType
  <2>. QED  BY <1>1, <1>2, <1>3, <2>1 DEF LinesType
<1>6. LinesType'
  <2>1. given' \in [Fds -> Seq(Seq(Nat))]
    BY <1>1, <1>2, <1>3, <1>5, AppendProperties DEF LinesType
  <2>2. blocks' \in Int
    BY <1>1, <1>3 DEF Block, LinesType
  <2>. QED  BY <1>1, <1>2, <1>3, <1>4, <2>1, <2>2 DEF LinesType
<1>7. ASSUME NEW g \in Fds \ {f}  PROVE FdInv(g)'
  <2>1. Held(g)' = Held(g)
    BY <1>1, <1>4, <1>6, HeldElsewhere
  <2>. QED  BY <1>1, <1>3, <1>5, <2>1, FdUntouched
<1>8. Held(f)' = Bytes(kept)
  BY <1>4 DEF Held, Memory
<1>9. Held(f) # <<>>
  <2>1. Bytes(Leftover) \in Seq(Nat)
    BY <1>2, BytesType
  <2>2. Len(Line \o Bytes(Leftover)) = Len(Line) + Len(Bytes(Leftover))
        /\ Len(Line) \in Nat \ {0} /\ Len(Bytes(Leftover)) \in Nat
    BY <1>2, <2>1, ConcatProperties
  <2>. QED  BY <1>2, <2>2
<1>10. ASSUME f \notin failed'  PROVE Intact(f)'
  <2>1. kept = Leftover /\ Intact(f)
    BY <1>1, <1>2, <1>10 DEF FdInv
  <2>2. Held(f)' = Bytes(Leftover) /\ Bytes(Leftover) \in Seq(Nat)
    BY <1>2, <1>8, <2>1, BytesType
  <2>. DEFINE F == FlattenSeq(given[f])
              L == Bytes(Leftover)
  <2>3. F \in Seq(Nat) /\ FlattenSeq(given'[f]) = F \o Line
    BY <1>2, <1>5, FlattenAppend, ZenonT(30)
  <2>5. (F \o Line) \o L = F \o (Line \o L)
    BY <1>2, <2>2, <2>3, JoinAssociates
  <2>6. ASSUME IsText(f)  PROVE ~ended[f]
    <3>. SUFFICES ASSUME ended[f]  PROVE FALSE
      OBVIOUS
    <3>1. F = file[f] /\ (F \o Held(f)) \o unread[f] = file[f]
      BY <2>1, <2>6 DEF Intact
    <3>2. /\ F \o Held(f) \in Seq(Nat) /\ Len(F \o Held(f)) = Len(F) + Len(Held(f))
          /\ Len((F \o Held(f)) \o unread[f]) = Len(F \o Held(f)) + Len(unread[f])
      BY <1>5, <2>3, ConcatProperties
    <3>3. Len(F) \in Nat /\ Len(Held(f)) \in Nat \ {0} /\ Len(unread[f]) \in Nat
      BY <1>5, <1>9, <2>3
    <3>4. Len((F \o Held(f)) \o unread[f]) = Len(F)
      BY <3>1
    <3>5. Len(F) = (Len(F) + Len(Held(f))) + Len(unread[f])
      BY <3>2, <3>4
    <3>. DEFINE x == Len(F)
                y == Len(Held(f))
                z == Len(unread[f])
    <3>. HIDE DEF x, y, z
    <3>6. x \in Nat /\ y \in Nat \ {0} /\ z \in Nat /\ x = (x + y) + z
      BY <3>3, <3>5 DEF x, y, z
    <3>. QED  BY <3>6
  <2>. HIDE DEF F
  <2>7. FlattenSeq(given'[f]) \o Held(f)' \o unread'[f] = F \o Held(f) \o unread[f]
    BY <1>2, <2>2, <2>3, <2>5
  <2>8. IsText(f)' <=> IsText(f)
    BY DEF IsText
  <2>. QED  BY <1>3, <2>1, <2>6, <2>7, <2>8 DEF Intact, F
<1>11. ASSUME NEW k \in DOMAIN given'[f]  PROVE Ended(f, k)'
  <2>. DEFINE n == Len(given[f])
  <2>1. n \in Nat /\ Len(given'[f]) = n + 1 /\ given'[f][n + 1] = Line
        /\ (\A j \in 1..n : given'[f][j] = given[f][j]) /\ DOMAIN given'[f] = 1..n + 1
        /\ DOMAIN given[f] = 1..n
    <3>1. /\ given'[f] \in Seq(Seq(Nat)) /\ Len(given'[f]) = n + 1 /\ given'[f][n + 1] = Line
          /\ \A j \in 1..n : given'[f][j] = given[f][j]
      <4>1. \A s \in Seq(Seq(Nat)), e \in Seq(Nat) :
               /\ Append(s, e) \in Seq(Seq(Nat)) /\ Len(Append(s, e)) = Len(s) + 1
               /\ \A j \in 1..Len(s) : Append(s, e)[j] = s[j]
               /\ Append(s, e)[Len(s) + 1] = e
        BY AppendProperties
      <4>. DEFINE s == given[f]
                  t == given'[f]
      <4>2. s \in Seq(Seq(Nat)) /\ Line \in Seq(Nat) /\ t = Append(s, Line)
        BY <1>2, <1>5
      <4>. HIDE DEF s, t
      <4>3. /\ t \in Seq(Seq(Nat)) /\ Len(t) = Len(s) + 1 /\ t[Len(s) + 1] = Line
            /\ \A j \in 1..Len(s) : t[j] = s[j]
        BY <4>1, <4>2
      <4>. QED  BY <4>3 DEF s, t
    <3>. QED  BY <1>5, <3>1
  <2>2. CASE k \in 1..n
    <3>1. Ended(f, k)
      BY <1>1, <1>2, <2>1, <2>2 DEF FdInv
    <3>2. NewlineAt(given[f][k]) # 0 /\ NewlineAt(given[f][k]) = Len(given[f][k])
      BY <1>9, <3>1 DEF Ended
    <3>. QED  BY <2>1, <2>2, <3>2 DEF Ended
  <2>3. CASE k = n + 1
    <3>1. given'[f][k] = Line /\ k = Len(given'[f])
      BY <2>1, <2>3
    <3>2. CASE WantsMore
      <4>1. kept = NULL /\ Held(f)' = <<>>
        BY <1>2, <1>8, <3>2 DEF Bytes
      <4>. QED  BY <1>2, <3>1, <3>2, <4>1 DEF Ended
    <3>3. CASE ~WantsMore
      BY <1>2, <3>1, <3>3 DEF Ended
    <3>. QED  BY <3>2, <3>3
  <2>. QED  BY <2>1, <2>2, <2>3
<1>12. FdInv(f)'
  BY <1>10, <1>11 DEF FdInv
<1>13. BlocksInv'
  <2>1. Block(Memory(f)) = 1 /\ Memory(f)' = kept
    BY <1>2, <1>4 DEF Block
  <2>2. blocks \in Int /\ Block(kept) \in Int
    BY <1>1 DEF LinesType, Block
  <2>3. blocks' \in Int /\ blocks' = blocks - Block(Memory(f)) + Block(Memory(f)')
    BY <1>3, <2>1, <2>2
  <2>4. failed \subseteq failed'
    OBVIOUS
  <2>. QED  BY <1>1, <1>2, <1>3, <1>4, <2>1, <2>3, <2>4, BlocksCounted
<1>. QED  BY <1>4, <1>6, <1>7, <1>12, <1>13, InvPartsNext

(* NULL is returned once the file is at its end and nothing is held.       *)
LEMMA ReturnNullKeepsInv ==
    ASSUME LinesAssumption, LinesInv, LineReady, Line = <<>>, NEW f, f = reading.fd,
           ReturnNull(f, reading.memory), file' = file, unread' = unread, failed' = failed
    PROVE  LinesInv' /\ Elsewhere(f)
<1>1. LinesType /\ (\A fd \in Fds : FdInv(fd)) /\ BlocksInv
  BY InvParts
<1>2. /\ f \in Fds /\ reading # NULL /\ Memory(f) = reading.memory
      /\ Leftover = NULL /\ unread[f] = <<>> /\ Line \o Bytes(Leftover) = Held(f)
  BY <1>1, LineFacts
<1>3. /\ fdList' = Without(f) /\ reading' = NULL /\ ended' = [ended EXCEPT ![f] = TRUE]
      /\ given' = given /\ blocks' = blocks - Block(Memory(f))
  BY <1>2 DEF ReturnNull
<1>4. ListInv' /\ Memory(f)' = NULL /\ Elsewhere(f)
  BY <1>1, <1>2, <1>3, Dropped
<1>5. blocks \in Int /\ Block(Memory(f)) \in Int /\ Block(Memory(f)') = 0
  BY <1>1, <1>4 DEF LinesType, Block
<1>6. LinesType'
  <2>1. blocks' \in Int
    BY <1>3, <1>5
  <2>2. ended' \in [Fds -> BOOLEAN]
    BY <1>1, <1>3 DEF LinesType
  <2>. QED  BY <1>1, <1>3, <1>4, <2>1, <2>2 DEF LinesType
<1>7. ASSUME NEW g \in Fds \ {f}  PROVE FdInv(g)'
  <2>1. Held(g)' = Held(g)
    BY <1>1, <1>4, <1>6, HeldElsewhere
  <2>2. ended'[g] = ended[g]
    BY <1>1, <1>3 DEF LinesType
  <2>. QED  BY <1>1, <1>3, <2>1, <2>2, FdUntouched
<1>8. Held(f) = <<>> /\ Held(f)' = <<>>
  <2>1. <<>> \o <<>> = <<>>
    OBVIOUS
  <2>. QED  BY <1>2, <1>4, <2>1 DEF Held, Memory, Bytes
<1>9. FdInv(f)'
  <2>1. ASSUME IsText(f), f \notin failed  PROVE FlattenSeq(given[f]) = file[f]
    <3>1. FlattenSeq(given[f]) \in Seq(Nat)
      BY <1>1, <1>2, EmptySeq, FlattenAppend DEF LinesType
    <3>2. FlattenSeq(given[f]) \o <<>> \o <<>> = file[f]
      BY <1>1, <1>2, <1>8, <2>1 DEF FdInv, Intact
    <3>. QED  BY <3>1, <3>2, ConcatEmptySeq
  <2>2. \A k \in DOMAIN given[f] : Ended(f, k)
    BY <1>1, <1>2 DEF FdInv
  <2>3. \A k \in DOMAIN given'[f] : Ended(f, k)'
    BY <1>3, <1>8, <2>2 DEF Ended
  <2>4. f \notin failed => Intact(f)
    BY <1>1, <1>2 DEF FdInv
  <2>5. f \notin failed' => Intact(f)'
    BY <1>3, <1>8, <2>1, <2>4 DEF Intact, IsText
  <2>. QED  BY <2>3, <2>5 DEF FdInv
<1>10. BlocksInv'
  <2>1. blocks' \in Int /\ blocks' = blocks - Block(Memory(f)) + Block(Memory(f)')
    BY <1>3, <1>5
  <2>. QED  BY <1>1, <1>2, <1>4, <2>1, BlocksCounted
<1>. QED  BY <1>4, <1>6, <1>7, <1>9, <1>10, InvPartsNext

(* A chunk is read and joined to what is held.                             *)
LEMMA ChunkKeepsInv ==
    ASSUME LinesAssumption, LinesInv, NEW f, f = reading.fd, WantsMore,
           NEW n \in 1..BUFFER_SIZE, n <= Len(unread[f]),
           unread' = [unread EXCEPT ![f] = SubSeq(unread[f], n + 1, Len(unread[f]))],
           reading' = [reading EXCEPT !.memory = Bytes(reading.memory)
                            \o AsString(SubSeq(unread[f], 1, n))],
           blocks' = blocks + 1 - Block(reading.memory),
           fdList' = fdList, given' = given, ended' = ended, failed' = failed, file' = file
    PROVE  LinesInv' /\ Elsewhere(f)
<1>1. LinesType /\ (\A fd \in Fds : FdInv(fd)) /\ BlocksInv
  BY InvParts
<1>2. reading # NULL /\ reading \in Nodes /\ f \in Fds
  BY <1>1 DEF WantsMore, LinesType, Nodes
<1>. DEFINE all == unread[f]
            chunk == SubSeq(all, 1, n)
            rest == SubSeq(all, n + 1, Len(all))
            m == Bytes(reading.memory) \o AsString(chunk)
<1>3. all \in Seq(Nat) /\ n \in 0..Len(all) /\ n > 0
  BY <1>1, <1>2 DEF LinesType, LinesAssumption
<1>4. /\ chunk \in Seq(Nat) /\ Len(chunk) = n /\ (\A i \in 1..n : chunk[i] = all[i])
      /\ rest \in Seq(Nat) /\ chunk \o rest = all
  BY <1>3, Cut
<1>5. Memory(f) = reading.memory /\ Held(f) = Bytes(reading.memory) /\ Held(f) \in Seq(Nat)
  BY <1>1, <1>2, BytesType DEF Memory, Held, Nodes
<1>6. m \in Seq(Nat)
  BY <1>4, <1>5, StringType, ConcatProperties, ZenonT(30)
<1>7. /\ ListInv' /\ reading' \in Nodes /\ HasNode(reading.fd)'
      /\ Memory(f)' = m /\ Elsewhere(f)
  BY <1>1, <1>2, <1>6, Joined
<1>8. /\ unread' \in [Fds -> Seq(Nat)] /\ unread'[f] = rest
      /\ \A g \in Fds \ {f} : unread'[g] = unread[g]
  BY <1>1, <1>2, <1>4 DEF LinesType
<1>9. blocks \in Int /\ Block(Memory(f)) \in Int /\ Block(Memory(f)') = 1 /\ blocks' \in Int
      /\ blocks' = blocks - Block(Memory(f)) + Block(Memory(f)')
  <2>1. m # NULL
    BY <1>6 DEF LinesAssumption
  <2>. QED  BY <1>1, <1>5, <1>7, <2>1, SMTT(30) DEF LinesType, Block
<1>10. LinesType'
  BY <1>1, <1>7, <1>8, <1>9 DEF LinesType
<1>11. ASSUME NEW g \in Fds \ {f}  PROVE FdInv(g)'
  <2>1. Held(g)' = Held(g)
    BY <1>1, <1>7, <1>10, HeldElsewhere
  <2>. QED  BY <1>1, <1>8, <2>1, FdUntouched
<1>12. Held(f)' = m
  <2>1. m # NULL
    BY <1>6 DEF LinesAssumption
  <2>. QED  BY <1>7, <2>1 DEF Held, Memory, Bytes
<1>13. ASSUME f \notin failed, IsText(f)
       PROVE  /\ FlattenSeq(given[f]) \o m \o rest = file[f]
              /\ ended[f] => FlattenSeq(given[f]) = file[f]
  <2>. DEFINE F == FlattenSeq(given[f])
              h == Held(f)
  <2>1. (F \o h) \o all = file[f] /\ (ended[f] => F = file[f])
    BY <1>1, <1>2, <1>13 DEF FdInv, Intact
  <2>2. F \in Seq(Nat) /\ h \in Seq(Nat)
    BY <1>1, <1>2, <1>5, EmptySeq, FlattenAppend DEF LinesType
  <2>3. AsString(chunk) = chunk
    <3>1. F \o h \in Seq(Nat)
      BY <2>2, JoinType
    <3>2. ASSUME NEW i \in 1..n  PROVE chunk[i] # NUL
      <4>1. i \in 1..Len(all)
        BY <1>3
      <4>. HIDE DEF F, h, all
      <4>2. PICK k \in DOMAIN ((F \o h) \o all) : ((F \o h) \o all)[k] = all[i]
        BY <1>3, <3>1, <4>1, Behind
      <4>3. k \in DOMAIN file[f] /\ file[f][k] = all[i]
        BY <2>1, <4>2
      <4>4. file[f][k] # NUL
        BY <1>13, <4>3 DEF IsText, ToSet
      <4>. QED  BY <1>4, <4>3, <4>4
    <3>. HIDE DEF chunk
    <3>. QED  BY <1>4, <3>2, NoNul
  <2>. HIDE DEF F, h, chunk, rest, all
  <2>4. F \o (h \o chunk) \o rest = (F \o h) \o all
    <3>1. F \o (h \o chunk) = (F \o h) \o chunk
      BY <1>4, <2>2, JoinAssociates, ZenonT(30)
    <3>2. ((F \o h) \o chunk) \o rest = (F \o h) \o (chunk \o rest)
      <4>1. F \o h \in Seq(Nat)
        BY <2>2, JoinType
      <4>. QED  BY <1>4, <4>1, JoinAssociates
    <3>. QED  BY <1>4, <3>1, <3>2
  <2>5. m = h \o chunk
    BY <1>5, <2>3 DEF h
  <2>. HIDE DEF m
  <2>. QED  BY <2>1, <2>4, <2>5 DEF F
<1>14. ASSUME NEW k \in DOMAIN given[f]  PROVE Ended(f, k)'
  <2>1. unread[f] # <<>>
    BY <1>3
  <2>2. Ended(f, k)
    BY <1>1, <1>2, <1>14 DEF FdInv
  <2>. QED  BY <2>1, <2>2 DEF Ended
<1>15. FdInv(f)'
  <2>. HIDE DEF m, rest
  <2>1. f \notin failed' => Intact(f)'
    BY <1>8, <1>12, <1>13 DEF Intact, IsText
  <2>. QED  BY <1>14, <2>1 DEF FdInv
<1>16. BlocksInv'
  <2>1. Memory(f)' \in Seq(Nat) \cup {NULL}
    BY <1>6, <1>7
  <2>2. blocks' >= blocks - Block(Memory(f)) + Block(Memory(f)')
    BY <1>9
  <2>. HIDE DEF m, chunk, rest, all
  <2>. QED  BY <1>1, <1>2, <1>7, <1>9, <2>1, <2>2, BlocksCounted
<1>. QED  BY <1>7, <1>10, <1>11, <1>15, <1>16, InvPartsNext

(***************************************************************************)
(* The theorems                                                            *)
(***************************************************************************)
(* Nothing is read, given or kept for another descriptor than f.           *)
OnlyFor(f) ==
    \A g \in Fds \ {f} : unread'[g] = unread[g] /\ given'[g] = given[g] /\ Node(g)' = Node(g)

LEMMA ReadChunkStep ==
    ASSUME LinesAssumption, LinesInv, NEW n \in 1..BUFFER_SIZE, ReadChunk(n)
    PROVE  LinesInv' /\ OnlyFor(reading.fd)
<1>. DEFINE f == reading.fd
            all == unread[f]
<1>1. f \in Fds /\ reading # NULL /\ all \in Seq(Nat) /\ unread \in [Fds -> Seq(Nat)]
      /\ given \in [Fds -> Seq(Seq(Nat))]
  BY DEF LinesInv, LinesType, ReadChunk, WantsMore, Nodes
<1>2. /\ unread' = [unread EXCEPT ![f] = SubSeq(all, n + 1, Len(all))]
      /\ n <= Len(all) /\ WantsMore /\ file' = file
  BY DEF ReadChunk
<1>3. /\ unread' \in [Fds -> Seq(Nat)] /\ all # <<>>
      /\ \A g \in Fds \ {f} : unread'[g] = unread[g]
  <2>1. n \in 0..Len(all) /\ n > 0
    BY <1>1, <1>2 DEF LinesAssumption
  <2>2. SubSeq(all, n + 1, Len(all)) \in Seq(Nat)
    BY <1>1, <2>1, Cut
  <2>3. all # <<>>
    BY <2>1
  <2>. HIDE DEF all, f
  <2>. QED  BY <1>1, <1>2, <2>2, <2>3
<1>4. CASE GiveUp(f)
  <2>1. LinesInv' /\ Elsewhere(f)
    BY <1>1, <1>2, <1>3, <1>4, GiveUpKeepsInv
  <2>2. given' = given
    BY <1>4 DEF GiveUp, ReturnNull
  <2>. QED  BY <1>3, <2>1, <2>2 DEF Elsewhere, OnlyFor
<1>5. CASE ~GiveUp(f)
  <2>1. /\ reading' = [reading EXCEPT !.memory = Bytes(reading.memory)
                            \o AsString(SubSeq(unread[f], 1, n))]
        /\ blocks' = blocks + 1 - Block(reading.memory)
        /\ UNCHANGED <<fdList, given, ended, failed>>
    BY <1>5 DEF ReadChunk
  <2>2. LinesInv' /\ Elsewhere(f)
    BY <1>1, <1>2, <2>1, ChunkKeepsInv
  <2>. QED  BY <1>3, <2>1, <2>2 DEF Elsewhere, OnlyFor
<1>. QED  BY <1>4, <1>5

LEMMA LinesStartInv == ASSUME LinesAssumption, LinesInit PROVE LinesInv
<1>. USE DEF LinesInit, LinesStarted
<1>1. file \in [Fds -> Seq(Nat)]
  BY DEF LinesAssumption
<1>2. LinesType
  <2>1. given \in [Fds -> Seq(Seq(Nat))]
    BY EmptySeq
  <2>2. ListInv
    BY EmptySeq DEF ListInv
  <2>. QED  BY <1>1, <2>1, <2>2 DEF LinesType
<1>3. \A fd : ~HasNode(fd) /\ Memory(fd) = NULL /\ Held(fd) = <<>>
  BY DEF HasNode, Memory, Kept, Held, Bytes
<1>4. ASSUME NEW fd \in Fds  PROVE FdInv(fd)
  <2>1. FlattenSeq(given[fd]) = <<>> /\ DOMAIN given[fd] = {} /\ ~ended[fd]
    BY FlattenEmpty
  <2>2. <<>> \o <<>> \o file[fd] = file[fd]
    BY <1>1, ConcatEmptySeq
  <2>. QED  BY <1>3, <2>1, <2>2 DEF FdInv, Intact
<1>5. BlocksInv
  <2>1. Occupied = {}
    BY <1>3 DEF Occupied
  <2>. QED  BY <2>1, FS_EmptySet DEF BlocksInv
<1>. QED  BY <1>2, <1>4, <1>5, InvParts

LEMMA LinesStep ==
    ASSUME LinesAssumption, LinesInv, LinesNext
    PROVE  /\ LinesInv'
           /\ \E f \in Fds : OnlyFor(f) /\ (reading # NULL => f = reading.fd)
<1>1. LinesType /\ unread \in [Fds -> Seq(Nat)] /\ given \in [Fds -> Seq(Seq(Nat))]
  BY DEF LinesInv, LinesType
<1>2. reading # NULL => reading.fd \in Fds
  BY <1>1 DEF LinesType, Nodes
<1>3. ASSUME NEW f \in Fds, GetNextLine(f)  PROVE LinesInv' /\ OnlyFor(f) /\ reading = NULL
  <2>1. LinesInv' /\ Elsewhere(f)
    BY <1>3, GetNextLineKeepsInv
  <2>. QED  BY <1>3, <2>1 DEF GetNextLine, Elsewhere, OnlyFor
<1>4. ASSUME NEW f \in Fds, GetNextLineFails(f)
      PROVE  LinesInv' /\ OnlyFor(f) /\ reading = NULL
  <2>1. /\ reading = NULL /\ GiveUp(f) /\ file' = file /\ unread' = unread /\ given' = given
    BY <1>4 DEF GetNextLineFails, GiveUp, ReturnNull
  <2>2. LinesInv' /\ Elsewhere(f)
    BY <1>1, <2>1, GiveUpKeepsInv
  <2>. QED  BY <2>1, <2>2 DEF Elsewhere, OnlyFor
<1>5. ASSUME NEW n \in 1..BUFFER_SIZE, ReadChunk(n)
      PROVE  LinesInv' /\ OnlyFor(reading.fd) /\ reading # NULL
  BY <1>5, ReadChunkStep DEF ReadChunk, WantsMore
<1>6. ASSUME ReadError  PROVE LinesInv' /\ OnlyFor(reading.fd) /\ reading # NULL
  <2>1. /\ reading # NULL /\ GiveUp(reading.fd) /\ file' = file /\ unread' = unread /\ given' = given
    BY <1>6 DEF ReadError, GiveUp, ReturnNull, WantsMore
  <2>2. LinesInv' /\ Elsewhere(reading.fd)
    BY <1>1, <1>2, <2>1, GiveUpKeepsInv
  <2>. QED  BY <2>1, <2>2 DEF Elsewhere, OnlyFor
<1>7. ASSUME LineReady
      PROVE  /\ reading # NULL /\ reading.fd \in Fds /\ Memory(reading.fd) = reading.memory
             /\ Leftover # NULL => Line # <<>>
  BY <1>1, <1>7, LineFacts
<1>8. ASSUME Return  PROVE LinesInv' /\ OnlyFor(reading.fd) /\ reading # NULL
  <2>1. LineReady /\ file' = file /\ unread' = unread /\ failed' = failed
    BY <1>8 DEF Return
  <2>2. CASE Line = <<>>
    <3>1. ReturnNull(reading.fd, reading.memory) /\ given' = given
      BY <1>8, <2>2 DEF Return, ReturnNull
    <3>2. LinesInv' /\ Elsewhere(reading.fd)
      BY <2>1, <2>2, <3>1, ReturnNullKeepsInv
    <3>. QED  BY <1>7, <2>1, <3>1, <3>2 DEF Elsewhere, OnlyFor
  <2>3. CASE Line # <<>>
    <3>1. GiveLine(Leftover)
      BY <1>8, <2>3 DEF Return
    <3>2. LinesInv' /\ Elsewhere(reading.fd)
      BY <2>1, <2>3, <3>1, GiveLineKeepsInv
    <3>3. \A g \in Fds \ {reading.fd} : given'[g] = given[g]
      BY <1>1, <3>1 DEF GiveLine
    <3>. QED  BY <1>7, <2>1, <3>2, <3>3 DEF Elsewhere, OnlyFor
  <2>. QED  BY <2>2, <2>3
<1>9. ASSUME LineFails  PROVE LinesInv' /\ OnlyFor(reading.fd) /\ reading # NULL
  <2>. DEFINE f == reading.fd
  <2>1. /\ reading # NULL /\ f \in Fds /\ Memory(f) = reading.memory
    BY <1>7, <1>9 DEF LineFails
  <2>2. /\ fdList' = Without(f) /\ reading' = NULL /\ ended' = [ended EXCEPT ![f] = TRUE]
        /\ given' = given /\ file' = file /\ failed' = failed \cup {f} /\ unread' = unread
        /\ blocks' = blocks - Block(Memory(f))
    BY <1>9, <2>1 DEF LineFails, ReturnNull
  <2>3. blocks' \in Int /\ blocks' >= blocks - Block(Memory(f))
    BY <1>1, <2>2 DEF LinesType, Block
  <2>. HIDE DEF f
  <2>4. LinesInv' /\ Elsewhere(f)
    BY <1>1, <2>1, <2>2, <2>3, FailureKeepsInv DEF f
  <2>. QED  BY <2>1, <2>2, <2>4 DEF f, Elsewhere, OnlyFor
<1>10. ASSUME LeftoverFails  PROVE LinesInv' /\ OnlyFor(reading.fd) /\ reading # NULL
  <2>1. LineReady /\ Line # <<>> /\ GiveLine(NULL) /\ file' = file /\ unread' = unread
        /\ failed' = failed \cup {reading.fd}
    BY <1>7, <1>10 DEF LeftoverFails
  <2>2. LinesInv' /\ Elsewhere(reading.fd)
    BY <2>1, GiveLineKeepsInv
  <2>3. \A g \in Fds \ {reading.fd} : given'[g] = given[g]
    BY <1>1, <2>1 DEF GiveLine
  <2>. QED  BY <1>7, <2>1, <2>2, <2>3 DEF Elsewhere, OnlyFor
<1>. QED  BY <1>2, <1>3, <1>4, <1>5, <1>6, <1>8, <1>9, <1>10 DEF LinesNext

LEMMA LinesInvEver == ASSUME LinesAssumption PROVE LinesSpec => []LinesInv
<1>1. ASSUME LinesInv, UNCHANGED lineVars  PROVE LinesInv'
  <2>1. LinesType /\ (\A fd \in Fds : FdInv(fd)) /\ BlocksInv
    BY <1>1, InvParts
  <2>2. LinesType'
    BY <1>1, <2>1 DEF lineVars, LinesType, ListInv, HasNode
  <2>3. \A fd : Memory(fd)' = Memory(fd) /\ Held(fd)' = Held(fd)
    BY <1>1 DEF lineVars, Memory, Held, Kept, NodeOf, HasNode
  <2>4. \A fd \in Fds : FdInv(fd)'
    BY <1>1, <2>1, <2>3, FdUntouched DEF lineVars
  <2>5. BlocksInv'
    BY <1>1, <2>1, <2>3 DEF BlocksInv, Occupied, lineVars
  <2>. QED  BY <2>2, <2>4, <2>5, InvPartsNext
<1>2. LinesInv /\ [LinesNext]_lineVars => LinesInv'
  BY <1>1, LinesStep
<1>3. LinesInit => LinesInv
  BY LinesStartInv
<1>. QED  BY <1>2, <1>3, PTL DEF LinesSpec

(* get_next_line returns the bytes of a file, in order, cut behind each    *)
(* newline, however read cuts it and whatever other calls come between.    *)
THEOREM LinesAlwaysTheFile == ASSUME LinesAssumption PROVE LinesSpec => []LinesAreTheFile
BY LinesInvEver, PTL DEF LinesInv

(* Every block is the memory of a node or of the call in progress, until a *)
(* failure loses one.                                                      *)
THEOREM NothingEverLeaks == ASSUME LinesAssumption PROVE LinesSpec => []NothingLeaks
BY LinesInvEver, PTL DEF LinesInv

(* A call for one descriptor changes and takes nothing of another.         *)
THEOREM OthersAlwaysUntouched == ASSUME LinesAssumption PROVE LinesSpec => OthersUntouched
<1>. DEFINE touched == {fd \in Fds : \/ unread'[fd] # unread[fd]
                                   \/ given'[fd] # given[fd]
                                   \/ Node(fd)' # Node(fd)}
<1>1. ASSUME LinesInv, LinesNext  PROVE TouchesOne
  <2>1. PICK f \in Fds : OnlyFor(f) /\ (reading # NULL => f = reading.fd)
    BY <1>1, LinesStep
  <2>2. touched \subseteq {f}
    BY <2>1 DEF OnlyFor
  <2>3. Cardinality(touched) <= Cardinality({f}) /\ Cardinality({f}) = 1
        /\ Cardinality(touched) \in Nat
    BY <2>2, FS_Singleton, FS_Subset, FS_CardinalityType
  <2>. QED  BY <2>1, <2>2, <2>3 DEF TouchesOne
<1>2. LinesInv /\ [LinesNext]_lineVars => [TouchesOne]_lineVars
  BY <1>1
<1>. QED  BY <1>2, LinesInvEver, PTL DEF LinesSpec, OthersUntouched

(***************************************************************************)
(* What the scans find                                                     *)
(***************************************************************************)
LEMMA SkipFacts ==
    ASSUME NEW s \in Seq(Nat), NEW delim
    PROVE  /\ Skip(s, delim) \in 0..Len(s)
           /\ \A i \in 1..Skip(s, delim) : s[i] \in delim
           /\ Skip(s, delim) < Len(s) => s[Skip(s, delim) + 1] \notin delim
<1>. DEFINE I == {i \in 1..Len(s) : s[i] \notin delim}
            n == IF I # {} THEN Min(I) ELSE 0
<1>1. Skip(s, delim) = IF n = 0 THEN Len(s) ELSE n - 1
  BY DEF Skip, SelectInSeq
<1>2. Len(s) \in Nat /\ I \subseteq Nat
  OBVIOUS
<1>3. CASE I = {}
  BY <1>1, <1>2, <1>3
<1>4. CASE I # {}
  <2>1. n \in I /\ \A k \in I : n <= k
    BY <1>2, <1>4, LeastOf
  <2>2. n \in 1..Len(s) /\ s[n] \notin delim
    BY <2>1
  <2>. HIDE DEF n
  <2>3. \A i \in 1..n - 1 : s[i] \in delim
    BY <1>2, <2>1, <2>2
  <2>. QED  BY <1>1, <1>2, <2>2, <2>3
<1>. QED  BY <1>3, <1>4

LEMMA WordFacts ==
    ASSUME NEW s \in Seq(Nat), NEW delim
    PROVE  /\ Word(s, delim) \in Seq(Nat) /\ Len(Word(s, delim)) \in 0..Len(s)
           /\ Word(s, delim) = SubSeq(s, 1, Len(Word(s, delim)))
           /\ \A i \in 1..Len(Word(s, delim)) : s[i] \notin delim
           /\ Len(Word(s, delim)) < Len(s) => s[Len(Word(s, delim)) + 1] \in delim
<1>. DEFINE I == {i \in 1..Len(s) : s[i] \in delim}
            n == IF I # {} THEN Min(I) ELSE 0
<1>1. Word(s, delim) = IF n = 0 THEN s ELSE SubSeq(s, 1, n - 1)
  BY DEF Word, SelectInSeq
<1>2. Len(s) \in Nat /\ I \subseteq Nat /\ SubSeq(s, 1, Len(s)) = s
  OBVIOUS
<1>3. CASE I = {}
  BY <1>1, <1>2, <1>3
<1>4. CASE I # {}
  <2>1. n \in I /\ \A k \in I : n <= k
    BY <1>2, <1>4, LeastOf
  <2>2. n \in 1..Len(s) /\ s[n] \in delim
    BY <2>1
  <2>. HIDE DEF n
  <2>3. \A i \in 1..n - 1 : s[i] \notin delim
    BY <1>2, <2>1, <2>2
  <2>4. Word(s, delim) = SubSeq(s, 1, n - 1) /\ n # 0
    BY <1>1, <2>2
  <2>5. Word(s, delim) \in Seq(Nat) /\ Len(Word(s, delim)) = n - 1
    BY <1>2, <2>2, <2>4
  <2>. QED  BY <1>2, <2>2, <2>3, <2>4, <2>5
<1>. QED  BY <1>3, <1>4

(* What is behind position i of s, and the beginnings of that.             *)
LEMMA Suffix ==
    ASSUME NEW s \in Seq(Nat), NEW i \in 0..Len(s), NEW u, u = SubSeq(s, i + 1, Len(s))
    PROVE  /\ u \in Seq(Nat) /\ Len(u) = Len(s) - i
           /\ \A k \in 1..Len(s) - i : u[k] = s[i + k]
           /\ \A k \in 0..Len(s) - i : SubSeq(u, 1, k) = SubSeq(s, i + 1, i + k)
<1>1. /\ Len(s) \in Nat /\ i \in Nat /\ u \in Seq(Nat) /\ Len(u) = Len(s) - i
      /\ \A k \in 1..Len(s) - i : u[k] = s[i + k]
  OBVIOUS
<1>2. ASSUME NEW k \in 0..Len(s) - i  PROVE SubSeq(u, 1, k) = SubSeq(s, i + 1, i + k)
  <2>. DEFINE v == SubSeq(u, 1, k)
              w == SubSeq(s, i + 1, i + k)
  <2>1. k \in Nat /\ k <= Len(u) /\ i + k <= Len(s)
    BY <1>1
  <2>2. v \in Seq(Nat) /\ Len(v) = k /\ \A j \in 1..k : v[j] = u[j]
    BY <1>1, <2>1, SMTT(30)
  <2>3. w \in Seq(Nat) /\ Len(w) = k /\ \A j \in 1..k : w[j] = s[i + j]
    BY <1>1, <2>1
  <2>. HIDE DEF v, w
  <2>4. ASSUME NEW j \in 1..k  PROVE v[j] = w[j]
    <3>1. j \in 1..Len(s) - i
      BY <1>1, <2>1
    <3>2. u[j] = s[i + j]
      BY <1>1, <3>1
    <3>. QED  BY <2>2, <2>3, <3>2
  <2>5. v = w
    BY <2>1, <2>2, <2>3, <2>4
  <2>. QED  BY <2>5 DEF v, w
<1>. QED  BY <1>1, <1>2

LEMMA RestFacts ==
    ASSUME NEW t \in Seq(Nat), NEW i \in 0..Len(t)
    PROVE  \E m \in 0..Len(t) - i :
              /\ Rest(t, i) = SubSeq(t, i + 1, i + m)
              /\ \A j \in i + 1..i + m : t[j] # NUL
              /\ i + m < Len(t) => t[i + m + 1] = NUL
<1>. DEFINE s == SubSeq(t, i + 1, Len(t))
            I == {k \in 1..Len(s) : s[k] = NUL}
            n == IF I # {} THEN Min(I) ELSE 0
<1>1. Rest(t, i) = IF n = 0 THEN s ELSE SubSeq(s, 1, n - 1)
  BY DEF Rest, SelectInSeq
<1>2. /\ Len(t) \in Nat /\ i \in Nat /\ s \in Seq(Nat) /\ Len(s) = Len(t) - i
      /\ \A k \in 1..Len(t) - i : s[k] = t[i + k]
  OBVIOUS
<1>3. I \subseteq Nat
  OBVIOUS
<1>4. CASE I = {}
  <2>1. Rest(t, i) = s
    BY <1>1, <1>4
  <2>2. \A k \in 1..Len(s) : s[k] # NUL
    BY <1>4
  <2>. HIDE DEF I, n
  <2>3. \A j \in i + 1..Len(t) : t[j] # NUL
    <3>. SUFFICES ASSUME NEW j \in i + 1..Len(t)  PROVE t[j] # NUL
      OBVIOUS
    <3>. HIDE DEF s
    <3>1. j - i \in 1..Len(t) - i /\ i + (j - i) = j
      BY <1>2
    <3>. QED  BY <1>2, <2>2, <3>1
  <2>. DEFINE m == Len(t) - i
  <2>4. m \in 0..Len(t) - i /\ i + m = Len(t) /\ ~(Len(t) < Len(t))
    BY <1>2
  <2>. HIDE DEF m
  <2>5. /\ Rest(t, i) = SubSeq(t, i + 1, i + m)
        /\ \A j \in i + 1..i + m : t[j] # NUL
        /\ ~(i + m < Len(t))
    BY <2>1, <2>3, <2>4
  <2>. QED  BY <2>4, <2>5
<1>5. CASE I # {}
  <2>1. n \in I /\ \A k \in I : n <= k
    BY <1>3, <1>5, LeastOf
  <2>2. n \in 1..Len(t) - i /\ s[n] = NUL /\ t[i + n] = NUL
    BY <1>2, <2>1
  <2>. HIDE DEF n
  <2>12. n \in 1..Len(t) - i /\ n \in Nat /\ i \in Nat /\ Len(t) \in Nat
    BY <1>2, <2>2
  <2>3. ASSUME NEW k \in 1..n - 1  PROVE s[k] # NUL
    <3>. HIDE DEF s
    <3>1. k \in 1..Len(t) - i /\ ~(n <= k)
      BY <2>12
    <3>2. k \notin I
      BY <2>1, <3>1
    <3>. QED  BY <1>2, <3>1, <3>2
  <2>. HIDE DEF I
  <2>4. ASSUME NEW j \in i + 1..i + (n - 1)  PROVE j - i \in 1..n - 1 /\ t[j] = s[j - i]
    <3>. HIDE DEF s
    <3>1. j - i \in 1..n - 1 /\ j - i \in 1..Len(t) - i /\ i + (j - i) = j
      BY <2>12
    <3>. QED  BY <1>2, <3>1
  <2>5. \A j \in i + 1..i + (n - 1) : t[j] # NUL
    BY <2>3, <2>4
  <2>6. SubSeq(s, 1, n - 1) = SubSeq(t, i + 1, i + (n - 1))
    BY <1>1, <2>12, Suffix
  <2>7. n - 1 \in 0..Len(t) - i /\ i + (n - 1) + 1 = i + n
    BY <1>2, <2>2
  <2>. DEFINE m == n - 1
  <2>8. m \in 0..Len(t) - i /\ m = n - 1 /\ i + m + 1 = i + n
    BY <2>7
  <2>. HIDE DEF m, s
  <2>9. Rest(t, i) = SubSeq(t, i + 1, i + m)
    BY <1>1, <2>2, <2>6, <2>8
  <2>10. \A j \in i + 1..i + m : t[j] # NUL
    BY <2>5, <2>8
  <2>11. t[i + m + 1] = NUL
    BY <2>2, <2>8
  <2>. QED  BY <2>8, <2>9, <2>10, <2>11
<1>. QED  BY <1>4, <1>5

(* From position i of s: where the next token begins and ends, and it.     *)
Start(s, delim, i) == i + Skip(SubSeq(s, i + 1, Len(s)), delim)
Token(s, delim, i) == Word(SubSeq(s, Start(s, delim, i) + 1, Len(s)), delim)
End(s, delim, i) == Start(s, delim, i) + Len(Token(s, delim, i))


LEMMA StartFacts ==
    ASSUME NEW s \in Seq(Nat), NEW delim, NEW i \in 0..Len(s), NEW a, a = Start(s, delim, i)
    PROVE  /\ a \in i..Len(s) /\ \A j \in i + 1..a : s[j] \in delim
           /\ a < Len(s) => s[a + 1] \notin delim
<1>. DEFINE u == SubSeq(s, i + 1, Len(s))
            n == Skip(u, delim)
<1>1. /\ Len(s) \in Nat /\ i \in Nat /\ u \in Seq(Nat) /\ Len(u) = Len(s) - i
      /\ \A k \in 1..Len(s) - i : u[k] = s[i + k]
  BY SMTT(30)
<1>2. a = i + n
  BY DEF Start
<1>. HIDE DEF u
<1>3. n \in 0..Len(u) /\ (\A k \in 1..n : u[k] \in delim) /\ (n < Len(u) => u[n + 1] \notin delim)
  BY <1>1, SkipFacts
<1>. HIDE DEF n
<1>4. \A j \in i + 1..a : j - i \in 1..n /\ s[j] = u[j - i]
  <2>. SUFFICES ASSUME NEW j \in i + 1..a  PROVE j - i \in 1..n /\ s[j] = u[j - i]
    OBVIOUS
  <2>1. j - i \in 1..n /\ j - i \in 1..Len(s) - i /\ i + (j - i) = j
    BY <1>1, <1>2, <1>3
  <2>. QED  BY <1>1, <2>1
<1>5. a \in i..Len(s)
  BY <1>1, <1>2, <1>3
<1>6. ASSUME a < Len(s)  PROVE s[a + 1] \notin delim
  <2>1. n < Len(u) /\ n + 1 \in 1..Len(s) - i /\ i + (n + 1) = a + 1
    BY <1>1, <1>2, <1>3, <1>6
  <2>. QED  BY <1>1, <1>3, <2>1
<1>. QED  BY <1>3, <1>4, <1>5, <1>6

LEMMA WordInside ==
    ASSUME NEW s \in Seq(Nat), NEW delim, NEW a \in 0..Len(s),
           NEW w, w = Word(SubSeq(s, a + 1, Len(s)), delim)
    PROVE  \E e \in a..Len(s) :
              /\ w = SubSeq(s, a + 1, e) /\ Len(w) = e - a /\ e = a + Len(w)
              /\ \A j \in a + 1..e : s[j] \notin delim
              /\ e < Len(s) => s[e + 1] \in delim
<1>. SUFFICES ASSUME NEW u, u = SubSeq(s, a + 1, Len(s)), w = Word(u, delim),
                     NEW n, n = Len(w), NEW e, e = a + n
              PROVE  /\ e \in a..Len(s) /\ w = SubSeq(s, a + 1, e) /\ n = e - a
                     /\ \A j \in a + 1..e : s[j] \notin delim
                     /\ e < Len(s) => s[e + 1] \in delim
  OBVIOUS
<1>1. Len(s) \in Nat
  OBVIOUS
<1>2. /\ u \in Seq(Nat) /\ Len(u) = Len(s) - a
      /\ \A k \in 1..Len(s) - a : u[k] = s[a + k]
      /\ \A k \in 0..Len(s) - a : SubSeq(u, 1, k) = SubSeq(s, a + 1, a + k)
  BY Suffix
<1>3. /\ n \in 0..Len(u) /\ w = SubSeq(u, 1, n) /\ \A k \in 1..n : u[k] \notin delim
      /\ n < Len(u) => u[n + 1] \in delim
  BY <1>2, WordFacts, ZenonT(30)
<1>4. n \in 0..Len(s) - a
  BY <1>2, <1>3
<1>5. /\ e \in a..Len(s) /\ e - a = n
      /\ e < Len(s) => n < Len(s) - a /\ n + 1 \in 1..Len(s) - a
      /\ a + (n + 1) = e + 1
      /\ \A j \in a + 1..e : j - a \in 1..n /\ j - a \in 1..Len(s) - a /\ a + (j - a) = j
  BY <1>1, <1>4
<1>6. w = SubSeq(s, a + 1, e)
  BY <1>2, <1>3, <1>4
<1>7. \A j \in a + 1..e : s[j] \notin delim
  <2>. SUFFICES ASSUME NEW j \in a + 1..e  PROVE s[j] \notin delim
    OBVIOUS
  <2>1. j - a \in 1..n /\ j - a \in 1..Len(s) - a /\ a + (j - a) = j
    BY <1>5
  <2>2. u[j - a] = s[a + (j - a)]
    BY <1>2, <2>1
  <2>. QED  BY <1>3, <2>1, <2>2
<1>8. ASSUME e < Len(s)  PROVE s[e + 1] \in delim
  <2>1. n < Len(u) /\ n + 1 \in 1..Len(s) - a /\ a + (n + 1) = e + 1
    BY <1>2, <1>5, <1>8
  <2>2. u[n + 1] = s[a + (n + 1)]
    BY <1>2, <2>1
  <2>. QED  BY <1>3, <2>1, <2>2
<1>. QED  BY <1>5, <1>6, <1>7, <1>8

LEMMA TokenFacts ==
    ASSUME NEW s \in Seq(Nat), NEW delim, NEW i \in 0..Len(s),
           NEW a, a = Start(s, delim, i), NEW e, e = End(s, delim, i)
    PROVE  /\ e \in a..Len(s) /\ Token(s, delim, i) = SubSeq(s, a + 1, e)
           /\ Len(Token(s, delim, i)) = e - a
           /\ \A j \in a + 1..e : s[j] \notin delim
           /\ e < Len(s) => s[e + 1] \in delim
           /\ a < Len(s) => a < e
<1>1. a \in i..Len(s) /\ (a < Len(s) => s[a + 1] \notin delim) /\ Len(s) \in Nat
  BY StartFacts
<1>2. a \in 0..Len(s)
  BY <1>1
<1>3. Token(s, delim, i) = Word(SubSeq(s, a + 1, Len(s)), delim)
      /\ e = a + Len(Token(s, delim, i))
  BY DEF Token, End
<1>4. /\ e \in a..Len(s) /\ Token(s, delim, i) = SubSeq(s, a + 1, e)
      /\ Len(Token(s, delim, i)) = e - a
      /\ \A j \in a + 1..e : s[j] \notin delim
      /\ e < Len(s) => s[e + 1] \in delim
  <2>1. PICK f \in a..Len(s) :
              /\ Token(s, delim, i) = SubSeq(s, a + 1, f)
              /\ Len(Token(s, delim, i)) = f - a /\ f = a + Len(Token(s, delim, i))
              /\ \A j \in a + 1..f : s[j] \notin delim
              /\ f < Len(s) => s[f + 1] \in delim
    BY <1>2, <1>3, WordInside, ZenonT(30)
  <2>2. e = f
    BY <1>3, <2>1
  <2>. QED  BY <2>1, <2>2
<1>5. a < Len(s) => a < e
  BY <1>1, <1>2, <1>4, SMTT(30)
<1>. QED  BY <1>4, <1>5

(***************************************************************************)
(* The maximal runs, and their order                                       *)
(***************************************************************************)
LEMMA SpanFacts ==
    ASSUME NEW s \in Seq(Nat), NEW delim, NEW r \in Spans(s, delim)
    PROVE  /\ r[1] \in 1..Len(s) /\ r[2] \in 1..Len(s) /\ r = <<r[1], r[2]>> /\ r[1] <= r[2]
           /\ \A j \in r[1]..r[2] : s[j] \notin delim
           /\ r[1] = 1 \/ s[r[1] - 1] \in delim
           /\ r[2] = Len(s) \/ s[r[2] + 1] \in delim
BY DEF Spans

LEMMA SpansOrdered ==
    ASSUME NEW s \in Seq(Nat), NEW delim, NEW q \in Spans(s, delim), NEW r \in Spans(s, delim)
    PROVE  /\ q[1] < r[1] => q[2] < r[1]
           /\ q[1] = r[1] => q = r
<1>1. Len(s) \in Nat
  OBVIOUS
<1>2. ASSUME q[1] < r[1], r[1] <= q[2]  PROVE FALSE
  <2>1. r[1] - 1 \in q[1]..q[2] /\ r[1] # 1
    BY <1>1, <1>2, SpanFacts
  <2>2. \A j \in q[1]..q[2] : s[j] \notin delim
    BY SpanFacts
  <2>3. r[1] = 1 \/ s[r[1] - 1] \in delim
    BY SpanFacts
  <2>. QED  BY <2>1, <2>2, <2>3
<1>3. ASSUME NEW x \in Spans(s, delim), NEW y \in Spans(s, delim), x[1] = y[1], x[2] < y[2]
      PROVE  FALSE
  <2>1. /\ x[1] \in 1..Len(s) /\ x[2] \in 1..Len(s) /\ y[2] \in 1..Len(s) /\ x[1] <= x[2]
        /\ \A j \in y[1]..y[2] : s[j] \notin delim
    BY SpanFacts
  <2>2. x[2] = Len(s) \/ s[x[2] + 1] \in delim
    BY SpanFacts
  <2>3. x[2] + 1 \in y[1]..y[2] /\ x[2] # Len(s)
    BY <1>1, <1>3, <2>1, SMTT(30)
  <2>. QED  BY <2>1, <2>2, <2>3
<1>4. q[1] \in Nat /\ q[2] \in Nat /\ r[1] \in Nat /\ r[2] \in Nat
  BY <1>1, SpanFacts
<1>5. q[1] = r[1] => q[2] = r[2]
  BY <1>3, <1>4
<1>6. q = <<q[1], q[2]>> /\ r = <<r[1], r[2]>>
  BY SpanFacts
<1>. QED  BY <1>2, <1>4, <1>5, <1>6

LEMMA SpansFinite ==
    ASSUME NEW s \in Seq(Nat), NEW delim
    PROVE  /\ IsFiniteSet(Spans(s, delim)) /\ Cardinality(Spans(s, delim)) \in Nat
           /\ \A S \in SUBSET Spans(s, delim) :
                 /\ IsFiniteSet(S) /\ Cardinality(S) \in Nat
                 /\ Cardinality(S) <= Cardinality(Spans(s, delim))
<1>. DEFINE N == 1..Len(s)
<1>1. IsFiniteSet(N)
  BY FS_Interval
<1>2. IsFiniteSet(N \X N)
  BY <1>1, FS_Product
<1>3. Spans(s, delim) \in SUBSET (N \X N)
  BY DEF Spans
<1>4. IsFiniteSet(Spans(s, delim))
  BY <1>2, <1>3, FS_Subset
<1>5. Cardinality(Spans(s, delim)) \in Nat
  BY <1>4, FS_CardinalityType
<1>6. \A S \in SUBSET Spans(s, delim) :
         IsFiniteSet(S) /\ Cardinality(S) <= Cardinality(Spans(s, delim))
  BY <1>4, FS_Subset
<1>7. \A S \in SUBSET Spans(s, delim) : Cardinality(S) \in Nat
  BY <1>6, FS_CardinalityType
<1>. QED  BY <1>4, <1>5, <1>6, <1>7

(* Counting those that begin no later names each.                          *)
LEMMA FieldAt ==
    ASSUME NEW s \in Seq(Nat), NEW delim, NEW r \in Spans(s, delim)
    PROVE  /\ Cardinality(UpTo(s, delim, r)) \in 1..Cardinality(Spans(s, delim))
           /\ Fields(s, delim)[Cardinality(UpTo(s, delim, r))] = SubSeq(s, r[1], r[2])
<1>. DEFINE S == Spans(s, delim)
            Upto(x) == UpTo(s, delim, x)
            k == Cardinality(Upto(r))
            nth == CHOOSE x \in S : Cardinality(Upto(x)) = k
<1>1. \A x \in S : Upto(x) \in SUBSET S /\ x \in Upto(x)
  <2>. SUFFICES ASSUME NEW x \in S  PROVE Upto(x) \in SUBSET S /\ x \in Upto(x)
    OBVIOUS
  <2>1. x[1] \in Int
    BY SpanFacts
  <2>. QED  BY <2>1 DEF UpTo
<1>2. ASSUME NEW x \in S, NEW y \in S, Cardinality(Upto(x)) = Cardinality(Upto(y)), x[1] <= y[1]
      PROVE  x = y
  <2>1. x[1] \in Int /\ y[1] \in Int
    BY SpanFacts
  <2>2. \A z \in S : z[1] \in Int
    BY SpanFacts
  <2>3. Upto(x) \subseteq Upto(y)
    BY <1>2, <2>1, <2>2 DEF UpTo
  <2>4. IsFiniteSet(Upto(y))
    BY <1>1, SpansFinite
  <2>5. Upto(x) = Upto(y)
    BY <1>2, <2>3, <2>4, FS_Subset
  <2>6. y[1] <= x[1]
    BY <1>1, <2>5 DEF UpTo
  <2>. QED  BY <1>2, <2>1, <2>6, SpansOrdered
<1>3. nth \in S /\ Cardinality(Upto(nth)) = k
  OBVIOUS
<1>4. nth = r
  <2>1. nth[1] \in Int /\ r[1] \in Int
    BY <1>3, SpanFacts
  <2>. HIDE DEF nth
  <2>2. nth[1] <= r[1] \/ r[1] <= nth[1]
    BY <2>1
  <2>. QED  BY <1>2, <1>3, <2>2
<1>5. k \in 1..Cardinality(S)
  <2>1. k \in Nat /\ k <= Cardinality(S) /\ Cardinality(S) \in Nat /\ IsFiniteSet(Upto(r))
    BY <1>1, SpansFinite
  <2>2. k # 0
    BY <1>1, <2>1, FS_EmptySet
  <2>. HIDE DEF k
  <2>. QED  BY <2>1, <2>2
<1>6. Fields(s, delim)[k] = SubSeq(s, nth[1], nth[2])
  BY <1>5 DEF Fields
<1>. QED  BY <1>4, <1>5, <1>6

(***************************************************************************)
(* A scan from a place that no run crosses finds the next one              *)
(***************************************************************************)
Boundary(s, delim, i) == i = 0 \/ i = Len(s) \/ s[i] \in delim \/ s[i + 1] \in delim
Before(s, delim, i) == {r \in Spans(s, delim) : r[2] <= i}
First(F, n) == [k \in 1..n |-> F[k]]
FirstFields(s, delim, i) == First(Fields(s, delim), Cardinality(Before(s, delim, i)))

LEMMA BeforeOrAfter ==
    ASSUME NEW s \in Seq(Nat), NEW delim, NEW i \in 0..Len(s), Boundary(s, delim, i),
           NEW a, a = Start(s, delim, i), NEW q \in Spans(s, delim), ~(q[2] <= i)
    PROVE  a < q[1]
<1>1. /\ Len(s) \in Nat /\ i \in Nat /\ a \in i..Len(s) /\ \A j \in i + 1..a : s[j] \in delim
  BY StartFacts
<1>2. /\ q[1] \in 1..Len(s) /\ q[2] \in 1..Len(s) /\ q[1] <= q[2]
      /\ \A j \in q[1]..q[2] : s[j] \notin delim
  BY SpanFacts
<1>3. ASSUME q[1] <= a, q[1] > i  PROVE FALSE
  <2>1. q[1] \in i + 1..a /\ q[1] \in q[1]..q[2]
    BY <1>1, <1>2, <1>3
  <2>. QED  BY <1>1, <1>2, <2>1
<1>4. ASSUME q[1] <= i  PROVE FALSE
  <2>1. i \in q[1]..q[2] /\ i + 1 \in q[1]..q[2] /\ i # 0 /\ i # Len(s)
    BY <1>1, <1>2, <1>4, SMTT(30)
  <2>. QED  BY <1>2, <2>1 DEF Boundary
<1>. QED  BY <1>1, <1>2, <1>3, <1>4

LEMMA NextSpan ==
    ASSUME NEW s \in Seq(Nat), NEW delim, NEW i \in 0..Len(s), Boundary(s, delim, i),
           NEW a, a = Start(s, delim, i), a < Len(s), NEW e, e = End(s, delim, i),
           NEW r, r = <<a + 1, e>>
    PROVE  /\ r \in Spans(s, delim) /\ r \notin Before(s, delim, i)
           /\ UpTo(s, delim, r) = Before(s, delim, i) \cup {r}
           /\ Before(s, delim, e) = Before(s, delim, i) \cup {r}
           /\ Boundary(s, delim, e)
           /\ e < Len(s) => /\ Boundary(s, delim, e + 1)
                            /\ Before(s, delim, e + 1) = Before(s, delim, e)
<1>1. /\ Len(s) \in Nat /\ i \in Nat /\ a \in i..Len(s) /\ s[a + 1] \notin delim
      /\ \A j \in i + 1..a : s[j] \in delim
  BY StartFacts
<1>2. /\ e \in a..Len(s) /\ a < e /\ (\A j \in a + 1..e : s[j] \notin delim)
      /\ e < Len(s) => s[e + 1] \in delim
  BY TokenFacts
<1>3. a + 1 = 1 \/ s[a] \in delim
  <2>1. CASE a = i
    BY <1>1, <2>1 DEF Boundary
  <2>2. CASE a # i
    <3>1. a \in i + 1..a
      BY <1>1, <2>2
    <3>. QED  BY <1>1, <3>1
  <2>. QED  BY <2>1, <2>2
<1>4. r \in Spans(s, delim)
  <2>1. r \in (1..Len(s)) \X (1..Len(s)) /\ r[1] = a + 1 /\ r[2] = e /\ a + 1 <= e
        /\ (a + 1) - 1 = a
    BY <1>1, <1>2
  <2>2. e = Len(s) \/ s[e + 1] \in delim
    BY <1>1, <1>2
  <2>. QED  BY <1>2, <1>3, <2>1, <2>2 DEF Spans
<1>5. r[1] = a + 1 /\ r[2] = e
  OBVIOUS
<1>6. r \notin Before(s, delim, i)
  BY <1>1, <1>2, <1>5 DEF Before
<1>7. \A q \in Spans(s, delim) :
         /\ q[1] \in 1..Len(s) /\ q[2] \in 1..Len(s) /\ q[1] <= q[2]
         /\ q[2] <= i \/ a < q[1]
         /\ q[1] = a + 1 => q = r
         /\ a + 1 < q[1] => e < q[1]
  <2>. SUFFICES ASSUME NEW q \in Spans(s, delim)
                PROVE  /\ q[1] \in 1..Len(s) /\ q[2] \in 1..Len(s) /\ q[1] <= q[2]
                       /\ q[2] <= i \/ a < q[1]
                       /\ q[1] = a + 1 => q = r
                       /\ a + 1 < q[1] => e < q[1]
    OBVIOUS
  <2>1. q[1] \in 1..Len(s) /\ q[2] \in 1..Len(s) /\ q[1] <= q[2]
    BY SpanFacts
  <2>2. q[2] <= i \/ a < q[1]
    BY BeforeOrAfter
  <2>3. (r[1] < q[1] => r[2] < q[1]) /\ (q[1] = r[1] => q = r)
    BY <1>4, SpansOrdered
  <2>. QED  BY <1>5, <2>1, <2>2, <2>3
<1>8. \A q \in Spans(s, delim) : /\ q[1] <= a + 1 <=> q[2] <= i \/ q = r
                                 /\ q[2] <= e <=> q[2] <= i \/ q = r
  <2>. SUFFICES ASSUME NEW q \in Spans(s, delim)
                PROVE  /\ q[1] <= a + 1 <=> q[2] <= i \/ q = r
                       /\ q[2] <= e <=> q[2] <= i \/ q = r
    OBVIOUS
  <2>1. /\ q[1] \in Int /\ q[2] \in Int /\ q[1] <= q[2]
        /\ q[2] <= i \/ a < q[1]
        /\ q[1] = a + 1 => q = r
        /\ a + 1 < q[1] => e < q[1]
    BY <1>7
  <2>2. i \in Int /\ a \in Int /\ e \in Int /\ i <= a /\ a < e
    BY <1>1, <1>2
  <2>3. q = r => q[1] = a + 1 /\ q[2] = e
    BY <1>5
  <2>4. CASE q = r
    BY <2>2, <2>3, <2>4
  <2>5. CASE q # r /\ q[2] <= i
    BY <2>1, <2>2, <2>5
  <2>6. CASE q # r /\ ~(q[2] <= i)
    <3>1. a + 1 < q[1]
      BY <2>1, <2>2, <2>6
    <3>. QED  BY <2>1, <2>2, <2>6, <3>1
  <2>. QED  BY <2>4, <2>5, <2>6
<1>9. /\ UpTo(s, delim, r) = Before(s, delim, i) \cup {r}
      /\ Before(s, delim, e) = Before(s, delim, i) \cup {r}
  BY <1>4, <1>5, <1>8 DEF UpTo, Before
<1>10. Boundary(s, delim, e)
  BY <1>1, <1>2 DEF Boundary
<1>11. ASSUME e < Len(s)
       PROVE  Boundary(s, delim, e + 1) /\ Before(s, delim, e + 1) = Before(s, delim, e)
  <2>1. s[e + 1] \in delim
    BY <1>2, <1>11
  <2>2. \A q \in Spans(s, delim) : q[2] <= e + 1 <=> q[2] <= e
    <3>. SUFFICES ASSUME NEW q \in Spans(s, delim), q[2] = e + 1  PROVE FALSE
      BY <1>2, <1>7
    <3>1. q[2] \in q[1]..q[2]
      BY <1>7
    <3>2. s[q[2]] \notin delim
      BY <3>1, SpanFacts
    <3>. QED  BY <2>1, <3>2
  <2>. QED  BY <2>1, <2>2 DEF Boundary, Before
<1>. QED  BY <1>4, <1>6, <1>9, <1>10, <1>11

LEMMA NoneLeft ==
    ASSUME NEW s \in Seq(Nat), NEW delim, NEW i \in 0..Len(s), Boundary(s, delim, i),
           Start(s, delim, i) = Len(s)
    PROVE  Before(s, delim, i) = Spans(s, delim)
<1>. SUFFICES ASSUME NEW q \in Spans(s, delim), ~(q[2] <= i)  PROVE FALSE
  BY DEF Before
<1>1. Len(s) < q[1]
  BY BeforeOrAfter
<1>2. q[1] \in 1..Len(s) /\ Len(s) \in Nat
  BY SpanFacts
<1>. QED  BY <1>1, <1>2

LEMMA NextField ==
    ASSUME NEW s \in Seq(Nat), NEW delim, NEW i \in 0..Len(s), Boundary(s, delim, i),
           Start(s, delim, i) < Len(s), NEW e, e = End(s, delim, i)
    PROVE  /\ Cardinality(Before(s, delim, e)) = Cardinality(Before(s, delim, i)) + 1
           /\ Cardinality(Before(s, delim, i)) + 1 <= Cardinality(Spans(s, delim))
           /\ Fields(s, delim)[Cardinality(Before(s, delim, i)) + 1] = Token(s, delim, i)
<1>. DEFINE a == Start(s, delim, i)
            r == <<a + 1, e>>
            S == Before(s, delim, i)
<1>1. /\ r \in Spans(s, delim) /\ r \notin S /\ UpTo(s, delim, r) = S \cup {r}
      /\ Before(s, delim, e) = S \cup {r}
  BY NextSpan
<1>2. Token(s, delim, i) = SubSeq(s, r[1], r[2])
  BY TokenFacts
<1>. HIDE DEF r
<1>3. IsFiniteSet(S) /\ Cardinality(S) \in Nat
  BY SpansFinite DEF Before
<1>. HIDE DEF S
<1>4. Cardinality(S \cup {r}) = Cardinality(S) + 1
  BY <1>1, <1>3, FS_AddElement
<1>. DEFINE n == Cardinality(UpTo(s, delim, r))
<1>7. n \in 1..Cardinality(Spans(s, delim)) /\ Fields(s, delim)[n] = SubSeq(s, r[1], r[2])
  BY <1>1, FieldAt
<1>8. n = Cardinality(S) + 1
  BY <1>1, <1>4
<1>. HIDE DEF n
<1>5. /\ Cardinality(S) + 1 \in 1..Cardinality(Spans(s, delim))
      /\ Fields(s, delim)[Cardinality(S) + 1] = SubSeq(s, r[1], r[2])
  BY <1>7, <1>8
<1>6. Cardinality(S) + 1 <= Cardinality(Spans(s, delim))
  BY <1>5
<1>. QED  BY <1>1, <1>2, <1>4, <1>5, <1>6 DEF S

LEMMA FirstLength == ASSUME NEW F, NEW n \in Nat PROVE Len(First(F, n)) = n
BY DEF First

LEMMA FirstAppend ==
    ASSUME NEW F, NEW n \in Nat
    PROVE  Append(First(F, n), F[n + 1]) = First(F, n + 1)
<1>. DEFINE V == {F[k] : k \in 1..n + 1}
            t == Append(First(F, n), F[n + 1])
<1>1. First(F, n) \in Seq(V) /\ F[n + 1] \in V /\ First(F, n + 1) \in Seq(V)
      /\ Len(First(F, n)) = n /\ Len(First(F, n + 1)) = n + 1
  BY DEF First
<1>. HIDE DEF V
<1>2. t \in Seq(V) /\ Len(t) = n + 1 /\ t[n + 1] = F[n + 1] /\ \A k \in 1..n : t[k] = First(F, n)[k]
  BY <1>1
<1>3. \A k \in 1..n + 1 : t[k] = First(F, n + 1)[k]
  BY <1>2 DEF First
<1>. HIDE DEF t
<1>. QED  BY <1>1, <1>2, <1>3, SeqEqual DEF t

LEMMA FirstPrefix ==
    ASSUME NEW F, NEW n \in Nat, NEW m \in 0..n
    PROVE  IsPrefix(First(F, m), First(F, n))
<1>1. /\ Len(First(F, m)) = m /\ Len(First(F, n)) = n /\ m <= n
      /\ SubSeq(First(F, m), 1, m) = First(F, m) /\ SubSeq(First(F, n), 1, m) = First(F, m)
  BY DEF First
<1>. QED  BY <1>1 DEF IsPrefix

LEMMA FirstNone ==
    ASSUME NEW s \in Seq(Nat), NEW delim
    PROVE  /\ Boundary(s, delim, 0) /\ 0 \in 0..Len(s)
           /\ Cardinality(Before(s, delim, 0)) = 0 /\ FirstFields(s, delim, 0) = <<>>
<1>1. Before(s, delim, 0) = {}
  <2>. SUFFICES ASSUME NEW r \in Spans(s, delim), r[2] <= 0  PROVE FALSE
    BY DEF Before
  <2>. QED  BY SpanFacts
<1>2. Cardinality(Before(s, delim, 0)) = 0
  BY <1>1, FS_EmptySet
<1>. QED  BY <1>2 DEF Boundary, FirstFields, First

LEMMA FieldsAll ==
    ASSUME NEW s, NEW delim
    PROVE  Fields(s, delim) = First(Fields(s, delim), Cardinality(Spans(s, delim)))
<1>. DEFINE F == Fields(s, delim)
            N == Cardinality(Spans(s, delim))
            nth(k) == CHOOSE r \in Spans(s, delim) : Cardinality(UpTo(s, delim, r)) = k
            of(k) == SubSeq(s, nth(k)[1], nth(k)[2])
<1>1. F = [k \in 1..N |-> of(k)]
  BY DEF Fields
<1>. HIDE DEF F, N, of
<1>2. F = [k \in 1..N |-> F[k]]
  BY <1>1
<1>. QED  BY <1>2 DEF First, F, N

LEMMA FirstAreFields ==
    ASSUME NEW s \in Seq(Nat), NEW delim, NEW i
    PROVE  IsPrefix(FirstFields(s, delim, i), Fields(s, delim))
<1>. DEFINE F == Fields(s, delim)
            N == Cardinality(Spans(s, delim))
            m == Cardinality(Before(s, delim, i))
<1>1. N \in Nat /\ m \in 0..N
  BY SpansFinite DEF Before
<1>2. F = First(F, N)
  BY FieldsAll
<1>3. FirstFields(s, delim, i) = First(F, m)
  BY DEF FirstFields
<1>. HIDE DEF F, N, m
<1>4. IsPrefix(First(F, m), First(F, N))
  BY <1>1, FirstPrefix
<1>5. IsPrefix(First(F, m), F)
  BY <1>2, <1>4
<1>. QED  BY <1>3, <1>5 DEF F

LEMMA FirstGrow ==
    ASSUME NEW s \in Seq(Nat), NEW delim, NEW i \in 0..Len(s), Boundary(s, delim, i),
           Start(s, delim, i) < Len(s), NEW e, e = End(s, delim, i)
    PROVE  /\ Append(FirstFields(s, delim, i), Token(s, delim, i)) = FirstFields(s, delim, e)
           /\ e < Len(s) => FirstFields(s, delim, e + 1) = FirstFields(s, delim, e)
<1>. DEFINE F == Fields(s, delim)
            n == Cardinality(Before(s, delim, i))
<1>1. /\ Cardinality(Before(s, delim, e)) = n + 1 /\ F[n + 1] = Token(s, delim, i)
      /\ n \in Nat
  BY NextField, SpansFinite, SMTT(30) DEF Before
<1>2. FirstFields(s, delim, i) = First(F, n) /\ FirstFields(s, delim, e) = First(F, n + 1)
  BY <1>1 DEF FirstFields
<1>3. e < Len(s) => Before(s, delim, e + 1) = Before(s, delim, e)
  <2>1. \A x, y : x = <<y + 1, e>> /\ y = Start(s, delim, i) =>
           (e < Len(s) => Before(s, delim, e + 1) = Before(s, delim, e))
    BY NextSpan
  <2>. QED  BY <2>1
<1>4. e < Len(s) => FirstFields(s, delim, e + 1) = FirstFields(s, delim, e)
  BY <1>3 DEF FirstFields
<1>. HIDE DEF F, n
<1>5. Append(First(F, n), F[n + 1]) = First(F, n + 1)
  BY <1>1, FirstAppend
<1>. QED  BY <1>1, <1>2, <1>4, <1>5

LEMMA FirstAll ==
    ASSUME NEW s \in Seq(Nat), NEW delim, NEW i, Before(s, delim, i) = Spans(s, delim)
    PROVE  FirstFields(s, delim, i) = Fields(s, delim)
BY FieldsAll DEF FirstFields

(***************************************************************************)
(* ft_split                                                                *)
(***************************************************************************)
(* The scan behind CutTokens.                                              *)
Scans(g, s, delim, total) ==
    \A k \in 0..total : g[k] = IF k = 0 THEN 0 ELSE End(s, delim, g[k - 1])

LEMMA ScanMeets ==
    ASSUME NEW s \in Seq(Nat), NEW delim, NEW g,
           NEW total, total = Cardinality(Spans(s, delim)), Scans(g, s, delim, total)
    PROVE  \A k \in 0..total : /\ g[k] \in 0..Len(s) /\ Boundary(s, delim, g[k])
                               /\ Cardinality(Before(s, delim, g[k])) = k
<1>. DEFINE P(k) == /\ g[k] \in 0..Len(s) /\ Boundary(s, delim, g[k])
                    /\ Cardinality(Before(s, delim, g[k])) = k
            good == {k \in Nat : k <= total => P(k)}
<1>1. total \in Nat
  BY SpansFinite
<1>2. ASSUME NEW n \in Nat, \A k \in 0..n - 1 : k \in good  PROVE n \in good
  <2>. SUFFICES ASSUME n <= total  PROVE P(n)
    OBVIOUS
  <2>1. CASE n = 0
    <3>1. g[n] = 0
      BY <1>1, <2>1 DEF Scans
    <3>. QED  BY <2>1, <3>1, FirstNone
  <2>2. CASE n # 0
    <3>1. n - 1 \in 0..n - 1 /\ n - 1 <= total /\ n \in 0..total /\ n - 1 \in Nat
      BY <1>1, <2>2
    <3>2. P(n - 1)
      BY <1>2, <3>1
    <3>3. g[n] = End(s, delim, g[n - 1])
      BY <2>2, <3>1 DEF Scans
    <3>. DEFINE i == g[n - 1]
                a == Start(s, delim, i)
    <3>4. i \in 0..Len(s) /\ Boundary(s, delim, i) /\ Cardinality(Before(s, delim, i)) = n - 1
          /\ Len(s) \in Nat
      BY <3>2
    <3>5. g[n] = End(s, delim, i)
      BY <3>3
    <3>. HIDE DEF i
    <3>6. a # Len(s)
      <4>. SUFFICES ASSUME a = Len(s)  PROVE FALSE
        OBVIOUS
      <4>1. Before(s, delim, i) = Spans(s, delim)
        BY <3>4, NoneLeft
      <4>. QED  BY <1>1, <3>1, <3>4, <4>1
    <3>7. a \in i..Len(s)
      BY <3>4, StartFacts
    <3>8. a < Len(s)
      BY <3>4, <3>6, <3>7
    <3>9. g[n] \in a..Len(s)
      BY <3>4, <3>5, TokenFacts
    <3>10. g[n] \in 0..Len(s)
      BY <3>4, <3>7, <3>9
    <3>11. Boundary(s, delim, g[n])
      <4>. DEFINE r == <<a + 1, g[n]>>
      <4>. QED  BY <3>4, <3>5, <3>8, NextSpan
    <3>12. Cardinality(Before(s, delim, g[n])) = (n - 1) + 1
      BY <3>4, <3>5, <3>8, NextField
    <3>. QED  BY <3>10, <3>11, <3>12
  <2>. QED  BY <2>1, <2>2
<1>3. Nat \subseteq good
  <2>. HIDE DEF good
  <2>. QED  BY <1>2, NoLeastMissing
<1>. QED  BY <1>1, <1>3

LEMMA ScanTokens ==
    ASSUME NEW s \in Seq(Nat), NEW delim, NEW g,
           NEW total, total = Cardinality(Spans(s, delim)), Scans(g, s, delim, total),
           NEW k \in 1..total
    PROVE  /\ Token(s, delim, g[k - 1]) # <<>>
           /\ Token(s, delim, g[k - 1]) = Fields(s, delim)[k]
<1>. DEFINE i == g[k - 1]
            a == Start(s, delim, i)
<1>1. total \in Nat /\ k - 1 \in 0..total /\ k - 1 # total /\ (k - 1) + 1 = k
  BY SpansFinite
<1>2. i \in 0..Len(s) /\ Boundary(s, delim, i) /\ Cardinality(Before(s, delim, i)) = k - 1
  BY <1>1, ScanMeets
<1>3. a # Len(s)
  BY <1>1, <1>2, NoneLeft
<1>. HIDE DEF i
<1>4. a \in i..Len(s) /\ Len(s) \in Nat
  BY <1>2, StartFacts
<1>5. a < Len(s)
  BY <1>2, <1>3, <1>4
<1>6. Len(Token(s, delim, i)) = End(s, delim, i) - a /\ End(s, delim, i) \in a..Len(s)
      /\ a < End(s, delim, i)
  BY <1>2, <1>5, TokenFacts
<1>7. Token(s, delim, i) # <<>>
  BY <1>2, <1>4, <1>6
<1>8. Fields(s, delim)[k] = Token(s, delim, i)
  BY <1>1, <1>2, <1>5, NextField
<1>. QED  BY <1>7, <1>8 DEF i

LEMMA EndType ==
    ASSUME NEW s \in Seq(Nat), NEW delim, NEW i \in 0..Len(s)
    PROVE  End(s, delim, i) \in 0..Len(s)
<1>. DEFINE a == Start(s, delim, i)
            e == End(s, delim, i)
<1>1. a \in i..Len(s) /\ Len(s) \in Nat
  BY StartFacts
<1>2. e \in a..Len(s)
  BY TokenFacts
<1>. HIDE DEF a, e
<1>3. e \in 0..Len(s)
  BY <1>1, <1>2
<1>. QED  BY <1>3 DEF e

ScanOf(g, s, delim, total) ==
    g = [k \in 0..total |-> IF k = 0 THEN 0 ELSE End(s, delim, g[k - 1])]

LEMMA ScanExists ==
    ASSUME NEW s \in Seq(Nat), NEW delim, NEW total \in Nat
    PROVE  \E g : ScanOf(g, s, delim, total)
<1>. DEFINE D == 0..total
            V == 0..Len(s)
            base == {k \in D : k = 0}
            val == [k \in base |-> 0]
            next == [k \in D \ base |-> k - 1]
            step == [k \in D \ base |-> [i \in V |-> End(s, delim, i)]]
            rank == [k \in D |-> k]
<1>1. Len(s) \in Nat /\ 0 \in V
  OBVIOUS
<1>2. step \in [D \ base -> [V -> V]]
  <2>1. [i \in V |-> End(s, delim, i)] \in [V -> V]
    BY EndType
  <2>. QED  BY <2>1
<1>3. next \in [D \ base -> D]
  OBVIOUS
<1>4. Descends(D, V, base, val, next, step, rank, total)
  <2>1. val \in [base -> V] /\ rank \in [D -> 0..total] /\ base \in SUBSET D
    BY <1>1
  <2>2. \A k \in D \ base : rank[next[k]] < rank[k]
    BY <1>3
  <2>. HIDE DEF D, V, base, val, next, step, rank
  <2>. QED  BY <1>1, <1>2, <1>3, <2>1, <2>2 DEF Descends
<1>5. PICK g \in [D -> V] : \A k \in D :
         g[k] = IF k \in base THEN val[k] ELSE step[k][g[next[k]]]
  <2>. HIDE DEF D, V, base, val, next, step, rank
  <2>. QED  BY <1>4, RecursionExists
<1>6. ASSUME NEW k \in D  PROVE g[k] = IF k = 0 THEN 0 ELSE End(s, delim, g[k - 1])
  <2>1. CASE k = 0
    BY <1>5, <2>1
  <2>2. CASE k # 0
    <3>1. next[k] = k - 1 /\ k - 1 \in D /\ g[k - 1] \in V
      BY <1>3, <2>2
    <3>2. g[k] = step[k][g[k - 1]]
      BY <1>5, <2>2, <3>1
    <3>. QED  BY <2>2, <3>1, <3>2
  <2>. QED  BY <2>1, <2>2
<1>7. g = [k \in D |-> IF k = 0 THEN 0 ELSE End(s, delim, g[k - 1])]
  BY <1>6
<1>. QED  BY <1>7 DEF ScanOf

LEMMA CutsFields ==
    ASSUME NEW s \in Seq(Nat), NEW c, NEW total, total = Cardinality(Spans(s, {c}))
    PROVE  CutTokens(s, c, total) = Fields(s, {c})
<1>. DEFINE start(i) == i + Skip(SubSeq(s, i + 1, Len(s)), {c})
            token(i) == Word(SubSeq(s, start(i) + 1, Len(s)), {c})
            behind == CHOOSE g : g = [k \in 0..total |->
                         IF k = 0 THEN 0 ELSE start(g[k - 1]) + Len(token(g[k - 1]))]
            found == {k \in 1..total : token(behind[k - 1]) # <<>>}
<1>1. total \in Nat
  BY SpansFinite
<1>2. \A i : token(i) = Token(s, {c}, i) /\ start(i) + Len(token(i)) = End(s, {c}, i)
  BY DEF Token, End, Start
<1>3. CutTokens(s, c, total) = [k \in 1..Cardinality(found) |-> token(behind[k - 1])]
  BY DEF CutTokens
<1>4. behind = [k \in 0..total |->
                   IF k = 0 THEN 0 ELSE start(behind[k - 1]) + Len(token(behind[k - 1]))]
  <2>. HIDE DEF start, token
  <2>1. PICK g : ScanOf(g, s, {c}, total)
    BY <1>1, ScanExists
  <2>2. g = [k \in 0..total |-> IF k = 0 THEN 0 ELSE End(s, {c}, g[k - 1])]
    BY <2>1 DEF ScanOf
  <2>3. \A k \in 0..total :
           (IF k = 0 THEN 0 ELSE End(s, {c}, g[k - 1])) =
           (IF k = 0 THEN 0 ELSE start(g[k - 1]) + Len(token(g[k - 1])))
    BY <1>2
  <2>4. g = [k \in 0..total |-> IF k = 0 THEN 0 ELSE start(g[k - 1]) + Len(token(g[k - 1]))]
    BY <2>2, <2>3
  <2>. QED  BY <2>4
<1>. HIDE DEF behind, start, token
<1>5. Scans(behind, s, {c}, total)
  BY <1>2, <1>4 DEF Scans
<1>6. \A k \in 1..total : token(behind[k - 1]) # <<>> /\ token(behind[k - 1]) = Fields(s, {c})[k]
  <2>. SUFFICES ASSUME NEW k \in 1..total
                PROVE  token(behind[k - 1]) # <<>> /\ token(behind[k - 1]) = Fields(s, {c})[k]
    OBVIOUS
  <2>1. Token(s, {c}, behind[k - 1]) # <<>>
        /\ Token(s, {c}, behind[k - 1]) = Fields(s, {c})[k]
    BY <1>5, ScanTokens
  <2>. QED  BY <1>2, <2>1
<1>7. Cardinality(found) = total
  <2>1. found = 1..total
    BY <1>6
  <2>2. Cardinality(1..total) = total
    BY <1>1, FS_Interval
  <2>. QED  BY <2>1, <2>2
<1>8. CutTokens(s, c, total) = First(Fields(s, {c}), total)
  BY <1>3, <1>6, <1>7 DEF First
<1>. QED  BY <1>8, FieldsAll

LEMMA SegmentsAreSpans ==
    ASSUME NEW s \in Seq(Nat), NEW c
    PROVE  CountSegments(s, c) = Cardinality(Spans(s, {c}))
<1>. DEFINE S == Spans(s, {c})
            T == {i \in DOMAIN s : s[i] # c /\ (i = 1 \/ s[i - 1] = c)}
            f == [r \in S |-> r[1]]
<1>1. DOMAIN s = 1..Len(s) /\ Len(s) \in Nat
  OBVIOUS
<1>2. \A r \in S : r[1] \in T
  <2>. SUFFICES ASSUME NEW r \in S  PROVE r[1] \in T
    OBVIOUS
  <2>1. /\ r[1] \in 1..Len(s) /\ r[2] \in 1..Len(s) /\ r[1] <= r[2]
        /\ \A j \in r[1]..r[2] : s[j] \notin {c}
        /\ r[1] = 1 \/ s[r[1] - 1] \in {c}
    BY SpanFacts
  <2>2. r[1] \in r[1]..r[2]
    BY <1>1, <2>1
  <2>. QED  BY <1>1, <2>1, <2>2
<1>3. \A q, r \in S : q[1] = r[1] => q = r
  BY SpansOrdered
<1>4. ASSUME NEW i \in T  PROVE \E r \in S : r[1] = i
  <2>. DEFINE a == Start(s, {c}, i - 1)
              e == End(s, {c}, i - 1)
              r == <<a + 1, e>>
  <2>1. i - 1 \in 0..Len(s) /\ i \in 1..Len(s) /\ s[i] # c
    BY <1>1
  <2>2. a \in i - 1..Len(s) /\ \A j \in (i - 1) + 1..a : s[j] \in {c}
    BY <2>1, StartFacts
  <2>3. a = i - 1
    <3>. HIDE DEF a
    <3>. SUFFICES ASSUME a # i - 1  PROVE i \in (i - 1) + 1..a
      BY <2>1, <2>2
    <3>. QED  BY <1>1, <2>1, <2>2
  <2>4. Boundary(s, {c}, i - 1)
    BY <1>1 DEF Boundary
  <2>5. a < Len(s) /\ a + 1 = i
    BY <1>1, <2>1, <2>3
  <2>6. r \in S
    BY <2>1, <2>4, <2>5, NextSpan
  <2>7. r[1] = i
    BY <2>5
  <2>. QED  BY <2>6, <2>7
<1>5. f \in Bijection(S, T)
  <2>. HIDE DEF S, T
  <2>1. f \in [S -> T]
    BY <1>2
  <2>2. \A q, r \in S : f[q] = f[r] => q = r
    BY <1>3
  <2>3. \A i \in T : \E r \in S : f[r] = i
    BY <1>4
  <2>4. DOMAIN f = S
    OBVIOUS
  <2>. HIDE DEF f
  <2>. QED  BY <2>1, <2>2, <2>3, <2>4 DEF IsInjective, Bijection, Injection, Surjection
<1>6. IsFiniteSet(S)
  BY SpansFinite
<1>7. Cardinality(T) = Cardinality(S)
  <2>. HIDE DEF S, T, f
  <2>. QED  BY <1>5, <1>6, FS_Bijection DEF ExistsBijection
<1>. QED  BY <1>7 DEF CountSegments

LEMMA FreedAll ==
    ASSUME NEW n \in Nat \ {0}
    PROVE  ToSet(Freed(n) \o <<0>>) = 0..n - 1
<1>. DEFINE w == [i \in 1..n - 1 |-> i]
            t == (w \o <<0>>) \o <<0>>
<1>1. w \in Seq(Nat) /\ Len(w) = n - 1 /\ <<0>> \in Seq(Nat) /\ Len(<<0>>) = 1
  OBVIOUS
<1>. HIDE DEF w
<1>2. /\ t \in Seq(Nat) /\ Len(t) = n + 1
      /\ \A k \in 1..n + 1 : t[k] = IF k <= n - 1 THEN w[k] ELSE 0
  BY <1>1
<1>. HIDE DEF t
<1>3. \A k \in 1..n + 1 : t[k] = IF k <= n - 1 THEN k ELSE 0
  BY <1>2 DEF w
<1>4. ToSet(t) = 0..n - 1
  <2>1. ToSet(t) = {t[k] : k \in 1..n + 1}
    BY <1>2 DEF ToSet
  <2>2. \A k \in 1..n + 1 : t[k] \in 0..n - 1
    BY <1>3
  <2>3. ASSUME NEW x \in 0..n - 1  PROVE \E k \in 1..n + 1 : t[k] = x
    <3>1. CASE x = 0
      BY <1>3, <3>1
    <3>2. CASE x # 0
      BY <1>3, <3>2
    <3>. QED  BY <3>1, <3>2
  <2>. QED  BY <2>1, <2>2, <2>3
<1>. QED  BY <1>4 DEF Freed, t, w

LEMMA SplitsWell ==
    ASSUME NEW s \in Seq(Nat), NEW c, NEW fails \in Int, call.fn = "split",
           call.s = s, call.c = c, call.fails = fails
    PROVE  SplitAllOrNothing
<1>. DEFINE n == Len(Fields(s, {c}))
            r == Split(s, c, fails)
<1>1. Cardinality(Spans(s, {c})) \in Nat
  BY SpansFinite
<1>2. n = Cardinality(Spans(s, {c})) /\ n \in Nat
  BY <1>1, FieldsAll, FirstLength
<1>3. CountSegments(s, c) = n /\ CountWords(s, c) = n
  BY <1>2, SegmentsAreSpans DEF CountWords
<1>4. CutTokens(s, c, n) = Fields(s, {c})
  BY <1>2, CutsFields
<1>. HIDE DEF n
<1>5. CASE fails = 0
  BY <1>2, <1>3, <1>5 DEF SplitAllOrNothing, Split, n
<1>6. CASE fails \in 1..n
  <2>1. r.result = NULL /\ r.live = {} /\ r.freed = Freed(fails) \o <<0>>
    BY <1>2, <1>3, <1>6 DEF Split
  <2>2. ToSet(r.freed) = 0..fails - 1
    BY <1>2, <1>6, <2>1, FreedAll, SMTT(30)
  <2>3. fails \in 0..n
    BY <1>2, <1>6
  <2>. HIDE DEF r
  <2>. QED  BY <1>3, <1>6, <2>1, <2>2, <2>3 DEF SplitAllOrNothing, n, r
<1>7. CASE fails # 0 /\ fails \notin 1..n
  <2>1. r.result = Fields(s, {c}) /\ r.live = 0..n
    BY <1>3, <1>4, <1>7 DEF Split
  <2>2. fails \notin 0..n
    BY <1>2, <1>7
  <2>. HIDE DEF r
  <2>. QED  BY <1>3, <1>7, <2>1, <2>2 DEF SplitAllOrNothing, n, r
<1>. QED  BY <1>5, <1>6, <1>7

(***************************************************************************)
(* ft_strtok.  What it was given is still there behind the place where it  *)
(* goes on, which no run crosses, and the words before it were returned.   *)
(***************************************************************************)
Clean(source) == \A j \in 1..Len(source) : source[j] # NUL
Holds(t, source, i) ==
    /\ i \in 0..Len(source) /\ Len(source) <= Len(t)
    /\ \A j \in i + 1..Len(source) : t[j] = source[j]
    /\ Len(source) < Len(t) => t[Len(source) + 1] = NUL

Calls ==
    [fn : {"none"}] \cup [fn : {"split"}, s : Seq(Nat), c : Nat, fails : Int] \cup
    [fn : {"strtok"}, str : Strs, delim : Delims, source : Seq(Nat),
     words : Seq(Seq(Nat)), done : BOOLEAN]

Place(place, str, delim, source, words) ==
    /\ place = <<str, place[2]>> /\ Holds(text[str], source, place[2])
    /\ Boundary(source, delim, place[2]) /\ words = FirstFields(source, delim, place[2])

StrtokInv ==
    call.fn = "strtok" =>
        /\ Clean(call.source)
        /\ IF call.done \/ lastToken = <<>> THEN call.words = Fields(call.source, call.delim)
           ELSE Place(lastToken, call.str, call.delim, call.source, call.words)

TokensInv == text \in [Strs -> Seq(Nat)] /\ call \in Calls /\ StrtokInv

LEMMA Window ==
    ASSUME NEW t \in Seq(Nat), NEW k \in Nat, NEW n \in Nat, k <= n, n <= Len(t)
    PROVE  /\ SubSeq(t, k + 1, n) \in Seq(Nat) /\ Len(SubSeq(t, k + 1, n)) = n - k
           /\ \A j \in 1..n - k : SubSeq(t, k + 1, n)[j] = t[k + j]
OBVIOUS

LEMMA HeldRest ==
    ASSUME NEW t \in Seq(Nat), NEW source \in Seq(Nat), Clean(source),
           NEW i, Holds(t, source, i), NEW k \in i..Len(source)
    PROVE  /\ Rest(t, k) = SubSeq(source, k + 1, Len(source))
           /\ Holds(t, source, k)
<1>. DEFINE n == Len(source)
<1>1. n \in Nat /\ Len(t) \in Nat /\ i \in 0..n /\ n <= Len(t)
  BY DEF Holds
<1>2. k \in 0..n /\ k \in 0..Len(t)
  BY <1>1
<1>3. /\ \A j \in k + 1..n : t[j] = source[j] /\ source[j] # NUL
      /\ n < Len(t) => t[n + 1] = NUL
  <2>1. \A j \in k + 1..n : j \in i + 1..n /\ j \in 1..n
    BY <1>1, <1>2
  <2>2. \A j \in k + 1..n : t[j] = source[j] /\ source[j] # NUL
    BY <2>1 DEF Holds, Clean
  <2>. QED  BY <2>2 DEF Holds
<1>4. PICK m \in 0..Len(t) - k : /\ Rest(t, k) = SubSeq(t, k + 1, k + m)
                                 /\ \A j \in k + 1..k + m : t[j] # NUL
                                 /\ k + m < Len(t) => t[k + m + 1] = NUL
  BY <1>2, RestFacts
<1>. HIDE DEF n
<1>5. k + m = n
  <2>1. ASSUME k + m < n  PROVE FALSE
    <3>1. k + m + 1 \in k + 1..n /\ k + m < Len(t)
      BY <1>1, <1>2, <1>4, <2>1
    <3>. QED  BY <1>3, <1>4, <3>1
  <2>2. ASSUME n < k + m  PROVE FALSE
    <3>1. n + 1 \in k + 1..k + m /\ n < Len(t)
      BY <1>1, <1>2, <1>4, <2>2
    <3>. QED  BY <1>3, <1>4, <3>1
  <2>. QED  BY <1>1, <1>2, <1>4, <2>1, <2>2
<1>6. SubSeq(t, k + 1, n) = SubSeq(source, k + 1, n)
  <2>. DEFINE x == SubSeq(t, k + 1, n)
              y == SubSeq(source, k + 1, n)
  <2>1. /\ x \in Seq(Nat) /\ Len(x) = n - k /\ \A j \in 1..n - k : x[j] = t[k + j]
        /\ y \in Seq(Nat) /\ Len(y) = n - k /\ \A j \in 1..n - k : y[j] = source[k + j]
    <3>1. n <= Len(source) /\ k <= n /\ k \in Nat
      BY <1>1, <1>2 DEF n
    <3>. QED  BY <1>1, <3>1, Window
  <2>2. ASSUME NEW j \in 1..n - k  PROVE x[j] = y[j]
    <3>1. k + j \in k + 1..n
      BY <1>1, <1>2
    <3>. HIDE DEF x, y
    <3>. QED  BY <1>3, <2>1, <3>1
  <2>. HIDE DEF x, y
  <2>3. x = y
    BY <2>1, <2>2, SeqEqual
  <2>. QED  BY <2>3 DEF x, y
<1>7. Holds(t, source, k)
  BY <1>1, <1>2, <1>3 DEF Holds, n
<1>. QED  BY <1>4, <1>5, <1>6, <1>7 DEF n

LEMMA Given ==
    ASSUME NEW t \in Seq(Nat), NEW source, source = Rest(t, 0)
    PROVE  source \in Seq(Nat) /\ Clean(source) /\ Holds(t, source, 0)
<1>1. Len(t) \in Nat /\ 0 \in 0..Len(t)
  OBVIOUS
<1>2. PICK m \in 0..Len(t) - 0 : /\ source = SubSeq(t, 0 + 1, 0 + m)
                                 /\ \A j \in 0 + 1..0 + m : t[j] # NUL
                                 /\ 0 + m < Len(t) => t[0 + m + 1] = NUL
  BY <1>1, RestFacts
<1>3. /\ m \in 0..Len(t) /\ source = SubSeq(t, 1, m)
      /\ \A j \in 1..m : t[j] # NUL
      /\ m < Len(t) => t[m + 1] = NUL
  BY <1>1, <1>2
<1>4. source \in Seq(Nat) /\ Len(source) = m /\ \A j \in 1..m : source[j] = t[j]
  BY <1>1, <1>3
<1>5. Clean(source)
  BY <1>3, <1>4 DEF Clean
<1>6. Holds(t, source, 0)
  BY <1>1, <1>3, <1>4 DEF Holds
<1>. QED  BY <1>4, <1>5, <1>6

LEMMA SourceEnds ==
    ASSUME NEW t \in Seq(Nat), NEW source \in Seq(Nat), Clean(source),
           NEW i, Holds(t, source, i), NEW e \in i..Len(source)
    PROVE  /\ e = Len(source) => e = Len(t) \/ t[e + 1] = NUL
           /\ e # Len(source) => e # Len(t) /\ t[e + 1] # NUL
<1>1. /\ Len(source) \in Nat /\ Len(t) \in Nat /\ i \in 0..Len(source) /\ Len(source) <= Len(t)
      /\ Len(source) < Len(t) => t[Len(source) + 1] = NUL
  BY DEF Holds
<1>2. ASSUME e # Len(source)  PROVE e # Len(t) /\ t[e + 1] # NUL
  <2>1. e + 1 \in i + 1..Len(source) /\ e + 1 \in 1..Len(source) /\ e # Len(t)
    BY <1>1, <1>2
  <2>2. t[e + 1] = source[e + 1] /\ source[e + 1] # NUL
    BY <2>1 DEF Holds, Clean
  <2>. QED  BY <2>1, <2>2
<1>3. ASSUME e = Len(source)  PROVE e = Len(t) \/ t[e + 1] = NUL
  BY <1>1, <1>3
<1>. QED  BY <1>2, <1>3

LEMMA TokenStep ==
    ASSUME TokensInv, NEW str \in Strs, NEW delim \in Delims,
           NEW source \in Seq(Nat), Clean(source), NEW i, Holds(text[str], source, i),
           Boundary(source, delim, i), NEW words \in Seq(Seq(Nat)),
           words = FirstFields(source, delim, i), TokenFrom(str, i, delim, source, words)
    PROVE  TokensInv' /\ CutsDelimiters
<1>. DEFINE t == text[str]
            n == Len(source)
            a == Start(source, delim, i)
            e == End(source, delim, i)
            token == Token(source, delim, i)
            found == a < n
<1>1. t \in Seq(Nat) /\ n \in Nat /\ i \in 0..n /\ n <= Len(t) /\ Len(t) \in Nat
  BY DEF TokensInv, Holds
<1>2. a \in i..n
  BY <1>1, StartFacts
<1>3. /\ e \in a..n /\ token \in Seq(Nat) /\ Len(token) = e - a
      /\ e < n => source[e + 1] \in delim
  <2>1. /\ e \in a..n /\ token = SubSeq(source, a + 1, e) /\ Len(token) = e - a
        /\ e < n => source[e + 1] \in delim
    BY <1>1, TokenFacts
  <2>2. a \in Nat /\ e \in Nat /\ a <= e /\ e <= Len(source)
    BY <1>1, <1>2, <2>1
  <2>3. token \in Seq(Nat)
    BY <2>1, <2>2, Window
  <2>. QED  BY <2>1, <2>3
<1>4. e \in i..n /\ a \in 0..n /\ e \in 0..n
  BY <1>1, <1>2, <1>3
<1>5. Rest(t, i) = SubSeq(source, i + 1, n) /\ Rest(t, a) = SubSeq(source, a + 1, n)
  <2>1. i \in i..n
    BY <1>1
  <2>. QED  BY <1>1, <1>2, <2>1, HeldRest
<1>6. i + Skip(Rest(t, i), delim) = a
  BY <1>5 DEF Start
<1>7. Word(Rest(t, a), delim) = token /\ a + Len(token) = e
  BY <1>5 DEF Token, End
<1>8. Skip(Rest(t, i), delim) < Len(Rest(t, i)) <=> found
  <2>1. Len(SubSeq(source, i + 1, n)) = n - i
    BY <1>1, Suffix
  <2>2. Skip(Rest(t, i), delim) \in Nat
    <3>. DEFINE u == SubSeq(source, i + 1, n)
    <3>1. Rest(t, i) = u
      BY <1>5
    <3>4. u \in Seq(Nat)
      BY <1>1, Suffix
    <3>5. Len(u) \in Nat
      BY <3>4
    <3>. HIDE DEF u
    <3>2. Skip(u, delim) \in 0..Len(u)
      BY <3>4, SkipFacts
    <3>. QED  BY <3>1, <3>2, <3>5
  <2>. DEFINE x == Skip(Rest(t, i), delim)
              l == Len(Rest(t, i))
  <2>3. x \in Nat /\ l = n - i /\ i + x = a
    BY <1>5, <1>6, <2>1, <2>2
  <2>. HIDE DEF a, t, x, l, n
  <2>4. x < l <=> a < n
    BY <1>1, <2>3
  <2>. QED  BY <2>4 DEF x, l
<1>9. /\ e = n => e = Len(t) \/ t[e + 1] = NUL
      /\ e # n => e # Len(t) /\ t[e + 1] # NUL
  BY <1>1, <1>4, SourceEnds
<1>. DEFINE more == Skip(Rest(t, i), delim) < Len(Rest(t, i))
            last == e = Len(t) \/ t[e + 1] = NUL
            CallIs(w, d) == call' = [fn |-> "strtok", str |-> str, delim |-> delim,
                                     source |-> source, words |-> w, done |-> d]
<1>10. /\ lastToken' = IF ~more THEN <<str, a>> ELSE IF last THEN <<>> ELSE <<str, e + 1>>
       /\ text' = IF ~more \/ last THEN text ELSE [text EXCEPT ![str][e + 1] = NUL]
       /\ CallIs(IF more THEN Append(words, token) ELSE words, ~more)
  <2>. HIDE DEF a, e, token
  <2>. QED  BY <1>6, <1>7, Zenon DEF TokenFrom
<1>11. ASSUME ~found
       PROVE  lastToken' = <<str, a>> /\ text' = text /\ CallIs(words, TRUE)
  <2>1. more = FALSE
    BY <1>8, <1>11
  <2>. HIDE DEF more, last, a, e, n, token, t
  <2>2. (~more) = TRUE
    BY <2>1
  <2>3. lastToken' = <<str, a>> /\ text' = text
    BY <1>10, <2>1
  <2>4. CallIs(words, ~more)
    BY <1>10, <2>1
  <2>. QED  BY <2>2, <2>3, <2>4
<1>12. ASSUME found, e = n
       PROVE  lastToken' = <<>> /\ text' = text /\ CallIs(Append(words, token), FALSE)
  <2>1. more = TRUE /\ last = TRUE
    BY <1>8, <1>9, <1>12
  <2>. HIDE DEF more, last, a, e, n, token, t
  <2>2. (~more) = FALSE
    BY <2>1
  <2>3. lastToken' = <<>> /\ text' = text
    BY <1>10, <2>1
  <2>4. CallIs(Append(words, token), ~more)
    BY <1>10, <2>1
  <2>. QED  BY <2>2, <2>3, <2>4
<1>13. ASSUME found, e # n
       PROVE  /\ lastToken' = <<str, e + 1>> /\ text' = [text EXCEPT ![str][e + 1] = NUL]
              /\ CallIs(Append(words, token), FALSE)
  <2>1. more = TRUE /\ last = FALSE
    BY <1>8, <1>9, <1>13
  <2>. HIDE DEF more, last, a, e, n, token, t
  <2>2. (~more) = FALSE
    BY <2>1
  <2>3. lastToken' = <<str, e + 1>> /\ text' = [text EXCEPT ![str][e + 1] = NUL]
    BY <1>10, <2>1
  <2>4. CallIs(Append(words, token), ~more)
    BY <1>10, <2>1
  <2>. QED  BY <2>2, <2>3, <2>4
<1>14. ASSUME NEW w \in Seq(Seq(Nat)), NEW d \in BOOLEAN, CallIs(w, d)
       PROVE  /\ call' \in Calls /\ call'.fn = "strtok" /\ call'.str = str
              /\ call'.delim = delim /\ call'.source = source /\ call'.words = w /\ call'.done = d
  BY <1>14 DEF Calls
<1>. HIDE DEF CallIs, more, last
<1>15. Append(words, token) \in Seq(Seq(Nat))
  BY <1>3
<1>16. found => /\ Append(words, token) = FirstFields(source, delim, e)
                /\ e < n => FirstFields(source, delim, e + 1) = FirstFields(source, delim, e)
                /\ e < n => Boundary(source, delim, e + 1)
  <2>. SUFFICES ASSUME found
                PROVE  /\ Append(words, token) = FirstFields(source, delim, e)
                       /\ e < n => FirstFields(source, delim, e + 1) = FirstFields(source, delim, e)
                       /\ e < n => Boundary(source, delim, e + 1)
    OBVIOUS
  <2>1. /\ Append(words, token) = FirstFields(source, delim, e)
        /\ e < n => FirstFields(source, delim, e + 1) = FirstFields(source, delim, e)
    BY <1>1, FirstGrow
  <2>. DEFINE r == <<a + 1, e>>
  <2>2. e < n => Boundary(source, delim, e + 1)
    BY <1>1, NextSpan
  <2>. QED  BY <2>1, <2>2
<1>. HIDE DEF t, n, a, e, token
<1>17. CASE ~found
  <2>1. a = n
    BY <1>1, <1>2, <1>17
  <2>2. words = Fields(source, delim)
    <3>1. Before(source, delim, i) = Spans(source, delim)
      BY <1>1, <2>1, NoneLeft DEF a, n
    <3>. QED  BY <3>1, FirstAll
  <2>3. text' = text /\ CallIs(words, TRUE)
    BY <1>11, <1>17
  <2>4. /\ call' \in Calls /\ call'.fn = "strtok" /\ call'.delim = delim
        /\ call'.source = source /\ call'.words = words /\ call'.done = TRUE
    BY <1>14, <2>3
  <2>. QED  BY <2>2, <2>3, <2>4 DEF TokensInv, StrtokInv, CutsDelimiters
<1>18. CASE found /\ e = n
  <2>1. Append(words, token) = Fields(source, delim)
    <3>1. Before(source, delim, n) = Spans(source, delim)
      BY SpanFacts DEF Before, n
    <3>. QED  BY <1>16, <1>18, <3>1, FirstAll
  <2>2. lastToken' = <<>> /\ text' = text /\ CallIs(Append(words, token), FALSE)
    BY <1>12, <1>18
  <2>3. /\ call' \in Calls /\ call'.fn = "strtok" /\ call'.delim = delim
        /\ call'.source = source /\ call'.words = Append(words, token)
    BY <1>14, <1>15, <2>2
  <2>. QED  BY <2>1, <2>2, <2>3 DEF TokensInv, StrtokInv, CutsDelimiters
<1>19. CASE found /\ e # n
  <2>1. e < n /\ e + 1 \in i..n /\ e + 1 \in DOMAIN t /\ e + 1 \in i + 1..n
    BY <1>1, <1>4, <1>19
  <2>2. /\ lastToken' = <<str, e + 1>> /\ text' = [text EXCEPT ![str][e + 1] = NUL]
        /\ CallIs(Append(words, token), FALSE)
    BY <1>13, <1>19
  <2>3. /\ call' \in Calls /\ call'.fn = "strtok" /\ call'.str = str /\ call'.delim = delim
        /\ call'.source = source /\ call'.words = Append(words, token) /\ call'.done = FALSE
    BY <1>14, <1>15, <2>2
  <2>4. /\ text \in [Strs -> Seq(Nat)] /\ text' = [text EXCEPT ![str] = [t EXCEPT ![e + 1] = NUL]]
    BY <2>2 DEF TokensInv, t
  <2>5. /\ [t EXCEPT ![e + 1] = NUL] \in Seq(Nat) /\ Len([t EXCEPT ![e + 1] = NUL]) = Len(t)
        /\ \A j \in DOMAIN t : [t EXCEPT ![e + 1] = NUL][j] = IF j = e + 1 THEN NUL ELSE t[j]
    BY <1>1, <2>1 DEF NUL
  <2>6. /\ text' \in [Strs -> Seq(Nat)] /\ text'[str] = [t EXCEPT ![e + 1] = NUL]
        /\ \A x \in Strs : x # str => text'[x] = text[x]
    BY <2>4, <2>5
  <2>7. Holds(t, source, e + 1)
    BY <1>1, <2>1, HeldRest DEF n, t
  <2>8. Holds(text'[str], source, e + 1)
    <3>. DEFINE u == text'[str]
    <3>1. /\ Len(u) = Len(t) /\ u \in Seq(Nat) /\ \A j \in 1..Len(t) : j # e + 1 => u[j] = t[j]
      BY <1>1, <2>5, <2>6
    <3>. HIDE DEF u
    <3>2. \A j \in (e + 1) + 1..n : j \in 1..Len(t) /\ j # e + 1
      BY <1>1, <1>4
    <3>3. n < Len(t) => n + 1 \in 1..Len(t) /\ n + 1 # e + 1
      BY <1>1, <1>4, <2>1
    <3>4. Holds(u, source, e + 1)
      BY <2>7, <3>1, <3>2, <3>3 DEF Holds, n
    <3>. QED  BY <3>4 DEF u
  <2>9. Place(lastToken, str, delim, source, Append(words, token))'
    <3>1. lastToken' = <<str, lastToken'[2]>> /\ lastToken'[2] = e + 1
      BY <2>2
    <3>. QED  BY <1>16, <1>19, <2>1, <2>8, <3>1 DEF Place
  <2>10. TokensInv'
    <3>1. lastToken' # <<>>
      BY <2>2
    <3>. QED  BY <2>3, <2>6, <2>9, <3>1 DEF TokensInv, StrtokInv
  <2>11. t[e + 1] \in delim
    <3>1. t[e + 1] = source[e + 1]
      BY <2>1 DEF Holds, t, n
    <3>. QED  BY <1>3, <2>1, <3>1
  <2>12. CutsDelimiters
    <3>. SUFFICES ASSUME NEW x \in Strs, NEW j \in DOMAIN text[x], text'[x][j] # text[x][j]
                  PROVE  text'[x][j] = NUL /\ text[x][j] \in call'.delim /\ x = call'.str
      BY DEF CutsDelimiters
    <3>1. x = str
      BY <2>6
    <3>2. j = e + 1 /\ text'[str][j] = NUL
      BY <2>5, <2>6, <3>1 DEF t
    <3>. QED  BY <2>3, <2>11, <3>1, <3>2 DEF t
  <2>. QED  BY <2>10, <2>12
<1>. QED  BY <1>17, <1>18, <1>19

LEMMA SplitCall ==
    ASSUME NEW c \in Calls, c.fn = "split"
    PROVE  c.s \in Seq(Nat) /\ c.fails \in Int
BY DEF Calls

LEMMA StrtokCall ==
    ASSUME NEW c \in Calls, c.fn = "strtok"
    PROVE  /\ c.str \in Strs /\ c.delim \in Delims /\ c.source \in Seq(Nat)
           /\ c.words \in Seq(Seq(Nat)) /\ c.done \in BOOLEAN
           /\ [c EXCEPT !.done = TRUE] \in Calls
           /\ [c EXCEPT !.done = TRUE].fn = "strtok" /\ [c EXCEPT !.done = TRUE].done = TRUE
           /\ [c EXCEPT !.done = TRUE].source = c.source
           /\ [c EXCEPT !.done = TRUE].delim = c.delim
           /\ [c EXCEPT !.done = TRUE].words = c.words
<1>1. c \in [fn : {"strtok"}, str : Strs, delim : Delims, source : Seq(Nat),
             words : Seq(Seq(Nat)), done : BOOLEAN]
  BY DEF Calls
<1>. QED  BY <1>1 DEF Calls

LEMMA StrtokStep ==
    ASSUME TokensInv, NEW str \in Strs, NEW delim \in Delims, Strtok(str, delim)
    PROVE  TokensInv' /\ CutsDelimiters
<1>. DEFINE source == Rest(text[str], 0)
<1>1. text[str] \in Seq(Nat)
  BY DEF TokensInv
<1>2. source \in Seq(Nat) /\ Clean(source) /\ Holds(text[str], source, 0)
  BY <1>1, Given
<1>3. TokenFrom(str, 0, delim, source, <<>>)
  BY DEF Strtok
<1>. HIDE DEF source
<1>4. Boundary(source, delim, 0) /\ <<>> = FirstFields(source, delim, 0) /\ <<>> \in Seq(Seq(Nat))
  BY <1>2, FirstNone
<1>. QED  BY <1>2, <1>3, <1>4, TokenStep

LEMMA StrtokNextStep ==
    ASSUME TokensInv, StrtokNext
    PROVE  TokensInv' /\ CutsDelimiters
<1>1. call \in Calls /\ call.fn = "strtok" /\ ~call.done
  BY DEF TokensInv, StrtokNext
<1>2. /\ call.str \in Strs /\ call.delim \in Delims /\ call.source \in Seq(Nat)
      /\ call.words \in Seq(Seq(Nat))
  BY <1>1, StrtokCall
<1>3. CASE lastToken = <<>>
  <2>1. call' = [call EXCEPT !.done = TRUE] /\ text' = text /\ lastToken' = lastToken
    BY <1>3 DEF StrtokNext
  <2>2. /\ call' \in Calls /\ call'.fn = "strtok" /\ call'.done = TRUE
        /\ call'.source = call.source /\ call'.delim = call.delim /\ call'.words = call.words
    BY <1>1, <2>1, StrtokCall
  <2>3. Clean(call.source) /\ call.words = Fields(call.source, call.delim)
    BY <1>1, <1>3 DEF TokensInv, StrtokInv
  <2>. QED  BY <2>1, <2>2, <2>3 DEF TokensInv, StrtokInv, CutsDelimiters
<1>4. CASE lastToken # <<>>
  <2>1. TokenFrom(lastToken[1], lastToken[2], call.delim, call.source, call.words)
    BY <1>4 DEF StrtokNext
  <2>2. Clean(call.source) /\ Place(lastToken, call.str, call.delim, call.source, call.words)
    BY <1>1, <1>4 DEF TokensInv, StrtokInv
  <2>3. lastToken[1] = call.str
    BY <2>2 DEF Place
  <2>4. TokenFrom(call.str, lastToken[2], call.delim, call.source, call.words)
    BY <2>1, <2>3
  <2>. QED  BY <1>2, <2>2, <2>4, TokenStep DEF Place
<1>. QED  BY <1>3, <1>4

LEMMA SplitTextStep ==
    ASSUME TokensAssumption, TokensInv, NEW str \in Strs, NEW c \in UNION Delims,
           NEW fails \in -1..3, SplitText(str, c, fails)
    PROVE  TokensInv' /\ CutsDelimiters
<1>. DEFINE s == Rest(text[str], 0)
<1>1. text[str] \in Seq(Nat)
  BY DEF TokensInv
<1>2. s \in Seq(Nat)
  BY <1>1, Given
<1>3. c \in Nat /\ fails \in Int
  BY DEF TokensAssumption
<1>4. call' = [fn |-> "split", s |-> s, c |-> c, fails |-> fails] /\ text' = text
  BY DEF SplitText
<1>. HIDE DEF s
<1>5. call' \in Calls /\ call'.fn = "split"
  BY <1>2, <1>3, <1>4 DEF Calls
<1>. QED  BY <1>4, <1>5 DEF TokensInv, StrtokInv, CutsDelimiters

LEMMA TokensStart == ASSUME TokensAssumption, TokensInit PROVE TokensInv
<1>1. text \in [Strs -> Seq(Nat)]
  BY DEF TokensAssumption, TokensInit
<1>2. call \in Calls /\ call.fn = "none"
  BY DEF TokensInit, TokensStarted, Calls
<1>. QED  BY <1>1, <1>2 DEF TokensInv, StrtokInv

LEMMA TokensNextStep ==
    ASSUME TokensAssumption, TokensInv, [TokensNext]_tokenVars
    PROVE  TokensInv' /\ [CutsDelimiters]_tokenVars
<1>1. ASSUME NEW str \in Strs, NEW delim \in Delims, Strtok(str, delim)
      PROVE  TokensInv' /\ CutsDelimiters
  BY <1>1, StrtokStep
<1>2. ASSUME StrtokNext  PROVE TokensInv' /\ CutsDelimiters
  BY <1>2, StrtokNextStep
<1>3. ASSUME NEW str \in Strs, NEW c \in UNION Delims, NEW fails \in -1..3,
             SplitText(str, c, fails)
      PROVE  TokensInv' /\ CutsDelimiters
  BY <1>3, SplitTextStep
<1>4. CASE UNCHANGED tokenVars
  <2>1. text' = text /\ lastToken' = lastToken /\ call' = call
    BY <1>4 DEF tokenVars
  <2>2. StrtokInv' <=> StrtokInv
    BY <2>1 DEF StrtokInv, Place
  <2>. QED  BY <1>4, <2>1, <2>2 DEF TokensInv
<1>. QED  BY <1>1, <1>2, <1>3, <1>4 DEF TokensNext

LEMMA TokensInvEver ==
    ASSUME TokensAssumption
    PROVE  TokensSpec => [](TokensInv) /\ [][CutsDelimiters]_tokenVars
<1>1. TokensInit => TokensInv
  BY TokensStart
<1>2. TokensInv /\ [TokensNext]_tokenVars => TokensInv' /\ [CutsDelimiters]_tokenVars
  BY TokensNextStep
<1>. QED  BY <1>1, <1>2, PTL DEF TokensSpec

LEMMA WholeIsPrefix ==
    ASSUME NEW s \in Seq(Nat), NEW delim
    PROVE  IsPrefix(Fields(s, delim), Fields(s, delim))
<1>. DEFINE N == Cardinality(Spans(s, delim))
<1>1. N \in Nat /\ N \in 0..N
  BY SpansFinite
<1>. HIDE DEF N
<1>2. IsPrefix(First(Fields(s, delim), N), First(Fields(s, delim), N))
  BY <1>1, FirstPrefix
<1>. QED  BY <1>2, FieldsAll DEF N

LEMMA InvInOrder == TokensInv => TokensInOrder
<1>. SUFFICES ASSUME TokensInv  PROVE TokensInOrder
  OBVIOUS
<1>1. StrtokInOrder
  <2>. SUFFICES ASSUME call.fn = "strtok"
                PROVE  /\ IsPrefix(call.words, Fields(call.source, call.delim))
                       /\ call.done => call.words = Fields(call.source, call.delim)
    BY DEF StrtokInOrder
  <2>1. call.source \in Seq(Nat)
    BY StrtokCall DEF TokensInv
  <2>2. CASE call.done \/ lastToken = <<>>
    BY <2>1, <2>2, WholeIsPrefix DEF TokensInv, StrtokInv
  <2>3. CASE ~(call.done \/ lastToken = <<>>)
    BY <2>1, <2>3, FirstAreFields DEF TokensInv, StrtokInv, Place
  <2>. QED  BY <2>2, <2>3
<1>2. SplitAllOrNothing
  <2>1. CASE call.fn = "split"
    <3>1. call.s \in Seq(Nat) /\ call.fails \in Int
      BY <2>1, SplitCall DEF TokensInv
    <3>. QED  BY <2>1, <3>1, SplitsWell
  <2>2. CASE call.fn # "split"
    BY <2>2 DEF SplitAllOrNothing
  <2>. QED  BY <2>1, <2>2
<1>. QED  BY <1>1, <1>2 DEF TokensInOrder

(* ft_strtok and ft_split return the words of the string that they were    *)
(* given, in order and all of them, or nothing: whatever the strings and   *)
(* the delimiters are, and however the calls to ft_strtok follow.          *)
THEOREM TokensAlwaysInOrder == ASSUME TokensAssumption PROVE TokensSpec => []TokensInOrder
<1>1. TokensInv => TokensInOrder
  BY InvInOrder
<1>2. TokensSpec => []TokensInv
  BY TokensInvEver, PTL
<1>. QED  BY <1>1, <1>2, PTL

(* Neither static variable mixes what belongs to two callers: a call of    *)
(* get_next_line changes nothing that is kept for another descriptor, and  *)
(* one of ft_strtok writes only over delimiters of the string it is in.    *)
THEOREM CallsAlwaysApart ==
    ASSUME LinesAssumption, TokensAssumption
    PROVE  LinesSpec /\ TokensSpec => CallsKeepApart
<1>1. LinesSpec => OthersUntouched
  BY OthersAlwaysUntouched
<1>2. TokensSpec => [][CutsDelimiters]_tokenVars
  BY TokensInvEver, PTL
<1>. QED  BY <1>1, <1>2 DEF CallsKeepApart, OnlyDelimitersGo

(***************************************************************************)
(* The memory tracker                                                      *)
(***************************************************************************)
TrackerType ==
    /\ ptrs \in Seq(Blocks) \cup {NULL}
    /\ count \in Nat /\ capacity \in Nat
    /\ live \subseteq Blocks
    /\ growthFailed \in BOOLEAN /\ faulted \in BOOLEAN

(* The array is null only before it is first needed, and holds each block  *)
(* at one place.                                                           *)
ArrayInv ==
    /\ ~faulted
    /\ count = Len(Pointers) /\ count <= capacity
    /\ ptrs = NULL => capacity = 0
    /\ live = {Pointers[i] : i \in 1..count}
    /\ \A i, j \in 1..count : Pointers[i] = Pointers[j] => i = j

TrackerInv == TrackerType /\ (~growthFailed => ArrayInv)

LEMMA PointersType ==
    ASSUME TrackerAssumption, TrackerType
    PROVE  Pointers \in Seq(Blocks)
BY DEF TrackerType, Pointers

(* Appending a block that is not live keeps the array without repetition.  *)
LEMMA AppendedOnce ==
    ASSUME NEW s \in Seq(Blocks), NEW ptr \in Blocks,
           \A i, j \in 1..Len(s) : s[i] = s[j] => i = j,
           ptr \notin {s[i] : i \in 1..Len(s)}
    PROVE  LET t == Append(s, ptr)
           IN  /\ t \in Seq(Blocks) /\ Len(t) = Len(s) + 1
               /\ {t[i] : i \in 1..Len(t)} = {s[i] : i \in 1..Len(s)} \cup {ptr}
               /\ \A i, j \in 1..Len(t) : t[i] = t[j] => i = j
<1>. DEFINE t == Append(s, ptr)
           n == Len(s)
<1>1. t \in Seq(Blocks) /\ Len(t) = n + 1 /\ n \in Nat
  OBVIOUS
<1>2. t[n + 1] = ptr /\ \A i \in 1..n : t[i] = s[i]
  OBVIOUS
<1>3. 1..Len(t) = 1..n \cup {n + 1}
  BY <1>1
<1>. HIDE DEF t
<1>4. {t[i] : i \in 1..Len(t)} = {s[i] : i \in 1..n} \cup {ptr}
  <2>1. {t[i] : i \in 1..Len(t)} = {t[i] : i \in 1..n} \cup {t[n + 1]}
    BY <1>3
  <2>2. {t[i] : i \in 1..n} = {s[i] : i \in 1..n}
    BY <1>2
  <2>. QED  BY <2>1, <2>2, <1>2
<1>5. \A i, j \in 1..Len(t) : t[i] = t[j] => i = j
  BY <1>2, <1>3
<1>. QED  BY <1>1, <1>4, <1>5 DEF t

LEMMA InitTrackerInv == ASSUME TrackerAssumption, TrackerInit PROVE TrackerInv
<1>1. TrackerType
  BY DEF TrackerInit, TrackerType
<1>2. Pointers = <<>> /\ Len(Pointers) = 0
  BY DEF TrackerInit, Pointers
<1>3. 1..count = {}
  BY DEF TrackerInit
<1>4. /\ count = Len(Pointers) /\ count <= capacity
      /\ ptrs = NULL => capacity = 0
  BY <1>2 DEF TrackerInit
<1>5. ~faulted
  BY DEF TrackerInit
<1>6. live = {Pointers[i] : i \in 1..count}
  BY <1>3 DEF TrackerInit
<1>7. \A i, j \in 1..count : Pointers[i] = Pointers[j] => i = j
  BY <1>3
<1>. QED  BY <1>1, <1>4, <1>5, <1>6, <1>7 DEF TrackerInv, ArrayInv

(* One more block: into a slot that is free, into an array that grows, or  *)
(* lost because it cannot grow.                                            *)
LEMMA SafeMallocKeepsTrackerInv ==
    ASSUME TrackerAssumption, TrackerInv, NEW ptr \in Blocks, NEW grows \in BOOLEAN,
           SafeMalloc(ptr, grows)
    PROVE  TrackerInv'
<1>. USE DEF TrackerInv
<1>1. Pointers \in Seq(Blocks)
  BY PointersType
<1>2. Grown \in Nat /\ (~growthFailed /\ ~(count < capacity) => count + 1 <= Grown)
  BY DEF Grown, TrackerType, ArrayInv, TrackerAssumption
<1>3. TrackerType'
  <2>1. ptrs' \in Seq(Blocks) \cup {NULL}
    BY <1>1 DEF SafeMalloc, TrackerType, Pointers
  <2>2. count' \in Nat /\ capacity' \in Nat
    BY <1>2 DEF SafeMalloc, TrackerType
  <2>. QED  BY <2>1, <2>2 DEF SafeMalloc, TrackerType
<1>4. ASSUME ~growthFailed' PROVE ArrayInv'
  <2>1. ~growthFailed /\ ArrayInv
    BY <1>4 DEF SafeMalloc, TrackerType
  <2>2. /\ ptrs' = Append(Pointers, ptr) /\ count' = count + 1
        /\ ~faulted' /\ count + 1 <= capacity'
    <3>1. CASE count < capacity
      <4>1. ptrs # NULL
        BY <2>1, <3>1 DEF ArrayInv, TrackerType
      <4>2. ptrs' = Append(ptrs, ptr) /\ count' = count + 1 /\ capacity' = capacity
        BY <3>1, <4>1 DEF SafeMalloc
      <4>3. faulted' = faulted
        BY <3>1, <4>1 DEF SafeMalloc
      <4>4. count + 1 <= capacity
        BY <3>1 DEF TrackerType
      <4>. QED  BY <2>1, <4>1, <4>2, <4>3, <4>4 DEF Pointers, ArrayInv
    <3>2. CASE ~(count < capacity)
      <4>1. grows
        BY <1>4, <3>2 DEF SafeMalloc
      <4>2. ptrs' = Append(Pointers, ptr) /\ count' = count + 1 /\ capacity' = Grown
        BY <3>2, <4>1 DEF SafeMalloc
      <4>3. faulted' = faulted
        BY <3>2 DEF SafeMalloc
      <4>4. count + 1 <= Grown
        BY <1>2, <2>1, <3>2
      <4>. QED  BY <2>1, <4>2, <4>3, <4>4 DEF ArrayInv
    <3>. QED  BY <3>1, <3>2
  <2>3. ptr \notin live /\ live' = live \cup {ptr}
    BY DEF SafeMalloc
  <2>. DEFINE t == Append(Pointers, ptr)
  <2>4. /\ t \in Seq(Blocks) /\ Len(t) = Len(Pointers) + 1
        /\ {t[i] : i \in 1..Len(t)} = {Pointers[i] : i \in 1..Len(Pointers)} \cup {ptr}
        /\ \A i, j \in 1..Len(t) : t[i] = t[j] => i = j
    <3>1. \A i, j \in 1..Len(Pointers) : Pointers[i] = Pointers[j] => i = j
      BY <2>1 DEF ArrayInv
    <3>2. ptr \notin {Pointers[i] : i \in 1..Len(Pointers)}
      BY <2>1, <2>3 DEF ArrayInv
    <3>. QED  BY <1>1, <3>1, <3>2, AppendedOnce
  <2>. HIDE DEF t
  <2>5. ptrs' = t /\ t # NULL
    BY <2>2, <2>4 DEF t, TrackerAssumption
  <2>6. Pointers' = t
    BY <2>5 DEF Pointers
  <2>7. count' = Len(t)
    BY <2>1, <2>2, <2>4 DEF ArrayInv
  <2>8. live' = {t[i] : i \in 1..Len(t)}
    BY <2>1, <2>3, <2>4 DEF ArrayInv
  <2>. QED  BY <2>2, <2>4, <2>5, <2>6, <2>7, <2>8 DEF ArrayInv
<1>. QED  BY <1>3, <1>4

(* cleanup_all leaves what init_tracker leaves; unless a realloc has       *)
(* failed, it never finds blocks counted in a null array.                  *)
LEMMA CleanupKeepsTrackerInv ==
    ASSUME TrackerAssumption, TrackerInv, CleanupAll
    PROVE  TrackerInv'
<1>1. TrackerType'
  <2>. USE DEF TrackerInv, TrackerType
  <2>1. CASE count > 0 /\ ptrs = NULL
    <3>1. faulted' = TRUE
      BY <2>1 DEF CleanupAll
    <3>2. UNCHANGED <<ptrs, count, capacity, live, growthFailed>>
      BY <2>1 DEF CleanupAll
    <3>. QED  BY <3>1, <3>2
  <2>2. CASE ~(count > 0 /\ ptrs = NULL)
    <3>1. ptrs' = NULL /\ count' = 0 /\ capacity' = 0
      BY <2>2 DEF CleanupAll
    <3>2. live' \subseteq live
      BY <2>2 DEF CleanupAll
    <3>3. growthFailed' = growthFailed /\ faulted' = faulted
      BY <2>2 DEF CleanupAll
    <3>. QED  BY <3>1, <3>2, <3>3
  <2>. QED  BY <2>1, <2>2
<1>2. ASSUME ~growthFailed' PROVE ArrayInv'
  <2>1. ~growthFailed /\ ArrayInv
    BY <1>2 DEF TrackerInv, CleanupAll
  <2>2. ~(count > 0 /\ ptrs = NULL)
    BY <2>1 DEF ArrayInv, TrackerInv, TrackerType
  <2>3. /\ ptrs' = NULL /\ count' = 0 /\ capacity' = 0 /\ ~faulted'
        /\ live' = live \ {Pointers[i] : i \in 1..count}
    BY <2>1, <2>2 DEF CleanupAll, ArrayInv
  <2>4. live' = {} /\ Pointers' = <<>>
    BY <2>1, <2>3 DEF ArrayInv, Pointers
  <2>. QED  BY <2>3, <2>4 DEF ArrayInv
<1>. QED  BY <1>1, <1>2 DEF TrackerInv

(* An array without repetition has as many blocks as slots in use.         *)
LEMMA LiveCounted ==
    ASSUME TrackerAssumption, TrackerType, ArrayInv
    PROVE  Cardinality(live) = count
<1>. DEFINE f == [i \in 1..count |-> Pointers[i]]
<1>1. count \in Nat
  BY DEF TrackerType
<1>2. f \in Bijection(1..count, live)
  <2>1. f \in [1..count -> live]
    BY DEF ArrayInv
  <2>2. \A i, j \in 1..count : f[i] = f[j] => i = j
    BY DEF ArrayInv
  <2>3. \A p \in live : \E i \in 1..count : f[i] = p
    BY DEF ArrayInv
  <2>. QED  BY <2>1, <2>2, <2>3 DEF Bijection, Injection, Surjection, IsInjective
<1>3. ExistsBijection(1..count, live)
  BY <1>2 DEF ExistsBijection
<1>. QED  BY <1>1, <1>3, FS_CountingElements

(* Unless realloc has failed, every block is in the array, at one place,   *)
(* so that cleanup_all frees each of them, and each once.                  *)
THEOREM TracksAllBlocks == ASSUME TrackerAssumption PROVE TrackerSpec => []TracksAll
<1>1. TrackerInit => TrackerInv
  BY InitTrackerInv
<1>2. TrackerInv /\ [TrackerNext]_trackerVars => TrackerInv'
  <2>. SUFFICES ASSUME TrackerInv, [TrackerNext]_trackerVars PROVE TrackerInv'
    OBVIOUS
  <2>1. ASSUME NEW ptr \in Blocks, NEW grows \in BOOLEAN, SafeMalloc(ptr, grows) PROVE TrackerInv'
    BY <2>1, SafeMallocKeepsTrackerInv
  <2>2. CASE CleanupAll
    BY <2>2, CleanupKeepsTrackerInv
  <2>3. CASE UNCHANGED trackerVars
    BY <2>3 DEF trackerVars, TrackerInv, TrackerType, ArrayInv, Pointers
  <2>. QED  BY <2>1, <2>2, <2>3 DEF TrackerNext
<1>3. TrackerInv => TracksAll
  BY LiveCounted DEF TrackerInv, ArrayInv, TracksAll
<1>. QED  BY <1>1, <1>2, <1>3, PTL DEF TrackerSpec
=============================================================================
