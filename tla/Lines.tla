------------------------------- MODULE Lines --------------------------------
(***************************************************************************)
(* get_next_line: the lines of several descriptors, read in chunks of at   *)
(* most BUFFER_SIZE bytes; what a chunk holds behind a newline is kept in  *)
(* the descriptor's node until the next call.                              *)
(***************************************************************************)
EXTENDS Integers, Sequences, FiniteSets, SequencesExt, FiniteSetsExt, Null

CONSTANTS
    Fds,              \* open descriptors
    Files,            \* what can be read from one, as sequences of bytes
    BUFFER_SIZE

NEWLINE == 10

LinesAssumption ==
    /\ BUFFER_SIZE \in Nat \ {0}
    /\ IsFiniteSet(Fds) /\ Files \subseteq Seq(Nat)
    /\ NULL \notin Fds \cup Seq(Nat) \cup [fd : Fds, memory : Seq(Nat) \cup {NULL}]

VARIABLES
    file, unread,     \* of each descriptor: its bytes, those not yet read
    fdList,           \* the nodes, the newest first
    reading,          \* the call in progress: its fd and memory, NULL between calls
    given,            \* of each descriptor: the lines that were returned
    ended,            \*   and whether NULL was
    failed,           \* the descriptors of which a call met a failure
    blocks            \* how many blocks of bytes are allocated

lineVars == <<file, unread, fdList, reading, given, ended, failed, blocks>>

HasNode(fd) == \E k \in DOMAIN fdList : fdList[k].fd = fd
NodeOf(fd) == fdList[CHOOSE k \in DOMAIN fdList : fdList[k].fd = fd]
Kept(fd) == IF HasNode(fd) THEN NodeOf(fd).memory ELSE NULL

(* Mutant: the nodes in front of it go too.                                *)
Without_FromHead(fd) ==
    LET n == SelectInSeq(fdList, LAMBDA node : node.fd = fd)
    IN  SubSeq(fdList, n + 1, Len(fdList))

Without(fd) == RemoveFirstMatch(fdList, LAMBDA node : node.fd = fd)
Keeping(fd, memory) ==
    [k \in DOMAIN fdList |-> IF fdList[k].fd = fd THEN [fd |-> fd, memory |-> memory]
                             ELSE fdList[k]]

(* What a C string makes of bytes, and a joined string of no string at all.*)
AsString(bytes) == LET i == SelectInSeq(bytes, LAMBDA b : b = NUL)
                   IN  IF i = 0 THEN bytes ELSE SubSeq(bytes, 1, i - 1)
Bytes(memory) == IF memory = NULL THEN <<>> ELSE memory
NewlineAt(s) == SelectInSeq(s, LAMBDA b : b = NEWLINE)
Block(memory) == IF memory = NULL THEN 0 ELSE 1

LinesStarted ==
    /\ unread = file
    /\ fdList = <<>>
    /\ reading = NULL
    /\ given = [fd \in Fds |-> <<>>]
    /\ ended = [fd \in Fds |-> FALSE]
    /\ failed = {}
    /\ blocks = 0
LinesInit == file \in [Fds -> Files] /\ LinesStarted

(* Mutant: the kept block is not freed.                                    *)
ReturnNull_KeepsMemory(fd, memory) ==
    /\ fdList' = Without(fd)
    /\ reading' = NULL
    /\ ended' = [ended EXCEPT ![fd] = TRUE]
    /\ UNCHANGED <<given, blocks>>

(* NULL is returned and the node, if there is one, freed with memory.      *)
ReturnNull(fd, memory) ==
    /\ fdList' = Without(fd)
    /\ reading' = NULL
    /\ ended' = [ended EXCEPT ![fd] = TRUE]
    /\ blocks' = blocks - Block(memory)
    /\ UNCHANGED given

(* The same, after fd_node->memory was overwritten by NULL: the block that *)
(* it, or memory in ft_store_chunks, pointed to stays allocated.           *)
GiveUp(fd) == ReturnNull(fd, NULL) /\ failed' = failed \cup {fd}

----------------------------------------------------------------------------
GetNextLine(fd) ==
    /\ reading = NULL
    /\ reading' = [fd |-> fd, memory |-> Kept(fd)]
    /\ fdList' = IF HasNode(fd) THEN fdList ELSE <<[fd |-> fd, memory |-> NULL]>> \o fdList
    /\ UNCHANGED <<file, unread, given, ended, failed, blocks>>

(* malloc fails for the node, or for the buffer.                           *)
GetNextLineFails(fd) == reading = NULL /\ GiveUp(fd) /\ UNCHANGED <<file, unread>>

WantsMore == reading # NULL /\ NewlineAt(Bytes(reading.memory)) = 0

(* The joined string replaces memory, unless malloc fails for it.          *)
ReadChunk(n) ==
    /\ WantsMore
    /\ n <= Len(unread[reading.fd])
    /\ unread' = [unread EXCEPT ![reading.fd] = SubSeq(@, n + 1, Len(@))]
    /\ \/ /\ reading' = [reading EXCEPT !.memory = Bytes(reading.memory)
                            \o AsString(SubSeq(unread[reading.fd], 1, n))]
          /\ blocks' = blocks + 1 - Block(reading.memory)
          /\ UNCHANGED <<fdList, given, ended, failed>>
       \/ GiveUp(reading.fd)
    /\ UNCHANGED file

ReadError == WantsMore /\ GiveUp(reading.fd) /\ UNCHANGED <<file, unread>>

(* There is a newline, or nothing left to read.                            *)
LineReady == reading # NULL /\ (WantsMore => unread[reading.fd] = <<>>)
LineLength == IF WantsMore THEN Len(Bytes(reading.memory)) ELSE NewlineAt(reading.memory)
Line == SubSeq(Bytes(reading.memory), 1, LineLength)

(* Mutant: the first character behind the newline is lost.                 *)
Leftover_OnePast ==
    IF WantsMore THEN NULL ELSE SubSeq(reading.memory, LineLength + 2, Len(reading.memory))

Leftover == IF WantsMore THEN NULL
            ELSE SubSeq(reading.memory, LineLength + 1, Len(reading.memory))

GiveLine(leftover) ==
    /\ given' = [given EXCEPT ![reading.fd] = Append(@, Line)]
    /\ fdList' = Keeping(reading.fd, leftover)
    /\ reading' = NULL
    /\ blocks' = blocks - 1 + Block(leftover)
    /\ UNCHANGED ended

Return ==
    /\ LineReady
    /\ IF Line = <<>> THEN ReturnNull(reading.fd, reading.memory) ELSE GiveLine(Leftover)
    /\ UNCHANGED <<file, unread, failed>>

(* malloc fails for the line, which goes with the rest, or for the rest.   *)
LineFails ==
    /\ LineReady /\ Line # <<>>
    /\ ReturnNull(reading.fd, reading.memory)
    /\ failed' = failed \cup {reading.fd}
    /\ UNCHANGED <<file, unread>>

LeftoverFails ==
    /\ LineReady /\ Leftover # NULL
    /\ GiveLine(NULL)
    /\ failed' = failed \cup {reading.fd}
    /\ UNCHANGED <<file, unread>>

LinesNext ==
    \/ \E fd \in Fds : GetNextLine(fd) \/ GetNextLineFails(fd)
    \/ \E n \in 1..BUFFER_SIZE : ReadChunk(n)
    \/ ReadError
    \/ Return
    \/ LineFails
    \/ LeftoverFails

LinesSpec == LinesInit /\ [][LinesNext]_lineVars

----------------------------------------------------------------------------
IsText(fd) == NUL \notin ToSet(file[fd])
Held(fd) == IF reading # NULL /\ reading.fd = fd THEN Bytes(reading.memory) ELSE Bytes(Kept(fd))

(* However the reads cut the file: the lines that were returned, what is   *)
(* kept and what is unread are the file, of a descriptor without failures, *)
(* and when NULL is returned all of it has been.  A NUL costs the rest of  *)
(* its chunk.                                                              *)
NothingLost ==
    \A fd \in Fds \ failed :
        IsText(fd) => /\ FlattenSeq(given[fd]) \o Held(fd) \o unread[fd] = file[fd]
                      /\ ended[fd] => FlattenSeq(given[fd]) = file[fd]

(* Every line ends with its only newline; the last may have none, and then *)
(* nothing follows.  This holds through all failures, except that a line   *)
(* may lack its beginning.                                                 *)
LinesEndOnce ==
    \A fd \in Fds : \A k \in DOMAIN given[fd] :
        LET line == given[fd][k]
        IN  IF NewlineAt(line) = 0 THEN line # <<>> /\ unread[fd] = <<>> /\ k = Len(given[fd])
            ELSE NewlineAt(line) = Len(line)

(* However the reads cut a file and the calls for other files interleave,  *)
(* get_next_line returns its bytes, in order, cut behind each newline.     *)
LinesAreTheFile == NothingLost /\ LinesEndOnce

(* A descriptor has one node, and every block that is allocated is the     *)
(* memory of a node or of the call in progress, until a failure loses one. *)
NothingLeaks ==
    LET held == {fd \in Fds : IF reading # NULL /\ reading.fd = fd THEN reading.memory # NULL
                              ELSE Kept(fd) # NULL}
    IN  /\ \A j, k \in DOMAIN fdList : fdList[j].fd = fdList[k].fd => j = k
        /\ blocks >= Cardinality(held)
        /\ failed = {} => blocks = Cardinality(held)

Node(fd) == IF HasNode(fd) THEN NodeOf(fd) ELSE NULL

(* A step takes from, gives for and keeps for one descriptor at most.      *)
TouchesOne ==
    LET touched == {fd \in Fds : \/ unread'[fd] # unread[fd]
                                 \/ given'[fd] # given[fd]
                                 \/ Node(fd)' # Node(fd)}
    IN  /\ Cardinality(touched) <= 1
        /\ reading # NULL => touched \subseteq {reading.fd}

(* A call touches nothing that is kept for another descriptor, whether it  *)
(* fails or not, and takes nothing from it.                                *)
OthersUntouched == [][TouchesOne]_lineVars
=============================================================================
