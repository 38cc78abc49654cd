------------------------------ MODULE Library -------------------------------
(***************************************************************************)
(* libft, the library both programs are linked with, and the formatter of  *)
(* their log lines, driven by callers that make any legal sequence of      *)
(* calls.  The parts share no state, so a behaviour is about one of them;  *)
(* the others are left as they start.                                      *)
(***************************************************************************)
EXTENDS Statics, LogFormatter

CONSTANTS
    Addresses, Data, Indices, Slots, Capacities, Largest,
    VECTOR_INITIAL_CAPACITY, VECTOR_GROWTH_FACTOR,
    Numbers, ListArrays, Positions,                     \* the containers
    Words, Needles, Lengths, MEMORY, SIZE_BITS, CodePoints,      \* Strings
    BITS, LONG_BITS, Operands, Numerals, Bases, Garbage,        \* Numbers
    Processes,                                          \* Arguments
    SortArrays, RUN, INTRO_RUN, HYBRID_SMALL, CHUNK_COUNT, K,   \* Sorting
    FlagOrders, Widths, Precisions, Stars, Ints, Unsigneds, Texts, STAR   \* Printf

VARIABLES
    part,                                       \* the part that is called
    dllHeap, dll, dllCall, clHeap, cl, clCall, queueHeap, queue, queueCall,
    vector, stray, vectorCall, lstHeap, head, lstCall,
    array, sort, starved, tag_to_value,
    specs

dllVars == <<dllHeap, dll, dllCall>>
clVars == <<clHeap, cl, clCall>>
queueVars == <<queueHeap, queue, queueCall>>
vectorVars == <<vector, stray, vectorCall>>
lstVars == <<lstHeap, head, lstCall>>
boxVars == <<dllVars, clVars, queueVars, vectorVars, lstVars>>
textVars == <<text, lastToken>>      \* call is that of Tokens, Strings, Numbers
sortVars == <<array, sort, starved, tag_to_value>>
otherVars == <<lineVars, trackerVars, textVars, call, sortVars, specs, logVars>>
vars == <<part, boxVars, otherVars>>

Doubly == INSTANCE DoublyList WITH heap <- dllHeap, list <- dll, call <- dllCall
Circular == INSTANCE CircularList WITH heap <- clHeap, list <- cl, call <- clCall
Fifo == INSTANCE Queue WITH heap <- queueHeap, call <- queueCall
Dynamic == INSTANCE Vector WITH Indices <- Slots, call <- vectorCall
Linked == INSTANCE LinkedList WITH
              Data <- Numbers, Arrays <- ListArrays, heap <- lstHeap, call <- lstCall
Text == INSTANCE Strings
Arithmetic == INSTANCE Numbers
CommandLine == INSTANCE Arguments
Sorter == INSTANCE Sorting WITH Arrays <- SortArrays
Printer == INSTANCE Printf

(* What the parts assume of their constants, as they get them here.        *)
ASSUME LibraryAssumption ==
    /\ Doubly!HeapAssumption /\ Doubly!IndicesAssumption /\ Dynamic!VectorAssumption
    /\ LinesAssumption /\ TokensAssumption /\ TrackerAssumption
    /\ Text!StringsAssumption /\ Arithmetic!NumbersAssumption
    /\ CommandLine!ProcessesAssumption
    /\ Sorter!SortingAssumption /\ Printer!PrintfAssumption /\ FormatAssumption

Parts == {"doubly", "circular", "queue", "vector", "linked", "lines", "tracker", "tokens",
          "strings", "numbers", "arguments", "sorting", "printf", "log"}

Init ==
    /\ part \in Parts
    /\ Doubly!Init /\ Circular!Init /\ Fifo!Init /\ Dynamic!Init /\ Linked!Init
    /\ file \in IF part = "lines" THEN [Fds -> Files] ELSE [Fds -> {<<>>}]
    /\ LinesStarted
    /\ TrackerInit
    /\ text \in IF part = "tokens" THEN [Strs -> Sentences] ELSE [Strs -> {<<>>}]
    /\ TokensStarted
    /\ array \in IF part = "sorting" THEN SortArrays ELSE {<<>>}
    /\ Sorter!Started
    /\ Printer!Init
    /\ program \in IF part = "log" THEN {"client", "server"} ELSE {"client"}
    /\ LogStarted

UseDoubly ==
    /\ part = "doubly" /\ Doubly!Next
    /\ UNCHANGED <<part, clVars, queueVars, vectorVars, lstVars, otherVars>>
UseCircular ==
    /\ part = "circular" /\ Circular!Next
    /\ UNCHANGED <<part, dllVars, queueVars, vectorVars, lstVars, otherVars>>
UseQueue ==
    /\ part = "queue" /\ Fifo!Next
    /\ UNCHANGED <<part, dllVars, clVars, vectorVars, lstVars, otherVars>>
UseVector ==
    /\ part = "vector" /\ Dynamic!Next
    /\ UNCHANGED <<part, dllVars, clVars, queueVars, lstVars, otherVars>>
UseLinked ==
    /\ part = "linked" /\ Linked!Next
    /\ UNCHANGED <<part, dllVars, clVars, queueVars, vectorVars, otherVars>>
UseLines ==
    /\ part = "lines" /\ LinesNext
    /\ UNCHANGED <<part, boxVars, trackerVars, textVars, call, sortVars, specs, logVars>>
UseTracker ==
    /\ part = "tracker" /\ TrackerNext
    /\ UNCHANGED <<part, boxVars, lineVars, textVars, call, sortVars, specs, logVars>>
UseTokens ==
    /\ part = "tokens" /\ TokensNext
    /\ UNCHANGED <<part, boxVars, lineVars, trackerVars, sortVars, specs, logVars>>
UseStrings ==
    /\ part = "strings" /\ Text!Next
    /\ UNCHANGED <<part, boxVars, lineVars, trackerVars, textVars, sortVars, specs, logVars>>
UseNumbers ==
    /\ part = "numbers" /\ Arithmetic!Next
    /\ UNCHANGED <<part, boxVars, lineVars, trackerVars, textVars, sortVars, specs, logVars>>
UseArguments ==
    /\ part = "arguments" /\ CommandLine!StartClient
    /\ UNCHANGED <<part, boxVars, lineVars, trackerVars, textVars, sortVars, specs, logVars>>
UseSorting ==
    /\ part = "sorting" /\ Sorter!Next
    /\ UNCHANGED <<part, boxVars, lineVars, trackerVars, textVars, call, specs, logVars>>
UsePrintf ==
    /\ part = "printf" /\ Printer!Next
    /\ UNCHANGED <<part, boxVars, lineVars, trackerVars, textVars, call, sortVars, logVars>>
UseLog ==
    /\ part = "log" /\ LogNext
    /\ UNCHANGED <<part, boxVars, lineVars, trackerVars, textVars, call, sortVars, specs>>

Next ==
    \/ UseDoubly \/ UseCircular \/ UseQueue \/ UseVector \/ UseLinked
    \/ UseLines \/ UseTracker \/ UseTokens \/ UseStrings
    \/ UseNumbers \/ UseArguments \/ UseSorting \/ UsePrintf \/ UseLog

Spec == Init /\ [][Next]_vars

(***************************************************************************)
(* Properties, beside those of the modules that this one extends           *)
(***************************************************************************)

(* After any calls the lists and the queue are the chains of nodes that    *)
(* their headers say, forwards as backwards, share no node and leak none;  *)
(* the vector's header is true of its block and no call writes outside it. *)
ContainersWellFormed ==
    /\ part = "doubly" => Doubly!Shape
    /\ part = "circular" => Circular!Shape
    /\ part = "queue" => Fifo!Shape
    /\ part = "vector" => Dynamic!WithinBlock
    /\ part = "linked" => Linked!Shape

(* Each container does what SequenceSpec says with the result it says,     *)
(* when memory runs out too; a t_list call does to its list what Changes   *)
(* says and nothing to the other list.                                     *)
ContainersImplement ==
    /\ Doubly!Implements /\ Circular!Implements /\ Fifo!Implements
    /\ Dynamic!Implements /\ Linked!Implements



(* The masks, carries and shifts of libft's arithmetic compute what they   *)
(* stand for up to the extreme ints; its primes are primes.                *)
ArithmeticExact ==
    part = "numbers" => Arithmetic!ArithmeticExact /\ Arithmetic!PrimesFound

(* A numeral is read as the number it says or, outside the type, as the    *)
(* nearest or a wrapped one; what is written is read back as the same      *)
(* number; the client's pid names the process it says unless it wraps.     *)
NumeralsRead ==
    /\ part = "numbers" => Arithmetic!NumeralsRead /\ Arithmetic!NumeralsReadBack
    /\ part = "arguments" => CommandLine!RightProcess

(* Overlapping or bounded, what is moved, copied, joined or cut arrives    *)
(* whole and stays within its area.                                        *)
CopiesWithinBounds == part = "strings" => Text!MovesMemory /\ Text!CopiesWithinBounds

(* A search returns the first, or last, occurrence within its bound; a     *)
(* comparison orders like a dictionary; a character class is its range.    *)
Finds == part = "strings" => Text!Finds /\ Text!Classifies

(* ft_printf lays its conversions out as C does and reads past the end of  *)
(* a format only where that cuts a conversion short.                       *)
PrintsAsC == part = "printf" => Printer!PrintsAsC /\ Printer!ReadsToTheEnd

(* ft_width_hex_bonus.c:127 says of zero padding that "it occurs before    *)
(* the number and prefix": ft_printf puts the zeros behind 0x.             *)
PadsBeforePrefix == part = "printf" => Printer!PadsBeforePrefix
=============================================================================
