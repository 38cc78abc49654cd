------------------------------ MODULE Tracker -------------------------------
(***************************************************************************)
(* libft's memory tracker, which remembers every block it has allocated in *)
(* an array that it lets realloc grow.                                     *)
(***************************************************************************)
EXTENDS Integers, Sequences, FiniteSets, Null

CONSTANTS
    Blocks,           \* what malloc can return: bounds the number of calls
    FIRST_CAPACITY    \* 10 in the code

TrackerAssumption == FIRST_CAPACITY \in Nat \ {0} /\ NULL \notin Seq(Blocks)

VARIABLES
    ptrs,             \* the array's cells that are in use, or NULL
    count, capacity,
    live,             \* the blocks that are allocated
    growthFailed,     \* a realloc has failed
    faulted           \* the array was used through a null pointer

trackerVars == <<ptrs, count, capacity, live, growthFailed, faulted>>

TrackerInit ==
    /\ ptrs = NULL /\ count = 0 /\ capacity = 0
    /\ live = {}
    /\ growthFailed = FALSE /\ faulted = FALSE

Pointers == IF ptrs = NULL THEN <<>> ELSE ptrs
Grown == IF capacity = 0 THEN FIRST_CAPACITY ELSE 2 * capacity

(* ptrs and capacity are set before it is seen whether realloc failed.     *)
SafeMalloc(ptr, grows) ==
    /\ ~faulted
    /\ ptr \notin live
    /\ live' = live \cup {ptr}
    /\ IF count < capacity
       THEN /\ IF ptrs = NULL THEN faulted' = TRUE /\ UNCHANGED <<ptrs, count>>
               ELSE /\ ptrs' = Append(ptrs, ptr) /\ count' = count + 1
                    /\ UNCHANGED faulted
            /\ UNCHANGED <<capacity, growthFailed>>
       ELSE /\ capacity' = Grown
            /\ ptrs' = IF grows THEN Append(Pointers, ptr) ELSE NULL
            /\ count' = IF grows THEN count + 1 ELSE count
            /\ growthFailed' = (growthFailed \/ ~grows)
            /\ UNCHANGED faulted

(* Mutant: capacity is not reset.                                          *)
CleanupAll_KeepsCapacity ==
    /\ ~faulted
    /\ IF count > 0 /\ ptrs = NULL
       THEN faulted' = TRUE /\ UNCHANGED <<ptrs, count, capacity, live, growthFailed>>
       ELSE /\ live' = live \ {Pointers[i] : i \in 1..count}
            /\ ptrs' = NULL /\ count' = 0
            /\ UNCHANGED <<capacity, growthFailed, faulted>>

CleanupAll ==
    /\ ~faulted
    /\ IF count > 0 /\ ptrs = NULL
       THEN faulted' = TRUE /\ UNCHANGED <<ptrs, count, capacity, live, growthFailed>>
       ELSE /\ live' = live \ {Pointers[i] : i \in 1..count}
            /\ ptrs' = NULL /\ count' = 0 /\ capacity' = 0
            /\ UNCHANGED <<growthFailed, faulted>>

TrackerNext == (\E ptr \in Blocks, grows \in BOOLEAN : SafeMalloc(ptr, grows)) \/ CleanupAll
TrackerSpec == TrackerInit /\ [][TrackerNext]_trackerVars

(***************************************************************************)
(* Properties                                                              *)
(***************************************************************************)

(* Unless realloc has failed: every block that is allocated is found in    *)
(* the array, once, within its capacity, so that cleanup_all frees each    *)
(* and frees it once; and no null array is ever used.                      *)
TracksAll ==
    ~growthFailed =>
        /\ ~faulted
        /\ count = Len(Pointers) /\ count <= capacity
        /\ live = {Pointers[i] : i \in 1..count}
        /\ Cardinality(live) = count
=============================================================================
