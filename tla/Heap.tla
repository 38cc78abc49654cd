-------------------------------- MODULE Heap --------------------------------
(***************************************************************************)
(* The heap as libft's containers use it: a function from the addresses    *)
(* that malloc has handed out, and free has not taken back, to the blocks  *)
(* they hold.                                                              *)
(***************************************************************************)
EXTENDS Integers, Sequences, FiniteSets, SequencesExt, Null

CONSTANT Addresses    \* the blocks malloc can return: bounds every container

HeapAssumption == NULL \notin Addresses /\ IsFiniteSet(Addresses)

Empty == [n \in {} |-> NULL]

(* malloc returns some free address, always the same one: no code compares *)
(* addresses but for equality.  It may also fail, which the callers model. *)
HasRoom(h) == Addresses \ DOMAIN h # {}
Fresh(h) == CHOOSE n \in Addresses : n \notin DOMAIN h
Alloc(h, block) ==
    [n \in DOMAIN h \cup {Fresh(h)} |-> IF n = Fresh(h) THEN block ELSE h[n]]
Free(h, gone) == [n \in DOMAIN h \ gone |-> h[n]]

(* The blocks met from n on, following the pointers in field f.  A cycle   *)
(* is followed until every address could have been seen once, a pointer    *)
(* to a freed block ends the path.                                         *)
Path(h, f, n) ==
    LET at[k \in 1..Cardinality(Addresses) + 1] ==
            IF k = 1 THEN n
            ELSE LET m == at[k - 1] IN IF m \in DOMAIN h THEN h[m][f] ELSE NULL
        met == {k \in DOMAIN at : at[k] # NULL}
    IN  [k \in 1..Cardinality(met) |-> at[k]]

(* The block k hops from n: current = current->next, k times.              *)
Hop(h, f, n, k) == LET at[i \in 0..k] == IF i = 0 THEN n ELSE h[at[i - 1]][f]
                   IN  at[k]

(* What the loops that visit path p read of its blocks.                    *)
Contents(h, p) == [i \in DOMAIN p |-> h[p[i]].data]

(* The 0-based index of the first element equal to d, -1 without one.      *)
IndexOf(s, d) == SelectInSeq(s, LAMBDA e : e = d) - 1
=============================================================================
