-------------------------------- MODULE Wire --------------------------------
(***************************************************************************)
(* The wire format both programs agree on: a length of HEADER_SIZE bits,   *)
(* then CHAR_SIZE bits per character, most significant bit first, USR1 for *)
(* 0 and USR2 for 1.                                                       *)
(***************************************************************************)
EXTENDS Integers

CONSTANTS
    HEADER_SIZE,   \* bits of the length (32)
    CHAR_SIZE      \* bits of a character (8)

ASSUME SizeAssumption == HEADER_SIZE \in Nat \ {0} /\ CHAR_SIZE \in Nat \ {0}

(* The prover does not know exponentiation: the powers the code shifts by. *)
ASSUME PowerAssumption ==
    \A i \in 0..(HEADER_SIZE + CHAR_SIZE) : 2^i \in Nat \ {0}

(* send_bit: value & (1ULL << i)                                           *)
Bit(value, i) == (value \div 2^i) % 2

(* send_data_bit                                                           *)
SignalOf(bit) == IF bit = 0 THEN "USR1" ELSE "USR2"

(* get_bit_value                                                           *)
BitValue(sig) == IF sig = "USR1" THEN 0 ELSE 1

(* 1U << position in the header, seen through the signed int it lands in.  *)
Weight(position) ==
    IF position = HEADER_SIZE - 1 THEN -(2^position) ELSE 2^position
=============================================================================
