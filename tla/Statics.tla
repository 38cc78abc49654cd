------------------------------ MODULE Statics -------------------------------
(***************************************************************************)
(* The parts of libft that remember something between their calls, in a    *)
(* static variable: get_next_line, ft_strtok and the memory tracker.       *)
(***************************************************************************)
EXTENDS Lines, Tokens, Tracker

(* The static state behind get_next_line and ft_strtok: a call changes     *)
(* nothing that is kept for another descriptor or another string.          *)
CallsKeepApart == OthersUntouched /\ OnlyDelimitersGo
=============================================================================
