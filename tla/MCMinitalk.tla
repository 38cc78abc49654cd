----------------------------- MODULE MCMinitalk -----------------------------
(***************************************************************************)
(* Small instances of Minitalk for TLC.                                    *)
(***************************************************************************)
EXTENDS Sessions

CONSTANTS a, b   \* two client processes

(* Messages over the characters of two bits, NUL excluded.                 *)
OneText == {<<2, 1>>}
TwoTexts == {<<2>>, <<1>>}
AllTexts == UNION {[1..n -> 1..3] : n \in 1..3}
=============================================================================
