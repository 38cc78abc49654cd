----------------------------- MODULE MCLibrary ------------------------------
(***************************************************************************)
(* Small instances of Library for TLC.                                     *)
(***************************************************************************)
EXTENDS Library

(* Two equal neighbours and a step down: neither ascending nor strict.     *)
SomeListArrays == {<<1, 1, 0>>}

(* Lines shorter and longer than a chunk, an empty line, a byte 0.         *)
SomeFiles == {<<1, 10, 1>>, <<1, 10, 10>>, <<0, 10>>}

(* Delimiters (2 and 3) at the ends, in rows, mixed, or none.              *)
SomeSentences ==
    {<<>>, <<1>>, <<2, 2>>, <<1, 1, 2>>, <<2, 1>>, <<1, 2, 1>>, <<1, 2, 3, 1>>,
     <<3, 1, 2, 2, 1>>, <<2, 1, 1, 2, 2, 1, 3>>, <<1, 2, 1, 3, 1>>}

(* All short strings of two letters, and longer ones with repeated parts.  *)
SomeWords ==
    UNION {[1..n -> {97, 98}] : n \in 0..3} \cup {<<97, 98, 97, 97>>, <<98, 98, 98, 97>>}
SomeNeedles == UNION {[1..n -> {97, 98}] : n \in 0..2} \cup {<<98, 97, 97>>}
Chars == -1..255

(* Ints around zero and at both ends.                                      *)
SomeInts ==
    {-2^(BITS - 1), -2^(BITS - 1) + 1, -17, -7, -2, -1, 0, 1, 2, 3, 5, 12, 15,
     2^(BITS - 1) - 1}

(* Numerals of up to three digits, beyond a long of 9 bits, with blanks,    *)
(* signs and other characters before, between and behind, by their codes   *)
(* in Numbers.                                                             *)
SomeNumerals ==
    LET digits(k) == UNION {[1..n -> {0, 2, 5, 9}] : n \in 1..k}
        minus == -2
        plus == -3
        space == -1
        symbol == -4
    IN  {<<>>} \cup digits(3)
        \cup {p \o d : p \in {<<minus>>, <<space, plus>>, <<plus, minus>>}, d \in digits(3)}
        \cup {<<1, symbol, 2>>, <<1, space, 2>>, <<10, 11>>, <<1, 17, 1>>,
              <<minus, 2, 5, 6, 0>>, <<minus, 2, 5, 7>>, <<0, 0, 2, 6>>, <<2, 6, 0, 0, 1>>}

(* All arrays of up to four elements of three values, all of six zeros     *)
(* and ones, some of five to eight without equals: they pass the borders   *)
(* of the runs, chunks, halves and gaps.  And arrays of up to four of      *)
(* values too far apart for their difference to be an int: with a least    *)
(* and a greatest int, and going round in a circle.                        *)
SomeSortArrays ==
    UNION {[0..n - 1 -> {-1, 0, 2}] : n \in 2..4}
    \cup [0..5 -> {0, 1}]
    \cup {[i \in 0..n - 1 |-> (i * 3 + 1) % n] : n \in {5, 7, 8}}
    \cup UNION {[0..n - 1 -> {-2^(BITS - 1), 1, 2^(BITS - 1) - 1}] : n \in 2..4}
    \cup [0..2 -> {-20, 0, 20}]

SomeFlags ==
    {<<>>, <<"-">>, <<"0">>, <<"0", "-">>, <<"-", "0">>, <<" ", "+">>, <<"+", " ">>,
     <<"#", "0">>, <<"#">>}
SomeWidths == {NULL, STAR, 7}
SomePrecisions == {NULL, STAR, 0, 3}
SomeStars == {-6, 5}
PrintedInts == {-12, 0, 7}
SomeTexts == {<<>>, <<"a", "b", "c", "d">>}

LogLine(format, args) == [level |-> "INFO", format |-> format, args |-> args]

(* What can follow a %: up to two characters, or three of the first four.  *)
(* Two conversions, one behind a number or a dot, a percent sign, a zero   *)
(* and a letter the formatter does not know all occur.                     *)
AnyFormat ==
    {<<"%">> \o f : f \in UNION {[1..n -> {"%", "d", "5", ".", "0", "z"}] : n \in 0..2}
                        \cup [1..3 -> {"%", "d", "5", "."}]}
AnyLines == {LogLine(f, <<7, -12>>) : f \in AnyFormat}

(* Formats with the conversions, flags and modifiers in use, and text that *)
(* does not fit.                                                           *)
UsedLines ==
    {LogLine(<<"%", "d", "/", "%", "d", ":", " ", "%", "d", "!">>, <<3, 8, -1>>),
     LogLine(<<"%", "s", ";", "%", "5", "s", ";">>, <<<<"o", "k">>, <<"o", "k">>>>),
     LogLine(<<"%", "-", "4", ".", "1", "s", "|", "%", ".", "s", "|">>,
          <<<<"o", "k">>, <<"o", "k">>>>),
     LogLine(<<"%", "+", "i", " ", "%", "l", "u", " ", "%", "c", " ">>, <<5, 10, "A">>),
     LogLine(<<"%", "x", ".", "%", "X", ".", "%", "o", ".", "%", "p", ".">>, <<171, 171, 9, 31>>),
     LogLine(<<"%", " ", "d", ".", "%", "f", ".", "%", "g", ".">>, <<0, 10, -1>>),
     LogLine(<<"t", "o", "o", " ", "l", "o", "n", "g", "%", "d", " ", "%", "d", "f">>,
          <<10, 3456>>)}

LoggedLines == AnyLines \cup UsedLines
ShortLines == {LogLine(<<"u", "p">>, <<>>), LogLine(<<"%", "d", "%">>, <<4>>)}
=============================================================================
