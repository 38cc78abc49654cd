------------------------------- MODULE Printf -------------------------------
(***************************************************************************)
(* ft_printf: the format is read once from the left, each conversion takes *)
(* its flags, width and precision from it and from the arguments, and is   *)
(* laid out by one of the converters.  A character is a string of length   *)
(* one; what is written, and counted, is a sequence of them.               *)
(***************************************************************************)
EXTENDS Integers, Sequences, FiniteSets, SequencesExt, FiniteSetsExt

CONSTANTS
    FlagOrders,       \* the flags of a conversion, as they are written
    Widths, Precisions,    \* numbers, or NULL where there is none
    Stars,            \* what is passed for a *
    Ints, Unsigneds, Texts,     \* the arguments
    NULL,
    STAR              \* a width or precision that is passed

PrintfAssumption == NULL \notin Texts /\ STAR # NULL /\ Unsigneds \subseteq Nat

DIGITS == <<"0", "1", "2", "3", "4", "5", "6", "7", "8", "9", "a", "b", "c", "d", "e", "f">>
UPPER == <<"0", "1", "2", "3", "4", "5", "6", "7", "8", "9", "A", "B", "C", "D", "E", "F">>
DigitValue == [c \in {DIGITS[k] : k \in 1..10} |-> CHOOSE d \in 0..9 : DIGITS[d + 1] = c]

Types == {"c", "s", "p", "d", "i", "u", "x", "X", "%", "o"}        \* ft_istype
FlagChars == {"-", "0", ".", "#", " ", "+", "*"}                   \* flag_table

FlagsInit == [bits |-> {}, width |-> 0, precision |-> -1]
Has(f, flag) == flag \in f.bits
ZeroPadded(f) == Has(f, "0") /\ ~Has(f, ".")

----------------------------------------------------------------------------
(* The parser.                                                             *)

HandleWidth(f, width) ==
    IF width < 0 THEN [f EXCEPT !.bits = @ \cup {"-", "*"}, !.width = -width]
    ELSE [f EXCEPT !.bits = @ \cup {"*"}, !.width = width]

(* Mutant: a negative precision counts as given.                           *)
HandleStar_KeepsDot(f, arg) ==
    IF ~Has(f, ".") THEN HandleWidth(f, arg) ELSE [f EXCEPT !.precision = arg]

HandleStar(f, arg) ==
    IF ~Has(f, ".") THEN HandleWidth(f, arg)
    ELSE [f EXCEPT !.precision = arg, !.bits = IF arg < 0 THEN @ \ {"."} ELSE @]
HandleMinus(f) == [f EXCEPT !.bits = (@ \cup {"-"}) \ {"0"}]
HandleDot(f) == [f EXCEPT !.bits = (@ \cup {"."}) \ {"0"}, !.precision = 0]
HandlePlus(f) == [f EXCEPT !.bits = (@ \cup {"+"}) \ {" "}]
SetFlagBit(f, c) == [f EXCEPT !.bits = @ \cup {c}]

HandleFlag(f, c) ==
    CASE c = "-" -> HandleMinus(f)
      [] c = "." -> HandleDot(f)
      [] c = "+" -> HandlePlus(f)
      [] OTHER -> SetFlagBit(f, c)

NumberAt(format) ==
    LET n == SelectInSeq(format, LAMBDA c : c \notin DOMAIN DigitValue)
    IN  IF n = 0 THEN format ELSE SubSeq(format, 1, n - 1)
ProcessNumber(f, digits) ==
    LET n == FoldLeft(LAMBDA v, c : v * 10 + DigitValue[c], 0, digits)
    IN  IF Has(f, ".") THEN [f EXCEPT !.precision = n] ELSE [f EXCEPT !.width = n]

(* Up to the type, or the end of the format: characters that mean nothing  *)
(* are passed over.                                                        *)
RECURSIVE ParseFlags(_, _, _)
ParseFlags(format, f, args) ==
    LET c == Head(format)
        digits == NumberAt(format)
    IN  IF format = <<>> \/ c \in Types THEN [format |-> format, flags |-> f, args |-> args]
        ELSE IF c = "*" THEN ParseFlags(Tail(format), HandleStar(f, Head(args)), Tail(args))
        ELSE IF c \in FlagChars THEN ParseFlags(Tail(format), HandleFlag(f, c), args)
        ELSE IF digits # <<>>
        THEN ParseFlags(SubSeq(format, Len(digits) + 1, Len(format)), ProcessNumber(f, digits), args)
        ELSE ParseFlags(Tail(format), f, args)

----------------------------------------------------------------------------
(* What the converters are made of.                                        *)

PrintWidth(width, content, zero) ==
    [k \in 1..Max({0, width - content}) |-> IF zero THEN "0" ELSE " "]

RECURSIVE PrintNumber(_, _, _)
PrintNumber(n, base, digits) ==
    IF n < base THEN <<digits[n + 1]>>
    ELSE PrintNumber(n \div base, base, digits) \o <<digits[(n % base) + 1]>>
Decimal(n) == PrintNumber(n, 10, DIGITS)
NbrLen(n, base) == Len(PrintNumber(n, base, DIGITS))

PrintSign(n, f) == IF n < 0 THEN <<"-">>
                   ELSE IF Has(f, "+") THEN <<"+">>
                   ELSE IF Has(f, " ") THEN <<" ">> ELSE <<>>
HexPrefix(upper) == IF upper THEN <<"0", "X">> ELSE <<"0", "x">>

(* digits, if there are fewer, become precision many by zeros in front.    *)
WithZeros(digits, precision) == PrintWidth(precision, Len(digits), TRUE) \o digits
WiderOf(f, len) == IF Has(f, ".") /\ f.precision > len THEN f.precision ELSE len
NoDigits(n, f) == Has(f, ".") /\ f.precision = 0 /\ n = 0

(* One character, and the spaces around it.                                *)
PrintChar(c, f) == IF Has(f, "-") THEN <<c>> \o PrintWidth(f.width - 1, 0, FALSE)
                   ELSE PrintWidth(f.width - 1, 0, FALSE) \o <<c>>
PrintPercent(f) == IF Has(f, "-") THEN <<"%">> \o PrintWidth(f.width - 1, 0, FALSE)
                   ELSE PrintWidth(f.width - 1, 0, Has(f, "0")) \o <<"%">>

(* A type without a converter: its spaces are one short.                   *)
InvalidFormat(c, f) == IF Has(f, "-") THEN <<c>> \o PrintWidth(f.width - 1, 1, FALSE)
                       ELSE PrintWidth(f.width - 1, 1, FALSE) \o <<c>>

NullText == <<"(", "n", "u", "l", "l", ")">>
PrintStrPrec(str, precision) == SubSeq(str, 1, Min({precision, Len(str)}))
PrintLen(str, f) ==
    IF Has(f, ".") /\ f.precision < Len(str) THEN f.precision ELSE Len(str)
AlignedStr(str, len, f) ==
    IF Has(f, "-") THEN PrintStrPrec(str, len) \o PrintWidth(f.width, len, FALSE)
    ELSE PrintWidth(f.width, len, FALSE) \o PrintStrPrec(str, len)
PrintStr(str, f) ==
    LET print == IF str = NULL THEN NullText ELSE str
    IN  IF Has(f, ".") /\ (f.precision <= 0 \/ (str = NULL /\ f.precision < Len(NullText)))
        THEN PrintWidth(f.width, 0, FALSE)
        ELSE AlignedStr(print, PrintLen(print, f), f)

(* A zero of precision 0 has no digits, but still its sign.                *)
ZeroPrecision(n, f) ==
    LET sign == PrintSign(n, f)
        spaces == PrintWidth(f.width - Len(sign), 0, FALSE)
    IN  IF Has(f, "-") THEN sign \o spaces ELSE spaces \o sign
IntLeft(n, f, digits, len) ==
    LET sign == PrintSign(n, f)
    IN  sign \o digits \o PrintWidth(f.width, len + Len(sign), FALSE)
IntRightZero(n, f, digits, len) ==
    LET sign == PrintSign(n, f)
    IN  sign \o PrintWidth(f.width, len + Len(sign), TRUE) \o digits
IntRightStd(n, f, digits, len) ==
    LET sign == PrintSign(n, f)
    IN  PrintWidth(f.width, len + Len(sign), FALSE) \o sign \o digits
PrintInt(n, f) ==
    LET un == IF n < 0 THEN -n ELSE n
        digits == WithZeros(Decimal(un), f.precision)
        len == WiderOf(f, NbrLen(un, 10))
    IN  IF NoDigits(n, f) THEN ZeroPrecision(n, f)
        ELSE IF Has(f, "-") THEN IntLeft(n, f, digits, len)
        ELSE IF ZeroPadded(f) THEN IntRightZero(n, f, digits, len)
        ELSE IntRightStd(n, f, digits, len)

UnsignedLen(n, f) == IF NoDigits(n, f) THEN 0 ELSE WiderOf(f, NbrLen(n, 10))
UnsignedPrecision(n, precision) ==
    IF n = 0 /\ precision = 0 THEN <<>> ELSE WithZeros(Decimal(n), precision)
PrintUnsigned(n, f) ==
    LET digits == UnsignedPrecision(n, f.precision)
        len == UnsignedLen(n, f)
    IN  IF NoDigits(n, f) THEN PrintWidth(f.width, 0, FALSE)
        ELSE IF Has(f, "-") THEN digits \o PrintWidth(f.width, len, FALSE)
        ELSE PrintWidth(f.width, len, ZeroPadded(f)) \o digits

HexPrecision(n, precision, upper) ==
    IF n = 0 /\ precision = -1 THEN <<>>
    ELSE IF n = 0 /\ precision > 0 THEN PrintWidth(precision, 0, TRUE)
    ELSE WithZeros(PrintNumber(n, 16, IF upper THEN UPPER ELSE DIGITS), precision)
HexZeroWithDot(f, upper) ==
    LET zeros == HexPrecision(0, f.precision, upper)
        spaces == PrintWidth(f.width, f.precision, FALSE)
    IN  IF f.precision \in {0, -1} THEN PrintWidth(f.width, 0, FALSE)
        ELSE IF Has(f, "-") THEN zeros \o spaces ELSE spaces \o zeros
HexZeroRegular(f) ==
    IF Has(f, "-") THEN <<"0">> \o PrintWidth(f.width - 1, 0, FALSE)
    ELSE PrintWidth(f.width - 1, 0, Has(f, "0")) \o <<"0">>
HexZero(f, upper) == IF Has(f, ".") THEN HexZeroWithDot(f, upper) ELSE HexZeroRegular(f)
HexLeft(n, len, prefix, upper, f) ==
    prefix \o HexPrecision(n, f.precision, upper) \o PrintWidth(f.width - Len(prefix), len, FALSE)
HexRight(n, len, prefix, upper, f) ==
    LET padding == PrintWidth(f.width - Len(prefix), len, ZeroPadded(f))
    IN  (IF ZeroPadded(f) THEN prefix \o padding ELSE padding \o prefix)
        \o HexPrecision(n, f.precision, upper)
PrintHex(n, upper, f) ==
    LET len == WiderOf(f, NbrLen(n, 16))
        prefix == IF Has(f, "#") THEN HexPrefix(upper) ELSE <<>>
    IN  IF n = 0 THEN HexZero(f, upper)
        ELSE IF Has(f, "-") THEN HexLeft(n, len, prefix, upper, f)
        ELSE HexRight(n, len, prefix, upper, f)

NilText == <<"(", "n", "i", "l", ")">>
NullPtr(f) ==
    LET spaces == PrintWidth(f.width, Len(NilText), FALSE)
    IN  IF NoDigits(0, f) THEN PrintWidth(f.width, 0, FALSE)
        ELSE IF Has(f, "-") THEN NilText \o spaces ELSE spaces \o NilText
PtrPrecision(n, precision) == WithZeros(PrintNumber(n, 16, DIGITS), precision)
PtrLeft(n, f, len) ==
    HexPrefix(FALSE) \o PtrPrecision(n, f.precision) \o PrintWidth(f.width, 2 + len, FALSE)
PtrRightZero(n, f, len) ==
    HexPrefix(FALSE) \o PrintWidth(f.width - 2, len, TRUE) \o PrintNumber(n, 16, DIGITS)
PtrRightStd(n, f, len) ==
    PrintWidth(f.width, 2 + len, FALSE) \o HexPrefix(FALSE) \o PtrPrecision(n, f.precision)
PrintPtr(n, f) ==
    LET len == WiderOf(f, NbrLen(n, 16))
    IN  IF n = 0 THEN NullPtr(f)
        ELSE IF Has(f, "-") THEN PtrLeft(n, f, len)
        ELSE IF ZeroPadded(f) THEN PtrRightZero(n, f, len)
        ELSE PtrRightStd(n, f, len)

(* A null pointer ignores a precision of 0.                                *)
ConvertPtr(n, f) ==
    PrintPtr(n, IF NoDigits(n, f) THEN [f EXCEPT !.bits = @ \ {"."}] ELSE f)

Convert(type, f, arg) ==
    CASE type = "%" -> PrintPercent(f)
      [] type = "c" -> PrintChar(arg, f)
      [] type = "s" -> PrintStr(arg, f)
      [] type \in {"d", "i"} -> PrintInt(arg, f)
      [] type = "u" -> PrintUnsigned(arg, f)
      [] type = "x" -> PrintHex(arg, FALSE, f)
      [] type = "X" -> PrintHex(arg, TRUE, f)
      [] type = "p" -> ConvertPtr(arg, f)
      [] type = "o" -> InvalidFormat(type, f)

TakesArgument(type) == type \notin {"%", "o"}

----------------------------------------------------------------------------
(* ft_process_format.  Behind a conversion that the format's end cuts      *)
(* short it goes on after the NUL: overrun.                                *)
RECURSIVE ProcessFormat(_, _)
ProcessFormat(format, args) ==
    LET parsed == ParseFlags(Tail(format), FlagsInit, args)
        type == Head(parsed.format)
        takes == TakesArgument(type)
        rest == ProcessFormat(Tail(parsed.format), IF takes THEN Tail(parsed.args) ELSE parsed.args)
        after == ProcessFormat(Tail(format), args)
    IN  IF format = <<>> THEN [out |-> <<>>, overrun |-> FALSE]
        ELSE IF Head(format) # "%" \/ Len(format) = 1
        THEN [after EXCEPT !.out = <<Head(format)>> \o @]
        ELSE IF parsed.format = <<>> THEN [out |-> <<>>, overrun |-> TRUE]
        ELSE [rest EXCEPT !.out = Convert(type, parsed.flags,
                                          IF takes THEN Head(parsed.args) ELSE NULL) \o @]

----------------------------------------------------------------------------
(* The callers write conversions; specs is what this one means to print.   *)
VARIABLE specs

vars == <<specs>>

Args(type) == CASE type \in {"d", "i"} -> Ints
                [] type \in {"u", "x", "X", "p"} -> Unsigneds
                [] type = "s" -> Texts \cup {NULL}
                [] type = "c" -> {"c"}
                [] OTHER -> {NULL}

Init == specs = <<>>

PrintOnce(flags, width, precision, star, type, arg) ==
    /\ Len(specs) = 0
    /\ specs' = <<[flags |-> flags, width |-> width, precision |-> precision, star |-> star,
                   type |-> type, arg |-> arg]>>

(* The same conversion once more, with text between: its arguments follow. *)
PrintTwice ==
    /\ Len(specs) = 1
    /\ specs' = specs \o specs

Next ==
    \/ \E flags \in FlagOrders, width \in Widths, precision \in Precisions, type \in Types :
        \E star \in IF STAR \in {width, precision} THEN Stars ELSE {NULL}, arg \in Args(type) :
            PrintOnce(flags, width, precision, star, type, arg)
    \/ PrintTwice

Spec == Init /\ [][Next]_vars

(* The format and the arguments of specs.  A * stands where width, or      *)
(* precision, is one.                                                      *)
Number(n) == IF n = NULL THEN <<>> ELSE IF n = STAR THEN <<"*">> ELSE Decimal(n)
FormatOf(s) ==
    <<"%">> \o s.flags \o Number(s.width)
    \o (IF s.precision = NULL THEN <<>> ELSE <<".">> \o Number(s.precision)) \o <<s.type>>
ArgsOf(s) ==
    (IF s.width = STAR THEN <<s.star>> ELSE <<>>) \o (IF s.precision = STAR THEN <<s.star>> ELSE <<>>)
    \o (IF TakesArgument(s.type) THEN <<s.arg>> ELSE <<>>)
Between == <<"|">>
Format == FoldLeft(LAMBDA f, s : f \o FormatOf(s) \o Between, <<>>, specs)
Arguments == FoldLeft(LAMBDA a, s : a \o ArgsOf(s), <<>>, specs)

----------------------------------------------------------------------------
(* What C says of a conversion: sign or prefix, then at least precision    *)
(* digits; padded to the width on the right after a -, with zeros behind   *)
(* the sign after a 0 and without precision, else with spaces on the left. *)
Zeros(n) == [k \in 1..Max({0, n}) |-> "0"]
Spaces(n) == [k \in 1..Max({0, n}) |-> " "]
LaidOut(s, prefix, body, zeroPad) ==
    LET given == IF s.width = STAR THEN s.star ELSE IF s.width = NULL THEN 0 ELSE s.width
        width == (IF given < 0 THEN -given ELSE given) - Len(prefix) - Len(body)
        left == "-" \in ToSet(s.flags) \/ given < 0
    IN  IF left THEN prefix \o body \o Spaces(width)
        ELSE IF zeroPad /\ "0" \in ToSet(s.flags) THEN prefix \o Zeros(width) \o body
        ELSE Spaces(width) \o prefix \o body

PrecisionOf(s) == IF s.precision = STAR THEN (IF s.star < 0 THEN NULL ELSE s.star) ELSE s.precision
AtLeast(digits, precision) ==
    IF precision = NULL THEN digits
    ELSE IF precision = 0 /\ digits = <<"0">> THEN <<>>
    ELSE Zeros(precision - Len(digits)) \o digits

Meant(s) ==
    LET precision == PrecisionOf(s)
        flags == ToSet(s.flags)
        number(prefix, digits) == LaidOut(s, prefix, AtLeast(digits, precision), precision = NULL)
        sign == IF s.arg < 0 THEN <<"-">> ELSE IF "+" \in flags THEN <<"+">>
                ELSE IF " " \in flags THEN <<" ">> ELSE <<>>
        hash(prefix) == IF "#" \in flags /\ s.arg # 0 THEN prefix ELSE <<>>
        text == IF s.arg = NULL THEN NullText ELSE s.arg
        shown == IF precision = NULL THEN text
                 ELSE IF s.arg = NULL /\ precision < Len(NullText) THEN <<>>
                 ELSE SubSeq(text, 1, Min({precision, Len(text)}))
    IN  CASE s.type \in {"d", "i"} -> number(sign, Decimal(IF s.arg < 0 THEN -s.arg ELSE s.arg))
          [] s.type = "u" -> number(<<>>, Decimal(s.arg))
          [] s.type = "x" -> number(hash(<<"0", "x">>), PrintNumber(s.arg, 16, DIGITS))
          [] s.type = "X" -> number(hash(<<"0", "X">>), PrintNumber(s.arg, 16, UPPER))
          [] s.type = "p" -> IF s.arg = 0 THEN LaidOut(s, <<>>, NilText, FALSE)
                             ELSE number(<<"0", "x">>, PrintNumber(s.arg, 16, DIGITS))
          [] s.type = "s" -> LaidOut(s, <<>>, shown, FALSE)
          [] s.type = "c" -> LaidOut(s, <<>>, <<s.arg>>, FALSE)
          [] s.type = "%" -> LaidOut(s, <<>>, <<"%">>, TRUE)

(* Every conversion is laid out as C lays it out, whatever combination of  *)
(* flags in whatever order, width and precision, and takes the arguments   *)
(* that are its own, so that the next one is right too.  Not so "%o", and  *)
(* a 0 with a precision of less than 0, which C takes for none.            *)
PrintsAsC ==
    (\A k \in DOMAIN specs :
        /\ specs[k].type # "o"
        /\ ~(specs[k].precision = STAR /\ specs[k].star < 0 /\ "0" \in ToSet(specs[k].flags))
        /\ specs[k].type = "%" => specs[k].precision = NULL)
    => ProcessFormat(Format, Arguments).out =
            FoldLeft(LAMBDA out, s : out \o Meant(s) \o Between, <<>>, specs)

(* A format is read past its end only if a conversion is cut short there:  *)
(* between its % and its type, with anything in between.                   *)
ReadsToTheEnd ==
    Len(specs) = 1 => \A n \in 0..Len(Format) :
        LET cut == SubSeq(Format, 1, n)
            percent == SelectLastInSeq(cut, LAMBDA c : c = "%")
        IN  (\A k \in DOMAIN specs : specs[k].type # "%")
            => (ProcessFormat(cut, Arguments).overrun <=>
                    /\ percent > 0 /\ percent < n
                    /\ \A k \in percent + 1..n : cut[k] \notin Types)

(***************************************************************************)
(* What the repository says and the program does not do                    *)
(***************************************************************************)

(* ft_width_hex_bonus.c:127, on the number printed to the right: "If zero  *)
(* padding is applied, it occurs before the number and prefix".            *)
PadsBeforePrefix ==
    \A k \in DOMAIN specs :
        LET s == specs[k]
            prefix == HexPrefix(s.type = "X")
            digits == PrintNumber(s.arg, 16, IF s.type = "X" THEN UPPER ELSE DIGITS)
        IN  /\ Len(specs) = 1 /\ s.type \in {"x", "X"} /\ s.arg # 0
            /\ ToSet(s.flags) = {"#", "0"} /\ s.width \in Nat /\ s.precision = NULL
            => ProcessFormat(Format, Arguments).out =
                   Zeros(s.width - Len(prefix) - Len(digits)) \o prefix \o digits \o Between
=============================================================================
