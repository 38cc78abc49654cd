------------------------------ MODULE Numbers ------------------------------
(***************************************************************************)
(* libft's arithmetic and its conversions between integers and numerals,   *)
(* on words of BITS bits: what overflows wraps around, as the compiled     *)
(* code does.  A character of a numeral is the digit it stands for, or one *)
(* of the codes below.                                                     *)
(***************************************************************************)
EXTENDS Integers, Sequences, FiniteSets, SequencesExt, FiniteSetsExt, Bitwise

CONSTANTS
    BITS,             \* of an int, 32 in the build: even, for ft_sqrt
    LONG_BITS,        \* of a long, 64
    Operands,         \* the ints that are computed with in pairs
    Numerals,         \* the strings that are read
    Bases,            \* of ft_atoi_base and ft_putnbr_base
    Garbage           \* what the unset sum of ft_add_prime_sum may hold

NumbersAssumption == BITS \in Nat /\ BITS % 2 = 0 /\ LONG_BITS > BITS

SPACE == -1
MINUS == -2
PLUS == -3
SYMBOL == -4          \* neither alphanumeric nor one of the above
OUTSIDE == -5         \* whatever lies before a string

Word(x) == x % 2^BITS
Signed(w, bits) == IF w >= 2^(bits - 1) THEN w - 2^bits ELSE w
Wrap(x) == Signed(Word(x), BITS)
WrapLong(x) == Signed(x % 2^LONG_BITS, LONG_BITS)
INT_MAX == 2^(BITS - 1) - 1
INT_MIN == -(2^(BITS - 1))
LONG_MAX == 2^(LONG_BITS - 1) - 1
LONG_MIN == -(2^(LONG_BITS - 1))

(* / and % round towards zero.                                             *)
Magnitude(x) == IF x < 0 THEN -x ELSE x
Quot(x, y) == IF (x < 0) # (y < 0) THEN -(Magnitude(x) \div Magnitude(y))
              ELSE Magnitude(x) \div Magnitude(y)
Rem(x, y) == x - Quot(x, y) * y
Downwards(n) == [k \in 1..n |-> n - k]

----------------------------------------------------------------------------
(* Arithmetic without + and *: carries, masks and long division.           *)

RECURSIVE AddWords(_, _)
AddWords(x, y) == IF y = 0 THEN x ELSE AddWords(x ^^ y, Word(2 * (x & y)))
Add(x, y) == Signed(AddWords(Word(x), Word(y)), BITS)
Subtract(x, y) == Add(x, Add(-y - 1, 1))

IsNegative(x) == x < 0
Mask(x) == IF IsNegative(x) THEN -1 ELSE 0
Abs(x) == Add(Signed(Word(x) ^^ Word(Mask(x)), BITS), -Mask(x))
Greater(a, b) == IF Subtract(a, b) < 0 THEN b ELSE a
Lesser(a, b) == IF Subtract(a, b) < 0 THEN a ELSE b
IsPower2(x) == x > 0 /\ Word(x) & Word(x - 1) = 0

(* One term for each bit of y: none when y is still negative, as INT_MIN.  *)
Multiply(x, y) ==
    LET terms == IF Abs(y) > 0 THEN BITS - 1 ELSE 0
        product == FoldLeft(LAMBDA r, k : Wrap(r + Wrap(Abs(x) * 2^k) * ((Abs(y) \div 2^k) % 2)),
                            0, Downwards(terms))
    IN  IF IsNegative(x) # IsNegative(y) THEN Wrap(-product) ELSE product

(* Mutant: the highest bit is left out.                                    *)
LongDivision_OneBitLess(a, b) ==
    FoldLeft(LAMBDA s, i : IF s.rest \div 2^i >= b
                           THEN [rest |-> s.rest - b * 2^i, quotient |-> s.quotient + 2^i]
                           ELSE s,
             [rest |-> a, quotient |-> 0], Downwards(BITS - 1))

LongDivision(a, b) ==
    FoldLeft(LAMBDA s, i : IF s.rest \div 2^i >= b
                           THEN [rest |-> s.rest - b * 2^i, quotient |-> s.quotient + 2^i]
                           ELSE s,
             [rest |-> a, quotient |-> 0], Downwards(BITS))
Divide(x, y) ==
    LET q == LongDivision(Magnitude(x), Magnitude(y)).quotient
    IN  IF y = 0 THEN 0 ELSE Wrap(IF x * y < 0 THEN -q ELSE q)
Modulo(x, y) ==
    LET r == LongDivision(Magnitude(x), Magnitude(y)).rest
    IN  IF y = 0 THEN 0 ELSE IF x < 0 THEN -r ELSE r

(* Square and multiply, over the bits of exp from the lowest.              *)
Power(base, exp) ==
    LET step(s, k) == [r |-> IF (Word(exp) \div 2^k) % 2 = 1 THEN Wrap(s.r * s.b) ELSE s.r,
                       b |-> Wrap(s.b * s.b)]
    IN  IF exp < 0 THEN 0
        ELSE FoldLeft(step, [r |-> 1, b |-> base], Reverse(Downwards(BITS))).r

RECURSIVE SqrtFrom(_, _, _)
SqrtFrom(n, res, bit) ==
    IF bit = 0 THEN res
    ELSE IF n >= res + bit THEN SqrtFrom(n - (res + bit), (res \div 2) + bit, bit \div 4)
    ELSE SqrtFrom(n, res \div 2, bit \div 4)
Sqrt(x) ==
    LET n == IF x < 0 THEN 0 ELSE x
    IN  SqrtFrom(n, 0, Max({0} \cup {4^k : k \in {j \in 0..(BITS - 2) \div 2 : 4^j <= n}}))

RECURSIVE Hcf(_, _)
Hcf(x, y) == IF y = 0 THEN x ELSE Hcf(y, Rem(x, y))
Lcm(x, y) == IF Hcf(x, y) = 0 THEN 0 ELSE Wrap(Quot(x, Hcf(x, y)) * y)

(* The divisors that are tried: i * i may wrap around and go on.           *)
RECURSIVE NoDivisor(_, _), FactorsFrom(_, _)
NoDivisor(x, i) == \/ Wrap(i * i) > x
                   \/ Rem(x, i) # 0 /\ NoDivisor(x, Wrap(i + 1))
IsPrime(x) == x >= 2 /\ NoDivisor(x, 2)
FactorsFrom(n, i) ==
    IF Wrap(i * i) > n THEN (IF n > 1 THEN <<n>> ELSE <<>>)
    ELSE IF Rem(n, i) = 0 THEN <<i>> \o FactorsFrom(Quot(n, i), i)
    ELSE FactorsFrom(n, Wrap(i + 1))
Factors(n) == FactorsFrom(n, 2)

(* sum is added to without having been set.                                *)
PrimeSum(x, unset) ==
    IF x < 2 THEN 0
    ELSE FoldLeft(Add, unset, SelectSeq([k \in 1..x |-> k], IsPrime))

RECURSIVE Log10(_)
Log10(n) == IF n < 10 THEN 0 ELSE 1 + Log10(n \div 10)
Log10Any(n) == IF n = 0 THEN -1 ELSE Log10(Wrap(Magnitude(n)))    \* the one of stdio

TabMult(x) == [i \in 1..9 |-> Multiply(x, i)]
DoOp(x, sign, y) ==
    CASE sign = "+" -> <<Add(x, y)>>
      [] sign = "-" -> <<Subtract(x, y)>>
      [] sign = "*" -> <<Multiply(x, y)>>
      [] sign = "/" -> <<Divide(x, y)>>
      [] sign = "%" -> <<Modulo(x, y)>>
      [] OTHER -> <<>>

----------------------------------------------------------------------------
(* Numerals.                                                               *)

After(s, P(_)) == LET n == SelectInSeq(s, LAMBDA c : ~P(c))
                  IN  IF n = 0 THEN <<>> ELSE SubSeq(s, n, Len(s))
While(s, P(_)) == LET n == SelectInSeq(s, LAMBDA c : ~P(c))
                  IN  IF n = 0 THEN s ELSE SubSeq(s, 1, n - 1)
AfterSpaces(s) == After(s, LAMBDA c : c = SPACE)
StartsWith(s, codes) == s # <<>> /\ s[1] \in codes
AfterSign(s) == IF StartsWith(s, {PLUS, MINUS}) THEN Tail(s) ELSE s
Sign(s) == IF StartsWith(s, {MINUS}) THEN -1 ELSE 1
Decimals(s) == While(AfterSign(s), LAMBDA c : c \in 0..9)

(* Mutant: no test for overflow.                                           *)
Atoi_NoLimit(str) ==
    LET s == AfterSpaces(str)
    IN  Wrap(Sign(s) * FoldLeft(LAMBDA r, d : WrapLong(10 * r + d), 0, Decimals(s)))

(* A sum that would leave the longs ends the conversion with an extreme    *)
(* int; one that does not is cut down to an int.                           *)
Atoi(str) ==
    LET s == AfterSpaces(str)
        leaves(r, d) == IF Sign(s) = 1 THEN r > (LONG_MAX - d) \div 10
                        ELSE WrapLong(-r) < Quot(LONG_MIN + d, 10)
        step(x, d) == IF x.out THEN x
                      ELSE IF leaves(x.result, d) THEN [x EXCEPT !.out = TRUE]
                      ELSE [x EXCEPT !.result = WrapLong(10 * @ + d)]
        end == FoldLeft(step, [result |-> 0, out |-> FALSE], Decimals(s))
    IN  IF ~end.out THEN Wrap(end.result * Sign(s))
        ELSE IF Sign(s) = 1 THEN INT_MAX ELSE INT_MIN

Atol(str) ==
    LET s == AfterSpaces(str)
    IN  WrapLong(Sign(s) * FoldLeft(LAMBDA r, d : WrapLong(10 * r + d), 0, Decimals(s)))

(* A character that is no digit at all counts as a zero.                   *)
ConvChar(c) == IF c \in 0..35 THEN c ELSE 0
ProcessDigits(s, base, sign) ==
    LET step(x, c) == IF x.out \/ x.res > (INT_MAX - ConvChar(c)) \div base
                      THEN [x EXCEPT !.out = TRUE]
                      ELSE [x EXCEPT !.res = @ * base + ConvChar(c)]
        end == FoldLeft(step, [res |-> 0, out |-> FALSE],
                        While(s, LAMBDA c : ConvChar(c) < base))
    IN  IF ~end.out THEN sign * end.res ELSE IF sign = 1 THEN INT_MAX ELSE INT_MIN
AtoiBase(str, base) ==
    LET s == AfterSpaces(str)
    IN  IF StartsWith(AfterSign(s), {PLUS, MINUS}) THEN 0
        ELSE ProcessDigits(AfterSign(s), base, Sign(s))

(* The digits of n, and how many cells are allocated for them.             *)
RECURSIVE Digits(_, _), Cells(_, _)
Digits(n, base) == IF n < base THEN <<n>> ELSE Append(Digits(n \div base, base), n % base)
Cells(n, base) == IF n = 0 THEN 0 ELSE 1 + Cells(Quot(n, base), base)

Itoa(n) == IF n < 0 THEN <<MINUS>> \o Digits(-n, 10) ELSE Digits(n, 10)
ItoaCells(n) == (IF n <= 0 THEN 1 ELSE 0) + Cells(n, 10)
Utoa(n) == Digits(n, 10)
Xtoa(n) == Digits(n, 16)
UtoaCells(n) == IF n = 0 THEN 1 ELSE Cells(n, 10)
XtoaCells(n) == IF n = 0 THEN 1 ELSE Cells(n, 16)

(* -INT_MIN is written as such by the one, and is still negative in the    *)
(* other, which then reads before its radix.                               *)
PutnbrFd(n) == Itoa(n)
PutnbrBase(n, base) ==
    LET m == Wrap(Magnitude(n))
    IN  IF base \notin 2..16 THEN <<>>
        ELSE (IF n < 0 THEN <<MINUS>> ELSE <<>>)
             \o (IF m < 0 THEN <<IF Rem(m, base) = 0 THEN 0 ELSE OUTSIDE>> ELSE Digits(m, base))

----------------------------------------------------------------------------
VARIABLE call

vars == <<call>>

Binary == {"add", "subtract", "multiply", "divide", "modulo", "power", "hcf", "lcm",
           "max", "min", "do_op"}
Unary == {"abs", "is_power2", "sqrt", "isprime", "fprime", "log10", "log10_any", "tab_mult",
          "itoa", "utoa", "xtoa", "putnbr_fd"}

Init == call = [fn |-> "none"]

(* What no caller may do: % does not give INT_MIN % -1.                    *)
Compute(fn, x, y) ==
    /\ call.fn = "none"
    /\ fn \in {"hcf", "lcm"} => INT_MIN \notin {x, y}
    /\ call' = [fn |-> fn, x |-> x, y |-> y]
ComputeOne(fn, x) == call.fn = "none" /\ call' = [fn |-> fn, x |-> x]
SumPrimes(x, unset) == call.fn = "none" /\ call' = [fn |-> "add_prime_sum", x |-> x, unset |-> unset]
ReadNumeral(fn, str) == call.fn = "none" /\ call' = [fn |-> fn, str |-> str]
ReadBase(str, base) ==
    call.fn = "none" /\ call' = [fn |-> "atoi_base", str |-> str, base |-> base]
WriteBase(x, base) ==
    call.fn = "none" /\ call' = [fn |-> "putnbr_base", x |-> x, base |-> base]

Next ==
    \/ \E fn \in Binary, x, y \in Operands : Compute(fn, x, y)
    \/ \E fn \in Unary, x \in INT_MIN..INT_MAX : ComputeOne(fn, x)
    \/ \E x \in INT_MIN..INT_MAX, unset \in Garbage : SumPrimes(x, unset)
    \/ \E fn \in {"atoi", "atol"}, str \in Numerals : ReadNumeral(fn, str)
    \/ \E str \in Numerals, base \in Bases : ReadBase(str, base)
    \/ \E x \in INT_MIN..INT_MAX, base \in Bases : WriteBase(x, base)

Spec == Init /\ [][Next]_vars

----------------------------------------------------------------------------
Divides(d, n) == Rem(n, d) = 0
Prime(n) == n >= 2 /\ \A d \in 2..n - 1 : ~Divides(d, n)
Product(s) == FoldLeft(LAMBDA p, n : p * n, 1, s)
Representable(n) == n \in INT_MIN..INT_MAX
SquareRoots == {r \in 0..INT_MAX : r * r <= INT_MAX}

Greatest(x, y) == Max({0} \cup {d \in 1..INT_MAX : Divides(d, x) /\ Divides(d, y)})

(* The masks, carries and shifts compute what the arithmetic they stand    *)
(* for does, wrapping around where an int does.  The exceptions are the    *)
(* code's own: INT_MIN as second factor gives 0, and max and min need a    *)
(* difference that does not wrap.                                          *)
ArithmeticExact ==
    LET x == call.x
        y == call.y
    IN  CASE call.fn = "add" -> Add(x, y) = Wrap(x + y)
          [] call.fn = "subtract" -> Subtract(x, y) = Wrap(x - y)
          [] call.fn = "multiply" ->
                Multiply(x, y) = IF y = INT_MIN THEN 0 ELSE Wrap(x * y)
          [] call.fn = "divide" -> Divide(x, y) = IF y = 0 THEN 0 ELSE Wrap(Quot(x, y))
          [] call.fn = "modulo" -> Modulo(x, y) = IF y = 0 THEN 0 ELSE Rem(x, y)
          [] call.fn = "power" -> 
                Power(x, y) = IF y < 0 THEN 0
                              ELSE FoldLeft(LAMBDA p, k : Wrap(p * x), 1, Downwards(y))
          [] call.fn = "hcf" -> Magnitude(Hcf(x, y)) = IF x = 0 /\ y = 0 THEN 0 ELSE Greatest(x, y)
          [] call.fn = "lcm" -> Hcf(x, y) # 0 => Lcm(x, y) = Wrap(Quot(x * y, Hcf(x, y)))
          [] call.fn = "max" -> Representable(x - y) => Greater(x, y) = Max({x, y})
          [] call.fn = "min" -> Representable(x - y) => Lesser(x, y) = Min({x, y})
          [] call.fn = "do_op" ->
                /\ \A op \in {"+", "-", "*", "/", "%"} : Len(DoOp(x, op, y)) = 1
                /\ y # 0 => LET q == DoOp(x, "/", y)[1]
                            IN  DoOp(DoOp(q, "*", y)[1], "+", DoOp(x, "%", y)[1]) = <<x>>
                                \/ y = INT_MIN
          [] call.fn = "abs" -> Abs(x) = Wrap(Magnitude(x))
          [] call.fn = "is_power2" -> IsPower2(x) <=> \E k \in 0..BITS - 2 : x = 2^k
          [] call.fn = "sqrt" ->
                IF x < 0 THEN Sqrt(x) = 0
                ELSE Sqrt(x) * Sqrt(x) <= x /\ x < (Sqrt(x) + 1) * (Sqrt(x) + 1)
          [] call.fn = "log10" -> x > 0 => 10^Log10(x) <= x /\ x < 10^(Log10(x) + 1)
          [] call.fn = "log10_any" ->
                x \notin {0, INT_MIN} => Log10Any(x) = Len(Digits(Magnitude(x), 10)) - 1
          [] call.fn = "tab_mult" -> \A i \in 1..9 : TabMult(x)[i] = Wrap(x * i)
          [] OTHER -> TRUE

(* A composite number is never called prime, and a prime only by a square  *)
(* that wraps around is not: above the greatest square.  The factors that  *)
(* are printed are ascending primes with n as product, for every n; the    *)
(* sum of primes is off by what the unset variable held.                   *)
PrimesFound ==
    LET square == Max({r * r : r \in SquareRoots})
    IN  CASE call.fn = "isprime" ->
                /\ IsPrime(call.x) => Prime(call.x)
                /\ Prime(call.x) /\ call.x < square => IsPrime(call.x)
          [] call.fn = "fprime" ->
                /\ call.x > 1 => Product(Factors(call.x)) = call.x
                /\ \A i \in DOMAIN Factors(call.x) :
                    /\ Prime(Factors(call.x)[i])
                    /\ i > 1 => Factors(call.x)[i - 1] <= Factors(call.x)[i]
          [] call.fn = "add_prime_sum" ->
                call.x \in 2..square - 1 =>
                    PrimeSum(call.x, call.unset) =
                        Wrap(call.unset + FoldLeft(LAMBDA s, n : s + n, 0,
                                                   SelectSeq([k \in 1..call.x |-> k], Prime)))
          [] OTHER -> TRUE

(* The number that is written: the value of a numeral's longest prefix.    *)
Value(digits, base) == FoldLeft(LAMBDA v, d : v * base + d, 0, digits)
Written(str) == Sign(AfterSpaces(str)) * Value(Decimals(AfterSpaces(str)), 10)

(* A numeral that fits an int is read as what it says, one that does not   *)
(* fit a long as the extreme int of its sign; between the two ft_atoi cuts *)
(* off the high bits, so that a pid of the command line may name another   *)
(* process.  ft_atol says only numerals that fit, and ft_atoi_base         *)
(* saturates at once.                                                      *)
NumeralsRead ==
    CASE call.fn = "atoi" ->
            LET n == Written(call.str)
            IN  /\ Representable(n) => Atoi(call.str) = n
                /\ n > LONG_MAX => Atoi(call.str) = INT_MAX
                /\ n < LONG_MIN => Atoi(call.str) = INT_MIN
                /\ n \in LONG_MIN..LONG_MAX => Atoi(call.str) = Wrap(n)
      [] call.fn = "atol" ->
            LET n == Written(call.str)
            IN  n \in LONG_MIN..LONG_MAX => Atol(call.str) = n
      [] call.fn = "atoi_base" ->
            LET s == AfterSpaces(call.str)
                digits == While(AfterSign(s), LAMBDA c : c \in 0..call.base - 1)
                n == Sign(s) * Value(digits, call.base)
            IN  Len(digits) = Len(AfterSign(s)) =>
                    AtoiBase(call.str, call.base) = Max({INT_MIN, Min({n, INT_MAX})})
      [] OTHER -> TRUE

(* What is written is read back as the same number, in base 10 and 16, in  *)
(* exactly the cells that were allocated, INT_MIN included.                *)
NumeralsReadBack ==
    CASE call.fn = "itoa" ->
            Atoi(Itoa(call.x)) = call.x /\ Len(Itoa(call.x)) = ItoaCells(call.x)
      [] call.fn = "utoa" ->
            /\ Atol(Utoa(Word(call.x))) = Word(call.x)
            /\ Len(Utoa(Word(call.x))) = UtoaCells(Word(call.x))
      [] call.fn = "xtoa" ->
            /\ Value(Xtoa(Word(call.x)), 16) = Word(call.x)
            /\ Len(Xtoa(Word(call.x))) = XtoaCells(Word(call.x))
      [] call.fn = "putnbr_fd" -> PutnbrFd(call.x) = Itoa(call.x)
      [] call.fn = "putnbr_base" ->
            call.base \in 2..16 /\ call.x # INT_MIN =>
                AtoiBase(PutnbrBase(call.x, call.base), call.base) = call.x
      [] OTHER -> TRUE
=============================================================================
