---------------------------- MODULE LogFormatter ----------------------------
(***************************************************************************)
(* log_msg (srcs/automata), compiled in with the Makefile's FLAG_DEBUG.    *)
(* A state machine reads a format string; its actions, character classes,  *)
(* flags, conversions and level strings are looked up in tables that the   *)
(* first call fills.  The process's main thread and its signal handler     *)
(* both call it; the handler interrupts the main thread between any two    *)
(* steps, never the other way round, and its own mask keeps a second       *)
(* handler out.                                                            *)
(*                                                                         *)
(* Text is a sequence of characters; a level string counts as one.  The    *)
(* argument of s is text, the others are integers, f's the whole part.     *)
(***************************************************************************)
EXTENDS Integers, Sequences, SequencesExt

CONSTANTS
    MainLines, HandlerLines,   \* what each thread logs: level, format, args
    ROOM                       \* 1023: the formatter stops there; the buffer
                               \* has the indices 0 to ROOM

RoomAssumption == ROOM \in Nat \ {0}

VARIABLES
    program,   \* whose process it is
    tables,    \* the tables that are filled, and "initialized"
    frame,     \* the call of log_msg under way in each thread
    logged,    \* a call has returned
    written    \* the line the last step wrote, and the index of its NUL

logVars == <<program, tables, frame, logged, written>>

Threads == {"main", "handler"}

(* The order in which get_parser_tables fills them.                        *)
Tables == <<"class", "state", "flag", "spec", "level">>

Flags == {"-", "+", " ", "#", "0"}
Specs == {"s", "d", "i", "u", "x", "X", "o", "c", "p", "f", "g", "G"}
Digits == <<"0", "1", "2", "3", "4", "5", "6", "7", "8", "9">>
Value(c) == SelectInSeq(Digits, LAMBDA d : d = c) - 1

(* What char_class_table says of c, in the order action_percent asks: a    *)
(* '0' is a flag before it is a digit.                                     *)
Class(c) ==
    CASE c = "%" -> "percent"
      [] c \in Flags -> "flag"
      [] c \in ToSet(Digits) \ Flags -> "digit"
      [] c = "." -> "dot"
      [] c \in {"l", "h", "L"} -> "length"
      [] c \in Specs -> "spec"
      [] OTHER -> "other"

NoSpec == [width |-> 0, precision |-> 0, precise |-> FALSE, flags |-> {},
           specifier |-> "none"]
NoLine == [level |-> "none", format |-> <<>>, args |-> <<>>]
Nothing == [line |-> NoLine, text |-> <<>>, nul |-> 0]
Idle == [pc |-> "idle", line |-> NoLine, at |-> 1, state |-> "NORMAL",
         spec |-> NoSpec, num |-> 0, arg |-> 1, text |-> <<>>]

LogStarted ==
    /\ tables = {}
    /\ frame = [t \in Threads |-> Idle]
    /\ logged = FALSE
    /\ written = Nothing
LogInit == program \in {"client", "server"} /\ LogStarted

(***************************************************************************)
(* Conversions                                                             *)
(***************************************************************************)

Blank(n) == [i \in 1..n |-> " "]

Numeral(n, base, digits) ==
    LET of[m \in 0..n] == IF m < base THEN <<digits[m + 1]>>
                          ELSE Append(of[m \div base], digits[(m % base) + 1])
    IN  of[n]

SignPrefix(spec, negative) ==
    IF negative THEN <<"-">>
    ELSE IF "+" \in spec.flags THEN <<"+">>
    ELSE IF " " \in spec.flags THEN <<" ">> ELSE <<>>

(* format_number: neither width nor precision nor zero padding.            *)
IntText(n, spec) ==
    LET negative == n < 0 /\ spec.specifier \in {"d", "i"}
        base == IF spec.specifier \in {"x", "X", "p"} THEN 16
                ELSE IF spec.specifier = "o" THEN 8 ELSE 10
        digits == Digits \o IF spec.specifier = "X" THEN <<"A", "B", "C", "D", "E", "F">>
                                                    ELSE <<"a", "b", "c", "d", "e", "f">>
    IN  SignPrefix(spec, negative)
        \o IF n < 0 /\ ~negative THEN <<>>
           ELSE Numeral(IF negative THEN -n ELSE n, base, digits)

(* buffer_append_str_formatted                                             *)
StrText(s, spec) ==
    LET kept == IF spec.precise /\ spec.precision < Len(s)
                THEN SubSeq(s, 1, spec.precision) ELSE s
        padding == IF spec.width > Len(kept) THEN Blank(spec.width - Len(kept)) ELSE <<>>
    IN  IF "-" \in spec.flags THEN kept \o padding ELSE padding \o kept

PointerText(arg, spec) == <<"0", "x">> \o IntText(arg, spec)

Converted(spec, arg) ==
    CASE spec.specifier = "s" -> StrText(arg, spec)
      [] spec.specifier = "c" -> <<arg>>
      [] spec.specifier = "p" -> PointerText(arg, spec)
      [] OTHER -> IntText(arg, spec)

(***************************************************************************)
(* The actions of the state machine, on the frame f that runs it           *)
(***************************************************************************)

(* Mutant: the bound is one too high.                                      *)
Clipped_OneMore(s) ==
    SubSeq(s, 1, IF Len(s) <= ROOM THEN Len(s) ELSE ROOM + 1)

(* buffer_append_char and its like: what does not fit is dropped.          *)
Clipped(s) == SubSeq(s, 1, IF Len(s) < ROOM THEN Len(s) ELSE ROOM)
Appended(f, s) == [f EXCEPT !.text = Clipped(@ \o s)]
Goto(f, state) == [f EXCEPT !.state = state]

ClassIn(c) == IF "class" \in tables THEN Class(c) ELSE "other"
IsDigit(c) == "class" \in tables /\ c \in ToSet(Digits)
WithFlag(f, c) ==
    IF "flag" \in tables THEN [f EXCEPT !.spec.flags = @ \cup {c}] ELSE f

ActionNormal(f, c) ==
    IF c = "%" THEN [f EXCEPT !.spec = NoSpec, !.state = "PERCENT"]
               ELSE Goto(Appended(f, <<c>>), "NORMAL")

OtherChars(f, c) ==
    CASE ClassIn(c) = "digit" -> [f EXCEPT !.num = Value(c), !.state = "WIDTH"]
      [] ClassIn(c) = "dot" ->
            [f EXCEPT !.spec.precise = TRUE, !.num = 0, !.state = "PRECISION"]
      [] ClassIn(c) = "length" -> Goto(f, "LENGTH")
      [] ClassIn(c) = "spec" -> [f EXCEPT !.spec.specifier = c, !.state = "SPECIFIER"]
      [] OTHER -> Goto(f, "ERROR")

ActionPercent(f, c) ==
    CASE ClassIn(c) = "percent" -> Goto(Appended(f, <<"%">>), "NORMAL")
      [] ClassIn(c) = "flag" -> Goto(WithFlag(f, c), "FLAGS")
      [] OTHER -> OtherChars(f, c)

ActionFlags(f, c) ==
    IF ClassIn(c) = "flag" THEN Goto(WithFlag(f, c), "FLAGS") ELSE ActionPercent(f, c)
ActionLength(f, c) == ActionPercent(f, c)

WithDigit(f, c) == [f EXCEPT !.num = 10 * @ + Value(c)]

(* Mutant: the number never becomes the width.                             *)
ActionWidth_Unset(f, c) ==
    IF IsDigit(c) THEN WithDigit(f, c) ELSE ActionPercent(f, c)

ActionWidth(f, c) ==
    IF IsDigit(c) THEN WithDigit(f, c)
    ELSE ActionPercent([f EXCEPT !.spec.width = f.num], c)

ActionPrecision(f, c) ==
    IF IsDigit(c) THEN WithDigit(f, c)
    ELSE ActionPercent([f EXCEPT !.spec.precision = f.num], c)

(* The character that brings the machine here is not looked at: it is the  *)
(* one behind the conversion, and it is lost.                              *)
ActionSpecifier(f) ==
    Goto(IF "spec" \in tables
         THEN [Appended(f, Converted(f.spec, f.line.args[f.arg])) EXCEPT !.arg = @ + 1]
         ELSE Appended(f, <<"%", f.spec.specifier>>),
         "NORMAL")

Action(f, c) ==
    IF "state" \notin tables THEN Goto(f, "ERROR")
    ELSE CASE f.state = "NORMAL" -> ActionNormal(f, c)
           [] f.state = "PERCENT" -> ActionPercent(f, c)
           [] f.state = "FLAGS" -> ActionFlags(f, c)
           [] f.state = "LENGTH" -> ActionLength(f, c)
           [] f.state = "WIDTH" -> ActionWidth(f, c)
           [] f.state = "PRECISION" -> ActionPrecision(f, c)
           [] f.state = "SPECIFIER" -> ActionSpecifier(f)

(* One turn of ctx_parsing: an error is forgotten at once, with its        *)
(* character.                                                              *)
Parsed(f) ==
    LET g == Action(f, f.line.format[f.at])
    IN  [g EXCEPT !.at = @ + 1, !.state = IF @ = "ERROR" THEN "NORMAL" ELSE @]

(***************************************************************************)
(* The calls                                                               *)
(***************************************************************************)

Update(t, f) == frame' = [frame EXCEPT ![t] = f]
Silent == written' = Nothing
Runs(t) == t = "main" => frame["handler"].pc = "idle"

(* Mutant: a server that logs from its main thread before any client.      *)
MayLog_AtStart(t) == t \in Threads

(* The client's main thread logs before it installs a handler, the         *)
(* server's only about a client that a handler has logged.                 *)
MayLog(t) ==
    \/ t = "main" /\ program = "client"
    \/ t = "handler" /\ program = "server"
    \/ logged

LogMsg(t, lines) ==
    \E line \in lines :
        /\ Runs(t) /\ frame[t].pc = "idle" /\ MayLog(t)
        /\ Update(t, [Idle EXCEPT !.pc = "enter", !.line = line])
        /\ Silent /\ UNCHANGED <<program, tables, logged>>

(* get_parser_tables raises its flag first.                                *)
EnterTables(t) ==
    /\ Runs(t) /\ frame[t].pc = "enter"
    /\ tables' = tables \cup {"initialized"}
    /\ Update(t, [frame[t] EXCEPT
          !.pc = IF "initialized" \in tables THEN "level" ELSE "fill"])
    /\ Silent /\ UNCHANGED <<program, logged>>

(* at counts the tables, then the characters of the format.                *)
FillTable(t) ==
    LET f == frame[t]
        done == f.at = Len(Tables)
    IN  /\ Runs(t) /\ f.pc = "fill"
        /\ tables' = tables \cup {Tables[f.at]}
        /\ Update(t, [f EXCEPT !.pc = IF done THEN "level" ELSE "fill",
                               !.at = IF done THEN 1 ELSE @ + 1])
        /\ Silent /\ UNCHANGED <<program, logged>>

PutLevel(t) ==
    LET f == frame[t]
    IN  /\ Runs(t) /\ f.pc = "level"
        /\ Update(t, Appended([f EXCEPT !.pc = "format"],
                              <<IF "level" \in tables THEN f.line.level ELSE "UNKNOWN">>))
        /\ Silent /\ UNCHANGED <<program, tables, logged>>

MoreToParse(f) == f.at <= Len(f.line.format) /\ Len(f.text) < ROOM

ParseChar(t) ==
    /\ Runs(t) /\ frame[t].pc = "format" /\ MoreToParse(frame[t])
    /\ Update(t, Parsed(frame[t]))
    /\ Silent /\ UNCHANGED <<program, tables, logged>>

(* The newline goes to index pos, the NUL to the next one.                 *)
WriteLine(t) ==
    LET f == frame[t]
    IN  /\ Runs(t) /\ f.pc = "format" /\ ~MoreToParse(f)
        /\ written' = [line |-> f.line, text |-> f.text, nul |-> Len(f.text) + 1]
        /\ logged' = TRUE
        /\ Update(t, Idle)
        /\ UNCHANGED <<program, tables>>

LogNext ==
    \/ LogMsg("main", MainLines)
    \/ LogMsg("handler", HandlerLines)
    \/ \E t \in Threads :
        \/ EnterTables(t) \/ FillTable(t) \/ PutLevel(t) \/ ParseChar(t) \/ WriteLine(t)

LogSpec == LogInit /\ [][LogNext]_logVars

(***************************************************************************)
(* What a line should look like: the format read as a whole                *)
(***************************************************************************)

Modifiers == Flags \cup ToSet(Digits) \cup {".", "l", "h", "L"}

(* The character i of modifiers m belongs to a number: a '0' starts one    *)
(* only behind a dot.                                                      *)
InNumber(m, i) ==
    \E s \in 1..i : /\ \A j \in s..i : m[j] \in ToSet(Digits)
                    /\ m[s] # "0" \/ (s > 1 /\ m[s - 1] = ".")

(* The number that ends at i, 0 without one.                               *)
NumberTo(m, i) ==
    LET to[j \in 0..i] == IF j = 0 \/ ~InNumber(m, j) THEN 0
                          ELSE 10 * to[j - 1] + Value(m[j])
    IN  to[i]
AfterDot(m, i) == \E s \in 1..i : m[s] = "." /\ \A j \in s + 1..i : m[j] \in ToSet(Digits)
NumberEnds(m) == {i \in DOMAIN m : InNumber(m, i) /\ ~(i < Len(m) /\ InNumber(m, i + 1))}
LastOf(m, S) == IF S = {} THEN 0 ELSE NumberTo(m, CHOOSE i \in S : \A j \in S : j <= i)

SpecOf(m, c) ==
    [flags |-> {m[i] : i \in {j \in DOMAIN m : m[j] \in Flags /\ ~InNumber(m, j)}},
     width |-> LastOf(m, {i \in NumberEnds(m) : ~AfterDot(m, i)}),
     precise |-> \E i \in DOMAIN m : m[i] = ".",
     precision |-> LastOf(m, {i \in DOMAIN m :
                       AfterDot(m, i) /\ (i < Len(m) => ~AfterDot(m, i + 1) \/ m[i + 1] = ".")}),
     specifier |-> c]

(* Where the modifiers behind the % at i end, 0 if the format ends first.  *)
Stop(fmt, i) == SelectInSubSeq(fmt, i + 1, Len(fmt), LAMBDA c : c \notin Modifiers)

(* A conversion is shown if a character follows it, and takes that one     *)
(* with it.                                                                *)
Converts(fmt, i) ==
    /\ fmt[i] = "%"
    /\ Stop(fmt, i) \notin {0, Len(fmt)}
    /\ fmt[Stop(fmt, i)] \in Specs

After(fmt, i) ==
    IF fmt[i] # "%" THEN i + 1
    ELSE IF Stop(fmt, i) = 0 THEN Len(fmt) + 1
    ELSE IF Converts(fmt, i) THEN Stop(fmt, i) + 2 ELSE Stop(fmt, i) + 1

(* What is shown of anything else: a conversion that is not known vanishes *)
(* with its letter.                                                        *)
Plain(fmt, i) ==
    IF fmt[i] # "%" THEN <<fmt[i]>>
    ELSE IF Stop(fmt, i) # 0 /\ fmt[Stop(fmt, i)] = "%" THEN <<"%">> ELSE <<>>

SpecAt(fmt, i) == SpecOf(SubSeq(fmt, i + 1, Stop(fmt, i) - 1), fmt[Stop(fmt, i)])

(* The caller passes what the conversion c reads.                          *)
Suits(c, arg) ==
    CASE c = "s" -> arg \in Seq(STRING)
      [] c = "c" -> arg \in STRING
      [] OTHER -> arg \in Int
HasArg(line, i, k) ==
    k \in DOMAIN line.args /\ Suits(line.format[Stop(line.format, i)], line.args[k])

(* From character i on, with argument k next, for <<i, k>>; nothing is     *)
(* said of what a conversion without its argument shows.                   *)
Places(line) == (1..Len(line.format) + 1) \X (1..Len(line.args) + 1)
TextFrom(line) ==
    LET fmt == line.format
        from[p \in Places(line)] ==
            IF p[1] > Len(fmt) THEN <<>>
            ELSE IF ~Converts(fmt, p[1]) THEN Plain(fmt, p[1]) \o from[<<After(fmt, p[1]), p[2]>>]
            ELSE IF HasArg(line, p[1], p[2])
                 THEN Converted(SpecAt(fmt, p[1]), line.args[p[2]])
                      \o from[<<After(fmt, p[1]), p[2] + 1>>]
            ELSE <<>>
    IN  from
TextOf(line) == <<line.level>> \o TextFrom(line)[<<1, 1>>]

(* Every conversion from there on has its argument.                        *)
SuitedFrom(line) ==
    LET fmt == line.format
        suited[p \in Places(line)] ==
            IF p[1] > Len(fmt) THEN TRUE
            ELSE IF ~Converts(fmt, p[1]) THEN suited[<<After(fmt, p[1]), p[2]>>]
            ELSE HasArg(line, p[1], p[2]) /\ suited[<<After(fmt, p[1]), p[2] + 1>>]
    IN  suited

IsLine(line) ==
    /\ line = [level |-> line.level, format |-> line.format, args |-> line.args]
    /\ line.level \in STRING /\ line.format \in Seq(STRING)
    /\ Len(line.args) \in Nat /\ DOMAIN line.args = 1..Len(line.args)
    /\ SuitedFrom(line)[<<1, 1>>]
FormatAssumption == RoomAssumption /\ \A line \in MainLines \cup HandlerLines : IsLine(line)

(***************************************************************************)
(* Properties                                                              *)
(***************************************************************************)

(* No thread looks anything up in tables that another one is still         *)
(* filling.                                                                *)
TablesReady ==
    \A t \in Threads :
        frame[t].pc \in {"level", "format"} => ToSet(Tables) \subseteq tables

(* A line shows its own format and arguments, as far as it fits, whatever  *)
(* the other thread logged meanwhile.                                      *)
LineIsItsOwn ==
    written.line # NoLine => written.text = Clipped(TextOf(written.line))

(* The formatter stays inside the buffer; the NUL lands behind it only     *)
(* when the formatter has filled all it may.                               *)
LineFits ==
    /\ \A t \in Threads : Len(frame[t].text) <= ROOM
    /\ written.nul <= ROOM \/ Len(TextOf(written.line)) >= ROOM
=============================================================================
