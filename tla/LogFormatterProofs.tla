------------------------ MODULE LogFormatterProofs -------------------------
(***************************************************************************)
(* What the log formatter promises, for every set of lines, every format   *)
(* and every size of the buffer.                                           *)
(***************************************************************************)
EXTENDS LogFormatter, SequenceProofs

States == {"NORMAL", "PERCENT", "FLAGS", "LENGTH", "WIDTH", "PRECISION", "SPECIFIER"}

(***************************************************************************)
(* The tables.  The flag "initialized" goes up before they are filled, so  *)
(* it is only safe to trust it because nobody logs for the first time      *)
(* while the other thread does.                                            *)
(***************************************************************************)
IsFrame(f) ==
    /\ {"pc", "at", "state"} \subseteq DOMAIN f
    /\ f.pc \in {"idle", "enter", "fill", "level", "format"}
    /\ f.state \in States

Filled == ToSet(Tables) \subseteq tables
First == IF program = "client" THEN "main" ELSE "handler"

(* What the tables hold, by where thread t is.                             *)
ThreadInv(t) ==
    /\ IsFrame(frame[t])
    /\ frame[t].pc = "enter" => frame[t].at = 1
    /\ frame[t].pc = "fill" =>
          /\ frame[t].at \in 1..Len(Tables)
          /\ \A j \in 1..frame[t].at - 1 : Tables[j] \in tables
          /\ "initialized" \in tables /\ ~logged
    /\ frame[t].pc \in {"level", "format"} => Filled /\ "initialized" \in tables
    /\ t # First => logged \/ frame[t].pc = "idle"

TablesInv ==
    /\ program \in {"client", "server"}
    /\ frame = [t \in Threads |-> frame[t]]
    /\ \A t \in Threads : ThreadInv(t)
    /\ "initialized" \in tables => Filled \/ \E t \in Threads : frame[t].pc = "fill"
    /\ logged => Filled /\ "initialized" \in tables

(***************************************************************************)
(* The parser leaves the place of the call alone                           *)
(***************************************************************************)
(* g is f with other contents, and a state the parser knows or ERROR.      *)
Continues(f, g) ==
    DOMAIN g = DOMAIN f /\ g.pc = f.pc /\ g.state \in States \cup {"ERROR"}

LEMMA AppendedContinues ==
    ASSUME NEW f, IsFrame(f), NEW s
    PROVE  LET g == Appended(f, s)
           IN  DOMAIN g = DOMAIN f /\ g.pc = f.pc /\ g.at = f.at /\ g.state = f.state
BY DEF Appended, IsFrame

LEMMA OtherContinues ==
    ASSUME NEW f, IsFrame(f), NEW c
    PROVE  Continues(f, OtherChars(f, c))
<1>. DEFINE k == ClassIn(c)
<1>. HIDE DEF k
<1>1. CASE k = "digit"
  BY <1>1 DEF OtherChars, Continues, IsFrame, States, k
<1>2. CASE k = "dot"
  BY <1>2 DEF OtherChars, Continues, IsFrame, States, k
<1>3. CASE k = "length"
  BY <1>3 DEF OtherChars, Goto, Continues, IsFrame, States, k
<1>4. CASE k = "spec"
  BY <1>4 DEF OtherChars, Continues, IsFrame, States, k
<1>5. CASE k \notin {"digit", "dot", "length", "spec"}
  BY <1>5 DEF OtherChars, Goto, Continues, IsFrame, States, k
<1>. QED  BY <1>1, <1>2, <1>3, <1>4, <1>5

LEMMA FlagContinues ==
    ASSUME NEW f, IsFrame(f), NEW c
    PROVE  Continues(f, Goto(WithFlag(f, c), "FLAGS"))
BY DEF WithFlag, Goto, Continues, IsFrame, States

LEMMA PercentContinues ==
    ASSUME NEW f, IsFrame(f), NEW c
    PROVE  Continues(f, ActionPercent(f, c))
<1>. DEFINE k == ClassIn(c)
<1>. HIDE DEF k
<1>1. CASE k = "percent"
  BY <1>1, AppendedContinues DEF ActionPercent, Goto, Continues, IsFrame, States, k
<1>2. CASE k = "flag"
  BY <1>2, FlagContinues DEF ActionPercent, k
<1>3. CASE k \notin {"percent", "flag"}
  BY <1>3, OtherContinues DEF ActionPercent, k
<1>. QED  BY <1>1, <1>2, <1>3

LEMMA ActionContinues ==
    ASSUME NEW f, IsFrame(f), NEW c
    PROVE  Continues(f, Action(f, c))
<1>. DEFINE ready == "state" \in tables
<1>. HIDE DEF ready
<1>1. CASE ~ready
  <2>1. Action(f, c) = Goto(f, "ERROR")
    BY <1>1 DEF Action, ready, IsFrame, States
  <2>. QED  BY <2>1 DEF Goto, Continues, IsFrame
<1>2. CASE ready /\ f.state = "NORMAL"
  <2>1. Action(f, c) = ActionNormal(f, c)
    BY <1>2 DEF Action, ready
  <2>2. Continues(f, ActionNormal(f, c))
    BY AppendedContinues DEF ActionNormal, Goto, Continues, IsFrame, States
  <2>. QED  BY <2>1, <2>2
<1>3. CASE ready /\ f.state = "PERCENT"
  BY <1>3, PercentContinues DEF Action, ready
<1>4. CASE ready /\ f.state = "FLAGS"
  <2>1. Action(f, c) = ActionFlags(f, c)
    BY <1>4 DEF Action, ready
  <2>. QED  BY <2>1, PercentContinues, FlagContinues DEF ActionFlags
<1>5. CASE ready /\ f.state = "LENGTH"
  BY <1>5, PercentContinues DEF Action, ActionLength, ready
<1>6. CASE ready /\ f.state = "WIDTH"
  <2>. DEFINE g == [f EXCEPT !.spec.width = f.num]
  <2>1. Action(f, c) = ActionWidth(f, c)
    BY <1>6 DEF Action, ready
  <2>2. Continues(f, WithDigit(f, c))
    BY DEF WithDigit, Continues, IsFrame
  <2>3. IsFrame(g) /\ DOMAIN g = DOMAIN f /\ g.pc = f.pc
    BY DEF IsFrame
  <2>4. Continues(f, ActionPercent(g, c))
    BY <2>3, PercentContinues DEF Continues
  <2>. QED  BY <2>1, <2>2, <2>4 DEF ActionWidth
<1>7. CASE ready /\ f.state = "PRECISION"
  <2>. DEFINE g == [f EXCEPT !.spec.precision = f.num]
  <2>1. Action(f, c) = ActionPrecision(f, c)
    BY <1>7 DEF Action, ready
  <2>2. Continues(f, WithDigit(f, c))
    BY DEF WithDigit, Continues, IsFrame
  <2>3. IsFrame(g) /\ DOMAIN g = DOMAIN f /\ g.pc = f.pc
    BY DEF IsFrame
  <2>4. Continues(f, ActionPercent(g, c))
    BY <2>3, PercentContinues DEF Continues
  <2>. QED  BY <2>1, <2>2, <2>4 DEF ActionPrecision
<1>8. CASE ready /\ f.state = "SPECIFIER"
  <2>1. Action(f, c) = ActionSpecifier(f)
    BY <1>8 DEF Action, ready
  <2>2. \A s : LET g == [Appended(f, s) EXCEPT !.arg = @ + 1]
               IN  DOMAIN g = DOMAIN f /\ g.pc = f.pc
    BY AppendedContinues DEF IsFrame
  <2>3. \A s : DOMAIN Appended(f, s) = DOMAIN f /\ Appended(f, s).pc = f.pc
    BY AppendedContinues
  <2>. QED  BY <2>1, <2>2, <2>3 DEF ActionSpecifier, Goto, Continues, IsFrame, States
<1>. QED
  BY <1>1, <1>2, <1>3, <1>4, <1>5, <1>6, <1>7, <1>8 DEF IsFrame, States

LEMMA ParsedFrame ==
    ASSUME NEW f, IsFrame(f)
    PROVE  IsFrame(Parsed(f)) /\ Parsed(f).pc = f.pc
<1>. DEFINE g == Action(f, f.line.format[f.at])
            h == [g EXCEPT !.at = @ + 1, !.state = IF @ = "ERROR" THEN "NORMAL" ELSE @]
<1>1. Continues(f, g)
  BY ActionContinues
<1>2. Parsed(f) = h
  BY DEF Parsed
<1>. HIDE DEF g
<1>3. DOMAIN h = DOMAIN f /\ h.pc = f.pc
      /\ h.state = IF g.state = "ERROR" THEN "NORMAL" ELSE g.state
  BY <1>1 DEF Continues, IsFrame
<1>. QED  BY <1>1, <1>2, <1>3 DEF Continues, IsFrame, States

(***************************************************************************)
(* Initial states and steps                                                *)
(***************************************************************************)
LEMMA IdleFrame == IsFrame(Idle) /\ Idle.pc = "idle" /\ Idle.at = 1
BY DEF Idle, IsFrame, States

LEMMA InitTables == LogInit => TablesInv
<1>. SUFFICES ASSUME LogInit  PROVE TablesInv
  OBVIOUS
<1>1. \A t \in Threads : frame[t] = Idle
  BY DEF LogInit, LogStarted
<1>. QED  BY <1>1, IdleFrame DEF LogInit, LogStarted, TablesInv, ThreadInv

(* A step of thread t, seen from the other.                                *)
LEMMA Updated ==
    ASSUME TablesInv, NEW t \in Threads, NEW f, Update(t, f)
    PROVE  /\ frame' = [u \in Threads |-> frame'[u]]
           /\ frame'[t] = f
           /\ \A u \in Threads : u # t => frame'[u] = frame[u]
BY DEF TablesInv, Update

LEMMA TablesList ==
    /\ Len(Tables) = 5
    /\ ToSet(Tables) = {Tables[j] : j \in 1..5}
BY DEF Tables, ToSet

LEMMA CallStep ==
    ASSUME TablesInv, NEW t \in Threads, NEW lines, LogMsg(t, lines)
    PROVE  TablesInv'
<1>1. PICK line \in lines :
        /\ frame[t].pc = "idle" /\ MayLog(t)
        /\ Update(t, [Idle EXCEPT !.pc = "enter", !.line = line])
        /\ UNCHANGED <<program, tables, logged>>
  BY DEF LogMsg
<1>. DEFINE f == [Idle EXCEPT !.pc = "enter", !.line = line]
<1>2. IsFrame(f) /\ f.pc = "enter" /\ f.at = 1
  BY IdleFrame DEF Idle, IsFrame
<1>. HIDE DEF f
<1>3. /\ frame' = [u \in Threads |-> frame'[u]] /\ frame'[t] = f
      /\ \A u \in Threads : u # t => frame'[u] = frame[u]
  BY <1>1, Updated DEF f
<1>4. t # First => logged
  BY <1>1 DEF MayLog, First, Threads, TablesInv
<1>5. \A u \in Threads : ThreadInv(u)'
  BY <1>1, <1>2, <1>3, <1>4 DEF TablesInv, ThreadInv, Filled, First
<1>. QED  BY <1>1, <1>3, <1>5 DEF TablesInv, Filled

LEMMA EnterStep ==
    ASSUME TablesInv, NEW t \in Threads, EnterTables(t)
    PROVE  TablesInv'
<1>. DEFINE f == [frame[t] EXCEPT !.pc = IF "initialized" \in tables THEN "level" ELSE "fill"]
<1>1. /\ frame[t].pc = "enter" /\ tables' = tables \cup {"initialized"}
      /\ Update(t, f) /\ UNCHANGED <<program, logged>>
  BY DEF EnterTables
<1>2. /\ IsFrame(f) /\ f.at = 1
      /\ f.pc = IF "initialized" \in tables THEN "level" ELSE "fill"
  BY <1>1 DEF TablesInv, ThreadInv, IsFrame
<1>. HIDE DEF f
<1>3. /\ frame' = [u \in Threads |-> frame'[u]] /\ frame'[t] = f
      /\ \A u \in Threads : u # t => frame'[u] = frame[u]
  BY <1>1, Updated
<1>4. "initialized" \in tables => Filled
  <2>. SUFFICES ASSUME NEW u \in Threads, frame[u].pc = "fill"  PROVE FALSE
    BY DEF TablesInv
  <2>1. ~logged /\ u = First /\ t = First
    BY <1>1 DEF TablesInv, ThreadInv
  <2>. QED  BY <1>1, <2>1
<1>5. Filled => Filled'
  BY <1>1 DEF Filled
<1>6. ThreadInv(t)'
  <2>1. CASE "initialized" \in tables
    BY <1>1, <1>2, <1>3, <1>4, <1>5, <2>1 DEF TablesInv, ThreadInv, First
  <2>2. CASE "initialized" \notin tables
    <3>1. ~logged
      BY <2>2 DEF TablesInv
    <3>2. 1 \in 1..Len(Tables) /\ \A j \in 1..1 - 1 : Tables[j] \in tables'
      BY TablesList
    <3>. QED  BY <1>1, <1>2, <1>3, <2>2, <3>1, <3>2 DEF TablesInv, ThreadInv, First
  <2>. QED  BY <2>1, <2>2
<1>7. \A u \in Threads : u # t => ThreadInv(u)'
  BY <1>1, <1>3, <1>5 DEF TablesInv, ThreadInv, First
<1>8. Filled' \/ \E u \in Threads : frame'[u].pc = "fill"
  BY <1>2, <1>3, <1>4, <1>5
<1>. QED  BY <1>1, <1>3, <1>5, <1>6, <1>7, <1>8 DEF TablesInv

LEMMA FillStep ==
    ASSUME TablesInv, NEW t \in Threads, FillTable(t)
    PROVE  TablesInv'
<1>. DEFINE done == frame[t].at = Len(Tables)
            f == [frame[t] EXCEPT !.pc = IF done THEN "level" ELSE "fill",
                                  !.at = IF done THEN 1 ELSE @ + 1]
<1>1. /\ frame[t].pc = "fill" /\ tables' = tables \cup {Tables[frame[t].at]}
      /\ Update(t, f) /\ UNCHANGED <<program, logged>>
  BY DEF FillTable
<1>2. /\ IsFrame(f)
      /\ f.at = IF done THEN 1 ELSE frame[t].at + 1
      /\ f.pc = IF done THEN "level" ELSE "fill"
  BY DEF TablesInv, ThreadInv, IsFrame
<1>. HIDE DEF f
<1>3. /\ frame' = [u \in Threads |-> frame'[u]] /\ frame'[t] = f
      /\ \A u \in Threads : u # t => frame'[u] = frame[u]
  BY <1>1, Updated
<1>4. /\ frame[t].at \in 1..5 /\ \A j \in 1..frame[t].at : Tables[j] \in tables'
      /\ "initialized" \in tables' /\ ~logged
  <2>1. /\ frame[t].at \in 1..5 /\ \A j \in 1..frame[t].at - 1 : Tables[j] \in tables
        /\ "initialized" \in tables /\ ~logged
    BY <1>1, TablesList DEF TablesInv, ThreadInv
  <2>2. \A j \in 1..frame[t].at : j \in 1..frame[t].at - 1 \/ j = frame[t].at
    BY <2>1
  <2>. QED  BY <1>1, <2>1, <2>2
<1>5. Filled => Filled'
  BY <1>1 DEF Filled
<1>6. done => Filled'
  BY <1>4, TablesList DEF Filled
<1>7. ThreadInv(t)'
  <2>1. CASE done
    BY <1>1, <1>2, <1>3, <1>4, <1>6, <2>1 DEF TablesInv, ThreadInv, First
  <2>2. CASE ~done
    <3>1. f.at \in 1..5 /\ f.at - 1 = frame[t].at
      BY <1>2, <1>4, <2>2, TablesList
    <3>. QED  BY <1>1, <1>2, <1>3, <1>4, <2>2, <3>1, TablesList DEF TablesInv, ThreadInv, First
  <2>. QED  BY <2>1, <2>2
<1>8. \A u \in Threads : u # t => ThreadInv(u)'
  BY <1>1, <1>3, <1>5 DEF TablesInv, ThreadInv, First
<1>9. Filled' \/ \E u \in Threads : frame'[u].pc = "fill"
  BY <1>2, <1>3, <1>6
<1>. QED  BY <1>1, <1>3, <1>4, <1>7, <1>8, <1>9 DEF TablesInv

LEMMA LevelStep ==
    ASSUME TablesInv, NEW t \in Threads, PutLevel(t)
    PROVE  TablesInv'
<1>. DEFINE g == [frame[t] EXCEPT !.pc = "format"]
            f(s) == Appended(g, s)
<1>1. PICK s : frame[t].pc = "level" /\ Update(t, f(s)) /\ UNCHANGED <<program, tables, logged>>
  BY DEF PutLevel
<1>2. IsFrame(f(s)) /\ f(s).pc = "format"
  <2>1. IsFrame(g) /\ g.pc = "format"
    BY DEF TablesInv, ThreadInv, IsFrame
  <2>. QED  BY <2>1, AppendedContinues DEF IsFrame
<1>. HIDE DEF f
<1>3. /\ frame' = [u \in Threads |-> frame'[u]] /\ frame'[t] = f(s)
      /\ \A u \in Threads : u # t => frame'[u] = frame[u]
  BY <1>1, Updated
<1>4. \A u \in Threads : ThreadInv(u)'
  BY <1>1, <1>2, <1>3 DEF TablesInv, ThreadInv, Filled, First
<1>5. \A u \in Threads : frame[u].pc = "fill" => frame'[u].pc = "fill"
  BY <1>1, <1>3
<1>. QED  BY <1>1, <1>3, <1>4, <1>5 DEF TablesInv, Filled

LEMMA ParseStep ==
    ASSUME TablesInv, NEW t \in Threads, ParseChar(t)
    PROVE  TablesInv'
<1>. DEFINE f == Parsed(frame[t])
<1>1. frame[t].pc = "format" /\ Update(t, f) /\ UNCHANGED <<program, tables, logged>>
  BY DEF ParseChar
<1>2. IsFrame(f) /\ f.pc = "format"
  BY <1>1, ParsedFrame DEF TablesInv, ThreadInv
<1>. HIDE DEF f
<1>3. /\ frame' = [u \in Threads |-> frame'[u]] /\ frame'[t] = f
      /\ \A u \in Threads : u # t => frame'[u] = frame[u]
  BY <1>1, Updated
<1>4. \A u \in Threads : ThreadInv(u)'
  BY <1>1, <1>2, <1>3 DEF TablesInv, ThreadInv, Filled, First
<1>5. \A u \in Threads : frame[u].pc = "fill" => frame'[u].pc = "fill"
  BY <1>1, <1>3
<1>. QED  BY <1>1, <1>3, <1>4, <1>5 DEF TablesInv, Filled

LEMMA WriteStep ==
    ASSUME TablesInv, NEW t \in Threads, WriteLine(t)
    PROVE  TablesInv'
<1>1. /\ frame[t].pc = "format" /\ Update(t, Idle)
      /\ logged' = TRUE /\ UNCHANGED <<program, tables>>
  BY DEF WriteLine
<1>2. /\ frame' = [u \in Threads |-> frame'[u]] /\ frame'[t] = Idle
      /\ \A u \in Threads : u # t => frame'[u] = frame[u]
  BY <1>1, Updated
<1>3. Filled /\ "initialized" \in tables
  BY <1>1 DEF TablesInv, ThreadInv
<1>4. \A u \in Threads : frame'[u].pc # "fill"
  <2>. SUFFICES ASSUME NEW u \in Threads, frame'[u].pc = "fill"  PROVE FALSE
    OBVIOUS
  <2>1. u # t /\ frame[u].pc = "fill"
    BY <1>2, IdleFrame
  <2>2. ~logged /\ u = First /\ t = First
    BY <1>1, <2>1 DEF TablesInv, ThreadInv
  <2>. QED  BY <2>1, <2>2
<1>5. \A u \in Threads : ThreadInv(u)'
  BY <1>1, <1>2, <1>3, <1>4, IdleFrame DEF TablesInv, ThreadInv, Filled, First
<1>. QED  BY <1>1, <1>2, <1>3, <1>5 DEF TablesInv, Filled

LEMMA NextTables == TablesInv /\ [LogNext]_logVars => TablesInv'
<1>. SUFFICES ASSUME TablesInv, [LogNext]_logVars  PROVE TablesInv'
  OBVIOUS
<1>1. CASE \E t \in Threads, lines \in {MainLines, HandlerLines} : LogMsg(t, lines)
  BY <1>1, CallStep
<1>2. CASE \E t \in Threads : EnterTables(t)
  BY <1>2, EnterStep
<1>3. CASE \E t \in Threads : FillTable(t)
  BY <1>3, FillStep
<1>4. CASE \E t \in Threads : PutLevel(t)
  BY <1>4, LevelStep
<1>5. CASE \E t \in Threads : ParseChar(t)
  BY <1>5, ParseStep
<1>6. CASE \E t \in Threads : WriteLine(t)
  BY <1>6, WriteStep
<1>7. CASE UNCHANGED logVars
  BY <1>7 DEF logVars, TablesInv, ThreadInv, Filled, First
<1>. QED  BY <1>1, <1>2, <1>3, <1>4, <1>5, <1>6, <1>7 DEF LogNext, Threads

(* No thread looks anything up in tables that another one is still filling *)
(* (get_parser_tables, called from log_msg in main thread and handler).    *)
THEOREM TablesAlwaysReady == LogSpec => []TablesReady
<1>1. TablesInv => TablesReady
  BY DEF TablesInv, ThreadInv, TablesReady, Filled
<1>. QED  BY <1>1, InitTables, NextTables, PTL DEF LogSpec

(***************************************************************************)
(* What is converted is text                                               *)
(***************************************************************************)
(* The provers do not know of any literal that it is a string.             *)
Char == STRING \cup {"0", "1", "2", "3", "4", "5", "6", "7", "8", "9", "a", "b", "c", "d", "e", "f",
                     "A", "B", "C", "D", "E", "F", "-", "+", " ", "x", "%", "none", "UNKNOWN"}

SpecType == [width : Nat, precision : Nat, precise : BOOLEAN, flags : SUBSET Char,
             specifier : Char]

LEMMA DividedLess ==
    ASSUME NEW base \in {8, 10, 16}, NEW m \in Nat, ~(m < base)
    PROVE  m \div base \in Nat /\ m \div base < m /\ m % base \in 0..base - 1
<1>1. CASE base = 8
  BY <1>1
<1>2. CASE base = 10
  BY <1>2
<1>3. CASE base = 16
  BY <1>3
<1>. QED  BY <1>1, <1>2, <1>3

LEMMA NumeralType ==
    ASSUME NEW n \in Nat, NEW base \in {8, 10, 16},
           NEW digits \in Seq(Char), base <= Len(digits)
    PROVE  Numeral(n, base, digits) \in Seq(Char)
<1>. DEFINE D == 0..n
            V == Seq(Char)
            B == {m \in D : m < base}
            val == [m \in B |-> <<digits[m + 1]>>]
            next == [m \in D \ B |-> m \div base]
            step == [m \in D \ B |-> [v \in V |-> Append(v, digits[(m % base) + 1])]]
            rank == [m \in D |-> m]
            of == CHOOSE g : g = [m \in D |->
                      IF m < base THEN <<digits[m + 1]>>
                      ELSE Append(g[m \div base], digits[(m % base) + 1])]
<1>1. \A k \in 0..base - 1 : digits[k + 1] \in Char
  <2>1. \A k \in 0..base - 1 : k + 1 \in 1..Len(digits)
    BY LenProperties
  <2>. QED  BY <2>1, ElementOfSeq
<1>2. \A m \in B : m \in 0..base - 1
  OBVIOUS
<1>3. \A m \in D \ B : m \div base \in D /\ m \div base < m /\ m % base \in 0..base - 1
  BY DividedLess
<1>4. \A v \in V, k \in 0..base - 1 : Append(v, digits[k + 1]) \in V
  BY <1>1, AppendProperties
<1>5. val \in [B -> V]
  <2>1. \A m \in B : <<digits[m + 1]>> \in Seq(Char)
    <3>. TAKE m \in B
    <3>1. digits[m + 1] \in Char
      BY <1>1, <1>2
    <3>. QED  BY <3>1
  <2>. QED  BY <2>1
<1>6. step \in [D \ B -> [V -> V]]
  BY <1>3, <1>4
<1>7. next \in [D \ B -> D] /\ rank \in [D -> 0..n] /\ \A m \in D \ B : rank[next[m]] < rank[m]
  BY <1>3
<1>8. <<>> \in V /\ V # {}
  OBVIOUS
<1>9. Descends(D, V, B, val, next, step, rank, n)
  <2>1. B \in SUBSET D
    OBVIOUS
  <2>. HIDE DEF D, V, B, val, next, step, rank
  <2>. QED  BY <1>5, <1>6, <1>7, <1>8, <2>1 DEF Descends
<1>10. PICK f \in [D -> V] : \A m \in D : f[m] = IF m \in B THEN val[m] ELSE step[m][f[next[m]]]
  <2>. HIDE DEF D, V, B, val, next, step, rank
  <2>. QED  BY <1>9, RecursionExists
<1>11. f = [m \in D |-> IF m < base THEN <<digits[m + 1]>>
                        ELSE Append(f[m \div base], digits[(m % base) + 1])]
  <2>1. \A m \in D : f[m] = IF m < base THEN <<digits[m + 1]>>
                            ELSE Append(f[m \div base], digits[(m % base) + 1])
    <3>. TAKE m \in D
    <3>1. CASE m < base
      BY <1>10, <3>1
    <3>2. CASE ~(m < base)
      <4>1. m \in D \ B /\ next[m] = m \div base /\ next[m] \in D
        BY <1>3, <3>2
      <4>2. f[next[m]] \in V
        BY <4>1
      <4>3. step[m][f[next[m]]] = Append(f[next[m]], digits[(m % base) + 1])
        BY <4>1, <4>2
      <4>4. f[m] = step[m][f[next[m]]]
        <5>. HIDE DEF val, next, step, V
        <5>. QED  BY <1>10, <4>1
      <4>. QED  BY <3>2, <4>1, <4>3, <4>4
    <3>. QED  BY <3>1, <3>2
  <2>. QED  BY <2>1
<1>. HIDE DEF D, V, B, val, next, step, rank
<1>12. of = [m \in D |-> IF m < base THEN <<digits[m + 1]>>
                         ELSE Append(of[m \div base], digits[(m % base) + 1])]
  BY <1>11
<1>13. Numeral(n, base, digits) = of[n]
  BY DEF Numeral, D
<1>. HIDE DEF of
<1>. DEFINE good == {m \in Nat : m \in D => of[m] \in V}
<1>14. ASSUME NEW m \in Nat, \A k \in 0..m - 1 : k \in good, m \in D  PROVE of[m] \in V
  <2>1. CASE m < base
    <3>1. m \in B /\ of[m] = val[m]
      BY <1>12, <1>14, <2>1 DEF B, val
    <3>. QED  BY <1>5, <3>1
  <2>2. CASE ~(m < base)
    <3>1. m \in D \ B
      BY <1>14, <2>2 DEF B
    <3>2. m \div base \in D /\ m \div base < m /\ m % base \in 0..base - 1 /\ m \div base \in 0..m - 1
      BY <1>3, <3>1 DEF D
    <3>3. of[m \div base] \in V
      BY <1>14, <3>2
    <3>4. of[m] = Append(of[m \div base], digits[(m % base) + 1])
      BY <1>12, <1>14, <2>2
    <3>. QED  BY <1>4, <3>2, <3>3, <3>4
  <2>. QED  BY <2>1, <2>2
<1>15. Nat \subseteq good
  <2>1. \A m \in Nat : (\A k \in 0..m - 1 : k \in good) => m \in good
    BY <1>14
  <2>. HIDE DEF good
  <2>. QED  BY <2>1, NoLeastMissing
<1>16. n \in D
  BY DEF D
<1>. QED  BY <1>13, <1>15, <1>16 DEF V

LEMMA DigitsType ==
    /\ Digits \o <<"A", "B", "C", "D", "E", "F">> \in Seq(Char)
    /\ Digits \o <<"a", "b", "c", "d", "e", "f">> \in Seq(Char)
    /\ Len(Digits \o <<"A", "B", "C", "D", "E", "F">>) = 16
    /\ Len(Digits \o <<"a", "b", "c", "d", "e", "f">>) = 16
<1>1. Digits \in Seq(Char) /\ Len(Digits) = 10
  BY DEF Digits, Char
<1>2. /\ <<"A", "B", "C", "D", "E", "F">> \in Seq(Char)
      /\ <<"a", "b", "c", "d", "e", "f">> \in Seq(Char)
      /\ Len(<<"A", "B", "C", "D", "E", "F">>) = 6 /\ Len(<<"a", "b", "c", "d", "e", "f">>) = 6
  BY DEF Char
<1>3. ASSUME NEW s \in Seq(Char), Len(s) = 6
      PROVE  Digits \o s \in Seq(Char) /\ Len(Digits \o s) = 16
  <2>1. Digits \o s \in Seq(Char) /\ Len(Digits \o s) = Len(Digits) + Len(s)
    BY <1>1, ConcatProperties
  <2>2. 10 + 6 = 16
    OBVIOUS
  <2>. QED  BY <1>1, <1>3, <2>1, <2>2
<1>. QED  BY <1>2, <1>3

LEMMA IntTextType ==
    ASSUME NEW n \in Int, NEW spec \in SpecType
    PROVE  IntText(n, spec) \in Seq(Char)
<1>. DEFINE negative == n < 0 /\ spec.specifier \in {"d", "i"}
            base == IF spec.specifier \in {"x", "X", "p"} THEN 16
                    ELSE IF spec.specifier = "o" THEN 8 ELSE 10
            digits == Digits \o IF spec.specifier = "X" THEN <<"A", "B", "C", "D", "E", "F">>
                                                        ELSE <<"a", "b", "c", "d", "e", "f">>
            whole == IF n < 0 /\ ~negative THEN <<>>
                     ELSE Numeral(IF negative THEN -n ELSE n, base, digits)
<1>1. IntText(n, spec) = SignPrefix(spec, negative) \o whole
  BY DEF IntText
<1>2. SignPrefix(spec, negative) \in Seq(Char)
  <2>1. <<"-">> \in Seq(Char) /\ <<"+">> \in Seq(Char) /\ <<" ">> \in Seq(Char)
        /\ <<>> \in Seq(Char)
    BY DEF Char
  <2>. QED  BY <2>1 DEF SignPrefix
<1>3. base \in {8, 10, 16} /\ base <= 16
  OBVIOUS
<1>4. digits \in Seq(Char) /\ Len(digits) = 16
  BY DigitsType
<1>5. whole \in Seq(Char)
  <2>1. CASE n < 0 /\ ~negative
    <3>1. whole = <<>>
      BY <2>1
    <3>. HIDE DEF whole
    <3>. QED  BY <3>1
  <2>2. CASE ~(n < 0 /\ ~negative)
    <3>. DEFINE k == IF negative THEN -n ELSE n
    <3>1. k \in Nat
      BY <2>2
    <3>2. whole = Numeral(k, base, digits)
      BY <2>2
    <3>. HIDE DEF k, base, digits, whole
    <3>. QED  BY <1>3, <1>4, <3>1, <3>2, NumeralType
  <2>. QED  BY <2>1, <2>2
<1>. HIDE DEF whole, negative
<1>. QED  BY <1>1, <1>2, <1>5, ConcatProperties

LEMMA StrTextType ==
    ASSUME NEW s \in Seq(Char), NEW spec \in SpecType
    PROVE  StrText(s, spec) \in Seq(Char)
<1>. DEFINE kept == IF spec.precise /\ spec.precision < Len(s)
                    THEN SubSeq(s, 1, spec.precision) ELSE s
            padding == IF spec.width > Len(kept) THEN Blank(spec.width - Len(kept)) ELSE <<>>
<1>1. kept \in Seq(Char) /\ Len(kept) \in Nat
  <2>1. Len(s) \in Nat /\ spec.precision \in Nat
    BY LenProperties DEF SpecType
  <2>2. spec.precision < Len(s) => SubSeq(s, 1, spec.precision) \in Seq(Char)
    <3>1. \A k \in 1..Len(s) : s[k] \in Char
      BY ElementOfSeq
    <3>. QED  BY <2>1, <3>1, SubSeqProperties
  <2>3. kept \in Seq(Char)
    BY <2>2
  <2>. QED  BY <2>3, LenProperties
<1>. HIDE DEF kept
<1>2. padding \in Seq(Char)
  <2>1. CASE spec.width > Len(kept)
    <3>1. spec.width - Len(kept) \in Nat
      BY <1>1, <2>1 DEF SpecType
    <3>2. \A k \in Nat : Blank(k) \in Seq(Char)
      <4>1. " " \in Char
        BY DEF Char
      <4>2. \A k \in Nat : Blank(k) \in [1..k -> Char]
        BY <4>1 DEF Blank
      <4>. QED  BY <4>2
    <3>. QED  BY <2>1, <3>1, <3>2
  <2>2. CASE ~(spec.width > Len(kept))
    <3>1. padding = <<>>
      BY <2>2
    <3>. HIDE DEF padding
    <3>. QED  BY <3>1
  <2>. QED  BY <2>1, <2>2
<1>. HIDE DEF padding
<1>3. StrText(s, spec) = IF "-" \in spec.flags THEN kept \o padding ELSE padding \o kept
  BY DEF StrText, kept, padding
<1>. QED  BY <1>1, <1>2, <1>3, ConcatProperties

LEMMA CharSeq == Seq(STRING) \subseteq Seq(Char)
<1>1. STRING \subseteq Char
  BY DEF Char
<1>. QED  BY <1>1, SeqMonotonic

LEMMA ConvertedType ==
    ASSUME NEW spec \in SpecType, NEW arg, Suits(spec.specifier, arg)
    PROVE  Converted(spec, arg) \in Seq(Char)
<1>. DEFINE c == spec.specifier
<1>. HIDE DEF c
<1>1. CASE c = "s"
  <2>1. arg \in Seq(STRING) /\ Converted(spec, arg) = StrText(arg, spec)
    BY <1>1 DEF Suits, Converted, c
  <2>2. arg \in Seq(Char)
    BY <2>1, CharSeq
  <2>. QED  BY <2>1, <2>2, StrTextType
<1>2. CASE c = "c"
  <2>1. arg \in Char /\ Converted(spec, arg) = <<arg>>
    BY <1>2 DEF Suits, Converted, Char, c
  <2>. QED  BY <2>1
<1>3. CASE c = "p"
  <2>1. arg \in Int /\ Converted(spec, arg) = <<"0", "x">> \o IntText(arg, spec)
    BY <1>3 DEF Suits, Converted, PointerText, c
  <2>2. IntText(arg, spec) \in Seq(Char)
    BY <2>1, IntTextType
  <2>3. <<"0", "x">> \in Seq(Char)
    BY DEF Char
  <2>. QED  BY <2>1, <2>2, <2>3, ConcatProperties
<1>4. CASE c \notin {"s", "c", "p"}
  <2>1. arg \in Int /\ Converted(spec, arg) = IntText(arg, spec)
    BY <1>4 DEF Suits, Converted, c
  <2>. QED  BY <2>1, IntTextType
<1>. QED  BY <1>1, <1>2, <1>3, <1>4

(***************************************************************************)
(* Modifiers: which of them make a number, and which number                *)
(***************************************************************************)
LEMMA DigitSet ==
    ToSet(Digits) = {"0", "1", "2", "3", "4", "5", "6", "7", "8", "9"}
<1>1. ToSet(Digits) = {Digits[j] : j \in 1..10}
  BY DEF Digits, ToSet
<1>. QED  BY <1>1 DEF Digits

LEMMA ValueType ==
    ASSUME NEW c \in ToSet(Digits)
    PROVE  Value(c) \in Nat
<1>. DEFINE I == {k \in 1..Len(Digits) : Digits[k] = c}
<1>1. Value(c) = (IF I # {} THEN Min(I) ELSE 0) - 1
  BY DEF Value, SelectInSeq
<1>2. Len(Digits) = 10
  BY DEF Digits
<1>3. I # {} /\ I \subseteq Nat
  <2>1. ToSet(Digits) = {Digits[j] : j \in 1..10}
    BY DEF Digits, ToSet
  <2>. QED  BY <1>2, <2>1
<1>4. Min(I) \in I
  BY <1>3, LeastOf
<1>. QED  BY <1>1, <1>2, <1>3, <1>4

LEMMA InNumberNext ==
    ASSUME NEW m, NEW p \in Nat \ {0}
    PROVE  InNumber(m, p) <=>
              /\ m[p] \in ToSet(Digits)
              /\ m[p] # "0" \/ (p > 1 /\ (m[p - 1] = "." \/ InNumber(m, p - 1)))
<1>1. ASSUME InNumber(m, p)
      PROVE  /\ m[p] \in ToSet(Digits)
             /\ m[p] # "0" \/ (p > 1 /\ (m[p - 1] = "." \/ InNumber(m, p - 1)))
  <2>1. PICK s \in 1..p : /\ \A j \in s..p : m[j] \in ToSet(Digits)
                          /\ m[s] # "0" \/ (s > 1 /\ m[s - 1] = ".")
    BY <1>1 DEF InNumber
  <2>2. m[p] \in ToSet(Digits)
    BY <2>1
  <2>3. CASE s = p
    BY <2>1, <2>2, <2>3
  <2>4. CASE s # p
    <3>1. s \in 1..p - 1 /\ p > 1 /\ \A j \in s..p - 1 : j \in s..p
      BY <2>4
    <3>2. InNumber(m, p - 1)
      BY <2>1, <3>1 DEF InNumber
    <3>. QED  BY <2>2, <3>1, <3>2
  <2>. QED  BY <2>3, <2>4
<1>2. ASSUME m[p] \in ToSet(Digits),
             m[p] # "0" \/ (p > 1 /\ (m[p - 1] = "." \/ InNumber(m, p - 1)))
      PROVE  InNumber(m, p)
  <2>1. CASE m[p] # "0" \/ (p > 1 /\ m[p - 1] = ".")
    <3>1. p \in 1..p /\ \A j \in p..p : m[j] \in ToSet(Digits)
      BY <1>2
    <3>. QED  BY <2>1, <3>1 DEF InNumber
  <2>2. CASE p > 1 /\ InNumber(m, p - 1)
    <3>1. PICK s \in 1..p - 1 : /\ \A j \in s..p - 1 : m[j] \in ToSet(Digits)
                                /\ m[s] # "0" \/ (s > 1 /\ m[s - 1] = ".")
      BY <2>2 DEF InNumber
    <3>2. s \in 1..p /\ \A j \in s..p : j \in s..p - 1 \/ j = p
      OBVIOUS
    <3>3. \A j \in s..p : m[j] \in ToSet(Digits)
      BY <1>2, <3>1, <3>2
    <3>. QED  BY <3>1, <3>2, <3>3 DEF InNumber
  <2>. QED  BY <1>2, <2>1, <2>2
<1>. QED  BY <1>1, <1>2

LEMMA AfterDotNext ==
    ASSUME NEW m, NEW p \in Nat \ {0}
    PROVE  AfterDot(m, p) <=>
              m[p] = "." \/ (m[p] \in ToSet(Digits) /\ p > 1 /\ AfterDot(m, p - 1))
<1>1. ASSUME AfterDot(m, p)
      PROVE  m[p] = "." \/ (m[p] \in ToSet(Digits) /\ p > 1 /\ AfterDot(m, p - 1))
  <2>1. PICK s \in 1..p : m[s] = "." /\ \A j \in s + 1..p : m[j] \in ToSet(Digits)
    BY <1>1 DEF AfterDot
  <2>2. CASE s = p
    BY <2>1, <2>2
  <2>3. CASE s # p
    <3>1. s \in 1..p - 1 /\ p > 1 /\ p \in s + 1..p /\ \A j \in s + 1..p - 1 : j \in s + 1..p
      BY <2>3
    <3>2. AfterDot(m, p - 1)
      BY <2>1, <3>1 DEF AfterDot
    <3>. QED  BY <2>1, <3>1, <3>2
  <2>. QED  BY <2>2, <2>3
<1>2. ASSUME m[p] = "."  PROVE AfterDot(m, p)
  <2>1. p \in 1..p /\ p + 1..p = {}
    OBVIOUS
  <2>. QED  BY <1>2, <2>1 DEF AfterDot
<1>3. ASSUME m[p] \in ToSet(Digits), p > 1, AfterDot(m, p - 1)  PROVE AfterDot(m, p)
  <2>1. PICK s \in 1..p - 1 : m[s] = "." /\ \A j \in s + 1..p - 1 : m[j] \in ToSet(Digits)
    BY <1>3 DEF AfterDot
  <2>2. s \in 1..p /\ \A j \in s + 1..p : j \in s + 1..p - 1 \/ j = p
    OBVIOUS
  <2>3. \A j \in s + 1..p : m[j] \in ToSet(Digits)
    BY <1>3, <2>1, <2>2
  <2>. QED  BY <2>1, <2>2, <2>3 DEF AfterDot
<1>. QED  BY <1>1, <1>2, <1>3

(* Every digit behind a dot is of a number.                                *)
LEMMA DotDigit ==
    ASSUME NEW m, NEW p \in Nat \ {0}, AfterDot(m, p), m[p] \in ToSet(Digits)
    PROVE  InNumber(m, p)
<1>1. PICK s \in 1..p : m[s] = "." /\ \A j \in s + 1..p : m[j] \in ToSet(Digits)
  BY DEF AfterDot
<1>2. s # p
  BY <1>1, DigitSet
<1>3. s + 1 \in 1..p /\ s + 1 > 1 /\ (s + 1) - 1 = s
  BY <1>2
<1>4. m[(s + 1) - 1] = "."
  BY <1>1, <1>3
<1>. QED  BY <1>1, <1>3, <1>4 DEF InNumber

LEMMA NumberToNext ==
    ASSUME NEW m, NEW p \in Nat
    PROVE  /\ NumberTo(m, p) \in Nat
           /\ p = 0 \/ ~InNumber(m, p) => NumberTo(m, p) = 0
           /\ p > 0 /\ InNumber(m, p) =>
                 NumberTo(m, p) = 10 * NumberTo(m, p - 1) + Value(m[p])
<1>. DEFINE Starts(j) == j = 0 \/ ~InNumber(m, j)
            IsTo(f, n) == f = [j \in 0..n |-> IF Starts(j) THEN 0
                                              ELSE 10 * f[j - 1] + Value(m[j])]
            to(n) == CHOOSE f : IsTo(f, n)
<1>1. \A j \in Nat : ~Starts(j) => j > 0 /\ Value(m[j]) \in Nat
  <2>. TAKE j \in Nat
  <2>. HAVE ~Starts(j)
  <2>1. j \in Nat \ {0}
    OBVIOUS
  <2>. QED  BY <2>1, InNumberNext, ValueType
<1>2. \A n \in Nat : NumberTo(m, n) = to(n)[n]
  BY DEF NumberTo
<1>. HIDE DEF Starts
<1>3. ASSUME NEW n \in Nat  PROVE \E f \in [0..n -> Nat] : IsTo(f, n)
  <2>. DEFINE D == 0..n
              B == {j \in D : Starts(j)}
              val == [j \in B |-> 0]
              next == [j \in D \ B |-> j - 1]
              step == [j \in D \ B |-> [v \in Nat |-> 10 * v + Value(m[j])]]
              rank == [j \in D |-> j]
  <2>1. B \in SUBSET D /\ val \in [B -> Nat] /\ Nat # {}
    OBVIOUS
  <2>2. \A j \in D \ B : j > 0 /\ j - 1 \in D /\ Value(m[j]) \in Nat
    BY <1>1
  <2>3. next \in [D \ B -> D] /\ rank \in [D -> 0..n] /\ \A j \in D \ B : rank[next[j]] < rank[j]
    BY <2>2
  <2>4. step \in [D \ B -> [Nat -> Nat]]
    BY <2>2
  <2>5. Descends(D, Nat, B, val, next, step, rank, n)
    <3>. HIDE DEF D, B, val, next, step, rank
    <3>. QED  BY <2>1, <2>3, <2>4 DEF Descends
  <2>6. PICK f \in [D -> Nat] : \A j \in D : f[j] = IF j \in B THEN val[j] ELSE step[j][f[next[j]]]
    <3>. HIDE DEF D, B, val, next, step, rank
    <3>. QED  BY <2>5, RecursionExists
  <2>7. \A j \in D : f[j] = IF Starts(j) THEN 0 ELSE 10 * f[j - 1] + Value(m[j])
    <3>. TAKE j \in D
    <3>1. CASE Starts(j)
      BY <2>6, <3>1
    <3>2. CASE ~Starts(j)
      <4>1. j \in D \ B /\ next[j] = j - 1 /\ next[j] \in D /\ f[next[j]] \in Nat
        BY <2>2, <2>6, <3>2
      <4>2. step[j][f[next[j]]] = 10 * f[next[j]] + Value(m[j])
        BY <4>1
      <4>3. f[j] = step[j][f[next[j]]]
        <5>. HIDE DEF val, next, step
        <5>. QED  BY <2>6, <4>1
      <4>. QED  BY <3>2, <4>1, <4>2, <4>3
    <3>. QED  BY <3>1, <3>2
  <2>8. f = [j \in D |-> IF Starts(j) THEN 0 ELSE 10 * f[j - 1] + Value(m[j])]
    BY <2>7
  <2>. QED  BY <2>6, <2>8
<1>4. \A n \in Nat : IsTo(to(n), n)
  BY <1>3
<1>. HIDE DEF to
<1>5. \A n \in Nat : \A j \in 0..n : to(n)[j] = IF Starts(j) THEN 0 ELSE 10 * to(n)[j - 1] + Value(m[j])
  BY <1>4
<1>. DEFINE good == {j \in Nat : \A n \in Nat : j <= n => to(n)[j] = to(j)[j] /\ to(j)[j] \in Nat}
<1>6. ASSUME NEW j \in Nat, \A k \in 0..j - 1 : k \in good, NEW n \in Nat, j <= n
      PROVE  to(n)[j] = to(j)[j] /\ to(j)[j] \in Nat
  <2>1. j \in 0..n /\ j \in 0..j
    BY <1>6
  <2>2. /\ to(n)[j] = IF Starts(j) THEN 0 ELSE 10 * to(n)[j - 1] + Value(m[j])
        /\ to(j)[j] = IF Starts(j) THEN 0 ELSE 10 * to(j)[j - 1] + Value(m[j])
    BY <1>5, <2>1
  <2>3. CASE Starts(j)
    BY <2>2, <2>3
  <2>4. CASE ~Starts(j)
    <3>1. j > 0 /\ Value(m[j]) \in Nat
      BY <1>1, <2>4
    <3>2. j - 1 \in 0..j - 1 /\ j - 1 <= n /\ j - 1 <= j /\ j - 1 \in Nat
      BY <1>6, <3>1
    <3>3. to(n)[j - 1] = to(j - 1)[j - 1] /\ to(j)[j - 1] = to(j - 1)[j - 1] /\ to(j - 1)[j - 1] \in Nat
      BY <1>6, <3>2
    <3>. QED  BY <2>2, <2>4, <3>1, <3>3
  <2>. QED  BY <2>3, <2>4
<1>7. Nat \subseteq good
  <2>1. \A j \in Nat : (\A k \in 0..j - 1 : k \in good) => j \in good
    BY <1>6
  <2>. HIDE DEF good
  <2>. QED  BY <2>1, NoLeastMissing
<1>8. \A j, n \in Nat : j <= n => to(n)[j] = NumberTo(m, j) /\ NumberTo(m, j) \in Nat
  BY <1>2, <1>7
<1>9. NumberTo(m, p) = IF Starts(p) THEN 0 ELSE 10 * to(p)[p - 1] + Value(m[p])
  <2>1. p \in 0..p
    OBVIOUS
  <2>. QED  BY <1>2, <1>5, <2>1
<1>10. ~Starts(p) => to(p)[p - 1] = NumberTo(m, p - 1)
  <2>. HAVE ~Starts(p)
  <2>1. p - 1 \in Nat /\ p - 1 <= p
    BY <1>1
  <2>. QED  BY <1>8, <2>1
<1>11. NumberTo(m, p) \in Nat
  BY <1>8
<1>. QED  BY <1>9, <1>10, <1>11 DEF Starts

LEMMA LastOfMax ==
    ASSUME NEW m, NEW S, S \subseteq Nat
    PROVE  /\ S = {} => LastOf(m, S) = 0
           /\ \A x \in S : (\A j \in S : j <= x) => LastOf(m, S) = NumberTo(m, x)
<1>1. S = {} => LastOf(m, S) = 0
  BY DEF LastOf
<1>2. ASSUME NEW x \in S, \A j \in S : j <= x  PROVE LastOf(m, S) = NumberTo(m, x)
  <2>. DEFINE y == CHOOSE i \in S : \A j \in S : j <= i
  <2>1. y \in S /\ \A j \in S : j <= y
    BY <1>2
  <2>2. LastOf(m, S) = NumberTo(m, y)
    BY <1>2 DEF LastOf
  <2>. HIDE DEF y
  <2>3. y <= x /\ x <= y /\ x \in Nat /\ y \in Nat
    BY <1>2, <2>1
  <2>4. x = y
    BY <2>3
  <2>. QED  BY <2>2, <2>4
<1>. QED  BY <1>1, <1>2

(***************************************************************************)
(* Where the modifiers of a conversion end                                 *)
(***************************************************************************)
(* The place behind them.                                                  *)
End(fmt, i) == IF Stop(fmt, i) = 0 THEN Len(fmt) + 1 ELSE Stop(fmt, i)
ModsAt(fmt, i) == SubSeq(fmt, i + 1, End(fmt, i) - 1)

LEMMA StopFacts ==
    ASSUME NEW fmt \in Seq(STRING), NEW i \in 1..Len(fmt)
    PROVE  /\ Stop(fmt, i) \in {0} \cup i + 1..Len(fmt)
           /\ End(fmt, i) \in i + 1..Len(fmt) + 1
           /\ \A j \in i + 1..End(fmt, i) - 1 : fmt[j] \in Modifiers
           /\ Stop(fmt, i) # 0 => fmt[Stop(fmt, i)] \notin Modifiers
<1>. DEFINE I == {j \in i + 1..Len(fmt) : fmt[j] \notin Modifiers}
            s == Stop(fmt, i)
            e == End(fmt, i)
<1>1. s = IF I # {} THEN Min(I) ELSE 0
  BY DEF Stop, SelectInSubSeq
<1>2. e = IF s = 0 THEN Len(fmt) + 1 ELSE s
  BY DEF End
<1>3. Len(fmt) \in Nat /\ I \subseteq Nat /\ I \subseteq i + 1..Len(fmt)
  OBVIOUS
<1>4. I # {} => Min(I) \in I /\ \A j \in I : Min(I) <= j
  BY <1>3, LeastOf
<1>. SUFFICES /\ s \in {0} \cup i + 1..Len(fmt)
              /\ e \in i + 1..Len(fmt) + 1
              /\ \A j \in i + 1..e - 1 : fmt[j] \in Modifiers
              /\ s # 0 => fmt[s] \notin Modifiers
  OBVIOUS
<1>. HIDE DEF s, e
<1>5. CASE I = {}
  <2>1. s = 0 /\ e = Len(fmt) + 1
    BY <1>1, <1>2, <1>5
  <2>2. \A j \in i + 1..e - 1 : fmt[j] \in Modifiers
    BY <1>3, <1>5, <2>1
  <2>. QED  BY <1>3, <2>1, <2>2
<1>6. CASE I # {}
  <2>1. s \in I /\ \A j \in I : s <= j
    BY <1>1, <1>4, <1>6
  <2>2. s \in i + 1..Len(fmt) /\ fmt[s] \notin Modifiers /\ s # 0 /\ e = s
    BY <1>2, <1>3, <2>1
  <2>3. \A j \in i + 1..e - 1 : fmt[j] \in Modifiers
    <3>. TAKE j \in i + 1..e - 1
    <3>1. j \in i + 1..Len(fmt) /\ ~(s <= j)
      BY <1>3, <2>2
    <3>. QED  BY <2>1, <3>1
  <2>. QED  BY <1>3, <2>2, <2>3
<1>. QED  BY <1>5, <1>6

LEMMA ModsFacts ==
    ASSUME NEW fmt \in Seq(STRING), NEW i \in 1..Len(fmt)
    PROVE  /\ ModsAt(fmt, i) \in Seq(Modifiers) /\ ModsAt(fmt, i) \in Seq(STRING)
           /\ Len(ModsAt(fmt, i)) = End(fmt, i) - 1 - i
           /\ \A j \in 1..End(fmt, i) - 1 - i : ModsAt(fmt, i)[j] = fmt[i + j]
<1>. DEFINE e == End(fmt, i)
            m == ModsAt(fmt, i)
<1>1. e \in i + 1..Len(fmt) + 1 /\ (\A j \in i + 1..e - 1 : fmt[j] \in Modifiers)
      /\ Len(fmt) \in Nat
  BY StopFacts
<1>2. m = SubSeq(fmt, i + 1, e - 1)
  BY DEF ModsAt
<1>. HIDE DEF e, m
<1>3. \A j \in i + 1..e - 1 : fmt[j] \in Modifiers \cap STRING
  BY <1>1, ElementOfSeq
<1>4. e - 1 - i = (e - 1) - (i + 1) + 1 /\ e - 1 - i \in Nat
  BY <1>1
<1>5. /\ m \in Seq(Modifiers \cap STRING)
      /\ Len(m) = e - 1 - i
      /\ \A j \in 1..e - 1 - i : m[j] = fmt[(i + 1) + j - 1]
  BY <1>1, <1>2, <1>3, <1>4, SubSeqProperties, SMTT(30)
<1>6. \A j \in 1..e - 1 - i : (i + 1) + j - 1 = i + j
  BY <1>1
<1>7. m \in Seq(Modifiers) /\ m \in Seq(STRING)
  BY <1>5, SeqMonotonic
<1>. QED  BY <1>5, <1>6, <1>7 DEF e, m

(***************************************************************************)
(* What the machine knows after the first p of the modifiers m             *)
(***************************************************************************)
WidthEnds(m, e) == {q \in DOMAIN m : q < e /\ q \in NumberEnds(m) /\ ~AfterDot(m, q)}
PrecisionEnds(m, e) ==
    {q \in DOMAIN m : q < e /\ AfterDot(m, q)
                      /\ (q < Len(m) => ~AfterDot(m, q + 1) \/ m[q + 1] = ".")}
FlagsIn(m, p) == {m[q] : q \in {j \in DOMAIN m : j <= p /\ m[j] \in Flags /\ ~InNumber(m, j)}}
Precise(m, p) == \E q \in DOMAIN m : q <= p /\ m[q] = "."

(* Its specification, the numbers included that end before e.              *)
Read(m, p, e) ==
    [flags |-> FlagsIn(m, p), width |-> LastOf(m, WidthEnds(m, e)), precise |-> Precise(m, p),
     precision |-> LastOf(m, PrecisionEnds(m, e)), specifier |-> "none"]

StateAfter(m, p) ==
    IF p = 0 THEN "PERCENT"
    ELSE IF AfterDot(m, p) THEN "PRECISION"
    ELSE IF InNumber(m, p) THEN "WIDTH"
    ELSE IF m[p] \in {"l", "h", "L"} THEN "LENGTH" ELSE "FLAGS"
InDigits(f) == f.state \in {"WIDTH", "PRECISION"}

Tracks(m, p, f) ==
    /\ f.state = StateAfter(m, p)
    /\ InDigits(f) => f.num = NumberTo(m, p)
    /\ f.spec = Read(m, p, p)

IsMods(m) == m \in Seq(Modifiers)

LEMMA SpecOfRead ==
    ASSUME NEW m, IsMods(m), NEW c
    PROVE  SpecOf(m, c) = [Read(m, Len(m), Len(m) + 1) EXCEPT !.specifier = c]
<1>1. Len(m) \in Nat /\ DOMAIN m = 1..Len(m)
  BY DEF IsMods
<1>2. \A q \in DOMAIN m : q <= Len(m) /\ q < Len(m) + 1
  BY <1>1
<1>. DEFINE flags == {m[i] : i \in {j \in DOMAIN m : m[j] \in Flags /\ ~InNumber(m, j)}}
            width == {i \in NumberEnds(m) : ~AfterDot(m, i)}
            precise == \E i \in DOMAIN m : m[i] = "."
            precision == {i \in DOMAIN m :
                             AfterDot(m, i) /\ (i < Len(m) => ~AfterDot(m, i + 1) \/ m[i + 1] = ".")}
            read == Read(m, Len(m), Len(m) + 1)
<1>3. SpecOf(m, c) = [flags |-> flags, width |-> LastOf(m, width), precise |-> precise,
                      precision |-> LastOf(m, precision), specifier |-> c]
  BY Zenon DEF SpecOf
<1>4. width = WidthEnds(m, Len(m) + 1)
  BY <1>2 DEF WidthEnds, NumberEnds
<1>5. precision = PrecisionEnds(m, Len(m) + 1)
  BY <1>2 DEF PrecisionEnds
<1>6. flags = FlagsIn(m, Len(m))
  <2>1. {q \in DOMAIN m : m[q] \in Flags /\ ~InNumber(m, q)}
          = {q \in DOMAIN m : q <= Len(m) /\ m[q] \in Flags /\ ~InNumber(m, q)}
    BY <1>2
  <2>. QED  BY <2>1 DEF FlagsIn
<1>7. precise = Precise(m, Len(m))
  BY <1>2 DEF Precise
<1>8. read = [flags |-> FlagsIn(m, Len(m)), width |-> LastOf(m, WidthEnds(m, Len(m) + 1)),
              precise |-> Precise(m, Len(m)),
              precision |-> LastOf(m, PrecisionEnds(m, Len(m) + 1)), specifier |-> "none"]
  BY Zenon DEF Read
<1>. HIDE DEF flags, width, precise, precision, read
<1>9. SpecOf(m, c) = [read EXCEPT !.specifier = c]
  BY <1>3, <1>4, <1>5, <1>6, <1>7, <1>8
<1>. QED  BY <1>9 DEF read

(* A number ends where the digits do.                                      *)
LEMMA EndsNext ==
    ASSUME NEW m, IsMods(m), NEW p \in 0..Len(m)
    PROVE  LET stops == p = Len(m) \/ m[p + 1] \notin ToSet(Digits)
               number == p > 0 /\ InNumber(m, p)
               dotted == p > 0 /\ AfterDot(m, p)
           IN  /\ WidthEnds(m, p + 1) = WidthEnds(m, p) \cup
                     (IF stops /\ number /\ ~dotted THEN {p} ELSE {})
               /\ PrecisionEnds(m, p + 1) = PrecisionEnds(m, p) \cup
                     (IF stops /\ dotted THEN {p} ELSE {})
<1>. DEFINE stops == p = Len(m) \/ m[p + 1] \notin ToSet(Digits)
            number == p > 0 /\ InNumber(m, p)
            dotted == p > 0 /\ AfterDot(m, p)
<1>1. Len(m) \in Nat /\ DOMAIN m = 1..Len(m) /\ p \in Nat
  BY DEF IsMods
<1>2. p > 0 => p \in DOMAIN m
  BY <1>1
<1>3. \A q \in DOMAIN m : q < p + 1 <=> (q < p \/ q = p)
  BY <1>1
<1>last. p < Len(m) <=> p # Len(m)
  <2>1. \A n, k \in Nat : k \in 0..n => (k < n <=> k # n)
    OBVIOUS
  <2>. QED  BY <1>1, <2>1
<1>4. number => (p \in NumberEnds(m) <=> stops)
  <2>. HAVE number
  <2>1. p < Len(m) => (InNumber(m, p + 1) <=> m[p + 1] \in ToSet(Digits))
    <3>. HAVE p < Len(m)
    <3>1. p + 1 \in Nat \ {0} /\ p + 1 > 1 /\ (p + 1) - 1 = p
      BY <1>1
    <3>. QED  BY <3>1, InNumberNext
  <2>. QED  BY <1>2, <1>last, <2>1 DEF NumberEnds
<1>5. ~number /\ p > 0 => p \notin NumberEnds(m)
  BY DEF NumberEnds
<1>6. dotted => ((p < Len(m) => ~AfterDot(m, p + 1) \/ m[p + 1] = ".") <=> stops)
  <2>. HAVE dotted
  <2>1. p < Len(m) => (AfterDot(m, p + 1) <=> m[p + 1] = "." \/ m[p + 1] \in ToSet(Digits))
    <3>. HAVE p < Len(m)
    <3>1. p + 1 \in Nat \ {0} /\ p + 1 > 1 /\ (p + 1) - 1 = p
      BY <1>1
    <3>. QED  BY <3>1, AfterDotNext
  <2>3. "." \notin ToSet(Digits)
    BY DigitSet
  <2>. QED  BY <1>last, <2>1, <2>3
<1>. HIDE DEF stops
<1>7. WidthEnds(m, p + 1) = WidthEnds(m, p) \cup (IF stops /\ number /\ ~dotted THEN {p} ELSE {})
  BY <1>1, <1>2, <1>3, <1>4, <1>5 DEF WidthEnds
<1>8. PrecisionEnds(m, p + 1) = PrecisionEnds(m, p) \cup (IF stops /\ dotted THEN {p} ELSE {})
  BY <1>1, <1>2, <1>3, <1>6 DEF PrecisionEnds
<1>. QED  BY <1>7, <1>8 DEF stops

(* So the number at hand becomes the width or the precision there.         *)
LEMMA LastNext ==
    ASSUME NEW m, IsMods(m), NEW p \in 0..Len(m)
    PROVE  LET stops == p = Len(m) \/ m[p + 1] \notin ToSet(Digits)
               state == StateAfter(m, p)
           IN  /\ LastOf(m, WidthEnds(m, p + 1)) = IF stops /\ state = "WIDTH" THEN NumberTo(m, p)
                                                   ELSE LastOf(m, WidthEnds(m, p))
               /\ LastOf(m, PrecisionEnds(m, p + 1)) =
                     IF stops /\ state = "PRECISION" THEN NumberTo(m, p)
                     ELSE LastOf(m, PrecisionEnds(m, p))
<1>. DEFINE stops == p = Len(m) \/ m[p + 1] \notin ToSet(Digits)
            state == StateAfter(m, p)
            number == p > 0 /\ InNumber(m, p)
            dotted == p > 0 /\ AfterDot(m, p)
<1>1. Len(m) \in Nat /\ DOMAIN m = 1..Len(m) /\ p \in Nat
  BY DEF IsMods
<1>2. /\ WidthEnds(m, p) \subseteq 0..p - 1 /\ PrecisionEnds(m, p) \subseteq 0..p - 1
      /\ WidthEnds(m, p + 1) \subseteq Nat /\ PrecisionEnds(m, p + 1) \subseteq Nat
  BY <1>1 DEF WidthEnds, PrecisionEnds
<1>3. state = "WIDTH" <=> number /\ ~dotted
  BY <1>1 DEF StateAfter
<1>4. state = "PRECISION" <=> dotted
  BY <1>1 DEF StateAfter
<1>5. /\ WidthEnds(m, p + 1) = WidthEnds(m, p) \cup (IF stops /\ number /\ ~dotted THEN {p} ELSE {})
      /\ PrecisionEnds(m, p + 1) = PrecisionEnds(m, p) \cup (IF stops /\ dotted THEN {p} ELSE {})
  BY EndsNext
<1>. HIDE DEF stops, number, dotted, state
<1>6. ASSUME NEW S, S \subseteq 0..p - 1  PROVE LastOf(m, S \cup {p}) = NumberTo(m, p)
  <2>1. S \cup {p} \subseteq Nat /\ p \in S \cup {p} /\ \A j \in S \cup {p} : j <= p
    BY <1>1, <1>6
  <2>. QED  BY <2>1, LastOfMax
<1>7. LastOf(m, WidthEnds(m, p + 1)) = IF stops /\ state = "WIDTH" THEN NumberTo(m, p)
                                       ELSE LastOf(m, WidthEnds(m, p))
  <2>1. CASE stops /\ state = "WIDTH"
    BY <1>2, <1>3, <1>5, <1>6, <2>1
  <2>2. CASE ~(stops /\ state = "WIDTH")
    <3>1. WidthEnds(m, p + 1) = WidthEnds(m, p)
      BY <1>3, <1>5, <2>2
    <3>. QED  BY <2>2, <3>1
  <2>. QED  BY <2>1, <2>2
<1>8. LastOf(m, PrecisionEnds(m, p + 1)) = IF stops /\ state = "PRECISION" THEN NumberTo(m, p)
                                           ELSE LastOf(m, PrecisionEnds(m, p))
  <2>1. CASE stops /\ state = "PRECISION"
    BY <1>2, <1>4, <1>5, <1>6, <2>1
  <2>2. CASE ~(stops /\ state = "PRECISION")
    <3>1. PrecisionEnds(m, p + 1) = PrecisionEnds(m, p)
      BY <1>4, <1>5, <2>2
    <3>. QED  BY <2>2, <3>1
  <2>. QED  BY <2>1, <2>2
<1>. QED  BY <1>7, <1>8 DEF stops, state

LEMMA PreciseRead ==
    ASSUME NEW F, NEW P, NEW w, NEW r, NEW x
    PROVE  [[flags |-> F, width |-> w, precise |-> P, precision |-> r, specifier |-> "none"]
               EXCEPT !.precise = x]
             = [flags |-> F, width |-> w, precise |-> x, precision |-> r, specifier |-> "none"]
OBVIOUS

LEMMA FlagsRead ==
    ASSUME NEW F, NEW P, NEW w, NEW r, NEW x
    PROVE  [[flags |-> F, width |-> w, precise |-> P, precision |-> r, specifier |-> "none"]
               EXCEPT !.flags = x]
             = [flags |-> x, width |-> w, precise |-> P, precision |-> r, specifier |-> "none"]
OBVIOUS

LEMMA ReadNext ==
    ASSUME NEW m, IsMods(m), NEW p \in 0..Len(m) - 1
    PROVE  /\ FlagsIn(m, p + 1) = FlagsIn(m, p) \cup
                 (IF m[p + 1] \in Flags /\ ~InNumber(m, p + 1) THEN {m[p + 1]} ELSE {})
           /\ Precise(m, p + 1) <=> Precise(m, p) \/ m[p + 1] = "."
<1>1. Len(m) \in Nat /\ DOMAIN m = 1..Len(m) /\ p \in Nat
  BY DEF IsMods
<1>2. p + 1 \in DOMAIN m /\ \A q \in DOMAIN m : q <= p + 1 <=> (q <= p \/ q = p + 1)
  BY <1>1
<1>3. FlagsIn(m, p + 1) = FlagsIn(m, p) \cup
         (IF m[p + 1] \in Flags /\ ~InNumber(m, p + 1) THEN {m[p + 1]} ELSE {})
  <2>. DEFINE J(k) == {j \in DOMAIN m : j <= k /\ m[j] \in Flags /\ ~InNumber(m, j)}
  <2>1. J(p + 1) = J(p) \cup (IF m[p + 1] \in Flags /\ ~InNumber(m, p + 1) THEN {p + 1} ELSE {})
    BY <1>2
  <2>2. FlagsIn(m, p + 1) = {m[j] : j \in J(p + 1)} /\ FlagsIn(m, p) = {m[j] : j \in J(p)}
    BY Zenon DEF FlagsIn
  <2>. HIDE DEF J
  <2>. QED  BY <2>1, <2>2
<1>4. Precise(m, p + 1) <=> Precise(m, p) \/ m[p + 1] = "."
  BY <1>2 DEF Precise
<1>. QED  BY <1>3, <1>4

(***************************************************************************)
(* The actions that read a conversion                                      *)
(***************************************************************************)
HasFields(f) == {"pc", "line", "at", "state", "spec", "num", "arg", "text"} \subseteq DOMAIN f
SameCall(f, g) == HasFields(g) /\ g.pc = f.pc /\ g.line = f.line /\ g.at = f.at /\ g.arg = f.arg

(* f once the number at hand is where it belongs.                          *)
Done(f) ==
    IF f.state = "WIDTH" THEN [f EXCEPT !.spec.width = f.num]
    ELSE IF f.state = "PRECISION" THEN [f EXCEPT !.spec.precision = f.num] ELSE f
Reading == {"PERCENT", "FLAGS", "WIDTH", "PRECISION", "LENGTH"}

LEMMA DoneFields ==
    ASSUME NEW f, HasFields(f)
    PROVE  /\ SameCall(f, Done(f))
           /\ Done(f).state = f.state /\ Done(f).text = f.text /\ Done(f).num = f.num
           /\ Done(f).spec = IF f.state = "WIDTH" THEN [f.spec EXCEPT !.width = f.num]
                             ELSE IF f.state = "PRECISION" THEN [f.spec EXCEPT !.precision = f.num]
                             ELSE f.spec
BY DEF Done, HasFields, SameCall

LEMMA TablesIn ==
    ASSUME Filled
    PROVE  "class" \in tables /\ "state" \in tables /\ "flag" \in tables /\ "spec" \in tables
           /\ "level" \in tables
<1>1. {Tables[j] : j \in 1..5} \subseteq tables
  BY TablesList DEF Filled
<1>. QED  BY <1>1 DEF Tables

LEMMA ReadingAction ==
    ASSUME Filled, NEW f, HasFields(f), f.state \in Reading, NEW c
    PROVE  Action(f, c) = IF InDigits(f) /\ c \in ToSet(Digits) THEN WithDigit(f, c)
                          ELSE ActionPercent(Done(f), c)
<1>1. "state" \in tables /\ \A k : ClassIn(k) = Class(k)
  BY TablesIn DEF ClassIn
<1>2. IsDigit(c) <=> c \in ToSet(Digits)
  BY TablesIn DEF IsDigit
<1>3. ~InDigits(f) => Done(f) = f
  BY DEF Done, InDigits
<1>4. CASE f.state \in {"PERCENT", "LENGTH"}
  <2>1. Action(f, c) = ActionPercent(f, c) /\ ~InDigits(f)
    BY <1>1, <1>4 DEF Action, ActionLength, InDigits
  <2>. QED  BY <1>3, <2>1
<1>5. CASE f.state = "FLAGS"
  <2>1. Action(f, c) = ActionFlags(f, c) /\ ~InDigits(f)
    BY <1>1, <1>5 DEF Action, InDigits
  <2>2. ActionFlags(f, c) = ActionPercent(f, c)
    BY DEF ActionFlags, ActionPercent
  <2>. QED  BY <1>3, <2>1, <2>2
<1>6. CASE f.state = "WIDTH"
  <2>1. Action(f, c) = ActionWidth(f, c) /\ InDigits(f)
    BY <1>1, <1>6 DEF Action, InDigits
  <2>2. Done(f) = [f EXCEPT !.spec.width = f.num]
    BY <1>6 DEF Done
  <2>. QED  BY <1>2, <2>1, <2>2 DEF ActionWidth
<1>7. CASE f.state = "PRECISION"
  <2>1. Action(f, c) = ActionPrecision(f, c) /\ InDigits(f)
    BY <1>1, <1>7 DEF Action, InDigits
  <2>2. Done(f) = [f EXCEPT !.spec.precision = f.num]
    BY <1>7 DEF Done
  <2>. QED  BY <1>2, <2>1, <2>2 DEF ActionPrecision
<1>. QED  BY <1>4, <1>5, <1>6, <1>7 DEF Reading

LEMMA StateReading ==
    ASSUME NEW m, NEW p
    PROVE  StateAfter(m, p) \in Reading
BY DEF StateAfter, Reading

(* All the numbers that end before the next character are in place.        *)
LEMMA DoneTracks ==
    ASSUME NEW m, IsMods(m), NEW p \in 0..Len(m), NEW f, HasFields(f), Tracks(m, p, f),
           InDigits(f) => p = Len(m) \/ m[p + 1] \notin ToSet(Digits)
    PROVE  Done(f).spec = Read(m, p, p + 1)
<1>. DEFINE stops == p = Len(m) \/ m[p + 1] \notin ToSet(Digits)
            state == StateAfter(m, p)
<1>. HIDE DEF stops
<1>1. /\ LastOf(m, WidthEnds(m, p + 1)) = IF stops /\ state = "WIDTH" THEN NumberTo(m, p)
                                          ELSE LastOf(m, WidthEnds(m, p))
      /\ LastOf(m, PrecisionEnds(m, p + 1)) =
            IF stops /\ state = "PRECISION" THEN NumberTo(m, p)
            ELSE LastOf(m, PrecisionEnds(m, p))
  BY LastNext DEF stops
<1>2. f.state = state /\ (InDigits(f) => f.num = NumberTo(m, p) /\ stops)
  BY DEF Tracks, stops
<1>. HIDE DEF state
<1>. DEFINE F == FlagsIn(m, p)
            P == Precise(m, p)
            w(e) == LastOf(m, WidthEnds(m, e))
            r(e) == LastOf(m, PrecisionEnds(m, e))
<1>3. /\ f.spec = [flags |-> F, width |-> w(p), precise |-> P, precision |-> r(p),
                   specifier |-> "none"]
      /\ Read(m, p, p + 1) = [flags |-> F, width |-> w(p + 1), precise |-> P,
                              precision |-> r(p + 1), specifier |-> "none"]
  BY Zenon DEF Tracks, Read
<1>4. /\ w(p + 1) = IF stops /\ state = "WIDTH" THEN NumberTo(m, p) ELSE w(p)
      /\ r(p + 1) = IF stops /\ state = "PRECISION" THEN NumberTo(m, p) ELSE r(p)
  BY <1>1
<1>5. Done(f).spec = IF f.state = "WIDTH" THEN [f.spec EXCEPT !.width = f.num]
                     ELSE IF f.state = "PRECISION" THEN [f.spec EXCEPT !.precision = f.num]
                     ELSE f.spec
  BY DoneFields
<1>. HIDE DEF F, P, w, r
<1>6. CASE state = "WIDTH"
  BY <1>2, <1>3, <1>4, <1>5, <1>6 DEF InDigits
<1>7. CASE state = "PRECISION"
  BY <1>2, <1>3, <1>4, <1>5, <1>7 DEF InDigits
<1>8. CASE state \notin {"WIDTH", "PRECISION"}
  BY <1>2, <1>3, <1>4, <1>5, <1>8
<1>. QED  BY <1>6, <1>7, <1>8

(* A digit of the number at hand.                                          *)
LEMMA DigitTracks ==
    ASSUME NEW m, IsMods(m), NEW p \in 0..Len(m) - 1, NEW f, HasFields(f), Tracks(m, p, f),
           InDigits(f), m[p + 1] \in ToSet(Digits)
    PROVE  LET g == WithDigit(f, m[p + 1])
           IN  SameCall(f, g) /\ g.text = f.text /\ Tracks(m, p + 1, g)
<1>. DEFINE c == m[p + 1]
            g == WithDigit(f, c)
<1>1. /\ SameCall(f, g) /\ g.text = f.text /\ g.state = f.state /\ g.spec = f.spec
      /\ g.num = 10 * f.num + Value(c)
  BY DEF WithDigit, HasFields, SameCall
<1>. HIDE DEF g
<1>2. Len(m) \in Nat /\ p \in Nat /\ p \in 0..Len(m) /\ p + 1 \in Nat \ {0} /\ (p + 1) - 1 = p /\ p # Len(m)
  BY DEF IsMods
<1>3. f.state = StateAfter(m, p) /\ f.num = NumberTo(m, p) /\ f.spec = Read(m, p, p)
  BY DEF Tracks
<1>4. p > 0 /\ (InNumber(m, p) \/ AfterDot(m, p)) /\ p + 1 > 1
  BY <1>2, <1>3 DEF InDigits, StateAfter
<1>5. c # "."
  BY DigitSet
<1>6. AfterDot(m, p + 1) <=> AfterDot(m, p)
  BY <1>2, <1>4, <1>5, AfterDotNext
<1>7. InNumber(m, p + 1)
  <2>1. CASE InNumber(m, p)
    BY <1>2, <1>4, <2>1, InNumberNext
  <2>2. CASE AfterDot(m, p)
    BY <1>2, <1>6, <2>2, DotDigit
  <2>. QED  BY <1>4, <2>1, <2>2
<1>8. StateAfter(m, p + 1) = StateAfter(m, p)
  <2>1. CASE AfterDot(m, p)
    BY <1>2, <1>4, <1>6, <2>1 DEF StateAfter
  <2>2. CASE ~AfterDot(m, p)
    BY <1>2, <1>4, <1>6, <1>7, <2>2 DEF StateAfter
  <2>. QED  BY <2>1, <2>2
<1>9. NumberTo(m, p + 1) = 10 * NumberTo(m, p) + Value(c)
  BY <1>2, <1>7, NumberToNext
<1>10. FlagsIn(m, p + 1) = FlagsIn(m, p) /\ (Precise(m, p + 1) <=> Precise(m, p))
  <2>1. FlagsIn(m, p + 1) = FlagsIn(m, p) \cup (IF c \in Flags /\ ~InNumber(m, p + 1) THEN {c} ELSE {})
    BY ReadNext
  <2>2. Precise(m, p + 1) <=> Precise(m, p) \/ c = "."
    BY ReadNext
  <2>. HIDE DEF c
  <2>. QED  BY <1>5, <1>7, <2>1, <2>2
<1>11. /\ LastOf(m, WidthEnds(m, p + 1)) = LastOf(m, WidthEnds(m, p))
       /\ LastOf(m, PrecisionEnds(m, p + 1)) = LastOf(m, PrecisionEnds(m, p))
  BY <1>2, LastNext
<1>12. Read(m, p + 1, p + 1) = Read(m, p, p)
  <2>1. Precise(m, p + 1) = Precise(m, p)
    BY <1>10 DEF Precise
  <2>. QED  BY <1>10, <1>11, <2>1 DEF Read
<1>13. Tracks(m, p + 1, g)
  BY <1>1, <1>3, <1>8, <1>9, <1>12 DEF Tracks
<1>. QED  BY <1>1, <1>13 DEF g

(* Any other modifier.                                                     *)
LEMMA OtherTracks ==
    ASSUME Filled, NEW m, IsMods(m), NEW p \in 0..Len(m) - 1, NEW f, HasFields(f), Tracks(m, p, f),
           ~(InDigits(f) /\ m[p + 1] \in ToSet(Digits))
    PROVE  LET g == ActionPercent(Done(f), m[p + 1])
           IN  SameCall(f, g) /\ g.text = f.text /\ Tracks(m, p + 1, g)
<1>. DEFINE c == m[p + 1]
            d == Done(f)
            g == ActionPercent(d, c)
            q == p + 1
<1>1. Len(m) \in Nat /\ p \in Nat /\ p \in 0..Len(m) /\ q \in Nat \ {0} /\ q - 1 = p /\ q \in 1..Len(m)
  BY DEF IsMods
<1>2. c \in Modifiers
  BY <1>1 DEF IsMods
<1>3. /\ HasFields(d) /\ d.pc = f.pc /\ d.line = f.line /\ d.at = f.at /\ d.arg = f.arg
      /\ d.text = f.text
  BY DoneFields DEF SameCall
<1>4. d.spec = Read(m, p, q)
  BY <1>1, DoneTracks
<1>5. (\A k : ClassIn(k) = Class(k)) /\ "flag" \in tables
  BY TablesIn DEF ClassIn
<1>6. c \in ToSet(Digits) => ~(p > 0 /\ InNumber(m, p)) /\ ~(p > 0 /\ AfterDot(m, p))
  BY <1>1 DEF Tracks, StateAfter, InDigits
<1>7. AfterDot(m, q) <=> c = "."
  BY <1>1, <1>6, AfterDotNext
<1>8. InNumber(m, q) <=> c \in ToSet(Digits) \ {"0"}
  <2>1. c \in ToSet(Digits) /\ p > 0 => m[p] # "."
    <3>. HAVE c \in ToSet(Digits) /\ p > 0
    <3>1. p \in Nat \ {0}
      BY <1>1
    <3>. QED  BY <1>6, <3>1, AfterDotNext
  <2>. QED  BY <1>1, <1>6, <2>1, InNumberNext
<1>9. FlagsIn(m, q) = FlagsIn(m, p) \cup (IF c \in Flags /\ ~InNumber(m, q) THEN {c} ELSE {})
  BY ReadNext
<1>10. Precise(m, q) <=> Precise(m, p) \/ c = "."
  BY ReadNext
<1>. DEFINE r(F, P) == [flags |-> F, width |-> LastOf(m, WidthEnds(m, q)), precise |-> P,
                        precision |-> LastOf(m, PrecisionEnds(m, q)), specifier |-> "none"]
<1>11. Read(m, p, q) = r(FlagsIn(m, p), Precise(m, p)) /\ Read(m, q, q) = r(FlagsIn(m, q), Precise(m, q))
  BY DEF Read
<1>12. Precise(m, q) \in BOOLEAN /\ Precise(m, p) \in BOOLEAN
  BY DEF Precise
<1>. HIDE DEF d, c, q, r
<1>13. CASE c \in Flags
  <2>1. Class(c) = "flag"
    BY <1>13, DigitSet DEF Class, Flags, Specs
  <2>2. g = Goto([d EXCEPT !.spec.flags = @ \cup {c}], "FLAGS")
    BY <1>5, <2>1 DEF ActionPercent, WithFlag
  <2>3. SameCall(f, g) /\ g.text = f.text /\ g.state = "FLAGS" /\ g.spec = [d.spec EXCEPT !.flags = @ \cup {c}]
    BY <1>3, <2>2 DEF Goto, HasFields, SameCall
  <2>. HIDE DEF g
  <2>4. ~InNumber(m, q) /\ ~AfterDot(m, q) /\ c \notin {".", "l", "h", "L"}
    BY <1>7, <1>8, <1>13, DigitSet DEF Flags
  <2>5. StateAfter(m, q) = "FLAGS"
    BY <1>1, <2>4 DEF StateAfter, c, q
  <2>6. FlagsIn(m, q) = FlagsIn(m, p) \cup {c} /\ Precise(m, q) = Precise(m, p)
    BY <1>9, <1>10, <1>12, <1>13, <2>4
  <2>7. g.spec = Read(m, q, q)
    <3>. DEFINE x == FlagsIn(m, q)
    <3>1. [r(FlagsIn(m, p), Precise(m, p)) EXCEPT !.flags = x] = r(x, Precise(m, p))
      BY FlagsRead DEF r
    <3>2. d.spec = r(FlagsIn(m, p), Precise(m, p)) /\ d.spec.flags = FlagsIn(m, p)
      BY <1>4, <1>11 DEF r
    <3>3. g.spec = [d.spec EXCEPT !.flags = x]
      BY <2>3, <2>6, <3>2
    <3>4. Read(m, q, q) = r(x, Precise(m, p))
      BY <1>11, <2>6
    <3>. HIDE DEF x
    <3>. QED  BY <3>1, <3>2, <3>3, <3>4
  <2>8. Tracks(m, q, g)
    BY <2>3, <2>5, <2>7 DEF Tracks, InDigits
  <2>. QED  BY <2>3, <2>8 DEF g, d, c, q
<1>14. CASE c \in ToSet(Digits) \ Flags
  <2>1. Class(c) = "digit"
    BY <1>14, DigitSet DEF Class, Flags, Specs
  <2>2. g = [d EXCEPT !.num = Value(c), !.state = "WIDTH"]
    BY <1>5, <2>1 DEF ActionPercent, OtherChars
  <2>3. SameCall(f, g) /\ g.text = f.text /\ g.state = "WIDTH" /\ g.spec = d.spec /\ g.num = Value(c)
    BY <1>3, <2>2 DEF HasFields, SameCall
  <2>. HIDE DEF g
  <2>4. InNumber(m, q) /\ ~AfterDot(m, q)
    BY <1>7, <1>8, <1>14, DigitSet DEF Flags
  <2>5. StateAfter(m, q) = "WIDTH"
    BY <1>1, <2>4 DEF StateAfter
  <2>6. FlagsIn(m, q) = FlagsIn(m, p) /\ Precise(m, q) = Precise(m, p)
    <3>1. c # "."
      BY <1>14, DigitSet
    <3>. QED  BY <1>9, <1>10, <1>12, <2>4, <3>1
  <2>7. g.spec = Read(m, q, q)
    BY <1>4, <1>11, <2>3, <2>6
  <2>8. NumberTo(m, q) = Value(c)
    <3>1. NumberTo(m, p) = 0
      BY <1>1, <1>6, <1>14, NumberToNext
    <3>2. NumberTo(m, q) = 10 * NumberTo(m, p) + Value(c)
      BY <1>1, <2>4, NumberToNext DEF c, q
    <3>3. Value(c) \in Nat
      BY <1>14, ValueType
    <3>. QED  BY <3>1, <3>2, <3>3
  <2>9. Tracks(m, q, g)
    BY <2>3, <2>5, <2>7, <2>8 DEF Tracks, InDigits
  <2>. QED  BY <2>3, <2>9 DEF g, d, c, q
<1>15. CASE c = "."
  <2>1. Class(c) = "dot"
    BY <1>15, DigitSet DEF Class, Flags, Specs
  <2>2. g = [d EXCEPT !.spec.precise = TRUE, !.num = 0, !.state = "PRECISION"]
    BY <1>5, <2>1 DEF ActionPercent, OtherChars
  <2>3. /\ SameCall(f, g) /\ g.text = f.text /\ g.state = "PRECISION"
        /\ g.spec = [d.spec EXCEPT !.precise = TRUE] /\ g.num = 0
    BY <1>3, <2>2 DEF HasFields, SameCall
  <2>. HIDE DEF g
  <2>4. AfterDot(m, q) /\ ~InNumber(m, q)
    BY <1>7, <1>8, <1>15, DigitSet
  <2>5. StateAfter(m, q) = "PRECISION"
    BY <1>1, <2>4 DEF StateAfter
  <2>6. FlagsIn(m, q) = FlagsIn(m, p) /\ Precise(m, q) = TRUE
    BY <1>9, <1>10, <1>12, <1>15 DEF Flags
  <2>7. g.spec = Read(m, q, q)
    <3>. DEFINE x == Precise(m, q)
    <3>1. [r(FlagsIn(m, p), Precise(m, p)) EXCEPT !.precise = x] = r(FlagsIn(m, p), x)
      BY PreciseRead DEF r
    <3>2. g.spec = [d.spec EXCEPT !.precise = x]
      <4>1. x = TRUE
        BY <2>6
      <4>. HIDE DEF x
      <4>. QED  BY <2>3, <4>1
    <3>3. d.spec = r(FlagsIn(m, p), Precise(m, p))
      BY <1>4, <1>11
    <3>4. Read(m, q, q) = r(FlagsIn(m, p), x)
      BY <1>11, <2>6
    <3>. HIDE DEF x
    <3>. QED  BY <3>1, <3>2, <3>3, <3>4
  <2>8. NumberTo(m, q) = 0
    BY <1>1, <2>4, NumberToNext
  <2>9. Tracks(m, q, g)
    BY <2>3, <2>5, <2>7, <2>8 DEF Tracks, InDigits
  <2>. QED  BY <2>3, <2>9 DEF g, d, c, q
<1>16. CASE c \in {"l", "h", "L"}
  <2>1. Class(c) = "length"
    BY <1>16, DigitSet DEF Class, Flags, Specs
  <2>2. g = Goto(d, "LENGTH")
    BY <1>5, <2>1 DEF ActionPercent, OtherChars
  <2>3. SameCall(f, g) /\ g.text = f.text /\ g.state = "LENGTH" /\ g.spec = d.spec
    BY <1>3, <2>2 DEF HasFields, SameCall, Goto
  <2>. HIDE DEF g
  <2>4. ~AfterDot(m, q) /\ ~InNumber(m, q)
    BY <1>7, <1>8, <1>16, DigitSet
  <2>5. StateAfter(m, q) = "LENGTH"
    BY <1>1, <1>16, <2>4 DEF StateAfter, c, q
  <2>6. FlagsIn(m, q) = FlagsIn(m, p) /\ Precise(m, q) = Precise(m, p)
    BY <1>9, <1>10, <1>12, <1>16 DEF Flags
  <2>7. g.spec = Read(m, q, q)
    BY <1>4, <1>11, <2>3, <2>6
  <2>8. Tracks(m, q, g)
    BY <2>3, <2>5, <2>7 DEF Tracks, InDigits
  <2>. QED  BY <2>3, <2>8 DEF g, d, c, q
<1>. QED  BY <1>2, <1>13, <1>14, <1>15, <1>16 DEF Modifiers

LEMMA ModifierStep ==
    ASSUME Filled, NEW m, IsMods(m), NEW p \in 0..Len(m) - 1, NEW f, HasFields(f), Tracks(m, p, f)
    PROVE  LET g == Action(f, m[p + 1])
           IN  SameCall(f, g) /\ g.text = f.text /\ Tracks(m, p + 1, g)
<1>. DEFINE g == Action(f, m[p + 1])
            ok(x) == SameCall(f, x) /\ x.text = f.text /\ Tracks(m, p + 1, x)
<1>1. f.state \in Reading
  BY StateReading DEF Tracks
<1>2. g = IF InDigits(f) /\ m[p + 1] \in ToSet(Digits) THEN WithDigit(f, m[p + 1])
          ELSE ActionPercent(Done(f), m[p + 1])
  BY <1>1, ReadingAction
<1>3. InDigits(f) /\ m[p + 1] \in ToSet(Digits) => ok(WithDigit(f, m[p + 1]))
  BY DigitTracks
<1>4. ~(InDigits(f) /\ m[p + 1] \in ToSet(Digits)) => ok(ActionPercent(Done(f), m[p + 1]))
  BY OtherTracks
<1>5. ok(g)
  <2>. HIDE DEF g, ok
  <2>. QED  BY <1>2, <1>3, <1>4
<1>. QED  BY <1>5

(***************************************************************************)
(* The character behind the modifiers                                      *)
(***************************************************************************)
LEMMA StopStep ==
    ASSUME Filled, NEW m, IsMods(m), NEW f, HasFields(f), Tracks(m, Len(m), f),
           NEW c, c \notin Modifiers
    PROVE  LET g == Action(f, c)
           IN  /\ SameCall(f, g)
               /\ c = "%" => g.text = Clipped(f.text \o <<"%">>) /\ g.state = "NORMAL"
               /\ c # "%" => g.text = f.text
               /\ c \in Specs => g.state = "SPECIFIER" /\ g.spec = SpecOf(m, c)
               /\ c \notin Specs /\ c # "%" => g.state = "ERROR"
<1>. DEFINE d == Done(f)
            g == Action(f, c)
<1>1. g = ActionPercent(d, c)
  <2>1. f.state \in Reading /\ c \notin ToSet(Digits)
    BY StateReading DEF Tracks, Modifiers
  <2>. QED  BY <2>1, ReadingAction
<1>2. /\ HasFields(d) /\ d.pc = f.pc /\ d.line = f.line /\ d.at = f.at /\ d.arg = f.arg
      /\ d.text = f.text
  BY DoneFields DEF SameCall
<1>3. d.spec = Read(m, Len(m), Len(m) + 1)
  <2>1. Len(m) \in 0..Len(m)
    BY DEF IsMods
  <2>. QED  BY <2>1, DoneTracks
<1>4. SpecOf(m, c) = [d.spec EXCEPT !.specifier = c]
  BY <1>3, SpecOfRead
<1>5. \A k : ClassIn(k) = Class(k)
  BY TablesIn DEF ClassIn
<1>6. c \notin Flags /\ c \notin ToSet(Digits) /\ c # "." /\ c \notin {"l", "h", "L"}
  BY DEF Modifiers
<1>. HIDE DEF d, g
<1>7. CASE c = "%"
  <2>1. Class(c) = "percent"
    BY <1>7, DigitSet DEF Class, Flags, Specs
  <2>2. g = Goto(Appended(d, <<"%">>), "NORMAL")
    BY <1>1, <1>5, <2>1 DEF ActionPercent
  <2>3. SameCall(f, g) /\ g.text = Clipped(f.text \o <<"%">>) /\ g.state = "NORMAL"
    BY <1>2, <2>2 DEF Goto, Appended, HasFields, SameCall
  <2>. QED  BY <1>7, <2>3 DEF g, Specs
<1>8. CASE c \in Specs
  <2>1. Class(c) = "spec" /\ c # "%"
    BY <1>6, <1>8 DEF Class, Specs
  <2>2. g = [d EXCEPT !.spec.specifier = c, !.state = "SPECIFIER"]
    BY <1>1, <1>5, <2>1 DEF ActionPercent, OtherChars
  <2>3. /\ SameCall(f, g) /\ g.text = f.text /\ g.state = "SPECIFIER"
        /\ g.spec = [d.spec EXCEPT !.specifier = c]
    BY <1>2, <2>2 DEF HasFields, SameCall
  <2>. QED  BY <1>4, <1>8, <2>1, <2>3 DEF g
<1>9. CASE c \notin Specs /\ c # "%"
  <2>1. Class(c) = "other"
    BY <1>6, <1>9 DEF Class
  <2>2. g = Goto(d, "ERROR")
    BY <1>1, <1>5, <2>1 DEF ActionPercent, OtherChars
  <2>3. SameCall(f, g) /\ g.text = f.text /\ g.state = "ERROR"
    BY <1>2, <2>2 DEF HasFields, SameCall, Goto
  <2>. QED  BY <1>9, <2>3 DEF g
<1>. QED  BY <1>7, <1>8, <1>9

(***************************************************************************)
(* The format as a whole, piece by piece                                   *)
(***************************************************************************)
IsText(line) ==
    /\ line.level \in STRING /\ line.format \in Seq(STRING)
    /\ Len(line.args) \in Nat /\ DOMAIN line.args = 1..Len(line.args)

LEMMA AfterPlace ==
    ASSUME NEW fmt \in Seq(STRING), NEW i \in 1..Len(fmt)
    PROVE  After(fmt, i) \in i + 1..Len(fmt) + 1
<1>1. Len(fmt) \in Nat
  OBVIOUS
<1>2. Stop(fmt, i) \in {0} \cup i + 1..Len(fmt)
  BY StopFacts
<1>3. Converts(fmt, i) => Stop(fmt, i) \notin {0, Len(fmt)}
  BY DEF Converts
<1>. QED  BY <1>1, <1>2, <1>3 DEF After

LEMMA ModifierString == \A c \in Specs : c \notin Modifiers
BY DigitSet DEF Specs, Modifiers, Flags

LEMMA SpecAtType ==
    ASSUME NEW fmt \in Seq(STRING), NEW i \in 1..Len(fmt), Stop(fmt, i) # 0
    PROVE  SpecAt(fmt, i) \in SpecType /\ SpecAt(fmt, i).specifier = fmt[Stop(fmt, i)]
<1>. DEFINE m == SubSeq(fmt, i + 1, Stop(fmt, i) - 1)
            c == fmt[Stop(fmt, i)]
            s == SpecAt(fmt, i)
<1>1. m \in Seq(STRING) /\ m \in Seq(Modifiers)
  <2>1. m = ModsAt(fmt, i)
    BY DEF ModsAt, End
  <2>. QED  BY <2>1, ModsFacts
<1>2. c \in Char
  <2>1. Stop(fmt, i) \in 1..Len(fmt)
    BY StopFacts
  <2>. QED  BY <2>1, ElementOfSeq DEF Char
<1>3. s = SpecOf(m, c)
  BY DEF SpecAt
<1>4. SpecOf(m, c) = [Read(m, Len(m), Len(m) + 1) EXCEPT !.specifier = c]
  BY <1>1, SpecOfRead DEF IsMods
<1>. HIDE DEF m, c, s
<1>. DEFINE F == FlagsIn(m, Len(m))
            w == LastOf(m, WidthEnds(m, Len(m) + 1))
            P == Precise(m, Len(m))
            r == LastOf(m, PrecisionEnds(m, Len(m) + 1))
<1>5. Read(m, Len(m), Len(m) + 1) =
        [flags |-> F, width |-> w, precise |-> P, precision |-> r, specifier |-> "none"]
  BY Zenon DEF Read
<1>6. F \in SUBSET Char
  <2>1. \A q \in DOMAIN m : m[q] \in Char
    <3>1. \A q \in DOMAIN m : m[q] \in STRING
      BY <1>1
    <3>. QED  BY <3>1 DEF Char
  <2>. QED  BY <2>1 DEF FlagsIn
<1>7. P \in BOOLEAN
  BY DEF Precise
<1>8. DOMAIN m \subseteq Nat \ {0} /\ Len(m) \in Nat
  BY <1>1
<1>9. ASSUME NEW S, S \subseteq DOMAIN m  PROVE LastOf(m, S) \in Nat
  <2>1. CASE S = {}
    BY <2>1 DEF LastOf
  <2>2. CASE S # {}
    <3>1. LastOf(m, S) = NumberTo(m, CHOOSE j \in S : \A k \in S : k <= j)
      BY <2>2 DEF LastOf
    <3>2. S \subseteq Nat
      BY <1>8, <1>9
    <3>3. \E j \in S : \A k \in S : k <= j
      <4>. DEFINE T == {Len(m) - k : k \in S}
      <4>1. S \subseteq 1..Len(m)
        BY <1>1, <1>9
      <4>2. T \subseteq Nat /\ T # {} /\ \A k \in S : Len(m) - k \in T
        <5>1. \A k \in S : Len(m) - k \in Nat
          BY <1>8, <4>1
        <5>. QED  BY <2>2, <5>1
      <4>3. PICK n \in T : \A k \in T : n <= k
        <5>. HIDE DEF T
        <5>. QED  BY <4>2, LeastNumber
      <4>4. PICK j \in S : n = Len(m) - j
        BY <4>3
      <4>5. \A k \in S : Len(m) - j <= Len(m) - k /\ k \in Nat /\ j \in Nat
        <5>1. S \subseteq Nat
          BY <1>8, <4>1
        <5>. HIDE DEF T
        <5>. QED  BY <4>2, <4>3, <4>4, <5>1
      <4>6. \A k \in S : k <= j
        BY <1>8, <4>5
      <4>. QED  BY <4>6
    <3>4. (CHOOSE j \in S : \A k \in S : k <= j) \in S
      BY <3>3
    <3>. QED  BY <3>1, <3>2, <3>4, NumberToNext
  <2>. QED  BY <2>1, <2>2
<1>10. w \in Nat /\ r \in Nat
  <2>1. WidthEnds(m, Len(m) + 1) \subseteq DOMAIN m /\ PrecisionEnds(m, Len(m) + 1) \subseteq DOMAIN m
    BY DEF WidthEnds, PrecisionEnds
  <2>. QED  BY <1>9, <2>1
<1>. HIDE DEF F, w, P, r
<1>11. s \in SpecType /\ s.specifier = c
  BY <1>2, <1>3, <1>4, <1>5, <1>6, <1>7, <1>10 DEF SpecType
<1>. QED  BY <1>11 DEF s, c

LEMMA PlainType ==
    ASSUME NEW fmt \in Seq(STRING), NEW i \in 1..Len(fmt)
    PROVE  Plain(fmt, i) \in Seq(Char)
<1>1. fmt[i] \in STRING
  BY ElementOfSeq
<1>2. <<fmt[i]>> \in Seq(Char) /\ <<"%">> \in Seq(Char) /\ <<>> \in Seq(Char)
  <2>1. fmt[i] \in Char /\ "%" \in Char
    BY <1>1 DEF Char
  <2>. QED  BY <2>1
<1>. QED  BY <1>2 DEF Plain

(* What TextFrom and SuitedFrom are, one piece at a time.                  *)
Stuck(line, p) ==
    p[1] > Len(line.format) \/ (Converts(line.format, p[1]) /\ ~HasArg(line, p[1], p[2]))
NextPlace(line, p) ==
    <<After(line.format, p[1]), IF Converts(line.format, p[1]) THEN p[2] + 1 ELSE p[2]>>
Piece(line, p) ==
    IF Converts(line.format, p[1]) THEN Converted(SpecAt(line.format, p[1]), line.args[p[2]])
    ELSE Plain(line.format, p[1])

LEMMA PlaceFacts ==
    ASSUME NEW line, IsText(line), NEW p \in Places(line), ~Stuck(line, p)
    PROVE  /\ NextPlace(line, p) \in Places(line)
           /\ NextPlace(line, p)[1] > p[1]
           /\ p[1] \in 1..Len(line.format) /\ p[2] \in 1..Len(line.args) + 1
           /\ Piece(line, p) \in Seq(Char)
<1>. DEFINE fmt == line.format
            i == p[1]
            k == p[2]
<1>1. fmt \in Seq(STRING) /\ Len(fmt) \in Nat /\ Len(line.args) \in Nat
      /\ DOMAIN line.args = 1..Len(line.args)
  BY DEF IsText
<1>2. i \in 1..Len(fmt) + 1 /\ k \in 1..Len(line.args) + 1 /\ p = <<i, k>>
  BY DEF Places
<1>3. ~(i > Len(fmt)) /\ (Converts(fmt, i) => HasArg(line, i, k))
  BY DEF Stuck
<1>. HIDE DEF fmt, i, k
<1>4. i \in 1..Len(fmt)
  BY <1>1, <1>2, <1>3
<1>5. After(fmt, i) \in i + 1..Len(fmt) + 1
  BY <1>1, <1>4, AfterPlace
<1>6. Converts(fmt, i) => k + 1 \in 1..Len(line.args) + 1
  BY <1>1, <1>3 DEF HasArg
<1>7. NextPlace(line, p) = <<After(fmt, i), IF Converts(fmt, i) THEN k + 1 ELSE k>>
  BY DEF NextPlace, fmt, i, k
<1>8. After(fmt, i) \in 1..Len(fmt) + 1 /\ After(fmt, i) > i
  BY <1>1, <1>4, <1>5
<1>9. NextPlace(line, p) \in (1..Len(fmt) + 1) \X (1..Len(line.args) + 1)
  BY <1>2, <1>6, <1>7, <1>8
<1>10. Piece(line, p) \in Seq(Char)
  <2>1. CASE Converts(fmt, i)
    <3>1. Stop(fmt, i) # 0
      BY <2>1 DEF Converts
    <3>2. SpecAt(fmt, i) \in SpecType /\ SpecAt(fmt, i).specifier = fmt[Stop(fmt, i)]
      BY <1>1, <1>4, <3>1, SpecAtType
    <3>3. Suits(SpecAt(fmt, i).specifier, line.args[k])
      BY <1>3, <2>1, <3>2 DEF HasArg, fmt
    <3>4. Converted(SpecAt(fmt, i), line.args[k]) \in Seq(Char)
      BY <3>2, <3>3, ConvertedType
    <3>. QED  BY <2>1, <3>4 DEF Piece, fmt, i, k
  <2>2. CASE ~Converts(fmt, i)
    <3>1. Plain(fmt, i) \in Seq(Char)
      BY <1>1, <1>4, PlainType
    <3>. QED  BY <2>2, <3>1 DEF Piece, fmt, i, k
  <2>. QED  BY <2>1, <2>2
<1>. QED  BY <1>2, <1>4, <1>7, <1>8, <1>9, <1>10 DEF Places, fmt, i, k

(* The same, whatever the text of a piece is.                              *)
PlacesDescend(line, V, val, step) ==
    Descends(Places(line), V, {p \in Places(line) : Stuck(line, p)}, val,
             [p \in Places(line) \ {q \in Places(line) : Stuck(line, q)} |-> NextPlace(line, p)],
             step, [p \in Places(line) |-> Len(line.format) + 1 - p[1]], Len(line.format))

LEMMA PlacesAreDescended ==
    ASSUME NEW line, IsText(line), NEW V, V # {},
           NEW val \in [{p \in Places(line) : Stuck(line, p)} -> V],
           NEW step \in [Places(line) \ {p \in Places(line) : Stuck(line, p)} -> [V -> V]]
    PROVE  PlacesDescend(line, V, val, step)
<1>. DEFINE D == Places(line)
            B == {p \in D : Stuck(line, p)}
            n == Len(line.format)
            next == [p \in D \ B |-> NextPlace(line, p)]
            rank == [p \in D |-> n + 1 - p[1]]
<1>1. n \in Nat
  BY DEF IsText
<1>2. B \in SUBSET D
  OBVIOUS
<1>3. \A p \in D : p[1] \in 1..n + 1
  BY DEF Places
<1>4. \A p \in D \ B : NextPlace(line, p) \in D /\ NextPlace(line, p)[1] > p[1]
  BY PlaceFacts
<1>5. rank \in [D -> 0..n]
  BY <1>1, <1>3
<1>6. next \in [D \ B -> D]
  BY <1>4
<1>7. \A p \in D \ B : rank[next[p]] < rank[p]
  <2>. TAKE p \in D \ B
  <2>1. next[p] = NextPlace(line, p) /\ next[p] \in D /\ next[p][1] > p[1] /\ p \in D
    BY <1>4
  <2>2. rank[p] = n + 1 - p[1] /\ rank[next[p]] = n + 1 - next[p][1]
    BY <2>1
  <2>. HIDE DEF next, rank, D
  <2>. QED  BY <1>1, <1>3, <2>1, <2>2
<1>8. Descends(D, V, B, val, next, step, rank, n)
  <2>1. val \in [B -> V] /\ step \in [D \ B -> [V -> V]]
    OBVIOUS
  <2>. HIDE DEF D, B, n, next, rank
  <2>. QED  BY <1>1, <1>2, <1>5, <1>6, <1>7, <2>1 DEF Descends
<1>. QED  BY <1>8 DEF PlacesDescend

LEMMA TextFromIs ==
    ASSUME NEW line, IsText(line)
    PROVE  \A p \in Places(line) :
              /\ TextFrom(line)[p] \in Seq(Char)
              /\ TextFrom(line)[p] = IF Stuck(line, p) THEN <<>>
                                     ELSE Piece(line, p) \o TextFrom(line)[NextPlace(line, p)]
<1>. DEFINE D == Places(line)
            B == {p \in D : Stuck(line, p)}
            V == Seq(Char)
            fmt == line.format
            val == [p \in B |-> <<>>]
            step == [p \in D \ B |-> [v \in V |-> Piece(line, p) \o v]]
            next == [p \in D \ B |-> NextPlace(line, p)]
            rhs(f, p) == IF p[1] > Len(fmt) THEN <<>>
                         ELSE IF ~Converts(fmt, p[1])
                              THEN Plain(fmt, p[1]) \o f[<<After(fmt, p[1]), p[2]>>]
                         ELSE IF HasArg(line, p[1], p[2])
                              THEN Converted(SpecAt(fmt, p[1]), line.args[p[2]])
                                   \o f[<<After(fmt, p[1]), p[2] + 1>>]
                         ELSE <<>>
            from == CHOOSE f : f = [p \in D |-> rhs(f, p)]
<1>1. val \in [B -> V] /\ V # {}
  <2>1. <<>> \in V
    OBVIOUS
  <2>. HIDE DEF B, V
  <2>. QED  BY <2>1
<1>2. step \in [D \ B -> [V -> V]]
  <2>1. \A p \in D \ B : Piece(line, p) \in Seq(Char)
    BY PlaceFacts
  <2>. QED  BY <2>1
<1>3. PlacesDescend(line, V, val, step)
  <2>. HIDE DEF V, val, step
  <2>. QED  BY <1>1, <1>2, PlacesAreDescended
<1>. DEFINE rank == [p \in D |-> Len(fmt) + 1 - p[1]]
<1>4. Descends(D, V, B, val, next, step, rank, Len(fmt))
  BY <1>3 DEF PlacesDescend
<1>5. \A f, p : rhs(f, p) = IF Stuck(line, p) THEN <<>> ELSE Piece(line, p) \o f[NextPlace(line, p)]
  BY DEF Stuck, Piece, NextPlace
<1>. HIDE DEF rhs
<1>6. PICK f \in [D -> V] : \A p \in D : f[p] = IF p \in B THEN val[p] ELSE step[p][f[next[p]]]
  <2>. HIDE DEF D, V, B, val, next, step, rank, fmt
  <2>. QED  BY <1>4, RecursionExists
<1>7. \A g : \A p \in D :
         (p \notin B => g[next[p]] \in V) =>
            rhs(g, p) = IF p \in B THEN val[p] ELSE step[p][g[next[p]]]
  <2>. TAKE g
  <2>. TAKE p \in D
  <2>. HAVE p \notin B => g[next[p]] \in V
  <2>1. CASE p \in B
    BY <1>5, <2>1
  <2>2. CASE p \notin B
    <3>1. next[p] = NextPlace(line, p) /\ ~Stuck(line, p) /\ g[next[p]] \in V
      BY <2>2
    <3>2. step[p][g[next[p]]] = Piece(line, p) \o g[next[p]]
      BY <2>2, <3>1
    <3>. QED  BY <1>5, <2>2, <3>1, <3>2
  <2>. QED  BY <2>1, <2>2
<1>8. f = [p \in D |-> rhs(f, p)]
  <2>1. \A p \in D \ B : next[p] \in D
    BY PlaceFacts
  <2>. HIDE DEF D, V, B, val, next, step
  <2>2. \A p \in D : p \notin B => f[next[p]] \in V
    BY <1>6, <2>1
  <2>. QED  BY <1>6, <1>7, <2>2
<1>. HIDE DEF V, val, next, step, rank, D, B
<1>9. from = [p \in D |-> rhs(from, p)]
  BY <1>8
<1>10. TextFrom(line) = from
  BY DEF TextFrom, rhs, fmt, D
<1>. HIDE DEF from
<1>11. \A p \in D : from[p] = rhs(from, p)
  BY <1>9
<1>12. \A p \in D : from[p] \in V
  BY <1>4, <1>7, <1>11, RecursionType
<1>. QED  BY <1>5, <1>10, <1>11, <1>12 DEF V, D

LEMMA SuitedFromIs ==
    ASSUME NEW line, IsText(line), NEW p \in Places(line), SuitedFrom(line)[p]
    PROVE  p[1] > Len(line.format)
           \/ (~Stuck(line, p) /\ SuitedFrom(line)[NextPlace(line, p)])
<1>. DEFINE D == Places(line)
            B == {q \in D : Stuck(line, q)}
            V == BOOLEAN
            fmt == line.format
            val == [q \in B |-> q[1] > Len(fmt)]
            step == [q \in D \ B |-> [v \in V |-> v]]
            next == [q \in D \ B |-> NextPlace(line, q)]
            rhs(f, q) == IF q[1] > Len(fmt) THEN TRUE
                         ELSE IF ~Converts(fmt, q[1]) THEN f[<<After(fmt, q[1]), q[2]>>]
                         ELSE HasArg(line, q[1], q[2]) /\ f[<<After(fmt, q[1]), q[2] + 1>>]
            suited == CHOOSE f : f = [q \in D |-> rhs(f, q)]
            rank == [q \in D |-> Len(fmt) + 1 - q[1]]
<1>1. PlacesDescend(line, V, val, step)
  <2>1. \A q \in B : (q[1] > Len(fmt)) \in BOOLEAN
    OBVIOUS
  <2>2. val \in [B -> V] /\ V # {}
    <3>. HIDE DEF B
    <3>. QED  BY <2>1
  <2>3. step \in [D \ B -> [V -> V]]
    <3>. HIDE DEF B, D
    <3>. QED  OBVIOUS
  <2>. HIDE DEF V, val, step
  <2>. QED  BY <2>2, <2>3, PlacesAreDescended
<1>2. Descends(D, V, B, val, next, step, rank, Len(fmt))
  BY <1>1 DEF PlacesDescend
<1>3. \A f : \A q \in D : q \notin B => rhs(f, q) = f[NextPlace(line, q)] \/ f[NextPlace(line, q)] \notin BOOLEAN
  BY DEF Stuck, NextPlace
<1>4. \A f : \A q \in B : rhs(f, q) = val[q]
  <2>. TAKE f
  <2>. TAKE q \in B
  <2>1. val[q] = (q[1] > Len(fmt)) /\ Stuck(line, q)
    OBVIOUS
  <2>. DEFINE more == q[1] > Len(fmt)
  <2>2. CASE more
    <3>1. rhs(f, q) = TRUE /\ val[q] = TRUE
      BY <2>1, <2>2
    <3>. QED  BY <3>1
  <2>3. CASE ~more
    <3>val. val[q] = more
      BY <2>1
    <3>1. val[q] = FALSE
      <4>. HIDE DEF val, more
      <4>1. more = FALSE
        BY <2>3
      <4>. QED  BY <3>val, <4>1
    <3>2. Converts(fmt, q[1]) /\ ~HasArg(line, q[1], q[2])
      BY <2>1, <2>3 DEF Stuck
    <3>3. rhs(f, q) = FALSE
      BY <2>3, <3>2
    <3>. HIDE DEF val, rhs
    <3>. QED  BY <3>1, <3>3
  <2>. QED  BY <2>2, <2>3
<1>. HIDE DEF rhs
<1>5. PICK f \in [D -> V] : \A q \in D : f[q] = IF q \in B THEN val[q] ELSE step[q][f[next[q]]]
  <2>. HIDE DEF D, V, B, val, next, step, rank, fmt
  <2>. QED  BY <1>2, RecursionExists
<1>6. f = [q \in D |-> rhs(f, q)]
  <2>1. \A q \in D : f[q] = rhs(f, q)
    <3>. TAKE q \in D
    <3>1. CASE q \in B
      <4>. HIDE DEF B, val, step, next
      <4>. QED  BY <1>4, <1>5, <3>1
    <3>2. CASE q \notin B
      <4>1. next[q] = NextPlace(line, q) /\ NextPlace(line, q) \in D
        BY <3>2, PlaceFacts
      <4>2. f[NextPlace(line, q)] \in BOOLEAN
        BY <1>5, <4>1
      <4>3. step[q][f[NextPlace(line, q)]] = f[NextPlace(line, q)]
        BY <3>2, <4>2
      <4>4. f[q] = step[q][f[next[q]]]
        <5>. HIDE DEF B, val, next, step
        <5>. QED  BY <1>5, <3>2
      <4>5. f[q] = f[NextPlace(line, q)]
        <5>. HIDE DEF next, step
        <5>. QED  BY <4>1, <4>3, <4>4
      <4>. QED  BY <1>3, <3>2, <4>2, <4>5
    <3>. QED  BY <3>1, <3>2
  <2>. HIDE DEF D, V
  <2>. QED  BY <1>5, <2>1
<1>. HIDE DEF V, val, next, step, rank, D, B
<1>7. suited = [q \in D |-> rhs(suited, q)]
  BY <1>6
<1>8. SuitedFrom(line) = suited
  BY DEF SuitedFrom, rhs, fmt, D
<1>. HIDE DEF suited
<1>9. rhs(suited, p)
  BY <1>7, <1>8 DEF D
<1>. QED  BY <1>8, <1>9 DEF rhs, Stuck, NextPlace, fmt

(***************************************************************************)
(* Text that may not fit                                                   *)
(***************************************************************************)
LEMMA ClippedIs ==
    ASSUME ROOM \in Nat \ {0}, NEW s \in Seq(Char)
    PROVE  /\ Clipped(s) \in Seq(Char)
           /\ Len(Clipped(s)) = IF Len(s) < ROOM THEN Len(s) ELSE ROOM
           /\ \A k \in 1..(IF Len(s) < ROOM THEN Len(s) ELSE ROOM) : Clipped(s)[k] = s[k]
           /\ Len(s) < ROOM => Clipped(s) = s
<1>. DEFINE n == IF Len(s) < ROOM THEN Len(s) ELSE ROOM
<1>1. n \in Nat /\ n \in 0..Len(s)
  BY LenProperties
<1>2. Clipped(s) = SubSeq(s, 1, n)
  BY DEF Clipped
<1>. HIDE DEF n
<1>3. \A k \in 1..n : s[k] \in Char
  <2>1. \A k \in 1..n : k \in 1..Len(s)
    BY <1>1
  <2>. QED  BY <2>1, ElementOfSeq
<1>4. /\ Clipped(s) \in Seq(Char) /\ Len(Clipped(s)) = n
      /\ \A k \in 1..n : Clipped(s)[k] = s[k]
  <2>1. /\ SubSeq(s, 1, n) \in Seq(Char)
        /\ Len(SubSeq(s, 1, n)) = IF 1 <= n THEN n - 1 + 1 ELSE 0
        /\ \A k \in 1..n - 1 + 1 : SubSeq(s, 1, n)[k] = s[1 + k - 1]
    BY <1>1, <1>3, SubSeqProperties
  <2>2. n - 1 + 1 = n /\ (~(1 <= n) => n = 0) /\ \A k \in 1..n : 1 + k - 1 = k
    BY <1>1
  <2>. QED  BY <1>2, <2>1, <2>2
<1>5. Len(s) < ROOM => Clipped(s) = s
  <2>. HAVE Len(s) < ROOM
  <2>1. n = Len(s)
    BY DEF n
  <2>. QED  BY <1>4, <2>1, SeqEqual
<1>. QED  BY <1>4, <1>5 DEF n

LEMMA ClippedPrefix ==
    ASSUME ROOM \in Nat \ {0}, NEW s \in Seq(Char), NEW t \in Seq(Char), ~(Len(s) < ROOM)
    PROVE  Clipped(s) = Clipped(s \o t)
<1>1. /\ s \o t \in Seq(Char) /\ Len(s \o t) = Len(s) + Len(t)
      /\ \A k \in 1..Len(s) : (s \o t)[k] = s[k]
  BY ConcatProperties, LenProperties
<1>2. Len(s) \in Nat /\ Len(t) \in Nat
  BY LenProperties
<1>3. ~(Len(s \o t) < ROOM)
  BY <1>1, <1>2
<1>4. /\ Clipped(s) \in Seq(Char) /\ Len(Clipped(s)) = ROOM
      /\ \A k \in 1..ROOM : Clipped(s)[k] = s[k]
  BY ClippedIs
<1>5. /\ Clipped(s \o t) \in Seq(Char) /\ Len(Clipped(s \o t)) = ROOM
      /\ \A k \in 1..ROOM : Clipped(s \o t)[k] = (s \o t)[k]
  BY <1>1, <1>3, ClippedIs
<1>6. \A k \in 1..ROOM : k \in 1..Len(s)
  BY <1>2
<1>7. \A k \in 1..ROOM : Clipped(s)[k] = Clipped(s \o t)[k]
  BY <1>1, <1>4, <1>5, <1>6
<1>. QED  BY <1>4, <1>5, <1>7, SeqEqual

(***************************************************************************)
(* Where a call stands in its format                                       *)
(***************************************************************************)
(* What is still to come from character i on, with argument k next.        *)
Shows(f, i, k) ==
    /\ <<i, k>> \in Places(f.line)
    /\ SuitedFrom(f.line)[<<i, k>>]
    /\ f.text \o TextFrom(f.line)[<<i, k>>] = TextOf(f.line)

AtPiece(f) == f.state = "NORMAL" /\ Shows(f, f.at, f.arg)
AmongModifiers(f, i) ==
    /\ f.line.format[i] = "%"
    /\ f.at \in i + 1..End(f.line.format, i)
    /\ Tracks(ModsAt(f.line.format, i), f.at - 1 - i, f)
    /\ Shows(f, i, f.arg)
BehindSpecifier(f, i) ==
    /\ f.state = "SPECIFIER"
    /\ f.line.format[i] = "%"
    /\ Stop(f.line.format, i) # 0 /\ Stop(f.line.format, i) = f.at - 1
    /\ f.line.format[Stop(f.line.format, i)] \in Specs
    /\ f.spec = SpecAt(f.line.format, i)
    /\ Shows(f, i, f.arg)

Standing(f) ==
    /\ f.at \in 1..Len(f.line.format) + 1
    /\ \/ AtPiece(f)
       \/ \E i \in 1..Len(f.line.format) : AmongModifiers(f, i) \/ BehindSpecifier(f, i)

TextInv(f) ==
    /\ f.text \in Seq(Char) /\ Len(f.text) <= ROOM
    /\ Len(f.text) = ROOM => f.text = Clipped(TextOf(f.line))
    /\ Len(f.text) < ROOM => Standing(f)

(* A piece was shown.                                                      *)
LEMMA PieceShown ==
    ASSUME ROOM \in Nat \ {0}, NEW f, IsText(f.line), f.text \in Seq(Char), Len(f.text) < ROOM,
           NEW i, NEW k, Shows(f, i, k), i <= Len(f.line.format),
           NEW g, g.line = f.line, g.text = Clipped(f.text \o Piece(f.line, <<i, k>>)),
           NextPlace(f.line, <<i, k>>) = <<g.at, g.arg>>, g.state = "NORMAL"
    PROVE  TextInv(g)
<1>. DEFINE p == <<i, k>>
            q == <<g.at, g.arg>>
            line == f.line
            s == Piece(line, p)
            rest == TextFrom(line)[q]
            t == f.text \o s
<1>1. /\ p \in Places(line) /\ SuitedFrom(line)[p] /\ f.text \o TextFrom(line)[p] = TextOf(line)
      /\ NextPlace(line, p) = q /\ p[1] = i /\ q[1] = g.at
  BY DEF Shows
<1>. HIDE DEF p, q, s, rest
<1>2. ~Stuck(line, p) /\ SuitedFrom(line)[q]
  <2>1. i \in Nat /\ Len(line.format) \in Nat
    BY <1>1 DEF Places, IsText
  <2>2. ~(p[1] > Len(line.format))
    BY <1>1, <2>1
  <2>. QED  BY <1>1, <2>2, SuitedFromIs
<1>3. q \in Places(line) /\ s \in Seq(Char)
  BY <1>1, <1>2, PlaceFacts DEF s
<1>last. q[1] \in 1..Len(line.format) + 1
  BY <1>3 DEF Places
<1>4. rest \in Seq(Char) /\ TextFrom(line)[p] = s \o rest
  <2>1. TextFrom(line)[q] \in Seq(Char)
    BY <1>3, TextFromIs
  <2>2. TextFrom(line)[p] = Piece(line, p) \o TextFrom(line)[NextPlace(line, p)]
    <3>1. TextFrom(line)[p] = IF Stuck(line, p) THEN <<>>
                              ELSE Piece(line, p) \o TextFrom(line)[NextPlace(line, p)]
      BY <1>1, TextFromIs
    <3>. QED  BY <1>2, <3>1
  <2>. QED  BY <1>1, <2>1, <2>2 DEF rest, s
<1>5. t \in Seq(Char) /\ TextOf(line) = t \o rest
  <2>1. f.text \in Seq(Char)
    OBVIOUS
  <2>2. t \in Seq(Char)
    BY <1>3, <2>1, ConcatProperties
  <2>3. (f.text \o s) \o rest = f.text \o (s \o rest)
    <3>1. \A a, b, c \in Seq(Char) : (a \o b) \o c = a \o (b \o c)
      BY ConcatAssociative, SMTT(30)
    <3>. QED  BY <1>3, <1>4, <2>1, <3>1
  <2>. QED  BY <1>1, <1>4, <2>2, <2>3
<1>7. g.text = Clipped(t)
  BY DEF t, s, p
<1>. HIDE DEF t
<1>6. Len(t) \in Nat
  BY <1>5, LenProperties
<1>8. /\ g.text \in Seq(Char) /\ Len(g.text) = IF Len(t) < ROOM THEN Len(t) ELSE ROOM
      /\ Len(t) < ROOM => g.text = t
  BY <1>5, <1>7, ClippedIs
<1>9. Len(g.text) = ROOM => g.text = Clipped(TextOf(line))
  BY <1>4, <1>5, <1>6, <1>7, <1>8, ClippedPrefix
<1>10. ASSUME Len(g.text) < ROOM  PROVE Standing(g)
  <2>1. g.text \o rest = TextOf(line)
    <3>1. Len(t) < ROOM
      BY <1>6, <1>8, <1>10
    <3>. QED  BY <1>5, <1>8, <3>1, Zenon
  <2>2. Shows(g, g.at, g.arg)
    BY <1>2, <1>3, <2>1 DEF Shows, rest, q
  <2>3. g.at \in 1..Len(line.format) + 1
    BY <1>1, <1>last
  <2>. QED  BY <2>2, <2>3 DEF Standing, AtPiece
<1>. QED  BY <1>6, <1>8, <1>9, <1>10 DEF TextInv

LEMMA NothingAdded ==
    ASSUME ROOM \in Nat \ {0}, NEW s \in Seq(Char), Len(s) < ROOM
    PROVE  Clipped(s \o <<>>) = s
<1>1. s \o <<>> = s
  BY ConcatEmptySeq
<1>. QED  BY <1>1, ClippedIs

(***************************************************************************)
(* One turn of the parser                                                  *)
(***************************************************************************)
InFormat(f) ==
    /\ HasFields(f) /\ IsText(f.line) /\ TextInv(f)
Forwards(f, g) == HasFields(g) /\ g.pc = f.pc /\ g.line = f.line /\ TextInv(g)

LEMMA ParsedFields ==
    ASSUME NEW f, NEW h, h = Action(f, f.line.format[f.at]), HasFields(h)
    PROVE  LET g == Parsed(f)
           IN  /\ HasFields(g)
               /\ g.pc = h.pc /\ g.line = h.line /\ g.arg = h.arg /\ g.text = h.text
               /\ g.spec = h.spec /\ g.num = h.num /\ g.at = h.at + 1
               /\ g.state = IF h.state = "ERROR" THEN "NORMAL" ELSE h.state
<1>1. Parsed(f) = [h EXCEPT !.at = @ + 1, !.state = IF @ = "ERROR" THEN "NORMAL" ELSE @]
  BY DEF Parsed
<1>. QED  BY <1>1 DEF HasFields

LEMMA NothingRead ==
    ASSUME NEW m, IsMods(m)
    PROVE  Read(m, 0, 0) = NoSpec
<1>1. DOMAIN m \subseteq Nat \ {0}
  BY DEF IsMods
<1>2. \A q \in DOMAIN m : ~(q <= 0) /\ ~(q < 0)
  BY <1>1
<1>3. FlagsIn(m, 0) = {} /\ WidthEnds(m, 0) = {} /\ PrecisionEnds(m, 0) = {}
  BY <1>2 DEF FlagsIn, WidthEnds, PrecisionEnds
<1>4. Precise(m, 0) = FALSE
  BY <1>2 DEF Precise
<1>5. LastOf(m, {}) = 0
  BY DEF LastOf
<1>. QED  BY <1>3, <1>4, <1>5 DEF Read, NoSpec

(* A character that is no %, and the % of a conversion.                    *)
LEMMA NormalStep ==
    ASSUME ROOM \in Nat \ {0}, Filled, NEW f, InFormat(f), Len(f.text) < ROOM,
           f.at <= Len(f.line.format), AtPiece(f)
    PROVE  Forwards(f, Parsed(f))
<1>. DEFINE fmt == f.line.format
            i == f.at
            c == fmt[i]
            h == Action(f, c)
            g == Parsed(f)
            p == <<i, f.arg>>
<1>1. /\ HasFields(f) /\ IsText(f.line) /\ f.text \in Seq(Char) /\ f.state = "NORMAL"
      /\ Shows(f, i, f.arg)
  BY DEF InFormat, TextInv, AtPiece
<1>2. fmt \in Seq(STRING) /\ Len(fmt) \in Nat /\ i \in 1..Len(fmt)
  <2>1. fmt \in Seq(STRING) /\ Len(fmt) \in Nat
    BY <1>1 DEF IsText
  <2>2. i \in 1..Len(fmt) + 1
    BY <1>1 DEF Shows, Places
  <2>. QED  BY <2>1, <2>2
<1>3. h = ActionNormal(f, c)
  BY <1>1, TablesIn DEF Action
<1>4. CASE c # "%"
  <2>1. h = Goto(Appended(f, <<c>>), "NORMAL")
    BY <1>3, <1>4 DEF ActionNormal
  <2>2. SameCall(f, h) /\ h.text = Clipped(f.text \o <<c>>) /\ h.state = "NORMAL"
    BY <1>1, <2>1 DEF Goto, Appended, SameCall, HasFields
  <2>3. /\ HasFields(g) /\ g.pc = f.pc /\ g.line = f.line /\ g.arg = f.arg
        /\ g.text = Clipped(f.text \o <<c>>) /\ g.at = i + 1 /\ g.state = "NORMAL"
    BY <2>2, ParsedFields DEF SameCall
  <2>4. ~Converts(fmt, i) /\ Piece(f.line, p) = <<c>> /\ NextPlace(f.line, p) = <<i + 1, f.arg>>
    BY <1>4 DEF Converts, Piece, Plain, NextPlace, After
  <2>5. TextInv(g)
    <3>. HIDE DEF g, h, c
    <3>. QED  BY <1>1, <1>2, <2>3, <2>4, PieceShown
  <2>. QED  BY <2>3, <2>5 DEF Forwards
<1>5. CASE c = "%"
  <2>. DEFINE m == ModsAt(fmt, i)
  <2>1. h = [f EXCEPT !.spec = NoSpec, !.state = "PERCENT"]
    BY <1>3, <1>5 DEF ActionNormal
  <2>2. SameCall(f, h) /\ h.text = f.text /\ h.state = "PERCENT" /\ h.spec = NoSpec
    BY <1>1, <2>1 DEF SameCall, HasFields
  <2>3. /\ HasFields(g) /\ g.pc = f.pc /\ g.line = f.line /\ g.arg = f.arg /\ g.text = f.text
        /\ g.at = i + 1 /\ g.state = "PERCENT" /\ g.spec = NoSpec
    BY <2>2, ParsedFields DEF SameCall
  <2>. HIDE DEF g, h
  <2>4. IsMods(m)
    BY <1>2, ModsFacts DEF IsMods
  <2>5. Tracks(m, 0, g)
    BY <2>3, <2>4, NothingRead DEF Tracks, StateAfter, InDigits
  <2>6. End(fmt, i) \in i + 1..Len(fmt) + 1 /\ g.at \in i + 1..End(fmt, i) /\ g.at - 1 - i = 0
        /\ g.at \in 1..Len(fmt) + 1
    BY <1>2, <2>3, StopFacts
  <2>7. Shows(g, i, g.arg)
    BY <1>1, <2>3 DEF Shows
  <2>8. AmongModifiers(g, i)
    BY <1>5, <2>3, <2>5, <2>6, <2>7 DEF AmongModifiers
  <2>9. TextInv(g)
    <3>1. Len(g.text) \in Nat /\ Len(g.text) < ROOM
      BY <1>1, <2>3, LenProperties
    <3>. QED  BY <1>1, <1>2, <2>3, <2>6, <2>8, <3>1 DEF TextInv, Standing
  <2>. QED  BY <2>3, <2>9 DEF Forwards, g
<1>. QED  BY <1>4, <1>5

(* How far into the modifiers of the conversion at i the character a is.   *)
LEMMA Offset ==
    ASSUME NEW i \in Nat, NEW e \in Nat, NEW a \in Nat, i + 1 <= a, a < e
    PROVE  /\ a - 1 - i \in 0..(e - 1 - i) - 1
           /\ (a - 1 - i) + 1 \in 1..e - 1 - i
           /\ i + ((a - 1 - i) + 1) = a
OBVIOUS

(* A character of a conversion.                                            *)
LEMMA ConversionStep ==
    ASSUME ROOM \in Nat \ {0}, Filled, NEW f, InFormat(f), Len(f.text) < ROOM,
           f.at <= Len(f.line.format),
           NEW i \in 1..Len(f.line.format), AmongModifiers(f, i)
    PROVE  Forwards(f, Parsed(f))
<1>. DEFINE fmt == f.line.format
            m == ModsAt(fmt, i)
            c == fmt[f.at]
            h == Action(f, c)
            g == Parsed(f)
            p == <<i, f.arg>>
            e == End(fmt, i)
            s == Stop(fmt, i)
<1>1. HasFields(f) /\ IsText(f.line) /\ f.text \in Seq(Char)
  BY DEF InFormat, TextInv
<1>2. /\ fmt[i] = "%" /\ f.at \in i + 1..e /\ Tracks(m, f.at - 1 - i, f)
      /\ Shows(f, i, f.arg)
  BY DEF AmongModifiers
<1>3. fmt \in Seq(STRING) /\ Len(fmt) \in Nat
  BY <1>1 DEF IsText
<1>4. /\ s \in {0} \cup i + 1..Len(fmt) /\ e \in i + 1..Len(fmt) + 1
      /\ s # 0 => fmt[s] \notin Modifiers
      /\ e = IF s = 0 THEN Len(fmt) + 1 ELSE s
  BY <1>3, StopFacts DEF End
<1>5. IsMods(m) /\ Len(m) = e - 1 - i /\ \A j \in 1..e - 1 - i : m[j] = fmt[i + j]
  BY <1>3, ModsFacts DEF IsMods
<1>. HIDE DEF e
<1>6. Len(f.text) \in Nat
  BY <1>1, LenProperties
<1>7. CASE f.at < e
  <2>. DEFINE q == f.at - 1 - i
  <2>1. q \in 0..Len(m) - 1 /\ q + 1 \in 1..e - 1 - i /\ i + (q + 1) = f.at
    <3>1. i \in Nat /\ e \in Nat /\ f.at \in Nat /\ i + 1 <= f.at
      BY <1>2, <1>3, <1>4
    <3>2. Len(m) = e - 1 - i
      BY <1>5
    <3>3. /\ f.at - 1 - i \in 0..(e - 1 - i) - 1
          /\ (f.at - 1 - i) + 1 \in 1..e - 1 - i
          /\ i + ((f.at - 1 - i) + 1) = f.at
      BY <1>7, <3>1, Offset
    <3>. HIDE DEF m
    <3>. QED  BY <3>2, <3>3
  <2>2. c = m[q + 1]
    BY <1>5, <2>1
  <2>3. SameCall(f, h) /\ h.text = f.text /\ Tracks(m, q + 1, h)
    <3>1. Tracks(m, q, f)
      BY <1>2
    <3>2. h = Action(f, m[q + 1])
      BY <2>2
    <3>. HIDE DEF m, q, c, h
    <3>3. Filled /\ IsMods(m) /\ q \in 0..Len(m) - 1 /\ HasFields(f)
      BY <1>1, <1>5, <2>1 DEF InFormat
    <3>4. /\ SameCall(f, Action(f, m[q + 1])) /\ Action(f, m[q + 1]).text = f.text
          /\ Tracks(m, q + 1, Action(f, m[q + 1]))
      BY <3>1, <3>3, ModifierStep
    <3>. QED  BY <3>2, <3>4
  <2>4. h.state # "ERROR"
    BY <2>3, StateReading DEF Tracks, Reading
  <2>5. /\ HasFields(g) /\ g.pc = f.pc /\ g.line = f.line /\ g.arg = f.arg /\ g.text = f.text
        /\ g.at = f.at + 1 /\ g.state = h.state /\ g.spec = h.spec /\ g.num = h.num
    BY <2>3, <2>4, ParsedFields DEF SameCall
  <2>. HIDE DEF g, h
  <2>6. Tracks(m, q + 1, g)
    BY <2>3, <2>5 DEF Tracks, InDigits
  <2>7. g.at \in i + 1..e /\ g.at - 1 - i = q + 1 /\ g.at \in 1..Len(fmt) + 1
    <3>1. i \in Nat /\ e \in Nat /\ f.at \in Nat /\ i + 1 <= f.at /\ e <= Len(fmt) + 1
      BY <1>2, <1>3, <1>4
    <3>2. g.at = f.at + 1
      BY <2>5
    <3>3. g.at \in Nat /\ i + 1 <= g.at /\ g.at <= e /\ g.at <= Len(fmt) + 1 /\ 1 <= g.at
      BY <1>3, <1>7, <3>1, <3>2
    <3>4. g.at - 1 - i = q + 1
      BY <3>1, <3>2
    <3>. QED  BY <1>3, <3>1, <3>3, <3>4
  <2>8. Shows(g, i, g.arg)
    BY <1>2, <2>5 DEF Shows
  <2>9. AmongModifiers(g, i)
    <3>. HIDE DEF q
    <3>. QED  BY <1>2, <2>5, <2>6, <2>7, <2>8 DEF AmongModifiers, e
  <2>10. TextInv(g)
    BY <1>1, <1>6, <2>5, <2>7, <2>9 DEF TextInv, Standing
  <2>. QED  BY <2>5, <2>10 DEF Forwards, g
<1>8. CASE ~(f.at < e)
  <2>1. s # 0 /\ s = f.at /\ e = f.at /\ c \notin Modifiers /\ f.at - 1 - i = Len(m)
    <3>1. i \in Nat /\ e \in Nat /\ f.at \in Nat /\ f.at <= e
      BY <1>2, <1>3, <1>4
    <3>2. e = f.at
      BY <1>8, <3>1
    <3>3. s # 0 /\ s = f.at
      BY <1>3, <1>4, <3>2
    <3>. QED  BY <1>4, <1>5, <3>2, <3>3
  <2>2. Tracks(m, Len(m), f)
    BY <1>2, <2>1
  <2>3. /\ SameCall(f, h)
        /\ c = "%" => h.text = Clipped(f.text \o <<"%">>) /\ h.state = "NORMAL"
        /\ c # "%" => h.text = f.text
        /\ c \in Specs => h.state = "SPECIFIER" /\ h.spec = SpecOf(m, c)
        /\ c \notin Specs /\ c # "%" => h.state = "ERROR"
    <3>. HIDE DEF m, c
    <3>. QED  BY <1>1, <1>5, <2>1, <2>2, StopStep
  <2>4. /\ HasFields(g) /\ g.pc = f.pc /\ g.line = f.line /\ g.arg = f.arg /\ g.text = h.text
        /\ g.at = f.at + 1 /\ g.spec = h.spec
        /\ g.state = IF h.state = "ERROR" THEN "NORMAL" ELSE h.state
    <3>. HIDE DEF m, p, e, s
    <3>1. HasFields(h) /\ h.pc = f.pc /\ h.line = f.line /\ h.at = f.at /\ h.arg = f.arg
      BY <2>3 DEF SameCall
    <3>. QED  BY <3>1, ParsedFields
  <2>. HIDE DEF g, h
  <2>5. CASE c \in Specs
    <3>1. c # "%" /\ g.text = f.text /\ g.state = "SPECIFIER" /\ g.spec = SpecOf(m, c)
      BY <2>3, <2>4, <2>5 DEF Specs
    <3>2. SpecOf(m, c) = SpecAt(fmt, i)
      BY <2>1 DEF SpecAt, ModsAt, e
    <3>3. Shows(g, i, g.arg)
      BY <1>2, <2>4, <3>1 DEF Shows
    <3>4. s = g.at - 1 /\ g.at \in 1..Len(fmt) + 1
      <4>1. s \in 1..Len(fmt) /\ g.at = s + 1
        BY <1>3, <1>4, <2>1, <2>4
      <4>. QED  BY <1>3, <4>1
    <3>5. BehindSpecifier(g, i)
      BY <1>2, <2>1, <2>4, <2>5, <3>1, <3>2, <3>3, <3>4 DEF BehindSpecifier
    <3>6. TextInv(g)
      BY <1>1, <1>6, <2>4, <3>1, <3>4, <3>5 DEF TextInv, Standing
    <3>. QED  BY <2>4, <3>6 DEF Forwards, g
  <2>6. CASE c \notin Specs
    <3>1. ~Converts(fmt, i) /\ NextPlace(f.line, p) = <<g.at, g.arg>>
      BY <1>2, <2>1, <2>4, <2>6 DEF Converts, NextPlace, After
    <3>2. g.text = Clipped(f.text \o Piece(f.line, p)) /\ g.state = "NORMAL"
      <4>1. CASE c = "%"
        <5>1. Piece(f.line, p) = <<"%">>
          BY <1>2, <2>1, <3>1, <4>1 DEF Piece, Plain
        <5>. QED  BY <2>3, <2>4, <4>1, <5>1
      <4>2. CASE c # "%"
        <5>1. Piece(f.line, p) = <<>>
          BY <1>2, <2>1, <3>1, <4>2 DEF Piece, Plain
        <5>2. g.text = f.text /\ g.state = "NORMAL"
          BY <2>3, <2>4, <2>6, <4>2
        <5>. QED  BY <1>1, <5>1, <5>2, NothingAdded
      <4>. QED  BY <4>1, <4>2
    <3>3. i <= Len(f.line.format)
      BY <1>3
    <3>4. TextInv(g)
      BY <1>1, <1>2, <2>4, <3>1, <3>2, <3>3, PieceShown
    <3>. QED  BY <2>4, <3>4 DEF Forwards, g
  <2>. QED  BY <2>5, <2>6
<1>. QED  BY <1>7, <1>8

(* The character behind a conversion.                                      *)
LEMMA SpecifierStep ==
    ASSUME ROOM \in Nat \ {0}, Filled, NEW f, InFormat(f), Len(f.text) < ROOM,
           f.at <= Len(f.line.format), f.at \in Nat,
           NEW i \in 1..Len(f.line.format), BehindSpecifier(f, i)
    PROVE  Forwards(f, Parsed(f))
<1>. DEFINE fmt == f.line.format
            s == Stop(fmt, i)
            h == Action(f, fmt[f.at])
            g == Parsed(f)
            p == <<i, f.arg>>
            text == Converted(f.spec, f.line.args[f.arg])
<1>1. HasFields(f) /\ IsText(f.line) /\ f.text \in Seq(Char)
  BY DEF InFormat, TextInv
<1>2. /\ f.state = "SPECIFIER" /\ fmt[i] = "%" /\ s # 0 /\ s = f.at - 1 /\ fmt[s] \in Specs
      /\ f.spec = SpecAt(fmt, i) /\ Shows(f, i, f.arg)
  BY DEF BehindSpecifier
<1>3. Len(fmt) \in Nat
  BY <1>1 DEF IsText
<1>4. Converts(fmt, i)
  BY <1>2, <1>3 DEF Converts
<1>5. After(fmt, i) = f.at + 1
  BY <1>2, <1>4 DEF After
<1>6. /\ NextPlace(f.line, p) = <<f.at + 1, f.arg + 1>>
      /\ Piece(f.line, p) = text
  BY <1>2, <1>4, <1>5 DEF NextPlace, Piece
<1>. HIDE DEF text
<1>7. h = Goto([Appended(f, text) EXCEPT !.arg = @ + 1], "NORMAL")
  BY <1>2, TablesIn DEF Action, ActionSpecifier, text
<1>8. /\ HasFields(h) /\ h.pc = f.pc /\ h.line = f.line /\ h.at = f.at /\ h.arg = f.arg + 1
      /\ h.text = Clipped(f.text \o text) /\ h.state = "NORMAL"
  BY <1>1, <1>7 DEF Goto, Appended, HasFields
<1>9. /\ HasFields(g) /\ g.pc = f.pc /\ g.line = f.line /\ g.arg = f.arg + 1
      /\ g.text = Clipped(f.text \o text) /\ g.at = f.at + 1 /\ g.state = "NORMAL"
  BY <1>8, ParsedFields
<1>. HIDE DEF g, h
<1>10. i <= Len(f.line.format)
  BY <1>3
<1>11. TextInv(g)
  BY <1>1, <1>2, <1>6, <1>9, <1>10, PieceShown
<1>. QED  BY <1>9, <1>11 DEF Forwards, g

LEMMA ParsedForwards ==
    ASSUME ROOM \in Nat \ {0}, Filled, NEW f, InFormat(f), MoreToParse(f)
    PROVE  Forwards(f, Parsed(f))
<1>1. f.at <= Len(f.line.format) /\ Len(f.text) < ROOM
  BY DEF MoreToParse
<1>2. Standing(f)
  BY <1>1 DEF InFormat, TextInv
<1>3. f.at \in Nat
  BY <1>2 DEF Standing
<1>. QED
  BY <1>1, <1>2, <1>3, NormalStep, ConversionStep, SpecifierStep DEF Standing

(***************************************************************************)
(* The end of the format                                                   *)
(***************************************************************************)
LEMMA AllShown ==
    ASSUME ROOM \in Nat \ {0}, NEW f, InFormat(f), ~MoreToParse(f)
    PROVE  f.text = Clipped(TextOf(f.line)) /\ (Len(f.text) < ROOM => f.text = TextOf(f.line))
<1>. DEFINE fmt == f.line.format
            n == Len(fmt)
<1>1. /\ IsText(f.line) /\ f.text \in Seq(Char) /\ Len(f.text) <= ROOM
      /\ (Len(f.text) = ROOM => f.text = Clipped(TextOf(f.line)))
      /\ (Len(f.text) < ROOM => Standing(f))
  BY DEF InFormat, TextInv
<1>2. fmt \in Seq(STRING) /\ n \in Nat /\ Len(f.text) \in Nat
  BY <1>1, LenProperties DEF IsText
<1>3. ASSUME Len(f.text) < ROOM  PROVE f.text = TextOf(f.line)
  <2>1. f.at = n + 1
    BY <1>1, <1>2, <1>3, SMTT(30) DEF Standing, MoreToParse
  <2>2. ASSUME NEW k, Shows(f, n + 1, k)  PROVE f.text = TextOf(f.line)
    <3>1. <<n + 1, k>> \in Places(f.line) /\ f.text \o TextFrom(f.line)[<<n + 1, k>>] = TextOf(f.line)
      BY <2>2 DEF Shows
    <3>2. Stuck(f.line, <<n + 1, k>>)
      BY <1>2 DEF Stuck
    <3>3. TextFrom(f.line)[<<n + 1, k>>] = <<>>
      BY <1>1, <3>1, <3>2, TextFromIs
    <3>. QED  BY <1>1, <3>1, <3>3, ConcatEmptySeq
  <2>3. ASSUME NEW i \in 1..n, NEW k, Shows(f, i, k), ~Converts(fmt, i), Plain(fmt, i) = <<>>,
               After(fmt, i) = n + 1
        PROVE  f.text = TextOf(f.line)
    <3>. DEFINE p == <<i, k>>
                q == <<n + 1, k>>
                line == f.line
    <3>1. /\ p \in Places(line) /\ f.text \o TextFrom(line)[p] = TextOf(line)
          /\ SuitedFrom(line)[p]
      BY <2>3 DEF Shows
    <3>2. Piece(line, p) = <<>> /\ NextPlace(line, p) = q /\ p[1] = i
      BY <2>3 DEF Piece, NextPlace
    <3>. HIDE DEF p, line
    <3>3. ~Stuck(line, p)
      <4>1. ~(p[1] > n)
        BY <1>2, <3>2
      <4>. QED  BY <1>1, <3>1, <4>1, SuitedFromIs DEF line
    <3>4. q \in Places(line)
      BY <1>1, <3>1, <3>2, <3>3, PlaceFacts DEF line
    <3>5. Stuck(line, q)
      BY <1>2 DEF Stuck, line
    <3>6. TextFrom(line)[q] = <<>>
      BY <1>1, <3>4, <3>5, TextFromIs DEF line
    <3>7. TextFrom(line)[p] = Piece(line, p) \o TextFrom(line)[NextPlace(line, p)]
      BY <1>1, <3>1, <3>3, TextFromIs DEF line
    <3>8. TextFrom(line)[p] = <<>>
      <4>1. TextFrom(line)[p] = <<>> \o <<>>
        BY <3>2, <3>6, <3>7
      <4>2. <<>> \o <<>> = <<>>
        BY ConcatEmptySeq
      <4>. QED  BY <4>1, <4>2
    <3>. QED  BY <1>1, <3>1, <3>8, ConcatEmptySeq DEF line
  <2>4. CASE AtPiece(f)
    BY <2>1, <2>2, <2>4 DEF AtPiece
  <2>5. CASE \E i \in 1..n : AmongModifiers(f, i)
    <3>1. PICK i \in 1..n : AmongModifiers(f, i)
      BY <2>5
    <3>2. fmt[i] = "%" /\ f.at \in i + 1..End(fmt, i) /\ Shows(f, i, f.arg)
      BY <3>1 DEF AmongModifiers
    <3>3. Stop(fmt, i) = 0
      <4>1. Stop(fmt, i) \in {0} \cup i + 1..n
        BY <1>2, StopFacts
      <4>2. Stop(fmt, i) # 0 => End(fmt, i) = Stop(fmt, i)
        BY DEF End
      <4>. QED  BY <1>2, <2>1, <3>2, <4>1, <4>2
    <3>4. ~Converts(fmt, i) /\ Plain(fmt, i) = <<>> /\ After(fmt, i) = n + 1
      BY <3>2, <3>3 DEF Converts, Plain, After
    <3>. QED  BY <2>3, <3>2, <3>4
  <2>6. CASE \E i \in 1..n : BehindSpecifier(f, i)
    <3>1. PICK i \in 1..n : BehindSpecifier(f, i)
      BY <2>6
    <3>2. /\ fmt[i] = "%" /\ Stop(fmt, i) # 0 /\ Stop(fmt, i) = f.at - 1
          /\ fmt[Stop(fmt, i)] \in Specs /\ Shows(f, i, f.arg)
      BY <3>1 DEF BehindSpecifier
    <3>3. Stop(fmt, i) = n
      BY <1>2, <2>1, <3>2
    <3>4. ~Converts(fmt, i) /\ Plain(fmt, i) = <<>> /\ After(fmt, i) = n + 1
      BY <1>2, <3>2, <3>3 DEF Converts, Plain, After, Specs
    <3>. QED  BY <2>3, <3>2, <3>4
  <2>. QED  BY <1>1, <1>3, <2>4, <2>5, <2>6 DEF Standing
<1>4. Len(f.text) < ROOM \/ Len(f.text) = ROOM
  BY <1>1, <1>2
<1>. QED  BY <1>1, <1>3, <1>4, ClippedIs

(***************************************************************************)
(* What the calls hold                                                     *)
(***************************************************************************)
FrameText(f) ==
    /\ HasFields(f)
    /\ f.pc # "idle" => f.line \in MainLines \cup HandlerLines
    /\ f.pc # "format" => f.text = <<>>
    /\ f.pc \in {"enter", "fill", "level"} => f.state = "NORMAL" /\ f.arg = 1
    /\ f.pc \in {"enter", "level"} => f.at = 1
    /\ f.pc = "format" => TextInv(f)

WrittenInv ==
    /\ written.line # NoLine => written.text = Clipped(TextOf(written.line))
    /\ written.nul <= ROOM \/ Len(TextOf(written.line)) >= ROOM

TextsInv ==
    /\ TablesInv
    /\ \A t \in Threads : FrameText(frame[t])
    /\ WrittenInv

LEMMA LinesAreText ==
    ASSUME FormatAssumption, NEW line \in MainLines \cup HandlerLines
    PROVE  IsText(line) /\ SuitedFrom(line)[<<1, 1>>] /\ <<1, 1>> \in Places(line)
<1>1. IsText(line) /\ SuitedFrom(line)[<<1, 1>>]
  BY DEF FormatAssumption, IsLine, IsText
<1>2. Len(line.format) \in Nat /\ Len(line.args) \in Nat
  BY <1>1 DEF IsText
<1>. QED  BY <1>1, <1>2 DEF Places

LEMMA TextOfType ==
    ASSUME FormatAssumption, NEW line \in MainLines \cup HandlerLines
    PROVE  TextOf(line) \in Seq(Char)
<1>1. IsText(line) /\ <<1, 1>> \in Places(line)
  BY LinesAreText
<1>2. <<line.level>> \in Seq(Char)
  <2>1. line.level \in Char
    BY <1>1 DEF IsText, Char
  <2>. QED  BY <2>1
<1>3. TextFrom(line)[<<1, 1>>] \in Seq(Char)
  BY <1>1, TextFromIs
<1>. QED  BY <1>2, <1>3, ConcatProperties DEF TextOf

LEMMA NothingWritten ==
    ASSUME RoomAssumption, Silent
    PROVE  WrittenInv'
BY DEF RoomAssumption, Silent, WrittenInv, Nothing

(* A step of thread t whose frame still says what it should.               *)
LEMMA FrameStep ==
    ASSUME TextsInv, NEW t \in Threads, NEW f, Update(t, f), FrameText(f)
    PROVE  \A u \in Threads : FrameText(frame'[u])
BY Updated DEF TextsInv

LEMMA InitTexts == FormatAssumption /\ LogInit => TextsInv
<1>. SUFFICES ASSUME FormatAssumption, LogInit  PROVE TextsInv
  OBVIOUS
<1>1. TablesInv
  BY InitTables
<1>2. FrameText(Idle)
  BY DEF FrameText, Idle, HasFields
<1>3. \A t \in Threads : frame[t] = Idle
  BY DEF LogInit, LogStarted
<1>4. WrittenInv
  BY DEF LogInit, LogStarted, WrittenInv, Nothing, FormatAssumption, RoomAssumption
<1>. QED  BY <1>1, <1>2, <1>3, <1>4 DEF TextsInv

LEMMA CallTexts ==
    ASSUME FormatAssumption, TextsInv,
           NEW t \in Threads, NEW lines \in {MainLines, HandlerLines}, LogMsg(t, lines)
    PROVE  \A u \in Threads : FrameText(frame'[u])
<1>1. PICK line \in lines : Update(t, [Idle EXCEPT !.pc = "enter", !.line = line])
  BY DEF LogMsg
<1>2. FrameText([Idle EXCEPT !.pc = "enter", !.line = line])
  BY DEF FrameText, Idle, HasFields
<1>. QED  BY <1>1, <1>2, FrameStep

LEMMA EnterTexts ==
    ASSUME TextsInv, NEW t \in Threads, EnterTables(t)
    PROVE  \A u \in Threads : FrameText(frame'[u])
<1>. DEFINE f == [frame[t] EXCEPT !.pc = IF "initialized" \in tables THEN "level" ELSE "fill"]
<1>1. frame[t].pc = "enter" /\ Update(t, f)
  BY DEF EnterTables
<1>2. FrameText(frame[t])
  BY DEF TextsInv
<1>3. FrameText(f)
  BY <1>1, <1>2 DEF FrameText, HasFields
<1>. QED  BY <1>1, <1>3, FrameStep

LEMMA FillTexts ==
    ASSUME TextsInv, NEW t \in Threads, FillTable(t)
    PROVE  \A u \in Threads : FrameText(frame'[u])
<1>. DEFINE done == frame[t].at = Len(Tables)
            f == [frame[t] EXCEPT !.pc = IF done THEN "level" ELSE "fill",
                                  !.at = IF done THEN 1 ELSE @ + 1]
<1>1. frame[t].pc = "fill" /\ Update(t, f)
  BY DEF FillTable
<1>2. FrameText(frame[t])
  BY DEF TextsInv
<1>. HIDE DEF done
<1>3. FrameText(f)
  BY <1>1, <1>2 DEF FrameText, HasFields
<1>. QED  BY <1>1, <1>3, FrameStep

LEMMA LevelTexts ==
    ASSUME FormatAssumption, TextsInv, NEW t \in Threads, PutLevel(t)
    PROVE  \A u \in Threads : FrameText(frame'[u])
<1>. DEFINE f == frame[t]
            line == f.line
            rest == TextFrom(line)[<<1, 1>>]
            g == Appended([f EXCEPT !.pc = "format"], <<line.level>>)
<1>1. f.pc = "level" /\ "level" \in tables
  <2>1. f.pc = "level"
    BY DEF PutLevel
  <2>2. Filled
    BY <2>1 DEF TextsInv, TablesInv, ThreadInv
  <2>. QED  BY <2>1, <2>2, TablesIn
<1>2. Update(t, g)
  BY <1>1 DEF PutLevel
<1>3. FrameText(f)
  BY DEF TextsInv
<1>. HIDE DEF f
<1>4. HasFields(f) /\ line \in MainLines \cup HandlerLines /\ f.text = <<>> /\ f.state = "NORMAL"
      /\ f.arg = 1 /\ f.at = 1
  BY <1>1, <1>3 DEF FrameText
<1>5. IsText(line) /\ SuitedFrom(line)[<<1, 1>>] /\ <<1, 1>> \in Places(line)
  BY <1>4, LinesAreText
<1>6. /\ HasFields(g) /\ g.pc = "format" /\ g.line = line /\ g.at = 1 /\ g.arg = 1
      /\ g.state = "NORMAL" /\ g.text = Clipped(<<>> \o <<line.level>>)
  BY <1>4 DEF Appended, HasFields
<1>. HIDE DEF g, line, rest
<1>7. <<line.level>> \in Seq(Char) /\ Len(<<line.level>>) = 1
  <2>1. line.level \in Char
    BY <1>5 DEF IsText, Char
  <2>. QED  BY <2>1
<1>8. ROOM \in Nat \ {0} /\ rest \in Seq(Char)
  BY <1>5, TextFromIs DEF FormatAssumption, RoomAssumption, rest
<1>9. <<>> \o <<line.level>> = <<line.level>>
  BY <1>7, ConcatEmptySeq
<1>10. TextOf(line) = <<line.level>> \o rest
  BY DEF TextOf, rest
<1>11. TextInv(g)
  <2>. DEFINE s == <<line.level>>
  <2>. HIDE DEF s
  <2>1. s \in Seq(Char) /\ Len(s) = 1 /\ g.text = Clipped(s) /\ TextOf(line) = s \o rest
    BY <1>6, <1>7, <1>9, <1>10 DEF s
  <2>2. /\ g.text \in Seq(Char) /\ Len(g.text) = IF 1 < ROOM THEN 1 ELSE ROOM
        /\ 1 < ROOM => g.text = s
    BY <1>8, <2>1, ClippedIs
  <2>3. Len(g.text) = ROOM => g.text = Clipped(TextOf(line))
    <3>. HAVE Len(g.text) = ROOM
    <3>1. ~(Len(s) < ROOM)
      BY <1>8, <2>1, <2>2
    <3>. QED  BY <1>8, <2>1, <3>1, ClippedPrefix
  <2>4. ASSUME Len(g.text) < ROOM  PROVE Standing(g)
    <3>1. g.text = s
      BY <1>8, <2>2, <2>4
    <3>2. Shows(g, 1, 1)
      BY <1>5, <1>6, <2>1, <3>1 DEF Shows, rest
    <3>3. 1 \in 1..Len(line.format) + 1
      BY <1>5 DEF Places
    <3>. QED  BY <1>6, <3>2, <3>3 DEF Standing, AtPiece
  <2>5. Len(g.text) <= ROOM
    BY <1>8, <2>2
  <2>. QED  BY <1>6, <2>2, <2>3, <2>4, <2>5 DEF TextInv
<1>12. FrameText(g)
  BY <1>4, <1>6, <1>11 DEF FrameText
<1>. QED  BY <1>2, <1>12, FrameStep

LEMMA FormatFacts ==
    ASSUME FormatAssumption, TextsInv, NEW t \in Threads, frame[t].pc = "format"
    PROVE  /\ ROOM \in Nat \ {0} /\ Filled /\ InFormat(frame[t])
           /\ frame[t].line \in MainLines \cup HandlerLines
<1>1. FrameText(frame[t]) /\ Filled
  BY DEF TextsInv, TablesInv, ThreadInv
<1>2. HasFields(frame[t]) /\ frame[t].line \in MainLines \cup HandlerLines /\ TextInv(frame[t])
  BY <1>1 DEF FrameText
<1>3. IsText(frame[t].line)
  BY <1>2, LinesAreText
<1>. QED  BY <1>1, <1>2, <1>3 DEF InFormat, FormatAssumption, RoomAssumption

LEMMA ParseTexts ==
    ASSUME FormatAssumption, TextsInv, NEW t \in Threads, ParseChar(t)
    PROVE  \A u \in Threads : FrameText(frame'[u])
<1>. DEFINE f == frame[t]
            g == Parsed(f)
<1>1. f.pc = "format" /\ MoreToParse(f) /\ Update(t, g)
  BY DEF ParseChar
<1>2. /\ ROOM \in Nat \ {0} /\ Filled /\ InFormat(f)
      /\ f.line \in MainLines \cup HandlerLines
  BY <1>1, FormatFacts
<1>3. Forwards(f, g)
  BY <1>1, <1>2, ParsedForwards
<1>. HIDE DEF f, g
<1>4. FrameText(g)
  BY <1>1, <1>2, <1>3 DEF FrameText, Forwards
<1>. QED  BY <1>1, <1>4, FrameStep

LEMMA WriteTexts ==
    ASSUME FormatAssumption, TextsInv, NEW t \in Threads, WriteLine(t)
    PROVE  (\A u \in Threads : FrameText(frame'[u])) /\ WrittenInv'
<1>. DEFINE f == frame[t]
<1>1. /\ f.pc = "format" /\ ~MoreToParse(f) /\ Update(t, Idle)
      /\ written' = [line |-> f.line, text |-> f.text, nul |-> Len(f.text) + 1]
  BY DEF WriteLine
<1>2. ROOM \in Nat \ {0} /\ InFormat(f) /\ f.line \in MainLines \cup HandlerLines
  BY <1>1, FormatFacts
<1>3. f.text = Clipped(TextOf(f.line)) /\ (Len(f.text) < ROOM => f.text = TextOf(f.line))
  BY <1>1, <1>2, AllShown
<1>4. f.text \in Seq(Char) /\ Len(f.text) <= ROOM /\ Len(f.text) \in Nat
  BY <1>2, LenProperties DEF InFormat, TextInv
<1>5. FrameText(Idle)
  BY DEF FrameText, Idle, HasFields
<1>6. WrittenInv'
  <2>. DEFINE w == written'
  <2>1. w.line = f.line /\ w.text = f.text /\ w.nul = Len(f.text) + 1
    BY <1>1
  <2>. HIDE DEF f
  <2>2. w.nul <= ROOM \/ Len(TextOf(w.line)) >= ROOM
    <3>1. CASE Len(f.text) < ROOM
      BY <1>2, <1>4, <2>1, <3>1
    <3>2. CASE ~(Len(f.text) < ROOM)
      <4>1. Len(TextOf(f.line)) >= ROOM
        <5>1. Len(f.text) = ROOM
          BY <1>2, <1>4, <3>2
        <5>2. TextOf(f.line) \in Seq(Char) /\ Len(TextOf(f.line)) \in Nat
          BY <1>2, TextOfType, LenProperties
        <5>. QED  BY <1>2, <1>3, <5>1, <5>2, ClippedIs
      <4>. QED  BY <2>1, <4>1
    <3>. QED  BY <3>1, <3>2
  <2>. QED  BY <1>3, <2>1, <2>2 DEF WrittenInv
<1>. QED  BY <1>1, <1>5, <1>6, FrameStep

LEMMA NextTexts == FormatAssumption /\ TextsInv /\ [LogNext]_logVars => TextsInv'
<1>. SUFFICES ASSUME FormatAssumption, TextsInv, [LogNext]_logVars  PROVE TextsInv'
  OBVIOUS
<1>1. TablesInv'
  BY NextTables DEF TextsInv
<1>2. RoomAssumption
  BY DEF FormatAssumption
<1>. DEFINE frames == \A u \in Threads : FrameText(frame'[u])
<1>. SUFFICES frames /\ WrittenInv'
  BY <1>1 DEF TextsInv
<1>3. CASE \E t \in Threads, lines \in {MainLines, HandlerLines} : LogMsg(t, lines)
  <2>1. Silent
    BY <1>3 DEF LogMsg
  <2>. QED  BY <1>2, <1>3, <2>1, CallTexts, NothingWritten
<1>4. CASE \E t \in Threads : EnterTables(t)
  <2>1. Silent
    BY <1>4 DEF EnterTables
  <2>. QED  BY <1>2, <1>4, <2>1, EnterTexts, NothingWritten
<1>5. CASE \E t \in Threads : FillTable(t)
  <2>1. Silent
    BY <1>5 DEF FillTable
  <2>. QED  BY <1>2, <1>5, <2>1, FillTexts, NothingWritten
<1>6. CASE \E t \in Threads : PutLevel(t)
  <2>1. Silent
    BY <1>6 DEF PutLevel
  <2>. QED  BY <1>2, <1>6, <2>1, LevelTexts, NothingWritten
<1>7. CASE \E t \in Threads : ParseChar(t)
  <2>1. Silent
    BY <1>7 DEF ParseChar
  <2>. QED  BY <1>2, <1>7, <2>1, ParseTexts, NothingWritten
<1>8. CASE \E t \in Threads : WriteLine(t)
  BY <1>8, WriteTexts
<1>9. CASE UNCHANGED logVars
  BY <1>9 DEF logVars, TextsInv, WrittenInv
<1>. QED  BY <1>3, <1>4, <1>5, <1>6, <1>7, <1>8, <1>9 DEF LogNext, Threads

(* Whatever the formats, a line shows its own one and its own arguments,   *)
(* cut off at the bound and not before, although the handler logs between  *)
(* any two steps of the main thread (ctx_parsing and the actions of        *)
(* log_msg).                                                               *)
THEOREM LineAlwaysItsOwn ==
    ASSUME FormatAssumption
    PROVE  LogSpec => []LineIsItsOwn
<1>1. TextsInv => LineIsItsOwn
  BY DEF TextsInv, WrittenInv, LineIsItsOwn
<1>2. LogInit => TextsInv
  BY InitTexts
<1>3. TextsInv /\ [LogNext]_logVars => TextsInv'
  BY NextTexts
<1>. QED  BY <1>1, <1>2, <1>3, PTL DEF LogSpec

(* No call's text outgrows the buffer, and the NUL lands behind the bound  *)
(* only for a line that fills it (buffer_append_char, log_msg).            *)
THEOREM LineAlwaysFits ==
    ASSUME FormatAssumption
    PROVE  LogSpec => []LineFits
<1>1. TextsInv => LineFits
  <2>. SUFFICES ASSUME TextsInv  PROVE LineFits
    OBVIOUS
  <2>1. ROOM \in Nat
    BY DEF FormatAssumption, RoomAssumption
  <2>2. ASSUME NEW t \in Threads  PROVE Len(frame[t].text) <= ROOM
    <3>1. FrameText(frame[t])
      BY DEF TextsInv
    <3>2. CASE frame[t].pc = "format"
      BY <3>1, <3>2 DEF FrameText, TextInv
    <3>3. CASE frame[t].pc # "format"
      BY <2>1, <3>1, <3>3 DEF FrameText
    <3>. QED  BY <3>2, <3>3
  <2>. QED  BY <2>2 DEF TextsInv, WrittenInv, LineFits
<1>2. LogInit => TextsInv
  BY InitTexts
<1>3. TextsInv /\ [LogNext]_logVars => TextsInv'
  BY NextTexts
<1>. QED  BY <1>1, <1>2, <1>3, PTL DEF LogSpec
=============================================================================
