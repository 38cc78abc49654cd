------------------------------ MODULE Strings ------------------------------
(***************************************************************************)
(* libft's functions on strings, on memory and on single characters.  A    *)
(* string is a sequence of bytes other than NUL; an area of memory is a    *)
(* function on 0..n-1, which a write outside makes larger.                 *)
(***************************************************************************)
EXTENDS Integers, Sequences, FiniteSets, SequencesExt, FiniteSetsExt, Bitwise

CONSTANTS
    Words,            \* the strings of the calls
    Needles,          \* what is searched for, and the sets of ft_strtrim
    Lengths,          \* the sizes, the counts and the start of ft_substr
    MEMORY,           \* the bytes of the area that ft_memmove works in
    SIZE_BITS,        \* of a size_t
    CodePoints        \* the characters that are classified

StringsAssumption ==
    /\ \A w \in Words \cup Needles : w \in Seq(Nat \ {0})
    /\ Lengths \subseteq Nat /\ MEMORY \in Nat /\ SIZE_BITS \in Nat

NUL == 0
UNSET == -1           \* a byte that nobody has written
NONE == -1            \* the null pointer, where an index is returned

Area(n) == [i \in 0..n - 1 |-> UNSET]
Put(area, i, byte) == [k \in DOMAIN area \cup {i} |-> IF k = i THEN byte ELSE area[k]]
Store(area, at, bytes) ==
    FoldLeft(LAMBDA a, k : Put(a, at + k - 1, bytes[k]), area, [k \in DOMAIN bytes |-> k])

Terminated(s) == s \o <<NUL>>
CString(s) == [i \in 0..Len(s) |-> Terminated(s)[i + 1]]
StringAt(area, i) == LET end == Min({k \in DOMAIN area : k >= i /\ area[k] = NUL})
                     IN  [k \in 1..end - i |-> area[i + k - 1]]
Smaller(m, n) == IF m < n THEN m ELSE n
From(s, start) == SubSeq(s, start + 1, Len(s))

----------------------------------------------------------------------------
(* Memory.                                                                 *)

Upwards(n) == [k \in 1..n |-> k - 1]

(* Mutant: always upwards, as memcpy.                                      *)
Memmove_Upwards(area, dst, src, n) ==
    FoldLeft(LAMBDA a, k : Put(a, dst + k, a[src + k]), area, Upwards(n))

Memmove(area, dst, src, n) ==
    FoldLeft(LAMBDA a, k : Put(a, dst + k, a[src + k]), area,
             IF dst < src THEN Upwards(n) ELSE Reverse(Upwards(n)))
Memset(area, at, value, n) == FoldLeft(LAMBDA a, k : Put(a, at + k, value), area, Upwards(n))
Bzero(area, at, n) == Memset(area, at, NUL, n)
Memchr(bytes, c, n) ==
    LET i == SelectInSeq(SubSeq(bytes, 1, n), LAMBDA b : b = c) IN i - 1
Memcmp(s, t, n) ==
    LET i == SelectInSeq(Upwards(n), LAMBDA k : s[k + 1] # t[k + 1])
    IN  IF i = 0 THEN 0 ELSE s[i] - t[i]

(* Each byte by three exclusive ors; nothing when both are the same.       *)
Swap(area, a, b, size) ==
    LET xor(m, i, j) == Put(m, i, m[i] ^^ m[j])
    IN  IF a = b THEN area
        ELSE FoldLeft(LAMBDA m, k : xor(xor(xor(m, a + k, b + k), b + k, a + k), a + k, b + k),
                      area, Upwards(size))
ReverseString(area) ==
    LET n == Len(StringAt(area, 0))
    IN  FoldLeft(LAMBDA a, k : Swap(a, k, n - 1 - k, 1), area, Upwards(n \div 2))

(* The greatest size_t, bit by bit, and ft_calloc's guard against a product *)
(* that wraps; no area is NONE.                                            *)
SizeMax == FoldLeft(LAMBDA m, i : m | 2^i, 0, Upwards(SIZE_BITS))
Calloc(nmemb, size) ==
    LET total == (nmemb * size) % (SizeMax + 1)
    IN  IF nmemb # 0 /\ size > SizeMax \div nmemb THEN NONE ELSE Bzero(Area(total), 0, total)
Realloc(area, newSize, oldSize) ==
    Store(Area(newSize), 0, [k \in 1..Smaller(oldSize, newSize) |-> area[k - 1]])

----------------------------------------------------------------------------
(* Comparisons and searches: indices, NONE for the null pointer.           *)

ByteAt(s, i) == Terminated(s)[i + 1]
Strcmp(s, t) ==
    LET i == Min({k \in 0..Smaller(Len(s), Len(t)) : ByteAt(s, k) # ByteAt(t, k)
                                                    \/ NUL \in {ByteAt(s, k), ByteAt(t, k)}})
    IN  ByteAt(s, i) - ByteAt(t, i)
RECURSIVE Strncmp(_, _, _)
Strncmp(s, t, n) ==
    IF n = 0 THEN 0
    ELSE IF ByteAt(s, 0) # ByteAt(t, 0) THEN ByteAt(s, 0) - ByteAt(t, 0)
    ELSE IF s = <<>> THEN 0
    ELSE Strncmp(Tail(s), Tail(t), n - 1)

Strclen(s, c) == LET i == SelectInSeq(s, LAMBDA b : b = c) IN IF i = 0 THEN Len(s) ELSE i - 1
Strchr(s, c) == Memchr(Terminated(s), c, Len(s) + 1)
Strrchr(s, c) == IF c = NUL THEN Len(s) ELSE SelectLastInSeq(s, LAMBDA b : b = c) - 1

(* How far the needle agrees with the string, within remaining bytes.      *)
RECURSIVE Agree(_, _, _)
Agree(s, needle, remaining) ==
    IF s # <<>> /\ needle # <<>> /\ Head(s) = Head(needle) /\ remaining > 0
    THEN 1 + Agree(Tail(s), Tail(needle), remaining - 1) ELSE 0

(* Mutant: a match may end behind the bound.                               *)
Strnstr_PastBound(hay, needle, n) ==
    LET starts == {i \in 0..Len(hay) - 1 :
                      i < n /\ Agree(From(hay, i), needle, Len(needle)) = Len(needle)}
    IN  IF needle = <<>> THEN 0 ELSE IF starts = {} THEN NONE ELSE Min(starts)

Strnstr(hay, needle, n) ==
    LET starts == {i \in 0..Len(hay) - 1 : i < n /\ Agree(From(hay, i), needle, n - i) = Len(needle)}
    IN  IF needle = <<>> THEN 0 ELSE IF starts = {} THEN NONE ELSE Min(starts)
Strstr(hay, needle) ==
    LET starts == {i \in 0..Len(hay) - 1 : Strncmp(From(hay, i), needle, Len(needle)) = 0}
    IN  IF needle = <<>> THEN 0 ELSE IF starts = {} THEN NONE ELSE Min(starts)

----------------------------------------------------------------------------
(* Copies into the caller's area, and into one that is allocated.          *)

Strlcpy(dst, src, dsize) ==
    LET n == Smaller(Len(src), dsize - 1)
    IN  [area |-> IF dsize > 0 THEN Store(dst, 0, Terminated(SubSeq(src, 1, n))) ELSE dst,
         ret |-> Len(src)]
Strlcat(dst, src, dsize) ==
    LET len == Len(StringAt(dst, 0))
        n == Smaller(Len(src), dsize - len - 1)
    IN  IF dsize <= len THEN [area |-> dst, ret |-> dsize + Len(src)]
        ELSE [area |-> Store(dst, len, Terminated(SubSeq(src, 1, n))), ret |-> len + Len(src)]
Strncpy(dst, src, n) ==
    Store(dst, 0, [k \in 1..n |-> IF k <= Len(src) THEN src[k] ELSE NUL])

Strdup(s) == Store(Area(Len(s) + 1), 0, Terminated(s))
Strndup(s, n) == LET len == Smaller(n, Len(s))
                 IN  Put(Store(Area(len + 1), 0, SubSeq(s, 1, len)), len, NUL)
Strjoin(s, t) == Store(Store(Area(Len(s) + Len(t) + 1), 0, s), Len(s), Terminated(t))
Strnjoin(strs) ==
    LET total == FoldLeft(LAMBDA n, s : n + Len(s), 0, strs)
        copy(x, s) == [area |-> Store(x.area, x.ptr, s), ptr |-> x.ptr + Len(s)]
        end == FoldLeft(copy, [area |-> Area(total + 1), ptr |-> 0], strs)
    IN  Put(end.area, end.ptr, NUL)
Substr(s, start, len) ==
    LET n == Smaller(len, Len(s) - start)
    IN  IF start >= Len(s) THEN Strdup(<<>>)
        ELSE Strlcpy(Area(n + 1), From(s, start), n + 1).area
Strtrim(s, set) ==
    LET in(c) == Strchr(set, c) # NONE
        kept == SelectInSeq(s, LAMBDA c : ~in(c))
        start == IF kept = 0 THEN Len(s) ELSE kept - 1
        end == IF kept = 0 THEN start ELSE SelectLastInSeq(s, LAMBDA c : ~in(c))
    IN  Strlcpy(Area(end - start + 1), From(s, start), end - start + 1).area

(* Both give the callback the index too; the callback here adds it.        *)
Strmapi(s) == Store(Area(Len(s) + 1), 0, Terminated([k \in DOMAIN s |-> s[k] + k - 1]))
Striteri(area) ==
    FoldLeft(LAMBDA a, i : Put(a, i, a[i] + i), area, Upwards(Len(StringAt(area, 0))))

----------------------------------------------------------------------------
(* Characters.  An unsigned difference is below n when it is in 0..n-1; a  *)
(* sign bit is what >> 31 leaves.                                          *)

Below(difference, n) == difference \in 0..n - 1
Lowered(c) == IF c >= 0 /\ (c \div 32) % 2 = 0 THEN c + 32 ELSE c
IsAlpha(c) == Below(Lowered(c) - 97, 26)
IsAlnum(c) == Below(c - 48, 10) \/ IsAlpha(c)
IsDigit(c) == LET byte == c % 256 IN byte \div 16 = 3 /\ byte % 16 <= 9
IsXdigit(c) == IsDigit(c) \/ Below(c - 97, 6) \/ Below(c - 65, 6)
IsLower(c) == Below(c - 97, 26)
IsUpper(c) == ~(c - 65 < 0) /\ ~(90 - c < 0)
IsAscii(c) == c >= 0 /\ c <= 127
IsBlank(c) == c \in {32, 9}
IsSpace(c) == c \in {32, 9, 10, 13, 11, 12}
IsGraph(c) == ~(c - 33 < 0 \/ 126 - c < 0)
IsPrint(c) == c >= 32 /\ c <= 126
ToLower(c) == IF c >= 65 /\ c <= 90 THEN c + 32 ELSE c
ToUpper(c) == IF c >= 97 /\ c <= 122 THEN c - 32 ELSE c

----------------------------------------------------------------------------
VARIABLE call

vars == <<call>>

Init == call = [fn |-> "none"]

Move(fn, d, s, n) ==
    /\ call.fn = "none" /\ d + n <= MEMORY /\ s + n <= MEMORY
    /\ call' = [fn |-> fn, d |-> d, s |-> s, n |-> n]
Find(fn, s, t, n) == call.fn = "none" /\ call' = [fn |-> fn, s |-> s, t |-> t, n |-> n]
Copy(fn, s, t, n) == call.fn = "none" /\ call' = [fn |-> fn, s |-> s, t |-> t, n |-> n]
Classify(c) == call.fn = "none" /\ call' = [fn |-> "ctype", c |-> c]

Next ==
    \/ \E fn \in {"memmove", "swap", "memset", "alloc"}, d, s, n \in Lengths : Move(fn, d, s, n)
    \/ \E fn \in {"compare", "find"}, s \in Words, t \in Needles, n \in Lengths : Find(fn, s, t, n)
    \/ \E fn \in {"copy", "join", "cut"}, s \in Words, t \in Needles, n \in Lengths : Copy(fn, s, t, n)
    \/ \E c \in CodePoints : Classify(c)

Spec == Init /\ [][Next]_vars

----------------------------------------------------------------------------
(* Overlapping areas are moved as if all bytes were read before any is     *)
(* written, and exchanged if they do not overlap; nothing outside them is  *)
(* touched.  ft_calloc never gives less than was asked for, and ft_realloc *)
(* keeps what fits.                                                        *)
MovesMemory ==
    LET area == [i \in 0..MEMORY - 1 |-> i]
        d == call.d
        s == call.s
        n == call.n
    IN  CASE call.fn = "memmove" ->
                Memmove(area, d, s, n) =
                    [i \in 0..MEMORY - 1 |-> IF i \in d..d + n - 1 THEN i - d + s ELSE i]
          [] call.fn = "swap" ->
                d = s \/ d + n <= s \/ s + n <= d =>
                    Swap(area, d, s, n) =
                        [i \in 0..MEMORY - 1 |-> IF i \in d..d + n - 1 THEN i - d + s
                                                 ELSE IF i \in s..s + n - 1 THEN i - s + d ELSE i]
          [] call.fn = "memset" ->
                Memset(area, d, NUL, n) =
                    [i \in 0..MEMORY - 1 |-> IF i \in d..d + n - 1 THEN NUL ELSE i]
          [] call.fn = "alloc" ->
                /\ Calloc(d, s) = IF d * s >= 2^SIZE_BITS THEN NONE ELSE [i \in 0..d * s - 1 |-> NUL]
                /\ \A size \in Lengths :
                    LET r == Realloc(area, size, MEMORY)
                    IN  DOMAIN r = 0..size - 1 /\ \A i \in DOMAIN r : i < MEMORY => r[i] = area[i]
          [] OTHER -> TRUE

Occurs(needle, hay, i) == i + Len(needle) <= Len(hay)
                          /\ \A k \in DOMAIN needle : hay[i + k] = needle[k]
Least(set) == IF set = {} THEN NONE ELSE Min(set)
SameSign(m, n) == (m < 0 <=> n < 0) /\ (m > 0 <=> n > 0)
FirstN(s, n) == SubSeq(s, 1, Smaller(n, Len(s)))

(* The searches return the first, or last, occurrence there is, wholly     *)
(* within the n bytes that ft_strnstr looks at; the comparisons order      *)
(* strings as a dictionary does, and agree with one another.               *)
Finds ==
    LET s == call.s
        t == call.t
        n == call.n
        places(u) == {i \in 0..Len(u) : Occurs(t, u, i)}
        bytes(u) == [k \in 1..MEMORY |-> IF k <= Len(u) THEN u[k] ELSE NUL]
        differ(u, v) == {k \in 0..Smaller(Len(u), Len(v)) : ByteAt(u, k) # ByteAt(v, k)}
        order(u, v) == IF differ(u, v) = {} THEN 0
                       ELSE ByteAt(u, Min(differ(u, v))) - ByteAt(v, Min(differ(u, v)))
    IN  CASE call.fn = "find" ->
                /\ Strstr(s, t) = Least(places(s))
                /\ Strnstr(s, t, n) = Least(places(FirstN(s, n)))
                /\ \A c \in ToSet(t) \cup {NUL} :
                    LET at == {i \in 0..Len(s) : ByteAt(s, i) = c}
                    IN  /\ Strchr(s, c) = Least(at)
                        /\ Strrchr(s, c) = IF at = {} THEN NONE ELSE Max(at)
                        /\ Strclen(s, c) = IF at = {} THEN Len(s) ELSE Min(at)
          [] call.fn = "compare" ->
                /\ Strcmp(s, t) = order(s, t)
                /\ Strncmp(s, t, n) = order(FirstN(s, n), FirstN(t, n))
                /\ Smaller(n, MEMORY) = n =>
                    SameSign(Memcmp(bytes(s), bytes(t), n), Strncmp(s, t, n))
          [] OTHER -> TRUE

(* A copy stays within its area, ends with a NUL and holds what it should; *)
(* an allocated one fills its area to the last byte.  ft_strlcpy and       *)
(* ft_strlcat report the length that would have been needed; ft_strncpy    *)
(* alone leaves the end open.  ft_strlcpy ends a string it truncates, too, *)
(* although lines 33-35 of its comment say "the null terminator is not     *)
(* added"; lines 18 and 30 say that it is.                                 *)
CopiesWithinBounds ==
    LET s == call.s
        t == call.t
        n == call.n
        joined == FirstN(s \o t, Max({n - 1, Len(s)}))
    IN  CASE call.fn = "copy" ->
                /\ LET r == Strlcpy(Area(n), s, n)
                   IN  /\ DOMAIN r.area = 0..n - 1
                       /\ n > 0 => StringAt(r.area, 0) = FirstN(s, n - 1)
                       /\ r.ret < n <=> n > 0 /\ StringAt(r.area, 0) = s
                /\ LET full == Smaller(n, Len(s)) + 1
                       r == Strlcat(Store(Area(full + Len(t)), 0, Terminated(s)), t, n)
                   IN  Len(s) < n => /\ StringAt(r.area, 0) = joined
                                     /\ Max(DOMAIN r.area) < Max({full + Len(t), n})
                                     /\ r.ret < n <=> StringAt(r.area, 0) = s \o t
                /\ LET r == Strlcat(Store(Area(Max({n, Len(s) + 1})), 0, Terminated(s)), t, n)
                   IN  DOMAIN r.area = 0..Max({n, Len(s) + 1}) - 1
                /\ DOMAIN Strncpy(Area(n), s, n) = 0..n - 1
          [] call.fn = "join" ->
                /\ Strjoin(s, t) = CString(s \o t)
                /\ Strnjoin(<<s, t, s>>) = CString(s \o t \o s)
                /\ Strndup(s, n) = CString(FirstN(s, n))
                /\ Strdup(s) = CString(s)
                /\ StringAt(ReverseString(CString(s)), 0) = Reverse(s)
                /\ Striteri(CString(s)) = Strmapi(s)
                /\ DOMAIN Strmapi(s) = 0..Len(s)
          [] call.fn = "cut" ->
                /\ \A start \in Lengths :
                    Substr(s, start, n) = CString(SubSeq(s, start + 1, Smaller(start + n, Len(s))))
                /\ LET r == StringAt(Strtrim(s, t), 0)
                   IN  /\ Strtrim(s, t) = CString(r)
                       /\ r # <<>> => r[1] \notin ToSet(t) /\ r[Len(r)] \notin ToSet(t)
                       /\ \E i \in 0..Len(s) :
                            /\ Occurs(r, s, i)
                            /\ ToSet(SubSeq(s, 1, i)) \cup ToSet(From(s, i + Len(r))) \subseteq ToSet(t)
          [] OTHER -> TRUE

(* The bit tricks agree with the ranges of ASCII, for EOF and every value  *)
(* of an unsigned char, and with one another.                              *)
Classifies ==
    call.fn = "ctype" =>
        LET c == call.c
        IN  /\ IsDigit(c) <=> c \in 48..57
            /\ IsAlpha(c) <=> IsUpper(c) \/ IsLower(c)
            /\ IsAlnum(c) <=> IsAlpha(c) \/ IsDigit(c)
            /\ IsXdigit(c) => IsAlnum(c)
            /\ IsPrint(c) <=> IsGraph(c) \/ c = 32
            /\ IsGraph(c) \/ IsBlank(c) \/ IsSpace(c) => IsAscii(c)
            /\ IsBlank(c) => IsSpace(c)
            /\ IsUpper(c) <=> c # ToLower(c)
            /\ IsLower(c) <=> c # ToUpper(c)
            /\ IsUpper(c) => ToUpper(ToLower(c)) = c

=============================================================================
