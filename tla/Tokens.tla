------------------------------- MODULE Tokens -------------------------------
(***************************************************************************)
(* Cutting strings into words: ft_strtok, which keeps its place between    *)
(* calls and writes into the string, ft_split, which allocates the words,  *)
(* and ft_countwords.                                                      *)
(***************************************************************************)
EXTENDS Integers, Sequences, FiniteSets, SequencesExt, Null

CONSTANTS
    Strs,             \* the strings that ft_strtok is given, by name
    Sentences,        \* what they hold
    Delims            \* the sets of delimiters

TokensAssumption == Sentences \subseteq Seq(Nat) /\ Delims \subseteq SUBSET Nat

(* text: the strings as they are in memory, with the NULs that ft_strtok   *)
(* writes; lastToken: where it goes on, <<string, index>>.                 *)
VARIABLES text, lastToken, call

tokenVars == <<text, lastToken, call>>

(* The C string at index i, and the word that begins it.                   *)
Rest(t, i) == LET s == SubSeq(t, i + 1, Len(t))
                  end == SelectInSeq(s, LAMBDA c : c = NUL)
              IN  IF end = 0 THEN s ELSE SubSeq(s, 1, end - 1)

(* Mutant: one delimiter is skipped, not a row.                            *)
Skip_One(s, delim) ==
    IF s # <<>> /\ s[1] \in delim THEN 1 ELSE 0

Skip(s, delim) == LET n == SelectInSeq(s, LAMBDA c : c \notin delim)
                  IN  IF n = 0 THEN Len(s) ELSE n - 1
Word(s, delim) == LET n == SelectInSeq(s, LAMBDA c : c \in delim)
                  IN  IF n = 0 THEN s ELSE SubSeq(s, 1, n - 1)

----------------------------------------------------------------------------
(* ft_split: token_v is block 0, its words are blocks 1, 2, ...            *)

(* The tokens, as many as count and no empty one: behind[k] is where the   *)
(* scan is after k of them.                                                *)
CutTokens(s, c, count) ==
    LET start(i) == i + Skip(SubSeq(s, i + 1, Len(s)), {c})
        token(i) == Word(SubSeq(s, start(i) + 1, Len(s)), {c})
        behind[k \in 0..count] ==
            IF k = 0 THEN 0 ELSE start(behind[k - 1]) + Len(token(behind[k - 1]))
        found == {k \in 1..count : token(behind[k - 1]) # <<>>}
    IN  [k \in 1..Cardinality(found) |-> token(behind[k - 1])]

(* A segment begins at each byte that is no c, after one that is, or none  *)
(* at all; ft_countwords looks for the same.                               *)
CountSegments(s, c) ==
    Cardinality({i \in DOMAIN s : s[i] # c /\ (i = 1 \/ s[i - 1] = c)})
CountWords(s, c) == CountSegments(s, c)

(* malloc fails for word pos, if it comes to that: safe_alloc frees the    *)
(* words before it and token_v, and ft_split frees token_v once more.      *)
Freed(pos) == [i \in 1..pos - 1 |-> i] \o <<0>>
Split(s, c, fails) ==
    LET n == CountSegments(s, c)
    IN  IF fails = 0 THEN [result |-> NULL, freed |-> <<>>, live |-> {}]
        ELSE IF fails \in 1..n
        THEN [result |-> NULL, freed |-> Freed(fails) \o <<0>>, live |-> {}]
        ELSE [result |-> CutTokens(s, c, n), freed |-> <<>>, live |-> 0..n]

----------------------------------------------------------------------------
TokensStarted == lastToken = <<>> /\ call = [fn |-> "none"]
TokensInit == text \in [Strs -> Sentences] /\ TokensStarted

(* ft_strtok from where lastToken, or the argument, points.  source, done  *)
(* and words are for the properties: what the string held when it was      *)
(* given, and what has been returned of it.                                *)
TokenFrom(str, i, delim, source, words) ==
    LET s == Rest(text[str], i)
        start == i + Skip(s, delim)
        token == Word(Rest(text[str], start), delim)
        end == start + Len(token)
        found == Skip(s, delim) < Len(s)
        last == end = Len(text[str]) \/ text[str][end + 1] = NUL
    IN  /\ lastToken' = IF ~found THEN <<str, start>> ELSE IF last THEN <<>> ELSE <<str, end + 1>>
        /\ text' = IF ~found \/ last THEN text ELSE [text EXCEPT ![str][end + 1] = NUL]
        /\ call' = [fn |-> "strtok", str |-> str, delim |-> delim, source |-> source,
                    words |-> IF found THEN Append(words, token) ELSE words, done |-> ~found]

Strtok(str, delim) == TokenFrom(str, 0, delim, Rest(text[str], 0), <<>>)

(* Without a string; the callers keep to the delimiters they began with.   *)
StrtokNext ==
    /\ call.fn = "strtok" /\ ~call.done
    /\ IF lastToken = <<>>
       THEN call' = [call EXCEPT !.done = TRUE] /\ UNCHANGED <<text, lastToken>>
       ELSE TokenFrom(lastToken[1], lastToken[2], call.delim, call.source, call.words)

SplitText(str, c, fails) ==
    /\ call.fn = "none"
    /\ call' = [fn |-> "split", s |-> Rest(text[str], 0), c |-> c, fails |-> fails]
    /\ UNCHANGED <<text, lastToken>>

TokensNext ==
    \/ \E str \in Strs, delim \in Delims : Strtok(str, delim)
    \/ StrtokNext
    \/ \E str \in Strs, c \in UNION Delims, fails \in -1..3 : SplitText(str, c, fails)

TokensSpec == TokensInit /\ [][TokensNext]_tokenVars

----------------------------------------------------------------------------
(* The maximal runs without a delimiter, by their first and last position, *)
(* and what they hold, from the left.                                      *)
Spans(s, delim) ==
    {r \in (1..Len(s)) \X (1..Len(s)) :
        /\ r[1] <= r[2] /\ \A i \in r[1]..r[2] : s[i] \notin delim
        /\ r[1] = 1 \/ s[r[1] - 1] \in delim
        /\ r[2] = Len(s) \/ s[r[2] + 1] \in delim}
UpTo(s, delim, r) == {q \in Spans(s, delim) : q[1] <= r[1]}
Fields(s, delim) ==
    LET nth(k) == CHOOSE r \in Spans(s, delim) : Cardinality(UpTo(s, delim, r)) = k
    IN  [k \in 1..Cardinality(Spans(s, delim)) |-> SubSeq(s, nth(k)[1], nth(k)[2])]

(* Since it was given a string ft_strtok has returned that string's words, *)
(* in order, all of them when it returns NULL; whatever was tokenised      *)
(* before, wholly or not, or another string in between.                    *)
StrtokInOrder ==
    call.fn = "strtok" =>
        /\ IsPrefix(call.words, Fields(call.source, call.delim))
        /\ call.done => call.words = Fields(call.source, call.delim)

(* ft_split returns those same words, as many as ft_countwords counts, or  *)
(* it returns NULL and nothing that it allocated stays.                    *)
SplitAllOrNothing ==
    call.fn = "split" =>
        LET r == Split(call.s, call.c, call.fails)
            n == Len(Fields(call.s, {call.c}))
        IN  /\ CountWords(call.s, call.c) = n
            /\ IF call.fails \in 0..n THEN r.result = NULL /\ r.live = {}
               ELSE r.result = Fields(call.s, {call.c}) /\ r.live = 0..n
            /\ call.fails \in 1..n => 0..call.fails - 1 = ToSet(r.freed)

(* ft_strtok and ft_split return the words of the string they were given,  *)
(* in order and all of them, or nothing at all.                            *)
TokensInOrder == StrtokInOrder /\ SplitAllOrNothing

(* A step writes nothing into a string but NULs, over delimiters, and only *)
(* into the string that ft_strtok was last given.                          *)
CutsDelimiters ==
    \A str \in Strs : \A i \in DOMAIN text[str] :
        text'[str][i] # text[str][i] =>
            text'[str][i] = NUL /\ text[str][i] \in call'.delim /\ str = call'.str
OnlyDelimitersGo == [][CutsDelimiters]_tokenVars
=============================================================================
