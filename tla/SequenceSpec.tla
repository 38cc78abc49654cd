---------------------------- MODULE SequenceSpec ----------------------------
(***************************************************************************)
(* What every container of libft promises: it is a sequence.  call is the  *)
(* last call with its arguments and, at the end, its result; items is NULL *)
(* where the program has no container.  Indices start at 0, as in C.       *)
(***************************************************************************)
EXTENDS Integers, Sequences, SequencesExt

CONSTANTS Data, NULL,
          Indices,   \* the indices a caller passes
          Sizes,     \* the sizes a caller asks for
          Blanks     \* elements beside Data that the container can hold

VARIABLES items, call

specVars == <<items, call>>

Size == IF items = NULL THEN 0 ELSE Len(items)
Elements == Data \cup Blanks
At(i) == IF i \in 0..Size - 1 THEN items[i + 1] ELSE NULL
First(d) == IF Size = 0 THEN -1 ELSE SelectInSeq(items, LAMBDA e : e = d) - 1
Turned(k) == [i \in 1..Size |-> items[((i - 1 + k) % Size) + 1]]

Init == items = NULL /\ call = <<"none">>

Refuses(c, result) == call' = Append(c, result) /\ UNCHANGED items
Becomes(c, s, result) == call' = Append(c, result) /\ items' = s

(* Memory runs out or it does not.                                         *)
Create == \/ Becomes(<<"create">>, <<>>, TRUE)
          \/ Refuses(<<"create">>, FALSE)

Insert(c, i, d) ==
    \/ Refuses(c, FALSE)
    \/ items # NULL /\ i <= Size /\ Becomes(c, InsertAt(items, i + 1, d), TRUE)

Inserts ==
    \E d \in Elements :
        \/ Insert(<<"push_front", d>>, 0, d)
        \/ Insert(<<"push_back", d>>, Size, d)
        \/ \E i \in Indices : Insert(<<"insert", i, d>>, i, d)

(* A removal returns the element, or NULL where there is none.             *)
RemoveItem(c, i) ==
    IF i \in 0..Size - 1
    THEN Becomes(c, RemoveAt(items, i + 1), At(i))
    ELSE Refuses(c, NULL)

RemoveData(d) ==
    LET c == <<"remove_data", d>>
    IN  IF First(d) = -1 THEN Refuses(c, FALSE)
        ELSE Becomes(c, RemoveAt(items, First(d) + 1), TRUE)

Removes ==
    \/ RemoveItem(<<"pop_front">>, 0)
    \/ RemoveItem(<<"pop_back">>, Size - 1)
    \/ \E i \in Indices : RemoveItem(<<"remove", i>>, i)
    \/ \E d \in Data : RemoveData(d)

Set ==
    \E i \in Indices, d \in Elements :
        IF i < Size /\ d # NULL
        THEN Becomes(<<"set", i, d>>, ReplaceAt(items, i + 1, d), TRUE)
        ELSE Refuses(<<"set", i, d>>, FALSE)

Clear == items # NULL /\ Becomes(<<"clear">>, <<>>, TRUE)
Destroy == items # NULL /\ Becomes(<<"destroy">>, NULL, TRUE)
Flip == items # NULL /\ Becomes(<<"reverse">>, Reverse(items), TRUE)
Rotate ==
    \E k \in Indices : items # NULL /\
        \/ Becomes(<<"rotate_forward", k>>, Turned(k), TRUE)
        \/ Becomes(<<"rotate_backward", k>>, Turned(Size - (k % Size)), TRUE)

(* Capacity is nothing the caller can see in the elements.                 *)
Reserve == \E i \in Sizes, ok \in BOOLEAN, c \in {"resize", "reserve"} :
               Refuses(<<c, i>>, ok)

(* What a call that only reads returns; s is the elements.                 *)
Answer(c, s) ==
    LET at(i) == IF i \in 0..Len(s) - 1 THEN s[i + 1] ELSE NULL
        first(d) == SelectInSeq(s, LAMBDA e : e = d) - 1
    IN  CASE c[1] = "size" -> Len(s)
          [] c[1] = "is_empty" -> s = <<>>
          [] c[1] = "front" -> at(0)
          [] c[1] = "back" -> at(Len(s) - 1)
          [] c[1] = "get" -> at(c[2])
          [] c[1] = "find" -> first(c[2])
          [] c[1] = "contains" -> first(c[2]) # -1
          [] c[1] = "print" -> s
          [] c[1] = "print_reverse" -> Reverse(s)
          [] c[1] = "print_n_times" ->
                [i \in 1..c[2] * Len(s) |-> s[((i - 1) % Len(s)) + 1]]

ReadOps == {"size", "is_empty", "front", "back", "get", "find", "contains",
            "print", "print_reverse", "print_n_times"}
Read ==
    /\ UNCHANGED items
    /\ Last(call') = Answer(call', IF items = NULL THEN <<>> ELSE items)

(* A search among elements in order finds one that is there; whatever it   *)
(* finds in any other order is one.                                        *)
BinarySearch ==
    LET target == call'[2]
        below == call'[3]
        result == Last(call')
        rank(e) == IF e = target THEN 1 ELSE IF e \in below THEN 0 ELSE 2
        ascending == \A i, j \in 1..Size : i < j => rank(items[i]) <= rank(items[j])
    IN  /\ UNCHANGED items
        /\ \/ result \in 0..Size - 1 /\ At(result) = target
           \/ result = -1 /\ (ascending => First(target) = -1)

(* The conjuncts on specVars and on the name of the call only repeat what  *)
(* the actions say: they spare TLC the actions of other names.             *)
Op(names, Action) == call'[1] \in names /\ Action
Next ==
    /\ specVars' # specVars
    /\ \/ Op({"create"}, Create)
       \/ Op({"push_front", "push_back", "insert"}, Inserts)
       \/ Op({"pop_front", "pop_back", "remove", "remove_data"}, Removes)
       \/ Op({"set"}, Set)
       \/ Op({"rotate_forward", "rotate_backward"}, Rotate)
       \/ Op({"clear", "destroy", "reverse", "resize", "reserve"},
             Clear \/ Destroy \/ Flip \/ Reserve)
       \/ Op(ReadOps, Read)
       \/ Op({"binary_search"}, BinarySearch)

Spec == Init /\ [][Next]_specVars
=============================================================================
