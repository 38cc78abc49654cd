------------------------------ MODULE Delivery ------------------------------
(***************************************************************************)
(* What minitalk promises when nothing crashes and no timer runs out too   *)
(* soon: a client's message is written to the server's terminal whole and  *)
(* at most once, the client reports success only after that, and a client  *)
(* that reports failure is never written.                                  *)
(***************************************************************************)
EXTENDS Sequences, Naturals

CONSTANTS Clients

VARIABLES
    text,     \* the message of each client
    log,      \* what the terminal shows
    outcome   \* what each client told its user: "none", "success", "failure"

vars == <<text, log, outcome>>

Shown(c) == \E i \in 1..Len(log) : log[i].from = c

Init ==
    /\ log = <<>>
    /\ outcome = [c \in Clients |-> "none"]

Show(c) ==
    /\ outcome[c] = "none"
    /\ ~Shown(c)
    /\ log' = Append(log, [from |-> c, text |-> text[c]])
    /\ UNCHANGED <<text, outcome>>

Report(c, o) ==
    /\ outcome[c] = "none"
    /\ o = IF Shown(c) THEN "success" ELSE "failure"
    /\ outcome' = [outcome EXCEPT ![c] = o]
    /\ UNCHANGED <<text, log>>

Next == \E c \in Clients : Show(c) \/ \E o \in {"success", "failure"} : Report(c, o)

Spec == Init /\ [][Next]_vars
=============================================================================
