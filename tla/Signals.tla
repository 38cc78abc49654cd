------------------------------ MODULE Signals ------------------------------
(***************************************************************************)
(* The two standard signals minitalk talks with, as kill(2), sigaction(2)  *)
(* and POSIX define them.  The kernel is not part of the repository: this  *)
(* module is external, modelled from how srcs/client and srcs/server use   *)
(* it.                                                                     *)
(*                                                                         *)
(* A standard signal is a flag, not a message: while one is pending at a   *)
(* process, a second one with the same number is dropped, and its sender   *)
(* is not told.  Two pending signals are delivered in either order, at any *)
(* later moment.                                                           *)
(***************************************************************************)
EXTENDS FiniteSets

CONSTANTS
    Clients,   \* the client processes
    Server,    \* the server process
    NoOne,     \* the pid 0: nobody in the server's state, the group in kill(0)
    Group      \* the clients that share the server's process group

ASSUME ProcessAssumption ==
    /\ Server \notin Clients
    /\ NoOne \notin Clients \cup {Server}
    /\ Group \subseteq Clients

VARIABLES
    pending,   \* the signals generated and not yet delivered, by process
    alive      \* the processes that kill(2) finds

Procs == Clients \cup {Server}
Sigs == {"USR1", "USR2"}
Signal == [sig : Sigs, from : Procs]

kernelVars == <<pending, alive>>

KernelTypeOK ==
    /\ pending \in [Procs -> SUBSET Signal]
    /\ alive \in SUBSET Procs

KernelInit ==
    /\ pending = [p \in Procs |-> {}]
    /\ alive = {Server}

(* kill(pid, s) called by process "from", with the signals "pend" pending. *)
(* The pid 0 names the caller's own process group, the caller included.    *)
Kill(pend, from, pid, s) ==
    LET targets == IF pid = NoOne THEN Group \cup {from} ELSE {pid}
    IN  [p \in Procs |->
            IF p \in targets \cap alive /\ \A m \in pend[p] : m.sig # s
            THEN pend[p] \cup {[sig |-> s, from |-> from]}
            ELSE pend[p]]

(* What is still pending once signal m is delivered to process p.          *)
Taken(p, m) == [pending EXCEPT ![p] = @ \ {m}]

(* Process p ends; what was pending for it is lost.                        *)
Terminate(p) ==
    /\ alive' = alive \ {p}
    /\ pending' = [pending EXCEPT ![p] = {}]
=============================================================================
