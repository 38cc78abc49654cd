--------------------------- MODULE MinitalkClient ---------------------------
(***************************************************************************)
(* The minitalk clients (srcs/client).  Each is one process: it pings the  *)
(* server until it reads READY, replaces its ping handler by its transfer  *)
(* handler, sends its length and its characters bit by bit, waiting for    *)
(* the server's acknowledgment after each bit, and pauses until the        *)
(* confirmation ends it.  Its handler and its main thread share is_ready   *)
(* and ready_to_proceed.                                                   *)
(***************************************************************************)
EXTENDS Signals, Wire, Sequences

CONSTANTS
    RETRY_TIMES,   \* pings before a client gives up (20)
    Messages       \* what a client may be asked to send

ASSUME RetryAssumption == RETRY_TIMES \in Nat \ {0}
ASSUME MessagesAssumption == Messages \subseteq Seq(Nat \ {0})

VARIABLES
    cl,    \* the state of each client process
    msg    \* the argument each client was started with

clientVars == <<cl, msg>>

Final == {"success", "failure", "killed"}
Points == {"absent", "start", "ping", "check", "delay", "switch", "slot", "send",
           "ack", "clear", "pause"} \cup Final

(* at: where the client is; handler: its signal disposition; attempt: the  *)
(* number of its current ping; sent: the bits it has sent.  The others are *)
(* fields of its t_server_state.                                           *)
ClientProcess ==
    [at : Points, handler : {"default", "ping", "transfer"},
     attempt : 0..RETRY_TIMES, sent : Nat,
     is_ready : 0..1, ready_to_proceed : 0..1, transmission_active : 0..1]

ClientTypeOK ==
    /\ cl \in [Clients -> ClientProcess]
    /\ msg \in [Clients -> Messages]

ClientInit ==
    /\ cl = [c \in Clients |->
               [at |-> "absent", handler |-> "default", attempt |-> 0, sent |-> 0,
                is_ready |-> 0, ready_to_proceed |-> 0, transmission_active |-> 0]]
    /\ msg \in [Clients -> Messages]

(***************************************************************************)
(* Encoding: the bits of the length, then of each character, most          *)
(* significant first.                                                      *)
(***************************************************************************)
TotalBits(c) == HEADER_SIZE + CHAR_SIZE * Len(msg[c])

BitAt(c, k) ==
    LET j == k - HEADER_SIZE - 1
    IN  IF k <= HEADER_SIZE THEN Bit(Len(msg[c]), HEADER_SIZE - k)
        ELSE Bit(msg[c][j \div CHAR_SIZE + 1], CHAR_SIZE - 1 - (j % CHAR_SIZE))

(***************************************************************************)
(* The main thread                                                         *)
(***************************************************************************)
(* Client c, still running, is at point p.                                 *)
At(c, p) == c \in alive /\ cl[c].at = p

(* A step of c that changes its own memory only.                           *)
Local(c, new) ==
    /\ cl' = [cl EXCEPT ![c] = new]
    /\ UNCHANGED <<kernelVars, msg>>

(* Client c exits.                                                         *)
Exit(c, outcome) ==
    /\ cl' = [cl EXCEPT ![c].at = outcome]
    /\ Terminate(c)
    /\ UNCHANGED msg

(* Client c sends s to the server and moves on to "new".                   *)
Send(c, s, new) ==
    /\ Server \in alive
    /\ pending' = Kill(pending, c, Server, s)
    /\ cl' = [cl EXCEPT ![c] = new]
    /\ UNCHANGED <<alive, msg>>

(* The shell starts client c with the server's pid.                        *)
Launch(c) ==
    /\ cl[c].at = "absent"
    /\ alive' = alive \cup {c}
    /\ cl' = [cl EXCEPT ![c].at = "start"]
    /\ UNCHANGED <<pending, msg>>

(* main up to the first ping: the pid is checked, the ping handlers set.   *)
Start(c) ==
    /\ At(c, "start")
    /\ Server \in alive
    /\ Local(c, [cl[c] EXCEPT !.at = "ping", !.handler = "ping", !.attempt = 1,
                              !.is_ready = 0, !.ready_to_proceed = 0,
                              !.transmission_active = 0])

(* attempt_ping                                                            *)
SendPing(c) ==
    /\ At(c, "ping")
    /\ Send(c, "USR1", [cl[c] EXCEPT !.at = "check"])

(* kill(server, 0) fails in parse_arguments, attempt_ping or send_signal.  *)
ServerGone(c) ==
    /\ At(c, "start") \/ At(c, "ping") \/ At(c, "send")
    /\ Server \notin alive
    /\ Exit(c, "failure")

(* check_server_and_sleep reads is_ready in time ...                       *)
PollReady(c) ==
    /\ At(c, "check")
    /\ cl[c].is_ready = 1
    /\ Local(c, [cl[c] EXCEPT !.at = "switch"])

(* ... or not; handle_retry_delay does not look at it.                     *)
PingExpire(c) ==
    /\ At(c, "check")
    /\ cl[c].is_ready = 0
    /\ Local(c, [cl[c] EXCEPT !.at = "delay"])

(* Mutant: one ping too many.                                              *)
Retry_OneMore(c) ==
    /\ At(c, "delay")
    /\ cl[c].attempt <= RETRY_TIMES
    /\ Local(c, [cl[c] EXCEPT !.at = "ping", !.attempt = @ + 1])

Retry(c) ==
    /\ At(c, "delay")
    /\ cl[c].attempt < RETRY_TIMES
    /\ Local(c, [cl[c] EXCEPT !.at = "ping", !.attempt = @ + 1])

GiveUp(c) ==
    /\ At(c, "delay")
    /\ cl[c].attempt = RETRY_TIMES
    /\ Exit(c, "failure")

(* setup_signal_handlers                                                   *)
InstallHandlers(c) ==
    /\ At(c, "switch")
    /\ Local(c, [cl[c] EXCEPT !.at = "slot", !.handler = "transfer"])

(* wait_for_transmission_slot: the flag is this process's own, and nothing *)
(* has set it before.                                                      *)
AcquireSlot(c) ==
    /\ At(c, "slot")
    /\ cl[c].transmission_active = 0
    /\ Local(c, [cl[c] EXCEPT !.at = "send", !.transmission_active = 1])

(* send_bit                                                                *)
SendBit(c) ==
    /\ At(c, "send")
    /\ Send(c, SignalOf(BitAt(c, cl[c].sent + 1)),
            [cl[c] EXCEPT !.at = "ack", !.sent = @ + 1])

(* wait_for_server_ack: the loop reads the flag, what follows clears it.   *)
AckSeen(c) ==
    /\ At(c, "ack")
    /\ cl[c].ready_to_proceed = 1
    /\ Local(c, [cl[c] EXCEPT !.at = "clear"])

(* Mutant: the flag stays up.                                              *)
ClearAck_Keep(c) ==
    /\ At(c, "clear")
    /\ Local(c, [cl[c] EXCEPT
                 !.at = IF cl[c].sent < TotalBits(c) THEN "send" ELSE "pause"])

ClearAck(c) ==
    /\ At(c, "clear")
    /\ Local(c, [cl[c] EXCEPT !.ready_to_proceed = 0,
                 !.at = IF cl[c].sent < TotalBits(c) THEN "send" ELSE "pause"])

(* Mutant: no timeout while the header is sent.                            *)
AckExpire_MessageOnly(c) ==
    /\ At(c, "ack")
    /\ cl[c].sent > HEADER_SIZE
    /\ Exit(c, "failure")

(* handle_timeout exits without looking at the flag again.                 *)
AckExpire(c) ==
    /\ At(c, "ack")
    /\ Exit(c, "failure")

(***************************************************************************)
(* The signal handlers                                                     *)
(***************************************************************************)
(* Signal m is delivered to c and only c's memory changes.                 *)
Deliver(c, m, new) ==
    /\ pending' = Taken(c, m)
    /\ cl' = [cl EXCEPT ![c] = new]
    /\ UNCHANGED <<alive, msg>>

(* No handler yet: the default action of both signals ends the process.    *)
DefaultAction(c, m) ==
    /\ cl[c].handler = "default"
    /\ Exit(c, "killed")

(* ping_handler: USR1 is READY, USR2 is BUSY.  Both handlers drop signals  *)
(* of other processes than the server; no process of the model sends one.  *)
Pinged(c, m) ==
    /\ cl[c].handler = "ping"
    /\ m.from = Server
    /\ Deliver(c, m, [cl[c] EXCEPT !.is_ready = IF m.sig = "USR1" THEN 1 ELSE 0])

(* signal_handler: USR2 acknowledges a bit, USR1 confirms the message.     *)
Acknowledged(c, m) ==
    /\ cl[c].handler = "transfer"
    /\ m.from = Server
    /\ m.sig = "USR2"
    /\ Deliver(c, m, [cl[c] EXCEPT !.ready_to_proceed = 1])

(* Mutant: any signal confirms.                                            *)
Confirmed_Any(c, m) ==
    /\ cl[c].handler = "transfer"
    /\ m.from = Server
    /\ Exit(c, "success")

Confirmed(c, m) ==
    /\ cl[c].handler = "transfer"
    /\ m.from = Server
    /\ m.sig = "USR1"
    /\ Exit(c, "success")

ClientSignal(c) ==
    \E m \in pending[c] :
        \/ DefaultAction(c, m)
        \/ Pinged(c, m)
        \/ Acknowledged(c, m)
        \/ Confirmed(c, m)
=============================================================================
