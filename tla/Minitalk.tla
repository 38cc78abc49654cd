------------------------------ MODULE Minitalk ------------------------------
(***************************************************************************)
(* One server and its clients, run by a scheduler that owes nobody         *)
(* anything.  The program relies on more than that: its timers decide that *)
(* an answer is not coming, and it never masks a signal.  Each such        *)
(* reliance holds unless its name is in the constant Faults:               *)
(*                                                                         *)
(*   "boot"     a client is started before the server has its handlers     *)
(*   "ping"     a ping times out with its answer on the way (1 second)     *)
(*   "ack"      a bit times out with its answer on the way (5 seconds)     *)
(*   "idle"     a working owner is silent for the server's whole timeout   *)
(*   "preempt"  the handler interrupts the main thread inside clean_global *)
(*   "client"   a client is killed                                         *)
(*   "server"   the server is killed                                       *)
(*   "memory"   the server's malloc fails                                  *)
(***************************************************************************)
EXTENDS MinitalkServer, MinitalkClient

CONSTANT Faults

ASSUME FaultsAssumption ==
    Faults \subseteq {"boot", "ping", "ack", "idle", "preempt",
                      "client", "server", "memory"}

vars == <<kernelVars, serverVars, clientVars>>

TypeOK == KernelTypeOK /\ ServerTypeOK /\ ClientTypeOK

Init == KernelInit /\ ServerInit /\ ClientInit

(***************************************************************************)
(* Timers                                                                  *)
(***************************************************************************)
FromTo(c, p) == \E m \in pending[p] : m.from = c

(* Nothing is under way between c and the server: c waits in vain.         *)
Quiet(c) ==
    /\ pending[c] = {}
    /\ ~FromTo(c, Server)
    /\ ~(acking /\ st.client_pid \in {c, NoOne})

(* The owner will not send anything any more.                              *)
OwnerSilent ==
    /\ ~FromTo(st.actual_pid, Server)
    /\ st.actual_pid \in alive => cl[st.actual_pid].at = "pause"

(***************************************************************************)
(* Steps                                                                   *)
(***************************************************************************)
ServerHandler ==
    /\ main \in Cleaning => "preempt" \in Faults
    /\ \/ \E m \in pending[Server] : HandleSignal(m)
       \/ SendAck
    /\ UNCHANGED clientVars

ServerMain ==
    /\ \/ Boot
       \/ StartMonitoring
       \/ OwnerLeft
       \/ OwnerActive
       \/ (OwnerIdle /\ ("idle" \in Faults \/ OwnerSilent))
       \/ HandleTimeout
       \/ CleanMessage
       \/ ResetState
    /\ UNCHANGED clientVars

ClientMain(c) ==
    /\ \/ Start(c)
       \/ SendPing(c)
       \/ ServerGone(c)
       \/ PollReady(c)
       \/ PingExpire(c) /\ ("ping" \in Faults \/ Quiet(c))
       \/ Retry(c)
       \/ GiveUp(c)
       \/ InstallHandlers(c)
       \/ AcquireSlot(c)
       \/ SendBit(c)
       \/ AckSeen(c)
       \/ ClearAck(c)
       \/ AckExpire(c) /\ ("ack" \in Faults \/ (Quiet(c) /\ cl[c].ready_to_proceed = 0))
    /\ UNCHANGED serverVars

ClientHandler(c) == ClientSignal(c) /\ UNCHANGED serverVars

(* The environment: clients come, and faults happen.                       *)
Arrive(c) ==
    /\ "boot" \notin Faults => main \notin Starting
    /\ Launch(c)
    /\ UNCHANGED serverVars

ClientCrash(c) ==
    /\ "client" \in Faults
    /\ c \in alive
    /\ Exit(c, "killed")
    /\ UNCHANGED serverVars

ServerCrash ==
    /\ "server" \in Faults
    /\ Server \in alive
    /\ Terminate(Server)
    /\ acking' = FALSE
    /\ UNCHANGED <<st, initialized, main, ticks, fault, printed, clientVars>>

MallocFails ==
    /\ "memory" \in Faults
    /\ main \in Cleaning => "preempt" \in Faults
    /\ \E m \in pending[Server] : MemoryExhausted(m)
    /\ UNCHANGED clientVars

Next ==
    \/ ServerHandler
    \/ ServerMain
    \/ ServerCrash
    \/ MallocFails
    \/ \E c \in Clients :
          Arrive(c) \/ ClientMain(c) \/ ClientHandler(c) \/ ClientCrash(c)

Spec == Init /\ [][Next]_vars

(* The kernel runs every runnable thread and delivers every signal.        *)
Fairness ==
    /\ WF_vars(ServerHandler)
    /\ WF_vars(ServerMain)
    /\ \A c \in Clients : WF_vars(ClientMain(c)) /\ WF_vars(ClientHandler(c))

FairSpec == Spec /\ Fairness

(***************************************************************************)
(* Safety                                                                  *)
(***************************************************************************)
Shown(c) == \E i \in 1..Len(printed) : printed[i].from = c

(* The server shows what clients were asked to send, character for         *)
(* character: no bit lost, doubled, or taken from somebody else's message  *)
(* (handle_header, handle_msg, send_signals).                              *)
ShownAsSent ==
    \A i \in 1..Len(printed) :
        /\ printed[i].from \in Clients
        /\ printed[i].text = msg[printed[i].from]

(* "Message was received by the server" is true when a client prints it    *)
(* (handle_completion).                                                    *)
SuccessIsTrue ==
    \A c \in Clients : cl[c].at = "success" => Shown(c)

(* A client that exits with EXIT_FAILURE has not had its message shown:    *)
(* its user may run it again (handle_timeout, establish_connection).       *)
FailureIsTrue ==
    \A c \in Clients : cl[c].at = "failure" => ~Shown(c)

(* The bit with which the server ends a session: the last one, or the end  *)
(* of a header it refuses.                                                 *)
LastBit(c) == IF ValidSize(Len(msg[c])) THEN TotalBits(c) ELSE HEADER_SIZE

(* A client between its first bit and the one that ends its session.       *)
Transmitting(c) ==
    cl[c].at \in {"send", "ack", "clear"} /\ cl[c].sent \in 1..(LastBit(c) - 1)

(* wait_for_transmission_slot: "only one client can transmit at a time".   *)
OneTransmitter ==
    \A c, d \in Clients : Transmitting(c) /\ Transmitting(d) => c = d

(* A client sends bits only in a session of its own: the server counts     *)
(* what it sent, or has yet to take the last bit (wait_for_server_ack).    *)
Received ==
    st.sig_count + (IF st.getting_msg = 1 THEN HEADER_SIZE ELSE 0)

LockStep ==
    \A c \in Clients : Transmitting(c) =>
        /\ st.actual_pid = c
        /\ Received \in {cl[c].sent - 1, cl[c].sent}
        /\ Received < cl[c].sent =>
              cl[c].ready_to_proceed = 0 /\ pending[c] = {} /\ ~acking

(* The handler never writes through a dangling or null pointer, nor past   *)
(* the end of its block (handle_msg, clean_global).                        *)
MemorySafe == fault = "none"

(* Even a handler that interrupts clean_global stays inside a block that is *)
(* allocated (memory_reserve_to_store_signals, handle_complete_message).   *)
NoOverflow == fault # "overflow"

(* Without an owner nothing is left of the previous session: the next      *)
(* client starts on a clean slate (reset_client_state).                    *)
NoResidue ==
    initialized /\ st.actual_pid = NoOne /\ main \notin Cleaning =>
        st = FreshState

(***************************************************************************)
(* Strengthenings that make the invariants above inductive                 *)
(***************************************************************************)
(* The cursor stays inside what was stored, and a header starts with the   *)
(* cursor at 0: SubSeq and Append in StoreChar stay within the sequence.   *)
CursorInv ==
    /\ st.message.ptr = "live" => st.msg_pos <= Len(st.message.text)
    /\ st.getting_msg = 0 /\ st.getting_header = 1 => st.msg_pos = 0
    /\ st.getting_msg = 0 /\ main \in {"zero_msg", "set_header"} => st.msg_pos = 0

TypeInv == TypeOK /\ CursorInv

(* A live block has room for the expected length and its NUL, and while    *)
(* characters are being stored the NUL's place is ahead of the cursor.     *)
RoomInv ==
    st.message.ptr = "live" =>
        /\ st.message.capacity > st.size_message
        /\ st.getting_msg = 1 => st.msg_pos + 1 < st.message.capacity
        /\ st.getting_msg = 0 =>
              st.getting_header = 0 /\ main \in {"zero_counts", "zero_msg"}

(* Outside clean_global, characters are received into a live block only;   *)
(* inside it, no handler runs until the mode flags are down.               *)
BlockInv ==
    /\ main \notin Cleaning /\ st.getting_msg = 1 => st.message.ptr = "live"
    /\ main \in {"zero_counts", "zero_msg", "set_header", "set_free"}
          => st.getting_msg = 0

(* While the server has no owner, what clean_global has passed is clear,   *)
(* whatever handlers did meanwhile; outside it everything is.              *)
ResetInv ==
    initialized /\ st.actual_pid = NoOne =>
        /\ st.client_pid = NoOne
        /\ main \notin Cleaning => st = FreshState
        /\ main \in {"zero_counts", "zero_msg", "set_header", "set_free"} =>
              st.getting_msg = 0
        /\ main \in {"zero_msg", "set_header", "set_free"} =>
              /\ st.sig_count = 0 /\ st.char_value = 0 /\ st.msg_pos = 0
              /\ st.client_activity = 0 /\ st.transmission_active = 0
        /\ main \in {"set_header", "set_free"} =>
              st.message = NullBuffer /\ st.size_message = 0
        /\ main = "set_free" => st.getting_header = 1

(***************************************************************************)
(* Liveness                                                                *)
(***************************************************************************)
(* Every client that is started ends: no wait, not even the last pause(),  *)
(* is for ever (check_server_and_sleep, handle_timeout, main).             *)
ClientsEnd ==
    \A c \in Clients : cl[c].at # "absent" ~> cl[c].at \in Final

(* A session does not outlive its client: while the server runs, an owner  *)
(* that is gone is dropped (monitor_client_timeout).                       *)
OwnerDropped ==
    \A c \in Clients :
        st.actual_pid = c /\ cl[c].at \in Final
            ~> st.actual_pid # c \/ Server \notin alive

(* A client alone with the server gets a message of an acceptable length   *)
(* shown, and learns it (start_transmission, handle_complete_message).     *)
AloneSucceeds ==
    \A c \in Clients :
        cl[c].at = "start" /\ ValidSize(Len(msg[c])) ~> cl[c].at = "success" /\ Shown(c)

(***************************************************************************)
(* What the repository says and the program does not do                    *)
(***************************************************************************)
(* README.md, "Timeout & Retry Mechanism": "if no ACK received, client     *)
(* retries the signal".  A client that has begun to send an acceptable     *)
(* message to a running server would then never give up.                   *)
LostBitIsRetried ==
    \A c \in Clients :
        cl[c].at = "failure" /\ cl[c].sent > 0 /\ ValidSize(Len(msg[c]))
            => Server \notin alive

(***************************************************************************)
(* Refinement                                                              *)
(***************************************************************************)
Outcome == [c \in Clients |->
                IF cl[c].at \in {"success", "failure"} THEN cl[c].at ELSE "none"]

D == INSTANCE Delivery WITH text <- msg, log <- printed, outcome <- Outcome

(* The program implements Delivery: what is shown and what each client     *)
(* reports are tied together in every state (srcs/server, srcs/client).    *)
Delivers == D!Spec
=============================================================================
