--------------------------- MODULE MinitalkServer ---------------------------
(***************************************************************************)
(* The minitalk server (srcs/server).  One thread runs keep_server_up(),   *)
(* and the signal handler interrupts it anywhere.  Both signals are in     *)
(* sa_mask, so a handler is never interrupted by another one; it is        *)
(* modelled in two steps, the body and the acknowledgment that ends it,    *)
(* because the acknowledgment is sent to whatever client_pid the body left *)
(* behind.                                                                 *)
(*                                                                         *)
(* The main thread's clean_global() is split at every access to the state  *)
(* it shares with the handler.                                             *)
(***************************************************************************)
EXTENDS Signals, Wire, Sequences

CONSTANTS
    MAX_SIZE,   \* the longest message accepted (10000000)
    TIMEOUT     \* idle polls before the owner is dropped (50000)

ASSUME LimitAssumption == MAX_SIZE \in Nat \ {0} /\ TIMEOUT \in Nat \ {0}

VARIABLES
    st,            \* the t_client_state singleton
    initialized,   \* get_client_instance's flag
    main,          \* where the main thread is
    ticks,         \* i of monitor_client_timeout
    acking,        \* the handler has yet to send its acknowledgment
    fault,         \* the first undefined behaviour met, or "none"
    printed        \* history: the messages written to the terminal

serverVars == <<st, initialized, main, ticks, acking, fault, printed>>

(***************************************************************************)
(* The state.  "message" is the heap block msg.message points to: its      *)
(* capacity and the characters stored in it.                               *)
(***************************************************************************)
NullBuffer == [ptr |-> "null", capacity |-> 0, text |-> <<>>]

Zeroed ==
    [actual_pid |-> NoOne, client_pid |-> NoOne,
     getting_header |-> 0, getting_msg |-> 0,
     sig_count |-> 0, char_value |-> 0, msg_pos |-> 0,
     client_activity |-> 0, transmission_active |-> 0,
     message |-> NullBuffer, size_message |-> 0]

(* What get_client_instance and reset_client_state leave.                  *)
FreshState == [Zeroed EXCEPT !.getting_header = 1]

(* What pong leaves once it has taken client c in.                         *)
Pong(c) ==
    [Zeroed EXCEPT !.actual_pid = c, !.client_pid = c,
                   !.getting_header = 1, !.client_activity = 1,
                   !.transmission_active = 1]

Pids == Procs \cup {NoOne}
Buffer == [ptr : {"null", "live", "freed"}, capacity : Nat, text : Seq(Nat)]
ClientState ==
    [actual_pid : Pids, client_pid : Pids,
     getting_header : 0..1, getting_msg : 0..1,
     sig_count : Nat, char_value : Nat, msg_pos : Nat,
     client_activity : 0..1, transmission_active : 0..1,
     message : Buffer, size_message : Int]

Starting == {"start", "usr1", "instance", "init"}
Cleaning == {"clean", "free", "null", "recheck", "refree", "renull",
             "zero_pids", "zero_mode", "zero_counts", "zero_msg",
             "set_header", "set_free"}
MainPoints == Starting \cup {"poll", "monitor", "expired"} \cup Cleaning
Faults_UB == {"null_write", "use_after_free", "overflow"}

ServerTypeOK ==
    /\ st \in ClientState
    /\ initialized \in BOOLEAN
    /\ main \in MainPoints
    /\ ticks \in 0..TIMEOUT
    /\ acking \in BOOLEAN
    /\ fault \in Faults_UB \cup {"none"}
    /\ printed \in Seq([from : Pids, text : Seq(Nat)])

ServerInit ==
    /\ st = Zeroed
    /\ initialized = FALSE
    /\ main = "start"
    /\ ticks = 0
    /\ acking = FALSE
    /\ fault = "none"
    /\ printed = <<>>

(***************************************************************************)
(* Decoding                                                                *)
(***************************************************************************)
(* process_header_bit, with the reset of the size that precedes it.        *)
HeaderBit(s, bit) ==
    LET size == IF s.sig_count = 0 THEN 0 ELSE s.size_message
    IN  IF s.sig_count < HEADER_SIZE
        THEN [s EXCEPT
                !.size_message =
                    IF bit = 1 THEN size + Weight(HEADER_SIZE - 1 - s.sig_count)
                    ELSE size,
                !.sig_count = @ + 1]
        ELSE [s EXCEPT !.size_message = size]

ValidSize(size) == size > 0 /\ size <= MAX_SIZE

(* Mutant: no room for the terminating NUL.                                *)
Reserved_NoNul(s) ==
    [s EXCEPT !.message = [ptr |-> "live", capacity |-> s.size_message,
                           text |-> <<>>],
              !.getting_header = 0, !.getting_msg = 1, !.sig_count = 0]

Reserved(s) ==
    [s EXCEPT !.message = [ptr |-> "live", capacity |-> s.size_message + 1,
                           text |-> <<>>],
              !.getting_header = 0, !.getting_msg = 1, !.sig_count = 0]

(* Mutant: a refused header drops the owner and nothing else.              *)
HandleHeader_NoReset(s, bit) ==
    LET h == HeaderBit(s, bit)
    IN  IF h.sig_count # HEADER_SIZE THEN h
        ELSE IF ValidSize(h.size_message) THEN Reserved(h)
        ELSE [h EXCEPT !.actual_pid = NoOne]

HandleHeader(s, bit) ==
    LET h == HeaderBit(s, bit)
    IN  IF h.sig_count # HEADER_SIZE THEN h
        ELSE IF ValidSize(h.size_message) THEN Reserved(h)
        ELSE FreshState

(* The bit goes into char_value, most significant first.                   *)
CharBit(s, bit) ==
    LET bit_pos == s.sig_count % CHAR_SIZE
        value == IF bit_pos = 0 THEN 0 ELSE s.char_value
    IN  [s EXCEPT
            !.char_value = IF bit = 1 THEN value + 2^(CHAR_SIZE - 1 - bit_pos)
                           ELSE value,
            !.sig_count = @ + 1]

CharComplete(s) == s.sig_count % CHAR_SIZE = 0

(* message[msg_pos] = char_value; msg_pos++                                *)
StoreChar(s) ==
    [s EXCEPT !.message.text = Append(SubSeq(@, 1, s.msg_pos), s.char_value),
              !.msg_pos = @ + 1]

HandleMsg(s, bit) ==
    LET received == CharBit(s, bit)
    IN  IF CharComplete(received) THEN StoreChar(received) ELSE received

(* The undefined behaviour of handle_msg on this state and bit: it writes  *)
(* message[msg_pos], and the final NUL one place further.                  *)
WriteFault(s, bit) ==
    LET received == CharBit(s, bit)
        last == IF s.msg_pos + 1 >= s.size_message THEN s.msg_pos + 1 ELSE s.msg_pos
    IN  IF ~CharComplete(received) THEN "none"
        ELSE IF s.message.ptr = "null" THEN "null_write"
        ELSE IF s.message.ptr = "freed" THEN "use_after_free"
        ELSE IF last >= s.message.capacity THEN "overflow"
        ELSE "none"

MessageComplete(s, bit) ==
    /\ CharComplete(CharBit(s, bit))
    /\ s.msg_pos + 1 >= s.size_message

(***************************************************************************)
(* The signal handler, one action for each way through its body.           *)
(***************************************************************************)
Installed(sig) == ~ (main = "start" \/ (main = "usr1" /\ sig = "USR2"))

(* get_client_instance: the singleton, set up at the first use.            *)
Instance == IF initialized THEN st ELSE FreshState

(* lost_signal: a signal without a sender is taken for the owner's.        *)
Sender(m) == IF m.from = NoOne THEN Instance.actual_pid ELSE m.from

(* The handler is entered for signal m.                                    *)
Enter(m) ==
    /\ Server \in alive
    /\ ~acking
    /\ m \in pending[Server]
    /\ Installed(m.sig)
    /\ initialized' = TRUE
    /\ UNCHANGED <<main, ticks>>

(* Between the pid's printing and sigaction(), a signal ends the process.  *)
KilledBySignal(m) ==
    /\ Server \in alive
    /\ m \in pending[Server]
    /\ ~Installed(m.sig)
    /\ Terminate(Server)
    /\ UNCHANGED serverVars

IgnoreOwnSignal(m) ==
    /\ Enter(m)
    /\ Sender(m) = Server
    /\ st' = Instance
    /\ pending' = Taken(Server, m)
    /\ UNCHANGED <<alive, acking, fault, printed>>

(* Mutant: the owner is not looked at.                                     *)
AcceptClient_Always(m) ==
    /\ Enter(m)
    /\ Sender(m) # Server
    /\ st' = Pong(Sender(m))
    /\ pending' = Kill(Taken(Server, m), Server, Sender(m), "USR1")
    /\ UNCHANGED <<alive, acking, fault, printed>>

(* Mutant: BUSY is sent for READY.                                         *)
AcceptClient_Busy(m) ==
    /\ Enter(m)
    /\ Sender(m) # Server
    /\ Instance.actual_pid = NoOne
    /\ st' = Pong(Sender(m))
    /\ pending' = Kill(Taken(Server, m), Server, Sender(m), "USR2")
    /\ UNCHANGED <<alive, acking, fault, printed>>

(* handle_new_client: any signal of anybody, while there is no owner.  The *)
(* busy test in pong cannot hold here, it requires an owner.               *)
AcceptClient(m) ==
    /\ Enter(m)
    /\ Sender(m) # Server
    /\ Instance.actual_pid = NoOne
    /\ st' = Pong(Sender(m))
    /\ pending' = Kill(Taken(Server, m), Server, Sender(m), "USR1")
    /\ UNCHANGED <<alive, acking, fault, printed>>

(* handle_busy_server                                                      *)
RejectBusy(m) ==
    /\ Enter(m)
    /\ Sender(m) # Server
    /\ Instance.actual_pid \notin {NoOne, Sender(m)}
    /\ st' = Instance
    /\ pending' = Kill(Taken(Server, m), Server, Sender(m), "USR2")
    /\ UNCHANGED <<alive, acking, fault, printed>>

(* A signal of the owner: the state process_data_signal works on.          *)
FromOwner(m) ==
    /\ Enter(m)
    /\ Sender(m) # Server
    /\ Instance.actual_pid = Sender(m)

Active(m) ==
    [Instance EXCEPT !.client_pid = Sender(m), !.client_activity = 1]

ReceiveHeaderBit(m) ==
    /\ FromOwner(m)
    /\ Instance.getting_msg = 0
    /\ st' = IF Instance.getting_header = 1
             THEN HandleHeader(Active(m), BitValue(m.sig)) ELSE Active(m)
    /\ pending' = Taken(Server, m)
    /\ acking' = TRUE
    /\ UNCHANGED <<alive, fault, printed>>

(* memory_reserve_to_store_signals when malloc fails: the server exits.    *)
MemoryExhausted(m) ==
    /\ FromOwner(m)
    /\ Instance.getting_msg = 0
    /\ Instance.getting_header = 1
    /\ HandleHeader(Active(m), BitValue(m.sig)).getting_msg = 1
    /\ Terminate(Server)
    /\ UNCHANGED <<st, acking, fault, printed>>

ReceiveMessageBit(m) ==
    /\ FromOwner(m)
    /\ Instance.getting_msg = 1
    /\ WriteFault(Active(m), BitValue(m.sig)) = "none"
    /\ ~MessageComplete(Active(m), BitValue(m.sig))
    /\ st' = HandleMsg(Active(m), BitValue(m.sig))
    /\ pending' = Taken(Server, m)
    /\ acking' = TRUE
    /\ UNCHANGED <<alive, fault, printed>>

(* Mutant: the message is shown and the client is not told.                *)
CompleteMessage_Untold(m) ==
    /\ FromOwner(m)
    /\ Instance.getting_msg = 1
    /\ WriteFault(Active(m), BitValue(m.sig)) = "none"
    /\ MessageComplete(Active(m), BitValue(m.sig))
    /\ LET s == HandleMsg(Active(m), BitValue(m.sig))
       IN  printed' = Append(printed, [from |-> s.client_pid,
                        text |-> SubSeq(s.message.text, 1, s.size_message)])
    /\ st' = FreshState
    /\ pending' = Taken(Server, m)
    /\ acking' = TRUE
    /\ UNCHANGED <<alive, fault>>

(* handle_complete_message: print, free, confirm, reset.                   *)
CompleteMessage(m) ==
    /\ FromOwner(m)
    /\ Instance.getting_msg = 1
    /\ WriteFault(Active(m), BitValue(m.sig)) = "none"
    /\ MessageComplete(Active(m), BitValue(m.sig))
    /\ LET s == HandleMsg(Active(m), BitValue(m.sig))
       IN  printed' = Append(printed, [from |-> s.client_pid,
                        text |-> SubSeq(s.message.text, 1, s.size_message)])
    /\ st' = FreshState
    /\ pending' = Kill(Taken(Server, m), Server, Sender(m), "USR1")
    /\ acking' = TRUE
    /\ UNCHANGED <<alive, fault>>

(* The handler writes through a bad pointer: the process is lost, and      *)
(* nothing is claimed about it from here on.                               *)
CorruptMemory(m) ==
    /\ FromOwner(m)
    /\ Instance.getting_msg = 1
    /\ WriteFault(Active(m), BitValue(m.sig)) # "none"
    /\ fault' = WriteFault(Active(m), BitValue(m.sig))
    /\ Terminate(Server)
    /\ UNCHANGED <<st, acking, printed>>

(* send_multiple_acks(client->client_pid), whatever the body left there.   *)
SendAck ==
    /\ Server \in alive
    /\ acking
    /\ acking' = FALSE
    /\ pending' = Kill(pending, Server, st.client_pid, "USR2")
    /\ UNCHANGED <<alive, st, initialized, main, ticks, fault, printed>>

HandleSignal(m) ==
    \/ KilledBySignal(m)
    \/ IgnoreOwnSignal(m)
    \/ AcceptClient(m)
    \/ RejectBusy(m)
    \/ ReceiveHeaderBit(m)
    \/ ReceiveMessageBit(m)
    \/ CompleteMessage(m)
    \/ CorruptMemory(m)

(***************************************************************************)
(* The main thread.  Advance(p, q) is a step from point p to point q.      *)
(***************************************************************************)
Advance(p, q) ==
    /\ Server \in alive
    /\ ~acking
    /\ main = p
    /\ main' = q
    /\ UNCHANGED <<kernelVars, acking, fault, printed>>

(* The two sigaction() calls, then get_client_instance's test and set-up.  *)
Boot ==
    \/ Advance("start", "usr1") /\ UNCHANGED <<st, initialized, ticks>>
    \/ Advance("usr1", "instance") /\ UNCHANGED <<st, initialized, ticks>>
    \/ /\ Advance("instance", IF initialized THEN "poll" ELSE "init")
       /\ UNCHANGED <<st, initialized, ticks>>
    \/ /\ Advance("init", "poll")
       /\ st' = FreshState
       /\ initialized' = TRUE
       /\ UNCHANGED ticks

(* check_clean_status: sleep while there is no owner, else monitor it.     *)
StartMonitoring ==
    /\ Advance("poll", "monitor")
    /\ st.actual_pid # NoOne
    /\ ticks' = 0
    /\ UNCHANGED <<st, initialized>>

(* monitor_client_timeout, one turn of its loop at a time.                 *)
OwnerLeft ==
    /\ Advance("monitor", "poll")
    /\ st.actual_pid = NoOne
    /\ UNCHANGED <<st, initialized, ticks>>

(* Mutant: the activity flag is never taken down.                          *)
OwnerActive_Sticky ==
    /\ Advance("monitor", "monitor")
    /\ st.actual_pid # NoOne
    /\ st.client_activity = 1
    /\ ticks' = 0
    /\ UNCHANGED <<st, initialized>>

OwnerActive ==
    /\ Advance("monitor", "monitor")
    /\ st.actual_pid # NoOne
    /\ st.client_activity = 1
    /\ st' = [st EXCEPT !.client_activity = 0]
    /\ ticks' = 0
    /\ UNCHANGED initialized

OwnerIdle ==
    /\ Advance("monitor", IF ticks + 1 >= TIMEOUT THEN "expired" ELSE "monitor")
    /\ st.actual_pid # NoOne
    /\ st.client_activity = 0
    /\ ticks < TIMEOUT
    /\ ticks' = ticks + 1
    /\ UNCHANGED <<st, initialized>>

(* handle_timeout                                                          *)
HandleTimeout ==
    /\ Advance("expired", IF st.actual_pid # NoOne THEN "clean" ELSE "poll")
    /\ UNCHANGED <<st, initialized, ticks>>

(* clean_global, then reset_client_state: both free the block and clear    *)
(* the pointer, then ft_bzero goes over the fields in their order.         *)
CleanStep(p, q, s) ==
    /\ Advance(p, q)
    /\ st' = s
    /\ UNCHANGED <<initialized, ticks>>

HasMessage == st.message.ptr # "null"

CleanMessage ==
    \/ CleanStep("clean", IF HasMessage THEN "free" ELSE "recheck",
                 [st EXCEPT !.client_activity = 0])
    \/ CleanStep("recheck", IF HasMessage THEN "refree" ELSE "zero_pids", st)
    \/ \E step \in {<<"free", "null">>, <<"refree", "renull">>} :
          CleanStep(step[1], step[2],
                    IF HasMessage THEN [st EXCEPT !.message.ptr = "freed"] ELSE st)
    \/ \E step \in {<<"null", "recheck">>, <<"renull", "zero_pids">>} :
          CleanStep(step[1], step[2], [st EXCEPT !.message = NullBuffer])

(* Mutant: the reset forgets that a message was being received.            *)
ResetState_KeepMode ==
    \/ CleanStep("zero_pids", "zero_mode",
                 [st EXCEPT !.actual_pid = NoOne, !.client_pid = NoOne])
    \/ CleanStep("zero_mode", "zero_counts",
                 [st EXCEPT !.getting_header = 0])
    \/ CleanStep("zero_counts", "zero_msg",
                 [st EXCEPT !.sig_count = 0, !.char_value = 0, !.msg_pos = 0,
                            !.client_activity = 0, !.transmission_active = 0])
    \/ CleanStep("zero_msg", "set_header",
                 [st EXCEPT !.message = NullBuffer, !.size_message = 0])
    \/ CleanStep("set_header", "set_free", [st EXCEPT !.getting_header = 1])
    \/ CleanStep("set_free", "poll",
                 [st EXCEPT !.size_message = 0, !.transmission_active = 0])

ResetState ==
    \/ CleanStep("zero_pids", "zero_mode",
                 [st EXCEPT !.actual_pid = NoOne, !.client_pid = NoOne])
    \/ CleanStep("zero_mode", "zero_counts",
                 [st EXCEPT !.getting_header = 0, !.getting_msg = 0])
    \/ CleanStep("zero_counts", "zero_msg",
                 [st EXCEPT !.sig_count = 0, !.char_value = 0, !.msg_pos = 0,
                            !.client_activity = 0, !.transmission_active = 0])
    \/ CleanStep("zero_msg", "set_header",
                 [st EXCEPT !.message = NullBuffer, !.size_message = 0])
    \/ CleanStep("set_header", "set_free", [st EXCEPT !.getting_header = 1])
    \/ CleanStep("set_free", "poll",
                 [st EXCEPT !.size_message = 0, !.transmission_active = 0])
=============================================================================
