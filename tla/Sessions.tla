------------------------------ MODULE Sessions ------------------------------
(***************************************************************************)
(* Why the protocol works without sequence numbers: how far a client and   *)
(* its server can be apart.  SessionInv is inductive as long as nobody     *)
(* relies in vain on the ping and idle timers, on clean_global being left  *)
(* alone, on the server being there first, and on kill(0) reaching nobody  *)
(* else; crashes are allowed.                                              *)
(***************************************************************************)
EXTENDS Minitalk

(* A size that is accepted is not negative as an int; an argument of       *)
(* execve(2), 128 KiB at the most, has its length in the header, and its   *)
(* characters are bytes.                                                   *)
ASSUME WidthAssumption ==
    /\ MAX_SIZE < 2^(HEADER_SIZE - 1)
    /\ \A text \in Messages :
          /\ Len(text) < 2^HEADER_SIZE
          /\ \A i \in 1..Len(text) : text[i] < 2^CHAR_SIZE

(* Powers double: the prover does not know that either.                    *)
ASSUME DoublingAssumption ==
    /\ 2^0 = 1
    /\ \A i \in 0..(HEADER_SIZE + CHAR_SIZE) : 2^(i + 1) = 2 * 2^i

(* What c has sent and the server has not taken, and what can be pending   *)
(* at a client.                                                            *)
UnderWay(c) == {m \in pending[Server] : m.from = c}
Reply(sig) == [sig |-> sig, from |-> Server]
Apart(c) == pending[c] = {} /\ UnderWay(c) = {} /\ st.actual_pid # c

(* What clean_global does once the owner's pid is gone.                    *)
Wiping == {"zero_mode", "zero_counts", "zero_msg", "set_header", "set_free"}

(* The reliances this argument needs.  A client that gives up on a bit too *)
(* early ("ack") is not among them: it is as good as dead.                 *)
Relied == Group = {} /\ Faults \cap {"boot", "ping", "idle", "preempt"} = {}

(***************************************************************************)
(* Decoding, bit by bit                                                    *)
(***************************************************************************)
(* The bits n and above of v.                                              *)
Upper(v, n) == (v \div 2^n) * 2^n

(* size_message after the first i bits of a length, i > 0: its top bit has *)
(* counted as a sign.                                                      *)
SizeAfter(len, i) ==
    Upper(len, HEADER_SIZE - i) - IF len >= 2^(HEADER_SIZE - 1) THEN 2^HEADER_SIZE ELSE 0

(* The server has decoded what c sent.                                     *)
HeaderDecoded(c) ==
    st.getting_header = 1 =>
        /\ st.sig_count < HEADER_SIZE
        /\ st.msg_pos = 0
        /\ st.sig_count > 0 => st.size_message = SizeAfter(Len(msg[c]), st.sig_count)

(* The state s holds the characters of text as far as they have come.      *)
TextSoFar(s, text) ==
    /\ s.size_message = Len(text)
    /\ s.msg_pos < Len(text)
    /\ s.msg_pos = s.sig_count \div CHAR_SIZE
    /\ Len(s.message.text) = s.msg_pos
    /\ \A i \in 1..s.msg_pos : s.message.text[i] = text[i]
    /\ s.sig_count % CHAR_SIZE > 0 =>
          s.char_value = Upper(text[s.msg_pos + 1], CHAR_SIZE - (s.sig_count % CHAR_SIZE))

TextDecoded(c) ==
    st.getting_msg = 1 => ValidSize(Len(msg[c])) /\ TextSoFar(st, msg[c])

(***************************************************************************)
(* The invariant                                                           *)
(***************************************************************************)
(* The kernel keeps nothing for the dead; only the server signals clients, *)
(* and a client has one signal under way at most.                          *)
KernelInv ==
    /\ \A p \in Procs : p \notin alive => pending[p] = {}
    /\ \A c \in Clients : \A m \in pending[c] : m.from = Server
    /\ \A m, n \in pending[Server] : m.from = n.from /\ m.from \in Clients => m = n

(* Nobody is there before the server is set up; a session about to be      *)
(* cleaned away is that of a dead client which left nothing behind.        *)
ServerInv ==
    /\ st.client_pid = st.actual_pid
    /\ st.actual_pid \in Clients \cup {NoOne}
    /\ main \in Starting =>
          /\ ~initialized /\ ~acking /\ pending[Server] = {}
          /\ st.actual_pid = NoOne
          /\ \A c \in Clients : cl[c].at = "absent"
    /\ main \notin Starting => initialized
    /\ main \in {"expired"} \cup Cleaning /\ st.actual_pid # NoOne =>
          st.actual_pid \notin alive /\ UnderWay(st.actual_pid) = {}
    /\ main = "expired" => st.actual_pid # NoOne
    /\ main \in Wiping => st.actual_pid = NoOne

(* The server's side of a session of c: it has all bits of c but the one   *)
(* that is under way or lost, and has not met the last one.                *)
OwnerInv(c) ==
    st.actual_pid = c /\ main \notin Cleaning =>
        /\ st.getting_header + st.getting_msg = 1
        /\ HeaderDecoded(c) /\ TextDecoded(c)
        /\ Received < LastBit(c)
        /\ Received \in {cl[c].sent - 1, cl[c].sent}
        /\ \A m \in UnderWay(c) :
              /\ Received = cl[c].sent - 1
              /\ m.sig = SignalOf(BitAt(c, cl[c].sent))
        /\ acking => Received = cl[c].sent /\ cl[c].at \in {"ack"} \cup Final

(* The client's side, by where it is.                                      *)
PingInv(c) ==
    /\ cl[c].at \in {"absent", "start", "ping", "delay"} =>
          Apart(c) /\ cl[c].is_ready = 0
    /\ cl[c].at = "check" =>
          /\ UnderWay(c) # {} => pending[c] = {} /\ cl[c].is_ready = 0
          /\ pending[c] # {} => cl[c].is_ready = 0
          /\ pending[c] \in {{}, {Reply("USR1")}, {Reply("USR2")}}
          /\ st.actual_pid = c <=> cl[c].is_ready = 1 \/ Reply("USR1") \in pending[c]
    /\ cl[c].at \in {"absent", "start", "ping", "delay", "check", "switch", "slot"} =>
          cl[c].sent = 0 /\ cl[c].ready_to_proceed = 0

BetweenBits(c) ==
    cl[c].at \in {"switch", "slot", "send", "clear"} =>
        /\ st.actual_pid = c /\ Received = cl[c].sent
        /\ pending[c] = {} /\ UnderWay(c) = {}
        /\ cl[c].ready_to_proceed = IF cl[c].at = "clear" THEN 1 ELSE 0

(* A bit is under way or lost, or received and its acknowledgment due,     *)
(* under way or read, or it was the last one.                              *)
AwaitingAck(c) ==
    cl[c].at = "ack" =>
        /\ cl[c].sent > 0
        /\ UnderWay(c) # {} \/ pending[c] # {} => cl[c].ready_to_proceed = 0
        /\ \/ /\ st.actual_pid = c /\ Received = cl[c].sent - 1
              /\ pending[c] = {} /\ cl[c].ready_to_proceed = 0
           \/ /\ st.actual_pid = c /\ Received = cl[c].sent
              /\ UnderWay(c) = {} /\ pending[c] \in {{}, {Reply("USR2")}}
              /\ acking => pending[c] = {} /\ cl[c].ready_to_proceed = 0
           \/ /\ st.actual_pid # c /\ cl[c].sent = LastBit(c)
              /\ UnderWay(c) = {} /\ cl[c].ready_to_proceed = 0
              /\ pending[c] = IF Shown(c) THEN {Reply("USR1")} ELSE {}

ClientInv(c) ==
    /\ c \in alive <=> cl[c].at \notin {"absent"} \cup Final
    /\ cl[c].at # "pause"
    /\ cl[c].at \in {"absent", "start"} => cl[c].handler = "default"
    /\ cl[c].at \in {"ping", "check", "delay", "switch"} => cl[c].handler = "ping"
    /\ cl[c].at \in {"slot", "send", "ack", "clear"} => cl[c].handler = "transfer"
    /\ PingInv(c) /\ BetweenBits(c) /\ AwaitingAck(c)
    /\ UnderWay(c) # {} /\ st.actual_pid # c => cl[c].sent = 0

(* A message that was shown ended its session, and its client knows or     *)
(* will, unless it has died.                                               *)
ShownInv(c) ==
    /\ Shown(c) => /\ st.actual_pid # c /\ UnderWay(c) = {}
                   /\ cl[c].at \in {"ack"} \cup Final
    /\ cl[c].at = "success" => Shown(c)

(* A client that has failed has left nothing that could still be shown, if *)
(* it has waited for as long as an answer can take.                        *)
FailureInv ==
    \A c \in Clients : cl[c].at = "failure" => ~Shown(c) /\ UnderWay(c) = {}

Session(c) == OwnerInv(c) /\ ClientInv(c) /\ ShownInv(c)

SessionInv ==
    /\ KernelInv /\ ServerInv
    /\ \A c \in Clients : Session(c)
    /\ ShownAsSent
=============================================================================
