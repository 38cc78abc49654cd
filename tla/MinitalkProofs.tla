--------------------------- MODULE MinitalkProofs ---------------------------
(***************************************************************************)
(* Theorems about Minitalk, for every set of clients, every message, every *)
(* size and every set of faults unless one is excluded by name.            *)
(***************************************************************************)
EXTENDS Minitalk, TLAPS, SequenceTheorems

(***************************************************************************)
(* The operators preserve types                                            *)
(***************************************************************************)
(* kill(2) keeps one set of signals per process.                           *)
LEMMA KillType ==
    ASSUME NEW pend \in [Procs -> SUBSET Signal], NEW from \in Procs, NEW pid,
           NEW s \in Sigs
    PROVE  Kill(pend, from, pid, s) \in [Procs -> SUBSET Signal]
BY DEF Kill, Signal

(* So does delivering a signal.                                            *)
LEMMA TakenType ==
    ASSUME KernelTypeOK, NEW p \in Procs, NEW m
    PROVE  Taken(p, m) \in [Procs -> SUBSET Signal]
BY DEF KernelTypeOK, Taken

(* And ending a process.                                                   *)
LEMMA TerminateType ==
    ASSUME KernelTypeOK, NEW p \in Procs, Terminate(p)
    PROVE  KernelTypeOK'
BY DEF KernelTypeOK, Terminate

(* Both values of a flag, for the steps that put one into a record.        *)
LEMMA Flags == 0 \in 0..1 /\ 1 \in 0..1 /\ 0 \in Nat /\ 0 \in Int
OBVIOUS

(* The states the server starts a session from.                            *)
LEMMA StartStates ==
    /\ Zeroed \in ClientState
    /\ FreshState \in ClientState
    /\ \A c \in Pids : Pong(c) \in ClientState
<1>1. NullBuffer \in Buffer
  BY DEF NullBuffer, Buffer
<1>2. Zeroed \in ClientState
  BY <1>1, Flags DEF Zeroed, ClientState, Pids
<1>3. FreshState \in ClientState
  BY <1>2, Flags DEF FreshState, ClientState
<1>4. ASSUME NEW c \in Pids  PROVE Pong(c) \in ClientState
  BY <1>2, Flags DEF Pong, ClientState
<1>. QED  BY <1>2, <1>3, <1>4

(* A header bit keeps the state well typed and moves nothing else.         *)
LEMMA HeaderBitType ==
    ASSUME NEW s \in ClientState, NEW bit \in 0..1
    PROVE  /\ HeaderBit(s, bit) \in ClientState
           /\ HeaderBit(s, bit).message = s.message
           /\ HeaderBit(s, bit).msg_pos = s.msg_pos
           /\ HeaderBit(s, bit).actual_pid = s.actual_pid
           /\ HeaderBit(s, bit).getting_msg = s.getting_msg
           /\ HeaderBit(s, bit).getting_header = s.getting_header
<1>. DEFINE size == IF s.sig_count = 0 THEN 0 ELSE s.size_message
            new == IF bit = 1 THEN size + Weight(HEADER_SIZE - 1 - s.sig_count)
                   ELSE size
<1>1. s.sig_count \in Nat /\ size \in Int
  BY DEF ClientState
<1>2. CASE s.sig_count < HEADER_SIZE
  <2>1. HEADER_SIZE - 1 - s.sig_count \in 0..(HEADER_SIZE + CHAR_SIZE)
    BY <1>1, <1>2, SizeAssumption
  <2>2. Weight(HEADER_SIZE - 1 - s.sig_count) \in Int
    BY <2>1, PowerAssumption DEF Weight
  <2>3. new \in Int /\ s.sig_count + 1 \in Nat
    BY <1>1, <2>2
  <2>4. HeaderBit(s, bit) =
          [s EXCEPT !.size_message = new, !.sig_count = s.sig_count + 1]
    BY <1>2 DEF HeaderBit
  <2>. HIDE DEF new
  <2>. QED  BY <2>3, <2>4 DEF ClientState
<1>3. CASE ~(s.sig_count < HEADER_SIZE)
  <2>1. HeaderBit(s, bit) = [s EXCEPT !.size_message = size]
    BY <1>3 DEF HeaderBit
  <2>. HIDE DEF size
  <2>. QED  BY <1>1, <2>1 DEF ClientState
<1>. QED  BY <1>2, <1>3

(* So does the allocation that ends a header.                              *)
LEMMA ReservedType ==
    ASSUME NEW s \in ClientState, ValidSize(s.size_message)
    PROVE  Reserved(s) \in ClientState
<1>. DEFINE block == [ptr |-> "live", capacity |-> s.size_message + 1, text |-> <<>>]
<1>1. s.size_message \in Int
  BY DEF ClientState
<1>2. s.size_message + 1 \in Nat
  BY <1>1 DEF ValidSize
<1>3. block \in Buffer
  BY <1>2 DEF Buffer
<1>. HIDE DEF block
<1>4. [s EXCEPT !.message = block, !.getting_header = 0, !.getting_msg = 1,
                !.sig_count = 0] \in ClientState
  BY <1>3, Flags DEF ClientState
<1>. QED  BY <1>4 DEF Reserved, block

(* handle_header returns one of three states.                              *)
LEMMA HandleHeaderCases ==
    ASSUME NEW s \in ClientState, NEW bit \in 0..1
    PROVE  /\ HandleHeader(s, bit) \in ClientState
           /\ \/ HandleHeader(s, bit) = HeaderBit(s, bit)
              \/ /\ ValidSize(HeaderBit(s, bit).size_message)
                 /\ HandleHeader(s, bit) = Reserved(HeaderBit(s, bit))
              \/ HandleHeader(s, bit) = FreshState
<1>. DEFINE h == HeaderBit(s, bit)
<1>1. h \in ClientState
  BY HeaderBitType
<1>2. ValidSize(h.size_message) => Reserved(h) \in ClientState
  BY <1>1, ReservedType
<1>. QED  BY <1>1, <1>2, StartStates DEF HandleHeader

(* A bit of a character keeps the state well typed and moves nothing else. *)
LEMMA CharBitType ==
    ASSUME NEW s \in ClientState, NEW bit \in 0..1
    PROVE  /\ CharBit(s, bit) \in ClientState
           /\ CharBit(s, bit).message = s.message
           /\ CharBit(s, bit).msg_pos = s.msg_pos
           /\ CharBit(s, bit).actual_pid = s.actual_pid
           /\ CharBit(s, bit).size_message = s.size_message
           /\ CharBit(s, bit).getting_msg = s.getting_msg
           /\ CharBit(s, bit).getting_header = s.getting_header
<1>. DEFINE bit_pos == s.sig_count % CHAR_SIZE
            value == IF bit_pos = 0 THEN 0 ELSE s.char_value
            new == IF bit = 1 THEN value + 2^(CHAR_SIZE - 1 - bit_pos) ELSE value
<1>1. s.sig_count \in Nat /\ s.sig_count + 1 \in Nat /\ value \in Nat
  BY DEF ClientState
<1>2. bit_pos \in 0..(CHAR_SIZE - 1)
  BY <1>1, SizeAssumption
<1>3. CHAR_SIZE - 1 - bit_pos \in 0..(HEADER_SIZE + CHAR_SIZE)
  BY <1>2, SizeAssumption
<1>4. 2^(CHAR_SIZE - 1 - bit_pos) \in Nat
  BY <1>3, PowerAssumption
<1>5. new \in Nat
  BY <1>1, <1>4
<1>6. CharBit(s, bit) = [s EXCEPT !.char_value = new, !.sig_count = s.sig_count + 1]
  BY DEF CharBit
<1>. HIDE DEF new
<1>. QED  BY <1>1, <1>5, <1>6 DEF ClientState

(* Storing a character extends what was stored up to the cursor.           *)
LEMMA StoreCharType ==
    ASSUME NEW s \in ClientState, s.msg_pos <= Len(s.message.text)
    PROVE  /\ StoreChar(s) \in ClientState
           /\ StoreChar(s).msg_pos = s.msg_pos + 1
           /\ StoreChar(s).actual_pid = s.actual_pid
           /\ Len(StoreChar(s).message.text) = s.msg_pos + 1
           /\ StoreChar(s).message.ptr = s.message.ptr
           /\ StoreChar(s).message.capacity = s.message.capacity
           /\ StoreChar(s).size_message = s.size_message
           /\ StoreChar(s).getting_msg = s.getting_msg
           /\ StoreChar(s).getting_header = s.getting_header
<1>. DEFINE kept == SubSeq(s.message.text, 1, s.msg_pos)
            new == Append(kept, s.char_value)
<1>1. /\ s.message \in Buffer
      /\ s.message.text \in Seq(Nat)
      /\ s.msg_pos \in Nat /\ s.msg_pos + 1 \in Nat
      /\ s.char_value \in Nat
  BY DEF ClientState, Buffer
<1>2. \A i \in 1..s.msg_pos : s.message.text[i] \in Nat
  BY <1>1, SMTT(30)
<1>3. kept \in Seq(Nat) /\ Len(kept) = s.msg_pos
  BY <1>1, <1>2, SubSeqProperties
<1>4. new \in Seq(Nat) /\ Len(new) = s.msg_pos + 1
  BY <1>1, <1>3
<1>5. StoreChar(s) = [s EXCEPT !.message.text = new, !.msg_pos = s.msg_pos + 1]
  BY DEF StoreChar
<1>. DEFINE block == [s.message EXCEPT !.text = new]
<1>. HIDE DEF new
<1>6. /\ block \in Buffer
      /\ block.text = new
      /\ block.ptr = s.message.ptr
      /\ block.capacity = s.message.capacity
  BY <1>1, <1>4 DEF Buffer
<1>7. StoreChar(s) = [s EXCEPT !.message = block, !.msg_pos = s.msg_pos + 1]
  BY <1>5
<1>. HIDE DEF block
<1>. QED  BY <1>1, <1>4, <1>6, <1>7 DEF ClientState

(***************************************************************************)
(* Type correctness                                                        *)
(***************************************************************************)
(* The singleton the handler works on is well typed, with its cursor where *)
(* CursorInv wants it, whether or not it has just been set up.             *)
LEMMA InstanceType ==
    ASSUME TypeInv
    PROVE  /\ Instance \in ClientState
           /\ Instance.message.ptr = "live" =>
                 Instance.msg_pos <= Len(Instance.message.text)
           /\ Instance.getting_msg = 0 /\ Instance.getting_header = 1 =>
                 Instance.msg_pos = 0
           /\ Instance.getting_msg = 0 /\ main \in {"zero_msg", "set_header"} =>
                 Instance.msg_pos = 0
<1>1. FreshState.message.ptr = "null" /\ FreshState.msg_pos = 0
  BY DEF FreshState, Zeroed, NullBuffer
<1>. QED  BY <1>1, StartStates DEF Instance, TypeInv, TypeOK, ServerTypeOK, CursorInv

(* What every way through the handler's body starts from.                  *)
LEMMA EnterType ==
    ASSUME TypeInv, NEW m \in pending[Server]
    PROVE  /\ m.sig \in Sigs /\ m.from \in Procs
           /\ BitValue(m.sig) \in 0..1
           /\ Sender(m) \in Procs
           /\ Active(m) \in ClientState
           /\ Active(m).actual_pid = Instance.actual_pid
           /\ Active(m).message = Instance.message
           /\ Active(m).msg_pos = Instance.msg_pos
           /\ Active(m).size_message = Instance.size_message
           /\ Active(m).getting_msg = Instance.getting_msg
           /\ Active(m).getting_header = Instance.getting_header
<1>1. m \in Signal
  BY DEF TypeInv, TypeOK, KernelTypeOK, Procs
<1>2. m.sig \in Sigs /\ m.from \in Procs
  BY <1>1 DEF Signal
<1>3. BitValue(m.sig) \in 0..1
  BY DEF BitValue
<1>4. m.from # NoOne
  BY <1>2, ProcessAssumption DEF Procs
<1>5. Sender(m) \in Procs /\ Sender(m) \in Pids
  BY <1>2, <1>4 DEF Sender, Pids
<1>6. Instance \in ClientState
  BY InstanceType
<1>7. Active(m) = [Instance EXCEPT !.client_pid = Sender(m), !.client_activity = 1]
  BY DEF Active
<1>. QED  BY <1>2, <1>3, <1>5, <1>6, <1>7, Flags DEF ClientState

(* The message bits that are written to a live block only.                 *)
LEMMA HandleMsgType ==
    ASSUME NEW s \in ClientState, NEW bit \in 0..1,
           s.message.ptr = "live" => s.msg_pos <= Len(s.message.text),
           WriteFault(s, bit) = "none"
    PROVE  /\ HandleMsg(s, bit) \in ClientState
           /\ HandleMsg(s, bit).actual_pid = s.actual_pid
           /\ HandleMsg(s, bit).getting_msg = s.getting_msg
           /\ HandleMsg(s, bit).getting_header = s.getting_header
           /\ HandleMsg(s, bit).size_message = s.size_message
           /\ HandleMsg(s, bit).message.ptr = s.message.ptr
           /\ HandleMsg(s, bit).message.capacity = s.message.capacity
           /\ HandleMsg(s, bit).message.ptr = "live" =>
                 HandleMsg(s, bit).msg_pos <= Len(HandleMsg(s, bit).message.text)
           /\ CharComplete(CharBit(s, bit)) =>
                 /\ s.message.ptr = "live"
                 /\ HandleMsg(s, bit).msg_pos = s.msg_pos + 1
                 /\ Len(HandleMsg(s, bit).message.text) = s.msg_pos + 1
           /\ ~CharComplete(CharBit(s, bit)) =>
                 HandleMsg(s, bit).msg_pos = s.msg_pos
<1>. DEFINE b == CharBit(s, bit)
<1>1. /\ b \in ClientState
      /\ b.message = s.message /\ b.msg_pos = s.msg_pos
      /\ b.actual_pid = s.actual_pid
      /\ b.size_message = s.size_message
      /\ b.getting_msg = s.getting_msg /\ b.getting_header = s.getting_header
  BY CharBitType
<1>2. CASE CharComplete(b)
  <2>1. s.message.ptr = "live"
    <3>1. s.message.ptr \in {"null", "live", "freed"}
      BY DEF ClientState, Buffer
    <3>. QED  BY <1>2, <3>1 DEF WriteFault
  <2>2. HandleMsg(s, bit) = StoreChar(b)
    BY <1>2 DEF HandleMsg
  <2>3. s.msg_pos \in Nat
    BY DEF ClientState
  <2>. HIDE DEF b
  <2>4. /\ StoreChar(b) \in ClientState
        /\ StoreChar(b).msg_pos = b.msg_pos + 1
        /\ StoreChar(b).actual_pid = b.actual_pid
        /\ Len(StoreChar(b).message.text) = b.msg_pos + 1
        /\ StoreChar(b).message.ptr = b.message.ptr
        /\ StoreChar(b).message.capacity = b.message.capacity
        /\ StoreChar(b).size_message = b.size_message
        /\ StoreChar(b).getting_msg = b.getting_msg
        /\ StoreChar(b).getting_header = b.getting_header
    BY <1>1, <2>1, StoreCharType
  <2>. QED  BY <1>1, <1>2, <2>1, <2>2, <2>3, <2>4 DEF b
<1>3. CASE ~CharComplete(b)
  <2>1. HandleMsg(s, bit) = b
    BY <1>3 DEF HandleMsg
  <2>. QED  BY <1>1, <1>3, <2>1
<1>. QED  BY <1>2, <1>3

(* The handler's steps.                                                    *)
LEMMA HandlerTypeInv ==
    ASSUME TypeInv, ServerHandler
    PROVE  TypeInv'
<1>. USE DEF TypeInv, TypeOK
<1>1. ClientTypeOK'
  BY DEF ServerHandler, clientVars, ClientTypeOK
<1>2. Server \in Procs /\ "USR1" \in Sigs /\ "USR2" \in Sigs
  BY DEF Procs, Sigs
<1>3. CASE SendAck
  <2>1. KernelTypeOK'
    BY <1>2, <1>3, KillType DEF SendAck, KernelTypeOK
  <2>. QED  BY <1>1, <1>3, <2>1 DEF SendAck, ServerTypeOK, CursorInv
<1>4. ASSUME NEW m \in pending[Server], HandleSignal(m)
      PROVE  TypeInv'
  <2>. DEFINE I == Instance
              A == Active(m)
              bit == BitValue(m.sig)
  <2>1. /\ m.sig \in Sigs /\ m.from \in Procs
        /\ bit \in 0..1
        /\ Sender(m) \in Procs
        /\ A \in ClientState
        /\ A.message = I.message /\ A.msg_pos = I.msg_pos
        /\ A.size_message = I.size_message
        /\ A.getting_msg = I.getting_msg /\ A.getting_header = I.getting_header
    BY EnterType
  <2>2. /\ I \in ClientState
        /\ I.message.ptr = "live" => I.msg_pos <= Len(I.message.text)
        /\ I.getting_msg = 0 /\ I.getting_header = 1 => I.msg_pos = 0
        /\ I.getting_msg = 0 /\ main \in {"zero_msg", "set_header"} => I.msg_pos = 0
    BY InstanceType
  <2>3. Taken(Server, m) \in [Procs -> SUBSET Signal]
    BY <1>2, TakenType
  <2>4. \A pid, sg : sg \in Sigs =>
           Kill(Taken(Server, m), Server, pid, sg) \in [Procs -> SUBSET Signal]
    BY <1>2, <2>3, KillType
  <2>5. FreshState.message.ptr = "null" /\ FreshState.msg_pos = 0
    BY DEF FreshState, Zeroed, NullBuffer
  <2>. HIDE DEF I, A, bit
  <2>6. CASE KilledBySignal(m)
    <3>1. KernelTypeOK'
      BY <1>2, <2>6, TerminateType DEF KilledBySignal
    <3>. QED  BY <1>1, <2>6, <3>1 DEF KilledBySignal, serverVars, ServerTypeOK, CursorInv
  <2>7. CASE IgnoreOwnSignal(m)
    <3>1. KernelTypeOK'
      BY <2>3, <2>7 DEF IgnoreOwnSignal, KernelTypeOK
    <3>. QED  BY <1>1, <2>2, <2>7, <3>1
              DEF IgnoreOwnSignal, Enter, ServerTypeOK, CursorInv, I
  <2>8. CASE RejectBusy(m)
    <3>1. KernelTypeOK'
      BY <1>2, <2>4, <2>8 DEF RejectBusy, KernelTypeOK
    <3>. QED  BY <1>1, <2>2, <2>8, <3>1
              DEF RejectBusy, Enter, ServerTypeOK, CursorInv, I
  <2>9. CASE AcceptClient(m)
    <3>1. KernelTypeOK'
      BY <1>2, <2>4, <2>9 DEF AcceptClient, KernelTypeOK
    <3>2. st' \in ClientState
      BY <2>1, <2>9, StartStates DEF AcceptClient, Pids
    <3>3. st'.message.ptr = "null" /\ st'.msg_pos = 0
      BY <2>9 DEF AcceptClient, Pong, Zeroed, NullBuffer
    <3>. QED  BY <1>1, <2>9, <3>1, <3>2, <3>3
              DEF AcceptClient, Enter, ServerTypeOK, CursorInv
  <2>10. CASE ReceiveHeaderBit(m)
    <3>1. KernelTypeOK'
      BY <2>3, <2>10 DEF ReceiveHeaderBit, KernelTypeOK
    <3>2. I.getting_msg = 0
      BY <2>10 DEF ReceiveHeaderBit, I
    <3>. DEFINE h == HeaderBit(A, bit)
    <3>3. /\ h \in ClientState
          /\ h.message = A.message /\ h.msg_pos = A.msg_pos
          /\ h.getting_msg = A.getting_msg /\ h.getting_header = A.getting_header
      BY <2>1, HeaderBitType
    <3>. HIDE DEF h
    <3>4. \/ st' = A
          \/ I.getting_header = 1 /\ st' = HandleHeader(A, bit)
      BY <2>10 DEF ReceiveHeaderBit, I, A, bit
    <3>5. /\ HandleHeader(A, bit) \in ClientState
          /\ \/ HandleHeader(A, bit) = h
             \/ HandleHeader(A, bit) = Reserved(h)
             \/ HandleHeader(A, bit) = FreshState
      BY <2>1, HandleHeaderCases DEF h
    <3>6. st' \in ClientState
      BY <2>1, <3>4, <3>5
    <3>7. CursorInv'
      <4>1. main' = main
        BY <2>10 DEF ReceiveHeaderBit, FromOwner, Enter
      <4>2. CASE st' = A \/ st' = h
        BY <2>1, <2>2, <3>2, <3>3, <4>1, <4>2 DEF CursorInv
      <4>3. CASE I.getting_header = 1 /\ st' = Reserved(h)
        <5>1. /\ Reserved(h).msg_pos = h.msg_pos
              /\ Reserved(h).getting_msg = 1
              /\ Reserved(h).message.text = <<>>
          BY <3>3 DEF Reserved, ClientState
        <5>. QED  BY <2>1, <2>2, <3>2, <3>3, <4>3, <5>1 DEF CursorInv
      <4>4. CASE st' = FreshState
        BY <2>5, <4>4 DEF CursorInv
      <4>. QED  BY <3>4, <3>5, <4>2, <4>3, <4>4
    <3>. QED  BY <1>1, <2>10, <3>1, <3>6, <3>7
              DEF ReceiveHeaderBit, FromOwner, Enter, ServerTypeOK
  <2>11. CASE ReceiveMessageBit(m)
    <3>1. KernelTypeOK'
      BY <2>3, <2>11 DEF ReceiveMessageBit, KernelTypeOK
    <3>2. /\ I.getting_msg = 1
          /\ WriteFault(A, bit) = "none"
          /\ st' = HandleMsg(A, bit)
      BY <2>11 DEF ReceiveMessageBit, I, A, bit
    <3>3. /\ HandleMsg(A, bit) \in ClientState
          /\ HandleMsg(A, bit).getting_msg = A.getting_msg
          /\ HandleMsg(A, bit).message.ptr = "live" =>
                HandleMsg(A, bit).msg_pos <= Len(HandleMsg(A, bit).message.text)
      BY <2>1, <2>2, <3>2, HandleMsgType
    <3>4. CursorInv'
      BY <2>1, <3>2, <3>3 DEF CursorInv
    <3>. QED  BY <1>1, <2>11, <3>1, <3>2, <3>3, <3>4
              DEF ReceiveMessageBit, FromOwner, Enter, ServerTypeOK
  <2>12. CASE CompleteMessage(m)
    <3>. DEFINE s == HandleMsg(A, bit)
                text == SubSeq(s.message.text, 1, s.size_message)
    <3>1. KernelTypeOK'
      BY <1>2, <2>4, <2>12 DEF CompleteMessage, KernelTypeOK
    <3>2. /\ WriteFault(A, bit) = "none"
          /\ CharComplete(CharBit(A, bit))
          /\ A.msg_pos + 1 >= A.size_message
          /\ printed' = Append(printed, [from |-> s.client_pid, text |-> text])
          /\ st' = FreshState
      BY <2>12 DEF CompleteMessage, MessageComplete, A, bit
    <3>3. /\ s \in ClientState
          /\ s.size_message = A.size_message
          /\ Len(s.message.text) = A.msg_pos + 1
      BY <2>1, <2>2, <3>2, HandleMsgType
    <3>4. /\ s.message.text \in Seq(Nat)
          /\ s.client_pid \in Pids
          /\ s.size_message \in Int
      BY <3>3 DEF ClientState, Buffer
    <3>5. s.size_message <= Len(s.message.text)
      BY <3>2, <3>3
    <3>. HIDE DEF s
    <3>6. \A i \in 1..s.size_message : s.message.text[i] \in Nat
      BY <3>4, <3>5
    <3>7. text \in Seq(Nat)
      BY <3>4, <3>6, SubSeqProperties
    <3>. HIDE DEF text
    <3>8. printed' \in Seq([from : Pids, text : Seq(Nat)])
      BY <3>2, <3>4, <3>7 DEF ServerTypeOK
    <3>9. CursorInv'
      BY <2>5, <3>2 DEF CursorInv
    <3>. QED  BY <1>1, <2>12, <3>1, <3>2, <3>8, <3>9, StartStates
              DEF CompleteMessage, FromOwner, Enter, ServerTypeOK
  <2>13. CASE CorruptMemory(m)
    <3>1. KernelTypeOK'
      BY <1>2, <2>13, TerminateType DEF CorruptMemory
    <3>2. fault' \in Faults_UB
      BY <2>13 DEF CorruptMemory, WriteFault, Faults_UB
    <3>. QED  BY <1>1, <2>13, <3>1, <3>2
              DEF CorruptMemory, FromOwner, Enter, ServerTypeOK, CursorInv
  <2>. QED  BY <1>4, <2>6, <2>7, <2>8, <2>9, <2>10, <2>11, <2>12, <2>13
            DEF HandleSignal
<1>. QED  BY <1>3, <1>4 DEF ServerHandler

(* The main thread's steps.                                                *)
LEMMA MainTypeInv ==
    ASSUME TypeInv, ServerMain
    PROVE  TypeInv'
<1>. USE DEF TypeInv, TypeOK
<1>1. ClientTypeOK'
  BY DEF ServerMain, clientVars, ClientTypeOK
<1>2. st \in ClientState /\ st.message \in Buffer
  BY DEF ServerTypeOK, ClientState
<1>4. CASE Boot
  <2>1. ticks' \in 0..TIMEOUT /\ initialized' \in BOOLEAN
    BY <1>4 DEF Boot, ServerTypeOK
  <2>2. (st' = st \/ st' = FreshState) /\ main' \in {"usr1", "instance", "poll", "init"}
    BY <1>4 DEF Boot, Advance
  <2>3. FreshState.message.ptr = "null" /\ FreshState.msg_pos = 0
    BY DEF FreshState, Zeroed, NullBuffer
  <2>4. CursorInv'
    BY <2>2, <2>3 DEF CursorInv
  <2>5. st' \in ClientState
    BY <1>2, <2>2, StartStates
  <2>6. \E p, q : Advance(p, q)
    BY <1>4 DEF Boot
  <2>7. KernelTypeOK' /\ ServerTypeOK'
    BY <2>1, <2>2, <2>5, <2>6
       DEF Advance, kernelVars, KernelTypeOK, ServerTypeOK, MainPoints, Starting
  <2>. QED  BY <1>1, <2>4, <2>7
<1>5. CASE StartMonitoring \/ OwnerLeft \/ OwnerActive \/ OwnerIdle \/ HandleTimeout
  <2>1. ticks' \in 0..TIMEOUT /\ initialized' = initialized
    BY <1>5, LimitAssumption
       DEF StartMonitoring, OwnerLeft, OwnerActive, OwnerIdle, HandleTimeout, ServerTypeOK
  <2>2. main' \in {"monitor", "poll", "expired", "clean"}
    BY <1>5 DEF StartMonitoring, OwnerLeft, OwnerActive, OwnerIdle, HandleTimeout, Advance
  <2>3. st' = st \/ st' = [st EXCEPT !.client_activity = 0]
    BY <1>5 DEF StartMonitoring, OwnerLeft, OwnerActive, OwnerIdle, HandleTimeout
  <2>4. st' \in ClientState
    BY <1>2, <2>3, Flags DEF ClientState
  <2>5. /\ st'.message = st.message /\ st'.msg_pos = st.msg_pos
        /\ st'.getting_msg = st.getting_msg /\ st'.getting_header = st.getting_header
    BY <1>2, <2>3 DEF ClientState
  <2>6. CursorInv'
    BY <2>2, <2>5 DEF CursorInv
  <2>7. \E p, q : Advance(p, q)
    BY <1>5 DEF StartMonitoring, OwnerLeft, OwnerActive, OwnerIdle, HandleTimeout
  <2>8. KernelTypeOK' /\ ServerTypeOK'
    BY <2>1, <2>2, <2>4, <2>7
       DEF Advance, kernelVars, KernelTypeOK, ServerTypeOK, MainPoints, Cleaning
  <2>. QED  BY <1>1, <2>6, <2>8
<1>6. CASE CleanMessage
  <2>. DEFINE freed == [st.message EXCEPT !.ptr = "freed"]
  <2>1. freed \in Buffer /\ freed.ptr = "freed" /\ NullBuffer \in Buffer
    BY <1>2 DEF Buffer, NullBuffer
  <2>2. NullBuffer.ptr = "null"
    BY DEF NullBuffer
  <2>3. /\ \E p, q : Advance(p, q)
        /\ main' \in {"free", "recheck", "refree", "zero_pids", "null", "renull"}
        /\ UNCHANGED <<initialized, ticks>>
        /\ \/ st' = st
           \/ st' = [st EXCEPT !.client_activity = 0]
           \/ st' = [st EXCEPT !.message.ptr = "freed"]
           \/ st' = [st EXCEPT !.message = NullBuffer]
    BY <1>6 DEF CleanMessage, CleanStep, Advance
  <2>4. \/ st' = st
        \/ st' = [st EXCEPT !.client_activity = 0]
        \/ st' = [st EXCEPT !.message = freed]
        \/ st' = [st EXCEPT !.message = NullBuffer]
    BY <2>3
  <2>. HIDE DEF freed
  <2>5. /\ st' \in ClientState
        /\ st'.msg_pos = st.msg_pos
        /\ st'.getting_msg = st.getting_msg /\ st'.getting_header = st.getting_header
        /\ st'.message \in {st.message, freed, NullBuffer}
    BY <1>2, <2>1, <2>4, Flags DEF ClientState
  <2>6. CursorInv'
    BY <2>1, <2>2, <2>3, <2>5 DEF CursorInv
  <2>7. KernelTypeOK' /\ ServerTypeOK'
    BY <2>3, <2>5 DEF Advance, kernelVars, KernelTypeOK, ServerTypeOK, MainPoints, Cleaning
  <2>. QED  BY <1>1, <2>6, <2>7
<1>7. CASE ResetState
  <2>1. /\ \E p, q : Advance(p, q)
        /\ main' \in Cleaning \cup {"poll"}
        /\ UNCHANGED <<initialized, ticks>>
    BY <1>7 DEF ResetState, CleanStep, Advance, Cleaning
  <2>2. NullBuffer \in Buffer /\ NullBuffer.ptr = "null" /\ NoOne \in Pids
    BY DEF Buffer, NullBuffer, Pids
  <2>. DEFINE Done == st' \in ClientState /\ CursorInv'
  <2>3. ASSUME CleanStep("zero_pids", "zero_mode",
                         [st EXCEPT !.actual_pid = NoOne, !.client_pid = NoOne])
      PROVE  Done
    <3>1. /\ st' \in ClientState /\ main' = "zero_mode"
          /\ st'.message = st.message /\ st'.msg_pos = st.msg_pos
          /\ st'.getting_msg = st.getting_msg /\ st'.getting_header = st.getting_header
      BY <1>2, <2>2, <2>3 DEF CleanStep, Advance, ClientState
    <3>. QED  BY <3>1 DEF CursorInv
  <2>4. ASSUME CleanStep("zero_mode", "zero_counts",
                         [st EXCEPT !.getting_header = 0, !.getting_msg = 0])
      PROVE  Done
    <3>1. /\ st' \in ClientState /\ main' = "zero_counts"
          /\ st'.message = st.message /\ st'.msg_pos = st.msg_pos
          /\ st'.getting_msg = 0 /\ st'.getting_header = 0
      BY <1>2, <2>4, Flags DEF CleanStep, Advance, ClientState
    <3>. QED  BY <3>1 DEF CursorInv
  <2>5. ASSUME CleanStep("zero_counts", "zero_msg",
                         [st EXCEPT !.sig_count = 0, !.char_value = 0, !.msg_pos = 0,
                            !.client_activity = 0, !.transmission_active = 0])
      PROVE  Done
    <3>1. /\ st' \in ClientState /\ main' = "zero_msg"
          /\ st'.message = st.message /\ st'.msg_pos = 0
      BY <1>2, <2>5, Flags DEF CleanStep, Advance, ClientState
    <3>2. Len(st.message.text) \in Nat
      BY <1>2 DEF Buffer
    <3>. QED  BY <3>1, <3>2 DEF CursorInv
  <2>6. ASSUME CleanStep("zero_msg", "set_header",
                         [st EXCEPT !.message = NullBuffer, !.size_message = 0])
      PROVE  Done
    <3>1. /\ st' \in ClientState /\ main' = "set_header" /\ main = "zero_msg"
          /\ st'.message = NullBuffer /\ st'.msg_pos = st.msg_pos
          /\ st'.getting_msg = st.getting_msg /\ st'.getting_header = st.getting_header
      BY <1>2, <2>2, <2>6, Flags DEF CleanStep, Advance, ClientState
    <3>. QED  BY <2>2, <3>1 DEF CursorInv
  <2>7. ASSUME CleanStep("set_header", "set_free", [st EXCEPT !.getting_header = 1])
      PROVE  Done
    <3>1. /\ st' \in ClientState /\ main' = "set_free" /\ main = "set_header"
          /\ st'.message = st.message /\ st'.msg_pos = st.msg_pos
          /\ st'.getting_msg = st.getting_msg
      BY <1>2, <2>7, Flags DEF CleanStep, Advance, ClientState
    <3>. QED  BY <3>1 DEF CursorInv
  <2>8. ASSUME CleanStep("set_free", "poll",
                         [st EXCEPT !.size_message = 0, !.transmission_active = 0])
      PROVE  Done
    <3>1. /\ st' \in ClientState /\ main' = "poll"
          /\ st'.message = st.message /\ st'.msg_pos = st.msg_pos
          /\ st'.getting_msg = st.getting_msg /\ st'.getting_header = st.getting_header
      BY <1>2, <2>8, Flags DEF CleanStep, Advance, ClientState
    <3>. QED  BY <3>1 DEF CursorInv
  <2>9. Done
    BY <1>7, <2>3, <2>4, <2>5, <2>6, <2>7, <2>8 DEF ResetState
  <2>10. KernelTypeOK' /\ ServerTypeOK'
    BY <2>1, <2>9 DEF Advance, kernelVars, KernelTypeOK, ServerTypeOK, MainPoints
  <2>. QED  BY <1>1, <2>9, <2>10
<1>. QED  BY <1>4, <1>5, <1>6, <1>7 DEF ServerMain

(* The steps of a client change its own record, its life and the signals   *)
(* pending; the server's memory is out of their reach.                     *)
LEMMA ClientTypeInv ==
    ASSUME TypeInv, NEW c \in Clients,
           Arrive(c) \/ ClientMain(c) \/ ClientHandler(c) \/ ClientCrash(c)
    PROVE  TypeInv'
<1>. USE DEF TypeInv, TypeOK
<1>1. UNCHANGED serverVars
  BY DEF Arrive, ClientMain, ClientHandler, ClientCrash
<1>2. ServerTypeOK' /\ CursorInv'
  BY <1>1 DEF serverVars, ServerTypeOK, CursorInv
<1>3. c \in Procs /\ Server \in Procs /\ Sigs = {"USR1", "USR2"}
  BY DEF Procs, Sigs
<1>4. cl[c] \in ClientProcess
  BY DEF ClientTypeOK
<1>5. ASSUME UNCHANGED msg, NEW new \in ClientProcess, cl' = [cl EXCEPT ![c] = new]
      PROVE  ClientTypeOK'
  BY <1>5 DEF ClientTypeOK
<1>6. ASSUME NEW new \in ClientProcess, Local(c, new)
      PROVE  KernelTypeOK' /\ ClientTypeOK'
  BY <1>5, <1>6 DEF Local, kernelVars, KernelTypeOK
<1>7. ASSUME NEW outcome \in Points, Exit(c, outcome)
      PROVE  KernelTypeOK' /\ ClientTypeOK'
  <2>1. [cl[c] EXCEPT !.at = outcome] \in ClientProcess
    BY <1>4, <1>7 DEF ClientProcess
  <2>2. cl' = [cl EXCEPT ![c] = [cl[c] EXCEPT !.at = outcome]]
    BY <1>7 DEF Exit, ClientTypeOK
  <2>. QED  BY <1>3, <1>5, <1>7, <2>1, <2>2, TerminateType DEF Exit
<1>8. ASSUME NEW s \in Sigs, NEW new \in ClientProcess, Send(c, s, new)
      PROVE  KernelTypeOK' /\ ClientTypeOK'
  <2>1. pending' \in [Procs -> SUBSET Signal]
    BY <1>3, <1>8, KillType DEF Send, KernelTypeOK
  <2>. QED  BY <1>5, <1>8, <2>1 DEF Send, KernelTypeOK
<1>9. ASSUME NEW m, NEW new \in ClientProcess, Deliver(c, m, new)
      PROVE  KernelTypeOK' /\ ClientTypeOK'
  <2>1. pending' \in [Procs -> SUBSET Signal]
    BY <1>3, <1>9, TakenType DEF Deliver
  <2>. QED  BY <1>5, <1>9, <2>1 DEF Deliver, KernelTypeOK
<1>10. "success" \in Points /\ "failure" \in Points /\ "killed" \in Points
  BY DEF Points, Final
<1>11. CASE Arrive(c)
  <2>1. [cl[c] EXCEPT !.at = "start"] \in ClientProcess
    BY <1>4 DEF ClientProcess, Points
  <2>2. cl' = [cl EXCEPT ![c] = [cl[c] EXCEPT !.at = "start"]]
    BY <1>11 DEF Arrive, Launch, ClientTypeOK
  <2>3. KernelTypeOK'
    BY <1>3, <1>11 DEF Arrive, Launch, KernelTypeOK
  <2>. QED  BY <1>2, <1>5, <1>11, <2>1, <2>2, <2>3 DEF Arrive, Launch
<1>12. CASE ClientCrash(c)
  BY <1>2, <1>7, <1>10, <1>12 DEF ClientCrash
<1>13. CASE ClientHandler(c)
  <2>1. PICK m \in pending[c] : \/ DefaultAction(c, m)
                                \/ Pinged(c, m)
                                \/ Acknowledged(c, m)
                                \/ Confirmed(c, m)
    BY <1>13 DEF ClientHandler, ClientSignal
  <2>2. CASE Pinged(c, m)
    <3>. DEFINE new == [cl[c] EXCEPT !.is_ready = IF m.sig = "USR1" THEN 1 ELSE 0]
    <3>1. new \in ClientProcess
      BY <1>4, Flags DEF ClientProcess
    <3>2. Deliver(c, m, new)
      BY <2>2 DEF Pinged
    <3>. HIDE DEF new
    <3>. QED  BY <1>2, <1>9, <3>1, <3>2
  <2>3. CASE Acknowledged(c, m)
    <3>. DEFINE new == [cl[c] EXCEPT !.ready_to_proceed = 1]
    <3>1. new \in ClientProcess
      BY <1>4, Flags DEF ClientProcess
    <3>2. Deliver(c, m, new)
      BY <2>3 DEF Acknowledged
    <3>. HIDE DEF new
    <3>. QED  BY <1>2, <1>9, <3>1, <3>2
  <2>. QED  BY <1>2, <1>7, <1>10, <2>1, <2>2, <2>3 DEF DefaultAction, Confirmed
<1>14. CASE ClientMain(c)
  <2>. DEFINE Done == KernelTypeOK' /\ ClientTypeOK'
              r == cl[c]
  <2>0. /\ r.attempt \in 0..RETRY_TIMES /\ r.sent \in Nat /\ r.sent + 1 \in Nat
        /\ 1 \in 0..RETRY_TIMES
        /\ r.attempt < RETRY_TIMES => r.attempt + 1 \in 0..RETRY_TIMES
    BY <1>4, RetryAssumption DEF ClientProcess
  <2>1. ASSUME Start(c)  PROVE Done
    <3>. DEFINE new == [r EXCEPT !.at = "ping", !.handler = "ping", !.attempt = 1,
                              !.is_ready = 0, !.ready_to_proceed = 0,
                              !.transmission_active = 0]
    <3>1. new \in ClientProcess
      BY <1>4, <2>0, Flags DEF ClientProcess, Points
    <3>2. Local(c, new)
      BY <2>1 DEF Start
    <3>. HIDE DEF new
    <3>. QED  BY <1>6, <3>1, <3>2
  <2>2. ASSUME SendPing(c)  PROVE Done
    <3>. DEFINE new == [r EXCEPT !.at = "check"]
    <3>1. new \in ClientProcess
      BY <1>4 DEF ClientProcess, Points
    <3>2. Send(c, "USR1", new)
      BY <2>2 DEF SendPing
    <3>. HIDE DEF new
    <3>. QED  BY <1>3, <1>8, <3>1, <3>2
  <2>3. ASSUME ServerGone(c) \/ GiveUp(c) \/ AckExpire(c)  PROVE Done
    BY <1>7, <1>10, <2>3 DEF ServerGone, GiveUp, AckExpire
  <2>4. ASSUME NEW p \in {"switch", "delay", "clear"}, Local(c, [r EXCEPT !.at = p])
        PROVE  Done
    <3>. DEFINE new == [r EXCEPT !.at = p]
    <3>1. new \in ClientProcess
      BY <1>4 DEF ClientProcess, Points
    <3>2. Local(c, new)
      BY <2>4
    <3>. HIDE DEF new
    <3>. QED  BY <1>6, <3>1, <3>2
  <2>5. ASSUME PollReady(c) \/ PingExpire(c) \/ AckSeen(c)  PROVE Done
    BY <2>4, <2>5 DEF PollReady, PingExpire, AckSeen
  <2>6. ASSUME Retry(c)  PROVE Done
    <3>. DEFINE new == [r EXCEPT !.at = "ping", !.attempt = r.attempt + 1]
    <3>1. r.attempt + 1 \in 0..RETRY_TIMES
      BY <2>0, <2>6 DEF Retry
    <3>2. new \in ClientProcess
      BY <1>4, <3>1 DEF ClientProcess, Points
    <3>3. Local(c, new)
      BY <2>6 DEF Retry
    <3>. HIDE DEF new
    <3>. QED  BY <1>6, <3>2, <3>3
  <2>7. ASSUME InstallHandlers(c)  PROVE Done
    <3>. DEFINE new == [r EXCEPT !.at = "slot", !.handler = "transfer"]
    <3>1. new \in ClientProcess
      BY <1>4 DEF ClientProcess, Points
    <3>2. Local(c, new)
      BY <2>7 DEF InstallHandlers
    <3>. HIDE DEF new
    <3>. QED  BY <1>6, <3>1, <3>2
  <2>8. ASSUME AcquireSlot(c)  PROVE Done
    <3>. DEFINE new == [r EXCEPT !.at = "send", !.transmission_active = 1]
    <3>1. new \in ClientProcess
      BY <1>4, Flags DEF ClientProcess, Points
    <3>2. Local(c, new)
      BY <2>8 DEF AcquireSlot
    <3>. HIDE DEF new
    <3>. QED  BY <1>6, <3>1, <3>2
  <2>9. ASSUME SendBit(c)  PROVE Done
    <3>. DEFINE new == [r EXCEPT !.at = "ack", !.sent = r.sent + 1]
                sig == SignalOf(BitAt(c, r.sent + 1))
    <3>1. new \in ClientProcess
      BY <1>4, <2>0 DEF ClientProcess, Points
    <3>2. sig \in Sigs
      BY <1>3 DEF SignalOf
    <3>3. Send(c, sig, new)
      BY <2>9 DEF SendBit
    <3>. HIDE DEF new, sig
    <3>. QED  BY <1>8, <3>1, <3>2, <3>3
  <2>10. ASSUME ClearAck(c)  PROVE Done
    <3>. DEFINE new == [r EXCEPT !.ready_to_proceed = 0,
                 !.at = IF r.sent < TotalBits(c) THEN "send" ELSE "pause"]
    <3>1. new \in ClientProcess
      BY <1>4, Flags DEF ClientProcess, Points
    <3>2. Local(c, new)
      BY <2>10 DEF ClearAck
    <3>. HIDE DEF new
    <3>. QED  BY <1>6, <3>1, <3>2
  <2>. QED  BY <1>2, <1>14, <2>1, <2>2, <2>3, <2>5, <2>6, <2>7, <2>8, <2>9, <2>10
            DEF ClientMain
<1>. QED  BY <1>11, <1>12, <1>13, <1>14

(* The server is killed, by a signal of the environment or by its own exit *)
(* when malloc fails.                                                      *)
LEMMA ServerEndTypeInv ==
    ASSUME TypeInv, ServerCrash \/ MallocFails
    PROVE  TypeInv'
<1>. USE DEF TypeInv, TypeOK
<1>1. Terminate(Server) /\ UNCHANGED <<st, main, ticks, fault, printed, clientVars>>
  BY DEF ServerCrash, MallocFails, MemoryExhausted, FromOwner, Enter
<1>2. initialized' \in BOOLEAN /\ acking' \in BOOLEAN
  BY DEF ServerCrash, MallocFails, MemoryExhausted, FromOwner, Enter, ServerTypeOK
<1>3. KernelTypeOK'
  BY <1>1, TerminateType DEF Procs
<1>. QED  BY <1>1, <1>2, <1>3
          DEF clientVars, ServerTypeOK, ClientTypeOK, CursorInv

(* The initial states are well typed.                                      *)
LEMMA InitTypeInv == Init => TypeInv
<1>. SUFFICES ASSUME Init PROVE TypeInv
  OBVIOUS
<1>. USE DEF TypeInv, TypeOK
<1>1. KernelTypeOK
  BY DEF Init, KernelInit, KernelTypeOK, Procs
<1>2. ServerTypeOK
  <2>1. printed \in Seq([from : Pids, text : Seq(Nat)])
    BY DEF Init, ServerInit
  <2>2. 0 \in 0..TIMEOUT
    BY LimitAssumption
  <2>. QED  BY <2>1, <2>2, StartStates
            DEF Init, ServerInit, ServerTypeOK, MainPoints, Starting
<1>3. ClientTypeOK
  BY Flags, RetryAssumption DEF Init, ClientInit, ClientTypeOK, ClientProcess, Points
<1>4. CursorInv
  BY DEF Init, ServerInit, CursorInv, Zeroed, NullBuffer
<1>. QED  BY <1>1, <1>2, <1>3, <1>4

(* Every step preserves TypeInv.                                           *)
LEMMA NextTypeInv == TypeInv /\ [Next]_vars => TypeInv'
<1>. SUFFICES ASSUME TypeInv, [Next]_vars PROVE TypeInv'
  OBVIOUS
<1>1. CASE UNCHANGED vars
  BY <1>1 DEF vars, kernelVars, serverVars, clientVars, TypeInv, TypeOK,
              KernelTypeOK, ServerTypeOK, ClientTypeOK, CursorInv
<1>. QED  BY <1>1, HandlerTypeInv, MainTypeInv, ClientTypeInv, ServerEndTypeInv DEF Next

(* In every execution the cursor of the character store stays inside what  *)
(* has been stored (handle_msg, reset_client_state).                       *)
THEOREM CursorCorrect == Spec => []TypeInv
BY InitTypeInv, NextTypeInv, PTL DEF Spec

(* The whole state stays well typed, whatever faults happen: every record  *)
(* of t_client_state and t_server_state, every counter within its bound.   *)
THEOREM TypeCorrect == Spec => []TypeOK
<1>1. TypeInv => TypeOK
  BY DEF TypeInv
<1>. QED  BY <1>1, CursorCorrect, PTL

(***************************************************************************)
(* The message block                                                       *)
(*                                                                         *)
(* NoOverflow is not inductive: a write may stay inside its block only     *)
(* because of where the cursor was left.  RoomInv says where that is, and  *)
(* it holds even if handlers interrupt clean_global.                       *)
(***************************************************************************)
(* The singleton the handler works on has room, set up just now or before. *)
LEMMA InstanceRoom ==
    ASSUME RoomInv
    PROVE  Instance.message.ptr = "live" =>
              /\ Instance.message.capacity > Instance.size_message
              /\ Instance.getting_msg = 1 =>
                    Instance.msg_pos + 1 < Instance.message.capacity
              /\ Instance.getting_msg = 0 =>
                    /\ Instance.getting_header = 0
                    /\ main \in {"zero_counts", "zero_msg"}
<1>1. FreshState.message.ptr # "live"
  BY DEF FreshState, Zeroed, NullBuffer
<1>. QED  BY <1>1 DEF Instance, RoomInv

(* With room, the handler's writes stay inside a live block.               *)
LEMMA RoomNoOverflow ==
    ASSUME TypeInv, RoomInv, NEW m \in pending[Server], Instance.getting_msg = 1
    PROVE  WriteFault(Active(m), BitValue(m.sig)) # "overflow"
<1>. DEFINE A == Active(m)
<1>1. /\ A \in ClientState
      /\ A.message = Instance.message /\ A.msg_pos = Instance.msg_pos
  BY EnterType
<1>2. A.msg_pos \in Nat /\ A.message.capacity \in Nat
  BY <1>1 DEF ClientState, Buffer
<1>3. A.message.ptr = "live" => A.msg_pos + 1 < A.message.capacity
  BY <1>1, InstanceRoom
<1>4. A.message.ptr \in {"null", "live", "freed"}
  BY <1>1 DEF ClientState, Buffer
<1>. HIDE DEF A
<1>. DEFINE last == IF A.msg_pos + 1 >= A.size_message THEN A.msg_pos + 1
                    ELSE A.msg_pos
<1>5. A.message.ptr = "live" => ~(last >= A.message.capacity)
  BY <1>2, <1>3
<1>6. WriteFault(A, BitValue(m.sig)) =
        IF ~CharComplete(CharBit(A, BitValue(m.sig))) THEN "none"
        ELSE IF A.message.ptr = "null" THEN "null_write"
        ELSE IF A.message.ptr = "freed" THEN "use_after_free"
        ELSE IF last >= A.message.capacity THEN "overflow"
        ELSE "none"
  BY DEF WriteFault
<1>. HIDE DEF last
<1>7. WriteFault(A, BitValue(m.sig)) # "overflow"
  BY <1>4, <1>5, <1>6
<1>. QED  BY <1>7 DEF A

(* A header bit leaves room: a block is reserved for one character more    *)
(* than the length, with the cursor at 0.                                  *)
LEMMA HeaderRoom ==
    ASSUME TypeInv, RoomInv, NEW m, m \in pending[Server], ReceiveHeaderBit(m)
    PROVE  RoomInv'
<1>. DEFINE I == Instance
            A == Active(m)
            bit == BitValue(m.sig)
            h == HeaderBit(A, bit)
<1>1. /\ bit \in 0..1
      /\ A \in ClientState
      /\ A.message = I.message /\ A.msg_pos = I.msg_pos
      /\ A.size_message = I.size_message
      /\ A.getting_msg = I.getting_msg /\ A.getting_header = I.getting_header
  BY EnterType
<1>2. /\ h \in ClientState
      /\ h.message = A.message /\ h.msg_pos = A.msg_pos
  BY <1>1, HeaderBitType
<1>3. \/ HandleHeader(A, bit) = h
      \/ ValidSize(h.size_message) /\ HandleHeader(A, bit) = Reserved(h)
      \/ HandleHeader(A, bit) = FreshState
  BY <1>1, HandleHeaderCases
<1>4. I.getting_msg = 0 /\ main' = main
  BY DEF ReceiveHeaderBit, FromOwner, Enter
<1>5. \/ st' = A
      \/ I.getting_header = 1 /\ st' = HandleHeader(A, bit)
  BY DEF ReceiveHeaderBit
<1>. HIDE DEF I, A, bit, h
<1>6. CASE st' = A
  BY <1>1, <1>4, <1>6, InstanceRoom DEF RoomInv, I
<1>7. CASE I.getting_header = 1 /\ st' = h
  <2>1. st'.message.ptr # "live"
    BY <1>1, <1>2, <1>4, <1>7, InstanceRoom DEF I
  <2>. QED  BY <2>1 DEF RoomInv
<1>8. CASE /\ I.getting_header = 1
           /\ ValidSize(h.size_message)
           /\ st' = Reserved(h)
  <2>1. h.msg_pos = 0 /\ h.size_message \in Int /\ h.size_message > 0
    BY <1>1, <1>2, <1>4, <1>8, InstanceType DEF I, ValidSize, ClientState
  <2>2. /\ st'.message.capacity = h.size_message + 1
        /\ st'.size_message = h.size_message
        /\ st'.msg_pos = h.msg_pos
        /\ st'.getting_msg = 1
    BY <1>2, <1>8 DEF Reserved, ClientState
  <2>. QED  BY <2>1, <2>2 DEF RoomInv
<1>9. CASE st' = FreshState
  BY <1>9 DEF RoomInv, FreshState, Zeroed, NullBuffer
<1>. QED  BY <1>3, <1>5, <1>6, <1>7, <1>8, <1>9

(* So does a message bit that does not complete the message.               *)
LEMMA MessageRoom ==
    ASSUME TypeInv, RoomInv, NEW m, m \in pending[Server], ReceiveMessageBit(m)
    PROVE  RoomInv'
<1>. DEFINE I == Instance
            A == Active(m)
            bit == BitValue(m.sig)
            new == HandleMsg(A, bit)
<1>1. /\ bit \in 0..1
      /\ A \in ClientState
      /\ A.message = I.message /\ A.msg_pos = I.msg_pos
      /\ A.size_message = I.size_message
      /\ A.getting_msg = I.getting_msg /\ A.getting_header = I.getting_header
  BY EnterType
<1>2. /\ I.getting_msg = 1
      /\ WriteFault(A, bit) = "none"
      /\ ~ (CharComplete(CharBit(A, bit)) /\ A.msg_pos + 1 >= A.size_message)
      /\ st' = new
  BY DEF ReceiveMessageBit, MessageComplete
<1>3. I.message.ptr = "live" => I.msg_pos <= Len(I.message.text)
  BY InstanceType
<1>. HIDE DEF I, A, bit
<1>4. /\ new.getting_msg = A.getting_msg
      /\ new.size_message = A.size_message
      /\ new.message.ptr = A.message.ptr
      /\ new.message.capacity = A.message.capacity
      /\ CharComplete(CharBit(A, bit)) => new.msg_pos = A.msg_pos + 1
      /\ ~CharComplete(CharBit(A, bit)) => new.msg_pos = A.msg_pos
  BY <1>1, <1>2, <1>3, HandleMsgType
<1>5. A.msg_pos \in Nat /\ A.size_message \in Int /\ A.message.capacity \in Nat
  BY <1>1 DEF ClientState, Buffer
<1>6. I.message.ptr = "live" =>
        I.message.capacity > I.size_message /\ I.msg_pos + 1 < I.message.capacity
  BY <1>2, InstanceRoom DEF I
<1>. HIDE DEF new
<1>7. new.message.ptr = "live" =>
        new.message.capacity > new.size_message /\ new.msg_pos + 1 < new.message.capacity
  BY <1>1, <1>2, <1>4, <1>5, <1>6
<1>. QED  BY <1>1, <1>2, <1>4, <1>7 DEF RoomInv

(* The handler's steps keep room, and write no further than the block.     *)
LEMMA HandlerRoom ==
    ASSUME TypeInv, RoomInv, NoOverflow, ServerHandler
    PROVE  RoomInv' /\ NoOverflow'
<1>1. CASE SendAck
  BY <1>1 DEF SendAck, RoomInv, NoOverflow
<1>2. ASSUME NEW m \in pending[Server], HandleSignal(m)
      PROVE  RoomInv' /\ NoOverflow'
  <2>1. FreshState.message.ptr # "live" /\ \A c : Pong(c).message.ptr # "live"
    BY DEF FreshState, Pong, Zeroed, NullBuffer
  <2>2. CASE KilledBySignal(m)
    BY <2>2 DEF KilledBySignal, serverVars, RoomInv, NoOverflow
  <2>3. CASE IgnoreOwnSignal(m) \/ RejectBusy(m)
    BY <2>3, InstanceRoom DEF IgnoreOwnSignal, RejectBusy, Enter, RoomInv, NoOverflow
  <2>4. CASE AcceptClient(m)
    BY <2>1, <2>4 DEF AcceptClient, RoomInv, NoOverflow
  <2>5. CASE ReceiveHeaderBit(m)
    BY <2>5, HeaderRoom DEF ReceiveHeaderBit, NoOverflow
  <2>6. CASE ReceiveMessageBit(m)
    BY <2>6, MessageRoom DEF ReceiveMessageBit, NoOverflow
  <2>7. CASE CompleteMessage(m)
    BY <2>1, <2>7 DEF CompleteMessage, RoomInv, NoOverflow
  <2>8. CASE CorruptMemory(m)
    <3>1. fault' # "overflow"
      BY <2>8, RoomNoOverflow DEF CorruptMemory
    <3>. QED  BY <2>8, <3>1 DEF CorruptMemory, FromOwner, Enter, RoomInv, NoOverflow
  <2>. QED  BY <1>2, <2>2, <2>3, <2>4, <2>5, <2>6, <2>7, <2>8 DEF HandleSignal
<1>. QED  BY <1>1, <1>2 DEF ServerHandler

(* The main thread moves the cursor back to 0 only, and takes the mode     *)
(* flags down before it raises getting_header again.                       *)
LEMMA MainRoom ==
    ASSUME TypeInv, RoomInv, ServerMain
    PROVE  RoomInv'
<1>1. /\ st \in ClientState
      /\ st.msg_pos \in Nat /\ st.size_message \in Int
      /\ st.message.capacity \in Nat
      /\ st.getting_msg \in 0..1
  BY DEF TypeInv, TypeOK, ServerTypeOK, ClientState, Buffer
<1>2. NullBuffer.ptr # "live"
  BY DEF NullBuffer
<1>3. CASE Boot
  <2>1. /\ st' = st \/ st' = FreshState
        /\ main \notin {"zero_counts", "zero_msg"}
    BY <1>3 DEF Boot, Advance
  <2>2. FreshState.message.ptr # "live"
    BY <1>2 DEF FreshState, Zeroed
  <2>. QED  BY <1>1, <2>1, <2>2 DEF RoomInv
<1>4. CASE StartMonitoring \/ OwnerLeft \/ OwnerActive \/ OwnerIdle \/ HandleTimeout
  <2>1. /\ st' = st \/ st' = [st EXCEPT !.client_activity = 0]
        /\ main \notin {"zero_counts", "zero_msg"}
    BY <1>4 DEF StartMonitoring, OwnerLeft, OwnerActive, OwnerIdle, HandleTimeout, Advance
  <2>2. /\ st'.message = st.message /\ st'.msg_pos = st.msg_pos
        /\ st'.size_message = st.size_message
        /\ st'.getting_msg = st.getting_msg
    BY <1>1, <2>1 DEF ClientState
  <2>. QED  BY <1>1, <2>1, <2>2 DEF RoomInv
<1>5. CASE CleanMessage
  <2>1. /\ \/ st' = st
           \/ st' = [st EXCEPT !.client_activity = 0]
           \/ st' = [st EXCEPT !.message.ptr = "freed"]
           \/ st' = [st EXCEPT !.message = NullBuffer]
        /\ main \notin {"zero_counts", "zero_msg"}
    BY <1>5 DEF CleanMessage, CleanStep, Advance
  <2>2. \/ st'.message.ptr # "live"
        \/ /\ st'.message = st.message /\ st'.msg_pos = st.msg_pos
           /\ st'.size_message = st.size_message
           /\ st'.getting_msg = st.getting_msg
    BY <1>1, <1>2, <2>1 DEF ClientState, Buffer
  <2>. QED  BY <1>1, <2>1, <2>2 DEF RoomInv
<1>6. CASE ResetState
  <2>1. ASSUME CleanStep("zero_pids", "zero_mode",
                         [st EXCEPT !.actual_pid = NoOne, !.client_pid = NoOne])
        PROVE  RoomInv'
    BY <1>1, <2>1 DEF CleanStep, Advance, RoomInv, ClientState
  <2>2. ASSUME CleanStep("zero_mode", "zero_counts",
                         [st EXCEPT !.getting_header = 0, !.getting_msg = 0])
        PROVE  RoomInv'
    BY <1>1, <2>2 DEF CleanStep, Advance, RoomInv, ClientState
  <2>3. ASSUME CleanStep("zero_counts", "zero_msg",
                         [st EXCEPT !.sig_count = 0, !.char_value = 0, !.msg_pos = 0,
                            !.client_activity = 0, !.transmission_active = 0])
        PROVE  RoomInv'
    <3>1. /\ st'.message = st.message /\ st'.msg_pos = 0
          /\ st'.size_message = st.size_message
          /\ st'.getting_msg = st.getting_msg
          /\ st'.getting_header = st.getting_header
          /\ main' = "zero_msg"
      BY <1>1, <2>3 DEF CleanStep, Advance, ClientState
    <3>. QED  BY <1>1, <3>1 DEF RoomInv
  <2>4. ASSUME CleanStep("zero_msg", "set_header",
                         [st EXCEPT !.message = NullBuffer, !.size_message = 0])
        PROVE  RoomInv'
    BY <1>1, <1>2, <2>4 DEF CleanStep, RoomInv, ClientState
  <2>5. ASSUME CleanStep("set_header", "set_free", [st EXCEPT !.getting_header = 1])
        PROVE  RoomInv'
    BY <1>1, <2>5 DEF CleanStep, Advance, RoomInv, ClientState
  <2>6. ASSUME CleanStep("set_free", "poll",
                         [st EXCEPT !.size_message = 0, !.transmission_active = 0])
        PROVE  RoomInv'
    <3>1. /\ st'.message = st.message /\ st'.msg_pos = st.msg_pos
          /\ st'.size_message = 0
          /\ st'.getting_msg = st.getting_msg
          /\ main = "set_free"
      BY <1>1, <2>6 DEF CleanStep, Advance, ClientState
    <3>. QED  BY <1>1, <3>1 DEF RoomInv
  <2>. QED  BY <1>6, <2>1, <2>2, <2>3, <2>4, <2>5, <2>6 DEF ResetState
<1>. QED  BY <1>3, <1>4, <1>5, <1>6 DEF ServerMain

(* The block has room in every reachable state, and no write misses it.    *)
THEOREM RoomCorrect == Spec => [](RoomInv /\ NoOverflow)
<1>1. Init => RoomInv /\ NoOverflow
  BY DEF Init, ServerInit, RoomInv, NoOverflow, Zeroed, NullBuffer
<1>2. TypeInv /\ RoomInv /\ NoOverflow /\ [Next]_vars => (RoomInv /\ NoOverflow)'
  <2>. SUFFICES ASSUME TypeInv, RoomInv, NoOverflow, [Next]_vars
                PROVE  RoomInv' /\ NoOverflow'
    OBVIOUS
  <2>1. CASE UNCHANGED <<st, main, fault>>
    BY <2>1 DEF RoomInv, NoOverflow
  <2>2. CASE ServerHandler
    BY <2>2, HandlerRoom
  <2>3. CASE ServerMain
    <3>1. fault' = fault
      BY <2>3 DEF ServerMain, Boot, StartMonitoring, OwnerLeft, OwnerActive, OwnerIdle,
                  HandleTimeout, CleanMessage, ResetState, CleanStep, Advance
    <3>. QED  BY <2>3, <3>1, MainRoom DEF NoOverflow
  <2>4. CASE ServerCrash \/ MallocFails
    BY <2>1, <2>4 DEF ServerCrash, MallocFails, MemoryExhausted, FromOwner, Enter
  <2>5. ASSUME NEW c \in Clients,
               Arrive(c) \/ ClientMain(c) \/ ClientHandler(c) \/ ClientCrash(c)
        PROVE  UNCHANGED <<st, main, fault>>
    BY <2>5 DEF Arrive, ClientMain, ClientHandler, ClientCrash, serverVars
  <2>. QED  BY <2>1, <2>2, <2>3, <2>4, <2>5 DEF Next, vars, serverVars
<1>. QED  BY <1>1, <1>2, CursorCorrect, PTL DEF Spec

(* handle_msg never writes past the end of its block, not even when it     *)
(* interrupts clean_global, memory runs out, or timers run out early.      *)
THEOREM NoOverflowEver == Spec => []NoOverflow
BY RoomCorrect, PTL

(***************************************************************************)
(* Memory safety without preemption                                        *)
(*                                                                         *)
(* The pointer itself is only right while no handler runs inside           *)
(* clean_global, which nothing in the code ensures: the theorem names that *)
(* assumption.                                                             *)
(***************************************************************************)
(* The handler starts from a state that receives into a live block.        *)
LEMMA InstanceBlock ==
    ASSUME BlockInv, main \notin Cleaning, Instance.getting_msg = 1
    PROVE  Instance.message.ptr = "live"
<1>1. FreshState.getting_msg = 0
  BY DEF FreshState, Zeroed
<1>. QED  BY <1>1 DEF Instance, BlockInv

(* So no write of it meets a bad pointer.                                  *)
LEMMA NoWriteFault ==
    ASSUME TypeInv, RoomInv, BlockInv, main \notin Cleaning,
           NEW m \in pending[Server], Instance.getting_msg = 1
    PROVE  WriteFault(Active(m), BitValue(m.sig)) = "none"
<1>. DEFINE A == Active(m)
<1>1. A.message = Instance.message
  BY EnterType
<1>2. A.message.ptr = "live"
  BY <1>1, InstanceBlock
<1>3. WriteFault(A, BitValue(m.sig)) # "overflow"
  BY RoomNoOverflow
<1>. HIDE DEF A
<1>4. WriteFault(A, BitValue(m.sig)) = "none"
  BY <1>2, <1>3 DEF WriteFault
<1>. QED  BY <1>4 DEF A

(* The handler's steps outside clean_global receive into a live block.     *)
LEMMA HandlerBlock ==
    ASSUME "preempt" \notin Faults, TypeInv, RoomInv, BlockInv, MemorySafe,
           ServerHandler
    PROVE  BlockInv' /\ MemorySafe'
<1>1. main \notin Cleaning
  BY DEF ServerHandler
<1>2. {"zero_counts", "zero_msg", "set_header", "set_free"} \subseteq Cleaning
  BY DEF Cleaning
<1>3. CASE SendAck
  BY <1>3 DEF SendAck, BlockInv, MemorySafe
<1>4. ASSUME NEW m \in pending[Server], HandleSignal(m)
      PROVE  BlockInv' /\ MemorySafe'
  <2>. DEFINE I == Instance
              A == Active(m)
              bit == BitValue(m.sig)
  <2>1. /\ bit \in 0..1
        /\ A \in ClientState
        /\ A.message = I.message
        /\ A.getting_msg = I.getting_msg
    BY EnterType
  <2>2. I.getting_msg = 1 => I.message.ptr = "live"
    BY <1>1, InstanceBlock
  <2>3. FreshState.getting_msg = 0 /\ \A c : Pong(c).getting_msg = 0
    BY DEF FreshState, Pong, Zeroed
  <2>4. CASE KilledBySignal(m)
    BY <2>4 DEF KilledBySignal, serverVars, BlockInv, MemorySafe
  <2>5. CASE IgnoreOwnSignal(m) \/ RejectBusy(m)
    BY <1>1, <1>2, <2>2, <2>5
       DEF IgnoreOwnSignal, RejectBusy, Enter, BlockInv, MemorySafe
  <2>6. CASE AcceptClient(m)
    BY <1>1, <1>2, <2>3, <2>6 DEF AcceptClient, Enter, BlockInv, MemorySafe
  <2>7. CASE ReceiveHeaderBit(m)
    <3>. DEFINE h == HeaderBit(A, bit)
    <3>1. I.getting_msg = 0
      BY <2>7 DEF ReceiveHeaderBit
    <3>2. /\ main' = main /\ fault' = fault
          /\ st' = A \/ st' = HandleHeader(A, bit)
      BY <2>7 DEF ReceiveHeaderBit, FromOwner, Enter
    <3>3. h \in ClientState /\ h.message = A.message /\ h.getting_msg = A.getting_msg
      BY <2>1, HeaderBitType
    <3>4. \/ HandleHeader(A, bit) = h
          \/ HandleHeader(A, bit) = Reserved(h)
          \/ HandleHeader(A, bit) = FreshState
      BY <2>1, HandleHeaderCases
    <3>. HIDE DEF I, A, bit, h
    <3>5. Reserved(h).message.ptr = "live"
      BY <3>3 DEF Reserved, ClientState
    <3>6. st'.getting_msg = 1 => st'.message.ptr = "live"
      BY <2>1, <2>3, <3>1, <3>2, <3>3, <3>4, <3>5
    <3>. QED  BY <1>1, <1>2, <3>2, <3>6 DEF BlockInv, MemorySafe
  <2>8. CASE ReceiveMessageBit(m)
    <3>1. I.getting_msg = 1 /\ WriteFault(A, bit) = "none" /\ st' = HandleMsg(A, bit)
      BY <2>8 DEF ReceiveMessageBit
    <3>2. I.message.ptr = "live" => A.msg_pos <= Len(A.message.text)
      BY InstanceType, EnterType
    <3>. HIDE DEF I, A, bit
    <3>3. HandleMsg(A, bit).message.ptr = A.message.ptr
      BY <2>1, <2>2, <3>1, <3>2, HandleMsgType
    <3>. QED  BY <1>1, <1>2, <2>1, <2>2, <2>8, <3>1, <3>3
              DEF ReceiveMessageBit, FromOwner, Enter, BlockInv, MemorySafe
  <2>9. CASE CompleteMessage(m)
    BY <1>1, <1>2, <2>3, <2>9
       DEF CompleteMessage, FromOwner, Enter, BlockInv, MemorySafe
  <2>10. CASE CorruptMemory(m)
    BY <1>1, <2>10, NoWriteFault DEF CorruptMemory
  <2>. QED  BY <1>4, <2>4, <2>5, <2>6, <2>7, <2>8, <2>9, <2>10 DEF HandleSignal
<1>. QED  BY <1>3, <1>4 DEF ServerHandler

(* The main thread returns from clean_global with the mode flags down.     *)
LEMMA MainBlock ==
    ASSUME TypeInv, BlockInv, ServerMain
    PROVE  BlockInv'
<1>1. st \in ClientState
  BY DEF TypeInv, TypeOK, ServerTypeOK
<1>2. CASE Boot
  <2>1. FreshState.getting_msg = 0
    BY DEF FreshState, Zeroed
  <2>. QED  BY <1>2, <2>1 DEF Boot, Advance, BlockInv, Cleaning
<1>3. CASE StartMonitoring \/ OwnerLeft \/ OwnerActive \/ OwnerIdle \/ HandleTimeout
  <2>1. /\ st' = st \/ st' = [st EXCEPT !.client_activity = 0]
        /\ main \in {"poll", "monitor", "expired"}
        /\ main' \in {"monitor", "poll", "expired", "clean"}
    BY <1>3 DEF StartMonitoring, OwnerLeft, OwnerActive, OwnerIdle, HandleTimeout, Advance
  <2>2. st'.message = st.message /\ st'.getting_msg = st.getting_msg
    BY <1>1, <2>1 DEF ClientState
  <2>. QED  BY <2>1, <2>2 DEF BlockInv, Cleaning
<1>4. CASE CleanMessage
  BY <1>4 DEF CleanMessage, CleanStep, Advance, BlockInv, Cleaning
<1>5. CASE ResetState
  <2>1. \/ main' = "zero_mode"
        \/ main' = "zero_counts" /\ st'.getting_msg = 0
        \/ /\ main \in {"zero_counts", "zero_msg", "set_header", "set_free"}
           /\ main' \in {"zero_msg", "set_header", "set_free", "poll"}
           /\ st'.getting_msg = st.getting_msg
    BY <1>1, <1>5 DEF ResetState, CleanStep, Advance, ClientState
  <2>. QED  BY <2>1 DEF BlockInv, Cleaning
<1>. QED  BY <1>2, <1>3, <1>4, <1>5 DEF ServerMain

(* If no handler interrupts clean_global, characters are received into a   *)
(* live block only, and no write of the handler is undefined.              *)
THEOREM BlockCorrect ==
    ASSUME "preempt" \notin Faults
    PROVE  Spec => [](BlockInv /\ MemorySafe)
<1>1. Init => BlockInv /\ MemorySafe
  BY DEF Init, ServerInit, BlockInv, MemorySafe, Zeroed
<1>2. TypeInv /\ RoomInv /\ BlockInv /\ MemorySafe /\ [Next]_vars
        => (BlockInv /\ MemorySafe)'
  <2>. SUFFICES ASSUME TypeInv, RoomInv, BlockInv, MemorySafe, [Next]_vars
                PROVE  BlockInv' /\ MemorySafe'
    OBVIOUS
  <2>1. CASE UNCHANGED <<st, main, fault>>
    BY <2>1 DEF BlockInv, MemorySafe
  <2>2. CASE ServerHandler
    BY <2>2, HandlerBlock
  <2>3. CASE ServerMain
    <3>1. fault' = fault
      BY <2>3 DEF ServerMain, Boot, StartMonitoring, OwnerLeft, OwnerActive, OwnerIdle,
                  HandleTimeout, CleanMessage, ResetState, CleanStep, Advance
    <3>. QED  BY <2>3, <3>1, MainBlock DEF MemorySafe
  <2>4. CASE ServerCrash \/ MallocFails
    BY <2>1, <2>4 DEF ServerCrash, MallocFails, MemoryExhausted, FromOwner, Enter
  <2>5. ASSUME NEW c \in Clients,
               Arrive(c) \/ ClientMain(c) \/ ClientHandler(c) \/ ClientCrash(c)
        PROVE  UNCHANGED <<st, main, fault>>
    BY <2>5 DEF Arrive, ClientMain, ClientHandler, ClientCrash, serverVars
  <2>. QED  BY <2>1, <2>2, <2>3, <2>4, <2>5 DEF Next, vars, serverVars
<1>. QED  BY <1>1, <1>2, CursorCorrect, RoomCorrect, PTL DEF Spec

(* The handler never uses a freed or null block: it needs clean_global to  *)
(* be left alone, and nothing else; crashes, early timers and lack of      *)
(* memory do no harm.                                                      *)
THEOREM MemorySafeUnlessPreempted ==
    ASSUME "preempt" \notin Faults
    PROVE  Spec => []MemorySafe
BY BlockCorrect, PTL

(***************************************************************************)
(* Sessions start clean                                                    *)
(***************************************************************************)
(* What the handler works on is clear where it must be.                    *)
LEMMA InstanceReset ==
    ASSUME ResetInv, initialized' = TRUE, main' = main, st' = Instance
    PROVE  ResetInv'
<1>1. CASE initialized
  BY <1>1 DEF Instance, ResetInv
<1>2. CASE ~initialized
  BY <1>2 DEF Instance, ResetInv, FreshState, Zeroed, NullBuffer
<1>. QED  BY <1>1, <1>2

(* A state with an owner, or a fresh one, is clear enough at every point.  *)
LEMMA OwnedOrFresh ==
    ASSUME st'.actual_pid # NoOne \/ st' = FreshState
    PROVE  ResetInv'
BY DEF ResetInv, FreshState, Zeroed, NullBuffer

(* The handler leaves an owner, or a fresh state.                          *)
LEMMA HandlerReset ==
    ASSUME TypeInv, ResetInv, ServerHandler
    PROVE  ResetInv'
<1>1. CASE SendAck
  BY <1>1 DEF SendAck, ResetInv
<1>2. ASSUME NEW m \in pending[Server], HandleSignal(m)
      PROVE  ResetInv'
  <2>. DEFINE I == Instance
              A == Active(m)
              bit == BitValue(m.sig)
  <2>1. /\ Sender(m) # NoOne
        /\ bit \in 0..1
        /\ A \in ClientState
        /\ A.actual_pid = I.actual_pid
    BY EnterType, ProcessAssumption DEF Procs
  <2>2. FromOwner(m) => I.actual_pid # NoOne /\ initialized
    BY <2>1 DEF FromOwner, Instance, FreshState, Zeroed
  <2>3. CASE KilledBySignal(m)
    BY <2>3 DEF KilledBySignal, serverVars, ResetInv
  <2>4. CASE IgnoreOwnSignal(m) \/ RejectBusy(m)
    BY <2>4, InstanceReset DEF IgnoreOwnSignal, RejectBusy, Enter
  <2>5. CASE AcceptClient(m)
    <3>1. st'.actual_pid = Sender(m)
      BY <2>5 DEF AcceptClient, Pong, Zeroed
    <3>. QED  BY <2>1, <3>1, OwnedOrFresh
  <2>6. CASE ReceiveHeaderBit(m)
    <3>. DEFINE h == HeaderBit(A, bit)
    <3>1. st' = A \/ st' = HandleHeader(A, bit)
      BY <2>6 DEF ReceiveHeaderBit
    <3>2. h \in ClientState /\ h.actual_pid = A.actual_pid
      BY <2>1, HeaderBitType
    <3>3. \/ HandleHeader(A, bit) = h
          \/ HandleHeader(A, bit) = Reserved(h)
          \/ HandleHeader(A, bit) = FreshState
      BY <2>1, HandleHeaderCases
    <3>4. A.actual_pid # NoOne
      BY <2>1, <2>2, <2>6 DEF ReceiveHeaderBit
    <3>. HIDE DEF A, bit, h
    <3>5. Reserved(h).actual_pid = h.actual_pid
      BY <3>2 DEF Reserved, ClientState
    <3>6. st'.actual_pid # NoOne \/ st' = FreshState
      BY <3>1, <3>2, <3>3, <3>4, <3>5
    <3>. QED  BY <3>6, OwnedOrFresh
  <2>7. CASE ReceiveMessageBit(m)
    <3>1. WriteFault(A, bit) = "none" /\ st' = HandleMsg(A, bit)
      BY <2>7 DEF ReceiveMessageBit
    <3>2. A.message.ptr = "live" => A.msg_pos <= Len(A.message.text)
      BY InstanceType, EnterType
    <3>3. A.actual_pid # NoOne
      BY <2>1, <2>2, <2>7 DEF ReceiveMessageBit
    <3>. HIDE DEF A, bit
    <3>4. st'.actual_pid # NoOne
      BY <2>1, <3>1, <3>2, <3>3, HandleMsgType
    <3>. QED  BY <3>4, OwnedOrFresh
  <2>8. CASE CompleteMessage(m)
    BY <2>8, OwnedOrFresh DEF CompleteMessage
  <2>9. CASE CorruptMemory(m)
    BY <2>2, <2>9 DEF CorruptMemory, FromOwner, Enter, ResetInv
  <2>. QED  BY <1>2, <2>3, <2>4, <2>5, <2>6, <2>7, <2>8, <2>9 DEF HandleSignal
<1>. QED  BY <1>1, <1>2 DEF ServerHandler

(* clean_global clears one group of fields after another.                  *)
LEMMA MainReset ==
    ASSUME TypeInv, ResetInv, ServerMain
    PROVE  ResetInv'
<1>1. st \in ClientState
  BY DEF TypeInv, TypeOK, ServerTypeOK
<1>2. CASE Boot
  <2>1. CASE st' = st /\ initialized' = initialized
    BY <1>2, <2>1 DEF Boot, Advance, ResetInv, Cleaning
  <2>2. CASE st' = FreshState
    BY <2>2, OwnedOrFresh
  <2>. QED  BY <1>2, <2>1, <2>2 DEF Boot
<1>3. CASE StartMonitoring \/ OwnerLeft \/ OwnerActive \/ OwnerIdle \/ HandleTimeout
  <2>1. /\ initialized' = initialized
        /\ main \in {"poll", "monitor", "expired"}
        /\ \/ st' = st
           \/ st' = [st EXCEPT !.client_activity = 0] /\ st.actual_pid # NoOne
    BY <1>3 DEF StartMonitoring, OwnerLeft, OwnerActive, OwnerIdle, HandleTimeout, Advance
  <2>2. CASE st.actual_pid # NoOne
    <3>1. st'.actual_pid # NoOne
      BY <1>1, <2>1, <2>2 DEF ClientState
    <3>. QED  BY <3>1, OwnedOrFresh
  <2>3. CASE st.actual_pid = NoOne
    <3>1. initialized => st = FreshState
      BY <2>1, <2>3 DEF ResetInv, Cleaning
    <3>2. CASE initialized
      BY <2>1, <2>3, <3>1, <3>2, OwnedOrFresh
    <3>3. CASE ~initialized
      BY <2>1, <3>3 DEF ResetInv
    <3>. QED  BY <3>2, <3>3
  <2>. QED  BY <2>2, <2>3
<1>4. CASE CleanMessage
  <2>1. /\ initialized' = initialized
        /\ main \in Cleaning /\ main' \in Cleaning
        /\ main' \notin {"zero_mode", "zero_counts", "zero_msg", "set_header", "set_free"}
        /\ \/ st' = st
           \/ st' = [st EXCEPT !.client_activity = 0]
           \/ st' = [st EXCEPT !.message.ptr = "freed"]
           \/ st' = [st EXCEPT !.message = NullBuffer]
    BY <1>4 DEF CleanMessage, CleanStep, Advance, Cleaning
  <2>2. st'.actual_pid = st.actual_pid /\ st'.client_pid = st.client_pid
    BY <1>1, <2>1 DEF ClientState
  <2>. QED  BY <2>1, <2>2 DEF ResetInv
<1>5. CASE ResetState
  <2>1. /\ initialized' = initialized
        /\ main \in Cleaning
    BY <1>5 DEF ResetState, CleanStep, Advance, Cleaning
  <2>2. ASSUME CleanStep("zero_pids", "zero_mode",
                         [st EXCEPT !.actual_pid = NoOne, !.client_pid = NoOne])
        PROVE  ResetInv'
    BY <1>1, <2>1, <2>2 DEF CleanStep, Advance, ResetInv, ClientState, Cleaning
  <2>3. ASSUME CleanStep("zero_mode", "zero_counts",
                         [st EXCEPT !.getting_header = 0, !.getting_msg = 0])
        PROVE  ResetInv'
    BY <1>1, <2>1, <2>3 DEF CleanStep, Advance, ResetInv, ClientState, Cleaning
  <2>4. ASSUME CleanStep("zero_counts", "zero_msg",
                         [st EXCEPT !.sig_count = 0, !.char_value = 0, !.msg_pos = 0,
                            !.client_activity = 0, !.transmission_active = 0])
        PROVE  ResetInv'
    BY <1>1, <2>1, <2>4 DEF CleanStep, Advance, ResetInv, ClientState, Cleaning
  <2>5. ASSUME CleanStep("zero_msg", "set_header",
                         [st EXCEPT !.message = NullBuffer, !.size_message = 0])
        PROVE  ResetInv'
    BY <1>1, <2>1, <2>5 DEF CleanStep, Advance, ResetInv, ClientState, Cleaning
  <2>6. ASSUME CleanStep("set_header", "set_free", [st EXCEPT !.getting_header = 1])
        PROVE  ResetInv'
    BY <1>1, <2>1, <2>6 DEF CleanStep, Advance, ResetInv, ClientState, Cleaning
  <2>7. ASSUME CleanStep("set_free", "poll",
                         [st EXCEPT !.size_message = 0, !.transmission_active = 0])
        PROVE  ResetInv'
    <3>1. /\ main = "set_free"
          /\ st' = [st EXCEPT !.size_message = 0, !.transmission_active = 0]
      BY <2>7 DEF CleanStep, Advance
    <3>2. CASE initialized /\ st.actual_pid = NoOne
      <4>1. /\ st.client_pid = NoOne /\ st.getting_header = 1 /\ st.getting_msg = 0
            /\ st.sig_count = 0 /\ st.char_value = 0 /\ st.msg_pos = 0
            /\ st.client_activity = 0 /\ st.message = NullBuffer
        BY <3>1, <3>2 DEF ResetInv
      <4>2. /\ st' \in ClientState
            /\ st'.actual_pid = NoOne /\ st'.client_pid = NoOne
            /\ st'.getting_header = 1 /\ st'.getting_msg = 0
            /\ st'.sig_count = 0 /\ st'.char_value = 0 /\ st'.msg_pos = 0
            /\ st'.client_activity = 0 /\ st'.transmission_active = 0
            /\ st'.message = NullBuffer /\ st'.size_message = 0
        BY <1>1, <3>1, <3>2, <4>1, Flags DEF ClientState
      <4>3. /\ FreshState \in ClientState
            /\ FreshState.actual_pid = NoOne /\ FreshState.client_pid = NoOne
            /\ FreshState.getting_header = 1 /\ FreshState.getting_msg = 0
            /\ FreshState.sig_count = 0 /\ FreshState.char_value = 0
            /\ FreshState.msg_pos = 0 /\ FreshState.client_activity = 0
            /\ FreshState.transmission_active = 0
            /\ FreshState.message = NullBuffer /\ FreshState.size_message = 0
        BY StartStates DEF FreshState, Zeroed
      <4>4. st' = FreshState
        BY <4>2, <4>3 DEF ClientState
      <4>. QED  BY <4>4, OwnedOrFresh
    <3>3. CASE ~initialized
      BY <2>1, <3>3 DEF ResetInv
    <3>4. CASE st.actual_pid # NoOne
      <4>1. st'.actual_pid # NoOne
        BY <1>1, <3>1, <3>4 DEF ClientState
      <4>. QED  BY <4>1, OwnedOrFresh
    <3>. QED  BY <3>2, <3>3, <3>4
  <2>. QED  BY <1>5, <2>2, <2>3, <2>4, <2>5, <2>6, <2>7 DEF ResetState
<1>. QED  BY <1>2, <1>3, <1>4, <1>5 DEF ServerMain

(* What clean_global and the handler clear between them is clear.          *)
THEOREM ResetCorrect == Spec => []ResetInv
<1>1. Init => ResetInv
  BY DEF Init, ServerInit, ResetInv
<1>2. TypeInv /\ ResetInv /\ [Next]_vars => ResetInv'
  <2>. SUFFICES ASSUME TypeInv, ResetInv, [Next]_vars
                PROVE  ResetInv'
    OBVIOUS
  <2>1. CASE UNCHANGED <<st, main, initialized>>
    BY <2>1 DEF ResetInv
  <2>2. CASE ServerHandler
    BY <2>2, HandlerReset
  <2>3. CASE ServerMain
    BY <2>3, MainReset
  <2>4. CASE ServerCrash
    BY <2>1, <2>4 DEF ServerCrash
  <2>5. CASE MallocFails
    <3>1. PICK m \in pending[Server] : MemoryExhausted(m)
      BY <2>5 DEF MallocFails
    <3>2. Sender(m) # NoOne
      BY EnterType, ProcessAssumption DEF Procs
    <3>3. initialized = TRUE
      BY <3>1, <3>2 DEF MemoryExhausted, FromOwner, Instance, FreshState, Zeroed,
                        TypeInv, TypeOK, ServerTypeOK
    <3>. QED  BY <2>1, <3>1, <3>3 DEF MemoryExhausted, FromOwner, Enter
  <2>6. ASSUME NEW c \in Clients,
               Arrive(c) \/ ClientMain(c) \/ ClientHandler(c) \/ ClientCrash(c)
        PROVE  UNCHANGED <<st, main, initialized>>
    BY <2>6 DEF Arrive, ClientMain, ClientHandler, ClientCrash, serverVars
  <2>. QED  BY <2>1, <2>2, <2>3, <2>4, <2>5, <2>6 DEF Next, vars, serverVars
<1>. QED  BY <1>1, <1>2, CursorCorrect, PTL DEF Spec

(* Every session starts from a clean slate, even one that begins while     *)
(* clean_global is interrupted again and again (reset_client_state).       *)
THEOREM NoResidueEver == Spec => []NoResidue
<1>1. ResetInv => NoResidue
  BY DEF ResetInv, NoResidue
<1>. QED  BY <1>1, ResetCorrect, PTL

=============================================================================
