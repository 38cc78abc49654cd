--------------------------- MODULE SessionProofs ---------------------------
(***************************************************************************)
(* Theorems about the protocol as a whole, for every set of clients, every *)
(* message and every size: what the server decodes, bit by bit, is what a  *)
(* client encodes; SessionInv is inductive; and what follows from it:      *)
(* LockStep, OneTransmitter, ShownAsSent, SuccessIsTrue, FailureIsTrue,    *)
(* and that the programs implement Delivery.                               *)
(***************************************************************************)
EXTENDS Sessions, MinitalkProofs

(***************************************************************************)
(* Division                                                                *)
(***************************************************************************)
(* Division with remainder.                                                *)
LEMMA DivMod ==
    ASSUME NEW v \in Nat, NEW p \in Nat \ {0}
    PROVE  v \div p \in Nat /\ v % p \in 0..(p - 1) /\ v = p * (v \div p) + (v % p)
OBVIOUS

(* There is one way only to divide with remainder.                         *)
LEMMA DivUnique ==
    ASSUME NEW v \in Nat, NEW p \in Nat \ {0}, NEW q \in Int, NEW r \in Int,
           0 <= r, r < p, v = p * q + r
    PROVE  v \div p = q /\ v % p = r
<1>. DEFINE q2 == v \div p
            r2 == v % p
<1>1. v = p * q2 + r2 /\ q2 \in Nat /\ r2 \in Nat /\ r2 < p
  BY DivMod
<1>2. p * (q - q2) = r2 - r
  BY <1>1
<1>3. q = q2
  <2>1. CASE q - q2 >= 1
    <3>1. p * (q - q2) >= p
      BY <2>1, <1>1
    <3>. QED  BY <3>1, <1>2, <1>1
  <2>2. CASE q - q2 <= -1
    <3>1. p * (q - q2) <= -p
      BY <2>2, <1>1
    <3>. QED  BY <3>1, <1>2, <1>1
  <2>. QED  BY <2>1, <2>2, <1>1
<1>. QED  BY <1>1, <1>2, <1>3

(* The multiples of p and of 2p just below v differ by one bit of v.       *)
LEMMA Half ==
    ASSUME NEW v \in Nat, NEW p \in Nat \ {0}
    PROVE  (v \div p) * p = (v \div (2 * p)) * (2 * p) + ((v \div p) % 2) * p
<1>. DEFINE q == v \div p
            b == q % 2
            h == q \div 2
            r == v % p
<1>1. v = p * q + r /\ q \in Nat /\ r \in Nat /\ r < p
  BY DivMod
<1>2. q = 2 * h + b /\ h \in Nat /\ b \in 0..1
  BY <1>1
<1>. HIDE DEF q, b, h, r
<1>3. v = (2 * p) * h + (b * p + r)
  BY <1>1, <1>2
<1>4. 0 <= b * p + r /\ b * p + r < 2 * p
  BY <1>1, <1>2
<1>5. v \div (2 * p) = h
  BY <1>3, <1>4, <1>1, <1>2, DivUnique
<1>6. q * p = h * (2 * p) + b * p
  BY <1>2
<1>. QED  BY <1>5, <1>6 DEF q, b

(* Counting on by one moves the remainder, or the quotient at its end.     *)
LEMMA ModStep ==
    ASSUME NEW n \in Nat, NEW p \in Nat \ {0}
    PROVE  /\ (n % p) + 1 < p =>
                (n + 1) % p = (n % p) + 1 /\ (n + 1) \div p = n \div p
           /\ (n % p) + 1 = p =>
                (n + 1) % p = 0 /\ (n + 1) \div p = (n \div p) + 1
           /\ (n % p) + 1 <= p
<1>. DEFINE q == n \div p
            r == n % p
<1>1. q \in Nat /\ r \in 0..(p - 1) /\ n = p * q + r
  BY DivMod
<1>. HIDE DEF q, r
<1>2. ASSUME r + 1 < p
      PROVE  (n + 1) % p = r + 1 /\ (n + 1) \div p = q
  <2>1. n + 1 = p * q + (r + 1)
    BY <1>1
  <2>. QED  BY <1>1, <1>2, <2>1, DivUnique
<1>3. ASSUME r + 1 = p
      PROVE  (n + 1) % p = 0 /\ (n + 1) \div p = q + 1
  <2>1. n + 1 = p * (q + 1) + 0
    BY <1>1, <1>3
  <2>. QED  BY <1>1, <2>1, DivUnique
<1>. QED  BY <1>1, <1>2, <1>3 DEF q, r

(***************************************************************************)
(* Bits                                                                    *)
(***************************************************************************)
(* The powers are positive and double, up to the widest field.             *)
LEMMA Powers ==
    ASSUME NEW n \in 0..(HEADER_SIZE + CHAR_SIZE)
    PROVE  2^n \in Nat \ {0} /\ 2^(n + 1) = 2 * 2^n /\ 2^(n + 1) \in Nat \ {0}
<1>1. 2^n \in Nat \ {0}
  BY PowerAssumption
<1>2. 2^(n + 1) = 2 * 2^n
  BY DoublingAssumption
<1>. QED  BY <1>1, <1>2

(* A bit is 0 or 1, and travels as the signal get_bit_value reads back.    *)
LEMMA BitTravels ==
    ASSUME NEW v \in Nat, NEW n \in 0..(HEADER_SIZE + CHAR_SIZE)
    PROVE  Bit(v, n) \in 0..1 /\ BitValue(SignalOf(Bit(v, n))) = Bit(v, n)
<1>1. 2^n \in Nat \ {0}
  BY PowerAssumption
<1>2. v \div 2^n \in Nat
  BY <1>1, DivMod
<1>3. Bit(v, n) \in 0..1
  BY <1>2 DEF Bit
<1>. QED  BY <1>3 DEF BitValue, SignalOf

(* One more bit of v.                                                      *)
LEMMA UpperStep ==
    ASSUME NEW v \in Nat, NEW n \in 0..(HEADER_SIZE + CHAR_SIZE)
    PROVE  Upper(v, n) = Upper(v, n + 1) + Bit(v, n) * 2^n
BY Powers, Half DEF Upper, Bit

(* All bits of v, and none.                                                *)
LEMMA UpperEnds ==
    ASSUME NEW v \in Nat, NEW n \in 0..(HEADER_SIZE + CHAR_SIZE)
    PROVE  /\ Upper(v, n) \in Nat
           /\ Upper(v, 0) = v
           /\ v < 2^n => Upper(v, n) = 0
<1>1. 2^n \in Nat \ {0} /\ 2^0 = 1
  BY Powers, DoublingAssumption
<1>2. v \div 2^n \in Nat
  BY <1>1, DivMod
<1>3. ASSUME v < 2^n  PROVE v \div 2^n = 0
  <2>1. v = 2^n * 0 + v
    BY <1>1
  <2>. QED  BY <1>1, <1>3, <2>1, DivUnique
<1>. QED  BY <1>1, <1>2, <1>3 DEF Upper

(***************************************************************************)
(* The header                                                              *)
(***************************************************************************)
(* The length's next bit brings size_message one bit further.              *)
LEMMA HeaderStep ==
    ASSUME NEW s \in ClientState, NEW len \in Nat, len < 2^HEADER_SIZE,
           s.sig_count < HEADER_SIZE,
           s.sig_count > 0 => s.size_message = SizeAfter(len, s.sig_count)
    PROVE  LET h == HeaderBit(s, Bit(len, HEADER_SIZE - (s.sig_count + 1)))
           IN  /\ h.sig_count = s.sig_count + 1
               /\ h.size_message = SizeAfter(len, s.sig_count + 1)
<1>. DEFINE i == s.sig_count
            n == HEADER_SIZE - (i + 1)
            bit == Bit(len, n)
            size == IF i = 0 THEN 0 ELSE s.size_message
            new == IF bit = 1 THEN size + Weight(HEADER_SIZE - 1 - i) ELSE size
            sign == IF len >= 2^(HEADER_SIZE - 1) THEN 2^HEADER_SIZE ELSE 0
<1>1. i \in Nat /\ i < HEADER_SIZE /\ n \in 0..(HEADER_SIZE + CHAR_SIZE)
      /\ n = HEADER_SIZE - 1 - i /\ n + 1 = HEADER_SIZE - i
      /\ s.size_message \in Int
  BY SizeAssumption DEF ClientState
<1>2. HeaderBit(s, bit) = [s EXCEPT !.size_message = new, !.sig_count = i + 1]
  BY DEF HeaderBit
<1>3. /\ HeaderBit(s, bit).sig_count = i + 1
      /\ HeaderBit(s, bit).size_message = new
  <2>. HIDE DEF new
  <2>. QED  BY <1>2 DEF ClientState
<1>4. bit \in 0..1 /\ 2^n \in Nat /\ Upper(len, n) = Upper(len, n + 1) + bit * 2^n
  BY <1>1, BitTravels, UpperStep, Powers
<1>5. new = Upper(len, n) - sign
  <2>1. CASE i = 0
    <3>1. n = HEADER_SIZE - 1 /\ n + 1 = HEADER_SIZE
      BY <2>1, <1>1, SizeAssumption
    <3>2. 2^HEADER_SIZE = 2 * 2^n
      BY <1>1, <3>1, Powers
    <3>3. HEADER_SIZE \in 0..(HEADER_SIZE + CHAR_SIZE) /\ Upper(len, HEADER_SIZE) = 0
      BY UpperEnds, SizeAssumption
    <3>4. Upper(len, n) = bit * 2^n
      BY <1>4, <3>1, <3>3
    <3>5. bit = 1 <=> len >= 2^n
      <4>1. /\ len \div 2^n \in Nat /\ len % 2^n \in 0..(2^n - 1)
            /\ len = 2^n * (len \div 2^n) + (len % 2^n)
        BY <1>1, Powers, DivMod
      <4>2. Upper(len, n) = 2^n * (len \div 2^n)
        BY <1>4, <4>1 DEF Upper
      <4>3. len = bit * 2^n + (len % 2^n)
        BY <1>4, <3>4, <4>1, <4>2
      <4>. HIDE DEF bit, n
      <4>4. CASE bit = 0
        BY <1>4, <4>1, <4>3, <4>4
      <4>5. CASE bit = 1
        BY <1>4, <4>1, <4>3, <4>5
      <4>. QED  BY <1>4, <4>4, <4>5
    <3>6. new = IF bit = 1 THEN -(2^n) ELSE 0
      BY <2>1, <1>1, <1>4, <3>1 DEF Weight
    <3>7. sign = IF bit = 1 THEN 2 * 2^n ELSE 0
      BY <3>1, <3>2, <3>5
    <3>. HIDE DEF new, sign, bit, n
    <3>. QED  BY <1>4, <3>4, <3>6, <3>7
  <2>2. CASE i > 0
    <3>1. size = Upper(len, n + 1) - sign
      BY <2>2, <1>1 DEF SizeAfter
    <3>2. Weight(HEADER_SIZE - 1 - i) = 2^n
      BY <2>2, <1>1 DEF Weight
    <3>3. new = IF bit = 1 THEN size + 2^n ELSE size
      BY <3>2
    <3>4. sign \in Int /\ Upper(len, n + 1) \in Int
      BY <1>1, Powers, UpperEnds, SizeAssumption, SMTT(30)
    <3>. HIDE DEF new, sign, bit, n, size
    <3>. QED  BY <1>4, <3>1, <3>3, <3>4
  <2>. QED  BY <1>1, <2>1, <2>2
<1>6. new = SizeAfter(len, i + 1)
  BY <1>5 DEF SizeAfter
<1>. QED  BY <1>3, <1>6

(* At the last bit the server accepts the size if the length is acceptable *)
(* and then it is the length.                                              *)
LEMMA SizeDone ==
    ASSUME NEW len \in Nat, len < 2^HEADER_SIZE
    PROVE  /\ ValidSize(SizeAfter(len, HEADER_SIZE)) <=> ValidSize(len)
           /\ ValidSize(len) => SizeAfter(len, HEADER_SIZE) = len
<1>1. Upper(len, 0) = len /\ HEADER_SIZE - HEADER_SIZE = 0
  BY UpperEnds, SizeAssumption
<1>2. HEADER_SIZE - 1 \in 0..(HEADER_SIZE + CHAR_SIZE)
      /\ HEADER_SIZE \in 0..(HEADER_SIZE + CHAR_SIZE)
  BY SizeAssumption
<1>3. 2^(HEADER_SIZE - 1) \in Nat /\ 2^HEADER_SIZE \in Nat
  BY <1>2, PowerAssumption
<1>4. MAX_SIZE < 2^(HEADER_SIZE - 1) /\ MAX_SIZE \in Nat
  BY WidthAssumption, LimitAssumption
<1>. QED  BY <1>1, <1>3, <1>4 DEF SizeAfter, ValidSize

(* What handle_header makes of the length's next bit.                      *)
LEMMA HeaderResult ==
    ASSUME NEW s \in ClientState, NEW len \in Nat, len < 2^HEADER_SIZE,
           s.sig_count < HEADER_SIZE,
           s.sig_count > 0 => s.size_message = SizeAfter(len, s.sig_count),
           NEW new, new = HandleHeader(s, Bit(len, HEADER_SIZE - (s.sig_count + 1)))
    PROVE  /\ new \in ClientState
           /\ \/ /\ s.sig_count + 1 < HEADER_SIZE
                 /\ new.actual_pid = s.actual_pid /\ new.client_pid = s.client_pid
                 /\ new.getting_header = s.getting_header
                 /\ new.getting_msg = s.getting_msg
                 /\ new.msg_pos = s.msg_pos
                 /\ new.sig_count = s.sig_count + 1
                 /\ new.size_message = SizeAfter(len, s.sig_count + 1)
              \/ /\ s.sig_count + 1 = HEADER_SIZE /\ ValidSize(len)
                 /\ new.actual_pid = s.actual_pid /\ new.client_pid = s.client_pid
                 /\ new.getting_header = 0 /\ new.getting_msg = 1
                 /\ new.msg_pos = s.msg_pos
                 /\ new.sig_count = 0
                 /\ new.size_message = len
                 /\ new.message.text = <<>>
              \/ /\ s.sig_count + 1 = HEADER_SIZE /\ ~ValidSize(len)
                 /\ new = FreshState
<1>. DEFINE bit == Bit(len, HEADER_SIZE - (s.sig_count + 1))
            h == HeaderBit(s, bit)
<1>1. s.sig_count \in Nat
      /\ HEADER_SIZE - (s.sig_count + 1) \in 0..(HEADER_SIZE + CHAR_SIZE)
  BY SizeAssumption DEF ClientState
<1>2. bit \in 0..1
  BY <1>1, BitTravels
<1>3. new \in ClientState
  BY <1>2, HandleHeaderCases
<1>4. /\ h.sig_count = s.sig_count + 1
      /\ h.size_message = SizeAfter(len, s.sig_count + 1)
  BY HeaderStep
<1>5. /\ h \in ClientState
      /\ h.msg_pos = s.msg_pos
      /\ h.actual_pid = s.actual_pid
      /\ h.getting_msg = s.getting_msg
      /\ h.getting_header = s.getting_header
  BY <1>2, HeaderBitType
<1>6. h.client_pid = s.client_pid
  <2>. DEFINE size == IF s.sig_count = 0 THEN 0 ELSE s.size_message
              total == IF bit = 1 THEN size + Weight(HEADER_SIZE - 1 - s.sig_count)
                       ELSE size
  <2>1. h = [s EXCEPT !.size_message = total, !.sig_count = s.sig_count + 1]
    BY DEF HeaderBit
  <2>. HIDE DEF h, total
  <2>. QED  BY <2>1 DEF ClientState
<1>7. new = IF h.sig_count # HEADER_SIZE THEN h
            ELSE IF ValidSize(h.size_message) THEN Reserved(h)
            ELSE FreshState
  BY DEF HandleHeader
<1>. HIDE DEF h, bit
<1>8. CASE s.sig_count + 1 # HEADER_SIZE
  BY <1>1, <1>3, <1>4, <1>5, <1>6, <1>7, <1>8, SizeAssumption
<1>9. CASE s.sig_count + 1 = HEADER_SIZE
  <2>1. h.size_message = SizeAfter(len, HEADER_SIZE)
    BY <1>4, <1>9
  <2>2. CASE ValidSize(len)
    <3>1. h.size_message = len /\ new = Reserved(h)
      BY <1>4, <1>7, <1>9, <2>1, <2>2, SizeDone
    <3>. DEFINE block == [ptr |-> "live", capacity |-> h.size_message + 1, text |-> <<>>]
    <3>2. block.text = <<>>
      OBVIOUS
    <3>3. new = [h EXCEPT !.message = block, !.getting_header = 0,
                          !.getting_msg = 1, !.sig_count = 0]
      BY <3>1 DEF Reserved
    <3>. HIDE DEF block
    <3>4. /\ new.actual_pid = h.actual_pid /\ new.client_pid = h.client_pid
          /\ new.getting_header = 0 /\ new.getting_msg = 1
          /\ new.msg_pos = h.msg_pos /\ new.sig_count = 0
          /\ new.size_message = h.size_message /\ new.message = block
      BY <1>5, <3>3 DEF ClientState
    <3>. QED  BY <1>3, <1>5, <1>6, <1>9, <2>2, <3>1, <3>2, <3>4
  <2>3. CASE ~ValidSize(len)
    BY <1>3, <1>4, <1>7, <1>9, <2>1, <2>3, SizeDone
  <2>. QED  BY <2>2, <2>3
<1>. QED  BY <1>8, <1>9

(***************************************************************************)
(* The text                                                                *)
(***************************************************************************)
(* A character's next bit brings char_value one bit further.               *)
LEMMA CharStep ==
    ASSUME NEW s \in ClientState, NEW v \in Nat, v < 2^CHAR_SIZE,
           s.sig_count % CHAR_SIZE > 0 =>
               s.char_value = Upper(v, CHAR_SIZE - (s.sig_count % CHAR_SIZE)),
           NEW b, b = CharBit(s, Bit(v, CHAR_SIZE - 1 - (s.sig_count % CHAR_SIZE)))
    PROVE  /\ b.sig_count = s.sig_count + 1
           /\ b.client_pid = s.client_pid
           /\ b.char_value = Upper(v, CHAR_SIZE - ((s.sig_count % CHAR_SIZE) + 1))
           /\ CharComplete(b) <=> (s.sig_count % CHAR_SIZE) + 1 = CHAR_SIZE
           /\ CharComplete(b) => b.char_value = v
<1>. DEFINE r == s.sig_count % CHAR_SIZE
            n == CHAR_SIZE - 1 - r
            bit == Bit(v, n)
            value == IF r = 0 THEN 0 ELSE s.char_value
            new == IF bit = 1 THEN value + 2^n ELSE value
<1>1. s.sig_count \in Nat /\ CHAR_SIZE \in Nat \ {0} /\ s.char_value \in Nat
  BY SizeAssumption DEF ClientState
<1>2. r \in 0..(CHAR_SIZE - 1)
  BY <1>1, DivMod
<1>3. n \in 0..(HEADER_SIZE + CHAR_SIZE) /\ n + 1 = CHAR_SIZE - r
      /\ n = CHAR_SIZE - (r + 1)
  <2>. HIDE DEF r
  <2>. QED  BY <1>1, <1>2, SizeAssumption
<1>4. b = [s EXCEPT !.char_value = new, !.sig_count = s.sig_count + 1]
  BY DEF CharBit
<1>5. b.sig_count = s.sig_count + 1 /\ b.char_value = new /\ b.client_pid = s.client_pid
  <2>. HIDE DEF new
  <2>. QED  BY <1>4 DEF ClientState
<1>6. bit \in 0..1 /\ 2^n \in Nat /\ Upper(v, n) = Upper(v, n + 1) + bit * 2^n
  BY <1>3, BitTravels, UpperStep, Powers
<1>7. CHAR_SIZE \in 0..(HEADER_SIZE + CHAR_SIZE) /\ Upper(v, CHAR_SIZE) = 0
  BY UpperEnds, SizeAssumption
<1>8. value = Upper(v, n + 1) /\ value \in Nat
  <2>1. CASE r = 0
    BY <1>1, <1>3, <1>7, <2>1
  <2>2. CASE r # 0
    BY <1>1, <1>2, <1>3, <2>2
  <2>. QED  BY <2>1, <2>2
<1>9. new = Upper(v, n)
  <2>1. new = IF bit = 1 THEN value + 2^n ELSE value
    OBVIOUS
  <2>. HIDE DEF new, bit, value, n
  <2>. QED  BY <1>6, <1>8, <2>1
<1>10. CharComplete(b) <=> r + 1 = CHAR_SIZE
  <2>1. CharComplete(b) <=> (s.sig_count + 1) % CHAR_SIZE = 0
    BY <1>5 DEF CharComplete
  <2>2. /\ r + 1 < CHAR_SIZE => (s.sig_count + 1) % CHAR_SIZE = r + 1
        /\ r + 1 = CHAR_SIZE => (s.sig_count + 1) % CHAR_SIZE = 0
        /\ r + 1 <= CHAR_SIZE
    BY <1>1, ModStep
  <2>. HIDE DEF r
  <2>. QED  BY <1>1, <1>2, <2>1, <2>2
<1>11. Upper(v, 0) = v
  BY <1>3, UpperEnds
<1>12. CharComplete(b) => n = 0
  <2>. HIDE DEF r
  <2>. QED  BY <1>1, <1>2, <1>3, <1>10
<1>. QED  BY <1>3, <1>5, <1>9, <1>10, <1>11, <1>12

(* The bits of a text that have come, and its next one.                    *)
LEMMA TextPosition ==
    ASSUME NEW n \in Nat, NEW length \in Nat, n \div CHAR_SIZE < length
    PROVE  /\ (n % CHAR_SIZE) + 1 < CHAR_SIZE =>
                 /\ (n + 1) \div CHAR_SIZE = n \div CHAR_SIZE
                 /\ (n + 1) % CHAR_SIZE = (n % CHAR_SIZE) + 1
                 /\ n + 1 < CHAR_SIZE * length
           /\ (n % CHAR_SIZE) + 1 = CHAR_SIZE =>
                 /\ (n + 1) \div CHAR_SIZE = (n \div CHAR_SIZE) + 1
                 /\ (n + 1) % CHAR_SIZE = 0
                 /\ (n \div CHAR_SIZE) + 1 < length => n + 1 < CHAR_SIZE * length
                 /\ (n \div CHAR_SIZE) + 1 = length => n + 1 = CHAR_SIZE * length
           /\ (n % CHAR_SIZE) + 1 <= CHAR_SIZE
<1>. DEFINE q == n \div CHAR_SIZE
            r == n % CHAR_SIZE
<1>1. q \in Nat /\ r \in 0..(CHAR_SIZE - 1) /\ n = CHAR_SIZE * q + r
  BY DivMod, SizeAssumption
<1>2. CHAR_SIZE \in Nat \ {0}
  BY SizeAssumption
<1>3. n + 1 = CHAR_SIZE * q + (r + 1)
  <2>. HIDE DEF q, r
  <2>. QED  BY <1>1, <1>2
<1>4. CHAR_SIZE * (q + 1) = CHAR_SIZE * q + CHAR_SIZE
  <2>. HIDE DEF q
  <2>. QED  BY <1>1, <1>2
<1>5. CHAR_SIZE * (q + 1) <= CHAR_SIZE * length
  <2>. HIDE DEF q
  <2>1. q + 1 <= length
    BY <1>1 DEF q
  <2>2. PICK k \in Nat : length = q + 1 + k
    <3>1. length - (q + 1) \in Nat /\ length = q + 1 + (length - (q + 1))
      BY <1>1, <2>1
    <3>. QED  BY <3>1
  <2>3. CHAR_SIZE * length = CHAR_SIZE * (q + 1) + CHAR_SIZE * k
    BY <1>1, <1>2, <2>2
  <2>4. CHAR_SIZE * k \in Nat
    BY <1>2
  <2>. QED  BY <1>1, <1>2, <2>3, <2>4
<1>6. ASSUME q + 1 < length
      PROVE  CHAR_SIZE * (q + 1) < CHAR_SIZE * length
  <2>. HIDE DEF q
  <2>1. length - (q + 1) >= 1
    BY <1>1, <1>6
  <2>2. CHAR_SIZE * (length - (q + 1)) >= CHAR_SIZE
    BY <1>1, <1>2, <2>1
  <2>3. CHAR_SIZE * length = CHAR_SIZE * (q + 1) + CHAR_SIZE * (length - (q + 1))
    BY <1>1, <1>2
  <2>. DEFINE x == CHAR_SIZE * length
              y == CHAR_SIZE * (q + 1)
              z == CHAR_SIZE * (length - (q + 1))
  <2>4. x \in Int /\ y \in Int /\ z \in Int
    BY <1>1, <1>2
  <2>. HIDE DEF x, y, z
  <2>. QED  BY <1>2, <2>2, <2>3, <2>4 DEF x, y, z
<1>7. CHAR_SIZE * q \in Int /\ CHAR_SIZE * length \in Int
  <2>. HIDE DEF q
  <2>. QED  BY <1>1, <1>2
<1>8. (r + 1 < CHAR_SIZE => (n + 1) % CHAR_SIZE = r + 1 /\ (n + 1) \div CHAR_SIZE = q)
      /\ (r + 1 = CHAR_SIZE => (n + 1) % CHAR_SIZE = 0 /\ (n + 1) \div CHAR_SIZE = q + 1)
      /\ r + 1 <= CHAR_SIZE
  BY <1>2, ModStep
<1>. DEFINE x == CHAR_SIZE * q
            y == CHAR_SIZE * length
<1>9. r + 1 < CHAR_SIZE => n + 1 < y
  <2>. HIDE DEF q, r, x, y
  <2>. QED  BY <1>1, <1>2, <1>3, <1>4, <1>5, <1>7 DEF x, y
<1>10. r + 1 = CHAR_SIZE /\ q + 1 < length => n + 1 < y
  <2>. HIDE DEF q, r
  <2>. QED  BY <1>1, <1>2, <1>3, <1>4, <1>6, <1>7
<1>11. r + 1 = CHAR_SIZE /\ q + 1 = length => n + 1 = y
  <2>. HIDE DEF q, r
  <2>. QED  BY <1>1, <1>2, <1>3, <1>4, <1>7
<1>. QED  BY <1>8, <1>9, <1>10, <1>11

(* What handle_msg makes of the text's next bit.                           *)
LEMMA TextResult ==
    ASSUME NEW s \in ClientState, NEW text \in Seq(Nat),
           \A i \in 1..Len(text) : text[i] < 2^CHAR_SIZE,
           TextSoFar(s, text),
           NEW bit,
           bit = Bit(text[(s.sig_count \div CHAR_SIZE) + 1],
                     CHAR_SIZE - 1 - (s.sig_count % CHAR_SIZE)),
           WriteFault(s, bit) = "none",
           NEW new, new = HandleMsg(s, bit)
    PROVE  /\ new \in ClientState
           /\ new.actual_pid = s.actual_pid /\ new.client_pid = s.client_pid
           /\ new.getting_header = s.getting_header
           /\ new.getting_msg = s.getting_msg
           /\ new.size_message = Len(text)
           /\ new.sig_count = s.sig_count + 1
           /\ \/ /\ ~MessageComplete(s, bit)
                 /\ TextSoFar(new, text)
                 /\ s.sig_count + 1 < CHAR_SIZE * Len(text)
              \/ /\ MessageComplete(s, bit)
                 /\ SubSeq(new.message.text, 1, new.size_message) = text
                 /\ s.sig_count + 1 = CHAR_SIZE * Len(text)
<1>. DEFINE r == s.sig_count % CHAR_SIZE
            v == text[s.msg_pos + 1]
            b == CharBit(s, bit)
            pos == s.msg_pos
<1>1. /\ s.sig_count \in Nat /\ pos \in Nat /\ s.char_value \in Nat
      /\ s.message.text \in Seq(Nat) /\ s.size_message \in Int
      /\ CHAR_SIZE \in Nat \ {0} /\ Len(text) \in Nat
  BY SizeAssumption, SMTT(30) DEF ClientState, Buffer
<1>2. /\ s.size_message = Len(text) /\ pos < Len(text)
      /\ pos = s.sig_count \div CHAR_SIZE
      /\ Len(s.message.text) = pos
      /\ \A i \in 1..pos : s.message.text[i] = text[i]
      /\ r > 0 => s.char_value = Upper(v, CHAR_SIZE - r)
  BY DEF TextSoFar
<1>3. pos + 1 \in 1..Len(text) /\ v \in Nat /\ v < 2^CHAR_SIZE
  <2>1. pos \in Nat /\ Len(text) \in Nat /\ pos < Len(text)
    BY <1>1, <1>2
  <2>. HIDE DEF pos
  <2>2. pos + 1 \in 1..Len(text)
    BY <2>1
  <2>3. text[pos + 1] \in Nat /\ text[pos + 1] < 2^CHAR_SIZE
    BY <2>2
  <2>. QED  BY <2>2, <2>3 DEF pos
<1>4. bit = Bit(v, CHAR_SIZE - 1 - r)
  BY <1>2
<1>5. /\ b.sig_count = s.sig_count + 1
      /\ b.client_pid = s.client_pid
      /\ b.char_value = Upper(v, CHAR_SIZE - (r + 1))
      /\ CharComplete(b) <=> r + 1 = CHAR_SIZE
      /\ CharComplete(b) => b.char_value = v
  <2>. HIDE DEF v
  <2>. QED  BY <1>2, <1>3, <1>4, CharStep
<1>6. bit \in 0..1
  <2>1. r \in 0..(CHAR_SIZE - 1)
    BY <1>1, DivMod
  <2>2. CHAR_SIZE - 1 - r \in 0..(HEADER_SIZE + CHAR_SIZE)
    <3>. HIDE DEF r
    <3>. QED  BY <2>1, <1>1, SizeAssumption
  <2>. HIDE DEF v, r
  <2>. QED  BY <1>3, <1>4, <2>2, BitTravels
<1>7. /\ b \in ClientState
      /\ b.message = s.message /\ b.msg_pos = pos
      /\ b.actual_pid = s.actual_pid
      /\ b.size_message = s.size_message
      /\ b.getting_msg = s.getting_msg /\ b.getting_header = s.getting_header
  BY <1>6, CharBitType
<1>8. /\ new \in ClientState
      /\ new.actual_pid = s.actual_pid
      /\ new.getting_msg = s.getting_msg
      /\ new.getting_header = s.getting_header
      /\ new.size_message = s.size_message
      /\ CharComplete(b) =>
            new.msg_pos = pos + 1 /\ Len(new.message.text) = pos + 1
  <2>1. s.msg_pos <= Len(s.message.text)
    BY <1>1, <1>2
  <2>. HIDE DEF r
  <2>. QED  BY <1>6, <2>1, HandleMsgType
<1>9. MessageComplete(s, bit) <=> CharComplete(b) /\ pos + 1 >= s.size_message
  BY DEF MessageComplete
<1>10. /\ r + 1 < CHAR_SIZE =>
             /\ b.sig_count \div CHAR_SIZE = pos
             /\ b.sig_count % CHAR_SIZE = r + 1
             /\ s.sig_count + 1 < CHAR_SIZE * Len(text)
       /\ r + 1 = CHAR_SIZE =>
             /\ b.sig_count \div CHAR_SIZE = pos + 1
             /\ b.sig_count % CHAR_SIZE = 0
             /\ pos + 1 < Len(text) => s.sig_count + 1 < CHAR_SIZE * Len(text)
             /\ pos + 1 = Len(text) => s.sig_count + 1 = CHAR_SIZE * Len(text)
       /\ r + 1 <= CHAR_SIZE
  <2>1. s.sig_count \div CHAR_SIZE < Len(text)
    BY <1>2
  <2>2. /\ r + 1 < CHAR_SIZE =>
              /\ (s.sig_count + 1) \div CHAR_SIZE = s.sig_count \div CHAR_SIZE
              /\ (s.sig_count + 1) % CHAR_SIZE = r + 1
              /\ s.sig_count + 1 < CHAR_SIZE * Len(text)
        /\ r + 1 = CHAR_SIZE =>
              /\ (s.sig_count + 1) \div CHAR_SIZE = (s.sig_count \div CHAR_SIZE) + 1
              /\ (s.sig_count + 1) % CHAR_SIZE = 0
              /\ (s.sig_count \div CHAR_SIZE) + 1 < Len(text) =>
                    s.sig_count + 1 < CHAR_SIZE * Len(text)
              /\ (s.sig_count \div CHAR_SIZE) + 1 = Len(text) =>
                    s.sig_count + 1 = CHAR_SIZE * Len(text)
        /\ r + 1 <= CHAR_SIZE
    BY <1>1, <2>1, TextPosition
  <2>. HIDE DEF b, r
  <2>. QED  BY <1>2, <1>5, <2>2
<1>11. r \in Nat
  <2>1. r \in 0..(CHAR_SIZE - 1)
    BY <1>1, DivMod
  <2>. HIDE DEF r
  <2>. QED  BY <1>1, <2>1
<1>. HIDE DEF b, r, v
<1>. DEFINE old == s.message.text
<1>14. /\ pos \in Nat /\ old \in Seq(Nat) /\ Len(old) = pos /\ Len(text) \in Nat
       /\ \A i \in 1..pos : old[i] = text[i]
  BY <1>1, <1>2
<1>12. CASE ~CharComplete(b)
  <2>1. new = b
    BY <1>12 DEF HandleMsg, b
  <2>2. r + 1 < CHAR_SIZE
    BY <1>1, <1>5, <1>10, <1>11, <1>12
  <2>3. ~MessageComplete(s, bit)
    BY <1>9, <1>12
  <2>4. TextSoFar(b, text)
    BY <1>2, <1>5, <1>7, <1>10, <2>2 DEF TextSoFar, v
  <2>. QED  BY <1>2, <1>5, <1>8, <1>10, <2>1, <2>2, <2>3, <2>4
<1>13. CASE CharComplete(b)
  <2>1. r + 1 = CHAR_SIZE /\ b.char_value = v
    BY <1>5, <1>13
  <2>. DEFINE kept == SubSeq(s.message.text, 1, pos)
              t == Append(kept, v)
  <2>2. kept \in Seq(Nat) /\ Len(kept) = pos /\ \A i \in 1..pos : kept[i] = text[i]
    <3>1. \A i \in 1..pos : s.message.text[i] \in Nat
      BY <1>14, SMTT(30)
    <3>2. /\ SubSeq(old, 1, pos) \in Seq(Nat)
          /\ Len(SubSeq(old, 1, pos)) = IF 1 <= pos THEN pos - 1 + 1 ELSE 0
          /\ \A i \in 1..(pos - 1 + 1) : SubSeq(old, 1, pos)[i] = old[1 + i - 1]
      <4>. HIDE DEF old, pos
      <4>. QED  BY <1>14, <3>1, SubSeqProperties DEF old
    <3>. HIDE DEF old, pos
    <3>3. \A i \in 1..pos : SubSeq(old, 1, pos)[i] = old[i]
      BY <1>14, <3>2
    <3>. QED  BY <1>14, <3>2, <3>3 DEF old
  <2>3. t \in Seq(Nat) /\ Len(t) = pos + 1 /\ \A i \in 1..(pos + 1) : t[i] = text[i]
    <3>. HIDE DEF kept, pos
    <3>1. \A i \in 1..pos : t[i] = kept[i]
      BY <1>14, <1>3, <2>2
    <3>2. t[pos + 1] = v
      BY <1>14, <1>3, <2>2
    <3>. HIDE DEF t
    <3>3. \A i \in 1..(pos + 1) : i \in 1..pos \/ i = pos + 1
      BY <1>14
    <3>4. t[pos + 1] = text[pos + 1]
      BY <3>2 DEF v, pos
    <3>5. \A i \in 1..(pos + 1) : t[i] = text[i]
      BY <2>2, <3>1, <3>3, <3>4
    <3>. QED  BY <1>14, <1>3, <2>2, <3>5 DEF t
  <2>. HIDE DEF kept
  <2>4. new = [b EXCEPT !.message.text = t, !.msg_pos = pos + 1]
    BY <1>7, <1>13, <2>1 DEF HandleMsg, StoreChar, b, kept
  <2>. HIDE DEF t
  <2>. DEFINE block == [b.message EXCEPT !.text = t]
  <2>5. block.text = t
    BY <1>7 DEF ClientState, Buffer
  <2>6. new = [b EXCEPT !.message = block, !.msg_pos = pos + 1]
    BY <2>4
  <2>. HIDE DEF block
  <2>7. /\ new.message = block /\ new.msg_pos = pos + 1
        /\ new.sig_count = b.sig_count /\ new.client_pid = b.client_pid
    BY <1>7, <2>6 DEF ClientState
  <2>8. CASE pos + 1 < Len(text)
    <3>1. ~MessageComplete(s, bit)
      BY <1>1, <1>2, <1>9, <2>8
    <3>2. new.sig_count \div CHAR_SIZE = pos + 1 /\ new.sig_count % CHAR_SIZE = 0
      BY <1>10, <2>1, <2>7
    <3>3. TextSoFar(new, text)
      <4>1. new.size_message = Len(text) /\ new.message.text = t
        BY <1>2, <1>8, <2>5, <2>7
      <4>2. ~(new.sig_count % CHAR_SIZE > 0)
        BY <3>2
      <4>. HIDE DEF pos
      <4>. QED  BY <1>14, <2>3, <2>7, <2>8, <3>2, <4>1, <4>2 DEF TextSoFar
    <3>. QED  BY <1>2, <1>5, <1>8, <1>10, <2>1, <2>7, <2>8, <3>1, <3>3
  <2>9. CASE pos + 1 = Len(text)
    <3>1. MessageComplete(s, bit)
      BY <1>1, <1>2, <1>9, <1>13, <2>9
    <3>2. SubSeq(t, 1, Len(text)) = text
      <4>1. SubSeq(t, 1, Len(text)) \in Seq(Nat)
            /\ Len(SubSeq(t, 1, Len(text))) = Len(text)
            /\ \A i \in 1..Len(text) : SubSeq(t, 1, Len(text))[i] = t[i]
        <5>1. \A i \in 1..Len(text) : t[i] \in Nat
          BY <1>14, <2>3, <2>9, SMTT(30)
        <5>2. /\ SubSeq(t, 1, Len(text)) \in Seq(Nat)
              /\ Len(SubSeq(t, 1, Len(text))) =
                    IF 1 <= Len(text) THEN Len(text) - 1 + 1 ELSE 0
              /\ \A i \in 1..(Len(text) - 1 + 1) :
                    SubSeq(t, 1, Len(text))[i] = t[1 + i - 1]
          BY <1>14, <5>1, SubSeqProperties
        <5>3. \A i \in 1..Len(text) : SubSeq(t, 1, Len(text))[i] = t[i]
          BY <1>14, <5>2
        <5>. QED  BY <1>14, <5>2, <5>3
      <4>. QED  BY <1>1, <2>3, <2>9, <4>1, SeqEqual
    <3>. QED  BY <1>2, <1>5, <1>8, <1>10, <2>1, <2>5, <2>7, <2>9, <3>1, <3>2
  <2>10. pos + 1 < Len(text) \/ pos + 1 = Len(text)
    BY <1>2, <1>14
  <2>. QED  BY <2>8, <2>9, <2>10
<1>. QED  BY <1>12, <1>13

(***************************************************************************)
(* The kernel                                                              *)
(***************************************************************************)
(* A client that has nothing under way sends one signal to the server.     *)
LEMMA ClientSends ==
    ASSUME TypeInv, KernelInv, NEW c \in Clients, c \in alive, NEW s \in Sigs,
           UnderWay(c) = {},
           pending' = Kill(pending, c, Server, s), alive' = alive
    PROVE  /\ KernelInv'
           /\ \A d \in Clients : pending'[d] = pending[d]
           /\ \A d \in Clients : d # c => UnderWay(d)' = UnderWay(d)
           /\ UnderWay(c)' \subseteq {[sig |-> s, from |-> c]}
<1>1. /\ pending \in [Procs -> SUBSET Signal]
      /\ Server \in Procs /\ Clients \subseteq Procs /\ Server \notin Clients
      /\ Server # NoOne
  BY ProcessAssumption DEF TypeInv, TypeOK, KernelTypeOK, Procs
<1>. DEFINE new == [sig |-> s, from |-> c]
<1>2. new.from = c /\ new.sig = s
  OBVIOUS
<1>3. \A p \in Procs : p # Server => pending'[p] = pending[p]
  BY <1>1 DEF Kill
<1>4. pending'[Server] = pending[Server] \/ pending'[Server] = pending[Server] \cup {new}
  BY <1>1 DEF Kill
<1>5. Server \notin alive => pending'[Server] = pending[Server]
  BY <1>1 DEF Kill
<1>. HIDE DEF new
<1>6. \A d \in Clients : d # c => UnderWay(d)' = UnderWay(d)
  BY <1>2, <1>4 DEF UnderWay
<1>7. UnderWay(c)' \subseteq {new}
  BY <1>4 DEF UnderWay
<1>8. KernelInv'
  <2>1. \A p \in Procs : p \notin alive' => pending'[p] = {}
    BY <1>3, <1>5 DEF KernelInv
  <2>2. \A d \in Clients : \A m \in pending'[d] : m.from = Server
    BY <1>1, <1>3 DEF KernelInv
  <2>3. ASSUME NEW m \in pending'[Server], NEW n \in pending'[Server],
               m.from = n.from, m.from \in Clients
        PROVE  m = n
    <3>1. CASE m.from = c
      <4>1. m \in UnderWay(c)' /\ n \in UnderWay(c)'
        BY <2>3, <3>1 DEF UnderWay
      <4>. QED  BY <1>7, <4>1
    <3>2. CASE m.from # c
      <4>1. m \in pending[Server] /\ n \in pending[Server]
        BY <1>2, <1>4, <2>3, <3>2
      <4>. QED  BY <2>3, <4>1 DEF KernelInv
    <3>. QED  BY <3>1, <3>2
  <2>. QED  BY <2>1, <2>2, <2>3 DEF KernelInv
<1>. QED  BY <1>1, <1>3, <1>6, <1>7, <1>8 DEF new

(* What is left once the server has taken a client's signal: it was the    *)
(* only one of that client.                                                *)
LEMMA ServerTakes ==
    ASSUME TypeInv, KernelInv, NEW m \in pending[Server],
           NEW pend, pend = Taken(Server, m)
    PROVE  /\ pend \in [Procs -> SUBSET Signal]
           /\ \A c \in Clients : pend[c] = pending[c]
           /\ pend[Server] \subseteq pending[Server]
           /\ \A c \in Clients : {n \in pend[Server] : n.from = c} =
                                    IF c = m.from THEN {} ELSE UnderWay(c)
           /\ m.from \in Clients => UnderWay(m.from) = {m}
<1>1. /\ pending \in [Procs -> SUBSET Signal]
      /\ Server \in Procs /\ Clients \subseteq Procs /\ Server \notin Clients
  BY ProcessAssumption DEF TypeInv, TypeOK, KernelTypeOK, Procs
<1>2. pend \in [Procs -> SUBSET Signal]
  BY <1>1, TakenType DEF TypeInv, TypeOK
<1>3. pend[Server] = pending[Server] \ {m} /\ \A c \in Clients : pend[c] = pending[c]
  BY <1>1 DEF Taken
<1>4. \A n \in pending[Server] : n.from = m.from /\ m.from \in Clients => n = m
  BY DEF KernelInv
<1>5. ASSUME NEW c \in Clients
      PROVE  {n \in pend[Server] : n.from = c} = IF c = m.from THEN {} ELSE UnderWay(c)
  BY <1>3, <1>4 DEF UnderWay
<1>6. m.from \in Clients => UnderWay(m.from) = {m}
  BY <1>4 DEF UnderWay
<1>. QED  BY <1>2, <1>3, <1>5, <1>6

(* The server takes signals and sends nothing.                             *)
LEMMA ServerIsQuiet ==
    ASSUME TypeInv, KernelInv,
           \A c \in Clients : pending'[c] = pending[c],
           pending'[Server] \subseteq pending[Server], alive' = alive
    PROVE  KernelInv'
<1>1. Procs = Clients \cup {Server}
  BY DEF Procs
<1>. QED  BY <1>1 DEF KernelInv

(* The server takes signals and sends one, to a client or to its own       *)
(* process group, which has no client in it.                               *)
LEMMA ServerSends ==
    ASSUME TypeInv, KernelInv, Group = {},
           NEW pend \in [Procs -> SUBSET Signal],
           \A c \in Clients : pend[c] = pending[c],
           pend[Server] \subseteq pending[Server],
           NEW pid \in Clients \cup {NoOne}, NEW s \in Sigs,
           pending' = Kill(pend, Server, pid, s), alive' = alive
    PROVE  /\ KernelInv'
           /\ \A c \in Clients : c # pid => pending'[c] = pending[c]
           /\ \A c \in Clients : c = pid /\ c \notin alive => pending'[c] = {}
           /\ \A c \in Clients : c = pid /\ c \in alive /\ pending[c] = {} =>
                 pending'[c] = {Reply(s)}
           /\ \A c \in Clients : UnderWay(c)' = {n \in pend[Server] : n.from = c}
<1>1. /\ pending \in [Procs -> SUBSET Signal]
      /\ Server \in Procs /\ Clients \subseteq Procs /\ Server \notin Clients
      /\ NoOne \notin Clients /\ Server # NoOne
      /\ Procs = Clients \cup {Server}
  BY ProcessAssumption DEF TypeInv, TypeOK, KernelTypeOK, Procs
<1>. DEFINE new == Reply(s)
<1>2. new = [sig |-> s, from |-> Server] /\ new.from = Server
  BY DEF Reply
<1>3. \A c \in Clients : c # pid => pending'[c] = pending[c]
  BY <1>1 DEF Kill
<1>4. \A p \in Procs : p \notin alive => pending'[p] = pend[p]
  BY <1>1 DEF Kill
<1>5. \A p \in Procs : pending'[p] = pend[p] \/ pending'[p] = pend[p] \cup {new}
  BY <1>1, <1>2 DEF Kill
<1>6. ASSUME NEW c \in Clients, c = pid, c \in alive, pending[c] = {}
      PROVE  pending'[c] = {new}
  BY <1>1, <1>2, <1>6 DEF Kill
<1>. HIDE DEF new
<1>7. \A c \in Clients : UnderWay(c)' = {n \in pend[Server] : n.from = c}
  BY <1>1, <1>2, <1>5 DEF UnderWay
<1>8. KernelInv'
  <2>1. \A p \in Procs : p \notin alive' => pending'[p] = {}
    BY <1>1, <1>4 DEF KernelInv
  <2>2. \A d \in Clients : \A m \in pending'[d] : m.from = Server
    BY <1>1, <1>2, <1>5 DEF KernelInv
  <2>3. ASSUME NEW m \in pending'[Server], NEW n \in pending'[Server],
               m.from = n.from, m.from \in Clients
        PROVE  m = n
    <3>1. m \in pending[Server] /\ n \in pending[Server]
      BY <1>1, <1>2, <1>5, <2>3
    <3>. QED  BY <2>3, <3>1 DEF KernelInv
  <2>. QED  BY <2>1, <2>2, <2>3 DEF KernelInv
<1>9. \A c \in Clients : c \notin alive => pending'[c] = {}
  BY <1>1, <1>4 DEF KernelInv
<1>. QED  BY <1>3, <1>6, <1>7, <1>8, <1>9 DEF new

(* A process ends.                                                         *)
LEMMA ProcessEnds ==
    ASSUME TypeInv, KernelInv, NEW p \in Procs, Terminate(p)
    PROVE  /\ KernelInv'
           /\ pending'[p] = {} /\ p \notin alive'
           /\ \A q \in Procs : q # p => pending'[q] = pending[q] /\ (q \in alive' <=> q \in alive)
<1>1. pending \in [Procs -> SUBSET Signal] /\ Server \in Procs /\ Clients \subseteq Procs
  BY DEF TypeInv, TypeOK, KernelTypeOK, Procs
<1>2. /\ pending'[p] = {} /\ p \notin alive'
      /\ \A q \in Procs : q # p => pending'[q] = pending[q] /\ (q \in alive' <=> q \in alive)
  BY <1>1 DEF Terminate
<1>3. \A q \in Procs : pending'[q] \subseteq pending[q]
  BY <1>2
<1>. QED  BY <1>1, <1>2, <1>3 DEF KernelInv

(***************************************************************************)
(* The client nothing happens to                                           *)
(***************************************************************************)
(* The fields of a session stay.                                           *)
SameSession ==
    /\ st'.getting_header = st.getting_header /\ st'.getting_msg = st.getting_msg
    /\ st'.sig_count = st.sig_count /\ st'.char_value = st.char_value
    /\ st'.msg_pos = st.msg_pos /\ st'.size_message = st.size_message
    /\ st'.message.text = st.message.text

(* A client's session is its own affair: it survives every step that       *)
(* touches neither the client, nor its signals, nor, if it is the owner,   *)
(* the state of the session.                                               *)
LEMMA Untouched ==
    ASSUME NEW c \in Clients, Session(c),
           cl'[c] = cl[c], msg' = msg, pending'[c] = pending[c],
           UnderWay(c)' = UnderWay(c), c \in alive' <=> c \in alive,
           Shown(c)' <=> Shown(c),
           st'.actual_pid = c <=> st.actual_pid = c,
           st.actual_pid = c =>
               SameSession /\ (acking' => acking)
               /\ (main' \notin Cleaning => main \notin Cleaning)
    PROVE  Session(c)'
<1>1. st.actual_pid = c => Received' = Received
  BY DEF Received, SameSession
<1>2. LastBit(c)' = LastBit(c) /\ TotalBits(c)' = TotalBits(c)
  BY DEF LastBit, TotalBits
<1>3. \A k : BitAt(c, k)' = BitAt(c, k)
  BY DEF BitAt
<1>4. OwnerInv(c)'
  <2>1. ASSUME st'.actual_pid = c, main' \notin Cleaning
        PROVE  /\ st'.getting_header + st'.getting_msg = 1
               /\ HeaderDecoded(c)' /\ TextDecoded(c)'
               /\ Received' < LastBit(c)'
               /\ Received' \in {cl'[c].sent - 1, cl'[c].sent}
               /\ \A m \in UnderWay(c)' :
                     /\ Received' = cl'[c].sent - 1
                     /\ m.sig = SignalOf(BitAt(c, cl[c].sent))
               /\ acking' => Received' = cl'[c].sent /\ cl'[c].at \in {"ack"} \cup Final
    <3>1. st.actual_pid = c /\ main \notin Cleaning /\ SameSession /\ (acking' => acking)
      BY <2>1
    <3>2. /\ st.getting_header + st.getting_msg = 1
          /\ HeaderDecoded(c) /\ TextDecoded(c)
          /\ Received < LastBit(c)
          /\ Received \in {cl[c].sent - 1, cl[c].sent}
          /\ \A m \in UnderWay(c) :
                /\ Received = cl[c].sent - 1
                /\ m.sig = SignalOf(BitAt(c, cl[c].sent))
          /\ acking => Received = cl[c].sent /\ cl[c].at \in {"ack"} \cup Final
      BY <3>1 DEF Session, OwnerInv
    <3>3. HeaderDecoded(c)'
      BY <3>1, <3>2 DEF HeaderDecoded, SameSession, SizeAfter, Upper
    <3>4. TextDecoded(c)'
      BY <3>1, <3>2 DEF TextDecoded, TextSoFar, SameSession
    <3>5. st'.getting_header + st'.getting_msg = 1
      BY <3>1, <3>2 DEF SameSession
    <3>. QED  BY <1>1, <1>2, <3>1, <3>2, <3>3, <3>4, <3>5
  <2>2. BitAt(c, cl[c].sent)' = BitAt(c, cl[c].sent)
    BY DEF BitAt
  <2>. QED  BY <2>1, <2>2 DEF OwnerInv
<1>5. PingInv(c)'
  BY DEF PingInv, Apart, Session, ClientInv
<1>6. BetweenBits(c)'
  BY <1>1 DEF BetweenBits, Session, ClientInv
<1>7. AwaitingAck(c)'
  BY <1>1, <1>2 DEF AwaitingAck, Session, ClientInv
<1>8. ClientInv(c)'
  BY <1>5, <1>6, <1>7 DEF Session, ClientInv
<1>9. ShownInv(c)'
  BY DEF ShownInv, Session
<1>. QED  BY <1>4, <1>8, <1>9 DEF Session

(***************************************************************************)
(* Steps of a client                                                       *)
(***************************************************************************)
(* A client that runs finds the server set up, and is not cleaned away.    *)
LEMMA Running ==
    ASSUME SessionInv, NEW c \in Clients, c \in alive
    PROVE  /\ main \notin Starting
           /\ st.actual_pid = c => main \notin {"expired"} \cup Cleaning
           /\ cl[c].at \notin {"absent"} \cup Final
           /\ Session(c)
<1>1. cl[c].at \notin {"absent"} \cup Final /\ Session(c)
  BY DEF SessionInv, Session, ClientInv
<1>2. c # NoOne
  BY ProcessAssumption
<1>. QED  BY <1>1, <1>2 DEF SessionInv, ServerInv

(* A step of c leaves the server's variables and the other clients alone.  *)
LEMMA ClientStep ==
    ASSUME TypeInv, SessionInv, NEW c \in Clients, main \notin Starting,
           c \in alive \/ cl[c].at = "absent",
           UNCHANGED serverVars, msg' = msg,
           \A d \in Clients : d # c =>
               /\ cl'[d] = cl[d] /\ pending'[d] = pending[d]
               /\ UnderWay(d)' = UnderWay(d) /\ (d \in alive' <=> d \in alive),
           KernelInv', Session(c)'
    PROVE  SessionInv'
<1>. USE DEF serverVars
<1>1. \A d \in Clients : Shown(d)' = Shown(d)
  BY DEF Shown
<1>2. ASSUME NEW d \in Clients, d # c  PROVE Session(d)'
  <2>1. Session(d)
    BY DEF SessionInv
  <2>2. /\ cl'[d] = cl[d] /\ pending'[d] = pending[d]
        /\ UnderWay(d)' = UnderWay(d) /\ (d \in alive' <=> d \in alive)
    BY <1>2
  <2>3. SameSession
    BY DEF SameSession
  <2>. QED  BY <1>1, <2>1, <2>2, <2>3, Untouched
<1>3. ServerInv'
  <2>1. st.actual_pid = c => main \notin {"expired"} \cup Cleaning
    <3>1. c # NoOne /\ (cl[c].at = "absent" => st.actual_pid # c)
      BY ProcessAssumption DEF SessionInv, Session, ClientInv, PingInv, Apart
    <3>. QED  BY <3>1 DEF SessionInv, ServerInv
  <2>2. ASSUME NEW d \in Clients, main \in {"expired"} \cup Cleaning, st.actual_pid = d
        PROVE  d \notin alive' /\ UnderWay(d)' = {}
    <3>1. d # c /\ d # NoOne
      BY <2>1, <2>2, ProcessAssumption
    <3>2. d \notin alive /\ UnderWay(d) = {}
      BY <2>2, <3>1 DEF SessionInv, ServerInv
    <3>. QED  BY <3>1, <3>2
  <2>3. main \in {"expired"} \cup Cleaning /\ st.actual_pid # NoOne =>
          st.actual_pid \notin alive' /\ {n \in pending'[Server] : n.from = st.actual_pid} = {}
    BY <2>2 DEF SessionInv, ServerInv, UnderWay
  <2>. QED  BY <2>3 DEF SessionInv, ServerInv, UnderWay
<1>4. ShownAsSent'
  BY DEF SessionInv, ShownAsSent
<1>. QED  BY <1>2, <1>3, <1>4 DEF SessionInv

(* The server's side does not see a step of its client but a new bit.      *)
LEMMA OwnerKept ==
    ASSUME NEW c \in Clients, OwnerInv(c), UNCHANGED serverVars, msg' = msg,
           cl'[c].sent = cl[c].sent, UnderWay(c)' = UnderWay(c),
           st.actual_pid = c /\ main \notin Cleaning /\ acking =>
               cl'[c].at \in {"ack"} \cup Final
    PROVE  OwnerInv(c)'
<1>. USE DEF serverVars
<1>1. Received' = Received /\ LastBit(c)' = LastBit(c)
  BY DEF Received, LastBit, TotalBits
<1>2. HeaderDecoded(c)' = HeaderDecoded(c) /\ TextDecoded(c)' = TextDecoded(c)
  BY DEF HeaderDecoded, TextDecoded, TextSoFar, SizeAfter, Upper
<1>3. BitAt(c, cl[c].sent)' = BitAt(c, cl[c].sent)
  BY DEF BitAt
<1>. QED  BY <1>1, <1>2, <1>3 DEF OwnerInv

(* What a step of c in its own memory leaves alone.                        *)
LEMMA LocalLeaves ==
    ASSUME TypeInv, NEW c \in Clients, NEW new, Local(c, new), UNCHANGED serverVars
    PROVE  /\ cl'[c] = new /\ cl[c] \in ClientProcess
           /\ \A d \in Clients : d # c => cl'[d] = cl[d]
           /\ msg' = msg /\ pending' = pending /\ alive' = alive
           /\ UnderWay(c)' = UnderWay(c) /\ Shown(c)' = Shown(c)
           /\ Received' = Received /\ LastBit(c)' = LastBit(c)
           /\ st' = st /\ acking' = acking /\ main' = main
BY DEF Local, serverVars, kernelVars, TypeInv, TypeOK, ClientTypeOK, UnderWay, Shown,
       Received, LastBit, TotalBits

(* Such a step keeps the invariant if it keeps c's part of it.             *)
LEMMA LocalStep ==
    ASSUME TypeInv, SessionInv, NEW c \in Clients, c \in alive,
           NEW new, Local(c, new), UNCHANGED serverVars, Session(c)'
    PROVE  SessionInv'
<1>1. /\ \A d \in Clients : d # c => cl'[d] = cl[d]
      /\ msg' = msg /\ pending' = pending /\ alive' = alive
  BY LocalLeaves
<1>2. \A d \in Clients : UnderWay(d)' = UnderWay(d)
  BY <1>1 DEF UnderWay
<1>3. KernelInv'
  BY <1>1 DEF SessionInv, KernelInv
<1>4. main \notin Starting
  BY Running
<1>. QED  BY <1>1, <1>2, <1>3, <1>4, ClientStep

(* The steps up to the transmission slot.                                  *)
LEMMA ConnectSteps ==
    ASSUME TypeInv, SessionInv, Relied, NEW c \in Clients, UNCHANGED serverVars,
           \/ Start(c) \/ PollReady(c)
           \/ PingExpire(c) /\ ("ping" \in Faults \/ Quiet(c))
           \/ Retry(c) \/ InstallHandlers(c) \/ AcquireSlot(c)
    PROVE  SessionInv'
<1>1. c \in alive
  BY DEF Start, PollReady, PingExpire, Retry, InstallHandlers, AcquireSlot, At
<1>2. /\ main \notin Starting /\ Session(c)
      /\ st.actual_pid = c => main \notin Cleaning
  BY <1>1, Running
<1>. USE DEF Final, Points
<1>3. ASSUME NEW new, Local(c, new), new.sent = cl[c].sent,
             st.actual_pid = c /\ main \notin Cleaning /\ acking =>
                new.at \in {"ack"} \cup Final
      PROVE  OwnerInv(c)'
  <2>1. OwnerInv(c)
    BY <1>2 DEF Session
  <2>. QED  BY <1>3, <2>1, LocalLeaves, OwnerKept
<1>4. ~(cl[c].at \in {"ack"} \cup Final) /\ st.actual_pid = c => ~acking
  BY <1>2 DEF Session, OwnerInv
<1>5. CASE Start(c)
  <2>. DEFINE new == [cl[c] EXCEPT !.at = "ping", !.handler = "ping", !.attempt = 1,
                              !.is_ready = 0, !.ready_to_proceed = 0,
                              !.transmission_active = 0]
  <2>1. cl[c].at = "start" /\ Local(c, new)
    BY <1>5 DEF Start, At
  <2>. HIDE DEF new
  <2>2. /\ cl'[c] = new /\ cl[c] \in ClientProcess
        /\ pending' = pending /\ alive' = alive /\ UnderWay(c)' = UnderWay(c)
        /\ Shown(c)' = Shown(c) /\ st' = st /\ acking' = acking /\ main' = main
    BY <2>1, LocalLeaves
  <2>3. /\ new.at = "ping" /\ new.handler = "ping" /\ new.sent = cl[c].sent
        /\ new.is_ready = 0 /\ new.ready_to_proceed = 0
    BY <2>2 DEF new, ClientProcess
  <2>4. OwnerInv(c)'
    BY <1>3, <1>4, <2>1, <2>3
  <2>5. ClientInv(c)'
    BY <1>2, <2>1, <2>2, <2>3
       DEF Session, ClientInv, PingInv, BetweenBits, AwaitingAck, Apart
  <2>6. ShownInv(c)'
    BY <1>2, <2>1, <2>2, <2>3 DEF Session, ShownInv
  <2>. QED  BY <1>1, <2>1, <2>4, <2>5, <2>6, LocalStep DEF Session
<1>6. CASE PollReady(c)
  <2>. DEFINE new == [cl[c] EXCEPT !.at = "switch"]
  <2>1. cl[c].at = "check" /\ cl[c].is_ready = 1 /\ Local(c, new)
    BY <1>6 DEF PollReady, At
  <2>. HIDE DEF new
  <2>2. /\ cl'[c] = new /\ cl[c] \in ClientProcess
        /\ pending' = pending /\ alive' = alive /\ UnderWay(c)' = UnderWay(c)
        /\ Shown(c)' = Shown(c) /\ st' = st /\ acking' = acking /\ main' = main
        /\ Received' = Received
    BY <2>1, LocalLeaves
  <2>3. /\ new.at = "switch" /\ new.handler = cl[c].handler /\ new.sent = cl[c].sent
        /\ new.is_ready = 1 /\ new.ready_to_proceed = cl[c].ready_to_proceed
    BY <2>1, <2>2 DEF new, ClientProcess
  <2>4. OwnerInv(c)'
    BY <1>3, <1>4, <2>1, <2>3
  <2>5. /\ st.actual_pid = c /\ pending[c] = {} /\ UnderWay(c) = {}
        /\ cl[c].sent = 0 /\ cl[c].ready_to_proceed = 0 /\ cl[c].handler = "ping"
    BY <1>2, <2>1 DEF Session, ClientInv, PingInv
  <2>6. Received = 0
    <3>1. Received \in {-1, 0}
      BY <1>2, <2>5 DEF Session, OwnerInv
    <3>2. Received \in Nat
      BY SizeAssumption DEF Received, TypeInv, TypeOK, ServerTypeOK, ClientState
    <3>. QED  BY <3>1, <3>2
  <2>7. ClientInv(c)'
    BY <1>2, <2>1, <2>2, <2>3, <2>5, <2>6
       DEF Session, ClientInv, PingInv, BetweenBits, AwaitingAck, Apart
  <2>8. ShownInv(c)'
    BY <1>2, <2>1, <2>2, <2>3 DEF Session, ShownInv
  <2>. QED  BY <1>1, <2>1, <2>4, <2>7, <2>8, LocalStep DEF Session
<1>7. CASE PingExpire(c) /\ ("ping" \in Faults \/ Quiet(c))
  <2>. DEFINE new == [cl[c] EXCEPT !.at = "delay"]
  <2>1. cl[c].at = "check" /\ cl[c].is_ready = 0 /\ Local(c, new)
    BY <1>7 DEF PingExpire, At
  <2>. HIDE DEF new
  <2>2. /\ cl'[c] = new /\ cl[c] \in ClientProcess
        /\ pending' = pending /\ alive' = alive /\ UnderWay(c)' = UnderWay(c)
        /\ Shown(c)' = Shown(c) /\ st' = st /\ acking' = acking /\ main' = main
    BY <2>1, LocalLeaves
  <2>3. /\ new.at = "delay" /\ new.handler = cl[c].handler /\ new.sent = cl[c].sent
        /\ new.is_ready = 0 /\ new.ready_to_proceed = cl[c].ready_to_proceed
    BY <2>1, <2>2 DEF new, ClientProcess
  <2>4. OwnerInv(c)'
    BY <1>3, <1>4, <2>1, <2>3
  <2>5. Quiet(c)
    BY <1>7 DEF Relied
  <2>6. pending[c] = {} /\ UnderWay(c) = {}
    BY <2>5 DEF Quiet, FromTo, UnderWay
  <2>7. st.actual_pid # c
    BY <1>2, <2>1, <2>6 DEF Session, ClientInv, PingInv
  <2>8. ClientInv(c)'
    BY <1>2, <2>1, <2>2, <2>3, <2>6, <2>7
       DEF Session, ClientInv, PingInv, BetweenBits, AwaitingAck, Apart
  <2>9. ShownInv(c)'
    BY <1>2, <2>1, <2>2, <2>3 DEF Session, ShownInv
  <2>. QED  BY <1>1, <2>1, <2>4, <2>8, <2>9, LocalStep DEF Session
<1>8. CASE Retry(c)
  <2>. DEFINE new == [cl[c] EXCEPT !.at = "ping", !.attempt = @ + 1]
  <2>1. cl[c].at = "delay" /\ Local(c, new)
    BY <1>8 DEF Retry, At
  <2>. HIDE DEF new
  <2>2. /\ cl'[c] = new /\ cl[c] \in ClientProcess
        /\ pending' = pending /\ alive' = alive /\ UnderWay(c)' = UnderWay(c)
        /\ Shown(c)' = Shown(c) /\ st' = st /\ acking' = acking /\ main' = main
    BY <2>1, LocalLeaves
  <2>3. /\ new.at = "ping" /\ new.handler = cl[c].handler /\ new.sent = cl[c].sent
        /\ new.is_ready = cl[c].is_ready
        /\ new.ready_to_proceed = cl[c].ready_to_proceed
    BY <2>2 DEF new, ClientProcess
  <2>4. OwnerInv(c)'
    BY <1>3, <1>4, <2>1, <2>3
  <2>5. ClientInv(c)'
    BY <1>2, <2>1, <2>2, <2>3
       DEF Session, ClientInv, PingInv, BetweenBits, AwaitingAck, Apart
  <2>6. ShownInv(c)'
    BY <1>2, <2>1, <2>2, <2>3 DEF Session, ShownInv
  <2>. QED  BY <1>1, <2>1, <2>4, <2>5, <2>6, LocalStep DEF Session
<1>9. CASE InstallHandlers(c)
  <2>. DEFINE new == [cl[c] EXCEPT !.at = "slot", !.handler = "transfer"]
  <2>1. cl[c].at = "switch" /\ Local(c, new)
    BY <1>9 DEF InstallHandlers, At
  <2>. HIDE DEF new
  <2>2. /\ cl'[c] = new /\ cl[c] \in ClientProcess
        /\ pending' = pending /\ alive' = alive /\ UnderWay(c)' = UnderWay(c)
        /\ Shown(c)' = Shown(c) /\ st' = st /\ acking' = acking /\ main' = main
        /\ Received' = Received
    BY <2>1, LocalLeaves
  <2>3. /\ new.at = "slot" /\ new.handler = "transfer" /\ new.sent = cl[c].sent
        /\ new.ready_to_proceed = cl[c].ready_to_proceed
    BY <2>2 DEF new, ClientProcess
  <2>4. OwnerInv(c)'
    BY <1>3, <1>4, <2>1, <2>3
  <2>5. ClientInv(c)'
    BY <1>2, <2>1, <2>2, <2>3
       DEF Session, ClientInv, PingInv, BetweenBits, AwaitingAck, Apart
  <2>6. ShownInv(c)'
    BY <1>2, <2>1, <2>2, <2>3 DEF Session, ShownInv
  <2>. QED  BY <1>1, <2>1, <2>4, <2>5, <2>6, LocalStep DEF Session
<1>10. CASE AcquireSlot(c)
  <2>. DEFINE new == [cl[c] EXCEPT !.at = "send", !.transmission_active = 1]
  <2>1. cl[c].at = "slot" /\ Local(c, new)
    BY <1>10 DEF AcquireSlot, At
  <2>. HIDE DEF new
  <2>2. /\ cl'[c] = new /\ cl[c] \in ClientProcess
        /\ pending' = pending /\ alive' = alive /\ UnderWay(c)' = UnderWay(c)
        /\ Shown(c)' = Shown(c) /\ st' = st /\ acking' = acking /\ main' = main
        /\ Received' = Received
    BY <2>1, LocalLeaves
  <2>3. /\ new.at = "send" /\ new.handler = cl[c].handler /\ new.sent = cl[c].sent
        /\ new.ready_to_proceed = cl[c].ready_to_proceed
    BY <2>2 DEF new, ClientProcess
  <2>4. OwnerInv(c)'
    BY <1>3, <1>4, <2>1, <2>3
  <2>5. ClientInv(c)'
    BY <1>2, <2>1, <2>2, <2>3
       DEF Session, ClientInv, PingInv, BetweenBits, AwaitingAck, Apart
  <2>6. ShownInv(c)'
    BY <1>2, <2>1, <2>2, <2>3 DEF Session, ShownInv
  <2>. QED  BY <1>1, <2>1, <2>4, <2>5, <2>6, LocalStep DEF Session
<1>. QED  BY <1>5, <1>6, <1>7, <1>8, <1>9, <1>10

(* The server's counters, and the bits it waits for.                       *)
LEMMA Counters ==
    ASSUME TypeInv, NEW c \in Clients
    PROVE  /\ st \in ClientState /\ Received \in Nat
           /\ msg[c] \in Seq(Nat) /\ Len(msg[c]) \in Nat /\ Len(msg[c]) < 2^HEADER_SIZE
           /\ \A i \in 1..Len(msg[c]) : msg[c][i] < 2^CHAR_SIZE
           /\ cl[c] \in ClientProcess /\ cl[c].sent \in Nat
           /\ LastBit(c) \in Nat \ {0} /\ TotalBits(c) \in Nat /\ LastBit(c) <= TotalBits(c)
           /\ LastBit(c) >= HEADER_SIZE
           /\ ValidSize(Len(msg[c])) =>
                 LastBit(c) = HEADER_SIZE + CHAR_SIZE * Len(msg[c]) /\ LastBit(c) > HEADER_SIZE
           /\ ~ValidSize(Len(msg[c])) => LastBit(c) = HEADER_SIZE
<1>1. st \in ClientState /\ cl[c] \in ClientProcess /\ msg[c] \in Messages
  BY DEF TypeInv, TypeOK, ServerTypeOK, ClientTypeOK
<1>2. Received \in Nat
  BY <1>1, SizeAssumption DEF Received, ClientState
<1>3. msg[c] \in Seq(Nat) /\ Len(msg[c]) \in Nat
  <2>1. msg[c] \in Seq(Nat \ {0})
    BY <1>1, MessagesAssumption
  <2>2. \A i \in 1..Len(msg[c]) : msg[c][i] \in Nat
    BY <2>1
  <2>. QED  BY <2>1, <2>2
<1>4. Len(msg[c]) < 2^HEADER_SIZE /\ \A i \in 1..Len(msg[c]) : msg[c][i] < 2^CHAR_SIZE
  BY <1>1, WidthAssumption
<1>5. cl[c].sent \in Nat
  BY <1>1 DEF ClientProcess
<1>6. /\ LastBit(c) \in Nat \ {0} /\ TotalBits(c) \in Nat /\ LastBit(c) <= TotalBits(c)
      /\ LastBit(c) >= HEADER_SIZE
  <2>1. CHAR_SIZE * Len(msg[c]) \in Nat
    BY <1>3, SizeAssumption
  <2>. DEFINE chars == CHAR_SIZE * Len(msg[c])
  <2>2. TotalBits(c) = HEADER_SIZE + chars
    BY DEF TotalBits
  <2>3. LastBit(c) = TotalBits(c) \/ LastBit(c) = HEADER_SIZE
    BY DEF LastBit
  <2>. HIDE DEF chars
  <2>4. chars \in Nat
    BY <2>1 DEF chars
  <2>. QED  BY <2>2, <2>3, <2>4, SizeAssumption
<1>7. ASSUME ValidSize(Len(msg[c]))
      PROVE  LastBit(c) = HEADER_SIZE + CHAR_SIZE * Len(msg[c]) /\ LastBit(c) > HEADER_SIZE
  <2>1. LastBit(c) = HEADER_SIZE + CHAR_SIZE * Len(msg[c])
    BY <1>7 DEF LastBit, TotalBits
  <2>2. CHAR_SIZE * Len(msg[c]) \in Nat \ {0}
    BY <1>3, <1>7, SizeAssumption DEF ValidSize
  <2>. DEFINE chars == CHAR_SIZE * Len(msg[c])
  <2>3. HEADER_SIZE + chars > HEADER_SIZE
    <3>. HIDE DEF chars
    <3>1. chars \in Nat \ {0}
      BY <2>2 DEF chars
    <3>. QED  BY <3>1, SizeAssumption
  <2>. QED  BY <2>1, <2>3
<1>8. ~ValidSize(Len(msg[c])) => LastBit(c) = HEADER_SIZE
  BY DEF LastBit
<1>. QED  BY <1>1, <1>2, <1>3, <1>4, <1>5, <1>6, <1>7, <1>8

(* The acknowledgment is read and its flag taken down.                     *)
LEMMA AckSteps ==
    ASSUME TypeInv, SessionInv, NEW c \in Clients, UNCHANGED serverVars,
           AckSeen(c) \/ ClearAck(c)
    PROVE  SessionInv'
<1>1. c \in alive
  BY DEF AckSeen, ClearAck, At
<1>2. /\ main \notin Starting /\ Session(c)
      /\ st.actual_pid = c => main \notin Cleaning
  BY <1>1, Running
<1>. USE DEF Final, Points
<1>3. CASE AckSeen(c)
  <2>. DEFINE new == [cl[c] EXCEPT !.at = "clear"]
  <2>1. cl[c].at = "ack" /\ cl[c].ready_to_proceed = 1 /\ Local(c, new)
    BY <1>3 DEF AckSeen, At
  <2>. HIDE DEF new
  <2>2. /\ cl'[c] = new /\ cl[c] \in ClientProcess /\ msg' = msg
        /\ pending' = pending /\ alive' = alive /\ UnderWay(c)' = UnderWay(c)
        /\ Shown(c)' = Shown(c) /\ st' = st /\ acking' = acking /\ main' = main
        /\ Received' = Received
    BY <2>1, LocalLeaves
  <2>3. /\ new.at = "clear" /\ new.handler = cl[c].handler /\ new.sent = cl[c].sent
        /\ new.ready_to_proceed = 1
    BY <2>1, <2>2 DEF new, ClientProcess
  <2>4. /\ st.actual_pid = c /\ Received = cl[c].sent
        /\ UnderWay(c) = {} /\ pending[c] = {} /\ ~acking
    BY <1>2, <2>1 DEF Session, ClientInv, AwaitingAck
  <2>5. OwnerInv(c)'
    <3>1. OwnerInv(c)
      BY <1>2 DEF Session
    <3>. QED  BY <2>2, <2>3, <2>4, <3>1, OwnerKept
  <2>6. ClientInv(c)'
    BY <1>2, <2>1, <2>2, <2>3, <2>4
       DEF Session, ClientInv, PingInv, BetweenBits, AwaitingAck
  <2>7. ShownInv(c)'
    BY <1>2, <2>1, <2>2, <2>3, <2>4 DEF Session, ShownInv
  <2>. QED  BY <1>1, <2>1, <2>5, <2>6, <2>7, LocalStep DEF Session
<1>4. CASE ClearAck(c)
  <2>. DEFINE new == [cl[c] EXCEPT !.ready_to_proceed = 0,
                 !.at = IF cl[c].sent < TotalBits(c) THEN "send" ELSE "pause"]
  <2>1. cl[c].at = "clear" /\ Local(c, new)
    BY <1>4 DEF ClearAck, At
  <2>. HIDE DEF new
  <2>2. /\ cl'[c] = new /\ cl[c] \in ClientProcess /\ msg' = msg
        /\ pending' = pending /\ alive' = alive /\ UnderWay(c)' = UnderWay(c)
        /\ Shown(c)' = Shown(c) /\ st' = st /\ acking' = acking /\ main' = main
        /\ Received' = Received
    BY <2>1, LocalLeaves
  <2>3. /\ st.actual_pid = c /\ Received = cl[c].sent
        /\ UnderWay(c) = {} /\ pending[c] = {}
    BY <1>2, <2>1 DEF Session, ClientInv, BetweenBits
  <2>4. ~acking /\ Received < LastBit(c)
    BY <1>2, <2>1, <2>3 DEF Session, OwnerInv
  <2>5. cl[c].sent < TotalBits(c)
    BY <2>3, <2>4, Counters
  <2>6. /\ new.at = "send" /\ new.handler = cl[c].handler /\ new.sent = cl[c].sent
        /\ new.ready_to_proceed = 0
    BY <2>2, <2>5 DEF new, ClientProcess
  <2>7. OwnerInv(c)'
    <3>1. OwnerInv(c)
      BY <1>2 DEF Session
    <3>. QED  BY <2>2, <2>4, <2>6, <3>1, OwnerKept
  <2>8. ClientInv(c)'
    BY <1>2, <2>1, <2>2, <2>3, <2>6
       DEF Session, ClientInv, PingInv, BetweenBits, AwaitingAck
  <2>9. ShownInv(c)'
    BY <1>2, <2>1, <2>2, <2>3, <2>6 DEF Session, ShownInv
  <2>. QED  BY <1>1, <2>1, <2>7, <2>8, <2>9, LocalStep DEF Session
<1>. QED  BY <1>3, <1>4

(* The end of a client, if it tells the truth.                             *)
LEMMA ExitStep ==
    ASSUME TypeInv, SessionInv, NEW c \in Clients, c \in alive, UNCHANGED serverVars,
           NEW outcome \in Final, Exit(c, outcome), outcome = "success" => Shown(c)
    PROVE  SessionInv'
<1>. USE DEF Final, Points
<1>1. /\ main \notin Starting /\ Session(c)
      /\ cl[c] \in ClientProcess
  BY Running DEF TypeInv, TypeOK, ClientTypeOK
<1>2. /\ cl'[c].at = outcome /\ cl'[c].sent = cl[c].sent
      /\ \A d \in Clients : d # c => cl'[d] = cl[d]
      /\ msg' = msg
  BY <1>1 DEF Exit, ClientProcess, TypeInv, TypeOK, ClientTypeOK
<1>3. /\ KernelInv' /\ pending'[c] = {} /\ c \notin alive'
      /\ \A q \in Procs : q # c => pending'[q] = pending[q] /\ (q \in alive' <=> q \in alive)
  BY ProcessEnds DEF Exit, SessionInv, Procs
<1>4. c # Server /\ Server \in Procs /\ Clients \subseteq Procs
  BY ProcessAssumption DEF Procs
<1>5. \A d \in Clients : UnderWay(d)' = UnderWay(d)
  BY <1>3, <1>4 DEF UnderWay
<1>6. Shown(c)' = Shown(c) /\ st' = st /\ acking' = acking /\ main' = main
  BY DEF serverVars, Shown
<1>7. OwnerInv(c)'
  BY <1>1, <1>2, <1>5, OwnerKept DEF Session
<1>8. ClientInv(c)'
  BY <1>1, <1>2, <1>3, <1>5, <1>6
     DEF Session, ClientInv, PingInv, BetweenBits, AwaitingAck
<1>9. ShownInv(c)'
  BY <1>1, <1>2, <1>5, <1>6 DEF Session, ShownInv
<1>. QED  BY <1>1, <1>2, <1>3, <1>4, <1>5, <1>7, <1>8, <1>9, ClientStep DEF Session

(* A client is started: the server is there before it.                     *)
LEMMA LaunchStep ==
    ASSUME TypeInv, SessionInv, Relied, NEW c \in Clients, Arrive(c)
    PROVE  SessionInv'
<1>. USE DEF Final, Points
<1>1. main \notin Starting
  BY DEF Arrive, Relied
<1>2. /\ cl[c].at = "absent" /\ alive' = alive \cup {c}
      /\ cl' = [cl EXCEPT ![c].at = "start"] /\ pending' = pending /\ msg' = msg
      /\ UNCHANGED serverVars
  BY DEF Arrive, Launch
<1>3. /\ cl[c] \in ClientProcess /\ Session(c)
      /\ c # Server
  BY ProcessAssumption DEF TypeInv, TypeOK, ClientTypeOK, SessionInv
<1>4. /\ cl'[c].at = "start" /\ cl'[c].sent = cl[c].sent
      /\ cl'[c].handler = cl[c].handler /\ cl'[c].is_ready = cl[c].is_ready
      /\ cl'[c].ready_to_proceed = cl[c].ready_to_proceed
      /\ \A d \in Clients : d # c => cl'[d] = cl[d]
  BY <1>2, <1>3 DEF ClientProcess, TypeInv, TypeOK, ClientTypeOK
<1>5. \A d \in Clients : UnderWay(d)' = UnderWay(d)
  BY <1>2 DEF UnderWay
<1>6. Shown(c)' = Shown(c) /\ st' = st /\ acking' = acking /\ main' = main
  BY <1>2 DEF serverVars, Shown
<1>7. KernelInv'
  BY <1>2 DEF SessionInv, KernelInv
<1>8. st.actual_pid # c
  BY <1>2, <1>3 DEF Session, ClientInv, PingInv, Apart
<1>9. OwnerInv(c)'
  BY <1>6, <1>8 DEF OwnerInv
<1>10. ClientInv(c)'
  BY <1>2, <1>3, <1>4, <1>5, <1>6
     DEF Session, ClientInv, PingInv, BetweenBits, AwaitingAck, Apart
<1>11. ShownInv(c)'
  BY <1>2, <1>3, <1>4, <1>5, <1>6 DEF Session, ShownInv
<1>12. \A d \in Clients : d # c => (d \in alive' <=> d \in alive)
  BY <1>2
<1>. QED  BY <1>1, <1>2, <1>4, <1>5, <1>7, <1>9, <1>10, <1>11, <1>12, ClientStep
          DEF Session

(* The steps that end a client before its message is shown.                *)
LEMMA FailureSteps ==
    ASSUME TypeInv, SessionInv, NEW c \in Clients, UNCHANGED serverVars,
           \/ ServerGone(c) \/ GiveUp(c) \/ AckExpire(c)
           \/ c \in alive /\ Exit(c, "killed")
    PROVE  SessionInv'
<1>1. c \in alive /\ \E o \in {"failure", "killed"} : Exit(c, o)
  BY DEF ServerGone, GiveUp, AckExpire, At
<1>. QED  BY <1>1, ExitStep DEF Final

(* What a client finds once a step of c has sent at most one signal.       *)
LEMMA SendLeaves ==
    ASSUME TypeInv, SessionInv, NEW c \in Clients, c \in alive, NEW s \in Sigs, NEW new,
           Send(c, s, new), UnderWay(c) = {}, UNCHANGED serverVars
    PROVE  /\ KernelInv'
           /\ cl'[c] = new /\ \A d \in Clients : d # c => cl'[d] = cl[d]
           /\ msg' = msg /\ alive' = alive /\ pending'[c] = pending[c]
           /\ \A d \in Clients : d # c =>
                 pending'[d] = pending[d] /\ UnderWay(d)' = UnderWay(d)
           /\ UnderWay(c)' \subseteq {[sig |-> s, from |-> c]}
           /\ Shown(c)' = Shown(c) /\ st' = st /\ acking' = acking /\ main' = main
           /\ Received' = Received /\ LastBit(c)' = LastBit(c)
           /\ HeaderDecoded(c)' = HeaderDecoded(c) /\ TextDecoded(c)' = TextDecoded(c)
<1>1. /\ pending' = Kill(pending, c, Server, s) /\ alive' = alive
      /\ cl' = [cl EXCEPT ![c] = new] /\ msg' = msg
      /\ st' = st /\ acking' = acking /\ main' = main /\ printed' = printed
  BY DEF Send, serverVars
<1>2. cl'[c] = new /\ \A d \in Clients : d # c => cl'[d] = cl[d]
  BY <1>1 DEF TypeInv, TypeOK, ClientTypeOK
<1>3. /\ KernelInv'
      /\ \A d \in Clients : pending'[d] = pending[d]
      /\ \A d \in Clients : d # c => UnderWay(d)' = UnderWay(d)
      /\ UnderWay(c)' \subseteq {[sig |-> s, from |-> c]}
  BY <1>1, ClientSends DEF SessionInv
<1>4. HeaderDecoded(c)' = HeaderDecoded(c) /\ TextDecoded(c)' = TextDecoded(c)
  BY <1>1 DEF HeaderDecoded, TextDecoded, TextSoFar, SizeAfter, Upper
<1>. QED  BY <1>1, <1>2, <1>3, <1>4
          DEF Shown, Received, LastBit, TotalBits

(* A ping, or a bit.                                                       *)
LEMMA SendSteps ==
    ASSUME TypeInv, SessionInv, NEW c \in Clients, UNCHANGED serverVars,
           SendPing(c) \/ SendBit(c)
    PROVE  SessionInv'
<1>1. c \in alive
  BY DEF SendPing, SendBit, At
<1>2. /\ main \notin Starting /\ Session(c)
      /\ st.actual_pid = c => main \notin Cleaning
  BY <1>1, Running
<1>. USE DEF Final, Points
<1>3. CASE SendPing(c)
  <2>. DEFINE new == [cl[c] EXCEPT !.at = "check"]
  <2>1. cl[c].at = "ping" /\ Send(c, "USR1", new) /\ "USR1" \in Sigs
    BY <1>3 DEF SendPing, At, Sigs
  <2>. HIDE DEF new
  <2>2. Apart(c) /\ cl[c].is_ready = 0 /\ cl[c].sent = 0 /\ cl[c].ready_to_proceed = 0
        /\ cl[c].handler = "ping"
    BY <1>2, <2>1 DEF Session, ClientInv, PingInv
  <2>3. /\ KernelInv' /\ cl'[c] = new /\ msg' = msg /\ alive' = alive
        /\ pending'[c] = {}
        /\ UnderWay(c)' \subseteq {[sig |-> "USR1", from |-> c]}
        /\ Shown(c)' = Shown(c) /\ st' = st /\ main' = main
        /\ \A d \in Clients : d # c =>
              cl'[d] = cl[d] /\ pending'[d] = pending[d] /\ UnderWay(d)' = UnderWay(d)
    BY <1>1, <2>1, <2>2, SendLeaves DEF Apart
  <2>4. /\ new.at = "check" /\ new.handler = "ping" /\ new.sent = 0
        /\ new.is_ready = 0 /\ new.ready_to_proceed = 0
    BY <2>2, Counters DEF new, ClientProcess
  <2>5. OwnerInv(c)'
    BY <2>2, <2>3 DEF OwnerInv, Apart
  <2>6. ClientInv(c)'
    BY <1>2, <2>1, <2>2, <2>3, <2>4
       DEF Session, ClientInv, PingInv, BetweenBits, AwaitingAck, Apart
  <2>7. ShownInv(c)'
    BY <1>2, <2>1, <2>3, <2>4 DEF Session, ShownInv
  <2>. QED  BY <1>1, <1>2, <2>3, <2>5, <2>6, <2>7, ClientStep DEF Session
<1>4. CASE SendBit(c)
  <2>. DEFINE new == [cl[c] EXCEPT !.at = "ack", !.sent = @ + 1]
              k == cl[c].sent + 1
              s == SignalOf(BitAt(c, k))
  <2>1. cl[c].at = "send" /\ Send(c, s, new) /\ s \in Sigs
    BY <1>4 DEF SendBit, At, Sigs, SignalOf
  <2>. HIDE DEF new, s
  <2>2. /\ st.actual_pid = c /\ Received = cl[c].sent
        /\ pending[c] = {} /\ UnderWay(c) = {} /\ cl[c].ready_to_proceed = 0
        /\ cl[c].handler = "transfer"
    BY <1>2, <2>1 DEF Session, ClientInv, BetweenBits
  <2>3. /\ KernelInv' /\ cl'[c] = new /\ msg' = msg /\ alive' = alive
        /\ pending'[c] = {}
        /\ UnderWay(c)' \subseteq {[sig |-> s, from |-> c]}
        /\ Shown(c)' = Shown(c) /\ st' = st /\ acking' = acking /\ main' = main
        /\ \A d \in Clients : d # c =>
              cl'[d] = cl[d] /\ pending'[d] = pending[d] /\ UnderWay(d)' = UnderWay(d)
        /\ Received' = Received /\ LastBit(c)' = LastBit(c)
        /\ HeaderDecoded(c)' = HeaderDecoded(c) /\ TextDecoded(c)' = TextDecoded(c)
    <3>. HIDE DEF k
    <3>. QED  BY <1>1, <2>1, <2>2, SendLeaves
  <2>4. /\ new.at = "ack" /\ new.handler = "transfer" /\ new.sent = k
        /\ new.ready_to_proceed = 0 /\ k \in Nat /\ k > 0 /\ k - 1 = cl[c].sent
    BY <2>2, Counters DEF new, ClientProcess
  <2>5. ~acking
    BY <1>2, <2>1, <2>2 DEF Session, OwnerInv
  <2>6. OwnerInv(c)'
    <3>1. /\ st.getting_header + st.getting_msg = 1
          /\ HeaderDecoded(c) /\ TextDecoded(c)
          /\ Received < LastBit(c)
      BY <1>2, <2>2 DEF Session, OwnerInv
    <3>2. ASSUME NEW m \in UnderWay(c)'
          PROVE  m.sig = SignalOf(BitAt(c, cl[c].sent)')
      <4>1. m.sig = s
        BY <2>3
      <4>2. BitAt(c, cl[c].sent)' = BitAt(c, k)
        BY <2>3, <2>4 DEF BitAt
      <4>. QED  BY <4>1, <4>2 DEF s
    <3>. QED  BY <2>2, <2>3, <2>4, <2>5, <3>1, <3>2 DEF OwnerInv
  <2>7. ClientInv(c)'
    BY <1>2, <2>1, <2>2, <2>3, <2>4
       DEF Session, ClientInv, PingInv, BetweenBits, AwaitingAck
  <2>8. ShownInv(c)'
    BY <1>2, <2>1, <2>2, <2>3, <2>4 DEF Session, ShownInv
  <2>. QED  BY <1>1, <1>2, <2>3, <2>6, <2>7, <2>8, ClientStep DEF Session
<1>. QED  BY <1>3, <1>4

(* The signals a client handles are answers of the server it is waiting    *)
(* for: READY or BUSY to a ping, an acknowledgment or the confirmation.    *)
LEMMA SignalSteps ==
    ASSUME TypeInv, SessionInv, NEW c \in Clients, ClientHandler(c)
    PROVE  SessionInv'
<1>. USE DEF Final, Points
<1>1. PICK m \in pending[c] :
        DefaultAction(c, m) \/ Pinged(c, m) \/ Acknowledged(c, m) \/ Confirmed(c, m)
  BY DEF ClientHandler, ClientSignal
<1>2. UNCHANGED serverVars
  BY DEF ClientHandler
<1>3. c \in alive /\ c \in Procs /\ c # Server /\ m.from = Server
  BY ProcessAssumption DEF SessionInv, KernelInv, Procs
<1>4. /\ main \notin Starting /\ Session(c) /\ cl[c].at \notin {"absent"} \cup Final
      /\ st.actual_pid = c => main \notin Cleaning
  BY <1>3, Running
<1>5. cl[c] \in ClientProcess /\ pending \in [Procs -> SUBSET Signal]
  BY DEF TypeInv, TypeOK, KernelTypeOK, ClientTypeOK
<1>6. cl[c].at \in {"check", "ack"}
  BY <1>4, <1>5 DEF Session, ClientInv, PingInv, BetweenBits, Apart, ClientProcess
<1>7. cl[c].handler = IF cl[c].at = "check" THEN "ping" ELSE "transfer"
  BY <1>4, <1>6 DEF Session, ClientInv
<1>8. ASSUME NEW new, Deliver(c, m, new)
      PROVE  /\ cl'[c] = new /\ msg' = msg /\ alive' = alive
             /\ pending'[c] = pending[c] \ {m}
             /\ \A d \in Clients : d # c => cl'[d] = cl[d] /\ pending'[d] = pending[d]
             /\ \A d \in Clients : UnderWay(d)' = UnderWay(d)
             /\ KernelInv'
             /\ Shown(c)' = Shown(c) /\ st' = st /\ acking' = acking /\ main' = main
             /\ Received' = Received /\ LastBit(c)' = LastBit(c)
  <2>1. /\ cl' = [cl EXCEPT ![c] = new] /\ msg' = msg /\ alive' = alive
        /\ pending' = [pending EXCEPT ![c] = @ \ {m}]
        /\ st' = st /\ acking' = acking /\ main' = main /\ printed' = printed
    BY <1>2, <1>8 DEF Deliver, Taken, serverVars
  <2>2. cl'[c] = new /\ \A d \in Clients : d # c => cl'[d] = cl[d]
    BY <2>1 DEF TypeInv, TypeOK, ClientTypeOK
  <2>3. /\ pending'[c] = pending[c] \ {m}
        /\ \A p \in Procs : p # c => pending'[p] = pending[p]
    BY <1>3, <1>5, <2>1
  <2>4. \A d \in Clients : d # c => pending'[d] = pending[d]
    BY <2>3 DEF Procs
  <2>5. \A d \in Clients : UnderWay(d)' = UnderWay(d)
    BY <1>3, <2>3 DEF UnderWay, Procs
  <2>6. KernelInv'
    BY <1>3, <2>1, <2>3 DEF SessionInv, KernelInv, Procs
  <2>. QED  BY <2>1, <2>2, <2>3, <2>4, <2>5, <2>6
            DEF Shown, Received, LastBit, TotalBits
<1>9. CASE DefaultAction(c, m)
  BY <1>6, <1>7, <1>9 DEF DefaultAction
<1>10. CASE Pinged(c, m)
  <2>. DEFINE new == [cl[c] EXCEPT !.is_ready = IF m.sig = "USR1" THEN 1 ELSE 0]
  <2>1. cl[c].handler = "ping" /\ Deliver(c, m, new)
    BY <1>10 DEF Pinged
  <2>2. cl[c].at = "check"
    BY <1>6, <1>7, <2>1
  <2>3. /\ new.at = "check" /\ new.handler = "ping" /\ new.sent = cl[c].sent
        /\ new.is_ready = (IF m.sig = "USR1" THEN 1 ELSE 0)
        /\ new.ready_to_proceed = cl[c].ready_to_proceed
    BY <1>5, <2>1, <2>2 DEF ClientProcess
  <2>. HIDE DEF new
  <2>4. /\ UnderWay(c) = {} /\ cl[c].is_ready = 0
        /\ cl[c].sent = 0 /\ cl[c].ready_to_proceed = 0
        /\ pending[c] = {m} /\ (m = Reply("USR1") \/ m = Reply("USR2"))
        /\ st.actual_pid = c <=> m = Reply("USR1")
    <3>1. /\ UnderWay(c) # {} => pending[c] = {} /\ cl[c].is_ready = 0
          /\ pending[c] # {} => cl[c].is_ready = 0
          /\ pending[c] \in {{}, {Reply("USR1")}, {Reply("USR2")}}
          /\ st.actual_pid = c <=> cl[c].is_ready = 1 \/ Reply("USR1") \in pending[c]
          /\ cl[c].sent = 0 /\ cl[c].ready_to_proceed = 0
      BY <1>4, <2>2 DEF Session, ClientInv, PingInv
    <3>2. m \in pending[c]
      OBVIOUS
    <3>. QED  BY <3>1, <3>2
  <2>5. m.sig = "USR1" <=> m = Reply("USR1")
    <3>1. Reply("USR1").sig = "USR1" /\ Reply("USR2").sig = "USR2"
      BY DEF Reply
    <3>. QED  BY <2>4, <3>1
  <2>6. /\ cl'[c] = new /\ msg' = msg /\ alive' = alive /\ pending'[c] = {}
        /\ \A d \in Clients : d # c => cl'[d] = cl[d] /\ pending'[d] = pending[d]
        /\ \A d \in Clients : UnderWay(d)' = UnderWay(d)
        /\ KernelInv'
        /\ Shown(c)' = Shown(c) /\ st' = st /\ acking' = acking
    BY <1>8, <2>1, <2>4
  <2>7. OwnerInv(c)'
    <3>1. OwnerInv(c) /\ (st.actual_pid = c /\ main \notin Cleaning => ~acking)
      BY <1>4, <2>2 DEF Session, OwnerInv
    <3>. QED  BY <1>2, <2>3, <2>6, <3>1, OwnerKept
  <2>8. PingInv(c)'
    BY <2>3, <2>4, <2>5, <2>6 DEF PingInv
  <2>9. ClientInv(c)'
    BY <1>4, <2>2, <2>3, <2>4, <2>6, <2>8 DEF Session, ClientInv, BetweenBits, AwaitingAck
  <2>10. ShownInv(c)'
    BY <1>4, <2>2, <2>3, <2>6 DEF Session, ShownInv
  <2>. QED  BY <1>2, <1>3, <1>4, <2>6, <2>7, <2>9, <2>10, ClientStep DEF Session
<1>11. CASE Acknowledged(c, m)
  <2>. DEFINE new == [cl[c] EXCEPT !.ready_to_proceed = 1]
  <2>1. cl[c].handler = "transfer" /\ m.sig = "USR2" /\ Deliver(c, m, new)
    BY <1>11 DEF Acknowledged
  <2>2. cl[c].at = "ack"
    BY <1>6, <1>7, <2>1
  <2>3. /\ new.at = "ack" /\ new.handler = "transfer" /\ new.sent = cl[c].sent
        /\ new.ready_to_proceed = 1
    BY <1>5, <2>1, <2>2 DEF ClientProcess
  <2>. HIDE DEF new
  <2>4. m # Reply("USR1")
    BY <2>1 DEF Reply
  <2>5. /\ cl[c].sent > 0 /\ st.actual_pid = c /\ Received = cl[c].sent
        /\ UnderWay(c) = {} /\ pending[c] = {m} /\ ~acking
    BY <1>4, <2>2, <2>4 DEF Session, ClientInv, AwaitingAck
  <2>6. /\ cl'[c] = new /\ msg' = msg /\ alive' = alive /\ pending'[c] = {}
        /\ \A d \in Clients : d # c => cl'[d] = cl[d] /\ pending'[d] = pending[d]
        /\ \A d \in Clients : UnderWay(d)' = UnderWay(d)
        /\ KernelInv' /\ Received' = Received
        /\ Shown(c)' = Shown(c) /\ st' = st /\ acking' = acking
    BY <1>8, <2>1, <2>5
  <2>7. OwnerInv(c)'
    <3>1. OwnerInv(c)
      BY <1>4 DEF Session
    <3>. QED  BY <1>2, <2>3, <2>5, <2>6, <3>1, OwnerKept
  <2>8. AwaitingAck(c)'
    BY <2>3, <2>5, <2>6 DEF AwaitingAck
  <2>9. ClientInv(c)'
    BY <1>4, <2>2, <2>3, <2>5, <2>6, <2>8 DEF Session, ClientInv, BetweenBits, PingInv
  <2>10. ShownInv(c)'
    BY <1>4, <2>2, <2>3, <2>6 DEF Session, ShownInv
  <2>. QED  BY <1>2, <1>3, <1>4, <2>6, <2>7, <2>9, <2>10, ClientStep DEF Session
<1>12. CASE Confirmed(c, m)
  <2>1. cl[c].handler = "transfer" /\ m.sig = "USR1" /\ Exit(c, "success")
    BY <1>12 DEF Confirmed
  <2>2. cl[c].at = "ack"
    BY <1>6, <1>7, <2>1
  <2>3. m # Reply("USR2")
    BY <2>1 DEF Reply
  <2>4. Shown(c)
    BY <1>4, <2>2, <2>3 DEF Session, ClientInv, AwaitingAck
  <2>. QED  BY <1>2, <1>3, <2>1, <2>4, ExitStep
<1>. QED  BY <1>1, <1>9, <1>10, <1>11, <1>12

(* All steps of a client.                                                  *)
LEMMA ClientSteps ==
    ASSUME TypeInv, SessionInv, Relied, NEW c \in Clients,
           Arrive(c) \/ ClientMain(c) \/ ClientHandler(c) \/ ClientCrash(c)
    PROVE  SessionInv'
<1>1. CASE ClientMain(c)
  <2>1. UNCHANGED serverVars
    BY <1>1 DEF ClientMain
  <2>2. CASE \/ Start(c) \/ PollReady(c)
             \/ PingExpire(c) /\ ("ping" \in Faults \/ Quiet(c))
             \/ Retry(c) \/ InstallHandlers(c) \/ AcquireSlot(c)
    BY <2>1, <2>2, ConnectSteps
  <2>3. CASE AckSeen(c) \/ ClearAck(c)
    BY <2>1, <2>3, AckSteps
  <2>4. CASE ServerGone(c) \/ GiveUp(c) \/ AckExpire(c)
    BY <2>1, <2>4, FailureSteps
  <2>5. CASE SendPing(c) \/ SendBit(c)
    BY <2>1, <2>5, SendSteps
  <2>6. \/ Start(c) \/ PollReady(c)
        \/ PingExpire(c) /\ ("ping" \in Faults \/ Quiet(c))
        \/ Retry(c) \/ InstallHandlers(c) \/ AcquireSlot(c)
        \/ AckSeen(c) \/ ClearAck(c)
        \/ ServerGone(c) \/ GiveUp(c) \/ AckExpire(c)
        \/ SendPing(c) \/ SendBit(c)
    BY <1>1 DEF ClientMain
  <2>. QED  BY <2>2, <2>3, <2>4, <2>5, <2>6
<1>2. CASE ClientCrash(c)
  BY <1>2, FailureSteps DEF ClientCrash
<1>. QED  BY <1>1, <1>2, LaunchStep, SignalSteps

(***************************************************************************)
(* Steps of the server's main thread                                       *)
(***************************************************************************)
(* What none of them touches.                                              *)
LEMMA MainLeaves ==
    ASSUME SessionInv, ServerMain
    PROVE  /\ UNCHANGED <<pending, alive, acking, printed, cl, msg>>
           /\ \A c \in Clients : UnderWay(c)' = UnderWay(c) /\ Shown(c)' = Shown(c)
           /\ KernelInv' /\ ShownAsSent'
<1>1. UNCHANGED <<pending, alive, acking, printed, cl, msg>>
  BY DEF ServerMain, Boot, StartMonitoring, OwnerLeft, OwnerActive, OwnerIdle,
         HandleTimeout, CleanMessage, ResetState, CleanStep, Advance,
         kernelVars, clientVars
<1>. QED  BY <1>1 DEF SessionInv, KernelInv, ShownAsSent, UnderWay, Shown

(* The owner, if there is one, keeps its session.                          *)
LEMMA SessionsKept ==
    ASSUME SessionInv, ServerMain, st'.actual_pid = st.actual_pid, SameSession,
           main' \notin Cleaning => main \notin Cleaning
    PROVE  \A c \in Clients : Session(c)'
<1>1. ASSUME NEW c \in Clients  PROVE Session(c)'
  <2>1. Session(c)
    BY DEF SessionInv
  <2>2. /\ cl'[c] = cl[c] /\ msg' = msg /\ pending'[c] = pending[c] /\ alive' = alive
        /\ UnderWay(c)' = UnderWay(c) /\ Shown(c)' = Shown(c) /\ acking' = acking
    BY MainLeaves
  <2>. QED  BY <2>1, <2>2, Untouched
<1>. QED  BY <1>1

(* The owner, if there is one, is dead and cleaned away.                   *)
LEMMA SessionsCleaned ==
    ASSUME SessionInv, ServerMain, main \in {"expired"} \cup Cleaning,
           st'.actual_pid = NoOne \/ (st'.actual_pid = st.actual_pid /\ main' \in Cleaning)
    PROVE  \A c \in Clients : Session(c)'
<1>. USE DEF Final
<1>1. ASSUME NEW c \in Clients, st.actual_pid # c  PROVE Session(c)'
  <2>1. Session(c) /\ c # NoOne
    BY ProcessAssumption DEF SessionInv
  <2>2. /\ cl'[c] = cl[c] /\ msg' = msg /\ pending'[c] = pending[c] /\ alive' = alive
        /\ UnderWay(c)' = UnderWay(c) /\ Shown(c)' = Shown(c)
    BY MainLeaves
  <2>3. st'.actual_pid # c
    BY <1>1, <2>1
  <2>. QED  BY <1>1, <2>1, <2>2, <2>3, Untouched
<1>2. ASSUME NEW c \in Clients, st.actual_pid = c  PROVE Session(c)'
  <2>1. Session(c) /\ c # NoOne
    BY ProcessAssumption DEF SessionInv
  <2>2. c \notin alive /\ UnderWay(c) = {}
    BY <1>2, <2>1 DEF SessionInv, ServerInv
  <2>3. /\ cl'[c] = cl[c] /\ pending'[c] = pending[c] /\ alive' = alive
        /\ UnderWay(c)' = UnderWay(c) /\ Shown(c)' = Shown(c)
    BY MainLeaves
  <2>4. cl[c].at \in Final /\ ~Shown(c) /\ cl[c].at # "success"
    BY <1>2, <2>1, <2>2 DEF Session, ClientInv, PingInv, Apart, ShownInv
  <2>5. OwnerInv(c)'
    BY <1>2, <2>1 DEF OwnerInv
  <2>6. ClientInv(c)'
    BY <2>1, <2>2, <2>3, <2>4 DEF Session, ClientInv, PingInv, BetweenBits, AwaitingAck
  <2>7. ShownInv(c)'
    BY <2>3, <2>4 DEF ShownInv
  <2>. QED  BY <2>5, <2>6, <2>7 DEF Session
<1>. QED  BY <1>1, <1>2

(* Setting up.                                                             *)
LEMMA BootSteps ==
    ASSUME TypeInv, SessionInv, ServerMain, Boot
    PROVE  SessionInv'
<1>. USE DEF Starting, Cleaning, Wiping, Advance
<1>1. /\ main \in Starting /\ ~initialized /\ ~acking /\ pending[Server] = {}
      /\ st.actual_pid = NoOne /\ st.client_pid = NoOne
      /\ \A c \in Clients : cl[c].at = "absent"
  BY DEF Boot, SessionInv, ServerInv
<1>2. FreshState.actual_pid = NoOne /\ FreshState.client_pid = NoOne
  BY DEF FreshState, Zeroed
<1>3. /\ st'.actual_pid = NoOne /\ st'.client_pid = NoOne
      /\ \/ main' \in Starting /\ ~initialized'
         \/ main' = "poll" /\ initialized'
  BY <1>1, <1>2 DEF Boot
<1>4. /\ UNCHANGED <<pending, alive, acking, printed, cl, msg>>
      /\ \A c \in Clients : UnderWay(c)' = UnderWay(c) /\ Shown(c)' = Shown(c)
      /\ KernelInv' /\ ShownAsSent'
  BY MainLeaves
<1>5. ServerInv'
  BY <1>1, <1>3, <1>4 DEF ServerInv
<1>6. ASSUME NEW c \in Clients  PROVE Session(c)'
  <2>1. Session(c) /\ c # NoOne
    BY ProcessAssumption DEF SessionInv
  <2>. QED  BY <1>1, <1>3, <1>4, <2>1, Untouched
<1>. QED  BY <1>4, <1>5, <1>6 DEF SessionInv

(* Watching the owner.  It is dropped only once it is dead.                *)
LEMMA MonitorSteps ==
    ASSUME TypeInv, SessionInv, Relied, ServerMain,
           \/ StartMonitoring \/ OwnerLeft \/ OwnerActive \/ HandleTimeout
           \/ OwnerIdle /\ ("idle" \in Faults \/ OwnerSilent)
    PROVE  SessionInv'
<1>. USE DEF Starting, Cleaning, Wiping, Advance
<1>1. /\ main \in {"poll", "monitor", "expired"}
      /\ main' \in {"poll", "monitor", "expired", "clean"}
      /\ initialized' = initialized
  BY DEF StartMonitoring, OwnerLeft, OwnerActive, HandleTimeout, OwnerIdle
<1>2. /\ st'.actual_pid = st.actual_pid /\ st'.client_pid = st.client_pid
      /\ SameSession
  <2>1. CASE st' = st
    BY <2>1 DEF SameSession
  <2>2. CASE st' = [st EXCEPT !.client_activity = 0]
    BY <2>2 DEF SameSession, TypeInv, TypeOK, ServerTypeOK, ClientState
  <2>. QED  BY <2>1, <2>2
            DEF StartMonitoring, OwnerLeft, OwnerActive, HandleTimeout, OwnerIdle
<1>3. /\ UNCHANGED <<pending, alive, acking, printed, cl, msg>>
      /\ \A c \in Clients : UnderWay(c)' = UnderWay(c)
      /\ KernelInv' /\ ShownAsSent'
  BY MainLeaves
<1>4. \A c \in Clients : Session(c)'
  BY <1>1, <1>2, SessionsKept
<1>5. ASSUME main' \in {"expired", "clean"}, NEW c \in Clients, st.actual_pid = c
      PROVE  c \notin alive /\ UnderWay(c) = {}
  <2>1. CASE main = "expired"
    <3>1. c # NoOne
      BY ProcessAssumption
    <3>. QED  BY <1>5, <2>1, <3>1 DEF SessionInv, ServerInv
  <2>2. CASE main # "expired"
    <3>1. OwnerIdle /\ ("idle" \in Faults \/ OwnerSilent)
      BY <1>1, <1>5, <2>2 DEF StartMonitoring, OwnerLeft, OwnerActive, HandleTimeout
    <3>2. OwnerSilent
      BY <3>1 DEF Relied
    <3>3. UnderWay(c) = {} /\ (c \in alive => cl[c].at = "pause")
      BY <1>5, <3>2 DEF OwnerSilent, FromTo, UnderWay
    <3>4. cl[c].at # "pause"
      BY DEF SessionInv, Session, ClientInv
    <3>. QED  BY <3>3, <3>4
  <2>. QED  BY <2>1, <2>2
<1>6. main' \in {"expired", "clean"} => st.actual_pid # NoOne
  BY DEF StartMonitoring, OwnerLeft, OwnerActive, HandleTimeout, OwnerIdle
<1>7. ServerInv'
  <2>1. main' \in {"expired"} \cup Cleaning /\ st.actual_pid # NoOne =>
           st.actual_pid \notin alive /\ {n \in pending[Server] : n.from = st.actual_pid} = {}
    BY <1>1, <1>5 DEF SessionInv, ServerInv, UnderWay
  <2>. QED  BY <1>1, <1>2, <1>3, <1>6, <2>1 DEF SessionInv, ServerInv, UnderWay
<1>. QED  BY <1>3, <1>4, <1>7 DEF SessionInv

(* Cleaning up after it.                                                   *)
LEMMA CleanSteps ==
    ASSUME TypeInv, SessionInv, ServerMain, CleanMessage \/ ResetState
    PROVE  SessionInv'
<1>. USE DEF Starting, Cleaning, Wiping, Advance, CleanStep
<1>1. /\ main \in Cleaning /\ initialized' = initialized
      /\ st \in ClientState
  BY DEF CleanMessage, ResetState, TypeInv, TypeOK, ServerTypeOK
<1>2. /\ \/ /\ st'.actual_pid = st.actual_pid /\ st'.client_pid = st.client_pid
            /\ main' \in Cleaning \/ main \in Wiping
            /\ main' \in Wiping => main \in Wiping
         \/ /\ st'.actual_pid = NoOne /\ st'.client_pid = NoOne
            /\ main' \in Wiping
      /\ main' \in Cleaning \cup {"poll"}
  <2>1. CASE CleanMessage
    BY <1>1, <2>1 DEF CleanMessage, ClientState
  <2>2. CASE ResetState
    BY <1>1, <2>2 DEF ResetState, ClientState
  <2>. QED  BY <2>1, <2>2
<1>3. /\ UNCHANGED <<pending, alive, acking, printed, cl, msg>>
      /\ \A c \in Clients : UnderWay(c)' = UnderWay(c)
      /\ KernelInv' /\ ShownAsSent'
  BY MainLeaves
<1>4. main \in Wiping => st.actual_pid = NoOne
  BY DEF SessionInv, ServerInv
<1>5. \A c \in Clients : Session(c)'
  <2>1. st'.actual_pid = NoOne \/ (st'.actual_pid = st.actual_pid /\ main' \in Cleaning)
    BY <1>2, <1>4
  <2>2. main \in {"expired"} \cup Cleaning
    BY <1>1
  <2>. QED  BY <2>1, <2>2, SessionsCleaned
<1>6. ServerInv'
  BY <1>1, <1>2, <1>3, <1>4 DEF SessionInv, ServerInv, UnderWay
<1>. QED  BY <1>3, <1>5, <1>6 DEF SessionInv

(***************************************************************************)
(* Steps of the server's signal handler                                    *)
(***************************************************************************)
(* It runs once the server is set up, and never inside clean_global.       *)
LEMMA Handling ==
    ASSUME TypeInv, SessionInv, Relied, main \in Cleaning => "preempt" \in Faults,
           NEW m \in pending[Server]
    PROVE  /\ main \notin Starting /\ main \notin Cleaning
           /\ initialized /\ Instance = st /\ st \in ClientState
           /\ Sender(m) = m.from /\ Installed(m.sig) /\ m.from \in Clients \cup {Server}
           /\ m.from \in Clients => UnderWay(m.from) = {m}
           /\ main = "expired" => st.actual_pid # NoOne /\ m.from # st.actual_pid
<1>1. main \notin Cleaning
  BY DEF Relied
<1>2. main \notin Starting /\ initialized
  BY DEF SessionInv, ServerInv
<1>3. Instance = st /\ st \in ClientState
  BY <1>2 DEF Instance, TypeInv, TypeOK, ServerTypeOK
<1>4. m.from \in Procs
  BY EnterType
<1>5. Sender(m) = m.from
  BY <1>4, ProcessAssumption DEF Sender, Procs
<1>6. Installed(m.sig)
  BY <1>2 DEF Installed, Starting
<1>7. m.from \in Clients => UnderWay(m.from) = {m}
  BY ServerTakes DEF SessionInv
<1>8. ASSUME main = "expired"
      PROVE  st.actual_pid # NoOne /\ m.from # st.actual_pid
  <2>1. st.actual_pid # NoOne /\ UnderWay(st.actual_pid) = {}
    BY <1>8 DEF SessionInv, ServerInv
  <2>2. m \notin UnderWay(st.actual_pid)
    BY <2>1
  <2>. QED  BY <2>1, <2>2 DEF UnderWay
<1>. QED  BY <1>1, <1>2, <1>3, <1>4, <1>5, <1>6, <1>7, <1>8 DEF Procs

(* A client whose signal waits at the server has pinged, or has sent a bit *)
(* of its session.                                                         *)
LEMMA Sent ==
    ASSUME TypeInv, SessionInv, NEW c \in Clients, UnderWay(c) # {}
    PROVE  /\ ~Shown(c)
           /\ st.actual_pid # c =>
                 /\ cl[c].sent = 0
                 /\ cl[c].at \in {"check"} \cup Final
                 /\ cl[c].at = "check" => pending[c] = {} /\ cl[c].is_ready = 0
           /\ st.actual_pid = c =>
                 /\ cl[c].at \in {"ack"} \cup Final
                 /\ cl[c].at = "ack" => pending[c] = {} /\ cl[c].ready_to_proceed = 0
           /\ cl[c].at # "success"
<1>1. Session(c)
  BY DEF SessionInv
<1>2. ~Shown(c) /\ cl[c].at # "success"
  BY <1>1 DEF Session, ShownInv
<1>3. cl[c].at \notin {"absent", "start", "ping", "delay", "switch", "slot", "send",
                       "clear", "pause"}
  BY <1>1 DEF Session, ClientInv, PingInv, BetweenBits, Apart
<1>4. cl[c].at \in {"check", "ack"} \cup Final
  <2>1. cl[c].at \in Points
    BY DEF TypeInv, TypeOK, ClientTypeOK, ClientProcess
  <2>. QED  BY <1>3, <2>1 DEF Points
<1>5. cl[c].at = "check" =>
        /\ pending[c] = {} /\ cl[c].is_ready = 0 /\ cl[c].sent = 0
        /\ st.actual_pid # c
  BY <1>1 DEF Session, ClientInv, PingInv
<1>6. cl[c].at = "ack" =>
        st.actual_pid = c /\ pending[c] = {} /\ cl[c].ready_to_proceed = 0
  BY <1>1 DEF Session, ClientInv, AwaitingAck
<1>7. st.actual_pid # c => cl[c].sent = 0
  BY <1>1 DEF Session, ClientInv
<1>. QED  BY <1>2, <1>4, <1>5, <1>6, <1>7

(* The server dies: what was sent to it is lost.                           *)
LEMMA ServerDies ==
    ASSUME TypeInv, SessionInv, Terminate(Server), acking' => acking,
           UNCHANGED <<st, main, printed, clientVars>>,
           initialized' = initialized \/ (main \notin Starting /\ initialized')
    PROVE  SessionInv'
<1>. USE DEF clientVars
<1>1. /\ KernelInv' /\ pending'[Server] = {}
      /\ \A c \in Clients : pending'[c] = pending[c] /\ (c \in alive' <=> c \in alive)
      /\ alive' \subseteq alive
  <2>1. Server \in Procs /\ Clients \subseteq Procs /\ Server \notin Clients
    BY ProcessAssumption DEF Procs
  <2>. QED  BY <2>1, ProcessEnds DEF SessionInv, Terminate
<1>2. \A c \in Clients : UnderWay(c)' = {}
  BY <1>1 DEF UnderWay
<1>3. UnderWay(st.actual_pid)' = {}
  BY <1>1 DEF UnderWay
<1>4. ServerInv'
  BY <1>1, <1>3 DEF SessionInv, ServerInv
<1>5. ShownAsSent'
  BY DEF SessionInv, ShownAsSent
<1>6. ASSUME NEW c \in Clients  PROVE Session(c)'
  <2>1. Session(c)
    BY DEF SessionInv
  <2>2. Received' = Received /\ LastBit(c)' = LastBit(c) /\ Shown(c)' = Shown(c)
    BY DEF Received, LastBit, TotalBits, Shown
  <2>3. HeaderDecoded(c)' = HeaderDecoded(c) /\ TextDecoded(c)' = TextDecoded(c)
    BY DEF HeaderDecoded, TextDecoded, TextSoFar, SizeAfter, Upper
  <2>4. OwnerInv(c)'
    BY <1>2, <2>1, <2>2, <2>3 DEF Session, OwnerInv
  <2>5. PingInv(c)'
    BY <1>1, <1>2, <2>1 DEF Session, ClientInv, PingInv, Apart
  <2>6. AwaitingAck(c)'
    BY <1>1, <1>2, <2>1, <2>2 DEF Session, ClientInv, AwaitingAck
  <2>7. ClientInv(c)'
    BY <1>1, <1>2, <2>1, <2>2, <2>5, <2>6 DEF Session, ClientInv, BetweenBits
  <2>8. ShownInv(c)'
    BY <1>2, <2>1, <2>2 DEF Session, ShownInv
  <2>. QED  BY <2>4, <2>7, <2>8 DEF Session
<1>. QED  BY <1>1, <1>4, <1>5, <1>6 DEF SessionInv

(* The server takes its own last acknowledgment back.                      *)
LEMMA IgnoreStep ==
    ASSUME TypeInv, SessionInv, Relied, main \in Cleaning => "preempt" \in Faults,
           UNCHANGED clientVars, NEW m \in pending[Server], IgnoreOwnSignal(m)
    PROVE  SessionInv'
<1>. USE DEF clientVars
<1>1. /\ main \notin Starting /\ main \notin Cleaning
      /\ initialized /\ Instance = st /\ m.from = Server
  BY Handling DEF IgnoreOwnSignal
<1>2. /\ pending' = Taken(Server, m) /\ st' = st /\ main' = main /\ initialized'
      /\ alive' = alive /\ acking' = acking /\ printed' = printed
  BY <1>1 DEF IgnoreOwnSignal, Enter
<1>3. /\ \A c \in Clients : pending'[c] = pending[c]
      /\ pending'[Server] \subseteq pending[Server]
      /\ \A c \in Clients : UnderWay(c)' = UnderWay(c)
  <2>1. /\ \A c \in Clients : pending'[c] = pending[c]
        /\ pending'[Server] \subseteq pending[Server]
        /\ \A c \in Clients : {n \in pending'[Server] : n.from = c} =
                                 IF c = m.from THEN {} ELSE UnderWay(c)
    BY <1>2, ServerTakes DEF SessionInv
  <2>. QED  BY <1>1, <2>1, ProcessAssumption DEF UnderWay
<1>4. KernelInv'
  BY <1>2, <1>3, ServerIsQuiet DEF SessionInv
<1>5. ASSUME NEW c \in Clients  PROVE Session(c)'
  <2>1. Session(c) /\ Shown(c)' = Shown(c)
    BY <1>2 DEF SessionInv, Shown
  <2>2. SameSession
    BY <1>2 DEF SameSession
  <2>. QED  BY <1>2, <1>3, <2>1, <2>2, Untouched
<1>6. ServerInv'
  <2>1. \A c \in Clients : UnderWay(c) = {} => {n \in pending'[Server] : n.from = c} = {}
    BY <1>3 DEF UnderWay
  <2>. QED  BY <1>1, <1>2, <2>1 DEF SessionInv, ServerInv, UnderWay
<1>7. ShownAsSent'
  BY <1>2 DEF SessionInv, ShownAsSent
<1>. QED  BY <1>4, <1>5, <1>6, <1>7 DEF SessionInv

(* A signal of client d is handled: the state moves only if nobody but d   *)
(* is the owner.                                                           *)
LEMMA HandlerStep ==
    ASSUME TypeInv, SessionInv, main \notin Starting, main \notin Cleaning,
           initialized', main' = main, alive' = alive, UNCHANGED clientVars,
           NEW d \in Clients,
           \A c \in Clients : c # d =>
               pending'[c] = pending[c] /\ UnderWay(c)' = UnderWay(c) /\ Shown(c)' = Shown(c),
           \/ st' = st /\ acking' = acking
           \/ /\ main # "expired"
              /\ st.actual_pid \in {NoOne, d} /\ st'.actual_pid \in {NoOne, d}
              /\ st'.client_pid = st'.actual_pid,
           main = "expired" => st.actual_pid # d,
           KernelInv', ShownAsSent', Session(d)'
    PROVE  SessionInv'
<1>. USE DEF clientVars
<1>1. ASSUME NEW c \in Clients, c # d  PROVE Session(c)'
  <2>1. Session(c) /\ c # NoOne
    BY ProcessAssumption DEF SessionInv
  <2>2. (st' = st /\ acking' = acking) \/ (st.actual_pid # c /\ st'.actual_pid # c)
    BY <1>1, <2>1
  <2>3. st' = st => SameSession
    BY DEF SameSession
  <2>. QED  BY <1>1, <2>1, <2>2, <2>3, Untouched
<1>2. ServerInv'
  <2>1. CASE st' = st /\ acking' = acking
    <3>1. \A c \in Clients : c # d /\ UnderWay(c) = {} =>
             {n \in pending'[Server] : n.from = c} = {}
      BY DEF UnderWay
    <3>. QED  BY <2>1, <3>1 DEF SessionInv, ServerInv, UnderWay
  <2>2. CASE main # "expired" /\ st'.actual_pid \in {NoOne, d}
             /\ st'.client_pid = st'.actual_pid
    <3>1. main \notin Wiping
      BY DEF Cleaning, Wiping
    <3>. QED  BY <2>2, <3>1 DEF ServerInv
  <2>. QED  BY <2>1, <2>2
<1>. QED  BY <1>1, <1>2 DEF SessionInv

(* A newcomer becomes the owner.                                           *)
LEMMA AcceptStep ==
    ASSUME TypeInv, SessionInv, Relied, main \in Cleaning => "preempt" \in Faults,
           UNCHANGED clientVars, NEW m \in pending[Server], AcceptClient(m)
    PROVE  SessionInv'
<1>. USE DEF clientVars, Final
<1>. DEFINE d == m.from
            pend == Taken(Server, m)
<1>1. /\ main \notin Starting /\ main \notin Cleaning
      /\ initialized /\ Instance = st /\ Sender(m) = d
      /\ d \in Clients /\ UnderWay(d) = {m}
      /\ main # "expired" /\ st.actual_pid = NoOne
  BY Handling DEF AcceptClient
<1>2. /\ st' = Pong(d) /\ pending' = Kill(pend, Server, d, "USR1")
      /\ main' = main /\ initialized' /\ alive' = alive
      /\ ~acking /\ acking' = acking /\ printed' = printed
  BY <1>1 DEF AcceptClient, Enter
<1>3. "USR1" \in Sigs /\ d # NoOne
  BY <1>1, ProcessAssumption DEF Sigs
<1>4. /\ pend \in [Procs -> SUBSET Signal]
      /\ \A c \in Clients : pend[c] = pending[c]
      /\ pend[Server] \subseteq pending[Server]
      /\ \A c \in Clients : {n \in pend[Server] : n.from = c} =
                               IF c = d THEN {} ELSE UnderWay(c)
  BY ServerTakes DEF SessionInv
<1>. HIDE DEF d, pend
<1>5. /\ KernelInv'
      /\ \A c \in Clients : c # d => pending'[c] = pending[c]
      /\ d \notin alive => pending'[d] = {}
      /\ d \in alive /\ pending[d] = {} => pending'[d] = {Reply("USR1")}
      /\ \A c \in Clients : UnderWay(c)' = IF c = d THEN {} ELSE UnderWay(c)
  <2>1. d \in Clients \cup {NoOne} /\ KernelInv /\ Group = {}
    BY <1>1 DEF SessionInv, Relied
  <2>2. /\ KernelInv'
        /\ \A c \in Clients : c # d => pending'[c] = pending[c]
        /\ \A c \in Clients : c = d /\ c \notin alive => pending'[c] = {}
        /\ \A c \in Clients : c = d /\ c \in alive /\ pending[c] = {} =>
              pending'[c] = {Reply("USR1")}
        /\ \A c \in Clients : UnderWay(c)' = {n \in pend[Server] : n.from = c}
    BY <1>2, <1>3, <1>4, <2>1, ServerSends
  <2>. QED  BY <1>1, <1>4, <2>2
<1>6. \A c \in Clients : Shown(c)' = Shown(c)
  BY <1>2 DEF Shown
<1>7. /\ st'.actual_pid = d /\ st'.client_pid = d
      /\ st'.getting_header = 1 /\ st'.getting_msg = 0 /\ st'.sig_count = 0
      /\ st'.msg_pos = 0
  BY <1>2 DEF Pong, Zeroed
<1>8. /\ Session(d) /\ ~Shown(d) /\ cl[d].at # "success"
      /\ cl[d].sent = 0
      /\ cl[d].at \in {"check"} \cup Final
      /\ cl[d].at = "check" => pending[d] = {} /\ cl[d].is_ready = 0
  BY <1>1, <1>3, Sent DEF SessionInv
<1>9. d \in alive <=> cl[d].at = "check"
  BY <1>8 DEF Session, ClientInv
<1>10. Received' = 0
  BY <1>7 DEF Received
<1>11. OwnerInv(d)'
  <2>1. LastBit(d)' \in Nat \ {0}
    <3>1. LastBit(d)' = LastBit(d)
      BY DEF LastBit, TotalBits
    <3>. QED  BY <1>1, <3>1, Counters
  <2>2. HeaderDecoded(d)' /\ TextDecoded(d)'
    BY <1>7, SizeAssumption DEF HeaderDecoded, TextDecoded
  <2>. QED  BY <1>1, <1>2, <1>5, <1>7, <1>8, <1>10, <2>1, <2>2 DEF OwnerInv
<1>12. PingInv(d)'
  <2>1. Reply("USR1") \in {Reply("USR1")}
    OBVIOUS
  <2>. QED  BY <1>1, <1>5, <1>7, <1>8, <1>9, <2>1 DEF Session, ClientInv, PingInv
<1>13. ClientInv(d)'
  BY <1>1, <1>2, <1>5, <1>7, <1>8, <1>12 DEF Session, ClientInv, BetweenBits, AwaitingAck
<1>14. ShownInv(d)'
  BY <1>6, <1>8, <1>1 DEF ShownInv
<1>15. ShownAsSent'
  BY <1>2 DEF SessionInv, ShownAsSent
<1>. QED  BY <1>1, <1>2, <1>5, <1>6, <1>7, <1>11, <1>13, <1>14, <1>15, HandlerStep
          DEF Session

(* A newcomer is sent away.                                                *)
LEMMA RejectStep ==
    ASSUME TypeInv, SessionInv, Relied, main \in Cleaning => "preempt" \in Faults,
           UNCHANGED clientVars, NEW m \in pending[Server], RejectBusy(m)
    PROVE  SessionInv'
<1>. USE DEF clientVars, Final
<1>. DEFINE d == m.from
            pend == Taken(Server, m)
<1>1. /\ main \notin Starting /\ main \notin Cleaning
      /\ initialized /\ Instance = st /\ Sender(m) = d
      /\ d \in Clients /\ UnderWay(d) = {m}
      /\ st.actual_pid # d
  BY Handling DEF RejectBusy
<1>2. /\ st' = st /\ pending' = Kill(pend, Server, d, "USR2")
      /\ main' = main /\ initialized' /\ alive' = alive
      /\ acking' = acking /\ printed' = printed
  BY <1>1 DEF RejectBusy, Enter
<1>3. "USR2" \in Sigs /\ "USR1" # "USR2"
  BY DEF Sigs
<1>4. /\ pend \in [Procs -> SUBSET Signal]
      /\ \A c \in Clients : pend[c] = pending[c]
      /\ pend[Server] \subseteq pending[Server]
      /\ \A c \in Clients : {n \in pend[Server] : n.from = c} =
                               IF c = d THEN {} ELSE UnderWay(c)
  BY ServerTakes DEF SessionInv
<1>. HIDE DEF d, pend
<1>5. /\ KernelInv'
      /\ \A c \in Clients : c # d => pending'[c] = pending[c]
      /\ d \notin alive => pending'[d] = {}
      /\ d \in alive /\ pending[d] = {} => pending'[d] = {Reply("USR2")}
      /\ \A c \in Clients : UnderWay(c)' = IF c = d THEN {} ELSE UnderWay(c)
  <2>1. d \in Clients \cup {NoOne} /\ KernelInv /\ Group = {}
    BY <1>1 DEF SessionInv, Relied
  <2>2. /\ KernelInv'
        /\ \A c \in Clients : c # d => pending'[c] = pending[c]
        /\ \A c \in Clients : c = d /\ c \notin alive => pending'[c] = {}
        /\ \A c \in Clients : c = d /\ c \in alive /\ pending[c] = {} =>
              pending'[c] = {Reply("USR2")}
        /\ \A c \in Clients : UnderWay(c)' = {n \in pend[Server] : n.from = c}
    BY <1>2, <1>3, <1>4, <2>1, ServerSends
  <2>. QED  BY <1>1, <1>4, <2>2
<1>6. \A c \in Clients : Shown(c)' = Shown(c)
  BY <1>2 DEF Shown
<1>7. /\ Session(d) /\ ~Shown(d) /\ cl[d].at # "success"
      /\ cl[d].at \in {"check"} \cup Final
      /\ cl[d].at = "check" => pending[d] = {} /\ cl[d].is_ready = 0
  BY <1>1, Sent DEF SessionInv
<1>8. d \in alive <=> cl[d].at = "check"
  BY <1>7 DEF Session, ClientInv
<1>9. OwnerInv(d)'
  BY <1>1, <1>2 DEF OwnerInv
<1>10. PingInv(d)'
  <2>1. Reply("USR1") \notin {Reply("USR2")}
    BY <1>3 DEF Reply
  <2>. QED  BY <1>1, <1>2, <1>5, <1>7, <1>8, <2>1 DEF Session, ClientInv, PingInv
<1>11. ClientInv(d)'
  BY <1>1, <1>2, <1>5, <1>7, <1>10 DEF Session, ClientInv, BetweenBits, AwaitingAck
<1>12. ShownInv(d)'
  BY <1>1, <1>6, <1>7 DEF ShownInv
<1>13. ShownAsSent'
  BY <1>2 DEF SessionInv, ShownAsSent
<1>. QED  BY <1>1, <1>2, <1>5, <1>6, <1>9, <1>11, <1>12, <1>13, HandlerStep
          DEF Session

(* A bit of the owner arrives: it is the one after those received.         *)
LEMMA BitArrives ==
    ASSUME TypeInv, SessionInv, Relied, main \in Cleaning => "preempt" \in Faults,
           NEW m \in pending[Server], FromOwner(m), NEW d, d = m.from
    PROVE  /\ main \notin Starting /\ main \notin Cleaning /\ main # "expired"
           /\ initialized /\ Instance = st /\ ~acking
           /\ d \in Clients /\ Sender(m) = d /\ st.actual_pid = d /\ UnderWay(d) = {m}
           /\ ~Shown(d) /\ cl[d].at # "success"
           /\ cl[d].at \in {"ack"} \cup Final
           /\ cl[d].at = "ack" => pending[d] = {} /\ cl[d].ready_to_proceed = 0
           /\ st.getting_header + st.getting_msg = 1
           /\ HeaderDecoded(d) /\ TextDecoded(d)
           /\ Received < LastBit(d) /\ Received + 1 = cl[d].sent
           /\ m.sig = SignalOf(BitAt(d, Received + 1))
<1>1. /\ main \notin Starting /\ main \notin Cleaning /\ main # "expired"
      /\ initialized /\ Instance = st /\ ~acking
      /\ d \in Clients /\ Sender(m) = d /\ st.actual_pid = d /\ UnderWay(d) = {m}
  BY Handling DEF FromOwner, Enter
<1>2. /\ ~Shown(d) /\ cl[d].at # "success"
      /\ cl[d].at \in {"ack"} \cup Final
      /\ cl[d].at = "ack" => pending[d] = {} /\ cl[d].ready_to_proceed = 0
  BY <1>1, Sent
<1>3. /\ st.getting_header + st.getting_msg = 1
      /\ HeaderDecoded(d) /\ TextDecoded(d)
      /\ Received < LastBit(d) /\ Received = cl[d].sent - 1
      /\ m.sig = SignalOf(BitAt(d, cl[d].sent))
  BY <1>1 DEF SessionInv, Session, OwnerInv
<1>4. Received + 1 = cl[d].sent
  BY <1>1, <1>3, Counters
<1>. QED  BY <1>1, <1>2, <1>3, <1>4

(* What the handler makes of it, if it is not the last bit of a text.      *)
LEMMA BitTaken ==
    ASSUME TypeInv, SessionInv, Relied, main \in Cleaning => "preempt" \in Faults,
           UNCHANGED clientVars,
           NEW m \in pending[Server], FromOwner(m), NEW d, d = m.from,
           pending' = Taken(Server, m), acking', UNCHANGED <<alive, printed>>,
           st'.client_pid = st'.actual_pid,
           \/ /\ st'.actual_pid = d
              /\ st'.getting_header + st'.getting_msg = 1
              /\ HeaderDecoded(d)' /\ TextDecoded(d)'
              /\ Received' = Received + 1 /\ Received' < LastBit(d)
           \/ st'.actual_pid = NoOne /\ Received + 1 = LastBit(d)
    PROVE  SessionInv'
<1>. USE DEF clientVars, Final
<1>1. /\ main \notin Starting /\ main \notin Cleaning /\ main # "expired"
      /\ d \in Clients /\ st.actual_pid = d /\ UnderWay(d) = {m}
      /\ ~Shown(d) /\ cl[d].at # "success"
      /\ cl[d].at \in {"ack"} \cup Final
      /\ cl[d].at = "ack" => pending[d] = {} /\ cl[d].ready_to_proceed = 0
      /\ Received + 1 = cl[d].sent
  BY BitArrives DEF Final
<1>2. initialized' /\ main' = main
  BY DEF FromOwner, Enter
<1>3. /\ \A c \in Clients : pending'[c] = pending[c]
      /\ pending'[Server] \subseteq pending[Server]
      /\ \A c \in Clients : UnderWay(c)' = IF c = d THEN {} ELSE UnderWay(c)
  BY ServerTakes DEF SessionInv, UnderWay
<1>4. KernelInv'
  BY <1>3, ServerIsQuiet DEF SessionInv
<1>5. \A c \in Clients : Shown(c)' = Shown(c)
  BY DEF Shown
<1>6. LastBit(d)' = LastBit(d) /\ Session(d) /\ d # NoOne
  BY <1>1, ProcessAssumption DEF LastBit, TotalBits, SessionInv
<1>7. cl[d].sent \in Nat /\ cl[d].sent > 0 /\ Received \in Nat
  BY <1>1, Counters
<1>8. OwnerInv(d)'
  BY <1>1, <1>2, <1>3, <1>6, <1>7 DEF OwnerInv
<1>9. AwaitingAck(d)'
  BY <1>1, <1>3, <1>5, <1>6, <1>7 DEF AwaitingAck
<1>10. ClientInv(d)'
  BY <1>1, <1>3, <1>6, <1>9 DEF Session, ClientInv, PingInv, BetweenBits
<1>11. ShownInv(d)'
  BY <1>1, <1>5 DEF ShownInv
<1>12. ShownAsSent'
  BY DEF SessionInv, ShownAsSent
<1>. QED  BY <1>1, <1>2, <1>3, <1>4, <1>5, <1>8, <1>10, <1>11, <1>12, HandlerStep
          DEF Session

(* The state process_data_signal works on is the session's.                *)
LEMMA ActiveFields ==
    ASSUME TypeInv, NEW m \in pending[Server], Instance = st
    PROVE  /\ Active(m) \in ClientState
           /\ Active(m).actual_pid = st.actual_pid /\ Active(m).client_pid = Sender(m)
           /\ Active(m).getting_header = st.getting_header
           /\ Active(m).getting_msg = st.getting_msg
           /\ Active(m).sig_count = st.sig_count
           /\ Active(m).char_value = st.char_value
           /\ Active(m).msg_pos = st.msg_pos
           /\ Active(m).size_message = st.size_message
           /\ Active(m).message = st.message
<1>1. st \in ClientState
  BY DEF TypeInv, TypeOK, ServerTypeOK
<1>2. Active(m) = [st EXCEPT !.client_pid = Sender(m), !.client_activity = 1]
  BY DEF Active
<1>3. Active(m) \in ClientState
  BY EnterType
<1>. QED  BY <1>1, <1>2, <1>3 DEF ClientState

(* A bit of the length.                                                    *)
LEMMA HeaderBitStep ==
    ASSUME TypeInv, SessionInv, Relied, main \in Cleaning => "preempt" \in Faults,
           UNCHANGED clientVars, NEW m \in pending[Server], ReceiveHeaderBit(m)
    PROVE  SessionInv'
<1>. DEFINE d == m.from
            s == Active(m)
            i == st.sig_count
            len == Len(msg[d])
            bit == Bit(len, HEADER_SIZE - (i + 1))
            new == HandleHeader(s, bit)
<1>1. /\ FromOwner(m) /\ Instance.getting_msg = 0
      /\ st' = IF Instance.getting_header = 1
               THEN HandleHeader(Active(m), BitValue(m.sig)) ELSE Active(m)
      /\ pending' = Taken(Server, m) /\ acking' /\ UNCHANGED <<alive, printed>>
  BY DEF ReceiveHeaderBit
<1>2. /\ Instance = st /\ d \in Clients /\ Sender(m) = d /\ st.actual_pid = d
      /\ st.getting_header + st.getting_msg = 1
      /\ HeaderDecoded(d)
      /\ Received < LastBit(d)
      /\ m.sig = SignalOf(BitAt(d, Received + 1))
  BY <1>1, BitArrives
<1>3. /\ s \in ClientState
      /\ s.actual_pid = d /\ s.client_pid = d
      /\ s.getting_header = st.getting_header /\ s.getting_msg = st.getting_msg
      /\ s.sig_count = i /\ s.msg_pos = st.msg_pos /\ s.size_message = st.size_message
  BY <1>2, ActiveFields
<1>4. /\ len \in Nat /\ len < 2^HEADER_SIZE /\ LastBit(d) >= HEADER_SIZE
      /\ st \in ClientState /\ LastBit(d) \in Nat
      /\ ValidSize(len) => LastBit(d) > HEADER_SIZE
      /\ ~ValidSize(len) => LastBit(d) = HEADER_SIZE
  BY <1>2, Counters
<1>. HIDE DEF d, s
<1>5. /\ st.getting_msg = 0 /\ st.getting_header = 1 /\ Received = i /\ i \in Nat
  BY <1>1, <1>2, <1>4 DEF Received, ClientState
<1>6. /\ i < HEADER_SIZE /\ st.msg_pos = 0
      /\ i > 0 => st.size_message = SizeAfter(len, i)
  BY <1>2, <1>5 DEF HeaderDecoded
<1>7. BitValue(m.sig) = bit
  <2>1. BitAt(d, i + 1) = bit
    BY <1>5, <1>6, SizeAssumption DEF BitAt
  <2>2. HEADER_SIZE - (i + 1) \in 0..(HEADER_SIZE + CHAR_SIZE)
    BY <1>5, <1>6, SizeAssumption
  <2>3. BitValue(SignalOf(bit)) = bit
    <3>. HIDE DEF i
    <3>. QED  BY <1>4, <2>2, BitTravels
  <2>. QED  BY <1>2, <1>5, <2>1, <2>3
<1>8. st' = new
  BY <1>1, <1>2, <1>5, <1>7 DEF s
<1>9. \/ /\ i + 1 < HEADER_SIZE
         /\ new.actual_pid = d /\ new.client_pid = d
         /\ new.getting_header = 1 /\ new.getting_msg = 0 /\ new.msg_pos = 0
         /\ new.sig_count = i + 1 /\ new.size_message = SizeAfter(len, i + 1)
      \/ /\ i + 1 = HEADER_SIZE /\ ValidSize(len)
         /\ new.actual_pid = d /\ new.client_pid = d
         /\ new.getting_header = 0 /\ new.getting_msg = 1 /\ new.msg_pos = 0
         /\ new.sig_count = 0 /\ new.size_message = len /\ new.message.text = <<>>
      \/ /\ i + 1 = HEADER_SIZE /\ ~ValidSize(len) /\ new = FreshState
  <2>. HIDE DEF len
  <2>1. s.sig_count > 0 => s.size_message = SizeAfter(len, s.sig_count)
    BY <1>3, <1>6
  <2>2. s.sig_count < HEADER_SIZE /\ new = HandleHeader(s, Bit(len, HEADER_SIZE - (s.sig_count + 1)))
    BY <1>3, <1>6
  <2>. HIDE DEF new, i
  <2>3. \/ /\ s.sig_count + 1 < HEADER_SIZE
           /\ new.actual_pid = s.actual_pid /\ new.client_pid = s.client_pid
           /\ new.getting_header = s.getting_header
           /\ new.getting_msg = s.getting_msg
           /\ new.msg_pos = s.msg_pos
           /\ new.sig_count = s.sig_count + 1
           /\ new.size_message = SizeAfter(len, s.sig_count + 1)
        \/ /\ s.sig_count + 1 = HEADER_SIZE /\ ValidSize(len)
           /\ new.actual_pid = s.actual_pid /\ new.client_pid = s.client_pid
           /\ new.getting_header = 0 /\ new.getting_msg = 1
           /\ new.msg_pos = s.msg_pos
           /\ new.sig_count = 0
           /\ new.size_message = len
           /\ new.message.text = <<>>
        \/ /\ s.sig_count + 1 = HEADER_SIZE /\ ~ValidSize(len)
           /\ new = FreshState
    BY <1>3, <1>4, <2>1, <2>2, HeaderResult
  <2>. QED  BY <1>3, <1>5, <1>6, <2>3
<1>. HIDE DEF new
<1>10. len' = len /\ LastBit(d)' = LastBit(d) /\ d' = d /\ msg' = msg
  BY DEF clientVars, LastBit, TotalBits, d
<1>11. /\ st'.client_pid = st'.actual_pid
       /\ \/ /\ st'.actual_pid = d
             /\ st'.getting_header + st'.getting_msg = 1
             /\ HeaderDecoded(d)' /\ TextDecoded(d)'
             /\ Received' = Received + 1 /\ Received' < LastBit(d)
          \/ st'.actual_pid = NoOne /\ Received + 1 = LastBit(d)
  <2>1. CASE i + 1 < HEADER_SIZE
    <3>1. /\ st'.actual_pid = d /\ st'.client_pid = d
          /\ st'.getting_header = 1 /\ st'.getting_msg = 0 /\ st'.msg_pos = 0
          /\ st'.sig_count = i + 1 /\ st'.size_message = SizeAfter(len, i + 1)
      BY <1>5, <1>8, <1>9, <2>1, SizeAssumption
    <3>2. HeaderDecoded(d)'
      BY <1>10, <2>1, <3>1 DEF HeaderDecoded, SizeAfter, Upper
    <3>3. TextDecoded(d)'
      BY <3>1 DEF TextDecoded
    <3>4. Received' = Received + 1 /\ Received' < LastBit(d)
      BY <1>4, <1>5, <2>1, <3>1, SizeAssumption DEF Received
    <3>. QED  BY <3>1, <3>2, <3>3, <3>4
  <2>2. CASE i + 1 = HEADER_SIZE /\ ValidSize(len)
    <3>1. /\ st'.actual_pid = d /\ st'.client_pid = d
          /\ st'.getting_header = 0 /\ st'.getting_msg = 1 /\ st'.msg_pos = 0
          /\ st'.sig_count = 0 /\ st'.size_message = len /\ st'.message.text = <<>>
      BY <1>5, <1>8, <1>9, <2>2, SizeAssumption
    <3>2. HeaderDecoded(d)'
      BY <3>1 DEF HeaderDecoded
    <3>3. 0 \div CHAR_SIZE = 0 /\ 0 % CHAR_SIZE = 0 /\ Len(<<>>) = 0
      <4>1. 0 = CHAR_SIZE * 0 + 0
        BY SizeAssumption
      <4>. QED  BY <4>1, SizeAssumption, DivUnique
    <3>4. TextSoFar(st, msg[d])'
      BY <1>4, <1>10, <2>2, <3>1, <3>3 DEF TextSoFar, ValidSize
    <3>5. TextDecoded(d)'
      BY <1>10, <2>2, <3>4 DEF TextDecoded
    <3>6. Received' = Received + 1 /\ Received' < LastBit(d)
      BY <1>4, <1>5, <2>2, <3>1, SizeAssumption DEF Received
    <3>. QED  BY <3>1, <3>2, <3>5, <3>6
  <2>3. CASE i + 1 = HEADER_SIZE /\ ~ValidSize(len)
    <3>1. st' = FreshState
      BY <1>5, <1>8, <1>9, <2>3, SizeAssumption
    <3>. QED  BY <1>4, <1>5, <2>3, <3>1 DEF FreshState, Zeroed
  <2>. QED  BY <1>9, <2>1, <2>2, <2>3
<1>. QED  BY <1>1, <1>11, BitTaken DEF d

(* A bit of the text, wherever the handler goes with it.                   *)
LEMMA MessageBit ==
    ASSUME TypeInv, SessionInv, Relied, main \in Cleaning => "preempt" \in Faults,
           NEW m \in pending[Server], FromOwner(m), Instance.getting_msg = 1,
           WriteFault(Active(m), BitValue(m.sig)) = "none",
           NEW d, d = m.from, NEW new, new = HandleMsg(Active(m), BitValue(m.sig))
    PROVE  /\ new.actual_pid = d /\ new.client_pid = d
           /\ new.getting_header = 0 /\ new.getting_msg = 1
           /\ new.size_message = Len(msg[d])
           /\ new.sig_count = st.sig_count + 1
           /\ Received = HEADER_SIZE + st.sig_count
           /\ ValidSize(Len(msg[d]))
           /\ \/ /\ ~MessageComplete(Active(m), BitValue(m.sig))
                 /\ TextSoFar(new, msg[d])
                 /\ Received + 1 < LastBit(d)
              \/ /\ MessageComplete(Active(m), BitValue(m.sig))
                 /\ SubSeq(new.message.text, 1, new.size_message) = msg[d]
                 /\ Received + 1 = LastBit(d)
<1>. DEFINE s == Active(m)
            n == st.sig_count
            text == msg[d]
            v == text[(n \div CHAR_SIZE) + 1]
            bit == Bit(v, CHAR_SIZE - 1 - (n % CHAR_SIZE))
<1>1. /\ Instance = st /\ d \in Clients /\ Sender(m) = d /\ st.actual_pid = d
      /\ st.getting_header + st.getting_msg = 1
      /\ TextDecoded(d)
      /\ m.sig = SignalOf(BitAt(d, Received + 1))
  BY BitArrives
<1>2. /\ s \in ClientState
      /\ s.actual_pid = d /\ s.client_pid = d
      /\ s.getting_header = st.getting_header /\ s.getting_msg = st.getting_msg
      /\ s.sig_count = n /\ s.char_value = st.char_value
      /\ s.msg_pos = st.msg_pos /\ s.size_message = st.size_message
      /\ s.message = st.message
  BY <1>1, ActiveFields
<1>3. /\ text \in Seq(Nat) /\ \A i \in 1..Len(text) : text[i] < 2^CHAR_SIZE
      /\ st \in ClientState /\ Len(text) \in Nat
      /\ ValidSize(Len(text)) => LastBit(d) = HEADER_SIZE + CHAR_SIZE * Len(text)
  BY <1>1, Counters
<1>4. /\ st.getting_msg = 1 /\ st.getting_header = 0 /\ n \in Nat
      /\ Received = HEADER_SIZE + n
  <2>1. st.getting_msg = 1
    BY <1>1
  <2>2. st.getting_header \in 0..1 /\ n \in Nat
    BY <1>3 DEF ClientState
  <2>3. Received = HEADER_SIZE + n
    BY <2>1, <2>2, SizeAssumption DEF Received
  <2>. HIDE DEF n
  <2>. QED  BY <1>1, <2>1, <2>2, <2>3
<1>5. ValidSize(Len(text)) /\ TextSoFar(st, text)
  BY <1>1, <1>4 DEF TextDecoded
<1>6. TextSoFar(s, text)
  BY <1>2, <1>5 DEF TextSoFar
<1>7. LastBit(d) = HEADER_SIZE + CHAR_SIZE * Len(text)
  BY <1>3, <1>5
<1>8. BitValue(m.sig) = bit
  <2>1. BitAt(d, Received + 1) = bit
    <3>. DEFINE k == Received + 1
                j == k - HEADER_SIZE - 1
    <3>1. j = n /\ ~(k <= HEADER_SIZE)
      <4>. HIDE DEF n
      <4>. QED  BY <1>4, SizeAssumption
    <3>. HIDE DEF k
    <3>2. BitAt(d, k) = Bit(text[j \div CHAR_SIZE + 1], CHAR_SIZE - 1 - (j % CHAR_SIZE))
      BY <3>1 DEF BitAt
    <3>. HIDE DEF j, n
    <3>. QED  BY <3>1, <3>2 DEF k
  <2>2. v \in Nat
    <3>1. n \div CHAR_SIZE \in Nat /\ n \div CHAR_SIZE < Len(text)
      BY <1>4, <1>5, SizeAssumption, DivMod DEF TextSoFar
    <3>. DEFINE q == n \div CHAR_SIZE
    <3>2. q + 1 \in 1..Len(text)
      <4>. HIDE DEF q
      <4>. QED  BY <1>3, <3>1 DEF q
    <3>. HIDE DEF q, text
    <3>. QED  BY <1>3, <3>2 DEF q
  <2>3. CHAR_SIZE - 1 - (n % CHAR_SIZE) \in 0..(HEADER_SIZE + CHAR_SIZE)
    <3>. DEFINE r == n % CHAR_SIZE
    <3>1. r \in 0..(CHAR_SIZE - 1)
      BY <1>4, SizeAssumption, DivMod
    <3>. HIDE DEF r
    <3>. QED  BY <3>1, SizeAssumption DEF r
  <2>. HIDE DEF v
  <2>4. BitValue(SignalOf(bit)) = bit
    BY <2>2, <2>3, BitTravels
  <2>. QED  BY <1>1, <2>1, <2>4
<1>9. /\ new.actual_pid = s.actual_pid /\ new.client_pid = s.client_pid
      /\ new.getting_header = s.getting_header
      /\ new.getting_msg = s.getting_msg
      /\ new.size_message = Len(text)
      /\ new.sig_count = s.sig_count + 1
      /\ \/ /\ ~MessageComplete(s, bit)
            /\ TextSoFar(new, text)
            /\ s.sig_count + 1 < CHAR_SIZE * Len(text)
         \/ /\ MessageComplete(s, bit)
            /\ SubSeq(new.message.text, 1, new.size_message) = text
            /\ s.sig_count + 1 = CHAR_SIZE * Len(text)
  <2>1. bit = Bit(text[(s.sig_count \div CHAR_SIZE) + 1],
                  CHAR_SIZE - 1 - (s.sig_count % CHAR_SIZE))
    BY <1>2
  <2>2. WriteFault(s, bit) = "none" /\ new = HandleMsg(s, bit)
    BY <1>8
  <2>. HIDE DEF s, bit, text, n
  <2>. QED  BY <1>2, <1>3, <1>6, <2>1, <2>2, TextResult, SMTT(30)
<1>. DEFINE chars == CHAR_SIZE * Len(text)
<1>10. chars \in Nat
  BY <1>3, SizeAssumption
<1>11. /\ n + 1 < chars => Received + 1 < LastBit(d)
       /\ n + 1 = chars => Received + 1 = LastBit(d)
  <2>1. LastBit(d) = HEADER_SIZE + chars
    BY <1>7
  <2>. HIDE DEF n, chars
  <2>. QED  BY <1>4, <1>10, <2>1, SizeAssumption
<1>. HIDE DEF s, bit, v
<1>. QED  BY <1>2, <1>4, <1>5, <1>8, <1>9, <1>11 DEF s

(* A bit of the text that is not the last.                                 *)
LEMMA MessageBitStep ==
    ASSUME TypeInv, SessionInv, Relied, main \in Cleaning => "preempt" \in Faults,
           UNCHANGED clientVars, NEW m \in pending[Server], ReceiveMessageBit(m)
    PROVE  SessionInv'
<1>. DEFINE d == m.from
            new == HandleMsg(Active(m), BitValue(m.sig))
<1>1. /\ FromOwner(m) /\ Instance.getting_msg = 1
      /\ WriteFault(Active(m), BitValue(m.sig)) = "none"
      /\ ~MessageComplete(Active(m), BitValue(m.sig))
      /\ st' = new
      /\ pending' = Taken(Server, m) /\ acking' /\ UNCHANGED <<alive, printed>>
  BY DEF ReceiveMessageBit
<1>2. /\ new.actual_pid = d /\ new.client_pid = d
      /\ new.getting_header = 0 /\ new.getting_msg = 1
      /\ new.sig_count = st.sig_count + 1
      /\ Received = HEADER_SIZE + st.sig_count
      /\ ValidSize(Len(msg[d]))
      /\ TextSoFar(new, msg[d]) /\ Received + 1 < LastBit(d)
  BY <1>1, MessageBit
<1>3. d \in Clients
  BY <1>1, BitArrives
<1>4. st.sig_count \in Nat
  BY DEF TypeInv, TypeOK, ServerTypeOK, ClientState
<1>. HIDE DEF new, d
<1>5. msg' = msg /\ LastBit(d)' = LastBit(d)
  BY DEF clientVars, LastBit, TotalBits, d
<1>6. HeaderDecoded(d)' /\ TextDecoded(d)'
  <2>1. TextSoFar(st, msg[d])'
    BY <1>1, <1>2, <1>5 DEF TextSoFar, d
  <2>. QED  BY <1>1, <1>2, <1>5, <2>1 DEF HeaderDecoded, TextDecoded, d
<1>7. Received' = Received + 1 /\ Received' < LastBit(d)
  BY <1>1, <1>2, <1>4, SizeAssumption DEF Received
<1>. QED  BY <1>1, <1>2, <1>5, <1>6, <1>7, BitTaken DEF d

(* Appending to the log shows one client's message, and keeps the others'. *)
LEMMA LogGrows ==
    ASSUME TypeInv, NEW d \in Clients, NEW t,
           printed' = Append(printed, [from |-> d, text |-> t])
    PROVE  /\ Shown(d)'
           /\ \A c \in Clients : c # d => Shown(c)' = Shown(c)
           /\ ShownAsSent /\ t = msg[d] /\ msg' = msg => ShownAsSent'
<1>. DEFINE n == Len(printed)
            entry == [from |-> d, text |-> t]
<1>1. printed \in Seq([from : Pids, text : Seq(Nat)]) /\ n \in Nat
  BY DEF TypeInv, TypeOK, ServerTypeOK
<1>2. /\ Len(printed') = n + 1 /\ printed'[n + 1] = entry
      /\ \A i \in 1..n : printed'[i] = printed[i]
  <2>. HIDE DEF entry
  <2>. QED  BY <1>1 DEF entry
<1>3. n + 1 \in 1..(n + 1) /\ \A i \in 1..(n + 1) : i \in 1..n \/ i = n + 1
  BY <1>1
<1>4. entry.from = d /\ entry.text = t
  OBVIOUS
<1>5. \A i \in 1..n : i \in 1..(n + 1)
  BY <1>1
<1>. HIDE DEF entry, n
<1>6. Shown(d)'
  BY <1>2, <1>3, <1>4 DEF Shown
<1>7. ASSUME NEW c \in Clients, c # d  PROVE Shown(c)' = Shown(c)
  <2>1. Shown(c)' <=> \E i \in 1..(n + 1) : printed'[i].from = c
    BY <1>2 DEF Shown
  <2>2. Shown(c) <=> \E i \in 1..n : printed[i].from = c
    BY DEF Shown, n
  <2>3. Shown(c)' <=> Shown(c)
    BY <1>2, <1>3, <1>4, <1>5, <1>7, <2>1, <2>2
  <2>4. Shown(c)' \in BOOLEAN /\ Shown(c) \in BOOLEAN
    BY DEF Shown
  <2>. QED  BY <2>3, <2>4
<1>8. ASSUME ShownAsSent, t = msg[d], msg' = msg  PROVE ShownAsSent'
  <2>1. \A i \in 1..n : printed[i].from \in Clients /\ printed[i].text = msg[printed[i].from]
    BY <1>8 DEF ShownAsSent, n
  <2>2. \A i \in 1..(n + 1) :
           printed'[i].from \in Clients /\ printed'[i].text = msg[printed'[i].from]
    BY <1>2, <1>3, <1>4, <1>8, <2>1
  <2>. QED  BY <1>2, <1>8, <2>2 DEF ShownAsSent
<1>. QED  BY <1>6, <1>7, <1>8

(* What is shown, and to whom it is confirmed, when the last bit arrives.  *)
LEMMA CompleteShows ==
    ASSUME TypeInv, SessionInv, Relied, main \in Cleaning => "preempt" \in Faults,
           NEW m \in pending[Server], CompleteMessage(m), NEW d, d = m.from
    PROVE  /\ FromOwner(m) /\ d \in Clients
           /\ printed' = Append(printed, [from |-> d, text |-> msg[d]])
           /\ Received + 1 = LastBit(d)
           /\ pending' = Kill(Taken(Server, m), Server, d, "USR1")
           /\ st' = FreshState /\ acking' /\ alive' = alive
<1>. DEFINE new == HandleMsg(Active(m), BitValue(m.sig))
<1>1. /\ FromOwner(m) /\ Instance.getting_msg = 1
      /\ WriteFault(Active(m), BitValue(m.sig)) = "none"
      /\ MessageComplete(Active(m), BitValue(m.sig))
      /\ printed' = Append(printed, [from |-> new.client_pid,
                        text |-> SubSeq(new.message.text, 1, new.size_message)])
      /\ pending' = Kill(Taken(Server, m), Server, Sender(m), "USR1")
      /\ st' = FreshState /\ acking' /\ alive' = alive
  BY DEF CompleteMessage
<1>2. d \in Clients /\ Sender(m) = d
  BY <1>1, BitArrives
<1>3. /\ new.client_pid = d
      /\ SubSeq(new.message.text, 1, new.size_message) = msg[d]
      /\ Received + 1 = LastBit(d)
  <2>. HIDE DEF new
  <2>. QED  BY <1>1, MessageBit DEF new
<1>. HIDE DEF new
<1>. QED  BY <1>1, <1>2, <1>3

(* The last bit of a text: it is shown, and the client is told.            *)
LEMMA CompleteStep ==
    ASSUME TypeInv, SessionInv, Relied, main \in Cleaning => "preempt" \in Faults,
           UNCHANGED clientVars, NEW m \in pending[Server], CompleteMessage(m)
    PROVE  SessionInv'
<1>. USE DEF clientVars, Final
<1>. DEFINE d == m.from
            pend == Taken(Server, m)
<1>1. /\ FromOwner(m) /\ d \in Clients
      /\ printed' = Append(printed, [from |-> d, text |-> msg[d]])
      /\ Received + 1 = LastBit(d)
      /\ pending' = Kill(pend, Server, d, "USR1")
      /\ st' = FreshState /\ acking' /\ alive' = alive
  BY CompleteShows
<1>2. /\ main \notin Starting /\ main \notin Cleaning /\ main # "expired"
      /\ st.actual_pid = d /\ UnderWay(d) = {m}
      /\ ~Shown(d) /\ cl[d].at # "success"
      /\ cl[d].at \in {"ack"} \cup Final
      /\ cl[d].at = "ack" => pending[d] = {} /\ cl[d].ready_to_proceed = 0
      /\ Received + 1 = cl[d].sent
  BY <1>1, BitArrives, ZenonT(30) DEF Final
<1>3. initialized' /\ main' = main
  BY <1>1 DEF FromOwner, Enter
<1>4. /\ pend \in [Procs -> SUBSET Signal]
      /\ \A c \in Clients : pend[c] = pending[c]
      /\ pend[Server] \subseteq pending[Server]
      /\ \A c \in Clients : {n \in pend[Server] : n.from = c} =
                               IF c = d THEN {} ELSE UnderWay(c)
  BY ServerTakes DEF SessionInv
<1>5. "USR1" \in Sigs /\ d # NoOne
  BY <1>1, ProcessAssumption DEF Sigs
<1>. HIDE DEF d, pend
<1>6. /\ KernelInv'
      /\ \A c \in Clients : c # d => pending'[c] = pending[c]
      /\ d \in alive /\ pending[d] = {} => pending'[d] = {Reply("USR1")}
      /\ \A c \in Clients : UnderWay(c)' = IF c = d THEN {} ELSE UnderWay(c)
  <2>1. d \in Clients \cup {NoOne} /\ KernelInv /\ Group = {}
    BY <1>1 DEF SessionInv, Relied
  <2>2. /\ KernelInv'
        /\ \A c \in Clients : c # d => pending'[c] = pending[c]
        /\ \A c \in Clients : c = d /\ c \in alive /\ pending[c] = {} =>
              pending'[c] = {Reply("USR1")}
        /\ \A c \in Clients : UnderWay(c)' = {n \in pend[Server] : n.from = c}
    BY <1>1, <1>4, <1>5, <2>1, ServerSends
  <2>. QED  BY <1>1, <1>4, <2>2
<1>7. st'.actual_pid = NoOne /\ st'.client_pid = NoOne
  BY <1>1 DEF FreshState, Zeroed
<1>8. /\ Shown(d)' /\ \A c \in Clients : c # d => Shown(c)' = Shown(c)
      /\ ShownAsSent'
  <2>1. ShownAsSent /\ msg' = msg
    BY DEF SessionInv
  <2>. QED  BY <1>1, <2>1, LogGrows
<1>9. Session(d) /\ LastBit(d)' = LastBit(d)
  BY <1>1 DEF SessionInv, LastBit, TotalBits
<1>10. cl[d].sent \in Nat /\ cl[d].sent > 0
  BY <1>1, <1>2, Counters
<1>11. OwnerInv(d)'
  BY <1>5, <1>7 DEF OwnerInv
<1>12. cl[d].at = "ack" => d \in alive
  BY <1>9 DEF Session, ClientInv
<1>13. AwaitingAck(d)'
  BY <1>1, <1>2, <1>5, <1>6, <1>7, <1>8, <1>9, <1>10, <1>12 DEF AwaitingAck
<1>14. ClientInv(d)'
  BY <1>1, <1>2, <1>6, <1>9, <1>13 DEF Session, ClientInv, PingInv, BetweenBits
<1>15. ShownInv(d)'
  BY <1>1, <1>2, <1>5, <1>6, <1>7, <1>8 DEF ShownInv
<1>. QED  BY <1>1, <1>2, <1>3, <1>6, <1>7, <1>8, <1>11, <1>14, <1>15, HandlerStep
          DEF Session

(* The acknowledgment that ends a handler.                                 *)
LEMMA AckStep ==
    ASSUME TypeInv, SessionInv, Relied, main \in Cleaning => "preempt" \in Faults,
           UNCHANGED clientVars, SendAck
    PROVE  SessionInv'
<1>. USE DEF clientVars, Final
<1>. DEFINE pid == st.client_pid
<1>1. /\ acking /\ ~acking' /\ pending' = Kill(pending, Server, pid, "USR2")
      /\ alive' = alive /\ st' = st /\ main' = main /\ printed' = printed
      /\ initialized' = initialized /\ main \notin Cleaning
  BY DEF SendAck, Relied
<1>2. pid = st.actual_pid /\ pid \in Clients \cup {NoOne} /\ main \notin Starting
  BY <1>1 DEF SessionInv, ServerInv
<1>3. /\ KernelInv'
      /\ \A c \in Clients : c # pid => pending'[c] = pending[c]
      /\ \A c \in Clients : c = pid /\ c \notin alive => pending'[c] = {}
      /\ \A c \in Clients : c = pid /\ c \in alive /\ pending[c] = {} =>
            pending'[c] = {Reply("USR2")}
      /\ \A c \in Clients : UnderWay(c)' = UnderWay(c)
  <2>1. /\ pending \in [Procs -> SUBSET Signal] /\ "USR2" \in Sigs
        /\ KernelInv /\ Group = {}
    BY DEF TypeInv, TypeOK, KernelTypeOK, Sigs, SessionInv, Relied
  <2>. HIDE DEF pid
  <2>2. /\ KernelInv'
        /\ \A c \in Clients : c # pid => pending'[c] = pending[c]
        /\ \A c \in Clients : c = pid /\ c \notin alive => pending'[c] = {}
        /\ \A c \in Clients : c = pid /\ c \in alive /\ pending[c] = {} =>
              pending'[c] = {Reply("USR2")}
        /\ \A c \in Clients : UnderWay(c)' = {n \in pending[Server] : n.from = c}
    BY <1>1, <1>2, <2>1, ServerSends
  <2>. QED  BY <2>2 DEF UnderWay
<1>4. \A c \in Clients : Shown(c)' = Shown(c)
  BY <1>1 DEF Shown
<1>. HIDE DEF pid
<1>5. ASSUME NEW c \in Clients, c # pid  PROVE Session(c)'
  <2>1. Session(c)
    BY DEF SessionInv
  <2>. QED  BY <1>1, <1>2, <1>3, <1>4, <1>5, <2>1, Untouched
<1>6. ASSUME NEW c \in Clients, c = pid  PROVE Session(c)'
  <2>1. Session(c) /\ st.actual_pid = c
    BY <1>2, <1>6 DEF SessionInv
  <2>2. Received = cl[c].sent /\ cl[c].at \in {"ack"} \cup Final
    BY <1>1, <2>1 DEF Session, OwnerInv
  <2>3. Received # cl[c].sent - 1
    BY <2>2, Counters
  <2>4. cl[c].at = "ack" =>
          /\ cl[c].sent > 0 /\ UnderWay(c) = {} /\ pending[c] = {}
          /\ cl[c].ready_to_proceed = 0 /\ c \in alive
    BY <1>1, <2>1, <2>2, <2>3 DEF Session, ClientInv, AwaitingAck
  <2>5. Received' = Received /\ LastBit(c)' = LastBit(c)
    BY <1>1 DEF Received, LastBit, TotalBits
  <2>6. OwnerInv(c)'
    <3>1. HeaderDecoded(c)' = HeaderDecoded(c) /\ TextDecoded(c)' = TextDecoded(c)
      BY <1>1 DEF HeaderDecoded, TextDecoded, TextSoFar, SizeAfter, Upper
    <3>2. BitAt(c, cl[c].sent)' = BitAt(c, cl[c].sent)
      BY DEF BitAt
    <3>. QED  BY <1>1, <1>3, <2>1, <2>5, <3>1, <3>2 DEF Session, OwnerInv
  <2>7. AwaitingAck(c)'
    BY <1>1, <1>3, <1>6, <2>1, <2>2, <2>4, <2>5 DEF AwaitingAck
  <2>8. ClientInv(c)'
    BY <1>1, <1>3, <2>1, <2>2, <2>7 DEF Session, ClientInv, PingInv, BetweenBits
  <2>9. ShownInv(c)'
    BY <1>1, <1>3, <1>4, <2>1 DEF Session, ShownInv
  <2>. QED  BY <2>6, <2>8, <2>9 DEF Session
<1>7. ServerInv'
  <2>1. \A c \in Clients : UnderWay(c) = {} => {n \in pending'[Server] : n.from = c} = {}
    BY <1>3 DEF UnderWay
  <2>. QED  BY <1>1, <1>2, <2>1 DEF SessionInv, ServerInv, UnderWay
<1>8. ShownAsSent'
  BY <1>1 DEF SessionInv, ShownAsSent
<1>. QED  BY <1>3, <1>5, <1>6, <1>7, <1>8 DEF SessionInv

(* All steps of the server.                                                *)
LEMMA ServerSteps ==
    ASSUME TypeInv, SessionInv, Relied,
           ServerHandler \/ ServerMain \/ ServerCrash \/ MallocFails
    PROVE  SessionInv'
<1>1. CASE ServerHandler
  <2>1. (main \in Cleaning => "preempt" \in Faults) /\ UNCHANGED clientVars
    BY <1>1 DEF ServerHandler
  <2>2. CASE SendAck
    BY <2>1, <2>2, AckStep
  <2>3. ASSUME NEW m \in pending[Server], HandleSignal(m)
        PROVE  SessionInv'
    <3>1. Installed(m.sig) /\ main \notin Starting
      BY <2>1, Handling
    <3>2. CASE CorruptMemory(m)
      <4>1. /\ Terminate(Server) /\ acking' = acking
            /\ UNCHANGED <<st, main, printed>> /\ initialized'
        BY <3>2 DEF CorruptMemory, FromOwner, Enter
      <4>. QED  BY <2>1, <3>1, <4>1, ServerDies
    <3>3. CASE IgnoreOwnSignal(m)
      BY <2>1, <3>3, IgnoreStep
    <3>4. CASE AcceptClient(m)
      BY <2>1, <3>4, AcceptStep
    <3>5. CASE RejectBusy(m)
      BY <2>1, <3>5, RejectStep
    <3>6. CASE ReceiveHeaderBit(m)
      BY <2>1, <3>6, HeaderBitStep
    <3>7. CASE ReceiveMessageBit(m)
      BY <2>1, <3>7, MessageBitStep
    <3>8. CASE CompleteMessage(m)
      BY <2>1, <3>8, CompleteStep
    <3>9. ~KilledBySignal(m)
      BY <3>1 DEF KilledBySignal
    <3>. QED  BY <2>3, <3>2, <3>3, <3>4, <3>5, <3>6, <3>7, <3>8, <3>9 DEF HandleSignal
  <2>. QED  BY <1>1, <2>2, <2>3 DEF ServerHandler
<1>2. CASE ServerMain
  <2>1. CASE Boot
    BY <1>2, <2>1, BootSteps
  <2>2. CASE \/ StartMonitoring \/ OwnerLeft \/ OwnerActive \/ HandleTimeout
             \/ OwnerIdle /\ ("idle" \in Faults \/ OwnerSilent)
    BY <1>2, <2>2, MonitorSteps
  <2>3. CASE CleanMessage \/ ResetState
    BY <1>2, <2>3, CleanSteps
  <2>. QED  BY <1>2, <2>1, <2>2, <2>3 DEF ServerMain
<1>3. CASE ServerCrash
  <2>1. /\ Terminate(Server) /\ ~acking'
        /\ UNCHANGED <<st, main, printed, clientVars>> /\ initialized' = initialized
    BY <1>3 DEF ServerCrash
  <2>. QED  BY <2>1, ServerDies
<1>4. CASE MallocFails
  <2>1. (main \in Cleaning => "preempt" \in Faults) /\ UNCHANGED clientVars
    BY <1>4 DEF MallocFails
  <2>2. PICK m \in pending[Server] : MemoryExhausted(m)
    BY <1>4 DEF MallocFails
  <2>3. main \notin Starting
    BY <2>1, Handling
  <2>4. /\ Terminate(Server) /\ acking' = acking
        /\ UNCHANGED <<st, main, printed>> /\ initialized'
    BY <2>2 DEF MemoryExhausted, FromOwner, Enter
  <2>. QED  BY <2>1, <2>3, <2>4, ServerDies
<1>. QED  BY <1>1, <1>2, <1>3, <1>4

(***************************************************************************)
(* The theorems                                                            *)
(***************************************************************************)
(* The system starts in step.                                              *)
LEMMA InitSession == Init => SessionInv
<1>. SUFFICES ASSUME Init  PROVE SessionInv
  OBVIOUS
<1>. USE DEF Init, KernelInit, ServerInit, ClientInit, Final
<1>1. /\ \A p \in Procs : pending[p] = {}
      /\ Server \in Procs /\ Clients \subseteq Procs
      /\ \A c \in Clients : c # Server /\ c # NoOne
  BY ProcessAssumption DEF Procs
<1>2. KernelInv
  BY <1>1 DEF KernelInv
<1>3. st.actual_pid = NoOne /\ st.client_pid = NoOne
  BY DEF Zeroed
<1>4. \A c \in Clients : UnderWay(c) = {}
  BY <1>1 DEF UnderWay
<1>5. \A c \in Clients : /\ cl[c].at = "absent" /\ cl[c].handler = "default"
                         /\ cl[c].sent = 0 /\ cl[c].is_ready = 0
                         /\ cl[c].ready_to_proceed = 0
  OBVIOUS
<1>6. ServerInv
  BY <1>1, <1>3, <1>5 DEF ServerInv, Starting, Cleaning, Wiping
<1>7. ~(\E i \in 1..Len(printed) : TRUE)
  OBVIOUS
<1>8. ASSUME NEW c \in Clients  PROVE Session(c)
  <2>1. c \notin alive /\ st.actual_pid # c /\ ~Shown(c) /\ pending[c] = {}
    BY <1>1, <1>3, <1>7 DEF Shown
  <2>2. OwnerInv(c)
    BY <2>1 DEF OwnerInv
  <2>3. ClientInv(c)
    BY <1>4, <1>5, <2>1 DEF ClientInv, PingInv, BetweenBits, AwaitingAck, Apart
  <2>4. ShownInv(c)
    BY <1>5, <2>1 DEF ShownInv
  <2>. QED  BY <2>2, <2>3, <2>4 DEF Session
<1>9. ShownAsSent
  BY <1>7 DEF ShownAsSent
<1>. QED  BY <1>2, <1>6, <1>8, <1>9 DEF SessionInv

(* Nothing changes.                                                        *)
LEMMA StutterSession ==
    ASSUME SessionInv, UNCHANGED vars
    PROVE  SessionInv'
<1>. USE DEF vars, kernelVars, serverVars, clientVars
<1>1. \A c \in Clients : UnderWay(c)' = UnderWay(c) /\ Shown(c)' = Shown(c)
  BY DEF UnderWay, Shown
<1>2. ASSUME NEW c \in Clients  PROVE Session(c)'
  <2>1. Session(c) /\ SameSession
    BY DEF SessionInv, SameSession
  <2>. QED  BY <1>1, <2>1, Untouched
<1>3. KernelInv' /\ ShownAsSent'
  BY DEF SessionInv, KernelInv, ShownAsSent
<1>4. ServerInv'
  BY DEF SessionInv, ServerInv, UnderWay
<1>. QED  BY <1>2, <1>3, <1>4 DEF SessionInv

(* Every step keeps client and server in step.                             *)
LEMMA NextSession ==
    ASSUME TypeInv, SessionInv, Relied, [Next]_vars
    PROVE  SessionInv'
<1>1. CASE ServerHandler \/ ServerMain \/ ServerCrash \/ MallocFails
  BY <1>1, ServerSteps
<1>2. ASSUME NEW c \in Clients,
             Arrive(c) \/ ClientMain(c) \/ ClientHandler(c) \/ ClientCrash(c)
      PROVE  SessionInv'
  BY <1>2, ClientSteps
<1>3. CASE UNCHANGED vars
  BY <1>3, StutterSession
<1>. QED  BY <1>1, <1>2, <1>3 DEF Next

(* A client and its server are never further apart than the one signal or  *)
(* acknowledgment on the way, and the server has decoded the bits it got   *)
(* (send_signals, wait_for_server_ack, handle_header, handle_msg).         *)
THEOREM SessionCorrect == Relied => (Spec => []SessionInv)
<1>. SUFFICES ASSUME Relied  PROVE Spec => []SessionInv
  OBVIOUS
<1>1. TypeInv /\ SessionInv /\ [Next]_vars => SessionInv'
  BY NextSession
<1>. QED  BY <1>1, InitSession, CursorCorrect, PTL DEF Spec

(***************************************************************************)
(* What follows from SessionInv                                            *)
(***************************************************************************)
(* A client between its bits owns the server, which counts with it.        *)
LEMMA InStep ==
    ASSUME TypeInv, SessionInv, NEW c \in Clients, Transmitting(c)
    PROVE  /\ st.actual_pid = c
           /\ Received \in {cl[c].sent - 1, cl[c].sent}
           /\ Received < cl[c].sent =>
                 cl[c].ready_to_proceed = 0 /\ pending[c] = {} /\ ~acking
<1>1. /\ Session(c) /\ cl[c].at \in {"send", "ack", "clear"}
      /\ cl[c].sent < LastBit(c) /\ Received \in Nat /\ cl[c].sent \in Nat
  <2>1. cl[c].sent \in 1..(LastBit(c) - 1) /\ cl[c].at \in {"send", "ack", "clear"}
    BY DEF Transmitting
  <2>2. LastBit(c) \in Nat /\ Received \in Nat /\ cl[c].sent \in Nat
    BY Counters
  <2>. QED  BY <2>1, <2>2 DEF SessionInv
<1>2. c \in alive
  BY <1>1 DEF Session, ClientInv, Final
<1>3. CASE cl[c].at # "ack"
  <2>1. st.actual_pid = c /\ Received = cl[c].sent
    BY <1>1, <1>3 DEF Session, ClientInv, BetweenBits
  <2>. QED  BY <1>1, <2>1
<1>4. CASE cl[c].at = "ack"
  <2>1. cl[c].sent # LastBit(c)
    BY <1>1, Counters
  <2>2. CASE /\ st.actual_pid = c /\ Received = cl[c].sent - 1
             /\ pending[c] = {} /\ cl[c].ready_to_proceed = 0
    <3>1. Received # cl[c].sent
      BY <1>1, <2>2
    <3>2. ~acking
      BY <1>1, <1>2, <2>2, <3>1, Running DEF Session, OwnerInv
    <3>. QED  BY <2>2, <3>2
  <2>3. CASE st.actual_pid = c /\ Received = cl[c].sent
    BY <1>1, <2>3
  <2>. QED  BY <1>1, <1>4, <2>1, <2>2, <2>3 DEF Session, ClientInv, AwaitingAck
<1>. QED  BY <1>3, <1>4

(* Client and server are in step from the first bit to the last            *)
(* (wait_for_server_ack, process_data_signal).                             *)
THEOREM LockStepCorrect == Relied => (Spec => []LockStep)
<1>. SUFFICES ASSUME Relied  PROVE Spec => []LockStep
  OBVIOUS
<1>1. TypeInv /\ SessionInv => LockStep
  BY InStep DEF LockStep
<1>. QED  BY <1>1, SessionCorrect, CursorCorrect, PTL

(* Two clients never transmit at a time (wait_for_transmission_slot).      *)
THEOREM OneTransmitterOnly == Relied => (Spec => []OneTransmitter)
<1>. SUFFICES ASSUME Relied  PROVE Spec => []OneTransmitter
  OBVIOUS
<1>1. TypeInv /\ SessionInv => OneTransmitter
  BY InStep DEF OneTransmitter
<1>. QED  BY <1>1, SessionCorrect, CursorCorrect, PTL

(* What is shown is what was sent (handle_header, handle_msg).             *)
THEOREM AlwaysShownAsSent == Relied => (Spec => []ShownAsSent)
<1>. SUFFICES ASSUME Relied  PROVE Spec => []ShownAsSent
  OBVIOUS
<1>1. SessionInv => ShownAsSent
  BY DEF SessionInv
<1>. QED  BY <1>1, SessionCorrect, PTL

(* A client that reports success is right (handle_completion).             *)
THEOREM SuccessAlwaysTrue == Relied => (Spec => []SuccessIsTrue)
<1>. SUFFICES ASSUME Relied  PROVE Spec => []SuccessIsTrue
  OBVIOUS
<1>1. SessionInv => SuccessIsTrue
  BY DEF SessionInv, Session, ShownInv, SuccessIsTrue
<1>. QED  BY <1>1, SessionCorrect, PTL

(***************************************************************************)
(* What a step can do to the terminal and to the clients' reports          *)
(***************************************************************************)
(* Nobody reports anything.                                                *)
LEMMA NoReport ==
    ASSUME \A c \in Clients :
              \/ cl'[c].at = cl[c].at
              \/ /\ cl[c].at \notin {"success", "failure"}
                 /\ cl'[c].at \notin {"success", "failure"}
    PROVE  Outcome' = Outcome
BY DEF Outcome

(* A running client has not reported yet, and goes on.                     *)
LEMMA GoesOn ==
    ASSUME TypeInv, SessionInv, NEW c \in Clients, c \in alive,
           NEW new, cl' = [cl EXCEPT ![c] = new], new.at \notin {"success", "failure"}
    PROVE  Outcome' = Outcome
<1>1. cl[c].at \notin {"success", "failure"}
  BY Running DEF Final
<1>2. cl'[c] = new /\ \A d \in Clients : d # c => cl'[d] = cl[d]
  BY DEF TypeInv, TypeOK, ClientTypeOK
<1>. QED  BY <1>1, <1>2, NoReport

(* The steps by which a client tells its user, and what is so then.        *)
Tells(c, o) ==
    /\ c \in alive /\ Exit(c, o) /\ UNCHANGED serverVars
    /\ o = IF Shown(c) THEN "success" ELSE "failure"
    /\ UnderWay(c) = {}

(* What a client's main thread does.                                       *)
LEMMA MainTells ==
    ASSUME TypeInv, SessionInv, "ack" \notin Faults, NEW c \in Clients, ClientMain(c)
    PROVE  Tells(c, "failure") \/ (UNCHANGED <<msg, printed>> /\ Outcome' = Outcome)
<1>. USE DEF Final
<1>1. /\ UNCHANGED serverVars /\ printed' = printed
      /\ Session(c) /\ cl[c] \in ClientProcess
  BY DEF ClientMain, serverVars, SessionInv, TypeInv, TypeOK, ClientTypeOK
<1>2. CASE Start(c) \/ PollReady(c) \/ PingExpire(c) \/ Retry(c)
           \/ InstallHandlers(c) \/ AcquireSlot(c) \/ AckSeen(c) \/ ClearAck(c)
  <2>. DEFINE moved(new) == Local(c, new) /\ new.at \notin {"success", "failure"}
  <2>1. c \in alive
    BY <1>2 DEF Start, PollReady, PingExpire, Retry, InstallHandlers, AcquireSlot,
                AckSeen, ClearAck, At
  <2>2. CASE Start(c) \/ PollReady(c) \/ PingExpire(c)
    <3>1. \/ moved([cl[c] EXCEPT !.at = "ping", !.handler = "ping", !.attempt = 1,
                              !.is_ready = 0, !.ready_to_proceed = 0,
                              !.transmission_active = 0])
          \/ moved([cl[c] EXCEPT !.at = "switch"])
          \/ moved([cl[c] EXCEPT !.at = "delay"])
      BY <1>1, <2>2 DEF Start, PollReady, PingExpire, ClientProcess
    <3>. QED  BY <1>1, <2>1, <3>1, GoesOn DEF Local
  <2>3. CASE Retry(c) \/ InstallHandlers(c) \/ AcquireSlot(c)
    <3>1. \/ moved([cl[c] EXCEPT !.at = "ping", !.attempt = @ + 1])
          \/ moved([cl[c] EXCEPT !.at = "slot", !.handler = "transfer"])
          \/ moved([cl[c] EXCEPT !.at = "send", !.transmission_active = 1])
      BY <1>1, <2>3 DEF Retry, InstallHandlers, AcquireSlot, ClientProcess
    <3>. QED  BY <1>1, <2>1, <3>1, GoesOn DEF Local
  <2>4. CASE AckSeen(c) \/ ClearAck(c)
    <3>1. \/ moved([cl[c] EXCEPT !.at = "clear"])
          \/ moved([cl[c] EXCEPT !.ready_to_proceed = 0,
                 !.at = IF cl[c].sent < TotalBits(c) THEN "send" ELSE "pause"])
      BY <1>1, <2>4 DEF AckSeen, ClearAck, ClientProcess
    <3>. QED  BY <1>1, <2>1, <3>1, GoesOn DEF Local
  <2>. QED  BY <1>2, <2>2, <2>3, <2>4
<1>3. CASE SendPing(c) \/ SendBit(c)
  <2>1. PICK new : /\ c \in alive /\ cl' = [cl EXCEPT ![c] = new] /\ msg' = msg
                   /\ new.at \notin {"success", "failure"}
    BY <1>1, <1>3, ZenonT(30) DEF SendPing, SendBit, Send, At, ClientProcess
  <2>. QED  BY <1>1, <2>1, GoesOn
<1>4. CASE ServerGone(c) \/ GiveUp(c)
  <2>1. /\ c \in alive /\ Exit(c, "failure")
        /\ cl[c].at \in {"start", "ping", "delay", "send"}
    BY <1>4 DEF ServerGone, GiveUp, At
  <2>2. ~Shown(c) /\ UnderWay(c) = {}
    BY <1>1, <2>1 DEF Session, ShownInv, ClientInv, PingInv, BetweenBits, Apart
  <2>. QED  BY <1>1, <2>1, <2>2 DEF Tells
<1>5. CASE AckExpire(c) /\ ("ack" \in Faults \/ (Quiet(c) /\ cl[c].ready_to_proceed = 0))
  <2>1. c \in alive /\ Exit(c, "failure") /\ cl[c].at = "ack" /\ Quiet(c)
    BY <1>5 DEF AckExpire, At
  <2>2. pending[c] = {} /\ UnderWay(c) = {}
    BY <2>1 DEF Quiet, FromTo, UnderWay
  <2>3. ~Shown(c)
    <3>1. Shown(c) => st.actual_pid # c
      BY <1>1 DEF Session, ShownInv
    <3>2. st.actual_pid # c /\ Shown(c) => pending[c] = {Reply("USR1")}
      BY <1>1, <2>1 DEF Session, ClientInv, AwaitingAck
    <3>. QED  BY <2>2, <3>1, <3>2
  <2>. QED  BY <1>1, <2>1, <2>2, <2>3 DEF Tells
<1>. QED  BY <1>2, <1>3, <1>4, <1>5 DEF ClientMain

(* What a client's handlers do.                                            *)
LEMMA HandlerTells ==
    ASSUME TypeInv, SessionInv, NEW c \in Clients, ClientHandler(c)
    PROVE  Tells(c, "success") \/ (UNCHANGED <<msg, printed>> /\ Outcome' = Outcome)
<1>. USE DEF Final
<1>1. PICK m \in pending[c] :
        DefaultAction(c, m) \/ Pinged(c, m) \/ Acknowledged(c, m) \/ Confirmed(c, m)
  BY DEF ClientHandler, ClientSignal
<1>2. /\ UNCHANGED serverVars /\ printed' = printed
      /\ c \in alive /\ Session(c) /\ cl[c] \in ClientProcess
      /\ cl[c].at \notin {"success", "failure"}
  <2>1. c \in alive
    BY DEF SessionInv, KernelInv, Procs
  <2>. QED  BY <2>1, Running DEF ClientHandler, serverVars, TypeInv, TypeOK, ClientTypeOK
<1>3. CASE DefaultAction(c, m)
  <2>1. cl' = [cl EXCEPT ![c] = [cl[c] EXCEPT !.at = "killed"]] /\ msg' = msg
    BY <1>3 DEF DefaultAction, Exit
  <2>2. [cl[c] EXCEPT !.at = "killed"].at = "killed"
    BY <1>2 DEF ClientProcess
  <2>. QED  BY <1>2, <2>1, <2>2, GoesOn
<1>4. CASE Pinged(c, m) \/ Acknowledged(c, m)
  <2>1. PICK new : cl' = [cl EXCEPT ![c] = new] /\ msg' = msg /\ new.at = cl[c].at
    BY <1>2, <1>4 DEF Pinged, Acknowledged, Deliver, ClientProcess
  <2>. QED  BY <1>2, <2>1, GoesOn
<1>5. CASE Confirmed(c, m)
  <2>1. cl[c].handler = "transfer" /\ m.sig = "USR1" /\ Exit(c, "success")
    BY <1>5 DEF Confirmed
  <2>2. cl[c].at = "ack"
    BY <1>2, <2>1 DEF Session, ClientInv, BetweenBits, PingInv, Apart, ClientProcess, Points
  <2>3. m # Reply("USR2")
    BY <2>1 DEF Reply
  <2>4. Shown(c) /\ UnderWay(c) = {}
    BY <1>2, <2>2, <2>3 DEF Session, ClientInv, AwaitingAck
  <2>. QED  BY <1>2, <2>1, <2>4 DEF Tells
<1>. QED  BY <1>1, <1>3, <1>4, <1>5

(* What the server does.                                                   *)
LEMMA ServerShows ==
    ASSUME ServerHandler \/ ServerMain \/ ServerCrash \/ MallocFails
    PROVE  /\ UNCHANGED clientVars /\ Outcome' = Outcome
           /\ \/ printed' = printed
              \/ /\ main \in Cleaning => "preempt" \in Faults
                 /\ \E m \in pending[Server] : CompleteMessage(m)
<1>1. UNCHANGED clientVars
  BY DEF ServerHandler, ServerMain, ServerCrash, MallocFails
<1>2. Outcome' = Outcome
  BY <1>1, NoReport DEF clientVars
<1>. SUFFICES \/ printed' = printed
              \/ /\ main \in Cleaning => "preempt" \in Faults
                 /\ \E m \in pending[Server] : CompleteMessage(m)
  BY <1>1, <1>2
<1>3. CASE ServerHandler
  <2>1. CASE SendAck
    BY <2>1 DEF SendAck
  <2>2. ASSUME NEW m \in pending[Server], HandleSignal(m)
        PROVE  printed' = printed \/ CompleteMessage(m)
    BY <2>2 DEF HandleSignal, KilledBySignal, IgnoreOwnSignal, AcceptClient, RejectBusy,
                ReceiveHeaderBit, ReceiveMessageBit, CorruptMemory, serverVars
  <2>. QED  BY <1>3, <2>1, <2>2 DEF ServerHandler
<1>4. CASE ServerMain
  <2>1. printed' = printed
    BY <1>4 DEF ServerMain, Boot, StartMonitoring, OwnerLeft, OwnerActive, OwnerIdle,
                HandleTimeout, CleanMessage, ResetState, CleanStep, Advance
  <2>. QED  BY <2>1
<1>5. CASE ServerCrash \/ MallocFails
  <2>1. printed' = printed
    BY <1>5 DEF ServerCrash, MallocFails, MemoryExhausted
  <2>. QED  BY <2>1
<1>. QED  BY <1>3, <1>4, <1>5

(* All of them.                                                            *)
LEMMA StepKinds ==
    ASSUME TypeInv, SessionInv, "ack" \notin Faults, [Next]_vars
    PROVE  \/ UNCHANGED <<msg, printed>> /\ Outcome' = Outcome
           \/ \E c \in Clients, o \in {"success", "failure"} : Tells(c, o)
           \/ /\ UNCHANGED clientVars /\ Outcome' = Outcome
              /\ main \in Cleaning => "preempt" \in Faults
              /\ \E m \in pending[Server] : CompleteMessage(m)
<1>1. CASE ServerHandler \/ ServerMain \/ ServerCrash \/ MallocFails
  BY <1>1, ServerShows DEF clientVars
<1>2. ASSUME NEW c \in Clients, Arrive(c) \/ ClientCrash(c)
      PROVE  UNCHANGED <<msg, printed>> /\ Outcome' = Outcome
  <2>1. /\ msg' = msg /\ printed' = printed /\ cl[c] \in ClientProcess
    BY <1>2 DEF Arrive, Launch, ClientCrash, Exit, serverVars,
                TypeInv, TypeOK, ClientTypeOK
  <2>2. CASE Arrive(c)
    <3>1. cl[c].at = "absent" /\ cl' = [cl EXCEPT ![c].at = "start"]
      BY <2>2 DEF Arrive, Launch
    <3>2. cl'[c].at = "start" /\ \A d \in Clients : d # c => cl'[d] = cl[d]
      BY <2>1, <3>1 DEF TypeInv, TypeOK, ClientTypeOK, ClientProcess
    <3>. QED  BY <2>1, <3>1, <3>2, NoReport
  <2>3. CASE ClientCrash(c)
    <3>1. /\ c \in alive
          /\ cl' = [cl EXCEPT ![c] = [cl[c] EXCEPT !.at = "killed"]]
      BY <2>3 DEF ClientCrash, Exit
    <3>2. [cl[c] EXCEPT !.at = "killed"].at = "killed"
      BY <2>1 DEF ClientProcess
    <3>. QED  BY <2>1, <3>1, <3>2, GoesOn
  <2>. QED  BY <1>2, <2>2, <2>3
<1>3. ASSUME NEW c \in Clients, ClientMain(c) \/ ClientHandler(c)
      PROVE  \/ UNCHANGED <<msg, printed>> /\ Outcome' = Outcome
             \/ \E o \in {"success", "failure"} : Tells(c, o)
  BY <1>3, MainTells, HandlerTells
<1>4. CASE UNCHANGED vars
  BY <1>4 DEF vars, serverVars, clientVars, Outcome
<1>. QED  BY <1>1, <1>2, <1>3, <1>4 DEF Next

(***************************************************************************)
(* What failure means, and the refinement                                  *)
(***************************************************************************)
(* No step adds to what a client that is gone has under way.               *)
LEMMA OnlyMine ==
    ASSUME TypeInv, SessionInv, [Next]_vars,
           NEW c \in Clients, c \notin alive
    PROVE  UnderWay(c)' \subseteq UnderWay(c)
<1>1. /\ pending \in [Procs -> SUBSET Signal]
      /\ Server \in Procs /\ Clients \subseteq Procs /\ Server \notin Clients
  BY ProcessAssumption DEF TypeInv, TypeOK, KernelTypeOK, Procs
<1>. SUFFICES \A m \in pending'[Server] : m.from = c => m \in pending[Server]
  BY DEF UnderWay
<1>2. ASSUME NEW pend \in [Procs -> SUBSET Signal], pend[Server] \subseteq pending[Server],
             NEW from \in Procs, from # c, NEW pid, NEW s,
             pending' = Kill(pend, from, pid, s)
      PROVE  \A m \in pending'[Server] : m.from = c => m \in pending[Server]
  <2>. DEFINE new == [sig |-> s, from |-> from]
  <2>1. pending'[Server] \subseteq pend[Server] \cup {new}
    BY <1>1, <1>2 DEF Kill
  <2>2. new.from # c
    BY <1>2
  <2>. HIDE DEF new
  <2>. QED  BY <1>2, <2>1, <2>2
<1>3. ASSUME NEW m \in pending[Server]
      PROVE  /\ Taken(Server, m) \in [Procs -> SUBSET Signal]
             /\ Taken(Server, m)[Server] \subseteq pending[Server]
  BY <1>1 DEF Taken
<1>4. ASSUME NEW p \in Procs, Terminate(p)
      PROVE  \A m \in pending'[Server] : m.from = c => m \in pending[Server]
  BY <1>1, <1>4 DEF Terminate
<1>5. CASE ServerHandler
  <2>1. CASE SendAck
    BY <1>1, <1>2, <2>1 DEF SendAck
  <2>2. ASSUME NEW m \in pending[Server], HandleSignal(m)
        PROVE  \A n \in pending'[Server] : n.from = c => n \in pending[Server]
    <3>1. CASE KilledBySignal(m) \/ CorruptMemory(m)
      BY <1>1, <1>4, <3>1 DEF KilledBySignal, CorruptMemory
    <3>2. CASE IgnoreOwnSignal(m) \/ ReceiveHeaderBit(m) \/ ReceiveMessageBit(m)
      <4>1. pending' = Taken(Server, m)
        BY <3>2 DEF IgnoreOwnSignal, ReceiveHeaderBit, ReceiveMessageBit
      <4>. QED  BY <1>3, <4>1
    <3>3. CASE AcceptClient(m) \/ RejectBusy(m) \/ CompleteMessage(m)
      <4>1. \E s : pending' = Kill(Taken(Server, m), Server, Sender(m), s)
        BY <3>3 DEF AcceptClient, RejectBusy, CompleteMessage
      <4>. QED  BY <1>1, <1>2, <1>3, <4>1
    <3>. QED  BY <2>2, <3>1, <3>2, <3>3 DEF HandleSignal
  <2>. QED  BY <1>5, <2>1, <2>2 DEF ServerHandler
<1>6. CASE ServerMain
  <2>1. pending' = pending
    BY <1>6, MainLeaves
  <2>. QED  BY <2>1
<1>7. CASE ServerCrash \/ MallocFails
  BY <1>1, <1>4, <1>7 DEF ServerCrash, MallocFails, MemoryExhausted
<1>8. ASSUME NEW d \in Clients, Arrive(d) \/ ClientMain(d) \/ ClientHandler(d) \/ ClientCrash(d)
      PROVE  \A m \in pending'[Server] : m.from = c => m \in pending[Server]
  <2>1. CASE SendPing(d) \/ SendBit(d)
    <3>1. d \in alive /\ \E s : pending' = Kill(pending, d, Server, s)
      BY <2>1 DEF SendPing, SendBit, Send, At
    <3>. QED  BY <1>1, <1>2, <3>1
  <2>2. CASE \E o : Exit(d, o)
    BY <1>1, <1>4, <2>2 DEF Exit
  <2>3. CASE \E m \in pending[d] : pending' = Taken(d, m)
    BY <1>1, <2>3 DEF Taken
  <2>4. CASE pending' = pending
    BY <2>4
  <2>5. ClientHandler(d) => (\E o : Exit(d, o)) \/ \E m \in pending[d] : pending' = Taken(d, m)
    BY DEF ClientHandler, ClientSignal, DefaultAction, Pinged, Acknowledged, Confirmed, Deliver
  <2>6. ClientMain(d) => \/ SendPing(d) \/ SendBit(d) \/ pending' = pending
                         \/ \E o : Exit(d, o)
    BY DEF ClientMain, Start, ServerGone, PollReady, PingExpire, Retry, GiveUp,
           InstallHandlers, AcquireSlot, AckSeen, ClearAck, AckExpire, Local, kernelVars
  <2>7. (Arrive(d) => pending' = pending) /\ (ClientCrash(d) => \E o : Exit(d, o))
    BY DEF Arrive, Launch, ClientCrash
  <2>. QED  BY <1>8, <2>1, <2>2, <2>3, <2>4, <2>5, <2>6, <2>7
<1>9. CASE UNCHANGED vars
  BY <1>9 DEF vars, kernelVars
<1>. QED  BY <1>5, <1>6, <1>7, <1>8, <1>9 DEF Next

(* Where a client is, told from its outcome.                               *)
LEMMA Reported ==
    ASSUME NEW c \in Clients, NEW o \in {"success", "failure"}
    PROVE  /\ Outcome[c] = o <=> cl[c].at = o
           /\ (Outcome[c] = o)' <=> cl'[c].at = o
BY DEF Outcome

(* A client that has failed stays without anything that could be shown.    *)
LEMMA FailureStep ==
    ASSUME TypeInv, SessionInv, FailureInv, Relied, "ack" \notin Faults, [Next]_vars
    PROVE  FailureInv'
<1>. SUFFICES ASSUME NEW c \in Clients, cl'[c].at = "failure"
              PROVE  ~Shown(c)' /\ UnderWay(c)' = {}
  BY DEF FailureInv
<1>1. ASSUME cl[c].at = "failure"
      PROVE  ~Shown(c) /\ UnderWay(c) = {} /\ UnderWay(c)' = {} /\ c \notin alive
  <2>1. c \notin alive
    BY <1>1 DEF SessionInv, Session, ClientInv, Final
  <2>. QED  BY <1>1, <2>1, OnlyMine DEF FailureInv
<1>2. CASE UNCHANGED <<msg, printed>> /\ Outcome' = Outcome
  <2>1. cl[c].at = "failure"
    BY <1>2, Reported
  <2>. QED  BY <1>1, <1>2, <2>1 DEF Shown
<1>3. ASSUME NEW d \in Clients, NEW o \in {"success", "failure"}, Tells(d, o)
      PROVE  ~Shown(c)' /\ UnderWay(c)' = {}
  <2>1. Shown(c)' = Shown(c)
    BY <1>3 DEF Tells, serverVars, Shown
  <2>2. CASE c # d
    <3>1. cl'[c] = cl[c]
      BY <1>3, <2>2 DEF Tells, Exit, TypeInv, TypeOK, ClientTypeOK
    <3>. QED  BY <1>1, <2>1, <3>1
  <2>3. CASE c = d
    <3>1. cl'[c].at = o
      BY <1>3, <2>3 DEF Tells, Exit, TypeInv, TypeOK, ClientTypeOK, ClientProcess
    <3>2. ~Shown(c) /\ UnderWay(c) = {}
      BY <1>3, <2>3, <3>1 DEF Tells
    <3>3. UnderWay(c)' = UnderWay(c)
      BY <1>3, <2>3, ProcessAssumption
         DEF Tells, Exit, Terminate, UnderWay, Procs, TypeInv, TypeOK, KernelTypeOK
    <3>. QED  BY <2>1, <3>2, <3>3
  <2>. QED  BY <2>2, <2>3
<1>4. ASSUME UNCHANGED clientVars, main \in Cleaning => "preempt" \in Faults,
             NEW m \in pending[Server], CompleteMessage(m)
      PROVE  ~Shown(c)' /\ UnderWay(c)' = {}
  <2>1. cl[c].at = "failure"
    BY <1>4 DEF clientVars
  <2>2. /\ m.from \in Clients /\ UnderWay(m.from) = {m}
        /\ printed' = Append(printed, [from |-> m.from, text |-> msg[m.from]])
    BY <1>4, CompleteShows, Handling
  <2>3. m.from # c
    BY <1>1, <2>1, <2>2
  <2>4. Shown(c)' = Shown(c)
    BY <2>2, <2>3, LogGrows
  <2>. QED  BY <1>1, <2>1, <2>4
<1>. QED  BY <1>2, <1>3, <1>4, StepKinds

(* Nobody has failed before anybody is started.                            *)
LEMMA InitFailure == Init => FailureInv
BY DEF Init, ClientInit, FailureInv

(* A client that gives up only when no answer can come any more has left   *)
(* nothing behind that could still be shown.                               *)
THEOREM FailureCorrect == Relied /\ "ack" \notin Faults => (Spec => []FailureInv)
<1>. SUFFICES ASSUME Relied, "ack" \notin Faults  PROVE Spec => []FailureInv
  OBVIOUS
<1>1. TypeInv /\ SessionInv /\ FailureInv /\ [Next]_vars => FailureInv'
  BY FailureStep
<1>. QED  BY <1>1, InitFailure, SessionCorrect, CursorCorrect, PTL DEF Spec

(* A client that reports failure is right (handle_timeout).                *)
THEOREM FailureAlwaysTrue == Relied /\ "ack" \notin Faults => (Spec => []FailureIsTrue)
<1>. SUFFICES ASSUME Relied, "ack" \notin Faults  PROVE Spec => []FailureIsTrue
  OBVIOUS
<1>1. FailureInv => FailureIsTrue
  BY DEF FailureInv, FailureIsTrue
<1>. QED  BY <1>1, FailureCorrect, PTL

(* The last bit of a message shows it, and nothing else does.              *)
LEMMA ShowStep ==
    ASSUME TypeInv, SessionInv, FailureInv, Relied, UNCHANGED clientVars, Outcome' = Outcome,
           main \in Cleaning => "preempt" \in Faults,
           NEW m \in pending[Server], CompleteMessage(m)
    PROVE  D!Next
<1>1. /\ m.from \in Clients
      /\ printed' = Append(printed, [from |-> m.from, text |-> msg[m.from]])
      /\ ~Shown(m.from) /\ cl[m.from].at # "success" /\ UnderWay(m.from) # {}
  BY CompleteShows, BitArrives, SMTT(30)
<1>2. Outcome[m.from] = "none"
  BY <1>1 DEF FailureInv, Outcome
<1>3. D!Show(m.from)
  BY <1>1, <1>2 DEF D!Show, D!Shown, Shown, clientVars
<1>. QED  BY <1>1, <1>3 DEF D!Next

(* What a client tells its user is what there is to report.                *)
LEMMA ReportStep ==
    ASSUME TypeInv, SessionInv, NEW c \in Clients, NEW o \in {"success", "failure"}, Tells(c, o)
    PROVE  D!Next
<1>1. /\ cl[c].at \notin {"success", "failure"}
      /\ cl \in [Clients -> ClientProcess]
  BY Running DEF Tells, Final, TypeInv, TypeOK, ClientTypeOK
<1>2. /\ cl'[c].at = o /\ \A d \in Clients : d # c => cl'[d] = cl[d]
      /\ msg' = msg /\ printed' = printed
      /\ o = IF Shown(c) THEN "success" ELSE "failure"
  BY <1>1 DEF Tells, Exit, ClientProcess, serverVars
<1>3. Outcome[c] = "none" /\ Outcome' = [Outcome EXCEPT ![c] = o]
  BY <1>1, <1>2 DEF Outcome
<1>4. D!Report(c, o)
  BY <1>2, <1>3 DEF D!Report, D!Shown, Shown
<1>. QED  BY <1>4 DEF D!Next

(* The program implements Delivery (srcs/server, srcs/client).             *)
THEOREM DeliveryImplemented == Relied /\ "ack" \notin Faults => (Spec => Delivers)
<1>. SUFFICES ASSUME Relied, "ack" \notin Faults  PROVE Spec => Delivers
  OBVIOUS
<1>1. Init => D!Init
  BY DEF Init, ServerInit, ClientInit, D!Init, Outcome
<1>2. TypeInv /\ SessionInv /\ FailureInv /\ [Next]_vars => [D!Next]_(D!vars)
  BY StepKinds, ShowStep, ReportStep DEF D!vars
<1>. QED  BY <1>1, <1>2, FailureCorrect, SessionCorrect, CursorCorrect, PTL
          DEF Spec, Delivers, D!Spec
=============================================================================
