-------------------------- MODULE GeReceiverProofs --------------------------
(***************************************************************************)
(* The receive buffer is never overrun and the data that is handed over is *)
(* what the panel sent, for every frame size, every base of the digits and *)
(* whatever the line does.                                                 *)
(***************************************************************************)
EXTENDS GeReceiver, SequenceTheorems, WellFoundedInduction, TLAPS

\* What IndexInBounds needs of the other fields to be inductive.
ParserInv ==
  /\ current_byte \in Nat
  /\ message_len \in Int
  /\ nibble_buffer \in Digit \union {NoNibble}
  /\ IndexInBounds

\* A byte made of two digits is a number.
LEMMA ByteType ==
  ASSUME NEW n \in Digit, NEW d \in Digit
  PROVE  n * Base + d \in Int
<1>1. n \in Int /\ d \in Int /\ Base \in Int
  BY ReceiverAssumption DEF Digit
<1>2. QED BY <1>1

\* ge_rs232_receive_byte() keeps the invariant, whatever the byte.
LEMMA ReceiveByteStep ==
  ASSUME ParserInv, NEW byte, ReceiveByte(byte)
  PROVE  ParserInv'
<1>1. MaxSize \in Nat /\ NoLength \in Int /\ MaxSize < NoLength
  BY ReceiverAssumption DEF NoLength
<1>2. HexDigitToInt(byte) \in Digit
  BY ReceiverAssumption DEF HexDigitToInt, Digit
<1>3. CASE StartOfMessage
  BY <1>1, <1>3 DEF StartOfMessage, ParserInv, IndexInBounds
<1>4. CASE Response
  BY <1>4 DEF Response, parser, ParserInv, IndexInBounds
<1>5. CASE FirstNibble(byte)
  BY <1>2, <1>5 DEF FirstNibble, ParserInv, IndexInBounds
<1>6. CASE /\ SecondNibble(byte) /\ reading_message /\ nibble_buffer # NoNibble
  <2> DEFINE value == nibble_buffer * Base + HexDigitToInt(byte)
  <2>1. value \in Int
    BY <1>2, <1>6, ByteType DEF ParserInv
  <2>2. nibble_buffer' = NoNibble
    BY <1>6 DEF SecondNibble
  <2> HIDE DEF value
  <2>3. CASE message_len = NoLength
    <3>1. LengthByte(value)
      BY <1>6, <2>3 DEF SecondNibble, value
    <3>2. CASE value > MaxSize \/ value < 2
      BY <2>2, <3>1, <3>2 DEF LengthByte, ParserInv, IndexInBounds
    <3>3. CASE ~ (value > MaxSize \/ value < 2)
      <4>1. message_len' = value /\ current_byte' = 0 /\ value >= 2 /\ value <= MaxSize
        BY <1>1, <2>1, <3>1, <3>3 DEF LengthByte
      <4>2. QED BY <2>1, <2>2, <4>1, <1>1 DEF ParserInv, IndexInBounds
    <3>4. QED BY <3>2, <3>3
  <2>4. CASE message_len # NoLength
    <3>1. DataByte(value)
      BY <1>6, <2>4 DEF SecondNibble, value
    <3>2. /\ current_byte' = current_byte + 1 /\ message_len' = message_len
          /\ current_byte + 1 >= message_len => reading_message' = FALSE
      BY <3>1 DEF DataByte
    <3>3. current_byte < message_len /\ message_len <= MaxSize
      BY <1>6, <2>4 DEF ParserInv, IndexInBounds
    <3>4. QED BY <1>1, <2>2, <3>2, <3>3 DEF ParserInv, IndexInBounds
  <2>5. QED BY <2>3, <2>4
<1>7. CASE UNCHANGED parser
  BY <1>7 DEF parser, ParserInv, IndexInBounds
<1>8. QED BY <1>3, <1>4, <1>5, <1>6, <1>7 DEF ReceiveByte

\* For every length the line may claim, and wherever a frame is cut off by the
\* next START byte, buffer[current_byte++] stays inside the buffer.
THEOREM NeverOverrun == Spec => []IndexInBounds
<1>1. Init => ParserInv
  BY DEF Init, ParserInv, IndexInBounds
<1>2. ASSUME ParserInv, [Next]_vars PROVE ParserInv'
  <2>1. CASE UNCHANGED parser
    BY <1>2, <2>1 DEF parser, ParserInv, IndexInBounds
  <2>2. ASSUME NEW byte, ReceiveByte(byte) PROVE ParserInv'
    BY <1>2, <2>2, ReceiveByteStep
  <2>3. QED
    BY <1>2, <2>1, <2>2
    DEF Next, vars, ByteArrives, PanelSends, DaemonSends, AnswerArrives,
        PanelHearsAck, PanelResends, Garble, LoseDigit, LoseRest, Damage, LoseReply,
        StrayAnswer
<1>3. ParserInv => IndexInBounds
  BY DEF ParserInv
<1>4. QED BY <1>1, <1>2, <1>3, PTL DEF Spec

-----------------------------------------------------------------------------
(* Bytes, digits and sums.                                                 *)

\* A set of numbers that is not empty has a smallest.
LEMMA Smallest ==
  ASSUME NEW S \in SUBSET Nat, S # {}
  PROVE  \E i \in S : \A j \in S : i <= j
<1> DEFINE Less == {ss \in Nat \X Nat : ss[1] < ss[2]}
<1>1. IsWellFoundedOn(Less, Nat)
  BY NatLessThanWellFounded DEF OpToRel
<1>2. S \subseteq Nat
  OBVIOUS
<1> HIDE DEF Less
<1>3. PICK i \in S : \A j \in S : ~ (<<j, i>> \in Less)
  BY <1>1, <1>2, WFMin
<1>4. ASSUME NEW j \in S PROVE i <= j
  <2>1. SUFFICES ASSUME j < i PROVE FALSE
    BY <1>2
  <2>2. <<j, i>> \in Nat \X Nat
    BY <1>2
  <2>3. <<j, i>> \in Less
    BY <2>1, <2>2 DEF Less
  <2> QED BY <1>3, <2>3
<1> QED BY <1>3, <1>4

\* What holds of a number when it holds of all smaller ones holds of all.
LEMMA Induction ==
  ASSUME NEW S, \A n \in Nat : (\A m \in 0 .. n - 1 : m \in S) => n \in S
  PROVE  \A n \in Nat : n \in S
<1>1. SUFFICES ASSUME Nat \ S # {} PROVE FALSE
  OBVIOUS
<1>2. PICK n \in Nat \ S : \A m \in Nat \ S : n <= m
  BY <1>1, Smallest
<1>3. \A m \in 0 .. n - 1 : m \in S
  BY <1>2
<1> QED BY <1>2, <1>3

\* What a byte and a digit are.
LEMMA Numbers ==
  /\ Base \in Nat /\ Base > 1 /\ Base * Base \in Nat /\ Base * Base > 1
  /\ Digit = 0 .. Base - 1 /\ Value = 0 .. Base * Base - 1
  /\ Digit \subseteq Nat /\ Value \subseteq Nat /\ 0 \in Digit /\ 0 \in Value
<1>1. Base \in Nat /\ Base > 1
  BY ReceiverAssumption
<1>2. Base * Base \in Nat /\ Base * Base > 1
  <2>1. ASSUME NEW b \in Nat, b > 1 PROVE b * b \in Nat /\ b * b > 1
    BY <2>1
  <2> QED BY <1>1, <2>1
<1> QED BY <1>1, <1>2 DEF Digit, Value

\* A product with a positive number is not smaller than that.
LEMMA AtLeast ==
  ASSUME NEW s \in Nat, NEW q \in Int, q >= 1
  PROVE  s * q >= s
<1>1. s * q = s + s * (q - 1)
  OBVIOUS
<1>2. q - 1 \in Nat /\ s * (q - 1) >= 0 /\ s * (q - 1) \in Int
  OBVIOUS
<1>3. s * q \in Int
  OBVIOUS
<1> DEFINE x == s * q
           y == s * (q - 1)
<1>4. x = s + y /\ y >= 0 /\ x \in Int /\ y \in Int
  BY <1>1, <1>2, <1>3
<1> HIDE DEF x, y
<1>5. x >= s
  BY <1>4
<1> QED BY <1>5 DEF x

\* Two remainders are told apart by less than what they are remainders of.
LEMMA SmallMultiple ==
  ASSUME NEW s \in Nat, NEW q \in Int, s * q < s, -s < s * q
  PROVE  q = 0
<1>1. CASE q >= 1
  <2>1. s * q >= s
    BY <1>1, AtLeast
  <2>2. s * q \in Int
    OBVIOUS
  <2> QED BY <2>1, <2>2
<1>2. CASE q <= -1
  <2>1. s * (-q) >= s
    BY <1>2, AtLeast
  <2>2. s * (-q) = -(s * q) /\ s * q \in Int
    OBVIOUS
  <2> QED BY <2>1, <2>2
<1> QED BY <1>1, <1>2

\* Division with a remainder.
LEMMA Division ==
  ASSUME NEW n \in Int, NEW s \in Nat, s > 0
  PROVE  /\ n \div s \in Int /\ n % s \in 0 .. s - 1
         /\ n = (n \div s) * s + (n % s)
<1>1. n \div s \in Int
  OBVIOUS
<1>2. n % s \in 0 .. s - 1
  OBVIOUS
<1>3. n = (n \div s) * s + (n % s)
  OBVIOUS
<1> QED BY <1>1, <1>2, <1>3

\* and is the only one.
LEMMA OneDivision ==
  ASSUME NEW s \in Nat, s > 0, NEW a \in Int, NEW b \in Int, NEW c \in 0 .. s - 1, NEW d \in 0 .. s - 1,
         a * s + c = b * s + d
  PROVE  a = b /\ c = d
<1>1. /\ s * (a - b) = a * s - b * s /\ a * s \in Int /\ b * s \in Int
      /\ s * (a - b) \in Int /\ a - b \in Int
  OBVIOUS
<1> DEFINE x == a * s
           y == b * s
           z == s * (a - b)
<1>2. z = x - y /\ x \in Int /\ y \in Int /\ z \in Int /\ x + c = y + d
  BY <1>1
<1> HIDE DEF x, y, z
<1>3. z < s /\ -s < z
  BY <1>2
<1>4. a - b = 0
  BY <1>1, <1>3, SmallMultiple DEF z
<1>5. a = b
  BY <1>4
<1>6. x = y
  BY <1>5 DEF x, y
<1>7. c = d
  BY <1>2, <1>6
<1> QED BY <1>5, <1>7

\* Two digits make a byte, each byte is made of one pair of digits.
LEMMA ByteOfDigits ==
  ASSUME NEW a \in Digit, NEW b \in Digit
  PROVE  /\ a * Base + b \in Value
         /\ \A c, d \in Digit : a * Base + b = c * Base + d => a = c /\ b = d
<1>1. Base \in Nat /\ Base > 1 /\ a \in 0 .. Base - 1 /\ b \in 0 .. Base - 1
  BY Numbers
<1>2. a * Base + b \in Value
  <2>1. ASSUME NEW n \in Nat, NEW x \in 0 .. n - 1, NEW y \in 0 .. n - 1
        PROVE  x * n + y \in 0 .. n * n - 1
    <3>1. (n - 1 - x) * n >= 0 /\ (n - 1 - x) * n = n * n - n - x * n /\ x * n \in Nat /\ n * n \in Nat
      OBVIOUS
    <3> DEFINE p == x * n
               q == n * n
               r == (n - 1 - x) * n
    <3>2. r >= 0 /\ r = q - n - p /\ p \in Nat /\ q \in Nat
      BY <3>1
    <3> HIDE DEF p, q, r
    <3>3. p + y \in 0 .. q - 1
      BY <3>2
    <3> QED BY <3>3 DEF p, q
  <2> QED BY <1>1, <2>1 DEF Value
<1>3. ASSUME NEW c \in Digit, NEW d \in Digit, a * Base + b = c * Base + d PROVE a = c /\ b = d
  <2>1. c \in 0 .. Base - 1 /\ d \in 0 .. Base - 1
    BY Numbers
  <2>2. a \in Int /\ c \in Int
    BY <1>1, <2>1
  <2> QED BY <1>1, <1>3, <2>1, <2>2, OneDivision
<1> QED BY <1>2, <1>3

\* The digits of a byte make it again.
LEMMA DigitsOfByte ==
  ASSUME NEW v \in Value
  PROVE  /\ v \div Base \in Digit /\ v % Base \in Digit
         /\ (v \div Base) * Base + (v % Base) = v
<1>1. Base \in Nat /\ Base > 0 /\ v \in 0 .. Base * Base - 1 /\ v \in Int
  BY Numbers
<1>2. v \div Base \in Int /\ v % Base \in 0 .. Base - 1 /\ v = (v \div Base) * Base + (v % Base)
  BY <1>1, Division
<1> DEFINE q == v \div Base
           r == v % Base
<1>3. q \in Int /\ r \in 0 .. Base - 1 /\ v = q * Base + r
  BY <1>2, Zenon
<1> HIDE DEF q, r
<1>4. v = Base * q + r
  BY <1>1, <1>3
<1>5. q \in 0 .. Base - 1
  <2>1. CASE q < 0
    <3>1. -q >= 1 /\ -q \in Int
      BY <1>3, <2>1
    <3>2. Base * (-q) >= Base
      BY <1>1, <3>1, AtLeast
    <3>3. Base * (-q) = -(Base * q) /\ Base * q \in Int
      BY <1>1, <1>3
    <3> QED BY <1>1, <1>3, <1>4, <3>2, <3>3
  <2>2. CASE q >= Base
    <3>1. ASSUME NEW n \in Nat, NEW p \in Int, p >= n PROVE n * p >= n * n
      <4>1. n * (p - n) >= 0 /\ n * (p - n) = n * p - n * n /\ n * p \in Int /\ n * n \in Int
        BY <3>1
      <4> DEFINE x == n * p
                 y == n * n
                 z == n * (p - n)
      <4>2. z >= 0 /\ z = x - y /\ x \in Int /\ y \in Int
        BY <4>1
      <4> HIDE DEF x, y, z
      <4>3. x >= y
        BY <4>2
      <4> QED BY <4>3 DEF x, y
    <3>2. Base * q >= Base * Base /\ Base * q \in Int /\ Base * Base \in Int
      BY <1>1, <1>3, <2>2, <3>1
    <3>3. r >= 0 /\ r \in Int /\ v = Base * q + r /\ v < Base * Base /\ v \in Int
      BY <1>1, <1>3, <1>4
    <3> DEFINE x == Base * q
               y == Base * Base
    <3>4. x >= y /\ x \in Int /\ y \in Int /\ v = x + r /\ v < y
      BY <3>2, <3>3
    <3> HIDE DEF x, y
    <3> QED BY <3>3, <3>4
  <2> QED BY <1>1, <1>3, <2>1, <2>2
<1>6. q \in Digit /\ r \in Digit
  BY <1>3, <1>5, Numbers
<1> QED BY <1>3, <1>6 DEF q, r

\* A sum is a byte, and another byte makes another sum.
LEMMA SumIs ==
  ASSUME NEW x \in Value, NEW v \in Value
  PROVE  /\ Sum(x, v) \in Value
         /\ \A y \in Value : (Sum(x, v) = Sum(y, v) => x = y) /\ (Sum(v, x) = Sum(v, y) => x = y)
<1> DEFINE S == Base * Base
<1>1. S \in Nat /\ S > 0 /\ Value = 0 .. S - 1 /\ \A a, b : Sum(a, b) = (a + b) % S
  BY Numbers DEF Sum
<1> HIDE DEF S
<1>2. Sum(x, v) \in Value
  BY <1>1, Division
<1>3. ASSUME NEW y \in Value, (x + v) % S = (y + v) % S PROVE x = y
  <2>1. x + v \in Int /\ y + v \in Int /\ x \in 0 .. S - 1 /\ y \in 0 .. S - 1 /\ v \in Int
    BY <1>1
  <2> DEFINE a == (x + v) \div S
             b == (y + v) \div S
             r == (x + v) % S
  <2>2. a \in Int /\ r \in 0 .. S - 1 /\ x + v = a * S + r
    BY <1>1, <2>1, Division
  <2>3. b \in Int /\ y + v = b * S + r
    BY <1>1, <1>3, <2>1, Division
  <2> HIDE DEF a, b, r
  <2>4. a * S \in Int /\ b * S \in Int /\ S * (a - b) = a * S - b * S /\ a - b \in Int
    BY <1>1, <2>2, <2>3
  <2>5. S * (a - b) = x - y
    BY <2>1, <2>2, <2>3, <2>4
  <2>6. x - y < S /\ -S < x - y
    BY <1>1, <2>1
  <2>7. a - b = 0
    BY <1>1, <2>4, <2>5, <2>6, SmallMultiple
  <2>8. S * (a - b) = 0
    BY <1>1, <2>7
  <2> QED BY <2>1, <2>5, <2>8
<1>4. ASSUME NEW y \in Value PROVE x + v = v + x /\ y + v = v + y
  BY <1>1
<1> QED BY <1>1, <1>2, <1>3, <1>4

-----------------------------------------------------------------------------
(* What the panel writes.                                                  *)

\* The checksum after k bytes, when sums gives the ones before.
SumAt(f, sums, k) == IF k = 0 THEN Len(f) + 1 ELSE Sum(sums[k - 1], f[k])

\* The frames are sequences of bytes that have room in the buffer.
LEMMA FrameTypes ==
  ASSUME NEW f \in Frames
  PROVE  /\ f \in Seq(Value) /\ Len(f) \in Nat /\ Len(f) >= 1
         /\ Len(f) + 1 \in 2 .. MaxSize /\ Len(f) + 1 \in Value /\ Len(f) + 1 # NoLength
         /\ MaxSize \in Nat /\ MaxSize < NoLength /\ NoLength \in Nat
         /\ f # <<>>
<1>1. f \in Seq(Value) /\ 1 <= Len(f) /\ Len(f) < MaxSize /\ MaxSize \in Nat /\ MaxSize < NoLength
  BY ReceiverAssumption
<1>2. Len(f) \in Nat
  BY <1>1
<1>3. NoLength \in Nat /\ Value = 0 .. NoLength
  BY Numbers DEF NoLength
<1>4. f # <<>>
  BY <1>1
<1> QED BY <1>1, <1>2, <1>3, <1>4

\* The checksums of a frame are defined, from its start on.
LEMMA SumsDefined ==
  ASSUME NEW f \in Seq(Value)
  PROVE  Checksums(f) = [k \in 0 .. Len(f) |-> SumAt(f, Checksums(f), k)]
<1> DEFINE N == Len(f)
           Fore(n, g) == /\ g = [k \in 0 .. N |-> g[k]]
                         /\ \A k \in 0 .. N : k <= n => g[k] = SumAt(f, g, k)
           Done == {n \in Nat : \E g : Fore(n, g)}
<1>1. N \in Nat
  OBVIOUS
<1>2. ASSUME NEW n \in Nat, \A m \in 0 .. n - 1 : m \in Done PROVE n \in Done
  <2>1. CASE n = 0
    <3> DEFINE g == [k \in 0 .. N |-> N + 1]
    <3>1. g = [k \in 0 .. N |-> g[k]]
      OBVIOUS
    <3>2. \A k \in 0 .. N : k <= 0 => g[k] = SumAt(f, g, k)
      BY <1>1 DEF SumAt
    <3> HIDE DEF g
    <3>3. Fore(0, g)
      BY <3>1, <3>2
    <3> HIDE DEF Fore
    <3> QED BY <2>1, <3>3
  <2>2. CASE n # 0
    <3>1. n - 1 \in Done
      BY <1>2, <2>2
    <3>2. PICK g : Fore(n - 1, g)
      BY <3>1
    <3> DEFINE h == [k \in 0 .. N |-> IF k = n THEN SumAt(f, g, k) ELSE g[k]]
    <3>3. h = [k \in 0 .. N |-> h[k]]
      OBVIOUS
    <3>4. ASSUME NEW k \in 0 .. N, k <= n PROVE h[k] = SumAt(f, h, k)
      <4>1. k # 0 => k - 1 \in 0 .. N /\ k - 1 # n
        BY <1>1, <3>4
      <4>2. k # 0 => h[k - 1] = g[k - 1]
        BY <4>1
      <4>3. h[k] = SumAt(f, g, k)
        <5>1. CASE k = n
          BY <5>1
        <5>2. CASE k # n
          <6>1. k <= n - 1
            BY <1>1, <3>4, <5>2
          <6>2. h[k] = g[k]
            BY <5>2
          <6> HIDE DEF h
          <6> QED BY <3>2, <6>1, <6>2
        <5> QED BY <5>1, <5>2
      <4> HIDE DEF h
      <4>4. SumAt(f, h, k) = SumAt(f, g, k)
        BY <4>2 DEF SumAt
      <4> QED BY <4>3, <4>4
    <3> HIDE DEF h
    <3>5. Fore(n, h)
      BY <3>3, <3>4
    <3> HIDE DEF Fore
    <3> QED BY <3>5
  <2> QED BY <2>1, <2>2
<1> HIDE DEF Done
<1>3. N \in Done
  BY <1>1, <1>2, Induction
<1>4. PICK g : Fore(N, g)
  BY <1>3 DEF Done
<1>5. \A k \in 0 .. N : g[k] = SumAt(f, g, k)
  BY <1>1, <1>4
<1>6. g = [k \in 0 .. N |-> g[k]]
  BY <1>4
<1> HIDE DEF Fore
<1>7. g = [k \in 0 .. N |-> SumAt(f, g, k)]
  BY <1>5, <1>6
<1>8. g = [k \in 0 .. Len(f) |-> IF k = 0 THEN Len(f) + 1 ELSE Sum(g[k - 1], f[k])]
  BY <1>7 DEF SumAt
<1>9. Checksums(f) = [k \in 0 .. Len(f) |-> IF k = 0 THEN Len(f) + 1 ELSE Sum(Checksums(f)[k - 1], f[k])]
  BY <1>8 DEF Checksums
<1> QED BY <1>9 DEF SumAt

\* They start with the length, each adds a byte, and they are bytes.
LEMMA SumsAre ==
  ASSUME NEW f \in Frames
  PROVE  /\ Checksums(f)[0] = Len(f) + 1
         /\ \A k \in 1 .. Len(f) : Checksums(f)[k] = Sum(Checksums(f)[k - 1], f[k])
         /\ \A k \in 0 .. Len(f) : Checksums(f)[k] \in Value
<1> DEFINE N == Len(f)
           sums == Checksums(f)
           Done == {n \in Nat : n <= N => sums[n] \in Value}
<1>1. f \in Seq(Value) /\ N \in Nat /\ N + 1 \in Value
  BY FrameTypes
<1>2. sums = [k \in 0 .. N |-> SumAt(f, sums, k)]
  BY <1>1, SumsDefined
<1> HIDE DEF sums
<1>3. \A k \in 0 .. N : sums[k] = SumAt(f, sums, k)
  BY <1>2
<1>4. sums[0] = N + 1
  BY <1>1, <1>3 DEF SumAt
<1>5. \A k \in 1 .. N : sums[k] = Sum(sums[k - 1], f[k])
  BY <1>1, <1>3 DEF SumAt
<1>6. ASSUME NEW n \in Nat, \A m \in 0 .. n - 1 : m \in Done PROVE n \in Done
  <2>1. CASE n = 0
    BY <1>1, <1>4, <2>1
  <2>2. CASE n # 0 /\ n <= N
    <3>1. n - 1 \in Done /\ n - 1 <= N /\ n \in 1 .. N
      BY <1>1, <1>6, <2>2
    <3>2. sums[n - 1] \in Value /\ f[n] \in Value
      BY <1>1, <3>1
    <3>3. sums[n] \in Value
      BY <1>5, <3>1, <3>2, SumIs
    <3> QED BY <3>3
  <2>3. CASE ~ (n <= N)
    BY <2>3
  <2> QED BY <2>1, <2>2, <2>3
<1> HIDE DEF Done
<1>7. \A n \in Nat : n \in Done
  BY <1>6, Induction
<1>8. \A k \in 0 .. N : sums[k] \in Value
  BY <1>1, <1>7 DEF Done
<1> QED BY <1>4, <1>5, <1>8 DEF sums

\* A frame on the line is the length, the data and the checksum.
LEMMA BytesAre ==
  ASSUME NEW f \in Frames
  PROVE  /\ Bytes(f)[1] = Len(f) + 1
         /\ \A i \in 1 .. Len(f) : Bytes(f)[i + 1] = f[i]
         /\ Bytes(f)[Len(f) + 2] = Checksums(f)[Len(f)]
         /\ \A i \in 1 .. Len(f) + 2 : Bytes(f)[i] \in Value
<1>1. f \in Seq(Value) /\ Len(f) \in Nat /\ Len(f) >= 1 /\ Len(f) + 1 \in Value
  BY FrameTypes
<1>2. Checksums(f)[Len(f)] \in Value
  BY <1>1, SumsAre
<1> DEFINE sum == Checksums(f)[Len(f)]
<1> HIDE DEF sum
<1>3. \A i \in 1 .. Len(f) + 2 :
        Bytes(f)[i] = IF i = 1 THEN Len(f) + 1 ELSE IF i = Len(f) + 2 THEN sum ELSE f[i - 1]
  BY DEF Bytes, sum
<1>4. sum \in Value
  BY <1>2 DEF sum
<1>5. ASSUME NEW i \in 1 .. Len(f) PROVE Bytes(f)[i + 1] = f[i]
  <2>1. i + 1 \in 1 .. Len(f) + 2 /\ i + 1 # 1 /\ i + 1 # Len(f) + 2 /\ (i + 1) - 1 = i
    BY <1>1
  <2> QED BY <1>3, <2>1
<1>6. ASSUME NEW i \in 1 .. Len(f) + 2 PROVE Bytes(f)[i] \in Value
  <2>1. i # 1 /\ i # Len(f) + 2 => i - 1 \in 1 .. Len(f)
    BY <1>1
  <2>2. \A j \in 1 .. Len(f) : f[j] \in Value
    BY <1>1
  <2> QED BY <1>1, <1>3, <1>4, <2>1, <2>2
<1>7. Bytes(f)[1] = Len(f) + 1 /\ Bytes(f)[Len(f) + 2] = sum
  BY <1>1, <1>3
<1> QED BY <1>5, <1>6, <1>7 DEF sum

\* It is written as START and two digits for each of these.
LEMMA EncodeIs ==
  ASSUME NEW f \in Frames
  PROVE  /\ Encode(f) \in Seq(0 .. START) /\ Len(Encode(f)) = 2 * Len(f) + 5
         /\ Encode(f)[1] = START
         /\ \A k \in 1 .. Len(f) + 2 : /\ Encode(f)[2 * k] = Bytes(f)[k] \div Base
                                       /\ Encode(f)[2 * k + 1] = Bytes(f)[k] % Base
         /\ \A i \in 2 .. 2 * Len(f) + 5 : Encode(f)[i] \in Digit
<1> DEFINE N == Len(f)
           high == [k \in 1 .. N + 2 |-> Bytes(f)[k] \div Base]
           low == [k \in 1 .. N + 2 |-> Bytes(f)[k] % Base]
<1>1. N \in Nat
  BY FrameTypes
<1>2. \A k \in 1 .. N + 2 : high[k] \in Digit /\ low[k] \in Digit
  BY BytesAre, DigitsOfByte
<1>3. ASSUME NEW i \in 2 .. 2 * N + 5
      PROVE  /\ i \div 2 \in 1 .. N + 2 /\ (i % 2 = 0 \/ i % 2 = 1)
             /\ i = 2 * (i \div 2) + (i % 2)
  BY <1>1
<1>4. ASSUME NEW i \in 2 .. 2 * N + 5
      PROVE  Encode(f)[i] = IF i % 2 = 0 THEN high[i \div 2] ELSE low[i \div 2]
  <2>1. i \in 1 .. 2 * N + 5 /\ i # 1
    BY <1>1
  <2>2. Encode(f)[i] = IF i % 2 = 0 THEN Bytes(f)[i \div 2] \div Base ELSE Bytes(f)[i \div 2] % Base
    BY <2>1 DEF Encode
  <2>3. \A k \in 1 .. N + 2 : high[k] = Bytes(f)[k] \div Base /\ low[k] = Bytes(f)[k] % Base
    OBVIOUS
  <2> DEFINE k == i \div 2
             odd == i % 2
  <2>4. k \in 1 .. N + 2
    BY <1>3
  <2>5. Encode(f)[i] = IF odd = 0 THEN Bytes(f)[k] \div Base ELSE Bytes(f)[k] % Base
    BY <2>2
  <2> HIDE DEF k, odd, high, low
  <2>6. Encode(f)[i] = IF odd = 0 THEN high[k] ELSE low[k]
    BY <2>3, <2>4, <2>5
  <2> QED BY <2>6 DEF k, odd
<1>5. \A k \in 1 .. N + 2 : high[k] = Bytes(f)[k] \div Base /\ low[k] = Bytes(f)[k] % Base
  OBVIOUS
<1> HIDE DEF high, low
<1>6. ASSUME NEW k \in 1 .. N + 2 PROVE Encode(f)[2 * k] = high[k] /\ Encode(f)[2 * k + 1] = low[k]
  <2>1. 2 * k \in 2 .. 2 * N + 5 /\ 2 * k + 1 \in 2 .. 2 * N + 5
    <3>1. k \in Int /\ 1 <= k /\ k <= N + 2
      BY <1>1
    <3>2. 2 <= 2 * k /\ 2 * k <= 2 * N + 4
      BY <1>1, <3>1
    <3> QED BY <1>1, <3>1, <3>2
  <2>2. (2 * k) % 2 = 0 /\ (2 * k) \div 2 = k
    BY <1>1
  <2>3. (2 * k + 1) % 2 = 1 /\ (2 * k + 1) \div 2 = k
    BY <1>1
  <2>4. Encode(f)[2 * k] = high[k]
    <3>1. Encode(f)[2 * k] = IF (2 * k) % 2 = 0 THEN high[(2 * k) \div 2] ELSE low[(2 * k) \div 2]
      BY <1>4, <2>1, Zenon
    <3> QED BY <2>2, <3>1, Zenon
  <2>5. Encode(f)[2 * k + 1] = low[k]
    <3>1. Encode(f)[2 * k + 1]
            = IF (2 * k + 1) % 2 = 0 THEN high[(2 * k + 1) \div 2] ELSE low[(2 * k + 1) \div 2]
      BY <1>4, <2>1, Zenon
    <3>2. 1 # 0
      OBVIOUS
    <3> QED BY <2>3, <3>1, <3>2, Zenon
  <2> QED BY <2>4, <2>5
<1>7. ASSUME NEW i \in 2 .. 2 * N + 5 PROVE Encode(f)[i] \in Digit
  BY <1>2, <1>3, <1>4
<1>8. Encode(f)[1] = START
  BY <1>1 DEF Encode
<1>9. Encode(f) \in Seq(0 .. START) /\ Len(Encode(f)) = 2 * N + 5
  <2>1. DOMAIN Encode(f) = 1 .. 2 * N + 5 /\ Encode(f) = [i \in 1 .. 2 * N + 5 |-> Encode(f)[i]]
    BY DEF Encode
  <2>2. START \in 0 .. START /\ Digit \subseteq 0 .. START
    BY Numbers DEF START
  <2>3. ASSUME NEW i \in 1 .. 2 * N + 5 PROVE Encode(f)[i] \in 0 .. START
    <3>1. CASE i = 1
      BY <1>8, <2>2, <3>1
    <3>2. CASE i # 1
      <4>1. i \in 2 .. 2 * N + 5
        BY <1>1, <3>2
      <4>2. Encode(f)[i] \in Digit
        BY <1>7, <4>1
      <4> QED BY <2>2, <4>2
    <3> QED BY <3>1, <3>2
  <2>4. Encode(f) \in [1 .. 2 * N + 5 -> 0 .. START]
    BY <2>1, <2>3
  <2>5. 2 * N + 5 \in Nat
    BY <1>1
  <2> QED BY <2>1, <2>4, <2>5
<1> QED BY <1>5, <1>6, <1>7, <1>8, <1>9

-----------------------------------------------------------------------------
(* The types.                                                              *)

\* TypeOK and the index make an inductive invariant.
ReceiverInv == TypeOK /\ IndexInBounds

\* The bytes of the line, and the two digits of a byte that has been read.
LEMMA Symbols ==
  /\ START \in 0 .. NAK /\ ACK \in 0 .. NAK /\ NAK \in 0 .. NAK /\ 0 .. START \subseteq 0 .. NAK
  /\ Digit \subseteq 0 .. START /\ START \notin Digit /\ ACK \notin Digit /\ NAK \notin Digit
  /\ START # ACK /\ START # NAK /\ NoNibble \notin Digit
  /\ \A byte : HexDigitToInt(byte) \in Digit
  /\ \A byte \in Digit : HexDigitToInt(byte) = byte
<1>1. Base \in Nat /\ Base > 1 /\ Digit = 0 .. Base - 1
  BY Numbers
<1>2. NoNibble = -1 /\ START = Base /\ ACK = Base + 1 /\ NAK = Base + 2
  BY DEF NoNibble, START, ACK, NAK
<1>3. 0 \in Digit
  BY <1>1
<1>4. /\ \A byte : HexDigitToInt(byte) \in Digit
      /\ \A byte \in Digit : HexDigitToInt(byte) = byte
  BY <1>3 DEF HexDigitToInt
<1> QED BY <1>1, <1>2, <1>4

\* What a byte of data does: it goes into the buffer, and the last one ends the
\* frame.
LEMMA DataByteDoes ==
  ASSUME ReceiverInv, reading_message, message_len # NoLength, NEW value \in Value, DataByte(value)
  PROVE  /\ message_len \in 2 .. MaxSize /\ current_byte \in 0 .. message_len - 1
         /\ buffer' \in [0 .. MaxSize - 1 -> Value]
         /\ \A i \in 0 .. MaxSize - 1 : buffer'[i] = IF i = current_byte THEN value ELSE buffer[i]
         /\ current_byte' = current_byte + 1 /\ message_len' = message_len /\ awaiting' = awaiting
         /\ current_byte + 1 < message_len =>
              /\ buffer_sum' = Sum(buffer_sum, value)
              /\ UNCHANGED <<reading_message, delivered, reply>>
         /\ current_byte + 1 >= message_len =>
              /\ reading_message' = FALSE /\ buffer_sum' = buffer_sum
              /\ buffer_sum = value =>
                   /\ reply' = ACK
                   /\ delivered' = [i \in 1 .. message_len - 1 |-> buffer'[i - 1]]
              /\ buffer_sum # value => reply' = NAK /\ delivered' = delivered
<1>1. MaxSize \in Nat /\ MaxSize < NoLength /\ NoLength \in Nat
  BY ReceiverAssumption, Numbers DEF NoLength
<1>2. message_len \in 2 .. MaxSize /\ current_byte \in 0 .. message_len - 1
  BY <1>1 DEF ReceiverInv, TypeOK, IndexInBounds
<1>3. buffer' = [buffer EXCEPT ![current_byte] = value]
  BY DEF DataByte
<1>4. buffer \in [0 .. MaxSize - 1 -> Value] /\ current_byte \in 0 .. MaxSize - 1
  BY <1>1, <1>2 DEF ReceiverInv, TypeOK
<1>5. /\ buffer' \in [0 .. MaxSize - 1 -> Value]
      /\ \A i \in 0 .. MaxSize - 1 : buffer'[i] = IF i = current_byte THEN value ELSE buffer[i]
  BY <1>3, <1>4
<1>6. current_byte' = current_byte + 1 /\ message_len' = message_len /\ awaiting' = awaiting
  BY DEF DataByte
<1>7. ASSUME current_byte + 1 < message_len
      PROVE  /\ buffer_sum' = Sum(buffer_sum, value)
             /\ UNCHANGED <<reading_message, delivered, reply>>
  <2>1. ~ (current_byte + 1 >= message_len)
    BY <1>2, <1>7
  <2> QED BY <2>1 DEF DataByte
<1>8. ASSUME current_byte + 1 >= message_len
      PROVE  /\ reading_message' = FALSE /\ buffer_sum' = buffer_sum
             /\ buffer_sum = value =>
                  /\ reply' = ACK
                  /\ delivered' = [i \in 1 .. message_len - 1 |-> buffer'[i - 1]]
             /\ buffer_sum # value => reply' = NAK /\ delivered' = delivered
  BY <1>8, <1>3 DEF DataByte
<1> QED BY <1>2, <1>5, <1>6, <1>7, <1>8

\* What the length does: it is taken if a frame may have it.
LEMMA LengthByteDoes ==
  ASSUME NEW value \in Value, LengthByte(value)
  PROVE  /\ UNCHANGED <<buffer, awaiting, delivered, reply>>
         /\ value \in 2 .. MaxSize =>
              /\ message_len' = value /\ current_byte' = 0 /\ buffer_sum' = Sum(buffer_sum, value)
              /\ UNCHANGED reading_message
         /\ value \notin 2 .. MaxSize =>
              /\ reading_message' = FALSE
              /\ UNCHANGED <<current_byte, message_len, buffer_sum>>
<1>1. MaxSize \in Nat /\ value \in Int
  BY ReceiverAssumption, Numbers
<1>2. (value > MaxSize \/ value < 2) <=> value \notin 2 .. MaxSize
  BY <1>1
<1> QED BY <1>2 DEF LengthByte

\* The fields of the parser, and what it puts out.
ParserTypes ==
  /\ reading_message \in BOOLEAN
  /\ current_byte \in 0 .. MaxSize
  /\ message_len \in 2 .. MaxSize \union {NoLength, 0}
  /\ nibble_buffer \in Digit \union {NoNibble}
  /\ buffer_sum \in Value
  /\ buffer \in [0 .. MaxSize - 1 -> Value]
  /\ awaiting \in BOOLEAN
  /\ delivered \in Seq(Value)
  /\ reply \in {0, ACK, NAK}

\* A byte that is received keeps the types, whatever it is.
LEMMA ReceiveByteTypes ==
  ASSUME ReceiverInv, NEW byte, ReceiveByte(byte)
  PROVE  ParserTypes'
<1>1. MaxSize \in Nat /\ 0 \in Value /\ 0 \in 0 .. MaxSize
  BY ReceiverAssumption, Numbers
<1>2. ParserTypes
  BY DEF ReceiverInv, TypeOK, ParserTypes
<1>3. CASE StartOfMessage
  BY <1>1, <1>2, <1>3 DEF StartOfMessage, ParserTypes
<1>4. CASE Response
  BY <1>2, <1>4 DEF Response, parser, ParserTypes
<1>5. CASE FirstNibble(byte)
  <2>1. HexDigitToInt(byte) \in Digit
    BY Symbols
  <2> QED BY <1>2, <1>5, <2>1 DEF FirstNibble, ParserTypes
<1>6. CASE /\ SecondNibble(byte) /\ reading_message /\ nibble_buffer # NoNibble
  <2> DEFINE value == nibble_buffer * Base + HexDigitToInt(byte)
  <2>1. value \in Value
    <3>1. nibble_buffer \in Digit /\ HexDigitToInt(byte) \in Digit
      BY <1>2, <1>6, Symbols DEF ParserTypes
    <3> QED BY <3>1, ByteOfDigits
  <2>2. nibble_buffer' = NoNibble
    BY <1>6 DEF SecondNibble
  <2>3. message_len = NoLength => LengthByte(value)
    BY <1>6 DEF SecondNibble
  <2>4. message_len # NoLength => DataByte(value)
    BY <1>6 DEF SecondNibble
  <2> HIDE DEF value
  <2>5. buffer_sum \in Value /\ Sum(buffer_sum, value) \in Value
    BY <1>2, <2>1, SumIs DEF ParserTypes
  <2>6. CASE message_len = NoLength
    <3>1. LengthByte(value)
      BY <2>3, <2>6
    <3>2. CASE value \in 2 .. MaxSize
      BY <1>1, <1>2, <2>1, <2>2, <2>5, <3>1, <3>2, LengthByteDoes DEF ParserTypes
    <3>3. CASE value \notin 2 .. MaxSize
      BY <1>1, <1>2, <2>1, <2>2, <2>5, <3>1, <3>3, LengthByteDoes DEF ParserTypes
    <3> QED BY <3>2, <3>3
  <2>7. CASE message_len # NoLength
    <3>1. /\ message_len \in 2 .. MaxSize /\ current_byte \in 0 .. message_len - 1
          /\ buffer' \in [0 .. MaxSize - 1 -> Value]
          /\ current_byte' = current_byte + 1 /\ message_len' = message_len /\ awaiting' = awaiting
      BY <1>6, <2>1, <2>4, <2>7, DataByteDoes
    <3>2. current_byte' \in 0 .. MaxSize
      BY <1>1, <3>1
    <3>3. CASE current_byte + 1 < message_len
      <4>1. buffer_sum' = Sum(buffer_sum, value) /\ UNCHANGED <<reading_message, delivered, reply>>
        BY <1>6, <2>1, <2>4, <2>7, <3>3, DataByteDoes
      <4> QED BY <1>2, <2>2, <2>5, <3>1, <3>2, <4>1 DEF ParserTypes
    <3>4. CASE current_byte + 1 >= message_len
      <4>1. /\ reading_message' = FALSE /\ buffer_sum' = buffer_sum
            /\ buffer_sum = value =>
                 /\ reply' = ACK
                 /\ delivered' = [i \in 1 .. message_len - 1 |-> buffer'[i - 1]]
            /\ buffer_sum # value => reply' = NAK /\ delivered' = delivered
        BY <1>6, <2>1, <2>4, <2>7, <3>4, DataByteDoes
      <4>2. reply' \in {0, ACK, NAK}
        BY <4>1
      <4>3. delivered' \in Seq(Value)
        <5>1. CASE buffer_sum = value
          <6>1. \A i \in 1 .. message_len - 1 : buffer'[i - 1] \in Value
            <7>1. \A i \in 1 .. message_len - 1 : i - 1 \in 0 .. MaxSize - 1
              BY <1>1, <3>1
            <7> QED BY <3>1, <7>1
          <6>2. delivered' \in [1 .. message_len - 1 -> Value]
            BY <4>1, <5>1, <6>1
          <6>3. message_len - 1 \in Nat
            BY <3>1
          <6> QED BY <6>2, <6>3
        <5>2. CASE buffer_sum # value
          BY <1>2, <4>1, <5>2 DEF ParserTypes
        <5> QED BY <5>1, <5>2
      <4> QED BY <1>2, <2>2, <2>5, <3>1, <3>2, <4>1, <4>2, <4>3 DEF ParserTypes
    <3>5. current_byte + 1 < message_len \/ current_byte + 1 >= message_len
      BY <3>1
    <3> QED BY <3>3, <3>4, <3>5
  <2> QED BY <2>6, <2>7
<1>7. CASE UNCHANGED <<parser, awaiting, delivered, reply>>
  BY <1>2, <1>7 DEF parser, ParserTypes
<1> QED BY <1>3, <1>4, <1>5, <1>6, <1>7 DEF ReceiveByte

-----------------------------------------------------------------------------
(* The line.                                                               *)

\* The first byte of the line is taken away.
LEMMA LineTail ==
  ASSUME line \in Seq(0 .. NAK), line # <<>>, line' = Tail(line)
  PROVE  /\ Len(line) \in Nat /\ Len(line) >= 1 /\ Head(line) = line[1]
         /\ line' \in Seq(0 .. NAK) /\ Len(line') = Len(line) - 1
         /\ \A i \in 1 .. Len(line') : line'[i] = line[i + 1]
<1>1. Len(line) \in Nat /\ Len(line) >= 1 /\ Head(line) = line[1]
  OBVIOUS
<1>2. line' \in Seq(0 .. NAK) /\ Len(line') = Len(line) - 1
  OBVIOUS
<1>3. \A i \in 1 .. Len(line') : line'[i] = line[i + 1]
  BY <1>2
<1> QED BY <1>1, <1>2, <1>3

\* A sequence without one of its elements.
LEMMA Removed ==
  ASSUME NEW S, NEW s \in Seq(S), NEW i \in 1 .. Len(s)
  PROVE  /\ RemoveAt(s, i) \in Seq(S) /\ Len(RemoveAt(s, i)) = Len(s) - 1
         /\ \A j \in 1 .. Len(s) - 1 : RemoveAt(s, i)[j] = s[IF j < i THEN j ELSE j + 1]
<1>1. Len(s) \in Nat /\ i \in Int /\ 1 <= i /\ i <= Len(s) /\ \A j \in 1 .. Len(s) : s[j] \in S
  OBVIOUS
<1> DEFINE left == SubSeq(s, 1, i - 1)
           right == SubSeq(s, i + 1, Len(s))
<1>2. RemoveAt(s, i) = left \o right
  BY DEF RemoveAt
<1>3. left \in Seq(S) /\ Len(left) = i - 1 /\ \A j \in 1 .. i - 1 : left[j] = s[j]
  <2>1. \A j \in 1 .. i - 1 : j \in 1 .. Len(s) /\ 1 + j - 1 = j
    BY <1>1
  <2>2. \A j \in 1 .. i - 1 : s[j] \in S
    BY <1>1, <2>1
  <2>3. 1 \in Int /\ i - 1 \in Int /\ (i - 1) - 1 + 1 = i - 1
    BY <1>1
  <2>4. /\ left \in Seq(S)
        /\ Len(left) = IF 1 <= i - 1 THEN (i - 1) - 1 + 1 ELSE 0
        /\ \A j \in 1 .. (i - 1) - 1 + 1 : left[j] = s[1 + j - 1]
    BY <2>2, <2>3, SubSeqProperties
  <2> HIDE DEF left
  <2>5. Len(left) = i - 1
    BY <1>1, <2>4
  <2>6. \A j \in 1 .. i - 1 : left[j] = s[1 + j - 1]
    BY <2>3, <2>4
  <2> QED BY <2>1, <2>4, <2>5, <2>6
<1>4. /\ right \in Seq(S) /\ Len(right) = Len(s) - i
      /\ \A j \in 1 .. Len(s) - i : right[j] = s[i + j]
  <2>1. /\ \A j \in i + 1 .. Len(s) : j \in 1 .. Len(s)
        /\ \A j \in 1 .. Len(s) - i : (i + 1) + j - 1 = i + j
    BY <1>1
  <2>2. \A j \in i + 1 .. Len(s) : s[j] \in S
    BY <1>1, <2>1
  <2>3. i + 1 \in Int /\ Len(s) \in Int /\ Len(s) - (i + 1) + 1 = Len(s) - i
    BY <1>1
  <2>4. /\ right \in Seq(S)
        /\ Len(right) = IF i + 1 <= Len(s) THEN Len(s) - (i + 1) + 1 ELSE 0
        /\ \A j \in 1 .. Len(s) - (i + 1) + 1 : right[j] = s[(i + 1) + j - 1]
    BY <2>2, <2>3, SubSeqProperties
  <2> HIDE DEF right
  <2>5. Len(right) = Len(s) - i
    BY <1>1, <2>4
  <2>6. \A j \in 1 .. Len(s) - i : right[j] = s[(i + 1) + j - 1]
    BY <2>3, <2>4
  <2>7. ASSUME NEW j \in 1 .. Len(s) - i PROVE right[j] = s[i + j]
    <3>1. (i + 1) + j - 1 = i + j
      BY <2>1
    <3> QED BY <2>6, <3>1
  <2> QED BY <2>4, <2>5, <2>7
<1> HIDE DEF left, right
<1>5. /\ left \o right \in Seq(S) /\ Len(left \o right) = Len(left) + Len(right)
      /\ \A j \in 1 .. Len(left) + Len(right) :
           (left \o right)[j] = IF j <= Len(left) THEN left[j] ELSE right[j - Len(left)]
  BY <1>3, <1>4, ConcatProperties
<1> DEFINE t == left \o right
<1> HIDE DEF t
<1>6. Len(left) + Len(right) = Len(s) - 1
  BY <1>1, <1>3, <1>4
<1>7. /\ t \in Seq(S) /\ Len(t) = Len(s) - 1
      /\ \A j \in 1 .. Len(s) - 1 : t[j] = IF j <= i - 1 THEN left[j] ELSE right[j - (i - 1)]
  BY <1>3, <1>5, <1>6 DEF t
<1>8. ASSUME NEW j \in 1 .. Len(s) - 1 PROVE t[j] = s[IF j < i THEN j ELSE j + 1]
  <2>1. CASE j < i
    <3>1. j \in 1 .. i - 1 /\ j <= i - 1
      BY <1>1, <2>1
    <3> QED BY <1>3, <1>7, <2>1, <3>1
  <2>2. CASE ~ (j < i)
    <3>1. j - (i - 1) \in 1 .. Len(s) - i /\ i + (j - (i - 1)) = j + 1 /\ ~ (j <= i - 1)
      BY <1>1, <2>2
    <3>2. t[j] = right[j - (i - 1)]
      BY <1>7, <3>1
    <3>3. right[j - (i - 1)] = s[i + (j - (i - 1))]
      BY <1>4, <3>1
    <3>4. t[j] = s[j + 1]
      BY <3>1, <3>2, <3>3
    <3> QED BY <2>2, <3>4
  <2> QED BY <2>1, <2>2
<1> QED BY <1>2, <1>7, <1>8 DEF t

\* One byte in its midst is lost.
LEMMA LineLoses ==
  ASSUME line \in Seq(0 .. NAK), NEW i \in 1 .. Len(line), line' = RemoveAt(line, i)
  PROVE  /\ line' \in Seq(0 .. NAK) /\ Len(line') = Len(line) - 1
         /\ \A j \in 1 .. Len(line) - 1 : line'[j] = line[IF j < i THEN j ELSE j + 1]
<1> DEFINE Symbol == 0 .. NAK
<1>1. line \in Seq(Symbol)
  OBVIOUS
<1> HIDE DEF Symbol
<1>2. line' \in Seq(Symbol) /\ Len(line') = Len(line) - 1
  BY <1>1, Removed
<1>3. \A j \in 1 .. Len(line) - 1 : line'[j] = line[IF j < i THEN j ELSE j + 1]
  BY <1>1, Removed
<1> QED BY <1>2, <1>3 DEF Symbol

\* One byte in its midst is read wrong.
LEMMA LineGarbled ==
  ASSUME line \in Seq(0 .. NAK), NEW i \in 1 .. Len(line), NEW d \in Digit,
         line' = [line EXCEPT ![i] = d]
  PROVE  /\ line' \in Seq(0 .. NAK) /\ Len(line') = Len(line)
         /\ \A j \in 1 .. Len(line) : line'[j] = IF j = i THEN d ELSE line[j]
<1>1. d \in 0 .. NAK
  BY Symbols
<1> QED BY <1>1

\* What is not the parser's keeps its types too.
LEMMA ReceiverInvStep ==
  ASSUME ReceiverInv, [Next]_vars
  PROVE  ReceiverInv'
<1>1. MaxSize \in Nat /\ MaxFrames \in Nat /\ MaxFaults \in Nat /\ 0 \in Value
  BY ReceiverAssumption, Numbers
<1>2. /\ ParserTypes
      /\ line \in Seq(0 .. NAK) /\ sending \in Frames \union {<<>>}
      /\ damaged \in BOOLEAN /\ rough \in BOOLEAN
      /\ frames \in 0 .. MaxFrames /\ faults \in 0 .. MaxFaults
  BY DEF ReceiverInv, TypeOK, ParserTypes
<1>3. IndexInBounds'
  <2>1. ParserInv
    <3>1. message_len \in Int
      BY <1>1, <1>2, Numbers DEF ParserTypes, NoLength
    <3> QED BY <1>2, <3>1 DEF ReceiverInv, ParserInv, ParserTypes
  <2>2. CASE UNCHANGED parser
    BY <2>2 DEF parser, ReceiverInv, IndexInBounds
  <2>3. ASSUME NEW byte, ReceiveByte(byte) PROVE IndexInBounds'
    BY <2>1, <2>3, ReceiveByteStep DEF ParserInv
  <2> QED
    BY <2>2, <2>3
    DEF Next, vars, ByteArrives, PanelSends, DaemonSends, AnswerArrives,
        PanelHearsAck, PanelResends, Garble, LoseDigit, LoseRest, Damage, LoseReply,
        StrayAnswer
<1> DEFINE PanelTypes ==
             /\ line \in Seq(0 .. NAK) /\ sending \in Frames \union {<<>>}
             /\ damaged \in BOOLEAN /\ rough \in BOOLEAN
             /\ frames \in 0 .. MaxFrames /\ faults \in 0 .. MaxFaults
<1>4. SUFFICES ParserTypes' /\ PanelTypes'
  BY <1>3 DEF ReceiverInv, TypeOK, ParserTypes
<1>5. PanelTypes
  BY <1>2
<1>6. <<>> \in Seq(Value) /\ <<>> \in Seq(0 .. NAK)
  OBVIOUS
<1>7. \A f \in Frames : Encode(f) \in Seq(0 .. NAK)
  <2>1. \A f \in Frames : Encode(f) \in Seq(0 .. START)
    BY EncodeIs
  <2>2. \A S, T : S \subseteq T => Seq(S) \subseteq Seq(T)
    OBVIOUS
  <2>3. 0 .. START \subseteq 0 .. NAK
    BY Symbols
  <2> QED BY <2>1, <2>2, <2>3
<1>8. ASSUME NEW byte, ReceiveByte(byte) PROVE ParserTypes'
  BY <1>8, ReceiveByteTypes
<1>9. ASSUME faults < MaxFaults, faults' = faults + 1 PROVE faults' \in 0 .. MaxFaults
  BY <1>1, <1>5, <1>9
<1>10. ASSUME NEW f \in Frames, PanelSends(f) PROVE ParserTypes' /\ PanelTypes'
  <2>1. frames' \in 0 .. MaxFrames
    BY <1>1, <1>5, <1>10 DEF PanelSends
  <2> QED BY <1>2, <1>5, <1>6, <1>7, <1>10, <2>1 DEF PanelSends, parser, ParserTypes
<1>11. CASE ByteArrives
  <2>1. ParserTypes'
    BY <1>8, <1>11 DEF ByteArrives
  <2>2. line' \in Seq(0 .. NAK)
    BY <1>5, <1>11, LineTail DEF ByteArrives
  <2> QED BY <1>5, <1>11, <2>1, <2>2 DEF ByteArrives
<1>12. CASE DaemonSends
  BY <1>2, <1>5, <1>12 DEF DaemonSends, parser, panel, ParserTypes
<1>13. ASSUME NEW resp \in {ACK, NAK}, AnswerArrives(resp) PROVE ParserTypes' /\ PanelTypes'
  BY <1>5, <1>8, <1>13 DEF AnswerArrives, panel
<1>14. CASE PanelHearsAck
  BY <1>2, <1>5, <1>14 DEF PanelHearsAck, parser, ParserTypes
<1>15. CASE PanelResends
  <2>1. line' \in Seq(0 .. NAK)
    BY <1>5, <1>7, <1>15 DEF PanelResends
  <2> QED BY <1>2, <1>5, <1>6, <1>15, <2>1 DEF PanelResends, parser, ParserTypes
<1>16. ASSUME NEW remains \in Seq(0 .. NAK), NEW roughly \in BOOLEAN, Damage(remains, roughly)
       PROVE  ParserTypes' /\ PanelTypes'
  <2>1. faults' \in 0 .. MaxFaults
    BY <1>9, <1>16 DEF Damage
  <2> QED BY <1>2, <1>5, <1>16, <2>1 DEF Damage, parser, ParserTypes
<1>17. InLength \in BOOLEAN
  BY DEF InLength
<1>18. ASSUME NEW i \in 1 .. Len(line), NEW d \in Digit, Garble(i, d) PROVE ParserTypes' /\ PanelTypes'
  <2>1. line' = [line EXCEPT ![i] = d]
    BY <1>18 DEF Garble, Damage
  <2>2. [line EXCEPT ![i] = d] \in Seq(0 .. NAK)
    BY <1>5, <2>1, LineGarbled
  <2> QED BY <1>16, <1>17, <1>18, <2>2 DEF Garble
<1>19. ASSUME NEW i \in 1 .. Len(line), LoseDigit(i) PROVE ParserTypes' /\ PanelTypes'
  <2>1. line' = RemoveAt(line, i)
    BY <1>19 DEF LoseDigit, Damage
  <2>2. RemoveAt(line, i) \in Seq(0 .. NAK)
    BY <1>5, <2>1, LineLoses
  <2> QED BY <1>16, <1>17, <1>19, <2>2 DEF LoseDigit
<1>20. CASE LoseRest
  BY <1>6, <1>16, <1>20 DEF LoseRest
<1>21. CASE LoseReply
  <2>1. faults' \in 0 .. MaxFaults
    BY <1>9, <1>21 DEF LoseReply
  <2> QED BY <1>2, <1>5, <1>21, <2>1 DEF LoseReply, parser, ParserTypes
<1>22. ASSUME NEW resp \in {ACK, NAK}, StrayAnswer(resp) PROVE ParserTypes' /\ PanelTypes'
  <2>1. faults' \in 0 .. MaxFaults
    BY <1>9, <1>22 DEF StrayAnswer
  <2> QED BY <1>5, <1>8, <1>22, <2>1 DEF StrayAnswer
<1>23. CASE UNCHANGED vars
  BY <1>2, <1>5, <1>23 DEF vars, parser, panel, ParserTypes
<1> QED
  BY <1>10, <1>11, <1>12, <1>13, <1>14, <1>15, <1>18, <1>19, <1>20, <1>21, <1>22, <1>23 DEF Next

\* The fields keep their types at the start, when nothing has been read.
LEMMA ReceiverInvInit == Init => ReceiverInv
<1>1. 0 \in Value /\ MaxSize \in Nat /\ MaxFrames \in Nat /\ MaxFaults \in Nat
  BY Numbers, ReceiverAssumption
<1>2. NAK \in Nat
  BY Numbers DEF NAK
<1>3. <<>> \in Seq(Value) /\ <<>> \in Seq(0 .. NAK)
  OBVIOUS
<1> SUFFICES ASSUME Init PROVE ReceiverInv
  OBVIOUS
<1>4. buffer \in [0 .. MaxSize - 1 -> Value]
  BY <1>1 DEF Init
<1>5. current_byte \in 0 .. MaxSize /\ frames \in 0 .. MaxFrames /\ faults \in 0 .. MaxFaults
  BY <1>1 DEF Init
<1> QED BY <1>1, <1>2, <1>3, <1>4, <1>5 DEF Init, ReceiverInv, TypeOK, IndexInBounds

\* Every field of the receiver has its type, for every base, size and set of
\* frames: a byte that is put together of two digits fits in a byte, and so does
\* the checksum.
THEOREM ReceiverTypes == Spec => []TypeOK
<1>1. Init => ReceiverInv
  BY ReceiverInvInit
<1>2. ReceiverInv /\ [Next]_vars => ReceiverInv'
  BY ReceiverInvStep
<1>3. ReceiverInv => TypeOK
  BY DEF ReceiverInv
<1> QED BY <1>1, <1>2, <1>3, PTL DEF Spec

-----------------------------------------------------------------------------
(* What has been read of a frame and what is still to come.                *)

\* The checksum after k bytes, the length being the first.
SumTo(f, k) == IF k = 0 THEN 0 ELSE Checksums(f)[k - 1]

\* k bytes of the frame f have been read, and h digits of the next.
Reads(f, k, h) ==
  /\ reading_message
  /\ current_byte = (IF k = 0 THEN 0 ELSE k - 1)
  /\ message_len = (IF k = 0 THEN NoLength ELSE Len(f) + 1)
  /\ IF h = 0 THEN nibble_buffer = NoNibble ELSE nibble_buffer \in Digit

SumRight(f, k) == buffer_sum = SumTo(f, k)
NibbleRight(f, k, h) == h = 1 => nibble_buffer = Bytes(f)[k + 1] \div Base
Stored(f, k) == \A i \in 1 .. k - 1 : buffer[i - 1] = f[i]

\* The line holds what the panel wrote after the first p bytes of f,
Clean(f, p) ==
  /\ Len(line) = 2 * Len(f) + 5 - p
  /\ \A i \in 1 .. Len(line) : line[i] = Encode(f)[p + i]

\* or that with one digit changed.
Changed(f, p, c) ==
  /\ Len(line) = 2 * Len(f) + 5 - p
  /\ c \in 1 .. Len(line) /\ line[c] \in Digit /\ line[c] # Encode(f)[p + c]
  /\ \A i \in 1 .. Len(line) : i # c => line[i] = Encode(f)[p + i]

\* as long as nothing wrong has been read of it.  The first byte is never changed.
Remaining(f, k, p) ==
  \/ ~ damaged /\ Clean(f, p)
  \/ damaged /\ k >= 1 /\ \E c \in 1 .. Len(line) : Changed(f, p, c)

\* The transmission has just begun,
Begins(f) == line = Encode(f) /\ ~ damaged /\ delivered = <<>>

\* all that was read of it is right,
Good(f, k, h) ==
  /\ Reads(f, k, h) /\ SumRight(f, k) /\ NibbleRight(f, k, h) /\ Stored(f, k) /\ delivered = <<>>
  /\ Remaining(f, k, 2 * k + 1 + h)

\* the digit that was wrong has been read, and either the sum tells or the byte
\* that is being read,
Bad(f, k, h) ==
  /\ Reads(f, k, h) /\ damaged /\ k >= 1 /\ Clean(f, 2 * k + 1 + h) /\ delivered = <<>>
  /\ ~ (SumRight(f, k) <=> NibbleRight(f, k, h))

\* a digit is missing, and the frame will not be read to its end,
Short ==
  /\ reading_message /\ damaged /\ delivered = <<>> /\ message_len # NoLength
  /\ \A i \in 1 .. Len(line) : line[i] \in Digit
  /\ 2 * current_byte + (IF nibble_buffer = NoNibble THEN 0 ELSE 1) + Len(line) < 2 * message_len

\* or it is over.
Over(f) == line = <<>> /\ delivered \in {<<>>, f}

Follows(f) ==
  \/ Begins(f)
  \/ \E k \in 0 .. Len(f) + 1, h \in {0, 1} : Good(f, k, h) \/ Bad(f, k, h)
  \/ Short \/ Over(f)

\* What has been read and what is to come are those of the frame that is sent.
LineInv == sending # <<>> /\ ~ rough => Follows(sending)

\* A digit that arrives while a frame is read is the first of a byte or the
\* second.
LEMMA DigitArrives ==
  ASSUME ByteArrives, line \in Seq(0 .. NAK), line[1] \in Digit, reading_message
  PROVE  /\ nibble_buffer = NoNibble => FirstNibble(line[1])
         /\ nibble_buffer # NoNibble => SecondNibble(line[1])
<1>1. line # <<>> /\ ReceiveByte(Head(line))
  BY DEF ByteArrives
<1>2. Head(line) = line[1]
  BY <1>1
<1>3. line[1] # START /\ line[1] \notin {ACK, NAK}
  BY Symbols
<1>4. ReceiveByte(line[1])
  BY <1>1, <1>2
<1> QED BY <1>3, <1>4 DEF ReceiveByte

\* The first digit of a byte is kept.
LEMMA FirstRead ==
  ASSUME NEW f \in Frames, NEW k \in Nat, Reads(f, k, 0), NEW b \in Digit, FirstNibble(b)
  PROVE  /\ Reads(f, k, 1)' /\ nibble_buffer' = b
         /\ UNCHANGED <<buffer_sum, buffer, delivered>>
<1>1. HexDigitToInt(b) = b
  BY Symbols
<1>2. nibble_buffer' = b /\ UNCHANGED <<reading_message, current_byte, message_len>>
  BY <1>1 DEF FirstNibble
<1>3. Reads(f, k, 1)'
  BY <1>2 DEF Reads
<1> QED BY <1>2, <1>3 DEF FirstNibble

\* The second makes a byte of them: it is the length,
LEMMA LengthRead ==
  ASSUME NEW f \in Frames, Reads(f, 0, 1), NEW b \in Digit, SecondNibble(b),
         nibble_buffer * Base + b = Len(f) + 1
  PROVE  /\ Reads(f, 1, 0)' /\ buffer_sum' = Sum(buffer_sum, Len(f) + 1)
         /\ UNCHANGED <<buffer, delivered>>
<1>1. HexDigitToInt(b) = b
  BY Symbols
<1>2. reading_message /\ message_len = NoLength
  BY DEF Reads
<1>3. LengthByte(Len(f) + 1) /\ nibble_buffer' = NoNibble
  BY <1>1, <1>2 DEF SecondNibble
<1>4. Len(f) + 1 \in 2 .. MaxSize /\ Len(f) + 1 \in Value
  BY FrameTypes
<1>5. /\ message_len' = Len(f) + 1 /\ current_byte' = 0 /\ buffer_sum' = Sum(buffer_sum, Len(f) + 1)
      /\ UNCHANGED <<reading_message, buffer, delivered>>
  BY <1>3, <1>4, LengthByteDoes
<1>6. Reads(f, 1, 0)'
  BY <1>2, <1>3, <1>5 DEF Reads
<1> QED BY <1>5, <1>6

\* a byte of data,
LEMMA DataRead ==
  ASSUME ReceiverInv, NEW f \in Frames, NEW k \in 1 .. Len(f), Reads(f, k, 1),
         NEW b \in Digit, SecondNibble(b),
         NEW value \in Value, value = nibble_buffer * Base + b
  PROVE  /\ Reads(f, k + 1, 0)' /\ buffer_sum' = Sum(buffer_sum, value) /\ delivered' = delivered
         /\ buffer'[k - 1] = value /\ \A i \in 0 .. k - 2 : buffer'[i] = buffer[i]
<1>1. HexDigitToInt(b) = b
  BY Symbols
<1>2. Len(f) \in Nat /\ Len(f) + 1 # NoLength /\ Len(f) + 1 \in 2 .. MaxSize /\ MaxSize \in Nat
  BY FrameTypes
<1>3. k \in Int /\ 1 <= k /\ k <= Len(f)
  BY <1>2
<1>4. reading_message /\ message_len = Len(f) + 1 /\ current_byte = k - 1
  BY <1>3 DEF Reads
<1>5. DataByte(value) /\ nibble_buffer' = NoNibble
  BY <1>1, <1>2, <1>4 DEF SecondNibble
<1>6. current_byte + 1 < message_len
  BY <1>2, <1>3, <1>4
<1>7. /\ \A i \in 0 .. MaxSize - 1 : buffer'[i] = IF i = current_byte THEN value ELSE buffer[i]
      /\ current_byte' = current_byte + 1 /\ message_len' = message_len
      /\ buffer_sum' = Sum(buffer_sum, value)
      /\ UNCHANGED <<reading_message, delivered>>
  BY <1>2, <1>4, <1>5, <1>6, DataByteDoes
<1>8. Reads(f, k + 1, 0)'
  <2>1. k + 1 # 0 /\ (k + 1) - 1 = k /\ current_byte' = k
    BY <1>3, <1>4, <1>7
  <2> QED BY <1>4, <1>5, <1>7, <2>1 DEF Reads
<1>9. k - 1 \in 0 .. MaxSize - 1 /\ \A i \in 0 .. k - 2 : i \in 0 .. MaxSize - 1 /\ i # k - 1
  BY <1>2, <1>3
<1>10. buffer'[k - 1] = value /\ \A i \in 0 .. k - 2 : buffer'[i] = buffer[i]
  BY <1>4, <1>7, <1>9
<1> QED BY <1>7, <1>8, <1>10

\* or the checksum: only if it is the sum the data are handed over.
LEMMA ChecksumRead ==
  ASSUME ReceiverInv, NEW f \in Frames, Reads(f, Len(f) + 1, 1),
         NEW b \in Digit, SecondNibble(b),
         NEW value \in Value, value = nibble_buffer * Base + b
  PROVE  /\ buffer_sum # value => delivered' = delivered
         /\ buffer_sum = value => delivered' = [i \in 1 .. Len(f) |-> buffer[i - 1]]
<1>1. HexDigitToInt(b) = b
  BY Symbols
<1>2. Len(f) \in Nat /\ Len(f) + 1 # NoLength /\ Len(f) + 1 \in 2 .. MaxSize /\ MaxSize \in Nat
  BY FrameTypes
<1>3. Len(f) + 1 # 0 /\ (Len(f) + 1) - 1 = Len(f)
  BY <1>2
<1>4. reading_message /\ message_len = Len(f) + 1 /\ current_byte = Len(f)
  BY <1>3 DEF Reads
<1>5. DataByte(value)
  BY <1>1, <1>2, <1>4 DEF SecondNibble
<1>6. current_byte + 1 >= message_len
  BY <1>2, <1>4
<1>7. /\ \A i \in 0 .. MaxSize - 1 : buffer'[i] = IF i = current_byte THEN value ELSE buffer[i]
      /\ buffer_sum = value => delivered' = [i \in 1 .. message_len - 1 |-> buffer'[i - 1]]
      /\ buffer_sum # value => delivered' = delivered
  BY <1>2, <1>4, <1>5, <1>6, DataByteDoes
<1>8. ASSUME NEW i \in 1 .. Len(f) PROVE buffer'[i - 1] = buffer[i - 1]
  <2>1. i - 1 \in 0 .. MaxSize - 1 /\ i - 1 # current_byte
    BY <1>2, <1>4
  <2> QED BY <1>7, <2>1
<1>9. message_len - 1 = Len(f)
  BY <1>2, <1>4
<1>10. ASSUME buffer_sum = value PROVE delivered' = [i \in 1 .. Len(f) |-> buffer[i - 1]]
  BY <1>7, <1>8, <1>9, <1>10
<1> QED BY <1>7, <1>10

\* The next byte of a line without a change is the one the panel wrote.
LEMMA CleanStep ==
  ASSUME NEW f \in Frames, NEW p \in Nat, Clean(f, p), line \in Seq(0 .. NAK),
         line # <<>>, line' = Tail(line)
  PROVE  line[1] = Encode(f)[p + 1] /\ Clean(f, p + 1)'
<1>1. /\ Len(line) \in Nat /\ Len(line) >= 1 /\ Len(line') = Len(line) - 1
      /\ \A i \in 1 .. Len(line') : line'[i] = line[i + 1]
  BY LineTail
<1>2. Len(f) \in Nat
  BY FrameTypes
<1>3. Len(line) = 2 * Len(f) + 5 - p /\ \A i \in 1 .. Len(line) : line[i] = Encode(f)[p + i]
  BY DEF Clean
<1>4. line[1] = Encode(f)[p + 1]
  BY <1>1, <1>3
<1>5. Len(line') = 2 * Len(f) + 5 - (p + 1)
  BY <1>1, <1>2, <1>3
<1>6. ASSUME NEW i \in 1 .. Len(line') PROVE line'[i] = Encode(f)[(p + 1) + i]
  <2>1. i + 1 \in 1 .. Len(line) /\ p + (i + 1) = (p + 1) + i
    BY <1>1
  <2> QED BY <1>1, <1>3, <2>1
<1> QED BY <1>4, <1>5, <1>6 DEF Clean

\* If one digit is changed it is that or another.
LEMMA ChangedStep ==
  ASSUME NEW f \in Frames, NEW p \in Nat, NEW c \in Nat, Changed(f, p, c), line \in Seq(0 .. NAK),
         line # <<>>, line' = Tail(line)
  PROVE  \/ line[1] \in Digit /\ line[1] # Encode(f)[p + 1] /\ Clean(f, p + 1)'
         \/ line[1] = Encode(f)[p + 1] /\ c - 1 \in Nat /\ Changed(f, p + 1, c - 1)'
<1>1. /\ Len(line) \in Nat /\ Len(line) >= 1 /\ Len(line') = Len(line) - 1
      /\ \A i \in 1 .. Len(line') : line'[i] = line[i + 1]
  BY LineTail
<1>2. Len(f) \in Nat
  BY FrameTypes
<1>3. /\ Len(line) = 2 * Len(f) + 5 - p
      /\ c \in 1 .. Len(line) /\ line[c] \in Digit /\ line[c] # Encode(f)[p + c]
      /\ \A i \in 1 .. Len(line) : i # c => line[i] = Encode(f)[p + i]
  BY DEF Changed
<1>4. Len(line') = 2 * Len(f) + 5 - (p + 1)
  BY <1>1, <1>2, <1>3
<1>5. ASSUME NEW i \in 1 .. Len(line'), i + 1 # c PROVE line'[i] = Encode(f)[(p + 1) + i]
  <2>1. i + 1 \in 1 .. Len(line) /\ p + (i + 1) = (p + 1) + i
    BY <1>1
  <2> QED BY <1>1, <1>3, <1>5, <2>1
<1>6. CASE c = 1
  <2>1. \A i \in 1 .. Len(line') : i + 1 # c
    BY <1>1, <1>6
  <2>2. Clean(f, p + 1)'
    BY <1>4, <1>5, <2>1 DEF Clean
  <2> QED BY <1>3, <1>6, <2>2
<1>7. CASE c # 1
  <2>1. c - 1 \in 1 .. Len(line') /\ (c - 1) + 1 = c /\ (p + 1) + (c - 1) = p + c /\ 1 \in 1 .. Len(line)
    BY <1>1, <1>3, <1>7
  <2>2. line'[c - 1] = line[c]
    BY <1>1, <2>1
  <2>3. line'[c - 1] \in Digit /\ line'[c - 1] # Encode(f)[(p + 1) + (c - 1)]
    BY <1>3, <2>1, <2>2
  <2>4. \A i \in 1 .. Len(line') : i # c - 1 => i + 1 # c
    BY <1>1, <1>3
  <2>5. Changed(f, p + 1, c - 1)'
    BY <1>4, <1>5, <2>1, <2>3, <2>4 DEF Changed
  <2>6. line[1] = Encode(f)[p + 1]
    BY <1>3, <1>7, <2>1
  <2>7. c - 1 \in Nat
    BY <1>3, <2>1
  <2> QED BY <2>5, <2>6, <2>7
<1> QED BY <1>6, <1>7

-----------------------------------------------------------------------------
(* Each byte that arrives.                                                 *)

\* While a frame is read right a digit arrives, either the one the panel wrote or
\* the one that is changed.
LEMMA NextDigit ==
  ASSUME NEW f \in Frames, NEW k \in 0 .. Len(f) + 1, NEW p \in {2 * k + 1, 2 * k + 2},
         line \in Seq(0 .. NAK), ByteArrives, Remaining(f, k, p)
  PROVE  /\ line[1] \in Digit
         /\ \/ line[1] = Encode(f)[p + 1] /\ Remaining(f, k, p + 1)'
            \/ line[1] # Encode(f)[p + 1] /\ damaged' /\ k >= 1 /\ Clean(f, p + 1)'
<1>1. line # <<>> /\ line' = Tail(line) /\ damaged' = damaged
  BY DEF ByteArrives
<1>2. Len(f) \in Nat /\ p \in Nat /\ p + 1 \in 2 .. 2 * Len(f) + 5
  BY FrameTypes
<1>3. Encode(f)[p + 1] \in Digit
  BY <1>2, EncodeIs
<1>4. CASE ~ damaged /\ Clean(f, p)
  <2>1. line[1] = Encode(f)[p + 1] /\ Clean(f, p + 1)'
    BY <1>1, <1>2, <1>4, CleanStep
  <2> QED BY <1>1, <1>3, <1>4, <2>1 DEF Remaining
<1>5. ASSUME damaged, k >= 1, NEW c \in 1 .. Len(line), Changed(f, p, c)
      PROVE  /\ line[1] \in Digit
             /\ \/ line[1] = Encode(f)[p + 1] /\ Remaining(f, k, p + 1)'
                \/ line[1] # Encode(f)[p + 1] /\ damaged' /\ k >= 1 /\ Clean(f, p + 1)'
  <2>1. c \in Nat
    OBVIOUS
  <2>2. CASE line[1] \in Digit /\ line[1] # Encode(f)[p + 1] /\ Clean(f, p + 1)'
    BY <1>1, <1>5, <2>2
  <2>3. CASE line[1] = Encode(f)[p + 1] /\ c - 1 \in Nat /\ Changed(f, p + 1, c - 1)'
    <3>1. c - 1 \in 1 .. Len(line')
      BY <2>3 DEF Changed
    <3>2. Remaining(f, k, p + 1)'
      BY <1>1, <1>5, <2>3, <3>1 DEF Remaining
    <3> QED BY <1>3, <2>3, <3>2
  <2> QED BY <1>1, <1>2, <1>5, <2>1, <2>2, <2>3, ChangedStep
<1> QED BY <1>4, <1>5 DEF Remaining

\* Two digits make the byte of a frame only if both are the ones the panel wrote.
LEMMA RightByte ==
  ASSUME NEW f \in Frames, NEW k \in 0 .. Len(f) + 1, NEW a \in Digit, NEW b \in Digit
  PROVE  /\ a * Base + b \in Value
         /\ a * Base + b = Bytes(f)[k + 1] <=> a = Bytes(f)[k + 1] \div Base /\ b = Encode(f)[2 * k + 3]
         /\ Encode(f)[2 * k + 2] = Bytes(f)[k + 1] \div Base
<1>1. Len(f) \in Nat /\ k + 1 \in 1 .. Len(f) + 2 /\ 2 * (k + 1) = 2 * k + 2 /\ 2 * (k + 1) + 1 = 2 * k + 3
  BY FrameTypes
<1> DEFINE v == Bytes(f)[k + 1]
           high == v \div Base
           low == v % Base
<1>2. v \in Value
  BY <1>1, BytesAre
<1>3. Encode(f)[2 * k + 2] = high /\ Encode(f)[2 * k + 3] = low
  <2>1. Encode(f)[2 * (k + 1)] = high /\ Encode(f)[2 * (k + 1) + 1] = low
    BY <1>1, EncodeIs
  <2> HIDE DEF high, low
  <2> QED BY <1>1, <2>1
<1> HIDE DEF v
<1>4. high \in Digit /\ low \in Digit /\ high * Base + low = v
  BY <1>2, DigitsOfByte
<1> HIDE DEF high, low
<1>5. a * Base + b \in Value
  BY ByteOfDigits
<1>6. a * Base + b = high * Base + low => a = high /\ b = low
  BY <1>4, ByteOfDigits
<1>7. a = high /\ b = low => a * Base + b = high * Base + low
  OBVIOUS
<1>8. a * Base + b = v <=> a = high /\ b = low
  BY <1>4, <1>6, <1>7
<1>9. a * Base + b = v <=> a = high /\ b = Encode(f)[2 * k + 3]
  BY <1>3, <1>8
<1> QED BY <1>3, <1>5, <1>9 DEF high, v

\* What a byte of data makes of the sum and of the buffer: the sum is right
\* after a right byte if it was, and not if either was wrong.
LEMMA DataEnds ==
  ASSUME ReceiverInv, NEW f \in Frames, NEW k \in 1 .. Len(f), Reads(f, k, 1),
         NEW b \in Digit, SecondNibble(b), NEW value \in Value, value = nibble_buffer * Base + b
  PROVE  /\ Reads(f, k + 1, 0)' /\ delivered' = delivered
         /\ SumRight(f, k) /\ value = Bytes(f)[k + 1] => SumRight(f, k + 1)'
         /\ ~ (SumRight(f, k) <=> value = Bytes(f)[k + 1]) => ~ SumRight(f, k + 1)'
         /\ Stored(f, k) /\ value = Bytes(f)[k + 1] => Stored(f, k + 1)'
<1>1. f \in Seq(Value) /\ Len(f) \in Nat /\ k \in Int /\ 1 <= k /\ k <= Len(f)
  BY FrameTypes
<1>2. /\ Reads(f, k + 1, 0)' /\ buffer_sum' = Sum(buffer_sum, value) /\ delivered' = delivered
      /\ buffer'[k - 1] = value /\ \A i \in 0 .. k - 2 : buffer'[i] = buffer[i]
  BY DataRead
<1>3. Bytes(f)[k + 1] = f[k] /\ f[k] \in Value
  BY <1>1, BytesAre
<1>4. k - 1 \in 0 .. Len(f) /\ k # 0 /\ k + 1 # 0 /\ (k + 1) - 1 = k
  BY <1>1
<1> DEFINE sum == Checksums(f)[k - 1]
<1>5. sum \in Value /\ Checksums(f)[k] = Sum(sum, f[k])
  BY <1>4, SumsAre
<1>6. SumTo(f, k) = sum /\ SumTo(f, k + 1) = Sum(sum, f[k])
  BY <1>4, <1>5 DEF SumTo
<1> HIDE DEF sum
<1>7. buffer_sum \in Value
  BY DEF ReceiverInv, TypeOK
<1>8. /\ SumRight(f, k) <=> buffer_sum = sum
      /\ SumRight(f, k + 1)' <=> Sum(buffer_sum, value) = Sum(sum, f[k])
  BY <1>2, <1>6 DEF SumRight
<1>9. ASSUME buffer_sum = sum, value # f[k] PROVE Sum(buffer_sum, value) # Sum(sum, f[k])
  BY <1>3, <1>7, <1>9, SumIs
<1>10. ASSUME buffer_sum # sum, value = f[k] PROVE Sum(buffer_sum, value) # Sum(sum, f[k])
  BY <1>3, <1>5, <1>7, <1>10, SumIs
<1>11. ASSUME Stored(f, k), value = f[k] PROVE Stored(f, k + 1)'
  <2>1. ASSUME NEW i \in 1 .. k PROVE buffer'[i - 1] = f[i]
    <3>1. CASE i = k
      BY <1>2, <1>11, <3>1
    <3>2. CASE i # k
      <4>1. i \in 1 .. k - 1 /\ i - 1 \in 0 .. k - 2
        BY <1>1, <3>2
      <4>2. buffer[i - 1] = f[i]
        BY <1>11, <4>1 DEF Stored
      <4> QED BY <1>2, <4>1, <4>2
    <3> QED BY <3>1, <3>2
  <2> QED BY <1>4, <2>1 DEF Stored
<1> QED BY <1>2, <1>3, <1>8, <1>9, <1>10, <1>11

\* What the checksum makes of them: the data of the frame are handed over if the
\* sum and the checksum are right, none if one of the two is wrong.
LEMMA ChecksumEnds ==
  ASSUME ReceiverInv, NEW f \in Frames, NEW k, k = Len(f) + 1, Reads(f, k, 1),
         NEW b \in Digit, SecondNibble(b), NEW value \in Value, value = nibble_buffer * Base + b
  PROVE  /\ SumRight(f, k) /\ value = Bytes(f)[k + 1] /\ Stored(f, k) => delivered' = f
         /\ ~ (SumRight(f, k) <=> value = Bytes(f)[k + 1]) => delivered' = delivered
<1>1. f \in Seq(Value) /\ Len(f) \in Nat /\ k # 0 /\ k - 1 = Len(f) /\ k + 1 = Len(f) + 2
  BY FrameTypes
<1>2. /\ buffer_sum # value => delivered' = delivered
      /\ buffer_sum = value => delivered' = [i \in 1 .. Len(f) |-> buffer[i - 1]]
  BY ChecksumRead
<1>3. SumTo(f, k) = Bytes(f)[k + 1]
  BY <1>1, BytesAre DEF SumTo
<1>4. SumRight(f, k) <=> buffer_sum = Bytes(f)[k + 1]
  BY <1>3 DEF SumRight
<1>5. ASSUME Stored(f, k), delivered' = [i \in 1 .. Len(f) |-> buffer[i - 1]] PROVE delivered' = f
  <2>1. \A i \in 1 .. Len(f) : buffer[i - 1] = f[i]
    BY <1>1, <1>5 DEF Stored
  <2>2. delivered' = [i \in 1 .. Len(f) |-> f[i]]
    BY <1>5, <2>1
  <2>3. f = [i \in 1 .. Len(f) |-> f[i]]
    BY <1>1
  <2> QED BY <2>2, <2>3
<1> QED BY <1>2, <1>4, <1>5

-----------------------------------------------------------------------------
(* A transmission as a whole.                                              *)

\* Nothing is left on a line that is at the end of the frame.
LEMMA LineEnds ==
  ASSUME NEW f \in Frames, line \in Seq(0 .. NAK), line # <<>>, line' = Tail(line),
         Len(line') = 2 * Len(f) + 5 - (2 * (Len(f) + 1) + 3)
  PROVE  line' = <<>>
<1>1. Len(f) \in Nat
  BY FrameTypes
<1>2. line' \in Seq(0 .. NAK) /\ Len(line') = 0
  BY <1>1, LineTail
<1> QED BY <1>2

\* The START byte sets the parser to the start of the frame.
LEMMA BeginsStep ==
  ASSUME NEW f \in Frames, Begins(f), ByteArrives, line \in Seq(0 .. NAK)
  PROVE  Good(f, 0, 0)'
<1>1. line # <<>> /\ ReceiveByte(Head(line)) /\ line' = Tail(line) /\ damaged' = damaged
  BY DEF ByteArrives
<1>2. Len(f) \in Nat /\ 1 \in 1 .. 2 * Len(f) + 5
  BY FrameTypes
<1>3. Len(line) = 2 * Len(f) + 5 /\ line[1] = START
  BY EncodeIs DEF Begins
<1>4. Head(line) = START
  BY <1>1, <1>3
<1>5. StartOfMessage
  <2>1. START \notin {ACK, NAK}
    BY Symbols
  <2>2. ReceiveByte(START)
    BY <1>1, <1>4
  <2> QED BY <2>1, <2>2 DEF ReceiveByte
<1>6. Reads(f, 0, 0)' /\ SumRight(f, 0)' /\ delivered' = <<>>
  BY <1>5 DEF StartOfMessage, Reads, SumRight, SumTo, Begins
<1>7. NibbleRight(f, 0, 0)' /\ Stored(f, 0)'
  BY DEF NibbleRight, Stored
<1>8. Clean(f, 0)
  <2>1. \A i \in 1 .. Len(line) : 0 + i = i
    OBVIOUS
  <2> QED BY <1>2, <1>3, <2>1 DEF Begins, Clean
<1>9. Clean(f, 0 + 1)'
  BY <1>1, <1>8, CleanStep
<1>10. 0 + 1 = 1 /\ 2 * 0 + 1 + 0 = 1
  OBVIOUS
<1>11. Remaining(f, 0, 2 * 0 + 1 + 0)'
  BY <1>1, <1>9, <1>10 DEF Begins, Remaining
<1> QED BY <1>6, <1>7, <1>11 DEF Good

\* The first digit of a byte, while all is right,
LEMMA GoodFirst ==
  ASSUME ReceiverInv, NEW f \in Frames, NEW k \in 0 .. Len(f) + 1, Good(f, k, 0), ByteArrives
  PROVE  Good(f, k, 1)' \/ Bad(f, k, 1)'
<1>1. line \in Seq(0 .. NAK) /\ Len(f) \in Nat /\ k \in Nat
  BY FrameTypes DEF ReceiverInv, TypeOK
<1>2. 2 * k + 1 + 0 = 2 * k + 1 /\ 2 * k + 1 + 1 = 2 * k + 2
  BY <1>1
<1>3. Reads(f, k, 0) /\ Stored(f, k) /\ SumRight(f, k) /\ delivered = <<>> /\ Remaining(f, k, 2 * k + 1)
  BY <1>2 DEF Good
<1>4. /\ line[1] \in Digit
      /\ \/ line[1] = Encode(f)[2 * k + 2] /\ Remaining(f, k, 2 * k + 2)'
         \/ line[1] # Encode(f)[2 * k + 2] /\ damaged' /\ k >= 1 /\ Clean(f, 2 * k + 2)'
  BY <1>1, <1>2, <1>3, NextDigit
<1>5. FirstNibble(line[1])
  BY <1>1, <1>3, <1>4, DigitArrives DEF Reads
<1>6. Reads(f, k, 1)' /\ nibble_buffer' = line[1] /\ UNCHANGED <<buffer_sum, buffer, delivered>>
  BY <1>1, <1>3, <1>4, <1>5, FirstRead
<1>7. SumRight(f, k)' /\ Stored(f, k)' /\ delivered' = <<>>
  BY <1>3, <1>6 DEF SumRight, Stored
<1>8. Encode(f)[2 * k + 2] = Bytes(f)[k + 1] \div Base
  BY <1>4, RightByte
<1>9. NibbleRight(f, k, 1)' <=> line[1] = Encode(f)[2 * k + 2]
  BY <1>6, <1>8 DEF NibbleRight
<1> QED BY <1>2, <1>4, <1>6, <1>7, <1>9 DEF Good, Bad

\* and the second, which ends the byte.
LEMMA GoodSecond ==
  ASSUME ReceiverInv, NEW f \in Frames, NEW k \in 0 .. Len(f) + 1, Good(f, k, 1), ByteArrives
  PROVE  \/ k < Len(f) + 1 /\ (Good(f, k + 1, 0)' \/ Bad(f, k + 1, 0)')
         \/ Over(f)'
<1>1. line \in Seq(0 .. NAK) /\ Len(f) \in Nat /\ k \in Nat /\ k <= Len(f) + 1
  BY FrameTypes DEF ReceiverInv, TypeOK
<1>2. 2 * k + 1 + 1 = 2 * k + 2 /\ (2 * k + 2) + 1 = 2 * k + 3 /\ 2 * (k + 1) + 1 + 0 = 2 * k + 3
  BY <1>1
<1>3. /\ Reads(f, k, 1) /\ Stored(f, k) /\ SumRight(f, k) /\ NibbleRight(f, k, 1)
      /\ delivered = <<>> /\ Remaining(f, k, 2 * k + 2)
  BY <1>2 DEF Good
<1>4. /\ line[1] \in Digit
      /\ \/ line[1] = Encode(f)[2 * k + 3] /\ Remaining(f, k, 2 * k + 3)'
         \/ line[1] # Encode(f)[2 * k + 3] /\ damaged' /\ k >= 1 /\ Clean(f, 2 * k + 3)'
  BY <1>1, <1>2, <1>3, NextDigit
<1>5. nibble_buffer \in Digit /\ reading_message /\ nibble_buffer # NoNibble
  BY <1>3, Symbols DEF Reads
<1>6. SecondNibble(line[1]) /\ line # <<>> /\ line' = Tail(line) /\ damaged' = damaged
  BY <1>1, <1>4, <1>5, DigitArrives DEF ByteArrives
<1> DEFINE value == nibble_buffer * Base + line[1]
<1>7. value \in Value /\ (value = Bytes(f)[k + 1] <=> line[1] = Encode(f)[2 * k + 3])
  BY <1>3, <1>4, <1>5, RightByte DEF NibbleRight
<1>8. value = nibble_buffer * Base + line[1]
  OBVIOUS
<1> HIDE DEF value
<1>9. CASE k = 0
  <2>1. line[1] = Encode(f)[2 * k + 3] /\ Remaining(f, k, 2 * k + 3)'
    BY <1>1, <1>4, <1>9
  <2>2. value = Len(f) + 1
    BY <1>7, <1>9, <2>1, BytesAre
  <2>3. /\ Reads(f, 1, 0)' /\ buffer_sum' = Sum(buffer_sum, Len(f) + 1)
        /\ UNCHANGED <<buffer, delivered>>
    BY <1>3, <1>4, <1>6, <1>8, <1>9, <2>2, LengthRead
  <2>4. SumRight(f, 1)'
    <3>1. Checksums(f)[0] = Len(f) + 1 /\ Len(f) + 1 \in Value
      BY <1>1, SumsAre, FrameTypes
    <3>2. buffer_sum = 0
      BY <1>3, <1>9 DEF SumRight, SumTo
    <3>3. Sum(0, Len(f) + 1) = Len(f) + 1
      <4>1. ASSUME NEW n \in Nat, NEW v \in 0 .. n - 1 PROVE (0 + v) % n = v
        BY <4>1
      <4>2. Base * Base \in Nat /\ Value = 0 .. Base * Base - 1
        BY Numbers
      <4> QED BY <3>1, <4>1, <4>2 DEF Sum
    <3>4. SumTo(f, 1) = Len(f) + 1
      BY <3>1 DEF SumTo
    <3> QED BY <2>3, <3>2, <3>3, <3>4 DEF SumRight
  <2>5. NibbleRight(f, 1, 0)' /\ Stored(f, 1)'
    BY DEF NibbleRight, Stored
  <2>6. Remaining(f, 1, 3)'
    BY <1>9, <2>1 DEF Remaining
  <2>7. k + 1 = 1 /\ 2 * 1 + 1 + 0 = 3 /\ k < Len(f) + 1
    BY <1>1, <1>9
  <2> QED BY <1>3, <2>3, <2>4, <2>5, <2>6, <2>7 DEF Good
<1>10. CASE k \in 1 .. Len(f)
  <2>1. /\ Reads(f, k + 1, 0)' /\ delivered' = delivered
        /\ SumRight(f, k) /\ value = Bytes(f)[k + 1] => SumRight(f, k + 1)'
        /\ ~ (SumRight(f, k) <=> value = Bytes(f)[k + 1]) => ~ SumRight(f, k + 1)'
        /\ Stored(f, k) /\ value = Bytes(f)[k + 1] => Stored(f, k + 1)'
    BY <1>3, <1>4, <1>6, <1>7, <1>8, <1>10, DataEnds
  <2>2. NibbleRight(f, k + 1, 0)' /\ k + 1 >= 1 /\ k < Len(f) + 1
    BY <1>1, <1>10 DEF NibbleRight
  <2>3. CASE line[1] = Encode(f)[2 * k + 3] /\ Remaining(f, k, 2 * k + 3)'
    <3>1. SumRight(f, k + 1)' /\ Stored(f, k + 1)'
      BY <1>3, <1>7, <2>1, <2>3
    <3>2. Remaining(f, k + 1, 2 * k + 3)'
      BY <2>2, <2>3 DEF Remaining
    <3> QED BY <1>2, <1>3, <2>1, <2>2, <3>1, <3>2 DEF Good
  <2>4. CASE line[1] # Encode(f)[2 * k + 3] /\ damaged' /\ k >= 1 /\ Clean(f, 2 * k + 3)'
    <3>1. ~ SumRight(f, k + 1)'
      BY <1>3, <1>7, <2>1, <2>4
    <3> QED BY <1>2, <1>3, <2>1, <2>2, <2>4, <3>1 DEF Bad
  <2> QED BY <1>4, <2>3, <2>4
<1>11. CASE k = Len(f) + 1
  <2>1. /\ SumRight(f, k) /\ value = Bytes(f)[k + 1] /\ Stored(f, k) => delivered' = f
        /\ ~ (SumRight(f, k) <=> value = Bytes(f)[k + 1]) => delivered' = delivered
    BY <1>3, <1>4, <1>6, <1>7, <1>8, <1>11, ChecksumEnds
  <2>2. delivered' \in {<<>>, f}
    BY <1>3, <2>1
  <2>3. Len(line') = 2 * Len(f) + 5 - (2 * k + 3)
    BY <1>4 DEF Remaining, Clean, Changed
  <2>4. line' = <<>>
    BY <1>1, <1>6, <1>11, <2>3, LineEnds
  <2> QED BY <2>2, <2>4 DEF Over
<1> QED BY <1>1, <1>9, <1>10, <1>11

\* Both, once a digit was wrong: the sum keeps telling.
LEMMA BadFirst ==
  ASSUME ReceiverInv, NEW f \in Frames, NEW k \in 0 .. Len(f) + 1, Bad(f, k, 0), ByteArrives
  PROVE  Bad(f, k, 1)'
<1>1. line \in Seq(0 .. NAK) /\ Len(f) \in Nat /\ k \in Nat
  BY FrameTypes DEF ReceiverInv, TypeOK
<1>2. 2 * k + 1 + 0 = 2 * k + 1 /\ 2 * k + 1 + 1 = 2 * k + 2
  BY <1>1
<1>3. Reads(f, k, 0) /\ damaged /\ k >= 1 /\ delivered = <<>> /\ Clean(f, 2 * k + 1)
  BY <1>2 DEF Bad
<1>4. ~ SumRight(f, k)
  BY DEF Bad, NibbleRight
<1>5. line # <<>> /\ line' = Tail(line) /\ damaged' = damaged
  BY DEF ByteArrives
<1>6. line[1] = Encode(f)[2 * k + 2] /\ Clean(f, 2 * k + 2)'
  <2>1. 2 * k + 1 \in Nat /\ (2 * k + 1) + 1 = 2 * k + 2
    BY <1>1
  <2> QED BY <1>1, <1>3, <1>5, <2>1, CleanStep
<1>7. line[1] \in Digit
  <2>1. 2 * k + 2 \in 2 .. 2 * Len(f) + 5
    BY <1>1
  <2> QED BY <1>6, <2>1, EncodeIs
<1>8. FirstNibble(line[1])
  BY <1>1, <1>3, <1>7, DigitArrives DEF Reads
<1>9. Reads(f, k, 1)' /\ nibble_buffer' = line[1] /\ UNCHANGED <<buffer_sum, buffer, delivered>>
  BY <1>1, <1>3, <1>7, <1>8, FirstRead
<1>10. ~ SumRight(f, k)' /\ delivered' = <<>>
  BY <1>3, <1>4, <1>9 DEF SumRight
<1>11. NibbleRight(f, k, 1)'
  BY <1>6, <1>7, <1>9, RightByte DEF NibbleRight
<1> QED BY <1>2, <1>3, <1>5, <1>6, <1>9, <1>10, <1>11 DEF Bad

\* It tells at the end of a byte, and of the frame.
LEMMA BadSecond ==
  ASSUME ReceiverInv, NEW f \in Frames, NEW k \in 0 .. Len(f) + 1, Bad(f, k, 1), ByteArrives
  PROVE  (k < Len(f) + 1 /\ Bad(f, k + 1, 0)') \/ Over(f)'
<1>1. line \in Seq(0 .. NAK) /\ Len(f) \in Nat /\ k \in Nat /\ k <= Len(f) + 1
  BY FrameTypes DEF ReceiverInv, TypeOK
<1>2. /\ 2 * k + 1 + 1 = 2 * k + 2 /\ (2 * k + 2) + 1 = 2 * k + 3 /\ 2 * (k + 1) + 1 + 0 = 2 * k + 3
      /\ 2 * k + 2 \in Nat /\ 2 * k + 3 \in 2 .. 2 * Len(f) + 5
  BY <1>1
<1>3. Reads(f, k, 1) /\ damaged /\ k >= 1 /\ delivered = <<>> /\ Clean(f, 2 * k + 2)
  BY <1>2 DEF Bad
<1>4. ~ (SumRight(f, k) <=> NibbleRight(f, k, 1))
  BY DEF Bad
<1>5. line # <<>> /\ line' = Tail(line) /\ damaged' = damaged
  BY DEF ByteArrives
<1>6. line[1] = Encode(f)[2 * k + 3] /\ Clean(f, 2 * k + 3)'
  BY <1>1, <1>2, <1>3, <1>5, CleanStep
<1>7. line[1] \in Digit
  BY <1>2, <1>6, EncodeIs
<1>8. nibble_buffer \in Digit /\ reading_message /\ nibble_buffer # NoNibble
  BY <1>3, Symbols DEF Reads
<1>9. SecondNibble(line[1])
  BY <1>1, <1>7, <1>8, DigitArrives
<1> DEFINE value == nibble_buffer * Base + line[1]
<1>10. value \in Value /\ (value = Bytes(f)[k + 1] <=> NibbleRight(f, k, 1))
  BY <1>6, <1>7, <1>8, RightByte DEF NibbleRight
<1>11. value = nibble_buffer * Base + line[1]
  OBVIOUS
<1> HIDE DEF value
<1>12. ~ (SumRight(f, k) <=> value = Bytes(f)[k + 1])
  BY <1>4, <1>10
<1>13. CASE k \in 1 .. Len(f)
  <2>1. /\ Reads(f, k + 1, 0)' /\ delivered' = delivered /\ ~ SumRight(f, k + 1)'
    BY <1>3, <1>7, <1>9, <1>10, <1>11, <1>12, <1>13, DataEnds
  <2>2. NibbleRight(f, k + 1, 0)' /\ k + 1 >= 1 /\ k < Len(f) + 1
    BY <1>1, <1>13 DEF NibbleRight
  <2> QED BY <1>2, <1>3, <1>5, <1>6, <2>1, <2>2 DEF Bad
<1>14. CASE k = Len(f) + 1
  <2>1. delivered' = delivered
    BY <1>3, <1>7, <1>9, <1>10, <1>11, <1>12, <1>14, ChecksumEnds
  <2>2. Len(line') = 2 * Len(f) + 5 - (2 * k + 3)
    BY <1>6 DEF Clean
  <2>3. line' = <<>>
    BY <1>1, <1>5, <1>14, <2>2, LineEnds
  <2> QED BY <1>3, <2>1, <2>3 DEF Over
<1> QED BY <1>1, <1>3, <1>13, <1>14

\* If a digit is missing the line is empty before the frame is read.
LEMMA ShortStep ==
  ASSUME ReceiverInv, Short, ByteArrives
  PROVE  Short'
<1>1. line \in Seq(0 .. NAK) /\ line # <<>> /\ line' = Tail(line) /\ damaged' = damaged
  BY DEF ReceiverInv, TypeOK, ByteArrives
<1>2. /\ Len(line) \in Nat /\ Len(line) >= 1 /\ Len(line') = Len(line) - 1
      /\ \A i \in 1 .. Len(line') : line'[i] = line[i + 1]
  BY <1>1, LineTail
<1>3. line[1] \in Digit /\ \A i \in 1 .. Len(line') : line'[i] \in Digit
  <2>1. \A i \in 1 .. Len(line') : i + 1 \in 1 .. Len(line)
    BY <1>2
  <2>2. 1 \in 1 .. Len(line)
    BY <1>2
  <2> QED BY <1>2, <2>1, <2>2 DEF Short
<1>4. /\ reading_message /\ damaged /\ delivered = <<>> /\ message_len # NoLength
      /\ 2 * current_byte + (IF nibble_buffer = NoNibble THEN 0 ELSE 1) + Len(line) < 2 * message_len
  BY DEF Short
<1>5. CASE nibble_buffer = NoNibble
  <2>1. FirstNibble(line[1])
    BY <1>1, <1>3, <1>4, <1>5, DigitArrives
  <2>2. HexDigitToInt(line[1]) = line[1] /\ line[1] # NoNibble
    BY <1>3, Symbols
  <2>3. /\ nibble_buffer' # NoNibble
        /\ UNCHANGED <<reading_message, current_byte, message_len, delivered>>
    BY <2>1, <2>2 DEF FirstNibble
  <2>4. current_byte \in Int /\ message_len \in Int
    BY ReceiverAssumption, Numbers DEF ReceiverInv, TypeOK, NoLength
  <2>5. 2 * current_byte + 1 + Len(line') < 2 * message_len
    BY <1>2, <1>4, <1>5, <2>4
  <2> QED BY <1>1, <1>3, <1>4, <2>3, <2>5 DEF Short
<1>6. CASE nibble_buffer # NoNibble
  <2>1. SecondNibble(line[1])
    BY <1>1, <1>3, <1>4, <1>6, DigitArrives
  <2>2. nibble_buffer \in Digit /\ HexDigitToInt(line[1]) = line[1]
    BY <1>3, <1>6, Symbols DEF ReceiverInv, TypeOK
  <2> DEFINE value == nibble_buffer * Base + line[1]
  <2>3. value \in Value /\ DataByte(value) /\ nibble_buffer' = NoNibble
    BY <1>3, <1>4, <2>1, <2>2, ByteOfDigits DEF SecondNibble
  <2> HIDE DEF value
  <2>4. message_len \in 2 .. MaxSize /\ current_byte \in 0 .. message_len - 1
    BY <1>4, <2>3, DataByteDoes
  <2>5. MaxSize \in Nat
    BY ReceiverAssumption
  <2>6. current_byte + 1 < message_len
    BY <1>2, <1>4, <1>6, <2>4, <2>5
  <2>7. /\ current_byte' = current_byte + 1 /\ message_len' = message_len
        /\ UNCHANGED <<reading_message, delivered>>
    BY <1>4, <2>3, <2>6, DataByteDoes
  <2>8. 2 * current_byte' + 0 + Len(line') < 2 * message_len'
    BY <1>2, <1>4, <1>6, <2>4, <2>5, <2>7
  <2> QED BY <1>1, <1>3, <1>4, <2>3, <2>7, <2>8 DEF Short
<1> QED BY <1>5, <1>6

\* A byte of the transmission that arrives.
LEMMA ByteFollows ==
  ASSUME ReceiverInv, NEW f \in Frames, Follows(f), ByteArrives
  PROVE  Follows(f)'
<1>1. line \in Seq(0 .. NAK) /\ Len(f) \in Nat /\ line # <<>>
  BY FrameTypes DEF ReceiverInv, TypeOK, ByteArrives
<1>2. /\ 0 \in 0 .. Len(f) + 1
      /\ \A k \in 0 .. Len(f) + 1 : k < Len(f) + 1 => k + 1 \in 0 .. Len(f) + 1
  BY <1>1
<1>3. ASSUME NEW k \in 0 .. Len(f) + 1, NEW h \in {0, 1}, Good(f, k, h)' \/ Bad(f, k, h)'
      PROVE  Follows(f)'
  BY <1>3 DEF Follows
<1>4. ASSUME Over(f)' PROVE Follows(f)'
  BY <1>4 DEF Follows
<1>5. CASE Begins(f)
  BY <1>1, <1>2, <1>3, <1>5, BeginsStep
<1>6. ASSUME NEW k \in 0 .. Len(f) + 1, Good(f, k, 0) PROVE Follows(f)'
  BY <1>3, <1>6, GoodFirst
<1>7. ASSUME NEW k \in 0 .. Len(f) + 1, Good(f, k, 1) PROVE Follows(f)'
  BY <1>2, <1>3, <1>4, <1>7, GoodSecond
<1>8. ASSUME NEW k \in 0 .. Len(f) + 1, Bad(f, k, 0) PROVE Follows(f)'
  BY <1>3, <1>8, BadFirst
<1>9. ASSUME NEW k \in 0 .. Len(f) + 1, Bad(f, k, 1) PROVE Follows(f)'
  BY <1>2, <1>3, <1>4, <1>9, BadSecond
<1>10. CASE Short
  <2>1. Short'
    BY <1>10, ShortStep
  <2> QED BY <2>1 DEF Follows
<1>11. ~ Over(f)
  BY <1>1 DEF Over
<1>12. ASSUME NEW k \in 0 .. Len(f) + 1, NEW h \in {0, 1}, Good(f, k, h) \/ Bad(f, k, h)
       PROVE  Follows(f)'
  BY <1>6, <1>7, <1>8, <1>9, <1>12
<1> QED BY <1>5, <1>10, <1>11, <1>12 DEF Follows

\* Damage that leaves START and the length alone comes when a frame is being
\* read, or to the whole of it.
LEMMA DamageComes ==
  ASSUME ReceiverInv, NEW f \in Frames, Follows(f), ~ damaged, line # <<>>,
         Len(line) <= Len(Encode(f)) - 3
  PROVE  \E k \in 1 .. Len(f) + 1, h \in {0, 1} : Good(f, k, h) /\ Clean(f, 2 * k + 1 + h)
<1>1. Len(f) \in Nat /\ Len(Encode(f)) = 2 * Len(f) + 5
  BY FrameTypes, EncodeIs
<1>2. ~ Begins(f)
  BY <1>1 DEF Begins
<1>3. ~ Short /\ ~ Over(f) /\ \A k, h : ~ Bad(f, k, h)
  BY DEF Short, Over, Bad
<1>4. PICK k \in 0 .. Len(f) + 1, h \in {0, 1} : Good(f, k, h)
  BY <1>2, <1>3 DEF Follows
<1>5. Clean(f, 2 * k + 1 + h)
  BY <1>4 DEF Good, Remaining
<1>6. Len(line) = 2 * Len(f) + 5 - (2 * k + 1 + h)
  BY <1>5 DEF Clean
<1>7. k \in 1 .. Len(f) + 1
  BY <1>1, <1>6
<1> QED BY <1>4, <1>5, <1>7

\* A digit that is read wrong is the one that is changed,
LEMMA GarbleFollows ==
  ASSUME ReceiverInv, NEW f \in Frames, sending = f, Follows(f), NEW i \in 1 .. Len(line), NEW d \in Digit,
         Garble(i, d), ~ InLength
  PROVE  Follows(f)'
<1>1. line \in Seq(0 .. NAK) /\ Len(f) \in Nat /\ Len(line) \in Nat /\ line # <<>>
  BY FrameTypes DEF ReceiverInv, TypeOK
<1>2. /\ ~ damaged /\ damaged' /\ line[i] # d /\ line' = [line EXCEPT ![i] = d]
      /\ UNCHANGED <<parser, delivered>>
  BY DEF Garble, Damage
<1>3. Len(line) <= Len(Encode(f)) - 3
  <2>1. Len(Encode(f)) = 2 * Len(f) + 5
    BY EncodeIs
  <2> QED BY <1>1, <2>1 DEF InLength
<1>4. PICK k \in 1 .. Len(f) + 1, h \in {0, 1} : Good(f, k, h) /\ Clean(f, 2 * k + 1 + h)
  BY <1>1, <1>2, <1>3, DamageComes
<1>5. Len(line') = Len(line) /\ \A j \in 1 .. Len(line) : line'[j] = IF j = i THEN d ELSE line[j]
  BY <1>1, <1>2, LineGarbled
<1> DEFINE p == 2 * k + 1 + h
<1>6. Len(line) = 2 * Len(f) + 5 - p /\ \A j \in 1 .. Len(line) : line[j] = Encode(f)[p + j]
  BY <1>4 DEF Clean
<1> HIDE DEF p
<1>7. Changed(f, p, i)'
  BY <1>2, <1>5, <1>6 DEF Changed
<1>8. i \in 1 .. Len(line') /\ k >= 1 /\ k \in 0 .. Len(f) + 1
  BY <1>1, <1>4, <1>5
<1>9. Remaining(f, k, p)'
  BY <1>2, <1>7, <1>8 DEF Remaining
<1>10. Good(f, k, h)'
  <2>1. Reads(f, k, h)' /\ SumRight(f, k)' /\ NibbleRight(f, k, h)' /\ Stored(f, k)' /\ delivered' = <<>>
    BY <1>2, <1>4 DEF Good, parser, Reads, SumRight, NibbleRight, Stored
  <2> QED BY <1>9, <2>1 DEF Good, p
<1> QED BY <1>8, <1>10 DEF Follows

\* and one that is lost is missing.
LEMMA LossFollows ==
  ASSUME ReceiverInv, NEW f \in Frames, sending = f, Follows(f), NEW i \in 1 .. Len(line),
         LoseDigit(i), ~ InLength
  PROVE  Follows(f)'
<1>1. line \in Seq(0 .. NAK) /\ Len(f) \in Nat /\ Len(line) \in Nat /\ line # <<>>
  BY FrameTypes DEF ReceiverInv, TypeOK
<1>2. ~ damaged /\ damaged' /\ line' = RemoveAt(line, i) /\ UNCHANGED <<parser, delivered>>
  BY DEF LoseDigit, Damage
<1>3. Len(line) <= Len(Encode(f)) - 3
  <2>1. Len(Encode(f)) = 2 * Len(f) + 5
    BY EncodeIs
  <2> QED BY <1>1, <2>1 DEF InLength
<1>4. PICK k \in 1 .. Len(f) + 1, h \in {0, 1} : Good(f, k, h) /\ Clean(f, 2 * k + 1 + h)
  BY <1>1, <1>2, <1>3, DamageComes
<1>5. /\ Len(line') = Len(line) - 1
      /\ \A j \in 1 .. Len(line) - 1 : line'[j] = line[IF j < i THEN j ELSE j + 1]
  BY <1>1, <1>2, LineLoses
<1>6. k \in Int /\ 1 <= k /\ k <= Len(f) + 1 /\ h \in Int /\ 0 <= h
  BY <1>1
<1>7. /\ Len(line) = 2 * Len(f) + 5 - (2 * k + 1 + h)
      /\ \A j \in 1 .. Len(line) : line[j] = Encode(f)[(2 * k + 1 + h) + j]
  BY <1>4 DEF Clean
<1>8. \A j \in 1 .. Len(line) : line[j] \in Digit
  <2>1. \A j \in 1 .. Len(line) : (2 * k + 1 + h) + j \in 2 .. 2 * Len(f) + 5
    BY <1>1, <1>6, <1>7
  <2> QED BY <1>7, <2>1, EncodeIs
<1>9. \A j \in 1 .. Len(line') : line'[j] \in Digit
  <2>1. \A j \in 1 .. Len(line') : (IF j < i THEN j ELSE j + 1) \in 1 .. Len(line)
    BY <1>1, <1>5
  <2> QED BY <1>1, <1>5, <1>8, <2>1
<1>10. /\ reading_message /\ current_byte = k - 1 /\ message_len = Len(f) + 1 /\ delivered = <<>>
       /\ (IF nibble_buffer = NoNibble THEN 0 ELSE 1) = h
  <2>1. k # 0 /\ NoNibble \notin Digit
    BY <1>6, Symbols
  <2> QED BY <1>4, <2>1 DEF Good, Reads
<1>11. message_len # NoLength
  BY <1>10, FrameTypes
<1>12. 2 * (k - 1) + h + Len(line') < 2 * (Len(f) + 1)
  BY <1>1, <1>5, <1>6, <1>7
<1>13. Short'
  BY <1>2, <1>9, <1>10, <1>11, <1>12 DEF Short, parser
<1> QED BY <1>13 DEF Follows

\* When the rest is lost nothing more comes.
LEMMA RestFollows ==
  ASSUME ReceiverInv, NEW f \in Frames, Follows(f), LoseRest
  PROVE  Follows(f)'
<1>1. ~ damaged /\ line # <<>> /\ line' = <<>> /\ delivered' = delivered
  BY DEF LoseRest, Damage
<1>2. ~ Short /\ ~ Over(f) /\ \A k, h : ~ Bad(f, k, h)
  BY <1>1 DEF Short, Over, Bad
<1>3. delivered = <<>>
  BY <1>2 DEF Follows, Begins, Good
<1> QED BY <1>1, <1>3 DEF Follows, Over

\* What is no matter of the line leaves it all as it is.
LEMMA OtherFollows ==
  ASSUME NEW f \in Frames, Follows(f), UNCHANGED <<parser, delivered, line, damaged>>
  PROVE  Follows(f)'
<1>1. CASE Begins(f)
  <2>1. Begins(f)'
    BY <1>1 DEF Begins
  <2> QED BY <2>1 DEF Follows
<1>2. ASSUME NEW k \in 0 .. Len(f) + 1, NEW h \in {0, 1}, Good(f, k, h) PROVE Follows(f)'
  <2>1. Reads(f, k, h)' /\ SumRight(f, k)' /\ NibbleRight(f, k, h)' /\ Stored(f, k)' /\ delivered' = <<>>
    BY <1>2 DEF Good, parser, Reads, SumRight, NibbleRight, Stored
  <2>2. Remaining(f, k, 2 * k + 1 + h)'
    BY <1>2 DEF Good, Remaining, Clean, Changed
  <2>3. Good(f, k, h)'
    BY <2>1, <2>2 DEF Good
  <2> QED BY <2>3 DEF Follows
<1>3. ASSUME NEW k \in 0 .. Len(f) + 1, NEW h \in {0, 1}, Bad(f, k, h) PROVE Follows(f)'
  <2>1. Bad(f, k, h)'
    BY <1>3 DEF Bad, parser, Reads, SumRight, NibbleRight, Clean
  <2> QED BY <2>1 DEF Follows
<1>4. CASE Short
  <2>1. Short'
    BY <1>4 DEF Short, parser
  <2> QED BY <2>1 DEF Follows
<1>5. CASE Over(f)
  <2>1. Over(f)'
    BY <1>5 DEF Over
  <2> QED BY <2>1 DEF Follows
<1> QED BY <1>1, <1>2, <1>3, <1>4, <1>5 DEF Follows

\* LineInv is inductive with the types.
LEMMA LineInvStep ==
  ASSUME ReceiverInv, LineInv, [Next]_vars
  PROVE  LineInv'
<1>1. sending \in Frames \union {<<>>} /\ <<>> \notin Frames /\ damaged \in BOOLEAN /\ rough \in BOOLEAN
  BY FrameTypes DEF ReceiverInv, TypeOK
<1>2. ASSUME NEW f \in Frames, sending' = f, Follows(f)' PROVE LineInv'
  BY <1>2 DEF LineInv
<1>3. ASSUME sending' = <<>> \/ rough' PROVE LineInv'
  BY <1>3 DEF LineInv
<1>4. ASSUME NEW f \in Frames, sending' = f, line' = Encode(f), ~ damaged', delivered' = <<>>
      PROVE  LineInv'
  <2>1. Begins(f)'
    BY <1>4 DEF Begins
  <2>2. Follows(f)'
    BY <2>1 DEF Follows
  <2> QED BY <1>2, <1>4, <2>2
<1>5. ASSUME sending' = sending, rough => rough',
             \A f \in Frames : sending = f /\ Follows(f) /\ ~ rough' => Follows(f)'
      PROVE  LineInv'
  <2>1. CASE sending' = <<>> \/ rough'
    BY <1>3, <2>1
  <2>2. CASE sending' # <<>> /\ ~ rough'
    <3>1. PICK f \in Frames : sending = f
      BY <1>1, <1>5, <2>2
    <3>2. Follows(f)
      BY <1>5, <2>2, <3>1 DEF LineInv
    <3>3. Follows(f)'
      BY <1>5, <2>2, <3>1, <3>2
    <3> QED BY <1>2, <1>5, <3>1, <3>3
  <2> QED BY <2>1, <2>2
<1>6. ASSUME NEW f \in Frames, PanelSends(f) PROVE LineInv'
  BY <1>4, <1>6 DEF PanelSends
<1>7. CASE ByteArrives
  <2>1. sending' = sending /\ rough' = rough
    BY <1>7 DEF ByteArrives
  <2> QED BY <1>5, <1>7, <2>1, ByteFollows
<1>8. ASSUME UNCHANGED <<parser, delivered, line, damaged, sending, rough>> PROVE LineInv'
  BY <1>5, <1>8, OtherFollows
<1>9. CASE DaemonSends
  BY <1>8, <1>9 DEF DaemonSends, panel
<1>10. ASSUME NEW resp \in {ACK, NAK}, AnswerArrives(resp) PROVE LineInv'
  <2>1. Response
    <3>1. resp # START /\ awaiting /\ ReceiveByte(resp)
      BY <1>10, Symbols DEF AnswerArrives
    <3> QED BY <3>1 DEF ReceiveByte
  <2> QED BY <1>8, <1>10, <2>1 DEF AnswerArrives, Response, panel
<1>11. CASE PanelHearsAck
  BY <1>3, <1>11 DEF PanelHearsAck
<1>12. CASE PanelResends
  <2>1. PICK f \in Frames : sending = f
    BY <1>1, <1>12 DEF PanelResends
  <2> QED BY <1>4, <1>12, <2>1 DEF PanelResends
<1>13. ASSUME NEW i \in 1 .. Len(line), NEW d \in Digit, Garble(i, d) PROVE LineInv'
  <2>1. sending' = sending /\ rough' = (rough \/ InLength)
    BY <1>13 DEF Garble, Damage
  <2> QED BY <1>5, <1>13, <2>1, GarbleFollows
<1>14. ASSUME NEW i \in 1 .. Len(line), LoseDigit(i) PROVE LineInv'
  <2>1. sending' = sending /\ rough' = (rough \/ InLength)
    BY <1>14 DEF LoseDigit, Damage
  <2> QED BY <1>5, <1>14, <2>1, LossFollows
<1>15. CASE LoseRest
  <2>1. sending' = sending /\ (rough => rough')
    BY <1>15 DEF LoseRest, Damage
  <2> QED BY <1>5, <1>15, <2>1, RestFollows
<1>16. CASE LoseReply
  BY <1>8, <1>16 DEF LoseReply
<1>17. ASSUME NEW resp \in {ACK, NAK}, StrayAnswer(resp) PROVE LineInv'
  BY <1>3, <1>17 DEF StrayAnswer
<1>18. CASE UNCHANGED vars
  BY <1>8, <1>18 DEF vars, panel
<1> QED
  BY <1>6, <1>7, <1>9, <1>10, <1>11, <1>12, <1>13, <1>14, <1>15, <1>16, <1>17, <1>18 DEF Next

\* Whatever one digit after the length is read wrong or lost, wherever an awaited
\* answer comes in between, and however the transmission before was disturbed,
\* the data handed to concordd_handle_frame() are those of the frame the panel is
\* sending: for every base of the digits, and for frames of every content and
\* length.  The sum tells because its additions lose nothing: a byte that is
\* wrong makes a sum that is wrong, and right bytes after it do not mend it.
THEOREM FramesIntact == Spec => []DeliveredIntact
<1>1. Init => ReceiverInv /\ LineInv
  BY ReceiverInvInit DEF Init, LineInv
<1>2. ReceiverInv /\ LineInv /\ [Next]_vars => ReceiverInv' /\ LineInv'
  BY ReceiverInvStep, LineInvStep
<1>3. ReceiverInv /\ LineInv => DeliveredIntact
  <2> SUFFICES ASSUME ReceiverInv, LineInv, delivered # <<>>, ~ rough, sending # <<>>
               PROVE  sending = delivered
    BY DEF DeliveredIntact
  <2>1. Over(sending)
    BY DEF LineInv, Follows, Begins, Good, Bad, Short
  <2> QED BY <2>1 DEF Over
<1> QED BY <1>1, <1>2, <1>3, PTL DEF Spec

=============================================================================
