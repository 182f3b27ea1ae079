----------------------------- MODULE GeReceiver -----------------------------
(***************************************************************************)
(* The receive side of the panel link: ge_rs232_receive_byte() of          *)
(* src/concordd/ge-rs232.c, which takes the bytes of the serial line one   *)
(* at a time and finds the frames in them.  A frame is a START byte and    *)
(* pairs of hex digits: the length, the data and the checksum, a sum of    *)
(* the length and the data; the length counts the checksum.  ACK and NAK   *)
(* bytes that answer the daemon's own messages come on the same line.      *)
(*                                                                         *)
(* The panel is the environment: it sends a frame, waits for the daemon's  *)
(* ACK or NAK, and sends the frame again after a NAK or after a silence.   *)
(***************************************************************************)
EXTENDS Integers, Sequences, SequencesExt

CONSTANTS
  Base,       \* 16: a byte is two digits below Base
  MaxSize,    \* GE_RS232_MAX_MESSAGE_SIZE, 56
  Frames,     \* the data of the frames the panel may send: non-empty sequences
  MaxFrames,  \* bound on the frames the panel sends
  MaxFaults   \* bound on what goes wrong on the line

Digit == 0 .. Base - 1
Value == 0 .. Base * Base - 1   \* uint8_t

START == Base                   \* GE_RS232_START_OF_MESSAGE, not a digit
ACK   == Base + 1
NAK   == Base + 2

NoNibble == -1                  \* nibble_buffer = 0
NoLength == Base * Base - 1     \* message_len = 255: not read yet

ASSUME ReceiverAssumption ==
  /\ Base \in Nat /\ Base > 1
  /\ MaxSize \in Nat /\ 2 <= MaxSize /\ MaxSize < NoLength
  /\ Frames \subseteq Seq(Value)
  /\ \A f \in Frames : 1 <= Len(f) /\ Len(f) < MaxSize
  /\ MaxFrames \in Nat /\ MaxFaults \in Nat

VARIABLES
  reading_message, current_byte, message_len, nibble_buffer, buffer_sum,
  buffer,          \* the fields of struct ge_rs232_s of the same names
  awaiting,        \* last_response = 0
  delivered,       \* the data given to received_message() in this transmission,
                   \* <<>> if none
  reply,           \* ACK or NAK written and not yet heard by the panel, or 0
  line,            \* bytes of the panel's transmission still to arrive
  sending,         \* data of the frame the panel is sending, <<>> if none
  damaged,         \* something went wrong in this transmission
  rough,           \* it hit START or the length, or a stray answer came
  frames, faults   \* frames started, faults so far

parser == <<reading_message, current_byte, message_len, nibble_buffer, buffer_sum, buffer>>
panel == <<line, sending, damaged, rough, frames, faults>>
vars == <<parser, awaiting, delivered, reply, panel>>

TypeOK ==
  /\ reading_message \in BOOLEAN
  /\ current_byte \in 0 .. MaxSize
  /\ message_len \in 2 .. MaxSize \union {NoLength, 0}
  /\ nibble_buffer \in Digit \union {NoNibble}
  /\ buffer_sum \in Value
  /\ buffer \in [0 .. MaxSize - 1 -> Value]
  /\ awaiting \in BOOLEAN
  /\ delivered \in Seq(Value)
  /\ reply \in {0, ACK, NAK}
  /\ line \in Seq(0 .. NAK)
  /\ sending \in Frames \union {<<>>}
  /\ damaged \in BOOLEAN /\ rough \in BOOLEAN
  /\ frames \in 0 .. MaxFrames
  /\ faults \in 0 .. MaxFaults

Init ==
  /\ reading_message = FALSE
  /\ current_byte = 0 /\ message_len = 0
  /\ nibble_buffer = NoNibble /\ buffer_sum = 0
  /\ buffer = [i \in 0 .. MaxSize - 1 |-> 0]
  /\ awaiting = FALSE
  /\ delivered = <<>>
  /\ reply = 0
  /\ line = <<>> /\ sending = <<>>
  /\ damaged = FALSE /\ rough = FALSE
  /\ frames = 0 /\ faults = 0

-----------------------------------------------------------------------------
(* ge_rs232_receive_byte().                                                *)

\* hex_digit_to_int(): a byte that is not a digit counts as 0.
HexDigitToInt(byte) == IF byte \in Digit THEN byte ELSE 0

\* Variants: data bytes are not summed; the sum is wider than a byte.
SumForgets(a, b) == IF a = 0 THEN b ELSE a

SumUnmasked(a, b) == a + b

\* The checksum is a uint8_t.
Sum(a, b) == (a + b) % (Base * Base)

\* Variant: half a byte survives the START byte.
StartOfMessageKeepsNibble ==
  /\ reading_message' = TRUE
  /\ current_byte' = 0
  /\ message_len' = NoLength
  /\ buffer_sum' = 0
  /\ UNCHANGED <<nibble_buffer, buffer, awaiting, delivered, reply>>

\* A START byte begins a frame whatever came before it.
StartOfMessage ==
  /\ reading_message' = TRUE
  /\ current_byte' = 0
  /\ message_len' = NoLength
  /\ nibble_buffer' = NoNibble
  /\ buffer_sum' = 0
  /\ UNCHANGED <<buffer, awaiting, delivered, reply>>

\* An answer to the daemon's own message is taken out of the line.
Response ==
  /\ awaiting' = FALSE
  /\ UNCHANGED <<parser, delivered, reply>>

FirstNibble(byte) ==
  /\ nibble_buffer' = HexDigitToInt(byte)
  /\ UNCHANGED <<reading_message, current_byte, message_len, buffer_sum, buffer,
                 awaiting, delivered, reply>>

\* Variant: the length is only checked against 255, the unread length.
LengthByteUnchecked(value) ==
  /\ message_len' = value
  /\ current_byte' = 0
  /\ buffer_sum' = Sum(buffer_sum, value)
  /\ UNCHANGED <<reading_message, buffer, awaiting, delivered, reply>>

\* The length: too big or too small ends the frame without an answer.
LengthByte(value) ==
  /\ IF value > MaxSize \/ value < 2
     THEN /\ reading_message' = FALSE
          /\ UNCHANGED <<current_byte, message_len, buffer_sum>>
     ELSE /\ message_len' = value
          /\ current_byte' = 0
          /\ buffer_sum' = Sum(buffer_sum, value)
          /\ UNCHANGED reading_message
  /\ UNCHANGED <<buffer, awaiting, delivered, reply>>

\* A byte of data, or the checksum, which ends the frame: the daemon answers
\* and hands the data, without the checksum, to concordd_handle_frame().
DataByte(value) ==
  LET stored == [buffer EXCEPT ![current_byte] = value]
  IN /\ buffer' = stored
     /\ current_byte' = current_byte + 1
     /\ IF current_byte + 1 >= message_len
        THEN /\ reading_message' = FALSE
             /\ IF buffer_sum = value
                THEN /\ reply' = ACK
                     /\ delivered' = [i \in 1 .. message_len - 1 |-> stored[i - 1]]
                ELSE reply' = NAK /\ UNCHANGED delivered
             /\ UNCHANGED buffer_sum
        ELSE /\ buffer_sum' = Sum(buffer_sum, value)
             /\ UNCHANGED <<reading_message, delivered, reply>>
     /\ UNCHANGED <<message_len, awaiting>>

SecondNibble(byte) ==
  LET value == nibble_buffer * Base + HexDigitToInt(byte)
  IN /\ nibble_buffer' = NoNibble
     /\ IF message_len = NoLength THEN LengthByte(value) ELSE DataByte(value)

ReceiveByte(byte) ==
  CASE byte = START -> StartOfMessage
    [] byte \in {ACK, NAK} /\ awaiting -> Response
    [] byte # START /\ ~ (byte \in {ACK, NAK} /\ awaiting) /\ reading_message ->
         IF nibble_buffer = NoNibble THEN FirstNibble(byte) ELSE SecondNibble(byte)
    [] OTHER -> UNCHANGED <<parser, awaiting, delivered, reply>>

-----------------------------------------------------------------------------
(* The panel and the line.                                                 *)

\* The checksum after the length and the first k bytes of data.
Checksums(f) ==
  LET sums[k \in 0 .. Len(f)] == IF k = 0 THEN Len(f) + 1 ELSE Sum(sums[k - 1], f[k])
  IN sums

\* The length, the data and the checksum.
Bytes(f) ==
  [i \in 1 .. Len(f) + 2 |->
     IF i = 1 THEN Len(f) + 1 ELSE IF i = Len(f) + 2 THEN Checksums(f)[Len(f)] ELSE f[i - 1]]

\* The way the panel writes a frame, and ge_rs232_send_message() does too: START,
\* and two digits for each byte.
Encode(f) ==
  [i \in 1 .. 2 * Len(f) + 5 |->
     IF i = 1 THEN START
     ELSE IF i % 2 = 0 THEN Bytes(f)[i \div 2] \div Base ELSE Bytes(f)[i \div 2] % Base]

PanelSends(f) ==
  /\ sending = <<>> /\ frames < MaxFrames
  /\ sending' = f /\ line' = Encode(f)
  /\ damaged' = FALSE /\ rough' = FALSE
  /\ frames' = frames + 1
  /\ delivered' = <<>> /\ reply' = 0
  /\ UNCHANGED <<parser, awaiting, faults>>

\* The next byte of the transmission arrives.
ByteArrives ==
  /\ line # <<>>
  /\ ReceiveByte(Head(line))
  /\ line' = Tail(line)
  /\ UNCHANGED <<sending, damaged, rough, frames, faults>>

\* The daemon sends a message of its own, and the panel answers it: the answer
\* may come between any two bytes of a frame.
DaemonSends ==
  /\ ~ awaiting
  /\ awaiting' = TRUE
  /\ UNCHANGED <<parser, delivered, reply, panel>>

AnswerArrives(resp) ==
  /\ awaiting
  /\ ReceiveByte(resp)
  /\ UNCHANGED panel

\* The panel is done with the frame, or sends it again.
PanelHearsAck ==
  /\ sending # <<>> /\ line = <<>> /\ reply = ACK
  /\ sending' = <<>> /\ reply' = 0
  /\ UNCHANGED <<parser, awaiting, delivered, line, damaged, rough, frames, faults>>

PanelResends ==
  /\ sending # <<>> /\ line = <<>> /\ reply # ACK
  /\ line' = Encode(sending)
  /\ damaged' = FALSE /\ rough' = FALSE
  /\ delivered' = <<>> /\ reply' = 0
  /\ UNCHANGED <<parser, awaiting, sending, frames, faults>>

\* The faults.  A digit is read wrong or lost, or all that is left of the
\* frame is lost, at most once per transmission.
InLength == Len(line) > Len(Encode(sending)) - 3

Damage(remains, roughly) ==
  /\ ~ damaged /\ faults < MaxFaults
  /\ line' = remains
  /\ damaged' = TRUE
  /\ rough' = (rough \/ roughly)
  /\ faults' = faults + 1
  /\ UNCHANGED <<parser, awaiting, delivered, reply, sending, frames>>

Garble(i, d) == line[i] # d /\ Damage([line EXCEPT ![i] = d], InLength)

LoseDigit(i) == Damage(RemoveAt(line, i), InLength)

LoseRest == line # <<>> /\ Damage(<<>>, FALSE)

\* The daemon's ACK or NAK is lost.
LoseReply ==
  /\ reply # 0 /\ faults < MaxFaults
  /\ reply' = 0
  /\ faults' = faults + 1
  /\ UNCHANGED <<parser, awaiting, delivered, line, sending, damaged, rough, frames>>

\* An answer nobody waits for, late or repeated: in a frame it is a digit.
StrayAnswer(resp) ==
  /\ ~ awaiting /\ faults < MaxFaults
  /\ ReceiveByte(resp)
  /\ rough' = TRUE
  /\ faults' = faults + 1
  /\ UNCHANGED <<line, sending, damaged, frames>>

Next ==
  \/ \E f \in Frames : PanelSends(f)
  \/ ByteArrives
  \/ DaemonSends
  \/ \E resp \in {ACK, NAK} : AnswerArrives(resp)
  \/ PanelHearsAck
  \/ PanelResends
  \/ \E i \in 1 .. Len(line), d \in Digit : Garble(i, d)
  \/ \E i \in 1 .. Len(line) : LoseDigit(i)
  \/ LoseRest
  \/ LoseReply
  \/ \E resp \in {ACK, NAK} : StrayAnswer(resp)

Spec == Init /\ [][Next]_vars

\* The main loop reads the line whenever it is readable; the panel keeps
\* sending its frame until it hears an ACK.
FairSpec ==
  /\ Spec
  /\ WF_vars(ByteArrives)
  /\ WF_vars(PanelHearsAck)
  /\ WF_vars(PanelResends)

-----------------------------------------------------------------------------
(* Properties.                                                             *)

\* The buffer index stays inside buffer[GE_RS232_MAX_MESSAGE_SIZE] while a
\* frame is read, for every length the line may claim and wherever a frame is
\* cut off by the next START byte: buffer[current_byte++] is always in bounds.
IndexInBounds ==
  reading_message =>
    \/ message_len = NoLength /\ current_byte = 0
    \/ current_byte < message_len /\ message_len <= MaxSize

\* Whatever single digit after the length is read wrong or lost, wherever an
\* awaited answer comes in between, and however the transmission before it was
\* disturbed, the data handed to concordd_handle_frame() is the data of the
\* frame the panel is sending.
DeliveredIntact == delivered # <<>> /\ ~ rough => sending \in {delivered, <<>>}

\* However a transmission was cut or shifted, also by an answer in its midst
\* that nobody waits for, the START byte of the next one sets the parser
\* right: the panel hears ACK for every frame in the end.
LinkRecovers == sending # <<>> ~> sending = <<>>
=============================================================================
