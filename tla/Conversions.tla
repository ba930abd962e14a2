---------------------------- MODULE Conversions ----------------------------
(***************************************************************************)
(* The computations of the libraries that are functions of their           *)
(* arguments, each beside what it is for: the bit fields of a packet       *)
(* (libraries/src/packet), the rate generators of the UART and of the SPI  *)
(* master, the half period of I2C and the angles of trig_utils, in whole   *)
(* degrees; the control lines of the serial bridges and the CRC of 1-Wire. *)
(* A shift is a division or a product, a mask a remainder.                 *)
(***************************************************************************)
EXTENDS Descriptors, FiniteSetsExt, Bitwise, TLC

CONSTANTS Roms, Packets, Rates, Frequencies, Angles

VARIABLES question

QTupleSize == 5

-----------------------------------------------------------------------------
\* packet.c.  The bytes of a packet are numbered from 0.

checkHeader(header) == header \div 4 = 63

\* Mutant: the byte is not masked where a field begins in it.
OneByteUnmasked(bytes, relPos, at, length) ==
  IF 8 - relPos >= length
  THEN bytes[at] \div 2^(8 - (relPos + length))
  ELSE (bytes[at] % 2^(8 - relPos)) * 2^(length - (8 - relPos))
         + bytes[at + 1] \div 2^(16 - length - relPos)

OneByte(bytes, relPos, at, length) ==
  IF 8 - relPos >= length
  THEN (bytes[at] \div 2^(8 - (relPos + length))) % 2^length
  ELSE (bytes[at] % 2^(8 - relPos)) * 2^(length - (8 - relPos))
         + bytes[at + 1] \div 2^(16 - length - relPos)

read1byte(bytes, pos, length) ==
  IF length > 8 \/ pos + length > QTupleSize * 8 THEN 0
  ELSE OneByte(bytes, pos % 8, pos \div 8, length)

TwoBytes(bytes, relPos, at, length) ==
  (bytes[at] % 2^(8 - relPos)) * 2^(length - 8 + relPos)
    + bytes[at + 1] \div 2^(16 - length - relPos)

ThreeBytes(bytes, relPos, at, length) ==
  (bytes[at] % 2^(8 - relPos)) * 2^(length - 8 + relPos)
    + bytes[at + 1] * 2^(length - 16 + relPos)
    + bytes[at + 2] \div 2^(8 - ((8 * at + relPos + length) % 8))

read2byte(bytes, pos, length) ==
  IF length > 16 \/ length <= 8 \/ pos + length > QTupleSize * 8 THEN 0
  ELSE IF length + (pos % 8) <= 16
       THEN TwoBytes(bytes, pos % 8, pos \div 8, length)
       ELSE ThreeBytes(bytes, pos % 8, pos \div 8, length)

readID(bytes) == read1byte(bytes, 6, 5)
readY(bytes) == read2byte(bytes, 11, 10)
readX(bytes) == read2byte(bytes, 21, 10)
readR(bytes) == read2byte(bytes, 31, 9)

-----------------------------------------------------------------------------
\* uart.c and spi_master.c.  The exponent and mantissa halve until they fit.

Halvings(n, limit) == Min({k \in 0..20 : n \div 2^k <= limit})

\* freq * 8663 / 46875 of 32 bits, of a freq that does not make it overflow.
BaudMPlus256(freq) ==
  freq * 11 + (freq \div 46875) * 8663 + ((freq % 46875) * 8663) \div 46875

RateSetting(freq) ==
  LET first == Halvings(freq, 495782)
      product == BaudMPlus256(freq \div 2^first)
      second == Halvings(product, 511)
  IN  [e |-> first + second, m |-> (product \div 2^second) % 256]

spiNMasterSetFrequency(freq, old) ==
  IF freq < 23 \/ freq > 3000000 THEN old ELSE RateSetting(freq)

uartNSetBaudRate(baud, old) ==
  IF baud < 23 \/ baud > 1500000 THEN old ELSE RateSetting(baud)

-----------------------------------------------------------------------------
\* i2c.c.  The frequency and the sum have 16 bits, the delay takes 8.

halfPeriodUs(freqKHz) ==
  LET freq == IF freqKHz < 2 THEN 2 ELSE freqKHz
  IN  ((500 + freq - 1) % 2^16) \div freq

-----------------------------------------------------------------------------
\* trig_utils.c, of whole degrees.

standardizeAngle(angle) ==
  IF angle < -180 THEN angle + 360 * ((-angle + 179) \div 360)
  ELSE IF angle > 180 THEN angle - 360 * ((angle + 179) \div 360)
  ELSE angle

computeTurn(robotAngle, pointAngle) == standardizeAngle(pointAngle - robotAngle)

turnDirection(currentAngle, targetAngle) ==
  IF computeTurn(currentAngle, targetAngle) <= 0 THEN 1 ELSE 0

-----------------------------------------------------------------------------
\* usb_hid.c: the table of the keys that type the characters of ASCII, in four
\* columns.  KEY_A is 4, KEY_1 is 30 and KEY_0 is 39 (usb_hid_constants.h).

Control(c) == CASE c = 8 -> 42 [] c = 9 -> 43 [] c \in {10, 13} -> 40 [] c = 27 -> 41 [] OTHER -> 0
Signs == <<44, 30, 52, 32, 33, 34, 36, 52, 38, 39, 37, 46, 54, 45, 55, 56>>
Digits == <<39, 30, 31, 32, 33, 34, 35, 36, 37, 38, 51, 51, 54, 46, 55, 56>>
Letter(c, others) == IF c % 32 \in 1..26 THEN 3 + (c % 32) ELSE others[c % 32]
Upper == 0 :> 31 @@ 27 :> 47 @@ 28 :> 49 @@ 29 :> 48 @@ 30 :> 35 @@ 31 :> 45
Lower == 0 :> 53 @@ 27 :> 47 @@ 28 :> 49 @@ 29 :> 48 @@ 30 :> 53 @@ 31 :> 76

usbHidKeyCodeFromAsciiChar(c) ==
  CASE c < 32 -> Control(c)
    [] c \in 32..47 -> Signs[c - 31]
    [] c \in 48..63 -> Digits[c - 47]
    [] c \in 64..95 -> Letter(c, Upper)
    [] c \in 96..127 -> Letter(c, Lower)
    [] OTHER -> 0

-----------------------------------------------------------------------------
\* wireless_serial_jws.c.  Bit 0 of the signals of a USB host is DTR and bit 1
\* RTS; of those to a host bit 0 is CD and bit 1 DSR.

SwapSignals(signals) == (signals % 2) * 2 + ((signals \div 2) % 2)
ToRadio(signals) == signals % 4

ioTxSignals(signals) ==
  [DTR |-> signals % 2, RTS |-> (signals \div 2) % 2,
   nDTR |-> 1 - (signals % 2), nRTS |-> 1 - ((signals \div 2) % 2)]

\* A pin that is not used is left out of the function.
ioRxSignals(high) ==
  LET Is(pin, level) == pin \in DOMAIN high /\ high[pin] = level
  IN  (IF Is("CD", 1) \/ Is("nCD", 0) THEN 2 ELSE 0) + (IF Is("DSR", 1) \/ Is("nDSR", 0) THEN 1 ELSE 0)

-----------------------------------------------------------------------------
\* onewire.c: the CRC of a ROM, by a table or bit by bit.

dscrc_table == <<
    0, 94, 188, 226, 97, 63, 221, 131, 194, 156, 126, 32, 163, 253, 31, 65,
    157, 195, 33, 127, 252, 162, 64, 30, 95, 1, 227, 189, 62, 96, 130, 220,
    35, 125, 159, 193, 66, 28, 254, 160, 225, 191, 93, 3, 128, 222, 60, 98,
    190, 224, 2, 92, 223, 129, 99, 61, 124, 34, 192, 158, 29, 67, 161, 255,
    70, 24, 250, 164, 39, 121, 155, 197, 132, 218, 56, 102, 229, 187, 89, 7,
    219, 133, 103, 57, 186, 228, 6, 88, 25, 71, 165, 251, 120, 38, 196, 154,
    101, 59, 217, 135, 4, 90, 184, 230, 167, 249, 27, 69, 198, 152, 122, 36,
    248, 166, 68, 26, 153, 199, 37, 123, 58, 100, 134, 216, 91, 5, 231, 185,
    140, 210, 48, 110, 237, 179, 81, 15, 78, 16, 242, 172, 47, 113, 147, 205,
    17, 79, 173, 243, 112, 46, 204, 146, 211, 141, 111, 49, 178, 236, 14, 80,
    175, 241, 19, 77, 206, 144, 114, 44, 109, 51, 209, 143, 12, 82, 176, 238,
    50, 108, 142, 208, 83, 13, 239, 177, 240, 174, 76, 18, 145, 207, 45, 115,
    202, 148, 118, 40, 171, 245, 23, 73, 8, 86, 180, 234, 105, 55, 213, 139,
    87, 9, 235, 181, 54, 104, 138, 212, 149, 203, 41, 119, 244, 170, 72, 22,
    233, 183, 85, 11, 136, 214, 52, 106, 43, 117, 151, 201, 74, 20, 246, 168,
    116, 42, 200, 150, 21, 75, 169, 247, 182, 232, 10, 84, 215, 137, 107, 53>>

onewire_crc8_table(bytes) == FoldLeft(LAMBDA crc, byte : dscrc_table[(crc ^^ byte) + 1], 0, bytes)

\* The byte moves along with the crc: a bit of the one meets one of the other.
OneBit(s, i) ==
  [crc |-> IF (s.crc + s.byte) % 2 = 1 THEN (s.crc \div 2) ^^ 140 ELSE s.crc \div 2, byte |-> s.byte \div 2]
onewire_crc8(bytes) ==
  FoldLeft(LAMBDA crc, byte : FoldLeft(OneBit, [crc |-> crc, byte |-> byte], [i \in 1..8 |-> i]).crc, 0, bytes)

-----------------------------------------------------------------------------
Questions ==
  [kind : {"field"}, packet : Packets, pos : 0..42, length : 1..17]
    \cup [kind : {"rate"}, freq : Rates]
    \cup [kind : {"i2c"}, freq : Frequencies]
    \cup [kind : {"turn"}, from : Angles, to : Angles]
    \cup [kind : {"key"}, c : 0..255]
    \cup [kind : {"crc"}, byte : 0..255]
    \cup [kind : {"rom"}, rom : Roms, bit : 0..63]
    \cup [kind : {"signals"}, signals : 0..255]
    \cup [kind : {"descriptors"}]

NoQuestion == [kind |-> "none"]
Init == question = NoQuestion
Ask == question = NoQuestion /\ question' \in Questions
Next == Ask
Spec == Init /\ [][Next]_question

\* The n bits from pos on, the first the highest, of the packet as one string.
BitOf(bytes, pos) == (bytes[pos \div 8] \div 2^(7 - (pos % 8))) % 2
FieldOf(bytes, pos, n) ==
  FoldLeft(LAMBDA value, i : 2 * value + BitOf(bytes, pos + i - 1), 0, [i \in 1..n |-> i])
InPacket(pos, n) == pos + n <= QTupleSize * 8

\* A field of up to 16 bits is read whole wherever it lies in the packet, over
\* one byte, two or three, and is 0 when it does not fit (packet.c).
FieldsAreExact ==
  question.kind = "field" =>
    LET q == question
        whole == IF InPacket(q.pos, q.length) THEN FieldOf(q.packet, q.pos, q.length) ELSE 0
    IN  /\ q.length <= 8 => read1byte(q.packet, q.pos, q.length) = whole
        /\ q.length \in 9..16 => read2byte(q.packet, q.pos, q.length) = whole
        /\ q.length > 8 => read1byte(q.packet, q.pos, q.length) = 0
        /\ q.length \notin 9..16 => read2byte(q.packet, q.pos, q.length) = 0
        /\ <<readID(q.packet), readY(q.packet), readX(q.packet), readR(q.packet)>> =
             <<FieldOf(q.packet, 6, 5), FieldOf(q.packet, 11, 10), FieldOf(q.packet, 21, 10),
               FieldOf(q.packet, 31, 9)>>
        /\ checkHeader(q.packet[0]) <=> FieldOf(q.packet, 0, 6) = 63

\* The rate that is set is the highest that is not above the one asked for,
\* or the next below it where a halving lost a remainder; a rate out of range
\* leaves the setting alone.  The divider wants a mantissa from 256 to 511.
Steps(s) == (256 + s.m) * 2^s.e
RateIsClose ==
  question.kind = "rate" =>
    LET f == question.freq
        old == [e |-> 0, m |-> 0]
        spi == spiNMasterSetFrequency(f, old)
        exact == f * 11 + (f \div 46875) * 8663 + ((f % 46875) * 8663) \div 46875
    IN  /\ f \in 23..3000000 => /\ Steps(spi) <= exact
                                /\ exact < Steps(spi) + 2 * 2^spi.e
        /\ f \notin 23..3000000 => spi = old
        /\ f <= 1500000 => uartNSetBaudRate(f, old) = spi
        /\ f > 1500000 => uartNSetBaudRate(f, old) = old

\* "round up so we don't use a higher frequency than what was chosen"
\* (i2c.c, i2cSetFrequency): the half period is the shortest whole one that
\* is not too short, and fits in the byte of the delay.  So it is as far as
\* the sum fits in 16 bits; where it does not, there is no delay at all.
SumFits == 2^16 - 500
NotFasterThanChosen ==
  question.kind = "i2c" =>
    LET f == question.freq
        h == halfPeriodUs(f)
    IN  /\ f <= SumFits => h \in 1..250
        /\ f \in 2..SumFits => h * f >= 500 /\ (h - 1) * f < 500
        /\ f > SumFits => h = 0

\* "limits the range of possible frequencies to 2-500 kHz" (i2c.h): half
\* periods of 250 to 1 microseconds.  Refuted by the frequencies above SumFits.
HalfPeriodIsInRange ==
  question.kind = "i2c" => halfPeriodUs(question.freq) \in 1..250

\* A turn is the same as the difference of the angles, never the longer way
\* round (trig_utils.c, computeTurn).  That takes angles from -180 to 180,
\* which is what standardizeAngle computes whatever the comment over it says.
TurnIsShort ==
  question.kind = "turn" =>
    LET turn == computeTurn(question.from, question.to)
    IN  /\ turn \in -180..180
        /\ (question.to - question.from - turn) % 360 = 0
        /\ turnDirection(question.from, question.to) = 0 <=> turn > 0

\* "Standardize a given angle to between 0 and 360" (trig_utils.c).  Refuted
\* by every angle to the right.
AngleIsBetween0And360 ==
  question.kind = "turn" => standardizeAngle(question.to) \in 0..360

\* A key types the characters of an American keyboard: those of a key and of
\* the key with Shift have its code, and no two keys share one (usb_hid.c).
Plain == <<96, 45, 61, 91, 93, 92, 59, 39, 44, 46, 47, 49, 50, 51, 52, 53, 54, 55, 56, 57, 48>>
Shifted == <<126, 95, 43, 123, 125, 124, 58, 34, 60, 62, 63, 33, 64, 35, 36, 37, 94, 38, 42, 40, 41>>
KeyChars == (97..122) \cup {Plain[i] : i \in DOMAIN Plain} \cup {8, 9, 10, 27, 32, 127}
KeysAreTheKeyboards ==
  question.kind = "key" =>
    LET code == usbHidKeyCodeFromAsciiChar(question.c)
    IN  /\ question.c \in KeyChars =>
             code # 0 /\ \A c \in KeyChars \ {question.c} : usbHidKeyCodeFromAsciiChar(c) # code
        /\ \A i \in DOMAIN Shifted : question.c = Shifted[i] => code = usbHidKeyCodeFromAsciiChar(Plain[i])
        /\ question.c \in 65..90 => code = usbHidKeyCodeFromAsciiChar(question.c + 32)
        /\ question.c > 127 => code = 0

\* The table and the bits make the same CRC, the CRC of a ROM with its CRC is
\* 0, and one wrong bit in a ROM never goes unnoticed (onewire.c,
\* onewire_crc8; example_onewire.c checks a ROM so).
Flipped(bytes, bit) == [i \in DOMAIN bytes |->
  IF i = bit \div 8 + 1 THEN bytes[i] ^^ (2^(bit % 8)) ELSE bytes[i]]
CrcIsTheTables ==
  /\ question.kind = "crc" =>
       onewire_crc8(<<question.byte>>) = onewire_crc8_table(<<question.byte>>)
  /\ question.kind = "rom" =>
       LET rom == Append(question.rom, onewire_crc8_table(question.rom))
       IN  onewire_crc8(rom) = 0 /\ onewire_crc8(Flipped(rom, question.bit)) # 0

\* A host's DTR is the DSR of the other end, and its RTS the other's CD,
\* between two hosts over the radio and between a host and the pins, of either
\* polarity (usbToRadioService, ioTxSignals, ioRxSignals).
SignalsPairUp ==
  question.kind = "signals" =>
    LET s == question.signals
        dtr == s % 2
        rts == (s \div 2) % 2
        pins == ioTxSignals(s)
    IN  /\ SwapSignals(ToRadio(s)) = dtr * 2 + rts
        /\ ioRxSignals([DSR |-> pins.DTR, CD |-> pins.RTS]) = dtr + 2 * rts
        /\ ioRxSignals([nDSR |-> pins.nDTR, nCD |-> pins.nRTS]) = dtr + 2 * rts
        /\ SwapSignals(ioRxSignals([DSR |-> pins.DTR, nCD |-> pins.nRTS])) = SwapSignals(ToRadio(s))

\* All of them.
ConversionsAreExact ==
  /\ FieldsAreExact /\ RateIsClose /\ NotFasterThanChosen /\ TurnIsShort
  /\ KeysAreTheKeyboards /\ CrcIsTheTables /\ SignalsPairUp
  /\ question.kind = "descriptors" => DescriptorsAgree
=============================================================================
