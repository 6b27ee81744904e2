---------------------------- MODULE Eeprom_proofs ----------------------------
(***************************************************************************)
(* Proofs about Eeprom within Panels: after any reset that does not find   *)
(* the EEPROM holding SDA low, both ends of the bus agree, level by level, *)
(* on where they are, so that what is read is what the EEPROM holds.       *)
(***************************************************************************)
EXTENDS Panels, SequenceTheorems, TLAPS

-----------------------------------------------------------------------------
(* The invariant. *)

Chips == [mode: {"off", "device", "write", "send"}, n: 0..9, byte: 0..255, word: Nat,
          at: 0..(Size - 1), low: BOOLEAN]

\* The ninth bit lasts until SCL falls; an EEPROM at rest counts nothing.
Counts(c, scl) == (scl = 0 => c.n <= 8) /\ (c.mode = "off" => c.n = 0)

\* The bytes read so far; none if the EEPROM did not answer.
Collected == Len(d) = (IF item < 8 THEN 0 ELSE IF item < Size + 8 THEN item - 8 ELSE Len(d))

\* What the master drives is the script's last level.
Driven == IF level > 0 THEN line = Script[item].levels[level]
          ELSE IF item \in {1, 6} THEN line = <<1, 1>> ELSE line[2] = 0

EepromTyped == /\ EepromTypeOK /\ Counts(chip, line[2])
               /\ read = "no" => level <= Len(Script[item].levels) /\ Collected /\ Driven

\* The bits that l levels of a byte clock, and the number that the first n bits of x make.
Clocks(l)    == (l + 1) \div 3
First(x, n)  == IF n = 0 THEN 0 ELSE IF n > 8 THEN x ELSE x \div Weight[n]

Started(c) == c.mode = "device" /\ c.n = 0 /\ c.byte = 0 /\ c.word = 0 /\ ~c.low

\* The EEPROM in the middle of a byte that it is sent; it acknowledges the byte.
Taking(c, mode, l) == c.mode = mode /\ c.n = Clocks(l) /\ c.low = (l >= 24)

\* The last n bits of x are zeros: they have moved in.
Cleared(x, n) == n > 0 => x % (256 \div Weight[n]) = 0

\* The EEPROM, l levels into the item i: sent its address, two zeros and a stop, then its
\* address again, it sends its bytes in order.
Expected(c, i, l) ==
    /\ i \in {1, 6} /\ l <= 1 => ~c.low
    /\ i \in {1, 6} /\ l = 2 => Started(c)
    /\ i = 2 => Taking(c, "device", l) /\ c.byte = First(160, Clocks(l)) /\ c.word = 0
    /\ i = 3 => Taking(c, "write", l) /\ c.word = (IF l < 24 THEN 0 ELSE 1)
    /\ i = 4 => /\ Taking(c, "write", l)
                /\ l < 24 => c.word = 1 /\ Cleared(c.byte, Clocks(l))
    /\ i = 5 => c.mode = "write" /\ c.n = (IF l < 2 THEN 0 ELSE 1) /\ ~c.low
    /\ i = 6 /\ l <= 1 => c.mode = "off"
    /\ i = 7 => Taking(c, "device", l) /\ c.byte = First(161, Clocks(l))
    /\ (i = 4 /\ l >= 24) \/ i \in {5, 6, 7} => c.at = 0
    /\ i \in 8..(Size + 7) =>
          /\ i < Size + 7 \/ l < 26 => c.mode = "send" /\ c.n = Clocks(l)
          /\ i < Size + 7 \/ l < 26 => c.at = i - 8
          /\ i = Size + 7 /\ l = 26 => c.mode = "off"
          /\ c.low = (l < 24 /\ Bit(memory[i - 8], l \div 3 + 1) = 0)

\* The master is reading, and no reset made the bus unreadable.
Reading == read = "no" /\ present /\ ~caught

InStep == Reading => IF level = Len(Script[item].levels) THEN Expected(chip, item + 1, 0)
                     ELSE Expected(chip, item, level)

\* What the master has read, of a byte and before.
Gathered == Reading =>
    /\ item \in {2, 7} /\ level >= 26 => ack
    /\ item \in 8..(Size + 7) => b = First(memory[item - 8], Clocks(level))
    /\ item >= 8 => d = [k \in 1..(item - 8) |-> memory[k - 1]]

\* Without an EEPROM nobody answers.
Unanswered == ~present =>
    /\ chip = Off
    /\ read = "no" => item \in {1, 2, Size + 8} /\ d = <<>> /\ (item = 2 /\ level >= 26 => ~ack)

EepromInv == EepromTyped /\ InStep /\ Gathered /\ Unanswered /\ RightPanel

-----------------------------------------------------------------------------
(* Bits and bytes. *)

\* inky_eeprom.c:78-83: a bit is 0 or 1 ...
LEMMA BitIs == ASSUME NEW x \in 0..255, NEW k \in 1..8 PROVE Bit(x, k) \in {0, 1}
<1>1. Weight[k] \in 1..128
  <2>1. k = 1 \/ k = 2 \/ k = 3 \/ k = 4 \/ k = 5 \/ k = 6 \/ k = 7 \/ k = 8
    OBVIOUS
  <2> QED
    BY <2>1 DEF Weight
<1> DEFINE w == Weight[k]
<1> HIDE DEF w
<1>2. x \div w \in Nat
  BY <1>1 DEF w
<1> DEFINE y == x \div w
<1> HIDE DEF y
<1>3. y % 2 \in {0, 1}
  BY <1>2 DEF y
<1> QED
  BY <1>3 DEF Bit, w, y

\* ... and a byte is its eight bits, the first first.
LEMMA FirstIs ==
    ASSUME NEW x \in 0..255
    PROVE  /\ First(x, 0) = 0 /\ First(x, 8) = x /\ First(x, 9) = x
           /\ \A n \in 0..9 : First(x, n) \in 0..255
           /\ \A n \in 0..7 : First(x, n + 1) = (2 * First(x, n) + Bit(x, n + 1)) % 256
<1> USE DEF First, Bit, Weight
<1>1. First(x, 0) = 0 /\ First(x, 9) = x /\ First(x, 8) = x
  OBVIOUS
<1>2. /\ First(x, 1) = x \div 128 /\ First(x, 2) = x \div 64 /\ First(x, 3) = x \div 32
      /\ First(x, 4) = x \div 16 /\ First(x, 5) = x \div 8 /\ First(x, 6) = x \div 4
      /\ First(x, 7) = x \div 2
  OBVIOUS
<1>3. /\ Bit(x, 1) = (x \div 128) % 2 /\ Bit(x, 2) = (x \div 64) % 2
      /\ Bit(x, 3) = (x \div 32) % 2 /\ Bit(x, 4) = (x \div 16) % 2
      /\ Bit(x, 5) = (x \div 8) % 2 /\ Bit(x, 6) = (x \div 4) % 2
      /\ Bit(x, 7) = (x \div 2) % 2 /\ Bit(x, 8) = x % 2
  OBVIOUS
<1> HIDE DEF First, Bit, Weight
<1>4. ASSUME NEW n \in 0..9 PROVE First(x, n) \in 0..255
  <2>1. \/ n = 0 \/ n = 1 \/ n = 2 \/ n = 3 \/ n = 4 \/ n = 5 \/ n = 6 \/ n = 7 \/ n = 8
        \/ n = 9
    OBVIOUS
  <2> QED
    BY <1>1, <1>2, <2>1
<1>5. ASSUME NEW y \in 0..255, NEW h, NEW m, h = y \div 2, m = y % 2
      PROVE  (2 * h + m) % 256 = y
  <2>1. 2 * h + m = y
    BY <1>5
  <2> QED
    BY <2>1
<1>6. /\ x \div 128 = (x \div 64) \div 2 /\ x \div 64 = (x \div 32) \div 2
      /\ x \div 32 = (x \div 16) \div 2 /\ x \div 16 = (x \div 8) \div 2
      /\ x \div 8 = (x \div 4) \div 2 /\ x \div 4 = (x \div 2) \div 2
  OBVIOUS
<1>7. /\ x \div 64 \in 0..255 /\ x \div 32 \in 0..255 /\ x \div 16 \in 0..255
      /\ x \div 8 \in 0..255 /\ x \div 4 \in 0..255 /\ x \div 2 \in 0..255
  OBVIOUS
<1>8. ASSUME NEW n \in 0..7
      PROVE  First(x, n) = First(x, n + 1) \div 2 /\ Bit(x, n + 1) = First(x, n + 1) % 2
  <2>1. CASE n = 0
    BY <1>1, <1>2, <1>3, <1>6, <2>1
  <2>2. CASE n = 1
    BY <1>1, <1>2, <1>3, <1>6, <2>2
  <2>3. CASE n = 2
    BY <1>1, <1>2, <1>3, <1>6, <2>3
  <2>4. CASE n = 3
    BY <1>1, <1>2, <1>3, <1>6, <2>4
  <2>5. CASE n = 4
    BY <1>1, <1>2, <1>3, <1>6, <2>5
  <2>6. CASE n = 5
    BY <1>1, <1>2, <1>3, <1>6, <2>6
  <2>7. CASE n = 6
    BY <1>1, <1>2, <1>3, <1>6, <2>7
  <2>8. CASE n = 7
    BY <1>1, <1>2, <1>3, <1>6, <2>8
  <2> QED
    BY <2>1, <2>2, <2>3, <2>4, <2>5, <2>6, <2>7, <2>8
<1>9. ASSUME NEW n \in 0..7 PROVE First(x, n + 1) = (2 * First(x, n) + Bit(x, n + 1)) % 256
  <2>1. First(x, n + 1) \in 0..255
    <3>1. n + 1 \in 0..9
      OBVIOUS
    <3> QED
      BY <1>4, <3>1
  <2> QED
    BY <1>5, <1>8, <2>1
<1> QED
  BY <1>1, <1>4, <1>9

\* inky_eeprom.c:78-83: every zero that is sent moves in from the right; after eight of them the
\* byte is 0.
LEMMA ClearedStep ==
    ASSUME NEW x \in 0..255
    PROVE  /\ Cleared(x, 0)
           /\ Cleared(x, 8) => x = 0
           /\ \A n \in 0..7 : Cleared(x, n) => Cleared((2 * x + 0) % 256, n + 1)
<1> DEFINE y == (2 * x + 0) % 256
<1>1. /\ Cleared(x, 0) = TRUE
      /\ Cleared(x, 1) = (x % 2 = 0)
      /\ Cleared(x, 2) = (x % 4 = 0)
      /\ Cleared(x, 3) = (x % 8 = 0)
      /\ Cleared(x, 4) = (x % 16 = 0)
      /\ Cleared(x, 5) = (x % 32 = 0)
      /\ Cleared(x, 6) = (x % 64 = 0)
      /\ Cleared(x, 7) = (x % 128 = 0)
      /\ Cleared(x, 8) = (x % 256 = 0)
  BY DEF Cleared, Weight
<1>2. /\ Cleared(y, 1) = (y % 2 = 0)
      /\ Cleared(y, 2) = (y % 4 = 0)
      /\ Cleared(y, 3) = (y % 8 = 0)
      /\ Cleared(y, 4) = (y % 16 = 0)
      /\ Cleared(y, 5) = (y % 32 = 0)
      /\ Cleared(y, 6) = (y % 64 = 0)
      /\ Cleared(y, 7) = (y % 128 = 0)
      /\ Cleared(y, 8) = (y % 256 = 0)
  <2> HIDE DEF y
  <2> QED
    BY DEF Cleared, Weight
<1>3. y = IF x < 128 THEN 2 * x ELSE 2 * x - 256
  OBVIOUS
<1>5. y % 2 = 0
  <2>1. \A z \in Nat : (2 * z) % 2 = 0
    OBVIOUS
  <2>2. \/ y = 2 * x /\ x \in Nat
        \/ y = 2 * (x - 128) /\ x - 128 \in Nat
    BY <1>3
  <2> HIDE DEF y
  <2> QED
    BY <2>1, <2>2
<1>6. x % 256 = x
  OBVIOUS
<1> HIDE DEF y
<1>4. ASSUME NEW n \in 0..7, Cleared(x, n) PROVE Cleared(y, n + 1)
  <2>1. CASE n = 0
    <3>1. Cleared(y, 1)
      BY <1>2, <1>5
    <3> QED
      BY <2>1, <3>1
  <2>2. CASE n = 1
    BY <1>1, <1>2, <1>3, <1>4, <2>2
  <2>3. CASE n = 2
    BY <1>1, <1>2, <1>3, <1>4, <2>3
  <2>4. CASE n = 3
    BY <1>1, <1>2, <1>3, <1>4, <2>4
  <2>5. CASE n = 4
    BY <1>1, <1>2, <1>3, <1>4, <2>5
  <2>6. CASE n = 5
    BY <1>1, <1>2, <1>3, <1>4, <2>6
  <2>7. CASE n = 6
    BY <1>1, <1>2, <1>3, <1>4, <2>7
  <2>8. CASE n = 7
    BY <1>1, <1>2, <1>3, <1>4, <2>8
  <2> QED
    BY <2>1, <2>2, <2>3, <2>4, <2>5, <2>6, <2>7, <2>8
<1> QED
  BY <1>1, <1>4, <1>6 DEF y

-----------------------------------------------------------------------------
(* The script. *)

\* A byte as the master clocks it, level by level.
LEMMA ClockedIs ==
    ASSUME NEW bits
    PROVE  /\ Len(Clocked(bits)) = 27
           /\ \A q \in 0..8 :
                 /\ Clocked(bits)[3 * q + 1] = << bits[q + 1], 0 >>
                 /\ Clocked(bits)[3 * q + 2] = << bits[q + 1], 1 >>
                 /\ Clocked(bits)[3 * q + 3] = << bits[q + 1], 0 >>
<1> DEFINE e(k) == << bits[(k + 2) \div 3], IF k % 3 = 2 THEN 1 ELSE 0 >>
           s    == Clocked(bits)
<1>1. s = [k \in 1..27 |-> e(k)]
  BY DEF Clocked
<1>2. Len(s) = 27
  <2> HIDE DEF e
  <2> QED
    BY <1>1
<1>3. ASSUME NEW q \in 0..8
      PROVE  /\ s[3 * q + 1] = << bits[q + 1], 0 >>
             /\ s[3 * q + 2] = << bits[q + 1], 1 >>
             /\ s[3 * q + 3] = << bits[q + 1], 0 >>
  <2>1. /\ 3 * q + 1 \in 1..27 /\ (3 * q + 1 + 2) \div 3 = q + 1 /\ (3 * q + 1) % 3 # 2
        /\ 3 * q + 2 \in 1..27 /\ (3 * q + 2 + 2) \div 3 = q + 1 /\ (3 * q + 2) % 3 = 2
        /\ 3 * q + 3 \in 1..27 /\ (3 * q + 3 + 2) \div 3 = q + 1 /\ (3 * q + 3) % 3 # 2
    OBVIOUS
  <2>2. /\ e(3 * q + 1) = << bits[q + 1], 0 >>
        /\ e(3 * q + 2) = << bits[q + 1], 1 >>
        /\ e(3 * q + 3) = << bits[q + 1], 0 >>
    BY <2>1
  <2> HIDE DEF e
  <2> QED
    BY <1>1, <2>1, <2>2
<1> QED
  BY <1>2, <1>3

\* inky_eeprom.c:127-160, item by item.
LEMMA ScriptIs ==
    /\ Len(Script) = Size + 8
    /\ Script[1] = Start /\ Script[2] = Addressed(0) /\ Script[3] = WriteByte(0)
    /\ Script[4] = WriteByte(0) /\ Script[5] = Stop /\ Script[6] = Start
    /\ Script[7] = Addressed(1)
    /\ \A i \in 8..(Size + 7) : Script[i] = ReadByte(i - 7 < Size)
    /\ Script[Size + 8] = Stop
<1> DEFINE S == {Start, Addressed(0), WriteByte(0), Stop, Addressed(1),
                 ReadByte(TRUE), ReadByte(FALSE)}
           a == << Start, Addressed(0), WriteByte(0), WriteByte(0), Stop, Start, Addressed(1) >>
           z == << Stop >>
<1>1. /\ a \in Seq(S) /\ Len(a) = 7
      /\ a[1] = Start /\ a[2] = Addressed(0) /\ a[3] = WriteByte(0) /\ a[4] = WriteByte(0)
      /\ a[5] = Stop /\ a[6] = Start /\ a[7] = Addressed(1)
  <2>1. \A s1, s2, s3, s4, s5, s6, s7 : << s1, s2, s3, s4, s5, s6, s7 >>[1] = s1
                                     /\ << s1, s2, s3, s4, s5, s6, s7 >>[2] = s2
                                     /\ << s1, s2, s3, s4, s5, s6, s7 >>[3] = s3
                                     /\ << s1, s2, s3, s4, s5, s6, s7 >>[4] = s4
                                     /\ << s1, s2, s3, s4, s5, s6, s7 >>[5] = s5
                                     /\ << s1, s2, s3, s4, s5, s6, s7 >>[6] = s6
                                     /\ << s1, s2, s3, s4, s5, s6, s7 >>[7] = s7
    OBVIOUS
  <2> QED
    BY <2>1
<1>2. z \in Seq(S) /\ Len(z) = 1 /\ z[1] = Stop
  OBVIOUS
<1>3. /\ Bytes \in Seq(S) /\ Len(Bytes) = Size
      /\ \A k \in 1..Size : Bytes[k] = ReadByte(k < Size)
  <2>1. \A k \in 1..Size : ReadByte(k < Size) \in S
    <3>1. \A k \in 1..Size : (k < Size) = TRUE \/ (k < Size) = FALSE
      OBVIOUS
    <3> QED
      BY <3>1
  <2> HIDE DEF S
  <2>2. Bytes \in Seq(S)
    BY <2>1, EepromAssumption DEF Bytes
  <2>3. Len(Bytes) \in Nat /\ DOMAIN Bytes = 1..Len(Bytes) /\ DOMAIN Bytes = 1..Size
    BY <2>2, LenProperties DEF Bytes
  <2> QED
    BY <2>2, <2>3, EepromAssumption DEF Bytes
<1>4. Script = (a \o Bytes) \o z
  BY DEF Script
<1> HIDE DEF a, z, S
<1>5. /\ a \o Bytes \in Seq(S) /\ Len(a \o Bytes) = 7 + Size
      /\ \A i \in 1..(7 + Size) : (a \o Bytes)[i] = IF i <= 7 THEN a[i] ELSE Bytes[i - 7]
  <2>1. /\ Len(a \o Bytes) = Len(a) + Len(Bytes)
        /\ \A i \in 1..(Len(a) + Len(Bytes)) :
              (a \o Bytes)[i] = IF i <= Len(a) THEN a[i] ELSE Bytes[i - Len(a)]
    BY <1>1, <1>3, ConcatProperties
  <2>2. a \o Bytes \in Seq(S)
    BY <1>1, <1>3, ConcatProperties
  <2>3. Len(a) = 7 /\ Len(Bytes) = Size
    BY <1>1, <1>3
  <2> QED
    BY <2>1, <2>2, <2>3
<1>6. /\ Len(Script) = 7 + Size + 1
      /\ \A i \in 1..(7 + Size + 1) :
            Script[i] = IF i <= 7 + Size THEN (a \o Bytes)[i] ELSE z[i - (7 + Size)]
  <2> DEFINE u == a \o Bytes
  <2>1. u \in Seq(S) /\ Len(u) = 7 + Size /\ Script = u \o z
    BY <1>4, <1>5
  <2> HIDE DEF u
  <2>2. /\ Len(Script) = Len(u) + Len(z)
        /\ \A i \in 1..(Len(u) + Len(z)) :
              Script[i] = IF i <= Len(u) THEN u[i] ELSE z[i - Len(u)]
    BY <1>2, <2>1, ConcatProperties
  <2> QED
    BY <1>2, <2>1, <2>2 DEF u
<1>7. ASSUME NEW i \in 1..7 PROVE Script[i] = a[i]
  <2>1. i \in 1..(7 + Size) /\ i \in 1..(7 + Size + 1) /\ i <= 7 /\ i <= 7 + Size
    BY EepromAssumption
  <2> QED
    BY <1>5, <1>6, <2>1
<1>8. ASSUME NEW i \in 8..(Size + 7) PROVE Script[i] = ReadByte(i - 7 < Size)
  <2>1. i \in 1..(7 + Size) /\ ~(i <= 7) /\ i - 7 \in 1..Size
    BY EepromAssumption
  <2> QED
    BY <1>3, <1>5, <1>6, <2>1, EepromAssumption
<1>9. Script[Size + 8] = Stop
  <2>1. Size + 8 \in 1..(7 + Size + 1) /\ ~(Size + 8 <= 7 + Size) /\ Size + 8 - (7 + Size) = 1
    BY EepromAssumption
  <2> QED
    BY <1>2, <1>6, <2>1, EepromAssumption
<1> QED
  BY <1>1, <1>6, <1>7, <1>8, <1>9, EepromAssumption

\* The items that are bytes, and the bits that the master drives in them, with the ACK slot
\* as the ninth.
Clocking     == (2..(Size + 7)) \ {5, 6}
Drives(i, k) ==
    IF k = 9 THEN IF i \in 8..(Size + 6) THEN 0 ELSE 1
    ELSE IF i = 2 THEN Bit(160, k) ELSE IF i = 7 THEN Bit(161, k)
    ELSE IF i \in {3, 4} THEN Bit(0, k) ELSE 1

\* inky_eeprom.c:147-149: the last byte is not acknowledged.
LEMMA ReadItem ==
    ASSUME NEW i \in 8..(Size + 7)
    PROVE  Script[i] = IF i < Size + 7 THEN ReadByte(TRUE) ELSE ReadByte(FALSE)
<1>1. Script[i] = ReadByte(i - 7 < Size)
  BY ScriptIs
<1>2. CASE i < Size + 7
  <2>1. (i - 7 < Size) = TRUE
    BY <1>2, EepromAssumption
  <2> QED
    BY <1>1, <1>2, <2>1
<1>3. CASE ~(i < Size + 7)
  <2>1. (i - 7 < Size) = FALSE
    BY <1>3, EepromAssumption
  <2> QED
    BY <1>1, <1>3, <2>1
<1> QED
  BY <1>2, <1>3

\* inky_eeprom.c:71-108: what kind of item each is, and its levels.
LEMMA ItemIs ==
    ASSUME NEW i \in 1..(Size + 8)
    PROVE  /\ i \in {1, 6} => Script[i].op = "start" /\ Script[i].levels = StartLevels
           /\ i \in {5, Size + 8} => Script[i].op = "stop" /\ Script[i].levels = StopLevels
           /\ i \in Clocking =>
                 /\ Script[i].op = (IF i \in {2, 7} THEN "address"
                                    ELSE IF i \in {3, 4} THEN "write" ELSE "read")
                 /\ Len(Script[i].levels) = 27
                 /\ \A q \in 0..8 :
                       /\ Script[i].levels[3 * q + 1] = << Drives(i, q + 1), 0 >>
                       /\ Script[i].levels[3 * q + 2] = << Drives(i, q + 1), 1 >>
                       /\ Script[i].levels[3 * q + 3] = << Drives(i, q + 1), 0 >>
<1>1. CASE i \in {1, 6}
  <2>1. Script[i] = Start /\ i \notin {5, Size + 8} /\ i \notin Clocking
    BY <1>1, ScriptIs, EepromAssumption DEF Clocking
  <2> QED
    BY <1>1, <2>1 DEF Start
<1>2. CASE i \in {5, Size + 8}
  <2>1. Script[i] = Stop /\ i \notin {1, 6} /\ i \notin Clocking
    BY <1>2, ScriptIs, EepromAssumption DEF Clocking
  <2> QED
    BY <1>2, <2>1 DEF Stop
<1>3. CASE i \in Clocking
  <2> DEFINE bits == [k \in 1..9 |-> Drives(i, k)]
  <2>1. i \notin {1, 6} /\ i \notin {5, Size + 8} /\ i \in {2, 3, 4, 7} \cup (8..(Size + 7))
    BY <1>3, EepromAssumption DEF Clocking
  <2>2. Script[i].levels = Clocked(bits)
    <3>1. CASE i = 2
      <4>1. \A k \in 1..9 : Drives(i, k) = IF k < 9 THEN Bit(160, k) ELSE 1
        BY <3>1, EepromAssumption DEF Drives
      <4>2. bits = [k \in 1..9 |-> IF k < 9 THEN Bit(160, k) ELSE 1]
        BY <4>1
      <4> HIDE DEF bits
      <4> QED
        BY <3>1, <4>2, ScriptIs DEF Addressed, WriteByte
    <3>2. CASE i = 7
      <4>1. \A k \in 1..9 : Drives(i, k) = IF k < 9 THEN Bit(161, k) ELSE 1
        BY <3>2, EepromAssumption DEF Drives
      <4>2. bits = [k \in 1..9 |-> IF k < 9 THEN Bit(161, k) ELSE 1]
        BY <4>1
      <4> HIDE DEF bits
      <4> QED
        BY <3>2, <4>2, ScriptIs DEF Addressed, WriteByte
    <3>3. CASE i \in {3, 4}
      <4>1. \A k \in 1..9 : Drives(i, k) = IF k < 9 THEN Bit(0, k) ELSE 1
        BY <3>3, EepromAssumption DEF Drives
      <4>2. bits = [k \in 1..9 |-> IF k < 9 THEN Bit(0, k) ELSE 1]
        BY <4>1
      <4> HIDE DEF bits
      <4> QED
        BY <3>3, <4>2, ScriptIs DEF WriteByte
    <3>4. CASE i \in 8..(Size + 7)
      <4>1. CASE i < Size + 7
        <5>1. \A k \in 1..9 : Drives(i, k) = IF k < 9 \/ ~TRUE THEN 1 ELSE 0
          BY <3>4, <4>1, EepromAssumption DEF Drives
        <5>2. bits = [k \in 1..9 |-> IF k < 9 \/ ~TRUE THEN 1 ELSE 0]
          BY <5>1
        <5> HIDE DEF bits
        <5>3. ReadByte(TRUE).levels = Clocked([k \in 1..9 |-> IF k < 9 \/ ~TRUE THEN 1 ELSE 0])
          BY Zenon DEF ReadByte
        <5> QED
          BY <3>4, <4>1, <5>2, <5>3, ReadItem
      <4>2. CASE i = Size + 7
        <5>1. \A k \in 1..9 : Drives(i, k) = 1
          BY <3>4, <4>2, EepromAssumption DEF Drives
        <5>2. bits = [k \in 1..9 |-> IF k < 9 \/ ~FALSE THEN 1 ELSE 0]
          <6>1. bits = [k \in 1..9 |-> 1]
            BY <5>1
          <6>2. [k \in 1..9 |-> IF k < 9 \/ ~FALSE THEN 1 ELSE 0] = [k \in 1..9 |-> 1]
            OBVIOUS
          <6> HIDE DEF bits
          <6> QED
            BY <6>1, <6>2
        <5> HIDE DEF bits
        <5>3. ReadByte(FALSE).levels = Clocked([k \in 1..9 |-> IF k < 9 \/ ~FALSE THEN 1 ELSE 0])
          BY Zenon DEF ReadByte
        <5>4. Script[i] = ReadByte(FALSE)
          <6>1. ~(i < Size + 7)
            BY <4>2, EepromAssumption
          <6> QED
            BY <3>4, <6>1, ReadItem, Zenon
        <5> QED
          BY <5>2, <5>3, <5>4
      <4> QED
        BY <3>4, <4>1, <4>2, EepromAssumption
    <3> QED
      BY <2>1, <3>1, <3>2, <3>3, <3>4
  <2>3. Script[i].op = (IF i \in {2, 7} THEN "address"
                        ELSE IF i \in {3, 4} THEN "write" ELSE "read")
    <3>1. CASE i \in {2, 7}
      BY <3>1, ScriptIs DEF Addressed, WriteByte
    <3>2. CASE i \in {3, 4}
      BY <3>2, ScriptIs DEF WriteByte
    <3>3. CASE i \in 8..(Size + 7)
      <4>1. Script[i] = ReadByte(TRUE) \/ Script[i] = ReadByte(FALSE)
        BY <3>3, ReadItem, EepromAssumption
      <4> QED
        BY <2>1, <3>3, <4>1, EepromAssumption DEF ReadByte
    <3> QED
      BY <2>1, <3>1, <3>2, <3>3
  <2>4. \A q \in 0..8 : bits[q + 1] = Drives(i, q + 1)
    <3>1. \A q \in 0..8 : q + 1 \in 1..9
      OBVIOUS
    <3> QED
      BY <3>1
  <2> HIDE DEF bits
  <2> QED
    BY <2>1, <2>2, <2>3, <2>4, ClockedIs
<1> QED
  BY <1>1, <1>2, <1>3, EepromAssumption DEF Clocking

-----------------------------------------------------------------------------
(* The EEPROM. *)

Modes == {"off", "device", "write", "send"}

Is(g, m, n, y, w, a, l) ==
    /\ g \in Chips
    /\ g.mode = m /\ g.n = n /\ g.byte = y /\ g.word = w /\ g.at = a /\ g.low = l

\* The EEPROM's state, field by field ...
LEMMA ChipIs ==
    ASSUME NEW c \in Chips
    PROVE  /\ c.mode \in Modes /\ c.n \in 0..9 /\ c.byte \in 0..255 /\ c.word \in Nat
           /\ c.at \in 0..(Size - 1) /\ c.low \in BOOLEAN
BY DEF Chips, Modes

\* ... when what it sends or answers changes, ...
LEMMA ChipTurns ==
    ASSUME NEW c \in Chips, NEW m \in Modes, NEW n \in 0..9, NEW l \in BOOLEAN
    PROVE  Is([c EXCEPT !.mode = m, !.n = n, !.low = l], m, n, c.byte, c.word, c.at, l)
BY DEF Chips, Modes, Is

\* ... the next byte begins, ...
LEMMA ChipRestarts ==
    ASSUME NEW c \in Chips, NEW n \in 0..9, NEW l \in BOOLEAN
    PROVE  Is([c EXCEPT !.n = n, !.low = l], c.mode, n, c.byte, c.word, c.at, l)
BY DEF Chips, Modes, Is

\* ... it pulls SDA low or lets go of it, ...
LEMMA ChipPulls ==
    ASSUME NEW c \in Chips, NEW l \in BOOLEAN
    PROVE  Is([c EXCEPT !.low = l], c.mode, c.n, c.byte, c.word, c.at, l)
BY DEF Chips, Modes, Is

\* ... a byte was written, ...
LEMMA ChipTakes ==
    ASSUME NEW c \in Chips, NEW l \in BOOLEAN, NEW w \in Nat, NEW a \in 0..(Size - 1)
    PROVE  Is([c EXCEPT !.low = l, !.word = w, !.at = a], c.mode, c.n, c.byte, w, a, l)
BY DEF Chips, Modes, Is

\* ... a bit is shifted in, ...
LEMMA ChipShifts ==
    ASSUME NEW c \in Chips, NEW y \in 0..255, NEW n \in 0..9
    PROVE  Is([c EXCEPT !.byte = y, !.n = n], c.mode, n, y, c.word, c.at, c.low)
BY DEF Chips, Modes, Is

\* ... counted, ...
LEMMA ChipCounts ==
    ASSUME NEW c \in Chips, NEW n \in 0..9
    PROVE  Is([c EXCEPT !.n = n], c.mode, n, c.byte, c.word, c.at, c.low)
BY DEF Chips, Modes, Is

\* ... the address moves on, ...
LEMMA ChipMoves ==
    ASSUME NEW c \in Chips, NEW a \in 0..(Size - 1)
    PROVE  Is([c EXCEPT !.at = a], c.mode, c.n, c.byte, c.word, a, c.low)
BY DEF Chips, Modes, Is

\* ... or a start is seen.
LEMMA ChipStarts ==
    ASSUME NEW c \in Chips, NEW m \in Modes, NEW a \in 0..(Size - 1)
    PROVE  Is([c EXCEPT !.mode = m, !.at = a], m, c.n, c.byte, c.word, a, c.low)
BY DEF Chips, Modes, Is

\* Modulo the size of the memory an address is one.
LEMMA Wraps == ASSUME NEW x \in Nat PROVE x % Size \in 0..(Size - 1)
<1>1. Size \in Nat \ {0}
  BY EepromAssumption
<1> QED
  BY <1>1

\* An address is the same modulo the size of the memory.
LEMMA Small == ASSUME NEW x \in 0..(Size - 1) PROVE x % Size = x
<1>1. Size \in Nat \ {0} /\ x \in Nat /\ x < Size
  BY EepromAssumption
<1> QED
  BY <1>1

\* An EEPROM at rest, and one that has seen a start.
LEMMA AtRest ==
    ASSUME NEW a \in 0..(Size - 1)
    PROVE  /\ Is([Off EXCEPT !.at = a], "off", 0, 0, 0, a, FALSE)
           /\ Is([Off EXCEPT !.mode = "device", !.at = a], "device", 0, 0, 0, a, FALSE)
<1>1. /\ Off \in Chips /\ Off.mode = "off" /\ Off.n = 0 /\ Off.byte = 0 /\ Off.word = 0
      /\ Off.low = FALSE
  <2>1. 0 \in 0..(Size - 1)
    BY EepromAssumption
  <2> QED
    BY <2>1 DEF Off, Chips
<1>2. "device" \in Modes
  BY DEF Modes
<1> DEFINE o == Off
<1> HIDE DEF o
<1>3. /\ o \in Chips /\ o.mode = "off" /\ o.n = 0 /\ o.byte = 0 /\ o.word = 0
      /\ o.low = FALSE
  BY <1>1 DEF o
<1>4. /\ Is([o EXCEPT !.at = a], "off", 0, 0, 0, a, FALSE)
      /\ Is([o EXCEPT !.mode = "device", !.at = a], "device", 0, 0, 0, a, FALSE)
  BY <1>2, <1>3, ChipMoves, ChipStarts, Zenon
<1> QED
  BY <1>4 DEF o

\* SCL rises: a bit of a byte comes in, or the master takes one that goes out.
LEMMA RiseIs ==
    ASSUME NEW c \in Chips, NEW sda \in {0, 1}
    PROVE  /\ c.mode \in {"device", "write"} /\ c.n < 8 =>
                 Is(Rise(c, sda), c.mode, c.n + 1, (2 * c.byte + sda) % 256, c.word, c.at, c.low)
           /\ c.mode = "send" /\ c.n = 8 /\ sda = 1 =>
                 Is(Rise(c, sda), "off", 0, 0, 0, (c.at + 1) % Size, FALSE)
           /\ c.mode = "off" => Rise(c, sda) = c
           /\ /\ c.mode \in {"device", "write"} => c.n = 8
              /\ ~(c.mode = "send" /\ c.n = 8 /\ sda = 1)
              /\ c.mode # "off" /\ c.n <= 8
              => Is(Rise(c, sda), c.mode, c.n + 1, c.byte, c.word, c.at, c.low)
<1> USE ChipIs
<1>1. ASSUME c.mode \in {"device", "write"}, c.n < 8
      PROVE  Is(Rise(c, sda), c.mode, c.n + 1, (2 * c.byte + sda) % 256, c.word, c.at, c.low)
  <2> DEFINE y == (2 * c.byte + sda) % 256
             k == c.n + 1
  <2>1. y \in 0..255 /\ k \in 0..9
    BY <1>1
  <2>2. Rise(c, sda) = [c EXCEPT !.byte = y, !.n = k]
    BY <1>1 DEF Rise
  <2> DEFINE g == Rise(c, sda)
  <2> HIDE DEF y, k, g
  <2>3. g = [c EXCEPT !.byte = y, !.n = k]
    BY <2>2 DEF g
  <2>4. Is(g, c.mode, k, y, c.word, c.at, c.low)
    BY <2>1, <2>3, ChipShifts
  <2> QED
    BY <2>4 DEF y, k, g
<1>2. ASSUME c.mode = "send", c.n = 8, sda = 1
      PROVE  Is(Rise(c, sda), "off", 0, 0, 0, (c.at + 1) % Size, FALSE)
  <2> DEFINE a == (c.at + 1) % Size
  <2>1. a \in 0..(Size - 1)
    <3>1. c.at + 1 \in Nat
      OBVIOUS
    <3> QED
      BY <3>1, Wraps
  <2>2. Rise(c, sda) = [Off EXCEPT !.at = a]
    BY <1>2 DEF Rise
  <2> HIDE DEF a
  <2>3. Is(Rise(c, sda), "off", 0, 0, 0, a, FALSE)
    BY <2>1, <2>2, AtRest
  <2> QED
    BY <2>3 DEF a
<1>3. c.mode = "off" => Rise(c, sda) = c
  BY DEF Rise
<1>4. ASSUME c.mode \in {"device", "write"} => c.n = 8,
             ~(c.mode = "send" /\ c.n = 8 /\ sda = 1), c.mode # "off", c.n <= 8
      PROVE  Is(Rise(c, sda), c.mode, c.n + 1, c.byte, c.word, c.at, c.low)
  <2> DEFINE k == c.n + 1
  <2>1. k \in 0..9
    BY <1>4
  <2>2. Rise(c, sda) = [c EXCEPT !.n = k]
    BY <1>4 DEF Rise
  <2> HIDE DEF k
  <2>3. Is(Rise(c, sda), c.mode, k, c.byte, c.word, c.at, c.low)
    BY <2>1, <2>2, ChipCounts
  <2> QED
    BY <2>3 DEF k
<1> QED
  BY <1>1, <1>2, <1>3, <1>4

\* The EEPROM's turn: it puts the first bit of the byte at its address on SDA.
LEMMA SendingIs ==
    ASSUME NEW c \in Chips
    PROVE  Is(Sending(c), "send", 0, c.byte, c.word, c.at, Bit(memory[c.at], 1) = 0)
<1> DEFINE l == Bit(memory[c.at], 1) = 0
<1>1. l \in BOOLEAN /\ "send" \in Modes /\ 0 \in 0..9
  BY DEF Modes
<1>2. Sending(c) = [c EXCEPT !.mode = "send", !.n = 0, !.low = l]
  BY DEF Sending
<1> DEFINE g == Sending(c)
<1> HIDE DEF l, g
<1>3. g = [c EXCEPT !.mode = "send", !.n = 0, !.low = l]
  BY <1>2 DEF g
<1>4. Is(g, "send", 0, c.byte, c.word, c.at, l)
  BY <1>1, <1>3, ChipTurns, Zenon
<1> QED
  BY <1>4 DEF l, g

\* SCL falls: the EEPROM sets up the next bit, or answers, or takes its turn.
LEMMA FallIs ==
    ASSUME NEW c \in Chips
    PROVE  /\ c.mode = "device" /\ c.n = 8 /\ c.byte \in {160, 161} =>
                 Is(Fall(c), "device", 8, c.byte, c.word, c.at, TRUE)
           /\ c.mode = "device" /\ c.n = 8 /\ c.byte \notin {160, 161} =>
                 Is(Fall(c), "off", 0, 0, 0, c.at, FALSE)
           /\ c.mode = "device" /\ c.n = 9 /\ c.byte = 161 =>
                 Is(Fall(c), "send", 0, c.byte, c.word, c.at, Bit(memory[c.at], 1) = 0)
           /\ c.mode = "device" /\ c.n = 9 /\ c.byte # 161 =>
                 Is(Fall(c), "write", 0, c.byte, c.word, c.at, FALSE)
           /\ c.mode = "write" /\ c.n = 8 =>
                 Is(Fall(c), "write", 8, c.byte, c.word + 1,
                    IF c.word = 1 THEN c.byte % Size ELSE c.at, TRUE)
           /\ c.mode = "write" /\ c.n = 9 =>
                 Is(Fall(c), "write", 0, c.byte, c.word, c.at, FALSE)
           /\ c.mode = "send" /\ c.n < 8 =>
                 Is(Fall(c), "send", c.n, c.byte, c.word, c.at, Bit(memory[c.at], c.n + 1) = 0)
           /\ c.mode = "send" /\ c.n = 8 =>
                 Is(Fall(c), "send", 8, c.byte, c.word, c.at, FALSE)
           /\ c.mode = "send" /\ c.n = 9 =>
                 Is(Fall(c), "send", 0, c.byte, c.word, (c.at + 1) % Size,
                    Bit(memory[(c.at + 1) % Size], 1) = 0)
           /\ c.mode = "off" => Fall(c) = c
           /\ c.mode \in {"device", "write"} /\ c.n < 8 => Fall(c) = c
<1> USE ChipIs
<1>0. TRUE \in BOOLEAN /\ FALSE \in BOOLEAN /\ 0 \in 0..9 /\ "write" \in Modes
  BY DEF Modes
<1>1. ASSUME c.mode = "device", c.n = 8, c.byte \in {160, 161}
      PROVE  Is(Fall(c), "device", 8, c.byte, c.word, c.at, TRUE)
  <2>1. Fall(c) = [c EXCEPT !.low = TRUE]
    BY <1>1 DEF Fall
  <2>2. Is(Fall(c), c.mode, c.n, c.byte, c.word, c.at, TRUE)
    BY <1>0, <2>1, ChipPulls, Zenon
  <2> QED
    BY <1>1, <2>2, Zenon
<1>2. ASSUME c.mode = "device", c.n = 8, c.byte \notin {160, 161}
      PROVE  Is(Fall(c), "off", 0, 0, 0, c.at, FALSE)
  <2>1. Fall(c) = [Off EXCEPT !.at = c.at]
    BY <1>2 DEF Fall
  <2> QED
    BY <2>1, AtRest
<1>3. ASSUME c.mode = "device", c.n = 9, c.byte = 161
      PROVE  Is(Fall(c), "send", 0, c.byte, c.word, c.at, Bit(memory[c.at], 1) = 0)
  <2>1. Fall(c) = Sending(c)
    BY <1>3 DEF Fall
  <2> QED
    BY <2>1, SendingIs, Zenon
<1>4. ASSUME c.mode = "device", c.n = 9, c.byte # 161
      PROVE  Is(Fall(c), "write", 0, c.byte, c.word, c.at, FALSE)
  <2> DEFINE g == Fall(c)
  <2>1. g = [c EXCEPT !.mode = "write", !.n = 0, !.low = FALSE]
    BY <1>4 DEF Fall
  <2> HIDE DEF g
  <2>2. Is(g, "write", 0, c.byte, c.word, c.at, FALSE)
    BY <1>0, <2>1, ChipTurns, Zenon
  <2> QED
    BY <2>2 DEF g
<1>5. ASSUME c.mode = "write", c.n = 8
      PROVE  Is(Fall(c), "write", 8, c.byte, c.word + 1,
                IF c.word = 1 THEN c.byte % Size ELSE c.at, TRUE)
  <2> DEFINE a == IF c.word = 1 THEN c.byte % Size ELSE c.at
             w == c.word + 1
  <2>1. Fall(c) = [c EXCEPT !.low = TRUE, !.word = w, !.at = a]
    BY <1>5 DEF Fall
  <2>2. a \in 0..(Size - 1) /\ w \in Nat
    <3>1. c.byte \in Nat
      OBVIOUS
    <3> QED
      BY <3>1, Wraps
  <2> DEFINE g == Fall(c)
  <2> HIDE DEF a, w, g
  <2>3. g = [c EXCEPT !.low = TRUE, !.word = w, !.at = a]
    BY <2>1 DEF g
  <2>4. Is(g, c.mode, c.n, c.byte, w, a, TRUE)
    BY <1>0, <2>2, <2>3, ChipTakes, Zenon
  <2> QED
    BY <1>5, <2>4, Zenon DEF a, w, g
<1>6. ASSUME c.mode = "write", c.n = 9
      PROVE  Is(Fall(c), "write", 0, c.byte, c.word, c.at, FALSE)
  <2>1. Fall(c) = [c EXCEPT !.n = 0, !.low = FALSE]
    BY <1>6 DEF Fall
  <2>2. Is(Fall(c), c.mode, 0, c.byte, c.word, c.at, FALSE)
    BY <1>0, <2>1, ChipRestarts, Zenon
  <2> QED
    BY <1>6, <2>2, Zenon
<1>7. ASSUME c.mode = "send", c.n < 8
      PROVE  Is(Fall(c), "send", c.n, c.byte, c.word, c.at, Bit(memory[c.at], c.n + 1) = 0)
  <2> DEFINE l == Bit(memory[c.at], c.n + 1) = 0
  <2>1. Fall(c) = [c EXCEPT !.low = l]
    BY <1>7 DEF Fall
  <2>2. l \in BOOLEAN
    OBVIOUS
  <2> HIDE DEF l
  <2>3. Is(Fall(c), c.mode, c.n, c.byte, c.word, c.at, l)
    BY <2>1, <2>2, ChipPulls, Zenon
  <2> QED
    BY <1>7, <2>3, Zenon DEF l
<1>8. ASSUME c.mode = "send", c.n = 8
      PROVE  Is(Fall(c), "send", 8, c.byte, c.word, c.at, FALSE)
  <2>1. Fall(c) = [c EXCEPT !.low = FALSE]
    BY <1>8 DEF Fall
  <2>2. Is(Fall(c), c.mode, c.n, c.byte, c.word, c.at, FALSE)
    BY <1>0, <2>1, ChipPulls, Zenon
  <2> QED
    BY <1>8, <2>2, Zenon
<1>9. ASSUME c.mode = "send", c.n = 9
      PROVE  Is(Fall(c), "send", 0, c.byte, c.word, (c.at + 1) % Size,
                Bit(memory[(c.at + 1) % Size], 1) = 0)
  <2> DEFINE a == (c.at + 1) % Size
             g == [c EXCEPT !.at = a]
  <2>1. Fall(c) = Sending(g)
    BY <1>9 DEF Fall
  <2>2. a \in 0..(Size - 1)
    <3>1. c.at + 1 \in Nat
      OBVIOUS
    <3> QED
      BY <3>1, Wraps
  <2> HIDE DEF a
  <2>3. Is(g, c.mode, c.n, c.byte, c.word, a, c.low)
    BY <2>2, ChipMoves
  <2> HIDE DEF g
  <2>4. g \in Chips /\ g.byte = c.byte /\ g.word = c.word /\ g.at = a
    BY <2>3 DEF Is
  <2>5. Is(Sending(g), "send", 0, g.byte, g.word, g.at, Bit(memory[g.at], 1) = 0)
    BY <2>4, SendingIs
  <2>6. Is(Fall(c), "send", 0, c.byte, c.word, a, Bit(memory[a], 1) = 0)
    BY <2>1, <2>4, <2>5, Zenon
  <2> QED
    BY <2>6 DEF a
<1>10. c.mode = "off" => Fall(c) = c
  BY DEF Fall
<1>11. c.mode \in {"device", "write"} /\ c.n < 8 => Fall(c) = c
  BY DEF Fall
<1> QED
  BY <1>1, <1>2, <1>3, <1>4, <1>5, <1>6, <1>7, <1>8, <1>9, <1>10, <1>11

\* A state field by field is one of Chips and counts its bits.
LEMMA IsCounts ==
    ASSUME NEW g, NEW m, NEW n, NEW y, NEW w, NEW a, NEW l, NEW scl, Is(g, m, n, y, w, a, l),
           m = "off" => n = 0, scl = 0 => n <= 8
    PROVE  g \in Chips /\ Counts(g, scl)
BY DEF Is, Counts

\* Any change of the lines leaves the EEPROM in a state of its own.
LEMMA FallTyped ==
    ASSUME NEW c \in Chips, c.mode = "off" => c.n = 0
    PROVE  Fall(c) \in Chips /\ Counts(Fall(c), 0)
<1>1. /\ c.n \in 0..9 /\ c.mode \in {"off", "device", "write", "send"} /\ c.byte \in Nat
  BY ChipIs DEF Modes
<1>2. 0 <= 8 /\ 8 <= 8 /\ "device" # "off" /\ "write" # "off" /\ "send" # "off" /\ 0 = 0
  OBVIOUS
<1>3. CASE c.mode = "device" /\ c.n = 8
  <2>1. CASE c.byte \in {160, 161}
    <3>1. Is(Fall(c), "device", 8, c.byte, c.word, c.at, TRUE)
      BY <1>3, <2>1, FallIs
    <3> QED
      BY <1>2, <3>1, IsCounts
  <2>2. CASE c.byte \notin {160, 161}
    BY <1>2, <1>3, <2>2, FallIs, IsCounts
  <2> QED
    BY <2>1, <2>2
<1>4. CASE c.mode = "device" /\ c.n = 9
  <2>1. CASE c.byte = 161
    <3>1. Is(Fall(c), "send", 0, c.byte, c.word, c.at, Bit(memory[c.at], 1) = 0)
      BY <1>4, <2>1, FallIs
    <3> QED
      BY <1>2, <3>1, IsCounts
  <2>2. CASE c.byte # 161
    BY <1>2, <1>4, <2>2, FallIs, IsCounts
  <2> QED
    BY <2>1, <2>2
<1>5. CASE c.mode = "write" /\ c.n = 8
  BY <1>2, <1>5, FallIs, IsCounts
<1>6. CASE c.mode = "write" /\ c.n = 9
  BY <1>2, <1>6, FallIs, IsCounts
<1>7. CASE c.mode = "send" /\ c.n < 8
  <2>1. c.n <= 8
    BY <1>1, <1>7
  <2> QED
    BY <1>2, <1>7, <2>1, FallIs, IsCounts
<1>8. CASE c.mode = "send" /\ c.n = 8
  BY <1>2, <1>8, FallIs, IsCounts
<1>9. CASE c.mode = "send" /\ c.n = 9
  BY <1>2, <1>9, FallIs, IsCounts
<1>10. CASE c.mode = "off" \/ (c.mode \in {"device", "write"} /\ c.n < 8)
  <2>1. Fall(c) = c
    BY <1>10, FallIs
  <2>2. c.n <= 8
    BY <1>1, <1>10
  <2> QED
    BY <2>1, <2>2 DEF Counts
<1> QED
  BY <1>1, <1>3, <1>4, <1>5, <1>6, <1>7, <1>8, <1>9, <1>10

\* The same, SCL rising.
LEMMA RiseTyped ==
    ASSUME NEW c \in Chips, NEW sda \in {0, 1}, Counts(c, 0)
    PROVE  Rise(c, sda) \in Chips /\ Counts(Rise(c, sda), 1)
<1>1. c.n \in 0..8 /\ c.mode \in {"off", "device", "write", "send"}
  BY ChipIs DEF Modes, Counts
<1>2. 1 # 0 /\ "device" # "off" /\ "write" # "off" /\ "send" # "off"
  OBVIOUS
<1>3. CASE c.mode \in {"device", "write"} /\ c.n < 8
  <2>1. c.mode # "off"
    BY <1>3
  <2>2. Is(Rise(c, sda), c.mode, c.n + 1, (2 * c.byte + sda) % 256, c.word, c.at, c.low)
    BY <1>3, RiseIs
  <2> QED
    BY <1>2, <2>1, <2>2, IsCounts
<1>4. CASE c.mode = "send" /\ c.n = 8 /\ sda = 1
  <2>1. Is(Rise(c, sda), "off", 0, 0, 0, (c.at + 1) % Size, FALSE)
    BY <1>4, RiseIs
  <2> QED
    BY <1>2, <2>1, IsCounts
<1>5. CASE c.mode = "off"
  BY <1>5, RiseIs DEF Counts
<1>6. CASE /\ c.mode \in {"device", "write"} => c.n = 8
           /\ ~(c.mode = "send" /\ c.n = 8 /\ sda = 1)
           /\ c.mode # "off"
  <2>1. c.n <= 8
    BY <1>1
  <2> QED
    BY <1>2, <1>6, <2>1, RiseIs, IsCounts
<1> QED
  BY <1>1, <1>3, <1>4, <1>5, <1>6

Lines == {0, 1} \X {0, 1}

\* What the EEPROM sees of a change of the lines.
LEMMA SeesIs ==
    ASSUME NEW c, NEW f \in Lines, NEW g \in Lines
    PROVE  /\ ~present => Sees(c, f, g) = c
           /\ present /\ f[2] = 0 /\ g[2] = 0 => Sees(c, f, g) = c
           /\ present /\ f[2] = 0 /\ g[2] = 1 => Sees(c, f, g) = Rise(c, Sda(g[1], c))
           /\ present /\ f[2] = 1 /\ g[2] = 0 => Sees(c, f, g) = Fall(c)
           /\ present /\ f[2] = 1 /\ g[2] = 1 =>
                 Sees(c, f, g) =
                     IF Sda(f[1], c) = 1 /\ Sda(g[1], c) = 0
                     THEN [Off EXCEPT !.mode = "device", !.at = c.at]
                     ELSE IF Sda(f[1], c) = 0 /\ Sda(g[1], c) = 1 THEN [Off EXCEPT !.at = c.at]
                     ELSE c
<1>1. f[2] \in {0, 1} /\ g[2] \in {0, 1}
  BY DEF Lines
<1> QED
  BY <1>1 DEF Sees

\* Either way, its state is one of Chips.
LEMMA SeesTyped ==
    ASSUME NEW c \in Chips, NEW f \in Lines, NEW g \in Lines, Counts(c, f[2]),
           present \/ c = Off
    PROVE  Sees(c, f, g) \in Chips /\ Counts(Sees(c, f, g), g[2])
<1>1. f[1] \in {0, 1} /\ g[1] \in {0, 1} /\ f[2] \in {0, 1} /\ g[2] \in {0, 1}
  BY DEF Lines
<1>2. Sda(g[1], c) \in {0, 1} /\ Sda(f[1], c) \in {0, 1}
  BY <1>1 DEF Sda
<1>3. CASE ~present
  <2>1. Sees(c, f, g) = c /\ c = Off
    BY <1>3, SeesIs
  <2>2. Off.n = 0
    BY DEF Off
  <2> QED
    BY <2>1, <2>2 DEF Counts
<1>7. CASE present /\ f[2] = 0 /\ g[2] = 0
  <2>1. Sees(c, f, g) = c
    BY <1>7, SeesIs
  <2> QED
    BY <1>7, <2>1

<1>4. CASE present /\ f[2] = 0 /\ g[2] = 1
  BY <1>2, <1>4, SeesIs, RiseTyped
<1>5. CASE present /\ f[2] = 1 /\ g[2] = 0
  BY <1>5, SeesIs, FallTyped DEF Counts
<1>6. CASE present /\ f[2] = 1 /\ g[2] = 1
  <2> DEFINE g1 == [Off EXCEPT !.mode = "device", !.at = c.at]
             g2 == [Off EXCEPT !.at = c.at]
  <2>1. Sees(c, f, g) = g1 \/ Sees(c, f, g) = g2 \/ Sees(c, f, g) = c
    BY <1>6, SeesIs
  <2>2. /\ g1 \in Chips /\ g1.n = 0
        /\ g2 \in Chips /\ g2.n = 0
    <3>1. c.at \in 0..(Size - 1)
      BY DEF Chips
    <3> QED
      BY <3>1, AtRest DEF Is
  <2> HIDE DEF g1, g2
  <2> QED
    BY <1>6, <2>1, <2>2 DEF Counts
<1> QED
  BY <1>1, <1>3, <1>4, <1>5, <1>6, <1>7

-----------------------------------------------------------------------------
(* The master's steps. *)

\* inky_eeprom.c:57-108: every level that is driven is low or high, ...
LEMMA DrivesIs == ASSUME NEW i \in Clocking, NEW k \in 1..9 PROVE Drives(i, k) \in {0, 1}
<1>1. CASE k = 9
  BY <1>1 DEF Drives
<1>2. CASE k # 9
  <2>1. k \in 1..8 /\ 160 \in 0..255 /\ 161 \in 0..255 /\ 0 \in 0..255
    BY <1>2
  <2>2. Bit(160, k) \in {0, 1} /\ Bit(161, k) \in {0, 1} /\ Bit(0, k) \in {0, 1}
    BY <2>1, BitIs
  <2> QED
    BY <1>2, <2>2 DEF Drives
<1> QED
  BY <1>1, <1>2

\* ... a level of a byte is one of three phases of one of nine bits, ...
LEMMA PhaseIs ==
    ASSUME NEW l \in 0..26
    PROVE  \E q \in 0..8 : l = 3 * q \/ l = 3 * q + 1 \/ l = 3 * q + 2
<1>1. l \div 3 \in 0..8 /\ (l = 3 * (l \div 3) \/ l = 3 * (l \div 3) + 1 \/ l = 3 * (l \div 3) + 2)
  OBVIOUS
<1> QED
  BY <1>1

\* ... and an item has three levels or twenty-seven.
LEMMA LevelsAre ==
    ASSUME NEW i \in 1..(Size + 8)
    PROVE  /\ Len(Script[i].levels) = (IF i \in Clocking THEN 27 ELSE 3)
           /\ \A k \in 1..Len(Script[i].levels) : Script[i].levels[k] \in Lines
<1>1. CASE i \in Clocking
  <2> DEFINE s == Script[i].levels
  <2>1. /\ Len(s) = 27
        /\ \A q \in 0..8 : /\ s[3 * q + 1] = << Drives(i, q + 1), 0 >>
                           /\ s[3 * q + 2] = << Drives(i, q + 1), 1 >>
                           /\ s[3 * q + 3] = << Drives(i, q + 1), 0 >>
    BY <1>1, ItemIs
  <2> HIDE DEF s
  <2>2. ASSUME NEW k \in 1..27 PROVE s[k] \in Lines
    <3>1. k - 1 \in 0..26
      OBVIOUS
    <3>2. PICK q \in 0..8 : k - 1 = 3 * q \/ k - 1 = 3 * q + 1 \/ k - 1 = 3 * q + 2
      BY <3>1, PhaseIs
    <3>3. q + 1 \in 1..9
      OBVIOUS
    <3>4. Drives(i, q + 1) \in {0, 1}
      BY <1>1, <3>3, DrivesIs
    <3>5. k = 3 * q + 1 \/ k = 3 * q + 2 \/ k = 3 * q + 3
      BY <3>2
    <3> QED
      BY <2>1, <3>4, <3>5 DEF Lines
  <2> QED
    BY <1>1, <2>1, <2>2 DEF s
<1>2. CASE i \notin Clocking
  <2>1. i \in {1, 6} \/ i \in {5, Size + 8}
    BY <1>2, EepromAssumption DEF Clocking
  <2>2. Script[i].levels = StartLevels \/ Script[i].levels = StopLevels
    BY <2>1, ItemIs
  <2>3. /\ Len(StartLevels) = 3 /\ Len(StopLevels) = 3
        /\ \A k \in 1..3 : StartLevels[k] \in Lines /\ StopLevels[k] \in Lines
    <3>1. \A k \in 1..3 : k = 1 \/ k = 2 \/ k = 3
      OBVIOUS
    <3>2. /\ Len(StartLevels) = 3 /\ StartLevels[1] = << 1, 1 >>
          /\ StartLevels[2] = << 0, 1 >> /\ StartLevels[3] = << 0, 0 >>
          /\ Len(StopLevels) = 3 /\ StopLevels[1] = << 0, 0 >>
          /\ StopLevels[2] = << 0, 1 >> /\ StopLevels[3] = << 1, 1 >>
      BY DEF StartLevels, StopLevels
    <3>3. << 1, 1 >> \in Lines /\ << 0, 1 >> \in Lines /\ << 0, 0 >> \in Lines
      BY DEF Lines
    <3> QED
      BY <3>1, <3>2, <3>3
  <2> QED
    BY <1>2, <2>2, <2>3
<1> QED
  BY <1>1, <1>2

\* inky_eeprom.c:57-108: what a level does.
LEMMA LevelIs ==
    ASSUME Level
    PROVE  /\ read = "no" /\ level < Len(Script[item].levels)
           /\ level' = level + 1 /\ line' = Script[item].levels[level + 1]
           /\ chip' = Sees(chip, line, line')
           /\ b' = (IF line'[2] = 1 /\ line[2] = 0 /\ Script[item].op = "read" /\ level < 24
                    THEN (2 * b + Sda(line'[1], chip)) % 256 ELSE b)
           /\ ack' = (IF line'[2] = 1 /\ line[2] = 0 /\ Script[item].op = "address"
                      THEN Sda(line'[1], chip) = 0 ELSE ack)
           /\ item' = item /\ d' = d /\ read' = read /\ present' = present /\ memory' = memory
           /\ caught' = caught
<1>1. line' = Script[item].levels[level + 1]
  BY DEF Level
<1> QED
  BY <1>1 DEF Level

\* The types, put together.
LEMMA EepromTypes ==
    EepromTypeOK <=>
        /\ item \in 1..(Size + 8) /\ level \in 0..27 /\ b \in 0..255
        /\ d \in Seq(0..255) /\ Len(d) <= Size
        /\ ack \in BOOLEAN /\ read \in {"no", "good", "bad"} /\ line \in Lines
        /\ present \in BOOLEAN /\ memory \in Contents /\ caught \in BOOLEAN
        /\ chip \in Chips
BY ScriptIs DEF EepromTypeOK, Lines, Chips

\* A level keeps the types.
LEMMA LevelTyped == ASSUME EepromTyped, Unanswered, Level PROVE EepromTyped'
<1>1. /\ item \in 1..(Size + 8) /\ level \in 0..27 /\ b \in 0..255 /\ line \in Lines
      /\ present \in BOOLEAN /\ chip \in Chips /\ Counts(chip, line[2]) /\ ack \in BOOLEAN
      /\ present \/ chip = Off
  BY EepromTypes DEF EepromTyped, Unanswered
<1> DEFINE s == Script[item].levels
<1>2. Len(s) \in {3, 27} /\ (\A k \in 1..Len(s) : s[k] \in Lines)
  BY <1>1, LevelsAre
<1>3. /\ read = "no" /\ level < Len(s) /\ level' = level + 1 /\ line' = s[level + 1]
      /\ item' = item /\ d' = d /\ read' = read /\ present' = present /\ memory' = memory
      /\ caught' = caught /\ chip' = Sees(chip, line, line')
  BY LevelIs
<1>4. line' \in Lines /\ level' \in 1..Len(s) /\ level' \in 0..27
  <2> DEFINE n == Len(s)
  <2>1. n \in {3, 27} /\ (\A k \in 1..n : s[k] \in Lines)
    BY <1>2
  <2>2. level < n /\ level' = level + 1 /\ line' = s[level + 1]
    BY <1>3
  <2> HIDE DEF s, n
  <2>3. level + 1 \in 1..n /\ level + 1 \in 0..27
    BY <1>1, <2>1, <2>2
  <2>4. line' \in Lines /\ level' \in 1..n /\ level' \in 0..27
    BY <2>1, <2>2, <2>3
  <2> QED
    BY <2>4 DEF n
<1>5. chip' \in Chips /\ Counts(chip', line'[2])
  BY <1>1, <1>3, <1>4, SeesTyped
<1>6. b' \in 0..255 /\ ack' \in BOOLEAN
  <2>1. Sda(line'[1], chip) \in {0, 1}
    BY <1>4 DEF Sda, Lines
  <2> DEFINE y == 2 * b + Sda(line'[1], chip)
  <2>2. y \in Nat
    BY <1>1, <2>1
  <2>3. b' \in {b, y % 256}
    BY LevelIs
  <2>4. ack' \in {ack, Sda(line'[1], chip) = 0}
    BY LevelIs, Zenon
  <2> HIDE DEF y
  <2>5. y % 256 \in 0..255
    BY <2>2
  <2> QED
    BY <1>1, <2>3, <2>4, <2>5
<1>7. EepromTypeOK'
  <2>1. /\ item' \in 1..(Size + 8) /\ d' \in Seq(0..255) /\ Len(d') <= Size
        /\ read' \in {"no", "good", "bad"} /\ present' \in BOOLEAN
        /\ memory' \in Contents /\ caught' \in BOOLEAN
    BY <1>1, <1>3, EepromTypes DEF EepromTyped
  <2> QED
    BY <1>4, <1>5, <1>6, <2>1, ScriptIs DEF EepromTypeOK, Lines, Chips
<1>8. Collected'
  BY <1>3 DEF EepromTyped, Collected
<1>9. level' <= Len(Script[item'].levels) /\ Driven'
  <2>1. level' > 0 /\ line' = s[level'] /\ level' <= Len(s)
    <3> HIDE DEF s
    <3> QED
      BY <1>1, <1>2, <1>3, <1>4
  <2> QED
    BY <1>3, <2>1 DEF Driven
<1> QED
  BY <1>5, <1>7, <1>8, <1>9 DEF EepromTyped

\* inky_eeprom.c:71-108: how the lines change in a byte: SCL low, high, low again.
LEMMA ClockIs ==
    ASSUME EepromTyped, Level, item \in Clocking, NEW q \in 0..8
    PROVE  /\ level = 3 * q => line[2] = 0 /\ line' = << Drives(item, q + 1), 0 >>
           /\ level = 3 * q + 1 => line[2] = 0 /\ line' = << Drives(item, q + 1), 1 >>
           /\ level = 3 * q + 2 => line[2] = 1 /\ line' = << Drives(item, q + 1), 0 >>
<1> DEFINE s == Script[item].levels
<1>1. /\ item \in 1..(Size + 8) /\ level \in 0..27 /\ item \notin {1, 6}
  BY EepromTypes DEF EepromTyped, Clocking
<1>2. \A j \in 0..8 : /\ s[3 * j + 1] = << Drives(item, j + 1), 0 >>
                      /\ s[3 * j + 2] = << Drives(item, j + 1), 1 >>
                      /\ s[3 * j + 3] = << Drives(item, j + 1), 0 >>
  BY <1>1, ItemIs
<1>3. line' = s[level + 1] /\ read = "no"
  BY LevelIs
<1>4. /\ level > 0 => line = s[level]
      /\ level = 0 => line[2] = 0
  BY <1>1, <1>3 DEF EepromTyped, Driven
<1> HIDE DEF s
<1>5. CASE level = 3 * q
  <2>1. line' = << Drives(item, q + 1), 0 >>
    BY <1>2, <1>3, <1>5
  <2>2. CASE q = 0
    BY <1>4, <1>5, <2>1, <2>2
  <2>3. CASE q > 0
    <3>1. q - 1 \in 0..8 /\ level = 3 * (q - 1) + 3 /\ level > 0
      BY <1>5, <2>3
    <3> HIDE DEF Drives
    <3>2. line = << Drives(item, (q - 1) + 1), 0 >>
      BY <1>2, <1>4, <3>1
    <3> QED
      BY <1>5, <2>1, <3>2
  <2> QED
    BY <2>2, <2>3
<1>6. CASE level = 3 * q + 1
  <2>1. level > 0 /\ level + 1 = 3 * q + 2
    BY <1>6
  <2> QED
    BY <1>2, <1>3, <1>4, <1>6, <2>1
<1>7. CASE level = 3 * q + 2
  <2>1. level > 0 /\ level + 1 = 3 * q + 3
    BY <1>7
  <2> QED
    BY <1>2, <1>3, <1>4, <1>7, <2>1
<1> QED
  BY <1>5, <1>6, <1>7

\* What both ends make of that.
LEMMA BitStep ==
    ASSUME EepromTyped, Level, present, item \in Clocking, NEW q \in 0..8,
           NEW sda, sda = Sda(Drives(item, q + 1), chip)
    PROVE  /\ level = 3 * q => chip' = chip /\ b' = b /\ ack' = ack
           /\ level = 3 * q + 1 =>
                 /\ chip' = Rise(chip, sda)
                 /\ b' = (IF item >= 8 /\ q < 8 THEN (2 * b + sda) % 256 ELSE b)
                 /\ ack' = (IF item \in {2, 7} THEN sda = 0 ELSE ack)
           /\ level = 3 * q + 2 => chip' = Fall(chip) /\ b' = b /\ ack' = ack
<1>1. /\ item \in 1..(Size + 8) /\ line \in Lines /\ line' \in Lines
  <2>1. EepromTypeOK /\ Unanswered
    BY DEF EepromTyped, Unanswered
  <2>2. EepromTyped'
    BY <2>1, LevelTyped
  <2> QED
    BY <2>1, <2>2, EepromTypes DEF EepromTyped, EepromTypeOK, Lines
<1>2. Script[item].op = (IF item \in {2, 7} THEN "address"
                         ELSE IF item \in {3, 4} THEN "write" ELSE "read")
  BY <1>1, ItemIs
<1>3. /\ (Script[item].op = "read") = (item >= 8)
      /\ (Script[item].op = "address") = (item \in {2, 7})
  BY <1>1, <1>2 DEF Clocking
<1> DEFINE m == Drives(item, q + 1)
<1>4. /\ line[2] = 0 /\ line'[2] = 0 => chip' = chip
      /\ line[2] = 0 /\ line'[2] = 1 => chip' = Rise(chip, Sda(line'[1], chip))
      /\ line[2] = 1 /\ line'[2] = 0 => chip' = Fall(chip)
  <2>1. chip' = Sees(chip, line, line')
    BY LevelIs
  <2> QED
    BY <1>1, <2>1, SeesIs, Zenon
<1>5. CASE level = 3 * q
  <2>1. line[2] = 0 /\ line'[2] = 0
    BY <1>5, ClockIs
  <2>2. line'[2] # 1
    BY <2>1
  <2>3. b' = b /\ ack' = ack
    BY <2>2, LevelIs
  <2> QED
    BY <1>4, <1>5, <2>1, <2>3
<1>6. CASE level = 3 * q + 1
  <2>1. line[2] = 0 /\ line'[2] = 1 /\ line'[1] = m
    BY <1>6, ClockIs
  <2>2. chip' = Rise(chip, sda)
    BY <1>4, <2>1
  <2>3. level < 24 <=> q < 8
    BY <1>6
  <2>4. b' = (IF item >= 8 /\ q < 8 THEN (2 * b + sda) % 256 ELSE b)
    BY <1>3, <2>1, <2>3, LevelIs
  <2>5. ack' = (IF item \in {2, 7} THEN sda = 0 ELSE ack)
    BY <1>3, <2>1, LevelIs
  <2> QED
    BY <1>6, <2>2, <2>4, <2>5
<1>7. CASE level = 3 * q + 2
  <2>1. line[2] = 1 /\ line'[2] = 0
    BY <1>7, ClockIs
  <2> QED
    BY <1>4, <1>7, <2>1, LevelIs
<1> QED
  BY <1>5, <1>6, <1>7

-----------------------------------------------------------------------------
(* In step: what is expected of the EEPROM, item by item. *)

\* The phases of a byte.
LEMMA ClocksIs ==
    ASSUME NEW q \in 0..8
    PROVE  /\ Clocks(3 * q) = q /\ Clocks(3 * q + 1) = q /\ Clocks(3 * q + 2) = q + 1
           /\ Clocks(3 * (q + 1)) = q + 1
           /\ (3 * q >= 24) = (q = 8) /\ (3 * q + 1 >= 24) = (q = 8) /\ (3 * q + 2 >= 24) = (q = 8)
           /\ (3 * q < 24) = (q < 8) /\ (3 * q + 1 < 24) = (q < 8) /\ (3 * q + 2 < 24) = (q < 8)
           /\ (3 * q) \div 3 = q /\ (3 * q + 1) \div 3 = q /\ (3 * q + 2) \div 3 = q
BY DEF Clocks

\* What is expected of the EEPROM (inky_eeprom.c:127-160) ...
\* ... at the first start, ...
LEMMA ExpectedFirst ==
    ASSUME NEW c, NEW l
    PROVE  Expected(c, 1, l) <=>
              (l <= 1 => ~c.low) /\ (l = 2 => Started(c))
<1>1. 1 \notin 8..(Size + 7)
  OBVIOUS
<1> QED
  BY <1>1 DEF Expected

\* ... its address, ...
LEMMA ExpectedAddress ==
    ASSUME NEW c, NEW l
    PROVE  Expected(c, 2, l) <=>
              Taking(c, "device", l) /\ c.byte = First(160, Clocks(l)) /\ c.word = 0
<1>1. 2 \notin 8..(Size + 7)
  OBVIOUS
<1> QED
  BY <1>1 DEF Expected

\* ... the high byte of the word address, ...
LEMMA ExpectedHigh ==
    ASSUME NEW c, NEW l
    PROVE  Expected(c, 3, l) <=>
              Taking(c, "write", l) /\ c.word = (IF l < 24 THEN 0 ELSE 1)
<1>1. 3 \notin 8..(Size + 7)
  OBVIOUS
<1> QED
  BY <1>1 DEF Expected

\* ... its low byte, ...
LEMMA ExpectedLow ==
    ASSUME NEW c, NEW l
    PROVE  Expected(c, 4, l) <=>
              /\ Taking(c, "write", l)
              /\ l < 24 => c.word = 1 /\ Cleared(c.byte, Clocks(l))
              /\ l >= 24 => c.at = 0
<1>1. 4 \notin 8..(Size + 7)
  OBVIOUS
<1> QED
  BY <1>1 DEF Expected

\* ... the stop after it, ...
LEMMA ExpectedStop ==
    ASSUME NEW c, NEW l
    PROVE  Expected(c, 5, l) <=>
              c.mode = "write" /\ c.n = (IF l < 2 THEN 0 ELSE 1) /\ ~c.low /\ c.at = 0
<1>1. 5 \notin 8..(Size + 7)
  OBVIOUS
<1> QED
  BY <1>1 DEF Expected

\* ... the second start, ...
LEMMA ExpectedAgain ==
    ASSUME NEW c, NEW l
    PROVE  Expected(c, 6, l) <=>
              (l <= 1 => ~c.low /\ c.mode = "off") /\ (l = 2 => Started(c)) /\ c.at = 0
<1>1. 6 \notin 8..(Size + 7)
  OBVIOUS
<1> QED
  BY <1>1 DEF Expected

\* ... its address, to be read, ...
LEMMA ExpectedTurn ==
    ASSUME NEW c, NEW l
    PROVE  Expected(c, 7, l) <=>
              Taking(c, "device", l) /\ c.byte = First(161, Clocks(l)) /\ c.at = 0
<1>1. 7 \notin 8..(Size + 7)
  OBVIOUS
<1> QED
  BY <1>1 DEF Expected

\* ... in each byte that it sends, ...
LEMMA ExpectedByte ==
    ASSUME NEW c, NEW l, NEW i \in 8..(Size + 7)
    PROVE  Expected(c, i, l) <=>
              /\ i < Size + 7 \/ l < 26 => c.mode = "send" /\ c.n = Clocks(l) /\ c.at = i - 8
              /\ i = Size + 7 /\ l = 26 => c.mode = "off"
              /\ c.low = (l < 24 /\ Bit(memory[i - 8], l \div 3 + 1) = 0)
<1>1. i \notin {1, 2, 3, 4, 5, 6, 7}
  BY EepromAssumption
<1> QED
  BY <1>1 DEF Expected

\* ... and nothing in the end.
LEMMA ExpectedEnd ==
    ASSUME NEW c, NEW l, NEW i \in {Size + 8, Size + 9}
    PROVE  Expected(c, i, l)
<1>1. i \notin {1, 2, 3, 4, 5, 6, 7} /\ i \notin 8..(Size + 7)
  BY EepromAssumption
<1> QED
  BY <1>1 DEF Expected

\* What holds while the master reads.
InItem(i) == EepromTyped /\ Unanswered /\ InStep /\ Gathered /\ Level /\ Reading /\ item = i

\* In an item that is not done, the EEPROM is as expected.
LEMMA NowExpected ==
    ASSUME NEW i, InItem(i)
    PROVE  /\ Expected(chip, i, level) /\ chip \in Chips /\ level \in 0..26
           /\ item' = i /\ level' = level + 1 /\ read' = read /\ present' = present
           /\ memory' = memory /\ caught' = caught /\ d' = d /\ i \in 1..(Size + 8)
           /\ memory \in Contents /\ b \in 0..255 /\ Reading' /\ present
<1>1. /\ item \in 1..(Size + 8) /\ level \in 0..27 /\ chip \in Chips /\ memory \in Contents
      /\ b \in 0..255
  BY EepromTypes DEF InItem, EepromTyped
<1>2. level < Len(Script[item].levels) /\ Len(Script[item].levels) \in {3, 27}
  BY <1>1, LevelIs, LevelsAre DEF InItem
<1>3. level # Len(Script[item].levels) /\ level \in 0..26
  <2> DEFINE n == Len(Script[item].levels)
  <2>1. level < n /\ n \in {3, 27}
    BY <1>2
  <2> HIDE DEF n
  <2>2. level # n /\ level \in 0..26
    BY <1>1, <2>1
  <2> QED
    BY <2>2 DEF n
<1>4. Expected(chip, i, level)
  BY <1>3 DEF InItem, InStep
<1>5. /\ item' = i /\ level' = level + 1 /\ read' = read /\ present' = present
      /\ memory' = memory /\ caught' = caught /\ d' = d
  BY LevelIs DEF InItem
<1> QED
  BY <1>1, <1>3, <1>4, <1>5 DEF InItem, Reading

\* What is expected is so whoever looks.
LEMMA ExpectedStays ==
    ASSUME NEW k, NEW l, memory' = memory
    PROVE  /\ l = level' /\ k = item' => (Expected(chip', k, l) => Expected(chip, item, level)')
           /\ l = 0 /\ k = item' + 1 => (Expected(chip', k, l) => Expected(chip, item + 1, 0)')
BY DEF Expected, Taking, Started

\* A level further the EEPROM is where it is expected, ...
LEMMA StepsOn ==
    ASSUME NEW i, NEW l, item' = i, memory' = memory, level' = l, Len(Script[i].levels) # l,
           Expected(chip', i, l)
    PROVE  InStep'
BY ExpectedStays DEF InStep

\* ... also after the last of an item.
LEMMA StepsOver ==
    ASSUME NEW i, NEW j, item' = i, memory' = memory, level' = Len(Script[i].levels), j = i + 1,
           Expected(chip', j, 0)
    PROVE  InStep'
BY ExpectedStays DEF InStep

\* inky_eeprom.c:57-62: SDA falls while SCL is high, then SCL falls.
LEMMA StartLine ==
    ASSUME NEW i \in {1, 6}, InItem(i)
    PROVE  /\ Len(Script[i].levels) = 3 /\ level \in 0..2
           /\ level = 0 => chip' = chip
           /\ level = 1 /\ ~chip.low => chip' = [Off EXCEPT !.mode = "device", !.at = chip.at]
           /\ level = 2 => chip' = Fall(chip)
<1>1. level \in 0..26 /\ i \in 1..(Size + 8) /\ present
  BY NowExpected
<1>2. Script[i].levels = StartLevels
  BY <1>1, ItemIs
<1>3. /\ Len(StartLevels) = 3
      /\ StartLevels[1] = << 1, 1 >> /\ StartLevels[2] = << 0, 1 >>
      /\ StartLevels[3] = << 0, 0 >>
      /\ << 1, 1 >> \in Lines /\ << 0, 1 >> \in Lines /\ << 0, 0 >> \in Lines
  BY DEF StartLevels, Lines
<1>4. level < 3 /\ line' = StartLevels[level + 1] /\ chip' = Sees(chip, line, line')
  BY <1>2, <1>3, LevelIs DEF InItem
<1>5. /\ level > 0 => line = StartLevels[level]
      /\ level = 0 => line = << 1, 1 >>
  BY <1>2 DEF InItem, EepromTyped, Driven, Reading
<1>6. level = 0 \/ level = 1 \/ level = 2
  BY <1>1, <1>4
<1>7. level = 0 => line = << 1, 1 >> /\ line' = << 1, 1 >>
  BY <1>3, <1>4, <1>5
<1>8. level = 1 => line = << 1, 1 >> /\ line' = << 0, 1 >>
  BY <1>3, <1>4, <1>5
<1>9. level = 2 => line = << 0, 1 >> /\ line' = << 0, 0 >>
  BY <1>3, <1>4, <1>5
<1>10. level = 0 => chip' = chip
  <2> SUFFICES ASSUME level = 0 PROVE Sees(chip, << 1, 1 >>, << 1, 1 >>) = chip
    BY <1>4, <1>7
  <2> QED
    BY <1>1 DEF Sees
<1>11. level = 1 /\ ~chip.low => chip' = [Off EXCEPT !.mode = "device", !.at = chip.at]
  <2> SUFFICES ASSUME level = 1, ~chip.low
               PROVE  Sees(chip, << 1, 1 >>, << 0, 1 >>)
                      = [Off EXCEPT !.mode = "device", !.at = chip.at]
    BY <1>4, <1>8
  <2>1. Sda(1, chip) = 1 /\ Sda(0, chip) = 0
    BY DEF Sda
  <2> QED
    BY <1>1, <2>1 DEF Sees
<1>12. level = 2 => chip' = Fall(chip)
  <2> SUFFICES ASSUME level = 2 PROVE Sees(chip, << 0, 1 >>, << 0, 0 >>) = Fall(chip)
    BY <1>4, <1>9
  <2> QED
    BY <1>1 DEF Sees
<1> QED
  BY <1>2, <1>3, <1>6, <1>10, <1>11, <1>12

\* inky_eeprom.c:64-69: SDA rises while SCL is high.
LEMMA StopLine ==
    ASSUME NEW i \in {5, Size + 8}, InItem(i)
    PROVE  /\ Len(Script[i].levels) = 3 /\ level \in 0..2
           /\ level = 0 => chip' = chip
           /\ level = 1 => chip' = Rise(chip, Sda(0, chip))
           /\ level = 2 /\ ~chip.low => chip' = [Off EXCEPT !.at = chip.at]
<1>1. level \in 0..26 /\ i \in 1..(Size + 8) /\ present /\ i \notin {1, 6}
  BY NowExpected, EepromAssumption
<1>2. Script[i].levels = StopLevels
  BY <1>1, ItemIs
<1>3. /\ Len(StopLevels) = 3
      /\ StopLevels[1] = << 0, 0 >> /\ StopLevels[2] = << 0, 1 >>
      /\ StopLevels[3] = << 1, 1 >>
      /\ << 1, 1 >> \in Lines /\ << 0, 1 >> \in Lines /\ << 0, 0 >> \in Lines
  BY DEF StopLevels, Lines
<1>4. level < 3 /\ line' = StopLevels[level + 1] /\ chip' = Sees(chip, line, line')
  BY <1>2, <1>3, LevelIs DEF InItem
<1>5. /\ level > 0 => line = StopLevels[level]
      /\ level = 0 => line[2] = 0
      /\ line \in Lines
  BY <1>1, <1>2, EepromTypes DEF InItem, EepromTyped, Driven, Reading
<1>6. level = 0 \/ level = 1 \/ level = 2
  BY <1>1, <1>4
<1>7. level = 0 => line[2] = 0 /\ line' = << 0, 0 >>
  BY <1>3, <1>4, <1>5
<1>8. level = 1 => line = << 0, 0 >> /\ line' = << 0, 1 >>
  BY <1>3, <1>4, <1>5
<1>9. level = 2 => line = << 0, 1 >> /\ line' = << 1, 1 >>
  BY <1>3, <1>4, <1>5
<1>10. level = 0 => chip' = chip
  <2> SUFFICES ASSUME level = 0 PROVE Sees(chip, line, << 0, 0 >>) = chip
    BY <1>4, <1>7
  <2>1. line[2] = 0
    BY <1>7
  <2> QED
    BY <1>1, <2>1 DEF Sees
<1>11. level = 1 => chip' = Rise(chip, Sda(0, chip))
  <2> SUFFICES ASSUME level = 1
               PROVE  Sees(chip, << 0, 0 >>, << 0, 1 >>) = Rise(chip, Sda(0, chip))
    BY <1>4, <1>8
  <2> QED
    BY <1>1 DEF Sees
<1>12. level = 2 /\ ~chip.low => chip' = [Off EXCEPT !.at = chip.at]
  <2> SUFFICES ASSUME level = 2, ~chip.low
               PROVE  Sees(chip, << 0, 1 >>, << 1, 1 >>) = [Off EXCEPT !.at = chip.at]
    BY <1>4, <1>9
  <2>1. Sda(1, chip) = 1 /\ Sda(0, chip) = 0
    BY DEF Sda
  <2> QED
    BY <1>1, <2>1 DEF Sees
<1> QED
  BY <1>2, <1>3, <1>6, <1>10, <1>11, <1>12

\* Nothing is gathered in a start or a stop.
LEMMA GatheredKept ==
    ASSUME NEW i \in (1..(Size + 8)) \ (8..(Size + 7)), InItem(i),
           i \in {2, 7} => level < 25 \/ ack'
    PROVE  Gathered'
<1>1. item' = i /\ level' = level + 1 /\ d' = d /\ memory' = memory /\ Reading /\ Reading'
      /\ level \in 0..26
  BY NowExpected DEF InItem
<1>2. CASE i = Size + 8
  <2>1. i \notin {2, 7} /\ item >= 8
    BY <1>2, EepromAssumption DEF InItem
  <2>2. d = [k \in 1..(i - 8) |-> memory[k - 1]]
    BY <1>1, <2>1 DEF InItem, Gathered
  <2> QED
    BY <1>1, <1>2, <2>1, <2>2 DEF Gathered
<1>3. CASE i # Size + 8
  <2>1. ~(i >= 8)
    BY <1>3, EepromAssumption
  <2>2. i \in {2, 7} /\ level' >= 26 => ack'
    BY <1>1
  <2> QED
    BY <1>1, <2>1, <2>2 DEF Gathered
<1> QED
  BY <1>2, <1>3

\* inky_eeprom.c:127-160, the first start: the EEPROM listens, whatever it did.
LEMMA FirstStep == ASSUME InItem(1) PROVE InStep' /\ Gathered'
<1>1. /\ Expected(chip, 1, level) /\ chip \in Chips /\ item' = 1 /\ level' = level + 1
      /\ memory' = memory /\ 1 \in 1..(Size + 8) /\ chip.low \in BOOLEAN
  BY NowExpected, ChipIs
<1>0. Gathered'
  <2>1. 1 \in (1..(Size + 8)) \ (8..(Size + 7)) /\ 1 \notin {2, 7}
    BY <1>1
  <2> QED
    BY <2>1, GatheredKept
<1>2. Len(Script[1].levels) = 3 /\ level \in 0..2 /\ 2 = 1 + 1 /\ 3 # 1 /\ 3 # 2
  BY StartLine
<1>3. CASE level = 0
  <2>1. chip' = chip /\ level' = 1 /\ ~chip.low
    BY <1>1, <1>3, StartLine, ExpectedFirst
  <2>2. Expected(chip', 1, 1)
    BY <2>1, ExpectedFirst
  <2> QED
    BY <1>1, <1>2, <2>1, <2>2, <1>0, StepsOn
<1>4. CASE level = 1
  <2>1. ~chip.low /\ level' = 2 /\ chip.at \in 0..(Size - 1)
    BY <1>1, <1>4, ExpectedFirst, ChipIs
  <2>2. chip' = [Off EXCEPT !.mode = "device", !.at = chip.at]
    BY <1>4, <2>1, StartLine
  <2>3. Is(chip', "device", 0, 0, 0, chip.at, FALSE)
    BY <2>1, <2>2, AtRest
  <2>4. Expected(chip', 1, 2)
    BY <2>3, ExpectedFirst DEF Is, Started
  <2> QED
    BY <1>1, <1>2, <2>1, <2>4, <1>0, StepsOn
<1>5. CASE level = 2
  <2>1. Started(chip) /\ level' = 3
    BY <1>1, <1>5, ExpectedFirst
  <2>2. chip' = chip
    <3>1. chip.mode \in {"device", "write"} /\ chip.n < 8
      BY <2>1 DEF Started
    <3>2. Fall(chip) = chip
      BY <1>1, <3>1, FallIs, Zenon
    <3> QED
      BY <1>5, <3>2, StartLine
  <2>3. First(160, 0) = 0 /\ Clocks(0) = 0 /\ (0 >= 24) = FALSE
    BY DEF First, Clocks
  <2>4. Expected(chip', 2, 0)
    <3>1. Taking(chip, "device", 0)
      BY <1>1, <2>1, <2>3 DEF Started, Taking
    <3> QED
      BY <2>1, <2>2, <2>3, <3>1, ExpectedAddress DEF Started
  <2> QED
    BY <1>1, <1>2, <2>1, <2>4, <1>0, StepsOver
<1> QED
  BY <1>2, <1>3, <1>4, <1>5

\* The second start: the EEPROM has stopped, its address is 0.
LEMMA AgainStep == ASSUME InItem(6) PROVE InStep' /\ Gathered'
<1>1. /\ Expected(chip, 6, level) /\ chip \in Chips /\ item' = 6 /\ level' = level + 1
      /\ memory' = memory /\ 6 \in 1..(Size + 8) /\ chip.low \in BOOLEAN
      /\ chip.at \in 0..(Size - 1)
  BY NowExpected, ChipIs
<1>0. Gathered'
  <2>1. 6 \in (1..(Size + 8)) \ (8..(Size + 7)) /\ 6 \notin {2, 7}
    BY <1>1
  <2> QED
    BY <2>1, GatheredKept
<1>2. Len(Script[6].levels) = 3 /\ level \in 0..2 /\ 7 = 6 + 1 /\ 3 # 1 /\ 3 # 2
  BY StartLine
<1>3. chip.at = 0
  BY <1>1, ExpectedAgain
<1>4. CASE level = 0
  <2>1. chip' = chip /\ level' = 1 /\ ~chip.low /\ chip.mode = "off"
    BY <1>1, <1>4, StartLine, ExpectedAgain
  <2>2. Expected(chip', 6, 1)
    BY <1>3, <2>1, ExpectedAgain
  <2> QED
    BY <1>1, <1>2, <2>1, <2>2, <1>0, StepsOn
<1>5. CASE level = 1
  <2>1. ~chip.low /\ level' = 2
    BY <1>1, <1>5, ExpectedAgain
  <2>2. chip' = [Off EXCEPT !.mode = "device", !.at = chip.at]
    BY <1>5, <2>1, StartLine
  <2>3. Is(chip', "device", 0, 0, 0, chip.at, FALSE)
    BY <1>1, <2>1, <2>2, AtRest
  <2>4. Expected(chip', 6, 2)
    BY <1>3, <2>3, ExpectedAgain DEF Is, Started
  <2> QED
    BY <1>1, <1>2, <2>1, <2>4, <1>0, StepsOn
<1>6. CASE level = 2
  <2>1. Started(chip) /\ level' = 3
    BY <1>1, <1>6, ExpectedAgain
  <2>2. chip' = chip
    <3>1. chip.mode \in {"device", "write"} /\ chip.n < 8
      BY <2>1 DEF Started
    <3>2. Fall(chip) = chip
      BY <1>1, <3>1, FallIs, Zenon
    <3> QED
      BY <1>6, <3>2, StartLine
  <2>3. First(161, 0) = 0 /\ Clocks(0) = 0 /\ (0 >= 24) = FALSE
    BY DEF First, Clocks
  <2>4. Expected(chip', 7, 0)
    <3>1. Taking(chip, "device", 0)
      BY <1>1, <2>1, <2>3 DEF Started, Taking
    <3> QED
      BY <1>3, <2>1, <2>2, <2>3, <3>1, ExpectedTurn DEF Started
  <2> QED
    BY <1>1, <1>2, <2>1, <2>4, <1>0, StepsOver
<1> QED
  BY <1>2, <1>4, <1>5, <1>6

\* The stop after the word address: the EEPROM, which took its first clock for a bit, comes to
\* rest.
LEMMA StopStep == ASSUME InItem(5) PROVE InStep' /\ Gathered'
<1>1. /\ Expected(chip, 5, level) /\ chip \in Chips /\ item' = 5 /\ level' = level + 1
      /\ memory' = memory /\ 5 \in 1..(Size + 8) /\ chip.low \in BOOLEAN
      /\ chip.at \in 0..(Size - 1)
  BY NowExpected, ChipIs
<1>0. Gathered'
  <2>1. 5 \in (1..(Size + 8)) \ (8..(Size + 7)) /\ 5 \notin {2, 7}
    BY <1>1
  <2> QED
    BY <2>1, GatheredKept
<1>2. Len(Script[5].levels) = 3 /\ level \in 0..2 /\ 6 = 5 + 1 /\ 3 # 1 /\ 3 # 2
  BY StopLine
<1>3. chip.at = 0 /\ chip.mode = "write" /\ ~chip.low /\ chip.n = (IF level < 2 THEN 0 ELSE 1)
  BY <1>1, ExpectedStop
<1>4. CASE level = 0
  <2>1. chip' = chip /\ level' = 1
    BY <1>1, <1>4, StopLine
  <2>2. Expected(chip', 5, 1)
    BY <1>3, <1>4, <2>1, ExpectedStop
  <2> QED
    BY <1>1, <1>2, <2>1, <2>2, <1>0, StepsOn
<1>5. CASE level = 1
  <2>1. chip' = Rise(chip, 0) /\ level' = 2 /\ chip.n = 0
    BY <1>1, <1>3, <1>5, StopLine DEF Sda
  <2>2. Is(chip', "write", 1, (2 * chip.byte + 0) % 256, chip.word, chip.at, chip.low)
    <3>1. 0 \in {0, 1} /\ chip.n < 8 /\ chip.mode \in {"device", "write"} /\ chip.n + 1 = 1
      BY <1>3, <2>1
    <3>2. Is(Rise(chip, 0), chip.mode, chip.n + 1, (2 * chip.byte + 0) % 256, chip.word,
             chip.at, chip.low)
      BY <1>1, <3>1, RiseIs
    <3> QED
      BY <1>3, <2>1, <3>1, <3>2
  <2>3. Expected(chip', 5, 2)
    BY <1>3, <2>2, ExpectedStop DEF Is
  <2> QED
    BY <1>1, <1>2, <2>1, <2>3, <1>0, StepsOn
<1>6. CASE level = 2
  <2>1. chip' = [Off EXCEPT !.at = chip.at] /\ level' = 3
    BY <1>1, <1>3, <1>6, StopLine
  <2>2. Is(chip', "off", 0, 0, 0, chip.at, FALSE)
    BY <1>1, <2>1, AtRest
  <2>3. Expected(chip', 6, 0)
    BY <1>3, <2>2, ExpectedAgain DEF Is
  <2> QED
    BY <1>1, <1>2, <2>1, <2>3, <1>0, StepsOver
<1> QED
  BY <1>2, <1>4, <1>5, <1>6

\* The last stop: nothing more is expected.
LEMMA EndStep == ASSUME InItem(Size + 8) PROVE InStep' /\ Gathered'
<1>1. /\ item' = Size + 8 /\ level' = level + 1 /\ memory' = memory /\ Size + 8 \in 1..(Size + 8)
  BY NowExpected, EepromAssumption
<1>0. Gathered'
  <2>1. Size + 8 \in (1..(Size + 8)) \ (8..(Size + 7)) /\ Size + 8 \notin {2, 7}
    BY EepromAssumption
  <2> QED
    BY <2>1, GatheredKept
<1>2. Len(Script[Size + 8].levels) = 3 /\ level \in 0..2
  BY StopLine
<1>3. Expected(chip', Size + 8, level') /\ Expected(chip', Size + 9, 0)
  BY ExpectedEnd
<1>4. Size + 9 = Size + 8 + 1
  BY EepromAssumption
<1>5. CASE level' = 3
  BY <1>1, <1>2, <1>3, <1>4, <1>5, <1>0, StepsOver
<1>6. CASE level' # 3
  BY <1>1, <1>2, <1>3, <1>6, <1>0, StepsOn
<1> QED
  BY <1>5, <1>6

\* In a byte, the level is one of three phases of one of nine bits, which both ends make
\* something of.
LEMMA InByte ==
    ASSUME NEW i \in Clocking, InItem(i)
    PROVE  \E q \in 0..8 : LET sda == Sda(Drives(i, q + 1), chip) IN
              /\ sda \in {0, 1}
              /\ \/ level = 3 * q /\ level' = 3 * q + 1 /\ chip' = chip /\ b' = b /\ ack' = ack
                 \/ /\ level = 3 * q + 1 /\ level' = 3 * q + 2 /\ chip' = Rise(chip, sda)
                    /\ b' = (IF i >= 8 /\ q < 8 THEN (2 * b + sda) % 256 ELSE b)
                    /\ ack' = (IF i \in {2, 7} THEN sda = 0 ELSE ack)
                 \/ /\ level = 3 * q + 2 /\ level' = 3 * (q + 1) /\ chip' = Fall(chip)
                    /\ b' = b /\ ack' = ack
<1>1. level \in 0..26 /\ level' = level + 1 /\ item = i /\ EepromTyped /\ Level /\ present
  BY NowExpected DEF InItem
<1>2. PICK q \in 0..8 : level = 3 * q \/ level = 3 * q + 1 \/ level = 3 * q + 2
  BY <1>1, PhaseIs
<1> DEFINE m   == Drives(i, q + 1)
           sda == Sda(m, chip)
<1>3. m \in {0, 1}
  <2>1. q + 1 \in 1..9
    OBVIOUS
  <2> QED
    BY <2>1, DrivesIs
<1>4. sda \in {0, 1}
  <2> HIDE DEF m
  <2> QED
    BY <1>3 DEF Sda
<1>5. sda = Sda(Drives(item, q + 1), chip)
  BY <1>1
<1> HIDE DEF sda
<1>6. CASE level = 3 * q
  <2>1. chip' = chip /\ b' = b /\ ack' = ack
    BY <1>1, <1>5, <1>6, BitStep
  <2>2. level' = 3 * q + 1
    BY <1>1, <1>6
  <2> QED
    BY <1>4, <1>6, <2>1, <2>2 DEF sda
<1>7. CASE level = 3 * q + 1
  <2>1. /\ chip' = Rise(chip, sda)
        /\ b' = (IF i >= 8 /\ q < 8 THEN (2 * b + sda) % 256 ELSE b)
        /\ ack' = (IF i \in {2, 7} THEN sda = 0 ELSE ack)
    BY <1>1, <1>5, <1>7, BitStep
  <2>2. level' = 3 * q + 2
    BY <1>1, <1>7
  <2> QED
    BY <1>4, <1>7, <2>1, <2>2 DEF sda
<1>8. CASE level = 3 * q + 2
  <2>1. chip' = Fall(chip) /\ b' = b /\ ack' = ack
    BY <1>1, <1>5, <1>8, BitStep
  <2>2. level' = 3 * (q + 1)
    BY <1>1, <1>8
  <2> QED
    BY <1>4, <1>8, <2>1, <2>2 DEF sda
<1> QED
  BY <1>2, <1>6, <1>7, <1>8

\* A bit of a byte that is sent to the EEPROM, or its turn to acknowledge.
LEMMA TakesBit ==
    ASSUME NEW c \in Chips, NEW mode \in {"device", "write"}, NEW q \in 0..8, NEW m \in {0, 1},
           c.mode = mode, c.n = q, c.low = (q = 8)
    PROVE  /\ Sda(m, c) = (IF q = 8 THEN 0 ELSE m)
           /\ Is(Rise(c, Sda(m, c)), mode, q + 1,
                 IF q < 8 THEN (2 * c.byte + m) % 256 ELSE c.byte, c.word, c.at, c.low)
<1>1. Sda(m, c) = (IF q = 8 THEN 0 ELSE m) /\ Sda(m, c) \in {0, 1}
  BY DEF Sda
<1>2. CASE q = 8
  <2>1. Is(Rise(c, 0), c.mode, c.n + 1, c.byte, c.word, c.at, c.low)
    <3>1. c.n = 8 /\ c.mode # "off" /\ c.mode # "send" /\ c.n <= 8 /\ 0 \in {0, 1}
      BY <1>2
    <3> QED
      BY <3>1, RiseIs
  <2> QED
    BY <1>1, <1>2, <2>1
<1>3. CASE q < 8
  <2>1. Is(Rise(c, m), c.mode, c.n + 1, (2 * c.byte + m) % 256, c.word, c.at, c.low)
    <3>1. c.n < 8
      BY <1>3
    <3> QED
      BY <3>1, RiseIs
  <2>2. Sda(m, c) = m
    BY <1>1, <1>3
  <2> QED
    BY <1>1, <1>3, <2>1, <2>2
<1> QED
  BY <1>2, <1>3

\* A level of a byte that is sent to the EEPROM: nothing, a bit of it moves in, or SCL falls
\* after the eighth and the ninth.
LEMMA TakesByte ==
    ASSUME NEW i \in {2, 3, 4, 7}, InItem(i), NEW mode \in {"device", "write"},
           Taking(chip, mode, level)
    PROVE  /\ Gathered'
           /\ \/ /\ level' # 27 /\ Clocks(level') = Clocks(level)
                 /\ (level' >= 24) = (level >= 24) /\ (level' < 24) = (level < 24)
                 /\ chip' = chip /\ Taking(chip', mode, level')
              \/ \E q \in 0..8 :
                    /\ level' # 27 /\ Clocks(level) = q /\ Clocks(level') = q + 1
                    /\ (level' >= 24) = (q = 8) /\ (level >= 24) = (q = 8)
                    /\ (level' < 24) = (q < 8) /\ (level < 24) = (q < 8)
                    /\ Is(chip', mode, q + 1,
                          IF q < 8 THEN (2 * chip.byte + Drives(i, q + 1)) % 256 ELSE chip.byte,
                          chip.word, chip.at, q = 8)
                    /\ Taking(chip', mode, level')
              \/ level = 23 /\ level' = 24 /\ chip.n = 8 /\ chip' = Fall(chip)
              \/ level = 26 /\ level' = 27 /\ chip.n = 9 /\ chip' = Fall(chip)
<1>1. /\ chip \in Chips /\ i \in 1..(Size + 8) /\ i \in Clocking /\ ~(i >= 8)
      /\ i \notin 8..(Size + 7)
  BY NowExpected, EepromAssumption DEF Clocking
<1>2. PICK q \in 0..8 : LET sda == Sda(Drives(i, q + 1), chip) IN
         /\ sda \in {0, 1}
         /\ \/ level = 3 * q /\ level' = 3 * q + 1 /\ chip' = chip /\ b' = b /\ ack' = ack
            \/ /\ level = 3 * q + 1 /\ level' = 3 * q + 2 /\ chip' = Rise(chip, sda)
               /\ b' = (IF i >= 8 /\ q < 8 THEN (2 * b + sda) % 256 ELSE b)
               /\ ack' = (IF i \in {2, 7} THEN sda = 0 ELSE ack)
            \/ /\ level = 3 * q + 2 /\ level' = 3 * (q + 1) /\ chip' = Fall(chip)
               /\ b' = b /\ ack' = ack
  BY <1>1, InByte
<1> DEFINE m   == Drives(i, q + 1)
           sda == Sda(m, chip)
<1>3. m \in {0, 1}
  <2>1. q + 1 \in 1..9
    OBVIOUS
  <2> QED
    BY <1>1, <2>1, DrivesIs
<1>4. \/ level = 3 * q /\ level' = 3 * q + 1 /\ chip' = chip /\ ack' = ack
      \/ /\ level = 3 * q + 1 /\ level' = 3 * q + 2 /\ chip' = Rise(chip, sda)
         /\ i \in {2, 7} => ack' = (sda = 0)
      \/ level = 3 * q + 2 /\ level' = 3 * (q + 1) /\ chip' = Fall(chip) /\ ack' = ack
  BY <1>2
<1> HIDE DEF m, sda
<1>5. chip.mode = mode /\ chip.n = Clocks(level) /\ chip.low = (level >= 24)
  BY DEF Taking
<1>6. i \in {2, 7} /\ level >= 26 => ack
  BY NowExpected DEF InItem, Gathered
<1>7. CASE level = 3 * q /\ level' = 3 * q + 1 /\ chip' = chip /\ ack' = ack
  <2>1. /\ Clocks(level') = Clocks(level) /\ (level' >= 24) = (level >= 24)
        /\ (level' < 24) = (level < 24)
    BY <1>7, ClocksIs
  <2>2. level < 25 /\ level' # 27
    BY <1>7
  <2>3. Gathered'
    BY <1>1, <2>2, GatheredKept
  <2>4. Taking(chip', mode, level')
    BY <1>5, <1>7, <2>1 DEF Taking
  <2> QED
    BY <1>7, <2>1, <2>2, <2>3, <2>4
<1>8. CASE /\ level = 3 * q + 1 /\ level' = 3 * q + 2 /\ chip' = Rise(chip, sda)
           /\ i \in {2, 7} => ack' = (sda = 0)
  <2>1. /\ Clocks(level) = q /\ Clocks(level') = q + 1
        /\ (level' >= 24) = (q = 8) /\ (level >= 24) = (q = 8)
        /\ (level' < 24) = (q < 8) /\ (level < 24) = (q < 8)
    BY <1>8, ClocksIs
  <2>2. chip.n = q /\ chip.low = (q = 8)
    BY <1>5, <2>1
  <2>3. /\ sda = (IF q = 8 THEN 0 ELSE m)
        /\ Is(chip', mode, q + 1, IF q < 8 THEN (2 * chip.byte + m) % 256 ELSE chip.byte,
              chip.word, chip.at, q = 8)
    <3>1. /\ Sda(m, chip) = (IF q = 8 THEN 0 ELSE m)
          /\ Is(Rise(chip, Sda(m, chip)), mode, q + 1,
                IF q < 8 THEN (2 * chip.byte + m) % 256 ELSE chip.byte, chip.word, chip.at,
                chip.low)
      BY <1>1, <1>3, <1>5, <2>2, TakesBit
    <3> QED
      BY <1>8, <2>2, <3>1 DEF sda
  <2>4. level' # 27
    BY <1>8
  <2>5. Gathered'
    <3>1. CASE q < 8
      <4>1. level < 25
        BY <1>8, <3>1
      <4> QED
        BY <1>1, <4>1, GatheredKept
    <3>2. CASE q = 8
      <4>1. i \in {2, 7} => ack'
        BY <1>8, <2>3, <3>2
      <4> QED
        BY <1>1, <4>1, GatheredKept
    <3> QED
      BY <3>1, <3>2
  <2>6. Taking(chip', mode, level')
    BY <2>1, <2>3 DEF Is, Taking
  <2> QED
    BY <2>1, <2>3, <2>4, <2>5, <2>6 DEF m
<1>9. CASE level = 3 * q + 2 /\ level' = 3 * (q + 1) /\ chip' = Fall(chip) /\ ack' = ack
  <2>1. /\ Clocks(level) = q + 1 /\ Clocks(level') = q + 1 /\ (level >= 24) = (q = 8)
        /\ (level < 24) = (q < 8)
    BY <1>9, ClocksIs
  <2>2. Gathered'
    <3>1. i \in {2, 7} => level < 25 \/ ack'
      BY <1>6, <1>9
    <3> QED
      BY <1>1, <3>1, GatheredKept
  <2>3. CASE q < 7
    <3>1. chip.n < 8
      BY <1>5, <2>1, <2>3
    <3>2. Fall(chip) = chip
      BY <1>1, <1>5, <3>1, FallIs, Zenon
    <3>3. level' # 27 /\ (level' >= 24) = (q = 8) /\ (level' < 24) = (q < 8)
      BY <1>9, <2>3
    <3>4. Taking(chip', mode, level')
      BY <1>5, <1>9, <2>1, <3>2, <3>3 DEF Taking
    <3> QED
      BY <1>9, <2>1, <2>2, <3>2, <3>3, <3>4
  <2>4. CASE q = 7
    BY <1>5, <1>9, <2>1, <2>2, <2>4
  <2>5. CASE q = 8
    BY <1>5, <1>9, <2>1, <2>2, <2>5
  <2> QED
    BY <2>3, <2>4, <2>5
<1> QED
  BY <1>4, <1>7, <1>8, <1>9

\* inky_eeprom.c:131: the EEPROM recognises its address, and answers.
LEMMA AddressStep == ASSUME InItem(2) PROVE InStep' /\ Gathered'
<1>1. /\ Expected(chip, 2, level) /\ chip \in Chips /\ item' = 2 /\ level' = level + 1
      /\ memory' = memory /\ 2 \in 1..(Size + 8) /\ chip.at \in 0..(Size - 1)
      /\ chip.byte \in 0..255 /\ chip.word \in Nat /\ 2 \in {2, 3, 4, 7}
      /\ 2 \in Clocking
  <2>1. 2 \in Clocking
    BY EepromAssumption DEF Clocking
  <2> QED
    BY <2>1, NowExpected, ChipIs
<1>2. Len(Script[2].levels) = 27 /\ 3 = 2 + 1
  <2>1. Len(Script[2].levels) = 27
    BY <1>1, LevelsAre, Zenon
  <2> QED
    BY <2>1
<1>3. /\ Taking(chip, "device", level)
      /\ chip.byte = First(160, Clocks(level)) /\ chip.word = 0
  BY <1>1, ExpectedAddress
<1>x. /\ First(160, 0) = 0 /\ First(160, 8) = 160 /\ First(160, 9) = 160
      /\ \A n \in 0..7 : First(160, n + 1) = (2 * First(160, n) + Bit(160, n + 1)) % 256
  <2>1. 160 \in 0..255
    OBVIOUS
  <2> QED
    BY <2>1, FirstIs
<1>4. /\ Gathered'
      /\ \/ /\ level' # 27 /\ Clocks(level') = Clocks(level)
            /\ (level' >= 24) = (level >= 24) /\ (level' < 24) = (level < 24)
            /\ chip' = chip /\ Taking(chip', "device", level')
         \/ \E q \in 0..8 :
               /\ level' # 27 /\ Clocks(level) = q /\ Clocks(level') = q + 1
               /\ (level' >= 24) = (q = 8) /\ (level >= 24) = (q = 8)
               /\ (level' < 24) = (q < 8) /\ (level < 24) = (q < 8)
               /\ Is(chip', "device", q + 1,
                     IF q < 8 THEN (2 * chip.byte + Drives(2, q + 1)) % 256 ELSE chip.byte,
                     chip.word, chip.at, q = 8)
               /\ Taking(chip', "device", level')
         \/ level = 23 /\ level' = 24 /\ chip.n = 8 /\ chip' = Fall(chip)
         \/ level = 26 /\ level' = 27 /\ chip.n = 9 /\ chip' = Fall(chip)
  <2>1. "device" \in {"device", "write"}
    OBVIOUS
  <2> QED
    BY <1>1, <1>3, <2>1, TakesByte
<1>5. CASE /\ level' # 27 /\ Clocks(level') = Clocks(level)
           /\ (level' >= 24) = (level >= 24) /\ (level' < 24) = (level < 24)
           /\ chip' = chip /\ Taking(chip', "device", level')
  <2>1. Expected(chip', 2, level')
    BY <1>3, <1>5, ExpectedAddress
  <2> QED
    BY <1>1, <1>2, <1>4, <1>5, <2>1, StepsOn
<1>6. ASSUME NEW q \in 0..8, level' # 27, Clocks(level) = q, Clocks(level') = q + 1,
             (level' >= 24) = (q = 8), (level >= 24) = (q = 8),
             (level' < 24) = (q < 8), (level < 24) = (q < 8),
             Is(chip', "device", q + 1,
                IF q < 8 THEN (2 * chip.byte + Drives(2, q + 1)) % 256 ELSE chip.byte,
                chip.word, chip.at, q = 8),
             Taking(chip', "device", level')
      PROVE  InStep'
  <2>9. Expected(chip', 2, level')
    <3>1. CASE q < 8
      <4>1. q \in 0..7 /\ q + 1 # 9
        BY <3>1
      <4>2. Drives(2, q + 1) = Bit(160, q + 1)
        BY <4>1, EepromAssumption DEF Drives
      <4>3. chip'.byte = (2 * First(160, q) + Bit(160, q + 1)) % 256
        BY <1>3, <1>6, <3>1, <4>2 DEF Is
      <4>4. chip'.byte = First(160, q + 1)
        BY <1>x, <4>1, <4>3
      <4> QED
        BY <1>3, <1>6, <4>4, ExpectedAddress DEF Is
    <3>2. CASE q = 8
      <4>1. First(160, q) = First(160, q + 1)
        BY <1>x, <3>2
      <4>2. chip'.byte = First(160, q + 1)
        BY <1>3, <1>6, <3>2, <4>1 DEF Is
      <4> QED
        BY <1>3, <1>6, <4>2, ExpectedAddress DEF Is
    <3> QED
      BY <3>1, <3>2
  <2> QED
    BY <1>1, <1>2, <1>6, <2>9, StepsOn
<1>7. CASE level = 23 /\ level' = 24 /\ chip.n = 8 /\ chip' = Fall(chip)
  <2>1. Clocks(23) = 8 /\ Clocks(24) = 8 /\ 23 < 24 /\ (24 >= 24) = TRUE /\ ~(24 < 24) /\ 24 # 27
    BY DEF Clocks
  <2>2. chip.mode = "device" /\ chip.n = 8 /\ chip.byte = 160
    BY <1>3, <1>7, <1>x, <2>1 DEF Taking
  <2>3. Is(Fall(chip), "device", 8, chip.byte, chip.word, chip.at, TRUE)
    BY <1>1, <2>2, FallIs
  <2>4. Taking(chip', "device", 24)
    BY <1>7, <2>1, <2>3 DEF Is, Taking
  <2>9. Expected(chip', 2, 24)
    BY <1>3, <1>7, <1>x, <2>1, <2>2, <2>3, <2>4, ExpectedAddress DEF Is
  <2> QED
    BY <1>1, <1>2, <1>4, <1>7, <2>1, <2>9, StepsOn
<1>8. CASE level = 26 /\ level' = 27 /\ chip.n = 9 /\ chip' = Fall(chip)
  <2>1. /\ Clocks(26) = 9 /\ Clocks(0) = 0 /\ (0 >= 24) = FALSE /\ 0 < 24 /\ ~(26 < 24)
        /\ 26 >= 24
    BY DEF Clocks
  <2>2. chip.mode = "device" /\ chip.n = 9 /\ chip.byte = 160 /\ chip.word = 0
    BY <1>3, <1>8, <1>x, <2>1 DEF Taking
  <2>3. Is(Fall(chip), "write", 0, chip.byte, chip.word, chip.at, FALSE)
    <3>1. chip.mode = "device" /\ chip.n = 9 /\ chip.byte # 161
      BY <2>2
    <3> QED
      BY <1>1, <3>1, FallIs
  <2>4. Taking(chip', "write", 0)
    BY <1>8, <2>1, <2>3 DEF Is, Taking
  <2>9. Expected(chip', 3, 0)
    BY <1>8, <2>1, <2>2, <2>3, <2>4, ExpectedHigh DEF Is
  <2> QED
    BY <1>1, <1>2, <1>4, <1>8, <2>9, StepsOver
<1> QED
  BY <1>4, <1>5, <1>6, <1>7, <1>8

\* inky_eeprom.c:132: it takes the high byte of the word address.
LEMMA HighStep == ASSUME InItem(3) PROVE InStep' /\ Gathered'
<1>1. /\ Expected(chip, 3, level) /\ chip \in Chips /\ item' = 3 /\ level' = level + 1
      /\ memory' = memory /\ 3 \in 1..(Size + 8) /\ chip.at \in 0..(Size - 1)
      /\ chip.byte \in 0..255 /\ chip.word \in Nat /\ 3 \in {2, 3, 4, 7}
      /\ 3 \in Clocking
  <2>1. 3 \in Clocking
    BY EepromAssumption DEF Clocking
  <2> QED
    BY <2>1, NowExpected, ChipIs
<1>2. Len(Script[3].levels) = 27 /\ 4 = 3 + 1
  <2>1. Len(Script[3].levels) = 27
    BY <1>1, LevelsAre, Zenon
  <2> QED
    BY <2>1
<1>3. /\ Taking(chip, "write", level)
      /\ chip.word = (IF level < 24 THEN 0 ELSE 1)
  BY <1>1, ExpectedHigh
<1>4. /\ Gathered'
      /\ \/ /\ level' # 27 /\ Clocks(level') = Clocks(level)
            /\ (level' >= 24) = (level >= 24) /\ (level' < 24) = (level < 24)
            /\ chip' = chip /\ Taking(chip', "write", level')
         \/ \E q \in 0..8 :
               /\ level' # 27 /\ Clocks(level) = q /\ Clocks(level') = q + 1
               /\ (level' >= 24) = (q = 8) /\ (level >= 24) = (q = 8)
               /\ (level' < 24) = (q < 8) /\ (level < 24) = (q < 8)
               /\ Is(chip', "write", q + 1,
                     IF q < 8 THEN (2 * chip.byte + Drives(3, q + 1)) % 256 ELSE chip.byte,
                     chip.word, chip.at, q = 8)
               /\ Taking(chip', "write", level')
         \/ level = 23 /\ level' = 24 /\ chip.n = 8 /\ chip' = Fall(chip)
         \/ level = 26 /\ level' = 27 /\ chip.n = 9 /\ chip' = Fall(chip)
  <2>1. "write" \in {"device", "write"}
    OBVIOUS
  <2> QED
    BY <1>1, <1>3, <2>1, TakesByte
<1>5. CASE /\ level' # 27 /\ Clocks(level') = Clocks(level)
           /\ (level' >= 24) = (level >= 24) /\ (level' < 24) = (level < 24)
           /\ chip' = chip /\ Taking(chip', "write", level')
  <2>1. Expected(chip', 3, level')
    BY <1>3, <1>5, ExpectedHigh
  <2> QED
    BY <1>1, <1>2, <1>4, <1>5, <2>1, StepsOn
<1>6. ASSUME NEW q \in 0..8, level' # 27, Clocks(level) = q, Clocks(level') = q + 1,
             (level' >= 24) = (q = 8), (level >= 24) = (q = 8),
             (level' < 24) = (q < 8), (level < 24) = (q < 8),
             Is(chip', "write", q + 1,
                IF q < 8 THEN (2 * chip.byte + Drives(3, q + 1)) % 256 ELSE chip.byte,
                chip.word, chip.at, q = 8),
             Taking(chip', "write", level')
      PROVE  InStep'
  <2>9. Expected(chip', 3, level')
    BY <1>3, <1>6, ExpectedHigh DEF Is
  <2> QED
    BY <1>1, <1>2, <1>6, <2>9, StepsOn
<1>7. CASE level = 23 /\ level' = 24 /\ chip.n = 8 /\ chip' = Fall(chip)
  <2>1. Clocks(23) = 8 /\ Clocks(24) = 8 /\ 23 < 24 /\ (24 >= 24) = TRUE /\ ~(24 < 24) /\ 24 # 27
    BY DEF Clocks
  <2>2. chip.mode = "write" /\ chip.n = 8 /\ chip.word = 0 /\ 0 # 1 /\ 0 + 1 = 1
    BY <1>3, <1>7, <2>1 DEF Taking
  <2>3. Is(Fall(chip), "write", 8, chip.byte, 1, chip.at, TRUE)
    <3>1. Is(Fall(chip), "write", 8, chip.byte, chip.word + 1,
             IF chip.word = 1 THEN chip.byte % Size ELSE chip.at, TRUE)
      BY <1>1, <2>2, FallIs
    <3> QED
      BY <2>2, <3>1
  <2>4. Taking(chip', "write", 24)
    BY <1>7, <2>1, <2>3 DEF Is, Taking
  <2>9. Expected(chip', 3, 24)
    BY <1>7, <2>1, <2>3, <2>4, ExpectedHigh DEF Is
  <2> QED
    BY <1>1, <1>2, <1>4, <1>7, <2>1, <2>9, StepsOn
<1>8. CASE level = 26 /\ level' = 27 /\ chip.n = 9 /\ chip' = Fall(chip)
  <2>1. /\ Clocks(26) = 9 /\ Clocks(0) = 0 /\ (0 >= 24) = FALSE /\ 0 < 24 /\ ~(26 < 24)
        /\ 26 >= 24
    BY DEF Clocks
  <2>2. chip.mode = "write" /\ chip.n = 9 /\ chip.word = 1 /\ ~(0 >= 24)
    BY <1>3, <1>8, <2>1 DEF Taking
  <2>3. Is(Fall(chip), "write", 0, chip.byte, chip.word, chip.at, FALSE)
    BY <1>1, <2>2, FallIs
  <2>4. Taking(chip', "write", 0) /\ Cleared(chip'.byte, 0)
    BY <1>1, <1>8, <2>1, <2>3, ClearedStep DEF Is, Taking
  <2>9. Expected(chip', 4, 0)
    BY <1>8, <2>1, <2>2, <2>3, <2>4, ExpectedLow DEF Is
  <2> QED
    BY <1>1, <1>2, <1>4, <1>8, <2>9, StepsOver
<1> QED
  BY <1>4, <1>5, <1>6, <1>7, <1>8

\* inky_eeprom.c:133: the low byte, and its address is 0.
LEMMA LowStep == ASSUME InItem(4) PROVE InStep' /\ Gathered'
<1>1. /\ Expected(chip, 4, level) /\ chip \in Chips /\ item' = 4 /\ level' = level + 1
      /\ memory' = memory /\ 4 \in 1..(Size + 8) /\ chip.at \in 0..(Size - 1)
      /\ chip.byte \in 0..255 /\ chip.word \in Nat /\ 4 \in {2, 3, 4, 7}
      /\ 4 \in Clocking
  <2>1. 4 \in Clocking
    BY EepromAssumption DEF Clocking
  <2> QED
    BY <2>1, NowExpected, ChipIs
<1>2. Len(Script[4].levels) = 27 /\ 5 = 4 + 1
  <2>1. Len(Script[4].levels) = 27
    BY <1>1, LevelsAre, Zenon
  <2> QED
    BY <2>1
<1>3. /\ Taking(chip, "write", level)
      /\ level < 24 => chip.word = 1 /\ Cleared(chip.byte, Clocks(level))
      /\ level >= 24 => chip.at = 0
  BY <1>1, ExpectedLow
<1>4. /\ Gathered'
      /\ \/ /\ level' # 27 /\ Clocks(level') = Clocks(level)
            /\ (level' >= 24) = (level >= 24) /\ (level' < 24) = (level < 24)
            /\ chip' = chip /\ Taking(chip', "write", level')
         \/ \E q \in 0..8 :
               /\ level' # 27 /\ Clocks(level) = q /\ Clocks(level') = q + 1
               /\ (level' >= 24) = (q = 8) /\ (level >= 24) = (q = 8)
               /\ (level' < 24) = (q < 8) /\ (level < 24) = (q < 8)
               /\ Is(chip', "write", q + 1,
                     IF q < 8 THEN (2 * chip.byte + Drives(4, q + 1)) % 256 ELSE chip.byte,
                     chip.word, chip.at, q = 8)
               /\ Taking(chip', "write", level')
         \/ level = 23 /\ level' = 24 /\ chip.n = 8 /\ chip' = Fall(chip)
         \/ level = 26 /\ level' = 27 /\ chip.n = 9 /\ chip' = Fall(chip)
  <2>1. "write" \in {"device", "write"}
    OBVIOUS
  <2> QED
    BY <1>1, <1>3, <2>1, TakesByte
<1>5. CASE /\ level' # 27 /\ Clocks(level') = Clocks(level)
           /\ (level' >= 24) = (level >= 24) /\ (level' < 24) = (level < 24)
           /\ chip' = chip /\ Taking(chip', "write", level')
  <2>1. Expected(chip', 4, level')
    BY <1>3, <1>5, ExpectedLow
  <2> QED
    BY <1>1, <1>2, <1>4, <1>5, <2>1, StepsOn
<1>6. ASSUME NEW q \in 0..8, level' # 27, Clocks(level) = q, Clocks(level') = q + 1,
             (level' >= 24) = (q = 8), (level >= 24) = (q = 8),
             (level' < 24) = (q < 8), (level < 24) = (q < 8),
             Is(chip', "write", q + 1,
                IF q < 8 THEN (2 * chip.byte + Drives(4, q + 1)) % 256 ELSE chip.byte,
                chip.word, chip.at, q = 8),
             Taking(chip', "write", level')
      PROVE  InStep'
  <2>9. Expected(chip', 4, level')
    <3>1. CASE q < 8
      <4>1. q \in 0..7 /\ q + 1 # 9
        BY <3>1
      <4>2. Drives(4, q + 1) = 0
        <5>1. Drives(4, q + 1) = Bit(0, q + 1)
          BY <4>1, EepromAssumption DEF Drives
        <5>2. \A k \in 1..8 : Bit(0, k) = 0
          <6>1. ASSUME NEW k \in 1..8 PROVE Bit(0, k) = 0
            <7>1. k = 1 \/ k = 2 \/ k = 3 \/ k = 4 \/ k = 5 \/ k = 6 \/ k = 7 \/ k = 8
              OBVIOUS
            <7> QED
              BY <7>1 DEF Bit, Weight
          <6> QED
            BY <6>1
        <5> QED
          BY <4>1, <5>1, <5>2
      <4>3. Cleared(chip.byte, q) /\ chip.word = 1
        BY <1>3, <1>6, <3>1
      <4>4. Cleared((2 * chip.byte + 0) % 256, q + 1)
        BY <1>1, <4>1, <4>3, ClearedStep
      <4>5. chip'.byte = (2 * chip.byte + 0) % 256 /\ chip'.word = chip.word
        BY <1>6, <3>1, <4>2 DEF Is
      <4>6. ~(level' >= 24)
        BY <1>6, <3>1
      <4> QED
        BY <1>6, <4>3, <4>4, <4>5, <4>6, ExpectedLow
    <3>2. CASE q = 8
      <4>1. level >= 24 /\ ~(level' < 24)
        BY <1>6, <3>2
      <4> QED
        BY <1>3, <1>6, <4>1, ExpectedLow DEF Is
    <3> QED
      BY <3>1, <3>2
  <2> QED
    BY <1>1, <1>2, <1>6, <2>9, StepsOn
<1>7. CASE level = 23 /\ level' = 24 /\ chip.n = 8 /\ chip' = Fall(chip)
  <2>1. Clocks(23) = 8 /\ Clocks(24) = 8 /\ 23 < 24 /\ (24 >= 24) = TRUE /\ ~(24 < 24) /\ 24 # 27
    BY DEF Clocks
  <2>2. chip.mode = "write" /\ chip.n = 8 /\ chip.word = 1 /\ Cleared(chip.byte, 8)
    BY <1>3, <1>7, <2>1 DEF Taking
  <2>3. chip.byte = 0 /\ 0 % Size = 0
    <3>1. 0 \in 0..(Size - 1)
      BY EepromAssumption
    <3> QED
      BY <1>1, <2>2, <3>1, ClearedStep, Small
  <2>4. Is(Fall(chip), "write", 8, chip.byte, chip.word + 1, 0, TRUE)
    <3>1. Is(Fall(chip), "write", 8, chip.byte, chip.word + 1,
             IF chip.word = 1 THEN chip.byte % Size ELSE chip.at, TRUE)
      BY <1>1, <2>2, FallIs
    <3> QED
      BY <2>2, <2>3, <3>1
  <2>5. Taking(chip', "write", 24)
    BY <1>7, <2>1, <2>4 DEF Is, Taking
  <2>9. Expected(chip', 4, 24)
    BY <1>7, <2>1, <2>4, <2>5, ExpectedLow DEF Is
  <2> QED
    BY <1>1, <1>2, <1>4, <1>7, <2>1, <2>9, StepsOn
<1>8. CASE level = 26 /\ level' = 27 /\ chip.n = 9 /\ chip' = Fall(chip)
  <2>1. /\ Clocks(26) = 9 /\ Clocks(0) = 0 /\ (0 >= 24) = FALSE /\ 0 < 24 /\ ~(26 < 24)
        /\ 26 >= 24
    BY DEF Clocks
  <2>2. chip.mode = "write" /\ chip.n = 9 /\ chip.at = 0
    BY <1>3, <1>8, <2>1 DEF Taking
  <2>3. Is(Fall(chip), "write", 0, chip.byte, chip.word, chip.at, FALSE)
    BY <1>1, <2>2, FallIs
  <2>4. 0 < 2
    OBVIOUS
  <2>9. Expected(chip', 5, 0)
    BY <1>8, <2>2, <2>3, <2>4, ExpectedStop DEF Is
  <2> QED
    BY <1>1, <1>2, <1>4, <1>8, <2>9, StepsOver
<1> QED
  BY <1>4, <1>5, <1>6, <1>7, <1>8

\* inky_eeprom.c:138: it recognises its address with the read bit, and sends its first bit.
LEMMA TurnStep == ASSUME InItem(7) PROVE InStep' /\ Gathered'
<1>1. /\ Expected(chip, 7, level) /\ chip \in Chips /\ item' = 7 /\ level' = level + 1
      /\ memory' = memory /\ 7 \in 1..(Size + 8) /\ chip.at \in 0..(Size - 1)
      /\ chip.byte \in 0..255 /\ chip.word \in Nat /\ 7 \in {2, 3, 4, 7}
      /\ 7 \in Clocking
  <2>1. 7 \in Clocking
    BY EepromAssumption DEF Clocking
  <2> QED
    BY <2>1, NowExpected, ChipIs
<1>2. Len(Script[7].levels) = 27 /\ 8 = 7 + 1
  <2>1. Len(Script[7].levels) = 27
    BY <1>1, LevelsAre, Zenon
  <2> QED
    BY <2>1
<1>3. /\ Taking(chip, "device", level)
      /\ chip.byte = First(161, Clocks(level)) /\ chip.at = 0
  BY <1>1, ExpectedTurn
<1>x. /\ First(161, 0) = 0 /\ First(161, 8) = 161 /\ First(161, 9) = 161
      /\ \A n \in 0..7 : First(161, n + 1) = (2 * First(161, n) + Bit(161, n + 1)) % 256
  <2>1. 161 \in 0..255
    OBVIOUS
  <2> QED
    BY <2>1, FirstIs
<1>4. /\ Gathered'
      /\ \/ /\ level' # 27 /\ Clocks(level') = Clocks(level)
            /\ (level' >= 24) = (level >= 24) /\ (level' < 24) = (level < 24)
            /\ chip' = chip /\ Taking(chip', "device", level')
         \/ \E q \in 0..8 :
               /\ level' # 27 /\ Clocks(level) = q /\ Clocks(level') = q + 1
               /\ (level' >= 24) = (q = 8) /\ (level >= 24) = (q = 8)
               /\ (level' < 24) = (q < 8) /\ (level < 24) = (q < 8)
               /\ Is(chip', "device", q + 1,
                     IF q < 8 THEN (2 * chip.byte + Drives(7, q + 1)) % 256 ELSE chip.byte,
                     chip.word, chip.at, q = 8)
               /\ Taking(chip', "device", level')
         \/ level = 23 /\ level' = 24 /\ chip.n = 8 /\ chip' = Fall(chip)
         \/ level = 26 /\ level' = 27 /\ chip.n = 9 /\ chip' = Fall(chip)
  <2>1. "device" \in {"device", "write"}
    OBVIOUS
  <2> QED
    BY <1>1, <1>3, <2>1, TakesByte
<1>5. CASE /\ level' # 27 /\ Clocks(level') = Clocks(level)
           /\ (level' >= 24) = (level >= 24) /\ (level' < 24) = (level < 24)
           /\ chip' = chip /\ Taking(chip', "device", level')
  <2>1. Expected(chip', 7, level')
    BY <1>3, <1>5, ExpectedTurn
  <2> QED
    BY <1>1, <1>2, <1>4, <1>5, <2>1, StepsOn
<1>6. ASSUME NEW q \in 0..8, level' # 27, Clocks(level) = q, Clocks(level') = q + 1,
             (level' >= 24) = (q = 8), (level >= 24) = (q = 8),
             (level' < 24) = (q < 8), (level < 24) = (q < 8),
             Is(chip', "device", q + 1,
                IF q < 8 THEN (2 * chip.byte + Drives(7, q + 1)) % 256 ELSE chip.byte,
                chip.word, chip.at, q = 8),
             Taking(chip', "device", level')
      PROVE  InStep'
  <2>9. Expected(chip', 7, level')
    <3>1. CASE q < 8
      <4>1. q \in 0..7 /\ q + 1 # 9
        BY <3>1
      <4>2. Drives(7, q + 1) = Bit(161, q + 1)
        BY <4>1, EepromAssumption DEF Drives
      <4>3. chip'.byte = (2 * First(161, q) + Bit(161, q + 1)) % 256
        BY <1>3, <1>6, <3>1, <4>2 DEF Is
      <4>4. chip'.byte = First(161, q + 1)
        BY <1>x, <4>1, <4>3
      <4> QED
        BY <1>3, <1>6, <4>4, ExpectedTurn DEF Is
    <3>2. CASE q = 8
      <4>1. First(161, q) = First(161, q + 1)
        BY <1>x, <3>2
      <4>2. chip'.byte = First(161, q + 1)
        BY <1>3, <1>6, <3>2, <4>1 DEF Is
      <4> QED
        BY <1>3, <1>6, <4>2, ExpectedTurn DEF Is
    <3> QED
      BY <3>1, <3>2
  <2> QED
    BY <1>1, <1>2, <1>6, <2>9, StepsOn
<1>7. CASE level = 23 /\ level' = 24 /\ chip.n = 8 /\ chip' = Fall(chip)
  <2>1. Clocks(23) = 8 /\ Clocks(24) = 8 /\ 23 < 24 /\ (24 >= 24) = TRUE /\ ~(24 < 24) /\ 24 # 27
    BY DEF Clocks
  <2>2. chip.mode = "device" /\ chip.n = 8 /\ chip.byte = 161
    BY <1>3, <1>7, <1>x, <2>1 DEF Taking
  <2>3. Is(Fall(chip), "device", 8, chip.byte, chip.word, chip.at, TRUE)
    BY <1>1, <2>2, FallIs
  <2>4. Taking(chip', "device", 24)
    BY <1>7, <2>1, <2>3 DEF Is, Taking
  <2>9. Expected(chip', 7, 24)
    BY <1>3, <1>7, <1>x, <2>1, <2>2, <2>3, <2>4, ExpectedTurn DEF Is
  <2> QED
    BY <1>1, <1>2, <1>4, <1>7, <2>1, <2>9, StepsOn
<1>8. CASE level = 26 /\ level' = 27 /\ chip.n = 9 /\ chip' = Fall(chip)
  <2>1. /\ Clocks(26) = 9 /\ Clocks(0) = 0 /\ (0 >= 24) = FALSE /\ 0 < 24 /\ ~(26 < 24)
        /\ 26 >= 24
    BY DEF Clocks
  <2>2. chip.mode = "device" /\ chip.n = 9 /\ chip.byte = 161 /\ chip.at = 0
    BY <1>3, <1>8, <1>x, <2>1 DEF Taking
  <2> DEFINE l == Bit(memory[0], 1) = 0
  <2>3. Is(Fall(chip), "send", 0, chip.byte, chip.word, 0, l)
    BY <1>1, <2>2, FallIs
  <2>4. 0 \div 3 + 1 = 1 /\ 0 < 26 /\ 8 \in 8..(Size + 7) /\ 8 - 8 = 0 /\ 0 # 26
    BY EepromAssumption
  <2>5. (0 < 24 /\ Bit(memory[8 - 8], 0 \div 3 + 1) = 0) = l
    BY <2>1, <2>4
  <2> HIDE DEF l
  <2>9. Expected(chip', 8, 0)
    BY <1>8, <2>1, <2>3, <2>4, <2>5, ExpectedByte DEF Is
  <2> QED
    BY <1>1, <1>2, <1>4, <1>8, <2>9, StepsOver
<1> QED
  BY <1>4, <1>5, <1>6, <1>7, <1>8

\* A byte is read bit by bit.
LEMMA GatheredByte ==
    ASSUME NEW i \in 8..(Size + 7), InItem(i), b' = First(memory[i - 8], Clocks(level'))
    PROVE  Gathered'
<1>1. item' = i /\ memory' = memory /\ d' = d /\ Reading /\ i >= 8 /\ i \notin {2, 7}
  BY NowExpected DEF InItem
<1>2. d = [k \in 1..(i - 8) |-> memory[k - 1]]
  BY <1>1 DEF InItem, Gathered
<1> QED
  BY <1>1, <1>2 DEF Gathered

\* inky_eeprom.c:92-108: a bit at a time the EEPROM sends a byte and the master reads it.
LEMMA ByteStep == ASSUME NEW i \in 8..(Size + 7), InItem(i) PROVE InStep' /\ Gathered'
<1> DEFINE x == memory[i - 8]
<1>1. /\ Expected(chip, i, level) /\ chip \in Chips /\ item' = i /\ level' = level + 1
      /\ memory' = memory /\ i \in 1..(Size + 8) /\ i \in Clocking /\ chip.mode \in Modes
      /\ i - 8 \in 0..(Size - 1) /\ x \in 0..255
  <2>1. i \in Clocking /\ i - 8 \in 0..(Size - 1)
    BY EepromAssumption DEF Clocking
  <2>2. memory \in [0..(Size - 1) -> 0..255]
    BY NowExpected, EepromAssumption
  <2>3. x \in 0..255
    BY <2>1, <2>2
  <2> QED
    BY <2>1, <2>3, NowExpected, ChipIs
<1>2. /\ First(x, 8) = First(x, 9)
      /\ \A n \in 0..7 : First(x, n + 1) = (2 * First(x, n) + Bit(x, n + 1)) % 256
      /\ \A k \in 1..8 : Bit(x, k) \in {0, 1}
  BY <1>1, FirstIs, BitIs
<1>3. b = First(x, Clocks(level))
  BY <1>1 DEF InItem, Gathered
<1>4. PICK q \in 0..8 : LET sda == Sda(Drives(i, q + 1), chip) IN
         /\ sda \in {0, 1}
         /\ \/ level = 3 * q /\ level' = 3 * q + 1 /\ chip' = chip /\ b' = b /\ ack' = ack
            \/ /\ level = 3 * q + 1 /\ level' = 3 * q + 2 /\ chip' = Rise(chip, sda)
               /\ b' = (IF i >= 8 /\ q < 8 THEN (2 * b + sda) % 256 ELSE b)
               /\ ack' = (IF i \in {2, 7} THEN sda = 0 ELSE ack)
            \/ /\ level = 3 * q + 2 /\ level' = 3 * (q + 1) /\ chip' = Fall(chip)
               /\ b' = b /\ ack' = ack
  BY <1>1, InByte
<1> DEFINE m   == Drives(i, q + 1)
           sda == Sda(m, chip)
<1>5. m = (IF q < 8 \/ i = Size + 7 THEN 1 ELSE 0)
  <2>1. i \in 8..(Size + 6) <=> i # Size + 7
    BY EepromAssumption
  <2>2. q + 1 = 9 <=> ~(q < 8)
    OBVIOUS
  <2>3. i \notin {2, 3, 4, 7}
    OBVIOUS
  <2> QED
    BY <2>1, <2>2, <2>3 DEF Drives
<1>6. sda = IF chip.low THEN 0 ELSE m
  BY DEF Sda
<1>7. \/ level = 3 * q /\ level' = 3 * q + 1 /\ chip' = chip /\ b' = b
      \/ /\ level = 3 * q + 1 /\ level' = 3 * q + 2 /\ chip' = Rise(chip, sda) /\ sda \in {0, 1}
         /\ b' = (IF q < 8 THEN (2 * b + sda) % 256 ELSE b)
      \/ level = 3 * q + 2 /\ level' = 3 * (q + 1) /\ chip' = Fall(chip) /\ b' = b
  BY <1>4
<1> HIDE DEF m, sda
<1>8. Len(Script[i].levels) = 27
  BY <1>1, LevelsAre, Zenon
<1>9. /\ i < Size + 7 \/ level < 26 =>
            chip.mode = "send" /\ chip.n = Clocks(level) /\ chip.at = i - 8
      /\ i = Size + 7 /\ level = 26 => chip.mode = "off"
      /\ chip.low = (level < 24 /\ Bit(x, level \div 3 + 1) = 0)
  BY <1>1, ExpectedByte
<1>10. CASE level = 3 * q /\ level' = 3 * q + 1 /\ chip' = chip /\ b' = b
  <2>1. /\ level < 26 /\ level' < 26 /\ level' # 26 /\ level' # 27
        /\ Clocks(level') = Clocks(level) /\ (level' < 24) = (level < 24)
        /\ level' \div 3 = level \div 3
    BY <1>10, ClocksIs
  <2>2. Gathered'
    BY <1>3, <1>10, <2>1, GatheredByte
  <2>3. Expected(chip', i, level')
    BY <1>9, <1>10, <2>1, ExpectedByte
  <2> QED
    BY <1>1, <1>8, <2>1, <2>2, <2>3, StepsOn
<1>11. CASE /\ level = 3 * q + 1 /\ level' = 3 * q + 2 /\ chip' = Rise(chip, sda)
            /\ sda \in {0, 1} /\ b' = (IF q < 8 THEN (2 * b + sda) % 256 ELSE b)
  <2>1. /\ level < 26 /\ level' # 27 /\ Clocks(level) = q /\ Clocks(level') = q + 1
        /\ (level < 24) = (q < 8) /\ (level' < 24) = (q < 8)
        /\ level \div 3 = q /\ level' \div 3 = q
    BY <1>11, ClocksIs
  <2>2. /\ chip.mode = "send" /\ chip.n = q /\ chip.at = i - 8
        /\ chip.low = (q < 8 /\ Bit(x, q + 1) = 0)
    BY <1>9, <2>1
  <2>3. CASE q < 8
    <3>1. q \in 0..7 /\ q + 1 \in 1..8
      BY <2>3
    <3>2. sda = Bit(x, q + 1)
      BY <1>2, <1>5, <1>6, <2>2, <2>3, <3>1
    <3>3. Gathered'
      <4>1. b' = (2 * First(x, q) + Bit(x, q + 1)) % 256
        BY <1>3, <1>11, <2>1, <2>3, <3>2
      <4>2. b' = First(x, q + 1)
        BY <1>2, <3>1, <4>1
      <4> QED
        BY <2>1, <4>2, GatheredByte
    <3>4. Is(chip', "send", q + 1, chip.byte, chip.word, chip.at, chip.low)
      <4>1. /\ chip.mode \notin {"device", "write"}
            /\ ~(chip.mode = "send" /\ chip.n = 8 /\ sda = 1)
            /\ chip.mode # "off" /\ chip.n <= 8
        BY <2>2, <2>3
      <4>2. Is(Rise(chip, sda), chip.mode, chip.n + 1, chip.byte, chip.word, chip.at, chip.low)
        BY <1>1, <1>11, <4>1, RiseIs
      <4> QED
        BY <1>11, <2>2, <4>2
    <3>5. level' # 26
      BY <1>11, <2>3
    <3>6. Expected(chip', i, level')
      BY <2>1, <2>2, <3>4, <3>5, ExpectedByte DEF Is
    <3> QED
      BY <1>1, <1>8, <2>1, <3>3, <3>6, StepsOn
  <2>4. CASE q = 8
    <3>1. ~chip.low /\ sda = m /\ level' = 26 /\ ~(q < 8)
      <4>1. ~(q < 8) /\ level' = 26
        BY <1>11, <2>4
      <4>2. ~chip.low
        BY <2>2, <4>1
      <4> QED
        BY <1>6, <4>1, <4>2
    <3>2. Gathered'
      <4>1. b' = First(x, q + 1)
        BY <1>2, <1>3, <1>11, <2>1, <2>4
      <4> QED
        BY <2>1, <4>1, GatheredByte
    <3>3. CASE i = Size + 7
      <4>1. sda = 1
        BY <1>5, <3>1, <3>3
      <4>2. Is(chip', "off", 0, 0, 0, (chip.at + 1) % Size, FALSE)
        BY <1>1, <1>11, <2>2, <2>4, <4>1, RiseIs
      <4>3. ~(i < Size + 7)
        BY <3>3, EepromAssumption
      <4>4. Expected(chip', i, level')
        <5>1. chip'.mode = "off" /\ chip'.low = FALSE /\ ~(level' < 26) /\ ~(level' < 24)
          BY <3>1, <4>2 DEF Is
        <5> QED
          BY <4>3, <5>1, ExpectedByte
      <4> QED
        BY <1>1, <1>8, <2>1, <3>2, <4>4, StepsOn
    <3>4. CASE i # Size + 7
      <4>1. sda = 0
        BY <1>5, <3>1, <3>4
      <4>2. Is(chip', "send", q + 1, chip.byte, chip.word, chip.at, chip.low)
        <5>1. /\ chip.mode \notin {"device", "write"}
              /\ ~(chip.mode = "send" /\ chip.n = 8 /\ sda = 1)
              /\ chip.mode # "off" /\ chip.n <= 8
          BY <2>2, <2>4, <4>1
        <5>2. Is(Rise(chip, sda), chip.mode, chip.n + 1, chip.byte, chip.word, chip.at, chip.low)
          BY <1>1, <1>11, <5>1, RiseIs
        <5> QED
          BY <1>11, <2>2, <5>2
      <4>3. Expected(chip', i, level')
        BY <2>1, <2>2, <2>4, <3>1, <3>4, <4>2, ExpectedByte DEF Is
      <4> QED
        BY <1>1, <1>8, <2>1, <3>2, <4>3, StepsOn
    <3> QED
      BY <3>3, <3>4
  <2> QED
    BY <2>3, <2>4
<1>12. CASE level = 3 * q + 2 /\ level' = 3 * (q + 1) /\ chip' = Fall(chip) /\ b' = b
  <2>1. Clocks(level) = q + 1 /\ Clocks(level') = q + 1
    BY <1>12, ClocksIs
  <2>2. Gathered'
    BY <1>3, <1>12, <2>1, GatheredByte
  <2>3. CASE q < 8
    <3>1. level < 26 /\ level' # 26 /\ level' # 27
      BY <1>12, <2>3
    <3>2. chip.mode = "send" /\ chip.n = q + 1 /\ chip.at = i - 8
      BY <1>9, <2>1, <3>1
    <3>3. CASE q < 7
      <4>1. level' < 24 /\ level' \div 3 = q + 1 /\ q + 1 < 8
        BY <1>12, <3>3
      <4> DEFINE l == Bit(x, q + 1 + 1) = 0
      <4>2. Is(chip', "send", q + 1, chip.byte, chip.word, chip.at, l)
        BY <1>1, <1>12, <3>2, <4>1, FallIs
      <4>3. (level' < 24 /\ Bit(memory[i - 8], level' \div 3 + 1) = 0) = l
        BY <4>1
      <4> HIDE DEF l
      <4>4. Expected(chip', i, level')
        BY <2>1, <3>1, <3>2, <4>2, <4>3, ExpectedByte DEF Is
      <4> QED
        BY <1>1, <1>8, <2>2, <3>1, <4>4, StepsOn
    <3>4. CASE q = 7
      <4>1. ~(level' < 24)
        BY <1>12, <3>4
      <4>2. Is(chip', "send", 8, chip.byte, chip.word, chip.at, FALSE) /\ q + 1 = 8
        <5>1. chip.mode = "send" /\ chip.n = 8 /\ q + 1 = 8
          BY <3>2, <3>4
        <5>2. Is(Fall(chip), "send", 8, chip.byte, chip.word, chip.at, FALSE)
          BY <1>1, <5>1, FallIs
        <5> QED
          BY <1>12, <5>1, <5>2
      <4>3. Expected(chip', i, level')
        BY <2>1, <3>1, <3>2, <4>1, <4>2, ExpectedByte DEF Is
      <4> QED
        BY <1>1, <1>8, <2>2, <3>1, <4>3, StepsOn
    <3> QED
      BY <2>3, <3>3, <3>4
  <2>4. CASE q = 8
    <3>1. level = 26 /\ level' = 27 /\ q + 1 = 9
      BY <1>12, <2>4
    <3>2. CASE i = Size + 7
      <4>1. i + 1 \in {Size + 8, Size + 9}
        BY <3>2, EepromAssumption
      <4>2. Expected(chip', i + 1, 0)
        BY <4>1, ExpectedEnd
      <4> QED
        BY <1>1, <1>8, <2>2, <3>1, <4>2, StepsOver
    <3>3. CASE i # Size + 7
      <4>1. i < Size + 7 /\ i + 1 \in 8..(Size + 7) /\ i - 8 + 1 \in 0..(Size - 1)
            /\ i + 1 - 8 = i - 8 + 1
        BY <3>3, EepromAssumption
      <4>2. chip.mode = "send" /\ chip.n = 9 /\ chip.at = i - 8
        BY <1>9, <2>1, <3>1, <4>1
      <4> DEFINE z == i - 8 + 1
                 l == Bit(memory[z], 1) = 0
      <4>3. (chip.at + 1) % Size = z
        BY <4>1, <4>2, Small
      <4>4. Is(chip', "send", 0, chip.byte, chip.word, z, l)
        <5>1. Is(Fall(chip), "send", 0, chip.byte, chip.word, (chip.at + 1) % Size,
                 Bit(memory[(chip.at + 1) % Size], 1) = 0)
          BY <1>1, <4>2, FallIs
        <5> QED
          BY <1>12, <4>3, <5>1
      <4>5. Clocks(0) = 0 /\ 0 < 24 /\ 0 < 26 /\ 0 # 26 /\ 0 \div 3 + 1 = 1
        BY DEF Clocks
      <4>6. (0 < 24 /\ Bit(memory[i + 1 - 8], 0 \div 3 + 1) = 0) = l
        BY <4>1, <4>5
      <4>7. i + 1 - 8 = z
        BY <4>1
      <4> HIDE DEF l, z
      <4>8. Expected(chip', i + 1, 0)
        BY <4>1, <4>4, <4>5, <4>6, <4>7, ExpectedByte DEF Is
      <4> QED
        BY <1>1, <1>8, <2>2, <3>1, <4>8, StepsOver
    <3> QED
      BY <3>2, <3>3
  <2> QED
    BY <2>3, <2>4
<1> QED
  BY <1>7, <1>10, <1>11, <1>12

\* inky_eeprom.c:127-160: whatever is read, both ends keep step.
LEMMA ReadsOn ==
    ASSUME EepromTyped, Unanswered, InStep, Gathered, Level, Reading PROVE InStep' /\ Gathered'
<1>1. InItem(item) /\ item \in 1..(Size + 8)
  BY EepromTypes DEF InItem, EepromTyped
<1>2. \/ item = 1 \/ item = 2 \/ item = 3 \/ item = 4 \/ item = 5 \/ item = 6 \/ item = 7
      \/ item \in 8..(Size + 7) \/ item = Size + 8
  BY <1>1, EepromAssumption
<1>3. CASE item = 1
  BY <1>1, <1>3, FirstStep
<1>4. CASE item = 2
  BY <1>1, <1>4, AddressStep
<1>5. CASE item = 3
  BY <1>1, <1>5, HighStep
<1>6. CASE item = 4
  BY <1>1, <1>6, LowStep
<1>7. CASE item = 5
  BY <1>1, <1>7, StopStep
<1>8. CASE item = 6
  BY <1>1, <1>8, AgainStep
<1>9. CASE item = 7
  BY <1>1, <1>9, TurnStep
<1>10. CASE item \in 8..(Size + 7)
  BY <1>1, <1>10, ByteStep
<1>11. CASE item = Size + 8
  BY <1>1, <1>11, EndStep
<1> QED
  BY <1>2, <1>3, <1>4, <1>5, <1>6, <1>7, <1>8, <1>9, <1>10, <1>11

\* inky_eeprom.c:81-89: nobody pulls SDA low in the ACK slot.
LEMMA StaysUnanswered == ASSUME EepromTyped, Unanswered, Level PROVE Unanswered'
<1>1. SUFFICES ASSUME ~present PROVE Unanswered'
  BY LevelIs DEF Unanswered
<1>2. /\ chip = Off /\ read = "no" /\ item \in {1, 2, Size + 8} /\ d = <<>> /\ chip.low = FALSE
      /\ item = 2 /\ level >= 26 => ~ack
  BY <1>1, LevelIs DEF Unanswered, Off
<1>3. /\ item' = item /\ d' = d /\ read' = read /\ present' = present /\ level' = level + 1
      /\ level < Len(Script[item].levels) /\ chip' = Sees(chip, line, line')
      /\ ack' = (IF line'[2] = 1 /\ line[2] = 0 /\ Script[item].op = "address"
                 THEN Sda(line'[1], chip) = 0 ELSE ack)
  BY LevelIs
<1>4. chip' = Off
  BY <1>1, <1>2, <1>3 DEF Sees
<1>5. ASSUME item = 2, level' >= 26 PROVE ~ack'
  <2>1. item \in Clocking /\ level \in 0..27 /\ 8 \in 0..8 /\ 8 + 1 = 9 /\ 9 \in 1..9
        /\ 2 \in 1..(Size + 8)
    BY <1>5, EepromTypes, EepromAssumption DEF EepromTyped, Clocking
  <2>2. level < 27
    <3>1. Len(Script[item].levels) = 27
      BY <1>5, <2>1, LevelsAre, Zenon
    <3> QED
      BY <1>3, <3>1
  <2>3. CASE level = 25
    <3>1. line' = << Drives(item, 8 + 1), 1 >>
      <4>1. level = 3 * 8 + 1
        BY <2>3
      <4> QED
        BY <2>1, <4>1, ClockIs
    <3>2. Drives(item, 8 + 1) = 1
      <4>1. 2 \notin 8..(Size + 6)
        OBVIOUS
      <4> QED
        BY <1>5, <2>1, <4>1 DEF Drives
    <3>3. Script[item].op = "address" /\ line[2] = 0
      <4>1. level = 3 * 8 + 1
        BY <2>3
      <4>2. line[2] = 0
        BY <2>1, <4>1, ClockIs
      <4>3. 2 \in Clocking
        BY <1>5, <2>1
      <4>4. Script[2].op = "address"
        BY <2>1, <4>3, ItemIs
      <4> QED
        BY <1>5, <4>2, <4>4
    <3>4. ack' = (Sda(1, chip) = 0)
      BY <1>3, <3>1, <3>2, <3>3
    <3>5. (Sda(1, chip) = 0) = FALSE
      BY <1>2 DEF Sda
    <3> QED
      BY <3>4, <3>5
  <2>4. CASE level = 26
    <3>1. line' = << Drives(item, 8 + 1), 0 >>
      <4>1. level = 3 * 8 + 2
        BY <2>4
      <4> QED
        BY <2>1, <4>1, ClockIs
    <3>2. ack' = ack
      BY <1>3, <3>1
    <3> QED
      BY <1>2, <1>5, <2>4, <3>2
  <2> QED
    BY <1>3, <1>5, <2>1, <2>2, <2>3, <2>4
<1> QED
  BY <1>1, <1>2, <1>3, <1>4, <1>5 DEF Unanswered

\* A level keeps the invariant.
LEMMA LevelKeeps == ASSUME EepromInv, Level PROVE EepromInv'
<1>1. EepromTyped /\ InStep /\ Gathered /\ Unanswered
  BY DEF EepromInv
<1>2. EepromTyped' /\ Unanswered'
  BY <1>1, LevelTyped, StaysUnanswered
<1>3. Reading' <=> Reading
  BY LevelIs DEF Reading
<1>4. InStep' /\ Gathered'
  <2>1. CASE Reading
    BY <1>1, <2>1, ReadsOn
  <2>2. CASE ~Reading
    BY <1>3, <2>2 DEF InStep, Gathered
  <2> QED
    BY <2>1, <2>2
<1>5. RightPanel'
  BY LevelIs DEF RightPanel
<1> QED
  BY <1>2, <1>4, <1>5 DEF EepromInv

-----------------------------------------------------------------------------
(* From item to item. *)

\* inky_eeprom.c:127-160: what follows an item.
LEMMA ItemTo ==
    ASSUME EepromTyped, Item
    PROVE  /\ read = "no" /\ item \in 1..(Size + 8) /\ level = Len(Script[item].levels)
           /\ level = (IF item \in Clocking THEN 27 ELSE 3)
           /\ level' = 0 /\ b' = 0
           /\ d' = (IF item \in 8..(Size + 7) THEN Append(d, b) ELSE d)
           /\ item' = (IF item \in {2, 7} /\ ~ack THEN Size + 8
                       ELSE IF item < Size + 8 THEN item + 1 ELSE 1)
           /\ read' = (IF item < Size + 8 THEN "no" ELSE IF Len(d) = Size THEN "good" ELSE "bad")
           /\ ack' = ack /\ line' = line /\ present' = present /\ memory' = memory
           /\ chip' = chip /\ caught' = caught
<1>1. item \in 1..(Size + 8)
  BY EepromTypes DEF EepromTyped
<1>2. Len(Script) = Size + 8
  BY ScriptIs
<1>3. /\ Script[item].op = "address" <=> item \in {2, 7}
      /\ Script[item].op = "read" <=> item \in 8..(Size + 7)
  <2>1. CASE item \in {1, 6}
    BY <1>1, <2>1, ItemIs, EepromAssumption
  <2>2. CASE item \in {5, Size + 8}
    BY <1>1, <2>2, ItemIs, EepromAssumption
  <2>3. CASE item \in Clocking
    <3>1. Script[item].op = (IF item \in {2, 7} THEN "address"
                             ELSE IF item \in {3, 4} THEN "write" ELSE "read")
      BY <1>1, <2>3, ItemIs
    <3>2. item \in {2, 7} \/ item \in {3, 4} \/ item \in 8..(Size + 7)
      BY <2>3, EepromAssumption DEF Clocking
    <3> QED
      BY <3>1, <3>2
  <2>4. item \in {1, 6} \/ item \in {5, Size + 8} \/ item \in Clocking
    BY <1>1, EepromAssumption DEF Clocking
  <2> QED
    BY <2>1, <2>2, <2>3, <2>4
<1>4. Len(Script[item].levels) = (IF item \in Clocking THEN 27 ELSE 3)
  BY <1>1, LevelsAre, Zenon
<1> QED
  BY <1>1, <1>2, <1>3, <1>4 DEF Item

\* Where an item leaves the lines.
LEMMA LineAfter ==
    ASSUME EepromTyped, Item
    PROVE  IF item \in {5, Size + 8} THEN line = << 1, 1 >> ELSE line[2] = 0
<1>1. item \in 1..(Size + 8) /\ read = "no" /\ level = (IF item \in Clocking THEN 27 ELSE 3)
  BY ItemTo
<1>2. line = Script[item].levels[level]
  BY <1>1 DEF EepromTyped, Driven
<1>3. CASE item \in {1, 6}
  <2>1. Script[item].levels = StartLevels /\ level = 3 /\ item \notin {5, Size + 8}
    BY <1>1, <1>3, ItemIs, EepromAssumption DEF Clocking
  <2>2. StartLevels[3] = << 0, 0 >>
    BY DEF StartLevels
  <2> QED
    BY <1>2, <2>1, <2>2
<1>4. CASE item \in {5, Size + 8}
  <2>1. Script[item].levels = StopLevels /\ level = 3
    BY <1>1, <1>4, ItemIs, EepromAssumption DEF Clocking
  <2>2. StopLevels[3] = << 1, 1 >>
    BY DEF StopLevels
  <2> QED
    BY <1>2, <1>4, <2>1, <2>2
<1>5. CASE item \in Clocking
  <2>1. level = 3 * 8 + 3 /\ 8 \in 0..8 /\ item \notin {5, Size + 8}
    BY <1>1, <1>5, EepromAssumption DEF Clocking
  <2>2. Script[item].levels[3 * 8 + 3] = << Drives(item, 8 + 1), 0 >>
    BY <1>1, <1>5, <2>1, ItemIs
  <2> QED
    BY <1>2, <2>1, <2>2
<1>6. item \in {1, 6} \/ item \in {5, Size + 8} \/ item \in Clocking
  BY <1>1, EepromAssumption DEF Clocking
<1> QED
  BY <1>3, <1>4, <1>5, <1>6

\* The next item keeps the types.
LEMMA ItemTyped == ASSUME EepromTyped, Item PROVE EepromTyped'
<1>1. /\ item \in 1..(Size + 8) /\ level \in 0..27 /\ b \in 0..255
      /\ d \in Seq(0..255) /\ Len(d) <= Size /\ Len(d) \in Nat
      /\ ack \in BOOLEAN /\ read \in {"no", "good", "bad"} /\ line \in Lines
      /\ present \in BOOLEAN /\ memory \in Contents /\ caught \in BOOLEAN
      /\ chip \in Chips
  BY EepromTypes, LenProperties DEF EepromTyped
<1>2. /\ read = "no" /\ level' = 0 /\ b' = 0
      /\ d' = (IF item \in 8..(Size + 7) THEN Append(d, b) ELSE d)
      /\ item' = (IF item \in {2, 7} /\ ~ack THEN Size + 8
                  ELSE IF item < Size + 8 THEN item + 1 ELSE 1)
      /\ read' = (IF item < Size + 8 THEN "no" ELSE IF Len(d) = Size THEN "good" ELSE "bad")
      /\ ack' = ack /\ line' = line /\ present' = present /\ memory' = memory
      /\ chip' = chip /\ caught' = caught
  BY ItemTo
<1>3. Len(d) = (IF item < 8 THEN 0 ELSE IF item < Size + 8 THEN item - 8 ELSE Len(d))
  BY <1>2 DEF EepromTyped, Collected
<1>4. d' \in Seq(0..255) /\ Len(d') = (IF item \in 8..(Size + 7) THEN Len(d) + 1 ELSE Len(d))
  BY <1>1, <1>2, AppendProperties
<1>5. Len(d') <= Size
  BY <1>1, <1>3, <1>4, EepromAssumption
<1>6. item' \in 1..(Size + 8)
  BY <1>1, <1>2, EepromAssumption
<1>7. read' \in {"no", "good", "bad"}
  BY <1>2
<1>8. EepromTypeOK'
  <2>1. 0 \in 0..27 /\ 0 \in 0..255
    OBVIOUS
  <2> QED
    BY <1>1, <1>2, <1>4, <1>5, <1>6, <1>7, <2>1, ScriptIs DEF EepromTypeOK, Lines, Chips
<1>9. Counts(chip, line[2])' 
  BY <1>2 DEF EepromTyped, Counts
<1>10. ASSUME read' = "no" PROVE level' <= Len(Script[item'].levels) /\ Collected' /\ Driven'
  <2>1. item < Size + 8
    BY <1>2, <1>10
  <2>2. level' <= Len(Script[item'].levels)
    BY <1>2, <1>6, LevelsAre
  <2>3. Collected'
    BY <1>1, <1>2, <1>3, <1>4, <2>1, EepromAssumption DEF Collected
  <2>4. Driven'
    <3>1. IF item \in {5, Size + 8} THEN line = << 1, 1 >> ELSE line[2] = 0
      BY LineAfter
    <3>2. CASE item = 5
      BY <1>2, <2>1, <3>1, <3>2 DEF Driven
    <3>3. CASE item # 5
      <4>1. item' \notin {1, 6}
        BY <1>1, <1>2, <2>1, <3>3, EepromAssumption
      <4>2. line[2] = 0
        BY <1>1, <2>1, <3>1, <3>3, EepromAssumption
      <4> QED
        BY <1>2, <4>1, <4>2 DEF Driven
    <3> QED
      BY <3>2, <3>3
  <2> QED
    BY <2>2, <2>3, <2>4
<1> QED
  BY <1>8, <1>9, <1>10 DEF EepromTyped

\* inky_eeprom.c:139-149: the byte read is the EEPROM's next.
LEMMA NextByte ==
    ASSUME EepromTyped, InStep, Gathered, Item, Reading, item < Size + 8
    PROVE  InStep' /\ Gathered'
<1>1. /\ item \in 1..(Size + 8) /\ level = Len(Script[item].levels)
      /\ level = (IF item \in Clocking THEN 27 ELSE 3)
      /\ level' = 0 /\ b' = 0
      /\ d' = (IF item \in 8..(Size + 7) THEN Append(d, b) ELSE d)
      /\ item' = (IF item \in {2, 7} /\ ~ack THEN Size + 8
                  ELSE IF item < Size + 8 THEN item + 1 ELSE 1)
      /\ memory' = memory /\ chip' = chip
  BY ItemTo
<1>2. item \in {2, 7} => item \in Clocking
  BY EepromAssumption DEF Clocking
<1>3. item \in {2, 7} => ack
  BY <1>1, <1>2 DEF Gathered
<1>4. item' = item + 1 /\ item + 1 \in 1..(Size + 8)
  BY <1>1, <1>3, EepromAssumption
<1>5. Expected(chip, item + 1, 0)
  BY <1>1 DEF InStep
<1>6. InStep'
  <2>1. level' # Len(Script[item'].levels)
    BY <1>1, <1>4, LevelsAre
  <2>2. Expected(chip', item', 0)
    BY <1>1, <1>4, <1>5
  <2> QED
    BY <1>1, <1>4, <2>1, <2>2, StepsOn
<1>7. Gathered'
  <2>1. item' \in 8..(Size + 7) => b' = First(memory'[item' - 8], Clocks(level'))
    BY <1>1 DEF First, Clocks
  <2>2. item' >= 8 => d' = [k \in 1..(item' - 8) |-> memory'[k - 1]]
    <3>1. CASE item < 7
      BY <1>1, <1>4, <3>1
    <3>2. CASE item = 7
      <4>1. d' = d /\ Len(d) = 0 /\ d \in Seq(0..255)
        BY <1>1, <3>2, EepromTypes DEF EepromTyped, Collected, Reading
      <4>2. d' = <<>>
        BY <4>1, EmptySeq
      <4>3. item' - 8 = 0
        BY <1>4, <3>2
      <4> QED
        BY <4>2, <4>3
    <3>3. CASE item > 7
      <4> DEFINE n == item - 8
      <4>1. item \in 8..(Size + 7) /\ n \in 0..(Size - 1) /\ item' - 8 = n + 1 /\ n + 1 - 1 = n
            /\ item \in Clocking
        BY <1>1, <1>4, <3>3, EepromAssumption DEF Clocking
      <4>2. d = [k \in 1..n |-> memory[k - 1]] /\ b = First(memory[n], Clocks(27)) /\ Clocks(27) = 9
        BY <1>1, <4>1 DEF Gathered, Clocks
      <4>3. memory \in [0..(Size - 1) -> 0..255]
        BY EepromTypes, EepromAssumption DEF EepromTyped
      <4>4. b = memory[n]
        BY <4>1, <4>2, <4>3, FirstIs
      <4> HIDE DEF n
      <4>5. d \in Seq(0..255) /\ Len(d) = n
        BY <4>1, EepromTypes DEF EepromTyped, Collected, Reading, n
      <4>6. d' = Append(d, b)
        BY <1>1, <4>1
      <4>7. Append(d, b) = [k \in 1..(n + 1) |-> memory[k - 1]]
        <5>1. /\ Append(d, b) = [k \in 1..(n + 1) |-> Append(d, b)[k]]
              /\ Append(d, b)[n + 1] = b /\ \A k \in 1..n : Append(d, b)[k] = d[k]
          BY <4>3, <4>4, <4>1, <4>5, AppendProperties
        <5>2. ASSUME NEW k \in 1..(n + 1) PROVE Append(d, b)[k] = memory[k - 1]
          <6>1. CASE k = n + 1
            BY <4>1, <4>4, <5>1, <6>1
          <6>2. CASE k \in 1..n
            BY <4>2, <5>1, <6>2
          <6>3. k = n + 1 \/ k \in 1..n
            <7>1. n \in Nat
              BY <4>1, EepromAssumption
            <7> QED
              BY <7>1
          <6> QED
            BY <6>1, <6>2, <6>3
        <5> QED
          BY <5>1, <5>2
      <4> QED
        BY <1>1, <4>1, <4>6, <4>7
    <3> QED
      BY <1>1, <3>1, <3>2, <3>3
  <2>3. ~(item' \in {2, 7} /\ level' >= 26)
    BY <1>1
  <2> QED
    BY <2>1, <2>2, <2>3 DEF Gathered
<1> QED
  BY <1>6, <1>7

\* inky_eeprom.c:131, 138: without an answer, to the last stop; then false.
LEMMA NextUnanswered == ASSUME EepromTyped, Unanswered, Item PROVE Unanswered'
<1>1. /\ read = "no" /\ level = (IF item \in Clocking THEN 27 ELSE 3)
      /\ level' = 0
      /\ d' = (IF item \in 8..(Size + 7) THEN Append(d, b) ELSE d)
      /\ item' = (IF item \in {2, 7} /\ ~ack THEN Size + 8
                  ELSE IF item < Size + 8 THEN item + 1 ELSE 1)
      /\ read' = (IF item < Size + 8 THEN "no" ELSE IF Len(d) = Size THEN "good" ELSE "bad")
      /\ present' = present /\ chip' = chip
  BY ItemTo
<1>2. SUFFICES ASSUME ~present PROVE Unanswered'
  BY <1>1 DEF Unanswered
<1>3. /\ chip = Off /\ item \in {1, 2, Size + 8} /\ d = <<>>
      /\ item = 2 /\ level >= 26 => ~ack
  BY <1>1, <1>2 DEF Unanswered
<1>4. item \notin 8..(Size + 7) /\ 2 \in Clocking /\ 1 < Size + 8 /\ 2 < Size + 8
  BY <1>3, EepromAssumption DEF Clocking
<1>5. d' = <<>>
  BY <1>1, <1>3, <1>4
<1>6. CASE item = 1
  BY <1>1, <1>3, <1>4, <1>5, <1>6 DEF Unanswered
<1>7. CASE item = 2
  <2>1. level = 27
    BY <1>1, <1>4, <1>7
  <2>2. item' = Size + 8 /\ Size + 8 # 2
    BY <1>1, <1>3, <1>7, <2>1, EepromAssumption
  <2> QED
    BY <1>1, <1>3, <1>5, <2>2 DEF Unanswered
<1>8. CASE item = Size + 8
  <2>1. read' # "no"
    BY <1>1, <1>8, EepromAssumption
  <2> QED
    BY <1>1, <1>3, <2>1 DEF Unanswered
<1> QED
  BY <1>3, <1>6, <1>7, <1>8

\* An item keeps the invariant; with the last, all is read, or nothing.
LEMMA ItemKeeps == ASSUME EepromInv, Item PROVE EepromInv'
<1>1. EepromTyped /\ InStep /\ Gathered /\ Unanswered
  BY DEF EepromInv
<1>2. /\ read = "no" /\ item \in 1..(Size + 8)
      /\ d' = (IF item \in 8..(Size + 7) THEN Append(d, b) ELSE d)
      /\ read' = (IF item < Size + 8 THEN "no" ELSE IF Len(d) = Size THEN "good" ELSE "bad")
      /\ present' = present /\ caught' = caught /\ memory' = memory
  BY <1>1, ItemTo
<1>3. EepromTyped' /\ Unanswered'
  BY <1>1, ItemTyped, NextUnanswered
<1>4. CASE item < Size + 8
  <2>1. read' = "no"
    BY <1>2, <1>4
  <2>2. InStep' /\ Gathered'
    <3>1. CASE Reading
      BY <1>1, <1>4, <3>1, NextByte
    <3>2. CASE ~Reading
      <4>1. ~Reading'
        BY <1>2, <3>2 DEF Reading
      <4> QED
        BY <4>1 DEF InStep, Gathered
    <3> QED
      BY <3>1, <3>2
  <2> QED
    BY <1>3, <2>1, <2>2 DEF EepromInv, RightPanel
<1>5. CASE item = Size + 8
  <2>1. d' = d /\ read' = (IF Len(d) = Size THEN "good" ELSE "bad")
    BY <1>2, <1>5, EepromAssumption
  <2>2. ~Reading'
    BY <2>1 DEF Reading
  <2>3. InStep' /\ Gathered'
    BY <2>2 DEF InStep, Gathered
  <2>4. ASSUME ~caught PROVE /\ (read' = "good") = present
                             /\ present => d = [k \in 1..Size |-> memory[k - 1]]
    <3>1. CASE present
      <4>1. d = [k \in 1..Size |-> memory[k - 1]]
        <5>1. Reading /\ item >= 8 /\ item - 8 = Size
          BY <1>2, <1>5, <2>4, <3>1, EepromAssumption DEF Reading
        <5> QED
          BY <1>1, <5>1 DEF Gathered
      <4>2. Len(d) = Size
        <5> DEFINE e(k) == memory[k - 1]
        <5>1. d = [k \in 1..Size |-> e(k)]
          BY <4>1
        <5> HIDE DEF e
        <5> QED
          BY <5>1, EepromAssumption
      <4>3. read' = "good" /\ present = TRUE
        BY <2>1, <3>1, <4>2, <1>1, EepromTypes DEF EepromTyped
      <4> QED
        BY <4>1, <4>3
    <3>2. CASE ~present
      <4>1. Len(d) = 0 /\ Size # 0
        BY <1>1, <1>2, <3>2, EepromAssumption, EmptySeq DEF Unanswered
      <4>2. read' # "good" /\ present = FALSE
        BY <2>1, <3>2, <4>1, <1>1, EepromTypes DEF EepromTyped
      <4> QED
        BY <4>2
    <3> QED
      BY <3>1, <3>2
  <2>5. RightPanel'
    BY <1>2, <2>1, <2>4 DEF RightPanel
  <2> QED
    BY <1>3, <2>3, <2>5 DEF EepromInv
<1> QED
  BY <1>2, <1>4, <1>5, EepromAssumption

-----------------------------------------------------------------------------
(* A reset, and the whole. *)

\* The EEPROM at power on.
LEMMA OffIs ==
    /\ Off \in Chips /\ Off.mode = "off" /\ Off.n = 0 /\ ~Off.low /\ Off.low = FALSE
    /\ \A scl : Counts(Off, scl)
BY EepromAssumption DEF Off, Chips, Counts

\* inky_eeprom.c:127-131: reading starts from here.
LEMMA Anew ==
    ASSUME item' = 1, level' = 0, b' = 0, d' = <<>>, ack' = FALSE, read' = "no",
           line' = << 1, 1 >>, present' \in BOOLEAN, memory' \in Contents, caught' \in BOOLEAN,
           chip' \in Chips, Counts(chip', 1), ~present' => chip' = Off,
           present' /\ ~caught' => ~chip'.low
    PROVE  EepromInv'
<1>1. /\ << 1, 1 >> \in Lines /\ << 1, 1 >>[2] = 1
      /\ 1 \in 1..(Size + 8) /\ 0 \in 0..27 /\ 0 \in 0..255
  BY EepromAssumption DEF Lines
<1>2. <<>> \in Seq(0..255) /\ Len(<<>>) = 0 /\ 0 <= Size
  BY EmptySeq, EepromAssumption
<1>3. EepromTypeOK'
  BY <1>1, <1>2, ScriptIs DEF EepromTypeOK, Lines, Chips
<1>4. Len(Script[1].levels) # 0 /\ 0 <= Len(Script[1].levels)
  BY <1>1, LevelsAre
<1>5. EepromTyped'
  <2>1. Collected' /\ Driven'
    BY <1>2 DEF Collected, Driven
  <2>2. Counts(chip, line[2])'
    BY <1>1 DEF Counts
  <2>3. level' <= Len(Script[item'].levels)
    BY <1>4
  <2> QED
    BY <1>3, <2>1, <2>2, <2>3 DEF EepromTyped
<1>6. InStep'
  <2>1. CASE ~Reading'
    BY <2>1 DEF InStep
  <2>2. CASE Reading'
    <3>1. level' # Len(Script[item'].levels)
      BY <1>4
    <3>2. ~chip'.low
      BY <2>2 DEF Reading
    <3>3. Expected(chip, item, level)'
      <4>1. 1 \notin 8..(Size + 7) /\ ~(1 \in {2, 3, 4, 5, 7}) /\ 0 # 2 /\ 1 # 6 /\ 0 <= 1
            /\ ~(0 >= 24)
        OBVIOUS
      <4> QED
        BY <3>2, <4>1 DEF Expected
    <3> QED
      BY <3>1, <3>3 DEF InStep
  <2> QED
    BY <2>1, <2>2
<1>7. Gathered'
  BY DEF Gathered
<1>8. Unanswered'
  BY DEF Unanswered
<1>9. RightPanel'
  BY DEF RightPanel
<1> QED
  BY <1>5, <1>6, <1>7, <1>8, <1>9 DEF EepromInv

\* The microcontroller starts with both lines high (inky_eeprom.c:39-46).
LEMMA EepromStarts == EepromInit => EepromInv
<1> SUFFICES ASSUME EepromInit PROVE EepromInv
  OBVIOUS
<1>1. /\ item = 1 /\ level = 0 /\ b = 0 /\ d = <<>> /\ ack = FALSE /\ read = "no"
      /\ line = << 1, 1 >> /\ present \in BOOLEAN /\ memory \in Contents /\ chip = Off
      /\ caught = FALSE
  BY DEF EepromInit
<1>2. /\ << 1, 1 >> \in Lines /\ << 1, 1 >>[2] = 1
      /\ 1 \in 1..(Size + 8) /\ 0 \in 0..27 /\ 0 \in 0..255
  BY EepromAssumption DEF Lines
<1>3. <<>> \in Seq(0..255) /\ Len(<<>>) = 0 /\ 0 <= Size
  BY EmptySeq, EepromAssumption
<1>4. EepromTypeOK
  BY <1>1, <1>2, <1>3, OffIs, EepromTypes
<1>5. Len(Script[1].levels) # 0 /\ 0 <= Len(Script[1].levels)
  BY <1>2, LevelsAre
<1>6. EepromTyped
  BY <1>1, <1>2, <1>3, <1>4, <1>5, OffIs DEF EepromTyped, Collected, Driven
<1>7. InStep
  <2>1. Expected(chip, 1, 0)
    BY <1>1, OffIs, ExpectedFirst
  <2> QED
    BY <1>1, <1>5, <2>1 DEF InStep
<1>8. Gathered /\ Unanswered /\ RightPanel
  BY <1>1 DEF Gathered, Unanswered, RightPanel
<1> QED
  BY <1>6, <1>7, <1>8 DEF EepromInv

\* Whatever the lines change to, what the EEPROM makes of it is a state of an EEPROM.
LEMMA SeesChip ==
    ASSUME EepromInv, NEW c \in Chips, NEW f \in Lines, NEW g \in Lines,
           Counts(c, f[2]), ~present => c = Off
    PROVE  /\ Sees(c, f, g) \in Chips /\ Counts(Sees(c, f, g), g[2])
           /\ ~present => Sees(c, f, g) = Off
<1>1. present \/ c = Off
  OBVIOUS
<1>2. memory \in Contents /\ present \in BOOLEAN
  BY EepromTypes DEF EepromInv, EepromTyped
<1>3. Sees(c, f, g) \in Chips /\ Counts(Sees(c, f, g), g[2])
  BY <1>1, <1>2, SeesTyped
<1>4. ~present => Sees(c, f, g) = Off
  BY <1>2, SeesIs
<1> QED
  BY <1>3, <1>4

\* main.c, inky_eeprom.c:48-62: a reset of the microcontroller lets go of the lines in either
\* order, and SCL may go low once more.
LEMMA ResetKeeps == ASSUME EepromInv, EepromReset PROVE EepromInv'
<1>1. /\ item' = 1 /\ level' = 0 /\ b' = 0 /\ d' = <<>> /\ ack' = FALSE /\ read' = "no"
      /\ line' = << 1, 1 >> /\ present' = present /\ memory' = memory
      /\ \/ \E mid \in {<< 1, line[2] >>, << line[1], 1 >>} :
               /\ chip' \in Pulsed(Sees(Sees(chip, line, mid), mid, << 1, 1 >>))
               /\ caught' = (caught \/ chip'.low)
         \/ chip' = Off /\ caught' = FALSE
  BY DEF EepromReset
<1>2. /\ chip \in Chips /\ line \in Lines /\ present \in BOOLEAN /\ memory \in Contents
      /\ caught \in BOOLEAN /\ Counts(chip, line[2])
      /\ ~present => chip = Off
  BY EepromTypes DEF EepromInv, EepromTyped, Unanswered
<1>3. CASE chip' = Off /\ caught' = FALSE
  BY <1>1, <1>2, <1>3, OffIs, Anew
<1>4. ASSUME NEW mid \in {<< 1, line[2] >>, << line[1], 1 >>},
             chip' \in Pulsed(Sees(Sees(chip, line, mid), mid, << 1, 1 >>)),
             caught' = (caught \/ chip'.low)
      PROVE  EepromInv'
  <2> DEFINE c == Sees(chip, line, mid)
             e == Sees(c, mid, << 1, 1 >>)
             p == Sees(e, << 1, 1 >>, << 1, 0 >>)
             q == Sees(p, << 1, 0 >>, << 1, 1 >>)
  <2>1. mid \in Lines /\ << 1, 1 >> \in Lines /\ << 1, 0 >> \in Lines
    BY <1>2 DEF Lines
  <2>2. << 1, 1 >>[2] = 1 /\ << 1, 0 >>[2] = 0
    OBVIOUS
  <2>3. c \in Chips /\ Counts(c, mid[2]) /\ (~present => c = Off)
    BY <1>2, <2>1, SeesChip
  <2> HIDE DEF c
  <2>4. e \in Chips /\ Counts(e, << 1, 1 >>[2]) /\ (~present => e = Off)
    BY <2>1, <2>3, SeesChip
  <2> HIDE DEF e
  <2>5. p \in Chips /\ Counts(p, << 1, 0 >>[2]) /\ (~present => p = Off)
    BY <2>1, <2>4, SeesChip
  <2> HIDE DEF p
  <2>6. q \in Chips /\ Counts(q, << 1, 1 >>[2]) /\ (~present => q = Off)
    BY <2>1, <2>5, SeesChip
  <2>7. chip' \in {e, q}
    BY <1>4 DEF Pulsed, c, e, p
  <2> HIDE DEF q
  <2>8. chip' \in Chips /\ Counts(chip', 1) /\ (~present => chip' = Off)
    BY <2>2, <2>4, <2>6, <2>7
  <2>9. caught' \in BOOLEAN /\ (~caught' => ~chip'.low)
    <3>1. chip'.low \in BOOLEAN
      BY <2>8, ChipIs
    <3> QED
      BY <1>2, <1>4, <3>1
  <2> QED
    BY <1>1, <1>2, <2>8, <2>9, Anew
<1> QED
  BY <1>1, <1>3, <1>4

\* The rest of the program leaves the bus alone.
LEMMA BusStays == ASSUME EepromInv, UNCHANGED eepvars PROVE EepromInv'
<1>1. /\ item' = item /\ level' = level /\ b' = b /\ d' = d /\ ack' = ack /\ read' = read
      /\ line' = line /\ present' = present /\ memory' = memory /\ chip' = chip
      /\ caught' = caught
  BY DEF eepvars
<1>2. EepromTyped'
  BY <1>1 DEF EepromInv, EepromTyped, EepromTypeOK, Collected, Driven
<1>3. InStep' /\ Gathered'
  <2>1. Expected(chip, item, level)' <=> Expected(chip, item, level)
    BY <1>1 DEF Expected, Taking, Started
  <2>2. Expected(chip, item + 1, 0)' <=> Expected(chip, item + 1, 0)
    BY <1>1 DEF Expected, Taking, Started
  <2> QED
    BY <1>1, <2>1, <2>2 DEF EepromInv, InStep, Gathered, Reading
<1>4. Unanswered' /\ RightPanel'
  BY <1>1 DEF EepromInv, Unanswered, RightPanel
<1> QED
  BY <1>2, <1>3, <1>4 DEF EepromInv

\* main.c: only the reading of the EEPROM and a reset touch the bus.
LEMMA BusMoves == [Next]_vars => Level \/ Item \/ EepromReset \/ UNCHANGED eepvars
<1>1. ReadEeprom => Level \/ Item
  BY DEF ReadEeprom, EepromStep
<1>2. \A slow, giveup : Advance(slow, giveup) => UNCHANGED eepvars
  BY DEF Advance
<1>3. Proceed => UNCHANGED eepvars
  BY <1>2 DEF Proceed
<1>4. PaintWait => UNCHANGED eepvars
  BY <1>2 DEF PaintWait
<1>5. Identify \/ Paint \/ Controllers \/ Done \/ UNCHANGED vars => UNCHANGED eepvars
  BY DEF Identify, Paint, Controllers, Done, vars
<1>6. PaintReset \/ PaintSettle \/ PaintCommand \/ PaintBegin \/ PaintWrite \/ PaintEnd
      => UNCHANGED eepvars
  BY <1>3 DEF PaintReset, PaintSettle, PaintCommand, PaintBegin, PaintWrite, PaintEnd
<1>7. McuReset => EepromReset
  BY DEF McuReset
<1> QED
  BY <1>1, <1>4, <1>5, <1>6, <1>7 DEF Next, Program

\* inky_eeprom.c with main.c: the invariant of the bus.
LEMMA EepromNext == EepromInv /\ [Next]_vars => EepromInv'
<1> SUFFICES ASSUME EepromInv, [Next]_vars PROVE EepromInv'
  OBVIOUS
<1>1. CASE Level
  BY <1>1, LevelKeeps
<1>2. CASE Item
  BY <1>2, ItemKeeps
<1>3. CASE EepromReset
  BY <1>3, ResetKeeps
<1>4. CASE UNCHANGED eepvars
  BY <1>4, BusStays
<1> QED
  BY <1>1, <1>2, <1>3, <1>4, BusMoves

\* inky_eeprom.c:64-160: level by level the master and the EEPROM agree on the bit and the byte
\* they are at, through any resets, unless one of those caught the EEPROM pulling SDA low.
THEOREM EepromInvariant == Spec => []EepromInv
<1>1. Init => EepromInv
  BY EepromStarts DEF Init
<1> QED
  BY <1>1, EepromNext, PTL DEF Spec

\* inky_eeprom.c:127-160: inky_eeprom_read returns what the EEPROM holds, or false if there is
\* none, whatever reset came before, unless it caught the EEPROM pulling SDA low.
THEOREM RightPanelHolds == Spec => []RightPanel
<1>1. EepromInv => RightPanel
  BY DEF EepromInv
<1> QED
  BY <1>1, EepromInvariant, PTL
=============================================================================
