------------------------------- MODULE Eeprom -------------------------------
(***************************************************************************)
(* src/inky_eeprom.c: inky_eeprom_read, the bit-banged I2C master, on a    *)
(* bus with the Inky's model EEPROM (a 24Cxx), which a reset of the        *)
(* microcontroller does not reset.                                         *)
(*                                                                         *)
(* A line is 1 when nobody pulls it low.  The EEPROM sees every change of  *)
(* the lines; the code's half-bit delays give it the time to.              *)
(*                                                                         *)
(* Bound: Size bytes are read (29 in the code).                            *)
(***************************************************************************)
EXTENDS Integers, Sequences

CONSTANTS Size, Contents     \* the byte at each address

\* The seventh byte says which panel this is.
ASSUME EepromAssumption ==
    Size \in Nat /\ Size >= 7 /\ Contents \subseteq [0..(Size - 1) -> 0..255]

VARIABLES
    item, level, \* inky_eeprom_read: the item of its script, the levels of it that are set
    b, d,        \* the bits read of a byte; the bytes read
    ack,         \* the EEPROM answered to its address
    read,        \* "no" until inky_eeprom_read returns "good" or "bad"
    line,        \* <<SDA, SCL>> as the master drives them
    present,     \* there is an EEPROM
    memory,
    chip,        \* the EEPROM's logic
    caught       \* history: a reset left it pulling SDA low

eepvars == <<item, level, b, d, ack, read, line, present, memory, chip, caught>>

-----------------------------------------------------------------------------
(* The EEPROM.  n counts the bits of the byte, the ACK slot as the ninth; it    *)
(* pulls SDA low when low.  word counts the bytes written; the second sets the  *)
(* address of what is read next.                                                *)

Off == [mode |-> "off", n |-> 0, byte |-> 0, word |-> 0, at |-> 0, low |-> FALSE]

\* The bits of a byte, the first first.
Weight    == <<128, 64, 32, 16, 8, 4, 2, 1>>
Bit(x, k) == (x \div Weight[k]) % 2

\* The first bit of the byte to send.
Sending(c) == [c EXCEPT !.mode = "send", !.n = 0, !.low = Bit(memory[c.at], 1) = 0]

\* SCL rises: SDA is sampled.
Rise(c, sda) ==
    CASE c.mode \in {"device", "write"} /\ c.n < 8 ->
             [c EXCEPT !.byte = (2 * @ + sda) % 256, !.n = @ + 1]
      [] c.mode = "send" /\ c.n = 8 /\ sda = 1 -> [Off EXCEPT !.at = (c.at + 1) % Size]
      [] c.mode = "off" -> c
      [] OTHER -> [c EXCEPT !.n = @ + 1]

\* SCL falls: the EEPROM sets up its next bit.
Fall(c) ==
    CASE c.mode = "device" /\ c.n = 8 -> IF c.byte \in {160, 161} THEN [c EXCEPT !.low = TRUE]
                                         ELSE [Off EXCEPT !.at = c.at]
      [] c.mode = "device" /\ c.n = 9 /\ c.byte = 161 -> Sending(c)
      [] c.mode = "device" /\ c.n = 9 /\ c.byte # 161 ->
             [c EXCEPT !.mode = "write", !.n = 0, !.low = FALSE]
      [] c.mode = "write" /\ c.n = 8 ->
             [c EXCEPT !.low = TRUE, !.word = @ + 1,
                       !.at = IF c.word = 1 THEN c.byte % Size ELSE @]
      [] c.mode = "write" /\ c.n = 9 -> [c EXCEPT !.n = 0, !.low = FALSE]
      [] c.mode = "send" /\ c.n < 8 -> [c EXCEPT !.low = Bit(memory[c.at], c.n + 1) = 0]
      [] c.mode = "send" /\ c.n = 8 -> [c EXCEPT !.low = FALSE]
      [] c.mode = "send" /\ c.n = 9 -> Sending([c EXCEPT !.at = (@ + 1) % Size])
      [] OTHER -> c

Sda(m, c) == IF c.low THEN 0 ELSE m

\* What the EEPROM does as the master changes the lines from f to g.
Sees(c, f, g) ==
    LET was == Sda(f[1], c)
        is  == Sda(g[1], c)
    IN IF ~present THEN c
       ELSE CASE f[2] = 1 /\ g[2] = 1 /\ was = 1 /\ is = 0 ->
                     [Off EXCEPT !.mode = "device", !.at = c.at]
              [] f[2] = 1 /\ g[2] = 1 /\ was = 0 /\ is = 1 -> [Off EXCEPT !.at = c.at]
              [] f[2] = 0 /\ g[2] = 1 -> Rise(c, is)
              [] f[2] = 1 /\ g[2] = 0 -> Fall(c)
              [] OTHER -> c

-----------------------------------------------------------------------------
(* The master. *)

\* i2c_start, i2c_stop, and a byte: eight data bits and the ACK slot, as the master
\* drives SDA, each with SCL low, high and low again.
StartLevels == << <<1, 1>>, <<0, 1>>, <<0, 0>> >>
StopLevels  == << <<0, 0>>, <<0, 1>>, <<1, 1>> >>
Clocked(bits) == [k \in 1..27 |-> <<bits[(k + 2) \div 3], IF k % 3 = 2 THEN 1 ELSE 0>>]

Start        == [op |-> "start", levels |-> StartLevels]
Stop         == [op |-> "stop", levels |-> StopLevels]
WriteByte(x) ==
    [op |-> "write", levels |-> Clocked([k \in 1..9 |-> IF k < 9 THEN Bit(x, k) ELSE 1])]
ReadByte(a) ==
    [op |-> "read", levels |-> Clocked([k \in 1..9 |-> IF k < 9 \/ ~a THEN 1 ELSE 0])]

\* The EEPROM's device address, with the read bit or without, must be answered.
Addressed(r) == [WriteByte(160 + r) EXCEPT !.op = "address"]

\* Mutant: one byte too many.
Bytes_one_more == [k \in 1..(Size + 1) |-> ReadByte(k <= Size)]

\* All but the last are acknowledged.
Bytes == [k \in 1..Size |-> ReadByte(k < Size)]

\* Mutant: a word address of one byte, as smaller EEPROMs take it.
Script_short == << Start, Addressed(0), WriteByte(0), Stop, Start, Addressed(1) >> \o Bytes
                \o << Stop >>

\* Set the word address to 0; then read Size bytes.
Script == << Start, Addressed(0), WriteByte(0), WriteByte(0), Stop, Start, Addressed(1) >> \o Bytes
          \o << Stop >>

\* inky_i2c_init turns SCL into an output before it puts it high: SCL is low for some
\* nanoseconds, which an EEPROM may or may not filter out.
Pulsed(c) == {c, Sees(Sees(c, <<1, 1>>, <<1, 0>>), <<1, 0>>, <<1, 1>>)}

\* inky_i2c_init: both lines high.  An EEPROM at rest does not heed the pulse.
EepromInit ==
    /\ item = 1 /\ level = 0 /\ b = 0 /\ d = <<>> /\ ack = FALSE /\ read = "no"
    /\ line = <<1, 1>>
    /\ present \in BOOLEAN /\ memory \in Contents /\ chip = Off /\ caught = FALSE

\* A reset lets go of the lines, in either order, and inky_i2c_init follows; or the EEPROM
\* loses its power too.
EepromReset ==
    /\ item' = 1 /\ level' = 0 /\ b' = 0 /\ d' = <<>> /\ ack' = FALSE /\ read' = "no"
    /\ line' = <<1, 1>>
    /\ \/ \E mid \in {<<1, line[2]>>, <<line[1], 1>>} :
             /\ chip' \in Pulsed(Sees(Sees(chip, line, mid), mid, <<1, 1>>))
             /\ caught' = (caught \/ chip'.low)
       \/ chip' = Off /\ caught' = FALSE
    /\ UNCHANGED <<present, memory>>

\* The next level of the item; SDA is read while SCL is high.
Level ==
    LET it == Script[item]
        next == it.levels[level + 1]
        high == next[2] = 1 /\ line[2] = 0
        sda  == Sda(next[1], chip)
    IN /\ read = "no" /\ level < Len(it.levels)
       /\ level' = level + 1 /\ line' = next
       /\ chip' = Sees(chip, line, next)
       /\ b' = IF high /\ it.op = "read" /\ level < 24 THEN (2 * b + sda) % 256 ELSE b
       /\ ack' = IF high /\ it.op = "address" THEN sda = 0 ELSE ack
       /\ UNCHANGED <<item, d, read, present, memory, caught>>

\* The item is done: on with the next; without an answer to the address, to the last,
\* which is a stop.
Item ==
    LET it == Script[item]
        deaf == it.op = "address" /\ ~ack
    IN /\ read = "no" /\ level = Len(it.levels)
       /\ d' = IF it.op = "read" THEN Append(d, b) ELSE d
       /\ b' = 0 /\ level' = 0
       /\ item' = IF deaf THEN Len(Script) ELSE IF item < Len(Script) THEN item + 1 ELSE 1
       /\ read' = IF item < Len(Script) THEN "no" ELSE IF Len(d) = Size THEN "good" ELSE "bad"
       /\ UNCHANGED <<ack, line, present, memory, chip, caught>>

EepromStep == Level \/ Item

EepromTypeOK ==
    /\ item \in 1..Len(Script) /\ level \in 0..27 /\ b \in 0..255
    /\ d \in Seq(0..255) /\ Len(d) <= Size
    /\ ack \in BOOLEAN /\ read \in {"no", "good", "bad"} /\ line \in {0, 1} \X {0, 1}
    /\ present \in BOOLEAN /\ memory \in Contents /\ caught \in BOOLEAN
    /\ chip \in [mode: {"off", "device", "write", "send"}, n: 0..9, byte: 0..255, word: Nat,
                 at: 0..(Size - 1), low: BOOLEAN]
=============================================================================
