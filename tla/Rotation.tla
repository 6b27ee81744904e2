------------------------------ MODULE Rotation ------------------------------
(***************************************************************************)
(* src/panels.c: where the pixels of a frame go.  Two pixels share a byte, *)
(* the even column in the high nibble.                                     *)
(*                                                                         *)
(* The 13.3 inch panel takes a landscape frame of Stride bytes a row and   *)
(* Rows rows (800 and 1200 in the code), and scans it as portrait, the     *)
(* left half of a row from one controller and the right from the other.    *)
(***************************************************************************)
EXTENDS Integers

CONSTANTS Stride, Rows

ASSUME RotationAssumption == Stride \in Nat \ {0} /\ Rows \in Nat \ {0} /\ Rows % 4 = 0

Half   == Rows \div 2
Byte   == 0..255
Frames == [0..(Stride * Rows - 1) -> Byte]

\* (byte >> shift) & 0x0F, where the shift is 4 for an even column and 0 for an odd one.
Nibble(byte, c) == IF c % 2 = 0 THEN byte \div 16 ELSE byte % 16

\* The index of the byte of column c of landscape row r.
Index(r, c) == r * Stride + c \div 2

\* Mutant: the right half begins at the row before.
Top_off(right) == IF right THEN Half - 2 ELSE Rows - 1

\* The landscape row that a half of a portrait row begins with.
Top(right) == IF right THEN Half - 1 ELSE Rows - 1

\* row[k] of portrait row p, for CS_M or, on the right, CS_S.
RotatedByte(frame, right, p, k) ==
    16 * Nibble(frame[Index(Top(right) - 2 * k, p)], p)
       + Nibble(frame[Index(Top(right) - 2 * k - 1, p)], p)

\* What the panel then shows in portrait row p, column q.
Shown(frame, p, q) == Nibble(RotatedByte(frame, q >= Half, p, (q % Half) \div 2), q)

\* The pixel in row r, column c of the landscape frame.
Pixel(frame, r, c) == Nibble(frame[Index(r, c)], c)

\* Turned by 90 degrees clockwise, and nothing else.
Rotated(frame) == \A p \in 0..(2 * Stride - 1), q \in 0..(Rows - 1) :
                     Shown(frame, p, q) = Pixel(frame, Rows - 1 - q, p)
=============================================================================
