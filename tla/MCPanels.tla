------------------------------ MODULE MCPanels ------------------------------
(* Panels for TLC. *)
EXTENDS Panels

\* An EEPROM says which panel this is in its seventh byte.
Says(v) == [a \in 0..(Size - 1) |-> CASE a = 0 -> 32 [] a = 1 -> 3 [] a = 2 -> 224 [] a = 3 -> 1
                                      [] a = 4 -> 6 [] a = 5 -> 12 [] a = 6 -> v [] OTHER -> 20]

\* One of each driver but UC8159, and a panel without one.
MCContents == {Says(v) : v \in {20, 22, 25, 27, 99}}

\* The three of UC8159.
MCUc8159 == {Says(v) : v \in {14, 15, 16}}

\* A frame of which no two bytes are the same.
MCSamples == {[q \in 0..(Stride * Rows - 1) |-> (7 * q + 3) % 256]}
=============================================================================
