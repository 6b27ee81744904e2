------------------------------- MODULE EpdIo -------------------------------
(***************************************************************************)
(* src/epd_io.c, the transport to the e-paper controllers, and what those  *)
(* do with what they are sent.  A controller is named by its chip select   *)
(* pin; every controller whose pin is low hears what is on the bus.        *)
(*                                                                         *)
(* Assumption: a controller is done with a power command within the sleep  *)
(* that the Impression drivers put after it (Settle), as in the reference  *)
(* drivers they are ported from.  The Inky Frame's driver waits for BUSY.  *)
(***************************************************************************)
EXTENDS Integers

\* GP26 and GP16: the 13.3 inch panel; GP8, or the Frame's GP17: the others.
Pins == {26, 16, 8, 17}

\* Commands with an effect of their own; the others configure.
POF  == 2      \* 0x02, power off
PON  == 4      \* 0x04, power on
DTM  == 16     \* 0x10, the bytes of a frame follow
DRF  == 18     \* 0x12, refresh
TRES == 97     \* 0x61, resolution: the bytes to come

VARIABLES
    asserted,    \* the pins that are low
    s_dtm_cs,
    ctl          \* the controllers

iovars == <<asserted, s_dtm_cs, ctl>>

\* A picture, or the part of one that a controller holds: the number of the frame (0: the
\* test stripes), which part, bytes per row and rows.
Picture(of, part, stride, rows) == [of |-> of, part |-> part, stride |-> stride, rows |-> rows]
Blank == Picture(0, "blank", 0, 0)
Torn  == Picture(0, "torn", 0, 0)

IoInit ==
    /\ asserted = {} /\ s_dtm_cs = 0
    /\ ctl = [p \in Pins |-> [on |-> FALSE, busy |-> "no", data |-> FALSE, size |-> 0,
                              ram |-> Blank, glass |-> Blank]]

-----------------------------------------------------------------------------
(* The controllers. *)

\* A refresh tears the picture until it is over; it needs power.
Obey(c, code, arg) ==
    CASE code = PON  -> [c EXCEPT !.on = TRUE, !.busy = "power", !.data = FALSE]
      [] code = POF  -> [c EXCEPT !.on = FALSE, !.busy = "power", !.data = FALSE]
      [] code = DRF /\ c.on -> [c EXCEPT !.busy = "refresh", !.glass = Torn, !.data = FALSE]
      [] code = DTM  -> [c EXCEPT !.data = TRUE]
      [] code = TRES -> [c EXCEPT !.size = arg, !.data = FALSE]
      [] OTHER       -> [c EXCEPT !.data = FALSE]

\* The controllers that hear a command; a busy one may ignore it.
Hear(pins, code, arg) ==
    \E ignored \in SUBSET {p \in pins : ctl[p].busy # "no"} :
        ctl' = [p \in Pins |-> IF p \in pins \ ignored THEN Obey(ctl[p], code, arg) ELSE ctl[p]]

\* A controller is done: with a refresh, if its memory was full.
Finish(p) ==
    /\ ctl[p].busy # "no"
    /\ ctl' = [ctl EXCEPT ![p].busy = "no",
                          ![p].glass = IF ctl[p].busy = "power" THEN @
                                       ELSE IF ctl[p].ram.stride * ctl[p].ram.rows = ctl[p].size
                                            THEN ctl[p].ram ELSE Torn]
    /\ UNCHANGED <<asserted, s_dtm_cs>>

\* epd_is_busy, on the one line that all of them pull.
IsBusy == \E p \in Pins : ctl[p].busy # "no"

-----------------------------------------------------------------------------
(* The transport. *)

\* epd_io_init and epd_cs_init for the panel's pins, then epd_reset.
ResetPanel(pins) ==
    /\ asserted' = asserted \ pins
    /\ ctl' = [p \in Pins |-> [ctl[p] EXCEPT !.on = FALSE, !.busy = "power", !.data = FALSE,
                                             !.size = 0, !.ram = Blank]]
    /\ UNCHANGED s_dtm_cs

\* The sleep after a power command, or at the end of epd_reset.
SettlePower ==
    /\ ctl' = [p \in Pins |-> IF ctl[p].busy = "power" THEN [ctl[p] EXCEPT !.busy = "no"]
                              ELSE ctl[p]]
    /\ UNCHANGED <<asserted, s_dtm_cs>>

\* epd_command: cs_assert, the bytes, cs_release.
Command(pins, code, arg) ==
    /\ Hear(asserted \cup pins, code, arg)
    /\ asserted' = asserted \ pins
    /\ UNCHANGED s_dtm_cs

DtmBegin(pin) ==
    /\ s_dtm_cs' = pin
    /\ asserted' = asserted \cup {pin}
    /\ Hear(asserted \cup {pin}, DTM, 0)

\* All of the epd_dtm_write calls of a stream.
DtmWrite(picture) ==
    /\ ctl' = [p \in Pins |-> IF p \in asserted /\ ctl[p].data THEN [ctl[p] EXCEPT !.ram = picture]
                              ELSE ctl[p]]
    /\ UNCHANGED <<asserted, s_dtm_cs>>

\* Mutant: the chip select stays low.
Deasserted_not == asserted

\* The pins that are low after epd_dtm_end.
Deasserted == asserted \ {s_dtm_cs}

DtmEnd == asserted' = Deasserted /\ UNCHANGED <<s_dtm_cs, ctl>>

\* Mutant: a wait without a timeout.
WaitOver_ready == ~IsBusy

\* epd_wait_ready returns: BUSY is released, or timeout_ms has passed.
WaitOver == ~IsBusy \/ IsBusy

IoTypeOK ==
    /\ asserted \subseteq Pins /\ s_dtm_cs \in Pins \cup {0}
    /\ ctl \in [Pins -> [on: BOOLEAN, busy: {"no", "power", "refresh"}, data: BOOLEAN, size: Nat,
                         ram: [of: Nat, part: {"blank", "all", "left", "right"}, stride: Nat,
                               rows: Nat],
                         glass: [of: Nat, part: {"blank", "all", "left", "right", "torn"},
                                 stride: Nat, rows: Nat]]]
=============================================================================
