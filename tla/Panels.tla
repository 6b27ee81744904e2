------------------------------- MODULE Panels -------------------------------
(***************************************************************************)
(* src/panels.c: the drivers of the five panels, as the sequences of calls *)
(* of the transport that they are; and, from src/main.c, what surrounds    *)
(* them: the panel is identified by its EEPROM, then painted again and     *)
(* again.  The microcontroller may be reset at any moment.                 *)
(*                                                                         *)
(* Bounds: MaxPaints paints, MaxResets resets.                             *)
(***************************************************************************)
EXTENDS Eeprom, EpdIo, Rotation

CONSTANTS MaxPaints, MaxResets,
          Samples      \* frames that RightWayUp looks at

ASSUME PanelsAssumption ==
    MaxPaints \in Nat /\ MaxResets \in Nat /\ Samples \subseteq Frames

VARIABLES
    inky_frame,    \* built with INKY_FRAME_SPECTRA_7
    stage,         \* "boot", "idle" or "paint"
    variant,
    pc,            \* the next call of the sequence
    image,         \* the frame that is painted, or 0 for stripes
    late,          \* a wait of this paint ran into its timeout
    clean,         \* the last paint ran to its end, and no wait was late
    paints, resets

panelvars == <<inky_frame, stage, variant, pc, image, late, clean, paints, resets>>
vars == <<eepvars, iovars, panelvars>>

-----------------------------------------------------------------------------
(* The registry. *)

k_el133  == [variants |-> {21, 27}, width |-> 1200, height |-> 1600]
k_e673   == [variants |-> {22, 26}, width |-> 800, height |-> 480]
k_e640   == [variants |-> {25}, width |-> 600, height |-> 400]
k_ac073  == [variants |-> {20}, width |-> 800, height |-> 480]
k_uc8159 == [variants |-> {14, 15, 16}, width |-> 640, height |-> 448]
k_panels == {k_el133, k_e673, k_e640, k_ac073, k_uc8159}

\* panel_for_variant finds one.
Supported(v) == /\ inky_frame => v = 22
                /\ \E p \in k_panels : v \in p.variants
Panel(v)     == CHOOSE p \in k_panels : v \in p.variants

\* panel_frame_bytes: two pixels share a byte.
FrameBytes(p) == (p.width * p.height) \div 2

-----------------------------------------------------------------------------
(* The drivers' sequences. *)

small == IF inky_frame THEN 17 ELSE 8      \* EPD_SMALL_CS

PinsOf(v) == IF v \in k_el133.variants THEN {26, 16}
             ELSE IF v \in k_e673.variants \cup k_e640.variants THEN {small}
             ELSE {8}

Reset             == [op |-> "reset"]
Cmd(to, code)     == [op |-> "command", to |-> to, code |-> code, arg |-> 0]
Res(to, w, h)     == [op |-> "command", to |-> to, code |-> TRES, arg |-> (w * h) \div 2]
Settle            == [op |-> "settle"]
Cmds(to, codes)   == [k \in 1..Len(codes) |-> Cmd(to, codes[k])]
Stream(pin, part, stride, rows) ==
    << [op |-> "begin", pin |-> pin],
       [op |-> "write", part |-> part, stride |-> stride, rows |-> rows],
       [op |-> "end"] >>

\* Mutant: nobody waits.
Wait_not(must) == Settle

\* epd_wait_ready; a driver that must have its answer returns without it.
Wait(must) == [op |-> "wait", must |-> must]

\* Mutant: another register.
PowerOff_sleep(to) == Cmd(to, 7)

PowerOff(to) == Cmd(to, POF)

\* stream_single.
Single(pin, w, h) == Stream(pin, "all", w \div 2, h)

El133 ==
    LET M == {26}  S == {16}  Both == {26, 16}
    IN << Reset, Settle >>
       \o Cmds(M, <<116>>) \o Cmds(Both, <<240, 0>>) \o Cmds(M, <<165>>)
       \o Cmds(Both, <<48, 80, 96>>) \o Cmds(M, <<3>>) \o Cmds(S, <<3>>)
       \o Cmds(Both, <<134, 227, 224>>) \o << Res(Both, 1200, 800) >>
       \o Cmds(M, <<164, 1, 182, 6, 183, 5, 176, 177>>)
       \o Stream(26, "left", 300, 1600) \o Stream(16, "right", 300, 1600)
       \o << Cmd(Both, PON), Settle, Cmd(Both, DRF), Wait(FALSE), PowerOff(Both), Settle >>

\* The Inky Frame asks where the Impressions sleep.
Ready == IF inky_frame THEN Wait(TRUE) ELSE Settle

\* psr_rewrite: the panel settings once more, at the end; or nothing.
PsrRewrite == << Cmd({small}, 0), Ready >>

\* paint_spectra6_small.
Spectra6Small(w, h, tw, th, rewrite) ==
    LET P == {small}
    IN << Reset, Ready >>
       \o Cmds(P, <<170, 1, 0, 5, 8, 6, 3, 96, 48, 80>>) \o << Res(P, tw, th) >>
       \o Cmds(P, <<227, 130>>)
       \o Single(small, w, h)
       \o << Cmd(P, PON), Ready, Cmd(P, 6), Cmd(P, DRF), Wait(inky_frame), PowerOff(P), Ready >>
       \o rewrite

Ac073 ==
    << Reset, Settle >>
    \o Cmds({8}, <<170, 1, 0, 3, 5, 6, 8, 19, 48, 65, 80, 96>>) \o << Res({8}, 800, 480) >>
    \o Cmds({8}, <<130, 132, 134, 227, 224, 230>>)
    \o Single(8, 800, 480)
    \o << Cmd({8}, PON), Settle, Cmd({8}, DRF), Wait(FALSE), PowerOff({8}), Settle >>

Uc8159(v) ==
    LET w == IF v = 16 THEN 640 ELSE 600
        h == IF v = 16 THEN 400 ELSE 448
    IN << Reset, Settle, Res({8}, w, h) >> \o Cmds({8}, <<0, 1, 48, 65, 80, 96, 101, 227, 3>>)
       \o Single(8, w, h)
       \o << Cmd({8}, PON), Settle, Cmd({8}, DRF), Wait(FALSE), PowerOff({8}), Settle >>

Driver(v) == CASE v \in k_el133.variants  -> El133
               [] v \in k_e673.variants   -> Spectra6Small(800, 480, 800, 480, PsrRewrite)
               [] v \in k_e640.variants   -> Spectra6Small(600, 400, 400, 600, <<>>)
               [] v \in k_ac073.variants  -> Ac073
               [] v \in k_uc8159.variants -> Uc8159(v)

-----------------------------------------------------------------------------
(* main. *)

Init == /\ EepromInit /\ IoInit
        /\ inky_frame \in BOOLEAN /\ stage = "boot" /\ variant = 255 /\ pc = 0 /\ image = 0
        /\ late = FALSE /\ clean = FALSE /\ paints = 0 /\ resets = 0

\* The Frame has no EEPROM to read; its inky_eeprom_read reports the panel it has.
FrameVariant == 22

ReadEeprom == /\ stage = "boot" /\ ~inky_frame /\ EepromStep
              /\ UNCHANGED <<iovars, panelvars>>

Identify == /\ stage = "boot" /\ (inky_frame \/ read # "no")
            /\ stage' = "idle"
            /\ variant' = IF inky_frame THEN FrameVariant ELSE IF read = "good" THEN d[7] ELSE 255
            /\ UNCHANGED <<eepvars, iovars, inky_frame, pc, image, late, clean, paints, resets>>

\* panel->paint, with a new frame or without one.
Paint == /\ stage = "idle" /\ Supported(variant) /\ paints < MaxPaints
         /\ stage' = "paint" /\ pc' = 1 /\ paints' = paints + 1
         /\ image' \in {0, paints + 1} /\ late' = FALSE /\ clean' = FALSE
         /\ UNCHANGED <<eepvars, iovars, inky_frame, variant, resets>>

\* The driver's next call, and what it is.
At(op) == stage = "paint" /\ Driver(variant)[pc].op = op
Call   == Driver(variant)[pc]

\* On to the next call, or back to the caller.
Advance(slow, giveup) ==
    /\ late' = slow
    /\ IF giveup \/ pc = Len(Driver(variant))
       THEN stage' = "idle" /\ pc' = 0 /\ clean' = ~slow
       ELSE stage' = stage /\ pc' = pc + 1 /\ UNCHANGED clean
    /\ UNCHANGED <<eepvars, inky_frame, variant, image, paints, resets>>
Proceed == Advance(late, FALSE)

PaintReset   == At("reset") /\ ResetPanel(PinsOf(variant)) /\ Proceed
PaintSettle  == At("settle") /\ SettlePower /\ Proceed
PaintCommand == At("command") /\ Command(Call.to, Call.code, Call.arg) /\ Proceed
PaintBegin   == At("begin") /\ DtmBegin(Call.pin) /\ Proceed
PaintWrite   == /\ At("write")
                /\ DtmWrite(Picture(image, Call.part, Call.stride, Call.rows)) /\ Proceed
PaintEnd     == At("end") /\ DtmEnd /\ Proceed
PaintWait    == /\ At("wait") /\ WaitOver
                /\ Advance(late \/ IsBusy, IsBusy /\ Call.must)
                /\ UNCHANGED iovars

\* The microcontroller starts anew; its pins float, the controllers do not notice.
McuReset == /\ resets < MaxResets /\ resets' = resets + 1
            /\ EepromReset
            /\ stage' = "boot" /\ variant' = 255 /\ pc' = 0 /\ late' = FALSE /\ clean' = FALSE
            /\ asserted' = {}
            /\ UNCHANGED <<s_dtm_cs, ctl, inky_frame, image, paints>>

Program == \/ ReadEeprom \/ Identify \/ Paint
           \/ PaintReset \/ PaintSettle \/ PaintCommand
           \/ PaintBegin \/ PaintWrite \/ PaintEnd \/ PaintWait

Controllers == \E p \in Pins : Finish(p) /\ UNCHANGED <<eepvars, panelvars>>

\* Nothing left to paint, or nothing to paint on.
Done == stage = "idle" /\ (paints = MaxPaints \/ ~Supported(variant)) /\ UNCHANGED vars

Next == Program \/ Controllers \/ McuReset \/ Done

Spec == Init /\ [][Next]_vars

\* The program runs; a controller may stay busy for ever.
FairSpec == Spec /\ WF_vars(Program)

-----------------------------------------------------------------------------
TypeOK ==
    /\ EepromTypeOK /\ IoTypeOK
    /\ inky_frame \in BOOLEAN /\ stage \in {"boot", "idle", "paint"} /\ variant \in 0..255
    /\ pc \in 0..60 /\ image \in 0..MaxPaints /\ late \in BOOLEAN /\ clean \in BOOLEAN
    /\ paints \in 0..MaxPaints /\ resets \in 0..MaxResets

\* Whatever reset came before, inky_eeprom_read returns the EEPROM's bytes if there is one
\* and false if there is none (inky_eeprom.c:127-160), unless the reset found the EEPROM
\* holding SDA low: nothing in the code clocks it out of that.
RightPanel ==
    read # "no" /\ ~caught =>
        /\ (read = "good") = present
        /\ present => d = [k \in 1..Size |-> memory[k - 1]]

\* The whole frame is on the glass: what each controller shows is its part of what was
\* painted, and of a frame every byte in rows as long as the descriptor's (panels.h:24),
\* unless a wait ran into its timeout; timeouts and resets in earlier paints do not matter.
Native(p, g) == IF p = k_el133 THEN g.stride = 300 /\ g.rows = 1600
                ELSE g.stride = p.width \div 2 /\ g.rows = p.height
FrameIsShown ==
    stage = "idle" /\ clean =>
        \A pin \in PinsOf(variant) :
            LET g == ctl[pin].glass
            IN /\ g.of = image
               /\ g.part = (CASE pin = 26 -> "left" [] pin = 16 -> "right" [] OTHER -> "all")
               /\ image # 0 => Native(Panel(variant), g)

\* The 13.3 inch panel shows the landscape frame turned by 90 degrees, every pixel once and
\* none out of its half (panels.c:126-188): row and half are those of the rotated pixel.
RightWayUp == At("write") /\ Call.part \in {"left", "right"} => \A f \in Samples : Rotated(f)

\* No controller is sent a command or a frame while it is busy (panels.c:175-176, 192,
\* 239-255), unless a wait of this paint ran into its timeout.
ReadyBeforeCommand ==
    At("command") \/ At("begin") => late \/ \A p \in PinsOf(variant) : ctl[p].busy = "no"

\* A paint leaves the panel without power (panels.c:177, 244, 254, 332, 378), unless a wait ran
\* into its timeout.
PoweredDown == stage = "idle" /\ clean => \A p \in Pins : ~ctl[p].on

\* The panel is identified and a paint comes to its end, even if BUSY is never released.
PaintEnds == stage # "idle" ~> stage = "idle"
=============================================================================
