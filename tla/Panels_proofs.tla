---------------------------- MODULE Panels_proofs ----------------------------
(***************************************************************************)
(* Proofs about Panels: where the pixels of a 13.3 inch frame go, for      *)
(* every frame and every size of panel; what the drivers do to controllers *)
(* that answer in time, and what these show then, for any number of paints *)
(* and resets.                                                             *)
(***************************************************************************)
EXTENDS Eeprom_proofs

-----------------------------------------------------------------------------
(* The rotation. *)

\* panels.c:141-144: the byte that a pixel is taken from is in the frame.
LEMMA IndexInFrame ==
    ASSUME NEW frame \in Frames, NEW r \in 0..(Rows - 1), NEW c \in 0..(2 * Stride - 1)
    PROVE  Nibble(frame[Index(r, c)], c) \in 0..15
<1>1. c \div 2 \in 0..(Stride - 1)
  BY RotationAssumption
<1>2. r * Stride \in Nat /\ r * Stride + Stride <= Stride * Rows
  <2>1. PICK s \in Nat : Rows = r + 1 + s
    <3>1. Rows - r - 1 \in Nat /\ Rows = r + 1 + (Rows - r - 1)
      BY RotationAssumption
    <3> QED
      BY <3>1
  <2>2. Stride * Rows = r * Stride + Stride + s * Stride
    BY <2>1, RotationAssumption
  <2>3. s * Stride \in Nat /\ r * Stride \in Nat
    BY <2>1, RotationAssumption
  <2> QED
    BY <2>2, <2>3, RotationAssumption
<1>3. Index(r, c) \in 0..(Stride * Rows - 1)
  BY <1>1, <1>2, RotationAssumption DEF Index
<1>4. frame[Index(r, c)] \in 0..255
  BY <1>3 DEF Frames, Byte
<1> QED
  BY <1>4 DEF Nibble

\* panels.c:140-145: a byte gives back the two nibbles that it is put together from.
LEMMA Nibbles ==
    ASSUME NEW a \in 0..15, NEW b0 \in 0..15, NEW q \in Nat
    PROVE  Nibble(16 * a + b0, q) = IF q % 2 = 0 THEN a ELSE b0
BY DEF Nibble

\* panels.c:126-166: of any frame, every pixel arrives where the panel turned by 90 degrees
\* shows it: every pixel of the panel is one of the frame's, and another for each.
THEOREM RotationIsRight == \A frame \in Frames : Rotated(frame)
<1> SUFFICES ASSUME NEW frame \in Frames,
                    NEW p \in 0..(2 * Stride - 1), NEW q \in 0..(Rows - 1)
             PROVE  Shown(frame, p, q) = Pixel(frame, Rows - 1 - q, p)
  BY DEF Rotated
<1> DEFINE right == q >= Half
           k     == (q % Half) \div 2
           row   == Top(right) - 2 * k
<1>1. Half \in Nat \ {0} /\ Half % 2 = 0 /\ Rows = 2 * Half
  BY RotationAssumption DEF Half
<1>2. /\ q % 2 = 0 => row = Rows - 1 - q
      /\ q % 2 = 1 => row - 1 = Rows - 1 - q
      /\ row \in 1..(Rows - 1) /\ row - 1 \in 0..(Rows - 1)
  <2>1. CASE q < Half
    <3>1. q % Half = q /\ ~right
      BY <1>1, <2>1
    <3> QED
      BY <1>1, <2>1, <3>1 DEF Top
  <2>2. CASE q >= Half
    <3>1. q % Half = q - Half /\ right
      <4>1. q - Half \in 0..(Half - 1) /\ q = Half + (q - Half)
        BY <1>1, <2>2
      <4> QED
        BY <1>1, <2>2, <4>1
    <3> QED
      BY <1>1, <2>2, <3>1 DEF Top
  <2> QED
    BY <1>1, <2>1, <2>2
<1> DEFINE hi == Nibble(frame[Index(row, p)], p)
           lo == Nibble(frame[Index(row - 1, p)], p)
<1>3. hi \in 0..15 /\ lo \in 0..15
  <2>1. row \in 0..(Rows - 1)
    BY <1>2
  <2> HIDE DEF row
  <2> QED
    BY <1>2, <2>1, IndexInFrame
<1>4. Shown(frame, p, q) = Nibble(16 * hi + lo, q)
  BY DEF Shown, RotatedByte
<1>5. Pixel(frame, Rows - 1 - q, p) = IF q % 2 = 0 THEN hi ELSE lo
  <2> HIDE DEF row
  <2> QED
    BY <1>2 DEF Pixel
<1> HIDE DEF hi, lo
<1> QED
  BY <1>3, <1>4, <1>5, Nibbles

\* panels.c:126-188: whatever frame is streamed to the 13.3 inch panel, it is shown the
\* right way up.
THEOREM ShownRightWayUp == Spec => []RightWayUp
<1>1. RightWayUp
  BY RotationIsRight, PanelsAssumption DEF RightWayUp
<1> QED
  BY <1>1, PTL

-----------------------------------------------------------------------------
(* The drivers' sequences: what may follow what. *)

\* The calls of a driver for the controllers P.
Items(P) == [op: {"reset", "settle", "end"}]
            \cup [op: {"wait"}, must: BOOLEAN]
            \cup [op: {"command"}, to: SUBSET P, code: Nat, arg: Nat]
            \cup [op: {"begin"}, pin: P]
            \cup [op: {"write"}, part: {"all", "left", "right"}, stride: Nat, rows: Nat]

\* After a call of these nothing is busy that was not before.
Restful(c) == \/ c.op \in {"settle", "wait", "end"}
              \/ c.op = "command" /\ c.code \notin {PON, POF, DRF}

\* What makes a controller busy is waited for; a stream is begun, written and ended.
Follows(c, n) ==
    /\ c.op = "reset" \/ (c.op = "command" /\ c.code \in {PON, POF}) => n.op \in {"settle", "wait"}
    /\ c.op = "command" /\ c.code = DRF => n.op = "wait"
    /\ c.op = "begin" <=> n.op = "write"
    /\ c.op = "write" <=> n.op = "end"

Good(P, s) == /\ s \in Seq(Items(P)) /\ Len(s) > 0
              /\ s[1].op \notin {"write", "end"} /\ Restful(s[Len(s)])
              /\ \A k \in 1..(Len(s) - 1) : Follows(s[k], s[k + 1])

\* panels.c: good sequences after each other are one.
LEMMA GoodConcat ==
    ASSUME NEW P, NEW s, NEW u, Good(P, s), Good(P, u)
    PROVE  Good(P, s \o u)
<1>1. /\ s \in Seq(Items(P)) /\ u \in Seq(Items(P))
      /\ Len(s) \in Nat \ {0} /\ Len(u) \in Nat \ {0}
  BY LenProperties DEF Good
<1>2. /\ s \o u \in Seq(Items(P)) /\ Len(s \o u) = Len(s) + Len(u)
      /\ \A i \in 1..(Len(s) + Len(u)) : (s \o u)[i] = IF i <= Len(s) THEN s[i] ELSE u[i - Len(s)]
  BY <1>1, ConcatProperties
<1>3. (s \o u)[1] = s[1] /\ (s \o u)[Len(s \o u)] = u[Len(u)]
  <2>1. 1 <= Len(s) /\ ~(Len(s) + Len(u) <= Len(s)) /\ Len(s) + Len(u) - Len(s) = Len(u)
    BY <1>1
  <2> QED
    BY <1>1, <1>2, <2>1
<1>4. ASSUME NEW k \in 1..(Len(s) + Len(u) - 1)
      PROVE  Follows((s \o u)[k], (s \o u)[k + 1])
  <2>1. CASE k < Len(s)
    <3>1. (s \o u)[k] = s[k] /\ (s \o u)[k + 1] = s[k + 1] /\ k \in 1..(Len(s) - 1)
      BY <1>1, <1>2, <2>1
    <3> QED
      BY <3>1 DEF Good
  <2>2. CASE k = Len(s)
    <3>1. (s \o u)[k] = s[Len(s)] /\ (s \o u)[k + 1] = u[1]
      <4>1. k + 1 \in 1..(Len(s) + Len(u)) /\ ~(k + 1 <= Len(s)) /\ k + 1 - Len(s) = 1
        BY <1>1, <2>2
      <4> QED
        BY <1>1, <1>2, <2>2, <4>1
    <3>2. Restful(s[Len(s)]) /\ u[1].op \notin {"write", "end"}
      BY DEF Good
    <3> QED
      BY <3>1, <3>2 DEF Follows, Restful, PON, POF, DRF
  <2>3. CASE k > Len(s)
    <3>1. /\ (s \o u)[k] = u[k - Len(s)] /\ (s \o u)[k + 1] = u[(k - Len(s)) + 1]
          /\ k - Len(s) \in 1..(Len(u) - 1)
      <4>1. k + 1 \in 1..(Len(s) + Len(u)) /\ ~(k + 1 <= Len(s)) /\ ~(k <= Len(s))
            /\ k + 1 - Len(s) = (k - Len(s)) + 1
        BY <1>1, <2>3
      <4> QED
        BY <1>1, <1>2, <2>3, <4>1
    <3> QED
      BY <3>1 DEF Good
  <2> QED
    BY <1>1, <2>1, <2>2, <2>3
<1> QED
  BY <1>1, <1>2, <1>3, <1>4 DEF Good

\* panels.c: runs of configuring commands.
LEMMA GoodCmds ==
    ASSUME NEW P, NEW to \in SUBSET P, NEW codes \in Seq(Nat \ {PON, POF, DRF}), Len(codes) > 0
    PROVE  Good(P, Cmds(to, codes))
<1> DEFINE s == Cmds(to, codes)
<1>1. Len(codes) \in Nat /\ \A k \in 1..Len(codes) : codes[k] \in Nat \ {PON, POF, DRF}
  BY LenProperties
<1>2. s = [k \in 1..Len(codes) |-> Cmd(to, codes[k])]
  BY DEF Cmds
<1>3. \A k \in 1..Len(codes) : Cmd(to, codes[k]) \in Items(P) /\ Restful(Cmd(to, codes[k]))
                                /\ Cmd(to, codes[k]).op = "command"
  BY <1>1 DEF Cmd, Items, Restful
<1>4. s \in Seq(Items(P)) /\ Len(s) = Len(codes)
  BY <1>1, <1>2, <1>3
<1>5. \A k \in 1..Len(codes) : s[k].op = "command" /\ Restful(s[k])
  BY <1>2, <1>3
<1> HIDE DEF s
<1>6. ASSUME NEW k \in 1..(Len(s) - 1) PROVE Follows(s[k], s[k + 1])
  <2>1. k \in 1..Len(codes) /\ k + 1 \in 1..Len(codes)
    BY <1>1, <1>4
  <2> QED
    BY <1>5, <2>1 DEF Follows, Restful
<1>7. Good(P, s)
  BY <1>1, <1>4, <1>5, <1>6 DEF Good
<1> QED
  BY <1>7 DEF s

\* panels.c: the resolution command.
LEMMA GoodRes ==
    ASSUME NEW P, NEW to \in SUBSET P, NEW w \in Nat, NEW h \in Nat
    PROVE  Good(P, << Res(to, w, h) >>)
<1>1. (w * h) \div 2 \in Nat
  <2>1. w * h \in Nat
    OBVIOUS
  <2> HIDE DEF PON
  <2> QED
    BY <2>1
<1>2. Res(to, w, h) \in Items(P) /\ Restful(Res(to, w, h)) /\ Res(to, w, h).op = "command"
  BY <1>1 DEF Res, Items, Restful, TRES, PON, POF, DRF
<1> DEFINE c == Res(to, w, h)
<1> HIDE DEF c
<1>3. c \in Items(P) /\ Restful(c) /\ c.op = "command"
  BY <1>2 DEF c
<1>4. Good(P, << c >>)
  BY <1>3 DEF Good
<1> QED
  BY <1>4 DEF c

\* epd_io.c: a stream is begun, written and ended.
LEMMA GoodStream ==
    ASSUME NEW P, NEW pin \in P, NEW part \in {"all", "left", "right"},
           NEW stride \in Nat, NEW rows \in Nat
    PROVE  Good(P, Stream(pin, part, stride, rows))
<1> DEFINE c1 == [op |-> "begin", pin |-> pin]
           c2 == [op |-> "write", part |-> part, stride |-> stride, rows |-> rows]
           c3 == [op |-> "end"]
<1>1. c1 \in Items(P) /\ c2 \in Items(P) /\ c3 \in Items(P)
  BY DEF Items
<1>2. c1.op = "begin" /\ c2.op = "write" /\ c3.op = "end"
  OBVIOUS
<1> HIDE DEF c1, c2, c3
<1>3. << c1, c2, c3 >> \in Seq(Items(P)) /\ Len(<< c1, c2, c3 >>) = 3
  BY <1>1
<1>4. Follows(c1, c2) /\ Follows(c2, c3) /\ Restful(c3)
  BY <1>2 DEF Follows, Restful
<1>5. Good(P, << c1, c2, c3 >>)
  <2> DEFINE u == << c1, c2, c3 >>
  <2>1. Len(u) = 3 /\ u[1] = c1 /\ u[2] = c2 /\ u[3] = c3 /\ u \in Seq(Items(P))
    BY <1>3
  <2> HIDE DEF u
  <2>2. \A k \in 1..(Len(u) - 1) : k = 1 \/ k = 2
    BY <2>1
  <2>3. Good(P, u)
    BY <1>2, <1>4, <2>1, <2>2 DEF Good
  <2> QED
    BY <2>3 DEF u
<1> QED
  BY <1>5 DEF Stream, c1, c2, c3

\* panels.c: after a reset, and at the end of a driver, whoever waits in the way of the
\* Impressions (Settle) or of the Frame (Wait).
Pauses == {Settle, Wait(TRUE), Wait(FALSE)}

\* panels.c: both of them leave the controllers at rest.
LEMMA PauseIsItem ==
    ASSUME NEW P, NEW pause \in Pauses
    PROVE  pause \in Items(P) /\ pause.op \in {"settle", "wait"}
<1>1. CASE pause = Settle
  BY <1>1 DEF Settle, Items
<1>2. CASE pause = Wait(TRUE)
  BY <1>2 DEF Wait, Items
<1>3. CASE pause = Wait(FALSE)
  BY <1>3 DEF Wait, Items
<1> QED
  BY <1>1, <1>2, <1>3 DEF Pauses

\* panels.c: a reset and what waits for it.
LEMMA GoodReset ==
    ASSUME NEW P, NEW pause \in Pauses
    PROVE  Good(P, << Reset, pause >>)
<1>1. Reset \in Items(P) /\ Reset.op = "reset"
  BY DEF Items, Reset
<1>2. pause \in Items(P) /\ pause.op \in {"settle", "wait"}
  BY PauseIsItem
<1> DEFINE a == Reset
<1> HIDE DEF a
<1>3. a \in Items(P) /\ a.op = "reset"
  BY <1>1 DEF a
<1>4. Follows(a, pause) /\ Restful(pause)
  BY <1>2, <1>3 DEF Follows, Restful
<1>5. Good(P, << a, pause >>)
  <2> DEFINE u == << a, pause >>
  <2>1. Len(u) = 2 /\ u[1] = a /\ u[2] = pause /\ u \in Seq(Items(P))
    BY <1>2, <1>3
  <2> HIDE DEF u
  <2>2. Good(P, u)
    BY <1>2, <1>3, <1>4, <2>1 DEF Good
  <2> QED
    BY <2>2 DEF u
<1> QED
  BY <1>5 DEF a

PowersOn(c) == c.op = "command" /\ c.code = PON

\* A sequence ends with its controllers switched off.
Unpowers(P, s) == \E j \in 1..Len(s) :
                /\ s[j] = PowerOff(P)
                /\ \A k \in j..Len(s) : ~PowersOn(s[k])

\* panels.c: what comes before does not matter for that ...
LEMMA OffAfter ==
    ASSUME NEW P, NEW s, NEW u, Good(P, s), Good(P, u), Unpowers(P, u)
    PROVE  Unpowers(P, s \o u)
<1>1. /\ s \in Seq(Items(P)) /\ u \in Seq(Items(P))
      /\ Len(s) \in Nat \ {0} /\ Len(u) \in Nat \ {0}
  BY LenProperties DEF Good
<1>2. /\ Len(s \o u) = Len(s) + Len(u)
      /\ \A i \in 1..(Len(s) + Len(u)) : (s \o u)[i] = IF i <= Len(s) THEN s[i] ELSE u[i - Len(s)]
  BY <1>1, ConcatProperties
<1>3. PICK j \in 1..Len(u) : u[j] = PowerOff(P) /\ \A k \in j..Len(u) : ~PowersOn(u[k])
  BY DEF Unpowers
<1>4. Len(s) + j \in 1..Len(s \o u) /\ (s \o u)[Len(s) + j] = PowerOff(P)
  <2>1. Len(s) + j \in 1..(Len(s) + Len(u)) /\ ~(Len(s) + j <= Len(s)) /\ Len(s) + j - Len(s) = j
    BY <1>1
  <2> QED
    BY <1>2, <1>3, <2>1
<1>5. ASSUME NEW k \in (Len(s) + j)..Len(s \o u) PROVE ~PowersOn((s \o u)[k])
  <2>1. k \in 1..(Len(s) + Len(u)) /\ ~(k <= Len(s)) /\ k - Len(s) \in j..Len(u)
    BY <1>1, <1>2
  <2> QED
    BY <1>2, <1>3, <2>1
<1> QED
  BY <1>4, <1>5 DEF Unpowers

\* panels.c: ... and what comes after does not if it does not switch them on.
LEMMA OffBefore ==
    ASSUME NEW P, NEW s, NEW u, Good(P, s), Good(P, u), Unpowers(P, s),
           \A k \in 1..Len(u) : ~PowersOn(u[k])
    PROVE  Unpowers(P, s \o u)
<1>1. /\ s \in Seq(Items(P)) /\ u \in Seq(Items(P))
      /\ Len(s) \in Nat \ {0} /\ Len(u) \in Nat \ {0}
  BY LenProperties DEF Good
<1>2. /\ Len(s \o u) = Len(s) + Len(u)
      /\ \A i \in 1..(Len(s) + Len(u)) : (s \o u)[i] = IF i <= Len(s) THEN s[i] ELSE u[i - Len(s)]
  BY <1>1, ConcatProperties
<1>3. PICK j \in 1..Len(s) : s[j] = PowerOff(P) /\ \A k \in j..Len(s) : ~PowersOn(s[k])
  BY DEF Unpowers
<1>4. j \in 1..Len(s \o u) /\ (s \o u)[j] = PowerOff(P)
  BY <1>1, <1>2, <1>3
<1>5. ASSUME NEW k \in j..Len(s \o u) PROVE ~PowersOn((s \o u)[k])
  <2>1. CASE k <= Len(s)
    BY <1>1, <1>2, <1>3, <2>1
  <2>2. CASE ~(k <= Len(s))
    <3>1. k \in 1..(Len(s) + Len(u)) /\ k - Len(s) \in 1..Len(u)
      BY <1>1, <1>2, <2>2
    <3> QED
      BY <1>2, <2>2, <3>1
  <2> QED
    BY <2>1, <2>2
<1> QED
  BY <1>4, <1>5 DEF Unpowers

\* panels.c:175-177, 330-332, 376-378: power on, refresh, power off.
LEMMA GoodTail ==
    ASSUME NEW P, NEW pa \in Pauses, NEW w \in {Wait(TRUE), Wait(FALSE)}, NEW pb \in Pauses
    PROVE  LET s == << Cmd(P, PON), pa, Cmd(P, DRF), w, PowerOff(P), pb >>
           IN Good(P, s) /\ Unpowers(P, s)
<1> DEFINE on == Cmd(P, PON)
           rf == Cmd(P, DRF)
           of == PowerOff(P)
<1>1. /\ on \in Items(P) /\ on.op = "command" /\ on.code = PON
      /\ rf \in Items(P) /\ rf.op = "command" /\ rf.code = DRF
      /\ of \in Items(P) /\ of.op = "command" /\ of.code = POF
  BY DEF Items, Cmd, PowerOff, PON, DRF, POF
<1>2. /\ pa \in Items(P) /\ pa.op \in {"settle", "wait"}
      /\ pb \in Items(P) /\ pb.op \in {"settle", "wait"}
  BY PauseIsItem
<1>3. w \in Items(P) /\ w.op = "wait"
  <2>1. CASE w = Wait(TRUE)
    BY <2>1 DEF Wait, Items
  <2>2. CASE w = Wait(FALSE)
    BY <2>2 DEF Wait, Items
  <2> QED
    BY <2>1, <2>2
<1> HIDE DEF on, rf, of
<1> DEFINE s == << on, pa, rf, w, of, pb >>
<1>4. /\ s \in Seq(Items(P)) /\ Len(s) = 6
      /\ s[1] = on
      /\ s[2] = pa
      /\ s[3] = rf
      /\ s[4] = w
      /\ s[5] = of
      /\ s[6] = pb
  BY <1>1, <1>2, <1>3
<1> HIDE DEF s
<1>5. Restful(pb) /\ s[1].op \notin {"write", "end"}
  BY <1>1, <1>2, <1>4 DEF Restful
<1>6. /\ Follows(on, pa) /\ Follows(pa, rf) /\ Follows(rf, w)
      /\ Follows(w, of) /\ Follows(of, pb)
  BY <1>1, <1>2, <1>3 DEF Follows, PON, DRF, POF
<1>7. \A k \in 1..(Len(s) - 1) : k = 1 \/ k = 2 \/ k = 3 \/ k = 4 \/ k = 5
  BY <1>4
<1>8. Good(P, s)
  BY <1>4, <1>5, <1>6, <1>7 DEF Good
<1>9. Unpowers(P, s)
  <2>1. \A k \in 5..Len(s) : k = 5 \/ k = 6
    BY <1>4
  <2>2. ~PowersOn(of) /\ ~PowersOn(pb)
    BY <1>1, <1>2 DEF PowersOn, PON, POF
  <2>3. 5 \in 1..Len(s) /\ s[5] = PowerOff(P)
    BY <1>4 DEF of
  <2> QED
    BY <1>4, <2>1, <2>2, <2>3 DEF Unpowers
<1> QED
  BY <1>8, <1>9 DEF s, on, rf, of

\* panels.c:239-254: power on, a booster setting, refresh, power off.
LEMMA GoodTailBoosted ==
    ASSUME NEW P, NEW pa \in Pauses, NEW w \in {Wait(TRUE), Wait(FALSE)}, NEW pb \in Pauses
    PROVE  LET s == << Cmd(P, PON), pa, Cmd(P, 6), Cmd(P, DRF), w, PowerOff(P), pb >>
           IN Good(P, s) /\ Unpowers(P, s)
<1> DEFINE on == Cmd(P, PON)
           rf == Cmd(P, DRF)
           of == PowerOff(P)
           bt == Cmd(P, 6)
<1>1. /\ on \in Items(P) /\ on.op = "command" /\ on.code = PON
      /\ rf \in Items(P) /\ rf.op = "command" /\ rf.code = DRF
      /\ of \in Items(P) /\ of.op = "command" /\ of.code = POF
      /\ bt \in Items(P) /\ bt.op = "command" /\ bt.code = 6
  BY DEF Items, Cmd, PowerOff, PON, DRF, POF
<1>2. /\ pa \in Items(P) /\ pa.op \in {"settle", "wait"}
      /\ pb \in Items(P) /\ pb.op \in {"settle", "wait"}
  BY PauseIsItem
<1>3. w \in Items(P) /\ w.op = "wait"
  <2>1. CASE w = Wait(TRUE)
    BY <2>1 DEF Wait, Items
  <2>2. CASE w = Wait(FALSE)
    BY <2>2 DEF Wait, Items
  <2> QED
    BY <2>1, <2>2
<1> HIDE DEF on, rf, of, bt
<1> DEFINE s == << on, pa, bt, rf, w, of, pb >>
<1>4. /\ s \in Seq(Items(P)) /\ Len(s) = 7
      /\ s[1] = on
      /\ s[2] = pa
      /\ s[3] = bt
      /\ s[4] = rf
      /\ s[5] = w
      /\ s[6] = of
      /\ s[7] = pb
  BY <1>1, <1>2, <1>3
<1> HIDE DEF s
<1>5. Restful(pb) /\ s[1].op \notin {"write", "end"}
  BY <1>1, <1>2, <1>4 DEF Restful
<1>6. /\ Follows(on, pa) /\ Follows(pa, bt) /\ Follows(bt, rf)
      /\ Follows(rf, w) /\ Follows(w, of) /\ Follows(of, pb)
  BY <1>1, <1>2, <1>3 DEF Follows, PON, DRF, POF
<1>7. \A k \in 1..(Len(s) - 1) : k = 1 \/ k = 2 \/ k = 3 \/ k = 4 \/ k = 5 \/ k = 6
  BY <1>4
<1>8. Good(P, s)
  BY <1>4, <1>5, <1>6, <1>7 DEF Good
<1>9. Unpowers(P, s)
  <2>1. \A k \in 6..Len(s) : k = 6 \/ k = 7
    BY <1>4
  <2>2. ~PowersOn(of) /\ ~PowersOn(pb)
    BY <1>1, <1>2 DEF PowersOn, PON, POF
  <2>3. 6 \in 1..Len(s) /\ s[6] = PowerOff(P)
    BY <1>4 DEF of
  <2> QED
    BY <1>4, <2>1, <2>2, <2>3 DEF Unpowers
<1> QED
  BY <1>8, <1>9 DEF s, on, rf, of, bt

-----------------------------------------------------------------------------
(* The five drivers. *)

\* Good, from a reset on, and at the end the controllers are off.
Orderly(P, s) == Good(P, s) /\ Unpowers(P, s) /\ s[1].op = "reset"

\* panels.c: a driver resets the panel first.
LEMMA OrderlyAfter ==
    ASSUME NEW P, NEW s, NEW u, Good(P, s), s[1].op = "reset", Good(P, u), Unpowers(P, u)
    PROVE  Orderly(P, s \o u)
<1>1. (s \o u)[1] = s[1]
  <2>1. /\ s \in Seq(Items(P)) /\ u \in Seq(Items(P))
        /\ Len(s) \in Nat \ {0} /\ Len(u) \in Nat \ {0}
    BY LenProperties DEF Good
  <2> QED
    BY <2>1, ConcatProperties
<1> QED
  BY <1>1, GoodConcat, OffAfter DEF Orderly

\* panels.c: a stretch that follows a reset.
LEMMA ResetConcat ==
    ASSUME NEW P, NEW s, NEW u, Good(P, s), s[1].op = "reset", Good(P, u)
    PROVE  Good(P, s \o u) /\ (s \o u)[1].op = "reset"
<1>1. (s \o u)[1] = s[1]
  <2>1. /\ s \in Seq(Items(P)) /\ u \in Seq(Items(P))
        /\ Len(s) \in Nat \ {0} /\ Len(u) \in Nat \ {0}
    BY LenProperties DEF Good
  <2> QED
    BY <2>1, ConcatProperties
<1> QED
  BY <1>1, GoodConcat

\* panels.c:68-179.
LEMMA El133Orderly == Orderly({26, 16}, El133)
<1> DEFINE P == {26, 16}
           M == {26}
           S == {16}
           a0 == << Reset, Settle >>
           a1 == Cmds(M, <<116>>)
           a2 == Cmds(P, <<240, 0>>)
           a3 == Cmds(M, <<165>>)
           a4 == Cmds(P, <<48, 80, 96>>)
           a5 == Cmds(M, <<3>>)
           a6 == Cmds(S, <<3>>)
           a7 == Cmds(P, <<134, 227, 224>>)
           a8 == << Res(P, 1200, 800) >>
           a9 == Cmds(M, <<164, 1, 182, 6, 183, 5, 176, 177>>)
           b1 == Stream(26, "left", 300, 1600)
           b2 == Stream(16, "right", 300, 1600)
           b3 == << Cmd(P, PON), Settle, Cmd(P, DRF), Wait(FALSE), PowerOff(P), Settle >>
<1>0. M \in SUBSET P /\ S \in SUBSET P /\ P \in SUBSET P /\ 26 \in P /\ 16 \in P
  OBVIOUS
<1>1. Good(P, a0) /\ a0[1].op = "reset"
  BY GoodReset DEF Pauses, Reset
<1>2. Good(P, a1) /\ Good(P, a3) /\ Good(P, a5) /\ Good(P, a6)
  <2>1. /\ <<116>> \in Seq(Nat \ {PON, POF, DRF}) /\ Len(<<116>>) > 0
        /\ <<165>> \in Seq(Nat \ {PON, POF, DRF}) /\ Len(<<165>>) > 0
        /\ <<3>> \in Seq(Nat \ {PON, POF, DRF}) /\ Len(<<3>>) > 0
    BY DEF PON, POF, DRF
  <2> QED
    BY <1>0, <2>1, GoodCmds
<1>3. Good(P, a2) /\ Good(P, a4) /\ Good(P, a7)
  <2>1. /\ <<240, 0>> \in Seq(Nat \ {PON, POF, DRF}) /\ Len(<<240, 0>>) > 0
        /\ <<48, 80, 96>> \in Seq(Nat \ {PON, POF, DRF}) /\ Len(<<48, 80, 96>>) > 0
        /\ <<134, 227, 224>> \in Seq(Nat \ {PON, POF, DRF}) /\ Len(<<134, 227, 224>>) > 0
    BY DEF PON, POF, DRF
  <2> QED
    BY <1>0, <2>1, GoodCmds, ZenonT(60)
<1>4. Good(P, a9)
  <2>1. /\ <<164, 1, 182, 6, 183, 5, 176, 177>> \in Seq(Nat \ {PON, POF, DRF})
        /\ Len(<<164, 1, 182, 6, 183, 5, 176, 177>>) > 0
    BY DEF PON, POF, DRF
  <2> QED
    BY <1>0, <2>1, GoodCmds, ZenonT(60)
<1>5. Good(P, a8) /\ Good(P, b1) /\ Good(P, b2)
  <2>1. 300 \in Nat /\ 1600 \in Nat /\ 1200 \in Nat /\ 800 \in Nat
    OBVIOUS
  <2>2. "left" \in {"all", "left", "right"} /\ "right" \in {"all", "left", "right"}
    OBVIOUS
  <2>3. Good(P, a8)
    BY <1>0, <2>1, GoodRes
  <2>4. Good(P, b1)
    BY <1>0, <2>1, <2>2, GoodStream
  <2>5. Good(P, b2)
    BY <1>0, <2>1, <2>2, GoodStream
  <2> QED
    BY <2>3, <2>4, <2>5
<1>6. Good(P, b3) /\ Unpowers(P, b3)
  BY GoodTail DEF Pauses
<1>7. El133 = a0 \o a1 \o a2 \o a3 \o a4 \o a5 \o a6 \o a7 \o a8 \o a9 \o b1 \o b2 \o b3
  BY DEF El133
<1> HIDE DEF a0, a1, a2, a3, a4, a5, a6, a7, a8, a9, b1, b2, b3
<1> DEFINE c4 == a0 \o a1 \o a2 \o a3 \o a4
           c8 == c4 \o a5 \o a6 \o a7 \o a8
           c9 == c8 \o a9 \o b1 \o b2
<1>8. Good(P, c4) /\ c4[1].op = "reset"
  <2>1. Good(P, a0 \o a1) /\ (a0 \o a1)[1].op = "reset"
    BY <1>1, <1>2, ResetConcat
  <2>2. Good(P, a0 \o a1 \o a2) /\ (a0 \o a1 \o a2)[1].op = "reset"
    BY <1>3, <2>1, ResetConcat
  <2>3. Good(P, a0 \o a1 \o a2 \o a3) /\ (a0 \o a1 \o a2 \o a3)[1].op = "reset"
    BY <1>2, <2>2, ResetConcat
  <2> QED
    BY <1>3, <2>3, ResetConcat
<1> HIDE DEF c4
<1>9. Good(P, c8) /\ c8[1].op = "reset"
  <2>1. Good(P, c4 \o a5) /\ (c4 \o a5)[1].op = "reset"
    BY <1>2, <1>8, ResetConcat
  <2>2. Good(P, c4 \o a5 \o a6) /\ (c4 \o a5 \o a6)[1].op = "reset"
    BY <1>2, <2>1, ResetConcat
  <2>3. Good(P, c4 \o a5 \o a6 \o a7) /\ (c4 \o a5 \o a6 \o a7)[1].op = "reset"
    BY <1>3, <2>2, ResetConcat
  <2> QED
    BY <1>5, <2>3, ResetConcat
<1> HIDE DEF c8
<1>10. Good(P, c9) /\ c9[1].op = "reset"
  <2>1. Good(P, c8 \o a9) /\ (c8 \o a9)[1].op = "reset"
    BY <1>4, <1>9, ResetConcat
  <2>2. Good(P, c8 \o a9 \o b1) /\ (c8 \o a9 \o b1)[1].op = "reset"
    BY <1>5, <2>1, ResetConcat
  <2> QED
    BY <1>5, <2>2, ResetConcat
<1>11. El133 = c9 \o b3
  BY <1>7 DEF c4, c8, c9
<1> HIDE DEF c9
<1> QED
  BY <1>6, <1>10, <1>11, OrderlyAfter

\* paint_spectra6_small but for the rewrite, for a given pin and way to wait.
SpectraCalls(cs, ready, wait, w, h, tw, th) ==
    << Reset, ready >>
    \o Cmds({cs}, <<170, 1, 0, 5, 8, 6, 3, 96, 48, 80>>) \o << Res({cs}, tw, th) >>
    \o Cmds({cs}, <<227, 130>>)
    \o Single(cs, w, h)
    \o << Cmd({cs}, PON), ready, Cmd({cs}, 6), Cmd({cs}, DRF), wait, PowerOff({cs}), ready >>

\* panels.c:183-258, as the Impressions and as the Frame build it, with the rewrite and
\* without.
LEMMA SpectraOrderly ==
    ASSUME NEW cs, NEW ready \in Pauses, NEW wait \in {Wait(TRUE), Wait(FALSE)},
           NEW w \in Nat, NEW h \in Nat, NEW tw \in Nat, NEW th \in Nat
    PROVE  /\ Orderly({cs}, SpectraCalls(cs, ready, wait, w, h, tw, th))
           /\ Orderly({cs}, SpectraCalls(cs, ready, wait, w, h, tw, th)
                                \o << Cmd({cs}, 0), ready >>)
<1> DEFINE P == {cs}
           a0 == << Reset, ready >>
           a1 == Cmds(P, <<170, 1, 0, 5, 8, 6, 3, 96, 48, 80>>)
           a2 == << Res(P, tw, th) >>
           a3 == Cmds(P, <<227, 130>>)
           b1 == Single(cs, w, h)
           b2 == << Cmd(P, PON), ready, Cmd(P, 6), Cmd(P, DRF), wait, PowerOff(P), ready >>
           b3 == << Cmd(P, 0), ready >>
           body  == SpectraCalls(cs, ready, wait, w, h, tw, th)
<1>1. P \in SUBSET P /\ cs \in P
  OBVIOUS
<1>2. Good(P, a0) /\ a0[1].op = "reset"
  BY GoodReset DEF Reset
<1>3. Good(P, a1) /\ Good(P, a3)
  <2>1. /\ <<170, 1, 0, 5, 8, 6, 3, 96, 48, 80>> \in Seq(Nat \ {PON, POF, DRF})
        /\ Len(<<170, 1, 0, 5, 8, 6, 3, 96, 48, 80>>) > 0
        /\ <<227, 130>> \in Seq(Nat \ {PON, POF, DRF}) /\ Len(<<227, 130>>) > 0
    BY DEF PON, POF, DRF
  <2> QED
    BY <1>1, <2>1, GoodCmds, ZenonT(60)
<1>4. Good(P, a2)
  BY <1>1, GoodRes
<1>5. Good(P, b1)
  <2>1. w \div 2 \in Nat /\ "all" \in {"all", "left", "right"}
    OBVIOUS
  <2> QED
    BY <1>1, <2>1, GoodStream DEF Single
<1>6. Good(P, b2) /\ Unpowers(P, b2)
  BY GoodTailBoosted
<1>7. Good(P, b3) /\ \A k \in 1..Len(b3) : ~PowersOn(b3[k])
  <2> DEFINE c == Cmd(P, 0)
  <2>1. c \in Items(P) /\ c.op = "command" /\ c.code = 0
    BY DEF Cmd, Items
  <2>2. ready \in Items(P) /\ ready.op \in {"settle", "wait"}
    BY PauseIsItem
  <2> HIDE DEF c
  <2> DEFINE u == << c, ready >>
  <2>3. u \in Seq(Items(P)) /\ Len(u) = 2 /\ u[1] = c /\ u[2] = ready
    BY <2>1, <2>2
  <2> HIDE DEF u
  <2>4. Follows(c, ready) /\ Restful(ready)
    BY <2>1, <2>2 DEF Follows, Restful, PON, POF, DRF
  <2>5. Good(P, u) /\ \A k \in 1..Len(u) : ~PowersOn(u[k])
    BY <2>1, <2>2, <2>3, <2>4 DEF Good, PowersOn, PON
  <2> QED
    BY <2>5 DEF u, c
<1>8. body = a0 \o a1 \o a2 \o a3 \o b1 \o b2
  BY DEF SpectraCalls
<1> HIDE DEF a0, a1, a2, a3, b1, b2, b3, body
<1>9. Orderly(P, body)
  <2>1. Good(P, a0 \o a1) /\ (a0 \o a1)[1].op = "reset"
    BY <1>2, <1>3, ResetConcat
  <2>2. Good(P, a0 \o a1 \o a2) /\ (a0 \o a1 \o a2)[1].op = "reset"
    BY <1>4, <2>1, ResetConcat
  <2>3. Good(P, a0 \o a1 \o a2 \o a3) /\ (a0 \o a1 \o a2 \o a3)[1].op = "reset"
    BY <1>3, <2>2, ResetConcat
  <2>4. Good(P, a0 \o a1 \o a2 \o a3 \o b1) /\ (a0 \o a1 \o a2 \o a3 \o b1)[1].op = "reset"
    BY <1>5, <2>3, ResetConcat
  <2> QED
    BY <1>6, <1>8, <2>4, OrderlyAfter
<1>10. Orderly(P, body \o b3)
  <2>1. Good(P, body \o b3) /\ (body \o b3)[1].op = "reset"
    BY <1>7, <1>9, ResetConcat DEF Orderly
  <2>2. Unpowers(P, body \o b3)
    BY <1>7, <1>9, OffBefore DEF Orderly
  <2> QED
    BY <2>1, <2>2 DEF Orderly
<1> QED
  BY <1>9, <1>10 DEF body, b3

\* panels.c:260-273: the two panels that it drives.
LEMMA Spectra6SmallOrderly ==
    ASSUME inky_frame \in BOOLEAN
    PROVE  /\ Orderly({small}, Spectra6Small(800, 480, 800, 480, PsrRewrite))
           /\ Orderly({small}, Spectra6Small(600, 400, 400, 600, <<>>))
<1> DEFINE wait == Wait(inky_frame)
           cs   == small
           ready == Ready
           body == SpectraCalls(cs, ready, wait, 800, 480, 800, 480)
           e == SpectraCalls(cs, ready, wait, 600, 400, 400, 600)
           r == << Cmd({cs}, 0), ready >>
           twice == Spectra6Small(800, 480, 800, 480, PsrRewrite)
           once  == Spectra6Small(600, 400, 400, 600, <<>>)
<1>1. ready \in Pauses /\ wait \in {Wait(TRUE), Wait(FALSE)}
  <2>1. CASE inky_frame = TRUE
    BY <2>1 DEF Pauses, Ready
  <2>2. CASE inky_frame = FALSE
    BY <2>2 DEF Pauses, Ready
  <2> QED
    BY <2>1, <2>2
<1>2. twice = body \o r
  BY DEF Spectra6Small, SpectraCalls, PsrRewrite
<1>3. once = e \o <<>>
  BY DEF Spectra6Small, SpectraCalls
<1> HIDE DEF wait, cs, ready, twice, once
<1>4. Orderly({cs}, body \o r) /\ Orderly({cs}, e)
  <2>1. 800 \in Nat /\ 600 \in Nat /\ 480 \in Nat /\ 400 \in Nat
    OBVIOUS
  <2>2. \A w, h, tw, th \in Nat :
           /\ Orderly({cs}, SpectraCalls(cs, ready, wait, w, h, tw, th))
           /\ Orderly({cs}, SpectraCalls(cs, ready, wait, w, h, tw, th) \o r)
    BY <1>1, SpectraOrderly
  <2> HIDE DEF r
  <2>3. Orderly({cs}, body \o r)
    BY <2>1, <2>2, SMTT(30)
  <2>4. Orderly({cs}, e)
    BY <2>1, <2>2
  <2> QED
    BY <2>3, <2>4
<1> HIDE DEF body, e, r
<1>5. e \o <<>> = e
  <2>1. e \in Seq(Items({cs}))
    BY <1>4 DEF Orderly, Good
  <2> QED
    BY <2>1, ConcatEmptySeq
<1>6. Orderly({cs}, twice)
  BY <1>2, <1>4
<1>7. Orderly({cs}, once)
  BY <1>3, <1>4, <1>5
<1> QED
  BY <1>6, <1>7 DEF cs, twice, once

\* panels.c:277-334.
LEMMA Ac073Orderly == Orderly({8}, Ac073)
<1> DEFINE P == {8}
           a0 == << Reset, Settle >>
           a1 == Cmds(P, <<170, 1, 0, 3, 5, 6, 8, 19, 48, 65, 80, 96>>)
           a2 == << Res(P, 800, 480) >>
           a3 == Cmds(P, <<130, 132, 134, 227, 224, 230>>)
           b1 == Single(8, 800, 480)
           b2 == << Cmd(P, PON), Settle, Cmd(P, DRF), Wait(FALSE), PowerOff(P), Settle >>
<1>0. P \in SUBSET P /\ 8 \in P /\ 800 \in Nat /\ 480 \in Nat
  OBVIOUS
<1>1. Good(P, a0) /\ a0[1].op = "reset"
  BY GoodReset DEF Pauses, Reset
<1>2. Good(P, a1)
  <2>1. /\ <<170, 1, 0, 3, 5, 6, 8, 19, 48, 65, 80, 96>> \in Seq(Nat \ {PON, POF, DRF})
        /\ Len(<<170, 1, 0, 3, 5, 6, 8, 19, 48, 65, 80, 96>>) > 0
    BY DEF PON, POF, DRF
  <2> QED
    BY <1>0, <2>1, GoodCmds, ZenonT(60)
<1>3. Good(P, a3)
  <2>1. /\ <<130, 132, 134, 227, 224, 230>> \in Seq(Nat \ {PON, POF, DRF})
        /\ Len(<<130, 132, 134, 227, 224, 230>>) > 0
    BY DEF PON, POF, DRF
  <2> QED
    BY <1>0, <2>1, GoodCmds, ZenonT(60)
<1>4. Good(P, a2)
  BY <1>0, GoodRes
<1>5. Good(P, b1)
  <2>1. 800 \div 2 \in Nat /\ "all" \in {"all", "left", "right"}
    OBVIOUS
  <2> QED
    BY <1>0, <2>1, GoodStream DEF Single
<1>6. Good(P, b2) /\ Unpowers(P, b2)
  BY GoodTail DEF Pauses
<1>7. Ac073 = a0 \o a1 \o a2 \o a3 \o b1 \o b2
  BY DEF Ac073
<1> HIDE DEF a0, a1, a2, a3, b1, b2
<1>8. Good(P, a0 \o a1) /\ (a0 \o a1)[1].op = "reset"
  BY <1>1, <1>2, ResetConcat
<1>9. Good(P, a0 \o a1 \o a2) /\ (a0 \o a1 \o a2)[1].op = "reset"
  BY <1>4, <1>8, ResetConcat
<1>10. Good(P, a0 \o a1 \o a2 \o a3) /\ (a0 \o a1 \o a2 \o a3)[1].op = "reset"
  BY <1>3, <1>9, ResetConcat
<1>11. Good(P, a0 \o a1 \o a2 \o a3 \o b1) /\ (a0 \o a1 \o a2 \o a3 \o b1)[1].op = "reset"
  BY <1>5, <1>10, ResetConcat
<1> QED
  BY <1>6, <1>7, <1>11, OrderlyAfter

\* panels.c:338-380.
LEMMA Uc8159Orderly == ASSUME NEW v PROVE Orderly({8}, Uc8159(v))
<1> DEFINE P == {8}
           w == IF v = 16 THEN 640 ELSE 600
           h == IF v = 16 THEN 400 ELSE 448
           a0 == << Reset, Settle >>
           a1 == << Res(P, w, h) >>
           a2 == Cmds(P, <<0, 1, 48, 65, 80, 96, 101, 227, 3>>)
           b1 == Single(8, w, h)
           b2 == << Cmd(P, PON), Settle, Cmd(P, DRF), Wait(FALSE), PowerOff(P), Settle >>
<1>0. P \in SUBSET P /\ 8 \in P /\ w \in Nat /\ h \in Nat /\ w \div 2 \in Nat
  OBVIOUS
<1>1. Good(P, a0) /\ a0[1].op = "reset"
  BY GoodReset DEF Pauses, Reset
<1>2. Good(P, a2)
  <2>1. /\ <<0, 1, 48, 65, 80, 96, 101, 227, 3>> \in Seq(Nat \ {PON, POF, DRF})
        /\ Len(<<0, 1, 48, 65, 80, 96, 101, 227, 3>>) > 0
    BY DEF PON, POF, DRF
  <2> QED
    BY <1>0, <2>1, GoodCmds, ZenonT(60)
<1>3. Uc8159(v) = << Reset, Settle, Res(P, w, h) >> \o a2 \o b1 \o b2
  BY DEF Uc8159
<1>4. << Reset, Settle, Res(P, w, h) >> = a0 \o a1
  OBVIOUS
<1> HIDE DEF w, h
<1>5. Good(P, a1)
  BY <1>0, GoodRes
<1>6. Good(P, b1)
  <2>1. "all" \in {"all", "left", "right"}
    OBVIOUS
  <2> QED
    BY <1>0, <2>1, GoodStream DEF Single
<1>7. Good(P, b2) /\ Unpowers(P, b2)
  BY GoodTail DEF Pauses
<1>8. Uc8159(v) = a0 \o a1 \o a2 \o b1 \o b2
  BY <1>3, <1>4
<1> HIDE DEF a0, a1, a2, b1, b2
<1>9. Good(P, a0 \o a1) /\ (a0 \o a1)[1].op = "reset"
  BY <1>1, <1>5, ResetConcat
<1>10. Good(P, a0 \o a1 \o a2) /\ (a0 \o a1 \o a2)[1].op = "reset"
  BY <1>2, <1>9, ResetConcat
<1>11. Good(P, a0 \o a1 \o a2 \o b1) /\ (a0 \o a1 \o a2 \o b1)[1].op = "reset"
  BY <1>6, <1>10, ResetConcat
<1> QED
  BY <1>7, <1>8, <1>11, OrderlyAfter

\* panels.c:385-411: the panels of the registry, with their pins and drivers.
LEMMA DriverIs ==
    ASSUME NEW v, Supported(v)
    PROVE  \/ v \in {21, 27} /\ PinsOf(v) = {26, 16} /\ Driver(v) = El133
           \/ /\ v \in {22, 26} /\ PinsOf(v) = {small}
              /\ Driver(v) = Spectra6Small(800, 480, 800, 480, PsrRewrite)
           \/ /\ v = 25 /\ PinsOf(v) = {small}
              /\ Driver(v) = Spectra6Small(600, 400, 400, 600, <<>>)
           \/ v = 20 /\ PinsOf(v) = {8} /\ Driver(v) = Ac073
           \/ v \in {14, 15, 16} /\ PinsOf(v) = {8} /\ Driver(v) = Uc8159(v)
<1>1. /\ k_el133.variants = {21, 27} /\ k_e673.variants = {22, 26} /\ k_e640.variants = {25}
      /\ k_ac073.variants = {20} /\ k_uc8159.variants = {14, 15, 16}
  BY DEF k_el133, k_e673, k_e640, k_ac073, k_uc8159
<1>2. v \in {21, 27} \/ v \in {22, 26} \/ v \in {25} \/ v \in {20} \/ v \in {14, 15, 16}
  <2>1. PICK p \in k_panels : v \in p.variants
    BY DEF Supported
  <2>2. p = k_el133 \/ p = k_e673 \/ p = k_e640 \/ p = k_ac073 \/ p = k_uc8159
    BY <2>1 DEF k_panels
  <2> QED
    BY <1>1, <2>1, <2>2
<1>3. CASE v \in {21, 27}
  <2>1. PinsOf(v) = {26, 16}
    BY <1>1, <1>3 DEF PinsOf
  <2>0. v \in k_el133.variants
    BY <1>1, <1>3
  <2>2. Driver(v) = El133
    <3>1. /\ v \notin k_e673.variants /\ v \notin k_e640.variants
          /\ v \notin k_ac073.variants /\ v \notin k_uc8159.variants
      BY <1>1, <1>3
    <3> QED
      BY <2>0, <3>1, ZenonT(60) DEF Driver
  <2> QED
    BY <1>3, <2>1, <2>2
<1>4. CASE v \in {22, 26}
  <2>1. PinsOf(v) = {small}
    BY <1>1, <1>4 DEF PinsOf
  <2>2. Driver(v) = Spectra6Small(800, 480, 800, 480, PsrRewrite)
    <3>1. /\ v \in k_e673.variants /\ v \notin k_el133.variants /\ v \notin k_e640.variants
          /\ v \notin k_ac073.variants /\ v \notin k_uc8159.variants
      BY <1>1, <1>4
    <3> QED
      BY <3>1 DEF Driver
  <2> QED
    BY <1>4, <2>1, <2>2
<1>5. CASE v \in {25}
  <2>1. PinsOf(v) = {small} /\ Driver(v) = Spectra6Small(600, 400, 400, 600, <<>>)
    BY <1>1, <1>5 DEF PinsOf, Driver
  <2> QED
    BY <1>5, <2>1
<1>6. CASE v \in {20}
  <2>1. PinsOf(v) = {8} /\ Driver(v) = Ac073
    BY <1>1, <1>6 DEF PinsOf, Driver
  <2> QED
    BY <1>6, <2>1
<1>7. CASE v \in {14, 15, 16}
  <2>1. PinsOf(v) = {8} /\ Driver(v) = Uc8159(v)
    BY <1>1, <1>7 DEF PinsOf, Driver
  <2> QED
    BY <1>7, <2>1
<1> QED
  BY <1>2, <1>3, <1>4, <1>5, <1>6, <1>7

\* panels.c:385-411: every driver of the registry, with the pins it is given.
LEMMA DriverOrderly ==
    ASSUME inky_frame \in BOOLEAN, NEW v, Supported(v)
    PROVE  Orderly(PinsOf(v), Driver(v))
<1>1. CASE PinsOf(v) = {26, 16} /\ Driver(v) = El133
  BY <1>1, El133Orderly
<1>2. CASE PinsOf(v) = {small} /\ Driver(v) = Spectra6Small(800, 480, 800, 480, PsrRewrite)
  BY <1>2, Spectra6SmallOrderly
<1>3. CASE PinsOf(v) = {small} /\ Driver(v) = Spectra6Small(600, 400, 400, 600, <<>>)
  BY <1>3, Spectra6SmallOrderly
<1>4. CASE PinsOf(v) = {8} /\ Driver(v) = Ac073
  BY <1>4, Ac073Orderly
<1>5. CASE PinsOf(v) = {8} /\ Driver(v) = Uc8159(v)
  BY <1>5, Uc8159Orderly
<1> QED
  BY <1>1, <1>2, <1>3, <1>4, <1>5, DriverIs

\* panels.c: the driver stays the same while it runs.
LEMMA DriverStays ==
    ASSUME UNCHANGED << inky_frame, variant >>
    PROVE  /\ Driver(variant)' = Driver(variant) /\ PinsOf(variant)' = PinsOf(variant)
           /\ Supported(variant)' = Supported(variant)
<1>1. inky_frame' = inky_frame /\ variant' = variant
  OBVIOUS
<1>2. small' = small
  BY <1>1 DEF small
<1>3. PinsOf(variant)' = PinsOf(variant)
  BY <1>1, <1>2 DEF PinsOf
<1>4. Supported(variant)' = Supported(variant)
  BY <1>1 DEF Supported
<1>5. Driver(variant)' = Driver(variant)
  BY <1>1, <1>2 DEF Driver, Spectra6Small, Single, PsrRewrite, Ready
<1> QED
  BY <1>3, <1>4, <1>5

-----------------------------------------------------------------------------
(* The invariant. *)

\* What a controller can be.
Ctl == [on: BOOLEAN, busy: {"no", "power", "refresh"}, data: BOOLEAN, size: Nat,
        ram: [of: Nat, part: {"blank", "all", "left", "right"}, stride: Nat, rows: Nat],
        glass: [of: Nat, part: {"blank", "all", "left", "right", "torn"}, stride: Nat,
                rows: Nat]]

Typed == /\ IoTypeOK
         /\ inky_frame \in BOOLEAN /\ stage \in {"boot", "idle", "paint"}
         /\ late \in BOOLEAN /\ clean \in BOOLEAN /\ image \in Nat /\ paints \in Nat

\* A driver runs, and is somewhere in its sequence.
Placed == stage = "paint" => Supported(variant) /\ pc \in 1..Len(Driver(variant))

\* A pin is low only in the middle of a stream.
Selected == /\ stage = "paint" /\ Call.op \in {"write", "end"} => asserted = {s_dtm_cs}
            /\ ~(stage = "paint" /\ Call.op \in {"write", "end"}) => asserted = {}

\* After the reset, and as long as no wait was late.
InTime == stage = "paint" /\ ~late /\ Call.op # "reset"

\* What is busy is about to be waited for.
Awaited == InTime =>
    /\ (\E p \in Pins : ctl[p].busy # "no") => Call.op \in {"settle", "wait"}
    /\ (\E p \in Pins : ctl[p].busy = "refresh") => Call.op = "wait"

\* The last power-off is behind.
Passed(j) == /\ Driver(variant)[j] = PowerOff(PinsOf(variant))
             /\ \A k \in j..Len(Driver(variant)) : ~PowersOn(Driver(variant)[k])

\* Only this panel's controllers have power, and none after the last power-off.
Unpowered == InTime =>
    /\ \A p \in Pins : ctl[p].on => p \in PinsOf(variant)
    /\ \A j \in 1..(pc - 1) : Passed(j) => \A p \in Pins : ~ctl[p].on

\* Before the first paint nothing is claimed of it.
Unclaimed == stage # "idle" => ~clean

PanelInv == Typed /\ Placed /\ Selected /\ Awaited /\ Unpowered /\ PoweredDown /\ Unclaimed

\* The initial states satisfy it.
LEMMA PanelInit == Init => PanelInv
<1> SUFFICES ASSUME Init PROVE PanelInv
  OBVIOUS
<1>1. stage = "boot" /\ ~clean /\ late = FALSE /\ clean = FALSE /\ asserted = {}
  BY DEF Init, IoInit
<1>2. IoTypeOK
  <2>1. \A p \in Pins : ctl[p] = [on |-> FALSE, busy |-> "no", data |-> FALSE, size |-> 0,
                                  ram |-> Blank, glass |-> Blank]
    BY DEF Init, IoInit
  <2> QED
    BY <1>1, <2>1 DEF Init, IoInit, IoTypeOK, Blank, Picture
<1>3. Typed
  BY <1>1, <1>2 DEF Init, Typed
<1> QED
  BY <1>1, <1>3 DEF PanelInv, Placed, Selected, Awaited, InTime, Unpowered, PoweredDown, Unclaimed

\* In a paint the next call is one of a driver's.
LEMMA CallOf ==
    ASSUME Typed, Placed, stage = "paint"
    PROVE  LET D == Driver(variant)
               P == PinsOf(variant)
           IN /\ Orderly(P, D) /\ Len(D) \in Nat /\ pc \in 1..Len(D)
              /\ Call = D[pc] /\ Call \in Items(P)
              /\ pc < Len(D) => Follows(D[pc], D[pc + 1])
              /\ pc = Len(D) => Restful(D[pc])
<1> DEFINE D == Driver(variant)
           P == PinsOf(variant)
<1>1. Orderly(P, D)
  BY DriverOrderly DEF Typed, Placed
<1>2. pc \in 1..Len(D) /\ Call = D[pc]
  BY DEF Placed, Call
<1> HIDE DEF D, P
<1>3. Good(P, D) /\ Len(D) \in Nat
  BY <1>1, LenProperties DEF Orderly, Good
<1>4. D[pc] \in Items(P)
  BY <1>2, <1>3, ElementOfSeq DEF Good
<1>5. pc < Len(D) => Follows(D[pc], D[pc + 1])
  <2>1. pc < Len(D) => pc \in 1..(Len(D) - 1)
    BY <1>2, <1>3
  <2> QED
    BY <1>3, <2>1 DEF Good
<1>6. pc = Len(D) => Restful(D[pc])
  BY <1>3 DEF Good
<1> QED
  BY <1>1, <1>2, <1>3, <1>4, <1>5, <1>6 DEF D, P

\* A step of a driver ends it or leads to what follows.
LEMMA AdvanceTo ==
    ASSUME Typed, Placed, stage = "paint", NEW slow \in BOOLEAN, NEW giveup \in BOOLEAN,
           Advance(slow, giveup), Typed'
    PROVE  /\ Driver(variant)' = Driver(variant) /\ PinsOf(variant)' = PinsOf(variant)
           /\ Placed' /\ late' = slow
           /\ \/ /\ stage' = "idle" /\ clean' = ~slow
                 /\ giveup \/ (pc = Len(Driver(variant)) /\ Restful(Call))
              \/ /\ stage' = "paint" /\ clean' = clean /\ pc' = pc + 1 /\ ~giveup
                 /\ Call' = Driver(variant)[pc + 1] /\ Follows(Call, Call')
                 /\ pc < Len(Driver(variant))
<1>1. Driver(variant)' = Driver(variant) /\ PinsOf(variant)' = PinsOf(variant)
      /\ Supported(variant)' = Supported(variant)
  BY DriverStays DEF Advance
<1> DEFINE D == Driver(variant)
<1>2. Len(D) \in Nat /\ pc \in 1..Len(D) /\ Call = D[pc]
      /\ (pc < Len(D) => Follows(D[pc], D[pc + 1])) /\ (pc = Len(D) => Restful(D[pc]))
  BY CallOf
<1>3. Supported(variant)
  BY DEF Placed
<1>4. Call' = Driver(variant)'[pc']
  BY DEF Call
<1>5. late' = slow
  BY DEF Advance
<1>6. CASE giveup \/ pc = Len(D)
  <2>1. stage' = "idle" /\ clean' = ~slow
    BY <1>6 DEF Advance
  <2>2. Placed'
    BY <2>1 DEF Placed
  <2> QED
    BY <1>1, <1>2, <1>5, <1>6, <2>1, <2>2
<1>7. CASE ~(giveup \/ pc = Len(D))
  <2>1. stage' = "paint" /\ clean' = clean /\ pc' = pc + 1 /\ ~giveup
    BY <1>7 DEF Advance
  <2>2. pc < Len(D) /\ pc + 1 \in 1..Len(D)
    BY <1>2, <1>7
  <2>3. Call' = D[pc + 1]
    BY <1>1, <1>4, <2>1
  <2>4. Placed'
    BY <1>1, <1>3, <2>1, <2>2 DEF Placed
  <2> QED
    BY <1>1, <1>2, <1>5, <2>1, <2>2, <2>3, <2>4
<1> QED
  BY <1>6, <1>7

\* The types of the transport's state, put together.
LEMMA IoTyped ==
    IoTypeOK <=> asserted \subseteq Pins /\ s_dtm_cs \in Pins \cup {0} /\ ctl \in [Pins -> Ctl]
BY DEF IoTypeOK, Ctl

\* panels.c: the pins of a panel are pins.
LEMMA PinsArePins == PinsOf(variant) \subseteq Pins
BY DEF PinsOf, Pins, small

\* epd_io.c: what a controller makes of a command.
LEMMA Obeyed ==
    ASSUME NEW c \in Ctl, NEW code \in Nat, NEW arg \in Nat
    PROVE  /\ Obey(c, code, arg) \in Ctl
           /\ code \notin {PON, POF, DRF} => /\ Obey(c, code, arg).busy = c.busy
                                             /\ Obey(c, code, arg).on = c.on
           /\ code \in {PON, POF} => Obey(c, code, arg).busy = "power"
           /\ code = DRF => /\ Obey(c, code, arg).busy \in {c.busy, "refresh"}
                            /\ Obey(c, code, arg).on = c.on
           /\ code = POF => Obey(c, code, arg).on = FALSE
<1> USE DEF PON, POF, DTM, DRF, TRES
<1> DEFINE o == Obey(c, code, arg)
<1>1. CASE code = PON
  <2>1. o = [c EXCEPT !.on = TRUE, !.busy = "power", !.data = FALSE]
    BY <1>1 DEF Obey
  <2> HIDE DEF o
  <2>2. o \in Ctl /\ o.busy = "power" /\ o.on = TRUE
    BY <2>1 DEF Ctl
  <2> QED
    BY <1>1, <2>2 DEF o
<1>2. CASE code = POF
  <2>1. o = [c EXCEPT !.on = FALSE, !.busy = "power", !.data = FALSE]
    BY <1>2 DEF Obey
  <2> HIDE DEF o
  <2>2. o \in Ctl /\ o.busy = "power" /\ o.on = FALSE
    BY <2>1 DEF Ctl
  <2> QED
    BY <1>2, <2>2 DEF o
<1>3. CASE code = DRF /\ c.on
  <2>1. o = [c EXCEPT !.busy = "refresh", !.glass = Torn, !.data = FALSE]
    BY <1>3 DEF Obey
  <2>2. Torn \in [of: Nat, part: {"blank", "all", "left", "right", "torn"}, stride: Nat, rows: Nat]
    BY DEF Torn, Picture
  <2> HIDE DEF o
  <2>3. o \in Ctl /\ o.busy = "refresh" /\ o.on = c.on
    BY <2>1, <2>2 DEF Ctl
  <2>4. code = DRF
    BY <1>3
  <2> QED
    BY <2>3, <2>4 DEF o
<1>4. CASE code = TRES
  <2>1. o = [c EXCEPT !.size = arg, !.data = FALSE]
    BY <1>4 DEF Obey
  <2> HIDE DEF o
  <2>2. o \in Ctl /\ o.busy = c.busy /\ o.on = c.on
    BY <2>1 DEF Ctl
  <2> QED
    BY <1>4, <2>2 DEF o
<1>5. CASE code = DTM
  <2>1. o = [c EXCEPT !.data = TRUE]
    BY <1>5 DEF Obey
  <2> HIDE DEF o
  <2>2. o \in Ctl /\ o.busy = c.busy /\ o.on = c.on
    BY <2>1 DEF Ctl
  <2> QED
    BY <1>5, <2>2 DEF o
<1>6. CASE code \notin {PON, POF, DTM, TRES} /\ ~(code = DRF /\ c.on)
  <2>1. o = [c EXCEPT !.data = FALSE]
    BY <1>6 DEF Obey
  <2> HIDE DEF o
  <2>2. o \in Ctl /\ o.busy = c.busy /\ o.on = c.on
    BY <2>1 DEF Ctl
  <2> QED
    BY <1>6, <2>2 DEF o
<1> QED
  BY <1>1, <1>2, <1>3, <1>4, <1>5, <1>6

\* epd_io.c: who hears a command, and who ignores it.
LEMMA Heard ==
    ASSUME ctl \in [Pins -> Ctl], NEW pins, NEW code \in Nat, NEW arg \in Nat, Hear(pins, code, arg)
    PROVE  /\ ctl' \in [Pins -> Ctl]
           /\ \A p \in Pins : ctl'[p] \in {ctl[p], Obey(ctl[p], code, arg)}
           /\ \A p \in Pins : p \notin pins => ctl'[p] = ctl[p]
           /\ (\A p \in Pins : ctl[p].busy = "no") =>
                 \A p \in Pins : p \in pins => ctl'[p] = Obey(ctl[p], code, arg)
<1>1. PICK ignored \in SUBSET {p \in pins : ctl[p].busy # "no"} :
         ctl' = [p \in Pins |-> IF p \in pins \ ignored THEN Obey(ctl[p], code, arg) ELSE ctl[p]]
  BY DEF Hear
<1>2. \A p \in Pins : Obey(ctl[p], code, arg) \in Ctl
  BY Obeyed
<1> QED
  BY <1>1, <1>2

\* What a step of a driver must keep for the invariant to hold after it, when no wait was
\* late: who is busy, who has power, and which pins are low.
LEMMA StepKeeps ==
    ASSUME PanelInv, stage = "paint", Typed', Advance(late, FALSE),
           InTime \/ Call.op = "reset",
           \A p \in Pins : ctl'[p].busy # "no" =>
               \/ Call.op = "reset" \/ (Call.op = "command" /\ Call.code \in {PON, POF})
               \/ Call.op = "command" /\ Call.code = DRF,
           \A p \in Pins : ctl'[p].busy = "refresh" => Call.op = "command" /\ Call.code = DRF,
           \A p \in Pins : ctl'[p].on => p \in PinsOf(variant),
           \A j \in 1..pc : Passed(j) => \A p \in Pins : ~ctl'[p].on,
           ~late
    PROVE  Awaited' /\ Unpowered' /\ PoweredDown'
<1> DEFINE D == Driver(variant)
           P == PinsOf(variant)
<1>1. /\ D' = D /\ P' = P /\ late' = late
      /\ \/ stage' = "idle" /\ clean' = ~late /\ pc = Len(D) /\ Restful(Call)
         \/ /\ stage' = "paint" /\ clean' = clean /\ pc' = pc + 1
            /\ Call' = D[pc + 1] /\ Follows(Call, Call')
  BY AdvanceTo DEF PanelInv, Typed
<1>2. Orderly(P, D) /\ Len(D) \in Nat /\ pc \in 1..Len(D) /\ Call = D[pc]
  BY CallOf DEF PanelInv
<1>3. \A j \in 1..Len(D) : Passed(j)' = Passed(j)
  BY <1>1 DEF Passed
<1>4. CASE stage' = "idle"
  <2>1. Awaited' /\ Unpowered'
    BY <1>4 DEF Awaited, Unpowered, InTime
  <2>2. PICK j \in 1..Len(D) : Passed(j)
    BY <1>2 DEF Orderly, Unpowers, Passed
  <2>3. \A p \in Pins : ~ctl'[p].on
    BY <1>1, <1>2, <1>4, <2>2
  <2> QED
    BY <2>1, <2>3 DEF PoweredDown
<1>5. CASE stage' = "paint"
  <2>1. pc' = pc + 1 /\ Follows(Call, Call')
    BY <1>1, <1>5
  <2>2. Awaited'
    <3>1. (\E p \in Pins : ctl'[p].busy # "no") => Call'.op \in {"settle", "wait"}
      BY <2>1 DEF Follows
    <3>2. (\E p \in Pins : ctl'[p].busy = "refresh") => Call'.op = "wait"
      BY <2>1 DEF Follows
    <3> QED
      BY <3>1, <3>2 DEF Awaited
  <2>3. Unpowered'
    <3>1. \A p \in Pins : ctl'[p].on => p \in P'
      BY <1>1
    <3>2. \A j \in 1..(pc' - 1) : Passed(j)' => \A p \in Pins : ~ctl'[p].on
      BY <1>2, <1>3, <2>1
    <3> QED
      BY <3>1, <3>2 DEF Unpowered
  <2>4. PoweredDown'
    BY <1>5 DEF PoweredDown
  <2> QED
    BY <2>2, <2>3, <2>4
<1> QED
  BY <1>1, <1>4, <1>5

\* Once a wait was late nothing more is claimed of this paint.
LEMMA LateKeeps ==
    ASSUME PanelInv, stage = "paint", Typed', NEW giveup \in BOOLEAN, Advance(TRUE, giveup)
    PROVE  Awaited' /\ Unpowered' /\ PoweredDown'
<1>1. late' = TRUE /\ ((stage' = "idle" /\ clean' = FALSE) \/ stage' = "paint")
  BY AdvanceTo DEF PanelInv, Typed
<1> QED
  BY <1>1 DEF Awaited, Unpowered, PoweredDown, InTime

\* The pins along a stream.
LEMMA SelectedKept ==
    ASSUME PanelInv, stage = "paint", Typed', NEW slow \in BOOLEAN, NEW giveup \in BOOLEAN,
           Advance(slow, giveup),
           Call.op \in {"begin", "write"} => asserted' = {s_dtm_cs'} /\ ~giveup,
           Call.op \notin {"begin", "write"} => asserted' = {}
    PROVE  Selected' /\ Unclaimed' /\ Placed'
<1>1. /\ Placed'
      /\ \/ /\ stage' = "idle"
            /\ giveup \/ Restful(Call)
         \/ /\ stage' = "paint" /\ clean' = clean /\ ~giveup /\ Follows(Call, Call')
  BY AdvanceTo DEF PanelInv
<1>2. Unclaimed'
  BY <1>1 DEF Unclaimed, PanelInv
<1>3. CASE stage' = "idle"
  <2>1. Call.op \notin {"begin", "write"}
    BY <1>1, <1>3 DEF Restful
  <2> QED
    BY <1>1, <1>2, <1>3, <2>1 DEF Selected
<1>4. CASE stage' = "paint"
  <2>1. Call.op \in {"begin", "write"} <=> Call'.op \in {"write", "end"}
    BY <1>1, <1>4 DEF Follows
  <2> QED
    BY <1>1, <1>2, <1>4, <2>1 DEF Selected
<1> QED
  BY <1>1, <1>3, <1>4

\* The types along a driver.
LEMMA TypedStep ==
    ASSUME Typed, stage = "paint", NEW slow \in BOOLEAN, NEW giveup \in BOOLEAN,
           Advance(slow, giveup), IoTypeOK'
    PROVE  Typed'
BY DEF Typed, Advance

\* epd_reset.
LEMMA KeepReset == ASSUME PanelInv, PaintReset PROVE PanelInv'
<1>1. stage = "paint" /\ Call.op = "reset" /\ ResetPanel(PinsOf(variant)) /\ Advance(late, FALSE)
  BY DEF PaintReset, At, Call, Proceed
<1>2. Typed /\ Selected /\ late \in BOOLEAN /\ asserted = {}
  BY <1>1 DEF PanelInv, Typed, Selected
<1>3. ctl \in [Pins -> Ctl]
  BY <1>2, IoTyped DEF Typed
<1>4. \A p \in Pins : ctl'[p] \in Ctl /\ ctl'[p].on = FALSE /\ ctl'[p].busy = "power"
  <2>1. Blank \in [of: Nat, part: {"blank", "all", "left", "right"}, stride: Nat, rows: Nat]
    BY DEF Blank, Picture
  <2>2. \A p \in Pins : ctl'[p] = [ctl[p] EXCEPT !.on = FALSE, !.busy = "power", !.data = FALSE,
                                                !.size = 0, !.ram = Blank]
    BY <1>1 DEF ResetPanel
  <2>3. ASSUME NEW p \in Pins
        PROVE  ctl'[p] \in Ctl /\ ctl'[p].on = FALSE /\ ctl'[p].busy = "power"
    <3> DEFINE c == ctl[p]
               e == ctl'[p]
    <3>1. c \in Ctl /\ e = [c EXCEPT !.on = FALSE, !.busy = "power", !.data = FALSE,
                                     !.size = 0, !.ram = Blank]
      BY <1>3, <2>2
    <3> HIDE DEF c, e
    <3>2. e \in Ctl /\ e.on = FALSE /\ e.busy = "power"
      BY <2>1, <3>1 DEF Ctl
    <3> QED
      BY <3>2 DEF e
  <2> QED
    BY <2>3
<1>5. asserted' = {} /\ s_dtm_cs' = s_dtm_cs /\ ctl' \in [Pins -> Ctl]
  <2>1. ctl' \in [Pins -> Ctl]
    BY <1>1, <1>4 DEF ResetPanel
  <2> QED
    BY <1>1, <1>2, <2>1 DEF ResetPanel
<1>6. IoTypeOK'
  <2>1. s_dtm_cs \in Pins \cup {0}
    BY <1>2, IoTyped DEF Typed
  <2> QED
    BY <1>5, <2>1 DEF IoTypeOK, Ctl
<1>7. Typed'
  BY <1>1, <1>2, <1>6, TypedStep
<1>8. Selected' /\ Unclaimed' /\ Placed'
  BY <1>1, <1>2, <1>5, <1>7, SelectedKept
<1>9. Awaited' /\ Unpowered' /\ PoweredDown'
  <2>1. CASE late = TRUE
    BY <1>1, <1>7, <2>1, LateKeeps
  <2>2. CASE late = FALSE
    BY <1>1, <1>4, <1>7, <2>2, StepKeeps
  <2> QED
    BY <1>2, <2>1, <2>2
<1> QED
  BY <1>7, <1>8, <1>9 DEF PanelInv

\* What the invariant gives a step other than the reset.
LEMMA Before ==
    ASSUME PanelInv, stage = "paint", Call.op # "reset"
    PROVE  /\ Typed /\ late \in BOOLEAN /\ ctl \in [Pins -> Ctl] /\ s_dtm_cs \in Pins \cup {0}
           /\ Call.op \notin {"write", "end"} => asserted = {}
           /\ Call.op \in {"write", "end"} => asserted = {s_dtm_cs}
           /\ late = FALSE => /\ InTime
                              /\ (\E p \in Pins : ctl[p].busy # "no")
                                    => Call.op \in {"settle", "wait"}
                              /\ (\E p \in Pins : ctl[p].busy = "refresh") => Call.op = "wait"
                              /\ \A p \in Pins : ctl[p].on => p \in PinsOf(variant)
                              /\ \A j \in 1..(pc - 1) : Passed(j) => \A p \in Pins : ~ctl[p].on
           /\ pc \in 1..Len(Driver(variant)) /\ Len(Driver(variant)) \in Nat
           /\ Call = Driver(variant)[pc] /\ Call \in Items(PinsOf(variant))
<1>1. Typed /\ late \in BOOLEAN /\ ctl \in [Pins -> Ctl] /\ s_dtm_cs \in Pins \cup {0}
  BY IoTyped DEF PanelInv, Typed
<1>2. /\ Call.op \notin {"write", "end"} => asserted = {}
      /\ Call.op \in {"write", "end"} => asserted = {s_dtm_cs}
  BY DEF PanelInv, Selected
<1>3. late = FALSE => /\ InTime
                      /\ (\E p \in Pins : ctl[p].busy # "no") => Call.op \in {"settle", "wait"}
                      /\ (\E p \in Pins : ctl[p].busy = "refresh") => Call.op = "wait"
                      /\ \A p \in Pins : ctl[p].on => p \in PinsOf(variant)
                      /\ \A j \in 1..(pc - 1) : Passed(j) => \A p \in Pins : ~ctl[p].on
  BY DEF PanelInv, Awaited, Unpowered, InTime
<1>4. /\ pc \in 1..Len(Driver(variant)) /\ Len(Driver(variant)) \in Nat
      /\ Call = Driver(variant)[pc] /\ Call \in Items(PinsOf(variant))
  BY CallOf DEF PanelInv
<1> QED
  BY <1>1, <1>2, <1>3, <1>4

\* A step that neither begins a stream nor is a power-off passes none.
LEMMA NothingPassed ==
    ASSUME PanelInv, stage = "paint", Call.op # "command" \/ Call.code # POF
    PROVE  ~Passed(pc)
<1>1. Call = Driver(variant)[pc]
  BY CallOf DEF PanelInv
<1>2. ASSUME Passed(pc) PROVE FALSE
  <2>1. Call = Cmd(PinsOf(variant), POF)
    BY <1>1, <1>2 DEF Passed, PowerOff
  <2>2. Call.op = "command" /\ Call.code = POF
    BY <2>1 DEF Cmd
  <2> QED
    BY <2>2
<1> QED
  BY <1>2

\* A call that neither asks anything of a controller nor waits.
LEMMA KeepsControllers ==
    ASSUME PanelInv, stage = "paint", Call.op \in {"begin", "write", "end"}, Typed',
           Advance(late, FALSE),
           \A p \in Pins : ctl'[p].busy = ctl[p].busy /\ ctl'[p].on = ctl[p].on
    PROVE  Awaited' /\ Unpowered' /\ PoweredDown'
<1>1. late \in BOOLEAN
  BY Before
<1>2. CASE late = TRUE
  BY <1>2, LateKeeps
<1>3. CASE late = FALSE
  <2>1. /\ \A p \in Pins : ctl[p].busy = "no"
        /\ \A p \in Pins : ctl[p].on => p \in PinsOf(variant)
        /\ \A j \in 1..(pc - 1) : Passed(j) => \A p \in Pins : ~ctl[p].on
        /\ InTime /\ pc \in 1..Len(Driver(variant)) /\ Len(Driver(variant)) \in Nat
    BY <1>3, Before
  <2>2. \A j \in 1..pc : Passed(j) => \A p \in Pins : ~ctl'[p].on
    <3>1. ~Passed(pc)
      BY NothingPassed
    <3>2. \A j \in 1..pc : j = pc \/ j \in 1..(pc - 1)
      BY <2>1
    <3> QED
      BY <2>1, <3>1, <3>2
  <2> QED
    BY <1>3, <2>1, <2>2, StepKeeps
<1> QED
  BY <1>1, <1>2, <1>3

\* A sleep after a power command.
LEMMA KeepSettle == ASSUME PanelInv, PaintSettle PROVE PanelInv'
<1>1. stage = "paint" /\ Call.op = "settle" /\ SettlePower /\ Advance(late, FALSE)
  BY DEF PaintSettle, At, Call, Proceed
<1>2. /\ Typed /\ late \in BOOLEAN /\ ctl \in [Pins -> Ctl] /\ s_dtm_cs \in Pins \cup {0}
      /\ asserted = {}
  BY <1>1, Before
<1>3. \A p \in Pins : /\ ctl'[p] \in Ctl /\ ctl'[p].on = ctl[p].on
                      /\ ctl'[p].busy = IF ctl[p].busy = "power" THEN "no" ELSE ctl[p].busy
  <2>1. ASSUME NEW p \in Pins
        PROVE  /\ ctl'[p] \in Ctl /\ ctl'[p].on = ctl[p].on
               /\ ctl'[p].busy = IF ctl[p].busy = "power" THEN "no" ELSE ctl[p].busy
    <3> DEFINE c == ctl[p]
               e == ctl'[p]
    <3>1. c \in Ctl /\ e = IF c.busy = "power" THEN [c EXCEPT !.busy = "no"] ELSE c
      BY <1>1, <1>2 DEF SettlePower
    <3> HIDE DEF c, e
    <3>2. e \in Ctl /\ e.on = c.on /\ e.busy = IF c.busy = "power" THEN "no" ELSE c.busy
      BY <3>1 DEF Ctl
    <3> QED
      BY <3>2 DEF c, e
  <2> QED
    BY <2>1
<1>4. asserted' = {} /\ s_dtm_cs' = s_dtm_cs /\ ctl' \in [Pins -> Ctl]
  BY <1>1, <1>2, <1>3 DEF SettlePower
<1>5. IoTypeOK'
  BY <1>2, <1>4 DEF IoTypeOK, Ctl
<1>6. Typed'
  BY <1>1, <1>2, <1>5, TypedStep
<1>7. Selected' /\ Unclaimed' /\ Placed'
  BY <1>1, <1>2, <1>4, <1>6, SelectedKept
<1>8. Awaited' /\ Unpowered' /\ PoweredDown'
  <2>1. CASE late = TRUE
    BY <1>1, <1>6, <2>1, LateKeeps
  <2>2. CASE late = FALSE
    <3>1. \A p \in Pins : ctl'[p].busy = "no"
      <4>1. \A p \in Pins : ctl[p].busy # "refresh"
        BY <1>1, <2>2, Before
      <4>2. \A p \in Pins : ctl[p].busy \in {"no", "power", "refresh"}
        BY <1>2 DEF Ctl
      <4> QED
        BY <1>3, <4>1, <4>2
    <3>2. \A p \in Pins : ctl'[p].on => p \in PinsOf(variant)
      BY <1>1, <1>3, <2>2, Before
    <3>3. \A j \in 1..pc : Passed(j) => \A p \in Pins : ~ctl'[p].on
      <4>1. ~Passed(pc)
        BY <1>1, NothingPassed
      <4>2. \A j \in 1..(pc - 1) : Passed(j) => \A p \in Pins : ~ctl[p].on
        BY <1>1, <2>2, Before
      <4>3. \A j \in 1..pc : j = pc \/ j \in 1..(pc - 1)
        BY <1>1, Before
      <4> QED
        BY <1>3, <4>1, <4>2, <4>3
    <3>4. InTime
      BY <1>1, <2>2, Before
    <3> QED
      BY <1>1, <1>6, <2>2, <3>1, <3>2, <3>3, <3>4, StepKeeps
  <2> QED
    BY <1>2, <2>1, <2>2
<1> QED
  BY <1>6, <1>7, <1>8 DEF PanelInv

\* epd_command.
LEMMA KeepCommand == ASSUME PanelInv, PaintCommand PROVE PanelInv'
<1> DEFINE P == PinsOf(variant)
<1>1. /\ stage = "paint" /\ Call.op = "command" /\ Command(Call.to, Call.code, Call.arg)
      /\ Advance(late, FALSE)
  BY DEF PaintCommand, At, Call, Proceed
<1>2. /\ Typed /\ late \in BOOLEAN /\ ctl \in [Pins -> Ctl] /\ s_dtm_cs \in Pins \cup {0}
      /\ asserted = {} /\ Call \in Items(P)
  BY <1>1, Before
<1>3. Call.to \in SUBSET P /\ Call.code \in Nat /\ Call.arg \in Nat
  <2> DEFINE c == Call
  <2>1. c \in Items(P) /\ c.op = "command"
    BY <1>1, <1>2
  <2> HIDE DEF c
  <2>2. c \in [op: {"command"}, to: SUBSET P, code: Nat, arg: Nat]
    BY <2>1 DEF Items
  <2>3. c.to \in SUBSET P /\ c.code \in Nat /\ c.arg \in Nat
    BY <2>2
  <2> QED
    BY <2>3 DEF c
<1>4. Hear(Call.to, Call.code, Call.arg) /\ asserted' = {} /\ s_dtm_cs' = s_dtm_cs
  <2>1. asserted \cup Call.to = Call.to
    BY <1>2
  <2> QED
    BY <1>1, <1>2, <2>1 DEF Command
<1>5. /\ ctl' \in [Pins -> Ctl]
      /\ \A p \in Pins : p \notin Call.to => ctl'[p] = ctl[p]
      /\ (\A p \in Pins : ctl[p].busy = "no") =>
            \A p \in Pins : p \in Call.to => ctl'[p] = Obey(ctl[p], Call.code, Call.arg)
  <2> DEFINE to   == Call.to
             code == Call.code
             arg  == Call.arg
  <2>1. code \in Nat /\ arg \in Nat /\ Hear(to, code, arg) /\ ctl \in [Pins -> Ctl]
    BY <1>2, <1>3, <1>4
  <2> HIDE DEF to, code, arg
  <2>2. /\ ctl' \in [Pins -> Ctl]
        /\ \A p \in Pins : p \notin to => ctl'[p] = ctl[p]
        /\ (\A p \in Pins : ctl[p].busy = "no") =>
              \A p \in Pins : p \in to => ctl'[p] = Obey(ctl[p], code, arg)
    BY <2>1, Heard, ZenonT(60)
  <2> QED
    BY <2>2 DEF to, code, arg
<1>6. IoTypeOK'
  BY <1>2, <1>4, <1>5 DEF IoTypeOK, Ctl
<1>7. Typed'
  BY <1>1, <1>2, <1>6, TypedStep
<1>8. Selected' /\ Unclaimed' /\ Placed'
  BY <1>1, <1>2, <1>4, <1>7, SelectedKept
<1>9. Awaited' /\ Unpowered' /\ PoweredDown'
  <2>1. CASE late = TRUE
    BY <1>1, <1>7, <2>1, LateKeeps
  <2>2. CASE late = FALSE
    <3>1. /\ \A p \in Pins : ctl[p].busy = "no"
          /\ \A p \in Pins : ctl[p].on => p \in P
          /\ \A j \in 1..(pc - 1) : Passed(j) => \A p \in Pins : ~ctl[p].on
          /\ InTime /\ pc \in 1..Len(Driver(variant)) /\ Len(Driver(variant)) \in Nat
          /\ Call = Driver(variant)[pc]
      BY <1>1, <2>2, Before
    <3>2. \A p \in Pins : \/ ctl'[p] = ctl[p]
                          \/ p \in Call.to /\ ctl'[p] = Obey(ctl[p], Call.code, Call.arg)
      BY <1>5, <3>1
    <3>3. ASSUME NEW p \in Pins
          PROVE  /\ ctl'[p].busy # "no" => Call.code \in {PON, POF, DRF}
                 /\ ctl'[p].busy = "refresh" => Call.code = DRF
                 /\ ctl'[p].on => p \in P
                 /\ Call.code # PON => (ctl'[p].on => ctl[p].on)
      <4>1. CASE ctl'[p] = ctl[p]
        BY <3>1, <4>1
      <4>2. CASE p \in Call.to /\ ctl'[p] = Obey(ctl[p], Call.code, Call.arg)
        <5>1. ctl[p] \in Ctl /\ ctl[p].busy = "no" /\ p \in P
          BY <1>2, <1>3, <3>1, <4>2
        <5> DEFINE c == ctl[p]
                   e == ctl'[p]
                   code == Call.code
                   arg == Call.arg
        <5>2. c \in Ctl /\ code \in Nat /\ arg \in Nat /\ e = Obey(c, code, arg)
          BY <1>3, <4>2, <5>1
        <5> HIDE DEF c, e, code, arg
        <5>3. /\ code \notin {PON, POF, DRF} => e.busy = c.busy /\ e.on = c.on
              /\ code \in {PON, POF} => e.busy = "power"
              /\ code = DRF => e.busy \in {c.busy, "refresh"} /\ e.on = c.on
              /\ code = POF => e.on = FALSE
          BY <5>2, Obeyed
        <5> QED
          BY <5>1, <5>3 DEF c, e, code, PON, POF, DRF
      <4> QED
        BY <3>2, <4>1, <4>2
    <3>4. \A j \in 1..pc : Passed(j) => \A p \in Pins : ~ctl'[p].on
      <4>1. ASSUME NEW j \in 1..pc, Passed(j), NEW p \in Pins PROVE ~ctl'[p].on
        <5>1. Call.code # PON
          BY <1>1, <3>1, <4>1 DEF Passed, PowersOn
        <5>2. CASE j \in 1..(pc - 1)
          BY <3>1, <3>3, <4>1, <5>1, <5>2
        <5>3. CASE j = pc
          <6>1. Call = Cmd(P, POF)
            BY <3>1, <4>1, <5>3 DEF Passed, PowerOff
          <6>2. Call.code = POF /\ Call.to = P
            BY <6>1 DEF Cmd
          <6>3. CASE p \in P
            <7>1. ctl'[p] = Obey(ctl[p], Call.code, Call.arg)
              BY <1>5, <3>1, <6>2, <6>3
            <7> DEFINE c == ctl[p]
                       e == ctl'[p]
                       code == Call.code
                       arg == Call.arg
            <7>2. c \in Ctl /\ code \in Nat /\ arg \in Nat /\ e = Obey(c, code, arg) /\ code = POF
              BY <1>2, <1>3, <6>2, <7>1
            <7> HIDE DEF c, e, code, arg
            <7>3. e.on = FALSE
              BY <7>2, Obeyed, ZenonT(60)
            <7> QED
              BY <7>3 DEF e
          <6>4. CASE p \notin P
            BY <3>3, <6>4
          <6> QED
            BY <6>3, <6>4
        <5> QED
          BY <3>1, <5>2, <5>3
      <4> QED
        BY <4>1
    <3> QED
      BY <1>1, <1>7, <2>2, <3>1, <3>3, <3>4, StepKeeps
  <2> QED
    BY <1>2, <2>1, <2>2
<1> QED
  BY <1>7, <1>8, <1>9 DEF PanelInv

\* epd_dtm_begin.
LEMMA KeepBegin == ASSUME PanelInv, PaintBegin PROVE PanelInv'
<1>1. stage = "paint" /\ Call.op = "begin" /\ DtmBegin(Call.pin) /\ Advance(late, FALSE)
  BY DEF PaintBegin, At, Call, Proceed
<1>2. /\ Typed /\ late \in BOOLEAN /\ ctl \in [Pins -> Ctl] /\ s_dtm_cs \in Pins \cup {0}
      /\ asserted = {} /\ Call \in Items(PinsOf(variant))
  BY <1>1, Before
<1> DEFINE pin == Call.pin
<1>3. pin \in Pins
  <2> DEFINE c == Call
  <2>1. c \in Items(PinsOf(variant)) /\ c.op = "begin"
    BY <1>1, <1>2
  <2> HIDE DEF c
  <2>2. c \in [op: {"begin"}, pin: PinsOf(variant)]
    BY <2>1 DEF Items
  <2>3. c.pin \in PinsOf(variant)
    BY <2>2
  <2> QED
    BY <2>3, PinsArePins DEF c
<1>4. Hear({pin}, DTM, 0) /\ asserted' = {pin} /\ s_dtm_cs' = pin
  <2>1. asserted \cup {pin} = {pin}
    BY <1>2
  <2> QED
    BY <1>1, <2>1 DEF DtmBegin
<1> HIDE DEF pin
<1>5. /\ ctl' \in [Pins -> Ctl]
      /\ \A p \in Pins : ctl'[p] \in {ctl[p], Obey(ctl[p], DTM, 0)}
  <2>1. DTM \in Nat /\ 0 \in Nat
    BY DEF DTM
  <2> QED
    BY <1>2, <1>4, <2>1, Heard
<1>6. \A p \in Pins : ctl'[p].busy = ctl[p].busy /\ ctl'[p].on = ctl[p].on
  <2>1. ASSUME NEW p \in Pins PROVE ctl'[p].busy = ctl[p].busy /\ ctl'[p].on = ctl[p].on
    <3> DEFINE c == ctl[p]
    <3>1. c \in Ctl /\ DTM \in Nat /\ 0 \in Nat /\ DTM \notin {PON, POF, DRF}
      BY <1>2 DEF DTM, PON, POF, DRF
    <3> HIDE DEF c
    <3>2. Obey(c, DTM, 0).busy = c.busy /\ Obey(c, DTM, 0).on = c.on
      BY <3>1, Obeyed
    <3> QED
      BY <1>5, <3>2 DEF c
  <2> QED
    BY <2>1
<1>7. IoTypeOK'
  BY <1>3, <1>4, <1>5 DEF IoTypeOK, Ctl
<1>8. Typed'
  BY <1>1, <1>2, <1>7, TypedStep
<1>9. Selected' /\ Unclaimed' /\ Placed'
  BY <1>1, <1>2, <1>4, <1>8, SelectedKept
<1>10. Awaited' /\ Unpowered' /\ PoweredDown'
  BY <1>1, <1>2, <1>6, <1>8, KeepsControllers
<1> QED
  BY <1>8, <1>9, <1>10 DEF PanelInv

\* epd_dtm_write.
LEMMA KeepWrite == ASSUME PanelInv, PaintWrite PROVE PanelInv'
<1> DEFINE picture == Picture(image, Call.part, Call.stride, Call.rows)
<1>1. stage = "paint" /\ Call.op = "write" /\ DtmWrite(picture) /\ Advance(late, FALSE)
  BY DEF PaintWrite, At, Call, Proceed
<1>2. /\ Typed /\ late \in BOOLEAN /\ ctl \in [Pins -> Ctl] /\ s_dtm_cs \in Pins \cup {0}
      /\ asserted = {s_dtm_cs} /\ Call \in Items(PinsOf(variant))
  BY <1>1, Before
<1>3. picture \in [of: Nat, part: {"blank", "all", "left", "right"}, stride: Nat, rows: Nat]
  <2> DEFINE c == Call
  <2>1. c \in Items(PinsOf(variant)) /\ c.op = "write"
    BY <1>1, <1>2
  <2> HIDE DEF c
  <2>2. c \in [op: {"write"}, part: {"all", "left", "right"}, stride: Nat, rows: Nat]
    BY <2>1 DEF Items
  <2>3. c.part \in {"all", "left", "right"} /\ c.stride \in Nat /\ c.rows \in Nat
    BY <2>2
  <2>4. image \in Nat
    BY <1>2 DEF Typed
  <2> QED
    BY <2>3, <2>4 DEF c, Picture
<1> HIDE DEF picture
<1>4. \A p \in Pins : ctl'[p] \in Ctl /\ ctl'[p].busy = ctl[p].busy /\ ctl'[p].on = ctl[p].on
  <2>1. ASSUME NEW p \in Pins
        PROVE  ctl'[p] \in Ctl /\ ctl'[p].busy = ctl[p].busy /\ ctl'[p].on = ctl[p].on
    <3> DEFINE c == ctl[p]
               e == ctl'[p]
    <3>1. c \in Ctl /\ (e = c \/ e = [c EXCEPT !.ram = picture])
      BY <1>1, <1>2 DEF DtmWrite
    <3> HIDE DEF c, e
    <3>2. e \in Ctl /\ e.busy = c.busy /\ e.on = c.on
      BY <1>3, <3>1 DEF Ctl
    <3> QED
      BY <3>2 DEF c, e
  <2> QED
    BY <2>1
<1>5. asserted' = {s_dtm_cs'} /\ s_dtm_cs' = s_dtm_cs /\ ctl' \in [Pins -> Ctl]
  BY <1>1, <1>2, <1>4 DEF DtmWrite
<1>6. IoTypeOK'
  <2>1. asserted \subseteq Pins
    BY <1>2 DEF Typed, IoTypeOK
  <2> QED
    BY <1>2, <1>5, <2>1 DEF IoTypeOK, Ctl
<1>7. Typed'
  BY <1>1, <1>2, <1>6, TypedStep
<1>8. Selected' /\ Unclaimed' /\ Placed'
  BY <1>1, <1>2, <1>5, <1>7, SelectedKept
<1>9. Awaited' /\ Unpowered' /\ PoweredDown'
  BY <1>1, <1>4, <1>7, KeepsControllers
<1> QED
  BY <1>7, <1>8, <1>9 DEF PanelInv

\* epd_dtm_end.
LEMMA KeepEnd == ASSUME PanelInv, PaintEnd PROVE PanelInv'
<1>1. stage = "paint" /\ Call.op = "end" /\ DtmEnd /\ Advance(late, FALSE)
  BY DEF PaintEnd, At, Call, Proceed
<1>2. /\ Typed /\ late \in BOOLEAN /\ ctl \in [Pins -> Ctl] /\ s_dtm_cs \in Pins \cup {0}
      /\ asserted = {s_dtm_cs}
  BY <1>1, Before
<1>3. asserted' = {} /\ s_dtm_cs' = s_dtm_cs /\ ctl' = ctl
  BY <1>1, <1>2 DEF DtmEnd, Deasserted
<1>4. IoTypeOK'
  BY <1>2, <1>3 DEF IoTypeOK, Ctl
<1>5. Typed'
  BY <1>1, <1>2, <1>4, TypedStep
<1>6. Selected' /\ Unclaimed' /\ Placed'
  BY <1>1, <1>2, <1>3, <1>5, SelectedKept
<1>7. Awaited' /\ Unpowered' /\ PoweredDown'
  BY <1>1, <1>3, <1>5, KeepsControllers
<1> QED
  BY <1>5, <1>6, <1>7 DEF PanelInv

\* epd_wait_ready: in time, or late.
LEMMA KeepWait == ASSUME PanelInv, PaintWait PROVE PanelInv'
<1> DEFINE slow == late \/ IsBusy
           giveup == IsBusy /\ Call.must
<1>1. /\ stage = "paint" /\ Call.op = "wait" /\ Advance(slow, giveup)
      /\ asserted' = asserted /\ s_dtm_cs' = s_dtm_cs /\ ctl' = ctl
  BY DEF PaintWait, At, Call, iovars
<1>2. /\ Typed /\ late \in BOOLEAN /\ ctl \in [Pins -> Ctl] /\ s_dtm_cs \in Pins \cup {0}
      /\ asserted = {} /\ Call \in Items(PinsOf(variant))
  BY <1>1, Before
<1>3. slow \in BOOLEAN /\ giveup \in BOOLEAN
  BY DEF IsBusy
<1>4. IoTypeOK'
  BY <1>1, <1>2 DEF IoTypeOK, Ctl
<1>5. slow = FALSE => late = FALSE /\ \A p \in Pins : ctl[p].busy = "no"
  BY <1>2 DEF IsBusy
<1>6. slow = FALSE => giveup = FALSE
  OBVIOUS
<1> HIDE DEF slow, giveup
<1>7. Typed'
  BY <1>1, <1>2, <1>3, <1>4, TypedStep
<1>8. Selected' /\ Unclaimed' /\ Placed'
  BY <1>1, <1>2, <1>3, <1>7, SelectedKept
<1>9. Awaited' /\ Unpowered' /\ PoweredDown'
  <2>1. CASE slow = TRUE
    BY <1>1, <1>3, <1>7, <2>1, LateKeeps
  <2>2. CASE slow = FALSE
    <3>1. Advance(late, FALSE) /\ late = FALSE
      BY <1>1, <1>5, <1>6, <2>2
    <3>2. /\ \A p \in Pins : ctl[p].on => p \in PinsOf(variant)
          /\ \A j \in 1..(pc - 1) : Passed(j) => \A p \in Pins : ~ctl[p].on
          /\ InTime /\ pc \in 1..Len(Driver(variant)) /\ Len(Driver(variant)) \in Nat
      BY <1>1, <3>1, Before
    <3>3. \A j \in 1..pc : Passed(j) => \A p \in Pins : ~ctl[p].on
      <4>1. ~Passed(pc)
        BY <1>1, NothingPassed
      <4>2. \A j \in 1..pc : j = pc \/ j \in 1..(pc - 1)
        BY <3>2
      <4> QED
        BY <3>2, <4>1, <4>2
    <3> QED
      BY <1>1, <1>5, <1>7, <2>2, <3>1, <3>2, <3>3, StepKeeps
  <2> QED
    BY <1>3, <2>1, <2>2
<1> QED
  BY <1>7, <1>8, <1>9 DEF PanelInv

\* Where no driver runs, the EEPROM is read or the panel identified, and nothing that the
\* invariant is about changes.
LEMMA KeepIdentify == ASSUME PanelInv, ReadEeprom \/ Identify PROVE PanelInv'
<1>1. /\ stage = "boot" /\ stage' \in {"boot", "idle"} /\ UNCHANGED iovars
      /\ UNCHANGED << inky_frame, late, clean, image, paints >>
  BY DEF ReadEeprom, Identify, panelvars
<1>2. /\ asserted' = asserted /\ s_dtm_cs' = s_dtm_cs /\ ctl' = ctl /\ clean' = clean
      /\ late' = late /\ stage' # "paint"
  BY <1>1 DEF iovars
<1>3. Typed /\ asserted = {} /\ ~clean
  BY <1>1 DEF PanelInv, Selected, Unclaimed
<1>4. IoTypeOK'
  BY <1>2, <1>3 DEF Typed, IoTypeOK
<1>5. Typed'
  BY <1>1, <1>3, <1>4 DEF Typed
<1> QED
  BY <1>2, <1>3, <1>5
     DEF PanelInv, Placed, Selected, Awaited, InTime, Unpowered, PoweredDown, Unclaimed

\* panel->paint is called: the first call of a driver is a reset.
LEMMA KeepPaint == ASSUME PanelInv, Paint PROVE PanelInv'
<1>1. /\ stage = "idle" /\ Supported(variant) /\ stage' = "paint" /\ pc' = 1 /\ clean' = FALSE
      /\ late' = FALSE /\ UNCHANGED iovars /\ UNCHANGED << inky_frame, variant >>
      /\ paints' = paints + 1 /\ image' \in {0, paints + 1}
  BY DEF Paint
<1>2. asserted' = asserted /\ s_dtm_cs' = s_dtm_cs /\ ctl' = ctl
  BY <1>1 DEF iovars
<1>3. Typed /\ asserted = {}
  BY <1>1 DEF PanelInv, Selected
<1>4. IoTypeOK'
  BY <1>2, <1>3 DEF Typed, IoTypeOK
<1>5. Typed'
  <2>1. paints' \in Nat /\ image' \in Nat
    BY <1>1, <1>3 DEF Typed
  <2> QED
    BY <1>1, <1>3, <1>4, <2>1 DEF Typed
<1>6. Driver(variant)' = Driver(variant) /\ Supported(variant)' = Supported(variant)
  BY <1>1, DriverStays
<1>7. Orderly(PinsOf(variant), Driver(variant))
  BY <1>1, <1>3, DriverOrderly DEF Typed
<1>8. 1 \in 1..Len(Driver(variant)) /\ Driver(variant)[1].op = "reset"
  <2> DEFINE s == Driver(variant)
             P == PinsOf(variant)
  <2>1. Orderly(P, s)
    BY <1>7
  <2> HIDE DEF s, P
  <2>2. Len(s) \in Nat /\ Len(s) > 0 /\ s[1].op = "reset"
    BY <2>1, LenProperties DEF Orderly, Good
  <2> QED
    BY <2>2 DEF s
<1>9. Call' = Driver(variant)[1]
  BY <1>1, <1>6 DEF Call
<1>10. Placed'
  BY <1>1, <1>6, <1>8 DEF Placed
<1>11. Call'.op = "reset" /\ ~InTime'
  BY <1>8, <1>9 DEF InTime
<1> QED
  BY <1>1, <1>2, <1>3, <1>5, <1>10, <1>11
     DEF PanelInv, Selected, Awaited, Unpowered, PoweredDown, Unclaimed

\* What a controller shows when it is done.
LEMMA Shows ==
    ASSUME NEW c \in Ctl, NEW g \in {c.glass, c.ram, Torn}
    PROVE  [c EXCEPT !.busy = "no", !.glass = g] \in Ctl
<1>1. Torn \in [of: Nat, part: {"blank", "all", "left", "right", "torn"}, stride: Nat, rows: Nat]
  BY DEF Torn, Picture
<1>2. c.ram \in [of: Nat, part: {"blank", "all", "left", "right"}, stride: Nat, rows: Nat]
  BY DEF Ctl
<1>3. c.ram \in [of: Nat, part: {"blank", "all", "left", "right", "torn"}, stride: Nat, rows: Nat]
  BY <1>2
<1>4. c.glass \in [of: Nat, part: {"blank", "all", "left", "right", "torn"}, stride: Nat, rows: Nat]
  BY DEF Ctl
<1> QED
  BY <1>1, <1>3, <1>4 DEF Ctl

\* A controller is done: it is no longer busy, and nothing else matters here.
LEMMA KeepFinish ==
    ASSUME PanelInv, NEW p \in Pins, Finish(p), UNCHANGED << eepvars, panelvars >>
    PROVE  PanelInv'
<1>1. /\ inky_frame' = inky_frame /\ stage' = stage /\ variant' = variant /\ pc' = pc
      /\ image' = image /\ late' = late /\ clean' = clean /\ paints' = paints
      /\ asserted' = asserted /\ s_dtm_cs' = s_dtm_cs
  BY DEF panelvars, Finish
<1>2. Typed /\ ctl \in [Pins -> Ctl]
  BY IoTyped DEF PanelInv, Typed
<1>3. /\ ctl' \in [Pins -> Ctl]
      /\ \A q \in Pins : /\ ctl'[q].busy # "no" => ctl'[q].busy = ctl[q].busy
                         /\ ctl'[q].on = ctl[q].on
  <2> DEFINE c == ctl[p]
             g == IF c.busy = "power" THEN c.glass
                  ELSE IF c.ram.stride * c.ram.rows = c.size THEN c.ram ELSE Torn
             e == [c EXCEPT !.busy = "no", !.glass = g]
  <2>1. ctl' = [ctl EXCEPT ![p] = e]
    BY <1>2 DEF Finish
  <2>2. c \in Ctl /\ g \in {c.glass, c.ram, Torn}
    BY <1>2
  <2> HIDE DEF c, g
  <2>3. e \in Ctl
    BY <2>2, Shows
  <2>4. e.busy = "no" /\ e.on = c.on
    BY <2>2 DEF Ctl
  <2> HIDE DEF e
  <2> QED
    BY <1>2, <2>1, <2>3, <2>4 DEF c
<1>4. IoTypeOK'
  BY <1>1, <1>2, <1>3 DEF Typed, IoTypeOK, Ctl
<1>5. Typed'
  BY <1>1, <1>2, <1>4 DEF Typed
<1>6. /\ Driver(variant)' = Driver(variant) /\ PinsOf(variant)' = PinsOf(variant)
      /\ Supported(variant)' = Supported(variant)
  BY <1>1, DriverStays
<1>7. Call' = Call /\ (\A j : Passed(j)' = Passed(j)) /\ InTime' = InTime
  BY <1>1, <1>6 DEF Call, Passed, InTime
<1>8. Placed' /\ Selected' /\ Unclaimed'
  BY <1>1, <1>6, <1>7 DEF PanelInv, Placed, Selected, Unclaimed
<1>9. Awaited'
  BY <1>3, <1>7 DEF PanelInv, Awaited
<1>10. Unpowered'
  BY <1>1, <1>3, <1>6, <1>7 DEF PanelInv, Unpowered
<1>11. PoweredDown'
  BY <1>1, <1>3 DEF PanelInv, PoweredDown
<1> QED
  BY <1>5, <1>8, <1>9, <1>10, <1>11 DEF PanelInv

\* A reset of the microcontroller lets go of the pins and claims nothing.
LEMMA KeepMcuReset == ASSUME PanelInv, McuReset PROVE PanelInv'
<1>1. /\ stage' = "boot" /\ late' = FALSE /\ clean' = FALSE /\ asserted' = {}
      /\ UNCHANGED << s_dtm_cs, ctl, inky_frame, image, paints >>
  BY DEF McuReset
<1>2. Typed
  BY DEF PanelInv
<1>3. IoTypeOK'
  BY <1>1, <1>2 DEF Typed, IoTypeOK
<1>4. Typed'
  BY <1>1, <1>2, <1>3 DEF Typed
<1> QED
  BY <1>1, <1>4 DEF PanelInv, Placed, Selected, Awaited, InTime, Unpowered, PoweredDown, Unclaimed

\* A step that changes nothing.
LEMMA KeepStutter == ASSUME PanelInv, UNCHANGED vars PROVE PanelInv'
<1>1. /\ inky_frame' = inky_frame /\ stage' = stage /\ variant' = variant /\ pc' = pc
      /\ image' = image /\ late' = late /\ clean' = clean /\ paints' = paints
      /\ asserted' = asserted /\ s_dtm_cs' = s_dtm_cs /\ ctl' = ctl
  BY DEF vars, panelvars, iovars
<1>2. /\ Driver(variant)' = Driver(variant) /\ PinsOf(variant)' = PinsOf(variant)
      /\ Supported(variant)' = Supported(variant)
  BY <1>1, DriverStays
<1>3. Call' = Call /\ (\A j : Passed(j)' = Passed(j)) /\ InTime' = InTime
  BY <1>1, <1>2 DEF Call, Passed, InTime
<1>4. Typed'
  BY <1>1 DEF PanelInv, Typed, IoTypeOK
<1> QED
  BY <1>1, <1>2, <1>3, <1>4
     DEF PanelInv, Placed, Selected, Awaited, Unpowered, PoweredDown, Unclaimed

\* Every step keeps the invariant.
LEMMA PanelNext == PanelInv /\ [Next]_vars => PanelInv'
<1> SUFFICES ASSUME PanelInv, [Next]_vars PROVE PanelInv'
  OBVIOUS
<1>1. CASE ReadEeprom \/ Identify
  BY <1>1, KeepIdentify
<1>2. CASE Paint
  BY <1>2, KeepPaint
<1>3. CASE PaintReset
  BY <1>3, KeepReset
<1>4. CASE PaintSettle
  BY <1>4, KeepSettle
<1>5. CASE PaintCommand
  BY <1>5, KeepCommand
<1>6. CASE PaintBegin
  BY <1>6, KeepBegin
<1>7. CASE PaintWrite
  BY <1>7, KeepWrite
<1>8. CASE PaintEnd
  BY <1>8, KeepEnd
<1>9. CASE PaintWait
  BY <1>9, KeepWait
<1>10. CASE Controllers
  <2>1. PICK p \in Pins : Finish(p) /\ UNCHANGED << eepvars, panelvars >>
    BY <1>10 DEF Controllers
  <2> QED
    BY <2>1, KeepFinish
<1>11. CASE McuReset
  BY <1>11, KeepMcuReset
<1>12. CASE Done \/ UNCHANGED vars
  BY <1>12, KeepStutter DEF Done
<1> QED
  BY <1>1, <1>2, <1>3, <1>4, <1>5, <1>6, <1>7, <1>8, <1>9, <1>10, <1>11, <1>12
     DEF Next, Program

\* It is an invariant, for any number of paints and of resets.
THEOREM PanelsInvariant == Spec => []PanelInv
BY PanelInit, PanelNext, PTL DEF Spec

\* panels.c:192, 239-255: every driver waits before it goes on; only a wait that ran into
\* its timeout lets a command reach a busy controller.
THEOREM ReadyBeforeCommands == Spec => []ReadyBeforeCommand
<1>1. PanelInv => ReadyBeforeCommand
  <2> SUFFICES ASSUME PanelInv, stage = "paint", Call.op \in {"command", "begin"}, ~late
               PROVE  \A p \in PinsOf(variant) : ctl[p].busy = "no"
    BY DEF ReadyBeforeCommand, At, Call
  <2>1. \A p \in Pins : ctl[p].busy = "no"
    BY DEF PanelInv, Awaited, InTime
  <2> QED
    BY <2>1, PinsArePins
<1> QED
  BY <1>1, PanelsInvariant, PTL

\* panels.c:177, 244, 254, 332, 378: every driver switches off what it switched on.
THEOREM PoweredDownAfterPaint == Spec => []PoweredDown
<1>1. PanelInv => PoweredDown
  BY DEF PanelInv
<1> QED
  BY <1>1, PanelsInvariant, PTL

-----------------------------------------------------------------------------
(* The drivers' sequences: what each controller is told before a refresh. *)

\* A command for the controller of pin p; the start of a stream to it.
Orders(c, code, p) == c.op = "command" /\ c.code = code /\ p \in c.to
Begins(c, p)       == c.op = "begin" /\ c.pin = p
Resizes(c, p)      == c.op = "reset" \/ Orders(c, TRES, p)

\* A stretch that leaves p's size, frame and glass as they are.
Quiet(s, p) == \A k \in 1..Len(s) : ~Resizes(s[k], p) /\ ~Begins(s[k], p) /\ ~Orders(s[k], DRF, p)

\* After s, p expects n bytes, since a.
Sized(s, p, n, a) ==
    /\ a \in 1..Len(s) /\ Orders(s[a], TRES, p) /\ s[a].arg = n
    /\ \A k \in (a + 1)..Len(s) : ~Resizes(s[k], p)

\* After s, p has what w writes, begun with f.
Filled(s, p, w, f) ==
    /\ f \in 1..Len(s) /\ f + 1 \in 1..Len(s) /\ Begins(s[f], p) /\ s[f + 1] = w
    /\ w.op = "write"
    /\ \A k \in (f + 1)..Len(s) : ~Begins(s[k], p)

\* In s, p has power from c to e, and is refreshed last at e.
Refreshed(s, p, c, e) ==
    /\ c \in 1..Len(s) /\ e \in 1..Len(s) /\ c < e
    /\ Orders(s[c], PON, p) /\ (\A k \in c..e : ~Orders(s[k], POF, p))
    /\ Orders(s[e], DRF, p) /\ (\A k \in (e + 1)..Len(s) : ~Orders(s[k], DRF, p))

\* A stretch of n calls for the controllers P.
Part(P, s, n) == s \in Seq(Items(P)) /\ Len(s) = n

\* p is told its size, given a frame of that size, switched on and refreshed.
Plan(s, p, w, a, f, c, e) ==
    /\ Sized(s, p, w.stride * w.rows, a) /\ Filled(s, p, w, f) /\ Refreshed(s, p, c, e)
    /\ a < f /\ f + 1 < c

\* panels.c: where the calls of two stretches are when one follows the other.
LEMMA ConcatAt ==
    ASSUME NEW P, NEW s \in Seq(Items(P)), NEW u \in Seq(Items(P))
    PROVE  /\ Len(s) \in Nat /\ Len(u) \in Nat /\ Len(s \o u) = Len(s) + Len(u)
           /\ s \o u \in Seq(Items(P))
           /\ \A i \in 1..Len(s) : (s \o u)[i] = s[i]
           /\ \A i \in 1..Len(u) : (s \o u)[Len(s) + i] = u[i]
           /\ \A k \in 1..Len(s \o u) :
                 k \in 1..Len(s) \/ (k - Len(s) \in 1..Len(u) /\ (s \o u)[k] = u[k - Len(s)])
<1>1. Len(s) \in Nat /\ Len(u) \in Nat
  BY LenProperties
<1>2. /\ s \o u \in Seq(Items(P)) /\ Len(s \o u) = Len(s) + Len(u)
      /\ \A i \in 1..(Len(s) + Len(u)) : (s \o u)[i] = IF i <= Len(s) THEN s[i] ELSE u[i - Len(s)]
  BY <1>1, ConcatProperties
<1>3. ASSUME NEW i \in 1..Len(s) PROVE (s \o u)[i] = s[i]
  BY <1>1, <1>2
<1>4. ASSUME NEW i \in 1..Len(u) PROVE (s \o u)[Len(s) + i] = u[i]
  <2>1. /\ Len(s) + i \in 1..(Len(s) + Len(u)) /\ ~(Len(s) + i <= Len(s))
        /\ Len(s) + i - Len(s) = i
    BY <1>1
  <2> QED
    BY <1>2, <2>1
<1>5. ASSUME NEW k \in 1..Len(s \o u)
      PROVE  k \in 1..Len(s) \/ (k - Len(s) \in 1..Len(u) /\ (s \o u)[k] = u[k - Len(s)])
  BY <1>1, <1>2
<1> QED
  BY <1>1, <1>2, <1>3, <1>4, <1>5

\* panels.c: two stretches.
LEMMA Calls ==
    ASSUME NEW P, NEW m \in Nat, NEW n \in Nat, NEW s, NEW u, Part(P, s, m), Part(P, u, n)
    PROVE  Part(P, s \o u, m + n)
BY ConcatAt DEF Part

\* panels.c: the size that a stretch tells last holds over a stretch that does not.
LEMMA SizedOn ==
    ASSUME NEW P, NEW s \in Seq(Items(P)), NEW u \in Seq(Items(P)), NEW p, NEW n, NEW a,
           Sized(s, p, n, a), \A k \in 1..Len(u) : ~Resizes(u[k], p)
    PROVE  Sized(s \o u, p, n, a)
<1>1. a \in 1..Len(s) /\ Orders(s[a], TRES, p) /\ s[a].arg = n
      /\ \A k \in (a + 1)..Len(s) : ~Resizes(s[k], p)
  BY DEF Sized
<1>2. a \in 1..Len(s \o u) /\ (s \o u)[a] = s[a]
  BY <1>1, ConcatAt
<1>3. ASSUME NEW k \in (a + 1)..Len(s \o u) PROVE ~Resizes((s \o u)[k], p)
  <2>1. Len(s \o u) \in Nat /\ k \in 1..Len(s \o u)
    BY <1>1, ConcatAt
  <2>2. CASE k \in 1..Len(s)
    BY <1>1, <2>2, ConcatAt
  <2>3. CASE k - Len(s) \in 1..Len(u) /\ (s \o u)[k] = u[k - Len(s)]
    BY <2>3
  <2> QED
    BY <2>1, <2>2, <2>3, ConcatAt
<1> QED
  BY <1>1, <1>2, <1>3 DEF Sized

\* panels.c: ... and so does the frame, if no other is begun.
LEMMA FilledOn ==
    ASSUME NEW P, NEW s \in Seq(Items(P)), NEW u \in Seq(Items(P)), NEW p, NEW w, NEW f,
           Filled(s, p, w, f), \A k \in 1..Len(u) : ~Begins(u[k], p)
    PROVE  Filled(s \o u, p, w, f)
<1>1. /\ f \in 1..Len(s) /\ f + 1 \in 1..Len(s) /\ Begins(s[f], p) /\ s[f + 1] = w
      /\ w.op = "write"
      /\ \A k \in (f + 1)..Len(s) : ~Begins(s[k], p)
  BY DEF Filled
<1>2. /\ f \in 1..Len(s \o u) /\ (s \o u)[f] = s[f]
      /\ f + 1 \in 1..Len(s \o u) /\ (s \o u)[f + 1] = s[f + 1]
  BY <1>1, ConcatAt
<1>3. ASSUME NEW k \in (f + 1)..Len(s \o u) PROVE ~Begins((s \o u)[k], p)
  <2>1. Len(s \o u) \in Nat /\ k \in 1..Len(s \o u)
    BY <1>1, ConcatAt
  <2>2. CASE k \in 1..Len(s)
    BY <1>1, <2>2, ConcatAt
  <2>3. CASE k - Len(s) \in 1..Len(u) /\ (s \o u)[k] = u[k - Len(s)]
    BY <2>3
  <2> QED
    BY <2>1, <2>2, <2>3, ConcatAt
<1> QED
  BY <1>1, <1>2, <1>3 DEF Filled

\* panels.c:109, 218-222, 303, 349: a resolution is told after whatever came before.
LEMMA SizedBy ==
    ASSUME NEW P, NEW s \in Seq(Items(P)), NEW to \in SUBSET P, NEW p \in to,
           NEW w \in Nat, NEW h \in Nat
    PROVE  Sized(s \o << Res(to, w, h) >>, p, (w * h) \div 2, Len(s) + 1)
<1> DEFINE r == Res(to, w, h)
           u == << r >>
<1>1. u \in Seq(Items(P)) /\ Len(u) = 1 /\ u[1] = r /\ 1 \in 1..Len(u)
  BY GoodRes DEF Good
<1>2. Orders(r, TRES, p) /\ r.arg = (w * h) \div 2
  BY DEF Orders, Res
<1> HIDE DEF r, u
<1>3. (s \o u)[Len(s) + 1] = r /\ Len(s) \in Nat /\ Len(s \o u) = Len(s) + 1
  <2>1. /\ Len(s) \in Nat /\ Len(s \o u) = Len(s) + Len(u)
        /\ \A i \in 1..Len(u) : (s \o u)[Len(s) + i] = u[i]
    BY <1>1, ConcatAt
  <2> QED
    BY <1>1, <2>1
<1>4. Sized(s \o u, p, (w * h) \div 2, Len(s) + 1)
  BY <1>2, <1>3 DEF Sized
<1> QED
  BY <1>4 DEF r, u

\* panels.c:39-46, 166-173: a stream's frame comes after whatever came before.
LEMMA FilledBy ==
    ASSUME NEW P, NEW s \in Seq(Items(P)), NEW p \in P, NEW part \in {"all", "left", "right"},
           NEW stride \in Nat, NEW rows \in Nat
    PROVE  LET w == [op |-> "write", part |-> part, stride |-> stride, rows |-> rows]
           IN Filled(s \o Stream(p, part, stride, rows), p, w, Len(s) + 1)
<1> DEFINE w == [op |-> "write", part |-> part, stride |-> stride, rows |-> rows]
           b0 == [op |-> "begin", pin |-> p]
           e == [op |-> "end"]
           u == Stream(p, part, stride, rows)
<1>1. u = << b0, w, e >>
  BY DEF Stream
<1>2. u \in Seq(Items(P))
  BY GoodStream DEF Good
<1>3. Begins(b0, p) /\ ~Begins(w, p) /\ ~Begins(e, p) /\ w.op = "write"
  BY DEF Begins
<1> HIDE DEF w, b0, e, u
<1>4. Len(u) = 3 /\ u[1] = b0 /\ u[2] = w /\ u[3] = e
  BY <1>1
<1>5. 1 \in 1..Len(u) /\ 2 \in 1..Len(u) /\ 3 \in 1..Len(u)
  BY <1>4
<1>6. /\ Len(s) \in Nat /\ Len(s \o u) = Len(s) + 3
      /\ (s \o u)[Len(s) + 1] = b0 /\ (s \o u)[Len(s) + 2] = w /\ (s \o u)[Len(s) + 3] = e
  <2>1. /\ Len(s) \in Nat /\ Len(s \o u) = Len(s) + Len(u)
        /\ \A i \in 1..Len(u) : (s \o u)[Len(s) + i] = u[i]
    BY <1>2, ConcatAt
  <2> QED
    BY <1>4, <1>5, <2>1
<1>7. ASSUME NEW k \in ((Len(s) + 1) + 1)..Len(s \o u) PROVE ~Begins((s \o u)[k], p)
  <2>1. k = Len(s) + 2 \/ k = Len(s) + 3
    BY <1>6
  <2> QED
    BY <1>3, <1>6, <2>1
<1>8. (Len(s) + 1) + 1 = Len(s) + 2
  BY <1>6
<1>9. Len(s) + 1 \in 1..Len(s \o u) /\ (Len(s) + 1) + 1 \in 1..Len(s \o u)
  BY <1>6
<1>10. Filled(s \o u, p, w, Len(s) + 1)
  BY <1>3, <1>6, <1>7, <1>8, <1>9 DEF Filled
<1> QED
  BY <1>10 DEF u, w

\* panels.c:175-177, 239-254, 330-332, 376-378: the refresh comes last, and has power.
LEMMA RefreshedBy ==
    ASSUME NEW P, NEW s \in Seq(Items(P)), NEW u \in Seq(Items(P)), NEW p, NEW c, NEW e,
           Refreshed(u, p, c, e)
    PROVE  Refreshed(s \o u, p, Len(s) + c, Len(s) + e)
<1>1. /\ c \in 1..Len(u) /\ e \in 1..Len(u) /\ c < e
      /\ Orders(u[c], PON, p) /\ (\A k \in c..e : ~Orders(u[k], POF, p))
      /\ Orders(u[e], DRF, p) /\ (\A k \in (e + 1)..Len(u) : ~Orders(u[k], DRF, p))
  BY DEF Refreshed
<1>2. Len(s) \in Nat /\ Len(u) \in Nat /\ Len(s \o u) = Len(s) + Len(u)
  BY ConcatAt
<1>3. (s \o u)[Len(s) + c] = u[c] /\ (s \o u)[Len(s) + e] = u[e]
  BY <1>1, ConcatAt
<1>4. /\ Len(s) + c \in 1..Len(s \o u) /\ Len(s) + e \in 1..Len(s \o u)
      /\ Len(s) + c < Len(s) + e
  BY <1>1, <1>2
<1>5. ASSUME NEW k \in (Len(s) + c)..(Len(s) + e) PROVE ~Orders((s \o u)[k], POF, p)
  <2> DEFINE j == k - Len(s)
  <2>1. j \in c..e /\ j \in 1..Len(u) /\ Len(s) + j = k
    BY <1>1, <1>2
  <2> HIDE DEF j
  <2>2. (s \o u)[k] = u[j]
    <3>1. (s \o u)[Len(s) + j] = u[j]
      BY <2>1, ConcatAt
    <3> QED
      BY <2>1, <3>1
  <2> QED
    BY <1>1, <2>1, <2>2
<1>6. ASSUME NEW k \in (Len(s) + e + 1)..Len(s \o u) PROVE ~Orders((s \o u)[k], DRF, p)
  <2> DEFINE j == k - Len(s)
  <2>1. j \in (e + 1)..Len(u) /\ j \in 1..Len(u) /\ Len(s) + j = k
    BY <1>1, <1>2
  <2> HIDE DEF j
  <2>2. (s \o u)[k] = u[j]
    <3>1. (s \o u)[Len(s) + j] = u[j]
      BY <2>1, ConcatAt
    <3> QED
      BY <2>1, <3>1
  <2> QED
    BY <1>1, <2>1, <2>2
<1> QED
  BY <1>1, <1>3, <1>4, <1>5, <1>6 DEF Refreshed

\* panels.c:256-258: what is told after the refresh starts no other.
LEMMA RefreshedOn ==
    ASSUME NEW P, NEW s \in Seq(Items(P)), NEW u \in Seq(Items(P)), NEW p, NEW c, NEW e,
           Refreshed(s, p, c, e), \A k \in 1..Len(u) : ~Orders(u[k], DRF, p)
    PROVE  Refreshed(s \o u, p, c, e)
<1>1. /\ c \in 1..Len(s) /\ e \in 1..Len(s) /\ c < e
      /\ Orders(s[c], PON, p) /\ (\A k \in c..e : ~Orders(s[k], POF, p))
      /\ Orders(s[e], DRF, p) /\ (\A k \in (e + 1)..Len(s) : ~Orders(s[k], DRF, p))
  BY DEF Refreshed
<1>2. Len(s) \in Nat /\ Len(u) \in Nat /\ Len(s \o u) = Len(s) + Len(u)
  BY ConcatAt
<1>3. (s \o u)[c] = s[c] /\ (s \o u)[e] = s[e]
  BY <1>1, ConcatAt
<1>4. c \in 1..Len(s \o u) /\ e \in 1..Len(s \o u)
  BY <1>1, <1>2
<1>5. ASSUME NEW k \in c..e PROVE ~Orders((s \o u)[k], POF, p)
  <2>1. k \in 1..Len(s)
    BY <1>1, <1>2
  <2>2. (s \o u)[k] = s[k]
    BY <2>1, ConcatAt
  <2> QED
    BY <1>1, <2>2
<1>6. ASSUME NEW k \in (e + 1)..Len(s \o u) PROVE ~Orders((s \o u)[k], DRF, p)
  <2>1. k \in 1..Len(s \o u)
    BY <1>1, <1>2
  <2>2. CASE k \in 1..Len(s)
    <3>1. k \in (e + 1)..Len(s) /\ (s \o u)[k] = s[k]
      BY <1>1, <1>2, <2>2, ConcatAt
    <3> QED
      BY <1>1, <3>1
  <2>3. CASE k - Len(s) \in 1..Len(u) /\ (s \o u)[k] = u[k - Len(s)]
    BY <2>3
  <2> QED
    BY <2>1, <2>2, <2>3, ConcatAt
<1> QED
  BY <1>1, <1>3, <1>4, <1>5, <1>6 DEF Refreshed

\* After s, p knows its size; it has the frame of that size; in s, it shows it.
Told(s, p, n)    == \E a \in 1..Len(s) : Sized(s, p, n, a)
Loaded(s, p, w)  == \E a, f \in 1..Len(s) :
                       Sized(s, p, w.stride * w.rows, a) /\ Filled(s, p, w, f) /\ a < f
Planned(s, p, w) == \E a, f, c, e \in 1..Len(s) : Plan(s, p, w, a, f, c, e)

\* panels.c: configuring commands come between.
LEMMA ToldOn ==
    ASSUME NEW P, NEW s, NEW u, NEW m, NEW n, Part(P, s, m), Part(P, u, n), NEW p, NEW z,
           Told(s, p, z), Quiet(u, p)
    PROVE  Told(s \o u, p, z)
<1>0. s \in Seq(Items(P)) /\ u \in Seq(Items(P))
  BY DEF Part
<1>1. PICK a \in 1..Len(s) : Sized(s, p, z, a)
  BY DEF Told
<1>2. Sized(s \o u, p, z, a)
  BY <1>0, <1>1, SizedOn DEF Quiet
<1> QED
  BY <1>2 DEF Told, Sized

\* panels.c: the frame is streamed once its size is told.
LEMMA LoadedBy ==
    ASSUME NEW P, NEW s, NEW m, Part(P, s, m), NEW p \in P,
           NEW part \in {"all", "left", "right"},
           NEW stride \in Nat, NEW rows \in Nat, Told(s, p, stride * rows)
    PROVE  Loaded(s \o Stream(p, part, stride, rows), p,
                  [op |-> "write", part |-> part, stride |-> stride, rows |-> rows])
<1> DEFINE w == [op |-> "write", part |-> part, stride |-> stride, rows |-> rows]
           u == Stream(p, part, stride, rows)
<1>0. s \in Seq(Items(P))
  BY DEF Part
<1>1. PICK a \in 1..Len(s) : Sized(s, p, stride * rows, a)
  BY DEF Told
<1>2. Filled(s \o u, p, w, Len(s) + 1)
  BY <1>0, FilledBy
<1>3. u \in Seq(Items(P)) /\ \A k \in 1..Len(u) : ~Resizes(u[k], p)
  <2>1. u \in Seq(Items(P))
    BY GoodStream DEF Good
  <2>2. Len(u) = 3 /\ u[1].op = "begin" /\ u[2].op = "write" /\ u[3].op = "end"
    BY DEF Stream
  <2> HIDE DEF u
  <2>3. \A k \in 1..Len(u) : k = 1 \/ k = 2 \/ k = 3
    BY <2>2
  <2>4. \A k \in 1..Len(u) : u[k].op # "reset" /\ u[k].op # "command"
    BY <2>2, <2>3
  <2> QED
    BY <2>1, <2>4 DEF Resizes, Orders
<1>4. w.stride * w.rows = stride * rows
  OBVIOUS
<1> HIDE DEF w, u
<1>5. Sized(s \o u, p, w.stride * w.rows, a)
  BY <1>0, <1>1, <1>3, <1>4, SizedOn
<1>6. a < Len(s) + 1
  BY <1>0, <1>3, ConcatAt
<1>7. Loaded(s \o u, p, w)
  <2>1. a \in 1..Len(s \o u) /\ Len(s) + 1 \in 1..Len(s \o u)
    BY <1>2, <1>5 DEF Sized, Filled
  <2> QED
    BY <1>2, <1>5, <1>6, <2>1 DEF Loaded
<1> QED
  BY <1>7 DEF w, u

\* panels.c:166-173: the other half's stream leaves a controller alone.
LEMMA LoadedOn ==
    ASSUME NEW P, NEW s, NEW u, NEW m, NEW n, Part(P, s, m), Part(P, u, n), NEW p, NEW w,
           Loaded(s, p, w), Quiet(u, p)
    PROVE  Loaded(s \o u, p, w)
<1>0. s \in Seq(Items(P)) /\ u \in Seq(Items(P))
  BY DEF Part
<1>1. PICK a, f \in 1..Len(s) :
         Sized(s, p, w.stride * w.rows, a) /\ Filled(s, p, w, f) /\ a < f
  BY DEF Loaded
<1>2. Sized(s \o u, p, w.stride * w.rows, a)
  BY <1>0, <1>1, SizedOn DEF Quiet
<1>3. Filled(s \o u, p, w, f)
  BY <1>0, <1>1, FilledOn DEF Quiet
<1> QED
  BY <1>1, <1>2, <1>3 DEF Loaded, Sized, Filled

\* panels.c: then it is switched on and refreshed.
LEMMA PlannedBy ==
    ASSUME NEW P, NEW s, NEW u, NEW m, NEW n, Part(P, s, m), Part(P, u, n),
           NEW p, NEW w, NEW c, NEW e,
           Loaded(s, p, w), Refreshed(u, p, c, e),
           \A k \in 1..Len(u) : ~Resizes(u[k], p) /\ ~Begins(u[k], p)
    PROVE  Planned(s \o u, p, w)
<1>0. s \in Seq(Items(P)) /\ u \in Seq(Items(P))
  BY DEF Part
<1>1. PICK a, f \in 1..Len(s) :
         Sized(s, p, w.stride * w.rows, a) /\ Filled(s, p, w, f) /\ a < f
  BY DEF Loaded
<1>2. Sized(s \o u, p, w.stride * w.rows, a)
  BY <1>0, <1>1, SizedOn
<1>3. Filled(s \o u, p, w, f)
  BY <1>0, <1>1, FilledOn
<1>4. Refreshed(s \o u, p, Len(s) + c, Len(s) + e)
  BY <1>0, RefreshedBy
<1>5. f + 1 < Len(s) + c
  <2>1. Len(s) \in Nat /\ Len(u) \in Nat
    BY <1>0, ConcatAt
  <2>2. f + 1 \in 1..Len(s) /\ c \in 1..Len(u)
    BY <1>1 DEF Filled, Refreshed
  <2> QED
    BY <2>1, <2>2
<1>6. Plan(s \o u, p, w, a, f, Len(s) + c, Len(s) + e)
  BY <1>1, <1>2, <1>3, <1>4, <1>5 DEF Plan
<1>7. /\ a \in 1..Len(s \o u) /\ f \in 1..Len(s \o u)
      /\ Len(s) + c \in 1..Len(s \o u) /\ Len(s) + e \in 1..Len(s \o u)
  BY <1>2, <1>3, <1>4 DEF Sized, Filled, Refreshed
<1> QED
  BY <1>6, <1>7 DEF Planned

\* panels.c:256-258: the rewrite comes after that.
LEMMA PlannedOn ==
    ASSUME NEW P, NEW s, NEW u, NEW m, NEW n, Part(P, s, m), Part(P, u, n), NEW p, NEW w,
           Planned(s, p, w), Quiet(u, p)
    PROVE  Planned(s \o u, p, w)
<1>0. s \in Seq(Items(P)) /\ u \in Seq(Items(P))
  BY DEF Part
<1>1. PICK a, f, c, e \in 1..Len(s) : Plan(s, p, w, a, f, c, e)
  BY DEF Planned
<1>2. Sized(s \o u, p, w.stride * w.rows, a)
  BY <1>0, <1>1, SizedOn DEF Quiet, Plan
<1>3. Filled(s \o u, p, w, f)
  BY <1>0, <1>1, FilledOn DEF Quiet, Plan
<1>4. Refreshed(s \o u, p, c, e)
  BY <1>0, <1>1, RefreshedOn DEF Quiet, Plan
<1>5. Plan(s \o u, p, w, a, f, c, e)
  BY <1>1, <1>2, <1>3, <1>4 DEF Plan
<1> QED
  BY <1>2, <1>3, <1>4, <1>5 DEF Planned, Sized, Filled, Refreshed

\* panels.c: runs of configuring commands tell no size and start no refresh.
LEMMA QuietCmds ==
    ASSUME NEW P, NEW to \in SUBSET P, NEW codes \in Seq(Nat \ {PON, POF, DRF, TRES}), NEW p
    PROVE  Part(P, Cmds(to, codes), Len(codes)) /\ Quiet(Cmds(to, codes), p)
<1> DEFINE s == Cmds(to, codes)
<1>1. Len(codes) \in Nat /\ \A k \in 1..Len(codes) : codes[k] \in Nat \ {PON, POF, DRF, TRES}
  BY LenProperties
<1>2. s = [k \in 1..Len(codes) |-> Cmd(to, codes[k])]
  BY DEF Cmds
<1>3. \A k \in 1..Len(codes) : Cmd(to, codes[k]) \in Items(P)
  BY <1>1 DEF Cmd, Items
<1>4. s \in Seq(Items(P)) /\ Len(s) = Len(codes)
  BY <1>1, <1>2, <1>3
<1>5. \A k \in 1..Len(codes) : s[k] = Cmd(to, codes[k])
  BY <1>2
<1> HIDE DEF s
<1>6. ASSUME NEW k \in 1..Len(s)
      PROVE  ~Resizes(s[k], p) /\ ~Begins(s[k], p) /\ ~Orders(s[k], DRF, p)
  <2>1. s[k] = Cmd(to, codes[k]) /\ codes[k] \notin {DRF, TRES}
    BY <1>1, <1>4, <1>5
  <2>2. s[k].op = "command" /\ s[k].code \notin {DRF, TRES}
    BY <2>1 DEF Cmd
  <2> QED
    BY <2>2 DEF Resizes, Begins, Orders
<1> QED
  BY <1>4, <1>6 DEF Quiet, Part, s

\* panels.c:166-173: a stream is for one controller.
LEMMA QuietStream ==
    ASSUME NEW q, NEW part, NEW stride, NEW rows, NEW p, p # q
    PROVE  Quiet(Stream(q, part, stride, rows), p)
<1> DEFINE u == Stream(q, part, stride, rows)
<1>1. /\ Len(u) = 3 /\ u[1].op = "begin" /\ u[1].pin = q
      /\ u[2].op = "write" /\ u[3].op = "end"
  BY DEF Stream
<1> HIDE DEF u
<1>2. \A k \in 1..Len(u) : k = 1 \/ k = 2 \/ k = 3
  BY <1>1
<1>3. \A k \in 1..Len(u) : /\ u[k].op # "reset" /\ u[k].op # "command"
                           /\ u[k].op = "begin" => u[k].pin = q
  BY <1>1, <1>2
<1> QED
  BY <1>3 DEF Quiet, Resizes, Begins, Orders, u

\* panels.c:175-177, 330-332, 376-378: switched on, refreshed, switched off.
LEMMA TailRefreshes ==
    ASSUME NEW P, NEW p \in P, NEW pa \in Pauses, NEW w \in {Wait(TRUE), Wait(FALSE)},
           NEW pb \in Pauses
    PROVE  LET s == << Cmd(P, PON), pa, Cmd(P, DRF), w, PowerOff(P), pb >>
           IN /\ Refreshed(s, p, 1, 3) /\ Len(s) = 6
              /\ \A k \in 1..Len(s) : ~Resizes(s[k], p) /\ ~Begins(s[k], p)
<1> DEFINE on == Cmd(P, PON)
           rf == Cmd(P, DRF)
           of == PowerOff(P)
<1>1. /\ on.op = "command" /\ on.code = PON /\ on.to = P
      /\ rf.op = "command" /\ rf.code = DRF /\ rf.to = P
      /\ of.op = "command" /\ of.code = POF /\ of.to = P
  BY DEF Cmd, PowerOff
<1>2. pa.op \in {"settle", "wait"} /\ pb.op \in {"settle", "wait"}
  BY PauseIsItem
<1>3. w.op = "wait"
  BY DEF Wait
<1> HIDE DEF on, rf, of
<1> DEFINE s == << on, pa, rf, w, of, pb >>
<1>4. /\ Len(s) = 6 /\ s[1] = on /\ s[2] = pa /\ s[3] = rf /\ s[4] = w /\ s[5] = of /\ s[6] = pb
  OBVIOUS
<1> HIDE DEF s
<1>5. \A k \in 1..Len(s) : k = 1 \/ k = 2 \/ k = 3 \/ k = 4 \/ k = 5 \/ k = 6
  BY <1>4
<1>6. \A k \in 1..Len(s) : /\ s[k].op \in {"command", "settle", "wait"}
                           /\ s[k].op = "command" => s[k].code \in {PON, DRF, POF}
                           /\ k < 5 => ~Orders(s[k], POF, p)
                           /\ k > 3 => ~Orders(s[k], DRF, p)
  <2>1. \A k \in 1..Len(s) : s[k].op \in {"command", "settle", "wait"}
                             /\ (s[k].op = "command" => s[k].code \in {PON, DRF, POF})
    BY <1>1, <1>2, <1>3, <1>4, <1>5
  <2>2. /\ ~Orders(on, POF, p) /\ ~Orders(pa, POF, p) /\ ~Orders(rf, POF, p)
        /\ ~Orders(w, POF, p)
        /\ ~Orders(w, DRF, p) /\ ~Orders(of, DRF, p) /\ ~Orders(pb, DRF, p)
    BY <1>1, <1>2, <1>3 DEF Orders, PON, POF, DRF
  <2>3. \A k \in 1..Len(s) : k < 5 => k = 1 \/ k = 2 \/ k = 3 \/ k = 4
    BY <1>5
  <2>4. \A k \in 1..Len(s) : k > 3 => k = 4 \/ k = 5 \/ k = 6
    BY <1>5
  <2> QED
    BY <1>4, <2>1, <2>2, <2>3, <2>4
<1>7. Orders(on, PON, p) /\ Orders(rf, DRF, p)
  BY <1>1 DEF Orders
<1>8. Refreshed(s, p, 1, 3)
  <2>1. 1 \in 1..Len(s) /\ 3 \in 1..Len(s) /\ 1 < 3
    BY <1>4
  <2>2. \A k \in 1..3 : k \in 1..Len(s) /\ k < 5
    BY <1>4
  <2>3. \A k \in (3 + 1)..Len(s) : k \in 1..Len(s) /\ k > 3
    BY <1>4
  <2> QED
    BY <1>4, <1>6, <1>7, <2>1, <2>2, <2>3 DEF Refreshed
<1>9. \A k \in 1..Len(s) : ~Resizes(s[k], p) /\ ~Begins(s[k], p)
  BY <1>6 DEF Resizes, Begins, Orders, PON, DRF, POF, TRES
<1> QED
  BY <1>4, <1>8, <1>9 DEF s, on, rf, of

\* panels.c:239-254: ... with a booster setting between.
LEMMA BoostedRefreshes ==
    ASSUME NEW P, NEW p \in P, NEW pa \in Pauses, NEW w \in {Wait(TRUE), Wait(FALSE)},
           NEW pb \in Pauses
    PROVE  LET s == << Cmd(P, PON), pa, Cmd(P, 6), Cmd(P, DRF), w, PowerOff(P), pb >>
           IN /\ Refreshed(s, p, 1, 4) /\ Len(s) = 7
              /\ \A k \in 1..Len(s) : ~Resizes(s[k], p) /\ ~Begins(s[k], p)
<1> DEFINE on == Cmd(P, PON)
           bt == Cmd(P, 6)
           rf == Cmd(P, DRF)
           of == PowerOff(P)
<1>1. /\ on.op = "command" /\ on.code = PON /\ on.to = P
      /\ bt.op = "command" /\ bt.code = 6
      /\ rf.op = "command" /\ rf.code = DRF /\ rf.to = P
      /\ of.op = "command" /\ of.code = POF /\ of.to = P
  BY DEF Cmd, PowerOff
<1>2. pa.op \in {"settle", "wait"} /\ pb.op \in {"settle", "wait"}
  BY PauseIsItem
<1>3. w.op = "wait"
  BY DEF Wait
<1> HIDE DEF on, bt, rf, of
<1> DEFINE s == << on, pa, bt, rf, w, of, pb >>
<1>4. /\ Len(s) = 7 /\ s[1] = on /\ s[2] = pa /\ s[3] = bt /\ s[4] = rf /\ s[5] = w /\ s[6] = of
      /\ s[7] = pb
  OBVIOUS
<1> HIDE DEF s
<1>5. \A k \in 1..Len(s) : k = 1 \/ k = 2 \/ k = 3 \/ k = 4 \/ k = 5 \/ k = 6 \/ k = 7
  BY <1>4
<1>6. \A k \in 1..Len(s) : /\ s[k].op \in {"command", "settle", "wait"}
                           /\ s[k].op = "command" => s[k].code \in {PON, 6, DRF, POF}
                           /\ k < 6 => ~Orders(s[k], POF, p)
                           /\ k > 4 => ~Orders(s[k], DRF, p)
  <2>1. \A k \in 1..Len(s) : s[k].op \in {"command", "settle", "wait"}
                             /\ (s[k].op = "command" => s[k].code \in {PON, 6, DRF, POF})
    BY <1>1, <1>2, <1>3, <1>4, <1>5
  <2>2. /\ ~Orders(on, POF, p) /\ ~Orders(pa, POF, p) /\ ~Orders(bt, POF, p)
        /\ ~Orders(rf, POF, p) /\ ~Orders(w, POF, p)
        /\ ~Orders(w, DRF, p) /\ ~Orders(of, DRF, p) /\ ~Orders(pb, DRF, p)
    BY <1>1, <1>2, <1>3 DEF Orders, PON, POF, DRF
  <2>3. \A k \in 1..Len(s) : k < 6 => k = 1 \/ k = 2 \/ k = 3 \/ k = 4 \/ k = 5
    BY <1>5
  <2>4. \A k \in 1..Len(s) : k > 4 => k = 5 \/ k = 6 \/ k = 7
    BY <1>5
  <2> QED
    BY <1>4, <2>1, <2>2, <2>3, <2>4
<1>7. Orders(on, PON, p) /\ Orders(rf, DRF, p)
  BY <1>1 DEF Orders
<1>8. Refreshed(s, p, 1, 4)
  <2>1. 1 \in 1..Len(s) /\ 4 \in 1..Len(s) /\ 1 < 4
    BY <1>4
  <2>2. \A k \in 1..4 : k \in 1..Len(s) /\ k < 6
    BY <1>4
  <2>3. \A k \in (4 + 1)..Len(s) : k \in 1..Len(s) /\ k > 4
    BY <1>4
  <2> QED
    BY <1>4, <1>6, <1>7, <2>1, <2>2, <2>3 DEF Refreshed
<1>9. \A k \in 1..Len(s) : ~Resizes(s[k], p) /\ ~Begins(s[k], p)
  BY <1>6 DEF Resizes, Begins, Orders, PON, DRF, POF, TRES
<1> QED
  BY <1>4, <1>8, <1>9 DEF s, on, bt, rf, of

\* What the drivers write: a whole frame of w by h pixels, or half a row of the 13.3 inch
\* panel's at a time.
Whole(w, h) == [op |-> "write", part |-> "all", stride |-> w \div 2, rows |-> h]
HalfOf(part) == [op |-> "write", part |-> part, stride |-> 300, rows |-> 1600]

\* panels.c: from the start to a resolution is a stretch that tells it.
LEMMA ToldBy ==
    ASSUME NEW P, NEW s, NEW m \in Nat, Part(P, s, m), NEW to \in SUBSET P, NEW p \in to,
           NEW w \in Nat, NEW h \in Nat, NEW n, (w * h) \div 2 = n
    PROVE  /\ Told(s \o << Res(to, w, h) >>, p, n)
           /\ Part(P, s \o << Res(to, w, h) >>, m + 1)
<1> DEFINE u == << Res(to, w, h) >>
<1>1. Sized(s \o u, p, n, Len(s) + 1)
  BY SizedBy DEF Part
<1>2. Part(P, u, 1)
  BY GoodRes DEF Good, Part
<1> HIDE DEF u
<1>3. Part(P, s \o u, m + 1)
  BY <1>2, Calls
<1> QED
  BY <1>1, <1>3 DEF Told, Sized, u

\* panels.c: a stream is three calls.
LEMMA StreamCalls ==
    ASSUME NEW P, NEW q \in P, NEW part \in {"all", "left", "right"},
           NEW stride \in Nat, NEW rows \in Nat
    PROVE  Part(P, Stream(q, part, stride, rows), 3)
<1>1. Stream(q, part, stride, rows) \in Seq(Items(P))
  BY GoodStream DEF Good
<1>2. Len(Stream(q, part, stride, rows)) = 3
  BY DEF Stream
<1> QED
  BY <1>1, <1>2 DEF Part

\* panels.c:68-179: either half's controller is told its size, given its half, refreshed.
LEMMA El133Planned ==
    /\ Planned(El133, 26, HalfOf("left")) /\ Planned(El133, 16, HalfOf("right"))
    /\ Len(El133) = 35
<1> DEFINE P == {26, 16}
           M == {26}
           S == {16}
           a0 == << Reset, Settle >>
           a1 == Cmds(M, <<116>>)
           a2 == Cmds(P, <<240, 0>>)
           a3 == Cmds(M, <<165>>)
           a4 == Cmds(P, <<48, 80, 96>>)
           a5 == Cmds(M, <<3>>)
           a6 == Cmds(S, <<3>>)
           a7 == Cmds(P, <<134, 227, 224>>)
           a8 == << Res(P, 1200, 800) >>
           a9 == Cmds(M, <<164, 1, 182, 6, 183, 5, 176, 177>>)
           b1 == Stream(26, "left", 300, 1600)
           b2 == Stream(16, "right", 300, 1600)
           b3 == << Cmd(P, PON), Settle, Cmd(P, DRF), Wait(FALSE), PowerOff(P), Settle >>
<1>0. M \in SUBSET P /\ S \in SUBSET P /\ P \in SUBSET P /\ 26 \in P /\ 16 \in P /\ 26 # 16
  OBVIOUS
<1>1. Part(P, a0, 2)
  BY GoodReset DEF Pauses, Good, Part
<1>2. Part(P, a1, 1) /\ Part(P, a3, 1) /\ Part(P, a5, 1) /\ Part(P, a6, 1)
  <2>1. /\ <<116>> \in Seq(Nat \ {PON, POF, DRF, TRES}) /\ Len(<<116>>) = 1
        /\ <<165>> \in Seq(Nat \ {PON, POF, DRF, TRES}) /\ Len(<<165>>) = 1
        /\ <<3>> \in Seq(Nat \ {PON, POF, DRF, TRES}) /\ Len(<<3>>) = 1
    BY DEF PON, POF, DRF, TRES
  <2> QED
    BY <1>0, <2>1, QuietCmds, ZenonT(60)
<1>3. Part(P, a2, 2) /\ Part(P, a4, 3) /\ Part(P, a7, 3)
  <2>1. /\ <<240, 0>> \in Seq(Nat \ {PON, POF, DRF, TRES}) /\ Len(<<240, 0>>) = 2
        /\ <<48, 80, 96>> \in Seq(Nat \ {PON, POF, DRF, TRES}) /\ Len(<<48, 80, 96>>) = 3
        /\ <<134, 227, 224>> \in Seq(Nat \ {PON, POF, DRF, TRES})
        /\ Len(<<134, 227, 224>>) = 3
    BY DEF PON, POF, DRF, TRES
  <2> QED
    BY <1>0, <2>1, QuietCmds, ZenonT(60)
<1>4. Part(P, a9, 8) /\ \A p : Quiet(a9, p)
  <2>1. /\ <<164, 1, 182, 6, 183, 5, 176, 177>> \in Seq(Nat \ {PON, POF, DRF, TRES})
        /\ Len(<<164, 1, 182, 6, 183, 5, 176, 177>>) = 8
    BY DEF PON, POF, DRF, TRES
  <2> QED
    BY <1>0, <2>1, QuietCmds, ZenonT(60)
<1>5. /\ 300 \in Nat /\ 1600 \in Nat /\ 1200 \in Nat /\ 800 \in Nat
      /\ (1200 * 800) \div 2 = 300 * 1600
      /\ "left" \in {"all", "left", "right"} /\ "right" \in {"all", "left", "right"}
  OBVIOUS
<1>6. /\ Part(P, b1, 3) /\ Part(P, b2, 3) /\ Quiet(b1, 16) /\ Quiet(b2, 26)
  <2>1. Part(P, b1, 3) /\ Part(P, b2, 3)
    BY <1>0, <1>5, StreamCalls
  <2> QED
    BY <1>0, <2>1, QuietStream
<1>7. /\ Part(P, b3, 6)
      /\ \A p \in P : Refreshed(b3, p, 1, 3)
                      /\ \A k \in 1..Len(b3) : ~Resizes(b3[k], p) /\ ~Begins(b3[k], p)
  <2>1. b3 \in Seq(Items(P))
    BY GoodTail DEF Pauses, Good
  <2>2. Len(b3) = 6
    OBVIOUS
  <2>3. \A p \in P : Refreshed(b3, p, 1, 3)
                     /\ \A k \in 1..Len(b3) : ~Resizes(b3[k], p) /\ ~Begins(b3[k], p)
    <3> HIDE DEF P
    <3>1. Settle \in Pauses /\ Wait(FALSE) \in {Wait(TRUE), Wait(FALSE)}
      BY DEF Pauses
    <3> QED
      BY <3>1, TailRefreshes, Zenon
  <2> QED
    BY <2>1, <2>2, <2>3 DEF Part
<1>8. El133 = a0 \o a1 \o a2 \o a3 \o a4 \o a5 \o a6 \o a7 \o a8 \o a9 \o b1 \o b2 \o b3
  BY DEF El133
<1> HIDE DEF P, M, S, a0, a1, a2, a3, a4, a5, a6, a7, a9, b1, b2, b3
<1> DEFINE c7 == a0 \o a1 \o a2 \o a3 \o a4 \o a5 \o a6 \o a7
<1>9. Part(P, c7, 14)
  <2>0. /\ 2 + 1 = 3 /\ 3 + 2 = 5 /\ 5 + 1 = 6 /\ 6 + 3 = 9 /\ 9 + 1 = 10 /\ 10 + 1 = 11
        /\ 11 + 3 = 14
    OBVIOUS
  <2>1. Part(P, a0 \o a1, 2 + 1)
    BY <1>1, <1>2, Calls
  <2>2. Part(P, a0 \o a1 \o a2, 3 + 2)
    BY <1>3, <2>0, <2>1, Calls
  <2>3. Part(P, a0 \o a1 \o a2 \o a3, 5 + 1)
    BY <1>2, <2>0, <2>2, Calls
  <2>4. Part(P, a0 \o a1 \o a2 \o a3 \o a4, 9)
    BY <1>3, <2>3, Calls
  <2>5. Part(P, a0 \o a1 \o a2 \o a3 \o a4 \o a5, 10)
    BY <1>2, <2>4, Calls
  <2>6. Part(P, a0 \o a1 \o a2 \o a3 \o a4 \o a5 \o a6, 10 + 1)
    BY <1>2, <2>5, Calls
  <2> QED
    BY <1>3, <2>6, Calls
<1> HIDE DEF c7
<1> DEFINE n == 300 * 1600
           c8 == c7 \o a8
           c9 == c8 \o a9
           d1 == c9 \o b1
           d2 == d1 \o b2
<1>10. Part(P, c8, 15) /\ Told(c8, 26, n) /\ Told(c8, 16, n)
  <2>0. 14 \in Nat /\ 1200 \in Nat /\ 800 \in Nat /\ P \in SUBSET P
    OBVIOUS
  <2>1. (1200 * 800) \div 2 = n
    BY <1>5
  <2> HIDE DEF n
  <2>2. ASSUME NEW p \in P PROVE Told(c8, p, n) /\ Part(P, c8, 14 + 1)
    <3>1. \A w, h \in Nat : (w * h) \div 2 = n =>
             Told(c7 \o << Res(P, w, h) >>, p, n) /\ Part(P, c7 \o << Res(P, w, h) >>, 14 + 1)
      BY <1>9, <2>0, ToldBy
    <3>2. Told(c7 \o << Res(P, 1200, 800) >>, p, n)
          /\ Part(P, c7 \o << Res(P, 1200, 800) >>, 14 + 1)
      <4> DEFINE w == 1200
                 h == 800
      <4>1. w \in Nat /\ h \in Nat /\ (w * h) \div 2 = n
        BY <2>1
      <4> HIDE DEF w, h
      <4>2. Told(c7 \o << Res(P, w, h) >>, p, n) /\ Part(P, c7 \o << Res(P, w, h) >>, 14 + 1)
        BY <3>1, <4>1
      <4> QED
        BY <4>2 DEF w, h
    <3> QED
      BY <3>2
  <2>3. Part(P, c8, 15)
    BY <1>0, <2>2
  <2> QED
    BY <1>0, <2>2, <2>3
<1>11. El133 = d2 \o b3
  BY <1>8 DEF c7
<1> HIDE DEF n, a8, c8
<1>12. Part(P, c9, 23) /\ Told(c9, 26, n) /\ Told(c9, 16, n)
  <2>1. Part(P, c9, 23)
    BY <1>4, <1>10, Calls
  <2> QED
    BY <1>4, <1>10, <2>1, ToldOn
<1> HIDE DEF c9
<1>13. Part(P, d1, 26) /\ Loaded(d1, 26, HalfOf("left")) /\ Told(d1, 16, n)
  <2>1. Part(P, d1, 23 + 3)
    BY <1>6, <1>12, Calls
  <2>2. Loaded(d1, 26, HalfOf("left"))
    BY <1>0, <1>5, <1>12, LoadedBy DEF HalfOf, b1, n
  <2> QED
    BY <1>6, <1>12, <2>1, <2>2, ToldOn
<1> HIDE DEF d1
<1>14. Part(P, d2, 29) /\ Loaded(d2, 26, HalfOf("left")) /\ Loaded(d2, 16, HalfOf("right"))
  <2>1. Part(P, d2, 26 + 3)
    BY <1>6, <1>13, Calls
  <2>2. Loaded(d2, 16, HalfOf("right"))
    BY <1>0, <1>5, <1>13, LoadedBy DEF HalfOf, b2, n
  <2>3. Loaded(d2, 26, HalfOf("left"))
    BY <1>6, <1>13, LoadedOn
  <2> QED
    BY <2>1, <2>2, <2>3
<1> HIDE DEF d2
<1>15. Len(d2 \o b3) = 35
  <2>1. Part(P, d2 \o b3, 29 + 6)
    BY <1>7, <1>14, Calls
  <2> QED
    BY <2>1 DEF Part
<1> QED
  BY <1>0, <1>7, <1>11, <1>14, <1>15, PlannedBy

\* panels.c:183-258: the controller is told the size that its frame has, with the rewrite
\* and without.
LEMMA SpectraPlanned ==
    ASSUME NEW cs, NEW ready \in Pauses, NEW wait \in {Wait(TRUE), Wait(FALSE)},
           NEW w \in Nat, NEW h \in Nat, NEW tw \in Nat, NEW th \in Nat,
           NEW n, (tw * th) \div 2 = n, (w \div 2) * h = n
    PROVE  /\ Planned(SpectraCalls(cs, ready, wait, w, h, tw, th), cs, Whole(w, h))
           /\ Part({cs}, SpectraCalls(cs, ready, wait, w, h, tw, th), 25)
           /\ Planned(SpectraCalls(cs, ready, wait, w, h, tw, th) \o << Cmd({cs}, 0), ready >>,
                      cs, Whole(w, h))
           /\ Part({cs}, SpectraCalls(cs, ready, wait, w, h, tw, th)
                             \o << Cmd({cs}, 0), ready >>, 27)
<1> DEFINE P == {cs}
           a0 == << Reset, ready >>
           a1 == Cmds(P, <<170, 1, 0, 5, 8, 6, 3, 96, 48, 80>>)
           a3 == Cmds(P, <<227, 130>>)
           b1 == Single(cs, w, h)
           b2 == << Cmd(P, PON), ready, Cmd(P, 6), Cmd(P, DRF), wait, PowerOff(P), ready >>
           b3 == << Cmd(P, 0), ready >>
           body == SpectraCalls(cs, ready, wait, w, h, tw, th)
<1>0. P \in SUBSET P /\ cs \in P
  OBVIOUS
<1>1. Part(P, a0, 2)
  BY GoodReset DEF Good, Part
<1>2. Part(P, a1, 10) /\ Part(P, a3, 2) /\ Quiet(a3, cs)
  <2>1. /\ <<170, 1, 0, 5, 8, 6, 3, 96, 48, 80>> \in Seq(Nat \ {PON, POF, DRF, TRES})
        /\ Len(<<170, 1, 0, 5, 8, 6, 3, 96, 48, 80>>) = 10
        /\ <<227, 130>> \in Seq(Nat \ {PON, POF, DRF, TRES}) /\ Len(<<227, 130>>) = 2
    BY DEF PON, POF, DRF, TRES
  <2> QED
    BY <1>0, <2>1, QuietCmds, ZenonT(60)
<1>3. w \div 2 \in Nat /\ "all" \in {"all", "left", "right"}
  OBVIOUS
<1>4. Part(P, b1, 3)
  BY <1>0, <1>3, StreamCalls DEF Single
<1>5. /\ Part(P, b2, 7) /\ Refreshed(b2, cs, 1, 4)
      /\ \A k \in 1..Len(b2) : ~Resizes(b2[k], cs) /\ ~Begins(b2[k], cs)
  <2>1. b2 \in Seq(Items(P))
    BY GoodTailBoosted DEF Good
  <2>2. /\ Refreshed(b2, cs, 1, 4) /\ Len(b2) = 7
        /\ \A k \in 1..Len(b2) : ~Resizes(b2[k], cs) /\ ~Begins(b2[k], cs)
    BY <1>0, BoostedRefreshes
  <2> HIDE DEF b2
  <2> QED
    BY <2>1, <2>2 DEF Part
<1>6. Part(P, b3, 2) /\ Quiet(b3, cs)
  <2> DEFINE c == Cmd(P, 0)
  <2>1. c \in Items(P) /\ c.op = "command" /\ c.code = 0
    BY DEF Cmd, Items
  <2>2. ready \in Items(P) /\ ready.op \in {"settle", "wait"}
    BY PauseIsItem
  <2> HIDE DEF c
  <2> DEFINE u == << c, ready >>
  <2>3. u \in Seq(Items(P)) /\ Len(u) = 2 /\ u[1] = c /\ u[2] = ready
    BY <2>1, <2>2
  <2> HIDE DEF u
  <2>4. \A k \in 1..Len(u) : u[k].op # "reset" /\ u[k].op # "begin"
                             /\ (u[k].op = "command" => u[k].code = 0)
    BY <2>1, <2>2, <2>3
  <2>5. Quiet(u, cs)
    BY <2>4 DEF Quiet, Resizes, Begins, Orders, TRES, DRF
  <2> QED
    BY <2>3, <2>5 DEF Part, u, c
<1>7. body = a0 \o a1 \o << Res(P, tw, th) >> \o a3 \o b1 \o b2
  BY DEF SpectraCalls
<1>8. (w \div 2) * h = n
  OBVIOUS
<1> HIDE DEF P, a0, a1, a3, b2, b3, body
<1>9. Part(P, a0 \o a1, 2 + 10)
  BY <1>1, <1>2, Calls
<1> DEFINE c1 == a0 \o a1
           c2 == c1 \o << Res(P, tw, th) >>
           c3 == c2 \o a3
           c4 == c3 \o b1
<1>10. Part(P, c2, 13) /\ Told(c2, cs, n)
  <2>0. Part(P, c1, 12)
    BY <1>9
  <2> HIDE DEF c1
  <2>1. Part(P, c2, 12 + 1) /\ Told(c2, cs, n)
    BY <1>0, <2>0, ToldBy
  <2> QED
    BY <2>1
<1>11. body = c4 \o b2
  BY <1>7
<1> HIDE DEF c2
<1>12. Part(P, c3, 15) /\ Told(c3, cs, n)
  <2>1. Part(P, c3, 13 + 2)
    BY <1>2, <1>10, Calls
  <2>2. Told(c3, cs, n)
    BY <1>2, <1>10, ToldOn
  <2> QED
    BY <2>1, <2>2
<1> HIDE DEF c3
<1>13. Part(P, c4, 18) /\ Loaded(c4, cs, Whole(w, h))
  <2>1. Part(P, c4, 15 + 3)
    <3> HIDE DEF b1
    <3> QED
      BY <1>4, <1>12, Calls
  <2>2. Loaded(c4, cs, Whole(w, h))
    <3> DEFINE half == w \div 2
    <3>1. half \in Nat /\ half * h = n
      BY <1>3, <1>8
    <3>2. Whole(w, h) = [op |-> "write", part |-> "all", stride |-> half, rows |-> h]
          /\ c4 = c3 \o Stream(cs, "all", half, h)
      BY DEF Whole, Single
    <3> HIDE DEF half, c4
    <3> QED
      BY <1>0, <1>3, <1>12, <3>1, <3>2, LoadedBy
  <2> QED
    BY <2>1, <2>2
<1> HIDE DEF c4
<1>14. Part(P, body, 25) /\ Planned(body, cs, Whole(w, h))
  <2>1. Part(P, c4 \o b2, 18 + 7)
    BY <1>5, <1>13, Calls
  <2> QED
    BY <1>5, <1>11, <1>13, <2>1, PlannedBy
<1>15. Part(P, body \o b3, 27) /\ Planned(body \o b3, cs, Whole(w, h))
  <2>1. Part(P, body \o b3, 25 + 2)
    BY <1>6, <1>14, Calls
  <2> QED
    BY <1>6, <1>14, <2>1, PlannedOn
<1> QED
  BY <1>14, <1>15 DEF P, body, b3

\* panels.c:277-334.
LEMMA Ac073Planned == Planned(Ac073, 8, Whole(800, 480)) /\ Part({8}, Ac073, 30)
<1> DEFINE P == {8}
           w == 800
           h == 480
           n == 192000
           a0 == << Reset, Settle >>
           a1 == Cmds(P, <<170, 1, 0, 3, 5, 6, 8, 19, 48, 65, 80, 96>>)
           a3 == Cmds(P, <<130, 132, 134, 227, 224, 230>>)
           b1 == Single(8, w, h)
           b2 == << Cmd(P, PON), Settle, Cmd(P, DRF), Wait(FALSE), PowerOff(P), Settle >>
<1>0. P \in SUBSET P /\ 8 \in P
  OBVIOUS
<1>3. /\ w \in Nat /\ h \in Nat /\ w \div 2 \in Nat /\ "all" \in {"all", "left", "right"}
      /\ (w * h) \div 2 = n /\ (w \div 2) * h = n
  OBVIOUS
<1>1. Part(P, a0, 2)
  BY GoodReset DEF Pauses, Good, Part
<1>2. Part(P, a1, 12) /\ Part(P, a3, 6) /\ Quiet(a3, 8)
  <2>1. /\ <<170, 1, 0, 3, 5, 6, 8, 19, 48, 65, 80, 96>> \in Seq(Nat \ {PON, POF, DRF, TRES})
        /\ Len(<<170, 1, 0, 3, 5, 6, 8, 19, 48, 65, 80, 96>>) = 12
        /\ <<130, 132, 134, 227, 224, 230>> \in Seq(Nat \ {PON, POF, DRF, TRES})
        /\ Len(<<130, 132, 134, 227, 224, 230>>) = 6
    BY DEF PON, POF, DRF, TRES
  <2> QED
    BY <1>0, <2>1, QuietCmds, ZenonT(60)
<1>4. Part(P, b1, 3)
  BY <1>0, <1>3, StreamCalls DEF Single
<1>5. /\ Part(P, b2, 6) /\ Refreshed(b2, 8, 1, 3)
      /\ \A k \in 1..Len(b2) : ~Resizes(b2[k], 8) /\ ~Begins(b2[k], 8)
  <2>1. b2 \in Seq(Items(P))
    BY GoodTail DEF Pauses, Good
  <2>2. /\ Refreshed(b2, 8, 1, 3) /\ Len(b2) = 6
        /\ \A k \in 1..Len(b2) : ~Resizes(b2[k], 8) /\ ~Begins(b2[k], 8)
    BY <1>0, TailRefreshes DEF Pauses
  <2> HIDE DEF b2
  <2> QED
    BY <2>1, <2>2 DEF Part
<1>7. Ac073 = a0 \o a1 \o << Res(P, w, h) >> \o a3 \o b1 \o b2
  BY DEF Ac073
<1>8. Whole(800, 480) = Whole(w, h) /\ {8} = P
  OBVIOUS
<1> HIDE DEF P, w, h, n, a0, a1, a3, b2
<1>9. Part(P, a0 \o a1, 2 + 12)
  BY <1>1, <1>2, Calls
<1> DEFINE c1 == a0 \o a1
           c2 == c1 \o << Res(P, w, h) >>
           c3 == c2 \o a3
           c4 == c3 \o b1
<1>10. Part(P, c2, 15) /\ Told(c2, 8, n)
  <2>0. Part(P, c1, 14)
    BY <1>9
  <2> HIDE DEF c1
  <2>1. Part(P, c2, 14 + 1) /\ Told(c2, 8, n)
    BY <1>0, <1>3, <2>0, ToldBy
  <2> QED
    BY <2>1
<1>11. Ac073 = c4 \o b2
  BY <1>7
<1> HIDE DEF c2
<1>12. Part(P, c3, 21) /\ Told(c3, 8, n)
  <2>1. Part(P, c3, 15 + 6)
    BY <1>2, <1>10, Calls
  <2>2. Told(c3, 8, n)
    BY <1>2, <1>10, ToldOn
  <2> QED
    BY <2>1, <2>2
<1> HIDE DEF c3
<1>13. Part(P, c4, 24) /\ Loaded(c4, 8, Whole(w, h))
  <2>1. Part(P, c4, 21 + 3)
    <3> HIDE DEF b1
    <3> QED
      BY <1>4, <1>12, Calls
  <2>2. Loaded(c4, 8, Whole(w, h))
    <3> DEFINE half == w \div 2
    <3>1. half \in Nat /\ half * h = n
      BY <1>3
    <3>2. Whole(w, h) = [op |-> "write", part |-> "all", stride |-> half, rows |-> h]
          /\ c4 = c3 \o Stream(8, "all", half, h)
      BY DEF Whole, Single
    <3> HIDE DEF half, c4
    <3> QED
      BY <1>0, <1>3, <1>12, <3>1, <3>2, LoadedBy
  <2> QED
    BY <2>1, <2>2
<1> HIDE DEF c4
<1>14. Part(P, c4 \o b2, 24 + 6)
  BY <1>5, <1>13, Calls
<1>15. Planned(c4 \o b2, 8, Whole(w, h))
  BY <1>5, <1>13, PlannedBy
<1>16. Planned(Ac073, 8, Whole(w, h)) /\ Part(P, Ac073, 30)
  BY <1>11, <1>14, <1>15
<1> QED
  BY <1>8, <1>16

\* panels.c:338-380: the controller is told the size of what is streamed, which for two of
\* the three is smaller than the descriptor's.
LEMMA Uc8159Planned ==
    ASSUME NEW v
    PROVE  /\ Planned(Uc8159(v), 8, Whole(IF v = 16 THEN 640 ELSE 600, IF v = 16 THEN 400 ELSE 448))
           /\ Part({8}, Uc8159(v), 21)
<1> DEFINE P == {8}
           w == IF v = 16 THEN 640 ELSE 600
           h == IF v = 16 THEN 400 ELSE 448
           n == (w * h) \div 2
           a0 == << Reset, Settle >>
           a2 == Cmds(P, <<0, 1, 48, 65, 80, 96, 101, 227, 3>>)
           b1 == Single(8, w, h)
           b2 == << Cmd(P, PON), Settle, Cmd(P, DRF), Wait(FALSE), PowerOff(P), Settle >>
<1>0. P \in SUBSET P /\ 8 \in P
  OBVIOUS
<1>3. /\ w \in Nat /\ h \in Nat /\ w \div 2 \in Nat /\ "all" \in {"all", "left", "right"}
      /\ (w * h) \div 2 = n /\ (w \div 2) * h = n
  OBVIOUS
<1>1. Part(P, a0, 2)
  BY GoodReset DEF Pauses, Good, Part
<1>2. Part(P, a2, 9) /\ Quiet(a2, 8)
  <2>1. /\ <<0, 1, 48, 65, 80, 96, 101, 227, 3>> \in Seq(Nat \ {PON, POF, DRF, TRES})
        /\ Len(<<0, 1, 48, 65, 80, 96, 101, 227, 3>>) = 9
    BY DEF PON, POF, DRF, TRES
  <2> QED
    BY <1>0, <2>1, QuietCmds, ZenonT(60)
<1>4. Part(P, b1, 3)
  BY <1>0, <1>3, StreamCalls DEF Single
<1>5. /\ Part(P, b2, 6) /\ Refreshed(b2, 8, 1, 3)
      /\ \A k \in 1..Len(b2) : ~Resizes(b2[k], 8) /\ ~Begins(b2[k], 8)
  <2>1. b2 \in Seq(Items(P))
    BY GoodTail DEF Pauses, Good
  <2>2. /\ Refreshed(b2, 8, 1, 3) /\ Len(b2) = 6
        /\ \A k \in 1..Len(b2) : ~Resizes(b2[k], 8) /\ ~Begins(b2[k], 8)
    BY <1>0, TailRefreshes DEF Pauses
  <2> HIDE DEF b2
  <2> QED
    BY <2>1, <2>2 DEF Part
<1>6. Uc8159(v) = << Reset, Settle, Res(P, w, h) >> \o a2 \o b1 \o b2
  BY DEF Uc8159
<1>7. << Reset, Settle, Res(P, w, h) >> = a0 \o << Res(P, w, h) >>
  OBVIOUS
<1> HIDE DEF P, w, h, n, a0, a2, b2
<1> DEFINE c2 == a0 \o << Res(P, w, h) >>
           c3 == c2 \o a2
           c4 == c3 \o b1
<1>10. Part(P, c2, 3) /\ Told(c2, 8, n)
  <2>1. Part(P, c2, 2 + 1) /\ Told(c2, 8, n)
    BY <1>0, <1>1, <1>3, ToldBy
  <2> QED
    BY <2>1
<1>11. Uc8159(v) = c4 \o b2
  BY <1>6, <1>7
<1> HIDE DEF c2
<1>12. Part(P, c3, 12) /\ Told(c3, 8, n)
  <2>1. Part(P, c3, 3 + 9)
    BY <1>2, <1>10, Calls
  <2>2. Told(c3, 8, n)
    BY <1>2, <1>10, ToldOn
  <2> QED
    BY <2>1, <2>2
<1> HIDE DEF c3
<1>13. Part(P, c4, 15) /\ Loaded(c4, 8, Whole(w, h))
  <2>1. Part(P, c4, 12 + 3)
    <3> HIDE DEF b1
    <3> QED
      BY <1>4, <1>12, Calls
  <2>2. Loaded(c4, 8, Whole(w, h))
    <3> DEFINE half == w \div 2
    <3>1. half \in Nat /\ half * h = n
      BY <1>3
    <3>2. Whole(w, h) = [op |-> "write", part |-> "all", stride |-> half, rows |-> h]
          /\ c4 = c3 \o Stream(8, "all", half, h)
      BY DEF Whole, Single
    <3> HIDE DEF half, c4
    <3> QED
      BY <1>0, <1>3, <1>12, <3>1, <3>2, LoadedBy
  <2> QED
    BY <2>1, <2>2
<1> HIDE DEF c4
<1>14. Part(P, c4 \o b2, 15 + 6)
  BY <1>5, <1>13, Calls
<1>15. Planned(c4 \o b2, 8, Whole(w, h))
  BY <1>5, <1>13, PlannedBy
<1>16. Planned(Uc8159(v), 8, Whole(w, h)) /\ Part(P, Uc8159(v), 21)
  BY <1>11, <1>14, <1>15
<1> QED
  BY <1>16 DEF w, h, P

\* panels.c:260-273: the two panels that it drives.
LEMMA Spectra6SmallPlanned ==
    ASSUME inky_frame \in BOOLEAN
    PROVE  /\ Planned(Spectra6Small(800, 480, 800, 480, PsrRewrite), small, Whole(800, 480))
           /\ Part({small}, Spectra6Small(800, 480, 800, 480, PsrRewrite), 27)
           /\ Planned(Spectra6Small(600, 400, 400, 600, <<>>), small, Whole(600, 400))
           /\ Part({small}, Spectra6Small(600, 400, 400, 600, <<>>), 25)
<1> DEFINE wait == Wait(inky_frame)
           cs   == small
           ready == Ready
           body(w, h, tw, th) == SpectraCalls(cs, ready, wait, w, h, tw, th)
           r == << Cmd({cs}, 0), ready >>
           twice == Spectra6Small(800, 480, 800, 480, PsrRewrite)
           once  == Spectra6Small(600, 400, 400, 600, <<>>)
<1>1. ready \in Pauses /\ wait \in {Wait(TRUE), Wait(FALSE)}
  <2>1. CASE inky_frame = TRUE
    BY <2>1 DEF Pauses, Ready
  <2>2. CASE inky_frame = FALSE
    BY <2>2 DEF Pauses, Ready
  <2> QED
    BY <2>1, <2>2
<1>2. twice = body(800, 480, 800, 480) \o r
  BY DEF Spectra6Small, SpectraCalls, PsrRewrite
<1>3. once = body(600, 400, 400, 600) \o <<>>
  BY DEF Spectra6Small, SpectraCalls
<1> HIDE DEF wait, cs, ready, twice, once
<1>4. Planned(body(800, 480, 800, 480) \o r, cs, Whole(800, 480))
      /\ Part({cs}, body(800, 480, 800, 480) \o r, 27)
  <2> DEFINE w == 800
             h == 480
             n == 192000
  <2>1. w \in Nat /\ h \in Nat /\ (w * h) \div 2 = n /\ (w \div 2) * h = n
    OBVIOUS
  <2> HIDE DEF w, h, n
  <2>2. Planned(body(w, h, w, h) \o r, cs, Whole(w, h)) /\ Part({cs}, body(w, h, w, h) \o r, 27)
    BY <1>1, <2>1, SpectraPlanned
  <2> QED
    BY <2>2 DEF w, h
<1>5. Planned(body(600, 400, 400, 600), cs, Whole(600, 400))
      /\ Part({cs}, body(600, 400, 400, 600), 25)
  <2> DEFINE w == 600
             h == 400
             n == 120000
  <2>1. /\ w \in Nat /\ h \in Nat /\ (w * h) \div 2 = n /\ (w \div 2) * h = n
        /\ (h * w) \div 2 = n
    OBVIOUS
  <2> HIDE DEF w, h, n
  <2>2. Planned(body(w, h, h, w), cs, Whole(w, h)) /\ Part({cs}, body(w, h, h, w), 25)
    BY <1>1, <2>1, SpectraPlanned
  <2> QED
    BY <2>2 DEF w, h
<1> HIDE DEF body
<1>6. body(600, 400, 400, 600) \o <<>> = body(600, 400, 400, 600)
  <2>1. body(600, 400, 400, 600) \in Seq(Items({cs}))
    BY <1>5 DEF Part
  <2> QED
    BY <2>1, ConcatEmptySeq
<1>7. Planned(twice, cs, Whole(800, 480)) /\ Part({cs}, twice, 27)
  BY <1>2, <1>4
<1>8. Planned(once, cs, Whole(600, 400)) /\ Part({cs}, once, 25)
  BY <1>3, <1>5, <1>6
<1> QED
  BY <1>7, <1>8 DEF cs, twice, once

\* What the controller of pin p is to show when panel v is painted.
Portion(v, p) == IF v \in {21, 27} THEN HalfOf(IF p = 26 THEN "left" ELSE "right")
                 ELSE IF v \in {20, 22, 26} THEN Whole(800, 480)
                 ELSE IF v = 25 THEN Whole(600, 400)
                 ELSE Whole(IF v = 16 THEN 640 ELSE 600, IF v = 16 THEN 400 ELSE 448)

\* panels.c:385-411: every driver of the registry shows the whole frame, in 35 calls or less.
LEMMA DriverPlanned ==
    ASSUME inky_frame \in BOOLEAN, NEW v, Supported(v)
    PROVE  /\ \A p \in PinsOf(v) : Planned(Driver(v), p, Portion(v, p))
           /\ Len(Driver(v)) \in 0..35
<1>1. CASE v \in {21, 27} /\ PinsOf(v) = {26, 16} /\ Driver(v) = El133
  BY <1>1, El133Planned DEF Portion
<1>2. CASE /\ v \in {22, 26} /\ PinsOf(v) = {small}
           /\ Driver(v) = Spectra6Small(800, 480, 800, 480, PsrRewrite)
  BY <1>2, Spectra6SmallPlanned DEF Portion, Part
<1>3. CASE /\ v = 25 /\ PinsOf(v) = {small}
           /\ Driver(v) = Spectra6Small(600, 400, 400, 600, <<>>)
  BY <1>3, Spectra6SmallPlanned DEF Portion, Part
<1>4. CASE v = 20 /\ PinsOf(v) = {8} /\ Driver(v) = Ac073
  BY <1>4, Ac073Planned DEF Portion, Part
<1>5. CASE v \in {14, 15, 16} /\ PinsOf(v) = {8} /\ Driver(v) = Uc8159(v)
  BY <1>5, Uc8159Planned DEF Portion, Part
<1> QED
  BY <1>1, <1>2, <1>3, <1>4, <1>5, DriverIs

\* panels.c:385-411, panels.h:24: that is the part that belongs on the glass, and all rows of
\* it are as long as the descriptor's but on the UC8159.
LEMMA PortionIsRight ==
    ASSUME NEW v, Supported(v), NEW p \in PinsOf(v)
    PROVE  /\ Portion(v, p).part = (CASE p = 26 -> "left" [] p = 16 -> "right" [] OTHER -> "all")
           /\ v \notin k_uc8159.variants => Native(Panel(v), Portion(v, p))
<1>1. /\ k_el133.variants = {21, 27} /\ k_e673.variants = {22, 26} /\ k_e640.variants = {25}
      /\ k_ac073.variants = {20} /\ k_uc8159.variants = {14, 15, 16}
  BY DEF k_el133, k_e673, k_e640, k_ac073, k_uc8159
<1>2. \A k \in k_panels : k = k_el133 \/ k = k_e673 \/ k = k_e640 \/ k = k_ac073 \/ k = k_uc8159
  BY DEF k_panels
<1>3. Panel(v) \in k_panels /\ v \in Panel(v).variants
  BY DEF Supported, Panel
<1>4. small \in {17, 8}
  BY DEF small
<1>5. CASE v \in {21, 27} /\ PinsOf(v) = {26, 16}
  <2>1. Panel(v) = k_el133
    BY <1>1, <1>2, <1>3, <1>5
  <2>2. p = 26 \/ p = 16
    BY <1>5
  <2> QED
    BY <1>5, <2>1, <2>2 DEF Portion, HalfOf, Native
<1>6. CASE v \in {20, 22, 26} /\ PinsOf(v) \in {{small}, {8}}
  <2>1. Panel(v) = k_e673 \/ Panel(v) = k_ac073
    BY <1>1, <1>2, <1>3, <1>6
  <2>2. Panel(v).width = 800 /\ Panel(v).height = 480 /\ Panel(v) # k_el133
    BY <2>1 DEF k_e673, k_ac073, k_el133
  <2>3. p \notin {26, 16} /\ v \notin {21, 27}
    BY <1>4, <1>6
  <2> QED
    BY <1>6, <2>2, <2>3 DEF Portion, Whole, Native
<1>7. CASE v = 25 /\ PinsOf(v) = {small}
  <2>1. Panel(v) = k_e640
    BY <1>1, <1>2, <1>3, <1>7
  <2>2. Panel(v).width = 600 /\ Panel(v).height = 400 /\ Panel(v) # k_el133
    BY <2>1 DEF k_e640, k_el133
  <2>3. p \notin {26, 16}
    BY <1>4, <1>7
  <2> QED
    BY <1>7, <2>2, <2>3 DEF Portion, Whole, Native
<1>8. CASE v \in {14, 15, 16} /\ PinsOf(v) = {8}
  <2>1. p \notin {26, 16} /\ v \in k_uc8159.variants
    BY <1>1, <1>8
  <2> QED
    BY <1>8, <2>1 DEF Portion, Whole
<1> QED
  BY <1>5, <1>6, <1>7, <1>8, DriverIs

-----------------------------------------------------------------------------
(* What the controllers hold, call by call. *)

\* The part w of frame number of.
Painted(of, w) == Picture(of, w.part, w.stride, w.rows)

\* A controller x that is at call k of such a plan.
Agrees(of, w, a, f, c, e, k, x) ==
    /\ k > a => x.size = w.stride * w.rows
    /\ k > f + 1 => x.ram = Painted(of, w)
    /\ k \in (c + 1)..e => x.on
    /\ k > e => x.busy = "refresh" \/ x.glass = Painted(of, w)

\* What call k of s makes of the controller x of p when it answers in time.
Moves(s, p, of, k, x, y) ==
    /\ ~Resizes(s[k], p) => y.size = x.size
    /\ Orders(s[k], TRES, p) => y.size = s[k].arg
    /\ s[k].op = "write" /\ Begins(s[k - 1], p) => y.ram = Painted(of, s[k])
    /\ ~(s[k].op = "write" /\ Begins(s[k - 1], p)) => y.ram = x.ram
    /\ Orders(s[k], PON, p) => y.on
    /\ x.on /\ ~Orders(s[k], POF, p) => y.on
    /\ Orders(s[k], DRF, p) /\ x.on => y.busy = "refresh"
    /\ ~Orders(s[k], DRF, p) => y.glass = x.glass
    /\ ~Orders(s[k], DRF, p) /\ x.busy = "refresh" => y.busy = "refresh"
    /\ y.busy = "refresh" => x.busy = "refresh" \/ Orders(s[k], DRF, p)

\* panels.c: call by call the controller gets what it is to show.
LEMMA AgreesNext ==
    ASSUME NEW s, NEW p, NEW of, NEW w, NEW a, NEW f, NEW c, NEW e, NEW k \in 1..Len(s),
           NEW x, NEW y, Len(s) \in Nat, Plan(s, p, w, a, f, c, e), Moves(s, p, of, k, x, y),
           Agrees(of, w, a, f, c, e, k, x)
    PROVE  Agrees(of, w, a, f, c, e, k + 1, y)
<1>1. /\ a \in 1..Len(s) /\ Orders(s[a], TRES, p) /\ s[a].arg = w.stride * w.rows
      /\ \A i \in (a + 1)..Len(s) : ~Resizes(s[i], p)
  BY DEF Plan, Sized
<1>2. /\ f \in 1..Len(s) /\ Begins(s[f], p) /\ s[f + 1] = w /\ w.op = "write"
      /\ \A i \in (f + 1)..Len(s) : ~Begins(s[i], p)
  BY DEF Plan, Filled
<1>3. /\ c \in 1..Len(s) /\ e \in 1..Len(s) /\ c < e
      /\ Orders(s[c], PON, p) /\ (\A i \in c..e : ~Orders(s[i], POF, p))
      /\ Orders(s[e], DRF, p) /\ (\A i \in (e + 1)..Len(s) : ~Orders(s[i], DRF, p))
  BY DEF Plan, Refreshed
<1>4. ASSUME k + 1 > a PROVE y.size = w.stride * w.rows
  <2>1. k = a \/ k > a
    BY <1>1, <1>4
  <2>2. CASE k = a
    BY <1>1, <2>2 DEF Moves
  <2>3. CASE k > a
    <3>1. k \in (a + 1)..Len(s)
      BY <1>1, <2>3
    <3>2. y.size = x.size
      BY <1>1, <3>1 DEF Moves
    <3> QED
      BY <2>3, <3>2 DEF Agrees
  <2> QED
    BY <2>1, <2>2, <2>3
<1>5. ASSUME k + 1 > f + 1 PROVE y.ram = Painted(of, w)
  <2>1. k = f + 1 \/ k > f + 1
    BY <1>2, <1>5
  <2>2. CASE k = f + 1
    <3>1. k - 1 = f
      BY <1>2, <2>2
    <3>2. s[k].op = "write" /\ Begins(s[k - 1], p) /\ s[k] = w
      BY <1>2, <2>2, <3>1
    <3> QED
      BY <3>2 DEF Moves
  <2>3. CASE k > f + 1
    <3>1. k - 1 \in (f + 1)..Len(s)
      BY <1>2, <2>3
    <3>2. ~Begins(s[k - 1], p)
      BY <1>2, <3>1
    <3>3. y.ram = x.ram
      BY <3>2 DEF Moves
    <3> QED
      BY <2>3, <3>3 DEF Agrees
  <2> QED
    BY <2>1, <2>2, <2>3
<1>6. ASSUME k + 1 \in (c + 1)..e PROVE y.on
  <2>1. k = c \/ k \in (c + 1)..e
    BY <1>3, <1>6
  <2>2. k \in c..e
    BY <1>3, <1>6
  <2>3. CASE k = c
    BY <1>3, <2>3 DEF Moves
  <2>4. CASE k \in (c + 1)..e
    <3>1. x.on
      BY <2>4 DEF Agrees
    <3>2. ~Orders(s[k], POF, p)
      BY <1>3, <2>2
    <3> QED
      BY <3>1, <3>2 DEF Moves
  <2> QED
    BY <2>1, <2>3, <2>4
<1>7. ASSUME k + 1 > e PROVE y.busy = "refresh" \/ y.glass = Painted(of, w)
  <2>1. k = e \/ k > e
    BY <1>3, <1>7
  <2>2. CASE k = e
    <3>1. k \in (c + 1)..e
      BY <1>3, <2>2
    <3>2. x.on
      BY <3>1 DEF Agrees
    <3> QED
      BY <1>3, <2>2, <3>2 DEF Moves
  <2>3. CASE k > e
    <3>1. k \in (e + 1)..Len(s)
      BY <1>3, <2>3
    <3>2. ~Orders(s[k], DRF, p)
      BY <1>3, <3>1
    <3>3. x.busy = "refresh" \/ x.glass = Painted(of, w)
      BY <2>3 DEF Agrees
    <3> QED
      BY <3>2, <3>3 DEF Moves
  <2> QED
    BY <2>1, <2>2, <2>3
<1> QED
  BY <1>4, <1>5, <1>6, <1>7 DEF Agrees

\* What the calls of a paint do while no wait of it was late.
OnPlan == InTime =>
    \A p \in PinsOf(variant), a, f, c, e \in 1..Len(Driver(variant)) :
        Plan(Driver(variant), p, Portion(variant, p), a, f, c, e) =>
            Agrees(image, Portion(variant, p), a, f, c, e, pc, ctl[p])

\* The stream that is written to was begun by the call before, and its controller listens.
Streaming == InTime /\ Call.op = "write" =>
    Begins(Driver(variant)[pc - 1], s_dtm_cs) /\ s_dtm_cs \in Pins /\ ctl[s_dtm_cs].data

\* Between the paints the glass shows the last one.
Showing == stage = "idle" /\ clean =>
    /\ Supported(variant)
    /\ \A p \in PinsOf(variant) : /\ ctl[p].busy # "refresh"
                                  /\ ctl[p].glass = Painted(image, Portion(variant, p))

ShownInv == OnPlan /\ Streaming /\ Showing

\* A step of a driver, other than its reset, that is in time or after a late one.
LEMMA StepShows ==
    ASSUME PanelInv, OnPlan, stage = "paint", Call.op # "reset", Typed',
           NEW slow \in BOOLEAN, NEW giveup \in BOOLEAN, Advance(slow, giveup),
           slow = FALSE => /\ late = FALSE /\ giveup = FALSE
                           /\ \A p \in Pins : Moves(Driver(variant), p, image, pc, ctl[p], ctl'[p])
                           /\ Call.op = "wait" => \A p \in Pins : ctl[p].busy = "no"
    PROVE  OnPlan' /\ Showing'
<1> DEFINE D == Driver(variant)
           P == PinsOf(variant)
<1>1. /\ D' = D /\ P' = P /\ Placed' /\ late' = slow
      /\ \/ /\ stage' = "idle" /\ clean' = ~slow
            /\ giveup \/ (pc = Len(D) /\ Restful(Call))
         \/ stage' = "paint" /\ pc' = pc + 1
  BY AdvanceTo DEF PanelInv
<1>2. Len(D) \in Nat /\ pc \in 1..Len(D) /\ Call = D[pc] /\ P \subseteq Pins
  BY CallOf, PinsArePins DEF PanelInv
<1>3. variant' = variant /\ image' = image /\ inky_frame' = inky_frame
  BY DEF Advance
<1>4. Supported(variant) /\ Supported(variant)' = Supported(variant)
  BY <1>3, DriverStays DEF PanelInv, Placed
<1>5. \A p : Portion(variant, p)' = Portion(variant, p)
  BY <1>3 DEF Portion, HalfOf, Whole
<1>6. CASE slow = TRUE
  <2>1. late' = TRUE /\ ~(stage' = "idle" /\ clean')
    BY <1>1, <1>6
  <2> QED
    BY <2>1 DEF OnPlan, InTime, Showing
<1>7. CASE slow = FALSE
  <2>1. /\ InTime /\ \A p \in Pins : Moves(D, p, image, pc, ctl[p], ctl'[p])
        /\ Call.op = "wait" => \A p \in Pins : ctl[p].busy = "no"
    BY <1>7 DEF InTime
  <2>2. ASSUME NEW p \in P, NEW a \in 1..Len(D), NEW f \in 1..Len(D), NEW c \in 1..Len(D),
               NEW e \in 1..Len(D), Plan(D, p, Portion(variant, p), a, f, c, e)
        PROVE  Agrees(image, Portion(variant, p), a, f, c, e, pc + 1, ctl'[p])
    <3>1. Agrees(image, Portion(variant, p), a, f, c, e, pc, ctl[p])
      BY <2>1, <2>2 DEF OnPlan
    <3>2. Moves(D, p, image, pc, ctl[p], ctl'[p])
      BY <1>2, <2>1
    <3> HIDE DEF D
    <3> QED
      BY <1>2, <2>2, <3>1, <3>2, AgreesNext
  <2> HIDE DEF D, P
  <2>3. CASE stage' = "paint"
    <3>1. pc' = pc + 1
      BY <1>1, <2>3
    <3>2. OnPlan'
      BY <1>1, <1>3, <1>5, <2>2, <3>1 DEF OnPlan, D, P
    <3> QED
      BY <2>3, <3>2 DEF Showing
  <2>4. CASE stage' = "idle"
    <3>1. pc = Len(D) /\ Restful(Call)
      BY <1>1, <1>7, <2>4
    <3>2. ASSUME NEW p \in P
          PROVE  ctl'[p].busy # "refresh" /\ ctl'[p].glass = Painted(image, Portion(variant, p))
      <4>1. Moves(D, p, image, pc, ctl[p], ctl'[p]) /\ p \in Pins
        BY <1>2, <2>1
      <4>2. ctl'[p].busy # "refresh"
        <5>1. ~Orders(D[pc], DRF, p)
          BY <1>2, <3>1 DEF Restful, Orders
        <5>2. ctl[p].busy # "refresh"
          BY <2>1, <4>1 DEF PanelInv, Awaited
        <5> QED
          BY <4>1, <5>1, <5>2 DEF Moves
      <4>3. PICK a, f, c, e \in 1..Len(D) : Plan(D, p, Portion(variant, p), a, f, c, e)
        BY <1>4, DriverPlanned DEF D, P, PanelInv, Typed, Planned
      <4>4. Agrees(image, Portion(variant, p), a, f, c, e, pc + 1, ctl'[p])
        BY <2>2, <4>3
      <4>5. pc + 1 > e
        BY <1>2, <3>1, <4>3
      <4> QED
        BY <4>2, <4>4, <4>5 DEF Agrees
    <3>3. Showing'
      BY <1>1, <1>3, <1>4, <1>5, <3>2 DEF Showing, P
    <3>4. OnPlan'
      BY <2>4 DEF OnPlan, InTime
    <3> QED
      BY <3>3, <3>4
  <2> QED
    BY <1>1, <2>3, <2>4
<1> QED
  BY <1>6, <1>7

\* epd_io.c: what else a controller makes of a command.
LEMMA ObeyedToo ==
    ASSUME NEW c \in Ctl, NEW code \in Nat, NEW arg \in Nat
    PROVE  LET o == Obey(c, code, arg)
           IN /\ code # TRES => o.size = c.size
              /\ code = TRES => o.size = arg
              /\ o.ram = c.ram
              /\ code = PON => o.on
              /\ c.on /\ code # POF => o.on
              /\ code = DRF /\ c.on => o.busy = "refresh"
              /\ code # DRF => o.glass = c.glass
              /\ o.busy = "refresh" => c.busy = "refresh" \/ code = DRF
              /\ code = DTM => o.data
<1> USE DEF PON, POF, DTM, DRF, TRES
<1> DEFINE o == Obey(c, code, arg)
<1>1. CASE code = PON
  <2>1. o = [c EXCEPT !.on = TRUE, !.busy = "power", !.data = FALSE]
    BY <1>1 DEF Obey
  <2> HIDE DEF o
  <2>2. /\ o.size = c.size /\ o.ram = c.ram /\ o.on = TRUE /\ o.busy = "power"
        /\ o.glass = c.glass
    BY <2>1 DEF Ctl
  <2> QED
    BY <1>1, <2>2 DEF o
<1>2. CASE code = POF
  <2>1. o = [c EXCEPT !.on = FALSE, !.busy = "power", !.data = FALSE]
    BY <1>2 DEF Obey
  <2> HIDE DEF o
  <2>2. o.size = c.size /\ o.ram = c.ram /\ o.busy = "power" /\ o.glass = c.glass
    BY <2>1 DEF Ctl
  <2> QED
    BY <1>2, <2>2 DEF o
<1>3. CASE code = DRF /\ c.on
  <2>1. o = [c EXCEPT !.busy = "refresh", !.glass = Torn, !.data = FALSE]
    BY <1>3 DEF Obey
  <2> HIDE DEF o
  <2>2. o.size = c.size /\ o.ram = c.ram /\ o.on = c.on /\ o.busy = "refresh"
    BY <2>1 DEF Ctl
  <2>3. code = DRF
    BY <1>3
  <2> QED
    BY <2>2, <2>3 DEF o
<1>4. CASE code = TRES
  <2>1. o = [c EXCEPT !.size = arg, !.data = FALSE]
    BY <1>4 DEF Obey
  <2> HIDE DEF o
  <2>2. /\ o.size = arg /\ o.ram = c.ram /\ o.on = c.on /\ o.busy = c.busy /\ o.glass = c.glass
    BY <2>1 DEF Ctl
  <2> QED
    BY <1>4, <2>2 DEF o
<1>5. CASE code = DTM
  <2>1. o = [c EXCEPT !.data = TRUE]
    BY <1>5 DEF Obey
  <2> HIDE DEF o
  <2>2. /\ o.size = c.size /\ o.ram = c.ram /\ o.on = c.on /\ o.busy = c.busy
        /\ o.glass = c.glass /\ o.data = TRUE
    BY <2>1 DEF Ctl
  <2> QED
    BY <1>5, <2>2 DEF o
<1>6. CASE code \notin {PON, POF, DTM, TRES} /\ ~(code = DRF /\ c.on)
  <2>1. o = [c EXCEPT !.data = FALSE]
    BY <1>6 DEF Obey
  <2> HIDE DEF o
  <2>2. /\ o.size = c.size /\ o.ram = c.ram /\ o.on = c.on /\ o.busy = c.busy
        /\ o.glass = c.glass
    BY <2>1 DEF Ctl
  <2> QED
    BY <1>6, <2>2 DEF o
<1> QED
  BY <1>1, <1>2, <1>3, <1>4, <1>5, <1>6

\* A call that leaves a controller as it is, or only marks that data follow.
LEMMA MovesNot ==
    ASSUME NEW s, NEW p, NEW of, NEW k, NEW x, NEW y,
           s[k].op \notin {"reset", "command", "write"},
           y.size = x.size, y.ram = x.ram, y.on = x.on, y.glass = x.glass,
           x.busy = "refresh" <=> y.busy = "refresh"
    PROVE  Moves(s, p, of, k, x, y)
BY DEF Moves, Resizes, Orders

\* epd_command.
LEMMA CommandMoves ==
    ASSUME PanelInv, PaintCommand, late = FALSE, NEW p \in Pins
    PROVE  Moves(Driver(variant), p, image, pc, ctl[p], ctl'[p])
<1>1. stage = "paint" /\ Call.op = "command" /\ Command(Call.to, Call.code, Call.arg)
  BY DEF PaintCommand, At, Call
<1>2. /\ ctl \in [Pins -> Ctl] /\ asserted = {} /\ Call = Driver(variant)[pc]
      /\ (\A q \in Pins : ctl[q].busy = "no") /\ Call \in Items(PinsOf(variant))
  BY <1>1, Before
<1> DEFINE cmd == Call
           s == Driver(variant)
           x == ctl[p]
           y == ctl'[p]
<1>3. cmd.code \in Nat /\ cmd.arg \in Nat /\ cmd.op = "command" /\ cmd = s[pc]
  <2>1. cmd \in Items(PinsOf(variant)) /\ cmd.op = "command"
    BY <1>1, <1>2
  <2>2. cmd = s[pc]
    BY <1>2
  <2> HIDE DEF cmd
  <2> QED
    BY <2>1, <2>2 DEF Items
<1>4. Hear(cmd.to, cmd.code, cmd.arg)
  <2>1. asserted \cup cmd.to = cmd.to
    BY <1>2
  <2> QED
    BY <1>1, <2>1 DEF Command
<1> HIDE DEF cmd, s
<1>5. /\ p \notin cmd.to => y = x
      /\ p \in cmd.to => y = Obey(x, cmd.code, cmd.arg)
  <2> DEFINE to == cmd.to
             code == cmd.code
             arg == cmd.arg
  <2>1. ctl \in [Pins -> Ctl] /\ code \in Nat /\ arg \in Nat /\ Hear(to, code, arg)
    BY <1>2, <1>3, <1>4
  <2> HIDE DEF to, code, arg
  <2>2. /\ \A q \in Pins : q \notin to => ctl'[q] = ctl[q]
        /\ (\A q \in Pins : ctl[q].busy = "no") =>
              \A q \in Pins : q \in to => ctl'[q] = Obey(ctl[q], code, arg)
    BY <2>1, Heard
  <2> QED
    BY <1>2, <2>2 DEF to, code, arg
<1>6. x \in Ctl /\ x.busy = "no"
  BY <1>2
<1> HIDE DEF x, y
<1>7. ~(s[pc].op = "write" /\ Begins(s[pc - 1], p)) /\ s[pc].op # "reset"
  BY <1>3
<1>8. CASE p \notin cmd.to
  <2>1. y = x /\ \A code : ~Orders(s[pc], code, p)
    BY <1>3, <1>5, <1>8 DEF Orders
  <2> QED
    BY <1>6, <1>7, <2>1 DEF Moves, Resizes, x, y, s
<1>9. CASE p \in cmd.to
  <2> DEFINE o == Obey(x, cmd.code, cmd.arg)
  <2>1. y = o /\ \A code : Orders(s[pc], code, p) <=> cmd.code = code
    BY <1>3, <1>5, <1>9 DEF Orders
  <2>2. /\ cmd.code # TRES => o.size = x.size
        /\ cmd.code = TRES => o.size = cmd.arg
        /\ o.ram = x.ram
        /\ cmd.code = PON => o.on
        /\ x.on /\ cmd.code # POF => o.on
        /\ cmd.code = DRF /\ x.on => o.busy = "refresh"
        /\ cmd.code # DRF => o.glass = x.glass
        /\ o.busy = "refresh" => x.busy = "refresh" \/ cmd.code = DRF
    BY <1>3, <1>6, ObeyedToo
  <2> HIDE DEF o
  <2>3. Moves(s, p, image, pc, x, y)
    BY <1>3, <1>6, <1>7, <2>1, <2>2 DEF Moves, Resizes
  <2> QED
    BY <2>3 DEF s, x, y
<1> QED
  BY <1>8, <1>9

\* epd_dtm_begin: nothing but that data follow; and then that is what the controller expects.
LEMMA BeginMoves ==
    ASSUME PanelInv, PaintBegin, late = FALSE
    PROVE  /\ \A p \in Pins : Moves(Driver(variant), p, image, pc, ctl[p], ctl'[p])
           /\ Begins(Driver(variant)[pc], s_dtm_cs') /\ s_dtm_cs' \in Pins
           /\ ctl'[s_dtm_cs'].data
<1>1. stage = "paint" /\ Call.op = "begin" /\ DtmBegin(Call.pin)
  BY DEF PaintBegin, At, Call
<1>2. /\ ctl \in [Pins -> Ctl] /\ asserted = {} /\ Call = Driver(variant)[pc]
      /\ (\A q \in Pins : ctl[q].busy = "no") /\ Call \in Items(PinsOf(variant))
  BY <1>1, Before
<1> DEFINE pin == Call.pin
<1>3. pin \in Pins
  <2> DEFINE c == Call
  <2>1. c \in Items(PinsOf(variant)) /\ c.op = "begin"
    BY <1>1, <1>2
  <2> HIDE DEF c
  <2>2. c \in [op: {"begin"}, pin: PinsOf(variant)]
    BY <2>1 DEF Items
  <2>3. c.pin \in PinsOf(variant)
    BY <2>2
  <2> QED
    BY <2>3, PinsArePins DEF c
<1>4. Hear({pin}, DTM, 0) /\ s_dtm_cs' = pin
  <2>1. asserted \cup {pin} = {pin}
    BY <1>2
  <2> QED
    BY <1>1, <2>1 DEF DtmBegin
<1>5. Begins(Driver(variant)[pc], pin)
  BY <1>1, <1>2 DEF Begins
<1> HIDE DEF pin
<1>6. DTM \in Nat /\ 0 \in Nat /\ DTM \notin {PON, POF, DRF, TRES}
  BY DEF DTM, PON, POF, DRF, TRES
<1>7. \A p \in Pins : /\ p # pin => ctl'[p] = ctl[p]
                      /\ p = pin => ctl'[p] = Obey(ctl[p], DTM, 0)
  <2> DEFINE to == {pin}
  <2>1. Hear(to, DTM, 0)
    BY <1>4
  <2> HIDE DEF to
  <2>2. /\ \A q \in Pins : q \notin to => ctl'[q] = ctl[q]
        /\ (\A q \in Pins : ctl[q].busy = "no") =>
              \A q \in Pins : q \in to => ctl'[q] = Obey(ctl[q], DTM, 0)
    BY <1>2, <1>6, <2>1, Heard
  <2> QED
    BY <1>2, <2>2 DEF to
<1>8. ASSUME NEW p \in Pins PROVE Moves(Driver(variant), p, image, pc, ctl[p], ctl'[p])
  <2> DEFINE x == ctl[p]
             y == ctl'[p]
             o == Obey(x, DTM, 0)
  <2>1. x \in Ctl /\ x.busy = "no" /\ (y = x \/ y = o)
    BY <1>2, <1>7
  <2>2. Driver(variant)[pc].op \notin {"reset", "command", "write"}
    BY <1>1, <1>2
  <2> HIDE DEF x, y
  <2>3. o.size = x.size /\ o.ram = x.ram /\ o.glass = x.glass
        /\ (o.busy = "refresh" => x.busy = "refresh")
    BY <1>6, <2>1, ObeyedToo
  <2>4. o.on = x.on
    BY <1>6, <2>1, Obeyed
  <2> HIDE DEF o
  <2>5. y.size = x.size /\ y.ram = x.ram /\ y.glass = x.glass /\ y.on = x.on
        /\ (x.busy = "refresh" <=> y.busy = "refresh")
    BY <2>1, <2>3, <2>4
  <2>6. Moves(Driver(variant), p, image, pc, x, y)
    BY <2>2, <2>5, MovesNot
  <2> QED
    BY <2>6 DEF x, y
<1>9. ctl'[pin].data
  <2> DEFINE x == ctl[pin]
  <2>1. x \in Ctl /\ ctl'[pin] = Obey(x, DTM, 0)
    BY <1>2, <1>3, <1>7
  <2> HIDE DEF x
  <2> QED
    BY <1>6, <2>1, ObeyedToo
<1> QED
  BY <1>3, <1>4, <1>5, <1>8, <1>9

\* epd_dtm_write: the controller whose stream it is takes the bytes, and no other.
LEMMA WriteMoves ==
    ASSUME PanelInv, Streaming, PaintWrite, late = FALSE, NEW p \in Pins
    PROVE  Moves(Driver(variant), p, image, pc, ctl[p], ctl'[p])
<1> DEFINE picture == Picture(image, Call.part, Call.stride, Call.rows)
<1>1. stage = "paint" /\ Call.op = "write" /\ DtmWrite(picture)
  BY DEF PaintWrite, At, Call
<1>2. /\ ctl \in [Pins -> Ctl] /\ asserted = {s_dtm_cs} /\ Call = Driver(variant)[pc] /\ InTime
  BY <1>1, Before
<1>3. /\ Begins(Driver(variant)[pc - 1], s_dtm_cs) /\ s_dtm_cs \in Pins /\ ctl[s_dtm_cs].data
  BY <1>1, <1>2 DEF Streaming
<1>4. picture = Painted(image, Driver(variant)[pc])
  BY <1>2 DEF Painted
<1>5. Begins(Driver(variant)[pc - 1], p) <=> p = s_dtm_cs
  BY <1>3 DEF Begins
<1> DEFINE s == Driver(variant)
           x == ctl[p]
           y == ctl'[p]
<1> HIDE DEF picture
<1>6. /\ x \in Ctl
      /\ p = s_dtm_cs => y = [x EXCEPT !.ram = picture]
      /\ p # s_dtm_cs => y = x
  BY <1>1, <1>2, <1>3 DEF DtmWrite
<1>7. s[pc].op = "write" /\ \A code : ~Orders(s[pc], code, p) /\ ~Resizes(s[pc], p)
  BY <1>1, <1>2 DEF Orders, Resizes
<1> HIDE DEF x, y, s
<1>8. /\ y.size = x.size /\ y.on = x.on /\ y.busy = x.busy /\ y.glass = x.glass
      /\ p = s_dtm_cs => y.ram = picture
      /\ p # s_dtm_cs => y.ram = x.ram
  BY <1>6 DEF Ctl
<1>9. (s[pc].op = "write" /\ Begins(s[pc - 1], p)) <=> p = s_dtm_cs
  BY <1>5, <1>7 DEF s
<1>10. picture = Painted(image, s[pc])
  BY <1>4 DEF s
<1>11. Moves(s, p, image, pc, x, y)
  BY <1>7, <1>8, <1>9, <1>10 DEF Moves
<1> QED
  BY <1>11 DEF s, x, y

\* A call that does not begin a stream leads to none that is written to.
LEMMA NotStreaming ==
    ASSUME PanelInv, stage = "paint", Call.op # "begin", Typed',
           NEW slow \in BOOLEAN, NEW giveup \in BOOLEAN, Advance(slow, giveup)
    PROVE  Streaming'
<1>1. stage' = "idle" \/ Follows(Call, Call')
  BY AdvanceTo DEF PanelInv
<1> QED
  BY <1>1 DEF Streaming, InTime, Follows

\* epd_reset: whatever a plan tells the controllers, it tells them after the reset.
LEMMA ResetShows == ASSUME PanelInv, PaintReset, Typed' PROVE ShownInv'
<1>1. stage = "paint" /\ Call.op = "reset" /\ Advance(late, FALSE) /\ late \in BOOLEAN
  BY DEF PaintReset, At, Call, Proceed, PanelInv, Typed
<1> DEFINE D == Driver(variant)
           P == PinsOf(variant)
<1>2. /\ D' = D /\ P' = P
      /\ \/ stage' = "idle" /\ Restful(Call)
         \/ stage' = "paint" /\ pc' = pc + 1
  BY <1>1, AdvanceTo DEF PanelInv
<1>3. Len(D) \in Nat /\ pc \in 1..Len(D) /\ Call = D[pc]
  BY <1>1, CallOf DEF PanelInv
<1>4. stage' = "paint" /\ pc' = pc + 1
  BY <1>1, <1>2 DEF Restful
<1>5. ASSUME NEW p, NEW w, NEW a \in 1..Len(D), NEW f \in 1..Len(D), NEW c \in 1..Len(D),
             NEW e \in 1..Len(D), Plan(D, p, w, a, f, c, e), NEW of, NEW x
      PROVE  Agrees(of, w, a, f, c, e, pc + 1, x)
  <2>1. Orders(D[a], TRES, p) /\ \A k \in (a + 1)..Len(D) : ~Resizes(D[k], p)
    BY <1>5 DEF Plan, Sized
  <2>2. pc # a
    BY <1>1, <1>3, <2>1 DEF Orders
  <2>3. pc \notin (a + 1)..Len(D)
    BY <1>1, <1>3, <2>1 DEF Resizes
  <2>4. a < f /\ f + 1 < c /\ c < e
    BY <1>5 DEF Plan, Refreshed
  <2> HIDE DEF D
  <2>5. pc < a
    BY <1>3, <2>2, <2>3
  <2> QED
    BY <1>3, <2>4, <2>5 DEF Agrees
<1>6. OnPlan'
  <2>1. \A p \in PinsOf(variant)', a, f, c, e \in 1..Len(D') :
           Plan(D', p, Portion(variant, p)', a, f, c, e) =>
              Agrees(image', Portion(variant, p)', a, f, c, e, pc', ctl'[p])
    <3> HIDE DEF D
    <3> QED
      BY <1>2, <1>4, <1>5
  <2> QED
    BY <2>1 DEF OnPlan
<1> QED
  BY <1>1, <1>4, <1>6, NotStreaming DEF ShownInv, Showing

\* The calls that neither talk to a controller nor wait for one.
LEMMA QuietShows == ASSUME PanelInv, ShownInv, PaintSettle \/ PaintEnd, Typed' PROVE ShownInv'
<1>1. /\ stage = "paint" /\ Call.op \in {"settle", "end"} /\ Advance(late, FALSE)
      /\ late \in BOOLEAN
  BY DEF PaintSettle, PaintEnd, At, Call, Proceed, PanelInv, Typed
<1>2. Typed /\ ctl \in [Pins -> Ctl] /\ Call = Driver(variant)[pc]
  BY <1>1, Before
<1>3. ASSUME NEW p \in Pins
      PROVE  /\ ctl'[p].size = ctl[p].size /\ ctl'[p].ram = ctl[p].ram
             /\ ctl'[p].on = ctl[p].on /\ ctl'[p].glass = ctl[p].glass
             /\ ctl[p].busy = "refresh" <=> ctl'[p].busy = "refresh"
  <2> DEFINE x == ctl[p]
             y == ctl'[p]
  <2>1. x \in Ctl /\ (y = x \/ (x.busy = "power" /\ y = [x EXCEPT !.busy = "no"]))
    BY <1>2 DEF PaintSettle, SettlePower, PaintEnd, DtmEnd
  <2> HIDE DEF x, y
  <2>2. /\ y.size = x.size /\ y.ram = x.ram /\ y.on = x.on /\ y.glass = x.glass
        /\ x.busy = "refresh" <=> y.busy = "refresh"
    BY <2>1 DEF Ctl
  <2> QED
    BY <2>2 DEF x, y
<1>4. ASSUME NEW p \in Pins PROVE Moves(Driver(variant), p, image, pc, ctl[p], ctl'[p])
  <2>1. Driver(variant)[pc].op \notin {"reset", "command", "write"}
    BY <1>1, <1>2
  <2> QED
    BY <1>3, <2>1, MovesNot
<1>5. OnPlan' /\ Showing'
  BY <1>1, <1>4, StepShows DEF ShownInv
<1> QED
  BY <1>1, <1>5, NotStreaming DEF ShownInv

\* epd_command.
LEMMA CommandShows == ASSUME PanelInv, ShownInv, PaintCommand, Typed' PROVE ShownInv'
<1>1. stage = "paint" /\ Call.op = "command" /\ Advance(late, FALSE) /\ late \in BOOLEAN
  BY DEF PaintCommand, At, Call, Proceed, PanelInv, Typed
<1>2. OnPlan' /\ Showing'
  BY <1>1, CommandMoves, StepShows DEF ShownInv
<1> QED
  BY <1>1, <1>2, NotStreaming DEF ShownInv

\* epd_dtm_begin: the stream that is written to next.
LEMMA BeginShows == ASSUME PanelInv, ShownInv, PaintBegin, Typed' PROVE ShownInv'
<1>1. stage = "paint" /\ Call.op = "begin" /\ Advance(late, FALSE) /\ late \in BOOLEAN
  BY DEF PaintBegin, At, Call, Proceed, PanelInv, Typed
<1>2. OnPlan' /\ Showing'
  BY <1>1, BeginMoves, StepShows DEF ShownInv
<1>3. Streaming'
  <2>1. late' = late /\ Driver(variant)' = Driver(variant)
        /\ (stage' = "idle" \/ pc' = pc + 1) /\ pc \in Nat
    <3>1. /\ late' = late /\ Driver(variant)' = Driver(variant)
          /\ (stage' = "idle" \/ pc' = pc + 1)
      BY <1>1, AdvanceTo DEF PanelInv
    <3>2. pc \in 1..Len(Driver(variant)) /\ Len(Driver(variant)) \in Nat
      BY <1>1, Before
    <3> QED
      BY <3>1, <3>2
  <2>2. CASE InTime'
    <3>1. late = FALSE /\ pc' - 1 = pc
      BY <1>1, <2>1, <2>2 DEF InTime
    <3>2. Begins(Driver(variant)[pc], s_dtm_cs') /\ s_dtm_cs' \in Pins /\ ctl'[s_dtm_cs'].data
      BY <3>1, BeginMoves
    <3> QED
      BY <2>1, <3>1, <3>2 DEF Streaming
  <2>3. CASE ~InTime'
    BY <2>3 DEF Streaming
  <2> QED
    BY <2>2, <2>3
<1> QED
  BY <1>2, <1>3 DEF ShownInv

\* epd_dtm_write.
LEMMA WriteShows == ASSUME PanelInv, ShownInv, PaintWrite, Typed' PROVE ShownInv'
<1>1. stage = "paint" /\ Call.op = "write" /\ Advance(late, FALSE) /\ late \in BOOLEAN
  BY DEF PaintWrite, At, Call, Proceed, PanelInv, Typed
<1>2. OnPlan' /\ Showing'
  BY <1>1, WriteMoves, StepShows DEF ShownInv
<1> QED
  BY <1>1, <1>2, NotStreaming DEF ShownInv

\* epd_wait_ready: who is not late finds nobody busy.
LEMMA WaitShows == ASSUME PanelInv, ShownInv, PaintWait, Typed' PROVE ShownInv'
<1> DEFINE slow == late \/ IsBusy
           giveup == IsBusy /\ Call.must
<1>1. /\ stage = "paint" /\ Call.op = "wait" /\ Advance(slow, giveup) /\ ctl' = ctl
      /\ late \in BOOLEAN
  BY DEF PaintWait, At, Call, iovars, PanelInv, Typed
<1>2. slow \in BOOLEAN /\ giveup \in BOOLEAN
  BY <1>1 DEF IsBusy
<1>3. slow = FALSE => late = FALSE /\ giveup = FALSE /\ \A p \in Pins : ctl[p].busy = "no"
  BY <1>1 DEF IsBusy
<1>4. ASSUME NEW p \in Pins PROVE Moves(Driver(variant), p, image, pc, ctl[p], ctl'[p])
  <2>1. Driver(variant)[pc].op \notin {"reset", "command", "write"}
    <3>1. Call = Driver(variant)[pc]
      BY <1>1, Before
    <3> QED
      BY <1>1, <3>1
  <2>2. ctl'[p] = ctl[p]
    BY <1>1
  <2> QED
    BY <2>1, <2>2, MovesNot
<1> HIDE DEF slow, giveup
<1>5. OnPlan' /\ Showing'
  BY <1>1, <1>2, <1>3, <1>4, StepShows DEF ShownInv
<1> QED
  BY <1>1, <1>2, <1>5, NotStreaming DEF ShownInv

\* A refresh that is over shows what the controller holds, if that is a whole frame.
LEMMA Refreshes ==
    ASSUME NEW of, NEW w, NEW a, NEW f, NEW c, NEW e, NEW k \in Nat, NEW s, NEW p,
           Plan(s, p, w, a, f, c, e), Len(s) \in Nat, NEW x \in Ctl, NEW y,
           Agrees(of, w, a, f, c, e, k, x), x.busy # "no",
           y.size = x.size, y.ram = x.ram, y.on = x.on,
           x.busy = "power" => y.glass = x.glass,
           x.busy = "refresh" /\ x.ram.stride * x.ram.rows = x.size => y.glass = x.ram
    PROVE  Agrees(of, w, a, f, c, e, k, y)
<1>1. a \in 1..Len(s) /\ f \in 1..Len(s) /\ e \in 1..Len(s) /\ c \in 1..Len(s)
      /\ a < f /\ f + 1 < c /\ c < e
  BY DEF Plan, Sized, Filled, Refreshed
<1>2. ASSUME k > e PROVE y.glass = Painted(of, w)
  <2>1. k > a /\ k > f + 1
    BY <1>1, <1>2
  <2>2. x.size = w.stride * w.rows /\ x.ram = Painted(of, w)
    BY <2>1 DEF Agrees
  <2>3. x.ram.stride * x.ram.rows = x.size
    BY <2>2 DEF Painted, Picture
  <2>4. x.busy = "power" \/ x.busy = "refresh"
    BY DEF Ctl
  <2>5. x.busy = "refresh" \/ x.glass = Painted(of, w)
    BY <1>2 DEF Agrees
  <2> QED
    BY <2>2, <2>3, <2>4, <2>5
<1> QED
  BY <1>2 DEF Agrees

\* A controller is done.
LEMMA FinishShows ==
    ASSUME PanelInv, ShownInv, NEW p \in Pins, Finish(p), UNCHANGED << eepvars, panelvars >>
    PROVE  ShownInv'
<1>1. /\ inky_frame' = inky_frame /\ stage' = stage /\ variant' = variant /\ pc' = pc
      /\ image' = image /\ late' = late /\ clean' = clean /\ s_dtm_cs' = s_dtm_cs
  BY DEF panelvars, Finish
<1>2. Typed /\ ctl \in [Pins -> Ctl] /\ PinsOf(variant) \subseteq Pins
  BY IoTyped, PinsArePins DEF PanelInv, Typed
<1>3. /\ \A q \in Pins \ {p} : ctl'[q] = ctl[q]
      /\ ctl[p].busy # "no"
      /\ ctl'[p].size = ctl[p].size /\ ctl'[p].ram = ctl[p].ram /\ ctl'[p].on = ctl[p].on
      /\ ctl'[p].data = ctl[p].data /\ ctl'[p].busy = "no"
      /\ ctl[p].busy = "power" => ctl'[p].glass = ctl[p].glass
      /\ ctl[p].busy = "refresh" /\ ctl[p].ram.stride * ctl[p].ram.rows = ctl[p].size =>
            ctl'[p].glass = ctl[p].ram
  <2> DEFINE x == ctl[p]
             g == IF x.busy = "power" THEN x.glass
                  ELSE IF x.ram.stride * x.ram.rows = x.size THEN x.ram ELSE Torn
             y == [x EXCEPT !.busy = "no", !.glass = g]
  <2>1. ctl' = [ctl EXCEPT ![p] = y] /\ x.busy # "no"
    BY <1>2 DEF Finish
  <2>2. x \in Ctl
    BY <1>2
  <2>3. /\ x.busy = "power" => g = x.glass
        /\ x.busy = "refresh" /\ x.ram.stride * x.ram.rows = x.size => g = x.ram
    OBVIOUS
  <2> HIDE DEF x, g
  <2>4. /\ y.busy = "no" /\ y.on = x.on /\ y.size = x.size /\ y.ram = x.ram
        /\ y.data = x.data /\ y.glass = g
    BY <2>2 DEF Ctl
  <2> HIDE DEF y
  <2>5. ctl'[p] = y /\ \A q \in Pins \ {p} : ctl'[q] = ctl[q]
    BY <1>2, <2>1
  <2> QED
    BY <2>1, <2>3, <2>4, <2>5 DEF x
<1>4. /\ Driver(variant)' = Driver(variant) /\ PinsOf(variant)' = PinsOf(variant)
      /\ Supported(variant)' = Supported(variant)
  BY <1>1, DriverStays
<1>5. Call' = Call /\ InTime' = InTime /\ \A q : Portion(variant, q)' = Portion(variant, q)
  BY <1>1, <1>4 DEF Call, InTime, Portion, HalfOf, Whole
<1>6. Streaming'
  BY <1>1, <1>3, <1>4, <1>5 DEF ShownInv, Streaming
<1>7. OnPlan'
  <2> DEFINE D == Driver(variant)
  <2>1. ASSUME InTime, NEW q \in PinsOf(variant), NEW a \in 1..Len(D), NEW f \in 1..Len(D),
               NEW c \in 1..Len(D), NEW e \in 1..Len(D),
               Plan(D, q, Portion(variant, q), a, f, c, e)
        PROVE  Agrees(image, Portion(variant, q), a, f, c, e, pc, ctl'[q])
    <3>1. Agrees(image, Portion(variant, q), a, f, c, e, pc, ctl[q])
      BY <2>1 DEF ShownInv, OnPlan
    <3>2. CASE q # p
      BY <1>2, <1>3, <3>1, <3>2
    <3>3. CASE q = p
      <4>1. Len(D) \in Nat /\ pc \in Nat
        <5>1. Len(D) \in Nat /\ pc \in 1..Len(D)
          BY <2>1, CallOf DEF PanelInv, InTime
        <5> QED
          BY <5>1
      <4> DEFINE x == ctl[p]
                 y == ctl'[p]
      <4>2. x \in Ctl
        BY <1>2
      <4> HIDE DEF D, x, y
      <4>3. Agrees(image, Portion(variant, q), a, f, c, e, pc, x)
        BY <3>1, <3>3 DEF x
      <4>4. /\ x.busy # "no" /\ y.size = x.size /\ y.ram = x.ram /\ y.on = x.on
            /\ x.busy = "power" => y.glass = x.glass
            /\ x.busy = "refresh" /\ x.ram.stride * x.ram.rows = x.size => y.glass = x.ram
        BY <1>3 DEF x, y
      <4>5. Agrees(image, Portion(variant, q), a, f, c, e, pc, y)
        BY <2>1, <4>1, <4>2, <4>3, <4>4, Refreshes
      <4> QED
        BY <3>3, <4>5 DEF y
    <3> QED
      BY <3>2, <3>3
  <2> HIDE DEF D
  <2> QED
    BY <1>1, <1>4, <1>5, <2>1 DEF OnPlan, D
<1>8. Showing'
  <2> SUFFICES ASSUME stage = "idle", clean, NEW q \in PinsOf(variant)
               PROVE  /\ ctl'[q].busy # "refresh"
                      /\ ctl'[q].glass = Painted(image, Portion(variant, q))
    BY <1>1, <1>4, <1>5 DEF ShownInv, Showing
  <2>1. /\ ctl[q].busy # "refresh"
        /\ ctl[q].glass = Painted(image, Portion(variant, q))
    BY DEF ShownInv, Showing
  <2>2. ctl[q] \in Ctl /\ q \in Pins
    BY <1>2
  <2>3. ctl[q].busy \in {"no", "power", "refresh"}
    BY <2>2 DEF Ctl
  <2> QED
    BY <1>3, <2>1, <2>2, <2>3
<1> QED
  BY <1>6, <1>7, <1>8 DEF ShownInv

\* Where no driver runs and no paint is over, nothing is claimed.
LEMMA IdleShows ==
    ASSUME PanelInv, PanelInv', ReadEeprom \/ Identify \/ McuReset \/ Paint
    PROVE  ShownInv'
<1>1. CASE ReadEeprom \/ Identify
  <2>1. stage = "boot" /\ stage' \in {"boot", "idle"} /\ clean' = clean
    BY <1>1 DEF ReadEeprom, Identify, panelvars
  <2>2. ~clean'
    BY <2>1 DEF PanelInv, Unclaimed
  <2> QED
    BY <2>1, <2>2 DEF ShownInv, OnPlan, Streaming, Showing, InTime
<1>2. CASE McuReset
  <2>1. stage' = "boot"
    BY <1>2 DEF McuReset
  <2> QED
    BY <2>1 DEF ShownInv, OnPlan, Streaming, Showing, InTime
<1>3. CASE Paint
  <2>1. /\ stage' = "paint" /\ Supported(variant) /\ pc' = 1
        /\ UNCHANGED << inky_frame, variant >>
    BY <1>3 DEF Paint
  <2>2. Call' = Driver(variant)[1]
    BY <2>1, DriverStays DEF Call
  <2>3. Orderly(PinsOf(variant), Driver(variant))
    BY <2>1, DriverOrderly DEF PanelInv, Typed
  <2>4. Call'.op = "reset"
    BY <2>2, <2>3 DEF Orderly
  <2> QED
    BY <2>1, <2>4 DEF ShownInv, OnPlan, Streaming, Showing, InTime
<1> QED
  BY <1>1, <1>2, <1>3

\* A step that changes nothing.
LEMMA StutterShows == ASSUME ShownInv, UNCHANGED vars PROVE ShownInv'
<1>1. /\ inky_frame' = inky_frame /\ stage' = stage /\ variant' = variant /\ pc' = pc
      /\ image' = image /\ late' = late /\ clean' = clean
      /\ s_dtm_cs' = s_dtm_cs /\ ctl' = ctl
  BY DEF vars, panelvars, iovars
<1>2. /\ Driver(variant)' = Driver(variant) /\ PinsOf(variant)' = PinsOf(variant)
      /\ Supported(variant)' = Supported(variant)
  BY <1>1, DriverStays
<1>3. Call' = Call /\ InTime' = InTime /\ \A q : Portion(variant, q)' = Portion(variant, q)
  BY <1>1, <1>2 DEF Call, InTime, Portion, HalfOf, Whole
<1>4. OnPlan'
  BY <1>1, <1>2, <1>3 DEF ShownInv, OnPlan
<1> QED
  BY <1>1, <1>2, <1>3, <1>4 DEF ShownInv, Streaming, Showing

\* Every step keeps it.
LEMMA ShownNext == PanelInv /\ PanelInv' /\ ShownInv /\ [Next]_vars => ShownInv'
<1> SUFFICES ASSUME PanelInv, PanelInv', ShownInv, [Next]_vars PROVE ShownInv'
  OBVIOUS
<1>0. Typed'
  BY DEF PanelInv
<1>1. CASE ReadEeprom \/ Identify \/ McuReset \/ Paint
  BY <1>1, IdleShows
<1>2. CASE PaintReset
  BY <1>0, <1>2, ResetShows
<1>3. CASE PaintSettle \/ PaintEnd
  BY <1>0, <1>3, QuietShows
<1>4. CASE PaintCommand
  BY <1>0, <1>4, CommandShows
<1>5. CASE PaintBegin
  BY <1>0, <1>5, BeginShows
<1>6. CASE PaintWrite
  BY <1>0, <1>6, WriteShows
<1>7. CASE PaintWait
  BY <1>0, <1>7, WaitShows
<1>8. CASE Controllers
  <2>1. PICK p \in Pins : Finish(p) /\ UNCHANGED << eepvars, panelvars >>
    BY <1>8 DEF Controllers
  <2> QED
    BY <2>1, FinishShows
<1>9. CASE Done \/ UNCHANGED vars
  BY <1>9, StutterShows DEF Done
<1> QED
  BY <1>1, <1>2, <1>3, <1>4, <1>5, <1>6, <1>7, <1>8, <1>9 DEF Next, Program

\* panels.c: for every panel of the registry, any number of paints and of resets: where the
\* program follows its plan, every controller holds what the plan has given it so far.
THEOREM PaintsInvariant == Spec => [](PanelInv /\ ShownInv)
<1>1. Init => ShownInv
  <2> SUFFICES ASSUME Init PROVE ShownInv
    OBVIOUS
  <2>1. stage = "boot"
    BY DEF Init
  <2> QED
    BY <2>1 DEF ShownInv, OnPlan, Streaming, Showing, InTime
<1> QED
  BY <1>1, ShownNext, PanelInit, PanelNext, PTL DEF Spec

\* panels.c:46-379: when a paint in which no wait was late is over, every controller of every
\* panel shows its part of that frame, and, but for the UC8159's smaller resolutions, all of
\* its rows in the descriptor's length.
THEOREM WholeFrameIsShown == Spec => [](variant \notin k_uc8159.variants => FrameIsShown)
<1>1. PanelInv /\ ShownInv => (variant \notin k_uc8159.variants => FrameIsShown)
  <2> SUFFICES ASSUME ShownInv, variant \notin k_uc8159.variants, stage = "idle", clean,
                      NEW pin \in PinsOf(variant)
               PROVE  LET g == ctl[pin].glass
                      IN /\ g.of = image
                         /\ g.part = (CASE pin = 26 -> "left" [] pin = 16 -> "right"
                                        [] OTHER -> "all")
                         /\ image # 0 => Native(Panel(variant), g)
    BY DEF FrameIsShown
  <2> DEFINE w == Portion(variant, pin)
             g == ctl[pin].glass
  <2>1. Supported(variant) /\ g = Painted(image, w)
    BY DEF ShownInv, Showing
  <2>2. /\ w.part = (CASE pin = 26 -> "left" [] pin = 16 -> "right" [] OTHER -> "all")
        /\ Native(Panel(variant), w)
    BY <2>1, PortionIsRight
  <2> HIDE DEF w
  <2>3. g.of = image /\ g.part = w.part /\ g.stride = w.stride /\ g.rows = w.rows
    BY <2>1 DEF Painted, Picture
  <2> HIDE DEF g
  <2>4. Native(Panel(variant), g)
    BY <2>2, <2>3 DEF Native
  <2> QED
    BY <2>2, <2>3, <2>4 DEF g
<1> QED
  BY <1>1, PaintsInvariant, PTL

\* panels.c:346-380: of the UC8159, too, the glass shows the frame last painted, as it was
\* streamed; what FrameIsShown misses there is rows as long as the descriptor's.
THEOREM LastFrameIsShown ==
    Spec => [](stage = "idle" /\ clean =>
                   \A pin \in PinsOf(variant) :
                       ctl[pin].glass = Painted(image, Portion(variant, pin)))
<1>1. ShownInv => (stage = "idle" /\ clean =>
                       \A pin \in PinsOf(variant) :
                           ctl[pin].glass = Painted(image, Portion(variant, pin)))
  BY DEF ShownInv, Showing
<1> QED
  BY <1>1, PaintsInvariant, PTL

-----------------------------------------------------------------------------
(* Numbers and sequences stay in their ranges. *)

\* A good answer is a whole one: the byte that names the panel is there.
Answered == read = "good" => Len(d) = Size

\* The counters within their bounds; the frame is one of those that were painted.
Ranged == /\ variant \in 0..255 /\ pc \in 0..60
          /\ paints \in 0..MaxPaints /\ image \in 0..paints /\ resets \in 0..MaxResets

\* inky_eeprom.c:156-160: inky_eeprom_read returns true only with all its bytes.
LEMMA AnsweredNext == EepromInv /\ Answered /\ [Next]_vars => Answered'
<1> SUFFICES ASSUME EepromInv, Answered, [Next]_vars PROVE Answered'
  OBVIOUS
<1>1. CASE Level
  <2>1. d' = d /\ read' = read
    BY <1>1 DEF Level
  <2> QED
    BY <2>1 DEF Answered
<1>2. CASE Item
  <2>1. /\ item \in 1..(Size + 8)
        /\ d' = (IF item \in 8..(Size + 7) THEN Append(d, b) ELSE d)
        /\ read' = (IF item < Size + 8 THEN "no" ELSE IF Len(d) = Size THEN "good" ELSE "bad")
    BY <1>2, ItemTo DEF EepromInv
  <2>2. CASE item < Size + 8
    BY <2>1, <2>2 DEF Answered
  <2>3. CASE ~(item < Size + 8)
    <3>1. d' = d
      BY <2>1, <2>3, EepromAssumption
    <3> QED
      BY <2>1, <2>3, <3>1 DEF Answered
  <2> QED
    BY <2>2, <2>3
<1>3. CASE EepromReset
  BY <1>3 DEF EepromReset, Answered
<1>4. CASE UNCHANGED eepvars
  BY <1>4 DEF eepvars, Answered
<1> QED
  BY <1>1, <1>2, <1>3, <1>4, BusMoves

\* main.c, panels.c: what is counted stays within its bounds.
LEMMA RangedNext ==
    EepromInv /\ PanelInv /\ PanelInv' /\ Answered /\ Ranged /\ [Next]_vars => Ranged'
<1> SUFFICES ASSUME EepromInv, PanelInv, PanelInv', Answered, Ranged, [Next]_vars PROVE Ranged'
  OBVIOUS
<1>0. /\ variant \in 0..255 /\ pc \in 0..60 /\ paints \in 0..MaxPaints /\ image \in 0..paints
      /\ resets \in 0..MaxResets /\ MaxPaints \in Nat /\ MaxResets \in Nat
  BY PanelsAssumption DEF Ranged
<1>1. CASE ReadEeprom \/ Controllers \/ Done \/ UNCHANGED vars
  <2>1. UNCHANGED panelvars
    BY <1>1 DEF ReadEeprom, Controllers, Done, vars
  <2> QED
    BY <2>1 DEF panelvars, Ranged
<1>2. CASE Identify
  <2>1. /\ variant' = (IF inky_frame THEN FrameVariant ELSE IF read = "good" THEN d[7] ELSE 255)
        /\ UNCHANGED << pc, image, paints, resets >>
    BY <1>2 DEF Identify
  <2>2. d \in Seq(0..255)
    BY EepromTypes DEF EepromInv, EepromTyped
  <2>3. read = "good" => d[7] \in 0..255
    <3>1. Len(d) = Size => 7 \in 1..Len(d)
      BY EepromAssumption
    <3> QED
      BY <2>2, <3>1, LenProperties DEF Answered
  <2>4. variant' \in 0..255
    BY <2>1, <2>3 DEF FrameVariant
  <2> QED
    BY <1>0, <2>1, <2>4 DEF Ranged
<1>3. CASE Paint
  <2>1. /\ paints < MaxPaints /\ pc' = 1 /\ paints' = paints + 1 /\ image' \in {0, paints + 1}
        /\ UNCHANGED << variant, resets >>
    BY <1>3 DEF Paint
  <2> QED
    BY <1>0, <2>1 DEF Ranged
<1>4. ASSUME NEW slow, NEW giveup, Advance(slow, giveup), UNCHANGED resets, stage = "paint"
      PROVE  Ranged'
  <2>1. UNCHANGED << variant, image, paints, resets >>
    BY <1>4 DEF Advance
  <2>2. pc' = 0 \/ (pc' = pc + 1 /\ pc # Len(Driver(variant)))
    BY <1>4 DEF Advance
  <2>3. pc \in 1..Len(Driver(variant)) /\ Len(Driver(variant)) \in 0..35
    BY <1>4, DriverPlanned DEF PanelInv, Placed, Typed
  <2> DEFINE n == Len(Driver(variant))
  <2> HIDE DEF n
  <2>4. pc' \in 0..60
    <3>1. (pc' = 0 \/ (pc' = pc + 1 /\ pc # n)) /\ pc \in 1..n /\ n \in 0..35
      BY <2>2, <2>3 DEF n
    <3> QED
      BY <3>1
  <2> QED
    BY <1>0, <2>1, <2>4 DEF Ranged
<1>5. CASE PaintReset \/ PaintSettle \/ PaintCommand \/ PaintBegin \/ PaintWrite \/ PaintEnd
  <2>1. Proceed /\ stage = "paint"
    BY <1>5 DEF PaintReset, PaintSettle, PaintCommand, PaintBegin, PaintWrite, PaintEnd, At
  <2>2. Advance(late, FALSE)
    BY <2>1 DEF Proceed
  <2> QED
    BY <1>4, <2>1, <2>2 DEF Advance
<1>6. CASE PaintWait
  <2>1. stage = "paint" /\ Advance(late \/ IsBusy, IsBusy /\ Call.must)
    BY <1>6 DEF PaintWait, At
  <2> QED
    BY <1>4, <2>1 DEF Advance
<1>7. CASE McuReset
  <2>1. /\ resets < MaxResets /\ resets' = resets + 1 /\ variant' = 255 /\ pc' = 0
        /\ UNCHANGED << image, paints >>
    BY <1>7 DEF McuReset
  <2> QED
    BY <1>0, <2>1 DEF Ranged
<1> QED
  BY <1>1, <1>2, <1>3, <1>5, <1>6, <1>7 DEF Next, Program

\* inky_eeprom.c, epd_io.c, panels.c, main.c: every variable has its type; the model byte is
\* there whenever it is looked at, no driver has more than 60 calls, and the EEPROM returns no
\* more bytes than were asked for.
THEOREM PanelsTypeOK == Spec => []TypeOK
<1>1. Init => Answered /\ Ranged
  <2>1. Init => Answered
    BY DEF Init, EepromInit, Answered
  <2>2. Init => Ranged
    BY PanelsAssumption DEF Init, Ranged
  <2> QED
    BY <2>1, <2>2
<1>2. EepromInv /\ PanelInv /\ Answered /\ Ranged => TypeOK
  <2> SUFFICES ASSUME EepromInv, PanelInv, Answered, Ranged PROVE TypeOK
    OBVIOUS
  <2>1. EepromTypeOK
    BY DEF EepromInv, EepromTyped
  <2>2. IoTypeOK /\ inky_frame \in BOOLEAN /\ stage \in {"boot", "idle", "paint"}
        /\ late \in BOOLEAN /\ clean \in BOOLEAN
    BY DEF PanelInv, Typed
  <2>3. image \in 0..MaxPaints
    BY PanelsAssumption DEF Ranged
  <2> QED
    BY <2>1, <2>2, <2>3 DEF Ranged, TypeOK
<1> QED
  BY <1>1, <1>2, AnsweredNext, RangedNext, EepromInvariant, PanelsInvariant, PTL DEF Spec

\* panels.c:339-342, 394: no frame is ever on the glass of a UC8159 panel as it was rendered,
\* whatever the variant: FrameIsShown fails after each paint of one that ran in time.
THEOREM Uc8159NeverWhole ==
    Spec => [](stage = "idle" /\ clean /\ variant \in k_uc8159.variants /\ image # 0
                   => ~FrameIsShown)
<1>1. ShownInv => (stage = "idle" /\ clean /\ variant \in k_uc8159.variants /\ image # 0
                       => ~FrameIsShown)
  <2> SUFFICES ASSUME ShownInv, stage = "idle", clean, variant \in k_uc8159.variants,
                      image # 0, FrameIsShown
               PROVE  FALSE
    OBVIOUS
  <2> DEFINE w == Portion(variant, 8)
             g == ctl[8].glass
             p == Panel(variant)
  <2>1. /\ k_el133.variants = {21, 27} /\ k_e673.variants = {22, 26} /\ k_e640.variants = {25}
        /\ k_ac073.variants = {20} /\ k_uc8159.variants = {14, 15, 16}
    BY DEF k_el133, k_e673, k_e640, k_ac073, k_uc8159
  <2>2. 8 \in PinsOf(variant)
    BY <2>1 DEF PinsOf
  <2>3. g = Painted(image, w)
    BY <2>2 DEF ShownInv, Showing
  <2>4. p = k_uc8159
    <3>1. \A k \in k_panels : variant \in k.variants <=> k = k_uc8159
      BY <2>1 DEF k_panels
    <3>2. k_uc8159 \in k_panels
      BY DEF k_panels
    <3> QED
      BY <3>1, <3>2 DEF Panel
  <2>5. p # k_el133 /\ p.width \div 2 = 320 /\ p.height = 448
    BY <2>4 DEF k_uc8159, k_el133
  <2>6. w.stride # 320 \/ w.rows # 448
    <3>1. CASE variant = 16
      BY <3>1 DEF Portion, Whole
    <3>2. CASE variant \in {14, 15}
      BY <3>2 DEF Portion, Whole
    <3> QED
      BY <2>1, <3>1, <3>2
  <2> HIDE DEF w, p
  <2>7. g.stride = w.stride /\ g.rows = w.rows
    BY <2>3 DEF Painted, Picture
  <2>8. Native(p, g)
    BY <2>2 DEF FrameIsShown, p
  <2> QED
    BY <2>5, <2>6, <2>7, <2>8 DEF Native
<1> QED
  BY <1>1, PaintsInvariant, PTL

-----------------------------------------------------------------------------
(* The panel that is there. *)

\* What main made of the answer; it asks once.
Identified == stage # "boot" =>
    IF inky_frame THEN variant = FrameVariant
    ELSE read # "no" /\ variant = (IF read = "good" THEN d[7] ELSE 255)

\* main.c:565-579: neither a paint nor a controller touches the answer.
LEMMA IdentifiedNext == PanelInv /\ Identified /\ [Next]_vars => Identified'
<1> SUFFICES ASSUME PanelInv, Identified, [Next]_vars PROVE Identified'
  OBVIOUS
<1>1. CASE ReadEeprom
  BY <1>1 DEF ReadEeprom, panelvars, Identified
<1>2. CASE Identify
  <2>1. /\ inky_frame \/ read # "no"
        /\ variant' = (IF inky_frame THEN FrameVariant ELSE IF read = "good" THEN d[7] ELSE 255)
        /\ inky_frame' = inky_frame /\ read' = read /\ d' = d
    BY <1>2 DEF Identify, eepvars
  <2>2. FrameVariant' = FrameVariant
    BY DEF FrameVariant
  <2> QED
    BY <2>1, <2>2 DEF Identified
<1>3. CASE McuReset
  BY <1>3 DEF McuReset, Identified
<1>4. ASSUME stage # "boot", UNCHANGED << eepvars, inky_frame, variant >> PROVE Identified'
  BY <1>4 DEF eepvars, Identified, FrameVariant
<1>5. CASE Paint
  BY <1>4, <1>5 DEF Paint
<1>6. \A slow, giveup : Advance(slow, giveup) => UNCHANGED << eepvars, inky_frame, variant >>
  BY DEF Advance
<1>7. CASE PaintReset \/ PaintSettle \/ PaintCommand \/ PaintBegin \/ PaintWrite \/ PaintEnd
  BY <1>4, <1>6, <1>7
     DEF PaintReset, PaintSettle, PaintCommand, PaintBegin, PaintWrite, PaintEnd, At, Proceed
<1>8. CASE PaintWait
  BY <1>4, <1>6, <1>8 DEF PaintWait, At
<1>9. CASE Controllers \/ Done \/ UNCHANGED vars
  <2>1. UNCHANGED << eepvars, panelvars >>
    BY <1>9 DEF Controllers, Done, vars
  <2> QED
    BY <2>1 DEF eepvars, panelvars, Identified, FrameVariant
<1> QED
  BY <1>1, <1>2, <1>3, <1>5, <1>7, <1>8, <1>9 DEF Next, Program

\* inky_eeprom.c:125-160, main.c:565-579: an Impression runs the driver of the panel it is
\* attached to, the seventh byte of the EEPROM, or none if there is no EEPROM, unless a reset
\* caught that pulling SDA low.
THEOREM PanelIsIdentified ==
    Spec => [](stage # "boot" /\ ~inky_frame /\ ~caught =>
                   variant = IF present THEN memory[6] ELSE 255)
<1>1. Init => Identified
  BY DEF Init, Identified
<1>2. RightPanel /\ Identified => (stage # "boot" /\ ~inky_frame /\ ~caught =>
                                       variant = IF present THEN memory[6] ELSE 255)
  <2> SUFFICES ASSUME RightPanel, Identified, stage # "boot", ~inky_frame, ~caught
               PROVE  variant = IF present THEN memory[6] ELSE 255
    OBVIOUS
  <2>1. /\ variant = (IF read = "good" THEN d[7] ELSE 255) /\ (read = "good") = present
        /\ present => d = [k \in 1..Size |-> memory[k - 1]]
    BY DEF RightPanel, Identified
  <2>2. present => d[7] = memory[6]
    <3>1. 7 \in 1..Size /\ 7 - 1 = 6
      BY EepromAssumption
    <3> QED
      BY <2>1, <3>1
  <2>3. CASE present
    BY <2>1, <2>2, <2>3
  <2>4. CASE ~present
    BY <2>1, <2>4
  <2> QED
    BY <2>3, <2>4
<1> QED
  BY <1>1, <1>2, IdentifiedNext, PanelsInvariant, RightPanelHolds, PTL DEF Spec

-----------------------------------------------------------------------------
(* How long it can take. *)

\* The steps that are left of the script at most: each item has 27 levels or 3.
ToRead == IF inky_frame \/ read # "no" THEN 0 ELSE 28 * (Size + 8 - item) + 28 - level

\* The steps until main has the panel back.
Left == IF stage = "boot" THEN ToRead + 1
        ELSE IF stage = "paint" THEN Len(Driver(variant)) - pc + 1 ELSE 0

\* Every step of the program is one less, whether BUSY is released or not, and the
\* controllers leave the rest as it is.
Shorter == /\ Program /\ stage # "idle" => Left' < Left
           /\ Controllers => Left' = Left

\* inky_eeprom.c:125-160: the script goes forward only.
LEMMA ReadShortens ==
    ASSUME EepromInv, ReadEeprom
    PROVE  ToRead \in Nat /\ ToRead' \in Int /\ ToRead' < ToRead
<1>1. /\ item \in 1..(Size + 8) /\ level \in 0..27 /\ ~inky_frame /\ inky_frame' = inky_frame
      /\ Size \in Nat /\ EepromTyped
  BY EepromTypes, EepromAssumption DEF EepromInv, EepromTyped, ReadEeprom, panelvars
<1>2. CASE Level
  <2>1. /\ read = "no" /\ level < Len(Script[item].levels) /\ level' = level + 1
        /\ item' = item /\ read' = read
    BY <1>2, LevelIs
  <2>2. Len(Script[item].levels) \in {3, 27}
    BY <1>1, LevelsAre
  <2> DEFINE n == Len(Script[item].levels)
  <2> HIDE DEF n
  <2>3. level < n /\ n \in {3, 27}
    BY <2>1, <2>2 DEF n
  <2> QED
    BY <1>1, <2>1, <2>3 DEF ToRead
<1>3. CASE Item
  <2>1. /\ read = "no" /\ level' = 0
        /\ item' = (IF item \in {2, 7} /\ ~ack THEN Size + 8
                    ELSE IF item < Size + 8 THEN item + 1 ELSE 1)
        /\ read' = (IF item < Size + 8 THEN "no" ELSE IF Len(d) = Size THEN "good" ELSE "bad")
    BY <1>1, <1>3, ItemTo
  <2>2. CASE item < Size + 8
    <3>1. read' = "no" /\ item' \in Int /\ item < item' /\ item' <= Size + 8
      BY <1>1, <2>1, <2>2, EepromAssumption
    <3> QED
      BY <1>1, <2>1, <3>1 DEF ToRead
  <2>3. CASE ~(item < Size + 8)
    <3>1. read' # "no"
      BY <2>1, <2>3
    <3> QED
      BY <1>1, <2>1, <3>1 DEF ToRead
  <2> QED
    BY <2>2, <2>3
<1> QED
  BY <1>2, <1>3 DEF ReadEeprom, EepromStep

\* panels.c: a driver goes forward only, or returns.
LEMMA AdvanceShortens ==
    ASSUME Typed, Placed, stage = "paint", NEW slow, NEW giveup, Advance(slow, giveup)
    PROVE  Left' < Left
<1> DEFINE n == Len(Driver(variant))
<1>1. pc \in 1..n /\ n \in 0..35
  BY DriverPlanned DEF Placed, Typed
<1>2. \/ stage' = "idle"
      \/ stage' = "paint" /\ pc' = pc + 1
  BY DEF Advance
<1>3. n' = n
  BY DriverStays DEF Advance
<1> HIDE DEF n
<1>4. Left = n - pc + 1
  BY DEF Left, n
<1>5. CASE stage' = "idle"
  BY <1>1, <1>4, <1>5 DEF Left
<1>6. CASE stage' = "paint" /\ pc' = pc + 1
  <2>1. Left' = n' - pc' + 1
    BY <1>6 DEF Left, n
  <2> QED
    BY <1>1, <1>3, <1>4, <1>6, <2>1
<1> QED
  BY <1>2, <1>5, <1>6

\* main.c, panels.c: each step until main has the panel back.
LEMMA ProgramShortens == ASSUME EepromInv, PanelInv, Program, stage # "idle" PROVE Left' < Left
<1>0. Typed /\ Placed
  BY DEF PanelInv
<1>1. CASE ReadEeprom
  <2>1. stage = "boot" /\ stage' = "boot"
    BY <1>1 DEF ReadEeprom, panelvars
  <2>2. ToRead \in Nat /\ ToRead' \in Int /\ ToRead' < ToRead
    BY <1>1, ReadShortens
  <2>3. Left = ToRead + 1 /\ Left' = ToRead' + 1
    BY <2>1 DEF Left
  <2>4. \A x \in Nat, y \in Int : y < x => y + 1 < x + 1
    OBVIOUS
  <2>5. ToRead' + 1 < ToRead + 1
    BY <2>2, <2>4
  <2> QED
    BY <2>3, <2>5
<1>2. CASE Identify
  <2>1. stage = "boot" /\ stage' = "idle"
    BY <1>2 DEF Identify
  <2>2. item \in 1..(Size + 8) /\ level \in 0..27 /\ Size \in Nat
    BY EepromTypes, EepromAssumption DEF EepromInv, EepromTyped
  <2>3. ToRead \in Nat
    BY <2>2 DEF ToRead
  <2> QED
    BY <2>1, <2>3 DEF Left
<1>3. CASE PaintReset \/ PaintSettle \/ PaintCommand \/ PaintBegin \/ PaintWrite \/ PaintEnd
  <2>1. stage = "paint" /\ Advance(late, FALSE)
    BY <1>3
       DEF PaintReset, PaintSettle, PaintCommand, PaintBegin, PaintWrite, PaintEnd, At, Proceed
  <2> QED
    BY <1>0, <2>1, AdvanceShortens
<1>4. CASE PaintWait
  <2>1. stage = "paint" /\ Advance(late \/ IsBusy, IsBusy /\ Call.must)
    BY <1>4 DEF PaintWait, At
  <2> QED
    BY <1>0, <2>1, AdvanceShortens
<1> QED
  BY <1>1, <1>2, <1>3, <1>4 DEF Program, Paint

\* inky_eeprom.c:125-160, panels.c: the panel is identified and every paint is over in a
\* bounded number of steps (28 for each of the Size + 8 items; 35 calls), however long the
\* controllers stay busy: no wait but the bounded ones, and nothing starts over.
THEOREM PaintsAreBounded ==
    Spec => [](Left \in 0..(28 * (Size + 8) + 35)) /\ [][Shorter]_vars
<1>1. EepromInv /\ PanelInv => Left \in 0..(28 * (Size + 8) + 35)
  <2> SUFFICES ASSUME EepromInv, PanelInv PROVE Left \in 0..(28 * (Size + 8) + 35)
    OBVIOUS
  <2>1. item \in 1..(Size + 8) /\ level \in 0..27 /\ Size \in Nat
    BY EepromTypes, EepromAssumption DEF EepromInv, EepromTyped
  <2>2. ToRead \in 0..(28 * (Size + 8))
    BY <2>1 DEF ToRead
  <2> DEFINE n == Len(Driver(variant))
  <2>3. stage = "paint" => pc \in 1..n /\ n \in 0..35
    BY DriverPlanned DEF PanelInv, Placed, Typed
  <2> HIDE DEF n
  <2>4. Left = IF stage = "boot" THEN ToRead + 1 ELSE IF stage = "paint" THEN n - pc + 1 ELSE 0
    BY DEF Left, n
  <2>5. CASE stage = "boot"
    BY <2>1, <2>2, <2>4, <2>5
  <2>6. CASE stage = "paint"
    BY <2>1, <2>3, <2>4, <2>6
  <2>7. CASE stage \notin {"boot", "paint"}
    BY <2>1, <2>4, <2>7
  <2> QED
    BY <2>5, <2>6, <2>7
<1>2. EepromInv /\ PanelInv /\ [Next]_vars => [Shorter]_vars
  <2> SUFFICES ASSUME EepromInv, PanelInv PROVE Shorter
    OBVIOUS
  <2>1. ASSUME Controllers PROVE Left' = Left
    <3>1. UNCHANGED << eepvars, panelvars >>
      BY <2>1 DEF Controllers
    <3>2. Driver(variant)' = Driver(variant) /\ stage' = stage /\ pc' = pc
      BY <3>1, DriverStays DEF panelvars
    <3>3. ToRead' = ToRead
      BY <3>1 DEF eepvars, panelvars, ToRead
    <3> QED
      BY <3>2, <3>3 DEF Left
  <2> QED
    BY <2>1, ProgramShortens DEF Shorter
<1> QED
  BY <1>1, <1>2, EepromInvariant, PanelsInvariant, PTL DEF Spec
====
