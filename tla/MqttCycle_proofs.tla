--------------------------- MODULE MqttCycle_proofs ---------------------------
(***************************************************************************)
(* Proofs about MqttCycle: who may write into the frame's memory and when, *)
(* what a downloaded frame is, what a publish reports, and what a session  *)
(* takes from the broker, for any number of publications, fragments,       *)
(* pieces, rounds and cycles.                                              *)
(***************************************************************************)
EXTENDS MqttCycle, SequenceTheorems, TLAPS

-----------------------------------------------------------------------------
(* What the parts of a step leave alone. *)

\* mqtt_fetch_retained has subscribed, or is about to.
Receiving == {"subscribe", "frame", "readframe", "config", "readconfig", "round"}

\* net_mqtt.c: a step of a call is one of a call that has begun; it goes on, or returns.
LEMMA CallMoves ==
    ASSUME MqttCall
    PROVE  /\ mq # "idle" /\ op' = op /\ status' = status
           /\ link' \in {link, "idle"} \/ (link = "idle" /\ link' = "connecting")
           /\ mq \notin Receiving => url' = url
           /\ mq' \in Receiving => op = "fetch" \/ mq \in Receiving
           /\ request' => request \/ mq' = "puback"
           /\ mq' = "puback" => s_pub_done' = FALSE
           /\ mq = "puback" => mq' = "idle" /\ ~request' /\ (ok' => s_pub_done)
<1> USE DEF Receiving, Go, Return, NoLocals, Gone, call, locals, result, flags, inbox, session,
            server
<1>1. CASE Resolve
  BY <1>1 DEF Resolve
<1>2. CASE Dial
  BY <1>2 DEF Dial
<1>3. CASE Connect
  BY <1>3 DEF Connect
<1>4. CASE Connected
  BY <1>4 DEF Connected
<1>5. CASE Subscribe
  BY <1>5 DEF Subscribe
<1>6. CASE LookFrame
  BY <1>6 DEF LookFrame, Look
<1>7. CASE ReadFrame
  BY <1>7 DEF ReadFrame
<1>8. CASE LookConfig
  BY <1>8 DEF LookConfig, Look
<1>9. CASE ReadConfig
  BY <1>9 DEF ReadConfig
<1>10. CASE Round
  BY <1>10 DEF Round
<1>11. CASE Fetched
  BY <1>11 DEF Fetched
<1>12. CASE Publish
  BY <1>12 DEF Publish, Unacked
<1>13. CASE Published
  BY <1>13 DEF Published
<1> QED
  BY <1>1, <1>2, <1>3, <1>4, <1>5, <1>6, <1>7, <1>8, <1>9, <1>10, <1>11, <1>12, <1>13
     DEF MqttCall

\* net_mqtt.c: a callback, or the broker, moves neither the call nor its result.
LEMMA BackgroundMoves ==
    ASSUME MqttBackground \/ Puback(cycle)
    PROVE  /\ mq' = mq /\ op' = op /\ ok' = ok /\ url' = url /\ sleep' = sleep
           /\ link = "idle" => link' = "idle"
           /\ request' => request
           /\ \/ s_pub_done' = s_pub_done /\ status' = status
              \/ request /\ status' = cycle
<1> USE DEF Gone, call, locals, result, flags, inbox, session, server
<1>1. CASE Accept
  BY <1>1 DEF Accept
<1>2. CASE Lose
  BY <1>2 DEF Lose
<1>3. CASE Fragment
  BY <1>3 DEF Fragment
<1>4. CASE Subscribed
  BY <1>4 DEF Subscribed
<1>5. CASE \E p \in Payloads : ServerPublish(p)
  BY <1>5 DEF ServerPublish
<1>6. CASE Puback(cycle)
  BY <1>6 DEF Puback
<1> QED
  BY <1>1, <1>2, <1>3, <1>4, <1>5, <1>6 DEF MqttBackground

-----------------------------------------------------------------------------
(* Where in do_cycle what may be in flight. *)

Places == {"pause", "retained", "fetch", "status", "posted", "decide", "free"}

Flight ==
    /\ at \in Places
    /\ xfer.open => at \in {"fetch", "status", "posted"} /\ owned
    /\ mq # "idle" => \/ at = "retained" /\ op = "fetch"
                      \/ at = "posted" /\ op = "publish"
    /\ mq \in Receiving => op = "fetch"
    /\ ht # "idle" => at = "fetch"
    /\ at \in {"decide", "free", "pause"} => link = "idle"

\* Every step keeps it.
LEMMA FlightNext == Flight /\ [Next]_vars => Flight'
<1> SUFFICES ASSUME Flight, [Next]_vars PROVE Flight'
  OBVIOUS
<1> USE DEF Flight, Places, Receiving
<1>1. CASE Join
  BY <1>1 DEF Join, Begin, mqttvars, call, locals, result, flags, inbox, session, server, httpvars
<1>2. CASE GotRetained
  BY <1>2 DEF GotRetained, HttpGet, mqttvars, call, session, httpvars
<1>3. CASE GotFrame
  BY <1>3 DEF GotFrame, mqttvars, call, session, httpvars
<1>4. CASE PostStatus
  BY <1>4 DEF PostStatus, Begin, session, httpvars
<1>5. CASE WifiStop
  BY <1>5 DEF WifiStop, Aborted, Closed, Gone, call
<1>6. CASE Paint
  BY <1>6 DEF Paint, mqttvars, call, session, httpvars
<1>7. CASE Free
  BY <1>7 DEF Free, mqttvars, call, session, httpvars
<1>8. CASE MqttCall /\ UNCHANGED << httpvars, cyclevars >>
  BY <1>8, CallMoves DEF httpvars, cyclevars
<1>9. CASE HttpReturn /\ UNCHANGED << mqttvars, cyclevars >>
  BY <1>9 DEF HttpReturn, mqttvars, call, session, cyclevars
<1>10. CASE (MqttBackground \/ Puback(cycle)) /\ UNCHANGED << httpvars, cyclevars >>
  BY <1>10, BackgroundMoves DEF httpvars, cyclevars
<1>11. CASE RecvFn /\ UNCHANGED << mqttvars, cyclevars >>
  <2>1. xfer.open /\ ht' = ht
    BY <1>11 DEF RecvFn
  <2> QED
    BY <1>11, <2>1 DEF mqttvars, call, session, cyclevars
<1>12. CASE ResultFn /\ UNCHANGED << mqttvars, cyclevars >>
  BY <1>12 DEF ResultFn, Closed, mqttvars, call, session, cyclevars
<1>13. CASE Done \/ UNCHANGED vars
  BY <1>13 DEF Done, vars, mqttvars, call, session, httpvars, cyclevars
<1> QED
  BY <1>1, <1>2, <1>3, <1>4, <1>5, <1>6, <1>7, <1>8, <1>9, <1>10, <1>11, <1>12, <1>13
     DEF Next, Program, Background, HttpBackground

\* It is an invariant.
THEOREM FlightInvariant == Spec => []Flight
<1>1. Init => Flight
  BY DEF Init, MqttInit, HttpInit, Closed, Flight, Places, Receiving
<1> QED
  BY <1>1, FlightNext, PTL DEF Spec

\* net_http.c:93, main.c:75-76, 206: lwIP never writes to memory that do_cycle gave back,
\* and a cycle paints and pauses with nothing in flight.
THEOREM NeverWrittenLate == Spec => []NoLateWrite
<1>1. Flight => NoLateWrite
  BY DEF Flight, Places, NoLateWrite
<1> QED
  BY <1>1, FlightInvariant, PTL

-----------------------------------------------------------------------------
(* What a publish reports. *)

Acked == /\ request => mq = "puback"
         /\ mq = "puback" /\ s_pub_done => status = cycle

\* Every step keeps it.
LEMMA AckedNext == Flight /\ Acked /\ [Next]_vars => Acked'
<1> SUFFICES ASSUME Flight, Acked, [Next]_vars PROVE Acked'
  OBVIOUS
<1> USE DEF Acked
<1>1. CASE Join
  BY <1>1 DEF Join, Begin, Flight, mqttvars, call, flags, session, server
<1>2. CASE GotRetained \/ GotFrame \/ Paint \/ Free
  BY <1>2 DEF GotRetained, GotFrame, Paint, Free, mqttvars, call, flags, session, server
<1>3. CASE PostStatus
  BY <1>3 DEF PostStatus, Begin, flags, session
<1>4. CASE WifiStop
  BY <1>4 DEF WifiStop, Gone, call, server
<1>5. CASE MqttCall /\ UNCHANGED << httpvars, cyclevars >>
  BY <1>5, CallMoves DEF cyclevars
<1>6. CASE (MqttBackground \/ Puback(cycle)) /\ UNCHANGED << httpvars, cyclevars >>
  BY <1>6, BackgroundMoves DEF cyclevars
<1>7. CASE UNCHANGED << mqttvars, cyclevars >>
  BY <1>7 DEF mqttvars, call, flags, session, server, cyclevars
<1> QED
  BY <1>1, <1>2, <1>3, <1>4, <1>5, <1>6, <1>7
     DEF Next, Program, Background, Done, vars

\* net_mqtt.c:290-300: whatever an earlier cycle left behind, a publish that is reported as
\* done put this cycle's status at the broker.
THEOREM PublishedIsAckedHolds == Spec => PublishedIsAcked
<1>1. Init => Acked
  BY DEF Init, MqttInit, Acked
<1>2. Acked /\ [Next]_vars =>
          [at = "posted" /\ mq = "puback" /\ mq' = "idle" /\ ok' => status = cycle]_vars
  <2> SUFFICES ASSUME Acked, [Next]_vars, mq = "puback", mq' = "idle", ok'
               PROVE  status = cycle
    OBVIOUS
  <2>1. CASE MqttCall
    BY <2>1, CallMoves DEF Acked
  <2>2. CASE MqttBackground \/ Puback(cycle)
    BY <2>2, BackgroundMoves
  <2>3. CASE UNCHANGED mqttvars
    BY <2>3 DEF mqttvars, call
  <2>4. CASE Join \/ PostStatus \/ WifiStop
    BY <2>4 DEF Join, Begin, PostStatus, WifiStop, mqttvars, call
  <2> QED
    BY <2>1, <2>2, <2>3, <2>4
       DEF Next, Program, Background, Done, vars, GotRetained, GotFrame, Paint, Free
<1> QED
  BY <1>1, <1>2, AckedNext, FlightInvariant, PTL DEF Spec, PublishedIsAcked

-----------------------------------------------------------------------------
(* What is in the frame's memory. *)

\* What the pieces so far are: those of the URL, in order; whether the transfer that
\* http_get waits for is over; what was accepted.
Contents ==
    /\ s_len \in 0..Need /\ (s_overflow => s_len = Need)
    /\ mem = [i \in 1..Need |-> mem[i]]
    /\ at = "fetch" =>
          /\ \A i \in 1..s_len : mem[i] = <<url, i>>
          /\ xfer.open => xfer.of = url /\ (s_overflow \/ xfer.sent = s_len) /\ ~s_done
          /\ fetched => s_done
    /\ frame => /\ at \in {"status", "posted", "decide", "free"} /\ ~xfer.open
                /\ \A i \in 1..Need : mem[i] = <<url, i>>

\* A step that leaves HTTP and the cycle alone, and the URL while it matters.
LEMMA ContentsStay ==
    ASSUME Contents, UNCHANGED << httpvars, cyclevars >>,
           at = "fetch" \/ frame => url' = url
    PROVE  Contents'
BY DEF Contents, httpvars, cyclevars

\* Every step keeps it.
LEMMA ContentsNext == Flight /\ Contents /\ [Next]_vars => Contents'
<1> SUFFICES ASSUME Flight, Contents, [Next]_vars PROVE Contents'
  OBVIOUS
<1>1. CASE Join
  <2>1. ~frame /\ at' # "fetch" /\ UNCHANGED httpvars /\ frame' = frame
    BY <1>1 DEF Join, Contents
  <2> QED
    BY <2>1 DEF Contents, httpvars
<1>2. CASE GotRetained
  <2>1. ~xfer.open /\ ~frame /\ frame' = frame /\ url' = url
    BY <1>2 DEF GotRetained, Flight, Contents, mqttvars, result
  <2>2. CASE HttpGet(url) /\ at' = "fetch"
    <3>1. /\ s_len' = 0 /\ s_overflow' = FALSE /\ s_done' = FALSE /\ fetched' = FALSE /\ mem' = mem
          /\ xfer' = xfer \/ xfer' = [open |-> TRUE, of |-> url, sent |-> 0]
      BY <2>2 DEF HttpGet
    <3> QED
      BY <2>1, <3>1, NeedAssumption DEF Contents
  <2>3. CASE at' = "status" /\ UNCHANGED httpvars
    BY <2>1, <2>3 DEF Contents, httpvars
  <2> QED
    BY <1>2, <2>2, <2>3 DEF GotRetained
<1>3. CASE GotFrame
  <2>1. /\ at = "fetch" /\ at' = "status" /\ frame' = (fetched /\ s_len = Need)
        /\ UNCHANGED httpvars /\ url' = url
    BY <1>3 DEF GotFrame, Complete, mqttvars, result
  <2> QED
    BY <2>1 DEF Contents, httpvars
<1>4. CASE PostStatus
  <2>1. at' = "posted" /\ url' = url /\ UNCHANGED httpvars /\ frame' = frame
    BY <1>4 DEF PostStatus, Begin
  <2> QED
    BY <2>1 DEF Contents, httpvars
<1>5. CASE WifiStop
  <2>1. /\ at' = "decide" /\ ~xfer'.open /\ url' = url /\ frame' = frame
        /\ UNCHANGED << s_len, s_overflow, mem >>
    BY <1>5 DEF WifiStop, Aborted, Closed, result
  <2> QED
    BY <2>1 DEF Contents
<1>6. CASE Paint
  BY <1>6 DEF Paint, Contents, httpvars, mqttvars, result
<1>7. CASE Free
  BY <1>7 DEF Free, Contents, httpvars
<1>8. CASE MqttCall /\ UNCHANGED << httpvars, cyclevars >>
  <2>1. at = "fetch" \/ frame => url' = url
    BY <1>8, CallMoves DEF Flight, Contents, cyclevars
  <2> QED
    BY <1>8, <2>1, ContentsStay
<1>9. CASE HttpReturn /\ UNCHANGED << mqttvars, cyclevars >>
  <2>1. /\ UNCHANGED << s_len, s_overflow, s_done, mem, xfer, at, frame, url >>
        /\ fetched' = (s_done /\ s_result /\ ~s_overflow)
    BY <1>9 DEF HttpReturn, Fitted, mqttvars, result, cyclevars
  <2> QED
    BY <2>1 DEF Contents
<1>10. CASE (MqttBackground \/ Puback(cycle)) /\ UNCHANGED << httpvars, cyclevars >>
  BY <1>10, BackgroundMoves, ContentsStay
<1>11. CASE RecvFn /\ UNCHANGED << mqttvars, cyclevars >>
  <2>1. /\ xfer.open /\ ~frame /\ xfer' = [xfer EXCEPT !.sent = @ + 1]
        /\ UNCHANGED << s_done, fetched, at, frame, url >>
    BY <1>11 DEF RecvFn, Contents, mqttvars, result, cyclevars
  <2>2. CASE s_len + 1 <= Need
    <3>1. /\ s_len' = s_len + 1 /\ s_overflow' = s_overflow /\ ~s_overflow
          /\ mem' = [mem EXCEPT ![s_len + 1] = <<xfer.of, xfer.sent + 1>>]
      BY <1>11, <2>2, NeedAssumption DEF RecvFn, Contents
    <3>2. s_len' \in 0..Need /\ mem' = [i \in 1..Need |-> mem'[i]]
      <4> DEFINE piece == <<xfer.of, xfer.sent + 1>>
      <4>1. mem = [i \in 1..Need |-> mem[i]] /\ mem' = [mem EXCEPT ![s_len + 1] = piece]
        BY <3>1 DEF Contents
      <4> HIDE DEF piece
      <4>2. DOMAIN mem = 1..Need
        BY <4>1
      <4>3. mem' = [i \in 1..Need |-> IF i = s_len + 1 THEN piece ELSE mem[i]]
        BY <4>1, <4>2
      <4>4. s_len' \in 0..Need
        BY <2>2, <3>1, NeedAssumption DEF Contents
      <4> QED
        BY <4>3, <4>4
    <3>3. ASSUME at = "fetch"
          PROVE  /\ \A i \in 1..s_len' : mem'[i] = <<url, i>>
                 /\ xfer'.open => xfer'.of = url /\ xfer'.sent = s_len' /\ ~s_done
                 /\ fetched => s_done
      <4>1. xfer.of = url /\ xfer.sent = s_len /\ ~s_done /\ (fetched => s_done)
        BY <2>1, <3>1, <3>3 DEF Contents
      <4>2. xfer'.of = url /\ xfer'.sent = s_len'
        BY <2>1, <3>1, <3>3, <4>1 DEF Contents
      <4>3. ASSUME NEW i \in 1..s_len' PROVE mem'[i] = <<url, i>>
        <5>1. s_len + 1 \in 1..Need /\ s_len \in Nat /\ i \in 1..(s_len + 1)
          BY <2>2, <3>1, <4>3, NeedAssumption DEF Contents
        <5>2. CASE i = s_len + 1
          BY <3>1, <4>1, <5>1, <5>2 DEF Contents
        <5>3. CASE i # s_len + 1
          <6>1. i \in 1..s_len
            BY <5>1, <5>3
          <6>2. mem[i] = <<url, i>>
            BY <3>3, <6>1 DEF Contents
          <6>3. mem'[i] = mem[i]
            <7> DEFINE piece == <<xfer.of, xfer.sent + 1>>
            <7>1. mem = [j \in 1..Need |-> mem[j]] /\ mem' = [mem EXCEPT ![s_len + 1] = piece]
              BY <3>1 DEF Contents
            <7> HIDE DEF piece
            <7>2. i \in DOMAIN mem
              BY <5>1, <7>1, NeedAssumption
            <7> QED
              BY <5>3, <7>1, <7>2
          <6> QED
            BY <6>2, <6>3
        <5> QED
          BY <5>2, <5>3
      <4> QED
        BY <4>1, <4>2, <4>3
    <3> QED
      BY <2>1, <3>1, <3>2, <3>3 DEF Contents
  <2>3. CASE ~(s_len + 1 <= Need)
    <3>1. s_overflow' = TRUE /\ s_len' = s_len /\ mem' = mem /\ s_len = Need
      BY <1>11, <2>3, NeedAssumption DEF RecvFn, Contents
    <3>2. xfer.open => xfer'.of = xfer.of
      BY <2>1
    <3> QED
      BY <2>1, <3>1, <3>2 DEF Contents
  <2> QED
    BY <2>2, <2>3
<1>12. CASE ResultFn /\ UNCHANGED << mqttvars, cyclevars >>
  <2>1. /\ ~xfer'.open /\ s_done' = TRUE
        /\ UNCHANGED << s_len, s_overflow, mem, at, frame, url >>
    BY <1>12 DEF ResultFn, Closed, mqttvars, result, cyclevars
  <2> QED
    BY <2>1 DEF Contents
<1>13. CASE Done \/ UNCHANGED vars
  <2>1. UNCHANGED << httpvars, cyclevars >> /\ url' = url
    BY <1>13 DEF Done, vars, mqttvars, result
  <2> QED
    BY <2>1, ContentsStay
<1> QED
  BY <1>1, <1>2, <1>3, <1>4, <1>5, <1>6, <1>7, <1>8, <1>9, <1>10, <1>11, <1>12, <1>13
     DEF Next, Program, Background, HttpBackground

\* net_http.c:92-104, main.c:128: of whatever size frames are, what do_cycle accepts is the
\* whole frame of its URL, and stays that until it has been painted.
THEOREM FetchedIsWholeHolds == Spec => []FetchedIsWhole
<1>1. Init => Contents
  BY NeedAssumption DEF Init, HttpInit, Closed, Contents
<1>2. Contents => FetchedIsWhole
  <2> SUFFICES ASSUME Contents, frame PROVE mem = [i \in 1..Need |-> <<url, i>>]
    BY DEF FetchedIsWhole
  <2>1. /\ mem = [i \in 1..Need |-> mem[i]]
        /\ \A i \in 1..Need : mem[i] = <<url, i>>
    BY DEF Contents
  <2> QED
    BY <2>1
<1> QED
  BY <1>1, <1>2, ContentsNext, FlightInvariant, PTL DEF Spec

-----------------------------------------------------------------------------
(* Types. *)

TypedPlace ==
    /\ mq \in {"idle", "resolve", "dial", "connect", "connack", "subscribe", "frame",
               "readframe", "config", "readconfig", "round", "publish", "puback"}
    /\ op \in {"fetch", "publish"} /\ ok \in BOOLEAN
    /\ got_url \in BOOLEAN /\ got_config \in BOOLEAN /\ t \in 0..Polls /\ grace \in Nat
    /\ mq \in {"readframe", "config", "readconfig", "round"} => t < Polls
TypedFlags ==
    /\ s_conn_done \in BOOLEAN /\ s_conn_status \in {"none", "accepted", "disconnected"}
    /\ s_pub_done \in BOOLEAN
    /\ link \in {"idle", "connecting", "connected"} /\ request \in BOOLEAN
TypedCall   == TypedPlace /\ TypedFlags
TypedResult == url \in 0..Mixed /\ sleep \in 0..Mixed
TypedInbox  == /\ held \in Buffers /\ s_payload \in Buffers
               /\ s_buf \in [Topics -> Buffers] /\ s_ready \in [Topics -> BOOLEAN]
TypedLink   == asked \in Seq(Topics) /\ wire \in Seq(Pubs) /\ part \in Nat /\ subs \subseteq Topics
TypedServer ==
    /\ published \in Seq(Payloads) /\ Len(published) \in Nat /\ Len(published) <= MaxPubs
    /\ retained \in [Topics -> 0..MaxPubs]
    /\ \A w \in Topics : retained[w] # None =>
           retained[w] \in Pubs /\ published[retained[w]].topic = w
    /\ since \in Nat /\ since <= Len(published) + 1
TypedCycle  == /\ at \in Places /\ cycle \in 0..MaxCycles /\ owned \in BOOLEAN
               /\ last \in 0..Mixed /\ frame \in BOOLEAN /\ status \in Nat

MqttTyped == TypedCall /\ TypedResult /\ TypedInbox /\ TypedLink /\ TypedServer
Typed     == MqttTyped /\ TypedCycle /\ HttpTypeOK

\* net_mqtt.c:149-153: a fragment goes behind what there is, if there is room for it.
LEMMA KeptIs ==
    ASSUME NEW s \in Buffers, NEW n \in 1..MaxPubs, NEW p \in Nat, NEW k \in Nat
    PROVE  LET v == Kept(s, Units(n, p, k))
           IN /\ v \in Buffers /\ Len(s) \in Nat /\ Len(v) \in Nat
              /\ Len(v) = IF Len(s) + k < Room THEN Len(s) + k ELSE Len(s)
              /\ \A i \in 1..Len(s) : v[i] = s[i]
              /\ \A i \in 1..Len(v) : i > Len(s) => v[i] = <<n, p + (i - Len(s))>>
<1> DEFINE T == (1..MaxPubs) \X Nat
           d == Units(n, p, k)
           v == Kept(s, d)
<1>1. s \in Seq(T) /\ Len(s) \in Nat /\ Len(s) < Room
  BY LenProperties DEF Buffers
<1>2. d \in Seq(T) /\ Len(d) = k /\ \A i \in 1..k : d[i] = <<n, p + i>>
  <2>1. \A i \in 1..k : <<n, p + i>> \in T
    OBVIOUS
  <2> QED
    BY <2>1 DEF Units
<1> HIDE DEF T, d
<1>3. CASE Len(s) + k < Room
  <2>1. v = s \o d
    BY <1>2, <1>3 DEF Kept
  <2> HIDE DEF v
  <2>a. /\ s \o d \in Seq(T) /\ Len(s \o d) = Len(s) + Len(d)
        /\ \A i \in 1..(Len(s) + Len(d)) :
              (s \o d)[i] = IF i <= Len(s) THEN s[i] ELSE d[i - Len(s)]
    BY <1>1, <1>2, ConcatProperties
  <2>2. /\ v \in Seq(T) /\ Len(v) = Len(s) + k
        /\ \A i \in 1..(Len(s) + k) : v[i] = IF i <= Len(s) THEN s[i] ELSE d[i - Len(s)]
    BY <1>2, <2>1, <2>a
  <2>3. \A i \in 1..Len(s) : v[i] = s[i]
    BY <1>1, <2>2
  <2>4. ASSUME NEW i \in 1..Len(v), i > Len(s) PROVE v[i] = <<n, p + (i - Len(s))>>
    <3>1. v[i] = d[i - Len(s)] /\ i - Len(s) \in 1..k
      BY <1>1, <2>2, <2>4
    <3> QED
      BY <1>2, <3>1
  <2>5. v \in Buffers
    BY <1>3, <2>2 DEF Buffers, T
  <2> QED
    BY <1>1, <1>3, <2>2, <2>3, <2>4, <2>5 DEF v, d
<1>4. CASE ~(Len(s) + k < Room)
  <2>1. v = s
    BY <1>2, <1>4 DEF Kept
  <2> HIDE DEF v
  <2> QED
    BY <1>1, <1>4, <2>1 DEF v, d
<1> QED
  BY <1>3, <1>4

\* The empty buffer.
LEMMA EmptyTyped == <<>> \in Buffers
<1>1. <<>> \in Seq((1..MaxPubs) \X Nat) /\ Len(<<>>) = 0 /\ 0 < Room
  BY LimitsAssumption
<1> QED
  BY <1>1 DEF Buffers

\* What a buffer is made of is nothing, a publication or a scrap.
LEMMA MadeTyped ==
    ASSUME TypedInbox, NEW w
    PROVE  Made(w) \in 0..Mixed /\ None \in 0..Mixed
<1>1. (1..MaxPubs) \cup Scrap \cup {None} \subseteq 0..Mixed
  BY LimitsAssumption DEF Scrap, Cut, Torn, Mixed, None
<1>2. CASE s_buf[w] # held
  BY <1>1, <1>2 DEF Made, Scrap
<1>3. CASE s_buf[w] = held /\ held = <<>>
  BY <1>1, <1>3 DEF Made
<1>4. CASE s_buf[w] = held /\ held # <<>>
  <2>1. held \in Seq((1..MaxPubs) \X Nat)
    BY DEF TypedInbox, Buffers
  <2>2. 1 \in 1..Len(held)
    BY <1>4, <2>1, EmptySeq, LenProperties
  <2>3. held[1] \in (1..MaxPubs) \X Nat
    BY <2>1, <2>2, ElementOfSeq
  <2>4. held[1][1] \in 1..MaxPubs
    BY <2>3
  <2>5. Made(w) \in {held[1][1], Cut, Mixed}
    BY <1>4 DEF Made
  <2> QED
    BY <1>1, <2>4, <2>5 DEF Scrap
<1> QED
  BY <1>1, <1>2, <1>3, <1>4

\* Every step of a call keeps the types.
LEMMA CallTyped == ASSUME MqttTyped, MqttCall PROVE MqttTyped'
<1> USE DEF MqttTyped
<1>a. Len(asked) \in Nat /\ <<>> \in Seq(Topics) /\ <<>> \in Seq(Pubs) /\ 0 \in Nat
  BY EmptySeq DEF TypedLink
<1> DEFINE Link == UNCHANGED << asked, wire, part, subs >>
           Dropped == asked' = <<>> /\ wire' = <<>> /\ part' = 0 /\ subs' = {}
<1>b. (Link \/ Dropped) /\ UNCHANGED published => TypedLink'
  BY <1>a DEF TypedLink, Pubs
<1>c. UNCHANGED << published, retained, since >> => TypedServer'
  BY DEF TypedServer, Pubs
<1>d. UNCHANGED << held, inbox >> => TypedInbox'
  BY DEF TypedInbox, inbox
<1>e. held' = <<>> /\ UNCHANGED inbox => TypedInbox'
  BY EmptyTyped DEF TypedInbox, inbox
<1>f. UNCHANGED << url, sleep >> => TypedResult'
  BY DEF TypedResult
<1> HIDE DEF MqttTyped, Link, Dropped
<1>g. /\ TypedPlace /\ TypedFlags
      /\ TypedResult /\ TypedInbox /\ TypedLink /\ TypedServer
  BY DEF MqttTyped, TypedCall
<1>h. 0 \in 0..Polls
  BY LimitsAssumption
<1>i. ASSUME NEW to \in {"dial", "connect", "connack", "subscribe", "frame", "publish", "puback"},
             Go(to)
      PROVE  TypedPlace' /\ held' = held
  BY <1>g, <1>i DEF Go, locals, TypedPlace
<1>j. ASSUME NEW r \in BOOLEAN, Return(r)
      PROVE  TypedPlace' /\ held' = <<>>
  BY <1>g, <1>h, <1>j DEF Return, NoLocals, TypedPlace
<1>1. CASE Resolve
  <2>1. TypedPlace' /\ (held' = held \/ held' = <<>>)
    BY <1>1, <1>i, <1>j DEF Resolve
  <2>2. UNCHANGED << url, sleep, published, retained, since, inbox >> /\ Link /\ TypedFlags'
    BY <1>1, <1>g DEF Resolve, result, server, session, flags, Link, TypedFlags
  <2> QED
    BY <1>b, <1>c, <1>d, <1>e, <1>f, <2>1, <2>2 DEF MqttTyped, TypedCall
<1>2. CASE Dial
  <2>1. TypedPlace' /\ held' = held
    BY <1>2, <1>i DEF Dial
  <2>2. UNCHANGED << url, sleep, published, retained, since, inbox >> /\ Link /\ TypedFlags'
    BY <1>2, <1>g DEF Dial, result, server, session, Link, TypedFlags
  <2> QED
    BY <1>b, <1>c, <1>d, <1>f, <2>1, <2>2 DEF MqttTyped, TypedCall
<1>3. CASE Connect
  <2>1. TypedPlace' /\ (held' = held \/ held' = <<>>)
    BY <1>3, <1>i, <1>j DEF Connect
  <2>2. UNCHANGED << url, sleep, published, retained, since, inbox >> /\ Link /\ TypedFlags'
    BY <1>3, <1>g DEF Connect, result, server, flags, Link, TypedFlags
  <2> QED
    BY <1>b, <1>c, <1>d, <1>e, <1>f, <2>1, <2>2 DEF MqttTyped, TypedCall
<1>4. CASE Connected
  <2>1. TypedPlace' /\ (held' = held \/ held' = <<>>)
    BY <1>4, <1>i, <1>j DEF Connected
  <2>2. UNCHANGED << url, sleep, published, retained, since, inbox >> /\ Link /\ TypedFlags'
    BY <1>4, <1>g DEF Connected, result, server, session, flags, Link, TypedFlags
  <2> QED
    BY <1>b, <1>c, <1>d, <1>e, <1>f, <2>1, <2>2 DEF MqttTyped, TypedCall
<1>5. CASE Subscribe
  <2>1. TypedCall'
    BY <1>5, <1>g DEF Subscribe, TypedCall, TypedPlace, TypedFlags, Go, flags, locals
  <2>2. UNCHANGED << url, sleep, published, retained, since, held, s_payload, s_buf, wire, part,
                     subs >>
    BY <1>5 DEF Subscribe, Go, result, server, locals
  <2>3. asked' \in Seq(Topics)
    <3>1. <<"frame", "config">> \in Seq(Topics)
      BY DEF Topics
    <3> QED
      BY <1>5, <1>a, <3>1 DEF Subscribe
  <2>4. TypedLink'
    BY <1>g, <2>2, <2>3 DEF TypedLink, Pubs
  <2>5. TypedInbox'
    BY <1>5, <1>g, <2>2 DEF Subscribe, TypedInbox
  <2> QED
    BY <1>c, <1>f, <2>1, <2>2, <2>4, <2>5 DEF MqttTyped
<1>6. ASSUME NEW w \in Topics, NEW read \in {"readframe", "readconfig"},
             NEW next \in {"config", "round"},
             Look(w, read, next), t < Polls
      PROVE  MqttTyped'
  <2>1. TypedCall'
    BY <1>6, <1>g DEF Look, TypedCall, TypedPlace, TypedFlags, Go, flags, session, locals
  <2>2. UNCHANGED << url, sleep, published, retained, since, s_payload, s_buf >> /\ Link
    BY <1>6 DEF Look, result, server, session, Link
  <2>3. TypedInbox'
    BY <1>6, <1>g DEF Look, Go, TypedInbox, locals
  <2> QED
    BY <1>b, <1>c, <1>f, <2>1, <2>2, <2>3 DEF MqttTyped
<1>7. CASE LookFrame \/ LookConfig
  <2>1. t < Polls
    BY <1>7, <1>g DEF LookFrame, LookConfig, Look, TypedPlace
  <2> QED
    BY <1>6, <1>7, <2>1 DEF LookFrame, LookConfig, Topics
<1>8. CASE ReadFrame
  <2>1. PICK found \in Finds(Made("frame"), "url") :
           /\ got_url' = (got_url \/ found)
           /\ url' \in IF found THEN {Made("frame")} ELSE Unfound(Made("frame"))
    BY <1>8 DEF ReadFrame
  <2>2. Made("frame") \in 0..Mixed /\ None \in 0..Mixed
    BY <1>g, MadeTyped
  <2>3. TypedResult'
    <3>1. url' \in {Made("frame"), None, url}
      BY <2>1 DEF Unfound
    <3>2. sleep' = sleep
      BY <1>8 DEF ReadFrame
    <3> QED
      BY <1>g, <2>2, <3>1, <3>2 DEF TypedResult
  <2>4. got_url' \in BOOLEAN
    BY <1>g, <2>1 DEF Finds, TypedPlace
  <2>5. TypedCall'
    BY <1>8, <1>g, <2>4 DEF ReadFrame, TypedCall, TypedPlace, TypedFlags, flags, session
  <2>6. UNCHANGED << published, retained, since, inbox >> /\ Link /\ held' = <<>>
    BY <1>8 DEF ReadFrame, server, session, Link
  <2> QED
    BY <1>b, <1>c, <1>e, <2>3, <2>5, <2>6 DEF MqttTyped
<1>9. CASE ReadConfig
  <2>1. PICK found \in Finds(Made("config"), "interval") :
           sleep' = IF found THEN Made("config") ELSE sleep
    BY <1>9 DEF ReadConfig
  <2>2. Made("config") \in 0..Mixed
    BY <1>g, MadeTyped
  <2>3. TypedResult'
    BY <1>9, <1>g, <2>1, <2>2 DEF ReadConfig, TypedResult
  <2>5. TypedCall'
    BY <1>9, <1>g DEF ReadConfig, TypedCall, TypedPlace, TypedFlags, flags, session
  <2>6. UNCHANGED << published, retained, since, inbox >> /\ Link /\ held' = <<>>
    BY <1>9 DEF ReadConfig, server, session, Link
  <2> QED
    BY <1>b, <1>c, <1>e, <2>3, <2>5, <2>6 DEF MqttTyped
<1>10. CASE Round
  <2>1. TypedCall'
    BY <1>10, <1>g, LimitsAssumption DEF Round, TypedCall, TypedPlace, TypedFlags, flags, session
  <2>2. UNCHANGED << url, sleep, published, retained, since, inbox, held >> /\ Link
    BY <1>10 DEF Round, result, server, session, Link
  <2> QED
    BY <1>b, <1>c, <1>d, <1>f, <2>1, <2>2 DEF MqttTyped
<1>11. CASE Fetched
  <2>1. TypedCall'
    BY <1>11, <1>g, <1>h
       DEF Fetched, TypedCall, TypedPlace, TypedFlags, Return, NoLocals, flags, Gone
  <2>2. UNCHANGED << url, sleep, published, retained, since, inbox >> /\ Dropped /\ held' = <<>>
    BY <1>11 DEF Fetched, Return, NoLocals, result, server, Gone, Dropped
  <2>3. UNCHANGED published
    BY <2>2
  <2> QED
    BY <1>b, <1>c, <1>e, <1>f, <2>1, <2>2, <2>3 DEF MqttTyped
<1>12. CASE Publish
  <2>1. TypedPlace' /\ (held' = held \/ held' = <<>>)
    BY <1>12, <1>i, <1>j DEF Publish
  <2>2. UNCHANGED << url, sleep, published, retained, since, inbox >> /\ (Link \/ Dropped)
    BY <1>12 DEF Publish, result, server, Gone, Link, Dropped
  <2>3. TypedFlags'
    BY <1>12, <1>g DEF Publish, Unacked, Gone, TypedFlags
  <2> QED
    BY <1>b, <1>c, <1>d, <1>e, <1>f, <2>1, <2>2, <2>3 DEF MqttTyped, TypedCall
<1>13. CASE Published
  <2>1. TypedCall'
    BY <1>13, <1>g, <1>h
       DEF Published, TypedCall, TypedPlace, TypedFlags, Return, NoLocals, flags, Gone
  <2>2. UNCHANGED << url, sleep, published, retained, since, inbox >> /\ Dropped /\ held' = <<>>
    BY <1>13 DEF Published, Return, NoLocals, result, server, Gone, Dropped
  <2>3. UNCHANGED published
    BY <2>2
  <2> QED
    BY <1>b, <1>c, <1>e, <1>f, <2>1, <2>2, <2>3 DEF MqttTyped
<1> QED
  BY <1>1, <1>2, <1>3, <1>4, <1>5, <1>7, <1>8, <1>9, <1>10, <1>11, <1>12, <1>13 DEF MqttCall

\* lwIP, the broker and the server keep the types.
LEMMA BackgroundTyped ==
    ASSUME MqttTyped, MqttBackground \/ Puback(cycle)
    PROVE  MqttTyped'
<1> USE DEF call, locals, result, flags, inbox, session, server
<1>a. TypedPlace /\ TypedFlags /\ TypedResult /\ TypedInbox /\ TypedLink /\ TypedServer
  BY DEF MqttTyped, TypedCall
<1>b. UNCHANGED << call, locals >> => TypedPlace' /\ held' = held
  BY <1>a DEF TypedPlace
<1>c. UNCHANGED result => TypedResult'
  BY <1>a DEF TypedResult
<1>d. UNCHANGED << inbox, held >> => TypedInbox'
  BY <1>a DEF TypedInbox
<1>e. UNCHANGED << asked, wire, part, subs, published >> => TypedLink'
  BY <1>a DEF TypedLink, Pubs
<1>f. asked' = <<>> /\ wire' = <<>> /\ part' = 0 /\ subs' = {} => TypedLink'
  BY EmptySeq DEF TypedLink
<1>g. UNCHANGED << published, retained, since >> => TypedServer'
  BY <1>a DEF TypedServer, Pubs
<1>1. CASE Accept \/ Puback(cycle)
  <2>1. TypedFlags'
    BY <1>1, <1>a DEF Accept, Puback, TypedFlags
  <2>2. /\ UNCHANGED << call, locals >> /\ UNCHANGED result /\ UNCHANGED << inbox, held >>
        /\ UNCHANGED << asked, wire, part, subs, published >>
        /\ UNCHANGED << published, retained, since >>
    BY <1>1 DEF Accept, Puback
  <2> QED
    BY <1>b, <1>c, <1>d, <1>e, <1>g, <2>1, <2>2 DEF MqttTyped, TypedCall
<1>2. CASE Lose
  <2>1. TypedFlags'
    BY <1>2, <1>a DEF Lose, Gone, TypedFlags
  <2>2. /\ UNCHANGED << call, locals >> /\ UNCHANGED result /\ UNCHANGED << inbox, held >>
        /\ UNCHANGED << published, retained, since >>
        /\ asked' = <<>> /\ wire' = <<>> /\ part' = 0 /\ subs' = {}
    BY <1>2 DEF Lose, Gone
  <2> QED
    BY <1>b, <1>c, <1>d, <1>f, <1>g, <2>1, <2>2 DEF MqttTyped, TypedCall
<1>3. CASE Fragment
  <2> DEFINE n == Head(wire)
             w == published[n].topic
             left == published[n].size - part
  <2>1. PICK k \in IF left = 0 THEN {0} ELSE 1..left :
        LET s == Kept(IF part = 0 THEN Start ELSE s_payload, Units(n, part, k))
        IN /\ s_payload' = s
           /\ s_buf' = IF k = left THEN [s_buf EXCEPT ![w] = s] ELSE s_buf
           /\ s_ready' = IF k = left THEN [s_ready EXCEPT ![w] = TRUE] ELSE s_ready
           /\ part' = IF k = left THEN 0 ELSE part + k
           /\ wire' = IF k = left THEN Tail(wire) ELSE wire
    BY <1>3 DEF Fragment
  <2>2. /\ wire # <<>>
        /\ UNCHANGED << call, locals >> /\ UNCHANGED result
        /\ UNCHANGED << asked, subs, published, retained, since >>
        /\ UNCHANGED << flags, link, request >>
    BY <1>3 DEF Fragment
  <2>3. n \in Pubs /\ Tail(wire) \in Seq(Pubs)
    BY <1>a, <2>2, HeadTailProperties DEF TypedLink
  <2>4. n \in 1..MaxPubs /\ part \in Nat
    BY <1>a, <2>3, LimitsAssumption DEF TypedLink, TypedServer, Pubs
  <2>5. published[n].size \in Nat
    <3>1. published[n] \in Payloads
      BY <1>a, <2>3, ElementOfSeq DEF TypedServer, Pubs
    <3> QED
      BY <3>1, PayloadsAssumption
  <2>6. k \in Nat
    BY <2>1, <2>4, <2>5
  <2> DEFINE s == Kept(IF part = 0 THEN Start ELSE s_payload, Units(n, part, k))
  <2>7. s \in Buffers
    <3>1. (IF part = 0 THEN Start ELSE s_payload) \in Buffers
      BY <1>a, EmptyTyped DEF Start, TypedInbox
    <3> QED
      BY <2>4, <2>6, <3>1, KeptIs
  <2>8. /\ s_payload' = s
        /\ s_buf' = IF k = left THEN [s_buf EXCEPT ![w] = s] ELSE s_buf
        /\ s_ready' = IF k = left THEN [s_ready EXCEPT ![w] = TRUE] ELSE s_ready
        /\ part' = IF k = left THEN 0 ELSE part + k
        /\ wire' = IF k = left THEN Tail(wire) ELSE wire
    BY <2>1
  <2> HIDE DEF n, w, left, s
  <2>9. TypedInbox'
    BY <1>a, <2>2, <2>7, <2>8 DEF TypedInbox
  <2>10. TypedLink'
    <3>1. wire' \in Seq(Pubs) /\ part' \in Nat
      BY <1>a, <2>3, <2>4, <2>6, <2>8 DEF TypedLink
    <3> QED
      BY <1>a, <2>2, <3>1 DEF TypedLink, Pubs
  <2>11. TypedFlags'
    BY <1>a, <2>2 DEF TypedFlags
  <2> QED
    BY <1>b, <1>c, <1>g, <2>2, <2>9, <2>10, <2>11 DEF MqttTyped, TypedCall
<1>4. CASE Subscribed
  <2> DEFINE w == Head(asked)
             n == retained[w]
  <2>1. /\ asked # <<>> /\ asked' = Tail(asked) /\ subs' = subs \cup {w}
        /\ wire' = IF n = None THEN wire ELSE Append(wire, n)
        /\ since' = IF w = "config" THEN since ELSE IF n = None THEN Len(published) + 1 ELSE n
        /\ UNCHANGED << call, locals >> /\ UNCHANGED result /\ UNCHANGED << inbox, held >>
        /\ UNCHANGED << flags, link, request >> /\ UNCHANGED << part, published, retained >>
    BY <1>4 DEF Subscribed
  <2>2. w \in Topics /\ Tail(asked) \in Seq(Topics)
    BY <1>a, <2>1, HeadTailProperties DEF TypedLink
  <2>3. n # None => n \in Pubs /\ n \in Nat /\ n <= Len(published)
    BY <1>a, <2>2 DEF TypedServer, Pubs
  <2> HIDE DEF w, n
  <2>4. TypedServer'
    BY <1>a, <2>1, <2>3 DEF TypedServer, Pubs
  <2>5. wire' \in Seq(Pubs)
    BY <1>a, <2>1, <2>3, AppendProperties DEF TypedLink
  <2>6. TypedLink'
    BY <1>a, <2>1, <2>2, <2>5 DEF TypedLink, Pubs
  <2>7. TypedFlags'
    BY <1>a, <2>1 DEF TypedFlags
  <2> QED
    BY <1>b, <1>c, <1>d, <2>1, <2>4, <2>6, <2>7 DEF MqttTyped, TypedCall
<1>5. CASE \E p \in Payloads : ServerPublish(p)
  <2>1. PICK p \in Payloads : ServerPublish(p)
    BY <1>5
  <2> DEFINE n == Len(published) + 1
  <2>2. /\ Len(published) < MaxPubs /\ published' = Append(published, p)
        /\ retained' = [retained EXCEPT ![p.topic] = IF p.size = 0 THEN None ELSE n]
        /\ wire' = IF p.topic \in subs THEN Append(wire, n) ELSE wire
        /\ UNCHANGED << call, locals >> /\ UNCHANGED result /\ UNCHANGED << inbox, held >>
        /\ UNCHANGED << flags, link, request >> /\ UNCHANGED << asked, part, subs, since >>
    BY <2>1 DEF ServerPublish
  <2>3. p.topic \in Topics
    BY PayloadsAssumption
  <2>4. /\ published' \in Seq(Payloads) /\ Len(published') = Len(published) + 1
        /\ \A i \in Pubs : published'[i] = published[i]
        /\ published'[n] = p
    BY <1>a, <2>2, AppendProperties DEF TypedServer, Pubs
  <2>5. n \in Nat /\ n <= MaxPubs /\ n \in Pubs' /\ Pubs \subseteq Pubs'
    BY <1>a, <2>2, <2>4, LimitsAssumption DEF TypedServer, Pubs
  <2> HIDE DEF n
  <2>6. wire' \in Seq(Pubs')
    <3>1. wire \in Seq(Pubs')
      BY <1>a, <2>5, SeqMonotonic DEF TypedLink
    <3> QED
      BY <2>2, <2>5, <3>1, AppendProperties
  <2>7. TypedLink'
    BY <1>a, <2>2, <2>6 DEF TypedLink
  <2>8. retained' \in [Topics -> 0..MaxPubs]
    BY <1>a, <2>2, <2>3, <2>5, LimitsAssumption DEF TypedServer, None
  <2>9. ASSUME NEW w \in Topics, retained'[w] # None
        PROVE  retained'[w] \in Pubs' /\ published'[retained'[w]].topic = w
    <3>1. CASE w = p.topic
      BY <1>a, <2>2, <2>3, <2>4, <2>5, <2>9, <3>1 DEF TypedServer
    <3>2. CASE w # p.topic
      <4>1. retained'[w] = retained[w]
        BY <1>a, <2>2, <2>3, <3>2 DEF TypedServer
      <4> QED
        BY <1>a, <2>4, <2>5, <2>9, <4>1 DEF TypedServer
    <3> QED
      BY <3>1, <3>2
  <2>10. TypedServer'
    <3>1. Len(published') \in Nat /\ Len(published') <= MaxPubs
      BY <1>a, <2>2, <2>4, LimitsAssumption DEF TypedServer
    <3>2. since' \in Nat /\ since' <= Len(published') + 1
      BY <1>a, <2>2, <2>4, <3>1 DEF TypedServer
    <3> QED
      BY <2>4, <2>8, <2>9, <3>1, <3>2 DEF TypedServer
  <2>11. TypedFlags'
    BY <1>a, <2>2 DEF TypedFlags
  <2> QED
    BY <1>b, <1>c, <1>d, <2>2, <2>7, <2>10, <2>11 DEF MqttTyped, TypedCall
<1> QED
  BY <1>1, <1>2, <1>3, <1>4, <1>5 DEF MqttBackground

\* net_mqtt.c's state when nothing in it changes.
LEMMA MqttStays == ASSUME MqttTyped, UNCHANGED mqttvars PROVE MqttTyped'
<1> USE DEF mqttvars, call, locals, result, flags, inbox, session, server
<1>1. TypedCall'
  BY DEF MqttTyped, TypedCall, TypedPlace, TypedFlags
<1>2. TypedResult' /\ TypedInbox'
  BY DEF MqttTyped, TypedResult, TypedInbox
<1>3. TypedLink' /\ TypedServer'
  BY DEF MqttTyped, TypedLink, TypedServer, Pubs
<1> QED
  BY <1>1, <1>2, <1>3 DEF MqttTyped

\* A call begins.
LEMMA BeginTyped ==
    ASSUME MqttTyped, NEW o \in {"fetch", "publish"}, Begin(o)
    PROVE  MqttTyped' /\ status' = status
<1> USE DEF Begin, locals, flags, inbox, session
<1>1. TypedCall'
  BY DEF MqttTyped, TypedCall, TypedPlace, TypedFlags
<1>2. TypedInbox'
  BY DEF MqttTyped, TypedInbox
<1>3. TypedResult'
  BY LimitsAssumption DEF MqttTyped, TypedResult, None, Mixed
<1>4. TypedLink'
  BY DEF MqttTyped, TypedLink, Pubs
<1>5. TypedServer'
  <2>1. since' \in {since, 0} /\ UNCHANGED << published, retained >>
    OBVIOUS
  <2> QED
    BY <2>1 DEF MqttTyped, TypedServer, Pubs
<1> QED
  BY <1>1, <1>2, <1>3, <1>4, <1>5 DEF MqttTyped

\* wifi_stop.
LEMMA StopTyped == ASSUME MqttTyped, WifiStop PROVE MqttTyped'
<1> USE DEF WifiStop, Gone, call, locals, result, inbox, server
<1>1. TypedCall'
  BY DEF MqttTyped, TypedCall, TypedPlace, TypedFlags
<1>2. TypedResult' /\ TypedInbox'
  BY DEF MqttTyped, TypedResult, TypedInbox
<1>3. TypedServer'
  BY DEF MqttTyped, TypedServer, Pubs
<1>4. TypedLink'
  BY EmptySeq DEF TypedLink
<1> QED
  BY <1>1, <1>2, <1>3, <1>4 DEF MqttTyped

\* Every step keeps the types.
LEMMA TypedNext == Typed /\ [Next]_vars => Typed'
<1> SUFFICES ASSUME Typed, [Next]_vars PROVE Typed'
  OBVIOUS
<1> USE DEF Typed
<1>a. UNCHANGED httpvars => HttpTypeOK'
  BY DEF HttpTypeOK, httpvars
<1>b. /\ UNCHANGED cyclevars /\ status' = status => TypedCycle'
      /\ UNCHANGED mqttvars => status' = status
  BY DEF TypedCycle, cyclevars, mqttvars, server
<1>1. CASE Join
  <2>1. MqttTyped' /\ status' = status
    BY <1>1, <1>b, BeginTyped, MqttStays DEF Join
  <2>2. TypedCycle'
    BY <1>1, <2>1, CyclesAssumption DEF Join, TypedCycle, Places
  <2> QED
    BY <1>1, <1>a, <2>1, <2>2 DEF Join
<1>2. CASE GotRetained
  <2>1. MqttTyped' /\ status' = status
    BY <1>2, <1>b, MqttStays DEF GotRetained
  <2>2. TypedCycle'
    BY <1>2, <2>1 DEF GotRetained, TypedCycle, Places
  <2>3. CASE HttpGet(url)
    <3>1. url \in Nat
      BY DEF MqttTyped, TypedResult
    <3>2. [open |-> TRUE, of |-> url, sent |-> 0] \in [open: BOOLEAN, of: Nat, sent: 0..(Need + 1)]
      BY <3>1, NeedAssumption
    <3>3. xfer' \in [open: BOOLEAN, of: Nat, sent: 0..(Need + 1)]
      BY <2>3, <3>2 DEF HttpGet, HttpTypeOK
    <3>4. s_len' \in 0..Need /\ mem' \in [1..Need -> Nat \X Nat] /\ ht' \in {"idle", "wait"}
      BY <2>3, NeedAssumption DEF HttpGet, HttpTypeOK
    <3>5. s_overflow' = FALSE /\ s_done' = FALSE /\ s_result' = FALSE /\ fetched' = FALSE
      BY <2>3 DEF HttpGet
    <3>6. HttpTypeOK'
      BY <3>3, <3>4, <3>5 DEF HttpTypeOK
    <3> QED
      BY <2>1, <2>2, <3>6
  <2>4. CASE UNCHANGED httpvars
    BY <1>a, <2>1, <2>2, <2>4
  <2> QED
    BY <1>2, <2>3, <2>4 DEF GotRetained
<1>3. CASE GotFrame
  <2>1. frame' \in BOOLEAN
    BY <1>3 DEF GotFrame, Complete, HttpTypeOK
  <2>2. TypedCycle'
    BY <1>3, <1>b, <2>1 DEF GotFrame, TypedCycle, Places
  <2> QED
    BY <1>3, <1>a, <2>2, MqttStays DEF GotFrame
<1>4. CASE PostStatus
  <2>1. MqttTyped' /\ status' = status
    BY <1>4, BeginTyped DEF PostStatus
  <2>2. TypedCycle'
    BY <1>4, <2>1 DEF PostStatus, TypedCycle, Places
  <2> QED
    BY <1>4, <1>a, <2>1, <2>2 DEF PostStatus
<1>5. CASE WifiStop
  <2>1. TypedCycle'
    BY <1>5 DEF WifiStop, TypedCycle, Places, server
  <2>2. HttpTypeOK'
    BY <1>5, NeedAssumption DEF WifiStop, Aborted, Closed, HttpTypeOK
  <2> QED
    BY <1>5, <2>1, <2>2, StopTyped
<1>6. CASE Paint \/ Free
  <2>1. UNCHANGED mqttvars /\ UNCHANGED httpvars
    BY <1>6 DEF Paint, Free
  <2>2. url \in 0..Mixed
    BY DEF MqttTyped, TypedResult
  <2>3. TypedCycle'
    BY <1>6, <1>b, <2>1, <2>2 DEF Paint, Free, TypedCycle, Places
  <2> QED
    BY <1>a, <2>1, <2>3, MqttStays
<1>7. CASE MqttCall /\ UNCHANGED << httpvars, cyclevars >>
  BY <1>7, <1>a, <1>b, CallTyped, CallMoves
<1>8. CASE (MqttBackground \/ Puback(cycle)) /\ UNCHANGED << httpvars, cyclevars >>
  <2>1. MqttTyped' /\ UNCHANGED httpvars /\ UNCHANGED cyclevars
    BY <1>8, BackgroundTyped
  <2>2. status' \in {status, cycle}
    BY <1>8, BackgroundMoves
  <2>3. TypedCycle'
    BY <2>1, <2>2, CyclesAssumption DEF TypedCycle, cyclevars
  <2> QED
    BY <1>a, <2>1, <2>3
<1>9. CASE (HttpReturn \/ RecvFn \/ ResultFn) /\ UNCHANGED << mqttvars, cyclevars >>
  <2>1. MqttTyped' /\ TypedCycle'
    BY <1>9, <1>b, MqttStays
  <2>2. CASE HttpReturn
    BY <2>1, <2>2 DEF HttpReturn, Fitted, HttpTypeOK
  <2>3. CASE ResultFn
    BY <2>1, <2>3, NeedAssumption DEF ResultFn, Closed, HttpTypeOK
  <2>4. CASE RecvFn
    <3>1. s_len \in 0..Need /\ xfer \in [open: BOOLEAN, of: Nat, sent: 0..(Need + 1)]
      BY DEF HttpTypeOK
    <3> DEFINE piece == <<xfer.of, xfer.sent + 1>>
    <3>2. piece \in Nat \X Nat
      BY <3>1, NeedAssumption
    <3>3. xfer' \in [open: BOOLEAN, of: Nat, sent: 0..(Need + 1)]
      BY <2>4, <3>1, NeedAssumption DEF RecvFn
    <3> HIDE DEF piece
    <3>4. /\ \/ s_len + 1 <= Need /\ s_len' = s_len + 1 /\ s_overflow' = s_overflow
                /\ mem' = [mem EXCEPT ![s_len + 1] = piece]
             \/ s_overflow' = TRUE /\ s_len' = s_len /\ mem' = mem
          /\ UNCHANGED << ht, fetched, s_done, s_result >>
      BY <2>4 DEF RecvFn, piece
    <3>5. s_len' \in 0..Need /\ s_overflow' \in BOOLEAN
      <4>1. s_len' \in 0..Need
        BY <3>1, <3>4, NeedAssumption
      <4>2. s_overflow \in BOOLEAN
        BY DEF HttpTypeOK
      <4> QED
        BY <3>4, <4>1, <4>2
    <3>6. mem' \in [1..Need -> Nat \X Nat]
      BY <3>2, <3>4 DEF HttpTypeOK
    <3> QED
      BY <2>1, <3>3, <3>4, <3>5, <3>6 DEF HttpTypeOK
  <2> QED
    BY <1>9, <2>2, <2>3, <2>4
<1>10. CASE UNCHANGED vars
  <2>1. UNCHANGED mqttvars /\ UNCHANGED httpvars /\ UNCHANGED cyclevars
    BY <1>10 DEF vars
  <2> QED
    BY <1>a, <1>b, <2>1, MqttStays
<1> QED
  BY <1>1, <1>2, <1>3, <1>4, <1>5, <1>6, <1>7, <1>8, <1>9, <1>10
     DEF Next, Program, Background, HttpBackground, Done

\* The initial state has them.
LEMMA TypedInit == Init => Typed
<1> SUFFICES ASSUME Init PROVE Typed
  OBVIOUS
<1> USE DEF Init, MqttInit, HttpInit
<1>1. TypedCall
  <2>1. TypedPlace
    <3>1. t \in 0..Polls /\ grace \in Nat
      BY LimitsAssumption
    <3> QED
      BY <3>1 DEF TypedPlace
  <2>2. TypedFlags
    BY DEF TypedFlags
  <2> QED
    BY <2>1, <2>2 DEF TypedCall
<1>2. TypedResult
  BY LimitsAssumption DEF TypedResult, None, Mixed
<1>3. TypedInbox
  BY EmptyTyped DEF TypedInbox
<1>4. TypedLink
  BY EmptySeq DEF TypedLink
<1>5. TypedServer
  <2>1. published \in Seq(Payloads) /\ Len(published) = 0
    BY EmptySeq
  <2> QED
    BY <2>1, LimitsAssumption DEF TypedServer, None
<1>6. TypedCycle
  <2>1. cycle \in 0..MaxCycles /\ last \in 0..Mixed /\ status \in Nat
    BY LimitsAssumption, CyclesAssumption DEF None, Mixed
  <2> QED
    BY <2>1 DEF TypedCycle, Places
<1>7. HttpTypeOK
  <2>1. Junk \in Nat \X Nat
    BY DEF Junk
  <2> HIDE DEF Junk
  <2>2. s_len \in 0..Need /\ mem \in [1..Need -> Nat \X Nat]
    BY <2>1, NeedAssumption
  <2>3. xfer \in [open: BOOLEAN, of: Nat, sent: 0..(Need + 1)]
    BY NeedAssumption DEF Closed
  <2> QED
    BY <2>2, <2>3 DEF HttpTypeOK
<1> QED
  BY <1>1, <1>2, <1>3, <1>4, <1>5, <1>6, <1>7 DEF Typed, MqttTyped

\* The types hold, whatever is published and however long the awake loop runs.
THEOREM TypeCorrect == Spec => []TypeOK
<1>1. Typed => TypeOK
  <2> SUFFICES ASSUME Typed PROVE TypeOK
    OBVIOUS
  <2>1. MqttTypeOK
    <3>1. since \in 0..(MaxPubs + 1)
      BY LimitsAssumption DEF Typed, MqttTyped, TypedServer
    <3>2. /\ published \in Seq(Payloads) /\ Len(published) <= MaxPubs
          /\ retained \in [Topics -> 0..MaxPubs]
      BY DEF Typed, MqttTyped, TypedServer
    <3>3. status \in Nat
      BY DEF Typed, TypedCycle
    <3> QED
      BY <3>1, <3>2, <3>3
         DEF MqttTypeOK, Typed, MqttTyped, TypedCall, TypedPlace, TypedFlags, TypedResult,
             TypedInbox, TypedLink
  <2> QED
    BY <2>1 DEF TypeOK, Typed, TypedCycle, Places
<1> QED
  BY <1>1, TypedInit, TypedNext, PTL DEF Spec

-----------------------------------------------------------------------------
(* What a session takes from the broker. *)

Dialling == {"resolve", "dial", "connect", "connack", "subscribe"}
Looping  == {"frame", "readframe", "config", "readconfig", "round"}

\* What a buffer may hold after the first p units of a publication: some of them, and if
\* the publication fits, all of them.
Of(n, p, s) == /\ s \in Buffers
               /\ \A i \in 1..Len(s) : s[i][1] = n
               /\ published[n].size < Room => Len(s) = p /\ \A i \in 1..p : s[i] = <<n, i>>

\* A publication that the session may deliver, older than all that is on its way.
Past(w, n) == /\ Delivers(w, n)
              /\ \A i \in 1..Len(wire) : published[wire[i]].topic = w => n < wire[i]

\* A buffer holds what such a publication left in it.
Holds(w, s) == \E n \in Pubs : Past(w, n) /\ Of(n, published[n].size, s)

\* A buffer is read: it still holds what it did, or one more message has come.
Reads(w) == Holds(w, held) /\ (s_buf[w] = held \/ Several(w))

\* A value found comes from one whole message, or there is a reason why not.
Right(w, x) == \/ x = None
               \/ Delivers(w, x)
               \/ x = Torn /\ Several(w)
               \/ x = Cut /\ Oversize(w)

\* Outside the loop nothing is asked of the broker and nothing is on its way.
Quiet == mq \notin Looping => asked = <<>> /\ wire = <<>> /\ part = 0 /\ subs = {}

\* A session starts without a URL; until a topic's subscription is handled nothing comes.
Fresh == /\ op = "fetch" /\ mq \in Dialling => url = None /\ since = 0
         /\ asked \in {<<>>, <<"config">>, <<"frame", "config">>}
         /\ asked = <<"frame", "config">> =>
               url = None /\ wire = <<>> /\ subs = {} /\ ~s_ready["frame"] /\ mq # "readframe"
         /\ asked # <<>> => /\ "config" \notin subs /\ ~s_ready["config"] /\ mq # "readconfig"
                            /\ \A i \in 1..Len(wire) : published[wire[i]].topic # "config"

\* What is on its way, the older before the newer, and what has come of the first.
Carried == /\ \A i \in 1..Len(wire) :
                 wire[i] \in Pubs /\ (published[wire[i]].topic = "frame" => wire[i] >= since)
           /\ \A i, j \in 1..Len(wire) :
                 i < j /\ published[wire[i]].topic = published[wire[j]].topic => wire[i] < wire[j]
           /\ part > 0 => /\ wire # <<>> /\ part < published[wire[1]].size
                          /\ Of(wire[1], part, s_payload)

\* What is in the buffers, and was when it began to be read.
Stocked == /\ \A w \in Topics : s_ready[w] => Holds(w, s_buf[w])
           /\ mq = "readframe" => Reads("frame")
           /\ mq = "readconfig" => Reads("config")

\* What was found.
Found == Right("frame", url) /\ Right("config", sleep)

Session == Quiet /\ Fresh /\ Carried /\ Stocked /\ Found

\* net_mqtt.c:138-153: fragments add up.
LEMMA KeptOf ==
    ASSUME NEW n \in 1..MaxPubs, NEW p \in Nat, NEW k \in Nat, NEW s, Of(n, p, s),
           published[n].size \in Nat, p + k <= published[n].size
    PROVE  Of(n, p + k, Kept(s, Units(n, p, k)))
<1> DEFINE v == Kept(s, Units(n, p, k))
<1>1. /\ v \in Buffers /\ Len(s) \in Nat /\ Len(v) \in Nat
      /\ Len(v) = IF Len(s) + k < Room THEN Len(s) + k ELSE Len(s)
      /\ \A i \in 1..Len(s) : v[i] = s[i]
      /\ \A i \in 1..Len(v) : i > Len(s) => v[i] = <<n, p + (i - Len(s))>>
  BY KeptIs DEF Of
<1> HIDE DEF v
<1>2. ASSUME NEW i \in 1..Len(v) PROVE v[i][1] = n
  <2>1. CASE i > Len(s)
    BY <1>1, <2>1
  <2>2. CASE ~(i > Len(s))
    <3>1. i \in 1..Len(s)
      BY <1>1, <2>2
    <3> QED
      BY <1>1, <3>1 DEF Of
  <2> QED
    BY <2>1, <2>2
<1>3. ASSUME published[n].size < Room
      PROVE  Len(v) = p + k /\ \A i \in 1..(p + k) : v[i] = <<n, i>>
  <2>1. Len(s) = p /\ \A i \in 1..p : s[i] = <<n, i>>
    BY <1>3 DEF Of
  <2>2. Len(v) = p + k
    BY <1>1, <1>3, <2>1, LimitsAssumption
  <2>3. ASSUME NEW i \in 1..(p + k) PROVE v[i] = <<n, i>>
    <3>1. CASE i > p
      <4>1. v[i] = <<n, p + (i - p)>> /\ p + (i - p) = i
        BY <1>1, <2>1, <2>2, <3>1
      <4> QED
        BY <4>1
    <3>2. CASE ~(i > p)
      <4>1. i \in 1..p
        BY <3>2
      <4> QED
        BY <1>1, <2>1, <4>1
    <3> QED
      BY <3>1, <3>2
  <2> QED
    BY <2>2, <2>3
<1>4. Of(n, p + k, v)
  BY <1>1, <1>2, <1>3 DEF Of
<1> QED
  BY <1>4 DEF v

\* The size of a publication is a number.
LEMMA SizeIs ==
    ASSUME TypedServer, NEW n \in Pubs
    PROVE  n \in 1..MaxPubs /\ published[n].size \in Nat /\ published[n].topic \in Topics
<1>1. published[n] \in Payloads /\ n \in 1..MaxPubs
  BY ElementOfSeq, LimitsAssumption DEF TypedServer, Pubs
<1> QED
  BY <1>1, PayloadsAssumption

\* net_mqtt.c:99-127: what is read from a buffer that holds a publication is that
\* publication, unless it did not fit or the buffer changed under the reader.
LEMMA MadeRight ==
    ASSUME TypedServer, NEW w, Reads(w)
    PROVE  Right(w, Made(w))
<1>1. PICK n \in Pubs : Past(w, n) /\ Of(n, published[n].size, held)
  BY DEF Reads, Holds
<1>2. n \in 1..MaxPubs /\ published[n].size \in Nat
  BY SizeIs
<1>3. CASE s_buf[w] # held
  BY <1>3 DEF Made, Right, Reads
<1>4. CASE s_buf[w] = held /\ held = <<>>
  BY <1>4 DEF Made, Right
<1>5. CASE s_buf[w] = held /\ held # <<>>
  <2>1. held \in Seq((1..MaxPubs) \X Nat)
    BY <1>1 DEF Of, Buffers
  <2>2. 1 \in 1..Len(held) /\ Len(held) \in Nat
    BY <1>5, <2>1, EmptySeq, LenProperties
  <2>3. held[1][1] = n /\ \A i \in 1..Len(held) : held[i][1] = n
    BY <1>1, <2>2 DEF Of
  <2>4. Made(w) = IF held = Whole(n) THEN n ELSE Cut
    BY <1>5, <2>3 DEF Made
  <2>5. CASE held = Whole(n)
    BY <1>1, <2>4, <2>5 DEF Right, Past
  <2>6. CASE held # Whole(n)
    <3>1. ASSUME published[n].size < Room PROVE FALSE
      <4>1. Len(held) = published[n].size /\ \A i \in 1..Len(held) : held[i] = <<n, i>>
        BY <1>1, <3>1 DEF Of
      <4> DEFINE z == published[n].size
                 v == Whole(n)
      <4>2. \A i \in 1..z : <<n, 0 + i>> \in (1..MaxPubs) \X Nat
        BY <1>2
      <4>3. v \in Seq((1..MaxPubs) \X Nat) /\ Len(v) = z /\ \A i \in 1..z : v[i] = <<n, 0 + i>>
        BY <1>2, <4>2 DEF Whole, Units
      <4>4. \A i \in 1..z : v[i] = <<n, i>>
        BY <4>3
      <4> HIDE DEF z, v
      <4>5. Len(held) = Len(v) /\ \A i \in 1..Len(held) : held[i] = v[i]
        BY <4>1, <4>3, <4>4 DEF z
      <4>6. held = v
        BY <2>1, <4>3, <4>5, SeqEqual
      <4> QED
        BY <2>6, <4>6 DEF v
    <3>2. published[n].size >= Room
      BY <1>2, <3>1, LimitsAssumption
    <3> QED
      BY <1>1, <2>4, <2>6, <3>2 DEF Right, Past, Oversize
  <2> QED
    BY <2>5, <2>6
<1> QED
  BY <1>3, <1>4, <1>5

\* What the session may deliver stays so, whatever is published.
LEMMA DeliveryLasts ==
    ASSUME Pubs \subseteq Pubs', \A i \in Pubs : published'[i] = published[i], since' = since
    PROVE  /\ \A w, x : Delivers(w, x) => Delivers(w, x)'
           /\ \A w : Several(w) => Several(w)'
           /\ \A w : Oversize(w) => Oversize(w)'
           /\ \A w, x : Right(w, x) => Right(w, x)'
<1>1. ASSUME NEW w, NEW x, Delivers(w, x) PROVE Delivers(w, x)'
  BY <1>1 DEF Delivers
<1>2. ASSUME NEW w, Several(w) PROVE Several(w)'
  <2>1. PICK m \in Pubs, n \in Pubs : m < n /\ Delivers(w, m) /\ Delivers(w, n)
    BY <1>2 DEF Several
  <2>2. m \in Pubs' /\ n \in Pubs' /\ Delivers(w, m)' /\ Delivers(w, n)'
    BY <1>1, <2>1
  <2> QED
    BY <2>1, <2>2 DEF Several
<1>3. ASSUME NEW w, Oversize(w) PROVE Oversize(w)'
  <2>1. PICK n \in Pubs : Delivers(w, n) /\ published[n].size >= Room
    BY <1>3 DEF Oversize
  <2>2. n \in Pubs' /\ Delivers(w, n)' /\ published'[n].size >= Room
    BY <1>1, <2>1
  <2> QED
    BY <2>2 DEF Oversize
<1>4. ASSUME NEW w, NEW x, Right(w, x) PROVE Right(w, x)'
  BY <1>1, <1>2, <1>3, <1>4 DEF Right
<1> QED
  BY <1>1, <1>2, <1>3, <1>4

\* A buffer keeps what it holds for as long as only newer ones are on their way.
LEMMA HoldsLast ==
    ASSUME Pubs \subseteq Pubs', \A i \in Pubs : published'[i] = published[i], since' = since,
           NEW w, \A n \in Pubs : Past(w, n) => Past(w, n)'
    PROVE  /\ \A s : Holds(w, s) => Holds(w, s)'
           /\ Reads(w) /\ held' = held /\ (s_buf'[w] = s_buf[w] \/ Several(w)) => Reads(w)'
<1>1. ASSUME NEW s, Holds(w, s) PROVE Holds(w, s)'
  <2>1. PICK n \in Pubs : Past(w, n) /\ Of(n, published[n].size, s)
    BY <1>1 DEF Holds
  <2>2. n \in Pubs' /\ Past(w, n)' /\ published'[n] = published[n]
    BY <2>1
  <2>3. Of(n, published[n].size, s)'
    BY <2>1, <2>2 DEF Of
  <2> QED
    BY <2>2, <2>3 DEF Holds
<1>2. Several(w) => Several(w)'
  BY DeliveryLasts
<1>3. ASSUME Reads(w), held' = held, s_buf'[w] = s_buf[w] \/ Several(w) PROVE Reads(w)'
  BY <1>1, <1>2, <1>3 DEF Reads
<1> QED
  BY <1>1, <1>3

\* Nothing is published, and what is on its way stays so or goes.
LEMMA AllLasts ==
    ASSUME UNCHANGED << published, since >>, wire' = wire \/ wire' = <<>>
    PROVE  /\ \A w, s : Holds(w, s) => Holds(w, s)'
           /\ \A w : Reads(w) /\ UNCHANGED << held, s_buf >> => Reads(w)'
           /\ \A w, x : Right(w, x) => Right(w, x)'
<1>1. Pubs \subseteq Pubs' /\ \A i \in Pubs : published'[i] = published[i]
  BY DEF Pubs
<1>2. ASSUME NEW w, NEW n \in Pubs, Past(w, n) PROVE Past(w, n)'
  <2>1. Delivers(w, n)'
    BY <1>1, <1>2, DeliveryLasts DEF Past
  <2>2. ASSUME NEW i \in 1..Len(wire'), published'[wire'[i]].topic = w PROVE n < wire'[i]
    <3>1. wire' = wire
      BY <2>2, EmptySeq
    <3> QED
      BY <1>2, <2>2, <3>1 DEF Past
  <2> QED
    BY <2>1, <2>2 DEF Past
<1>3. \A w, x : Right(w, x) => Right(w, x)'
  BY <1>1, DeliveryLasts
<1>4. ASSUME NEW w
      PROVE  /\ \A s : Holds(w, s) => Holds(w, s)'
             /\ Reads(w) /\ UNCHANGED << held, s_buf >> => Reads(w)'
  BY <1>1, <1>2, HoldsLast
<1> QED
  BY <1>3, <1>4

\* What does not change for a step that moves the call only.
LEMMA SessionStays ==
    ASSUME Session,
           UNCHANGED << op, asked, wire, part, subs, inbox, published, since, url, sleep >>,
           mq' \notin {"readframe", "readconfig"} \/ (mq' = mq /\ held' = held),
           mq' \in Dialling => mq \in Dialling,
           mq \in Looping => mq' \in Looping
    PROVE  Session'
<1> USE DEF Session, inbox
<1>1. Quiet'
  BY DEF Quiet
<1>2. Fresh'
  BY DEF Fresh
<1>3. Carried'
  BY DEF Carried, Pubs, Of
<1>4. Stocked'
  BY AllLasts DEF Stocked
<1>5. Found'
  BY AllLasts DEF Found
<1> QED
  BY <1>1, <1>2, <1>3, <1>4, <1>5

\* The connection goes.
LEMMA SessionDrops ==
    ASSUME Session, Gone, UNCHANGED << op, inbox, published, since, url, sleep >>,
           (mq' = mq /\ held' = held) \/ mq' = "idle"
    PROVE  Session'
<1> USE DEF Session, inbox, Gone
<1>1. Quiet'
  BY DEF Quiet
<1>2. Fresh'
  BY DEF Fresh, Dialling
<1>3. Carried'
  <2>1. Len(wire') = 0
    BY EmptySeq
  <2> QED
    BY <2>1 DEF Carried
<1>4. Stocked'
  BY AllLasts DEF Stocked
<1>5. Found'
  BY AllLasts DEF Found
<1> QED
  BY <1>1, <1>2, <1>3, <1>4, <1>5

\* A step of a call keeps it.
LEMMA CallSession == ASSUME MqttTyped, Flight, Session, MqttCall PROVE Session'
<1> USE DEF Dialling, Looping, result, session, server, locals
<1>1. CASE Resolve \/ Dial \/ Connect \/ Connected
  BY <1>1, SessionStays DEF Resolve, Dial, Connect, Connected, Go, Return
<1>2. CASE Round
  BY <1>2, SessionStays DEF Round
<1>3. CASE Fetched \/ Published
  BY <1>3, SessionDrops DEF Fetched, Published, Return
<1>4. CASE Publish
  <2>1. CASE Go("puback") /\ UNCHANGED << asked, wire, part, subs >>
    BY <1>4, <2>1, SessionStays DEF Publish, Go
  <2>2. CASE Return(FALSE) /\ Gone
    BY <1>4, <2>2, SessionDrops DEF Publish, Return
  <2> QED
    BY <1>4, <2>1, <2>2 DEF Publish
<1>5. CASE Subscribe
  <2>1. /\ mq = "subscribe" /\ mq' = "frame" /\ op' = op /\ s_ready' = [w \in Topics |-> FALSE]
        /\ asked' \in {<<>>, <<"frame", "config">>}
        /\ UNCHANGED << url, sleep, s_payload, s_buf, wire, part, subs, published, since >>
    BY <1>5 DEF Subscribe, Go
  <2>2. op = "fetch" /\ url = None /\ since = 0 /\ wire = <<>> /\ subs = {} /\ part = 0
    BY <2>1 DEF Flight, Receiving, Session, Quiet, Fresh
  <2>3. Quiet'
    BY <2>1 DEF Quiet
  <2>4. Fresh'
    <3>1. ~s_ready'["frame"] /\ ~s_ready'["config"]
      BY <2>1 DEF Topics
    <3>2. Len(wire') = 0
      BY <2>1, <2>2, EmptySeq
    <3> QED
      BY <2>1, <2>2, <3>1, <3>2 DEF Fresh
  <2>5. Carried'
    BY <2>1, <2>2, EmptySeq DEF Carried
  <2>6. Stocked'
    BY <2>1 DEF Stocked
  <2>7. Found'
    BY <2>1, AllLasts DEF Session, Found
  <2> QED
    BY <2>3, <2>4, <2>5, <2>6, <2>7 DEF Session
<1>6. ASSUME NEW w \in Topics, NEW next \in {"config", "round"},
             Look(w, IF w = "frame" THEN "readframe" ELSE "readconfig", next),
             mq \in {"frame", "config"}
      PROVE  Session'
  <2>1. CASE s_ready[w]
    <3>1. /\ mq' = (IF w = "frame" THEN "readframe" ELSE "readconfig") /\ held' = s_buf[w]
          /\ s_ready' = [s_ready EXCEPT ![w] = FALSE] /\ s_ready \in [Topics -> BOOLEAN]
          /\ UNCHANGED << op, url, sleep, s_payload, s_buf, asked, wire, part, subs, published,
                          since >>
      BY <1>6, <2>1 DEF Look, MqttTyped, TypedInbox
    <3>2. Quiet'
      BY <3>1 DEF Quiet
    <3>a. \A v \in Topics : s_ready'[v] => s_ready[v]
      BY <3>1
    <3>3. Fresh'
      <4>1. /\ asked = <<"frame", "config">> => w # "frame"
            /\ asked # <<>> => w # "config"
        BY <2>1 DEF Session, Fresh
      <4>2. "frame" \in Topics /\ "config" \in Topics
        BY DEF Topics
      <4>3. ~s_ready["frame"] => ~s_ready'["frame"]
        BY <3>a, <4>2
      <4>4. ~s_ready["config"] => ~s_ready'["config"]
        BY <3>a, <4>2
      <4> HIDE DEF Topics
      <4>5. w = "frame" \/ w = "config"
        BY <1>6 DEF Topics
      <4> QED
        BY <3>1, <4>1, <4>3, <4>4, <4>5 DEF Session, Fresh
    <3>4. Carried'
      BY <3>1 DEF Session, Carried, Pubs, Of
    <3>5. Stocked'
      <4>1. Holds(w, s_buf[w])'
        BY <2>1, <3>1, AllLasts DEF Session, Stocked
      <4>2. Reads(w)'
        BY <3>1, <4>1 DEF Reads
      <4>3. ASSUME NEW v \in Topics, s_ready'[v] PROVE Holds(v, s_buf[v])'
        BY <3>1, <3>a, <4>3, AllLasts DEF Session, Stocked
      <4>4. w = "frame" \/ w = "config"
        BY <1>6 DEF Topics
      <4> QED
        BY <3>1, <4>2, <4>3, <4>4 DEF Stocked
    <3>6. Found'
      BY <3>1, AllLasts DEF Session, Found
    <3> QED
      BY <3>2, <3>3, <3>4, <3>5, <3>6 DEF Session
  <2>2. CASE ~s_ready[w]
    <3>1. mq' = next /\ UNCHANGED << op, s_ready, url, sleep, s_payload, s_buf, asked, wire, part,
                                     subs, published, since >>
      BY <1>6, <2>2 DEF Look, Go
    <3> QED
      BY <1>6, <3>1, SessionStays DEF inbox
  <2> QED
    BY <2>1, <2>2
<1>7. CASE LookFrame
  <2>1. Look("frame", "readframe", "config") /\ mq = "frame"
    BY <1>7 DEF LookFrame, Look
  <2> QED
    BY <1>6, <2>1 DEF Topics
<1>8. CASE LookConfig
  <2>1. Look("config", "readconfig", "round") /\ mq = "config"
    BY <1>8 DEF LookConfig, Look
  <2> QED
    BY <1>6, <2>1 DEF Topics
<1>9. CASE ReadFrame
  <2> DEFINE made == Made("frame")
  <2>1. PICK found \in Finds(made, "url") : url' \in IF found THEN {made} ELSE Unfound(made)
    BY <1>9 DEF ReadFrame
  <2>2. /\ mq = "readframe" /\ mq' = "config"
        /\ UNCHANGED << op, sleep, inbox, asked, wire, part, subs, published, since >>
    BY <1>9 DEF ReadFrame
  <2>3. Right("frame", made)
    BY <2>2, MadeRight DEF Session, Stocked, MqttTyped
  <2>4. url' \in {made, None, url}
    <3> HIDE DEF made
    <3> QED
      BY <2>1 DEF Unfound
  <2> HIDE DEF made
  <2>5. Right("frame", None)
    BY DEF Right
  <2>6. Right("frame", url')
    BY <2>3, <2>4, <2>5 DEF Session, Found
  <2>7. Found'
    BY <2>2, <2>6 DEF Session, Found, Right, Delivers, Several, Oversize, Pubs
  <2>8. Quiet' /\ Carried'
    BY <2>2 DEF Session, Quiet, Carried, Pubs, Of, inbox
  <2>9. Fresh'
    BY <2>2 DEF Session, Fresh, inbox
  <2>10. Stocked'
    BY <2>2, AllLasts DEF Session, Stocked, inbox
  <2> QED
    BY <2>7, <2>8, <2>9, <2>10 DEF Session
<1>10. CASE ReadConfig
  <2> DEFINE made == Made("config")
  <2>1. PICK found \in Finds(made, "interval") : sleep' = IF found THEN made ELSE sleep
    BY <1>10 DEF ReadConfig
  <2>2. /\ mq = "readconfig" /\ mq' = "round"
        /\ UNCHANGED << op, url, inbox, asked, wire, part, subs, published, since >>
    BY <1>10 DEF ReadConfig
  <2>3. Right("config", made)
    BY <2>2, MadeRight DEF Session, Stocked, MqttTyped
  <2>4. sleep' \in {made, sleep}
    BY <2>1
  <2> HIDE DEF made
  <2>6. Right("config", sleep')
    BY <2>3, <2>4 DEF Session, Found
  <2>7. Found'
    BY <2>2, <2>6 DEF Session, Found, Right, Delivers, Several, Oversize, Pubs
  <2>8. Quiet' /\ Carried'
    BY <2>2 DEF Session, Quiet, Carried, Pubs, Of, inbox
  <2>9. Fresh'
    BY <2>2 DEF Session, Fresh, inbox
  <2>10. Stocked'
    BY <2>2, AllLasts DEF Session, Stocked, inbox
  <2> QED
    BY <2>7, <2>8, <2>9, <2>10 DEF Session
<1> QED
  BY <1>1, <1>2, <1>3, <1>4, <1>5, <1>7, <1>8, <1>9, <1>10 DEF MqttCall

\* A fragment that arrives is the next of its publication, and the last one goes to its
\* topic's buffer.
LEMMA FragmentSession == ASSUME MqttTyped, Session, Fragment PROVE Session'
<1>1. wire \in Seq(Pubs) /\ wire # <<>> /\ Len(wire) \in Nat \ {0} /\ Head(wire) = wire[1]
  BY EmptySeq DEF MqttTyped, TypedLink, Fragment
<1>a. PICK n : n = wire[1] /\ n = Head(wire)
  BY <1>1
<1>b. PICK size, w : size = published[n].size /\ w = published[n].topic
  OBVIOUS
<1>c. PICK s0 : s0 = IF part = 0 THEN Start ELSE s_payload
  OBVIOUS
<1> DEFINE left == size - part
<1>2. /\ n \in Pubs /\ n \in 1..MaxPubs /\ part \in Nat /\ size \in Nat
      /\ w \in Topics /\ (w = "frame" => n >= since)
  <2>1. n \in Pubs /\ (w = "frame" => n >= since)
    BY <1>1, <1>a, <1>b DEF Session, Carried
  <2>2. part \in Nat
    BY DEF MqttTyped, TypedLink
  <2> QED
    BY <1>b, <2>1, <2>2, SizeIs DEF MqttTyped
<1>3. Delivers(w, n)
  BY <1>b, <1>2 DEF Delivers
<1>4. part <= size /\ left \in Nat
  BY <1>a, <1>b, <1>2 DEF Session, Carried
<1>5. PICK k \in IF left = 0 THEN {0} ELSE 1..left :
         /\ s_payload' = Kept(s0, Units(n, part, k))
         /\ s_buf' = IF k = left THEN [s_buf EXCEPT ![w] = Kept(s0, Units(n, part, k))] ELSE s_buf
         /\ s_ready' = IF k = left THEN [s_ready EXCEPT ![w] = TRUE] ELSE s_ready
         /\ part' = IF k = left THEN 0 ELSE part + k
         /\ wire' = IF k = left THEN Tail(wire) ELSE wire
  BY <1>1, <1>a, <1>b, <1>c DEF Fragment
<1>6. UNCHANGED << mq, op, held, url, sleep, asked, subs, published, since >>
  BY DEF Fragment, call, locals, result, server
<1>7. k \in Nat /\ k <= left /\ part + k <= size /\ (k # left => part + k > 0 /\ part + k < size)
      /\ (k = left => part + k = size)
  BY <1>2, <1>4, <1>5
<1>8. Of(n, part, s0)
  <2>1. CASE part = 0
    <3>1. s0 = <<>> /\ Len(<<>>) = 0 /\ <<>> \in Buffers
      BY <1>c, <2>1, EmptyTyped, EmptySeq DEF Start
    <3> QED
      BY <2>1, <3>1 DEF Of
  <2>2. CASE part # 0
    BY <1>a, <1>c, <1>2, <2>2 DEF Session, Carried
  <2> QED
    BY <2>1, <2>2
<1>d. PICK s : s = Kept(s0, Units(n, part, k))
  OBVIOUS
<1>9. Of(n, part + k, s)
  BY <1>b, <1>d, <1>2, <1>7, <1>8, KeptOf
<1>10. mq \in Looping /\ asked # <<"frame", "config">>
  BY <1>1 DEF Session, Quiet, Fresh
<1>11. asked # <<>> => w = "frame"
  <2>1. 1 \in 1..Len(wire)
    BY <1>1
  <2> QED
    BY <1>a, <1>b, <1>2, <2>1 DEF Session, Fresh, Topics
<1>12. s_buf \in [Topics -> Buffers] /\ s_ready \in [Topics -> BOOLEAN]
  BY DEF MqttTyped, TypedInbox
<1>13. k = left => /\ wire' = Tail(wire) /\ Len(wire') = Len(wire) - 1
                   /\ \A i \in 1..Len(wire') : i + 1 \in 1..Len(wire) /\ wire'[i] = wire[i + 1]
  <2>1. /\ Len(Tail(wire)) = Len(wire) - 1
        /\ \A i \in 1..Len(Tail(wire)) : Tail(wire)[i] = wire[i + 1]
    BY <1>1, HeadTailProperties
  <2>2. \A i \in 1..Len(Tail(wire)) : i + 1 \in 1..Len(wire)
    BY <1>1, <2>1
  <2> QED
    BY <1>5, <2>1, <2>2
<1>14. Pubs' = Pubs /\ published' = published /\ since' = since
  BY <1>6 DEF Pubs
<1>15. /\ s_payload' = s
       /\ s_buf' = IF k = left THEN [s_buf EXCEPT ![w] = s] ELSE s_buf
       /\ s_ready' = IF k = left THEN [s_ready EXCEPT ![w] = TRUE] ELSE s_ready
       /\ part' = IF k = left THEN 0 ELSE part + k
       /\ k # left => wire' = wire
  BY <1>5, <1>d
<1> HIDE DEF left
<1>16. Quiet'
  BY <1>6, <1>10 DEF Quiet
<1>17. Found'
  BY <1>14, <1>6, DeliveryLasts DEF Session, Found
<1>18. Fresh'
  <2>1. mq' \notin Dialling
    BY <1>6, <1>10 DEF Dialling, Looping
  <2>2. asked' # <<>> => ~s_ready'["config"]
    <3>1. asked # <<>> => ~s_ready["config"] /\ w # "config"
      BY <1>11 DEF Session, Fresh
    <3> QED
      BY <1>6, <1>12, <1>15, <3>1
  <2>3. asked' # <<>> => \A i \in 1..Len(wire') : published'[wire'[i]].topic # "config"
    <3>1. ASSUME asked # <<>>, NEW i \in 1..Len(wire')
          PROVE  published[wire'[i]].topic # "config"
      BY <1>13, <1>15, <3>1 DEF Session, Fresh
    <3> QED
      BY <1>6, <3>1
  <2> QED
    BY <1>6, <1>10, <2>1, <2>2, <2>3 DEF Session, Fresh
<1>19. Carried'
  <2>1. CASE k = left
    <3>1. part' = 0
      BY <1>15, <2>1
    <3>2. ASSUME NEW i \in 1..Len(wire')
          PROVE  /\ wire'[i] \in Pubs'
                 /\ published'[wire'[i]].topic = "frame" => wire'[i] >= since'
      BY <1>13, <1>14, <2>1, <3>2 DEF Session, Carried
    <3>3. ASSUME NEW i \in 1..Len(wire'), NEW j \in 1..Len(wire'), i < j,
                 published'[wire'[i]].topic = published'[wire'[j]].topic
          PROVE  wire'[i] < wire'[j]
      <4>1. /\ i + 1 \in 1..Len(wire) /\ j + 1 \in 1..Len(wire) /\ i + 1 < j + 1
            /\ wire'[i] = wire[i + 1] /\ wire'[j] = wire[j + 1]
        BY <1>13, <2>1, <3>3
      <4> QED
        BY <1>14, <3>3, <4>1 DEF Session, Carried
    <3> QED
      BY <3>1, <3>2, <3>3 DEF Carried
  <2>2. CASE k # left
    <3>1. part' = part + k /\ wire' = wire /\ part + k < size /\ s_payload' = s
      BY <1>7, <1>15, <2>2
    <3>2. Of(n, part, s_payload)'
      <4>1. published'[n].size = published[n].size
        BY <1>14
      <4> QED
        BY <1>9, <3>1, <4>1 DEF Of
    <3>3. Of(wire[1], part, s_payload)'
      BY <1>a, <3>1, <3>2 DEF Of
    <3> QED
      BY <1>1, <1>a, <1>b, <1>14, <3>1, <3>3 DEF Session, Carried
  <2> QED
    BY <2>1, <2>2
<1>20. ASSUME NEW v, NEW m \in Pubs, Past(v, m) PROVE Past(v, m)'
  <2>1. Delivers(v, m)'
    BY <1>14, <1>20, DeliveryLasts DEF Past
  <2>2. ASSUME NEW i \in 1..Len(wire'), published'[wire'[i]].topic = v PROVE m < wire'[i]
    BY <1>13, <1>14, <1>15, <1>20, <2>2 DEF Past
  <2> QED
    BY <2>1, <2>2 DEF Past
<1>21. k = left => Past(w, n)'
  <2>1. Delivers(w, n)'
    BY <1>3, <1>14, DeliveryLasts
  <2>2. ASSUME k = left, NEW i \in 1..Len(wire'), published'[wire'[i]].topic = w
        PROVE  n < wire'[i]
    <3>1. /\ wire'[i] = wire[i + 1] /\ i + 1 \in 1..Len(wire) /\ 1 \in 1..Len(wire) /\ 1 < i + 1
      BY <1>1, <1>13, <2>2
    <3>2. published[wire[1]].topic = published[wire[i + 1]].topic
      BY <1>a, <1>b, <1>14, <2>2, <3>1
    <3> QED
      BY <1>a, <3>1, <3>2 DEF Session, Carried
  <2> QED
    BY <1>14, <2>1, <2>2 DEF Past
<1>22. \A v : /\ \A x : Holds(v, x) => Holds(v, x)'
              /\ Reads(v) /\ held' = held /\ (s_buf'[v] = s_buf[v] \/ Several(v)) => Reads(v)'
  BY <1>14, <1>20, HoldsLast
<1>23. k = left => Holds(w, s)'
  <2>1. k = left => Of(n, size, s)
    BY <1>7, <1>9
  <2>2. k = left => Of(n, published[n].size, s)'
    BY <1>b, <1>14, <2>1 DEF Of
  <2> QED
    BY <1>2, <1>14, <1>21, <2>2 DEF Holds
<1>24. ASSUME NEW v \in Topics, Reads(v) PROVE Reads(v)'
  <2>1. CASE k = left /\ v = w
    <3>1. PICK m \in Pubs : Past(v, m)
      BY <1>24 DEF Reads, Holds
    <3>2. m < n /\ Delivers(v, m)
      BY <1>1, <1>a, <1>b, <2>1, <3>1 DEF Past
    <3>3. Several(v)
      BY <1>2, <1>3, <2>1, <3>2 DEF Several
    <3> QED
      BY <1>6, <1>22, <1>24, <3>3
  <2>2. CASE ~(k = left /\ v = w)
    <3>1. s_buf'[v] = s_buf[v]
      BY <1>2, <1>12, <1>15, <2>2
    <3> QED
      BY <1>6, <1>22, <1>24, <3>1
  <2> QED
    BY <2>1, <2>2
<1>25. Stocked'
  <2>1. ASSUME NEW v \in Topics, s_ready'[v] PROVE Holds(v, s_buf[v])'
    <3>1. CASE k = left /\ v = w
      <4>1. s_buf'[v] = s
        BY <1>2, <1>12, <1>15, <3>1
      <4> QED
        BY <1>23, <3>1, <4>1
    <3>2. CASE ~(k = left /\ v = w)
      <4>1. s_buf'[v] = s_buf[v] /\ s_ready[v]
        BY <1>2, <1>12, <1>15, <2>1, <3>2
      <4>2. Holds(v, s_buf[v])
        BY <4>1 DEF Session, Stocked
      <4> QED
        BY <1>22, <4>1, <4>2
    <3> QED
      BY <3>1, <3>2
  <2>2. "frame" \in Topics /\ "config" \in Topics
    BY DEF Topics
  <2> QED
    BY <1>6, <1>24, <2>1, <2>2 DEF Session, Stocked
<1> QED
  BY <1>16, <1>17, <1>18, <1>19, <1>25 DEF Session

\* The broker handles a subscription: the oldest frame the session may deliver is known
\* before any arrives.
LEMMA SubscribedSession == ASSUME MqttTyped, Session, Subscribed PROVE Session'
<1> DEFINE w == Head(asked)
           n == retained[w]
<1>1. /\ asked # <<>> /\ asked' = Tail(asked) /\ subs' = subs \cup {w}
      /\ wire' = IF n = None THEN wire ELSE Append(wire, n)
      /\ since' = IF w = "config" THEN since ELSE IF n = None THEN Len(published) + 1 ELSE n
      /\ UNCHANGED << mq, op, held, url, sleep, s_payload, s_buf, s_ready, part, published >>
  BY DEF Subscribed, call, locals, result, inbox
<1>2. mq \in Looping /\ mq \notin Dialling
  BY <1>1 DEF Session, Quiet, Looping, Dialling
<1>3. w \in Topics /\ (n # None => n \in Pubs /\ published[n].topic = w)
  BY <1>1, HeadTailProperties DEF MqttTyped, TypedLink, TypedServer
<1>4. wire \in Seq(Pubs) /\ Len(wire) \in Nat /\ Len(published) \in Nat /\ part \in Nat
  BY LenProperties DEF MqttTyped, TypedLink, TypedServer
<1>5. /\ n = None => wire' = wire
      /\ n # None => /\ Len(wire') = Len(wire) + 1 /\ wire'[Len(wire) + 1] = n
                     /\ \A i \in 1..Len(wire) : wire'[i] = wire[i]
                     /\ wire' # <<>>
  BY <1>1, <1>3, <1>4, AppendProperties
<1>6. \/ asked = <<"frame", "config">> /\ w = "frame" /\ asked' = <<"config">>
      \/ asked = <<"config">> /\ w = "config" /\ asked' = <<>>
  <2>1. asked = <<"frame", "config">> \/ asked = <<"config">>
    BY <1>1 DEF Session, Fresh
  <2>2. CASE asked = <<"frame", "config">>
    <3>1. Head(asked) = "frame" /\ Tail(asked) = <<"config">>
      BY <2>2
    <3> QED
      BY <1>1, <2>2, <3>1
  <2>3. CASE asked = <<"config">>
    <3>1. Head(asked) = "config" /\ Tail(asked) = <<>>
      BY <2>3
    <3> QED
      BY <1>1, <2>3, <3>1
  <2> QED
    BY <2>1, <2>2, <2>3
<1> HIDE DEF w, n
<1>a. mq' \notin Dialling /\ Pubs' = Pubs /\ published' = published
  BY <1>1, <1>2 DEF Pubs
<1>7. Quiet'
  BY <1>1, <1>2 DEF Quiet
<1>8. CASE w = "frame"
  <2>1. /\ asked = <<"frame", "config">> /\ url = None /\ wire = <<>> /\ ~s_ready["frame"]
        /\ ~s_ready["config"] /\ mq # "readframe" /\ mq # "readconfig" /\ part = 0
        /\ asked # <<>> /\ subs = {} /\ "config" \notin subs
    BY <1>4, <1>6, <1>8 DEF Session, Fresh, Carried
  <2>2. Len(wire) = 0
    BY <2>1
  <2>3. ASSUME NEW i \in 1..Len(wire')
        PROVE  Len(wire') = 1 /\ i = 1 /\ wire'[i] = n /\ n \in Pubs /\ n \in Nat
               /\ published[n].topic = "frame" /\ since' = n
    <3>1. n # None
      BY <1>5, <2>2, <2>3
    <3>2. Len(wire') = 1 /\ wire'[1] = n
      <4>1. Len(wire) + 1 = 1
        BY <2>2
      <4> QED
        BY <1>5, <3>1, <4>1
    <3>3. i = 1
      BY <2>3, <3>2
    <3>4. since' = n
      BY <1>1, <1>8, <3>1 DEF w, n
    <3> QED
      BY <1>3, <1>4, <1>8, <3>1, <3>2, <3>3, <3>4 DEF Pubs
  <2>4. Carried'
    <3>1. ASSUME NEW i \in 1..Len(wire')
          PROVE  /\ wire'[i] \in Pubs'
                 /\ published'[wire'[i]].topic = "frame" => wire'[i] >= since'
      BY <1>a, <2>3
    <3>2. \A i, j \in 1..Len(wire') : ~(i < j)
      BY <2>3
    <3> QED
      BY <1>1, <2>1, <3>1, <3>2 DEF Carried
  <2>5. Stocked'
    BY <1>1, <2>1 DEF Stocked, Topics
  <2>6. Found'
    BY <1>1, <2>1 DEF Session, Found, Right, Delivers, Several, Oversize, Pubs
  <2>7. Fresh'
    <3>1. \A i \in 1..Len(wire') : published'[wire'[i]].topic # "config"
      BY <1>a, <2>3
    <3>2. "config" \notin subs'
      BY <1>1, <1>8, <2>1 DEF w
    <3>3. asked' = <<"config">> /\ asked' # <<"frame", "config">>
      BY <1>6, <1>8
    <3> QED
      BY <1>1, <1>a, <2>1, <3>1, <3>2, <3>3 DEF Fresh
  <2> QED
    BY <1>7, <2>4, <2>5, <2>6, <2>7 DEF Session
<1>9. CASE w = "config"
  <2>1. since' = since /\ asked = <<"config">> /\ asked # <<>> /\ asked' = <<>>
    BY <1>1, <1>6, <1>9 DEF w
  <2>2. /\ "config" \notin subs /\ ~s_ready["config"] /\ mq # "readconfig"
        /\ \A i \in 1..Len(wire) : published[wire[i]].topic # "config"
    BY <2>1 DEF Session, Fresh
  <2>3. ASSUME NEW i \in 1..Len(wire')
        PROVE  \/ i \in 1..Len(wire) /\ wire'[i] = wire[i] /\ wire[i] \in Pubs
                  /\ published[wire[i]].topic # "config"
               \/ i = Len(wire) + 1 /\ wire'[i] = n /\ n \in Pubs /\ published[n].topic = "config"
    <3>1. CASE i \in 1..Len(wire)
      BY <1>5, <2>2, <3>1 DEF Session, Carried
    <3>2. CASE i \notin 1..Len(wire)
      <4>1. n # None /\ i = Len(wire) + 1
        BY <1>4, <1>5, <2>3, <3>2
      <4> QED
        BY <1>3, <1>5, <1>9, <4>1
    <3> QED
      BY <3>1, <3>2
  <2>4. Carried'
    <3>1. ASSUME NEW i \in 1..Len(wire')
          PROVE  /\ wire'[i] \in Pubs'
                 /\ published'[wire'[i]].topic = "frame" => wire'[i] >= since'
      BY <1>a, <2>1, <2>3 DEF Session, Carried
    <3>2. ASSUME NEW i \in 1..Len(wire'), NEW j \in 1..Len(wire'), i < j,
                 published'[wire'[i]].topic = published'[wire'[j]].topic
          PROVE  wire'[i] < wire'[j]
      <4>1. i \in 1..Len(wire) /\ wire'[i] = wire[i]
        BY <1>4, <1>5, <2>3, <3>2
      <4>2. published[wire[i]].topic # "config"
        BY <2>2, <4>1
      <4>3. j \in 1..Len(wire) /\ wire'[j] = wire[j]
        BY <1>a, <2>3, <3>2, <4>1, <4>2
      <4> QED
        BY <1>a, <3>2, <4>1, <4>3 DEF Session, Carried
    <3>3. part > 0 => wire # <<>> /\ wire' # <<>> /\ wire'[1] = wire[1]
      <4>1. part > 0 => wire # <<>>
        BY DEF Session, Carried
      <4>2. wire # <<>> => 1 \in 1..Len(wire)
        BY <1>4, EmptySeq
      <4> QED
        BY <1>5, <4>1, <4>2
    <3>4. part > 0 => part < published[wire[1]].size /\ Of(wire[1], part, s_payload)
      BY DEF Session, Carried
    <3>5. part > 0 => Of(wire[1], part, s_payload)'
      BY <1>1, <3>3, <3>4 DEF Of
    <3> QED
      BY <1>1, <3>1, <3>2, <3>3, <3>4, <3>5 DEF Carried
  <2>5. Pubs \subseteq Pubs' /\ \A i \in Pubs : published'[i] = published[i]
    BY <1>a
  <2>6. ASSUME NEW m \in Pubs, Past("frame", m) PROVE Past("frame", m)'
    <3>1. Delivers("frame", m)'
      BY <2>1, <2>5, <2>6, DeliveryLasts DEF Past
    <3>2. ASSUME NEW i \in 1..Len(wire'), published'[wire'[i]].topic = "frame"
          PROVE  m < wire'[i]
      <4>1. i \in 1..Len(wire) /\ wire'[i] = wire[i]
        BY <1>a, <2>3, <3>2
      <4> QED
        BY <1>a, <2>6, <3>2, <4>1 DEF Past
    <3> QED
      BY <3>1, <3>2 DEF Past
  <2>7. /\ \A s : Holds("frame", s) => Holds("frame", s)'
        /\ Reads("frame") => Reads("frame")'
    BY <1>1, <2>1, <2>5, <2>6, HoldsLast
  <2>8. Stocked'
    BY <1>1, <2>2, <2>7 DEF Session, Stocked, Topics
  <2>9. Found'
    BY <1>1, <2>1, <2>5, DeliveryLasts DEF Session, Found
  <2>10. Fresh'
    BY <1>a, <2>1 DEF Fresh
  <2> QED
    BY <1>7, <2>4, <2>8, <2>9, <2>10 DEF Session
<1> QED
  BY <1>6, <1>8, <1>9

\* What the server publishes is newer than all that the session asked for.
LEMMA ServerSession ==
    ASSUME MqttTyped, Session, NEW p \in Payloads, ServerPublish(p)
    PROVE  Session'
<1> DEFINE n == Len(published) + 1
<1>1. /\ published' = Append(published, p)
      /\ wire' = IF p.topic \in subs THEN Append(wire, n) ELSE wire
      /\ UNCHANGED << mq, op, held, url, sleep, s_payload, s_buf, s_ready, part, asked, subs,
                      since >>
  BY DEF ServerPublish, call, locals, result, inbox
<1>2. /\ published \in Seq(Payloads) /\ Len(published) \in Nat /\ since \in Nat /\ since <= n
      /\ wire \in Seq(Pubs) /\ Len(wire) \in Nat
  BY LenProperties DEF MqttTyped, TypedServer, TypedLink
<1>3. /\ Len(published') = n /\ (\A i \in Pubs : published'[i] = published[i])
      /\ published'[n] = p
  BY <1>1, <1>2, AppendProperties DEF Pubs
<1>4. n \in Nat /\ Pubs \subseteq Pubs' /\ n \in Pubs'
  BY <1>2, <1>3 DEF Pubs
<1>5. wire' = wire \/ /\ p.topic \in subs /\ Len(wire') = Len(wire) + 1 /\ wire'[Len(wire) + 1] = n
                      /\ \A i \in 1..Len(wire) : wire'[i] = wire[i]
                      /\ wire' # <<>>
  <2>1. wire \in Seq(Nat)
    BY <1>2, SeqMonotonic DEF Pubs
  <2> QED
    BY <1>1, <1>4, <2>1, AppendProperties
<1> HIDE DEF n
<1>6. Quiet'
  BY <1>1, <1>5 DEF Session, Quiet
<1>7. ASSUME NEW i \in 1..Len(wire')
      PROVE  \/ i \in 1..Len(wire) /\ wire'[i] = wire[i] /\ wire[i] \in Pubs /\ wire[i] < n
             \/ i = Len(wire) + 1 /\ wire'[i] = n /\ p.topic \in subs
  <2>1. CASE i \in 1..Len(wire)
    <3>1. wire'[i] = wire[i] /\ wire[i] \in Pubs
      BY <1>5, <2>1 DEF Session, Carried
    <3> QED
      BY <1>2, <2>1, <3>1 DEF Pubs, n
  <2>2. CASE i \notin 1..Len(wire)
    BY <1>2, <1>5, <1>7, <2>2
  <2> QED
    BY <2>1, <2>2
<1>8. Fresh'
  <2>1. ASSUME asked # <<>>, NEW i \in 1..Len(wire')
        PROVE  published'[wire'[i]].topic # "config"
    <3>1. "config" \notin subs /\ \A j \in 1..Len(wire) : published[wire[j]].topic # "config"
      BY <2>1 DEF Session, Fresh
    <3> QED
      BY <1>3, <1>7, <3>1
  <2>2. asked = <<"frame", "config">> => wire' = <<>>
    BY <1>1 DEF Session, Fresh
  <2> QED
    BY <1>1, <2>1, <2>2 DEF Session, Fresh
<1>9. Carried'
  <2>1. ASSUME NEW i \in 1..Len(wire')
        PROVE  /\ wire'[i] \in Pubs'
               /\ published'[wire'[i]].topic = "frame" => wire'[i] >= since'
    <3>1. CASE i \in 1..Len(wire) /\ wire'[i] = wire[i] /\ wire[i] \in Pubs
      BY <1>1, <1>3, <1>4, <3>1 DEF Session, Carried
    <3>2. CASE wire'[i] = n
      BY <1>1, <1>2, <1>4, <3>2
    <3> QED
      BY <1>7, <3>1, <3>2
  <2>2. ASSUME NEW i \in 1..Len(wire'), NEW j \in 1..Len(wire'), i < j,
               published'[wire'[i]].topic = published'[wire'[j]].topic
        PROVE  wire'[i] < wire'[j]
    <3>1. i \in 1..Len(wire) /\ wire'[i] = wire[i] /\ wire[i] \in Pubs /\ wire[i] < n
      BY <1>2, <1>7, <2>2
    <3>2. CASE wire'[j] = n
      BY <3>1, <3>2
    <3>3. CASE j \in 1..Len(wire) /\ wire'[j] = wire[j] /\ wire[j] \in Pubs
      BY <1>3, <2>2, <3>1, <3>3 DEF Session, Carried
    <3> QED
      BY <1>7, <3>2, <3>3
  <2>3. part > 0 => /\ wire' # <<>> /\ wire'[1] = wire[1] /\ wire[1] \in Pubs
                    /\ part < published[wire[1]].size /\ Of(wire[1], part, s_payload)
    <3>1. part > 0 => wire # <<>>
      BY DEF Session, Carried
    <3>2. wire # <<>> => 1 \in 1..Len(wire)
      BY <1>2, EmptySeq
    <3> QED
      BY <1>5, <3>1, <3>2 DEF Session, Carried
  <2>4. part > 0 => Of(wire[1], part, s_payload)'
    BY <1>1, <1>3, <2>3 DEF Of
  <2>5. part > 0 => part' < published'[wire'[1]].size
    BY <1>1, <1>3, <2>3
  <2> QED
    BY <1>1, <2>1, <2>2, <2>3, <2>4, <2>5 DEF Carried
<1>10. ASSUME NEW v, NEW m \in Pubs, Past(v, m) PROVE Past(v, m)'
  <2>1. Delivers(v, m)'
    BY <1>1, <1>3, <1>4, <1>10, DeliveryLasts DEF Past
  <2>2. ASSUME NEW i \in 1..Len(wire'), published'[wire'[i]].topic = v PROVE m < wire'[i]
    <3>1. m < n
      BY <1>2 DEF Pubs, n
    <3>2. CASE i \in 1..Len(wire) /\ wire'[i] = wire[i] /\ wire[i] \in Pubs
      BY <1>3, <1>10, <2>2, <3>2 DEF Past
    <3>3. CASE wire'[i] = n
      BY <3>1, <3>3
    <3> QED
      BY <1>7, <3>2, <3>3
  <2> QED
    BY <2>1, <2>2 DEF Past
<1>11. \A v : /\ \A x : Holds(v, x) => Holds(v, x)'
              /\ Reads(v) /\ held' = held /\ (s_buf'[v] = s_buf[v] \/ Several(v)) => Reads(v)'
  BY <1>1, <1>3, <1>4, <1>10, HoldsLast
<1>12. Stocked'
  BY <1>1, <1>11 DEF Session, Stocked
<1>13. Found'
  BY <1>1, <1>3, <1>4, DeliveryLasts DEF Session, Found
<1> QED
  BY <1>6, <1>8, <1>9, <1>12, <1>13 DEF Session

\* A call begins a session without anything; it does not know yet how old a frame it may get.
LEMMA BeginSession ==
    ASSUME Session, NEW o \in {"fetch", "publish"}, Begin(o)
    PROVE  Session'
<1>1. /\ mq = "idle" /\ mq' = "resolve" /\ op' = o
      /\ (o = "fetch" /\ url' = None /\ since' = 0) \/ (o = "publish" /\ UNCHANGED << url, since >>)
      /\ UNCHANGED << sleep, held, s_payload, s_buf, s_ready, asked, wire, part, subs, published >>
  BY DEF Begin, locals, inbox, session
<1>2. asked = <<>> /\ wire = <<>> /\ part = 0 /\ subs = {}
  BY <1>1 DEF Session, Quiet, Looping
<1>3. Quiet' /\ Fresh'
  BY <1>1, <1>2 DEF Quiet, Fresh
<1>4. Carried'
  BY <1>1, <1>2, EmptySeq DEF Carried
<1>5. Pubs' = Pubs /\ published' = published /\ Len(wire') = 0
  BY <1>1, <1>2, EmptySeq DEF Pubs
<1>6. ASSUME NEW w, NEW n, Delivers(w, n) PROVE Delivers(w, n)'
  <2>1. n \in Nat /\ (since' = since \/ since' = 0)
    BY <1>1, <1>6 DEF Delivers, Pubs
  <2> QED
    BY <1>5, <1>6, <2>1 DEF Delivers
<1>7. ASSUME NEW w, NEW s, Holds(w, s) PROVE Holds(w, s)'
  <2>1. PICK n \in Pubs : Delivers(w, n) /\ Of(n, published[n].size, s)
    BY <1>7 DEF Holds, Past
  <2>2. Past(w, n)'
    BY <1>5, <1>6, <2>1 DEF Past
  <2>3. Of(n, published[n].size, s)'
    BY <1>5, <2>1 DEF Of
  <2> QED
    BY <1>5, <2>2, <2>3 DEF Holds
<1>8. Stocked'
  BY <1>1, <1>7 DEF Session, Stocked
<1>9. Right("config", sleep)'
  BY <1>1, <1>5 DEF Session, Found, Right, Delivers, Several, Oversize
<1>10. Right("frame", url)'
  <2>1. CASE url' = None
    BY <2>1 DEF Right
  <2>2. CASE UNCHANGED << url, since >>
    BY <1>5, <2>2 DEF Session, Found, Right, Delivers, Several, Oversize
  <2> QED
    BY <1>1, <2>1, <2>2
<1> QED
  BY <1>3, <1>4, <1>8, <1>9, <1>10 DEF Session, Found

\* Every step keeps it.
LEMMA SessionNext == Typed /\ Flight /\ Session /\ [Next]_vars => Session'
<1> SUFFICES ASSUME Typed, Flight, Session, [Next]_vars PROVE Session'
  OBVIOUS
<1> USE DEF call, locals, result, session, server
<1>1. CASE UNCHANGED mqttvars
  BY <1>1, SessionStays DEF mqttvars
<1>2. CASE Join \/ PostStatus
  BY <1>1, <1>2, BeginSession DEF Join, PostStatus
<1>3. CASE WifiStop
  BY <1>3, SessionDrops DEF WifiStop
<1>4. CASE MqttCall
  BY <1>4, CallSession DEF Typed
<1>5. CASE Accept \/ Puback(cycle)
  BY <1>5, SessionStays DEF Accept, Puback
<1>6. CASE Lose
  BY <1>6, SessionDrops DEF Lose
<1>7. CASE Fragment
  BY <1>7, FragmentSession DEF Typed
<1>8. CASE Subscribed
  BY <1>8, SubscribedSession DEF Typed
<1>9. CASE \E p \in Payloads : ServerPublish(p)
  BY <1>9, ServerSession DEF Typed
<1> QED
  BY <1>1, <1>2, <1>3, <1>4, <1>5, <1>6, <1>7, <1>8, <1>9
     DEF Next, Program, Background, MqttBackground, Done, vars,
         GotRetained, GotFrame, Paint, Free

\* net_mqtt.c:39-46, 138-164, 252-275: however messages follow each other on the two topics,
\* in fragments of whatever length, the URL found is that of one whole frame message, no
\* older than the one retained when the session subscribed, and the interval that of one
\* whole config message; except that a message which comes on the same topic while the
\* buffer is read may leave a mixture of two, and that one too long for the buffer leaves
\* some of its parts.  Without such a message neither happens, and messages that were not
\* read at the same time are never joined.
THEOREM RetainedIsWholeHolds == Spec => []RetainedIsWhole
<1>1. Init => Session
  <2> SUFFICES ASSUME Init PROVE Session
    OBVIOUS
  <2> USE DEF Init, MqttInit
  <2>1. Quiet /\ Fresh
    BY DEF Quiet, Fresh, Dialling
  <2>2. Carried /\ Stocked /\ Found
    BY EmptySeq DEF Carried, Stocked, Found, Right, Topics
  <2> QED
    BY <2>1, <2>2 DEF Session
<1>2. Typed /\ Session => RetainedIsWhole
  <2> SUFFICES ASSUME Typed, Session PROVE RetainedIsWhole
    OBVIOUS
  <2>1. \A n \in Pubs : n \in Nat /\ n > 0 /\ n <= MaxPubs
    BY LimitsAssumption DEF Typed, MqttTyped, TypedServer, Pubs
  <2>2. /\ None \notin Scrap /\ \A n \in Pubs : n \notin Scrap /\ n # None
        /\ Cut # Torn /\ Cut # Mixed /\ Torn # Mixed
    BY <2>1, LimitsAssumption DEF Scrap, Mixed, None, Cut, Torn
  <2>3. None \notin Pubs
    BY <2>2
  <2>4. ASSUME NEW w, NEW x, Right(w, x)
        PROVE  /\ x # Mixed
               /\ x \in Pubs => Delivers(w, x)
               /\ x = Torn => Several(w)
               /\ x = Cut => Oversize(w)
    <3>1. CASE x \in Pubs
      BY <2>2, <2>4, <3>1 DEF Right, Scrap
    <3>2. CASE x \notin Pubs
      <4>1. x = None \/ (x = Torn /\ Several(w)) \/ (x = Cut /\ Oversize(w))
        BY <2>4, <3>2 DEF Right, Delivers
      <4> QED
        BY <2>2, <3>2, <4>1 DEF Scrap
    <3> QED
      BY <3>1, <3>2
  <2>5. Right("frame", url) /\ Right("config", sleep)
    BY DEF Session, Found
  <2> QED
    BY <2>4, <2>5 DEF RetainedIsWhole
<1> QED
  BY <1>1, <1>2, TypedInit, TypedNext, FlightInvariant, SessionNext, PTL DEF Spec

-----------------------------------------------------------------------------
(* How long a cycle can take. *)

\* The steps that the call in net_mqtt.c has left at most; a round of its loop has five.
InCall == CASE mq = "idle"       -> 0
            [] mq = "puback"     -> 1
            [] mq = "publish"    -> 2
            [] mq = "round"      -> 5 * (Polls - t) - 3
            [] mq = "readconfig" -> 5 * (Polls - t) - 2
            [] mq = "config"     -> 5 * (Polls - t) - 1
            [] mq = "readframe"  -> 5 * (Polls - t)
            [] mq = "frame"      -> 5 * (Polls - t) + 1
            [] mq = "subscribe"  -> 5 * Polls + 2
            [] mq = "connack"    -> 5 * Polls + 3
            [] mq = "connect"    -> 5 * Polls + 4
            [] mq = "dial"       -> 5 * Polls + 5
            [] mq = "resolve"    -> 5 * Polls + 6

\* The steps that do_cycle has left, with the calls to come.
Left == CASE at = "pause"    -> 0
          [] at = "free"     -> 1
          [] at = "decide"   -> 2
          [] at = "posted"   -> InCall + 3
          [] at = "status"   -> 5 * Polls + 10
          [] at = "fetch"    -> 5 * Polls + 11 + (IF ht = "wait" THEN 1 ELSE 0)
          [] at = "retained" -> InCall + 5 * Polls + 13

\* Every step of a cycle is one less, whatever lwIP, the broker and the server have done
\* meanwhile, and those leave the rest as it is.
Shorter == /\ Program /\ at # "pause" => Left' < Left
           /\ Background => Left' = Left

\* Place by place, what is left.
LEMMA InCallAt ==
    /\ mq = "idle" => InCall = 0
    /\ mq = "puback" => InCall = 1
    /\ mq = "publish" => InCall = 2
    /\ mq = "round" => InCall = 5 * (Polls - t) - 3
    /\ mq = "readconfig" => InCall = 5 * (Polls - t) - 2
    /\ mq = "config" => InCall = 5 * (Polls - t) - 1
    /\ mq = "readframe" => InCall = 5 * (Polls - t)
    /\ mq = "frame" => InCall = 5 * (Polls - t) + 1
    /\ mq = "subscribe" => InCall = 5 * Polls + 2
    /\ mq = "connack" => InCall = 5 * Polls + 3
    /\ mq = "connect" => InCall = 5 * Polls + 4
    /\ mq = "dial" => InCall = 5 * Polls + 5
    /\ mq = "resolve" => InCall = 5 * Polls + 6
<1>1. /\ mq = "idle" => InCall = 0
      /\ mq = "puback" => InCall = 1
      /\ mq = "publish" => InCall = 2
  BY DEF InCall
<1>2. mq = "round" => InCall = 5 * (Polls - t) - 3
  BY DEF InCall
<1>3. mq = "readconfig" => InCall = 5 * (Polls - t) - 2
  BY DEF InCall
<1>4. mq = "config" => InCall = 5 * (Polls - t) - 1
  BY DEF InCall
<1>5. mq = "readframe" => InCall = 5 * (Polls - t)
  BY DEF InCall
<1>6. mq = "frame" => InCall = 5 * (Polls - t) + 1
  BY DEF InCall
<1>7. mq = "subscribe" => InCall = 5 * Polls + 2
  BY DEF InCall
<1>8. mq = "connack" => InCall = 5 * Polls + 3
  BY DEF InCall
<1>9. mq = "connect" => InCall = 5 * Polls + 4
  BY DEF InCall
<1>10. mq = "dial" => InCall = 5 * Polls + 5
  BY DEF InCall
<1>11. mq = "resolve" => InCall = 5 * Polls + 6
  BY DEF InCall
<1> QED
  BY <1>1, <1>2, <1>3, <1>4, <1>5, <1>6, <1>7, <1>8, <1>9, <1>10, <1>11

\* net_mqtt.c: a call has between none and all of its steps left; one that has begun, some.
LEMMA InCallIs ==
    ASSUME TypedPlace
    PROVE  InCall \in 0..(5 * Polls + 6) /\ (mq # "idle" => InCall > 0)
<1>1. t \in 0..Polls /\ Polls \in Nat
  BY LimitsAssumption DEF TypedPlace
<1> DEFINE r == Polls - t
<1>2. r \in 0..Polls /\ (mq \in {"readframe", "config", "readconfig", "round"} => r >= 1)
  BY <1>1 DEF TypedPlace
<1> HIDE DEF r
<1>3. CASE mq \in {"round", "readconfig", "config", "readframe"}
  <2>1. InCall \in {5 * r - 3, 5 * r - 2, 5 * r - 1, 5 * r}
    BY <1>3, InCallAt DEF r
  <2> QED
    BY <1>1, <1>2, <1>3, <2>1
<1>4. CASE mq = "frame"
  <2>1. InCall = 5 * r + 1
    BY <1>4, InCallAt DEF r
  <2> QED
    BY <1>1, <1>2, <2>1
<1>5. CASE mq \in {"idle", "puback", "publish"}
  <2>1. InCall \in 0..2 /\ (mq # "idle" => InCall > 0)
    BY <1>5, InCallAt
  <2> QED
    BY <1>1, <2>1
<1>6. CASE mq \in {"subscribe", "connack", "connect", "dial", "resolve"}
  <2>1. InCall \in (5 * Polls + 2)..(5 * Polls + 6)
    BY <1>1, <1>6, InCallAt
  <2> QED
    BY <1>1, <2>1
<1> QED
  BY <1>3, <1>4, <1>5, <1>6 DEF TypedPlace

\* net_mqtt.c:180-304: every step of a call leads to a later place, or to a later round.
LEMMA CallShortens == ASSUME TypedPlace, MqttCall PROVE InCall' \in Int /\ InCall' < InCall
<1>1. /\ t \in 0..Polls /\ Polls \in Nat
      /\ mq \in {"readframe", "config", "readconfig", "round"} => t < Polls
  BY LimitsAssumption DEF TypedPlace
<1>2. ASSUME mq' = "idle", mq # "idle" PROVE InCall' \in Int /\ InCall' < InCall
  <2>1. InCall' = 0
    BY <1>2 DEF InCall
  <2>2. InCall > 0
    BY <1>2, InCallIs
  <2> QED
    BY <2>1, <2>2
<1>3. ASSUME t' = t, << mq, mq' >> \in
                 {<< "resolve", "dial" >>, << "dial", "connect" >>, << "connect", "connack" >>,
                  << "connack", "subscribe" >>, << "connack", "publish" >>,
                  << "subscribe", "frame" >>, << "frame", "readframe" >>,
                  << "frame", "config" >>, << "readframe", "config" >>,
                  << "config", "readconfig" >>, << "config", "round" >>,
                  << "readconfig", "round" >>, << "publish", "puback" >>}
      PROVE  InCall' \in Int /\ InCall' < InCall
  BY <1>1, <1>3 DEF InCall
<1> USE DEF Go, Return, NoLocals, locals
<1>4. CASE Resolve
  BY <1>2, <1>3, <1>4 DEF Resolve
<1>5. CASE Dial
  BY <1>3, <1>5 DEF Dial
<1>6. CASE Connect
  BY <1>2, <1>3, <1>6 DEF Connect
<1>7. CASE Connected
  BY <1>2, <1>3, <1>7 DEF Connected
<1>8. CASE Subscribe
  BY <1>3, <1>8 DEF Subscribe
<1>9. CASE LookFrame
  BY <1>3, <1>9 DEF LookFrame, Look
<1>10. CASE ReadFrame
  BY <1>3, <1>10 DEF ReadFrame
<1>11. CASE LookConfig
  BY <1>3, <1>11 DEF LookConfig, Look
<1>12. CASE ReadConfig
  BY <1>3, <1>12 DEF ReadConfig
<1>13. CASE Round
  <2>1. mq = "round" /\ mq' = "frame" /\ t' = t + 1
    BY <1>13 DEF Round
  <2> QED
    BY <1>1, <2>1 DEF InCall
<1>14. CASE Fetched
  BY <1>2, <1>14 DEF Fetched
<1>15. CASE Publish
  BY <1>2, <1>3, <1>15 DEF Publish
<1>16. CASE Published
  BY <1>2, <1>16 DEF Published
<1> QED
  BY <1>4, <1>5, <1>6, <1>7, <1>8, <1>9, <1>10, <1>11, <1>12, <1>13, <1>14, <1>15, <1>16
     DEF MqttCall

\* main.c:78-207: so does every step of do_cycle.
LEMMA ProgramShortens ==
    ASSUME Typed, Flight, Program, at # "pause"
    PROVE  Left' < Left
<1>0. InCall \in 0..(5 * Polls + 6) /\ Polls \in Nat
  BY InCallIs, LimitsAssumption DEF Typed, MqttTyped, TypedCall
<1>1. CASE Join
  BY <1>1 DEF Join
<1>2. CASE GotRetained
  <2>1. at = "retained" /\ at' \in {"fetch", "status"}
    BY <1>2 DEF GotRetained
  <2> QED
    BY <1>0, <2>1 DEF Left
<1>3. CASE GotFrame
  <2>1. at = "fetch" /\ at' = "status"
    BY <1>3 DEF GotFrame
  <2> QED
    BY <1>0, <2>1 DEF Left
<1>4. CASE PostStatus
  <2>1. at = "status" /\ at' = "posted" /\ mq' = "resolve"
    BY <1>4 DEF PostStatus, Begin
  <2>2. InCall' = 5 * Polls + 6
    BY <2>1 DEF InCall
  <2> QED
    BY <1>0, <2>1, <2>2 DEF Left
<1>5. CASE WifiStop
  <2>1. at = "posted" /\ at' = "decide"
    BY <1>5 DEF WifiStop
  <2> QED
    BY <1>0, <2>1 DEF Left
<1>6. CASE Paint
  <2>1. at = "decide" /\ at' = "free"
    BY <1>6 DEF Paint
  <2> QED
    BY <2>1 DEF Left
<1>7. CASE Free
  <2>1. at = "free" /\ at' = "pause"
    BY <1>7 DEF Free
  <2> QED
    BY <2>1 DEF Left
<1>8. CASE MqttCall /\ UNCHANGED << httpvars, cyclevars >>
  <2>1. at' = at /\ at \in {"retained", "posted"}
    BY <1>8, CallMoves DEF Flight, cyclevars
  <2>2. InCall' \in Int /\ InCall' < InCall
    BY <1>8, CallShortens DEF Typed, MqttTyped, TypedCall
  <2> QED
    BY <1>0, <2>1, <2>2 DEF Left
<1>9. CASE HttpReturn /\ UNCHANGED << mqttvars, cyclevars >>
  <2>1. ht = "wait" /\ ht' = "idle" /\ at' = at /\ at = "fetch"
    BY <1>9 DEF HttpReturn, Flight, cyclevars
  <2> QED
    BY <1>0, <2>1 DEF Left
<1> QED
  BY <1>1, <1>2, <1>3, <1>4, <1>5, <1>6, <1>7, <1>8, <1>9 DEF Program

\* net_mqtt.c, net_http.c: no callback moves the cycle or a call of it.
LEMMA BackgroundWaits == Background => Left' = Left
<1> SUFFICES ASSUME Background PROVE Left' = Left
  OBVIOUS
<1>1. UNCHANGED << at, ht, mq, t >>
  <2> USE DEF call, locals, session, mqttvars, httpvars, cyclevars
  <2>1. CASE Accept /\ UNCHANGED << httpvars, cyclevars >>
    BY <2>1 DEF Accept
  <2>2. CASE Lose /\ UNCHANGED << httpvars, cyclevars >>
    BY <2>2 DEF Lose
  <2>3. CASE Fragment /\ UNCHANGED << httpvars, cyclevars >>
    BY <2>3 DEF Fragment
  <2>4. CASE Subscribed /\ UNCHANGED << httpvars, cyclevars >>
    BY <2>4 DEF Subscribed
  <2>5. CASE (\E p \in Payloads : ServerPublish(p)) /\ UNCHANGED << httpvars, cyclevars >>
    BY <2>5 DEF ServerPublish
  <2>6. CASE Puback(cycle) /\ UNCHANGED << httpvars, cyclevars >>
    BY <2>6 DEF Puback
  <2>7. CASE HttpBackground /\ UNCHANGED << mqttvars, cyclevars >>
    BY <2>7 DEF HttpBackground, RecvFn, ResultFn
  <2> QED
    BY <2>1, <2>2, <2>3, <2>4, <2>5, <2>6, <2>7 DEF Background, MqttBackground
<1> QED
  BY <1>1 DEF Left, InCall

\* main.c:78-207, net_mqtt.c, net_http.c: a cycle is over after 10 * Polls + 19 steps of its
\* own, polls of the waits for one flag not counted, even if the broker never answers or
\* publishes without end.
THEOREM CyclesAreBounded == Spec => [](Left \in 0..(10 * Polls + 19)) /\ [][Shorter]_vars
<1>1. Typed => Left \in 0..(10 * Polls + 19)
  <2> SUFFICES ASSUME Typed PROVE Left \in 0..(10 * Polls + 19)
    OBVIOUS
  <2>1. InCall \in 0..(5 * Polls + 6) /\ Polls \in Nat
    BY InCallIs, LimitsAssumption DEF Typed, MqttTyped, TypedCall
  <2>2. at \in Places
    BY DEF Typed, TypedCycle
  <2> QED
    BY <2>1, <2>2 DEF Left, Places
<1>2. Typed /\ Flight /\ [Next]_vars => [Shorter]_vars
  BY ProgramShortens, BackgroundWaits DEF Shorter
<1> QED
  BY <1>1, <1>2, TypedInit, TypedNext, FlightInvariant, PTL DEF Spec
====
