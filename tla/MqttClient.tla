----------------------------- MODULE MqttClient -----------------------------
(***************************************************************************)
(* src/net_mqtt.c: mqtt_fetch_retained and mqtt_publish_status, the lwIP   *)
(* client whose callbacks run in the background between any two steps of   *)
(* theirs, and the broker, on whose topics the server publishes at will.   *)
(*                                                                         *)
(* A publication is a number; it is whatever Payloads says, and is size    *)
(* units of a few bytes long.  It arrives in order, after the publications *)
(* before it, in fragments of any length.  A buffer is a sequence of units *)
(* <<publication, unit>>; Room is PAYLOAD_MAX in units.                    *)
(*                                                                         *)
(* Bounds: MaxPubs publications; Polls rounds of the receiving loop        *)
(* (timeout_ms / 10), Grace of them after the URL has come (500 / 10).     *)
(***************************************************************************)
EXTENDS Naturals, Sequences

CONSTANTS Payloads,      \* what the server can publish
          MaxPubs, Room, Polls, Grace

Topics == {"frame", "config"}

\* "url": extract_url finds one; "blank": it finds an empty one; "interval": extract_int
\* finds one; "nothing": neither does.
Says == {"url", "blank", "interval", "nothing"}

ASSUME PayloadsAssumption ==
    Payloads \subseteq [topic: Topics, says: Says, size: Nat]
ASSUME LimitsAssumption ==
    MaxPubs \in Nat /\ Room \in Nat \ {0} /\ Polls \in Nat /\ Grace \in Nat

VARIABLES
    mq,                      \* the caller's place in net_mqtt.c; "idle" outside
    op,                      \* the call: "fetch" or "publish"
    ok,                      \* what the last finished call returned
    got_url, got_config, t, grace,
    url, sleep,              \* url_out, *sleep_out
    held,                    \* what extract_url or extract_int began to read
    s_conn_done, s_conn_status, s_pub_done,
    s_payload, s_buf, s_ready,
    link,                    \* lwIP's client: "idle", "connecting", "connected"
    request,                 \* a publish that waits for its PUBACK
    asked,                   \* SUBSCRIBE packets the broker has yet to handle
    wire, part,              \* publications on their way; units of the first that came
    subs,                    \* this session's subscriptions, at the broker
    published, retained,     \* the server's publications; the retained one of each topic
    status,                  \* the broker's retained status: the number of its cycle
    since                    \* history: the oldest frame this session may deliver

call    == <<mq, op, ok>>
locals  == <<got_url, got_config, t, grace, held>>
result  == <<url, sleep>>
flags   == <<s_conn_done, s_conn_status, s_pub_done>>
inbox   == <<s_payload, s_buf, s_ready>>
session == <<link, request, asked, wire, part, subs>>
server  == <<published, retained, status, since>>
mqttvars == <<call, locals, result, flags, inbox, session, server>>

\* What a URL or an interval is made of: nothing, a publication, some parts of one, text
\* that changed while it was read, parts that do not belong together.
None  == 0
Cut   == MaxPubs + 1
Torn  == MaxPubs + 2
Mixed == MaxPubs + 3
Scrap == {Cut, Torn, Mixed}

NoLocals == /\ got_url' = FALSE /\ got_config' = FALSE
            /\ t' = 0 /\ grace' = 0 /\ held' = <<>>

MqttInit ==
    /\ mq = "idle" /\ op = "fetch" /\ ok = FALSE
    /\ got_url = FALSE /\ got_config = FALSE /\ t = 0 /\ grace = 0 /\ held = <<>>
    /\ url = None /\ sleep = None
    /\ s_conn_done = FALSE /\ s_conn_status = "none" /\ s_pub_done = FALSE
    /\ s_payload = <<>>
    /\ s_buf = [w \in Topics |-> <<>>] /\ s_ready = [w \in Topics |-> FALSE]
    /\ link = "idle" /\ request = FALSE /\ asked = <<>> /\ wire = <<>> /\ part = 0
    /\ subs = {}
    /\ published = <<>> /\ retained = [w \in Topics |-> None] /\ status = None /\ since = 0

-----------------------------------------------------------------------------
(* connect_broker: resolve, dial, wait for the CONNACK. *)

\* A call begins: topics are built, and url_out is emptied.
Begin(o) == /\ mq = "idle"
            /\ mq' = "resolve" /\ op' = o /\ UNCHANGED ok
            /\ IF o = "fetch" THEN url' = None /\ since' = 0 ELSE UNCHANGED <<url, since>>
            /\ UNCHANGED <<sleep, locals, flags, inbox, session, published, retained, status>>

\* The call goes on, or returns; its locals are gone then.
Go(to)    == mq' = to /\ UNCHANGED <<op, ok, locals>>
Return(r) == mq' = "idle" /\ ok' = r /\ UNCHANGED op /\ NoLocals

\* resolve: an address, sooner or later, or none.
Resolve == /\ mq = "resolve"
           /\ Go("dial") \/ Return(FALSE)
           /\ UNCHANGED <<result, flags, inbox, session, server>>

Dial == /\ mq = "dial" /\ Go("connect")
        /\ s_conn_done' = FALSE
        /\ UNCHANGED <<result, s_conn_status, s_pub_done, inbox, session, server>>

\* mqtt_client_connect: ERR_ISCONN unless the client is idle; or no memory, no route.
Connect == /\ mq = "connect"
           /\ \/ link = "idle" /\ link' = "connecting" /\ Go("connack")
              \/ Return(FALSE) /\ UNCHANGED link
           /\ UNCHANGED <<result, flags, inbox, request, asked, wire, part, subs, server>>

\* Mutant: a wait without a timeout.
Over_set(flag) == flag

\* wait_flag returns: the flag is set, or timeout_ms has passed without it.
Over(flag) == flag \/ ~flag

\* A client that is given up here goes on connecting.
Connected ==
    /\ mq = "connack" /\ Over(s_conn_done)
    /\ IF s_conn_done /\ s_conn_status = "accepted"
       THEN Go(IF op = "fetch" THEN "subscribe" ELSE "publish")
       ELSE Return(FALSE)
    /\ UNCHANGED <<result, flags, inbox, session, server>>

\* disconnect_broker, under lwIP's lock, without a callback: what is lost with the
\* connection, at either end.
Gone == /\ link' = "idle" /\ request' = FALSE
        /\ asked' = <<>> /\ wire' = <<>> /\ part' = 0 /\ subs' = {}

-----------------------------------------------------------------------------
(* mqtt_fetch_retained. *)

Subscribe == /\ mq = "subscribe" /\ Go("frame")
             /\ s_ready' = [w \in Topics |-> FALSE]
             /\ asked' = IF link = "connected" THEN <<"frame", "config">> ELSE <<>>
             /\ UNCHANGED <<result, flags, s_payload, s_buf, link, request, wire, part, subs,
                            server>>

\* One round of the loop looks at the frame first, then at the config.
Look(w, read, next) ==
    /\ mq = w
    /\ IF s_ready[w]
       THEN /\ s_ready' = [s_ready EXCEPT ![w] = FALSE]
            /\ mq' = read /\ held' = s_buf[w] /\ UNCHANGED <<op, ok, got_url, got_config, t, grace>>
       ELSE Go(next) /\ UNCHANGED s_ready
    /\ UNCHANGED <<result, flags, s_payload, s_buf, session, server>>
LookFrame  == t < Polls /\ Look("frame", "readframe", "config")
LookConfig == Look("config", "readconfig", "round")

Pubs == 1..Len(published)

\* The k units of publication n after the first p; all of them.
Units(n, p, k) == [i \in 1..k |-> <<n, p + i>>]
Whole(n)       == Units(n, 0, published[n].size)

\* What a buffer's text is made of, read without the lock.
Made(w) ==
    IF s_buf[w] # held THEN Torn
    ELSE IF held = <<>> THEN None
    ELSE LET n == held[1][1]
         IN IF held = Whole(n) THEN n
            ELSE IF \A i \in 1..Len(held) : held[i][1] = n THEN Cut ELSE Mixed

\* What extract_url or extract_int can make of it; a scrap may or may not look like one.
Finds(m, what) == IF m \in Scrap THEN BOOLEAN ELSE {m # None /\ published[m].says = what}

\* What extract_url leaves in url_out when it finds none: an empty value empties it.
Unfound(m) == IF m \in Scrap THEN {None, url}
               ELSE IF m # None /\ published[m].says = "blank" THEN {None} ELSE {url}

\* extract_url on s_frame_buf.
ReadFrame ==
    /\ mq = "readframe" /\ mq' = "config"
    /\ LET m == Made("frame")
       IN \E found \in Finds(m, "url") :
             /\ got_url' = (got_url \/ found)
             /\ url' \in IF found THEN {m} ELSE Unfound(m)
    /\ held' = <<>>
    /\ UNCHANGED <<op, ok, got_config, t, grace, sleep, flags, inbox, session, server>>

\* extract_int on s_config_buf.
ReadConfig ==
    /\ mq = "readconfig" /\ mq' = "round"
    /\ got_config' = TRUE
    /\ LET m == Made("config")
       IN \E found \in Finds(m, "interval") : sleep' = IF found THEN m ELSE sleep
    /\ held' = <<>>
    /\ UNCHANGED <<op, ok, got_url, t, grace, url, flags, inbox, session, server>>

\* A URL, and a config or a short grace for it.
Enough == got_url /\ (got_config \/ grace + 1 >= Grace)

\* The round ends without: 10 ms more.
Round == /\ mq = "round" /\ ~Enough
         /\ mq' = "frame" /\ t' = t + 1
         /\ grace' = IF got_url /\ ~got_config THEN grace + 1 ELSE grace
         /\ UNCHANGED <<op, ok, got_url, got_config, held, result, flags, inbox, session, server>>

Fetched == /\ \/ mq = "round" /\ Enough
              \/ mq = "frame" /\ t >= Polls
           /\ Return(got_url) /\ Gone
           /\ UNCHANGED <<result, flags, inbox, server>>

-----------------------------------------------------------------------------
(* mqtt_publish_status. *)

\* Mutant: s_pub_done is not reset.
Unacked_not == s_pub_done

\* s_pub_done before a publish.
Unacked == FALSE

\* mqtt_publish may fail: not connected any more, no memory.
Publish == /\ mq = "publish"
           /\ s_pub_done' = Unacked
           /\ \/ link = "connected" /\ request' = TRUE /\ Go("puback")
                 /\ UNCHANGED <<link, asked, wire, part, subs>>
              \/ Return(FALSE) /\ Gone
           /\ UNCHANGED <<result, s_conn_done, s_conn_status, inbox, server>>

Published == /\ mq = "puback" /\ Over(s_pub_done)
             /\ Return(s_pub_done) /\ Gone
             /\ UNCHANGED <<result, flags, inbox, server>>

-----------------------------------------------------------------------------
(* lwIP's callbacks. *)

\* conn_cb: the broker accepts; ...
Accept == /\ link = "connecting" /\ link' = "connected"
          /\ s_conn_done' = TRUE /\ s_conn_status' = "accepted"
          /\ UNCHANGED <<call, locals, result, s_pub_done, inbox, request, asked, wire, part,
                         subs, server>>

\* ... or the connection is refused, reset or lost, to this or another client of that id.
Lose == /\ link # "idle" /\ Gone
        /\ s_conn_done' = TRUE /\ s_conn_status' = "disconnected"
        /\ UNCHANGED <<call, locals, result, s_pub_done, inbox, server>>

\* Mutant: inpub_cb does not reset s_payload_len.
Start_not == s_payload

\* s_payload as inpub_cb leaves it.
Start == <<>>

\* Mutant: a fragment may take the place of the terminating zero.
Kept_full(s, data) == IF Len(s) + Len(data) <= Room THEN s \o data ELSE s

\* indata_cb: a fragment that does not fit is skipped, whatever follows it.
Kept(s, data) == IF Len(s) + Len(data) < Room THEN s \o data ELSE s

\* inpub_cb with the first fragment of a message, indata_cb with each; s_cur is its topic.
\* An empty message has one empty fragment.
Fragment ==
    /\ link = "connected" /\ wire # <<>>
    /\ LET n == Head(wire)
           w == published[n].topic
           left == published[n].size - part
       IN \E k \in IF left = 0 THEN {0} ELSE 1..left :
          LET s == Kept(IF part = 0 THEN Start ELSE s_payload, Units(n, part, k))
              last == k = left
          IN /\ s_payload' = s
             /\ s_buf' = IF last THEN [s_buf EXCEPT ![w] = s] ELSE s_buf
             /\ s_ready' = IF last THEN [s_ready EXCEPT ![w] = TRUE] ELSE s_ready
             /\ part' = IF last THEN 0 ELSE part + k
             /\ wire' = IF last THEN Tail(wire) ELSE wire
    /\ UNCHANGED <<call, locals, result, flags, link, request, asked, subs, server>>

\* The broker retains the status of cycle c; pub_cb.
Puback(c) == /\ link = "connected" /\ request
             /\ request' = FALSE /\ s_pub_done' = TRUE /\ status' = c
             /\ UNCHANGED <<call, locals, result, s_conn_done, s_conn_status, inbox, link, asked,
                            wire, part, subs, published, retained, since>>

-----------------------------------------------------------------------------
(* The broker, and the server behind it. *)

\* SUBSCRIBE is handled: the topic's retained publication follows.
Subscribed ==
    /\ asked # <<>> /\ asked' = Tail(asked)
    /\ LET w == Head(asked)
           n == retained[w]
       IN /\ subs' = subs \cup {w}
          /\ wire' = IF n = None THEN wire ELSE Append(wire, n)
          /\ since' = IF w = "config" THEN since
                      ELSE IF n = None THEN Len(published) + 1 ELSE n
    /\ UNCHANGED <<call, locals, result, flags, inbox, link, request, part, published, retained,
                   status>>

\* The server publishes; an empty message clears the retained one.
ServerPublish(p) ==
    /\ Len(published) < MaxPubs
    /\ LET n == Len(published) + 1
       IN /\ published' = Append(published, p)
          /\ retained' = [retained EXCEPT ![p.topic] = IF p.size = 0 THEN None ELSE n]
          /\ wire' = IF p.topic \in subs THEN Append(wire, n) ELSE wire
    /\ UNCHANGED <<call, locals, result, flags, inbox, link, request, asked, part, subs, status,
                   since>>

-----------------------------------------------------------------------------
\* What a call does until it returns.
MqttCall == \/ Resolve \/ Dial \/ Connect \/ Connected \/ Subscribe
            \/ LookFrame \/ ReadFrame \/ LookConfig \/ ReadConfig \/ Round \/ Fetched
            \/ Publish \/ Published

\* What goes on behind it.
MqttBackground == \/ Accept \/ Lose \/ Fragment \/ Subscribed
                  \/ \E p \in Payloads : ServerPublish(p)

Buffers == {s \in Seq((1..MaxPubs) \X Nat) : Len(s) < Room}

MqttTypeOK ==
    /\ mq \in {"idle", "resolve", "dial", "connect", "connack", "subscribe", "frame",
               "readframe", "config", "readconfig", "round", "publish", "puback"}
    /\ op \in {"fetch", "publish"} /\ ok \in BOOLEAN
    /\ got_url \in BOOLEAN /\ got_config \in BOOLEAN /\ t \in 0..Polls /\ grace \in Nat
    /\ held \in Buffers
    /\ url \in 0..Mixed /\ sleep \in 0..Mixed
    /\ s_conn_done \in BOOLEAN /\ s_conn_status \in {"none", "accepted", "disconnected"}
    /\ s_pub_done \in BOOLEAN
    /\ s_payload \in Buffers /\ s_buf \in [Topics -> Buffers] /\ s_ready \in [Topics -> BOOLEAN]
    /\ link \in {"idle", "connecting", "connected"} /\ request \in BOOLEAN
    /\ asked \in Seq(Topics) /\ wire \in Seq(Pubs) /\ part \in Nat /\ subs \subseteq Topics
    /\ published \in Seq(Payloads) /\ Len(published) <= MaxPubs
    /\ retained \in [Topics -> 0..MaxPubs] /\ status \in Nat /\ since \in 0..(MaxPubs + 1)
=============================================================================
