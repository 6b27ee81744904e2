----------------------------- MODULE MqttCycle -----------------------------
(***************************************************************************)
(* src/main.c, do_cycle: the MQTT transport's cycle from joining WiFi to   *)
(* the end of the paint, over MqttClient and HttpFetch, repeated as the    *)
(* awake loop repeats it without a reboot in between.                      *)
(*                                                                         *)
(* Bound: MaxCycles cycles.                                                *)
(***************************************************************************)
EXTENDS MqttClient, HttpFetch

CONSTANT MaxCycles

ASSUME CyclesAssumption == MaxCycles \in Nat

VARIABLES
    at,        \* the place in do_cycle
    cycle,     \* cycles begun
    owned,     \* the memory at s_dst is the cycle's
    last,      \* last_hash: the URL last painted
    frame      \* what will be painted is what was downloaded

cyclevars == <<at, cycle, owned, last, frame>>
vars == <<mqttvars, httpvars, cyclevars>>

Init == /\ MqttInit /\ HttpInit
        /\ at = "pause" /\ cycle = 0 /\ owned = FALSE /\ last = None /\ frame = FALSE

\* A cycle joins WiFi and asks for the retained messages; or cannot join.
Join == /\ at = "pause" /\ cycle < MaxCycles
        /\ cycle' = cycle + 1
        /\ \/ at' = "retained" /\ Begin("fetch")
           \/ at' = "decide" /\ UNCHANGED mqttvars
        /\ UNCHANGED <<httpvars, owned, last, frame>>

\* mqtt_fetch_retained is back: skip what was already painted; find room for the frame,
\* in the heap (a frame in PSRAM is never freed), and request it.
GotRetained ==
    /\ at = "retained" /\ mq = "idle"
    /\ \/ /\ ok /\ url # last
          /\ owned' = TRUE
          /\ HttpGet(url) /\ at' = "fetch"
       \/ at' = "status" /\ UNCHANGED <<owned, httpvars>>   \* no URL, no driver, no room
    /\ UNCHANGED <<mqttvars, cycle, last, frame>>

\* Mutant: any length will do.
Complete_any == fetched

\* http_get returned true and got == need.
Complete == fetched /\ s_len = Need

\* http_get is back.
GotFrame == /\ at = "fetch" /\ ht = "idle"
            /\ frame' = Complete
            /\ at' = "status"
            /\ UNCHANGED <<mqttvars, httpvars, cycle, owned, last>>

PostStatus == /\ at = "status" /\ Begin("publish")
              /\ at' = "posted"
              /\ UNCHANGED <<httpvars, cycle, owned, last, frame>>

\* Mutant: transfers survive.
Aborted_not == xfer

\* lwIP's transfer once the network interface is gone.
Aborted == Closed

\* mqtt_publish_status is back.  wifi_stop takes the interface down: every connection ends.
WifiStop == /\ at = "posted" /\ mq = "idle"
            /\ at' = "decide"
            /\ xfer' = Aborted
            /\ Gone
            /\ s_conn_done' = TRUE /\ s_conn_status' = "disconnected"
            /\ UNCHANGED <<call, locals, result, s_pub_done, inbox, server,
                           ht, fetched, s_len, s_overflow, s_done, s_result, mem,
                           cycle, owned, last, frame>>

\* paint() what was downloaded, and record it; or keep the image.
Paint == /\ at = "decide" /\ at' = "free"
         /\ last' = IF frame THEN url ELSE last
         /\ UNCHANGED <<mqttvars, httpvars, cycle, owned, frame>>

\* free(sram_buf): the heap may give those bytes to anyone.
Free == /\ at = "free" /\ at' = "pause"
        /\ owned' = FALSE /\ frame' = FALSE
        /\ UNCHANGED <<mqttvars, httpvars, cycle, last>>

Program == \/ Join \/ GotRetained \/ GotFrame \/ PostStatus \/ WifiStop \/ Paint \/ Free
           \/ MqttCall /\ UNCHANGED <<httpvars, cyclevars>>
           \/ HttpReturn /\ UNCHANGED <<mqttvars, cyclevars>>

\* lwIP, the broker and the server.
Background == \/ (MqttBackground \/ Puback(cycle)) /\ UNCHANGED <<httpvars, cyclevars>>
              \/ HttpBackground /\ UNCHANGED <<mqttvars, cyclevars>>

\* The awake loop has run its course.
Done == at = "pause" /\ cycle = MaxCycles /\ UNCHANGED vars

Next == Program \/ Background \/ Done

Spec == Init /\ [][Next]_vars

\* The program runs; nothing is asked of lwIP, the broker or the server.
FairSpec == Spec /\ WF_vars(Program)

-----------------------------------------------------------------------------
TypeOK ==
    /\ MqttTypeOK /\ HttpTypeOK
    /\ at \in {"pause", "retained", "fetch", "status", "posted", "decide", "free"}
    /\ cycle \in 0..MaxCycles
    /\ owned \in BOOLEAN /\ last \in 0..Mixed /\ frame \in BOOLEAN

\* A publication that the session may deliver on the topic, and what there is of them.
Delivers(w, n) == n \in Pubs /\ published[n].topic = w /\ (w = "frame" => n >= since)
Several(w)     == \E m, n \in Pubs : m < n /\ Delivers(w, m) /\ Delivers(w, n)
Oversize(w)    == \E n \in Pubs : Delivers(w, n) /\ published[n].size >= Room

\* net_mqtt.c:39-46, 138-164, 252-275: the messages that the broker delivers one after the
\* other on the two topics do not get into each other's way.  The URL found is that of one
\* whole frame message, no older than the one retained when the session subscribed, and the
\* interval that of one whole config message, unless one more message has come on the very
\* same topic (it may overwrite the buffer while it is read: Torn) or one did not fit
\* (some of its fragments are missing: Cut).  Parts of two are never joined (Mixed).
RetainedIsWhole ==
    /\ url # Mixed /\ sleep # Mixed
    /\ url \in Pubs   => Delivers("frame", url)
    /\ url = Torn     => Several("frame")
    /\ url = Cut      => Oversize("frame")
    /\ sleep \in Pubs => Delivers("config", sleep)
    /\ sleep = Torn   => Several("config")
    /\ sleep = Cut    => Oversize("config")

\* A frame that do_cycle accepts is, until it is painted, the whole frame of the URL the
\* server retained, whatever an earlier download that timed out still had to deliver
\* (net_http.c:92-104, main.c:128).
FetchedIsWhole == frame => mem = [i \in 1..Need |-> <<url, i>>]

\* lwIP never writes to a buffer after do_cycle freed it (net_http.c:93, main.c:206), and a
\* paint and what follows it run with nothing in flight, after whatever timed out before
\* (main.c:75-76): the radio went down first.
NoLateWrite == /\ xfer.open => owned
               /\ at \in {"decide", "free", "pause"} => ~xfer.open /\ link = "idle"

\* A status that mqtt_publish_status reports as published is this cycle's, and is what the
\* broker has retained (net_mqtt.c:290-300).
PublishedIsAcked == [][at = "posted" /\ mq = "puback" /\ mq' = "idle" /\ ok' => status = cycle]_vars

\* Whatever the network does, a cycle ends (every wait of net_mqtt.c and net_http.c has a
\* timeout).
CycleEnds == cycle > 0 ~> at = "pause"
=============================================================================
