------------------------------- MODULE Portal -------------------------------
(***************************************************************************)
(* src/net_portal.c once the access point is up: the HTTP server, whose    *)
(* callbacks lwIP runs in the background, and the loop of portal_run,      *)
(* which scans, counts idle time and ends the portal.  Callbacks can come  *)
(* between any two reads and writes of the loop's flags; they do not       *)
(* interrupt each other.                                                   *)
(*                                                                         *)
(* A connection is an element of Conns and is used once.  Its request is   *)
(* a stream of units: head (to the end of the headers), body, and what the *)
(* client may send after it.  A response is Size(kind) units.              *)
(*                                                                         *)
(* Bounds: Cap units of request are kept (REQ_MAX), ScanLimit polls of a   *)
(* scan (8 s), IdleMax polls without a new connection (15 min).  The       *)
(* connections are as many as Conns.                                       *)
(***************************************************************************)
EXTENDS Naturals

CONSTANTS
    Conns, Nobody,
    Requests,       \* [kind, head, body, extra: lengths in units, sized: has "Content-Length:"]
    Cap, ScanLimit, IdleMax

ASSUME ConnsAssumption == Nobody \notin Conns
ASSUME RequestsAssumption ==
    Requests \subseteq [kind : {"page", "rescan", "save"}, head : Nat \ {0}, body : Nat,
                        extra : Nat, sized : BOOLEAN]
ASSUME BoundsAssumption == Cap \in Nat \ {0} /\ ScanLimit \in Nat /\ IdleMax \in Nat \ {0}

VARIABLES
    pc, ret,                  \* the loop of portal_run; where wifi_scan returns to
    waited, idle_ms,          \* polls of this scan; polls without a new connection
    s_reboot_pending, s_rescan_pending, s_client_seen,
    scanning,                 \* cyw43: a scan is running
    conn,                     \* each connection: none yet or refused, its conn_t live, or freed
    hooked,                   \* lwIP: the connections with our callbacks and their conn_t
    request, came,            \* what each client asks; how much of it has come
    resp_total, acked, reboot_after,        \* fields of conn_t
    written, received,        \* TCP: response units queued, and acknowledged by the client
    config                    \* what save_form last saved: whose form, how much of its body

loop   == <<pc, ret, waited, idle_ms>>
flags  == <<s_reboot_pending, s_rescan_pending, s_client_seen>>
fields == <<resp_total, acked, reboot_after>>
net    == <<request, came, written, received>>
vars   == <<loop, flags, scanning, conn, hooked, fields, net, config>>

Blank == [kind |-> "page", head |-> 1, body |-> 0, extra |-> 0, sized |-> FALSE]
\* The server listens; the scan that fills the picker is about to start.
Init == /\ pc = "scan" /\ ret = "top" /\ waited = 0 /\ idle_ms = 0
        /\ s_reboot_pending = FALSE /\ s_rescan_pending = FALSE /\ s_client_seen = FALSE
        /\ scanning = FALSE
        /\ conn = [c \in Conns |-> "none"] /\ hooked = {}
        /\ request = [c \in Conns |-> Blank] /\ came = [c \in Conns |-> 0]
        /\ resp_total = [c \in Conns |-> 0] /\ acked = [c \in Conns |-> 0]
        /\ reboot_after = [c \in Conns |-> FALSE]
        /\ written = [c \in Conns |-> 0] /\ received = [c \in Conns |-> 0]
        /\ config = [from |-> Nobody, part |-> 0]

-----------------------------------------------------------------------------
(* The request buffer. *)

Stream(r) == r.head + r.body + r.extra

\* Units in the buffer when k have come, and units of the body among them.
Held(k) == IF k > Cap THEN Cap ELSE k
Body(r, k) == IF Held(k) > r.head THEN Held(k) - r.head ELSE 0

\* Mutant: the last unit of the body is not waited for.
Missing_one_less(r, k) == r.sized /\ Body(r, k) + 1 < r.body

\* have < want.
Missing(r, k) == r.sized /\ Body(r, k) < r.body

\* recv_cb: is it time to handle the request?
Complete(r, k) == \/ Held(k) = Cap
                  \/ Held(k) >= r.head /\ (r.kind = "save" => ~Missing(r, k))

\* The form page is long, the notices are short.
Size(kind) == IF kind = "page" THEN 2 ELSE 1

-----------------------------------------------------------------------------
(* lwIP's callbacks. *)

\* The radio is up and the processor runs.
Alive == pc \notin {"rebooted", "off"}

\* accept_cb: a new connection, unless there is no memory for its conn_t.
Accept(c) == /\ Alive /\ conn[c] = "none"
             /\ \/ /\ conn' = [conn EXCEPT ![c] = "live"]
                   /\ hooked' = hooked \cup {c}
                   /\ \E r \in Requests : request' = [request EXCEPT ![c] = r]
                   /\ s_client_seen' = TRUE
                \/ /\ conn' = [conn EXCEPT ![c] = "refused"]
                   /\ UNCHANGED <<hooked, request, s_client_seen>>
             /\ UNCHANGED <<loop, s_reboot_pending, s_rescan_pending, scanning, came, written,
                            received, fields, config>>

\* conn_close: the callbacks go and conn_t is freed; lwIP ends the connection by itself.
Close(c) == conn' = [conn EXCEPT ![c] = "freed"] /\ hooked' = hooked \ {c}

\* Mutant: the device reboots once the form is saved.
RebootAtHandle_saved(c) == s_reboot_pending \/ request[c].kind = "save"

\* s_reboot_pending after handle_request.
RebootAtHandle(c) == s_reboot_pending

\* handle_request and send_response; tcp_write takes all of the response or, without
\* memory, nothing.
Handle(c, k) ==
    LET kind == request[c].kind IN
    /\ config' = IF kind = "save" THEN [from |-> c, part |-> Body(request[c], k)] ELSE config
    /\ reboot_after' = [reboot_after EXCEPT ![c] = @ \/ kind = "save"]
    /\ s_rescan_pending' = (s_rescan_pending \/ kind = "rescan")
    /\ s_reboot_pending' = RebootAtHandle(c)
    /\ resp_total' = [resp_total EXCEPT ![c] = Size(kind)]
    /\ acked' = [acked EXCEPT ![c] = 0]
    /\ \/ written' = [written EXCEPT ![c] = @ + Size(kind)]
       \/ UNCHANGED written

\* recv_cb with n more units of the stream: kept as far as they fit, and handled, or
\* handled again, whenever what is there looks complete.
Segment(c, n) ==
    /\ Alive /\ c \in hooked
    /\ came[c] + n <= Stream(request[c])
    /\ came' = [came EXCEPT ![c] = @ + n]
    /\ IF Complete(request[c], came'[c])
       THEN Handle(c, came'[c])
       ELSE UNCHANGED <<config, fields, s_rescan_pending, s_reboot_pending, written>>
    /\ UNCHANGED <<loop, s_client_seen, scanning, conn, hooked, request, received>>

\* sent_cb: the client has acknowledged n more units.
Sent(c, n) ==
    /\ Alive /\ c \in hooked
    /\ received[c] + n <= written[c]
    /\ received' = [received EXCEPT ![c] = @ + n]
    /\ acked' = [acked EXCEPT ![c] = @ + n]
    /\ IF acked'[c] >= resp_total[c]
       THEN Close(c) /\ s_reboot_pending' = (s_reboot_pending \/ reboot_after[c])
       ELSE UNCHANGED <<conn, hooked, s_reboot_pending>>
    /\ UNCHANGED <<loop, s_rescan_pending, s_client_seen, scanning, request, came, written,
                   resp_total, reboot_after, config>>

\* recv_cb with NULL: the client closed.
PeerCloses(c) == /\ Alive /\ c \in hooked
                 /\ Close(c)
                 /\ UNCHANGED <<loop, flags, scanning, fields, net, config>>

\* Mutant: conn_t is left to nobody.
Freed_not(c) == conn

\* free(arg).
Freed(c) == [conn EXCEPT ![c] = "freed"]

\* err_cb: the connection is reset or given up, and lwIP has freed its pcb.
Error(c) == /\ Alive /\ c \in hooked
            /\ hooked' = hooked \ {c}
            /\ conn' = Freed(c)
            /\ UNCHANGED <<loop, flags, scanning, fields, net, config>>

-----------------------------------------------------------------------------
(* portal_run's loop. *)

Goto(next) == pc' = next
Same == UNCHANGED <<conn, hooked, fields, net, config>>

\* wifi_scan: cyw43_wifi_scan starts, or fails at once.
ScanStart == /\ pc = "scan"
             /\ waited' = 0
             /\ \/ Goto("scanning") /\ scanning' = TRUE
                \/ Goto(ret) /\ UNCHANGED scanning
             /\ UNCHANGED <<ret, idle_ms, flags>> /\ Same

\* Mutant: the scan is waited for without a limit.
ScanOver_unlimited == ~scanning

\* The scan has ended, or 8 s have passed.
ScanOver == ~scanning \/ waited = ScanLimit

\* Mutant: the Rescan flag is cleared when the scan is done.
AfterScan_cleared == FALSE

\* s_rescan_pending when wifi_scan returns.
AfterScan == s_rescan_pending

\* One 100 ms poll, or the end of the wait.
ScanWait == /\ pc = "scanning"
            /\ \/ ScanOver /\ Goto(ret) /\ s_rescan_pending' = AfterScan /\ UNCHANGED waited
               \/ /\ ~ScanOver /\ waited < ScanLimit /\ waited' = waited + 1
                  /\ UNCHANGED <<pc, s_rescan_pending>>
            /\ UNCHANGED <<ret, idle_ms, s_reboot_pending, s_client_seen, scanning>> /\ Same

\* The loop's condition, and the read of the Rescan flag.
Top == /\ pc = "top"
       /\ Goto(IF s_reboot_pending THEN "flush" ELSE IF s_rescan_pending THEN "rescan"
            ELSE "seen")
       /\ UNCHANGED <<ret, waited, idle_ms, flags, scanning>> /\ Same

\* The flag is cleared first, the scan comes after.
Rescan == /\ pc = "rescan"
          /\ Goto("scan") /\ ret' = "seen"
          /\ s_rescan_pending' = FALSE
          /\ UNCHANGED <<waited, idle_ms, s_reboot_pending, s_client_seen, scanning>> /\ Same

\* Mutant: a connection that stays open keeps the portal up.
Seen_open == s_client_seen \/ hooked # {}

\* A client has connected since the last poll.
Seen == s_client_seen

SeenCheck == /\ pc = "seen"
             /\ Goto(IF Seen THEN "clear" ELSE "idle")
             /\ UNCHANGED <<ret, waited, idle_ms, flags, scanning>> /\ Same

SeenClear == /\ pc = "clear"
             /\ Goto("top")
             /\ s_client_seen' = FALSE /\ idle_ms' = 0
             /\ UNCHANGED <<ret, waited, s_reboot_pending, s_rescan_pending, scanning>> /\ Same

\* Mutant: one poll too many.
IdleOver_late == idle_ms + 1 > IdleMax

\* 15 minutes without a new connection.
IdleOver == idle_ms + 1 >= IdleMax

\* A poll without a new connection; after the last one the device powers down.
IdlePoll == /\ pc = "idle"
            /\ idle_ms' = idle_ms + 1
            /\ Goto(IF IdleOver THEN "off" ELSE "top")
            /\ UNCHANGED <<ret, waited, flags, scanning>> /\ Same

\* 800 ms, then watchdog_reboot.
Reboot == /\ pc = "flush"
          /\ Goto("rebooted")
          /\ UNCHANGED <<ret, waited, idle_ms, flags, scanning>> /\ Same

\* cyw43 ends its scan, in time or not.
ScanEnds == /\ scanning /\ scanning' = FALSE
            /\ UNCHANGED <<loop, flags>> /\ Same

-----------------------------------------------------------------------------
Loop == \/ ScanStart \/ ScanWait \/ Top \/ Rescan \/ SeenCheck \/ SeenClear \/ IdlePoll \/ Reboot

\* A segment or an acknowledgement covers any number of units.
Most == Cap + 2

Callback(c) == \/ Accept(c) \/ PeerCloses(c) \/ Error(c)
               \/ \E n \in 1..Most : Segment(c, n) \/ Sent(c, n)

Next == Loop \/ ScanEnds \/ \E c \in Conns : Callback(c)

Spec == Init /\ [][Next]_vars

\* The loop is scheduled; clients, the network and the scan are under no fairness.
FairSpec == Spec /\ WF_vars(Loop)

-----------------------------------------------------------------------------
(* Properties. *)

TypeOK ==
    /\ pc \in {"scan", "scanning", "top", "rescan", "seen", "clear", "idle", "flush", "rebooted",
               "off"}
    /\ ret \in {"top", "seen"} /\ waited \in 0..ScanLimit /\ idle_ms \in 0..IdleMax
    /\ s_reboot_pending \in BOOLEAN /\ s_rescan_pending \in BOOLEAN /\ s_client_seen \in BOOLEAN
    /\ scanning \in BOOLEAN
    /\ conn \in [Conns -> {"none", "refused", "live", "freed"}] /\ hooked \subseteq Conns
    /\ request \in [Conns -> Requests \cup {Blank}] /\ came \in [Conns -> Nat]
    /\ resp_total \in [Conns -> 0..2] /\ acked \in [Conns -> Nat]
    /\ reboot_after \in [Conns -> BOOLEAN]
    /\ written \in [Conns -> Nat] /\ received \in [Conns -> Nat]
    /\ config \in [from : Conns \cup {Nobody}, part : 0..Cap]

\* net_portal.c:348-356, 481, 510-527: through every order of accept, close, reset and last
\* acknowledgement, the connections that can call back are exactly those whose conn_t is
\* allocated: none is used after free, none is freed twice, none is lost.
HookedIsLive == hooked = {c \in Conns : conn[c] = "live"}

\* A request that says its length and fits in the buffer.
Fits(r) == r.sized /\ r.head + r.body <= Cap

\* net_portal.c:494-505: however the stream is cut into segments, a form that says its
\* length and fits is saved with its whole body (one that does not is saved as it is).
SavedIsWhole == config.from # Nobody /\ Fits(request[config.from]) =>
                    config.part >= request[config.from].body

\* net_portal.c:443-447, 469: the device decides to reboot only for a form that is saved,
\* and once its client has the "Saved" page, however often the request was handled.
AnsweredBeforeReboot ==
    s_reboot_pending => \E c \in Conns : /\ request[c].kind = "save" /\ config.from # Nobody
                                         /\ received[c] >= Size("save")

\* net_portal.c:471, 590-594: a click on Rescan, one that comes during a scan too, is not
\* dropped: it stays pending until a scan that starts after it.
ClickIsKept == [][s_rescan_pending /\ ~s_rescan_pending' => pc' = "scan"]_vars

\* net_portal.c:583-601: a forgotten portal ends, whatever connections are left open and
\* even if a scan never finishes; it reboots if it has to.
PortalEnds == <>(pc \in {"rebooted", "off"})

\* net_portal.h:15-16: "service it until the user submits the form, at which point the
\* config is saved and the device reboots".
SubmitReboots == config.from # Nobody ~> pc = "rebooted"

-----------------------------------------------------------------------------
(* The strengthening the proofs use. *)

\* What a conn_t counts as acknowledged, its client has; what is expected of it is an
\* answer to its request.
CountsAreReal == \A c \in Conns : /\ acked[c] <= received[c]
                                  /\ conn[c] \in {"none", "refused"} =>
                                        resp_total[c] = 0 /\ request[c] = Blank
                                  /\ resp_total[c] \in {0, Size(request[c].kind)}

\* A conn_t that will reboot the device is a save's, and is still to be answered.
RebootsAreSaves == \A c \in Conns :
    reboot_after[c] => /\ request[c].kind = "save" /\ config.from # Nobody
                       /\ resp_total[c] = Size("save")
                       /\ conn[c] \in {"live", "freed"}

\* Requests come with connections.
SavedIsConnected == config.from # Nobody => conn[config.from] \in {"live", "freed"}

\* The portal stays while there are polls left.
IdleBelowMax == pc # "off" => idle_ms < IdleMax

IInv == /\ TypeOK /\ HookedIsLive /\ SavedIsWhole /\ AnsweredBeforeReboot
        /\ CountsAreReal /\ RebootsAreSaves /\ SavedIsConnected /\ IdleBelowMax
=============================================================================
