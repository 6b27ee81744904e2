--------------------------- MODULE RestTransport ---------------------------
(***************************************************************************)
(* src/net_rest.c: do_request, and what its typed wrappers make of the     *)
(* response.  Two actors share static variables: the caller, which polls   *)
(* them every 20 ms within one budget for DNS and exchange together, and   *)
(* lwIP, whose callbacks run in the background whenever the caller does    *)
(* not hold the lwIP lock.                                                 *)
(*                                                                         *)
(* Request n opens at most one connection, also called n.  Lengths are in  *)
(* units of a few bytes: a response is size[n] of them, in order, the      *)
(* first two its status line, the last the end of the body, and they come  *)
(* in segments of any length up to Longest.  The server may perform a      *)
(* request at any time once it is on its way, stop after any segment, or   *)
(* reset the connection.                                                   *)
(*                                                                         *)
(* Bounds: MaxRequests calls, Limit polls in a call (timeout_ms / 20),     *)
(* Lengths the lengths of a response, Longest that of a segment (one       *)
(* pbuf), Room that of the receive buffer (REST_RX_MAX).                   *)
(***************************************************************************)
EXTENDS HttpDate

CONSTANTS MaxRequests, Limit, Room, Lengths, Longest,
          Replies       \* the statuses the server replies with

ASSUME SizesAssumption ==
    /\ MaxRequests \in Nat /\ Limit \in Nat /\ Room \in Nat
    /\ Lengths \subseteq Nat \ {0} /\ Longest \in Nat
ASSUME RepliesAssumption ==
    Replies \subseteq {"ok", "notmodified", "nocontent", "denied", "ratelimit", "httperr"}

VARIABLES
    pc, req,                     \* the caller: its place in do_request; the request's number
    op,                          \* the typed wrapper it is called from
    t,                           \* polls so far
    result,                      \* what the last finished call returned
    s_dns,                       \* 0 pending, 1 ok, 2 fail
    s_pcb, s_pcb_dead,           \* the connection held (0 is NULL); lwIP freed it
    s_done, s_err,
    s_rx, s_rx_len,              \* the receive buffer: units, each with its connection
    lookup,                      \* lwIP: a DNS query is out, with dns_cb to call
    conn,                        \* lwIP: the state of each connection
    hooked,                      \* lwIP: the connections that have our callbacks
    sent,                        \* units of each response that have arrived
    asked,                       \* requests that are on their way, or arrived
    reply, size                  \* the server's reply to each request; its length

caller == <<pc, req, op, t, result>>
flags  == <<s_dns, s_pcb, s_pcb_dead, s_done, s_err, s_rx, s_rx_len>>
lwip   == <<lookup, conn, hooked, sent>>
server == <<asked, reply, size>>
vars   == <<caller, flags, lwip, server>>

Missing == "neterr"      \* REST_NET_ERR
Damaged == "httperr"     \* REST_HTTP_ERR
Calls   == 1..MaxRequests
Ops     == {"discover", "register", "frame", "status"}

Init == /\ pc = "idle" /\ req = 0 /\ op = "discover" /\ t = 0 /\ result = Missing
        /\ s_dns = 0 /\ s_pcb = 0 /\ s_pcb_dead = FALSE
        /\ s_done = FALSE /\ s_err = FALSE
        /\ s_rx = [i \in 1..Room |-> <<0, 0>>] /\ s_rx_len = 0
        /\ lookup = FALSE /\ hooked = {}
        /\ conn = [n \in Calls |-> "none"] /\ sent = [n \in Calls |-> 0]
        /\ asked = {} /\ reply = [n \in Calls |-> Missing] /\ size = [n \in Calls |-> 0]

-----------------------------------------------------------------------------
(* The caller. *)

\* Mutant: s_rx_len is not reset.
Emptied_not == s_rx_len

\* s_rx_len at the start of a request; the bytes of the last one stay behind it.
Emptied == 0

\* Build the request and reset the shared state.
Call(o) == /\ pc = "idle" /\ req < MaxRequests
           /\ pc' = "lookup" /\ req' = req + 1 /\ op' = o /\ t' = 0
           /\ s_rx_len' = Emptied /\ s_done' = FALSE /\ s_err' = FALSE
           /\ s_pcb_dead' = FALSE /\ s_dns' = 0
           /\ UNCHANGED <<result, s_pcb, s_rx, lwip, server>>

Return(r) == pc' = "idle" /\ result' = r

\* dns_gethostbyname: a cached address, a query (or one more callback on the query that is
\* still out), or an error; a request that does not fit s_req ends like an error.
Lookup == /\ pc = "lookup"
          /\ \/ ~lookup /\ pc' = "resolve" /\ s_dns' = 1 /\ UNCHANGED <<lookup, result>>
             \/ pc' = "resolve" /\ lookup' = TRUE /\ UNCHANGED <<s_dns, result>>
             \/ Return(Missing) /\ UNCHANGED <<s_dns, lookup>>
          /\ UNCHANGED <<req, op, t, s_pcb, s_pcb_dead, s_done, s_err, s_rx, s_rx_len, conn,
                         hooked, sent, server>>

\* Mutant: one poll too many.
Within_inclusive == t <= Limit

\* t < timeout_ms.
Within == t < Limit

\* One 20 ms poll of a waiting loop.
Poll == /\ Within
        /\ \/ pc = "resolve"  /\ s_dns = 0
           \/ pc = "exchange" /\ ~s_done
        /\ t' = t + 1
        /\ UNCHANGED <<pc, req, op, result, flags, lwip, server>>

Resolved == /\ pc = "resolve"
            /\ s_dns # 0 \/ ~Within
            /\ IF s_dns = 1 THEN pc' = "connect" /\ UNCHANGED result ELSE Return(Missing)
            /\ UNCHANGED <<req, op, t, flags, lwip, server>>

\* Under the lock: tcp_new, the callbacks, tcp_connect.  With no memory for a pcb the
\* call waits in vain; a tcp_connect that fails aborts the pcb.
Connect == /\ pc = "connect"
           /\ \/ /\ pc' = "exchange"
                 /\ s_pcb' = req
                 /\ conn' = [conn EXCEPT ![req] = "opening"]
                 /\ hooked' = hooked \cup {req}
                 /\ UNCHANGED <<result, s_pcb_dead, s_done, s_err>>
              \/ /\ pc' = "exchange" /\ s_pcb' = 0
                 /\ UNCHANGED <<result, s_pcb_dead, s_done, s_err, conn, hooked>>
              \/ /\ Return(Missing)
                 /\ s_pcb' = 0 /\ s_pcb_dead' = TRUE /\ s_done' = TRUE /\ s_err' = TRUE
                 /\ UNCHANGED <<conn, hooked>>
           /\ UNCHANGED <<req, op, t, s_dns, s_rx, s_rx_len, lookup, sent, server>>

\* Mutant: the wait has no bound of its own.
Over_when_done == s_done

\* The exchange loop ends.
Over == s_done \/ ~Within

Waited == /\ pc = "exchange" /\ Over
          /\ pc' = "teardown"
          /\ UNCHANGED <<req, op, t, result, flags, lwip, server>>

\* Mutant: tcp_close without taking the callbacks back.
Unhooked_kept(n) == hooked

\* tcp_recv, tcp_sent and tcp_err with NULL.
Unhooked(n) == hooked \ {n}

\* Under the lock: give the pcb back unless lwIP has freed it.  A connection that was
\* still opening, or that the server has closed, is gone; an open one closes in its own time.
Teardown == /\ pc = "teardown"
            /\ pc' = "parse"
            /\ IF s_pcb # 0 /\ ~s_pcb_dead
               THEN /\ hooked' = Unhooked(s_pcb)
                    /\ s_pcb' = 0
                    /\ \E left \in IF conn[s_pcb] = "open" THEN {"closing", "dead"} ELSE {"dead"} :
                          conn' = [conn EXCEPT ![s_pcb] = left]
               ELSE UNCHANGED <<hooked, s_pcb, conn>>
            /\ UNCHANGED <<req, op, t, result, s_dns, s_pcb_dead, s_done, s_err, s_rx, s_rx_len,
                           lookup, sent, server>>

\* What the buffer holds begins the response, without a gap; it begins with the status
\* line; it is all of the response.
Prefix    == \A i \in 1..s_rx_len : s_rx[i] = <<req, i>>
HasStatus == s_rx_len >= 2 /\ \A i \in 1..2 : s_rx[i] = <<req, i>>
Whole     == Prefix /\ s_rx_len = size[req]

\* Mutant: the frame's metadata are taken without looking at the body.
Parsed_unchecked(r) == {IF HasStatus THEN r ELSE Damaged}

\* parse_status, map_status and the wrapper, which needs a body that cJSON can parse for all
\* but the status POST.  The body is one JSON object, its last byte the brace that closes
\* it: cJSON refuses a part that begins it.  Of one with a gap, it may make anything.
Parsed(r) == IF ~HasStatus THEN {Damaged}
             ELSE IF r # "ok" \/ op = "status" \/ Whole THEN {r}
             ELSE IF Prefix THEN {Damaged} ELSE {Damaged, r}

Parse == /\ pc = "parse"
         /\ \E r \in IF ~s_done \/ s_err \/ s_rx_len = 0 THEN {Missing} ELSE Parsed(reply[req]) :
               Return(r)
         /\ UNCHANGED <<req, op, t, flags, lwip, server>>

-----------------------------------------------------------------------------
(* lwIP and the network. *)

\* dns_cb.
DnsAnswer == /\ lookup /\ lookup' = FALSE
             /\ s_dns' \in {1, 2}
             /\ UNCHANGED <<caller, s_pcb, s_pcb_dead, s_done, s_err, s_rx, s_rx_len, conn,
                            hooked, sent, server>>

\* connected_cb, and try_send: the request is on its way.
Connected(n) == /\ conn[n] = "opening"
                /\ conn' = [conn EXCEPT ![n] = "open"]
                /\ asked' = asked \cup {n}
                /\ UNCHANGED <<caller, flags, lookup, hooked, sent, reply, size>>

\* The server performs the request and starts to reply; the caller may be gone by then.
Perform(n) == /\ n \in asked /\ reply[n] = Missing
              /\ \E r \in Replies : reply' = [reply EXCEPT ![n] = r]
              /\ \E k \in Lengths : size' = [size EXCEPT ![n] = k]
              /\ UNCHANGED <<caller, flags, lwip, asked>>

\* err_cb: lwIP has freed the pcb.
ErrCb(n) == IF n \in hooked
            THEN /\ s_pcb' = 0 /\ s_pcb_dead' = TRUE /\ s_err' = TRUE /\ s_done' = TRUE
                 /\ hooked' = hooked \ {n}
            ELSE UNCHANGED <<s_pcb, s_pcb_dead, s_err, s_done, hooked>>

\* memcpy of the next k units of response n to the end of the buffer.
Stored(n, k) == [i \in 1..Room |-> IF i \in (s_rx_len + 1)..(s_rx_len + k)
                                   THEN <<n, sent[n] + i - s_rx_len>> ELSE s_rx[i]]

\* recv_cb with data, one pbuf of it: kept if it fits, or else left out, whatever follows.
\* One that reaches a connection we have closed is refused with a reset.
Segment(n) == \E k \in 1..Longest :
    /\ reply[n] # Missing /\ sent[n] + k <= size[n]
    /\ sent' = [sent EXCEPT ![n] = @ + k]
    /\ \/ /\ conn[n] = "open"
          /\ IF n \in hooked /\ s_rx_len + k <= Room
             THEN s_rx' = Stored(n, k) /\ s_rx_len' = s_rx_len + k
             ELSE UNCHANGED <<s_rx, s_rx_len>>
          /\ UNCHANGED <<conn, hooked, s_pcb, s_pcb_dead, s_err, s_done>>
       \/ /\ conn[n] = "closing"
          /\ conn' = [conn EXCEPT ![n] = "dead"]
          /\ ErrCb(n)
          /\ UNCHANGED <<s_rx, s_rx_len>>
    /\ UNCHANGED <<caller, s_dns, lookup, server>>

\* recv_cb with NULL: the server closed, all sent or not.
ServerCloses(n) ==
    /\ conn[n] = "open"
    /\ conn' = [conn EXCEPT ![n] = "finished"]
    /\ s_done' = (s_done \/ n \in hooked)
    /\ UNCHANGED <<caller, s_dns, s_pcb, s_pcb_dead, s_err, s_rx, s_rx_len, lookup, hooked,
                   sent, server>>

\* The connection is refused, reset, or given up by lwIP.
Reset(n) == /\ conn[n] \in {"opening", "open", "finished", "closing"}
            /\ conn' = [conn EXCEPT ![n] = "dead"]
            /\ ErrCb(n)
            /\ UNCHANGED <<caller, s_dns, s_rx, s_rx_len, lookup, sent, server>>

-----------------------------------------------------------------------------
Caller == \/ \E o \in Ops : Call(o)
          \/ Lookup \/ Poll \/ Resolved \/ Connect \/ Waited \/ Teardown \/ Parse

Network == \/ DnsAnswer
           \/ \E n \in Calls : \/ Connected(n) \/ Perform(n) \/ Segment(n)
                               \/ ServerCloses(n) \/ Reset(n)

Next == Caller \/ Network

Spec == Init /\ [][Next]_vars

\* The caller is scheduled; nothing is asked of the network.
FairSpec == Spec /\ WF_vars(Caller)

-----------------------------------------------------------------------------
(* Properties. *)

TypeOK ==
    /\ pc \in {"idle", "lookup", "resolve", "connect", "exchange", "teardown", "parse"}
    /\ req \in 0..MaxRequests /\ op \in Ops /\ t \in 0..Limit
    /\ result \in Replies \cup {Missing, Damaged}
    /\ s_dns \in 0..2 /\ s_pcb \in 0..MaxRequests
    /\ s_pcb_dead \in BOOLEAN /\ s_done \in BOOLEAN /\ s_err \in BOOLEAN
    /\ s_rx \in [1..Room -> (0..MaxRequests) \X Nat] /\ s_rx_len \in 0..Room
    /\ lookup \in BOOLEAN /\ hooked \subseteq Calls
    /\ conn \in [Calls -> {"none", "opening", "open", "finished", "closing", "dead"}]
    /\ sent \in [Calls -> Nat] /\ size \in [Calls -> Lengths \cup {0}]
    /\ asked \subseteq Calls /\ reply \in [Calls -> Replies \cup {Missing}]

\* net_rest.c:294-301: whatever callbacks, timeouts and resets do, the connection that has
\* our callbacks is the one the caller holds, it belongs to the request in progress, and
\* none is left behind when do_request returns: nothing can then write to the buffer or
\* the flags of the next request.
HookedIsHeld == /\ hooked = {s_pcb} \ {0}
                /\ hooked \subseteq {req}
                /\ hooked # {} => pc \in {"exchange", "teardown"}

\* net_rest.c:302-331, 387-402, 461-470: a call ends with the server's reply to that very
\* request, or is reported lost (then the server may still have performed it, or do so
\* later) or damaged.
E == INSTANCE Exchange WITH calls <- req, busy <- pc # "idle", result <- result,
                            reply <- [n \in 1..req |-> reply[n]]
ImplementsExchange == E!Spec

\* net_rest.c:73-90, 302-331, 387-389, 428-430, 461-463: an "ok" that carries a token or a
\* frame URL comes from a response that arrived to its end and is in the buffer from the
\* first byte to the last, whatever stops, closes or times out meanwhile, if it is one that
\* the buffer has room for.  (A longer one may lose a segment in its middle and still be
\* taken for whole: s_overflow is only printed.)
OkIsWhole == [][pc = "parse" /\ pc' = "idle" /\ result' = "ok" /\ op # "status"
                  /\ size[req] <= Room =>
                     /\ sent[req] = size[req] /\ s_rx_len = size[req]
                     /\ \A i \in 1..size[req] : s_rx[i] = <<req, i>>]_vars

\* The clock that a response's Date sets (net_rest.c:167-198) is the calendar's, at every
\* end of a month and of a year that parse_http_date lets pass.
DatesRight == pc = "parse" => CalendarRight

\* do_request ends even if no callback ever comes.
CallsEnd == pc # "idle" ~> pc = "idle"

-----------------------------------------------------------------------------
(* The strengthening the proofs use. *)

\* What is in the buffer was sent in reply to the request in progress.
BufferIsOwn == /\ s_rx_len > 0 => reply[req] # Missing
               /\ \A i \in 1..s_rx_len : s_rx[i][1] = req

\* The server replies to what it was asked, sends only replies, and no more than there is.
RepliesFollow == \A n \in Calls : /\ reply[n] # Missing => n \in asked
                                  /\ sent[n] > 0 => reply[n] # Missing
                                  /\ sent[n] <= size[n]

\* Requests to come have left no trace; one that is not connected has received nothing.
FutureIsBlank == /\ \A n \in Calls : n > req => conn[n] = "none" /\ n \notin asked
                 /\ pc # "idle" => req > 0
                 /\ pc \in {"lookup", "resolve", "connect"} =>
                       /\ s_rx_len = 0 /\ ~s_pcb_dead
                       /\ conn[req] = "none" /\ req \notin asked

\* As long as the response to the request in progress fits, the buffer has no gap, and
\* while the callbacks are hooked nothing that arrived is missing.
NoGap == req > 0 /\ size[req] <= Room =>
            /\ Prefix /\ s_rx_len <= sent[req]
            /\ req \in hooked => s_rx_len = sent[req]

\* What lwIP has freed is not held.
DeadIsNull == s_pcb_dead => s_pcb = 0

IInv == TypeOK /\ HookedIsHeld /\ DeadIsNull /\ BufferIsOwn /\ RepliesFollow /\ FutureIsBlank
             /\ NoGap
=============================================================================
