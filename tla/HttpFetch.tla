----------------------------- MODULE HttpFetch -----------------------------
(***************************************************************************)
(* src/net_http.c: http_get, and lwIP's HTTP client, which writes into the *)
(* caller's buffer from the background until the transfer ends, whether or *)
(* not http_get is still waiting for it.                                   *)
(*                                                                         *)
(* A body is pieces <<URL, number>>; Need is panel_frame_bytes in pieces,  *)
(* and the server may send less, or one piece more.                        *)
(***************************************************************************)
EXTENDS Naturals

CONSTANT Need

ASSUME NeedAssumption == Need \in Nat \ {0}

VARIABLES
    ht,                  \* http_get: "idle", "wait"
    fetched,             \* what the last finished http_get returned
    s_len, s_overflow,   \* s_dst is mem, s_cap is Need
    s_done, s_result,    \* s_result: HTTPC_RESULT_OK, with a 2xx s_status
    mem,                 \* the memory at s_dst
    xfer                 \* lwIP: the transfer

httpvars == <<ht, fetched, s_len, s_overflow, s_done, s_result, mem, xfer>>

Junk   == <<0, 0>>
Closed == [open |-> FALSE, of |-> 0, sent |-> 0]

HttpInit == /\ ht = "idle" /\ fetched = FALSE
            /\ s_len = 0 /\ s_overflow = FALSE /\ s_done = FALSE /\ s_result = FALSE
            /\ mem = [i \in 1..Need |-> Junk]
            /\ xfer = Closed

\* http_get resets the statics and issues the request, which may not even start.
HttpGet(u) ==
    /\ ht = "idle"
    /\ s_len' = 0 /\ s_overflow' = FALSE /\ s_done' = FALSE /\ s_result' = FALSE
    /\ fetched' = FALSE
    /\ \/ u # 0 /\ ht' = "wait" /\ xfer' = [open |-> TRUE, of |-> u, sent |-> 0]
       \/ ht' = "idle" /\ UNCHANGED xfer
    /\ UNCHANGED mem

\* The answer is a good one, and it fitted.
Fitted == s_result /\ ~s_overflow

\* The polling loop ends: the transfer is over, or timeout_ms is and the transfer goes on.
HttpReturn == /\ ht = "wait"
              /\ ht' = "idle" /\ fetched' = (s_done /\ Fitted)
              /\ UNCHANGED <<s_len, s_overflow, s_done, s_result, mem, xfer>>

\* recv_fn: a piece of the body is copied if it fits.
RecvFn == /\ xfer.open /\ xfer.sent <= Need
          /\ xfer' = [xfer EXCEPT !.sent = @ + 1]
          /\ IF s_len + 1 <= Need
             THEN /\ s_len' = s_len + 1
                  /\ mem' = [mem EXCEPT ![s_len + 1] = <<xfer.of, xfer.sent + 1>>]
                  /\ UNCHANGED s_overflow
             ELSE s_overflow' = TRUE /\ UNCHANGED <<s_len, mem>>
          /\ UNCHANGED <<ht, fetched, s_done, s_result>>

\* result_fn: that was all of a good answer, or something went wrong.
ResultFn == /\ xfer.open
            /\ xfer' = Closed
            /\ s_done' = TRUE /\ s_result' \in BOOLEAN
            /\ UNCHANGED <<ht, fetched, s_len, s_overflow, mem>>

HttpBackground == RecvFn \/ ResultFn

HttpTypeOK ==
    /\ ht \in {"idle", "wait"} /\ fetched \in BOOLEAN
    /\ s_len \in 0..Need /\ s_overflow \in BOOLEAN
    /\ s_done \in BOOLEAN /\ s_result \in BOOLEAN
    /\ mem \in [1..Need -> Nat \X Nat]
    /\ xfer \in [open: BOOLEAN, of: Nat, sent: 0..(Need + 1)]
=============================================================================
