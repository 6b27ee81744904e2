------------------------ MODULE RestTransport_proofs ------------------------
(***************************************************************************)
(* Proofs about RestTransport, for every number of requests and polls,     *)
(* every size of the buffer, of the segments and of the responses, and     *)
(* every set of replies.                                                   *)
(***************************************************************************)
EXTENDS RestTransport, TLAPS

\* The length of a response is a number (0 before the server has decided on one).
LEMMA LengthsAreNat == Lengths \cup {0} \subseteq Nat
  BY SizesAssumption

\* The initial states satisfy the inductive invariant.
LEMMA InitInv == Init => IInv
<1> SUFFICES ASSUME Init PROVE IInv
  OBVIOUS
<1> USE SizesAssumption DEF Init, Calls, Ops, Missing, Damaged
<1>1. TypeOK
  <2>1. (pc \in {"idle", "lookup", "resolve", "connect", "exchange", "teardown", "parse"})
    OBVIOUS
  <2>2. (req \in 0..MaxRequests /\ op \in Ops /\ t \in 0..Limit)
    OBVIOUS
  <2>3. (result \in Replies \cup {Missing, Damaged})
    OBVIOUS
  <2>4. (s_dns \in 0..2 /\ s_pcb \in 0..MaxRequests)
    OBVIOUS
  <2>5. (s_pcb_dead \in BOOLEAN /\ s_done \in BOOLEAN /\ s_err \in BOOLEAN)
    OBVIOUS
  <2>6. (s_rx \in [1..Room -> (0..MaxRequests) \X Nat] /\ s_rx_len \in 0..Room)
    OBVIOUS
  <2>7. (lookup \in BOOLEAN /\ hooked \subseteq Calls)
    OBVIOUS
  <2>8. (conn \in [Calls -> {"none", "opening", "open", "finished", "closing", "dead"}])
    OBVIOUS
  <2>9. (sent \in [Calls -> Nat] /\ size \in [Calls -> Lengths \cup {0}])
    OBVIOUS
  <2>10. (asked \subseteq Calls /\ reply \in [Calls -> Replies \cup {Missing}])
    OBVIOUS
  <2> QED
    BY <2>1, <2>2, <2>3, <2>4, <2>5, <2>6, <2>7, <2>8, <2>9, <2>10 DEF TypeOK
<1>2. HookedIsHeld
  BY DEF HookedIsHeld
<1>3. BufferIsOwn
  BY DEF BufferIsOwn
<1>4. RepliesFollow
  BY DEF RepliesFollow
<1>5. FutureIsBlank
  BY DEF FutureIsBlank
<1>6. DeadIsNull
  BY DEF DeadIsNull
<1>7. NoGap
  BY DEF NoGap
<1> QED
  BY <1>1, <1>2, <1>3, <1>4, <1>5, <1>6, <1>7 DEF IInv

\* Each step of the caller keeps it.
LEMMA CallerKeeps == ASSUME IInv, Caller PROVE IInv'
<1> USE SizesAssumption, RepliesAssumption
        DEF IInv, Calls, Missing, Damaged, flags, lwip, server, Return
<1>1. ASSUME NEW o \in Ops, Call(o) PROVE IInv'
  <2>1. TypeOK'
    <3>1. (pc \in {"idle", "lookup", "resolve", "connect", "exchange", "teardown", "parse"})'
      BY <1>1 DEF TypeOK, Call, Emptied, Ops
    <3>2. (req \in 0..MaxRequests /\ op \in Ops /\ t \in 0..Limit)'
      BY <1>1 DEF TypeOK, Call, Emptied, Ops
    <3>3. (result \in Replies \cup {Missing, Damaged})'
      BY <1>1 DEF TypeOK, Call, Emptied, Ops
    <3>4. (s_dns \in 0..2 /\ s_pcb \in 0..MaxRequests)'
      BY <1>1 DEF TypeOK, Call, Emptied, Ops
    <3>5. (s_pcb_dead \in BOOLEAN /\ s_done \in BOOLEAN /\ s_err \in BOOLEAN)'
      BY <1>1 DEF TypeOK, Call, Emptied, Ops
    <3>6. (s_rx \in [1..Room -> (0..MaxRequests) \X Nat] /\ s_rx_len \in 0..Room)'
      BY <1>1 DEF TypeOK, Call, Emptied, Ops
    <3>7. (lookup \in BOOLEAN /\ hooked \subseteq Calls)'
      BY <1>1 DEF TypeOK, Call, Emptied, Ops
    <3>8. (conn \in [Calls -> {"none", "opening", "open", "finished", "closing", "dead"}])'
      BY <1>1 DEF TypeOK, Call, Emptied, Ops
    <3>9. (sent \in [Calls -> Nat] /\ size \in [Calls -> Lengths \cup {0}])'
      BY <1>1 DEF TypeOK, Call, Emptied, Ops
    <3>10. (asked \subseteq Calls /\ reply \in [Calls -> Replies \cup {Missing}])'
      BY <1>1 DEF TypeOK, Call, Emptied, Ops
    <3> QED
      BY <3>1, <3>2, <3>3, <3>4, <3>5, <3>6, <3>7, <3>8, <3>9, <3>10 DEF TypeOK
  <2>2. HookedIsHeld'
    BY <1>1 DEF TypeOK, HookedIsHeld, BufferIsOwn, RepliesFollow, FutureIsBlank, Call, Emptied, Ops
  <2>3. BufferIsOwn'
    BY <1>1 DEF TypeOK, HookedIsHeld, BufferIsOwn, RepliesFollow, FutureIsBlank, Call, Emptied, Ops
  <2>4. RepliesFollow'
    BY <1>1 DEF TypeOK, HookedIsHeld, BufferIsOwn, RepliesFollow, FutureIsBlank, Call, Emptied, Ops
  <2>5. FutureIsBlank'
    BY <1>1 DEF TypeOK, HookedIsHeld, BufferIsOwn, RepliesFollow, FutureIsBlank, Call, Emptied, Ops
  <2>6. DeadIsNull'
    BY <1>1 DEF TypeOK, HookedIsHeld, DeadIsNull, Call, Emptied, Ops
  <2>7. NoGap'
    <3>1. req' \in Calls /\ s_rx_len' = 0 /\ sent' = sent /\ sent[req'] \in Nat
      BY <1>1 DEF TypeOK, Call, Emptied
    <3>2. hooked' = {}
      BY <1>1 DEF HookedIsHeld, Call
    <3> QED
      BY <3>1, <3>2 DEF NoGap, Prefix
  <2> QED
    BY <2>1, <2>2, <2>3, <2>4, <2>5, <2>6, <2>7
<1>2. CASE Lookup
  <2>1. TypeOK'
    <3>1. (pc \in {"idle", "lookup", "resolve", "connect", "exchange", "teardown", "parse"})'
      BY <1>2 DEF TypeOK, Lookup
    <3>2. (req \in 0..MaxRequests /\ op \in Ops /\ t \in 0..Limit)'
      BY <1>2 DEF TypeOK, Lookup
    <3>3. (result \in Replies \cup {Missing, Damaged})'
      BY <1>2 DEF TypeOK, Lookup
    <3>4. (s_dns \in 0..2 /\ s_pcb \in 0..MaxRequests)'
      BY <1>2 DEF TypeOK, Lookup
    <3>5. (s_pcb_dead \in BOOLEAN /\ s_done \in BOOLEAN /\ s_err \in BOOLEAN)'
      BY <1>2 DEF TypeOK, Lookup
    <3>6. (s_rx \in [1..Room -> (0..MaxRequests) \X Nat] /\ s_rx_len \in 0..Room)'
      BY <1>2 DEF TypeOK, Lookup
    <3>7. (lookup \in BOOLEAN /\ hooked \subseteq Calls)'
      BY <1>2 DEF TypeOK, Lookup
    <3>8. (conn \in [Calls -> {"none", "opening", "open", "finished", "closing", "dead"}])'
      BY <1>2 DEF TypeOK, Lookup
    <3>9. (sent \in [Calls -> Nat] /\ size \in [Calls -> Lengths \cup {0}])'
      BY <1>2 DEF TypeOK, Lookup
    <3>10. (asked \subseteq Calls /\ reply \in [Calls -> Replies \cup {Missing}])'
      BY <1>2 DEF TypeOK, Lookup
    <3> QED
      BY <3>1, <3>2, <3>3, <3>4, <3>5, <3>6, <3>7, <3>8, <3>9, <3>10 DEF TypeOK
  <2>2. HookedIsHeld'
    BY <1>2 DEF TypeOK, HookedIsHeld, BufferIsOwn, RepliesFollow, FutureIsBlank, Lookup
  <2>3. BufferIsOwn'
    BY <1>2 DEF TypeOK, HookedIsHeld, BufferIsOwn, RepliesFollow, FutureIsBlank, Lookup
  <2>4. RepliesFollow'
    BY <1>2 DEF TypeOK, HookedIsHeld, BufferIsOwn, RepliesFollow, FutureIsBlank, Lookup
  <2>5. FutureIsBlank'
    BY <1>2 DEF TypeOK, HookedIsHeld, BufferIsOwn, RepliesFollow, FutureIsBlank, Lookup
  <2>6. DeadIsNull'
    BY <1>2 DEF TypeOK, HookedIsHeld, DeadIsNull, Lookup
  <2>7. NoGap'
    BY <1>2 DEF TypeOK, NoGap, Prefix, Lookup
  <2> QED
    BY <2>1, <2>2, <2>3, <2>4, <2>5, <2>6, <2>7
<1>3. CASE Poll
  <2>1. TypeOK'
    BY <1>3 DEF TypeOK, HookedIsHeld, BufferIsOwn, RepliesFollow, FutureIsBlank, Poll, Within
  <2>2. HookedIsHeld'
    BY <1>3 DEF TypeOK, HookedIsHeld, BufferIsOwn, RepliesFollow, FutureIsBlank, Poll, Within
  <2>3. BufferIsOwn'
    BY <1>3 DEF TypeOK, HookedIsHeld, BufferIsOwn, RepliesFollow, FutureIsBlank, Poll, Within
  <2>4. RepliesFollow'
    BY <1>3 DEF TypeOK, HookedIsHeld, BufferIsOwn, RepliesFollow, FutureIsBlank, Poll, Within
  <2>5. FutureIsBlank'
    BY <1>3 DEF TypeOK, HookedIsHeld, BufferIsOwn, RepliesFollow, FutureIsBlank, Poll, Within
  <2>6. DeadIsNull'
    BY <1>3 DEF TypeOK, HookedIsHeld, DeadIsNull, Poll, Within
  <2>7. NoGap'
    BY <1>3 DEF TypeOK, NoGap, Prefix, Poll, Within
  <2> QED
    BY <2>1, <2>2, <2>3, <2>4, <2>5, <2>6, <2>7
<1>4. CASE Resolved
  <2>1. TypeOK'
    BY <1>4 DEF TypeOK, HookedIsHeld, BufferIsOwn, RepliesFollow, FutureIsBlank, Resolved, Within
  <2>2. HookedIsHeld'
    BY <1>4 DEF TypeOK, HookedIsHeld, BufferIsOwn, RepliesFollow, FutureIsBlank, Resolved, Within
  <2>3. BufferIsOwn'
    BY <1>4 DEF TypeOK, HookedIsHeld, BufferIsOwn, RepliesFollow, FutureIsBlank, Resolved, Within
  <2>4. RepliesFollow'
    BY <1>4 DEF TypeOK, HookedIsHeld, BufferIsOwn, RepliesFollow, FutureIsBlank, Resolved, Within
  <2>5. FutureIsBlank'
    BY <1>4 DEF TypeOK, HookedIsHeld, BufferIsOwn, RepliesFollow, FutureIsBlank, Resolved, Within
  <2>6. DeadIsNull'
    BY <1>4 DEF TypeOK, HookedIsHeld, DeadIsNull, Resolved, Within
  <2>7. NoGap'
    BY <1>4 DEF TypeOK, NoGap, Prefix, Resolved, Within
  <2> QED
    BY <2>1, <2>2, <2>3, <2>4, <2>5, <2>6, <2>7
<1>5. CASE Connect
  <2>1. TypeOK'
    <3>1. (pc \in {"idle", "lookup", "resolve", "connect", "exchange", "teardown", "parse"})'
      BY <1>5 DEF TypeOK, Connect
    <3>2. (req \in 0..MaxRequests /\ op \in Ops /\ t \in 0..Limit)'
      BY <1>5 DEF TypeOK, Connect
    <3>3. (result \in Replies \cup {Missing, Damaged})'
      BY <1>5 DEF TypeOK, Connect
    <3>4. (s_dns \in 0..2 /\ s_pcb \in 0..MaxRequests)'
      BY <1>5 DEF TypeOK, Connect
    <3>5. (s_pcb_dead \in BOOLEAN /\ s_done \in BOOLEAN /\ s_err \in BOOLEAN)'
      BY <1>5 DEF TypeOK, Connect
    <3>6. (s_rx \in [1..Room -> (0..MaxRequests) \X Nat] /\ s_rx_len \in 0..Room)'
      BY <1>5 DEF TypeOK, Connect
    <3>7. (lookup \in BOOLEAN /\ hooked \subseteq Calls)'
      <4>1. req \in Calls
        BY <1>5 DEF TypeOK, FutureIsBlank, Connect
      <4> QED
        BY <1>5, <4>1 DEF TypeOK, Connect
    <3>8. (conn \in [Calls -> {"none", "opening", "open", "finished", "closing", "dead"}])'
      BY <1>5 DEF TypeOK, Connect
    <3>9. (sent \in [Calls -> Nat] /\ size \in [Calls -> Lengths \cup {0}])'
      BY <1>5 DEF TypeOK, Connect
    <3>10. (asked \subseteq Calls /\ reply \in [Calls -> Replies \cup {Missing}])'
      BY <1>5 DEF TypeOK, Connect
    <3> QED
      BY <3>1, <3>2, <3>3, <3>4, <3>5, <3>6, <3>7, <3>8, <3>9, <3>10 DEF TypeOK
  <2>2. HookedIsHeld'
    BY <1>5 DEF TypeOK, HookedIsHeld, BufferIsOwn, RepliesFollow, FutureIsBlank, Connect
  <2>3. BufferIsOwn'
    BY <1>5 DEF TypeOK, HookedIsHeld, BufferIsOwn, RepliesFollow, FutureIsBlank, Connect
  <2>4. RepliesFollow'
    BY <1>5 DEF TypeOK, HookedIsHeld, BufferIsOwn, RepliesFollow, FutureIsBlank, Connect
  <2>5. FutureIsBlank'
    BY <1>5 DEF TypeOK, HookedIsHeld, BufferIsOwn, RepliesFollow, FutureIsBlank, Connect
  <2>6. DeadIsNull'
    BY <1>5 DEF FutureIsBlank, DeadIsNull, Connect
  <2>7. NoGap'
    <3>1. req \in Calls /\ req' = req /\ sent' = sent
      BY <1>5 DEF TypeOK, FutureIsBlank, Connect
    <3>2. s_rx_len' = 0
      BY <1>5 DEF FutureIsBlank, Connect
    <3>3. sent[req] = 0
      BY <1>5, <3>1 DEF TypeOK, FutureIsBlank, RepliesFollow, Connect
    <3> QED
      BY <3>1, <3>2, <3>3 DEF NoGap, Prefix
  <2> QED
    BY <2>1, <2>2, <2>3, <2>4, <2>5, <2>6, <2>7
<1>6. CASE Waited
  <2>1. TypeOK'
    BY <1>6 DEF TypeOK, HookedIsHeld, BufferIsOwn, RepliesFollow, FutureIsBlank, Waited
  <2>2. HookedIsHeld'
    BY <1>6 DEF TypeOK, HookedIsHeld, BufferIsOwn, RepliesFollow, FutureIsBlank, Waited
  <2>3. BufferIsOwn'
    BY <1>6 DEF TypeOK, HookedIsHeld, BufferIsOwn, RepliesFollow, FutureIsBlank, Waited
  <2>4. RepliesFollow'
    BY <1>6 DEF TypeOK, HookedIsHeld, BufferIsOwn, RepliesFollow, FutureIsBlank, Waited
  <2>5. FutureIsBlank'
    BY <1>6 DEF TypeOK, HookedIsHeld, BufferIsOwn, RepliesFollow, FutureIsBlank, Waited
  <2>6. DeadIsNull'
    BY <1>6 DEF TypeOK, HookedIsHeld, DeadIsNull, Waited
  <2>7. NoGap'
    BY <1>6 DEF TypeOK, NoGap, Prefix, Waited
  <2> QED
    BY <2>1, <2>2, <2>3, <2>4, <2>5, <2>6, <2>7
<1>7. CASE Teardown
  <2>1. TypeOK'
    <3>1. (pc \in {"idle", "lookup", "resolve", "connect", "exchange", "teardown", "parse"})'
      BY <1>7 DEF TypeOK, Teardown, Unhooked
    <3>2. (req \in 0..MaxRequests /\ op \in Ops /\ t \in 0..Limit)'
      BY <1>7 DEF TypeOK, Teardown, Unhooked
    <3>3. (result \in Replies \cup {Missing, Damaged})'
      BY <1>7 DEF TypeOK, Teardown, Unhooked
    <3>4. (s_dns \in 0..2 /\ s_pcb \in 0..MaxRequests)'
      BY <1>7 DEF TypeOK, Teardown, Unhooked
    <3>5. (s_pcb_dead \in BOOLEAN /\ s_done \in BOOLEAN /\ s_err \in BOOLEAN)'
      BY <1>7 DEF TypeOK, Teardown, Unhooked
    <3>6. (s_rx \in [1..Room -> (0..MaxRequests) \X Nat] /\ s_rx_len \in 0..Room)'
      BY <1>7 DEF TypeOK, Teardown, Unhooked
    <3>7. (lookup \in BOOLEAN /\ hooked \subseteq Calls)'
      BY <1>7 DEF TypeOK, Teardown, Unhooked
    <3>8. (conn \in [Calls -> {"none", "opening", "open", "finished", "closing", "dead"}])'
      BY <1>7 DEF TypeOK, Teardown, Unhooked
    <3>9. (sent \in [Calls -> Nat] /\ size \in [Calls -> Lengths \cup {0}])'
      BY <1>7 DEF TypeOK, Teardown, Unhooked
    <3>10. (asked \subseteq Calls /\ reply \in [Calls -> Replies \cup {Missing}])'
      BY <1>7 DEF TypeOK, Teardown, Unhooked
    <3> QED
      BY <3>1, <3>2, <3>3, <3>4, <3>5, <3>6, <3>7, <3>8, <3>9, <3>10 DEF TypeOK
  <2>2. HookedIsHeld'
    <3>1. CASE s_pcb # 0 /\ ~s_pcb_dead
      <4>1. hooked = {s_pcb}
        BY <3>1 DEF HookedIsHeld
      <4>2. hooked' = {} /\ s_pcb' = 0
        BY <1>7, <3>1, <4>1 DEF Teardown, Unhooked
      <4> QED
        BY <4>2 DEF HookedIsHeld
    <3>2. CASE s_pcb = 0
      <4>1. hooked = {}
        BY <3>2 DEF HookedIsHeld
      <4>2. hooked' = {} /\ s_pcb' = 0
        BY <1>7, <3>2, <4>1 DEF Teardown
      <4> QED
        BY <4>2 DEF HookedIsHeld
    <3> QED
      BY <3>1, <3>2 DEF DeadIsNull
  <2>3. BufferIsOwn'
    BY <1>7 DEF TypeOK, HookedIsHeld, BufferIsOwn, RepliesFollow, FutureIsBlank, Teardown, Unhooked
  <2>4. RepliesFollow'
    BY <1>7 DEF TypeOK, HookedIsHeld, BufferIsOwn, RepliesFollow, FutureIsBlank, Teardown, Unhooked
  <2>5. FutureIsBlank'
    BY <1>7 DEF TypeOK, HookedIsHeld, BufferIsOwn, RepliesFollow, FutureIsBlank, Teardown, Unhooked
  <2>6. DeadIsNull'
    BY <1>7 DEF TypeOK, HookedIsHeld, DeadIsNull, Teardown, Unhooked
  <2>7. NoGap'
    BY <1>7 DEF TypeOK, NoGap, Prefix, Teardown, Unhooked
  <2> QED
    BY <2>1, <2>2, <2>3, <2>4, <2>5, <2>6, <2>7
<1>8. CASE Parse
  <2>1. TypeOK'
    <3>1. (pc \in {"idle", "lookup", "resolve", "connect", "exchange", "teardown", "parse"})'
      BY <1>8 DEF TypeOK, Parse
    <3>2. (req \in 0..MaxRequests /\ op \in Ops /\ t \in 0..Limit)'
      BY <1>8 DEF TypeOK, Parse
    <3>3. (result \in Replies \cup {Missing, Damaged})'
      <4>1. CASE result' = Missing
        BY <4>1
      <4>2. CASE result' # Missing
        <5>1. result' \in Parsed(reply[req]) /\ req \in Calls
          BY <1>8, <4>2 DEF TypeOK, FutureIsBlank, Parse
        <5>2. Parsed(reply[req]) \subseteq {Damaged, reply[req]}
          BY DEF Parsed
        <5>3. reply[req] \in Replies \cup {Missing}
          BY <5>1 DEF TypeOK
        <5> QED
          BY <5>1, <5>2, <5>3
      <4> QED
        BY <4>1, <4>2
    <3>4. (s_dns \in 0..2 /\ s_pcb \in 0..MaxRequests)'
      BY <1>8 DEF TypeOK, Parse
    <3>5. (s_pcb_dead \in BOOLEAN /\ s_done \in BOOLEAN /\ s_err \in BOOLEAN)'
      BY <1>8 DEF TypeOK, Parse
    <3>6. (s_rx \in [1..Room -> (0..MaxRequests) \X Nat] /\ s_rx_len \in 0..Room)'
      BY <1>8 DEF TypeOK, Parse
    <3>7. (lookup \in BOOLEAN /\ hooked \subseteq Calls)'
      BY <1>8 DEF TypeOK, Parse
    <3>8. (conn \in [Calls -> {"none", "opening", "open", "finished", "closing", "dead"}])'
      BY <1>8 DEF TypeOK, Parse
    <3>9. (sent \in [Calls -> Nat] /\ size \in [Calls -> Lengths \cup {0}])'
      BY <1>8 DEF TypeOK, Parse
    <3>10. (asked \subseteq Calls /\ reply \in [Calls -> Replies \cup {Missing}])'
      BY <1>8 DEF TypeOK, Parse
    <3> QED
      BY <3>1, <3>2, <3>3, <3>4, <3>5, <3>6, <3>7, <3>8, <3>9, <3>10 DEF TypeOK
  <2>2. HookedIsHeld'
    BY <1>8 DEF TypeOK, HookedIsHeld, BufferIsOwn, RepliesFollow, FutureIsBlank, Parse, Parsed
  <2>3. BufferIsOwn'
    BY <1>8 DEF TypeOK, HookedIsHeld, BufferIsOwn, RepliesFollow, FutureIsBlank, Parse, Parsed
  <2>4. RepliesFollow'
    BY <1>8 DEF TypeOK, HookedIsHeld, BufferIsOwn, RepliesFollow, FutureIsBlank, Parse, Parsed
  <2>5. FutureIsBlank'
    BY <1>8 DEF TypeOK, HookedIsHeld, BufferIsOwn, RepliesFollow, FutureIsBlank, Parse, Parsed
  <2>6. DeadIsNull'
    BY <1>8 DEF TypeOK, HookedIsHeld, DeadIsNull, Parse, Parsed
  <2>7. NoGap'
    BY <1>8 DEF TypeOK, NoGap, Prefix, Parse, Parsed
  <2> QED
    BY <2>1, <2>2, <2>3, <2>4, <2>5, <2>6, <2>7
<1> QED
  BY <1>1, <1>2, <1>3, <1>4, <1>5, <1>6, <1>7, <1>8 DEF Caller

\* So does each step of lwIP and of the network.
LEMMA NetworkKeeps == ASSUME IInv, Network PROVE IInv'
<1> USE SizesAssumption, RepliesAssumption
        DEF IInv, Calls, Missing, Damaged, caller, flags, lwip, server
<1>1. CASE DnsAnswer
  <2>1. TypeOK'
    <3>1. (pc \in {"idle", "lookup", "resolve", "connect", "exchange", "teardown", "parse"})'
      BY <1>1 DEF TypeOK, DnsAnswer
    <3>2. (req \in 0..MaxRequests /\ op \in Ops /\ t \in 0..Limit)'
      BY <1>1 DEF TypeOK, DnsAnswer
    <3>3. (result \in Replies \cup {Missing, Damaged})'
      BY <1>1 DEF TypeOK, DnsAnswer
    <3>4. (s_dns \in 0..2 /\ s_pcb \in 0..MaxRequests)'
      BY <1>1 DEF TypeOK, DnsAnswer
    <3>5. (s_pcb_dead \in BOOLEAN /\ s_done \in BOOLEAN /\ s_err \in BOOLEAN)'
      BY <1>1 DEF TypeOK, DnsAnswer
    <3>6. (s_rx \in [1..Room -> (0..MaxRequests) \X Nat] /\ s_rx_len \in 0..Room)'
      BY <1>1 DEF TypeOK, DnsAnswer
    <3>7. (lookup \in BOOLEAN /\ hooked \subseteq Calls)'
      BY <1>1 DEF TypeOK, DnsAnswer
    <3>8. (conn \in [Calls -> {"none", "opening", "open", "finished", "closing", "dead"}])'
      BY <1>1 DEF TypeOK, DnsAnswer
    <3>9. (sent \in [Calls -> Nat] /\ size \in [Calls -> Lengths \cup {0}])'
      BY <1>1 DEF TypeOK, DnsAnswer
    <3>10. (asked \subseteq Calls /\ reply \in [Calls -> Replies \cup {Missing}])'
      BY <1>1 DEF TypeOK, DnsAnswer
    <3> QED
      BY <3>1, <3>2, <3>3, <3>4, <3>5, <3>6, <3>7, <3>8, <3>9, <3>10 DEF TypeOK
  <2>2. HookedIsHeld'
    BY <1>1 DEF TypeOK, HookedIsHeld, BufferIsOwn, RepliesFollow, FutureIsBlank, DnsAnswer
  <2>3. BufferIsOwn'
    BY <1>1 DEF TypeOK, HookedIsHeld, BufferIsOwn, RepliesFollow, FutureIsBlank, DnsAnswer
  <2>4. RepliesFollow'
    BY <1>1 DEF TypeOK, HookedIsHeld, BufferIsOwn, RepliesFollow, FutureIsBlank, DnsAnswer
  <2>5. FutureIsBlank'
    BY <1>1 DEF TypeOK, HookedIsHeld, BufferIsOwn, RepliesFollow, FutureIsBlank, DnsAnswer
  <2>6. DeadIsNull'
    BY <1>1 DEF TypeOK, HookedIsHeld, DeadIsNull, DnsAnswer
  <2>7. NoGap'
    BY <1>1 DEF TypeOK, NoGap, Prefix, DnsAnswer
  <2> QED
    BY <2>1, <2>2, <2>3, <2>4, <2>5, <2>6, <2>7
<1>2. ASSUME NEW n \in Calls, Connected(n) PROVE IInv'
  <2>1. TypeOK'
    BY <1>2 DEF TypeOK, HookedIsHeld, BufferIsOwn, RepliesFollow, FutureIsBlank, Connected
  <2>2. HookedIsHeld'
    BY <1>2 DEF TypeOK, HookedIsHeld, BufferIsOwn, RepliesFollow, FutureIsBlank, Connected
  <2>3. BufferIsOwn'
    BY <1>2 DEF TypeOK, HookedIsHeld, BufferIsOwn, RepliesFollow, FutureIsBlank, Connected
  <2>4. RepliesFollow'
    BY <1>2 DEF TypeOK, HookedIsHeld, BufferIsOwn, RepliesFollow, FutureIsBlank, Connected
  <2>5. FutureIsBlank'
    BY <1>2 DEF TypeOK, HookedIsHeld, BufferIsOwn, RepliesFollow, FutureIsBlank, Connected
  <2>6. DeadIsNull'
    BY <1>2 DEF TypeOK, HookedIsHeld, DeadIsNull, Connected
  <2>7. NoGap'
    BY <1>2 DEF TypeOK, NoGap, Prefix, Connected
  <2> QED
    BY <2>1, <2>2, <2>3, <2>4, <2>5, <2>6, <2>7
<1>3. ASSUME NEW n \in Calls, Perform(n) PROVE IInv'
  <2>1. TypeOK'
    BY <1>3 DEF TypeOK, HookedIsHeld, BufferIsOwn, RepliesFollow, FutureIsBlank, Perform
  <2>2. HookedIsHeld'
    BY <1>3 DEF TypeOK, HookedIsHeld, BufferIsOwn, RepliesFollow, FutureIsBlank, Perform
  <2>3. BufferIsOwn'
    BY <1>3 DEF TypeOK, HookedIsHeld, BufferIsOwn, RepliesFollow, FutureIsBlank, Perform
  <2>4. RepliesFollow'
    BY <1>3 DEF TypeOK, HookedIsHeld, BufferIsOwn, RepliesFollow, FutureIsBlank, Perform
  <2>5. FutureIsBlank'
    BY <1>3 DEF TypeOK, HookedIsHeld, BufferIsOwn, RepliesFollow, FutureIsBlank, Perform
  <2>6. DeadIsNull'
    BY <1>3 DEF TypeOK, HookedIsHeld, DeadIsNull, Perform
  <2>7. NoGap'
    <3>1. CASE n = req
      <4>1. s_rx_len = 0 /\ sent[req] = 0
        BY <1>3, <3>1 DEF TypeOK, BufferIsOwn, RepliesFollow, Perform
      <4>2. s_rx_len' = 0 /\ sent'[req'] = 0
        BY <1>3, <4>1 DEF Perform
      <4> QED
        BY <4>2 DEF NoGap, Prefix
    <3>2. CASE n # req
      <4>1. req > 0 => size'[req'] = size[req]
        BY <1>3, <3>2 DEF TypeOK, Perform
      <4> QED
        BY <1>3, <4>1 DEF NoGap, Prefix, Perform
    <3> QED
      BY <3>1, <3>2
  <2> QED
    BY <2>1, <2>2, <2>3, <2>4, <2>5, <2>6, <2>7
<1>4. ASSUME NEW n \in Calls, Segment(n) PROVE IInv'
  <2> PICK k \in 1..Longest :
        /\ reply[n] # Missing /\ sent[n] + k <= size[n]
        /\ sent' = [sent EXCEPT ![n] = @ + k]
        /\ \/ /\ conn[n] = "open"
              /\ IF n \in hooked /\ s_rx_len + k <= Room
                 THEN s_rx' = Stored(n, k) /\ s_rx_len' = s_rx_len + k
                 ELSE UNCHANGED <<s_rx, s_rx_len>>
              /\ UNCHANGED <<conn, hooked, s_pcb, s_pcb_dead, s_err, s_done>>
           \/ /\ conn[n] = "closing"
              /\ conn' = [conn EXCEPT ![n] = "dead"]
              /\ ErrCb(n)
              /\ UNCHANGED <<s_rx, s_rx_len>>
        /\ UNCHANGED <<caller, s_dns, lookup, server>>
    BY <1>4 DEF Segment
  <2> DEFINE Kept == n \in hooked /\ s_rx_len + k <= Room
  <2>0. /\ k \in Nat /\ k > 0 /\ sent[n] \in Nat /\ s_rx_len \in Nat /\ Room \in Nat
        /\ sent'[n] = sent[n] + k /\ sent[n] <= sent'[n]
        /\ \A i \in Calls : i # n => sent'[i] = sent[i]
    BY DEF TypeOK
  <2>1. TypeOK'
    <3>1. (pc \in {"idle", "lookup", "resolve", "connect", "exchange", "teardown", "parse"})'
      BY DEF TypeOK, ErrCb
    <3>2. (req \in 0..MaxRequests /\ op \in Ops /\ t \in 0..Limit)'
      BY DEF TypeOK, ErrCb
    <3>3. (result \in Replies \cup {Missing, Damaged})'
      BY DEF TypeOK, ErrCb
    <3>4. (s_dns \in 0..2 /\ s_pcb \in 0..MaxRequests)'
      BY DEF TypeOK, ErrCb
    <3>5. (s_pcb_dead \in BOOLEAN /\ s_done \in BOOLEAN /\ s_err \in BOOLEAN)'
      BY DEF TypeOK, ErrCb
    <3>6. (s_rx \in [1..Room -> (0..MaxRequests) \X Nat] /\ s_rx_len \in 0..Room)'
      <4>1. CASE s_rx' = Stored(n, k) /\ s_rx_len' = s_rx_len + k /\ Kept
        <5>1. \A i \in 1..Room : i \in (s_rx_len + 1)..(s_rx_len + k) =>
                 <<n, sent[n] + i - s_rx_len>> \in (0..MaxRequests) \X Nat
          BY <2>0
        <5>2. \A i \in 1..Room : s_rx[i] \in (0..MaxRequests) \X Nat
          BY DEF TypeOK
        <5>3. Stored(n, k) \in [1..Room -> (0..MaxRequests) \X Nat]
          BY <5>1, <5>2 DEF Stored
        <5> QED
          BY <4>1, <5>3, <2>0
      <4>2. CASE UNCHANGED <<s_rx, s_rx_len>>
        BY <4>2 DEF TypeOK
      <4> QED
        BY <4>1, <4>2
    <3>7. (lookup \in BOOLEAN /\ hooked \subseteq Calls)'
      BY DEF TypeOK, ErrCb
    <3>8. (conn \in [Calls -> {"none", "opening", "open", "finished", "closing", "dead"}])'
      BY DEF TypeOK, ErrCb
    <3>9. (sent \in [Calls -> Nat] /\ size \in [Calls -> Lengths \cup {0}])'
      BY <2>0 DEF TypeOK, ErrCb
    <3>10. (asked \subseteq Calls /\ reply \in [Calls -> Replies \cup {Missing}])'
      BY DEF TypeOK, ErrCb
    <3> QED
      BY <3>1, <3>2, <3>3, <3>4, <3>5, <3>6, <3>7, <3>8, <3>9, <3>10 DEF TypeOK
  <2>2. HookedIsHeld'
    BY DEF TypeOK, HookedIsHeld, ErrCb
  <2>3. BufferIsOwn'
    <3>1. CASE s_rx' = Stored(n, k) /\ s_rx_len' = s_rx_len + k /\ Kept
      <4>1. n = req
        BY <3>1 DEF HookedIsHeld
      <4>2. ASSUME NEW i \in 1..(s_rx_len + k) PROVE s_rx'[i][1] = req
        <5>1. i \in 1..Room
          BY <2>0, <3>1
        <5>2. CASE i \in (s_rx_len + 1)..(s_rx_len + k)
          BY <3>1, <4>1, <5>1, <5>2 DEF Stored
        <5>3. CASE i \in 1..s_rx_len
          <6>1. s_rx'[i] = s_rx[i]
            BY <2>0, <3>1, <5>1, <5>3 DEF Stored
          <6> QED
            BY <6>1, <5>3 DEF BufferIsOwn
        <5> QED
          BY <2>0, <5>2, <5>3
      <4> QED
        BY <3>1, <4>1, <4>2 DEF BufferIsOwn
    <3>2. CASE UNCHANGED <<s_rx, s_rx_len>>
      BY <3>2 DEF BufferIsOwn
    <3> QED
      BY <3>1, <3>2
  <2>4. RepliesFollow'
    BY <2>0 DEF TypeOK, RepliesFollow
  <2>5. FutureIsBlank'
    <3>1. conn[n] # "none" /\ n \in asked
      BY DEF RepliesFollow
    <3>2. \A i \in Calls : conn[i] = "none" => conn'[i] = "none"
      BY <3>1 DEF TypeOK
    <3>3. pc \in {"lookup", "resolve", "connect"} => n # req
      BY <3>1 DEF FutureIsBlank
    <3>4. pc \in {"lookup", "resolve", "connect"} => hooked = {}
      BY DEF HookedIsHeld
    <3>5. pc \in {"lookup", "resolve", "connect"} => s_rx_len' = 0 /\ ~s_pcb_dead'
      BY <3>4 DEF FutureIsBlank, ErrCb
    <3>6. UNCHANGED <<pc, req, asked>>
      OBVIOUS
    <3>7. pc \in {"lookup", "resolve", "connect"} => req \in Calls
      BY DEF FutureIsBlank, TypeOK
    <3> QED
      BY <3>2, <3>5, <3>6, <3>7 DEF FutureIsBlank
  <2>6. DeadIsNull'
    BY DEF TypeOK, HookedIsHeld, DeadIsNull, ErrCb
  <2>7. NoGap'
    <3> SUFFICES ASSUME req > 0, size[req] <= Room
                 PROVE  /\ \A i \in 1..s_rx_len' : s_rx'[i] = <<req, i>>
                        /\ s_rx_len' <= sent'[req]
                        /\ req \in hooked' => s_rx_len' = sent'[req]
      BY DEF NoGap, Prefix
    <3>1. req \in Calls /\ sent[req] \in Nat
      BY DEF TypeOK
    <3>2. /\ \A i \in 1..s_rx_len : s_rx[i] = <<req, i>>
          /\ s_rx_len <= sent[req]
          /\ req \in hooked => s_rx_len = sent[req]
      BY DEF NoGap, Prefix
    <3>3. CASE n # req
      <4>1. UNCHANGED <<s_rx, s_rx_len>> /\ sent'[req] = sent[req]
        BY <2>0, <3>1, <3>3 DEF HookedIsHeld
      <4>2. hooked' \subseteq hooked
        BY DEF ErrCb
      <4> QED
        BY <3>2, <4>1, <4>2
    <3>4. CASE n = req /\ n \in hooked /\ conn[n] = "open"
      <4>1. s_rx_len = sent[req] /\ s_rx_len + k <= Room
        <5>1. size[req] \in Lengths \cup {0}
          BY <3>1 DEF TypeOK
        <5>2. size[req] \in Nat
          BY <5>1, LengthsAreNat
        <5> QED
          BY <2>0, <3>1, <3>2, <3>4, <5>2
      <4>2. s_rx' = Stored(req, k) /\ s_rx_len' = s_rx_len + k /\ sent'[req] = s_rx_len'
        BY <2>0, <3>4, <4>1
      <4>3. ASSUME NEW i \in 1..(s_rx_len + k) PROVE s_rx'[i] = <<req, i>>
        <5>1. i \in 1..Room
          BY <2>0, <4>1
        <5>2. CASE i \in (s_rx_len + 1)..(s_rx_len + k)
          <6>1. s_rx'[i] = <<req, sent[req] + i - s_rx_len>>
            BY <4>2, <5>1, <5>2 DEF Stored
          <6>2. sent[req] + i - s_rx_len = i
            BY <2>0, <4>1
          <6> QED
            BY <6>1, <6>2
        <5>3. CASE i \in 1..s_rx_len
          <6>1. s_rx'[i] = s_rx[i]
            BY <2>0, <4>2, <5>1, <5>3 DEF Stored
          <6> QED
            BY <6>1, <5>3, <3>2
        <5> QED
          BY <2>0, <5>2, <5>3
      <4> QED
        BY <2>0, <4>2, <4>3
    <3>5. CASE n = req /\ ~(n \in hooked /\ conn[n] = "open")
      <4>1. UNCHANGED <<s_rx, s_rx_len>> /\ n \notin hooked'
        BY <3>5 DEF ErrCb
      <4>2. s_rx_len' <= sent'[req]
        BY <2>0, <3>2, <3>5, <4>1
      <4> QED
        BY <3>2, <3>5, <4>1, <4>2
    <3> QED
      BY <3>3, <3>4, <3>5
  <2> QED
    BY <2>1, <2>2, <2>3, <2>4, <2>5, <2>6, <2>7
<1>5. ASSUME NEW n \in Calls, ServerCloses(n) PROVE IInv'
  <2>1. TypeOK'
    BY <1>5 DEF TypeOK, HookedIsHeld, BufferIsOwn, RepliesFollow, FutureIsBlank, ServerCloses
  <2>2. HookedIsHeld'
    BY <1>5 DEF TypeOK, HookedIsHeld, BufferIsOwn, RepliesFollow, FutureIsBlank, ServerCloses
  <2>3. BufferIsOwn'
    BY <1>5 DEF TypeOK, HookedIsHeld, BufferIsOwn, RepliesFollow, FutureIsBlank, ServerCloses
  <2>4. RepliesFollow'
    BY <1>5 DEF TypeOK, HookedIsHeld, BufferIsOwn, RepliesFollow, FutureIsBlank, ServerCloses
  <2>5. FutureIsBlank'
    BY <1>5 DEF TypeOK, HookedIsHeld, BufferIsOwn, RepliesFollow, FutureIsBlank, ServerCloses
  <2>6. DeadIsNull'
    BY <1>5 DEF TypeOK, HookedIsHeld, DeadIsNull, ServerCloses
  <2>7. NoGap'
    BY <1>5 DEF TypeOK, NoGap, Prefix, ServerCloses
  <2> QED
    BY <2>1, <2>2, <2>3, <2>4, <2>5, <2>6, <2>7
<1>6. ASSUME NEW n \in Calls, Reset(n) PROVE IInv'
  <2>1. TypeOK'
    <3>1. (pc \in {"idle", "lookup", "resolve", "connect", "exchange", "teardown", "parse"})'
      BY <1>6 DEF TypeOK, Reset, ErrCb
    <3>2. (req \in 0..MaxRequests /\ op \in Ops /\ t \in 0..Limit)'
      BY <1>6 DEF TypeOK, Reset, ErrCb
    <3>3. (result \in Replies \cup {Missing, Damaged})'
      BY <1>6 DEF TypeOK, Reset, ErrCb
    <3>4. (s_dns \in 0..2 /\ s_pcb \in 0..MaxRequests)'
      BY <1>6 DEF TypeOK, Reset, ErrCb
    <3>5. (s_pcb_dead \in BOOLEAN /\ s_done \in BOOLEAN /\ s_err \in BOOLEAN)'
      BY <1>6 DEF TypeOK, Reset, ErrCb
    <3>6. (s_rx \in [1..Room -> (0..MaxRequests) \X Nat] /\ s_rx_len \in 0..Room)'
      BY <1>6 DEF TypeOK, Reset, ErrCb
    <3>7. (lookup \in BOOLEAN /\ hooked \subseteq Calls)'
      BY <1>6 DEF TypeOK, Reset, ErrCb
    <3>8. (conn \in [Calls -> {"none", "opening", "open", "finished", "closing", "dead"}])'
      BY <1>6 DEF TypeOK, Reset, ErrCb
    <3>9. (sent \in [Calls -> Nat] /\ size \in [Calls -> Lengths \cup {0}])'
      BY <1>6 DEF TypeOK, Reset, ErrCb
    <3>10. (asked \subseteq Calls /\ reply \in [Calls -> Replies \cup {Missing}])'
      BY <1>6 DEF TypeOK, Reset, ErrCb
    <3> QED
      BY <3>1, <3>2, <3>3, <3>4, <3>5, <3>6, <3>7, <3>8, <3>9, <3>10 DEF TypeOK
  <2>2. HookedIsHeld'
    BY <1>6 DEF TypeOK, HookedIsHeld, BufferIsOwn, RepliesFollow, FutureIsBlank, Reset, ErrCb
  <2>3. BufferIsOwn'
    BY <1>6 DEF TypeOK, HookedIsHeld, BufferIsOwn, RepliesFollow, FutureIsBlank, Reset, ErrCb
  <2>4. RepliesFollow'
    BY <1>6 DEF TypeOK, HookedIsHeld, BufferIsOwn, RepliesFollow, FutureIsBlank, Reset, ErrCb
  <2>5. FutureIsBlank'
    BY <1>6 DEF TypeOK, HookedIsHeld, BufferIsOwn, RepliesFollow, FutureIsBlank, Reset, ErrCb
  <2>6. DeadIsNull'
    BY <1>6 DEF TypeOK, HookedIsHeld, DeadIsNull, Reset, ErrCb
  <2>7. NoGap'
    BY <1>6 DEF TypeOK, NoGap, Prefix, Reset, ErrCb
  <2> QED
    BY <2>1, <2>2, <2>3, <2>4, <2>5, <2>6, <2>7
<1> QED
  BY <1>1, <1>2, <1>3, <1>4, <1>5, <1>6 DEF Network

\* A step that changes nothing keeps it.
LEMMA StutterKeeps == ASSUME IInv, UNCHANGED vars PROVE IInv'
  BY DEF vars, caller, flags, lwip, server, IInv, TypeOK, HookedIsHeld, DeadIsNull, BufferIsOwn,
         RepliesFollow, FutureIsBlank, NoGap, Prefix

\* IInv is an invariant.
THEOREM Invariance == Spec => []IInv
<1>1. IInv /\ [Next]_vars => IInv'
  BY CallerKeeps, NetworkKeeps, StutterKeeps DEF Next
<1> QED
  BY InitInv, <1>1, PTL DEF Spec

\* The variables keep their types.
THEOREM TypeCorrect == Spec => []TypeOK
<1>1. IInv => TypeOK
  BY DEF IInv
<1> QED
  BY Invariance, <1>1, PTL

\* No connection but the caller's own has our callbacks, and none outlives the call.
THEOREM NoDanglingCallback == Spec => []HookedIsHeld
<1>1. IInv => HookedIsHeld
  BY DEF IInv
<1> QED
  BY Invariance, <1>1, PTL

\* net_rest.c:73-90, 387-389, 428-430, 461-463: the only step that ends a call with "ok" is
\* the parser's; a response that fits has left no gap in the buffer (NoGap), and of a part
\* that begins one the JSON does not parse.
THEOREM WholeOk == Spec => OkIsWhole
<1> DEFINE Ends == pc = "parse" /\ pc' = "idle" /\ result' = "ok" /\ op # "status"
                      /\ size[req] <= Room
           Full == /\ sent[req] = size[req] /\ s_rx_len = size[req]
                   /\ \A i \in 1..size[req] : s_rx[i] = <<req, i>>
<1>1. IInv /\ Next /\ Ends => Full
  <2> SUFFICES ASSUME IInv, Next, Ends PROVE Full
    OBVIOUS
  <2>1. Parse
    BY DEF Next, Caller, Network, Call, Lookup, Poll, Resolved, Connect, Waited, Teardown,
           DnsAnswer, Connected, Perform, Segment, ServerCloses, Reset, caller
  <2>2. req \in Calls /\ req > 0
    BY DEF IInv, TypeOK, FutureIsBlank, Calls
  <2>3. sent[req] \in Nat /\ size[req] \in Nat /\ sent[req] <= size[req] /\ s_rx_len \in Nat
    <3>1. size[req] \in Lengths \cup {0} /\ sent[req] \in Nat /\ s_rx_len \in 0..Room
      BY <2>2 DEF IInv, TypeOK
    <3>2. size[req] \in Nat
      BY <3>1, LengthsAreNat
    <3>3. s_rx_len \in Nat
      BY <3>1
    <3> QED
      BY <2>2, <3>1, <3>2, <3>3 DEF IInv, RepliesFollow
  <2>4. Prefix /\ s_rx_len <= sent[req]
    BY <2>2 DEF IInv, NoGap
  <2>5. Whole
    BY <2>1, <2>4 DEF Parse, Parsed, Return, Missing, Damaged
  <2>6. s_rx_len = size[req] /\ sent[req] = size[req]
    BY <2>3, <2>4, <2>5 DEF Whole
  <2> QED
    BY <2>4, <2>6 DEF Prefix
<1>2. IInv /\ [Next]_vars => [Ends => Full]_vars
  BY <1>1
<1> QED
  BY Invariance, <1>2, PTL DEF Spec, OkIsWhole

\* The initial state is one of the abstract exchange.
LEMMA RefinesInit == Init => E!Init
  BY DEF Init, E!Init, Missing

\* Each step of the caller is a call, the end of one, or none of the exchange's business.
LEMMA RefinesCaller == ASSUME IInv, Caller PROVE [E!Next]_E!vars
<1> USE SizesAssumption, RepliesAssumption DEF IInv, TypeOK
<1>1. ASSUME NEW o \in Ops, Call(o) PROVE E!Call
  BY <1>1 DEF Call, E!Call, server, Calls, Missing, FutureIsBlank, RepliesFollow
<1>2. CASE Lookup
  BY <1>2 DEF Lookup, Return, E!Return, E!Next, E!vars, server, Missing
<1>3. CASE Poll
  BY <1>3 DEF Poll, E!vars, server
<1>4. CASE Resolved
  BY <1>4 DEF Resolved, Return, E!Return, E!Next, E!vars, server, Missing
<1>5. CASE Connect
  BY <1>5 DEF Connect, Return, E!Return, E!Next, E!vars, server, Missing
<1>6. CASE Waited
  BY <1>6 DEF Waited, E!vars, server
<1>7. CASE Teardown
  BY <1>7 DEF Teardown, E!vars, server
<1>8. CASE Parse
  <2>1. req \in Calls
    BY <1>8 DEF Parse, FutureIsBlank, Calls
  <2>2. CASE result' = Missing
    BY <1>8, <2>2 DEF Parse, Return, E!Return, E!Next, server, Missing
  <2>3. CASE result' # Missing
    <3>1. s_rx_len # 0 /\ result' \in Parsed(reply[req])
      BY <1>8, <2>3 DEF Parse, Return
    <3>2. reply[req] # Missing
      BY <3>1, SizesAssumption DEF BufferIsOwn
    <3>3. result' \in {reply[req], Damaged}
      BY <3>1 DEF Parsed
    <3>4. [n \in 1..req |-> reply[n]][req] = reply[req]
      BY <2>1 DEF Calls
    <3>5. E!Return
      BY <1>8, <3>2, <3>3, <3>4 DEF Parse, Return, E!Return, server
    <3> QED
      BY <3>5 DEF E!Next
  <2> QED
    BY <2>2, <2>3
<1> QED
  BY <1>1, <1>2, <1>3, <1>4, <1>5, <1>6, <1>7, <1>8 DEF Caller, E!Next

\* A step of the network performs a call or is none of the exchange's business.
LEMMA RefinesNetwork == ASSUME IInv, Network PROVE [E!Next]_E!vars
<1> USE SizesAssumption DEF IInv, TypeOK
<1>1. CASE DnsAnswer
  BY <1>1 DEF DnsAnswer, caller, server, E!vars
<1>2. ASSUME NEW n \in Calls, Connected(n) PROVE UNCHANGED E!vars
  BY <1>2 DEF Connected, caller, E!vars
<1>3. ASSUME NEW n \in Calls, Perform(n) PROVE E!Next
  <2>1. n \in 1..req
    BY <1>3 DEF Perform, Calls, FutureIsBlank
  <2>2. PICK r \in Replies : reply' = [reply EXCEPT ![n] = r]
    BY <1>3 DEF Perform
  <2>3. [i \in 1..req |-> reply'[i]] = [[i \in 1..req |-> reply[i]] EXCEPT ![n] = r]
    BY <2>1, <2>2, 1..req \subseteq Calls DEF Calls
  <2>4. E!Perform(n)
    BY <1>3, <2>1, <2>3 DEF Perform, E!Perform, caller
  <2> QED
    BY <2>1, <2>4 DEF E!Next
<1>4. ASSUME NEW n \in Calls, Segment(n) PROVE UNCHANGED E!vars
  BY <1>4 DEF Segment, caller, server, E!vars
<1>5. ASSUME NEW n \in Calls, ServerCloses(n) PROVE UNCHANGED E!vars
  BY <1>5 DEF ServerCloses, caller, server, E!vars
<1>6. ASSUME NEW n \in Calls, Reset(n) PROVE UNCHANGED E!vars
  BY <1>6 DEF Reset, caller, server, E!vars
<1> QED
  BY <1>1, <1>2, <1>3, <1>4, <1>5, <1>6 DEF Network

\* do_request and its wrappers implement the exchange.
THEOREM Refinement == Spec => ImplementsExchange
<1>1. IInv /\ [Next]_vars => [E!Next]_E!vars
  <2> SUFFICES ASSUME IInv, [Next]_vars PROVE [E!Next]_E!vars
    OBVIOUS
  <2>1. CASE UNCHANGED vars
    BY <2>1 DEF vars, caller, server, E!vars
  <2> QED
    BY <2>1, RefinesCaller, RefinesNetwork DEF Next
<1> QED
  BY Invariance, RefinesInit, <1>1, PTL DEF Spec, ImplementsExchange, E!Spec

-----------------------------------------------------------------------------
(* How long a call can take. *)

\* The steps that do_request has left at most: its places, and the polls of both waits.
Left == CASE pc = "idle"     -> 0
          [] pc = "parse"    -> 1
          [] pc = "teardown" -> 2
          [] pc = "exchange" -> Limit - t + 3
          [] pc = "connect"  -> Limit - t + 4
          [] pc = "resolve"  -> Limit - t + 5
          [] pc = "lookup"   -> Limit - t + 6

\* Every step of a call is one less, whatever lwIP and the server have done meanwhile, and
\* those leave the rest as it is.
Shorter == /\ Caller /\ pc # "idle" => Left' < Left
           /\ Network => Left' = Left

\* net_rest.c:218-331: what a step of the caller does to the rest of its call.
LEMMA CallerShortens ==
    ASSUME TypeOK, TypeOK', Caller, pc # "idle"
    PROVE  Left' < Left
<1> USE SizesAssumption
<1>1. t \in 0..Limit /\ t' \in 0..Limit /\ Limit \in Nat
  BY DEF TypeOK
<1>2. CASE Lookup
  <2>1. pc = "lookup" /\ t' = t /\ pc' \in {"resolve", "idle"}
    BY <1>2 DEF Lookup, Return
  <2> QED
    BY <1>1, <2>1 DEF Left
<1>3. CASE Poll
  <2>1. pc \in {"resolve", "exchange"} /\ pc' = pc /\ t' = t + 1
    BY <1>3 DEF Poll
  <2> QED
    BY <1>1, <2>1 DEF Left
<1>4. CASE Resolved
  <2>1. pc = "resolve" /\ t' = t /\ pc' \in {"connect", "idle"}
    BY <1>4 DEF Resolved, Return
  <2> QED
    BY <1>1, <2>1 DEF Left
<1>5. CASE Connect
  <2>1. pc = "connect" /\ t' = t /\ pc' \in {"exchange", "idle"}
    BY <1>5 DEF Connect, Return
  <2> QED
    BY <1>1, <2>1 DEF Left
<1>6. CASE Waited
  <2>1. pc = "exchange" /\ t' = t /\ pc' = "teardown"
    BY <1>6 DEF Waited
  <2> QED
    BY <1>1, <2>1 DEF Left
<1>7. CASE Teardown
  <2>1. pc = "teardown" /\ pc' = "parse"
    BY <1>7 DEF Teardown
  <2> QED
    BY <2>1 DEF Left
<1>8. CASE Parse
  <2>1. pc = "parse" /\ pc' = "idle"
    BY <1>8 DEF Parse, Return
  <2> QED
    BY <2>1 DEF Left
<1> QED
  BY <1>2, <1>3, <1>4, <1>5, <1>6, <1>7, <1>8 DEF Caller, Call

\* net_rest.c:66-120: no callback moves the caller.
LEMMA NetworkWaits == Network => UNCHANGED caller
BY DEF Network, DnsAnswer, Connected, Perform, Segment, ServerCloses, Reset

\* net_rest.c:218-331: a call is over after Limit + 6 steps of its own, the DNS wait and the
\* exchange sharing one timeout, even if callbacks come at every one of them.
THEOREM CallsAreBounded == Spec => [](Left \in 0..(Limit + 6)) /\ [][Shorter]_vars
<1>1. IInv => Left \in 0..(Limit + 6)
  <2> SUFFICES ASSUME TypeOK PROVE Left \in 0..(Limit + 6)
    BY DEF IInv
  <2>1. t \in 0..Limit /\ Limit \in Nat
    BY SizesAssumption DEF TypeOK
  <2>2. pc \in {"idle", "lookup", "resolve", "connect", "exchange", "teardown", "parse"}
    BY DEF TypeOK
  <2> QED
    BY <2>1, <2>2 DEF Left
<1>2. IInv /\ IInv' /\ [Next]_vars => [Shorter]_vars
  <2> SUFFICES ASSUME TypeOK, TypeOK' PROVE Shorter
    BY DEF IInv
  <2>1. Network => Left' = Left
    BY NetworkWaits DEF caller, Left
  <2> QED
    BY <2>1, CallerShortens DEF Shorter
<1> QED
  BY Invariance, <1>1, <1>2, PTL DEF Spec
====
