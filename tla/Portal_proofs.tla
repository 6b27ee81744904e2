--------------------------- MODULE Portal_proofs ---------------------------
(***************************************************************************)
(* Proofs about Portal, for any connections, requests and buffer size.     *)
(***************************************************************************)
EXTENDS Portal, TLAPS

\* A request's fields.
LEMMA RequestFields ==
  ASSUME NEW r \in Requests \cup {Blank}
  PROVE  /\ r.kind \in {"page", "rescan", "save"} /\ r.sized \in BOOLEAN
         /\ r.head \in Nat /\ r.head > 0 /\ r.body \in Nat /\ r.extra \in Nat
<1>1. CASE r = Blank
  BY <1>1 DEF Blank
<1>2. CASE r \in Requests
  <2>1. r \in [kind : {"page", "rescan", "save"}, head : Nat \ {0}, body : Nat, extra : Nat,
               sized : BOOLEAN]
    BY <1>2, RequestsAssumption
  <2> QED
    BY <2>1
<1> QED
  BY <1>1, <1>2

\* What the buffer holds of the body.
LEMMA BodyBounds ==
  ASSUME NEW r \in Requests \cup {Blank}, NEW k \in Nat
  PROVE  Body(r, k) \in 0..Cap
  BY RequestFields, BoundsAssumption DEF Body, Held

\* A request that says its length and fits is complete only with its whole body.
LEMMA CompleteIsWhole ==
  ASSUME NEW r \in Requests \cup {Blank}, NEW k \in Nat, Complete(r, k), Fits(r), r.kind = "save"
  PROVE  Body(r, k) >= r.body
  BY RequestFields, BoundsAssumption DEF Complete, Fits, Body, Held, Missing

\* The initial states satisfy the inductive invariant.
LEMMA InitInv == Init => IInv
<1> SUFFICES ASSUME Init PROVE IInv
  OBVIOUS
<1> USE BoundsAssumption DEF Init
<1>1. TypeOK
  <2>1. pc \in {"scan", "scanning", "top", "rescan", "seen", "clear", "idle", "flush",
            "rebooted", "off"}
    OBVIOUS
  <2>2. ret \in {"top", "seen"} /\ waited \in 0..ScanLimit /\ idle_ms \in 0..IdleMax
    OBVIOUS
  <2>3. s_reboot_pending \in BOOLEAN /\ s_rescan_pending \in BOOLEAN /\ s_client_seen \in BOOLEAN
    OBVIOUS
  <2>4. scanning \in BOOLEAN
    OBVIOUS
  <2>5. conn \in [Conns -> {"none", "refused", "live", "freed"}] /\ hooked \subseteq Conns
    OBVIOUS
  <2>6. request \in [Conns -> Requests \cup {Blank}] /\ came \in [Conns -> Nat]
    OBVIOUS
  <2>7. resp_total \in [Conns -> 0..2] /\ acked \in [Conns -> Nat]
    OBVIOUS
  <2>8. reboot_after \in [Conns -> BOOLEAN]
    OBVIOUS
  <2>9. written \in [Conns -> Nat] /\ received \in [Conns -> Nat]
    OBVIOUS
  <2>10. config \in [from : Conns \cup {Nobody}, part : 0..Cap]
    OBVIOUS
  <2> QED
    BY <2>1, <2>2, <2>3, <2>4, <2>5, <2>6, <2>7, <2>8, <2>9, <2>10 DEF TypeOK
<1>2. HookedIsLive
  BY ConnsAssumption DEF HookedIsLive
<1>3. SavedIsWhole
  BY ConnsAssumption DEF SavedIsWhole
<1>4. AnsweredBeforeReboot
  BY ConnsAssumption DEF AnsweredBeforeReboot
<1>5. CountsAreReal
  <2>1. \A c \in Conns : /\ acked[c] = 0 /\ received[c] = 0 /\ resp_total[c] = 0
                        /\ request[c] = Blank
    OBVIOUS
  <2> HIDE DEF Init
  <2>2. ASSUME NEW c \in Conns PROVE acked[c] <= received[c]
    BY <2>1, 0 <= 0
  <2>3. ASSUME NEW c \in Conns PROVE resp_total[c] \in {0, Size(request[c].kind)}
    BY <2>1
  <2> QED
    BY <2>1, <2>2, <2>3 DEF CountsAreReal
<1>6. RebootsAreSaves
  BY ConnsAssumption DEF RebootsAreSaves
<1>7. SavedIsConnected
  BY ConnsAssumption DEF SavedIsConnected
<1>8. IdleBelowMax
  BY DEF IdleBelowMax
<1> QED
  BY <1>1, <1>2, <1>3, <1>4, <1>5, <1>6, <1>7, <1>8 DEF IInv

\* Each step of the loop keeps it.
LEMMA LoopKeeps == ASSUME IInv, Loop PROVE IInv'
<1> USE BoundsAssumption DEF IInv, Goto, Same, fields, net, flags
<1>1. CASE ScanStart
  <2>1. TypeOK'
    <3>1. (pc \in {"scan", "scanning", "top", "rescan", "seen", "clear", "idle", "flush",
               "rebooted", "off"})'
      BY <1>1 DEF TypeOK, ScanStart
    <3>2. (ret \in {"top", "seen"} /\ waited \in 0..ScanLimit /\ idle_ms \in 0..IdleMax)'
      BY <1>1 DEF TypeOK, ScanStart
    <3>3. (s_reboot_pending \in BOOLEAN /\ s_rescan_pending \in BOOLEAN
           /\ s_client_seen \in BOOLEAN)'
      BY <1>1 DEF TypeOK, ScanStart
    <3>4. (scanning \in BOOLEAN)'
      BY <1>1 DEF TypeOK, ScanStart
    <3>5. (conn \in [Conns -> {"none", "refused", "live", "freed"}] /\ hooked \subseteq Conns)'
      BY <1>1 DEF TypeOK, ScanStart
    <3>6. (request \in [Conns -> Requests \cup {Blank}] /\ came \in [Conns -> Nat])'
      BY <1>1 DEF TypeOK, ScanStart
    <3>7. (resp_total \in [Conns -> 0..2] /\ acked \in [Conns -> Nat])'
      BY <1>1 DEF TypeOK, ScanStart
    <3>8. (reboot_after \in [Conns -> BOOLEAN])'
      BY <1>1 DEF TypeOK, ScanStart
    <3>9. (written \in [Conns -> Nat] /\ received \in [Conns -> Nat])'
      BY <1>1 DEF TypeOK, ScanStart
    <3>10. (config \in [from : Conns \cup {Nobody}, part : 0..Cap])'
      BY <1>1 DEF TypeOK, ScanStart
    <3> QED
      BY <3>1, <3>2, <3>3, <3>4, <3>5, <3>6, <3>7, <3>8, <3>9, <3>10 DEF TypeOK
  <2>2. HookedIsLive'
    BY <1>1 DEF TypeOK, HookedIsLive, ScanStart
  <2>3. SavedIsWhole'
    BY <1>1 DEF TypeOK, SavedIsWhole, ScanStart
  <2>4. AnsweredBeforeReboot'
    BY <1>1 DEF TypeOK, AnsweredBeforeReboot, ScanStart
  <2>5. CountsAreReal'
    BY <1>1 DEF TypeOK, CountsAreReal, ScanStart
  <2>6. RebootsAreSaves'
    BY <1>1 DEF TypeOK, RebootsAreSaves, ScanStart
  <2>7. SavedIsConnected'
    BY <1>1 DEF TypeOK, SavedIsConnected, ScanStart
  <2>8. IdleBelowMax'
    BY <1>1 DEF TypeOK, IdleBelowMax, ScanStart
  <2> QED
    BY <2>1, <2>2, <2>3, <2>4, <2>5, <2>6, <2>7, <2>8
<1>2. CASE ScanWait
  <2>1. TypeOK'
    BY <1>2 DEF TypeOK, ScanWait, ScanOver, AfterScan
  <2>2. HookedIsLive'
    BY <1>2 DEF TypeOK, HookedIsLive, ScanWait, ScanOver, AfterScan
  <2>3. SavedIsWhole'
    BY <1>2 DEF TypeOK, SavedIsWhole, ScanWait, ScanOver, AfterScan
  <2>4. AnsweredBeforeReboot'
    BY <1>2 DEF TypeOK, AnsweredBeforeReboot, ScanWait, ScanOver, AfterScan
  <2>5. CountsAreReal'
    BY <1>2 DEF TypeOK, CountsAreReal, ScanWait, ScanOver, AfterScan
  <2>6. RebootsAreSaves'
    BY <1>2 DEF TypeOK, RebootsAreSaves, ScanWait, ScanOver, AfterScan
  <2>7. SavedIsConnected'
    BY <1>2 DEF TypeOK, SavedIsConnected, ScanWait, ScanOver, AfterScan
  <2>8. IdleBelowMax'
    BY <1>2 DEF TypeOK, IdleBelowMax, ScanWait, ScanOver, AfterScan
  <2> QED
    BY <2>1, <2>2, <2>3, <2>4, <2>5, <2>6, <2>7, <2>8
<1>3. CASE Top
  <2>1. TypeOK'
    BY <1>3 DEF TypeOK, Top
  <2>2. HookedIsLive'
    BY <1>3 DEF TypeOK, HookedIsLive, Top
  <2>3. SavedIsWhole'
    BY <1>3 DEF TypeOK, SavedIsWhole, Top
  <2>4. AnsweredBeforeReboot'
    BY <1>3 DEF TypeOK, AnsweredBeforeReboot, Top
  <2>5. CountsAreReal'
    BY <1>3 DEF TypeOK, CountsAreReal, Top
  <2>6. RebootsAreSaves'
    BY <1>3 DEF TypeOK, RebootsAreSaves, Top
  <2>7. SavedIsConnected'
    BY <1>3 DEF TypeOK, SavedIsConnected, Top
  <2>8. IdleBelowMax'
    BY <1>3 DEF TypeOK, IdleBelowMax, Top
  <2> QED
    BY <2>1, <2>2, <2>3, <2>4, <2>5, <2>6, <2>7, <2>8
<1>4. CASE Rescan
  <2>1. TypeOK'
    BY <1>4 DEF TypeOK, Rescan
  <2>2. HookedIsLive'
    BY <1>4 DEF TypeOK, HookedIsLive, Rescan
  <2>3. SavedIsWhole'
    BY <1>4 DEF TypeOK, SavedIsWhole, Rescan
  <2>4. AnsweredBeforeReboot'
    BY <1>4 DEF TypeOK, AnsweredBeforeReboot, Rescan
  <2>5. CountsAreReal'
    BY <1>4 DEF TypeOK, CountsAreReal, Rescan
  <2>6. RebootsAreSaves'
    BY <1>4 DEF TypeOK, RebootsAreSaves, Rescan
  <2>7. SavedIsConnected'
    BY <1>4 DEF TypeOK, SavedIsConnected, Rescan
  <2>8. IdleBelowMax'
    BY <1>4 DEF TypeOK, IdleBelowMax, Rescan
  <2> QED
    BY <2>1, <2>2, <2>3, <2>4, <2>5, <2>6, <2>7, <2>8
<1>5. CASE SeenCheck
  <2>1. TypeOK'
    BY <1>5 DEF TypeOK, SeenCheck, Seen
  <2>2. HookedIsLive'
    BY <1>5 DEF TypeOK, HookedIsLive, SeenCheck, Seen
  <2>3. SavedIsWhole'
    BY <1>5 DEF TypeOK, SavedIsWhole, SeenCheck, Seen
  <2>4. AnsweredBeforeReboot'
    BY <1>5 DEF TypeOK, AnsweredBeforeReboot, SeenCheck, Seen
  <2>5. CountsAreReal'
    BY <1>5 DEF TypeOK, CountsAreReal, SeenCheck, Seen
  <2>6. RebootsAreSaves'
    BY <1>5 DEF TypeOK, RebootsAreSaves, SeenCheck, Seen
  <2>7. SavedIsConnected'
    BY <1>5 DEF TypeOK, SavedIsConnected, SeenCheck, Seen
  <2>8. IdleBelowMax'
    BY <1>5 DEF TypeOK, IdleBelowMax, SeenCheck, Seen
  <2> QED
    BY <2>1, <2>2, <2>3, <2>4, <2>5, <2>6, <2>7, <2>8
<1>6. CASE SeenClear
  <2>1. TypeOK'
    <3>1. (pc \in {"scan", "scanning", "top", "rescan", "seen", "clear", "idle", "flush",
               "rebooted", "off"})'
      BY <1>6 DEF TypeOK, SeenClear
    <3>2. (ret \in {"top", "seen"} /\ waited \in 0..ScanLimit /\ idle_ms \in 0..IdleMax)'
      BY <1>6 DEF TypeOK, SeenClear
    <3>3. (s_reboot_pending \in BOOLEAN /\ s_rescan_pending \in BOOLEAN
           /\ s_client_seen \in BOOLEAN)'
      BY <1>6 DEF TypeOK, SeenClear
    <3>4. (scanning \in BOOLEAN)'
      BY <1>6 DEF TypeOK, SeenClear
    <3>5. (conn \in [Conns -> {"none", "refused", "live", "freed"}] /\ hooked \subseteq Conns)'
      BY <1>6 DEF TypeOK, SeenClear
    <3>6. (request \in [Conns -> Requests \cup {Blank}] /\ came \in [Conns -> Nat])'
      BY <1>6 DEF TypeOK, SeenClear
    <3>7. (resp_total \in [Conns -> 0..2] /\ acked \in [Conns -> Nat])'
      BY <1>6 DEF TypeOK, SeenClear
    <3>8. (reboot_after \in [Conns -> BOOLEAN])'
      BY <1>6 DEF TypeOK, SeenClear
    <3>9. (written \in [Conns -> Nat] /\ received \in [Conns -> Nat])'
      BY <1>6 DEF TypeOK, SeenClear
    <3>10. (config \in [from : Conns \cup {Nobody}, part : 0..Cap])'
      BY <1>6 DEF TypeOK, SeenClear
    <3> QED
      BY <3>1, <3>2, <3>3, <3>4, <3>5, <3>6, <3>7, <3>8, <3>9, <3>10 DEF TypeOK
  <2>2. HookedIsLive'
    BY <1>6 DEF TypeOK, HookedIsLive, SeenClear
  <2>3. SavedIsWhole'
    BY <1>6 DEF TypeOK, SavedIsWhole, SeenClear
  <2>4. AnsweredBeforeReboot'
    BY <1>6 DEF TypeOK, AnsweredBeforeReboot, SeenClear
  <2>5. CountsAreReal'
    BY <1>6 DEF TypeOK, CountsAreReal, SeenClear
  <2>6. RebootsAreSaves'
    BY <1>6 DEF TypeOK, RebootsAreSaves, SeenClear
  <2>7. SavedIsConnected'
    BY <1>6 DEF TypeOK, SavedIsConnected, SeenClear
  <2>8. IdleBelowMax'
    BY <1>6 DEF TypeOK, IdleBelowMax, SeenClear
  <2> QED
    BY <2>1, <2>2, <2>3, <2>4, <2>5, <2>6, <2>7, <2>8
<1>7. CASE IdlePoll
  <2>1. TypeOK'
    <3>1. (pc \in {"scan", "scanning", "top", "rescan", "seen", "clear", "idle", "flush",
               "rebooted", "off"})'
      BY <1>7 DEF TypeOK, IdlePoll, IdleOver
    <3>2. (ret \in {"top", "seen"} /\ waited \in 0..ScanLimit /\ idle_ms \in 0..IdleMax)'
      BY <1>7 DEF TypeOK, IdleBelowMax, IdlePoll, IdleOver
    <3>3. (s_reboot_pending \in BOOLEAN /\ s_rescan_pending \in BOOLEAN
           /\ s_client_seen \in BOOLEAN)'
      BY <1>7 DEF TypeOK, IdlePoll, IdleOver
    <3>4. (scanning \in BOOLEAN)'
      BY <1>7 DEF TypeOK, IdlePoll, IdleOver
    <3>5. (conn \in [Conns -> {"none", "refused", "live", "freed"}] /\ hooked \subseteq Conns)'
      BY <1>7 DEF TypeOK, IdlePoll, IdleOver
    <3>6. (request \in [Conns -> Requests \cup {Blank}] /\ came \in [Conns -> Nat])'
      BY <1>7 DEF TypeOK, IdlePoll, IdleOver
    <3>7. (resp_total \in [Conns -> 0..2] /\ acked \in [Conns -> Nat])'
      BY <1>7 DEF TypeOK, IdlePoll, IdleOver
    <3>8. (reboot_after \in [Conns -> BOOLEAN])'
      BY <1>7 DEF TypeOK, IdlePoll, IdleOver
    <3>9. (written \in [Conns -> Nat] /\ received \in [Conns -> Nat])'
      BY <1>7 DEF TypeOK, IdlePoll, IdleOver
    <3>10. (config \in [from : Conns \cup {Nobody}, part : 0..Cap])'
      BY <1>7 DEF TypeOK, IdlePoll, IdleOver
    <3> QED
      BY <3>1, <3>2, <3>3, <3>4, <3>5, <3>6, <3>7, <3>8, <3>9, <3>10 DEF TypeOK
  <2>2. HookedIsLive'
    BY <1>7 DEF TypeOK, HookedIsLive, IdlePoll, IdleOver
  <2>3. SavedIsWhole'
    BY <1>7 DEF TypeOK, SavedIsWhole, IdlePoll, IdleOver
  <2>4. AnsweredBeforeReboot'
    BY <1>7 DEF TypeOK, AnsweredBeforeReboot, IdlePoll, IdleOver
  <2>5. CountsAreReal'
    BY <1>7 DEF TypeOK, CountsAreReal, IdlePoll, IdleOver
  <2>6. RebootsAreSaves'
    BY <1>7 DEF TypeOK, RebootsAreSaves, IdlePoll, IdleOver
  <2>7. SavedIsConnected'
    BY <1>7 DEF TypeOK, SavedIsConnected, IdlePoll, IdleOver
  <2>8. IdleBelowMax'
    BY <1>7 DEF TypeOK, IdleBelowMax, IdlePoll, IdleOver
  <2> QED
    BY <2>1, <2>2, <2>3, <2>4, <2>5, <2>6, <2>7, <2>8
<1>8. CASE Reboot
  <2>1. TypeOK'
    BY <1>8 DEF TypeOK, Reboot
  <2>2. HookedIsLive'
    BY <1>8 DEF TypeOK, HookedIsLive, Reboot
  <2>3. SavedIsWhole'
    BY <1>8 DEF TypeOK, SavedIsWhole, Reboot
  <2>4. AnsweredBeforeReboot'
    BY <1>8 DEF TypeOK, AnsweredBeforeReboot, Reboot
  <2>5. CountsAreReal'
    BY <1>8 DEF TypeOK, CountsAreReal, Reboot
  <2>6. RebootsAreSaves'
    BY <1>8 DEF TypeOK, RebootsAreSaves, Reboot
  <2>7. SavedIsConnected'
    BY <1>8 DEF TypeOK, SavedIsConnected, Reboot
  <2>8. IdleBelowMax'
    BY <1>8 DEF TypeOK, IdleBelowMax, Reboot
  <2> QED
    BY <2>1, <2>2, <2>3, <2>4, <2>5, <2>6, <2>7, <2>8
<1> QED
  BY <1>1, <1>2, <1>3, <1>4, <1>5, <1>6, <1>7, <1>8 DEF Loop

\* So does each callback.
LEMMA CallbackKeeps == ASSUME IInv, NEW c \in Conns, Callback(c) PROVE IInv'
<1> USE BoundsAssumption DEF IInv, loop, flags, fields, net, Most
<1>1. CASE Accept(c)
  <2>1. TypeOK'
    <3>1. (pc \in {"scan", "scanning", "top", "rescan", "seen", "clear", "idle", "flush",
               "rebooted", "off"})'
      BY <1>1 DEF TypeOK, Accept
    <3>2. (ret \in {"top", "seen"} /\ waited \in 0..ScanLimit /\ idle_ms \in 0..IdleMax)'
      BY <1>1 DEF TypeOK, Accept
    <3>3. (s_reboot_pending \in BOOLEAN /\ s_rescan_pending \in BOOLEAN
           /\ s_client_seen \in BOOLEAN)'
      BY <1>1 DEF TypeOK, Accept
    <3>4. (scanning \in BOOLEAN)'
      BY <1>1 DEF TypeOK, Accept
    <3>5. (conn \in [Conns -> {"none", "refused", "live", "freed"}] /\ hooked \subseteq Conns)'
      BY <1>1 DEF TypeOK, Accept
    <3>6. (request \in [Conns -> Requests \cup {Blank}] /\ came \in [Conns -> Nat])'
      BY <1>1 DEF TypeOK, Accept
    <3>7. (resp_total \in [Conns -> 0..2] /\ acked \in [Conns -> Nat])'
      BY <1>1 DEF TypeOK, Accept
    <3>8. (reboot_after \in [Conns -> BOOLEAN])'
      BY <1>1 DEF TypeOK, Accept
    <3>9. (written \in [Conns -> Nat] /\ received \in [Conns -> Nat])'
      BY <1>1 DEF TypeOK, Accept
    <3>10. (config \in [from : Conns \cup {Nobody}, part : 0..Cap])'
      BY <1>1 DEF TypeOK, Accept
    <3> QED
      BY <3>1, <3>2, <3>3, <3>4, <3>5, <3>6, <3>7, <3>8, <3>9, <3>10 DEF TypeOK
  <2>2. HookedIsLive'
    BY <1>1 DEF TypeOK, HookedIsLive, Accept
  <2>3. SavedIsWhole'
    <3>1. config.from # Nobody => config.from # c
      BY <1>1 DEF SavedIsConnected, Accept
    <3>2. config.from # Nobody => /\ config.from \in Conns
                                    /\ request'[config.from] = request[config.from]
      BY <1>1, <3>1 DEF TypeOK, Accept
    <3> QED
      BY <1>1, <3>2 DEF SavedIsWhole, Accept
  <2>4. AnsweredBeforeReboot'
    <3> SUFFICES ASSUME s_reboot_pending'
                 PROVE  \E d \in Conns : /\ request'[d].kind = "save" /\ config'.from # Nobody
                                         /\ received'[d] >= Size("save")
      BY DEF AnsweredBeforeReboot
    <3>1. s_reboot_pending
      BY <1>1 DEF Accept
    <3>2. PICK d \in Conns : /\ request[d].kind = "save" /\ config.from # Nobody
                             /\ received[d] >= Size("save")
      BY <3>1 DEF AnsweredBeforeReboot
    <3>3. d # c
      BY <1>1, <3>2 DEF CountsAreReal, Accept, Blank
    <3>4. request'[d] = request[d]
      BY <1>1, <3>3 DEF TypeOK, Accept
    <3> QED
      BY <1>1, <3>2, <3>4 DEF Accept
  <2>5. CountsAreReal'
    BY <1>1 DEF TypeOK, CountsAreReal, Accept
  <2>6. RebootsAreSaves'
    BY <1>1 DEF TypeOK, RebootsAreSaves, Accept
  <2>7. SavedIsConnected'
    BY <1>1 DEF TypeOK, SavedIsConnected, Accept
  <2>8. IdleBelowMax'
    BY <1>1 DEF TypeOK, IdleBelowMax, Accept
  <2> QED
    BY <2>1, <2>2, <2>3, <2>4, <2>5, <2>6, <2>7, <2>8
<1>2. CASE PeerCloses(c)
  <2>1. TypeOK'
    BY <1>2 DEF TypeOK, PeerCloses, Close
  <2>2. HookedIsLive'
    BY <1>2 DEF TypeOK, HookedIsLive, PeerCloses, Close
  <2>3. SavedIsWhole'
    BY <1>2 DEF TypeOK, SavedIsWhole, PeerCloses, Close
  <2>4. AnsweredBeforeReboot'
    BY <1>2 DEF TypeOK, AnsweredBeforeReboot, PeerCloses, Close
  <2>5. CountsAreReal'
    BY <1>2 DEF TypeOK, CountsAreReal, PeerCloses, Close
  <2>6. RebootsAreSaves'
    BY <1>2 DEF TypeOK, RebootsAreSaves, PeerCloses, Close
  <2>7. SavedIsConnected'
    BY <1>2 DEF TypeOK, SavedIsConnected, PeerCloses, Close
  <2>8. IdleBelowMax'
    BY <1>2 DEF TypeOK, IdleBelowMax, PeerCloses, Close
  <2> QED
    BY <2>1, <2>2, <2>3, <2>4, <2>5, <2>6, <2>7, <2>8
<1>3. CASE Error(c)
  <2>1. TypeOK'
    BY <1>3 DEF TypeOK, Error, Freed
  <2>2. HookedIsLive'
    BY <1>3 DEF TypeOK, HookedIsLive, Error, Freed
  <2>3. SavedIsWhole'
    BY <1>3 DEF TypeOK, SavedIsWhole, Error, Freed
  <2>4. AnsweredBeforeReboot'
    BY <1>3 DEF TypeOK, AnsweredBeforeReboot, Error, Freed
  <2>5. CountsAreReal'
    BY <1>3 DEF TypeOK, CountsAreReal, Error, Freed
  <2>6. RebootsAreSaves'
    BY <1>3 DEF TypeOK, RebootsAreSaves, Error, Freed
  <2>7. SavedIsConnected'
    BY <1>3 DEF TypeOK, SavedIsConnected, Error, Freed
  <2>8. IdleBelowMax'
    BY <1>3 DEF TypeOK, IdleBelowMax, Error, Freed
  <2> QED
    BY <2>1, <2>2, <2>3, <2>4, <2>5, <2>6, <2>7, <2>8
<1>4. ASSUME NEW n \in 1..Most, Segment(c, n) PROVE IInv'
  <2> DEFINE r == request[c]
             k == came[c] + n
  <2>a. c \in hooked /\ conn[c] = "live" /\ r \in Requests \cup {Blank} /\ k \in Nat
    BY <1>4 DEF TypeOK, HookedIsLive, Segment
  <2>b. /\ came' = [came EXCEPT ![c] = k] /\ came'[c] = k
        /\ UNCHANGED <<pc, ret, waited, idle_ms, s_client_seen, scanning, conn, hooked, request,
                       received>>
    BY <1>4, <2>a DEF TypeOK, Segment
  <2>c. CASE ~Complete(r, k)
    <3>1. UNCHANGED <<config, resp_total, acked, reboot_after, s_rescan_pending, s_reboot_pending,
                      written>>
      BY <1>4, <2>b, <2>c DEF Segment
    <3> QED
      BY <2>a, <2>b, <3>1 DEF TypeOK, HookedIsLive, SavedIsWhole, AnsweredBeforeReboot,
                              CountsAreReal, RebootsAreSaves, SavedIsConnected,
                              IdleBelowMax
  <2>d. CASE Complete(r, k)
    <3>1. Handle(c, k)
      BY <1>4, <2>b, <2>d DEF Segment
    <3>2. /\ config' = IF r.kind = "save" THEN [from |-> c, part |-> Body(r, k)] ELSE config
          /\ reboot_after' = [reboot_after EXCEPT ![c] = reboot_after[c] \/ r.kind = "save"]
          /\ s_rescan_pending' = (s_rescan_pending \/ r.kind = "rescan")
          /\ s_reboot_pending' = s_reboot_pending
          /\ resp_total' = [resp_total EXCEPT ![c] = Size(r.kind)]
          /\ acked' = [acked EXCEPT ![c] = 0]
          /\ written' \in {written, [written EXCEPT ![c] = @ + Size(r.kind)]}
      BY <3>1 DEF Handle, RebootAtHandle
    <3>3. Body(r, k) \in 0..Cap /\ Size(r.kind) \in 1..2
      <4> HIDE DEF r, k
      <4>1. Body(r, k) \in 0..Cap
        BY <2>a, BodyBounds
      <4>2. Size(r.kind) \in 1..2
        BY DEF Size
      <4> QED
        BY <4>1, <4>2
    <3>4. Fits(r) /\ r.kind = "save" => Body(r, k) >= r.body
      BY <2>a, <2>d, CompleteIsWhole
    <3> HIDE DEF r, k
    <3>5. TypeOK'
      <4>1. config' \in [from : Conns \cup {Nobody}, part : 0..Cap]
        BY <3>2, <3>3 DEF TypeOK
      <4>2. reboot_after' \in [Conns -> BOOLEAN]
        BY <3>2 DEF TypeOK
      <4>3. s_rescan_pending' \in BOOLEAN /\ s_reboot_pending' \in BOOLEAN
        BY <3>2 DEF TypeOK
      <4>4. resp_total' \in [Conns -> 0..2] /\ acked' \in [Conns -> Nat]
        BY <3>2, <3>3 DEF TypeOK
      <4>5. written' \in [Conns -> Nat]
        BY <3>2, <3>3 DEF TypeOK
      <4>6. came' \in [Conns -> Nat]
        BY <2>a, <2>b DEF TypeOK
      <4> QED
        BY <2>b, <4>1, <4>2, <4>3, <4>4, <4>5, <4>6 DEF TypeOK
    <3>6. HookedIsLive'
      BY <2>b DEF HookedIsLive
    <3>7. SavedIsWhole'
      <4>1. CASE r.kind = "save"
        <5>1. config'.from = c /\ config'.part = Body(r, k) /\ request'[c] = r
          BY <2>b, <3>2, <4>1 DEF r
        <5> QED
          BY <3>4, <4>1, <5>1 DEF SavedIsWhole
      <4>2. CASE r.kind # "save"
        BY <2>b, <3>2, <4>2 DEF SavedIsWhole
      <4> QED
        BY <4>1, <4>2
    <3>8. config'.from = Nobody => config.from = Nobody /\ r.kind # "save"
      BY <3>2, ConnsAssumption
    <3>9. AnsweredBeforeReboot'
      BY <2>b, <3>2, <3>8 DEF AnsweredBeforeReboot
    <3>10. CountsAreReal'
      <4> SUFFICES ASSUME NEW d \in Conns
                   PROVE  /\ acked'[d] <= received'[d]
                          /\ conn'[d] \in {"none", "refused"} =>
                                resp_total'[d] = 0 /\ request'[d] = Blank
                          /\ resp_total'[d] \in {0, Size(request'[d].kind)}
        BY DEF CountsAreReal
      <4>1. CASE d = c
        <5>1. acked'[c] = 0 /\ resp_total'[c] = Size(r.kind) /\ request'[c] = r
          BY <2>b, <3>2 DEF TypeOK, r
        <5> QED
          BY <2>a, <2>b, <4>1, <5>1 DEF TypeOK
      <4>2. CASE d # c
        <5>1. acked'[d] = acked[d] /\ resp_total'[d] = resp_total[d]
          BY <3>2, <4>2 DEF TypeOK
        <5> QED
          BY <2>b, <5>1 DEF CountsAreReal
      <4> QED
        BY <4>1, <4>2
    <3>11. RebootsAreSaves'
      <4> SUFFICES ASSUME NEW d \in Conns, reboot_after'[d]
                   PROVE  /\ request'[d].kind = "save" /\ config'.from # Nobody
                          /\ resp_total'[d] = Size("save") /\ conn'[d] \in {"live", "freed"}
        BY DEF RebootsAreSaves
      <4>1. CASE d = c
        <5>1. reboot_after[c] \/ r.kind = "save"
          BY <3>2, <4>1 DEF TypeOK
        <5>2. r.kind = "save"
          BY <5>1 DEF RebootsAreSaves, r
        <5>3. resp_total'[c] = Size(r.kind) /\ request'[c] = r
          BY <2>b, <3>2 DEF TypeOK, r
        <5> QED
          BY <2>a, <2>b, <3>8, <4>1, <5>2, <5>3
      <4>2. CASE d # c
        <5>1. reboot_after[d] /\ resp_total'[d] = resp_total[d]
          BY <3>2, <4>2 DEF TypeOK
        <5> QED
          BY <2>b, <3>8, <5>1 DEF RebootsAreSaves
      <4> QED
        BY <4>1, <4>2
    <3>12. SavedIsConnected'
      BY <2>a, <2>b, <3>2 DEF SavedIsConnected
    <3>13. IdleBelowMax'
      BY <2>b DEF IdleBelowMax
    <3> QED
      BY <3>5, <3>6, <3>7, <3>9, <3>10, <3>11, <3>12, <3>13
  <2> QED
    BY <2>c, <2>d
<1>5. ASSUME NEW n \in 1..Most, Sent(c, n) PROVE IInv'
  <2>1. TypeOK'
    BY <1>5 DEF TypeOK, Sent, Close
  <2>2. HookedIsLive'
    BY <1>5 DEF TypeOK, HookedIsLive, Sent, Close
  <2>3. SavedIsWhole'
    BY <1>5 DEF TypeOK, SavedIsWhole, Sent, Close
  <2>4. CountsAreReal'
    BY <1>5 DEF TypeOK, CountsAreReal, Sent, Close
  <2>5. AnsweredBeforeReboot'
    <3>1. \A d \in Conns : received'[d] >= received[d]
      BY <1>5 DEF TypeOK, Sent
    <3>2. /\ UNCHANGED <<request, config>>
          /\ \A d \in Conns : received[d] \in Nat /\ received'[d] \in Nat
      BY <1>5, <2>1 DEF TypeOK, Sent
    <3>3. CASE s_reboot_pending
      <4>1. PICK d \in Conns : /\ request[d].kind = "save" /\ config.from # Nobody
                               /\ received[d] >= Size("save")
        BY <3>3 DEF AnsweredBeforeReboot
      <4>2. received'[d] >= Size("save")
        BY <3>1, <3>2, <4>1 DEF Size
      <4> QED
        BY <3>2, <4>1, <4>2 DEF AnsweredBeforeReboot
    <3>4. CASE ~s_reboot_pending /\ s_reboot_pending'
      <4>1. acked'[c] >= resp_total[c] /\ reboot_after[c]
        BY <1>5, <3>4 DEF TypeOK, Sent, Close
      <4>2. request[c].kind = "save" /\ config.from # Nobody /\ resp_total[c] = Size("save")
        BY <4>1 DEF RebootsAreSaves
      <4>3. acked'[c] <= received'[c]
        BY <2>4 DEF CountsAreReal
      <4>4. received'[c] >= Size("save")
        BY <2>1, <3>2, <4>1, <4>2, <4>3 DEF TypeOK, Size
      <4> QED
        BY <3>2, <4>2, <4>4 DEF AnsweredBeforeReboot
    <3> QED
      BY <3>3, <3>4 DEF AnsweredBeforeReboot
  <2>6. RebootsAreSaves'
    BY <1>5 DEF TypeOK, RebootsAreSaves, Sent, Close
  <2>7. SavedIsConnected'
    BY <1>5 DEF TypeOK, SavedIsConnected, Sent, Close
  <2>8. IdleBelowMax'
    BY <1>5 DEF TypeOK, IdleBelowMax, Sent, Close
  <2> QED
    BY <2>1, <2>2, <2>3, <2>4, <2>5, <2>6, <2>7, <2>8
<1> QED
  BY <1>1, <1>2, <1>3, <1>4, <1>5 DEF Callback

\* The scan's end changes nothing the invariant speaks of; nor does a stuttering step.
LEMMA RestKeeps == ASSUME IInv, ScanEnds \/ UNCHANGED vars PROVE IInv'
<1>1. /\ UNCHANGED <<loop, flags, conn, hooked, fields, net, config>>
      /\ scanning' \in BOOLEAN
  BY DEF ScanEnds, Same, vars, IInv, TypeOK
<1>2. TypeOK'
  BY <1>1 DEF loop, flags, fields, net, IInv, TypeOK
<1>3. (HookedIsLive /\ SavedIsWhole /\ AnsweredBeforeReboot /\ CountsAreReal)'
  BY <1>1 DEF flags, fields, net, IInv, HookedIsLive, SavedIsWhole, AnsweredBeforeReboot,
              CountsAreReal
<1>4. (RebootsAreSaves /\ SavedIsConnected /\ IdleBelowMax)'
  BY <1>1 DEF loop, fields, net, IInv, RebootsAreSaves, SavedIsConnected, IdleBelowMax
<1> QED
  BY <1>2, <1>3, <1>4 DEF IInv

\* IInv is an invariant.
THEOREM Invariance == Spec => []IInv
<1>1. IInv /\ [Next]_vars => IInv'
  BY LoopKeeps, CallbackKeeps, RestKeeps DEF Next
<1> QED
  BY InitInv, <1>1, PTL DEF Spec

\* The variables keep their types.
THEOREM TypeCorrect == Spec => []TypeOK
<1>1. IInv => TypeOK
  BY DEF IInv
<1> QED
  BY Invariance, <1>1, PTL

\* Exactly the connections with a live conn_t can call back.
THEOREM NoUseAfterFree == Spec => []HookedIsLive
<1>1. IInv => HookedIsLive
  BY DEF IInv
<1> QED
  BY Invariance, <1>1, PTL

\* A form that says its length and fits is saved whole, in whatever segments it comes.
THEOREM FormsAreWhole == Spec => []SavedIsWhole
<1>1. IInv => SavedIsWhole
  BY DEF IInv
<1> QED
  BY Invariance, <1>1, PTL

\* No reboot is decided before a saved form's client has its answer.
THEOREM RebootsAreAnswered == Spec => []AnsweredBeforeReboot
<1>1. IInv => AnsweredBeforeReboot
  BY DEF IInv
<1> QED
  BY Invariance, <1>1, PTL

\* Only the step into the next scan takes the Rescan flag down.
THEOREM ClicksAreKept == Spec => ClickIsKept
<1>1. IInv /\ [Next]_vars => [s_rescan_pending /\ ~s_rescan_pending' => pc' = "scan"]_vars
  <2> SUFFICES ASSUME IInv, Next, s_rescan_pending, ~s_rescan_pending' PROVE pc' = "scan"
    OBVIOUS
  <2>1. CASE Loop
    BY <2>1 DEF Loop, ScanStart, ScanWait, AfterScan, Top, Rescan, SeenCheck, SeenClear,
                IdlePoll, Reboot, flags, Goto
  <2>2. CASE ScanEnds
    BY <2>2 DEF ScanEnds, flags
  <2>3. ASSUME NEW c \in Conns, Callback(c) PROVE FALSE
    BY <2>3 DEF Callback, Accept, PeerCloses, Error, Segment, Handle, Sent, flags
  <2> QED
    BY <2>1, <2>2, <2>3 DEF Next
<1> QED
  BY Invariance, <1>1, PTL DEF Spec, ClickIsKept

-----------------------------------------------------------------------------
(* How long the portal can stay. *)

\* What a click on Rescan and a new connection cost: a scan, and all idle polls anew.
ScanCost  == ScanLimit + 3
VisitCost == 4 * IdleMax + 3

\* The steps to the end of a round of the loop; a scan comes before the place it returns to.
Within(p) == CASE p = "top" -> 3 [] p \in {"seen", "rescan"} -> 2
               [] p \in {"clear", "idle", "flush"} -> 1
Place == CASE pc = "scan" -> Within(ret) + ScanLimit + 2
           [] pc = "scanning" -> Within(ret) + ScanLimit - waited + 1
           [] pc \notin {"scan", "scanning"} -> Within(pc)

\* The steps that the loop has left at most, if nobody comes any more; a round has four.
Left == IF ~Alive THEN 0
        ELSE 4 * (IdleMax - idle_ms) + Place
             + (IF s_rescan_pending THEN ScanCost ELSE 0)
             + (IF s_client_seen THEN VisitCost ELSE 0)

\* Every step of the loop is one less; only a new connection and a click on Rescan make it
\* longer, by what they cost.
Shorter ==
    /\ Loop => Left' < Left
    /\ ScanEnds \/ (\E c \in Conns : Callback(c)) =>
          Left' <= Left + (IF ~s_rescan_pending /\ s_rescan_pending' THEN ScanCost ELSE 0)
                        + (IF ~s_client_seen /\ s_client_seen' THEN VisitCost ELSE 0)

\* What the loop has read of the flags still holds: only the loop takes them down.
Read == /\ pc = "rescan" => s_rescan_pending
        /\ pc = "clear" => s_client_seen

\* net_portal.c: the callbacks and the radio leave the loop alone, and take down neither flag.
LEMMA CallbackWaits ==
    ASSUME TypeOK, ScanEnds \/ \E c \in Conns : Callback(c)
    PROVE  /\ UNCHANGED loop
           /\ s_rescan_pending => s_rescan_pending'
           /\ s_client_seen => s_client_seen'
<1>1. CASE ScanEnds
  BY <1>1 DEF ScanEnds, flags
<1>2. ASSUME NEW c \in Conns, Accept(c) \/ PeerCloses(c) \/ Error(c)
      PROVE  /\ UNCHANGED loop
             /\ s_rescan_pending => s_rescan_pending'
             /\ s_client_seen => s_client_seen'
  BY <1>2 DEF Accept, PeerCloses, Error, flags
<1>3. ASSUME NEW c \in Conns, NEW n \in 1..Most, Segment(c, n)
      PROVE  /\ UNCHANGED loop
             /\ s_rescan_pending => s_rescan_pending'
             /\ s_client_seen => s_client_seen'
  <2>1. UNCHANGED loop /\ UNCHANGED s_client_seen
    BY <1>3 DEF Segment
  <2>2. CASE Complete(request[c], came'[c])
    <3>1. s_rescan_pending' = (s_rescan_pending \/ request[c].kind = "rescan")
      BY <1>3, <2>2 DEF Segment, Handle
    <3> QED
      BY <2>1, <3>1
  <2>3. CASE ~Complete(request[c], came'[c])
    <3>1. UNCHANGED s_rescan_pending
      BY <1>3, <2>3 DEF Segment
    <3> QED
      BY <2>1, <3>1
  <2> QED
    BY <2>2, <2>3
<1>4. ASSUME NEW c \in Conns, NEW n \in 1..Most, Sent(c, n)
      PROVE  /\ UNCHANGED loop
             /\ s_rescan_pending => s_rescan_pending'
             /\ s_client_seen => s_client_seen'
  BY <1>4 DEF Sent
<1> QED
  BY <1>1, <1>2, <1>3, <1>4 DEF Callback

\* net_portal.c:589-599: between the read of a flag and what follows it nobody else clears it.
LEMMA ReadNext == TypeOK /\ Read /\ [Next]_vars => Read'
<1> SUFFICES ASSUME TypeOK, Read, [Next]_vars PROVE Read'
  OBVIOUS
<1>1. CASE Loop
  <2> USE DEF Goto, Read, flags
  <2>1. CASE ScanStart \/ ScanWait
    BY <2>1 DEF ScanStart, ScanWait, TypeOK
  <2>2. CASE Top \/ SeenCheck
    BY <2>2 DEF Top, SeenCheck, Seen
  <2>3. CASE Rescan \/ SeenClear \/ IdlePoll \/ Reboot
    BY <2>3 DEF Rescan, SeenClear, IdlePoll, Reboot
  <2> QED
    BY <1>1, <2>1, <2>2, <2>3 DEF Loop
<1>2. CASE ScanEnds \/ \E c \in Conns : Callback(c)
  BY <1>2, CallbackWaits DEF loop, Read
<1>3. CASE UNCHANGED vars
  BY <1>3 DEF vars, loop, flags, Read
<1> QED
  BY <1>1, <1>2, <1>3 DEF Next

\* net_portal.c:294-318, 577-604: a round of the loop goes forward, and the next has less to do.
LEMMA LoopShortens == ASSUME IInv, Read, Loop PROVE Left' < Left
<1>0. /\ IdleMax \in Nat /\ ScanLimit \in Nat /\ idle_ms \in 0..IdleMax
      /\ waited \in 0..ScanLimit /\ ret \in {"top", "seen"}
      /\ s_rescan_pending \in BOOLEAN /\ s_client_seen \in BOOLEAN
      /\ pc # "off" => idle_ms < IdleMax
  BY BoundsAssumption DEF IInv, TypeOK, IdleBelowMax
<1> DEFINE cost == (IF s_rescan_pending THEN ScanCost ELSE 0)
                   + (IF s_client_seen THEN VisitCost ELSE 0)
<1> USE DEF Goto, flags
<1>a. /\ ScanCost \in Nat /\ VisitCost \in Nat
      /\ ScanCost' = ScanCost /\ VisitCost' = VisitCost
      /\ ScanCost = ScanLimit + 3 /\ VisitCost = 4 * IdleMax + 3
  BY <1>0 DEF ScanCost, VisitCost
<1>b. cost \in Nat
  BY <1>a
<1>c. Within("top") = 3 /\ Within("seen") = 2 /\ Within("rescan") = 2
      /\ Within("clear") = 1 /\ Within("idle") = 1 /\ Within("flush") = 1
  BY DEF Within
<1>d. ASSUME NEW x \in Nat, NEW y \in Nat, Alive, Alive', Place = x, Place' = y, y < x,
             idle_ms' = idle_ms, s_rescan_pending' = s_rescan_pending,
             s_client_seen' = s_client_seen
      PROVE  Left' < Left
  <2>1. /\ Left = 4 * (IdleMax - idle_ms) + x + (IF s_rescan_pending THEN ScanCost ELSE 0)
                  + (IF s_client_seen THEN VisitCost ELSE 0)
        /\ Left' = 4 * (IdleMax - idle_ms) + y + (IF s_rescan_pending THEN ScanCost ELSE 0)
                  + (IF s_client_seen THEN VisitCost ELSE 0)
    BY <1>a, <1>d DEF Left
  <2> QED
    BY <1>0, <1>a, <1>d, <2>1
<1>1. CASE ScanStart
  <2>1. Alive /\ Place = Within(ret) + ScanLimit + 2 /\ Within(ret) \in {2, 3}
    BY <1>0, <1>c, <1>1 DEF ScanStart, Alive, Place
  <2>2. CASE pc' = "scanning" /\ waited' = 0
    <3>1. Alive' /\ Place' = Within(ret) + ScanLimit - 0 + 1
      BY <1>1, <2>2 DEF ScanStart, Alive, Place, Within
    <3> QED
      BY <1>0, <1>1, <1>d, <2>1, <3>1 DEF ScanStart
  <2>3. CASE pc' = ret
    <3>1. Alive' /\ Place' = Within(ret)
      BY <1>0, <2>3 DEF Alive, Place, Within
    <3> QED
      BY <1>0, <1>1, <1>d, <2>1, <3>1 DEF ScanStart
  <2> QED
    BY <1>1, <2>2, <2>3 DEF ScanStart
<1>2. CASE ScanWait
  <2>1. /\ Alive /\ Place = Within(ret) + ScanLimit - waited + 1 /\ Within(ret) \in {2, 3}
        /\ idle_ms' = idle_ms /\ s_client_seen' = s_client_seen /\ ret' = ret
    BY <1>0, <1>c, <1>2 DEF ScanWait, Alive, Place
  <2>2. CASE pc' = ret /\ s_rescan_pending' = AfterScan
    <3>1. Alive' /\ Place' = Within(ret)
      BY <1>0, <2>2 DEF Alive, Place, Within
    <3> QED
      BY <1>0, <1>d, <2>1, <2>2, <3>1 DEF AfterScan
  <2>3. CASE pc' = pc /\ waited' = waited + 1 /\ s_rescan_pending' = s_rescan_pending
    <3>1. Alive' /\ Place' = Within(ret) + ScanLimit - (waited + 1) + 1
      BY <1>2, <2>1, <2>3 DEF ScanWait, Alive, Place, Within
    <3> QED
      BY <1>0, <1>d, <2>1, <2>3, <3>1
  <2> QED
    BY <1>2, <2>2, <2>3 DEF ScanWait
<1>3. CASE Top
  <2>1. Alive /\ Place = 3 /\ Alive' /\ Place' \in {1, 2}
    BY <1>c, <1>3 DEF Top, Alive, Place, Within
  <2> QED
    BY <1>3, <1>d, <2>1 DEF Top
<1>4. CASE Rescan
  <2>1. /\ Alive /\ Alive' /\ Place = 2 /\ Place' = ScanLimit + 4
        /\ s_rescan_pending /\ ~s_rescan_pending' /\ idle_ms' = idle_ms
        /\ s_client_seen' = s_client_seen
    <3>1. Place' = Within("seen")' + ScanLimit + 2
      BY <1>4 DEF Rescan, Place, Within
    <3>2. Within("seen")' = 2
      BY DEF Within
    <3> QED
      BY <1>0, <1>c, <1>4, <3>1, <3>2 DEF Rescan, Alive, Place, Read
  <2>2. /\ Left = 4 * (IdleMax - idle_ms) + 2 + (ScanLimit + 3)
                  + (IF s_client_seen THEN VisitCost ELSE 0)
        /\ Left' = 4 * (IdleMax - idle_ms) + (ScanLimit + 4) + 0
                  + (IF s_client_seen THEN VisitCost ELSE 0)
    BY <1>a, <2>1 DEF Left
  <2> QED
    BY <1>0, <1>a, <2>2
<1>5. CASE SeenCheck
  <2>1. Alive /\ Place = 2 /\ Alive' /\ Place' = 1
    BY <1>c, <1>5 DEF SeenCheck, Alive, Place, Within
  <2> QED
    BY <1>5, <1>d, <2>1 DEF SeenCheck
<1>6. CASE SeenClear
  <2>1. /\ Alive /\ Alive' /\ Place = 1 /\ Place' = 3
        /\ s_client_seen /\ ~s_client_seen' /\ idle_ms' = 0
        /\ s_rescan_pending' = s_rescan_pending /\ pc = "clear"
    BY <1>c, <1>6 DEF SeenClear, Alive, Place, Within, Read
  <2>2. /\ Left = 4 * (IdleMax - idle_ms) + 1 + (IF s_rescan_pending THEN ScanCost ELSE 0)
                  + (4 * IdleMax + 3)
        /\ Left' = 4 * (IdleMax - 0) + 3 + (IF s_rescan_pending THEN ScanCost ELSE 0) + 0
    BY <1>a, <2>1 DEF Left
  <2> QED
    BY <1>0, <1>a, <2>1, <2>2
<1>7. CASE IdlePoll
  <2>1. /\ Alive /\ Place = 1 /\ idle_ms' = idle_ms + 1 /\ pc = "idle"
        /\ s_rescan_pending' = s_rescan_pending /\ s_client_seen' = s_client_seen
    BY <1>c, <1>7 DEF IdlePoll, Alive, Place
  <2>2. Left = 4 * (IdleMax - idle_ms) + 1 + (IF s_rescan_pending THEN ScanCost ELSE 0)
               + (IF s_client_seen THEN VisitCost ELSE 0)
    BY <2>1 DEF Left
  <2>3. CASE pc' = "off"
    <3>1. Left' = 0
      BY <2>3 DEF Left, Alive
    <3> QED
      BY <1>0, <1>a, <2>1, <2>2, <3>1
  <2>4. CASE pc' = "top"
    <3>1. Alive' /\ Place' = 3
      BY <2>4 DEF Alive, Place, Within
    <3>2. Left' = 4 * (IdleMax - (idle_ms + 1)) + 3
                  + (IF s_rescan_pending THEN ScanCost ELSE 0)
                  + (IF s_client_seen THEN VisitCost ELSE 0)
      BY <1>a, <2>1, <3>1 DEF Left
    <3> QED
      BY <1>0, <1>a, <2>1, <2>2, <3>2
  <2> QED
    BY <1>7, <2>3, <2>4 DEF IdlePoll
<1>8. CASE Reboot
  <2>1. Alive /\ Place = 1 /\ pc # "off"
    BY <1>c, <1>8 DEF Reboot, Alive, Place
  <2>2. Left > 0
    BY <1>0, <1>a, <2>1 DEF Left
  <2>3. Left' = 0
    BY <1>8 DEF Reboot, Left, Alive
  <2> QED
    BY <2>2, <2>3
<1> QED
  BY <1>1, <1>2, <1>3, <1>4, <1>5, <1>6, <1>7, <1>8 DEF Loop

\* net_portal.c:571-604: the portal ends, by a reboot or by powering off, within a number of
\* the loop's steps that only new connections and clicks on Rescan can raise, each by a fixed
\* cost: connections left open, segments without end and a scan that hangs do not.
THEOREM StayIsBounded == Spec => [](Left \in Nat) /\ [][Shorter]_vars
<1>1. Init => Read
  BY DEF Init, Read
<1>2. IInv => Left \in Nat /\ (Alive => 4 * (IdleMax - idle_ms) + Place \in Nat)
  <2> SUFFICES ASSUME TypeOK
          PROVE  Left \in Nat /\ (Alive => 4 * (IdleMax - idle_ms) + Place \in Nat)
    BY DEF IInv
  <2>1. /\ IdleMax \in Nat /\ ScanLimit \in Nat /\ idle_ms \in 0..IdleMax
        /\ waited \in 0..ScanLimit /\ ret \in {"top", "seen"}
    BY BoundsAssumption DEF TypeOK
  <2>2. ScanCost \in Nat /\ VisitCost \in Nat
    BY <2>1 DEF ScanCost, VisitCost
  <2>3. CASE Alive
    <3>1. Within(ret) \in {2, 3}
      BY <2>1 DEF Within
    <3>2. Place \in Nat
      <4>1. CASE pc = "scan"
        BY <2>1, <3>1, <4>1 DEF Place
      <4>2. CASE pc = "scanning"
        BY <2>1, <3>1, <4>2 DEF Place
      <4>3. CASE pc \in {"top", "rescan", "seen", "clear", "idle", "flush"}
        BY <4>3 DEF Place, Within
      <4> QED
        BY <2>3, <4>1, <4>2, <4>3 DEF Alive, TypeOK
    <3> QED
      BY <2>1, <2>2, <2>3, <3>2 DEF Left
  <2> QED
    BY <2>3 DEF Left
<1>3. IInv => TypeOK
  BY DEF IInv
<1>4. IInv /\ Read /\ [Next]_vars => [Shorter]_vars
  <2> SUFFICES ASSUME IInv, Read PROVE Shorter
    OBVIOUS
  <2>1. ASSUME ScanEnds \/ \E c \in Conns : Callback(c)
        PROVE  Left' <= Left + (IF ~s_rescan_pending /\ s_rescan_pending' THEN ScanCost ELSE 0)
                             + (IF ~s_client_seen /\ s_client_seen' THEN VisitCost ELSE 0)
    <3> DEFINE r == IF s_rescan_pending THEN ScanCost ELSE 0
               s == IF s_client_seen THEN VisitCost ELSE 0
               r1 == IF s_rescan_pending' THEN ScanCost ELSE 0
               s1 == IF s_client_seen' THEN VisitCost ELSE 0
               dr == IF ~s_rescan_pending /\ s_rescan_pending' THEN ScanCost ELSE 0
               ds == IF ~s_client_seen /\ s_client_seen' THEN VisitCost ELSE 0
    <3>1. /\ UNCHANGED <<pc, ret, waited, idle_ms>>
          /\ (s_rescan_pending => s_rescan_pending')
          /\ (s_client_seen => s_client_seen')
      BY <1>3, <2>1, CallbackWaits DEF loop
    <3>2. /\ ScanCost \in Nat /\ VisitCost \in Nat
          /\ ScanCost' = ScanCost /\ VisitCost' = VisitCost
      BY BoundsAssumption DEF ScanCost, VisitCost
    <3>3. Alive' = Alive /\ Place' = Place
      BY <3>1 DEF Alive, Place, Within
    <3>4. /\ r \in Nat /\ s \in Nat /\ dr \in Nat /\ ds \in Nat /\ r1 = r + dr /\ s1 = s + ds
      BY <3>1, <3>2
    <3>5. CASE ~Alive
      <4>1. Left = 0 /\ Left' = 0
        BY <3>3, <3>5 DEF Left
      <4> QED
        BY <3>4, <4>1
    <3>6. CASE Alive
      <4> DEFINE base == 4 * (IdleMax - idle_ms) + Place
      <4>1. Left = base + r + s
        BY <3>6 DEF Left
      <4>2. Left' = base + r1 + s1
        BY <3>1, <3>2, <3>3, <3>6 DEF Left
      <4>3. base \in Nat
        BY <1>2, <3>6 DEF IInv
      <4> HIDE DEF base, r, s, r1, s1, dr, ds
      <4>4. Left' = (Left + dr) + ds
        BY <3>4, <4>1, <4>2, <4>3
      <4>5. Left' <= Left + dr + ds
        BY <3>4, <4>1, <4>3, <4>4
      <4> QED
        BY <4>5 DEF dr, ds
    <3> QED
      BY <3>5, <3>6
  <2> QED
    BY <2>1, LoopShortens DEF Shorter
<1> QED
  BY <1>1, <1>2, <1>3, <1>4, ReadNext, Invariance, PTL DEF Spec
====
