--------------------------- MODULE Device_proofs ---------------------------
(***************************************************************************)
(* Theorems about Device, for every value of its constants.                *)
(***************************************************************************)
EXTENDS Device, TLAPS

-----------------------------------------------------------------------------
(* Typing lemmas about the records. *)

\* Every place the actions name is one of Places.
LEMMA PlaceNames ==
    /\ "boot" \in Places /\ "wake" \in Places /\ "connect" \in Places /\ "bootstrap" \in Places
    /\ "frame" \in Places /\ "retained" \in Places /\ "fetch" \in Places /\ "status" \in Places
    /\ "stop" \in Places /\ "decide" \in Places /\ "painting" \in Places /\ "erase" \in Places
    /\ "program" \in Places /\ "tally" \in Places /\ "giveup" \in Places /\ "rest" \in Places
    /\ "pause" \in Places /\ "asleep" \in Places /\ "splash" \in Places /\ "portal" \in Places
    /\ "serving" \in Places /\ "respond" \in Places /\ "off" \in Places
BY Zenon DEF Places

\* The 16-bit count of failures stays a 16-bit word.
LEMMA WordsTyped == 0 \in Words /\ \A n \in Words : (n + 1) % Wrap \in Words
<1>1. Wrap \in Nat \ {0}
  BY DEF Wrap
<1> QED
  BY <1>1 DEF Words

\* The memset-and-default configuration and a cycle's fresh locals are well typed.
LEMMA DefaultsTyped == DefaultConfig \in Configs /\ FreshCycle \in Cycles
<1>1. DefaultConfig \in Configs
  BY IdentityAssumption DEF DefaultConfig, Configs, SleepClasses, None
<1>2. FreshCycle \in Cycles
  BY DEF FreshCycle, Cycles
<1> QED
  BY <1>1, <1>2

\* Updating one always-on word leaves both well typed.
LEMMA ScratchTyped ==
    ASSUME NEW s \in [magic: BOOLEAN, fails: Words]
    PROVE  /\ s.fails \in Words
           /\ \A n \in Words : [s EXCEPT !.fails = n] \in [magic: BOOLEAN, fails: Words]
           /\ [s EXCEPT !.magic = TRUE] \in [magic: BOOLEAN, fails: Words]
           /\ [magic |-> FALSE, fails |-> 0] \in [magic: BOOLEAN, fails: Words]
<1>1. s.fails \in Words
  OBVIOUS
<1>2. ASSUME NEW n \in Words PROVE [s EXCEPT !.fails = n] \in [magic: BOOLEAN, fails: Words]
  OBVIOUS
<1>3. [s EXCEPT !.magic = TRUE] \in [magic: BOOLEAN, fails: Words]
  OBVIOUS
<1>4. [magic |-> FALSE, fails |-> 0] \in [magic: BOOLEAN, fails: Words]
  BY WordsTyped
<1> QED
  BY <1>1, <1>2, <1>3, <1>4

\* Each setter of config.c leaves a well-typed configuration.
LEMMA ConfigTyped ==
    ASSUME NEW c \in Configs
    PROVE  /\ c.sleep \in SleepClasses /\ c.token \in Tokens \cup {None} /\ c.id \in Ids
           /\ \A v \in SleepClasses : [c EXCEPT !.sleep = v] \in Configs
           /\ \A t \in Tokens \cup {None} : [c EXCEPT !.token = t] \in Configs
           /\ \A t \in Tokens \cup {None}, v \in SleepClasses :
                 [c EXCEPT !.token = t, !.sleep = v] \in Configs
           /\ \A f \in Frames \cup {None} : [c EXCEPT !.etag = f] \in Configs
           /\ \A f \in Frames \cup {None} : [c EXCEPT !.hash = f] \in Configs
BY DEF Configs

\* Every interval the server can send that the code keeps is one main can sleep on.
LEMMA InputsTyped == /\ \A iv \in Intervals : iv \notin {Absent, "awake"} => iv \in SleepClasses
                     /\ \A iv \in Intervals : iv # Absent => iv \in SleepClasses
                     /\ \A np \in Polls : np # Absent => np \in SleepClasses
                     /\ {"backoff", "default"} \subseteq SleepClasses
BY InputsAssumption DEF SleepClasses

\* What rest_bootstrap keeps of an answer is a well-typed configuration.
LEMMA AdoptedTyped ==
    ASSUME cfg \in Configs, NEW t \in Tokens, NEW i \in Ids, NEW iv \in Intervals
    PROVE  Adopted(t, i, iv) \in Configs
<1>1. (IF iv \in {Absent, "awake"} THEN cfg.sleep ELSE iv) \in SleepClasses
  BY InputsTyped, ConfigTyped
<1> QED
  BY <1>1 DEF Adopted, Configs

\* What a typed server record says, and what issuing a token makes of it.
LEMMA ServerTyped ==
    ASSUME server \in Servers
    PROVE  /\ server.live # None => server.live \in Tokens /\ server.bound[server.live] \in Ids
           /\ server.frame \in Frames \cup {None}
           /\ Fresh # {} => NewToken \in Fresh /\ NewToken \in Tokens
           /\ \A t \in Tokens, i \in Ids : Issue(t, i) => server' \in Servers
<1>1. /\ server.live # None => server.live \in Tokens /\ server.bound[server.live] \in Ids
      /\ server.frame \in Frames \cup {None}
  BY DEF Servers
<1>2. Fresh # {} => NewToken \in Fresh /\ NewToken \in Tokens
  BY DEF Fresh, NewToken
<1>3. ASSUME NEW t \in Tokens, NEW i \in Ids, Issue(t, i) PROVE server' \in Servers
  BY <1>3 DEF Servers, Issue
<1> QED
  BY <1>1, <1>2, <1>3

\* Whatever form is submitted, save_form leaves a well-typed configuration.
LEMMA RepairedTyped ==
    ASSUME cfg \in Configs, NEW f \in Forms
    PROVE  Repaired([cfg EXCEPT !.wifi = Entered(f.ssid, @), !.url = Entered(f.url, @),
                                !.uri = Entered(f.uri, @), !.id = Entered(f.id, @)], f.code)
              \in Configs
<1>1. f \in FormFields
  BY InputsAssumption
<1>2. /\ Entered(f.ssid, cfg.wifi) \in {None, "good", "bad"}
      /\ Entered(f.url, cfg.url) \in {None, "good", "dead", "alien"}
      /\ Entered(f.uri, cfg.uri) \in {None, "good", "bad"}
      /\ Entered(f.id, cfg.id) \in Ids
  BY <1>1 DEF FormFields, Configs, Entered
<1> DEFINE c == [cfg EXCEPT !.wifi = Entered(f.ssid, @), !.url = Entered(f.url, @),
                            !.uri = Entered(f.uri, @), !.id = Entered(f.id, @)]
<1>3. c \in Configs
  BY <1>2 DEF Configs
<1>4. f.code \in {None, "right", "wrong"}
  BY <1>1 DEF FormFields
<1> HIDE DEF c
<1>5. Repaired(c, f.code) \in Configs
  BY <1>3, <1>4 DEF Repaired, Configs
<1> QED
  BY <1>5 DEF c

-----------------------------------------------------------------------------
(* Type correctness. *)

\* A reset: RAM is lost, the always-on words may be.
LEMMA RebootTyped ==
    ASSUME Reboot
    PROVE  /\ pc' \in Places /\ ret' \in Places /\ looping' \in BOOLEAN /\ panel' \in BOOLEAN
           /\ cfg' \in Configs /\ cyc' \in Cycles /\ radio' \in {"down", "sta", "ap"}
BY DefaultsTyped, PlaceNames DEF Reboot, RamLost

\* Whether or not the always-on words survive a reset, they stay well typed.
LEMMA ScratchAfterResetTyped ==
    ASSUME TypeOK, ScratchAfterReset
    PROVE  scratch' \in [magic: BOOLEAN, fails: Words]
<1>1. [magic |-> FALSE, fails |-> 0] \in [magic: BOOLEAN, fails: Words]
  BY WordsTyped
<1> QED
  BY <1>1 DEF TypeOK, ScratchAfterReset

\* The faults counted are at most the faults allowed.
LEMMA FaultsTyped ==
    ASSUME TypeOK, Fault \/ NoFault
    PROVE  faults' \in 0..MaxFaults
BY BoundsAssumption DEF TypeOK, Fault, NoFault

\* Both ends of rest_bootstrap leave cfg, cyc and the program counter well typed.
LEMMA BootstrapTyped ==
    ASSUME TypeOK
    PROVE  /\ \A t \in Tokens, i \in Ids :
                 Bootstrapped(t, i) => /\ cfg' \in Configs /\ cyc' \in Cycles
                                       /\ pc' \in Places /\ ret' \in Places
           /\ \A b \in BOOLEAN, v \in SleepClasses :
                 Unbootstrapped(b, v) => /\ cfg' \in Configs /\ cyc' \in Cycles
                                         /\ pc' \in Places /\ ret' \in Places
<1>1. ASSUME NEW t \in Tokens, NEW i \in Ids, Bootstrapped(t, i)
      PROVE  /\ cfg' \in Configs /\ cyc' \in Cycles
             /\ pc' \in Places /\ ret' \in Places
  <2>1. cfg' \in Configs
    BY <1>1, AdoptedTyped DEF Bootstrapped, TypeOK
  <2>2. cyc' \in Cycles
    BY <1>1 DEF Bootstrapped, TypeOK, Cycles
  <2> QED
    BY <1>1, <2>1, <2>2, PlaceNames DEF Bootstrapped
<1>2. ASSUME NEW b \in BOOLEAN, NEW v \in SleepClasses, Unbootstrapped(b, v)
      PROVE  /\ cfg' \in Configs /\ cyc' \in Cycles
             /\ pc' \in Places /\ ret' \in Places
  <2>1. cfg' \in Configs
    BY <1>2, ConfigTyped DEF Unbootstrapped, TypeOK
  <2>2. cyc' \in Cycles
    BY <1>2 DEF Unbootstrapped, TypeOK, Cycles
  <2> QED
    BY <1>2, <2>1, <2>2, PlaceNames DEF Unbootstrapped
<1> QED
  BY <1>1, <1>2

\* POST /register, answered or not, keeps the types.
LEMMA RegisterTyped == ASSUME TypeOK, Register PROVE TypeOK'
<1>1. server.live # None => server.live \in Tokens /\ server.bound[server.live] \in Ids
  BY ServerTyped DEF TypeOK
<1>2. faults' \in 0..MaxFaults
  BY FaultsTyped DEF Register, Reply
<1>3. (IF cfg.sleep = "awake" THEN "backoff" ELSE cfg.sleep) \in SleepClasses
  BY ConfigTyped, InputsTyped DEF TypeOK
<1>4. \/ /\ UNCHANGED server
         /\ \/ server.live # None /\ Bootstrapped(server.live, server.bound[server.live])
            \/ \E b \in BOOLEAN, v \in SleepClasses : Unbootstrapped(b, v)
      \/ /\ Fresh # {}
         /\ \E i \in Ids : /\ Issue(NewToken, i)
                           /\ \/ Bootstrapped(NewToken, i)
                              \/ \E b \in BOOLEAN, v \in SleepClasses : Unbootstrapped(b, v)
  BY <1>3, ConfigTyped, InputsTyped DEF Register, TypeOK
<1>5. server' \in Servers
  BY <1>4, ServerTyped DEF TypeOK
<1>6. /\ cfg' \in Configs /\ cyc' \in Cycles
      /\ pc' \in Places /\ ret' \in Places
  BY <1>1, <1>4, BootstrapTyped, ServerTyped DEF TypeOK
<1> QED
  BY <1>2, <1>5, <1>6 DEF Register, TypeOK, lasting

\* POST /discover, answered or not, keeps the types.
LEMMA DiscoverTyped == ASSUME TypeOK, Discover PROVE TypeOK'
<1>1. server.live # None => server.live \in Tokens /\ server.bound[server.live] \in Ids
  BY ServerTyped DEF TypeOK
<1>2. faults' \in 0..MaxFaults
  BY FaultsTyped DEF Discover, Reply
<1>3. \/ server.live # None /\ Bootstrapped(server.live, server.bound[server.live])
      \/ \E b \in BOOLEAN : Unbootstrapped(b, "backoff")
  <2>1. PICK r \in Statuses :
           IF r = "ok" /\ server.live # None
           THEN Bootstrapped(server.live, server.bound[server.live])
           ELSE Unbootstrapped(r \in {"ok", "ratelimit"}, "backoff")
    BY DEF Discover
  <2>2. (r \in {"ok", "ratelimit"}) \in BOOLEAN
    OBVIOUS
  <2> QED
    BY <2>1, <2>2, Zenon
<1>4. /\ cfg' \in Configs /\ cyc' \in Cycles
      /\ pc' \in Places /\ ret' \in Places
  BY <1>1, <1>3, BootstrapTyped, InputsTyped
<1> QED
  BY <1>2, <1>4 DEF Discover, TypeOK, lasting

\* The requests of a cycle, whatever they bring back, keep the types.
LEMMA RequestsTyped ==
    ASSUME TypeOK, GetFrame \/ PostStatus \/ FetchRetained
    PROVE  TypeOK'
<1> USE DEF TypeOK
<1>1. faults' \in 0..MaxFaults
  BY FaultsTyped DEF GetFrame, PostStatus, FetchRetained, Reply
<1>2. CASE GetFrame
  <2>1. cfg' \in Configs
    <3>1. [cfg EXCEPT !.token = None] \in Configs
      BY ConfigTyped
    <3> QED
      BY <1>2, <3>1 DEF GetFrame
  <2>2. cyc' \in Cycles
    <3>1. PICK r \in Statuses :
            cyc' = [cyc EXCEPT !.reached = @ \/ r # "neterr",
                               !.skip = r \in {"notmodified", "nocontent"},
                               !.want = IF r = "ok" THEN server.frame ELSE None,
                               !.dirty = @ \/ r \in Rejecting]
      BY <1>2 DEF GetFrame
    <3> DEFINE a == cyc.reached \/ r # "neterr"
               b == r \in {"notmodified", "nocontent"}
               w == IF r = "ok" THEN server.frame ELSE None
               d == cyc.dirty \/ r \in Rejecting
    <3>2. cyc' = [cyc EXCEPT !.reached = a, !.skip = b, !.want = w, !.dirty = d]
      BY <3>1
    <3>3. a \in BOOLEAN /\ b \in BOOLEAN /\ d \in BOOLEAN /\ w \in Frames \cup {None}
      BY ServerTyped
    <3> HIDE DEF a, b, d, w
    <3> QED
      BY <3>2, <3>3 DEF Cycles
  <2>3. pc' \in Places
    BY <1>2, PlaceNames DEF GetFrame
  <2> QED
    BY <1>1, <1>2, <2>1, <2>2, <2>3 DEF GetFrame, lasting
<1>3. CASE PostStatus
  <2>1. PICK r \in Statuses, iv \in Intervals, np \in Polls :
          LET newer == r = "ok" /\ iv \notin {Absent, "awake", cfg.sleep}
          IN /\ cyc' = [cyc EXCEPT !.reached = @ \/ r # "neterr",
                                   !.dirty = @ \/ newer \/ r \in Rejecting]
             /\ cfg' = [cfg EXCEPT
                          !.token = IF r \in Rejecting THEN None ELSE @,
                          !.sleep = IF r = "ok" /\ np # Absent THEN np
                                    ELSE IF newer THEN iv ELSE @]
    BY <1>3 DEF PostStatus
  <2> DEFINE newer == r = "ok" /\ iv \notin {Absent, "awake", cfg.sleep}
             t == IF r \in Rejecting THEN None ELSE cfg.token
             v == IF r = "ok" /\ np # Absent THEN np ELSE IF newer THEN iv ELSE cfg.sleep
  <2>2. t \in Tokens \cup {None} /\ v \in SleepClasses
    BY ConfigTyped, InputsTyped
  <2>3. cfg' = [cfg EXCEPT !.token = t, !.sleep = v]
    BY <2>1
  <2> HIDE DEF t, v
  <2>4. cfg' \in Configs
    BY <2>2, <2>3, ConfigTyped
  <2>5. cyc' \in Cycles
    BY <2>1 DEF Cycles
  <2> QED
    BY <1>1, <1>3, <2>4, <2>5, PlaceNames DEF PostStatus, lasting
<1>4. CASE FetchRetained
  <2>1. PICK f \in {server.frame, None}, iv \in Intervals :
          /\ cfg' = [cfg EXCEPT !.sleep = IF iv = Absent THEN @ ELSE iv]
          /\ LET known == panel /\ f # None /\ f = cfg.hash
                 new   == panel /\ f # None /\ f # cfg.hash
             IN /\ cyc' = [cyc EXCEPT !.skip = known,
                                      !.want = IF new THEN f ELSE None,
                                      !.dirty = cfg'.sleep # cfg.sleep]
                /\ pc' = IF new THEN "fetch" ELSE "stop"
    BY <1>4 DEF FetchRetained
  <2>2. cfg' \in Configs
    BY <2>1, ConfigTyped, InputsTyped
  <2>3. f \in Frames \cup {None}
    BY ServerTyped
  <2>4. cyc' \in Cycles
    BY <2>1, <2>3 DEF Cycles
  <2>5. pc' \in Places
    BY <2>1, PlaceNames
  <2> QED
    BY <1>1, <1>4, <2>2, <2>4, <2>5 DEF FetchRetained, lasting
<1> QED
  BY <1>2, <1>3, <1>4

\* Recording what was painted keeps the types.
LEMMA PaintDoneTyped == ASSUME TypeOK, PaintDone PROVE TypeOK'
<1> USE DEF TypeOK
<1>1. faults' \in 0..MaxFaults
  BY FaultsTyped DEF PaintDone
<1>2. cyc.want \in Frames \cup {None} /\ cyc.got \in BOOLEAN
  BY DEF Cycles
<1>3. cfg' \in Configs
  <2>1. [cfg EXCEPT !.hash = cyc.want] \in Configs /\ [cfg EXCEPT !.etag = cyc.want] \in Configs
    BY <1>2, ConfigTyped
  <2> QED
    BY <2>1 DEF PaintDone, Recorded
<1>4. screen' \in Frames \cup {None, "stripes", "splash", "torn"}
  BY <1>2 DEF PaintDone
<1>5. pc' \in Places /\ ret' \in Places
  BY PlaceNames DEF PaintDone, Finish
<1> QED
  BY <1>1, <1>3, <1>4, <1>5 DEF PaintDone

\* Counting a cycle, or giving up, keeps the types.
LEMMA TallyTyped == ASSUME TypeOK, Tally \/ GiveUp PROVE TypeOK'
<1> USE DEF TypeOK
<1>1. \A n \in Words : [scratch EXCEPT !.fails = n] \in [magic: BOOLEAN, fails: Words]
  BY ScratchTyped
<1>2. CASE Tally
  <2>1. (IF Succeeded THEN 0 ELSE (scratch.fails + 1) % Wrap) \in Words
    BY WordsTyped, ScratchTyped
  <2>2. scratch' \in [magic: BOOLEAN, fails: Words]
    BY <1>1, <1>2, <2>1 DEF Tally
  <2>3. pc' \in Places
    BY <1>2, PlaceNames DEF Tally
  <2> QED
    BY <1>2, <2>2, <2>3, DefaultsTyped DEF Tally, world
<1>3. CASE GiveUp
  <2>1. scratch' \in [magic: BOOLEAN, fails: Words]
    BY <1>1, <1>3, WordsTyped DEF GiveUp
  <2> QED
    BY <1>3, <2>1, PlaceNames DEF GiveUp, RadioAfterStop, world
<1> QED
  BY <1>2, <1>3

\* A submitted form keeps the types.
LEMMA SaveFormTyped == ASSUME TypeOK, NEW f \in Forms, SaveForm(f) PROVE TypeOK'
<1>1. cfg' \in Configs
  BY RepairedTyped DEF SaveForm, TypeOK
<1> QED
  BY <1>1, PlaceNames DEF SaveForm, TypeOK, lasting

\* Every step of the program and of its environment keeps every variable in its type.
THEOREM TypeCorrect == Spec => []TypeOK
<1>1. Init => TypeOK
  <2> SUFFICES ASSUME Init PROVE TypeOK
    OBVIOUS
  <2>1. server \in Servers
    BY IdentityAssumption DEF Init, Servers
  <2>2. scratch \in [magic: BOOLEAN, fails: Words]
    BY WordsTyped DEF Init
  <2>3. faults \in 0..MaxFaults /\ cuts \in 0..MaxCuts
    BY BoundsAssumption DEF Init
  <2>4. /\ pc \in Places /\ ret \in Places /\ cfg \in Configs /\ cyc \in Cycles
        /\ flash \in Configs \cup {Blank}
    BY DefaultsTyped, PlaceNames DEF Init
  <2>5. /\ looping \in BOOLEAN /\ panel \in BOOLEAN /\ doubt \in BOOLEAN
        /\ radio \in {"down", "sta", "ap"}
        /\ screen \in Frames \cup {None, "stripes", "splash", "torn"}
    BY DEF Init
  <2> QED
    BY <2>1, <2>2, <2>3, <2>4, <2>5 DEF TypeOK
<1>2. TypeOK /\ [Next]_vars => TypeOK'
  <2> SUFFICES ASSUME TypeOK, [Next]_vars PROVE TypeOK'
    OBVIOUS
  <2> USE DEF TypeOK, lasting, world
  <2>1. CASE Boot
    BY <2>1, FaultsTyped, DefaultsTyped, PlaceNames DEF Boot
  <2>2. CASE Wake
    <3>1. scratch' \in [magic: BOOLEAN, fails: Words]
      BY <2>2, ScratchTyped, WordsTyped DEF Wake
    <3> QED
      BY <2>2, <3>1, PlaceNames DEF Wake
  <2>3. CASE Joined
    <3>1. cyc' \in Cycles
      BY <2>3 DEF Joined, Cycles, OnRest
    <3> QED
      BY <2>3, <3>1, FaultsTyped, PlaceNames DEF Joined
  <2>4. CASE NotJoined
    BY <2>4, FaultsTyped, PlaceNames DEF NotJoined
  <2>5. CASE Register
    BY <2>5, RegisterTyped
  <2>6. CASE Discover
    BY <2>6, DiscoverTyped
  <2>7. CASE GetFrame \/ PostStatus \/ FetchRetained
    BY <2>7, RequestsTyped
  <2>8. CASE FetchFrame
    <3>1. cyc' \in Cycles
      BY <2>8 DEF FetchFrame, Cycles
    <3> QED
      BY <2>8, <3>1, FaultsTyped, PlaceNames DEF FetchFrame
  <2>9. CASE WifiStop
    BY <2>9 DEF WifiStop, RadioAfterStop
  <2>10. CASE Decide
    BY <2>10, PlaceNames DEF Decide, Finish
  <2>11. CASE PaintDone
    BY <2>11, PaintDoneTyped
  <2>12. CASE Erase \/ Program
    BY <2>12, PlaceNames DEF Erase, Program
  <2>13. CASE Tally \/ GiveUp
    BY <2>13, TallyTyped
  <2>14. CASE Sleep \/ IdleTimeout
    <3>1. scratch' \in [magic: BOOLEAN, fails: Words]
      BY <2>14, ScratchTyped DEF Sleep, IdleTimeout
    <3> QED
      BY <2>14, <3>1, DefaultsTyped, PlaceNames DEF Sleep, IdleTimeout, RamLost
  <2>15. CASE StayAwake \/ Again \/ Abandoned
    BY <2>15, PlaceNames DEF StayAwake, Again, Abandoned
  <2>16. CASE TimerWake \/ Answered
    BY <2>16, RebootTyped DEF TimerWake, Answered
  <2>17. CASE Splash
    BY <2>17, FaultsTyped, PlaceNames DEF Splash
  <2>18. CASE OpenPortal
    BY <2>18, FaultsTyped, PlaceNames DEF OpenPortal
  <2>19. ASSUME NEW f \in Forms, SaveForm(f) PROVE TypeOK'
    BY <2>19, SaveFormTyped
  <2>20. CASE PowerCut
    <3>1. cuts' \in 0..MaxCuts /\ doubt' \in BOOLEAN
      BY <2>20, BoundsAssumption DEF PowerCut
    <3> QED
      BY <2>20, <3>1, RebootTyped, ScratchAfterResetTyped DEF PowerCut
  <2>21. CASE ResetButton
    BY <2>21, RebootTyped, ScratchAfterResetTyped DEF ResetButton
  <2>22. ASSUME NEW f \in Frames \cup {None}, Render(f) PROVE TypeOK'
    <3>1. server' \in Servers
      BY <2>22 DEF Render, Servers
    <3> QED
      BY <2>22, <3>1 DEF Render, board
  <2>23. CASE AdminRegister
    <3>1. server' \in Servers
      BY <2>23, ServerTyped DEF AdminRegister
    <3> QED
      BY <2>23, <3>1 DEF AdminRegister, board
  <2>24. CASE AdminCode \/ AdminRemove
    <3>1. server' \in Servers
      BY <2>24 DEF AdminCode, AdminRemove, Servers
    <3> QED
      BY <2>24, <3>1 DEF AdminCode, AdminRemove, board
  <2>25. CASE UNCHANGED vars
    BY <2>25 DEF vars, board
  <2> QED
    BY <2>1, <2>2, <2>3, <2>4, <2>5, <2>6, <2>7, <2>8, <2>9, <2>10, <2>11, <2>12, <2>13,
       <2>14, <2>15, <2>16, <2>17, <2>18, <2>19, <2>20, <2>21, <2>22, <2>23, <2>24, <2>25
    DEF Next, Step, Environment
<1> QED
  BY <1>1, <1>2, PTL DEF Spec

-----------------------------------------------------------------------------
(* The strengthening, conjunct by conjunct. *)

\* No step leaves a call without its place to return to, or starts a cycle with old locals.
LEMMA ReturnsStep == ASSUME TypeOK, Returns, [Next]_vars PROVE Returns'
<1> USE DEF Returns, Saving
<1>1. CASE Boot \/ Wake \/ Joined \/ NotJoined
  BY <1>1 DEF Boot, Wake, Joined, NotJoined
<1>2. CASE Register
  BY <1>2 DEF Register, Bootstrapped, Unbootstrapped
<1>3. CASE Discover
  BY <1>3 DEF Discover, Bootstrapped, Unbootstrapped
<1>4. CASE GetFrame \/ FetchFrame \/ PostStatus \/ FetchRetained
  BY <1>4 DEF GetFrame, FetchFrame, PostStatus, FetchRetained
<1>5. CASE WifiStop \/ Decide \/ PaintDone
  BY <1>5 DEF WifiStop, Decide, PaintDone, Finish
<1>6. CASE Erase \/ Program
  BY <1>6 DEF Erase, Program
<1>7. CASE Tally \/ GiveUp
  BY <1>7 DEF Tally, GiveUp
<1>8. CASE Sleep \/ StayAwake \/ Again \/ TimerWake
  BY <1>8 DEF Sleep, StayAwake, Again, TimerWake, Reboot, RamLost
<1>9. CASE Splash \/ OpenPortal \/ Answered \/ Abandoned \/ IdleTimeout
  BY <1>9 DEF Splash, OpenPortal, Answered, Abandoned, IdleTimeout, Reboot, RamLost
<1>10. ASSUME NEW f \in Forms, SaveForm(f) PROVE Returns'
  BY <1>10 DEF SaveForm
<1>11. CASE PowerCut \/ ResetButton
  BY <1>11 DEF PowerCut, ResetButton, Reboot, RamLost
<1>12. ASSUME UNCHANGED board PROVE Returns'
  BY <1>12 DEF board
<1> QED
  BY <1>1, <1>2, <1>3, <1>4, <1>5, <1>6, <1>7, <1>8, <1>9, <1>10, <1>11, <1>12
  DEF Next, Step, Environment, Render, AdminRegister, AdminCode, AdminRemove, vars

\* No step brings the radio up where a save is still to come.
LEMMA RadioStep ==
    ASSUME TypeOK, Returns, RadioDownBeforeSave, [Next]_vars
    PROVE  RadioDownBeforeSave'
<1> USE DEF RadioDownBeforeSave, Returns, Saving
<1>1. CASE Boot \/ Wake \/ Joined \/ NotJoined
  BY <1>1 DEF Boot, Wake, Joined, NotJoined, FreshCycle
<1>2. CASE Register
  BY <1>2 DEF Register, Bootstrapped, Unbootstrapped
<1>3. CASE Discover
  BY <1>3 DEF Discover, Bootstrapped, Unbootstrapped
<1>4. CASE GetFrame \/ FetchFrame \/ PostStatus \/ FetchRetained
  BY <1>4 DEF GetFrame, FetchFrame, PostStatus, FetchRetained
<1>5. CASE WifiStop \/ Decide \/ PaintDone
  BY <1>5 DEF WifiStop, RadioAfterStop, Decide, PaintDone, Finish
<1>6. CASE Erase \/ Program
  BY <1>6 DEF Erase, Program
<1>7. CASE Tally \/ GiveUp
  BY <1>7 DEF Tally, GiveUp
<1>8. CASE Sleep \/ StayAwake \/ Again \/ TimerWake
  BY <1>8 DEF Sleep, StayAwake, Again, TimerWake, Reboot, RamLost
<1>9. CASE Splash \/ OpenPortal \/ Answered \/ Abandoned \/ IdleTimeout
  BY <1>9 DEF Splash, OpenPortal, Answered, Abandoned, IdleTimeout, Reboot, RamLost
<1>10. ASSUME NEW f \in Forms, SaveForm(f) PROVE RadioDownBeforeSave'
  BY <1>10 DEF SaveForm
<1>11. CASE PowerCut \/ ResetButton
  BY <1>11 DEF PowerCut, ResetButton, Reboot, RamLost
<1>12. ASSUME UNCHANGED board PROVE RadioDownBeforeSave'
  BY <1>12 DEF board
<1> QED
  BY <1>1, <1>2, <1>3, <1>4, <1>5, <1>6, <1>7, <1>8, <1>9, <1>10, <1>11, <1>12
  DEF Next, Step, Environment, Render, AdminRegister, AdminCode, AdminRemove, vars

\* No step takes a cycle to the other transport's requests.
LEMMA TransportStep ==
    ASSUME Returns, OnTransport, [Next]_vars
    PROVE  OnTransport'
<1> USE DEF OnTransport, OnRest
<1>1. CASE Boot \/ Wake \/ Joined \/ NotJoined
  BY <1>1 DEF Boot, Wake, Joined, NotJoined, Returns, FreshCycle
<1>2. CASE Register \/ Discover
  BY <1>2 DEF Register, Discover, Bootstrapped, Unbootstrapped
<1>3. CASE GetFrame \/ FetchFrame \/ PostStatus \/ FetchRetained
  BY <1>3 DEF GetFrame, FetchFrame, PostStatus, FetchRetained
<1>4. CASE WifiStop \/ Decide \/ PaintDone \/ Erase \/ Program
  BY <1>4 DEF WifiStop, Decide, PaintDone, Finish, Erase, Program, Returns, Saving
<1>5. CASE Tally \/ GiveUp \/ Sleep \/ StayAwake \/ Again \/ TimerWake
  BY <1>5 DEF Tally, GiveUp, Sleep, StayAwake, Again, TimerWake, Reboot
<1>6. CASE Splash \/ OpenPortal \/ Answered \/ Abandoned \/ IdleTimeout
  BY <1>6 DEF Splash, OpenPortal, Answered, Abandoned, IdleTimeout, Reboot, Returns
<1>7. ASSUME NEW f \in Forms, SaveForm(f) PROVE OnTransport'
  BY <1>7 DEF SaveForm
<1>8. CASE PowerCut \/ ResetButton
  BY <1>8 DEF PowerCut, ResetButton, Reboot
<1>9. ASSUME UNCHANGED board PROVE OnTransport'
  BY <1>9 DEF board
<1> QED
  BY <1>1, <1>2, <1>3, <1>4, <1>5, <1>6, <1>7, <1>8, <1>9
  DEF Next, Step, Environment, Render, AdminRegister, AdminCode, AdminRemove, vars

\* The server issues only tokens that were never issued before, and binds no other.
LEMMA Issued ==
    ASSUME TypeOK, Fresh # {}, NEW i \in Ids, Issue(NewToken, i)
    PROVE  /\ NewToken \in Tokens /\ NewToken \notin server.issued
           /\ server'.live = NewToken /\ server'.bound[NewToken] = i
           /\ server'.issued = server.issued \cup {NewToken}
           /\ \A t \in server.issued : server'.bound[t] = server.bound[t]
<1>1. NewToken \in Tokens /\ NewToken \notin server.issued
  BY DEF NewToken, Fresh
<1>2. server \in Servers
  BY DEF TypeOK
<1>3. server.issued \subseteq Tokens
  BY <1>2 DEF Servers
<1> QED
  BY <1>1, <1>2, <1>3 DEF Issue, Servers

\* What Bootstrapped and Unbootstrapped leave in the configuration.
LEMMA Bootstraps ==
    ASSUME cfg \in Configs, cyc \in Cycles
    PROVE  /\ \A t, i : Bootstrapped(t, i) => /\ cfg'.token = t /\ cfg'.id = i /\ pc' = "frame"
                                              /\ cfg'.url = cfg.url
           /\ \A b, v : Unbootstrapped(b, v) => /\ cfg'.token = cfg.token /\ cfg'.id = cfg.id
                                                /\ cfg'.url = cfg.url /\ pc' = "stop"
                                                /\ cyc'.dirty = cyc.dirty /\ cyc'.got = cyc.got
BY DEF Bootstrapped, Unbootstrapped, Adopted, Configs, Cycles

\* No step makes the device, or its flash, hold a token that was never issued.
LEMMA TokensStep == ASSUME TypeOK, Returns, TokensIssued, [Next]_vars PROVE TokensIssued'
<1> USE DEF TokensIssued
<1>t. cfg \in Configs /\ cyc \in Cycles /\ server \in Servers
  BY DEF TypeOK
<1>1. CASE Boot \/ Wake \/ Joined \/ NotJoined
  BY <1>1 DEF Boot, Wake, Joined, NotJoined, lasting, DefaultConfig, world
<1>2. CASE Register
  <2>1. flash' = flash
    BY <1>2 DEF Register, lasting
  <2>2. CASE /\ UNCHANGED server
             /\ \/ server.live # None /\ Bootstrapped(server.live, server.bound[server.live])
                \/ \E b, v : Unbootstrapped(b, v)
    BY <2>1, <2>2, <1>t, Bootstraps
  <2>3. CASE /\ Fresh # {}
             /\ \E i \in Ids : /\ Issue(NewToken, i)
                               /\ \/ Bootstrapped(NewToken, i)
                                  \/ \E b, v : Unbootstrapped(b, v)
    BY <2>1, <2>3, <1>t, Bootstraps, Issued
  <2> QED
    BY <1>2, <2>2, <2>3 DEF Register
<1>3. CASE Discover
  <2>1. \/ server.live # None /\ Bootstrapped(server.live, server.bound[server.live])
        \/ \E b, v : Unbootstrapped(b, v)
    BY <1>3 DEF Discover
  <2> QED
    BY <1>3, <1>t, <2>1, Bootstraps DEF Discover, lasting
<1>4. CASE GetFrame \/ PostStatus \/ FetchRetained
  <2>1. cfg'.token \in {cfg.token, None}
    BY <1>4, <1>t DEF GetFrame, PostStatus, FetchRetained, Configs
  <2> QED
    BY <1>4, <2>1 DEF GetFrame, PostStatus, FetchRetained, lasting
<1>5. CASE FetchFrame \/ WifiStop \/ Decide \/ Erase \/ Program \/ Tally \/ GiveUp \/ StayAwake
             \/ Again \/ Splash \/ OpenPortal \/ Abandoned
  BY <1>5 DEF FetchFrame, WifiStop, Decide, Erase, Program, Tally, GiveUp, StayAwake, Again,
              Splash, OpenPortal, Abandoned, lasting, world
<1>6. CASE PaintDone
  <2>1. cfg'.token = cfg.token
    BY <1>6, <1>t DEF PaintDone, Recorded, Configs
  <2> QED
    BY <1>6, <2>1 DEF PaintDone
<1>7. CASE Sleep \/ TimerWake \/ Answered \/ IdleTimeout \/ PowerCut \/ ResetButton
  BY <1>7 DEF Sleep, TimerWake, Answered, IdleTimeout, PowerCut, ResetButton, Reboot, RamLost,
              DefaultConfig, lasting, world
<1>8. ASSUME NEW f \in Forms, SaveForm(f) PROVE TokensIssued'
  <2>1. cfg'.token \in {cfg.token, None}
    BY <1>8, <1>t DEF SaveForm, Repaired, Configs
  <2> QED
    BY <1>8, <2>1 DEF SaveForm, lasting
<1>9. CASE AdminRegister
  BY <1>9, Issued DEF AdminRegister, board, lasting
<1>10. CASE AdminCode \/ AdminRemove
  BY <1>10, <1>t DEF AdminCode, AdminRemove, board, lasting, Servers
<1>11. ASSUME NEW f \in Frames \cup {None}, Render(f) PROVE TokensIssued'
  BY <1>11, <1>t DEF Render, board, lasting, Servers
<1>12. CASE UNCHANGED vars
  BY <1>12 DEF vars, board, lasting, world
<1> QED
  BY <1>1, <1>2, <1>3, <1>4, <1>5, <1>6, <1>7, <1>8, <1>9, <1>10, <1>11, <1>12
  DEF Next, Step, Environment

\* A reply "ok" to a request made with the device's token vouches for its id.
LEMMA OkVouches ==
    /\ Reply("ok", FrameStatus) => server.bound[cfg.token] = cfg.id
    /\ Reply("ok", IF Honours(cfg.token, cfg.id) THEN "ok" ELSE "denied")
          => server.bound[cfg.token] = cfg.id
BY DEF Reply, FrameStatus, Honours

\* No step makes a REST cycle save a token its server did not vouch for.
LEMMA VouchedStep ==
    ASSUME TypeOK, Returns, OnTransport, TokensIssued, VouchedBeforeSave, [Next]_vars
    PROVE  VouchedBeforeSave'
<1> USE DEF VouchedBeforeSave, Saving, OnRest
<1>t. cfg \in Configs /\ cyc \in Cycles /\ server \in Servers
  BY DEF TypeOK
<1>1. CASE Boot \/ Wake
  BY <1>1 DEF Boot, Wake, Returns
<1>2. CASE Joined \/ NotJoined
  <2>1. cyc'.dirty = FALSE /\ cyc'.got = FALSE
    BY <1>2 DEF Joined, NotJoined, Returns, FreshCycle
  <2> QED
    BY <1>2, <2>1 DEF Joined, NotJoined
<1>3. CASE Register
  <2>1. CASE /\ UNCHANGED server
             /\ \/ server.live # None /\ Bootstrapped(server.live, server.bound[server.live])
                \/ \E b, v : Unbootstrapped(b, v)
    BY <2>1, <1>3, <1>t, Bootstraps DEF Register, OnTransport
  <2>2. CASE /\ Fresh # {}
             /\ \E i \in Ids : /\ Issue(NewToken, i)
                               /\ \/ Bootstrapped(NewToken, i)
                                  \/ \E b, v : Unbootstrapped(b, v)
    BY <2>2, <1>3, <1>t, Bootstraps, Issued DEF Register, OnTransport
  <2> QED
    BY <1>3, <2>1, <2>2 DEF Register
<1>4. CASE Discover
  <2>1. \/ server.live # None /\ Bootstrapped(server.live, server.bound[server.live])
        \/ \E b, v : Unbootstrapped(b, v)
    BY <1>4 DEF Discover
  <2> QED
    BY <1>4, <1>t, <2>1, Bootstraps DEF Discover, OnTransport
<1>5. CASE GetFrame
  <2>1. PICK r \in Statuses :
          /\ Reply(r, FrameStatus)
          /\ cfg' = IF r \in Rejecting THEN [cfg EXCEPT !.token = None] ELSE cfg
          /\ cyc'.dirty = (cyc.dirty \/ r \in Rejecting) /\ cyc'.got = cyc.got
          /\ pc' = IF r = "ok" /\ panel THEN "fetch"
                   ELSE IF r \in Rejecting THEN "stop" ELSE "status"
    BY <1>5, <1>t DEF GetFrame, Cycles
  <2>2. CASE r \in Rejecting
    BY <1>5, <1>t, <2>1, <2>2 DEF GetFrame, Configs
  <2>3. CASE r \notin Rejecting
    BY <1>5, <2>1, <2>3, OkVouches DEF GetFrame
  <2> QED
    BY <2>2, <2>3
<1>6. CASE FetchFrame
  BY <1>6, <1>t DEF FetchFrame
<1>7. CASE PostStatus
  <2>1. PICK r \in Statuses, iv \in Intervals, np \in Polls :
          /\ Reply(r, IF Honours(cfg.token, cfg.id) THEN "ok" ELSE "denied")
          /\ LET newer == r = "ok" /\ iv \notin {Absent, "awake", cfg.sleep}
             IN /\ cyc' = [cyc EXCEPT !.reached = @ \/ r # "neterr",
                                      !.dirty = @ \/ newer \/ r \in Rejecting]
                /\ cfg' = [cfg EXCEPT
                             !.token = IF r \in Rejecting THEN None ELSE @,
                             !.sleep = IF r = "ok" /\ np # Absent THEN np
                                       ELSE IF newer THEN iv ELSE @]
    BY <1>7 DEF PostStatus
  <2>2. /\ cfg'.token = IF r \in Rejecting THEN None ELSE cfg.token
        /\ cfg'.id = cfg.id /\ cfg'.url = cfg.url
        /\ cyc'.got = cyc.got
        /\ r \notin Rejecting /\ r # "ok" => cyc'.dirty = cyc.dirty
    BY <1>t, <2>1 DEF Configs, Cycles
  <2>3. pc' = "stop" /\ pc = "status" /\ server' = server
    BY <1>7 DEF PostStatus
  <2> QED
    BY <2>1, <2>2, <2>3, OkVouches
<1>8. CASE FetchRetained
  <2>1. cfg'.url = cfg.url
    BY <1>8, <1>t DEF FetchRetained, Configs
  <2> QED
    BY <1>8, <2>1 DEF FetchRetained, OnTransport
<1>9. CASE WifiStop \/ Decide
  BY <1>9 DEF WifiStop, Decide, Finish, world, Returns
<1>10. CASE PaintDone
  <2>1. cfg'.token = cfg.token /\ cfg'.id = cfg.id /\ cfg'.url = cfg.url
    BY <1>10, <1>t DEF PaintDone, Recorded, Configs
  <2> QED
    BY <1>10, <2>1 DEF PaintDone, Finish
<1>11. CASE Erase \/ Program
  BY <1>11 DEF Erase, Program, world, Returns
<1>12. CASE Tally \/ GiveUp \/ Sleep \/ StayAwake \/ Again \/ TimerWake \/ Splash \/ OpenPortal
              \/ Answered \/ Abandoned \/ IdleTimeout \/ PowerCut \/ ResetButton
  BY <1>12 DEF Tally, GiveUp, Sleep, StayAwake, Again, TimerWake, Splash, OpenPortal, Answered,
               Abandoned, IdleTimeout, PowerCut, ResetButton, Reboot, RamLost, Returns
<1>13. ASSUME NEW f \in Forms, SaveForm(f) PROVE VouchedBeforeSave'
  BY <1>13 DEF SaveForm
<1>14. CASE AdminRegister
  <2>1. cfg.token # None => server'.bound[cfg.token] = server.bound[cfg.token]
    BY <1>14, Issued DEF AdminRegister, TokensIssued
  <2> QED
    BY <1>14, <2>1 DEF AdminRegister, board
<1>15. CASE AdminCode \/ AdminRemove
  BY <1>15, <1>t DEF AdminCode, AdminRemove, board, Servers
<1>16. ASSUME NEW f \in Frames \cup {None}, Render(f) PROVE VouchedBeforeSave'
  BY <1>16, <1>t DEF Render, board, Servers
<1>17. CASE UNCHANGED vars
  BY <1>17 DEF vars, board, world
<1> QED
  BY <1>1, <1>2, <1>3, <1>4, <1>5, <1>6, <1>7, <1>8, <1>9, <1>10, <1>11, <1>12, <1>13, <1>14,
     <1>15, <1>16, <1>17
  DEF Next, Step, Environment

\* What c and d agree on: the transport, the network and the tags.
Same(c, d) == c.url = d.url /\ c.wifi = d.wifi /\ c.etag = d.etag /\ c.hash = d.hash

\* A cycle changes neither the transport nor the network, and no tag before it paints.
LEMMA CycleKeeps ==
    ASSUME TypeOK, Register \/ Discover \/ GetFrame \/ PostStatus \/ FetchRetained
    PROVE  Same(cfg', cfg)
<1>1. cfg \in Configs
  BY DEF TypeOK
<1>2. CASE Register \/ Discover
  <2>1. \/ \E t, i : \E iv \in Intervals : cfg' = Adopted(t, i, iv)
        \/ \E v : cfg' = [cfg EXCEPT !.sleep = v]
    BY <1>2 DEF Register, Discover, Bootstrapped, Unbootstrapped
  <2> QED
    BY <1>1, <2>1 DEF Adopted, Configs, Same
<1>3. CASE GetFrame \/ PostStatus \/ FetchRetained
  BY <1>1, <1>3 DEF GetFrame, PostStatus, FetchRetained, Configs, Same
<1> QED
  BY <1>2, <1>3

\* Recording a painted frame changes neither the transport nor the network.
LEMMA PaintKeeps == ASSUME TypeOK, PaintDone PROVE cfg'.url = cfg.url /\ cfg'.wifi = cfg.wifi
BY DEF PaintDone, Recorded, TypeOK, Configs

\* No step lets the stored settings and those in use drift apart, save_form excepted.
LEMMA StoredStep ==
    ASSUME TypeOK, Returns, StoredIsLive, [Next]_vars
    PROVE  StoredIsLive'
<1> USE DEF StoredIsLive, Saving, RamLive
<1>1. CASE Boot \/ Wake \/ Joined \/ NotJoined
  BY <1>1 DEF Boot, Wake, Joined, NotJoined, lasting, Returns
<1>2. CASE Register \/ Discover \/ GetFrame \/ PostStatus \/ FetchRetained
  <2>1. pc' \in {"frame", "stop", "status", "fetch"} /\ flash' = flash
    BY <1>2 DEF Register, Discover, GetFrame, PostStatus, FetchRetained, Bootstrapped,
                Unbootstrapped, lasting
  <2>2. pc \in {"bootstrap", "frame", "status", "retained"}
    BY <1>2 DEF Register, Discover, GetFrame, PostStatus, FetchRetained
  <2> QED
    BY <1>2, <2>1, <2>2, CycleKeeps DEF Same
<1>3. CASE FetchFrame \/ WifiStop \/ Decide
  BY <1>3 DEF FetchFrame, WifiStop, Decide, Finish, lasting, Returns
<1>4. CASE PaintDone
  BY <1>4, PaintKeeps DEF PaintDone, Finish
<1>5. CASE Erase \/ Program
  BY <1>5, BlankAssumption DEF Erase, Program, Returns, TypeOK
<1>6. CASE Tally \/ GiveUp \/ Sleep \/ StayAwake \/ Again \/ TimerWake
  BY <1>6 DEF Tally, GiveUp, Sleep, StayAwake, Again, TimerWake, Reboot, lasting
<1>7. CASE Splash \/ OpenPortal \/ Answered \/ Abandoned \/ IdleTimeout
  BY <1>7 DEF Splash, OpenPortal, Answered, Abandoned, IdleTimeout, Reboot, lasting, Returns
<1>8. ASSUME NEW f \in Forms, SaveForm(f) PROVE StoredIsLive'
  BY <1>8 DEF SaveForm
<1>9. CASE PowerCut \/ ResetButton
  BY <1>9 DEF PowerCut, ResetButton, Reboot
<1>10. ASSUME UNCHANGED board, UNCHANGED lasting PROVE StoredIsLive'
  BY <1>10 DEF board, lasting
<1> QED
  BY <1>1, <1>2, <1>3, <1>4, <1>5, <1>6, <1>7, <1>8, <1>9, <1>10
  DEF Next, Step, Environment, Render, AdminRegister, AdminCode, AdminRemove, vars

\* A frame that is recorded is named by the record, where the record can name it.
LEMMA RecordNames ==
    ASSUME TypeOK, PaintDone, screen' \in Frames, screen' = cyc.want, cyc.got
    PROVE  /\ Names(cfg)'
           /\ pc' # "erase" => cfg.url # None /\ screen' \in Tagless
<1>1. cfg \in Configs /\ cyc.want \in Frames
  BY DEF TypeOK
<1> QED
  BY <1>1 DEF PaintDone, Recorded, Names, LastTag, OnRest, Finish, Configs

\* No step parts the panel from its record, resets and the portal excepted.
LEMMA TagsStep ==
    ASSUME TypeOK, Returns, StoredIsLive, TagsNameScreen, [Next]_vars
    PROVE  TagsNameScreen'
<1> USE DEF TagsNameScreen, Saving, RamLive
<1>1. CASE Boot
  BY <1>1 DEF Boot, lasting, Names, LastTag
<1>2. CASE Wake \/ Joined \/ NotJoined
  BY <1>2 DEF Wake, Joined, NotJoined, lasting, world, Names, LastTag
<1>3. CASE Register \/ Discover \/ GetFrame \/ PostStatus \/ FetchRetained
  <2>1. pc' \in {"frame", "stop", "status", "fetch"} /\ UNCHANGED <<flash, screen, doubt>>
    BY <1>3 DEF Register, Discover, GetFrame, PostStatus, FetchRetained, Bootstrapped,
                Unbootstrapped, lasting
  <2>2. pc \in {"bootstrap", "frame", "status", "retained"}
    BY <1>3 DEF Register, Discover, GetFrame, PostStatus, FetchRetained
  <2> QED
    BY <1>3, <2>1, <2>2, CycleKeeps, SMTT(20) DEF Same, Names, LastTag
<1>4. CASE FetchFrame \/ WifiStop
  BY <1>4 DEF FetchFrame, WifiStop, lasting, world, Returns, Names, LastTag
<1>5. CASE Decide
  <2>1. "torn" \notin Frames
    BY FramesAssumption
  <2> QED
    BY <1>5, <2>1 DEF Decide, Finish, world, Names, LastTag
<1>6. CASE PaintDone
  <2>1. "torn" \notin Frames /\ "stripes" \notin Frames /\ None \notin Frames
    BY FramesAssumption
  <2>2. pc = "painting" /\ screen = "torn" /\ flash # Blank /\ flash.url = cfg.url
        /\ flash' = flash
    BY <1>6 DEF PaintDone, StoredIsLive
  <2>3. pc' \in {"erase", "tally"} /\ ret' = "tally"
    BY <1>6 DEF PaintDone, Finish
  <2>4. CASE screen' \in Frames
    <3>1. cyc.got /\ screen' = cyc.want
      BY <1>6, <2>1, <2>2, <2>4 DEF PaintDone
    <3>2. Names(cfg)' /\ (pc' # "erase" => cfg.url # None /\ screen' \in Tagless)
      BY <1>6, <2>4, <3>1, RecordNames
    <3> QED
      BY <2>2, <2>3, <3>2 DEF Names
  <2>5. CASE screen' \notin Frames
    BY <2>5
  <2> QED
    BY <2>4, <2>5
<1>7. CASE Erase \/ Program
  BY <1>7, BlankAssumption DEF Erase, Program, Returns, TypeOK, world, Names, LastTag
<1>8. CASE Tally \/ GiveUp \/ Sleep \/ StayAwake \/ Again \/ TimerWake
  BY <1>8 DEF Tally, GiveUp, Sleep, StayAwake, Again, TimerWake, Reboot, lasting, world, Names,
              LastTag
<1>9. CASE Splash
  <2>1. "torn" \notin Frames /\ "splash" \notin Frames
    BY FramesAssumption
  <2> QED
    BY <1>9, <2>1 DEF Splash, Names, LastTag
<1>10. CASE OpenPortal \/ Answered \/ Abandoned \/ IdleTimeout
  BY <1>10 DEF OpenPortal, Answered, Abandoned, IdleTimeout, Reboot, lasting, world, Returns,
               Names, LastTag
<1>11. ASSUME NEW f \in Forms, SaveForm(f) PROVE TagsNameScreen'
  BY <1>11 DEF SaveForm
<1>12. CASE PowerCut
  <2>1. "torn" \notin Frames
    BY FramesAssumption
  <2> QED
    BY <1>12, <2>1 DEF PowerCut, Reboot, Names, LastTag
<1>13. CASE ResetButton
  BY <1>13 DEF ResetButton, Reboot, world, Names, LastTag
<1>14. ASSUME UNCHANGED board, UNCHANGED lasting, UNCHANGED doubt PROVE TagsNameScreen'
  BY <1>14 DEF board, lasting, Names, LastTag
<1> QED
  BY <1>1, <1>2, <1>3, <1>4, <1>5, <1>6, <1>7, <1>8, <1>9, <1>10, <1>11, <1>12, <1>13, <1>14
  DEF Next, Step, Environment, Render, AdminRegister, AdminCode, AdminRemove, vars, world

\* No step takes the count of misses beyond MaxFails and the cuts.
LEMMA CountedStep ==
    ASSUME TypeOK, Returns, Counted, [Next]_vars
    PROVE  Counted'
<1> USE DEF Counted
<1>t. /\ MaxFails \in Nat \ {0} /\ MaxCuts \in Nat /\ MaxFails + MaxCuts < Wrap
      /\ cuts \in 0..MaxCuts
      /\ scratch.fails \in Nat
      /\ Wrap \in Nat
  <2>1. Wrap \in Nat
    BY DEF Wrap
  <2>2. scratch.fails \in Words
    BY ScratchTyped DEF TypeOK
  <2> QED
    BY <2>1, <2>2, BoundsAssumption DEF TypeOK, Words
<1>f. scratch \in [magic: BOOLEAN, fails: Words]
  BY DEF TypeOK
<1>1. CASE Boot
  BY <1>1 DEF Boot, lasting
<1>2. CASE Wake
  <2>1. scratch'.fails \in {0, scratch.fails}
    BY <1>2, <1>f DEF Wake
  <2> QED
    BY <1>2, <1>t, <2>1 DEF Wake, world
<1>3. CASE Joined \/ NotJoined
  BY <1>3 DEF Joined, NotJoined, lasting, None
<1>4. CASE Register \/ Discover \/ GetFrame \/ PostStatus \/ FetchRetained
  <2>1. pc' \in {"frame", "stop", "status", "fetch"} /\ UNCHANGED <<scratch, cuts>>
    BY <1>4 DEF Register, Discover, GetFrame, PostStatus, FetchRetained, Bootstrapped,
                Unbootstrapped, lasting
  <2>2. pc \in {"bootstrap", "frame", "status", "retained"}
    BY <1>4 DEF Register, Discover, GetFrame, PostStatus, FetchRetained
  <2> QED
    BY <1>4, <2>1, <2>2, CycleKeeps, SMTT(20) DEF Same
<1>5. CASE FetchFrame \/ WifiStop \/ Decide
  BY <1>5 DEF FetchFrame, WifiStop, Decide, Finish, lasting, world, Returns
<1>6. CASE PaintDone \/ Erase \/ Program
  BY <1>6 DEF PaintDone, Erase, Program, Finish, world, Returns, Saving
<1>7. CASE Tally
  <2>1. scratch'.fails = (IF Succeeded THEN 0 ELSE (scratch.fails + 1) % Wrap)
    BY <1>7, <1>f DEF Tally
  <2>2. scratch.fails + 1 <= MaxFails + cuts
    BY <1>7, <1>t DEF Tally
  <2>3. (scratch.fails + 1) % Wrap = scratch.fails + 1
    BY <1>t, <2>2
  <2> QED
    BY <1>7, <1>t, <2>1, <2>2, <2>3 DEF Tally, world
<1>8. CASE GiveUp
  <2>1. scratch'.fails = 0
    BY <1>8, <1>f DEF GiveUp
  <2> QED
    BY <1>8, <1>t, <2>1 DEF GiveUp, world
<1>9. CASE Sleep \/ IdleTimeout
  <2>1. scratch'.fails = scratch.fails
    BY <1>9, <1>f DEF Sleep, IdleTimeout
  <2> QED
    BY <1>9, <2>1 DEF Sleep, IdleTimeout, world
<1>10. CASE StayAwake \/ Again \/ TimerWake \/ Splash \/ OpenPortal \/ Answered \/ Abandoned
  BY <1>10 DEF StayAwake, Again, TimerWake, Splash, OpenPortal, Answered, Abandoned, Reboot,
               lasting, world, Returns
<1>11. ASSUME NEW f \in Forms, SaveForm(f) PROVE Counted'
  BY <1>11 DEF SaveForm, lasting
<1>12. CASE PowerCut \/ ResetButton
  <2>1. scratch'.fails \in {0, scratch.fails} /\ pc' = "boot"
    BY <1>12 DEF PowerCut, ResetButton, ScratchAfterReset, Reboot
  <2>2. CASE PowerCut
    BY <1>t, <2>1, <2>2 DEF PowerCut
  <2>3. CASE ResetButton
    BY <1>t, <2>1, <2>3 DEF ResetButton, world
  <2> QED
    BY <1>12, <2>2, <2>3
<1>13. ASSUME UNCHANGED board, UNCHANGED lasting, UNCHANGED cuts PROVE Counted'
  BY <1>13 DEF board, lasting
<1> QED
  BY <1>1, <1>2, <1>3, <1>4, <1>5, <1>6, <1>7, <1>8, <1>9, <1>10, <1>11, <1>12, <1>13
  DEF Next, Step, Environment, Render, AdminRegister, AdminCode, AdminRemove, vars, world

\* The strengthened invariant holds from Init on.
THEOREM Invariance == Spec => []IInv
<1>1. Init => Returns /\ OnTransport /\ RadioDownBeforeSave /\ TokensIssued
                /\ VouchedBeforeSave /\ StoredIsLive /\ TagsNameScreen /\ Counted
  <2> SUFFICES ASSUME Init
               PROVE  Returns /\ OnTransport /\ RadioDownBeforeSave /\ TokensIssued
                        /\ VouchedBeforeSave /\ StoredIsLive /\ TagsNameScreen /\ Counted
    OBVIOUS
  <2>1. screen \notin Frames
    BY FramesAssumption DEF Init
  <2> QED
    BY <2>1, BoundsAssumption DEF Init, Counted, DefaultConfig, Returns, OnTransport,
                RadioDownBeforeSave, TokensIssued, VouchedBeforeSave, StoredIsLive,
                TagsNameScreen, Saving, RamLive
<1>2. TypeOK /\ Returns /\ OnTransport /\ RadioDownBeforeSave /\ TokensIssued
        /\ VouchedBeforeSave /\ StoredIsLive /\ TagsNameScreen /\ Counted /\ [Next]_vars
      => (Returns /\ OnTransport /\ RadioDownBeforeSave /\ TokensIssued
            /\ VouchedBeforeSave /\ StoredIsLive /\ TagsNameScreen /\ Counted)'
  BY ReturnsStep, TransportStep, RadioStep, TokensStep, VouchedStep, StoredStep,
     TagsStep, CountedStep
<1> QED
  BY <1>1, <1>2, TypeCorrect, PTL DEF Spec, IInv

\* Every save by main or by a cycle runs with the radio down.
THEOREM SavesAreQuiet == Spec => []RadioDownForSave
<1>1. IInv => RadioDownForSave
  BY DEF IInv, RadioDownBeforeSave, RadioDownForSave
<1> QED
  BY <1>1, Invariance, PTL

\* No REST cycle saves a token beside an id the server did not bind it to.
THEOREM SavedIdentityIsVouched == Spec => []VouchedIdentity
<1>1. IInv => VouchedIdentity
  BY DEF IInv, VouchedBeforeSave, VouchedIdentity
<1> QED
  BY <1>1, Invariance, PTL

\* The stored tag names the frame on the panel.
THEOREM PaintIsRecorded == Spec => []PaintedIsRecorded
<1>1. IInv => PaintedIsRecorded
  BY DEF IInv, TagsNameScreen, Names, PaintedIsRecorded
<1> QED
  BY <1>1, Invariance, PTL

-----------------------------------------------------------------------------
(* The refinement of Lifecycle. *)

LifeStep == Life!Next \/ UNCHANGED <<Mode, HasCredentials, cyc.reached, CountedMisses>>

\* Inside the cycle: the mode is "work", and all that shows is whether the server answered.
LEMMA CycleRefines ==
    ASSUME IInv, TypeOK', Joined \/ NotJoined \/ Register \/ Discover \/ GetFrame \/ FetchFrame
                   \/ PostStatus \/ FetchRetained \/ WifiStop \/ Decide \/ PaintDone
    PROVE  LifeStep
<1>t. cfg \in Configs /\ cyc \in Cycles /\ cyc' \in Cycles
  BY SMTT(20) DEF IInv, TypeOK
<1>1. pc \in {"connect", "bootstrap", "frame", "fetch", "status", "retained", "stop", "decide",
              "painting"}
  BY DEF Joined, NotJoined, Register, Discover, GetFrame, FetchFrame, PostStatus, FetchRetained,
         WifiStop, Decide, PaintDone
<1>2. \/ pc' \in {"tally", "decide", "bootstrap", "frame", "fetch", "status", "retained", "stop",
                  "painting"}
      \/ pc' = "erase" /\ ret' = "tally"
  BY DEF Joined, NotJoined, Register, Discover, GetFrame, FetchFrame, PostStatus, FetchRetained,
         WifiStop, Decide, PaintDone, Finish, Bootstrapped, Unbootstrapped, IInv, Returns
<1>3. Mode = "work" /\ Mode' = "work"
  BY <1>1, <1>2 DEF Mode, Booting, InSetup, Saving
<1>4. scratch' = scratch
  BY DEF Joined, NotJoined, Register, Discover, GetFrame, FetchFrame, PostStatus, FetchRetained,
         WifiStop, Decide, PaintDone, lasting, world
<1>5. CountedMisses' = CountedMisses
  BY <1>1, <1>2, <1>4 DEF CountedMisses, Booting, Saving
<1>6. cfg'.wifi = cfg.wifi
  <2>1. CASE Register \/ Discover \/ GetFrame \/ PostStatus \/ FetchRetained
    BY <2>1, CycleKeeps DEF IInv, Same
  <2>2. CASE PaintDone
    BY <2>2, PaintKeeps DEF IInv
  <2>3. CASE Joined \/ NotJoined \/ FetchFrame \/ WifiStop \/ Decide
    BY <2>3 DEF Joined, NotJoined, FetchFrame, WifiStop, Decide
  <2> QED
    BY <2>1, <2>2, <2>3
<1>7. HasCredentials' = HasCredentials
  BY <1>1, <1>2, <1>6 DEF HasCredentials
<1>8. CASE cyc'.reached = cyc.reached
  BY <1>3, <1>5, <1>7, <1>8 DEF LifeStep
<1>9. CASE cyc'.reached # cyc.reached
  <2>1. cyc'.reached = TRUE
    <3> USE DEF Cycles
    <3>1. CASE Joined \/ NotJoined \/ Register \/ Discover
      <4>1. cyc.reached = FALSE
        <5>1. CASE Joined \/ NotJoined
          BY <5>1 DEF IInv, Returns, FreshCycle, Joined, NotJoined
        <5>2. CASE Register \/ Discover
          <6>1. ~cyc.reached /\ cyc.reached \in BOOLEAN
            BY <5>2, <1>t DEF IInv, OnTransport, Register, Discover
          <6> QED
            BY <6>1
        <5> QED
          BY <3>1, <5>1, <5>2
      <4> QED
        BY <4>1, <1>t, <1>9
    <3>2. CASE GetFrame \/ PostStatus
      BY <3>2, <1>t, <1>9 DEF GetFrame, PostStatus, Cycles
    <3>3. CASE FetchFrame \/ FetchRetained \/ WifiStop \/ Decide \/ PaintDone
      BY <3>3, <1>t, <1>9 DEF FetchFrame, FetchRetained, WifiStop, Decide, PaintDone, Cycles
    <3> QED
      BY <3>1, <3>2, <3>3
  <2>2. HasCredentials
    <3>1. CASE pc = "connect"
      BY <3>1, <1>9 DEF Joined, NotJoined, Register, Discover, GetFrame, FetchFrame, PostStatus,
                        FetchRetained, WifiStop, Decide, PaintDone, HasCredentials, None
    <3>2. CASE pc \in {"bootstrap", "frame", "fetch", "status", "retained"}
      BY <3>2, SMTT(20) DEF IInv, Counted, HasCredentials
    <3>3. CASE pc \in {"stop", "decide", "painting"}
      BY <3>3, <1>9 DEF Joined, NotJoined, Register, Discover, GetFrame, FetchFrame, PostStatus,
                        FetchRetained, WifiStop, Decide, PaintDone
    <3> QED
      BY <1>1, <3>1, <3>2, <3>3
  <2> QED
    BY <1>3, <1>5, <1>7, <2>1, <2>2 DEF LifeStep, Life!Next, Life!Hear
<1> QED
  BY <1>8, <1>9

\* The end of a cycle.
LEMMA TallyRefines == ASSUME IInv, Tally \/ GiveUp PROVE LifeStep
<1>t. /\ MaxFails \in Nat \ {0} /\ MaxCuts \in Nat /\ MaxFails + MaxCuts < Wrap
      /\ cuts \in 0..MaxCuts /\ scratch.fails \in Nat /\ Wrap \in Nat
      /\ scratch \in [magic: BOOLEAN, fails: Words] /\ cyc \in Cycles
  <2>1. Wrap \in Nat
    BY DEF Wrap
  <2>2. scratch.fails \in Words /\ scratch \in [magic: BOOLEAN, fails: Words] /\ cyc \in Cycles
    BY ScratchTyped DEF TypeOK, IInv
  <2> QED
    BY <2>1, <2>2, BoundsAssumption DEF TypeOK, Words, IInv
<1>1. HasCredentials' = HasCredentials
  BY DEF HasCredentials, Tally, GiveUp
<1>2. CountedMisses = scratch.fails /\ CountedMisses' = scratch'.fails
  BY DEF CountedMisses, Booting, Saving, Tally, GiveUp
<1>3. CASE Tally
  <2>1. scratch'.fails = (IF Succeeded THEN 0 ELSE (scratch.fails + 1) % Wrap)
    BY <1>3, <1>t DEF Tally
  <2>2. (scratch.fails + 1) % Wrap = scratch.fails + 1
    BY <1>3, <1>t DEF Tally, IInv, Counted
  <2>3. cyc'.reached = FALSE
    BY <1>3 DEF Tally, FreshCycle
  <2>4. Mode = "work"
    BY <1>3 DEF Tally, Mode, Booting, InSetup, Saving
  <2>5. Mode' = IF scratch'.fails >= MaxFails THEN "lost" ELSE "work"
    BY <1>3, <1>t, <2>1 DEF Tally, Mode, Booting, InSetup, Saving
  <2>6. CASE Succeeded
    <3>1. scratch'.fails = 0
      BY <2>1, <2>6
    <3>2. Mode' = "work"
      BY <1>t, <2>5, <3>1
    <3>3. Life!Reach
      BY <1>1, <1>2, <2>3, <2>4, <2>6, <3>1, <3>2 DEF Life!Reach, Succeeded
    <3> QED
      BY <3>3 DEF LifeStep, Life!Next
  <2>7. CASE ~Succeeded
    <3>1. scratch'.fails = scratch.fails + 1
      BY <2>1, <2>2, <2>7
    <3>2. cyc.reached = FALSE
      BY <1>t, <2>7 DEF Succeeded, Cycles
    <3>3. Life!Miss
      BY <1>1, <1>2, <2>3, <2>4, <2>5, <3>1, <3>2 DEF Life!Miss
    <3> QED
      BY <3>3 DEF LifeStep, Life!Next
  <2> QED
    BY <2>6, <2>7
<1>4. CASE GiveUp
  <2>1. scratch'.fails = 0 /\ cyc' = cyc
    BY <1>4, <1>t DEF GiveUp
  <2>2. Mode = "lost" /\ Mode' = "setup"
    BY <1>4 DEF GiveUp, Mode, Booting, InSetup, Saving
  <2>3. Life!GiveUp
    BY <1>1, <1>2, <2>1, <2>2 DEF Life!GiveUp
  <2> QED
    BY <2>3 DEF LifeStep, Life!Next
<1> QED
  BY <1>3, <1>4

\* The alarm, the reset button, a power cut, the portal's reboot.
LEMMA RestartRefines ==
    ASSUME IInv, TimerWake \/ PowerCut \/ ResetButton \/ Answered
    PROVE  LifeStep
<1>t. scratch \in [magic: BOOLEAN, fails: Words]
  BY DEF IInv, TypeOK
<1>1. pc' = "boot" /\ cyc' = FreshCycle /\ flash' = flash
  BY DEF TimerWake, PowerCut, ResetButton, Answered, Reboot, RamLost, lasting
<1>2. Mode' = "boot" /\ cyc'.reached = FALSE
  BY <1>1 DEF Mode, Booting, FreshCycle
<1>3. scratch' \in {scratch, [magic |-> FALSE, fails |-> 0]}
  BY DEF TimerWake, PowerCut, ResetButton, Answered, ScratchAfterReset, lasting
<1>4. CountedMisses' \in {0, CountedMisses}
  BY <1>1, <1>3 DEF CountedMisses, Booting
<1>5. HasCredentials' = (flash # Blank /\ flash.wifi # None)
  BY <1>1 DEF HasCredentials
<1>6. HasCredentials' \in BOOLEAN
  BY <1>5
<1>7. Mode # "setup" => HasCredentials' \in {HasCredentials, FALSE}
  <2> SUFFICES ASSUME Mode # "setup", HasCredentials' PROVE HasCredentials
    BY <1>6 DEF HasCredentials
  <2>1. flash # Blank /\ flash.wifi # None
    BY <1>5
  <2>2. CASE pc \in {"boot", "asleep", "off"}
    BY <2>1, <2>2 DEF HasCredentials
  <2>3. CASE pc \notin {"boot", "asleep", "off"}
    <3>1. Saving => ret = "tally"
      BY <2>1 DEF Saving, IInv, Returns, StoredIsLive, Mode, InSetup, Booting
    <3> QED
      BY <2>1, <2>3, <3>1 DEF IInv, StoredIsLive, RamLive, HasCredentials
  <2> QED
    BY <2>2, <2>3
<1> QED
  BY <1>2, <1>4, <1>6, <1>7 DEF LifeStep, Life!Next, Life!Restart

\* Boot, setup and sleep.
LEMMA SetupRefines ==
    ASSUME IInv, \/ Boot \/ Wake \/ Erase \/ Program \/ Sleep \/ StayAwake \/ Again
                 \/ Splash \/ OpenPortal \/ Abandoned \/ IdleTimeout
                 \/ \E f \in Forms : SaveForm(f)
    PROVE  LifeStep
<1> USE DEF LifeStep, Life!Next, Mode, Booting, InSetup, Saving
<1>t. scratch \in [magic: BOOLEAN, fails: Words]
  BY DEF IInv, TypeOK
<1>1. CASE Boot
  <2>1. HasCredentials' = HasCredentials
    BY <1>1 DEF Boot, HasCredentials, DefaultConfig
  <2> QED
    BY <1>1, <2>1 DEF Boot, lasting, CountedMisses, IInv, Returns
<1>2. CASE Wake
  <2>1. CountedMisses' = CountedMisses
    BY <1>2, <1>t DEF Wake, CountedMisses, ColdStart
  <2>2. HasCredentials = (cfg.wifi # None) /\ HasCredentials' = HasCredentials
    BY <1>2 DEF Wake, HasCredentials
  <2>3. cyc' = cyc /\ Mode = "boot" /\ Mode' = IF HasCredentials THEN "work" ELSE "setup"
    BY <1>2, <2>2 DEF Wake
  <2> QED
    BY <2>1, <2>2, <2>3 DEF Life!Start
<1>3. CASE Erase \/ Program
  BY <1>3 DEF Erase, Program, HasCredentials, CountedMisses, world, IInv, Returns
<1>4. CASE Sleep
  <2>1. CountedMisses' = CountedMisses
    BY <1>4, <1>t DEF Sleep, CountedMisses
  <2>2. cyc'.reached = FALSE /\ Mode' = "boot"
    BY <1>4 DEF Sleep, RamLost, FreshCycle
  <2>3. HasCredentials' = HasCredentials
    BY <1>4 DEF Sleep, HasCredentials, IInv, StoredIsLive, RamLive
  <2> QED
    BY <2>1, <2>2, <2>3 DEF Life!Restart, HasCredentials
<1>5. CASE StayAwake \/ Again
  BY <1>5 DEF StayAwake, Again, HasCredentials, CountedMisses, lasting
<1>6. CASE Splash
  BY <1>6 DEF Splash, HasCredentials, CountedMisses
<1>7. CASE OpenPortal
  BY <1>7 DEF OpenPortal, HasCredentials, CountedMisses, lasting, IInv, Returns, Life!Leave
<1>8. CASE Abandoned
  BY <1>8 DEF Abandoned, HasCredentials, CountedMisses, lasting
<1>9. CASE IdleTimeout
  <2>1. CountedMisses' = CountedMisses
    BY <1>9, <1>t DEF IdleTimeout, CountedMisses
  <2>2. cyc' = cyc /\ Mode = "setup" /\ Mode' = "off"
    BY <1>9 DEF IdleTimeout, RamLost, IInv, Returns
  <2>3. HasCredentials' = HasCredentials
    BY <1>9 DEF IdleTimeout, HasCredentials, IInv, StoredIsLive, RamLive
  <2> QED
    BY <2>1, <2>2, <2>3 DEF Life!IdleOff
<1>10. ASSUME NEW f \in Forms, SaveForm(f) PROVE LifeStep
  BY <1>10 DEF SaveForm, HasCredentials, CountedMisses, lasting, Life!Submit
<1> QED
  BY <1>1, <1>2, <1>3, <1>4, <1>5, <1>6, <1>7, <1>8, <1>9, <1>10

\* The firmware, whatever the interleaving, keeps the promise of Lifecycle.
THEOREM Refinement == Spec => ImplementsLifecycle
<1>1. Init => Life!Init
  BY DEF Init, Life!Init, Mode, Booting, HasCredentials, CountedMisses, FreshCycle
<1>2. IInv /\ IInv' /\ [Next]_vars => [Life!Next]_(Life!vars)
  <2> SUFFICES ASSUME IInv, IInv', [Next]_vars PROVE LifeStep
    BY DEF LifeStep, Life!vars
  <2>1. CASE Joined \/ NotJoined \/ Register \/ Discover \/ GetFrame \/ FetchFrame
               \/ PostStatus \/ FetchRetained \/ WifiStop \/ Decide \/ PaintDone
    BY <2>1, CycleRefines DEF IInv
  <2>2. CASE Tally \/ GiveUp
    BY <2>2, TallyRefines
  <2>3. CASE TimerWake \/ PowerCut \/ ResetButton \/ Answered
    BY <2>3, RestartRefines
  <2>4. CASE \/ Boot \/ Wake \/ Erase \/ Program \/ Sleep \/ StayAwake \/ Again
             \/ Splash \/ OpenPortal \/ Abandoned \/ IdleTimeout
             \/ \E f \in Forms : SaveForm(f)
    BY <2>4, SetupRefines
  <2>5. ASSUME UNCHANGED board, UNCHANGED lasting PROVE LifeStep
    BY <2>5 DEF LifeStep, board, lasting, Mode, Booting, InSetup, Saving, HasCredentials,
                CountedMisses
  <2> QED
    BY <2>1, <2>2, <2>3, <2>4, <2>5
    DEF Next, Step, Environment, Render, AdminRegister, AdminCode, AdminRemove, vars
<1> QED
  BY <1>1, <1>2, Invariance, PTL DEF Spec, ImplementsLifecycle, Life!Spec
=============================================================================
