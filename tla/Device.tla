------------------------------- MODULE Device -------------------------------
(***************************************************************************)
(* The firmware's life as src/main.c runs it: boot, wake classification,   *)
(* one cycle over REST or MQTT, the paint decision, the save, the count of *)
(* missed cycles with its fallback to the setup portal, and deep sleep.    *)
(* Around it: the server and its admin, the user at the portal, lost       *)
(* requests and replies, e-paper controllers that time out, and resets and *)
(* power cuts at any step.                                                 *)
(*                                                                         *)
(* pc is the place in main() / run_cycle() / do_cycle*() / portal_run().   *)
(* A frame stands for its ETag, for its URL and that URL's SHA-256, and    *)
(* for its pixels; those of Tagless are served without an ETag.            *)
(* An interval keeps only where it came from: "awake" is any value <= 0.   *)
(*                                                                         *)
(* Bounds: MaxFaults transient faults, MaxCuts resets in mid-run, no more  *)
(* than MaxMishaps of both; the server issues each of Tokens once.         *)
(***************************************************************************)
EXTENDS Naturals

CONSTANTS Frames, Tagless,     \* what the server can render
          Tokens,              \* bearer tokens it can issue
          Ids, DefaultId,      \* device ids; "pico_" + board id
          Forms,               \* what users submit at the portal
          Intervals, Polls,    \* sleep_interval_s and next_poll_s the server may send
          MaxFails,            \* MAX_CONNECT_FAILS
          MaxFaults, MaxCuts, MaxMishaps,
          Blank                \* no valid image in the config sector

None   == "none"     \* an empty string field; nothing
Absent == "absent"   \* a key the response lacks; a form field left alone

SleepClasses == {"awake", "default", "interval", "poll", "backoff"}
Places == {"boot", "wake", "connect", "bootstrap", "frame", "retained", "fetch", "status",
           "stop", "decide", "painting", "erase", "program", "tally", "giveup", "rest",
           "pause", "asleep", "splash", "portal", "serving", "respond", "off"}

\* What the portal's fields can be left as, and what a user can type into them.
FormFields == [ssid: {Absent, None, "good", "bad"}, url: {Absent, None, "good", "dead", "alien"},
               uri: {Absent, None, "good", "bad"}, id: Ids \cup {Absent},
               code: {None, "right", "wrong"}]

ASSUME FramesAssumption ==
    Tagless \subseteq Frames /\ Frames \cap {None, "stripes", "splash", "torn"} = {}
ASSUME IdentityAssumption ==
    DefaultId \in Ids /\ None \notin Tokens /\ Absent \notin Ids
ASSUME InputsAssumption ==
    /\ Forms \subseteq FormFields
    /\ Intervals \subseteq {Absent, "awake", "interval"}
    /\ Polls \subseteq {Absent, "interval", "poll"}
\* failcount keeps 16 bits.
Wrap  == 65536
Words == 0..(Wrap - 1)

ASSUME BoundsAssumption ==
    /\ MaxFails \in Nat \ {0} /\ MaxFaults \in Nat /\ MaxCuts \in Nat /\ MaxMishaps \in Nat
    /\ MaxFails + MaxCuts < Wrap

VARIABLES
    pc,       \* where the program is
    ret,      \* where the call in progress (config_save, portal_run, wifi_stop) returns to
    looping,  \* main's while (true): the awake loop
    panel,    \* a driver was found for the EEPROM's variant this boot
    cfg,      \* s_cfg, the RAM copy of the configuration
    cyc,      \* locals of do_cycle / do_cycle_rest
    radio,    \* cyw43: "down", "sta", "ap"
    flash,    \* the config sector: an image or Blank
    scratch,  \* always-on POWMAN words: wake magic, failure count
    screen,   \* what the e-paper shows
    server,   \* the Tesserae server's records of this device
    faults, cuts,
    doubt     \* history: a reset or a portal save came between a paint and its record

board   == <<pc, ret, looping, panel, cfg, cyc, radio>>
lasting == <<flash, scratch, screen>>
world   == <<server, faults, cuts, doubt>>
vars    == <<board, lasting, world>>

Configs == [wifi: {None, "good", "bad"},
            url: {None, "good", "dead", "alien"},   \* server_url
            uri: {None, "good", "bad"},             \* mqtt_uri
            id: Ids, token: Tokens \cup {None}, code: {None, "right", "wrong"},
            etag: Frames \cup {None}, hash: Frames \cup {None},
            sleep: SleepClasses]

ASSUME BlankAssumption == Blank \notin Configs

DefaultConfig == [wifi |-> None, url |-> None, uri |-> None, id |-> DefaultId,
                  token |-> None, code |-> None, etag |-> None, hash |-> None,
                  sleep |-> "default"]

Cycles == [skip: BOOLEAN, dirty: BOOLEAN, reached: BOOLEAN,
           want: Frames \cup {None},    \* the frame the server named
           got: BOOLEAN]                \* it was downloaded, whole

FreshCycle == [skip |-> FALSE, dirty |-> FALSE, reached |-> FALSE, want |-> None, got |-> FALSE]

Servers == [live: Tokens \cup {None},   \* the token it honours
            bound: [Tokens -> Ids],     \* the id each token goes with
            issued: SUBSET Tokens,
            coded: BOOLEAN,             \* it has an unspent pairing code for this device
            frame: Frames \cup {None}]

OnRest == cfg.url # None                  \* config_has_server

Init == /\ pc = "boot" /\ ret = "wake" /\ looping = FALSE /\ panel = FALSE
        /\ cfg = DefaultConfig /\ cyc = FreshCycle /\ radio = "down"
        /\ flash = Blank
        /\ scratch = [magic |-> FALSE, fails |-> 0]
        /\ screen = None
        /\ server = [live |-> None, bound |-> [t \in Tokens |-> DefaultId], issued |-> {},
                     coded |-> FALSE, frame |-> None]
        /\ faults = 0 /\ cuts = 0 /\ doubt = FALSE

\* A transient fault of the network, the radio or the display.
Mishap == faults + cuts < MaxMishaps
Fault == /\ faults < MaxFaults /\ Mishap
         /\ faults' = faults + 1
NoFault == UNCHANGED faults

-----------------------------------------------------------------------------
(* The server, its admin, and what a request to server_url can bring back. *)

\* The admin renders a frame, or withdraws it.
Render(f) == /\ server' = [server EXCEPT !.frame = f]
             /\ UNCHANGED <<board, lasting, faults, cuts, doubt>>

\* A token is issued, for the id the server knows this device's MAC by.
Issue(t, i) == server' = [server EXCEPT !.live = t, !.bound[t] = i, !.issued = @ \cup {t},
                                        !.coded = FALSE]
Fresh == Tokens \ server.issued
NewToken == CHOOSE t \in Fresh : TRUE      \* one is as good as another

\* The admin clicks Register, makes a pairing code, or removes the device.
AdminRegister == /\ server.live = None
                 /\ Fresh # {}
                 /\ \E i \in Ids : Issue(NewToken, i)
                 /\ UNCHANGED <<board, lasting, faults, cuts, doubt>>
AdminCode == /\ \E f \in Forms : f.code # None   \* somebody may type it in
             /\ ~server.coded
             /\ server' = [server EXCEPT !.coded = TRUE]
             /\ UNCHANGED <<board, lasting, faults, cuts, doubt>>
AdminRemove == /\ server.live # None
               /\ server' = [server EXCEPT !.live = None]
               /\ UNCHANGED <<board, lasting, faults, cuts, doubt>>

\* The server honours a Bearer token only on the URLs of the id it is bound to.
Honours(t, i) == t # None /\ t = server.live /\ server.bound[t] = i

\* rest_status_t; REST_UNAUTH and REST_FORBIDDEN are one ("denied").
Statuses == {"ok", "notmodified", "nocontent", "denied", "ratelimit", "httperr", "neterr"}

\* Status r of a request the true server would answer with honest.  server_url may also
\* name a host that never answers, or one that is not a Tesserae server.
Reply(r, honest) ==
    \/ cfg.url = "good"  /\ r = honest /\ NoFault
    \/ cfg.url = "good"  /\ r \in {"neterr", "httperr", "ratelimit"} /\ Fault
    \/ cfg.url = "dead"  /\ r = "neterr" /\ NoFault
    \/ cfg.url = "alien" /\ r \in {"httperr", "denied"} /\ NoFault

-----------------------------------------------------------------------------
(* main(), up to the first cycle. *)

\* What a reset does to everything that is not always-on or flash.
RamLost == /\ cfg' = DefaultConfig
           /\ cyc' = FreshCycle
           /\ panel' = FALSE
           /\ looping' = FALSE
Reboot == /\ pc' = "boot" /\ ret' = "wake"
          /\ radio' = "down"
          /\ RamLost

\* config_load, saving the defaults when flash held none; the EEPROM names the panel.
Boot == /\ pc = "boot"
        /\ cfg' = IF flash = Blank THEN DefaultConfig ELSE flash
        /\ pc' = IF flash = Blank THEN "erase" ELSE "wake"
        /\ \/ panel' = TRUE /\ NoFault
           \/ panel' = FALSE /\ Fault
        /\ UNCHANGED <<ret, looping, cyc, radio, lasting, server, cuts, doubt>>

\* Mutant: a warm wake clears the count too.
ColdStart_always == TRUE

\* latch(): WAKE_COLD.
ColdStart == ~scratch.magic

\* Classify the wake, clear the failure count on a cold one, open the portal when there
\* are no credentials.
Wake == /\ pc = "wake"
        /\ scratch' = IF ColdStart THEN [scratch EXCEPT !.fails = 0] ELSE scratch
        /\ IF cfg.wifi = None THEN pc' = "splash" ELSE pc' = "connect"
        /\ ret' = "connect"
        /\ UNCHANGED <<looping, panel, cfg, cyc, radio, flash, screen, world>>

-----------------------------------------------------------------------------
(* The cycle: connection, bootstrap, frame, status. *)

\* wifi_connect.  A failed join leaves cyw43 initialised; a failed init does not.
Joined == /\ pc = "connect"
          /\ cfg.wifi = "good" /\ NoFault
          /\ radio' = "sta"
          /\ cyc' = [cyc EXCEPT !.reached = ~OnRest]
          /\ pc' = IF OnRest THEN IF cfg.token = None THEN "bootstrap" ELSE "frame"
                              ELSE IF cfg.uri = None THEN "stop" ELSE "retained"
          /\ ret' = "decide"
          /\ UNCHANGED <<looping, panel, cfg, lasting, server, cuts, doubt>>

NotJoined == /\ pc = "connect"
             /\ \/ cfg.wifi = None   /\ NoFault /\ radio' = radio
                \/ cfg.wifi = "bad"  /\ NoFault /\ radio' = "sta"
                \/ cfg.wifi = "good" /\ Fault   /\ radio' = "sta"
                \/ cfg.wifi # None /\ radio = "down" /\ Fault /\ radio' = radio
             /\ pc' = IF OnRest THEN "tally" ELSE "decide"
             /\ UNCHANGED <<ret, looping, panel, cfg, cyc, lasting, server, cuts, doubt>>

\* Mutant: the token is stored without the id it is bound to.
Adopted_token_only(t, i, iv) == [cfg EXCEPT !.token = t, !.code = None]

\* rest_bootstrap has a token: take it with the id it is bound to and the interval the
\* server configured, if any; a pairing code is spent.
Adopted(t, i, iv) == [cfg EXCEPT !.token = t, !.id = i, !.code = None,
                                 !.sleep = IF iv \in {Absent, "awake"} THEN @ ELSE iv]

Bootstrapped(t, i) == /\ \E iv \in Intervals : cfg' = Adopted(t, i, iv)
                      /\ cyc' = [cyc EXCEPT !.dirty = TRUE, !.reached = TRUE]
                      /\ pc' = "frame" /\ ret' = "decide"

\* No token yet: a backoff for this sleep, nothing to save, no paint decision.
Unbootstrapped(reached, backoff) == /\ cfg' = [cfg EXCEPT !.sleep = backoff]
                                    /\ cyc' = [cyc EXCEPT !.reached = reached]
                                    /\ pc' = "stop" /\ ret' = "tally"

\* With a pairing code: POST /register.  The server may register the device and the
\* reply be lost; asked again, it returns the token it issued.
Register ==
    /\ pc = "bootstrap" /\ cfg.code # None
    /\ LET known == cfg.url = "good" /\ cfg.code = "right"
           taken == known /\ server.live # None
           granted == known /\ server.live = None /\ server.coded /\ Fresh # {}
       IN \/ /\ taken /\ NoFault
             /\ Bootstrapped(server.live, server.bound[server.live])
             /\ UNCHANGED server
          \/ /\ granted
             /\ \E i \in Ids :
                   /\ Issue(NewToken, i)
                   /\ \/ NoFault /\ Bootstrapped(NewToken, i)
                      \/ Fault /\ Unbootstrapped(FALSE, IF cfg.sleep = "awake" THEN "backoff"
                                                                           ELSE cfg.sleep)
          \/ \E r \in Statuses \ {"ok"} :
                /\ Reply(r, IF taken \/ granted THEN "ok" ELSE "denied")
                /\ Unbootstrapped(r # "neterr",
                                  IF r \in {"denied", "ratelimit"} \/ cfg.sleep = "awake"
                                  THEN "backoff" ELSE cfg.sleep)
                /\ UNCHANGED server
    /\ UNCHANGED <<looping, panel, radio, lasting, cuts, doubt>>

\* Without one: POST /discover, on every wake until the admin has clicked Register.
Discover ==
    /\ pc = "bootstrap" /\ cfg.code = None
    /\ \E r \in Statuses :
          /\ Reply(r, "ok")
          /\ IF r = "ok" /\ server.live # None
             THEN Bootstrapped(server.live, server.bound[server.live])
             ELSE Unbootstrapped(r \in {"ok", "ratelimit"}, "backoff")
    /\ UNCHANGED <<looping, panel, radio, lasting, server, cuts, doubt>>

\* What the server has to say to GET /frame with If-None-Match.
FrameStatus == IF ~Honours(cfg.token, cfg.id) THEN "denied"
               ELSE IF server.frame = None THEN "nocontent"
               ELSE IF server.frame = cfg.etag THEN "notmodified" ELSE "ok"

\* Mutant: a token the server no longer honours is kept.
Rejecting_none == {}

\* The statuses that wipe the token.
Rejecting == {"denied"}

GetFrame ==
    /\ pc = "frame"
    /\ \E r \in Statuses :
          /\ Reply(r, FrameStatus)
          /\ cyc' = [cyc EXCEPT !.reached = @ \/ r # "neterr",
                                !.skip = r \in {"notmodified", "nocontent"},
                                !.want = IF r = "ok" THEN server.frame ELSE None,
                                !.dirty = @ \/ r \in Rejecting]
          /\ cfg' = IF r \in Rejecting THEN [cfg EXCEPT !.token = None] ELSE cfg
          /\ pc' = IF r = "ok" /\ panel THEN "fetch"
                   ELSE IF r \in Rejecting THEN "stop" ELSE "status"
    /\ UNCHANGED <<ret, looping, panel, radio, lasting, server, cuts, doubt>>

\* http_get into SRAM or PSRAM: the whole frame, or nothing to paint.
FetchFrame ==
    /\ pc = "fetch"
    /\ \/ NoFault /\ cyc' = [cyc EXCEPT !.got = TRUE]
       \/ Fault   /\ UNCHANGED cyc
    /\ pc' = IF OnRest THEN "status" ELSE "stop"
    /\ UNCHANGED <<ret, looping, panel, cfg, radio, lasting, server, cuts, doubt>>

\* POST /status: a configured interval is kept, next_poll_s drives this sleep only.
PostStatus ==
    /\ pc = "status"
    /\ \E r \in Statuses :
          /\ Reply(r, IF Honours(cfg.token, cfg.id) THEN "ok" ELSE "denied")
          /\ \E iv \in Intervals, np \in Polls :
                LET newer == r = "ok" /\ iv \notin {Absent, "awake", cfg.sleep}
                IN /\ cyc' = [cyc EXCEPT !.reached = @ \/ r # "neterr",
                                         !.dirty = @ \/ newer \/ r \in Rejecting]
                   /\ cfg' = [cfg EXCEPT
                                !.token = IF r \in Rejecting THEN None ELSE @,
                                !.sleep = IF r = "ok" /\ np # Absent THEN np
                                          ELSE IF newer THEN iv ELSE @]
    /\ pc' = "stop"
    /\ UNCHANGED <<ret, looping, panel, radio, lasting, server, cuts, doubt>>

\* MQTT instead: the retained frame URL and config; dedup by the URL's hash.
FetchRetained ==
    /\ pc = "retained"
    /\ \E f \in {server.frame, None}, iv \in Intervals :
          /\ \/ cfg.uri = "good" /\ f = server.frame /\ NoFault
             \/ cfg.uri = "good" /\ f = None /\ Fault
             \/ cfg.uri = "bad"  /\ f = None /\ iv = Absent /\ NoFault
          /\ cfg' = [cfg EXCEPT !.sleep = IF iv = Absent THEN @ ELSE iv]
          /\ LET known == panel /\ f # None /\ f = cfg.hash
                 new   == panel /\ f # None /\ f # cfg.hash
             IN /\ cyc' = [cyc EXCEPT !.skip = known,
                                      !.want = IF new THEN f ELSE None,
                                      !.dirty = cfg'.sleep # cfg.sleep]
                /\ pc' = IF new THEN "fetch" ELSE "stop"
    /\ UNCHANGED <<ret, looping, panel, radio, lasting, server, cuts, doubt>>

\* Mutant: the radio is left on until the device sleeps.
RadioAfterStop_kept == radio

\* cyw43_arch_deinit.
RadioAfterStop == "down"

\* wifi_stop (the MQTT status message, which changes nothing here, goes out before it).
WifiStop ==
    /\ pc = "stop"
    /\ radio' = RadioAfterStop
    /\ pc' = ret
    /\ UNCHANGED <<ret, looping, panel, cfg, cyc, lasting, world>>

-----------------------------------------------------------------------------
(* The paint decision, the record of what was painted, and the save. *)

\* The tag of the last painted frame on the transport in use.
LastTag(c) == IF c.url # None THEN c.etag ELSE c.hash

\* The end of the cycle: config_save if anything changed.
Finish(dirty) == /\ pc' = IF dirty THEN "erase" ELSE "tally"
                 /\ ret' = "tally"

\* Skip, keep the last image, or start a refresh with the frame or the test stripes.
Decide ==
    /\ pc = "decide"
    /\ IF ~cyc.skip /\ panel /\ (cyc.got \/ LastTag(cfg) = None)
       THEN pc' = "painting" /\ screen' = "torn" /\ UNCHANGED ret
       ELSE Finish(cyc.dirty) /\ UNCHANGED screen
    /\ UNCHANGED <<looping, panel, cfg, cyc, radio, flash, scratch, world>>

\* Mutant: the REST cycle records the hash, as the MQTT cycle does.
Recorded_hash_only(f) == [cfg EXCEPT !.hash = f]

\* config_set_frame_etag, when the response had one, or config_set_last_hash.
Recorded(f) == IF ~OnRest THEN [cfg EXCEPT !.hash = f]
               ELSE IF f \in Tagless THEN cfg ELSE [cfg EXCEPT !.etag = f]

\* paint() returns: the picture is up, or BUSY timed out; either way it is recorded.
PaintDone ==
    /\ pc = "painting"
    /\ \/ NoFault /\ screen' = IF cyc.got THEN cyc.want ELSE "stripes"
       \/ Fault   /\ UNCHANGED screen
    /\ IF cyc.got THEN cfg' = Recorded(cyc.want) /\ doubt' = FALSE
                  ELSE UNCHANGED <<cfg, doubt>>
    /\ Finish(cyc.dirty \/ (cyc.got /\ (OnRest => cyc.want \notin Tagless)))
    /\ UNCHANGED <<looping, panel, cyc, radio, flash, scratch, server, cuts>>

\* config_save: flash_range_erase, flash_range_program (FlashConfig has the pages).
Erase == /\ pc = "erase"
         /\ flash' = Blank
         /\ pc' = "program"
         /\ UNCHANGED <<ret, looping, panel, cfg, cyc, radio, scratch, screen, world>>

Program == /\ pc = "program"
           /\ flash' = cfg
           /\ pc' = ret
           /\ UNCHANGED <<ret, looping, panel, cfg, cyc, radio, scratch, screen, world>>

-----------------------------------------------------------------------------
(* run_cycle's count of failures, and main's sleep. *)

\* Mutant: only a cycle that changed something clears the count.
Succeeded_dirty == cyc.dirty

\* do_cycle*'s result.
Succeeded == cyc.reached

Tally ==
    /\ pc = "tally"
    /\ LET fails == IF Succeeded THEN 0 ELSE (scratch.fails + 1) % Wrap
       IN /\ scratch' = [scratch EXCEPT !.fails = fails]
          /\ pc' = IF fails >= MaxFails THEN "giveup" ELSE "rest"
    /\ cyc' = FreshCycle
    /\ UNCHANGED <<ret, looping, panel, cfg, radio, flash, screen, world>>

\* Too many: clear the count, release cyw43, re-open the setup portal.
GiveUp ==
    /\ pc = "giveup"
    /\ scratch' = [scratch EXCEPT !.fails = 0]
    /\ radio' = RadioAfterStop
    /\ pc' = "splash" /\ ret' = "rest"
    /\ UNCHANGED <<looping, panel, cfg, cyc, flash, screen, world>>

\* After the first cycle: deep sleep (the core loses power), or the awake loop for good.
Sleep == /\ pc = "rest" /\ ~looping /\ cfg.sleep # "awake"
         /\ scratch' = [scratch EXCEPT !.magic = TRUE]
         /\ pc' = "asleep"
         /\ RamLost
         /\ UNCHANGED <<ret, radio, flash, screen, world>>
StayAwake == /\ pc = "rest" /\ (looping \/ cfg.sleep = "awake")
             /\ looping' = TRUE
             /\ pc' = "pause"
             /\ UNCHANGED <<ret, panel, cfg, cyc, radio, lasting, world>>
Again == /\ pc = "pause"
         /\ pc' = "connect"
         /\ UNCHANGED <<ret, looping, panel, cfg, cyc, radio, lasting, world>>
TimerWake == /\ pc = "asleep"
             /\ Reboot
             /\ UNCHANGED <<lasting, world>>

-----------------------------------------------------------------------------
(* portal_run. *)

\* The setup splash goes over whatever the panel shows.
Splash == /\ pc = "splash"
          /\ \/ NoFault /\ screen' = IF panel THEN "splash" ELSE screen
             \/ Fault /\ panel /\ screen' = "torn"
          /\ pc' = "portal"
          /\ UNCHANGED <<ret, looping, panel, cfg, cyc, radio, flash, scratch, server, cuts, doubt>>

\* The AP comes up; or cyw43 fails and portal_run returns.
OpenPortal == /\ pc = "portal"
              /\ \/ NoFault /\ radio' = "ap" /\ pc' = "serving"
                 \/ Fault   /\ UNCHANGED radio /\ pc' = ret
              /\ UNCHANGED <<ret, looping, panel, cfg, cyc, lasting, server, cuts, doubt>>

\* Mutant: a field missing from the request is not told from an empty one.
Entered_unchecked(new, old) == new

\* A field missing from the request leaves the setting alone.
Entered(new, old) == IF new = Absent THEN old ELSE new

\* A pairing code means (re)pair: forget the token and the cached ETag.
Repaired(c, code) == IF code = None THEN c
                     ELSE [c EXCEPT !.code = code, !.token = None, !.etag = None]

\* save_form, in lwIP's callback, then config_save.
SaveForm(f) ==
    /\ pc = "serving"
    /\ cfg' = Repaired([cfg EXCEPT !.wifi = Entered(f.ssid, @), !.url = Entered(f.url, @),
                                   !.uri = Entered(f.uri, @), !.id = Entered(f.id, @)], f.code)
    /\ pc' = "erase" /\ ret' = "respond"
    /\ doubt' = TRUE
    /\ UNCHANGED <<looping, panel, cyc, radio, lasting, server, faults, cuts>>

\* The browser has the whole answer: reboot.  Or it went away: keep serving.
Answered == /\ pc = "respond"
            /\ Reboot
            /\ UNCHANGED <<lasting, world>>
Abandoned == /\ pc = "respond"
             /\ pc' = "serving"
             /\ UNCHANGED <<ret, looping, panel, cfg, cyc, radio, lasting, world>>

\* Nobody came for 15 minutes: power down with no alarm armed.
IdleTimeout == /\ pc = "serving"
               /\ scratch' = [scratch EXCEPT !.magic = TRUE]
               /\ pc' = "off"
               /\ RamLost
               /\ UNCHANGED <<ret, radio, flash, screen, world>>

-----------------------------------------------------------------------------
(* Resets and power cuts: always-on words may survive them or not. *)

ScratchAfterReset == scratch' \in {scratch, [magic |-> FALSE, fails |-> 0]}

\* In mid-run.  A refresh that is cut leaves the panel in between two images.
PowerCut == /\ pc # "off" /\ cuts < MaxCuts /\ Mishap
            /\ cuts' = cuts + 1
            /\ ScratchAfterReset
            /\ screen' \in IF pc = "splash" /\ panel THEN {screen, "torn"} ELSE {screen}
            /\ doubt' = (doubt \/ pc \in {"painting", "erase", "program"})
            /\ Reboot
            /\ UNCHANGED <<flash, server, faults>>

\* The reset button is the way out of the portal's power-down.
ResetButton == /\ pc = "off"
               /\ ScratchAfterReset
               /\ Reboot
               /\ UNCHANGED <<flash, screen, world>>

-----------------------------------------------------------------------------
\* What the program does by itself, and what others do to it.
Step == \/ Boot \/ Wake \/ Joined \/ NotJoined \/ Register \/ Discover \/ GetFrame
        \/ FetchFrame \/ PostStatus \/ FetchRetained \/ WifiStop \/ Decide \/ PaintDone
        \/ Erase \/ Program \/ Tally \/ GiveUp \/ Sleep \/ StayAwake \/ Again \/ TimerWake
        \/ Splash \/ OpenPortal \/ Answered \/ Abandoned

Environment == \/ \E f \in Forms : SaveForm(f)
               \/ IdleTimeout \/ PowerCut \/ ResetButton
               \/ \E f \in Frames \cup {None} : Render(f)
               \/ AdminRegister \/ AdminCode \/ AdminRemove

Next == Step \/ Environment

Spec == Init /\ [][Next]_vars

\* The processor keeps running and the POWMAN alarm fires.  Nothing is assumed of users,
\* admins or networks, beyond the bound on transient faults.
FairSpec == Spec /\ WF_vars(Step)

-----------------------------------------------------------------------------
(* Properties. *)

TypeOK == /\ pc \in Places /\ ret \in Places
          /\ looping \in BOOLEAN /\ panel \in BOOLEAN
          /\ cfg \in Configs /\ cyc \in Cycles
          /\ radio \in {"down", "sta", "ap"}
          /\ flash \in Configs \cup {Blank}
          /\ scratch \in [magic: BOOLEAN, fails: Words]
          /\ screen \in Frames \cup {None, "stripes", "splash", "torn"}
          /\ server \in Servers
          /\ faults \in 0..MaxFaults /\ cuts \in 0..MaxCuts /\ doubt \in BOOLEAN

Saving == pc \in {"erase", "program"}

\* config.h:9-11 and main.c:75-76, 428: a save by main or by a cycle runs with cyw43
\* down, on every path: failed joins, missed servers, the awake loop, reboots.  (The
\* portal's own save, ret = "respond", runs in lwIP's callback with the AP up.)
RadioDownForSave == Saving /\ ret # "respond" => radio = "down"

\* main.c:245-249, 281-289 ("the token is bound to it"): whatever the user typed at the
\* portal, whatever was lost, removed or re-issued meanwhile, a REST cycle never saves a
\* token beside an id it is not bound to.
VouchedIdentity == Saving /\ ret = "tally" /\ OnRest /\ cfg.token # None
                      => server.bound[cfg.token] = cfg.id

\* main.c:190-194, 439-443: paint first, then record, then save.  Unless a reset or the
\* portal came in between, a server frame on the panel is the one the stored tag names,
\* so that the next If-None-Match (or hash comparison) asks about what is shown.
PaintedIsRecorded ==
    screen \in Frames /\ ~doubt /\ ~Saving =>
        flash # Blank /\ (flash.url = None \/ screen \notin Tagless => LastTag(flash) = screen)

-----------------------------------------------------------------------------
(* The strengthening the proofs use. *)

\* Where calls return to, and that no cycle is in progress outside do_cycle*.
Returns ==
    /\ Saving => ret \in {"wake", "tally", "respond"}
    /\ pc = "boot" => ret = "wake"
    /\ pc \in {"frame", "fetch", "status", "retained"} => ret = "decide"
    /\ pc = "stop" => ret \in {"decide", "tally"}
    /\ pc \in {"splash", "portal"} => ret \in {"connect", "rest"}
    /\ pc \in {"boot", "wake", "connect", "rest", "pause", "giveup", "splash", "portal",
               "serving", "respond", "asleep", "off"} \/ (Saving /\ ret # "tally")
          => cyc = FreshCycle

\* Bootstrapping is for a REST device without a token; retained messages are for MQTT.
OnTransport == /\ pc = "bootstrap" => cfg.token = None /\ ~cyc.reached
               /\ pc = "retained" => ~OnRest

\* The radio is down where a save is still to come.
RadioDownBeforeSave ==
    \/ pc \in {"boot", "wake"}
    \/ Saving /\ ret # "respond"
    \/ pc \in {"decide", "painting"} /\ (cyc.dirty \/ cyc.got)
    => radio = "down"

\* The token the device holds or stored was issued; and whatever makes a REST cycle save
\* came from a server that vouched for the id beside it.
TokensIssued == /\ cfg.token \in server.issued \cup {None}
                /\ server.live \in server.issued \cup {None}
                /\ flash # Blank => flash.token \in server.issued \cup {None}
VouchedBeforeSave ==
    /\ OnRest /\ cfg.token # None
    /\ \/ pc \in {"frame", "status", "stop", "decide", "painting"} /\ (cyc.dirty \/ cyc.got)
       \/ pc = "fetch"
       \/ Saving /\ ret = "tally"
    => server.bound[cfg.token] = cfg.id

\* The stored tag of the transport in use names the frame on the panel.
Names(c) == c.url = None \/ screen \notin Tagless => LastTag(c) = screen
RamLive == pc \notin {"boot", "asleep", "off"}
StoredIsLive ==
    /\ pc # "boot" /\ ~Saving => flash # Blank
    /\ Saving /\ ret = "wake" => flash = Blank
    /\ RamLive /\ (Saving => ret = "tally") /\ flash # Blank =>
          flash.url = cfg.url /\ flash.wifi = cfg.wifi
    /\ pc = "painting" => screen = "torn"
TagsNameScreen ==
    screen \in Frames /\ ~doubt =>
        /\ RamLive => Names(cfg)
        /\ ~Saving => flash # Blank /\ Names(flash)
        /\ Saving => ret = "tally"

\* The count stays below MaxFails but for the misses that were counted and then cut short,
\* so that it never wraps; and only a device with credentials talks to a server.
Counted ==
    /\ scratch.fails <= MaxFails + cuts
    /\ pc # "giveup" => scratch.fails < MaxFails + cuts
    /\ pc = "giveup" => scratch.fails >= MaxFails
    /\ pc \in {"bootstrap", "frame", "fetch", "status", "retained"} => cfg.wifi # None

IInv == TypeOK /\ Returns /\ OnTransport /\ RadioDownBeforeSave /\ TokensIssued /\ VouchedBeforeSave
               /\ StoredIsLive /\ TagsNameScreen /\ Counted

-----------------------------------------------------------------------------
(* The refinement of Lifecycle. *)

\* The phases of Lifecycle.
Booting == pc \in {"boot", "wake", "asleep"} \/ (Saving /\ ret = "wake")
InSetup == pc \in {"splash", "portal", "serving", "respond"} \/ (Saving /\ ret = "respond")
Mode == IF Booting THEN "boot" ELSE IF InSetup THEN "setup"
        ELSE IF pc = "giveup" THEN "lost" ELSE IF pc = "off" THEN "off" ELSE "work"

\* Before Wake has run, a count that a cold start is about to clear counts as cleared.
CountedMisses == IF Booting /\ ~scratch.magic THEN 0 ELSE scratch.fails

\* While RAM is lost, the credentials are the stored ones.
HasCredentials == IF pc \in {"boot", "asleep", "off"} THEN flash # Blank /\ flash.wifi # None
                  ELSE cfg.wifi # None

\* main.c:460-486, 594, 604: however cycles, sleeps, resets and saves interleave, the
\* portal opens for missing credentials or after MaxFails misses in a row and never else.
Life == INSTANCE Lifecycle WITH mode <- Mode, credentials <- HasCredentials,
                                contact <- cyc.reached, misses <- CountedMisses
ImplementsLifecycle == Life!Spec

\* main.c:37-39, 460-464: a WiFi network that is missing or cannot be joined, or a
\* server_url where nobody answers, always leads to the setup portal, across deep sleeps.
SetupIsOffered ==
    (pc = "connect" /\ (cfg.wifi # "good" \/ cfg.url = "dead")) ~> (pc = "serving")

\* A device with the right settings that keeps working ends up with the token the server
\* honours and the tag of the server's frame stored, however often it was removed,
\* re-registered, cut off or given another id before, and whatever reply to /register was
\* lost: main.c:233-311 and 363-400.  The panel then shows that frame, unless the setup
\* splash went over it (see SkippedIsShown), its refresh timed out or was cut, or a reset
\* came between a paint and its record.
Recovers ==
    \A t \in Tokens, f \in Frames \ Tagless :
        /\ <>[](server.live = t /\ server.frame = f)
        /\ []<>(pc = "connect")
        /\ <>[](pc = "connect" => panel /\ cfg.wifi = "good" /\ cfg.url = "good"
                                        /\ cfg.code # "wrong")
        => <>[](pc = "connect" => /\ cfg.token = t /\ cfg.etag = f
                                  /\ \/ screen \in {f, "splash", "torn"}
                                     \/ doubt /\ cuts > 0)

-----------------------------------------------------------------------------
(* What comments of the source say, and the code does not do: see the README. *)

\* main.c:116, 388-390 ("frame unchanged; skipping"), config.h:26 ("last painted"): when a
\* cycle skips the paint because the stored tag is the server's frame, the panel shows that
\* frame, and not the setup splash.  (A refresh that timed out is another matter.)
SkippedIsShown ==
    pc = "decide" /\ cyc.skip /\ LastTag(cfg) = server.frame /\ server.frame # None =>
        screen \in {server.frame, "torn"}

\* config.h:6-7 ("written back on change"), main.c:352-354 ("avoid the flash wear"): a
\* cycle erases the sector only when the RAM image differs from the stored one.
WrittenOnChange == [][pc = "erase" /\ ret = "tally" => flash # cfg]_vars

\* main.c:37-39, 276-278, 460-464: a server URL where somebody else answers also leads
\* to the portal "instead of looping on a bad endpoint forever".
AlienIsGivenUp == (pc = "connect" /\ cfg.url = "alien") ~> (pc = "serving")
=============================================================================
