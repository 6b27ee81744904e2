# TLA+ models of tesserae-device-pico-bin

Models, model-checking runs and machine-checked proofs for the firmware in
`src/`: a battery-powered e-paper frame (RP2350 + CYW43) that wakes, asks a
Tesserae server for a frame over REST or MQTT, paints it when it changed,
and goes back to deep sleep.  Every definition is a translation of the C code;
`PROJECT.json` ("map") names the lines each of them stands for.

## 1. The system

| Part | State it keeps | Operations | Where |
| --- | --- | --- | --- |
| **main** | locals of a cycle, the awake loop | boot, wake classification, one cycle (REST or MQTT), paint decision, save, miss count, sleep | `src/main.c` |
| **config** | one flash sector, `s_cfg` in RAM | load, setters, save (erase, program, verify) | `src/config.c` |
| **sleepmgr** | always-on POWMAN words: wake magic, boot count, failure count, LPOSC rate; the clock | latch the wake reason, count misses, power down with or without an alarm | `src/sleepmgr.c` |
| **net_portal** | access point, HTTP connection, reboot/rescan/seen flags | open, scan, serve, save the form, idle power-down, reboot | `src/net_portal.c` |
| **net_rest** | one request at a time in static buffers, flags set by lwIP callbacks | discover, register, frame, status | `src/net_rest.c` |
| **net_mqtt** | MQTT client, topic being received, two reassembly buffers | fetch retained, publish status | `src/net_mqtt.c` |
| **net_http** | destination buffer and length, done flag | download a frame with a timeout | `src/net_http.c` |
| **net_wifi** | cyw43 up or down, station link | connect, stop | `src/net_wifi.c` |
| **panels, epd_io** | the controller's protocol state, BUSY | paint one of five controller families | `src/panels.c`, `src/epd_io.c` |
| **splash** | - | draw the setup screen | `src/splash.c` |
| **inky_eeprom, battery, psram, sntp, mdns** | cached readings | read once per boot or per cycle | `src/*.c` |
| vendored | DHCP leases; otherwise none | | `src/vendor/` |

How they interact: `main` calls everything, sequentially.  lwIP runs
callbacks in the background ("threadsafe background") while `main` polls flags
with a timeout; so `net_rest`, `net_http`, `net_mqtt` and `net_portal` are each
two interleaved actors.  A deep sleep, a watchdog reboot and a power cut are the
same thing to the program: RAM is gone, flash and the panel stay, and the
always-on words stay unless the power went too.  The server, its admin and the
user at the portal act at any time.

What is hard: the gap between what is *painted*, what is *recorded* in RAM and
what is *saved*; flash saves cut short; a token whose id, server record and
stored copy can each change without the others; a failure count that spans
reboots; timeouts that leave a callback or a transfer behind; fragments of
messages that share a buffer; controllers that answer late; an EEPROM that is in
the middle of a byte when the microcontroller starts again.  Each is a hazard in
`PROJECT.json`, at its line, with the properties that cover it or a note that
says why none does.

What makes each part correct, in short: the sector is whole or empty and
`config_save` tells the truth (config); the device always comes back to a state
from which a user or the server can make it show the frame, and what it believes
about the panel, the token and the radio is true (main, sleepmgr, portal); a
request ends once, with the response or an error, whatever the order of
callbacks (net_*); the panel is
identified whatever reset came before, and the whole frame reaches the glass, the
right way up, from controllers that are ready for each command and are left
without power (panels).

## 2. Modules

| Module | Models | Kind |
| --- | --- | --- |
| `ConfigStore` | what `config.c` promises: a register, whole or empty | abstract |
| `FlashConfig` | `config.c` at flash-page level | refines `ConfigStore` |
| `FlashConfig_proofs` | | TLAPS |
| `Lifecycle` | when the setup portal opens; what the miss count does | abstract |
| `Device` | the firmware's life: main, and around it the portal, the sleep manager, the server, users, faults | refines `Lifecycle` |
| `Device_proofs` | | TLAPS |
| `Exchange` | what a request over a failing network promises | abstract |
| `HttpDate` | `net_rest.c`: the `Date` header's day and epoch | functions, used by `RestTransport` |
| `HttpDate_proofs` | | TLAPS |
| `RestTransport` | `net_rest.c`: `do_request` and lwIP's callbacks | refines `Exchange` |
| `RestTransport_proofs` | | TLAPS |
| `MqttClient` | `net_mqtt.c`, lwIP's MQTT client and the broker | part of `MqttCycle` |
| `HttpFetch` | `net_http.c` and lwIP's HTTP client | part of `MqttCycle` |
| `MqttCycle` | `main.c`, `do_cycle`: the MQTT cycle with both of them | composition |
| `MqttCycle_proofs` | | TLAPS |
| `Eeprom` | `inky_eeprom.c`: the I2C read, and the EEPROM | part of `Panels` |
| `Eeprom_proofs` | about `Eeprom` within `Panels` | TLAPS |
| `EpdIo` | `epd_io.c`, and the e-paper controllers | part of `Panels` |
| `Rotation` | `panels.c`: where the pixels of a frame go | functions, used by `Panels` |
| `Panels` | `panels.c`: the registry and the five drivers; identification and paints | composition |
| `Panels_proofs` | builds on `Eeprom_proofs` | TLAPS |
| `Portal` | `net_portal.c`: the HTTP server's callbacks and the portal's loop | |
| `Portal_proofs` | | TLAPS |
| `MCFlashConfig`, `MCDevice`, `MCRestTransport`, `MCPortal`, `MCMqttCycle`, `MCPanels` | instances for TLC | |

### FlashConfig

`stored_t` is magic, version, `config_t` and a CRC, in `Pages` flash pages of one
sector.  `config_load`, `config_set` (any setter), and `config_save` as the
actions `SaveBegin`, `EraseSector`, `ProgramPage` (one per page) and `Verify`.
`PowerCut` can come anywhere; a cut erase spoils any set of pages, a cut program
the page it was writing; a worn page may keep garbage.  The CRC is abstracted to
what it is for: it holds exactly when all pages belong to one blob (no
collisions).  The sector may start blank or with the blob of another
`CONFIG_VERSION`.

### Device

`pc` is the place in `main` and the functions it calls:

    boot -> (erase, program) -> wake -> connect -> bootstrap -> frame -> fetch -> status
    -> stop -> decide -> painting -> erase -> program -> tally -> rest -> asleep -> boot
    tally -> giveup -> splash -> portal -> serving -> erase, program -> respond -> boot
    serving -> off -> boot

One action per step of the code, between the points where something else can
happen: a request, a reset, a callback of the portal.  `ret` is the return
address of `wifi_stop`, `config_save` and `portal_run`, which have several
callers.  The record `cfg` is `s_cfg`; `flash` is the sector as `ConfigStore`
describes it (empty between `Erase` and `Program`); `scratch` the always-on
words; `screen` the panel; `server` the Tesserae server's record of this device.

Data is abstracted to what decisions depend on:

- A frame is one model value for its ETag, its URL's SHA-256 and its pixels.
  Frames of `Tagless` are served without an ETag.
- A setting is `"none"`, `"good"`, or wrong in one of the ways that matter: a
  network that cannot be joined; a server URL nobody answers (`"dead"`) or where
  some other web server does (`"alien"`); a pairing code the server knows or not.
- Sleep intervals keep their provenance (default, server interval, next poll,
  backoff); `"awake"` is any value `<= 0`.
- REST results are the classes of `rest_status_t`, 401 and 403 being one since
  every caller treats them alike.
- Whole calls to the HTTP, REST and MQTT clients are one step with every outcome
  they can have (`RestTransport` and `MqttCycle` have them step by step); "no buffer" is folded into a failed download.
- `PowerCut` is a reset at any place but the powered-down one; it may or may not
  keep the always-on words.

The server gives out each token of `Tokens` once, binds it to an id it chooses,
honours it only for that id, and may forget the device at any time; a repeated
registration returns the live token.  It may register the device and the reply
be lost.

Left out: the clock, boot count, battery, mDNS and SNTP (no decision depends on
them); a failing SHA-256 block; a failed verify (`FlashConfig` has it);
`secrets.h` and the `DEV_*` overrides, off by default; the `inky_frame` build's
fixed panel.

### RestTransport

The caller's places in `do_request` are `lookup`, `resolve` (the DNS wait),
`connect`, `exchange` (the wait for `s_done`), `teardown` and `parse`; every
lwIP callback is an action that may come at any of them, also after the call
has returned.  `t` counts 20 ms polls, over both waits as in the code.  Request
`n` opens connection `n`.  Lengths are in units of a few bytes: a response is
`size[n]` of them, the first two its status line, the last the end of its body,
and comes in segments (pbufs) of any length up to `Longest`.  `s_rx` is the buffer
of `Room` units, each marked with the connection and the place it came from: a
segment that does not fit is left out and a later, shorter one kept, as in
`recv_cb`, so that a long response may lose its middle.  A DNS query that outlives its call answers into whichever
request is waiting then, as `dns_cb` does.  A connection closed by us refuses
what still arrives.  `reply` is the server's side: a request that was sent may
be performed at any time, once.  The four wrappers differ in one thing here:
whether they need the body.  The body is one JSON object, and cJSON refuses
it without its last brace, so a response that ends early is damaged (`Parsed`); but
of one without its middle cJSON may make anything, and `do_request` neither
looks at a `Content-Length` nor tells its caller of `s_overflow`.  `OkIsWhole`
therefore speaks of responses that fit the buffer, and says that nothing but
their length can make the code accept a part for the whole: no early close, no
timeout, no data of an earlier request left in the buffer.

Left out: building the request (one that is too long ends like a DNS error),
headers, the ETag, `Retry-After`.

`HttpDate` has what the wrappers then do with the `Date` header: `days_from_civil`
and the range of years of `parse_http_date`, with C's division.  The reference it
is checked against is the calendar itself: the day after each day.

### Portal

A connection's request is a stream of units (`head`, `body`, `extra`) that TCP
cuts anywhere; what `recv_cb` decides from the buffer is `Complete`, and every
segment that leaves it complete is handled, again if need be, as in the code.
`conn` says whether the connection's `conn_t` is allocated, `hooked` whether lwIP
would still call back with it.  `written` and `received` are TCP's view of the
answer; `acked` and `resp_total` are `conn_t`'s.  `config` is what `save_form` last
saved: whose form, and how much of its body.  The loop of `portal_run` is cut
at each read and write of a flag that a callback also writes; `wifi_scan` is its
start and its polls, and the radio may or may not report the end.

Left out: the networks found, the pages, field decoding; power cuts and a
failing save are in `FlashConfig` and `Device`.  `Device` has the portal as its
surroundings see it.

### MqttCycle, MqttClient, HttpFetch

`at` is the place in `do_cycle`, `mq` the one in `net_mqtt.c`, `ht` the one in
`http_get`.  Between any two of their steps the callbacks may come: the CONNACK,
the loss of the connection, a fragment of a message, the PUBACK, a piece of the
frame, the end of the transfer.  A call that gives up leaves its connection or
transfer in the background, as the code does, and the next call finds it.

A publication is a number, and `size` units of a few bytes long.  The broker
delivers them in order, each in fragments of any length; a buffer is the sequence
of units `indata_cb` put into it, of which `Room` - 1 fit (the last byte is the
terminating zero).  A fragment that does not fit is skipped, and a later, shorter
one of the same message kept, so that the buffer may hold a message with a hole.  A
URL or an interval is the publication it was read from, whole, or says that it
comes from a message of which units are missing (`Cut`), from a buffer that was
overwritten while the main loop read it without lwIP's lock (`Torn`), or from units
of two messages (`Mixed`).  The first two do happen in the code, and the URL then is
one that the server did not publish.  `RetainedIsWhole` says when: `Torn` only if
two messages that the session may deliver came on that topic, `Cut` only if one of
them was longer than the buffer.  Without such a message on the *same* topic, the
URL is that of one whole frame message, no older than the session's
subscription, whatever comes on the other topic and however it is cut; and
`Mixed` never happens.

A frame is pieces numbered within their URL.  `mem` is the buffer they are
written to, `owned` whether the cycle still owns it.  `wifi_stop` takes the
network interface down, and with it every connection and transfer; that this
comes before `free` on every path, is what keeps lwIP from writing into memory
given back.

Left out: the parsing of URLs and of the two JSON fields (`Finds` has the
outcomes), the topics' text, the wording of the status.

### Panels, EpdIo, Eeprom, Rotation

A driver is the sequence of calls it makes (`Driver`): reset, commands, streams
of pixels, sleeps and waits for BUSY.  `Panels` executes one call a step, with a
microcontroller reset possible between any two; `EpdIo` has what a call does to
the chip selects and to every controller that hears it, with BUSY, power, the
command in force and what is in its memory and on its glass.  A refresh takes as
long as it likes, also for ever; a busy controller may ignore a command.  A wait
that ran into its timeout makes the paint `late`, and `clean` says that the last
paint ended without one.

One thing is assumed of the hardware: the fixed sleeps after a reset and a power
command of the Impression drivers are long enough (`Settle`).  They are ported
from the panels' reference drivers, which rely on the same.  The build for the Inky
Frame waits for BUSY instead, and the model has both builds (`inky_frame`).

`Eeprom` sets the two lines level by level, against a 24Cxx that shifts, answers
and counts addresses by what it sees on the lines and that a reset of the
microcontroller does not reset.  `caught` remembers a reset that came while the
EEPROM pulled SDA low: the lines do not show a start condition then, and no code
clocks it free, so `RightPanel` says nothing of the next read.  `inky_i2c_init` turns
SCL into an output before it puts it high, which an EEPROM may see as one clock or
filter out (`Pulsed`).

Left out: register values, the stripe pattern, the shift register the Frame reads
BUSY from, `inky_i2c_scan` and the names of the variants.

## 3. Runs

| Run | Instance | Checks |
| --- | --- | --- |
| `flash` | 4 pages, 3 images, 2 versions (6 distinct blobs; more images add nothing that two old ones and a new one do not show) | `TypeOK`, `Programmed`, `ImplementsStore`, `OkMeansStored`, `KeptUntilErase` |
| `device_safety` | both transports, 2 frames of which one without an ETag, 1 token, 2 ids, 6 forms, 2 faults, 1 cut, at most 2 of both together, `MAX_CONNECT_FAILS` = 2 | `TypeOK`, `IInv`, `RadioDownForSave`, `PaintedIsRecorded`, `VouchedIdentity`, `ImplementsLifecycle` |
| `device_liveness` | REST, 2 frames, 2 tokens, 2 forms (one with a pairing code, so that a reply to `/register` may be lost, one with a new id and a dead URL), 2 faults, 1 cut, at most 2 of both together | `SetupIsOffered`, `Recovers` |
| `rest` | 2 requests, 2 polls, buffer of 3 units, responses of 3 and of 5 in segments of 1 and 2, replies `ok` and `denied` | `TypeOK`, `HookedIsHeld`, `IInv`, `DatesRight`, `ImplementsExchange`, `OkIsWhole`, `CallsEnd` |
| `portal` | 2 connections, buffer of 3 units, 6 requests, 2 idle polls, 1 scan poll | `TypeOK`, `HookedIsLive`, `SavedIsWhole`, `AnsweredBeforeReboot`, `IInv`, `ClickIsKept`, `PortalEnds` |
| `mqtt` | 2 cycles, 2 publications of 3 kinds (a URL of 2 units, one of 4, an interval of 1), buffer of 2 units and the zero, 2 polls, frames of 2 pieces | `TypeOK`, `RetainedIsWhole`, `FetchedIsWhole`, `NoLateWrite`, `PublishedIsAcked`, `CycleEnds` |
| `panels` | both builds, EEPROMs of 8 bytes for four drivers and an unknown panel, or none; 2 paints, 1 reset | `TypeOK`, `RightPanel`, `FrameIsShown`, `RightWayUp`, `ReadyBeforeCommand`, `PoweredDown`, `PaintEnds` |
| `panels_uc8159` | the fifth driver's three variants | violates `FrameIsShown` |
| `portal_submit` | 1 connection | violates `SubmitReboots` |
| `device_splash` | 1 frame, 2 faults | violates `SkippedIsShown` |
| `device_rewrite` | no faults | violates `WrittenOnChange` |
| `device_alien` | pairing code, foreign server | violates `AlienIsGivenUp` |

Bounds.  Faults and cuts are counted because an unbounded number of them makes
every liveness claim vacuous.  `MaxMishaps` bounds both together: two faults, or a
fault and a cut, at *every* place of every cycle give the two-step stories (a
reply lost, then a reset; a token lost twice) without the much larger state
space of three.  The server issues each token once, so 2 tokens allow one removal
and re-registration.  `MAX_CONNECT_FAILS` is 2 instead of 3: with it, misses can
still be separated by sleeps, resets and successes; the proofs cover every value.
In `device_liveness` two faults open the portal over a token that is still good, and
the user may rename the device there: the splash over a frame, a token presented
under a foreign id, a reply to `/register` lost, and a panel ahead of its record are all
reached.  Of the settings `SetupIsOffered` names, a dead URL and a missing network
(the portal itself failed to start) occur there; a join fails by a fault only, and a
network that never can be joined (`"bad"`), which takes the same way to the count,
is in `device_safety`.
Two requests are enough for one to find what another left behind, and two
connections for one to be saved while the other is answered; the requests are
chosen to fit the buffer exactly, not to fit, to declare their length or not,
and to have bytes after their end.  A response of 5 units fills the buffer of 3 with a gap (1, then 2 that do not fit,
then 2 that do) or without its end; one of 3 fits exactly.  In `mqtt`, a message
of 4 can leave its first and its last unit beside each other.  Two cycles let the second find what
timed out in the first; two publications can follow each other on one topic or
both, one of them being retained before the session and one coming during it.
In `panels`, two paints let the second start from whatever the first left behind.
The EEPROM's length counts only in how often the same byte is read, so 8 of the
29 bytes are enough to hold the variant.  `RightWayUp` looks at a frame of 8 rows
of 2 bytes, no two alike; the proof takes every frame of every size.  `DatesRight`
goes through every day of 1970 to 2100.  `rest`, `portal` and `portal_submit` do
not check deadlock: requests are counted, and the portal really ends.

Fairness.  `FairSpec` is `WF_vars(Step)`: the processor goes on executing and
the armed POWMAN alarm fires.  `Step` holds what the program does by itself.
Users, admins, the reset button and power cuts are under no fairness, and a
portal that nobody visits stays there or powers off.  Network faults are
transient by their bound; permanent ones are settings (`"bad"`, `"dead"`).
`RestTransport` and `Portal` are fair to the polling loop only, `MqttCycle` and
`Panels` to `Program` only: callbacks, DNS, the peer, the broker, the scan and
BUSY may never come.  The calls end all the same because every wait has a timeout,
which is what `CallsEnd`, `PortalEnds`, `CycleEnds` and `PaintEnds` check.

`Recovers` assumes, as an antecedent, that the server's record and the settings
eventually stay as they are and that cycles go on; everything before that may
have been arbitrary: renames, pairing codes, removals, a `/register` whose
reply was lost.  It concludes that the stored token is the one the server
honours, the stored tag that of the server's frame, and that the panel shows
this frame, with three exceptions, each of which the code does have: the setup
splash went over it (`device_splash`), its refresh timed out or was cut short
and is recorded all the same (`"torn"`), or a reset came between a paint and its
record (`doubt`), after which the server went back to the frame of the stored tag.

### What the violation runs show

- **`device_splash`** (`main.c:388-390`): the setup splash is painted over the
  frame, and the stored tag still says the frame is shown.  After a portal visit
  without a pairing code, or a reset, the server's 304 leaves the splash on the
  panel until the server renders something else.
- **`device_rewrite`** (`main.c:415-419`): `next_poll_s` goes into the same
  `sleep_s` that is saved, so on every wake it differs from `sleep_interval_s`
  and the sector is rewritten with the same contents, although `config.h:6-7`
  says "written back on change".
- **`portal_submit`** (`net_portal.c:481`, `443-446`): `net_portal.h:15-16` promises
  a reboot once the form is submitted, but only the acknowledgement of the whole
  answer triggers it.  If the client closes first, or `tcp_write` failed, the
  form is saved and the portal stays until it powers off without a wake source.
- **`panels_uc8159`** (`panels.c:340-341`, `394`): the descriptor of the UC8159
  panels says 640x448, by which a frame is rendered and its length checked, but the
  driver streams 600x448 (variants 14 and 15) or 640x400 (variant 16) out of it, so
  the rows on the glass are not the frame's.
- **`device_alien`** (`main.c:242`, `366`): with a pairing code or a token, any
  HTTP answer counts as "reached"; the fallback that `main.c:276-278` describes
  never comes.

## 4. Proofs

All theorems hold for every value of the constants that satisfies the modules'
named assumptions.  Those of `Device`: `FramesAssumption`, `IdentityAssumption`,
`InputsAssumption` and `BlankAssumption` only keep the abstract values apart;
`BoundsAssumption` asks that `MaxFails + MaxCuts` fit in the 16 bits of the
failure count.

**FlashConfig.**  `Programmed` is inductive with `TypeOK`: while a page is being
programmed those before it hold the RAM image or are worn, and those from it on
are erased.  Then at `Verify` a sector that is some whole blob can only be the
RAM image's, with the present version (`OkMeansStored`), and until the last page
is written no blob is whole, which makes every step of a save a stutter of
`ConfigStore` or its `Empty` or `Commit`.

**Device.**  `IInv` is the inductive invariant.  The properties alone are not
inductive: that a save happens with the radio down needs to know that the radio
is down *before* it, where a cycle has something to save
(`RadioDownBeforeSave`), and where `wifi_stop` returns to (`Returns`).  That a
saved token goes with its id needs the same of RAM since the server vouched for
it (`VouchedBeforeSave`), and that the server never rebinds an issued token
(`TokensIssued`).  That the tag names the picture needs the RAM tag, the stored
tag and the settings that choose the transport to move together
(`StoredIsLive`, `TagsNameScreen`).  That the failure count does not wrap needs
the misses cut short counted with it (`Counted`).  The proof of
`IInv /\ [Next]_vars => IInv'` takes one action at a time; `Refinement` then
maps each action to a step of `Lifecycle` or a stutter.

**RestTransport.**  `HookedIsHeld` needs that a pcb freed by lwIP is not held
(`DeadIsNull`) and that a new call starts with nothing held; `ImplementsExchange`
needs that the buffer holds segments of this request's reply only
(`BufferIsOwn`), for which the server sends nothing it was not asked for
(`RepliesFollow`) and connections to come have left no trace (`FutureIsBlank`).
`OkIsWhole` needs `NoGap`: as long as the response to the request in progress fits,
the buffer begins it without a gap, and misses nothing that has arrived while
the callbacks are hooked.  With it `Parsed` cannot meet a spliced body, and a
prefix it refuses.

**Portal.**  `CompleteIsWhole` is the arithmetic of the buffer: a declared length
that fits cannot be cut short by the "buffer full" way out.  `AnsweredBeforeReboot`
needs `acked` to lag behind TCP although it is reset when a request is handled
again (`CountsAreReal`), and `reboot_after` to be set by saves only
(`RebootsAreSaves`).

**HttpDate.**  `DayAfter` and `MonthAfter` compute `days_from_civil` on both sides
of a day's and of a month's end, for years that begin in March; `Calendar` follows for every year, and
`DatesAreRight` takes 1970 to 2100 from it.

**MqttCycle.**  `Flight` is the invariant of what may be in the background where:
a transfer is open only while the buffer is owned and the cycle is between
`http_get` and `wifi_stop`, and at `decide`, `free` and `pause` nothing is connected
(`NoLateWrite`).  `Acked` ties a pending PUBACK to the publish that waits for it,
so that the flag is never an earlier cycle's (`PublishedIsAcked`).  `Contents` says
that the pieces in the buffer are those of the URL in order, that the transfer of
the call that waits is the only one, and that an accepted frame is complete and
its transfer over (`FetchedIsWhole`).  `Session` is the invariant of the broker's
side: outside the loop nothing is on its way (`Quiet`); a session starts with no
URL, and until its subscription is handled gets none (`Fresh`); what is on its
way is no older than `since`, on each topic the older before the newer, and
`s_payload` holds units of its first publication only, all that have come if it
fits (`Carried`, `Of`); a buffer that is ready holds one publication that is older
than all on its way (`Holds`), and one that is being read still holds it or
another has come since (`Reads`, `Stocked`), which is what makes a torn read
a matter of two messages; hence what was found comes from one whole message
or there is a reason why not (`Found`, `RetainedIsWhole`).  It needs `Flight` and the types (`Typed`), for it is the end
of the session that empties the wire.

**Eeprom.**  The read is right because two machines that see the same two lines
stay in step.  `EepromInv` says where the EEPROM is at each of the 27 levels of each
item of the script (`Expected`: which byte it takes or sends, how many bits of it,
whether it pulls SDA low), and what the master has collected by then (`Gathered`).
It holds for any EEPROM of at least 7 bytes, and after any reset, for the start
condition puts an EEPROM that lets go of SDA in step from wherever it was; one that
does not is `caught`, of which nothing is said.  `RightPanelHolds` follows, and with
it `PanelIsIdentified`: the driver that runs is the one that the seventh byte names.
That is what `EepromAssumption` asks 7 bytes for (the code reads 29).

**Panels.**  `RotationIsRight` is the arithmetic of the 13.3 inch panel: byte and
nibble of a pixel before and after, for any row length and any number of rows
that is a multiple of 4.  `PanelInv` is the invariant of the paints: the pins are
low in a stream only (`Selected`); what is busy is about to be waited for
(`Awaited`); once the driver's last power-off has been sent nothing has power
(`Unpowered`).  A driver enters the proof by what is true of its whole sequence
(`Orderly`: every call that makes a controller busy is followed by a sleep or a
wait, and the last power command is a power-off), which is proved of each driver
once, so that the steps need no case per driver.

`ShownInv` is built the same way, for what is on the glass.  A driver is `Planned`
for a controller if it tells it its size, fills its memory by one stream with the
controller's portion of the frame, gives it power after that, and refreshes it last,
while it still has power; each of the five drivers is shown to be so once (`DriverPlanned`), and the
invariant says that up to its place in the plan a controller holds what the plan
has given it.  `WholeFrameIsShown` is `FrameIsShown` for all panels but the UC8159;
`LastFrameIsShown` is what is left of it there, and `Uc8159NeverWhole` makes what
the run `panels_uc8159` shows general: whatever the variant, frame and history, no
paint of such a panel shows a frame whole.  `PanelsTypeOK` needs that the EEPROM
returns as many bytes as were asked for before its seventh is looked at, and that
no driver has more than 35 calls.

**Bounded steps.**  In four modules `Left` is a bound on the steps the program still
has to take, and the theorem says that each of them makes it smaller while nothing
that others do makes it larger (`Shorter`): `CallsAreBounded` (a request is over
after `Limit + 6` steps: name and exchange share one timeout), `CyclesAreBounded`
(an MQTT cycle, `10 * Polls + 19`), `PaintsAreBounded` (identification, and 35
calls for a paint) and `StayIsBounded`.  In the portal a new connection and a click
on Rescan do prolong the stay, but by a fixed cost each, and the theorem says that
nothing else does: not a connection left open, nor segments without end, nor a
scan that hangs.  These are the safety half of `CallsEnd`, `CycleEnds`, `PaintEnds`
and `PortalEnds`, and they hold without any fairness; that the next step is always
enabled, and that the processor takes it, is left to the runs.

Model-checked only:

- liveness (`SetupIsOffered`, `Recovers`, `CallsEnd`, `PortalEnds`, `CycleEnds`,
  `PaintEnds`), which is beyond the prover under fairness, as is `ENABLED`.
  `SetupIsOffered` and `Recovers` have no variant like `Left` either: they depend
  on what users and the server do in the end;
- that the violating runs' steps can be taken (the theorems that go with one,
  `Uc8159NeverWhole` and `LastFrameIsShown`, say what holds if they are).

Every other property of a passing run is a theorem, or its conclusion for all
panels but the UC8159 is (`FrameIsShown`).

## 5. Not modelled

- **battery**: an ADC read and a clamped linear map; only the status message
  quotes the result.
- **sntp, mdns**: best effort; no decision depends on them.  `sntp_sync` is one
  more wait on a flag with a timeout.
- **psram**: register programming.  A board without it is, in `Device`, a frame
  that cannot be fetched for want of room, or goes to the heap.
- **sleepmgr's clock and calibration**, the USB and regulator writes of
  `power_down`: registers, with one plausibility range; a hazard in
  `PROJECT.json` tells what was seen there.  The boot count is only quoted.
- **the splash's and the portal's pages**, form-field decoding, JSON and URL
  parsing, the status's text: formatting and parsing whose outcomes the models
  enumerate.
- **inky_i2c_scan** and other diagnostics.
- **DHCP and DNS servers, cJSON, the QR encoder**: third-party code, used as it is.
- **logo and font bitmaps, lwIP's options, build scripts**: data.

The components that are "partly" modelled in `PROJECT.json` are so for these
reasons, which it repeats at each of them.
