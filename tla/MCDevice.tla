------------------------------ MODULE MCDevice ------------------------------
(***************************************************************************)
(* TLC instances of Device.                                                *)
(***************************************************************************)
EXTENDS Device

\* The usual first form, and what users do later: mistype the password or the URL, rename
\* the device, enter a pairing code, blank the server URL (back to MQTT).
Setup   == [ssid |-> "good", url |-> "good", uri |-> Absent, id |-> Absent, code |-> None]
Rename  == [ssid |-> Absent, url |-> Absent, uri |-> Absent, id |-> "typed", code |-> None]
Repair  == [Setup EXCEPT !.code = "right"]
BadWifi == [Setup EXCEPT !.ssid = "bad"]
Mqtt    == [Setup EXCEPT !.url = None, !.uri = "good"]
\* The device is renamed, and the URL mistyped.
Mistyped == [Setup EXCEPT !.url = "dead", !.id = "typed"]
\* A first form with a pairing code and the URL of some other web server.
Alien   == [Repair EXCEPT !.url = "alien"]

MCIds == {"pico", "typed"}

SafetyForms     == {Setup, Rename, Repair, BadWifi, Mqtt, Alien}
SafetyIntervals == {"awake", "interval"}
SafetyPolls     == {Absent}

LiveForms     == {Repair, Mistyped}
LiveIntervals == {"interval"}
LivePolls     == {"poll"}

SetupForms == {Setup}
AlienForms == {Alien}
=============================================================================
