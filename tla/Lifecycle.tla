----------------------------- MODULE Lifecycle -----------------------------
(***************************************************************************)
(* What main.c promises about provisioning, whatever the transport: the    *)
(* device boots and works in cycles; a cycle reaches its server or misses  *)
(* it; the setup portal opens at boot when there are no WiFi credentials,  *)
(* or after MaxFails misses in a row, and for no other reason.             *)
(*                                                                         *)
(* The count of misses survives deep sleep and warm resets.  It is cleared *)
(* by a cycle that reaches the server, by opening the portal, and by a     *)
(* cold reset, and by nothing else.                                        *)
(***************************************************************************)
EXTENDS Naturals

CONSTANT MaxFails      \* MAX_CONNECT_FAILS

VARIABLES mode,        \* "boot", "work", "lost" (a miss too many), "setup", "off"
          credentials, \* a WiFi network is configured
          contact,     \* the cycle in progress has heard from its server
          misses       \* cycles missed in a row

vars == <<mode, credentials, contact, misses>>

Init == /\ mode = "boot"
        /\ credentials = FALSE
        /\ contact = FALSE
        /\ misses = 0

\* Boot ends: to work, or to the portal when there is nothing to connect with.
Start == /\ mode = "boot"
         /\ mode' = IF credentials THEN "work" ELSE "setup"
         /\ UNCHANGED <<credentials, contact, misses>>

\* The server answers.
Hear == /\ mode = "work" /\ credentials
        /\ contact' = TRUE
        /\ UNCHANGED <<mode, credentials, misses>>

\* A cycle that reached its server ends.
Reach == /\ mode = "work" /\ contact
         /\ contact' = FALSE
         /\ misses' = 0
         /\ UNCHANGED <<mode, credentials>>

\* A cycle that missed it ends.
Miss == /\ mode = "work" /\ ~contact
        /\ misses' = misses + 1
        /\ mode' = IF misses' >= MaxFails THEN "lost" ELSE "work"
        /\ UNCHANGED <<credentials, contact>>

\* One miss too many: the portal opens.
GiveUp == /\ mode = "lost"
          /\ mode' = "setup"
          /\ misses' = 0
          /\ UNCHANGED <<credentials, contact>>

\* The user submits the form.
Submit == /\ mode = "setup"
          /\ credentials' \in BOOLEAN
          /\ UNCHANGED <<mode, contact, misses>>

\* The portal ends: it reboots after a save, or it could not be opened at all.
Leave == /\ mode = "setup"
         /\ mode' \in {"boot", "work"}
         /\ UNCHANGED <<credentials, contact, misses>>

\* Nobody came: the portal powers the device off.
IdleOff == /\ mode = "setup"
           /\ mode' = "off"
           /\ UNCHANGED <<credentials, contact, misses>>

\* The alarm, a reset or a power cut; a cold one clears the count.  A save cut short may
\* take the stored credentials with it, or leave those of before the form.
Restart == /\ mode' = "boot"
           /\ contact' = FALSE
           /\ misses' \in {0, misses}
           /\ credentials' \in BOOLEAN
           /\ mode # "setup" => credentials' \in {credentials, FALSE}

Next == \/ Start \/ Hear \/ Reach \/ Miss \/ GiveUp
        \/ Submit \/ Leave \/ IdleOff \/ Restart

Spec == Init /\ [][Next]_vars
=============================================================================
