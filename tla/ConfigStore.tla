---------------------------- MODULE ConfigStore ----------------------------
(***************************************************************************)
(* What src/config.c promises to the rest of the firmware: one durable     *)
(* register that holds a whole configuration image or nothing at all,      *)
(* beside a RAM copy that the accessors read and the setters change.       *)
(*                                                                         *)
(* The register is not atomic.  A save goes through a moment in which it   *)
(* is empty, and a power cut in that moment loses the old image and the    *)
(* new one; but no reader ever sees half of one image and half of another. *)
(***************************************************************************)
CONSTANTS Images,         \* the values config_t can take
          DefaultImage,   \* memset(0) with sleep_s = DEFAULT_SLEEP_S
          Nothing         \* the register is empty

VARIABLES stored,   \* what the next config_load would find: an image or Nothing
          ram,      \* s_cfg
          loaded    \* config_load has run since the last reset

vars == <<stored, ram, loaded>>

Init == /\ stored \in Images \cup {Nothing}
        /\ ram = DefaultImage
        /\ loaded = FALSE

\* config_load: adopt the stored image, or fall back to the defaults.
Load == /\ ~loaded /\ loaded' = TRUE
        /\ ram' = IF stored = Nothing THEN DefaultImage ELSE stored
        /\ UNCHANGED stored

\* A setter: only the RAM copy changes.
Set == /\ loaded
       /\ ram' \in Images
       /\ UNCHANGED <<stored, loaded>>

\* The register is emptied: a save has begun, or one failed.
Empty == /\ loaded
         /\ stored' = Nothing
         /\ UNCHANGED <<ram, loaded>>

\* A save ends: the empty register takes the RAM copy, whole.
Commit == /\ loaded
          /\ stored = Nothing
          /\ stored' = ram
          /\ UNCHANGED <<ram, loaded>>

\* The power goes: RAM is lost, and a save that was on its way may have
\* emptied the register.
Cut == /\ loaded /\ loaded' = FALSE
       /\ ram' = DefaultImage
       /\ stored' \in {stored, Nothing}

Next == Load \/ Set \/ Empty \/ Commit \/ Cut

Spec == Init /\ [][Next]_vars
=============================================================================
