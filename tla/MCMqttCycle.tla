---------------------------- MODULE MCMqttCycle ----------------------------
(* MqttCycle for TLC. *)
EXTENDS MqttCycle

\* A frame that fits and one that does not: with its first unit kept and the two after it
\* in one fragment, the last one still fits.  An interval.
MCPayloads == {[topic |-> "frame", says |-> "url", size |-> 2],
               [topic |-> "frame", says |-> "url", size |-> 4],
               [topic |-> "config", says |-> "interval", size |-> 1]}
=============================================================================
