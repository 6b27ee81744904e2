------------------------------ MODULE Exchange ------------------------------
(***************************************************************************)
(* What a request over a network that fails promises its caller.  Calls    *)
(* are made one at a time.  The server performs each of them at most once, *)
(* possibly long after the caller gave up.  The call ends with the         *)
(* server's own reply to that very call, or with word that the reply is    *)
(* missing or damaged; a missing one does not mean that nothing was done.  *)
(***************************************************************************)
EXTENDS Naturals

CONSTANTS Replies,    \* what the server can reply
          Missing,    \* "no reply"
          Damaged     \* "not all of the reply"

VARIABLES calls,      \* calls made so far
          busy,       \* the last of them is still waiting
          reply,      \* the server's reply to each call it performed, Missing for the others
          result      \* how the last finished call ended

vars == <<calls, busy, reply, result>>

Init == /\ calls = 0 /\ busy = FALSE
        /\ reply = [n \in {} |-> Missing]
        /\ result = Missing

\* The next call.
Call == /\ ~busy /\ busy' = TRUE
        /\ calls' = calls + 1
        /\ reply' = [n \in 1..(calls + 1) |-> IF n = calls + 1 THEN Missing ELSE reply[n]]
        /\ UNCHANGED result

\* The server performs a call, in time or not.
Perform(n) == /\ n \in 1..calls /\ reply[n] = Missing
              /\ \E r \in Replies : reply' = [reply EXCEPT ![n] = r]
              /\ UNCHANGED <<calls, busy, result>>

\* The call ends.
Return == /\ busy /\ busy' = FALSE
          /\ \/ result' = Missing
             \/ reply[calls] # Missing /\ result' \in {reply[calls], Damaged}
          /\ UNCHANGED <<calls, reply>>

Next == Call \/ (\E n \in 1..calls : Perform(n)) \/ Return

Spec == Init /\ [][Next]_vars
=============================================================================
