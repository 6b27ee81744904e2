-------------------------- MODULE MCRestTransport --------------------------
(***************************************************************************)
(* A TLC instance of RestTransport: responses that fill the buffer, and    *)
(* ones long enough to lose a segment in their middle and keep the next.   *)
(***************************************************************************)
EXTENDS RestTransport

MCReplies == {"ok", "denied"}
MCLengths == {3, 5}
=============================================================================
