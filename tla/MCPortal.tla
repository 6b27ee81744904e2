------------------------------ MODULE MCPortal ------------------------------
(***************************************************************************)
(* A TLC instance of Portal: requests that say their length or do not,     *)
(* that fit the buffer or do not, and one with bytes after its end.        *)
(***************************************************************************)
EXTENDS Portal

Ask(kind, head, body, extra, sized) ==
    [kind |-> kind, head |-> head, body |-> body, extra |-> extra, sized |-> sized]

MCRequests == {Ask("page", 1, 0, 0, FALSE), Ask("rescan", 1, 0, 0, FALSE),
               Ask("save", 1, 2, 0, TRUE), Ask("save", 1, 2, 0, FALSE),
               Ask("save", 2, 1, 1, TRUE), Ask("save", 2, 2, 0, TRUE)}
=============================================================================
