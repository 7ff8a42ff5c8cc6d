---------------------------- MODULE TokenFamily ----------------------------
(***************************************************************************)
(* What a login session promises to its holders: the refresh tokens of the *)
(* session are numbered, one of them is current, each is superseded once,   *)
(* by the next one, and when the session has ended nothing changes any      *)
(* more.  UserSession implements it; BrowserAuth is the client side of it.  *)
(***************************************************************************)
EXTENDS Naturals

VARIABLES
    live,  \* the session has not been revoked or deleted
    gen    \* the number of the current refresh token

Init == live = TRUE /\ gen = 0

Rotate == live /\ gen' = gen + 1 /\ UNCHANGED live
End    == live /\ live' = FALSE /\ UNCHANGED gen

Spec == Init /\ [][Rotate \/ End]_<<live, gen>>
=============================================================================
