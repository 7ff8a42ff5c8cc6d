--------------------------- MODULE MCBrowserAuth ---------------------------
(* Two tabs of a browser and two sessions, for TLC. *)
EXTENDS BrowserAuth

CONSTANTS t1, t2, s1, s2
=============================================================================
