--------------------------- MODULE MCAuthRedirect ---------------------------
(* An instance of AuthRedirect for TLC: two connections, which meet in     *)
(* every order of opening, sending, stalling and closing.                  *)
EXTENDS AuthRedirect

CONSTANTS s1, s2

TwoStreams == {s1, s2}
=============================================================================
