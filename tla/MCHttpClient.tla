---------------------------- MODULE MCHttpClient ----------------------------
(* HttpClient with 4-bit sizes, a first allocation of 2 and chunks of up   *)
(* to 5: sizes double, stop at a sum that is no power of 2, and wrap.      *)
EXTENDS HttpClient, TLC

CONSTANTS graph, session
Urls == {graph, session}
Headers == {"Authorization"}
Symmetry == Permutations(Urls)
=============================================================================
