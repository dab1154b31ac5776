---------------------------- MODULE MCOAuthToken ----------------------------
(* Instances of OAuthToken for TLC.                                        *)
EXTENDS OAuthToken, TLC

CONSTANTS c1, c2, a1, a2

OneConn == {c1}
TwoConns == {c1, c2}
OneApp == {a1}
TwoApps == {a1, a2}
OneAppOf == c1 :> a1
TwoAppsOf == c1 :> a1 @@ c2 :> a2
SecondGrant == {2}
ThirdGrant == {3}
=============================================================================
