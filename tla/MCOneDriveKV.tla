---------------------------- MODULE MCOneDriveKV ----------------------------
(* Instances of OneDriveKV for TLC.                                        *)
EXTENDS OneDriveKV, TLC

CONSTANTS w1, r1

OneClient == {w1}
WriterAndReader == {w1, r1}

(* <<1>> is data that reads as a length word, 9 is a word no length        *)
(* reaches.                                                                *)
TwoValues == {<<1>>, <<9, 9>>}
=============================================================================
