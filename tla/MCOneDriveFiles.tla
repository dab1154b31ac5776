--------------------------- MODULE MCOneDriveFiles ---------------------------
(* OneDriveFiles has numeric bounds only; the cfg file gives them.         *)
EXTENDS OneDriveFiles
=============================================================================
