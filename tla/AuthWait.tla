------------------------------ MODULE AuthWait ------------------------------
(***************************************************************************)
(* What oauth_token_request expects of get_authorize_code, whatever server *)
(* stands behind it: a wait that browsers may answer, that ends once, and  *)
(* that says how it ended.  The caller reads a code if there is one, and   *)
(* the error code of its thread if there is none.                          *)
(***************************************************************************)
CONSTANT Request

VARIABLES
    requests,   \* what browsers asked for
    hive_error, \* TRUE when the calling thread's error code is not 0
    result      \* "pending", "code" or "null"

vars == <<requests, hive_error, result>>

WithCode == {"code", "long_code"}

Init ==
    /\ requests = {}
    /\ hive_error \in BOOLEAN
    /\ result = "pending"

(* A request may be found wrong, and then is an error.                     *)
Receive(r) ==
    /\ result = "pending"
    /\ requests' = requests \cup {r}
    /\ hive_error' \in {hive_error, TRUE}
    /\ UNCHANGED result

(* Only a code that a browser brought.                                     *)
EndWithCode ==
    /\ result = "pending"
    /\ requests \cap WithCode # {}
    /\ result' = "code"
    /\ UNCHANGED <<requests, hive_error>>

EndWithError ==
    /\ result = "pending"
    /\ result' = "null"
    /\ hive_error' = TRUE
    /\ UNCHANGED requests

(* No code and no error, which the caller takes for success: no browser    *)
(* asked for anything, or one brought an empty code, also where another    *)
(* had brought a code before.                                              *)
EndSilently ==
    /\ result = "pending"
    /\ requests = {} \/ "empty_code" \in requests
    /\ ~hive_error
    /\ result' = "null"
    /\ UNCHANGED <<requests, hive_error>>

End == EndWithCode \/ EndWithError \/ EndSilently

Next == (\E r \in Request : Receive(r)) \/ End

Spec == Init /\ [][Next]_vars

(* One request is enough to end the wait.                                  *)
FairSpec == Spec /\ WF_vars(requests # {} /\ End)
=============================================================================
