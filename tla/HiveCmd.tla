------------------------------- MODULE HiveCmd -------------------------------
(***************************************************************************)
(* hivecmd (apps/cmd), the client that drives the library from a prompt,   *)
(* with the layer of the library it meets: hive_client.c, the dispatch in  *)
(* hive_file.c and hive_key.c, and the error code and texts of             *)
(* hive_error.c and http_status.c.  One command at a time runs in the only *)
(* thread; what the backends do is HiveFile, OneDriveKV and the others,    *)
(* and only their outcome is chosen here.  A command with a wrong number   *)
(* of words, an unknown one and "help" change nothing and are left out.    *)
(***************************************************************************)
EXTENDS Naturals, Sequences, FiniteSets

CONSTANTS
    Handle,     \* addresses of HiveConnect instances
    NULL,
    MaxSize     \* bound: the length of a file

ASSUME HandleAssumption == NULL \notin Handle
ASSUME MaxSizeAssumption == MaxSize \in Nat

VARIABLES
    pc,         \* "start", "prompt", "download", "report", "ended" or "killed"
    cfg,        \* the configuration: its nodes, or NULL
    client,     \* "none", "open" or "closed"
    connect,    \* ctx.connect
    ops,        \* ctx.ops
    backend,    \* by handle, "none" when no instance is there
    hive_error, \* the error code of the thread
    failure,    \* observer: what the library call that failed last ran into
    said,       \* what the last command printed
    size,       \* bytes malloc'ed for the last file that was shown
    room,       \* the size get_file_to_buffer was told
    end         \* offset of the NUL written behind the content

buffer == <<size, room, end>>
session == <<cfg, client, connect, ops, backend>>
vars == <<pc, session, hive_error, failure, said, buffer>>

Backend == {"onedrive", "ipfs"}
HIVEOK == <<"none", "ok">>

(* The prompt was reached: between commands, or inside one.                *)
Running == {"prompt", "download", "report"}

-----------------------------------------------------------------------------
(* Errors and their texts                                                  *)

(* Per facility, the codes its function has a text for.  An answer may     *)
(* carry a status the table of http_status.c does not list.                *)
error_codes == {"invalid_args", "not_supported", "out_of_memory", "try_again",
                "bad_address", "invalid_credential"}
status_codes == {"listed"}
facility_codes == [general |-> error_codes, system |-> {"errno"},
                   curl |-> {"transport"}, http |-> status_codes]

(* Errors a backend, or the local half of an operation, returns.           *)
BackendError == {<<"general", "out_of_memory">>, <<"general", "try_again">>, <<"system", "errno">>,
                 <<"curl", "transport">>, <<"http", "listed">>, <<"http", "unlisted">>}
InvalidArgs == <<"general", "invalid_args">>
NotSupported == <<"general", "not_supported">>

(* What the redirect server stores while a connect waits for the browser,  *)
(* also one that gets its code in the end.                                 *)
RedirectError == {<<"general", "bad_address">>, <<"general", "invalid_credential">>}

Error == BackendError \cup RedirectError \cup {InvalidArgs, NotSupported}

(* hive_get_strerror into the 1024 bytes of errbuf: NULL, and an error of  *)
(* its own in place of the one it was asked for, when there is no text.    *)
HasText(e) == e[1] \in DOMAIN facility_codes /\ e[2] \in facility_codes[e[1]]

Say(s) == said' = <<s>> /\ pc' = "prompt" /\ UNCHANGED <<hive_error, failure>>

(* Variant of LibraryFails for an exit that returns -1 and sets no error,  *)
(* as those of a failing connect do.                                       *)
LibraryFailsUnset(e) ==
    /\ failure' = e
    /\ said' = <<"nothing">>
    /\ pc' = "report"
    /\ UNCHANGED hive_error

(* Every exit of the functions of hive_file.c and hive_key.c that returns  *)
(* -1 has stored the error e before: for wrong arguments, for a function   *)
(* the backend does not have, and for what the backend returned.           *)
LibraryFails(e) ==
    /\ failure' = e
    /\ hive_error' = e
    /\ said' = <<"nothing">>
    /\ pc' = "report"

(* The command got -1 and looks for the reason in the error of the thread: *)
(* console("... Reason: %s.", hive_get_strerror(hive_get_error(), ...))    *)
Report ==
    /\ pc = "report"
    /\ pc' = "prompt"
    /\ IF HasText(hive_error) THEN said' = <<"reason", hive_error>> /\ UNCHANGED hive_error
       ELSE said' = <<"reason", NULL>> /\ hive_error' = InvalidArgs
    /\ UNCHANGED <<session, failure, buffer>>

-----------------------------------------------------------------------------
(* The functions of a connection, and the two tables of the client         *)

file_functions == {"put_file_from_buffer", "get_file_length", "get_file_to_buffer",
                   "list_files", "delete_file"}
value_functions == {"put_value", "set_value", "get_values", "delete_key"}
ipfs_functions == {"ipfs_put_file_from_buffer", "ipfs_get_file_length", "ipfs_get_file_to_buffer"}
Provided == [onedrive |-> file_functions \cup value_functions, ipfs |-> ipfs_functions,
             none |-> {}]

general_ops == [put_file |-> "put_file_from_buffer", get_len |-> "get_file_length",
                get_file |-> "get_file_length", show_file |-> "get_file_length",
                ls |-> "list_files", del_file |-> "delete_file", put_val |-> "put_value",
                set_val |-> "set_value", get_val |-> "get_values", del_key |-> "delete_key"]
ipfs_ops == [put_file |-> "ipfs_put_file_from_buffer", get_len |-> "ipfs_get_file_length",
             get_file |-> "ipfs_get_file_length", show_file |-> "ipfs_get_file_length"]
NoOps == [none |-> ""]

Command == DOMAIN general_ops
OpsOf(b) == IF b = "onedrive" THEN general_ops ELSE ipfs_ops

-----------------------------------------------------------------------------

Init ==
    /\ pc = "start"
    /\ cfg = NULL
    /\ client = "none"
    /\ connect = NULL
    /\ ops = NoOps
    /\ backend = [h \in Handle |-> "none"]
    /\ hive_error = HIVEOK
    /\ failure = HIVEOK
    /\ said = <<"nothing">>
    /\ size = 0
    /\ room = 0
    /\ end = 0

(* A node of the file: which of "ipv4", "ipv6" and "port" it has.          *)
NodeEntry == SUBSET {"ipv4", "ipv6", "port"}
NodeList == UNION {[1..n -> NodeEntry] : n \in 0..2}
ConfigFile == [readable : BOOLEAN, location : BOOLEAN, nodes : NodeList]

ASSUME NodeAssumption == NULL \notin NodeList

(* load_config accepts a file with a directory and at least one node, each *)
(* with an address; a missing port is NULL in the node.                    *)
Loadable(f) ==
    /\ f.readable
    /\ f.location
    /\ f.nodes # <<>>
    /\ \A i \in DOMAIN f.nodes : f.nodes[i] \cap {"ipv4", "ipv6"} # {}

(* main up to the prompt: load_config, mkdir, hive_client_new.             *)
Start ==
    /\ pc = "start"
    /\ \E f \in ConfigFile :
          \/ /\ Loadable(f)
             /\ cfg' = f.nodes
             /\ \/ pc' = "prompt" /\ client' = "open"
                \/ pc' = "ended" /\ UNCHANGED client    \* no directory, no memory
          \/ pc' = "ended" /\ UNCHANGED <<cfg, client>>
    /\ UNCHANGED <<connect, ops, backend, hive_error, failure, said, buffer>>

(* Variant of Connected that leaves the operations of the last connection. *)
ConnectedKeepsOps(b) ==
    /\ \E h \in {h \in Handle : backend[h] = "none"} :
          /\ connect' = h
          /\ backend' = [backend EXCEPT ![h] = b]
    /\ ops' = IF ops = NoOps THEN OpsOf(b) ELSE ops
    /\ said' = <<"done">>
    /\ hive_error' \in {hive_error} \cup IF b = "onedrive" THEN RedirectError ELSE {}
    /\ UNCHANGED failure

Connected(b) ==
    /\ \E h \in {h \in Handle : backend[h] = "none"} :
          /\ connect' = h
          /\ backend' = [backend EXCEPT ![h] = b]
    /\ ops' = OpsOf(b)
    /\ said' = <<"done">>
    /\ hive_error' \in {hive_error} \cup IF b = "onedrive" THEN RedirectError ELSE {}
    /\ UNCHANGED failure

(* client_connect.  An IPFS node without a port is refused, with no error  *)
(* set; so may be any other connect, with or without one, and the command  *)
(* prints no reason.                                                       *)
ClientConnect ==
    /\ pc = "prompt"
    /\ IF connect # NULL THEN Say("exists") /\ UNCHANGED <<connect, ops, backend>>
       ELSE \E b \in Backend :
               \/ /\ b = "ipfs" => \A i \in DOMAIN cfg : "port" \in cfg[i]
                  /\ Connected(b)
               \/ /\ hive_error' \in {hive_error} \cup BackendError \cup RedirectError
                  /\ said' = <<"failed">>
                  /\ UNCHANGED <<connect, ops, backend, failure>>
    /\ UNCHANGED <<pc, cfg, client, buffer>>

Closed(h) == backend' = [backend EXCEPT ![h] = "none"]

(* Variant of Disconnect that keeps the pointer.                           *)
DisconnectKeepsPointer ==
    /\ pc = "prompt"
    /\ Say("done")
    /\ IF connect # NULL THEN Closed(connect) ELSE UNCHANGED backend
    /\ UNCHANGED <<pc, cfg, client, connect, ops, buffer>>

Disconnect ==
    /\ pc = "prompt"
    /\ Say("done")
    /\ IF connect # NULL THEN Closed(connect) /\ connect' = NULL
       ELSE UNCHANGED <<backend, connect>>
    /\ UNCHANGED <<pc, cfg, client, ops, buffer>>

-----------------------------------------------------------------------------
(* The commands that need a connection                                     *)

(* What may go wrong in the function f: its arguments (a put to OneDrive   *)
(* without a name for the file), a connection without it, the backend.     *)
Errors(f, named) ==
    IF f = "put_file_from_buffer" /\ ~named THEN {InvalidArgs}
    ELSE IF f \notin Provided[backend[connect]] THEN {NotSupported}
    ELSE BackendError

(* put_file, delete_file, list_files and the four commands on values: the  *)
(* last six look first whether the table has the function.                 *)
Operate ==
    /\ pc = "prompt"
    /\ \E c \in Command \ {"get_len", "get_file", "show_file"}, named \in BOOLEAN :
          \/ connect = NULL /\ Say("no_connection")
          \/ connect # NULL /\ c \notin DOMAIN ops /\ Say("unsupported")
          \/ /\ connect # NULL
             /\ c \in DOMAIN ops
             /\ \/ \E e \in Errors(ops[c], named) : LibraryFails(e)
                \/ Errors(ops[c], named) = BackendError /\ Say("done")
    /\ UNCHANGED <<session, buffer>>

(* Error codes that come as lengths, larger than any file and not all the  *)
(* same (see HiveFile).                                                    *)
Bogus == {MaxSize + 1, MaxSize + 2}

(* get_length, and get_file with a path.                                   *)
GetLength ==
    /\ pc = "prompt"
    /\ \E c \in {"get_len", "get_file"} :
          IF connect = NULL THEN Say("no_connection")
          ELSE \/ \E e \in Errors(ops[c], TRUE) : LibraryFails(e)
               \/ Errors(ops[c], TRUE) = BackendError /\ Say("done")
    /\ UNCHANGED <<session, buffer>>

(* Variant of ShowFile whose buffer has no room for the NUL.               *)
ShowFileTight ==
    /\ pc = "prompt"
    /\ connect # NULL
    /\ Errors(ops["show_file"], TRUE) = BackendError
    /\ \E len \in (1..MaxSize) \cup Bogus : size' = len /\ room' = len
    /\ end' = 0
    /\ pc' = "download"
    /\ UNCHANGED <<session, hive_error, failure, said>>

(* get_file without a path: the length first.                              *)
ShowFile ==
    /\ pc = "prompt"
    /\ IF connect = NULL THEN Say("no_connection") /\ UNCHANGED buffer
       ELSE \/ /\ \E e \in Errors(ops["show_file"], TRUE) : LibraryFails(e)
               /\ UNCHANGED buffer
            \/ /\ Errors(ops["show_file"], TRUE) = BackendError
               /\ Say("done")                           \* empty, or no memory
               /\ UNCHANGED buffer
            \/ /\ Errors(ops["show_file"], TRUE) = BackendError
               /\ \E len \in (1..MaxSize) \cup Bogus : size' = len + 1 /\ room' = len
               /\ end' = 0
               /\ pc' = "download"
               /\ UNCHANGED <<hive_error, failure, said>>
    /\ UNCHANGED session

(* get_file_to_buffer, with the length as the size of the buffer.  Another *)
(* client may have replaced the file: what does not fit is refused with a  *)
(* code that comes as a length, and buf[len] = '\0' is written there; the  *)
(* process may die of it.                                                  *)
ShowContent ==
    /\ pc = "download"
    /\ \/ /\ \E e \in BackendError : LibraryFails(e)
          /\ UNCHANGED buffer
       \/ /\ \E len \in (0..MaxSize) \cup Bogus :
                /\ len \in 0..MaxSize => len <= room
                /\ end' = len
          /\ pc' \in {"prompt"} \cup (IF end' < size THEN {} ELSE {"killed"})
          /\ said' = <<"done">>
          /\ UNCHANGED <<hive_error, failure, size, room>>
    /\ UNCHANGED session

(* "exit" or the end of the input, and deinit.                             *)
Exit ==
    /\ pc = "prompt"
    /\ pc' = "ended"
    /\ cfg' = NULL
    /\ client' = "closed"
    /\ IF connect # NULL THEN Closed(connect) ELSE UNCHANGED backend
    /\ UNCHANGED <<connect, ops, hive_error, failure, said, buffer>>

(* signal_handler: exit without deinit.                                    *)
Signal ==
    /\ pc \in {"start"} \cup Running
    /\ pc' = "killed"
    /\ UNCHANGED <<session, hive_error, failure, said, buffer>>

Next ==
    \/ Start \/ ClientConnect \/ Disconnect
    \/ Operate \/ GetLength \/ ShowFile \/ ShowContent \/ Report
    \/ Exit \/ Signal

Spec == Init /\ [][Next]_vars

-----------------------------------------------------------------------------
(* Properties.                                                             *)

Length == (0..MaxSize) \cup Bogus

(* Types, and the table of operations is the one of the connection's       *)
(* backend, whatever was connected and disconnected before.                *)
TypeOK ==
    /\ pc \in {"start", "ended", "killed"} \cup Running
    /\ client \in {"none", "open", "closed"}
    /\ connect \in Handle \cup {NULL}
    /\ ops \in {NoOps, general_ops, ipfs_ops}
    /\ backend \in [Handle -> Backend \cup {"none"}]
    /\ hive_error \in Error \cup {HIVEOK}
    /\ failure \in Error \cup {HIVEOK}
    /\ size \in 0..(MaxSize + 3)
    /\ room \in Length
    /\ end \in Length
    /\ pc \in Running =>
          /\ cfg # NULL
          /\ client = "open"
          /\ connect # NULL => ops = OpsOf(backend[connect])

(* Whatever sequence of connects, failed connects and disconnects went     *)
(* before, the only instance alive is the one commands use, and none is    *)
(* left when the client ends.                                              *)
OneConnection ==
    LET alive == {h \in Handle : backend[h] # "none"}
    IN  /\ pc \in Running => alive = {connect} \ {NULL}
        /\ pc = "ended" => alive = {}

(* The reason a command prints is what its own library call ran into, and  *)
(* not what an earlier call, a connect that failed without storing an      *)
(* error, or hive_get_strerror itself left in the thread; it is none only  *)
(* when the code of that failure has no text.                              *)
ReasonIsOwn ==
    said[1] = "reason" => said[2] = IF HasText(failure) THEN failure ELSE NULL

(* However the file changes between the two calls of get_file, the NUL is  *)
(* written inside the buffer whenever the second one returned a length,    *)
(* and not an error code that looks like one.                              *)
TerminatorInBounds == size # 0 /\ end \notin Bogus => end < size
=============================================================================
