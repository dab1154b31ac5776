---------------------------- MODULE HiveCmdProofs ----------------------------
(***************************************************************************)
(* Proofs about HiveCmd, for any number of connections one after the other *)
(* and files of any length.                                                *)
(***************************************************************************)
EXTENDS HiveCmd, TLAPS

-----------------------------------------------------------------------------
(* The connection.  An instance is alive only while connect points to it,  *)
(* which a connect can rely on because it is refused otherwise; the table  *)
(* of operations is chosen with the instance and never outlives it in use. *)

Alive == {h \in Handle : backend[h] # "none"}

ConnectionInv ==
    /\ pc \in {"start", "ended", "killed"} \cup Running
    /\ connect \in Handle \cup {NULL}
    /\ backend \in [Handle -> Backend \cup {"none"}]
    /\ pc = "start" => connect = NULL
    /\ pc \in {"start"} \cup Running => Alive = {connect} \ {NULL}
    /\ pc = "ended" => Alive = {}
    /\ connect # NULL /\ pc \in Running => ops = OpsOf(backend[connect])

LEMMA ConnectionInit == Init => ConnectionInv
  BY DEF Init, ConnectionInv, Alive, Running

(* The handle of an instance that is closed is the only one alive.         *)
LEMMA CloseLeavesNone ==
  ASSUME ConnectionInv, pc = "prompt", connect # NULL, Closed(connect)
  PROVE  Alive' = {} /\ backend' \in [Handle -> Backend \cup {"none"}]
<1>1. connect \in Handle /\ Alive = {connect}
  BY DEF ConnectionInv, Running
<1>2. \A h \in Handle : backend'[h] = IF h = connect THEN "none" ELSE backend[h]
  BY <1>1 DEF Closed, ConnectionInv
<1>3. Alive' = {}
  BY <1>1, <1>2 DEF Alive
<1>4. QED
  BY <1>3 DEF Closed, ConnectionInv

(* The same for an exit or a disconnect without a connection.              *)
LEMMA ClosedOrNone ==
  ASSUME ConnectionInv, pc = "prompt",
         IF connect # NULL THEN Closed(connect) ELSE UNCHANGED backend
  PROVE  Alive' = {} /\ backend' \in [Handle -> Backend \cup {"none"}]
<1>1. CASE connect # NULL
  BY <1>1, CloseLeavesNone
<1>2. CASE connect = NULL
  BY <1>2 DEF ConnectionInv, Alive, Running
<1>3. QED
  BY <1>1, <1>2

(* A connect that got an instance.                                         *)
LEMMA ConnectedInv ==
  ASSUME ConnectionInv, pc = "prompt", connect = NULL, NEW b \in Backend, Connected(b),
         pc' = pc
  PROVE  ConnectionInv'
<1>1. PICK h \in Handle : /\ backend[h] = "none"
                          /\ connect' = h
                          /\ backend' = [backend EXCEPT ![h] = b]
  BY DEF Connected
<1>2. h # NULL
  BY HandleAssumption
<1>3. \A g \in Handle : backend'[g] = IF g = h THEN b ELSE backend[g]
  BY <1>1 DEF ConnectionInv
<1>4. b # "none"
  BY DEF Backend
<1>5. Alive = {}
  BY DEF ConnectionInv, Running
<1>6. Alive' = {connect'} \ {NULL}
  BY <1>1, <1>2, <1>3, <1>4, <1>5 DEF Alive
<1>7. ops' = OpsOf(backend'[connect'])
  BY <1>1, <1>3 DEF Connected
<1>8. backend' \in [Handle -> Backend \cup {"none"}]
  BY <1>1 DEF ConnectionInv
<1>9. QED
  BY <1>1, <1>6, <1>7, <1>8 DEF ConnectionInv, Running

(* Steps that leave the session alone and the client running, or kill it.  *)
LEMMA SessionKept ==
  ASSUME ConnectionInv, UNCHANGED session,
         \/ pc' = pc
         \/ pc' = "killed"
         \/ pc \in Running /\ pc' \in Running
  PROVE  ConnectionInv'
  BY DEF ConnectionInv, Alive, session, Running

LEMMA ConnectionStep ==
  ASSUME ConnectionInv, [Next]_vars
  PROVE  ConnectionInv'
<1>1. CASE Start
  BY <1>1 DEF Start, ConnectionInv, Alive, Running
<1>2. CASE ClientConnect
  <2>1. pc = "prompt" /\ pc' = pc
    BY <1>2 DEF ClientConnect
  <2>2. CASE UNCHANGED <<connect, ops, backend>>
    BY <2>1, <2>2 DEF ConnectionInv, Alive
  <2>3. CASE connect = NULL /\ \E b \in Backend : Connected(b)
    BY <2>1, <2>3, ConnectedInv
  <2>4. QED
    BY <1>2, <2>2, <2>3 DEF ClientConnect
<1>3. CASE Disconnect
  <2>1. pc = "prompt" /\ pc' = pc /\ connect' = NULL
    BY <1>3 DEF Disconnect
  <2>2. Alive' = {} /\ backend' \in [Handle -> Backend \cup {"none"}]
    BY <1>3, <2>1, ClosedOrNone DEF Disconnect
  <2>3. QED
    BY <2>1, <2>2 DEF ConnectionInv
<1>4. CASE Operate \/ GetLength \/ Report
  <2>1. pc \in Running /\ pc' \in Running /\ UNCHANGED session
    BY <1>4 DEF Operate, GetLength, Report, Say, LibraryFails, Running
  <2>2. QED
    BY <2>1, SessionKept
<1>6. CASE ShowFile
  <2>1. pc \in Running /\ pc' \in Running /\ UNCHANGED session
    BY <1>6 DEF ShowFile, Say, LibraryFails, Running
  <2>2. QED
    BY <2>1, SessionKept
<1>7. CASE ShowContent
  <2>1. pc \in Running /\ pc' \in Running \cup {"killed"} /\ UNCHANGED session
    BY <1>7 DEF ShowContent, LibraryFails, Running
  <2>2. QED
    BY <2>1, SessionKept
<1>8. CASE Exit
  <2>1. pc' = "ended" /\ connect' = connect
    BY <1>8 DEF Exit
  <2>2. Alive' = {} /\ backend' \in [Handle -> Backend \cup {"none"}]
    BY <1>8, ClosedOrNone DEF Exit
  <2>3. QED
    BY <2>1, <2>2 DEF ConnectionInv, Running
<1>9. CASE Signal
  BY <1>9, SessionKept DEF Signal
<1>10. CASE UNCHANGED vars
  BY <1>10, SessionKept DEF vars
<1>11. QED
  BY <1>1, <1>2, <1>3, <1>4, <1>6, <1>7, <1>8, <1>9, <1>10 DEF Next

(* The only instance alive is the one commands use, and none is left when  *)
(* the client ends, whatever connects and disconnects went before.         *)
THEOREM ConnectionIsTheOnlyOne == Spec => []OneConnection
<1>1. ConnectionInv => OneConnection
  BY DEF ConnectionInv, OneConnection, Alive
<1>2. QED
  BY ConnectionInit, ConnectionStep, <1>1, PTL DEF Spec

(* The table of operations in use is the one of the connection's backend.  *)
THEOREM OpsFitConnection ==
    Spec => [](pc \in Running /\ connect # NULL => ops = OpsOf(backend[connect]))
<1>1. ConnectionInv =>
        (pc \in Running /\ connect # NULL => ops = OpsOf(backend[connect]))
  BY DEF ConnectionInv
<1>2. QED
  BY ConnectionInit, ConnectionStep, <1>1, PTL DEF Spec

-----------------------------------------------------------------------------
(* The terminator.  While the content of a file is fetched, the buffer has *)
(* one byte more than get_file_to_buffer was told.                         *)

TerminatorInv ==
    /\ size \in Nat /\ room \in Nat /\ end \in Nat
    /\ TerminatorInBounds
    /\ pc = "download" => size = room + 1

LEMMA BufferKept ==
  ASSUME TerminatorInv, UNCHANGED buffer, pc' = "download" => pc = "download"
  PROVE  TerminatorInv'
<1>1. UNCHANGED <<size, room, end>>
  BY DEF buffer
<1>2. QED
  BY <1>1 DEF TerminatorInv, TerminatorInBounds

LEMMA TerminatorStep ==
  ASSUME TerminatorInv, [Next]_vars
  PROVE  TerminatorInv'
<1>1. CASE Start \/ ClientConnect \/ Disconnect \/ Exit
  BY <1>1, BufferKept DEF Start, ClientConnect, Disconnect, Exit
<1>2. CASE Operate \/ GetLength \/ Report \/ Signal \/ UNCHANGED vars
  <2>1. UNCHANGED buffer /\ (pc' = pc \/ pc' # "download")
    BY <1>2 DEF Operate, GetLength, Report, Signal, vars, Say, LibraryFails
  <2>2. QED
    BY <2>1, BufferKept
<1>3. CASE ShowFile
  <2>1. CASE UNCHANGED buffer /\ pc' # "download"
    BY <2>1, BufferKept
  <2>2. CASE /\ \E len \in (1..MaxSize) \cup Bogus : size' = len + 1 /\ room' = len
             /\ end' = 0
    <3>1. PICK len \in Nat : size' = len + 1 /\ room' = len
      BY <2>2, MaxSizeAssumption DEF Bogus
    <3>2. end' = 0 /\ size' > 0
      BY <2>2, <3>1
    <3>3. QED
      BY <3>1, <3>2 DEF TerminatorInv, TerminatorInBounds
  <2>3. QED
    BY <1>3, <2>1, <2>2 DEF ShowFile, Say, LibraryFails
<1>4. CASE ShowContent
  <2>1. pc' # "download" /\ pc = "download"
    BY <1>4 DEF ShowContent, LibraryFails
  <2>2. CASE UNCHANGED buffer
    BY <2>1, <2>2, BufferKept
  <2>3. CASE /\ \E len \in (0..MaxSize) \cup Bogus :
                   /\ len \in 0..MaxSize => len <= room
                   /\ end' = len
             /\ UNCHANGED <<size, room>>
    <3>1. PICK len \in (0..MaxSize) \cup Bogus : (len \in 0..MaxSize => len <= room) /\ end' = len
      BY <2>3
    <3>2. len \in Nat /\ (len \notin Bogus => len < size)
      BY <2>1, <3>1, MaxSizeAssumption DEF Bogus, TerminatorInv
    <3>3. QED
      BY <2>1, <2>3, <3>1, <3>2 DEF TerminatorInv, TerminatorInBounds, Bogus
  <2>4. QED
    BY <1>4, <2>2, <2>3 DEF ShowContent
<1>5. QED
  BY <1>1, <1>2, <1>3, <1>4 DEF Next

(* The NUL behind the content is written inside the buffer, however the    *)
(* file changed since its length was asked for, unless the length is an    *)
(* error code.                                                             *)
THEOREM TerminatorFits == Spec => []TerminatorInBounds
<1>1. Init => TerminatorInv
  BY DEF Init, TerminatorInv, TerminatorInBounds
<1>2. TerminatorInv => TerminatorInBounds
  BY DEF TerminatorInv
<1>3. QED
  BY <1>1, <1>2, TerminatorStep, PTL DEF Spec

-----------------------------------------------------------------------------
(* The reason.  From the exit of the library function to the look-up the   *)
(* error of the thread is the one that exit stored; without this, the      *)
(* code left by a connect, or by hive_get_strerror, would be printed.      *)

ReasonInv == ReasonIsOwn /\ (pc = "report" => hive_error = failure)

LEMMA FailureStored ==
  ASSUME NEW e, LibraryFails(e)
  PROVE  ReasonInv'
  BY DEF LibraryFails, ReasonInv, ReasonIsOwn

LEMMA OtherwiseSaid ==
  ASSUME NEW s, s # "reason", said' = <<s>>, pc' # "report"
  PROVE  ReasonInv'
  BY DEF ReasonInv, ReasonIsOwn

LEMMA NotSaidAgain ==
  ASSUME ReasonInv, UNCHANGED <<said, failure>>, pc' # "report"
  PROVE  ReasonInv'
  BY DEF ReasonInv, ReasonIsOwn

LEMMA ReasonStep ==
  ASSUME ReasonInv, [Next]_vars
  PROVE  ReasonInv'
<1>1. CASE Start \/ Exit \/ Signal
  <2>1. UNCHANGED <<said, failure>> /\ pc' # "report"
    BY <1>1 DEF Start, Exit, Signal
  <2>2. QED
    BY <2>1, NotSaidAgain
<1>2. CASE UNCHANGED vars
  BY <1>2 DEF vars, ReasonInv, ReasonIsOwn
<1>3. CASE ClientConnect
  <2>1. pc' # "report"
    BY <1>3 DEF ClientConnect
  <2>2. said' = <<"exists">> \/ said' = <<"done">> \/ said' = <<"failed">>
    BY <1>3 DEF ClientConnect, Connected, Say
  <2>3. QED
    BY <2>1, <2>2, OtherwiseSaid
<1>4. CASE Disconnect
  BY <1>4, OtherwiseSaid DEF Disconnect, Say
<1>5. CASE Operate
  BY <1>5, OtherwiseSaid, FailureStored DEF Operate, Say
<1>6. CASE GetLength
  BY <1>6, OtherwiseSaid, FailureStored DEF GetLength, Say
<1>7. CASE ShowFile
  <2>1. CASE pc' = "download" /\ UNCHANGED <<failure, said>>
    BY <2>1, NotSaidAgain
  <2>2. QED
    BY <1>7, <2>1, OtherwiseSaid, FailureStored DEF ShowFile, Say
<1>8. CASE ShowContent
  <2>1. CASE said' = <<"done">> /\ pc' # "report"
    BY <2>1, OtherwiseSaid
  <2>2. QED
    BY <1>8, <2>1, FailureStored DEF ShowContent
<1>9. CASE Report
  <2>1. hive_error = failure /\ failure' = failure /\ pc' = "prompt"
    BY <1>9 DEF Report, ReasonInv
  <2>2. said' = IF HasText(failure) THEN <<"reason", failure>> ELSE <<"reason", NULL>>
    BY <1>9, <2>1 DEF Report
  <2>3. ReasonIsOwn'
    BY <2>1, <2>2 DEF ReasonIsOwn
  <2>4. QED
    BY <2>1, <2>3 DEF ReasonInv
<1>10. QED
  BY <1>1, <1>2, <1>3, <1>4, <1>5, <1>6, <1>7, <1>8, <1>9 DEF Next

(* The reason a command prints is what its own library call ran into,      *)
(* whatever earlier calls left in the error of the thread.                 *)
THEOREM ReasonIsOfThisCall == Spec => []ReasonIsOwn
<1>1. Init => ReasonInv
  BY DEF Init, ReasonInv, ReasonIsOwn
<1>2. ReasonInv => ReasonIsOwn
  BY DEF ReasonInv
<1>3. QED
  BY <1>1, <1>2, ReasonStep, PTL DEF Spec

-----------------------------------------------------------------------------
(* Types.  Past the start there are a configuration and an open client     *)
(* until deinit: the commands use them unchecked.                          *)

TypeInv ==
    /\ client \in {"none", "open", "closed"}
    /\ ops \in {NoOps, general_ops, ipfs_ops}
    /\ hive_error \in Error \cup {HIVEOK}
    /\ failure \in Error \cup {HIVEOK}
    /\ size \in 0..(MaxSize + 3)
    /\ room \in Length
    /\ end \in Length
    /\ pc \in Running => cfg # NULL /\ client = "open"

LEMMA ErrorsAreErrors ==
  /\ InvalidArgs \in Error /\ NotSupported \in Error
  /\ \A e \in BackendError \cup RedirectError : e \in Error
  /\ \A f, named : \A e \in Errors(f, named) : e \in Error
  BY DEF Error, Errors

LEMMA CodesKept ==
  ASSUME TypeInv,
         \/ \E s \in {"exists", "done", "no_connection", "unsupported"} : Say(s)
         \/ \E e \in Error : LibraryFails(e)
         \/ UNCHANGED <<hive_error, failure>>
  PROVE  hive_error' \in Error \cup {HIVEOK} /\ failure' \in Error \cup {HIVEOK}
<1> HIDE DEF Error, HIVEOK
<1>1. CASE \E s \in {"exists", "done", "no_connection", "unsupported"} : Say(s)
  BY <1>1 DEF Say, TypeInv
<1>2. CASE \E e \in Error : LibraryFails(e)
  BY <1>2 DEF LibraryFails
<1>3. CASE UNCHANGED <<hive_error, failure>>
  BY <1>3 DEF TypeInv
<1>4. QED
  BY <1>1, <1>2, <1>3

LEMMA TypeStep ==
  ASSUME TypeInv, [Next]_vars
  PROVE  TypeInv'
<1>1. CASE Start
  <2>1. UNCHANGED <<ops, hive_error, failure, size, room, end>>
    BY <1>1 DEF Start, buffer
  <2>2. \/ pc' = "ended" /\ client' \in {client, "open"}
        \/ cfg' \in NodeList /\ client' = "open"
    BY <1>1 DEF Start, ConfigFile
  <2>3. QED
    BY <2>1, <2>2, NodeAssumption DEF TypeInv, Running
<1>2. CASE ClientConnect
  <2>1. UNCHANGED <<pc, cfg, client, size, room, end>>
    BY <1>2 DEF ClientConnect, buffer
  <2>2. \/ Say("exists") /\ UNCHANGED ops
        \/ \E b \in Backend : Connected(b)
        \/ /\ hive_error' \in {hive_error} \cup BackendError \cup RedirectError
           /\ UNCHANGED <<ops, failure>>
    BY <1>2 DEF ClientConnect
  <2>3. hive_error' \in Error \cup {HIVEOK} /\ failure' \in Error \cup {HIVEOK}
    <3>1. CASE Say("exists")
      BY <3>1, CodesKept
    <3>2. CASE \E b \in Backend : Connected(b)
      <4>1. hive_error' \in {hive_error} \cup RedirectError /\ UNCHANGED failure
        BY <3>2 DEF Connected
      <4>2. QED
        BY <4>1, ErrorsAreErrors DEF TypeInv
    <3>3. CASE hive_error' \in {hive_error} \cup BackendError \cup RedirectError /\ UNCHANGED failure
      BY <3>3, ErrorsAreErrors DEF TypeInv
    <3>4. QED
      BY <2>2, <3>1, <3>2, <3>3
  <2>4. ops' \in {NoOps, general_ops, ipfs_ops}
    BY <2>2 DEF Connected, OpsOf, TypeInv
  <2>5. QED
    BY <2>1, <2>3, <2>4 DEF TypeInv, Running
<1>3. CASE Disconnect
  <2>1. UNCHANGED <<pc, cfg, client, ops, size, room, end>> /\ Say("done")
    BY <1>3 DEF Disconnect, buffer
  <2>2. QED
    BY <2>1, CodesKept DEF TypeInv
<1>4. CASE Operate \/ GetLength
  <2>1. pc = "prompt" /\ UNCHANGED <<cfg, client, ops, size, room, end>>
    BY <1>4 DEF Operate, GetLength, session, buffer
  <2>2. \/ \E s \in {"exists", "done", "no_connection", "unsupported"} : Say(s)
        \/ \E f, named : \E e \in Errors(f, named) : LibraryFails(e)
    BY <1>4 DEF Operate, GetLength
  <2>3. hive_error' \in Error \cup {HIVEOK} /\ failure' \in Error \cup {HIVEOK}
    BY <2>2, ErrorsAreErrors, CodesKept
  <2>4. QED
    BY <2>1, <2>3 DEF TypeInv, Running
<1>5. CASE ShowFile
  <2>1. UNCHANGED <<cfg, client, ops>> /\ pc = "prompt"
    BY <1>5 DEF ShowFile, session
  <2>2. \/ Say("no_connection")
        \/ \E e \in Errors(ops["show_file"], TRUE) : LibraryFails(e)
        \/ Say("done")
        \/ UNCHANGED <<hive_error, failure>>
    BY <1>5 DEF ShowFile
  <2>3. hive_error' \in Error \cup {HIVEOK} /\ failure' \in Error \cup {HIVEOK}
    BY <2>2, ErrorsAreErrors, CodesKept
  <2>4. \/ UNCHANGED <<size, room, end>>
        \/ /\ \E len \in (1..MaxSize) \cup Bogus : size' = len + 1 /\ room' = len
           /\ end' = 0
    BY <1>5 DEF ShowFile, buffer
  <2>5. size' \in 0..(MaxSize + 3) /\ room' \in Length /\ end' \in Length
    BY <2>4, MaxSizeAssumption DEF TypeInv, Length, Bogus
  <2>6. QED
    BY <2>1, <2>3, <2>5 DEF TypeInv, Running
<1>6. CASE ShowContent
  <2>1. UNCHANGED <<cfg, client, ops>> /\ pc = "download"
    BY <1>6 DEF ShowContent, session
  <2>2. (\E e \in BackendError : LibraryFails(e)) \/ UNCHANGED <<hive_error, failure>>
    BY <1>6 DEF ShowContent
  <2>3. hive_error' \in Error \cup {HIVEOK} /\ failure' \in Error \cup {HIVEOK}
    BY <2>2, ErrorsAreErrors, CodesKept
  <2>4. UNCHANGED <<size, room>> /\ (end' = end \/ end' \in Length)
    BY <1>6 DEF ShowContent, buffer, Length
  <2>5. QED
    BY <2>1, <2>3, <2>4 DEF TypeInv, Running
<1>7. CASE Exit
  <2>1. UNCHANGED <<ops, hive_error, failure, size, room, end>> /\ pc' = "ended"
        /\ client' = "closed"
    BY <1>7 DEF Exit, buffer
  <2>2. QED
    BY <2>1 DEF TypeInv, Running
<1>8. CASE Signal
  <2>1. UNCHANGED <<client, ops, hive_error, failure, size, room, end>> /\ pc' = "killed"
    BY <1>8 DEF Signal, session, buffer
  <2>2. QED
    BY <2>1 DEF TypeInv, Running
<1>9. CASE UNCHANGED vars
  BY <1>9 DEF vars, session, buffer, TypeInv
<1>10. CASE Report
  <2>1. UNCHANGED <<cfg, client, ops, failure, size, room, end>> /\ pc = "report"
    BY <1>10 DEF Report, session, buffer
  <2>2. hive_error' \in Error \cup {HIVEOK}
    BY <1>10, ErrorsAreErrors DEF Report, TypeInv
  <2>3. QED
    BY <2>1, <2>2 DEF TypeInv, Running
<1>11. QED
  BY <1>1, <1>2, <1>3, <1>4, <1>5, <1>6, <1>7, <1>8, <1>9, <1>10 DEF Next

(* Whatever was connected and disconnected before, the commands find a     *)
(* configuration, an open client and the operations of the connection.     *)
THEOREM TypeCorrect == Spec => []TypeOK
<1>1. Init => TypeInv
  BY MaxSizeAssumption DEF Init, TypeInv, Length, Running
<1>2. ConnectionInv /\ TypeInv => TypeOK
  BY DEF ConnectionInv, TypeInv, TypeOK
<1>3. QED
  BY ConnectionInit, ConnectionStep, TypeStep, <1>1, <1>2, PTL DEF Spec
=============================================================================
