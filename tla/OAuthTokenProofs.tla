-------------------------- MODULE OAuthTokenProofs --------------------------
(***************************************************************************)
(* Proofs about OAuthToken, for any number of connections, client ids and  *)
(* grants.                                                                 *)
(***************************************************************************)
EXTENDS OAuthToken, TLAPS

-----------------------------------------------------------------------------
(* The inductive invariant.  A zeroed expires_at marks every oauth_token   *)
(* that must not send: one without tokens and one whose grant was refused. *)
(* What is known of the grants a connection holds is known of the one in   *)
(* the keystore too, because the next process restores that one.           *)

Sound(c) ==
    /\ token[c] \in 0..issued
    /\ refused[c] \in SUBSET (1..issued)
    /\ token[c] = 0 => zeroed[c]
    /\ token[c] \in refused[c] => zeroed[c]
    /\ token[c] # 0 => owner[token[c]] = AppOf[c]
    /\ pc[c] \in {"open", "write", "send"} => ~zeroed[c]
    /\ pc[c] \in {"off", "load"} => refused[c] = {}

TokenInv == \A c \in Conn : Sound(c)

KeystoreInv ==
    keystore.kind = "json" =>
        /\ keystore.grant \in 1..issued
        /\ owner[keystore.grant] = keystore.app

IInv == TypeOK /\ TokenInv /\ KeystoreInv

-----------------------------------------------------------------------------

(* The freshly started processes, with no keystore, have their types.      *)
LEMMA TypeInit == Init => TypeOK
  BY AppOfAssumption, NoAppAssumption, MaxGrantAssumption
  DEF Init, TypeOK, Pc, Grant, Keystore, Absent

(* TypeOK is preserved by the calls of the application.                    *)
LEMMA TypeUser ==
  ASSUME TypeOK, NEW c \in Conn, UserStep(c)
  PROVE  TypeOK'
<1> USE AppOfAssumption, MaxGrantAssumption
<1> USE DEF TypeOK, Pc, Grant
<1>1. CASE Connect(c)
  BY <1>1 DEF Connect, server
<1>2. CASE Call(c)
  BY <1>2 DEF Call, server
<1>3. CASE SetExpired(c)
  BY <1>3 DEF SetExpired, server
<1>4. CASE OtherCall(c)
  BY <1>4 DEF OtherCall, server
<1>5. CASE Disconnect(c)
  BY <1>5 DEF Disconnect, Discard, server
<1>6. QED
  BY <1>1, <1>2, <1>3, <1>4, <1>5 DEF UserStep

(* What hive_get_error() may say after a wait that sets an error or not.   *)
LEMMA ErrorCode ==
  ASSUME TypeOK, NEW c \in Conn, NEW err \in {hive_error[c], TRUE}
  PROVE  err \in BOOLEAN
  BY DEF TypeOK

(* TypeOK is preserved by a wait that ends without a code.                 *)
LEMMA TypeNoCode ==
  ASSUME TypeOK, NEW c \in Conn, NEW err \in BOOLEAN, NoCode(c, err)
  PROVE  TypeOK'
<1> USE MaxGrantAssumption DEF TypeOK, Pc, Grant
<1>1. CASE err = TRUE
  <2>1. ConnectFails(c, TRUE) /\ UNCHANGED <<keystore, server, lapsed>>
    BY <1>1 DEF NoCode
  <2>2. QED
    BY <2>1 DEF ConnectFails, Discard, server
<1>2. CASE err = FALSE
  <2>1. ConnectReturns(c) /\ UNCHANGED <<token, zeroed, refused, hive_error, unsaved>>
        /\ UNCHANGED <<keystore, server, lapsed>>
    BY <1>2 DEF NoCode
  <2>2. QED
    BY <2>1 DEF ConnectReturns, server
<1>3. QED
  BY <1>1, <1>2

(* TypeOK is preserved by onedrive_client_connect.                         *)
LEMMA TypeConnect ==
  ASSUME TypeOK, NEW c \in Conn, ConnectStep(c)
  PROVE  TypeOK'
<1> USE AppOfAssumption, MaxGrantAssumption
<1> USE DEF TypeOK, Pc, Grant
<1>1. CASE ConnectRefused(c)
  BY <1>1 DEF ConnectRefused, ConnectFails, Discard, server
<1>2. CASE Load(c)
  <2>1. CASE ConnectFails(c, TRUE)
    BY <1>2, <2>1 DEF Load, ConnectFails, Discard, server
  <2>2. CASE pc' = [pc EXCEPT ![c] = "request"]
    <3>1. RestoredGrant(c) \in 0..MaxGrant
      BY DEF RestoredGrant, Keystore
    <3>2. pc' # [pc EXCEPT ![c] = "off"]
      BY <2>2
    <3>3. /\ token' = [token EXCEPT ![c] = RestoredGrant(c)]
          /\ zeroed' = [zeroed EXCEPT ![c] = RestoredGrant(c) = 0]
          /\ UNCHANGED <<handle, refused, hive_error, result, unsaved>>
          /\ UNCHANGED <<keystore, server, lapsed>>
          /\ pc[c] = "load"
      BY <1>2, <3>2 DEF Load, ConnectFails, Discard
    <3>4. /\ token' \in [Conn -> 0..MaxGrant]
          /\ zeroed' \in [Conn -> BOOLEAN]
          /\ pc' \in [Conn -> Pc]
      BY <2>2, <3>1, <3>3
    <3>5. \A d \in Conn :
            /\ pc'[d] \in {"off", "load", "request", "authorize", "redeem"} => ~handle'[d]
            /\ pc'[d] \in {"idle", "check", "refresh", "send"} => handle'[d]
      BY <2>2, <3>3
    <3>6. QED
      BY <3>3, <3>4, <3>5 DEF server
  <2>3. QED
    BY <1>2, <2>1, <2>2 DEF Load
<1>3. CASE AlreadyAuthorized(c)
  BY <1>3 DEF AlreadyAuthorized, ConnectReturns, server
<1>4. CASE AskUser(c)
  BY <1>4 DEF AskUser, server
<1>5. CASE NoServer(c)
  BY <1>5, TypeNoCode DEF NoServer
<1>6. CASE UserGaveNoCode(c)
  BY <1>6, TypeNoCode DEF UserGaveNoCode
<1>7. CASE UserGaveCode(c)
  <2>1. PICK err \in {hive_error[c], TRUE} : hive_error' = [hive_error EXCEPT ![c] = err]
    BY <1>7 DEF UserGaveCode
  <2>2. err \in BOOLEAN
    <3> HIDE DEF TypeOK
    <3>1. QED
      BY <2>1, ErrorCode
  <2>3. hive_error' \in [Conn -> BOOLEAN]
    BY <2>1, <2>2
  <2>4. QED
    BY <1>7, <2>3 DEF UserGaveCode, server
<1>8. CASE Redeem(c)
  BY <1>8 DEF Redeem, TakeGrant
<1>9. CASE RedeemFails(c)
  BY <1>9 DEF RedeemFails, ConnectFails, Discard, server
<1>10. QED
  BY <1>1, <1>2, <1>3, <1>4, <1>5, <1>6, <1>7, <1>8, <1>9 DEF ConnectStep

(* TypeOK is preserved by the return of writeback_tokens to its caller.    *)
LEMMA TypeWritebackDone ==
  ASSUME TypeOK, NEW c \in Conn, NEW failed \in BOOLEAN, WritebackDone(c, failed),
         keystore' \in Keystore,
         UNCHANGED <<token, zeroed, refused, hive_error, server, lapsed>>
  PROVE  TypeOK'
<1> USE DEF TypeOK, Pc, Grant, server
<1>1. unsaved' \in [Conn -> BOOLEAN]
  BY DEF WritebackDone
<1>2. CASE handle[c]
  BY <1>1, <1>2 DEF WritebackDone
<1>3. CASE ~handle[c]
  <2>1. /\ pc' = [pc EXCEPT ![c] = "idle"]
        /\ handle' = [handle EXCEPT ![c] = TRUE]
        /\ result' = [result EXCEPT ![c] = "ok"]
    BY <1>3 DEF WritebackDone, ConnectReturns
  <2>2. /\ pc' \in [Conn -> Pc]
        /\ handle' \in [Conn -> BOOLEAN]
        /\ result' \in [Conn -> {"none", "ok", "failed", "try_again"}]
    BY <2>1
  <2>3. \A d \in Conn :
          /\ pc'[d] \in {"off", "load", "request", "authorize", "redeem"} => ~handle'[d]
          /\ pc'[d] \in {"idle", "check", "refresh", "send"} => handle'[d]
    BY <2>1
  <2>4. QED
    BY <1>1, <2>2, <2>3
<1>4. QED
  BY <1>2, <1>3

(* TypeOK is preserved by oauth_writeback.                                 *)
LEMMA TypeWriteback ==
  ASSUME TypeOK, NEW c \in Conn, WritebackStep(c)
  PROVE  TypeOK'
<1>1. Torn \in Keystore
  BY MaxGrantAssumption DEF Torn, Keystore
<1>2. keystore \in Keystore
  BY DEF TypeOK
<1>2a. Written(c) \in Keystore
  BY <1>2, AppOfAssumption DEF Written, Keystore, Stored, TypeOK
<1>3. CASE Open(c)
  BY <1>1, <1>3 DEF Open, TypeOK, Pc, server
<1>4. CASE OpenFails(c)
  <2>1. WritebackDone(c, TRUE) /\ keystore' = keystore
        /\ UNCHANGED <<token, zeroed, refused, hive_error, server, lapsed>>
    BY <1>4 DEF OpenFails
  <2>2. QED
    BY <1>2, <2>1, TypeWritebackDone
<1>5. CASE Write(c)
  BY <1>2a, <1>5, TypeWritebackDone DEF Write
<1>6. CASE WriteFails(c)
  <2>1. WritebackDone(c, TRUE) /\ keystore' \in {keystore, Torn, Written(c)}
        /\ UNCHANGED <<token, zeroed, refused, hive_error, server, lapsed>>
    BY <1>6 DEF WriteFails
  <2>2. QED
    BY <1>1, <1>2, <1>2a, <2>1, TypeWritebackDone
<1>7. QED
  BY <1>3, <1>4, <1>5, <1>6 DEF WritebackStep

(* TypeOK is preserved by an operation and its requests.                   *)
LEMMA TypeOperation ==
  ASSUME TypeOK, NEW c \in Conn, OperationStep(c)
  PROVE  TypeOK'
<1> USE AppOfAssumption, MaxGrantAssumption
<1> USE DEF TypeOK, Pc, Grant
<1>1. CASE CheckExpire(c)
  BY <1>1 DEF CheckExpire, server
<1>2. CASE Refresh(c)
  BY <1>2 DEF Refresh, TakeGrant
<1>3. CASE RefreshFails(c)
  BY <1>3 DEF RefreshFails, OperationFails, server
<1>4. CASE Accepted(c)
  BY <1>4 DEF Accepted, server
<1>5. CASE Unauthorized(c)
  BY <1>5 DEF Unauthorized, OperationFails, server
<1>6. CASE OtherError(c)
  BY <1>6 DEF OtherError, OperationFails, server
<1>7. CASE EmptyAnswer(c)
  BY <1>7 DEF EmptyAnswer, server
<1>8. QED
  BY <1>1, <1>2, <1>3, <1>4, <1>5, <1>6, <1>7 DEF OperationStep

(* TypeOK is preserved by a crash of the process.                          *)
LEMMA TypeCrash ==
  ASSUME TypeOK, NEW c \in Conn, Crash(c)
  PROVE  TypeOK'
  BY MaxGrantAssumption DEF TypeOK, Pc, Grant, Crash, Discard, server

(* TypeOK is preserved by the clock and the service.                       *)
LEMMA TypeEnvironment ==
  ASSUME TypeOK, NEW g \in Grant, Lapse(g) \/ Revoke(g)
  PROVE  TypeOK'
  BY DEF TypeOK, Grant, Lapse, Revoke, local, server

(* Every state of the OAuth session has its type, and the handle exists    *)
(* exactly between the return of onedrive_client_connect and deref.        *)
THEOREM TypeCorrect == Spec => []TypeOK
<1>1. TypeOK /\ [Next]_vars => TypeOK'
  <2> SUFFICES ASSUME TypeOK, [Next]_vars PROVE TypeOK'
    OBVIOUS
  <2>1. CASE Next
    BY <2>1, TypeUser, TypeConnect, TypeWriteback, TypeOperation, TypeCrash,
       TypeEnvironment
       DEF Next
  <2>2. CASE UNCHANGED vars
    BY <2>2 DEF TypeOK, vars, local, server
  <2>3. QED
    BY <2>1, <2>2
<1>2. QED
  BY TypeInit, <1>1, PTL DEF Spec

-----------------------------------------------------------------------------

(* A step of c that leaves the fields of the other connections alone, and  *)
(* the client ids of the grants issued so far, only has to keep c sound.   *)
LEMMA Locality ==
  ASSUME TokenInv, NEW c \in Conn, Sound(c)',
         issued \in Nat, issued' \in Nat, issued <= issued',
         \A g \in 1..issued : owner'[g] = owner[g],
         \A d \in Conn \ {c} :
            /\ token'[d] = token[d] /\ zeroed'[d] = zeroed[d]
            /\ refused'[d] = refused[d] /\ pc'[d] = pc[d]
  PROVE  TokenInv'
<1> SUFFICES ASSUME NEW d \in Conn \ {c} PROVE Sound(d)'
  BY DEF TokenInv
<1>1. Sound(d)
  BY DEF TokenInv
<1>2. token[d] \in 0..issued' /\ refused[d] \in SUBSET (1..issued')
  BY <1>1 DEF Sound
<1>3. token[d] # 0 => owner'[token[d]] = AppOf[d]
  BY <1>1 DEF Sound
<1>4. QED
  BY <1>1, <1>2, <1>3 DEF Sound

(* A new grant of c keeps every connection sound, and the keystore.        *)
LEMMA InvTakeGrant ==
  ASSUME IInv, NEW c \in Conn, TakeGrant(c), pc[c] \in {"redeem", "refresh"},
         UNCHANGED <<refused, keystore>>
  PROVE  TokenInv' /\ KeystoreInv'
<1>1. /\ issued \in Nat /\ issued' = issued + 1 /\ issued' \in Grant
      /\ token' = [token EXCEPT ![c] = issued + 1] /\ token \in [Conn -> 0..MaxGrant]
      /\ zeroed' = [zeroed EXCEPT ![c] = FALSE] /\ zeroed \in [Conn -> BOOLEAN]
      /\ pc' = [pc EXCEPT ![c] = "open"] /\ pc \in [Conn -> Pc]
      /\ owner' = [owner EXCEPT ![issued + 1] = AppOf[c]] /\ DOMAIN owner = Grant
  BY MaxGrantAssumption DEF IInv, TypeOK, TakeGrant, Grant
<1>2. \A g \in 1..issued : owner'[g] = owner[g]
  BY <1>1
<1>3. Sound(c)
  BY DEF IInv, TokenInv
<1>4. /\ token'[c] = issued' /\ owner'[issued'] = AppOf[c]
      /\ ~zeroed'[c] /\ pc'[c] = "open" /\ refused'[c] = refused[c]
  BY <1>1
<1>5. issued' \notin refused[c] /\ refused[c] \in SUBSET (1..issued')
  BY <1>1, <1>3 DEF Sound
<1>6. Sound(c)'
  BY <1>1, <1>4, <1>5 DEF Sound
<1>7. \A d \in Conn \ {c} :
        /\ token'[d] = token[d] /\ zeroed'[d] = zeroed[d]
        /\ refused'[d] = refused[d] /\ pc'[d] = pc[d]
  BY <1>1
<1>8. TokenInv'
  <2>1. issued' \in Nat /\ issued <= issued'
    BY <1>1
  <2>2. TokenInv /\ issued \in Nat
    BY <1>1 DEF IInv
  <2>3. QED
    BY <2>1, <2>2, <1>2, <1>6, <1>7, Locality
<1>9. KeystoreInv'
  BY <1>1, <1>2 DEF IInv, KeystoreInv
<1>10. QED
  BY <1>8, <1>9

(* A connection whose writeback is over stays sound with the same tokens.  *)
LEMMA InvWritten ==
  ASSUME IInv, NEW c \in Conn, NEW failed \in BOOLEAN, WritebackDone(c, failed),
         pc[c] \in {"open", "write"}, UNCHANGED <<token, zeroed, refused, server>>
  PROVE  TokenInv'
<1>1. issued \in Nat /\ issued' = issued /\ owner' = owner
  BY MaxGrantAssumption DEF IInv, TypeOK, server
<1>2. pc' = [pc EXCEPT ![c] = "send"] \/ pc' = [pc EXCEPT ![c] = "idle"]
  BY DEF WritebackDone, ConnectReturns
<1>3. pc \in [Conn -> Pc]
  BY DEF IInv, TypeOK
<1>4. pc'[c] \in {"send", "idle"} /\ \A d \in Conn \ {c} : pc'[d] = pc[d]
  BY <1>2, <1>3
<1>5. Sound(c)
  BY DEF IInv, TokenInv
<1>6. Sound(c)'
  BY <1>1, <1>4, <1>5 DEF Sound
<1>7. QED
  BY <1>1, <1>4, <1>6, Locality DEF IInv

(* TokenInv and KeystoreInv are preserved by the calls of the application. *)
LEMMA InvUser ==
  ASSUME IInv, NEW c \in Conn, UserStep(c)
  PROVE  TokenInv' /\ KeystoreInv'
<1> USE MaxGrantAssumption
<1> USE DEF IInv, TypeOK, Grant, TokenInv, Sound, KeystoreInv
<1>1. CASE Connect(c)
  BY <1>1 DEF Connect, server
<1>2. CASE Call(c)
  BY <1>2 DEF Call, server
<1>3. CASE SetExpired(c)
  BY <1>3 DEF SetExpired, server
<1>4. CASE OtherCall(c)
  BY <1>4 DEF OtherCall, server
<1>5. CASE Disconnect(c)
  BY <1>5 DEF Disconnect, Discard, server
<1>6. QED
  BY <1>1, <1>2, <1>3, <1>4, <1>5 DEF UserStep

(* TokenInv and KeystoreInv are preserved by a wait without a code.        *)
LEMMA InvNoCode ==
  ASSUME IInv, NEW c \in Conn, NEW err \in BOOLEAN, NoCode(c, err)
  PROVE  TokenInv' /\ KeystoreInv'
<1> USE MaxGrantAssumption
<1> USE DEF IInv, TypeOK, Grant, TokenInv, Sound, KeystoreInv
<1>1. CASE err = TRUE
  <2>1. ConnectFails(c, TRUE) /\ UNCHANGED <<keystore, server, lapsed>>
    BY <1>1 DEF NoCode
  <2>2. QED
    BY <2>1 DEF ConnectFails, Discard, server
<1>2. CASE err = FALSE
  <2>1. ConnectReturns(c) /\ UNCHANGED <<token, zeroed, refused, keystore, server>>
    BY <1>2 DEF NoCode
  <2>2. QED
    BY <2>1 DEF ConnectReturns, server
<1>3. QED
  BY <1>1, <1>2

(* TokenInv and KeystoreInv are preserved by connecting.                   *)
LEMMA InvConnect ==
  ASSUME IInv, NEW c \in Conn, ConnectStep(c)
  PROVE  TokenInv' /\ KeystoreInv'
<1> USE MaxGrantAssumption
<1> USE DEF IInv, TypeOK, Grant, TokenInv, Sound, KeystoreInv
<1>1. CASE ConnectRefused(c)
  BY <1>1 DEF ConnectRefused, ConnectFails, Discard, server
<1>2. CASE Load(c)
  <2>1. CASE ConnectFails(c, TRUE)
    BY <1>2, <2>1 DEF Load, ConnectFails, Discard, server
  <2>2. CASE pc' = [pc EXCEPT ![c] = "request"]
    <3>1. RestoredGrant(c) \in 0..issued
      BY DEF RestoredGrant
    <3>2. RestoredGrant(c) # 0 => owner[RestoredGrant(c)] = AppOf[c]
      BY DEF RestoredGrant
    <3>3. /\ token' = [token EXCEPT ![c] = RestoredGrant(c)]
          /\ zeroed' = [zeroed EXCEPT ![c] = (RestoredGrant(c) = 0)]
          /\ refused[c] = {}
          /\ UNCHANGED <<refused, keystore, issued, owner>>
      BY <1>2, <2>2 DEF Load, ConnectFails, Discard, server
    <3>4. QED
      BY <2>2, <3>1, <3>2, <3>3
  <2>3. QED
    BY <1>2, <2>1, <2>2 DEF Load
<1>3. CASE AlreadyAuthorized(c)
  BY <1>3 DEF AlreadyAuthorized, ConnectReturns, server
<1>4. CASE AskUser(c)
  BY <1>4 DEF AskUser, server
<1>5. CASE NoServer(c)
  <2>1. PICK err \in {hive_error[c], TRUE} : NoCode(c, err)
    BY <1>5 DEF NoServer
  <2> HIDE DEF TypeOK, TokenInv, Sound, KeystoreInv
  <2>2. TypeOK
    OBVIOUS
  <2> HIDE DEF IInv
  <2>3. err \in BOOLEAN
    BY <2>1, <2>2, ErrorCode
  <2>4. QED
    BY <2>1, <2>3, InvNoCode
<1>6. CASE UserGaveNoCode(c)
  <2>1. PICK err \in {hive_error[c], TRUE} : NoCode(c, err)
    BY <1>6 DEF UserGaveNoCode
  <2> HIDE DEF TypeOK, TokenInv, Sound, KeystoreInv
  <2>2. TypeOK
    OBVIOUS
  <2> HIDE DEF IInv
  <2>3. err \in BOOLEAN
    BY <2>1, <2>2, ErrorCode
  <2>4. QED
    BY <2>1, <2>3, InvNoCode
<1>7. CASE UserGaveCode(c)
  BY <1>7 DEF UserGaveCode, server
<1>8. CASE Redeem(c)
  BY <1>8, InvTakeGrant DEF Redeem
<1>9. CASE RedeemFails(c)
  BY <1>9 DEF RedeemFails, ConnectFails, Discard, server
<1>10. QED
  BY <1>1, <1>2, <1>3, <1>4, <1>5, <1>6, <1>7, <1>8, <1>9 DEF ConnectStep

(* A keystore that holds all of what c wrote satisfies KeystoreInv.        *)
LEMMA InvOfWritten ==
  ASSUME IInv, NEW c \in Conn, pc[c] = "write", keystore' = Written(c),
         issued' = issued, owner' = owner
  PROVE  KeystoreInv'
<1>1. token[c] \in 1..issued /\ owner[token[c]] = AppOf[c]
  <2>1. Sound(c)
    BY DEF IInv, TokenInv
  <2>2. issued \in Nat
    BY MaxGrantAssumption DEF IInv, TypeOK
  <2>3. QED
    BY <2>1, <2>2 DEF Sound
<1>2. keystore'.grant = token[c] /\ keystore'.app = AppOf[c]
  BY DEF Written, Stored
<1>3. QED
  BY <1>1, <1>2 DEF KeystoreInv

(* TokenInv and KeystoreInv are preserved by oauth_writeback.              *)
LEMMA InvWriteback ==
  ASSUME IInv, NEW c \in Conn, WritebackStep(c)
  PROVE  TokenInv' /\ KeystoreInv'
<1>1. CASE Open(c)
  BY <1>1 DEF Open, Torn, server, IInv, TypeOK, TokenInv, Sound, KeystoreInv
<1>2. CASE OpenFails(c)
  <2>1. KeystoreInv'
    BY <1>2 DEF OpenFails, server, IInv, KeystoreInv
  <2>2. TokenInv'
    BY <1>2, InvWritten DEF OpenFails
  <2>3. QED
    BY <2>1, <2>2
<1>3. CASE Write(c)
  <2>1. pc[c] = "write" /\ UNCHANGED <<token, zeroed, refused, server>>
    BY <1>3 DEF Write
  <2>2. keystore' = Written(c)
    BY <1>3 DEF Write
  <2>3. KeystoreInv'
    BY <2>1, <2>2, InvOfWritten DEF server
  <2>4. TokenInv'
    BY <1>3, InvWritten DEF Write
  <2>5. QED
    BY <2>3, <2>4
<1>4. CASE WriteFails(c)
  <2>1. pc[c] = "write" /\ UNCHANGED <<token, zeroed, refused, server>>
    BY <1>4 DEF WriteFails
  <2>2. keystore' = keystore \/ keystore'.kind = "torn" \/ keystore' = Written(c)
    BY <1>4 DEF WriteFails, Torn
  <2>3. ASSUME keystore' = Written(c) PROVE KeystoreInv'
    BY <2>1, <2>3, InvOfWritten DEF server
  <2>4. ASSUME keystore' = keystore \/ keystore'.kind = "torn" PROVE KeystoreInv'
    BY <2>1, <2>4 DEF server, IInv, KeystoreInv
  <2>5. TokenInv'
    BY <1>4, InvWritten DEF WriteFails
  <2>6. QED
    BY <2>2, <2>3, <2>4, <2>5
<1>5. QED
  BY <1>1, <1>2, <1>3, <1>4 DEF WritebackStep

(* TokenInv and KeystoreInv are preserved by an operation.                 *)
LEMMA InvOperation ==
  ASSUME IInv, NEW c \in Conn, OperationStep(c)
  PROVE  TokenInv' /\ KeystoreInv'
<1> USE MaxGrantAssumption
<1> USE DEF IInv, TypeOK, Grant, TokenInv, Sound, KeystoreInv
<1>1. CASE CheckExpire(c)
  BY <1>1 DEF CheckExpire, server, Expired
<1>2. CASE Refresh(c)
  BY <1>2, InvTakeGrant DEF Refresh
<1>3. CASE RefreshFails(c)
  BY <1>3 DEF RefreshFails, OperationFails, server
<1>4. CASE Accepted(c)
  BY <1>4 DEF Accepted, server
<1>5. CASE Unauthorized(c)
  BY <1>5 DEF Unauthorized, OperationFails, server
<1>6. CASE OtherError(c)
  BY <1>6 DEF OtherError, OperationFails, server
<1>7. CASE EmptyAnswer(c)
  BY <1>7 DEF EmptyAnswer, server
<1>8. QED
  BY <1>1, <1>2, <1>3, <1>4, <1>5, <1>6, <1>7 DEF OperationStep

(* TokenInv and KeystoreInv are preserved by a crash of the process.       *)
LEMMA InvCrash ==
  ASSUME IInv, NEW c \in Conn, Crash(c)
  PROVE  TokenInv' /\ KeystoreInv'
  BY MaxGrantAssumption
  DEF IInv, TypeOK, Grant, TokenInv, Sound, KeystoreInv, Crash, Discard, server

(* TokenInv and KeystoreInv are preserved by the clock and the service.    *)
LEMMA InvEnvironment ==
  ASSUME IInv, NEW g \in Grant, Lapse(g) \/ Revoke(g)
  PROVE  TokenInv' /\ KeystoreInv'
  BY DEF IInv, TokenInv, Sound, KeystoreInv, Lapse, Revoke, local, server

(* The inductive invariant holds in every state.                           *)
THEOREM Invariance == Spec => []IInv
<1>1. Init => TokenInv /\ KeystoreInv
  BY DEF Init, TokenInv, Sound, KeystoreInv, Absent
<1>2. IInv /\ [Next]_vars => TokenInv' /\ KeystoreInv'
  <2> SUFFICES ASSUME IInv, [Next]_vars PROVE TokenInv' /\ KeystoreInv'
    OBVIOUS
  <2>1. CASE Next
    BY <2>1, InvUser, InvConnect, InvWriteback, InvOperation, InvCrash, InvEnvironment
       DEF Next
  <2>2. CASE UNCHANGED vars
    BY <2>2 DEF IInv, TokenInv, Sound, KeystoreInv, vars, local, server
  <2>3. QED
    BY <2>1, <2>2
<1>3. Spec => [](TypeOK /\ TokenInv /\ KeystoreInv)
  BY <1>1, <1>2, TypeCorrect, PTL DEF Spec, IInv
<1>4. QED
  BY <1>3, PTL DEF IInv

(* After a 401 the refused access token is never sent again                *)
(* (oauth_token_set_expired before every return of HIVEERR_TRY_AGAIN).     *)
THEOREM RefusedTokensStayHome == Spec => []RefusedNeverResent
<1>1. IInv => RefusedNeverResent
  BY DEF IInv, TokenInv, Sound, RefusedNeverResent
<1>2. QED
  BY <1>1, Invariance, PTL

(* No request carries the NULL access token.                               *)
THEOREM EveryRequestHasTokens == Spec => []SendsWithTokens
<1>1. IInv => SendsWithTokens
  BY DEF IInv, TokenInv, Sound, SendsWithTokens
<1>2. QED
  BY <1>1, Invariance, PTL

(* No connection holds tokens of another client id, although all of them   *)
(* read and write the same keystore (restore_access_token).                *)
THEOREM NoForeignTokens == Spec => []TokensOfOwnApp
<1>1. IInv => TokensOfOwnApp
  BY DEF IInv, TokenInv, Sound, TokensOfOwnApp
<1>2. QED
  BY <1>1, Invariance, PTL

-----------------------------------------------------------------------------
(* Action properties.                                                      *)

(* The step in which onedrive_client_connect returns a connection without  *)
(* tokens: only get_authorize_code returning NULL in a clean thread.       *)
LEMMA TokenlessStep ==
  ASSUME IInv, NEW c \in Conn, ~handle[c], handle'[c], token'[c] = 0, Next
  PROVE  ~hive_error'[c]
<1> USE MaxGrantAssumption
<1> USE DEF IInv, TypeOK, TokenInv, Sound
<1>1. PICK d \in Conn :
        UserStep(d) \/ ConnectStep(d) \/ WritebackStep(d) \/ OperationStep(d) \/ Crash(d)
  BY DEF Next, Lapse, Revoke, local
<1>2. CASE UserStep(d)
  BY <1>2 DEF UserStep, Connect, Call, SetExpired, OtherCall, Disconnect, Discard
<1>3. CASE ConnectStep(d)
  <2>1. CASE NoServer(d) \/ UserGaveNoCode(d)
    <3>1. PICK err \in {hive_error[d], TRUE} : NoCode(d, err)
      BY <2>1 DEF NoServer, UserGaveNoCode
    <3>2. CASE err = TRUE
      BY <3>1, <3>2 DEF NoCode, ConnectFails, Discard
    <3>3. CASE err = FALSE
      BY <3>1, <3>3 DEF NoCode, ConnectReturns
    <3>4. err \in BOOLEAN
      <4> HIDE DEF TypeOK
      <4>1. QED
        BY <3>1, ErrorCode
    <3>5. QED
      BY <3>2, <3>3, <3>4
  <2>2. CASE AlreadyAuthorized(d)
    BY <2>2 DEF AlreadyAuthorized, ConnectReturns
  <2>3. CASE ConnectRefused(d) \/ RedeemFails(d)
    BY <2>3 DEF ConnectRefused, RedeemFails, ConnectFails, Discard
  <2>4. CASE Load(d)
    BY <2>4 DEF Load, ConnectFails, Discard
  <2>5. CASE AskUser(d) \/ UserGaveCode(d) \/ Redeem(d)
    BY <2>5 DEF AskUser, UserGaveCode, Redeem
  <2>6. QED
    BY <1>3, <2>1, <2>2, <2>3, <2>4, <2>5 DEF ConnectStep
<1>4. CASE WritebackStep(d)
  <2>1. pc[d] \in {"open", "write"} /\ UNCHANGED token
    BY <1>4 DEF WritebackStep, Open, OpenFails, Write, WriteFails
  <2>2. token'[d] # 0
    BY <2>1
  <2>3. \A x \in Conn \ {d} : handle'[x] = handle[x]
    BY <1>4 DEF WritebackStep, Open, OpenFails, Write, WriteFails, WritebackDone,
                ConnectReturns
  <2>4. QED
    BY <2>2, <2>3
<1>5. CASE OperationStep(d)
  BY <1>5 DEF OperationStep, CheckExpire, Refresh, RefreshFails, Accepted, Unauthorized,
              OtherError, EmptyAnswer
<1>6. CASE Crash(d)
  BY <1>6 DEF Crash, Discard
<1>7. QED
  BY <1>1, <1>2, <1>3, <1>4, <1>5, <1>6

(* onedrive_client_connect returns a connection without tokens only to a   *)
(* thread whose error code is 0.                                           *)
THEOREM TokenlessOnlyThen == Spec => TokenlessOnlyInCleanThread
<1>1. IInv /\ [Next]_vars =>
        [\A c \in Conn : ~handle[c] /\ handle'[c] /\ token'[c] = 0 => ~hive_error'[c]]_vars
  BY TokenlessStep
<1>2. QED
  BY <1>1, Invariance, PTL DEF Spec, TokenlessOnlyInCleanThread

(* Once the keystore is unreadable, no connect repairs it and none gets    *)
(* past load_keystore_in_json.                                             *)
THEOREM LockOutIsPermanent == Spec => LockedOutStays
<1>1. TypeOK /\ [Next]_vars => [LockedOut => LockedOut']_vars
  <2> SUFFICES ASSUME TypeOK, Next, LockedOut PROVE LockedOut'
    OBVIOUS
  <2> USE DEF TypeOK, LockedOut, Readable
  <2>1. ASSUME NEW c \in Conn, UserStep(c) PROVE LockedOut'
    BY <2>1 DEF UserStep, Connect, Call, SetExpired, OtherCall, Disconnect
  <2>2. ASSUME NEW c \in Conn, ConnectStep(c) PROVE LockedOut'
    <3>1. ConnectRefused(c) \/ Load(c)
      BY <2>2 DEF ConnectStep, AlreadyAuthorized, AskUser, NoServer, UserGaveNoCode,
                  UserGaveCode, Redeem, RedeemFails
    <3>2. UNCHANGED keystore /\ pc' = [pc EXCEPT ![c] = "off"]
      BY <3>1 DEF ConnectRefused, Load, ConnectFails, Discard
    <3>3. QED
      BY <3>2
  <2>3. ASSUME NEW c \in Conn, WritebackStep(c) \/ OperationStep(c) PROVE LockedOut'
    BY <2>3 DEF WritebackStep, Open, OpenFails, Write, WriteFails, OperationStep, CheckExpire,
                Refresh, RefreshFails, Accepted, Unauthorized, OtherError, EmptyAnswer
  <2>4. ASSUME NEW c \in Conn, Crash(c) PROVE LockedOut'
    BY <2>4 DEF Crash, Discard
  <2>5. ASSUME NEW g \in Grant, Lapse(g) \/ Revoke(g) PROVE LockedOut'
    BY <2>5 DEF Lapse, Revoke, local
  <2>6. QED
    BY <2>1, <2>2, <2>3, <2>4, <2>5 DEF Next
<1>2. QED
  BY <1>1, TypeCorrect, PTL DEF Spec, LockedOutStays

-----------------------------------------------------------------------------
(* One connection alone with its keystore.  Wherever it neither is writing *)
(* the file nor has logged that it could not, the file holds its tokens,   *)
(* and is too long for the loader only if they are; the wait for the       *)
(* browser begins without any, and so does a connection it hands out when  *)
(* no code came.                                                           *)

OneConnection == \A c, d \in Conn : c = d

Kept(c) ==
    /\ keystore.kind = "json" /\ keystore.app = AppOf[c] /\ keystore.grant = token[c]
    /\ keystore.big => token[c] \in Oversize

SavedInv ==
    \A c \in Conn :
        /\ pc[c] \in {"off", "load", "authorize", "redeem"} => token[c] = 0
        /\ pc[c] = "write" => ~keystore.big
        /\ pc[c] \in {"request", "idle", "check", "refresh", "send", "fault"}
              /\ token[c] # 0 /\ ~unsaved[c] => Kept(c)

LEMMA SavedUser ==
  ASSUME TypeOK, SavedInv, OneConnection, NEW c \in Conn, UserStep(c)
  PROVE  SavedInv'
<1> USE DEF TypeOK, SavedInv, OneConnection, Kept
<1>1. CASE Connect(c)
  BY <1>1 DEF Connect
<1>2. CASE Call(c)
  BY <1>2 DEF Call
<1>3. CASE SetExpired(c)
  BY <1>3 DEF SetExpired
<1>4. CASE OtherCall(c)
  BY <1>4 DEF OtherCall
<1>5. CASE Disconnect(c)
  BY <1>5 DEF Disconnect, Discard
<1>6. QED
  BY <1>1, <1>2, <1>3, <1>4, <1>5 DEF UserStep

(* A wait that ended without a code hands out nothing or a connection      *)
(* without tokens.                                                         *)
LEMMA SavedNoCode ==
  ASSUME TypeOK, SavedInv, OneConnection, NEW c \in Conn, token[c] = 0,
         NEW err \in BOOLEAN, NoCode(c, err)
  PROVE  SavedInv'
<1> USE DEF TypeOK, SavedInv, OneConnection, Kept
<1>1. token' \in [Conn -> 0..MaxGrant] /\ token'[c] = 0
  <2>1. CASE err = TRUE
    BY <2>1, MaxGrantAssumption DEF NoCode, ConnectFails, Discard
  <2>2. CASE err = FALSE
    BY <2>2 DEF NoCode
  <2>3. QED
    BY <2>1, <2>2
<1>2. pc' \in [Conn -> Pc] /\ pc'[c] # "write"
  <2>1. CASE err = TRUE
    BY <2>1 DEF NoCode, ConnectFails, Discard, Pc
  <2>2. CASE err = FALSE
    BY <2>2 DEF NoCode, ConnectReturns, Pc
  <2>3. QED
    BY <2>1, <2>2
<1>3. \A d \in Conn : token'[d] = 0 /\ pc'[d] # "write"
  BY <1>1, <1>2
<1>4. QED
  BY <1>3

LEMMA SavedConnect ==
  ASSUME TypeOK, SavedInv, OneConnection, NEW c \in Conn, ConnectStep(c)
  PROVE  SavedInv'
<1> USE DEF TypeOK, SavedInv, OneConnection, Kept
<1>1. CASE ConnectRefused(c)
  BY <1>1 DEF ConnectRefused, ConnectFails, Discard
<1>2. CASE Load(c)
  <2>1. CASE ConnectFails(c, TRUE)
    BY <2>1 DEF ConnectFails, Discard
  <2>2. CASE token' = [token EXCEPT ![c] = RestoredGrant(c)] /\ pc' = [pc EXCEPT ![c] = "request"]
             /\ UNCHANGED <<keystore, unsaved>>
    BY <1>2, <2>2 DEF RestoredGrant, Load, Readable, ConnectFails, Discard
  <2>3. QED
    BY <1>2, <2>1, <2>2 DEF Load
<1>3. CASE AlreadyAuthorized(c)
  BY <1>3 DEF AlreadyAuthorized, ConnectReturns
<1>4. CASE AskUser(c)
  BY <1>4 DEF AskUser
<1>5. CASE NoServer(c) \/ UserGaveNoCode(c)
  <2>1. token[c] = 0 /\ \E err \in {hive_error[c], TRUE} : NoCode(c, err)
    BY <1>5 DEF NoServer, UserGaveNoCode
  <2> HIDE DEF TypeOK, SavedInv, OneConnection
  <2>2. QED
    BY <2>1, ErrorCode, SavedNoCode
<1>6. CASE UserGaveCode(c)
  BY <1>6 DEF UserGaveCode
<1>7. CASE Redeem(c)
  BY <1>7 DEF Redeem, TakeGrant
<1>8. CASE RedeemFails(c)
  BY <1>8 DEF RedeemFails, ConnectFails, Discard
<1>9. QED
  BY <1>1, <1>2, <1>3, <1>4, <1>5, <1>6, <1>7, <1>8 DEF ConnectStep

LEMMA SavedWriteback ==
  ASSUME TypeOK, SavedInv, OneConnection, NEW c \in Conn, WritebackStep(c)
  PROVE  SavedInv'
<1> USE DEF TypeOK, SavedInv, OneConnection, Kept
<1>1. CASE Open(c)
  BY <1>1 DEF Open, Torn
<1>2. CASE OpenFails(c) \/ WriteFails(c)
  <2>1. unsaved' = [unsaved EXCEPT ![c] = TRUE] /\ pc'[c] \in {"send", "idle"}
    BY <1>2 DEF OpenFails, WriteFails, WritebackDone, ConnectReturns
  <2>2. \A d \in Conn : unsaved'[d] /\ pc'[d] \in {"send", "idle"}
    BY <2>1
  <2>3. QED
    BY <2>2
<1>3. CASE Write(c)
  <2>1. keystore' = Written(c) /\ token' = token /\ pc'[c] \in {"send", "idle"} /\ ~keystore.big
    BY <1>3 DEF Write, WritebackDone, ConnectReturns
  <2>2. Kept(c)'
    BY <2>1 DEF Written, Stored
  <2>3. QED
    BY <2>1, <2>2
<1>4. QED
  BY <1>1, <1>2, <1>3 DEF WritebackStep

LEMMA SavedOperation ==
  ASSUME TypeOK, SavedInv, OneConnection, NEW c \in Conn, OperationStep(c)
  PROVE  SavedInv'
<1> USE DEF TypeOK, SavedInv, OneConnection, Kept
<1>1. CASE CheckExpire(c)
  BY <1>1 DEF CheckExpire
<1>2. CASE Refresh(c)
  BY <1>2 DEF Refresh, TakeGrant
<1>3. CASE RefreshFails(c) \/ Accepted(c) \/ Unauthorized(c) \/ OtherError(c)
  BY <1>3 DEF RefreshFails, Accepted, Unauthorized, OtherError, OperationFails
<1>4. CASE EmptyAnswer(c)
  BY <1>4 DEF EmptyAnswer
<1>5. QED
  BY <1>1, <1>2, <1>3, <1>4 DEF OperationStep

(* What a single connection holds outside oauth_writeback is what the next *)
(* process can load and restores, unless the failed writeback was logged   *)
(* or the tokens are too long for the loader: oauth_writeback is the only  *)
(* writer of the keystore and runs before the new tokens are used.         *)
THEOREM TokensAreSavedOrLogged ==
  ASSUME OneConnection
  PROVE  Spec => []SavedOrLogged
<1>1. Init => SavedInv
  BY DEF Init, SavedInv
<1>2. TypeOK /\ SavedInv /\ [Next]_vars => SavedInv'
  <2> SUFFICES ASSUME TypeOK, SavedInv, [Next]_vars PROVE SavedInv'
    OBVIOUS
  <2>1. ASSUME NEW c \in Conn, UserStep(c) PROVE SavedInv'
    BY <2>1, SavedUser
  <2>2. ASSUME NEW c \in Conn, ConnectStep(c) PROVE SavedInv'
    BY <2>2, SavedConnect
  <2>3. ASSUME NEW c \in Conn, WritebackStep(c) PROVE SavedInv'
    BY <2>3, SavedWriteback
  <2>4. ASSUME NEW c \in Conn, OperationStep(c) PROVE SavedInv'
    BY <2>4, SavedOperation
  <2>5. ASSUME NEW c \in Conn, Crash(c) PROVE SavedInv'
    BY <2>5 DEF Crash, Discard, TypeOK, SavedInv, OneConnection, Kept
  <2>6. CASE (\E g \in Grant : Lapse(g) \/ Revoke(g)) \/ UNCHANGED vars
    BY <2>6 DEF Lapse, Revoke, vars, local, SavedInv, Kept
  <2>7. QED
    BY <2>1, <2>2, <2>3, <2>4, <2>5, <2>6 DEF Next
<1>3. TypeOK /\ SavedInv => SavedOrLogged
  BY DEF TypeOK, Pc, SavedInv, SavedOrLogged, Kept, Readable, RestoredGrant
<1>4. QED
  BY TypeCorrect, <1>1, <1>2, <1>3, PTL DEF Spec
=============================================================================
