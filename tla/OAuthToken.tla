----------------------------- MODULE OAuthToken -----------------------------
(***************************************************************************)
(* The OAuth session of a OneDrive connection: oauth/oauth_token.c and the *)
(* keystore half of vendors/onedrive/onedrive.c.                           *)
(*                                                                         *)
(* A connection is what onedrive_client_connect() builds.  Connections of  *)
(* one data location share the keystore file "<data>/.data/onedrive.json"  *)
(* and nothing else: each has its own oauth_token and is driven by its own *)
(* thread, so the steps of two connections interleave at every system      *)
(* call.  Each action is one stretch of code between two points where      *)
(* another thread, the disk or the network can be observed.                *)
(*                                                                         *)
(* A grant is one answer of the token endpoint: an access and a refresh    *)
(* token, named by the order they were issued in.  0 is "no token" (the    *)
(* NULL pointers of a zeroed struct).                                      *)
(***************************************************************************)
EXTENDS Naturals, FiniteSets

CONSTANTS
    Conn,       \* connections that share one keystore file
    App,        \* client ids
    NoApp,      \* the client id of no application
    AppOf,      \* the client id each connection is configured with
    MaxGrant,   \* bound: grants the token endpoint issues
    Oversize    \* grants whose serialised keystore exceeds 4096 bytes

ASSUME AppOfAssumption == AppOf \in [Conn -> App]
ASSUME NoAppAssumption == NoApp \notin App
ASSUME MaxGrantAssumption == MaxGrant \in Nat
ASSUME OversizeAssumption == Oversize \subseteq Nat

VARIABLES
    pc,         \* what each connection's thread is executing
    handle,     \* TRUE once the HiveConnect was returned to the caller
    token,      \* the grant whose tokens the oauth_token holds, or 0
    zeroed,     \* TRUE when expires_at is {0, 0}
    refused,    \* grants answered with 401 in the life of this oauth_token
    hive_error, \* TRUE when the thread's last-error code is not 0
    result,     \* outcome of the last API call
    unsaved,    \* TRUE when the last writeback of the tokens failed
    keystore,   \* the keystore file
    issued,     \* grants issued so far, in order
    owner,      \* the client id each grant was issued to
    lapsed,     \* grants whose lifetime is over by the local clock
    revoked     \* grants the drive answers with 401 from now on

local == <<pc, handle, token, zeroed, refused, hive_error, result, unsaved>>
server == <<issued, owner, revoked>>
vars == <<local, keystore, server, lapsed>>

-----------------------------------------------------------------------------

Grant == 1..MaxGrant

(* The keystore file.  "torn" stands for every content cJSON_Parse or the  *)
(* size test of load_keystore_in_json refuses: an empty file, a partial    *)
(* one.  "json" is what oauth_writeback writes; big says it is longer than *)
(* the loader's 4096 byte buffer.                                          *)
Absent == [kind |-> "absent", app |-> NoApp, grant |-> 0, big |-> FALSE]
Torn == [kind |-> "torn", app |-> NoApp, grant |-> 0, big |-> FALSE]
Stored(a, g, b) == [kind |-> "json", app |-> a, grant |-> g, big |-> b]

Keystore == [kind : {"absent", "torn", "json"}, app : App \cup {NoApp},
             grant : 0..MaxGrant, big : BOOLEAN]

Readable == keystore.kind = "json" /\ ~keystore.big

(* Variant of Expired that trusts the restored lifetime only.              *)
LapsedOnly(c) == token[c] \in lapsed

Expired(c) == zeroed[c] \/ token[c] \in lapsed

Init ==
    /\ pc = [c \in Conn |-> "off"]
    /\ handle = [c \in Conn |-> FALSE]
    /\ token = [c \in Conn |-> 0]
    /\ zeroed = [c \in Conn |-> TRUE]
    /\ refused = [c \in Conn |-> {}]
    /\ hive_error = [c \in Conn |-> FALSE]
    /\ result = [c \in Conn |-> "none"]
    /\ unsaved = [c \in Conn |-> FALSE]
    /\ keystore = Absent
    /\ issued = 0
    /\ owner = [g \in Grant |-> NoApp]
    /\ lapsed = {}
    /\ revoked = {}

-----------------------------------------------------------------------------
(* Building blocks.  Discard is deref(connect): the oauth_token dies with  *)
(* the connection, the thread keeps its error code.                        *)

(* Variant of Discard: the caller's pointer outlives the connection.       *)
DiscardKeepsHandle(c) ==
    /\ pc' = [pc EXCEPT ![c] = "off"]
    /\ token' = [token EXCEPT ![c] = 0]
    /\ zeroed' = [zeroed EXCEPT ![c] = TRUE]
    /\ refused' = [refused EXCEPT ![c] = {}]
    /\ unsaved' = [unsaved EXCEPT ![c] = FALSE]
    /\ UNCHANGED handle

Discard(c) ==
    /\ pc' = [pc EXCEPT ![c] = "off"]
    /\ handle' = [handle EXCEPT ![c] = FALSE]
    /\ token' = [token EXCEPT ![c] = 0]
    /\ zeroed' = [zeroed EXCEPT ![c] = TRUE]
    /\ refused' = [refused EXCEPT ![c] = {}]
    /\ unsaved' = [unsaved EXCEPT ![c] = FALSE]

(* The connect call returns NULL; err is the thread's error code after it. *)
ConnectFails(c, err) ==
    /\ Discard(c)
    /\ hive_error' = [hive_error EXCEPT ![c] = err]
    /\ result' = [result EXCEPT ![c] = "failed"]

(* The connect call returns the HiveConnect.                               *)
ConnectReturns(c) ==
    /\ pc' = [pc EXCEPT ![c] = "idle"]
    /\ handle' = [handle EXCEPT ![c] = TRUE]
    /\ result' = [result EXCEPT ![c] = "ok"]

(* An operation on the connection returns an error, set by the API layer.  *)
OperationFails(c, res) ==
    /\ pc' = [pc EXCEPT ![c] = "idle"]
    /\ hive_error' = [hive_error EXCEPT ![c] = TRUE]
    /\ result' = [result EXCEPT ![c] = res]

(* The token endpoint issues a new grant to c and decode_access_token      *)
(* replaces every token field with it.                                     *)
TakeGrant(c) ==
    /\ issued < MaxGrant
    /\ issued' = issued + 1
    /\ owner' = [owner EXCEPT ![issued + 1] = AppOf[c]]
    /\ token' = [token EXCEPT ![c] = issued + 1]
    /\ zeroed' = [zeroed EXCEPT ![c] = FALSE]
    /\ pc' = [pc EXCEPT ![c] = "open"]

(* Variant of RestoredGrant without the client id test.                    *)
AnyGrant(c) == IF keystore.kind = "json" THEN keystore.grant ELSE 0

(* restore_access_token: the tokens of the file, unless it belongs to      *)
(* another client id.                                                      *)
RestoredGrant(c) ==
    IF keystore.kind = "json" /\ keystore.app = AppOf[c] THEN keystore.grant ELSE 0

-----------------------------------------------------------------------------
(* onedrive_client_connect                                                 *)

Connect(c) ==
    /\ pc[c] = "off"
    /\ pc' = [pc EXCEPT ![c] = "load"]
    /\ UNCHANGED <<handle, token, zeroed, refused, hive_error, result, unsaved,
                   keystore, server, lapsed>>

(* Invalid options, a data directory that cannot be made, no memory.       *)
ConnectRefused(c) ==
    /\ pc[c] = "load"
    /\ ConnectFails(c, TRUE)
    /\ UNCHANGED <<keystore, server, lapsed>>

(* Variant of Load: an unreadable keystore counts as none.                 *)
LoadUnreadableAsAbsent(c) ==
    /\ pc[c] = "load"
    /\ LET g == IF Readable THEN RestoredGrant(c) ELSE 0
       IN  /\ token' = [token EXCEPT ![c] = g]
           /\ zeroed' = [zeroed EXCEPT ![c] = g = 0]
    /\ pc' = [pc EXCEPT ![c] = "request"]
    /\ UNCHANGED <<handle, refused, hive_error, result, unsaved, keystore, server, lapsed>>

(* load_keystore_in_json and oauth_token_new.                              *)
Load(c) ==
    /\ pc[c] = "load"
    /\ \/ /\ keystore.kind # "absent"
          /\ ~Readable
          /\ ConnectFails(c, TRUE)
       \/ /\ keystore.kind = "absent" \/ Readable
          /\ token' = [token EXCEPT ![c] = RestoredGrant(c)]
          /\ zeroed' = [zeroed EXCEPT ![c] = RestoredGrant(c) = 0]
          /\ pc' = [pc EXCEPT ![c] = "request"]
          /\ UNCHANGED <<handle, refused, hive_error, result, unsaved>>
    /\ UNCHANGED <<keystore, server, lapsed>>

(* oauth_token_request with tokens: nothing to ask.                        *)
AlreadyAuthorized(c) ==
    /\ pc[c] = "request"
    /\ token[c] # 0
    /\ ConnectReturns(c)
    /\ UNCHANGED <<token, zeroed, refused, hive_error, unsaved, keystore, server, lapsed>>

(* get_authorize_code got its local server and waits for the browser.  The *)
(* port is of the redirect URL the connection is configured with.          *)
AskUser(c) ==
    /\ pc[c] = "request"
    /\ token[c] = 0
    /\ pc' = [pc EXCEPT ![c] = "authorize"]
    /\ UNCHANGED <<handle, token, zeroed, refused, hive_error, result, unsaved,
                   keystore, server, lapsed>>

(* Variant of NoCode: a wait without a code is always taken for success.   *)
NoCodeIgnored(c, err) ==
    /\ ConnectReturns(c)
    /\ hive_error' = [hive_error EXCEPT ![c] = err]
    /\ UNCHANGED <<token, zeroed, refused, unsaved, keystore, server, lapsed>>

(* get_authorize_code returned NULL: oauth_token_request returns           *)
(* hive_get_error(), which is 0 when nothing ever set an error in this     *)
(* thread, and onedrive_client_connect tests rc < 0.                       *)
NoCode(c, err) ==
    IF err THEN ConnectFails(c, TRUE) /\ UNCHANGED <<keystore, server, lapsed>>
    ELSE /\ ConnectReturns(c)
         /\ UNCHANGED <<token, zeroed, refused, hive_error, unsaved,
                        keystore, server, lapsed>>

(* sb_new_server fails (the port is taken) and sets no error; a bad URL    *)
(* and a thread that cannot be created do.                                 *)
NoServer(c) ==
    /\ pc[c] = "request"
    /\ token[c] = 0
    /\ \E err \in {hive_error[c], TRUE} : NoCode(c, err)

(* The wait ended without a code: a request with a wrong path or without a *)
(* code sets the error, a stream that just closed does not.                *)
UserGaveNoCode(c) ==
    /\ pc[c] = "authorize"
    /\ \E err \in {hive_error[c], TRUE} : NoCode(c, err)

(* A request with a wrong path in the same wait left its error behind.     *)
UserGaveCode(c) ==
    /\ pc[c] = "authorize"
    /\ pc' = [pc EXCEPT ![c] = "redeem"]
    /\ \E err \in {hive_error[c], TRUE} : hive_error' = [hive_error EXCEPT ![c] = err]
    /\ UNCHANGED <<handle, token, zeroed, refused, result, unsaved,
                   keystore, server, lapsed>>

Redeem(c) ==
    /\ pc[c] = "redeem"
    /\ TakeGrant(c)
    /\ UNCHANGED <<handle, refused, hive_error, result, unsaved, keystore, lapsed, revoked>>

(* redeem_access_token returns an error that nobody passes to              *)
(* hive_set_error.                                                         *)
RedeemFails(c) ==
    /\ pc[c] = "redeem"
    /\ ConnectFails(c, hive_error[c])
    /\ UNCHANGED <<keystore, server, lapsed>>

-----------------------------------------------------------------------------
(* writeback_tokens and oauth_writeback: open with O_TRUNC, then one       *)
(* write.  The return value is only logged.                                *)

WritebackDone(c, failed) ==
    /\ unsaved' = [unsaved EXCEPT ![c] = failed]
    /\ IF handle[c]
       THEN pc' = [pc EXCEPT ![c] = "send"] /\ UNCHANGED <<handle, result>>
       ELSE ConnectReturns(c)

Open(c) ==
    /\ pc[c] = "open"
    /\ keystore' = Torn
    /\ pc' = [pc EXCEPT ![c] = "write"]
    /\ UNCHANGED <<handle, token, zeroed, refused, hive_error, result, unsaved, server, lapsed>>

OpenFails(c) ==
    /\ pc[c] = "open"
    /\ WritebackDone(c, TRUE)
    /\ UNCHANGED <<token, zeroed, refused, hive_error, keystore, server, lapsed>>

(* The string is written from offset 0 with its NUL; whatever another      *)
(* connection wrote meanwhile keeps its length.                            *)
Written(c) == Stored(AppOf[c], token[c], token[c] \in Oversize \/ keystore.big)

Write(c) ==
    /\ pc[c] = "write"
    /\ keystore' = Written(c)
    /\ WritebackDone(c, FALSE)
    /\ UNCHANGED <<token, zeroed, refused, hive_error, server, lapsed>>

(* No byte or only some of them reach the file: all but the NUL, perhaps.  *)
WriteFails(c) ==
    /\ pc[c] = "write"
    /\ keystore' \in {keystore, Torn, Written(c)}
    /\ WritebackDone(c, TRUE)
    /\ UNCHANGED <<token, zeroed, refused, hive_error, server, lapsed>>

-----------------------------------------------------------------------------
(* An operation of the connection: oauth_token_check_expire, then requests *)
(* carrying the bearer token.  One request stands for those of the longer  *)
(* operations, which stop at the first failing one.                        *)

Call(c) ==
    /\ pc[c] = "idle"
    /\ pc' = [pc EXCEPT ![c] = "check"]
    /\ UNCHANGED <<handle, token, zeroed, refused, hive_error, result, unsaved,
                   keystore, server, lapsed>>

(* refresh_access_token takes the length of refresh_token: without tokens  *)
(* that is a NULL pointer and the process dies.                            *)
CheckExpire(c) ==
    /\ pc[c] = "check"
    /\ pc' = [pc EXCEPT ![c] = IF ~Expired(c) THEN "send"
                               ELSE IF token[c] = 0 THEN "fault"
                               ELSE "refresh"]
    /\ UNCHANGED <<handle, token, zeroed, refused, hive_error, result, unsaved,
                   keystore, server, lapsed>>

(* Variant of Refresh that keeps the new tokens in memory only.            *)
RefreshWithoutWriteback(c) ==
    /\ pc[c] = "refresh"
    /\ issued < MaxGrant
    /\ issued' = issued + 1
    /\ owner' = [owner EXCEPT ![issued + 1] = AppOf[c]]
    /\ token' = [token EXCEPT ![c] = issued + 1]
    /\ zeroed' = [zeroed EXCEPT ![c] = FALSE]
    /\ pc' = [pc EXCEPT ![c] = "send"]
    /\ UNCHANGED <<handle, refused, hive_error, result, unsaved, keystore, lapsed, revoked>>

Refresh(c) ==
    /\ pc[c] = "refresh"
    /\ TakeGrant(c)
    /\ UNCHANGED <<handle, refused, hive_error, result, unsaved, keystore, lapsed, revoked>>

RefreshFails(c) ==
    /\ pc[c] = "refresh"
    /\ OperationFails(c, "failed")
    /\ UNCHANGED <<handle, token, zeroed, refused, unsaved, keystore, server, lapsed>>

Accepted(c) ==
    /\ pc[c] = "send"
    /\ token[c] \notin revoked
    /\ pc' = [pc EXCEPT ![c] = "idle"]
    /\ result' = [result EXCEPT ![c] = "ok"]
    /\ UNCHANGED <<handle, token, zeroed, refused, hive_error, unsaved,
                   keystore, server, lapsed>>

(* Variant of Unauthorized without oauth_token_set_expired.                *)
UnauthorizedKeepsExpiry(c) ==
    /\ pc[c] = "send"
    /\ token[c] \in revoked
    /\ refused' = [refused EXCEPT ![c] = @ \cup {token[c]}]
    /\ OperationFails(c, "try_again")
    /\ UNCHANGED <<handle, token, zeroed, unsaved, keystore, server, lapsed>>

(* 401: oauth_token_set_expired and HIVEERR_TRY_AGAIN.                     *)
Unauthorized(c) ==
    /\ pc[c] = "send"
    /\ token[c] \in revoked
    /\ zeroed' = [zeroed EXCEPT ![c] = TRUE]
    /\ refused' = [refused EXCEPT ![c] = @ \cup {token[c]}]
    /\ OperationFails(c, "try_again")
    /\ UNCHANGED <<handle, token, unsaved, keystore, server, lapsed>>

(* A transport error or any other status.                                  *)
OtherError(c) ==
    /\ pc[c] = "send"
    /\ OperationFails(c, "failed")
    /\ UNCHANGED <<handle, token, zeroed, refused, unsaved, keystore, server, lapsed>>

(* A 200 answer without a body, of the token endpoint or to a request that *)
(* reads one: http_client_move_response_body writes through a NULL len and *)
(* the process dies.                                                       *)
EmptyAnswer(c) ==
    /\ pc[c] \in {"redeem", "refresh", "send"}
    /\ pc' = [pc EXCEPT ![c] = "fault"]
    /\ UNCHANGED <<handle, token, zeroed, refused, hive_error, result, unsaved,
                   keystore, server, lapsed>>

(* hive_set_access_token_expired.                                          *)
SetExpired(c) ==
    /\ pc[c] = "idle"
    /\ zeroed' = [zeroed EXCEPT ![c] = TRUE]
    /\ result' = [result EXCEPT ![c] = "ok"]
    /\ UNCHANGED <<pc, handle, token, refused, hive_error, unsaved, keystore, server, lapsed>>

Disconnect(c) ==
    /\ pc[c] = "idle"
    /\ Discard(c)
    /\ result' = [result EXCEPT ![c] = "ok"]
    /\ UNCHANGED <<hive_error, keystore, server, lapsed>>

(* The thread's other API calls: one that fails sets the error code, and   *)
(* hive_clear_error resets it.                                             *)
OtherCall(c) ==
    /\ pc[c] \in {"off", "idle"}
    /\ \E err \in BOOLEAN : hive_error' = [hive_error EXCEPT ![c] = err]
    /\ UNCHANGED <<pc, handle, token, zeroed, refused, result, unsaved, keystore, server, lapsed>>

(* The process of c dies at any point, or has died, and is started again.  *)
Crash(c) ==
    /\ pc[c] # "off"
    /\ Discard(c)
    /\ hive_error' = [hive_error EXCEPT ![c] = FALSE]
    /\ result' = [result EXCEPT ![c] = "none"]
    /\ UNCHANGED <<keystore, server, lapsed>>

-----------------------------------------------------------------------------
(* The environment: lifetimes run out, the service stops honouring tokens. *)

Lapse(g) ==
    /\ g \in 1..issued \ lapsed
    /\ lapsed' = lapsed \cup {g}
    /\ UNCHANGED <<local, keystore, server>>

Revoke(g) ==
    /\ g \in 1..issued \ revoked
    /\ revoked' = revoked \cup {g}
    /\ UNCHANGED <<local, keystore, issued, owner, lapsed>>

ConnectStep(c) ==
    \/ ConnectRefused(c) \/ Load(c) \/ AlreadyAuthorized(c) \/ AskUser(c) \/ NoServer(c)
    \/ UserGaveNoCode(c) \/ UserGaveCode(c) \/ Redeem(c) \/ RedeemFails(c)

WritebackStep(c) == Open(c) \/ OpenFails(c) \/ Write(c) \/ WriteFails(c)

OperationStep(c) ==
    \/ CheckExpire(c) \/ Refresh(c) \/ RefreshFails(c)
    \/ Accepted(c) \/ Unauthorized(c) \/ OtherError(c) \/ EmptyAnswer(c)

UserStep(c) == Connect(c) \/ Call(c) \/ SetExpired(c) \/ OtherCall(c) \/ Disconnect(c)

Next ==
    \/ \E c \in Conn : \/ UserStep(c) \/ ConnectStep(c) \/ WritebackStep(c)
                       \/ OperationStep(c) \/ Crash(c)
    \/ \E g \in Grant : Lapse(g) \/ Revoke(g)

Spec == Init /\ [][Next]_vars

-----------------------------------------------------------------------------
(* Properties.                                                             *)

Pc == {"off", "load", "request", "authorize", "redeem", "open", "write",
       "idle", "check", "refresh", "send", "fault"}

(* Types, and the life cycle of the handle: it exists exactly between the  *)
(* return of onedrive_client_connect and deref(connect).                   *)
TypeOK ==
    /\ pc \in [Conn -> Pc]
    /\ handle \in [Conn -> BOOLEAN]
    /\ token \in [Conn -> 0..MaxGrant]
    /\ zeroed \in [Conn -> BOOLEAN]
    /\ refused \in [Conn -> SUBSET Grant]
    /\ hive_error \in [Conn -> BOOLEAN]
    /\ result \in [Conn -> {"none", "ok", "failed", "try_again"}]
    /\ unsaved \in [Conn -> BOOLEAN]
    /\ keystore \in Keystore
    /\ issued \in 0..MaxGrant
    /\ owner \in [Grant -> App \cup {NoApp}]
    /\ lapsed \in SUBSET Grant
    /\ revoked \in SUBSET Grant
    /\ \A c \in Conn :
          /\ pc[c] \in {"off", "load", "request", "authorize", "redeem"} => ~handle[c]
          /\ pc[c] \in {"idle", "check", "refresh", "send"} => handle[c]

(* After a 401 the connection refreshes before it sends anything: the      *)
(* access token the service refused never goes out again from this         *)
(* oauth_token (oauth_token_set_expired, oauth_token_check_expire).        *)
RefusedNeverResent ==
    \A c \in Conn : pc[c] = "send" => token[c] \notin refused[c]

(* No request is sent with the NULL access token, although a connection    *)
(* without tokens exists: the zeroed expires_at sends it to the refresh.   *)
SendsWithTokens ==
    \A c \in Conn : pc[c] = "send" => token[c] # 0

(* Connections of several client ids share the keystore file and may       *)
(* overwrite each other's, yet none ever holds tokens that were issued to  *)
(* another client id (the client_id test of restore_access_token).         *)
TokensOfOwnApp ==
    \A c \in Conn : token[c] # 0 => owner[token[c]] = AppOf[c]

(* onedrive_client_connect returns a connection without tokens only to a   *)
(* thread whose error code is 0: any earlier error, however old, makes the *)
(* same connect fail (oauth_token_request returns hive_get_error()).       *)
TokenlessOnlyInCleanThread ==
    [][\A c \in Conn : ~handle[c] /\ handle'[c] /\ token'[c] = 0 => ~hive_error'[c]]_vars

(* With one connection, what it holds is what load_keystore_in_json and    *)
(* restore_access_token give the next process, in the middle of a call and *)
(* in the death on an empty answer too.  Excepted are the writeback itself *)
(* (a crash there tears the file), a writeback whose failure was logged,   *)
(* and tokens too long for the loader: LockedOutStays tells what becomes   *)
(* of the first and the last.                                              *)
SavedOrLogged ==
    \A c \in Conn :
        pc[c] \notin {"open", "write"} /\ token[c] \notin {0} \cup Oversize /\ ~unsaved[c] =>
            Readable /\ RestoredGrant(c) = token[c]

(* A keystore cut short by a crash or too long for the loader, and nobody  *)
(* past loading it: every connect fails from then on, none repairs the     *)
(* file or asks the user.                                                  *)
LockedOut ==
    /\ keystore.kind # "absent"
    /\ ~Readable
    /\ \A c \in Conn : pc[c] \in {"off", "load"}

LockedOutStays == [][LockedOut => LockedOut']_vars

(* The scheduler runs every thread; the service answers a repeated refresh *)
(* or request at last; the application retries.                            *)
Fairness ==
    \A c \in Conn :
        /\ WF_vars(Call(c) \/ CheckExpire(c) \/ WritebackStep(c))
        /\ SF_vars(Refresh(c))
        /\ SF_vars(Accepted(c) \/ Unauthorized(c))

FairSpec == Spec /\ Fairness

(* HIVEERR_TRY_AGAIN keeps its promise: an application that repeats the    *)
(* call gets through, unless it gives the connection up or dies.           *)
RetrySucceeds ==
    \A c \in Conn :
        result[c] = "try_again" ~>
            result[c] = "ok" \/ pc[c] \in {"off", "fault"} \/ issued = MaxGrant

(* "Otherwise, return NULL, and a specific error code can be retrieved by  *)
(* calling hive_get_error()" (ela_hive.h:375-376).                         *)
FailedConnectSetsError ==
    [][\A c \in Conn : pc[c] # "off" /\ pc'[c] = "off" /\ result'[c] = "failed" =>
            hive_error'[c]]_vars
=============================================================================
