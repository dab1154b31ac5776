---------------------------- MODULE OneDriveFiles ----------------------------
(***************************************************************************)
(* The file operations of one OneDrive connection (vendors/onedrive/       *)
(* onedrive.c): list_files, put_file_from_buffer, get_file_length,         *)
(* get_file_to_buffer and delete_file, as the requests they consist of.    *)
(* Every action from CheckExpire on is one request with the code around    *)
(* it; between two of them other clients change the drive and the token    *)
(* runs out or is refused.                                                 *)
(*                                                                         *)
(* Microsoft Graph is external.  It lists a folder by pages in the order   *)
(* of the names; a page carries the link to the next one, which stands for *)
(* the last name sent.  An upload session and a download have URLs of      *)
(* their own, on other hosts, that need no token.                          *)
(***************************************************************************)
EXTENDS Naturals, Sequences, FiniteSets

CONSTANTS
    MaxName,    \* names are 1..MaxName, in the order the drive lists them
    PageSize,   \* names on a page
    MaxVersion  \* bound: changes of the drive

ASSUME SizeAssumption == MaxName \in Nat \ {0} /\ PageSize \in Nat \ {0}
ASSUME VersionAssumption == MaxVersion \in Nat

Name == 1..MaxName

VARIABLES
    files,      \* the drive: names in FILES_DIR
    folder,     \* FILES_DIR exists
    version,    \* changes of the drive so far
    expired,    \* oauth_token_is_expired
    refused,    \* the service answers the access token with 401
    pc,         \* the request that is next
    op,         \* the running or last operation
    name,       \* its file
    hdr,        \* headers of the http client
    sent,       \* the last request: its host and its headers
    array,      \* list_files: the names merged so far
    json,       \* its page, 0 for NULL
    next,       \* where next_url points: 0 for the url array, or into a page
    cursor,     \* what next_url stands for: names after this one
    live,       \* pages that were parsed and not deleted
    memfault,   \* observer: a deleted page was read or deleted again
    reported,   \* what the callback of list_files was given
    ended,      \* TRUE when that was followed by NULL
    result,     \* outcome of the last operation
    always,     \* observer: names on the drive all the time since it began
    ever,       \* observer: names on the drive at some time since then
    effect      \* observer: the drive stored or removed the file for it

drive == <<files, folder, version>>
token == <<expired, refused>>
listing == <<array, json, next, cursor, live, memfault>>
outcome == <<reported, ended, result>>
vars == <<drive, token, pc, op, name, hdr, sent, listing, outcome, always, ever, effect>>

Init ==
    /\ folder \in BOOLEAN
    /\ files \in SUBSET Name
    /\ files # {} => folder
    /\ version = 0
    /\ expired \in BOOLEAN
    /\ refused = FALSE
    /\ pc = "idle"
    /\ op = "none"
    /\ name = 1
    /\ hdr = {}
    /\ sent = [host |-> "none", hdr |-> {}]
    /\ array = <<>>
    /\ json = 0
    /\ next = 0
    /\ cursor = 0
    /\ live = {}
    /\ memfault = FALSE
    /\ reported = <<>>
    /\ ended = FALSE
    /\ result = "none"
    /\ always = {}
    /\ ever = {}
    /\ effect = FALSE

-----------------------------------------------------------------------------
(* Calls, returns and requests                                             *)

FirstRequest == [list |-> "page", put_small |-> "upload", put_large |-> "folder",
                 length |-> "info", download |-> "info", delete |-> "delete"]

Call ==
    /\ pc = "idle"
    /\ pc' = "check"
    /\ op' \in DOMAIN FirstRequest
    /\ name' \in Name
    /\ reported' = <<>>
    /\ ended' = FALSE
    /\ result' = "none"
    /\ always' = files
    /\ ever' = files
    /\ effect' = FALSE
    /\ UNCHANGED <<drive, token, hdr, sent, listing>>

(* The operation returns r; its http client is closed.                     *)
Return(r) ==
    /\ pc' = "idle"
    /\ result' = r
    /\ hdr' = {}
    /\ array' = <<>> /\ json' = 0 /\ next' = 0 /\ cursor' = 0

(* A request with the headers set since the handle was new or reset.       *)
Send(host, headers) == sent' = [host |-> host, hdr |-> headers]

Bearer == {"Authorization"}

(* What a request that has to be answered 200 may fail with: a transport   *)
(* error, another status, an answer nobody can parse, no memory; an answer *)
(* without the body that is read kills the process.                        *)
Failures(body) == {"failed"} \cup IF body THEN {"died"} ELSE {}

(* oauth_token_check_expire, which refreshes the token, and                *)
(* http_client_new.                                                        *)
CheckExpire ==
    /\ pc = "check"
    /\ \/ /\ expired' = FALSE
          /\ refused' = (refused /\ ~expired)
          /\ pc' = FirstRequest[op]
          /\ UNCHANGED <<listing, result, hdr>>
       \/ /\ Return("failed")
          /\ expired' \in {expired, FALSE}
          /\ refused' = (refused /\ expired' = expired)
          /\ UNCHANGED <<live, memfault>>
    /\ UNCHANGED <<drive, op, name, sent, reported, ended, always, ever, effect>>

(* A Graph request with a token the service refuses: oauth_token_set_      *)
(* expired and HIVEERR_TRY_AGAIN.                                          *)
Unauthorized(headers) ==
    /\ refused
    /\ Send("graph", headers)
    /\ Return("try_again")
    /\ expired' = TRUE
    /\ UNCHANGED refused

(* The Graph request fails in one of the ways fs.                          *)
GraphFails(headers, fs) ==
    \/ Unauthorized(headers)
    \/ /\ Send("graph", headers)
       /\ \E r \in fs : Return(r)
       /\ UNCHANGED token

-----------------------------------------------------------------------------
(* list_files                                                              *)

Sorted(S) == CHOOSE s \in [1..Cardinality(S) -> S] :
    \A i, j \in 1..Cardinality(S) : i < j => s[i] < s[j]

(* The drive's answer for the names after k: a page, and whether a link to *)
(* the next one comes with it.                                             *)
Rest(k) == Sorted({n \in files : n > k})
HasNextLink(k) == Len(Rest(k)) > PageSize
Page(k) == IF HasNextLink(k) THEN SubSeq(Rest(k), 1, PageSize) ELSE Rest(k)

(* The head of the loop: reset, set_url(next_url), the request, and then   *)
(* the page next_url may point into is deleted.                            *)
PageRequest ==
    /\ pc = "page"
    /\ memfault' = (memfault \/ next \notin live \cup {0} \/ json \notin live \cup {0})

PageFails ==
    /\ PageRequest
    /\ GraphFails(Bearer, Failures(TRUE))
    /\ live' = live \ {json}
    /\ UNCHANGED <<drive, op, name, reported, ended, always, ever, effect>>

(* Two names for pages are enough: no pointer outlives the page after its  *)
(* own.                                                                    *)
NewPage == IF json = 1 THEN 2 ELSE 1

(* Variant of PageFollows that deletes the page at the end of the loop.    *)
PageFollowsDeleted ==
    /\ PageRequest
    /\ ~refused
    /\ HasNextLink(cursor)
    /\ Send("graph", Bearer)
    /\ array' = array \o Page(cursor)
    /\ json' = 0
    /\ next' = NewPage
    /\ cursor' = Page(cursor)[PageSize]
    /\ live' = live \ {json}
    /\ UNCHANGED <<drive, token, pc, op, name, hdr, outcome, always, ever, effect>>

(* Variant of PageFollows that asks for the first page again.              *)
PageFollowsFirst ==
    /\ PageRequest
    /\ ~refused
    /\ HasNextLink(cursor)
    /\ Send("graph", Bearer)
    /\ json' = NewPage
    /\ live' = (live \ {json}) \cup {NewPage}
    /\ UNCHANGED <<drive, token, pc, op, name, hdr, array, next, cursor, outcome, always, ever, effect>>

(* A page with "@odata.nextLink": its items move to the array, and         *)
(* next_url points into it.                                                *)
PageFollows ==
    /\ PageRequest
    /\ ~refused
    /\ HasNextLink(cursor)
    /\ Send("graph", Bearer)
    /\ array' = array \o Page(cursor)
    /\ json' = NewPage
    /\ next' = NewPage
    /\ cursor' = Page(cursor)[PageSize]
    /\ live' = (live \ {json}) \cup {NewPage}
    /\ UNCHANGED <<drive, token, pc, op, name, hdr, outcome, always, ever, effect>>

(* Variant of LastPage that delivers the names of this page only.          *)
LastPageAlone ==
    /\ PageRequest
    /\ ~refused
    /\ folder
    /\ ~HasNextLink(cursor)
    /\ Send("graph", Bearer)
    /\ reported' = Page(cursor)
    /\ ended' = TRUE
    /\ Return("ok")
    /\ live' = live \ {json}
    /\ UNCHANGED <<drive, token, op, name, always, ever, effect>>

(* The page without the link: it is deleted, and __notify_user_files hands *)
(* out every name and NULL, or stops when the callback says so.            *)
LastPage ==
    /\ PageRequest
    /\ ~refused
    /\ folder
    /\ ~HasNextLink(cursor)
    /\ Send("graph", Bearer)
    /\ LET names == array \o Page(cursor)
       IN  \/ reported' = names /\ ended' = TRUE
          \/ /\ \E k \in 1..Len(names) : reported' = SubSeq(names, 1, k)
             /\ ended' = FALSE
    /\ Return("ok")
    /\ live' = live \ {json}
    /\ UNCHANGED <<drive, token, op, name, always, ever, effect>>

-----------------------------------------------------------------------------
(* The drive changes                                                       *)

Observed == always' = always \cap files' /\ ever' = ever \cup files'

Store ==
    /\ version < MaxVersion
    /\ version' = version + 1
    /\ files' = files \cup {name}
    /\ folder' = TRUE
    /\ effect' = TRUE
    /\ Observed

Remove ==
    /\ version < MaxVersion
    /\ version' = version + 1
    /\ files' = files \ {name}
    /\ UNCHANGED folder
    /\ effect' = TRUE
    /\ Observed

Unchanged == UNCHANGED <<drive, always, ever, effect>>

-----------------------------------------------------------------------------
(* put_file_from_buffer.  A file of up to 4 MiB is one PUT; the drive      *)
(* makes the folders on its way.  A failed request may have been carried   *)
(* out.                                                                    *)
UploadFile ==
    /\ pc = "upload"
    /\ \/ GraphFails(Bearer, Failures(FALSE)) /\ Unchanged
       \/ /\ ~refused
          /\ Store
          /\ Send("graph", Bearer)
          /\ Return("ok") \/ Return("failed")
          /\ UNCHANGED token
    /\ UNCHANGED <<op, name, live, memfault, reported, ended>>

(* A larger one takes three requests.  __create_folder: a folder that      *)
(* exists may be answered 200, or with a conflict, which is a failure.     *)
CreateFolder ==
    /\ pc = "folder"
    /\ \/ /\ GraphFails(Bearer \cup {"Content-Type"}, Failures(FALSE))
          /\ UNCHANGED folder
       \/ /\ ~refused
          /\ folder' = TRUE
          /\ Send("graph", Bearer \cup {"Content-Type"})
          /\ \/ /\ pc' = "session"
                /\ hdr' = {}                   \* http_client_reset
                /\ UNCHANGED <<result, array, json, next, cursor>>
             \/ Return("failed")
          /\ UNCHANGED token
    /\ UNCHANGED <<files, version, op, name, live, memfault, reported, ended, always, ever, effect>>

(* Variant of CreateUploadSession without the reset after it.              *)
CreateUploadSessionNoReset ==
    /\ pc = "session"
    /\ ~refused
    /\ Send("graph", hdr \cup Bearer)
    /\ pc' = "session_upload"
    /\ hdr' = hdr \cup Bearer
    /\ UNCHANGED <<drive, token, op, name, listing, outcome, always, ever, effect>>

CreateUploadSession ==
    /\ pc = "session"
    /\ \/ GraphFails(hdr \cup Bearer, Failures(TRUE))
       \/ /\ ~refused
          /\ folder
          /\ Send("graph", hdr \cup Bearer)
          /\ pc' = "session_upload"
          /\ hdr' = {}                         \* http_client_reset
          /\ UNCHANGED <<token, result, array, json, next, cursor>>
    /\ UNCHANGED <<drive, op, name, live, memfault, reported, ended, always, ever, effect>>

(* Variant of UploadToSession that asks for a repetition when no answer    *)
(* came, as the IPFS backend does.                                         *)
UploadToSessionAgain ==
    /\ pc = "session_upload"
    /\ Send("session", hdr \cup {"Content-Range"})
    /\ \/ Unchanged /\ (Return("failed") \/ Return("try_again"))
       \/ Store /\ (Return("ok") \/ Return("try_again"))
    /\ UNCHANGED <<token, op, name, live, memfault, reported, ended>>

(* A transport error and every status other than 200 and 201 are errors of *)
(* their own, HIVEERR_TRY_AGAIN never; the drive may have the file then.   *)
UploadToSession ==
    /\ pc = "session_upload"
    /\ Send("session", hdr \cup {"Content-Range"})
    /\ \/ Unchanged /\ Return("failed")
       \/ Store /\ (Return("ok") \/ Return("failed"))
    /\ UNCHANGED <<token, op, name, live, memfault, reported, ended>>

-----------------------------------------------------------------------------
(* get_file_length, get_file_to_buffer and delete_file                     *)

(* __get_file_info, and what its two callers make of the size.             *)
GetFileInfo ==
    /\ pc = "info"
    /\ \/ GraphFails(Bearer, Failures(TRUE))
       \/ /\ ~refused
          /\ name \in files
          /\ Send("graph", Bearer)
          /\ \/ /\ op = "download"
                /\ pc' = "download"
                /\ hdr' = {}                   \* http_client_reset
                /\ UNCHANGED <<result, array, json, next, cursor>>
             \/ Return("ok")                  \* a length, or an empty file
             \/ op = "download" /\ Return("too_small")
          /\ UNCHANGED token
    /\ Unchanged
    /\ UNCHANGED <<op, name, live, memfault, reported, ended>>

DownloadFile ==
    /\ pc = "download"
    /\ Send("download", hdr)
    /\ Return("ok") \/ Return("failed")
    /\ Unchanged
    /\ UNCHANGED <<token, op, name, live, memfault, reported, ended>>

DeleteFile ==
    /\ pc = "delete"
    /\ \/ GraphFails(Bearer, Failures(FALSE)) /\ Unchanged
       \/ /\ ~refused
          /\ name \in files
          /\ Remove
          /\ Send("graph", Bearer)
          /\ Return("ok") \/ Return("failed")
          /\ UNCHANGED token
    /\ UNCHANGED <<op, name, live, memfault, reported, ended>>

-----------------------------------------------------------------------------
(* The environment                                                         *)

(* Another client adds or removes a file.                                  *)
OtherClient ==
    /\ version < MaxVersion
    /\ version' = version + 1
    /\ \E n \in Name : files' \in {files \cup {n}, files \ {n}}
    /\ folder' = (folder \/ files' # {})
    /\ Observed
    /\ UNCHANGED <<token, pc, op, name, hdr, sent, listing, outcome, effect>>

(* The lifetime of the token is over, or hive_set_access_token_expired.    *)
Lapse ==
    /\ ~expired
    /\ expired' = TRUE
    /\ UNCHANGED <<drive, refused, pc, op, name, hdr, sent, listing, outcome, always, ever, effect>>

Revoke ==
    /\ ~refused
    /\ refused' = TRUE
    /\ UNCHANGED <<drive, expired, pc, op, name, hdr, sent, listing, outcome, always, ever, effect>>

Step ==
    \/ CheckExpire \/ PageFails \/ PageFollows \/ LastPage
    \/ UploadFile \/ CreateFolder \/ CreateUploadSession \/ UploadToSession
    \/ GetFileInfo \/ DownloadFile \/ DeleteFile

Next == Call \/ Step \/ OtherClient \/ Lapse \/ Revoke

Spec == Init /\ [][Next]_vars

(* Every request is answered or fails; the application's callbacks return. *)
FairSpec == Spec /\ WF_vars(Step)

-----------------------------------------------------------------------------
(* Properties.                                                             *)

Pc == {"idle", "check", "page", "upload", "folder", "session", "session_upload",
       "info", "download", "delete"}

HeaderName == {"Authorization", "Content-Type", "Content-Range"}

(* Types; the page list_files holds is the only one alive, and next_url    *)
(* points to the url array or into it.                                     *)
TypeOK ==
    /\ files \in SUBSET Name
    /\ folder \in BOOLEAN
    /\ version \in 0..MaxVersion
    /\ expired \in BOOLEAN
    /\ refused \in BOOLEAN
    /\ pc \in Pc
    /\ op \in {"none"} \cup DOMAIN FirstRequest
    /\ name \in Name
    /\ hdr \in SUBSET HeaderName
    /\ sent \in [host : {"none", "graph", "session", "download"}, hdr : SUBSET HeaderName]
    /\ array \in Seq(Name)
    /\ json \in 0..2
    /\ next \in 0..2
    /\ cursor \in 0..MaxName
    /\ live \in SUBSET (1..2)
    /\ memfault \in BOOLEAN
    /\ reported \in Seq(Name)
    /\ ended \in BOOLEAN
    /\ result \in {"none", "ok", "failed", "try_again", "too_small", "died"}
    /\ always \in SUBSET Name
    /\ ever \in SUBSET Name
    /\ effect \in BOOLEAN
    /\ live = {json} \ {0}
    /\ next \in {0, json}

(* Every page of a listing is deleted once, after the request for the URL  *)
(* inside it was sent and before list_files returns, on every way out.     *)
PagesDeletedOnce ==
    /\ ~memfault
    /\ pc = "idle" => live = {}

Reported == {reported[i] : i \in DOMAIN reported}

(* A listing whose pages were fetched while other clients changed the      *)
(* folder reports no name twice and none that was never there; when it     *)
(* runs to its end, it reports every name that was there all the time.     *)
ListingSound ==
    op = "list" /\ pc = "idle" =>
        /\ Cardinality(Reported) = Len(reported)
        /\ Reported \subseteq ever
        /\ ended => always \subseteq Reported

(* The bearer token goes with every Graph request and never to the hosts   *)
(* of upload sessions and downloads, although the same handle serves both. *)
BearerOnlyToGraph ==
    "Authorization" \in sent.hdr <=> sent.host = "graph"

Writes == {"put_small", "put_large", "delete"}

(* HIVEERR_TRY_AGAIN may be followed by a repetition without the file      *)
(* being stored or removed twice: whichever of the requests met the 401,   *)
(* none before it did so, and a request whose answer was lost after the    *)
(* drive carried it out is reported as another error.  An upload or a      *)
(* removal that returns 0 took place.                                      *)
EffectKnown ==
    pc = "idle" =>
        /\ result = "try_again" => ~effect
        /\ result = "ok" /\ op \in Writes => effect

(* Every operation returns; the loop over the pages ends.                  *)
CallReturns == pc # "idle" ~> pc = "idle"
=============================================================================
